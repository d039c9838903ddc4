--------------------------- MODULE ModuleDownload ---------------------------
(***************************************************************************)
(* The resumable download of an update over the internet: the worker       *)
(* downloadComponentWorkerInternet and its wrapper, the download tracker   *)
(* that tells a later attempt which modules it may skip, the accounting of *)
(* the file being written (UtvPlatformInstallModuleData), the persistent   *)
(* copy of the tracker, and power failures.                                *)
(*                                                                         *)
(* An update is a list of components, a component a list of modules, each  *)
(* with its place in the component's file.  The data in a place is the     *)
(* module version it belongs to (0: no or damaged data), and a CRC is      *)
(* modelled by the data it was computed from.  Every component is approved *)
(* for install and none for storage, the policy jni-interface.c:455 sets.  *)
(***************************************************************************)
EXTENDS Naturals, FiniteSets, FiniteSetsExt

CONSTANTS NComp,       \* components of the update
          Mods,        \* Mods[c]: usModuleCount of component c
          Compatible,  \* components that are compatible with the device
          Versions,    \* module versions the server may offer
          MaxRecords,  \* UTV_PLATFORM_MAX_MODULES
          MaxRetry     \* UTV_PLATFORM_INTERNET_MODULE_RETRY

Comps == 0 .. NComp - 1

ASSUME DownloadAssumption ==
  /\ NComp \in Nat \ {0}
  /\ Mods \in [Comps -> Nat \ {0}]
  /\ Compatible \subseteq Comps
  /\ Versions \subseteq Nat \ {0}
  /\ MaxRecords \in Nat \ {0}
  /\ MaxRetry \in Nat \ {0}

VARIABLES
  file,       \* what a reader of the component files finds in each place
  stored,     \* the tracker in persistent memory
  tracker,    \* g_utvDownloadTracker
  cur,        \* s_pCurrentCompDesc: the component whose file is open
  written,    \* s_uiModulesWritten
  tail,       \* the write still in the stdio buffer of the open file
  pc,         \* where the worker is; "idle": no session
  ver,        \* pUpdate->usModuleVersion
  c, m,       \* the component and the module the worker is at
  slot,       \* pModRecord: index of the record the CRC goes to
  retry,      \* uiModuleRetry
  remaining,  \* downloadRemainingModules
  installed,  \* bComponentsInstalled
  result      \* result of the last session

disk    == <<file, stored>>
session == <<ver, c, m, slot, retry, remaining, installed>>
vars    == <<file, stored, tracker, cur, written, tail, pc, ver, c, m, slot,
             retry, remaining, installed, result>>

Slots   == UNION {{x} \X (0 .. Mods[x] - 1) : x \in Comps}
Wanted  == {s \in Slots : s[1] \in Compatible}
Data    == Versions \cup {0}
None    == NComp        \* s_pCurrentCompDesc is NULL
Dangling == NComp + 1   \* left from a session whose image has been closed

Blank   == [comp |-> 0, mod |-> 0, crc |-> 0]
Record  == [comp : Comps, mod : Nat, crc : Data]
Tracker == [mv : Data, count : 0 .. MaxRecords,
            rec : [1 .. MaxRecords -> Record], sure : BOOLEAN]

\* sure is a history field, for the properties only: FALSE once a recorded
\* module failed its check and the records were kept all the same.
NewTracker == [mv |-> 0, count |-> 0,
               rec |-> [i \in 1 .. MaxRecords |-> Blank], sure |-> TRUE]
NoTail     == [slot |-> <<0, 0>>, data |-> 0]

---------------------------------------------------------------------------
\* The tracker.

\* Forgets every record.  (The code leaves the CRC of a free record as it is.
\* Nothing reads it: it is set before the record is, but for a duplicate,
\* which is never the first match, and for a record made after the tracker is
\* cleared in mid session, which the next session throws out.)
Emptied(mv) == [NewTracker EXCEPT !.mv = mv]

\* Mutant: the tracker is kept whatever version it belongs to.
DownloadStartKeepsAny(v) == [tracker EXCEPT !.mv = v]

\* UtvCoreCommonCompatibilityDownloadStart: a tracker of another version is
\* thrown out, one of this version is kept.
DownloadStart(v) == IF tracker.mv = v THEN tracker ELSE Emptied(v)

\* Only the records in use are written, so only those come back.
Persisted(t) ==
  [t EXCEPT !.rec = [i \in 1 .. MaxRecords |->
                       IF i <= t.count THEN t.rec[i] ELSE Blank]]

\* UtvPlatformPersistWrite: a write that fails leaves the old copy, if the file
\* could not be opened, or one too short to be read back.  Every caller but
\* livesupport.c:338 ignores it.
Persist(t) == stored' \in {Persisted(t), stored, NewTracker}

RecordsOf(x) == {i \in 1 .. tracker.count : tracker.rec[i].comp = x}
Matching(x, y) == {i \in RecordsOf(x) : tracker.rec[i].mod = y}

HasRecord(x, y) == Matching(x, y) # {}

\* Mutant: the record made last instead of the free one after it.
RecordIndexOffByOne(x, y) ==
  IF HasRecord(x, y) THEN Min(Matching(x, y)) ELSE tracker.count

\* findExistingModuleRecord: the first matching record, or the free one
\* after the last.
RecordIndex(x, y) ==
  IF HasRecord(x, y) THEN Min(Matching(x, y)) ELSE tracker.count + 1

\* Mutant: the CRC is not compared, the record alone counts.
RecordedOnly(x, y) == HasRecord(x, y)

\* skipThisModule: the recorded CRC is that of the data in the file.
Intact(x, y) ==
  /\ HasRecord(x, y)
  /\ LET r == tracker.rec[RecordIndex(x, y)]
     IN  r.crc # 0 /\ file[<<x, y>>] = r.crc

\* Mutant: the records of all components are counted.
CountAllMods(x) ==
  IF tracker.count >= MaxRecords THEN {0, 1} ELSE {tracker.count}

\* uiPreviouslyWritten after UtvCoreCommonCompatibilityCountMods, whose error
\* is ignored: with a full tracker the variable is never set.
CountMods(x) ==
  IF tracker.count >= MaxRecords THEN {0, 1} ELSE {Cardinality(RecordsOf(x))}

\* UtvImageInstallModule puts the CRC into the record the worker found, then
\* UtvCoreCommonCompatibilityRecordModuleId takes the next free record.
WithCrc(t) ==
  IF slot <= MaxRecords THEN [t EXCEPT !.rec[slot].crc = ver] ELSE t

RecordModuleId(t) ==
  [t EXCEPT !.count = @ + 1,
            !.rec[t.count + 1] = [@ EXCEPT !.comp = c, !.mod = m]]

---------------------------------------------------------------------------
\* The file of the component being written.

Flushed(f) == IF tail.data = 0 THEN f ELSE [f EXCEPT ![tail.slot] = tail.data]

\* What the files hold once the stdio buffer reaches them.
Content == Flushed(file)

\* What may be in them once the open file has been closed and nothing was made
\* of the errors: all that was in the buffer, part of it or nothing.
Leftovers ==
  {file} \cup
  {[file EXCEPT ![tail.slot] = d] :
     d \in IF tail.data = 0 THEN {} ELSE {0, tail.data}}

Truncated(f, x) == [s \in Slots |-> IF s[1] = x THEN 0 ELSE f[s]]

\* The count only matters up to the module count it is compared with.
Counted(n) == IF n > Mods[c] THEN Mods[c] + 1 ELSE n

\* UtvPlatformInstallModuleData, up to the write of module <<c, m>>: the file
\* contents it finds and the count it starts from.  A file of another
\* component is closed and this one's begun anew; with no file open the
\* tracker tells whether this one is appended to.  The seek before a write
\* flushes what the last one left in the buffer.
Opening(f, w) == [file |-> f, written |-> w]
Openings ==
  IF cur = c THEN {Opening(Flushed(file), written)}
  ELSE IF cur = None
       THEN {Opening(IF prev = 0 THEN Truncated(file, c) ELSE file,
                     Counted(prev)) : prev \in CountMods(c)}
       ELSE {Opening(Truncated(Flushed(file), c), 0)}

---------------------------------------------------------------------------
Init ==
  /\ file = [s \in Slots |-> 0]
  /\ stored = NewTracker
  /\ tracker = NewTracker
  /\ cur = None
  /\ written = 0
  /\ tail = NoTail
  /\ pc = "idle"
  /\ ver = 0
  /\ c = 0
  /\ m = 0
  /\ slot = 1
  /\ retry = MaxRetry
  /\ remaining = FALSE
  /\ installed = FALSE
  /\ result = "none"

\* The locals of the worker end with it.
EndSession ==
  /\ pc' = "idle"
  /\ ver' = 0
  /\ c' = 0
  /\ m' = 0
  /\ slot' = 1
  /\ retry' = MaxRetry
  /\ remaining' = FALSE
  /\ installed' = FALSE

\* A session of version v begins.  A file left open by a session that ended
\* well is still s_pCurrentCompDesc; the new component directory may or may
\* not lie at the old address.
Start(v) ==
  /\ pc = "idle"
  /\ tracker' = [DownloadStart(v) EXCEPT !.sure = @ /\ cur = None]
  /\ cur' \in (IF cur = None THEN {None} ELSE {cur, Dangling})
  /\ pc' = "module"
  /\ ver' = v
  /\ result' = "none"
  /\ UNCHANGED <<file, stored, written, tail, c, m, slot, retry, remaining,
                 installed>>

\* The image cannot be opened: the worker returns before it does anything,
\* the wrapper writes persistent memory.
StartFails ==
  /\ pc = "idle"
  /\ Persist(tracker)
  /\ result' = "failed"
  /\ UNCHANGED <<file, tracker, cur, written, tail, pc, session>>

AtModule == pc = "module" /\ c \in Compatible /\ m < Mods[c]

NextComponent ==
  /\ pc = "module"
  /\ c < NComp
  /\ c \in Compatible => m = Mods[c]
  /\ c' = c + 1
  /\ m' = 0
  /\ retry' = MaxRetry
  /\ UNCHANGED <<disk, tracker, cur, written, tail, pc, ver, slot, remaining,
                 installed, result>>

\* A module received by an earlier session is skipped.
SkipModule ==
  /\ AtModule
  /\ ~remaining
  /\ Intact(c, m)
  /\ m' = m + 1
  /\ slot' = RecordIndex(c, m)
  /\ UNCHANGED <<disk, tracker, cur, written, tail, pc, ver, c, retry,
                 remaining, installed, result>>

\* The module is to be downloaded, and so are all after it: there is no
\* record of it, or the check of the recorded one fails (for the data or for
\* want of memory or of a file handle).  If it fails for the first module of
\* a component the tracker is cleared, and persistent memory with it.
SelectModule ==
  /\ AtModule
  /\ LET failed == ~remaining /\ HasRecord(c, m)
         now    == IF ~failed THEN tracker
                   ELSE IF m = 0 THEN Emptied(0)
                   ELSE [tracker EXCEPT !.sure = FALSE]
     IN  /\ tracker' = now
         /\ IF failed /\ m = 0 THEN Persist(now) ELSE UNCHANGED stored
  /\ slot' = RecordIndex(c, m)
  /\ remaining' = TRUE
  /\ pc' = "fetch"
  /\ UNCHANGED <<file, cur, written, tail, ver, c, m, retry, installed,
                 result>>

\* The error returns of the worker: UtvPlatformInstallCleanup closes the file
\* and ignores whether its last data could be written, the wrapper writes
\* persistent memory.
Fail(f, t) ==
  /\ file' = f
  /\ tail' = NoTail
  /\ cur' = None
  /\ written' = 0
  /\ tracker' = t
  /\ Persist(t)
  /\ result' = "failed"
  /\ EndSession

\* The download session cannot be started or breaks off; or the module has
\* come but the file before it cannot be closed, its own not be opened or the
\* buffer not be emptied.
FetchFails ==
  /\ pc = "fetch"
  /\ \E f \in Leftovers : Fail(f, tracker)

\* Mutant: the retries are not counted.
SameRetries == retry

RetriesLeft == retry - 1

\* UTV_BAD_HASH_VALUE: the module is fetched again, so many times.
BadHash ==
  /\ pc = "fetch"
  /\ IF RetriesLeft # 0
     THEN /\ retry' = RetriesLeft
          /\ pc' = "module"
          /\ UNCHANGED <<disk, tracker, cur, written, tail, ver, c, m, slot,
                         remaining, installed, result>>
     ELSE \E f \in Leftovers : Fail(f, tracker)

\* The write or the close after it reports an error: the module's place is
\* as it was, damaged or written all the same.
InstallFails ==
  /\ pc = "fetch"
  /\ \E o \in Openings : \E d \in {o.file[<<c, m>>], 0, ver} :
       Fail([o.file EXCEPT ![<<c, m>>] = d], tracker)

\* The module is written and recorded.  The component's file is closed when
\* the count says that all its modules are there.
Install ==
  /\ pc = "fetch"
  /\ tracker.count < MaxRecords
  /\ \E o \in Openings :
       LET w    == Counted(o.written + 1)
           done == w = Mods[c]
       IN  /\ file' =
                IF done THEN [o.file EXCEPT ![<<c, m>>] = ver] ELSE o.file
           /\ tail' =
                IF done THEN NoTail ELSE [slot |-> <<c, m>>, data |-> ver]
           /\ cur' = IF done THEN None ELSE c
           /\ written' = IF done THEN 0 ELSE w
           /\ installed' = (installed \/ done)
  /\ tracker' = RecordModuleId(WithCrc(tracker))
  /\ m' = m + 1
  /\ retry' = MaxRetry
  /\ pc' = "module"
  /\ UNCHANGED <<stored, ver, c, slot, remaining, result>>

\* UTV_MOD_ID_OVERFLOW: the module is written but there is no record left.
RecordFails ==
  /\ pc = "fetch"
  /\ tracker.count >= MaxRecords
  /\ \E o \in Openings : \E d \in {o.file[<<c, m>>], 0, ver} :
       Fail([o.file EXCEPT ![<<c, m>>] = d], WithCrc(tracker))

\* The last status of the loop is that of the last component: the copy of an
\* incompatible one always fails.
AllWell == NComp - 1 \in Compatible

\* All components are done with.  The tracker is cleared; if a component was
\* completed UtvInstallUpdateComplete validates the hashes the update carries
\* (it may carry none) against the files and announces the update.  A file
\* that is still open stays open.
Finish ==
  /\ pc = "module"
  /\ c = NComp
  /\ tracker' = Emptied(0)
  /\ Persist(Emptied(0))
  /\ result' \in
       IF installed
       THEN {"installed"} \cup
            {r \in {"failed"} : \E s \in Wanted : file[s] # ver}
       ELSE {IF AllWell THEN "complete" ELSE "failed"}
  /\ EndSession
  /\ UNCHANGED <<file, cur, written, tail>>

\* Another thread of the agent writes persistent memory.
OtherPersist ==
  /\ pc # "idle"
  /\ Persist(tracker)
  /\ UNCHANGED <<file, tracker, cur, written, tail, pc, session, result>>

\* Power failure and restart.  Nothing is ever synced: any of the data may be
\* lost, and so may be the persistent memory, which is then set up anew.  (Next
\* lets one crash damage one place; more are lost by crashing again.)
Crash(lost) ==
  /\ file' = [s \in Slots |-> IF s \in lost THEN 0 ELSE file[s]]
  /\ stored' \in {stored, NewTracker}
  /\ tracker' = stored'
  /\ cur' = None
  /\ written' = 0
  /\ tail' = NoTail
  /\ result' = "none"
  /\ EndSession

Worker ==
  \/ NextComponent \/ SkipModule \/ SelectModule
  \/ FetchFails \/ BadHash \/ InstallFails \/ Install \/ RecordFails
  \/ Finish

Next ==
  \/ \E v \in Versions : Start(v)
  \/ StartFails
  \/ Worker
  \/ OtherPersist
  \/ Crash({}) \/ \E s \in Slots : Crash({s})

\* The worker runs to its end once it is started; nothing else is certain.
Spec == Init /\ [][Next]_vars /\ WF_vars(Worker)

---------------------------------------------------------------------------
TypeOK ==
  /\ file \in [Slots -> Data]
  /\ stored \in Tracker
  /\ tracker \in Tracker
  /\ cur \in Comps \cup {None, Dangling}
  /\ written \in Nat
  /\ tail \in [slot : Slots, data : Data]
  /\ pc \in {"idle", "module", "fetch"}
  /\ ver \in Data
  /\ c \in 0 .. NComp
  /\ m \in Nat
  /\ slot \in 1 .. MaxRecords + 1
  /\ retry \in 1 .. MaxRetry
  /\ remaining \in BOOLEAN
  /\ installed \in BOOLEAN
  /\ result \in {"none", "failed", "installed", "complete"}

\* Everything the session has passed, whether skipped or written, by this
\* attempt or an earlier one, is there and of the version under way: neither
\* the truncation of a file, nor the early or late close of one, nor a record
\* that outlived its data leaves a hole.
Passed == {s \in Wanted : s[1] < c \/ (s[1] = c /\ s[2] < m)}
PrefixIntact ==
  pc # "idle" => \A s \in Passed : Content[s] = ver

\* The count of modules written agrees with the worker's position in the
\* component, so that the file is closed and the component reported complete
\* after its last module and not before; as long as no recorded module has
\* failed its check.
CountExact ==
  pc # "idle" /\ tracker.sure /\ cur = c => written = m

\* As long as no recorded module has failed its check, a session that has
\* downloaded something comes to its end with no file open and announces the
\* update.
FinishClean ==
  pc = "module" /\ c = NComp /\ tracker.sure =>
    cur = None /\ (remaining => installed)

\* The count of modules written, counted anew from the tracker whenever a
\* session resumes, stays right (platform-install.c:166, :244).
CountsAgree == CountExact /\ FinishClean

\* A session ends, however often modules arrive damaged.
SessionEnds == pc # "idle" ~> pc = "idle"

\* A session that downloaded modules and reports UTV_DOWNLOAD_COMPLETE has
\* called UtvInstallUpdateComplete: "if components were installed call the
\* platform-specific code that handles this event"
\* (core-common-interactive.c:1206).
CompleteIsAnnounced == [][result' = "complete" => ~remaining]_vars

\* The worker delivers updates as UpdateDelivery promises.
Delivery == INSTANCE UpdateDelivery WITH
  content <- Content,
  target  <- IF pc = "idle" THEN 0 ELSE ver,
  outcome <- result
Delivers == Delivery!Spec
=============================================================================
