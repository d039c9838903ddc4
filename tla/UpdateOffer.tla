---------------------------- MODULE UpdateOffer -----------------------------
(***************************************************************************)
(* What the supervisor is offered, and what is open behind an offer.       *)
(*                                                                         *)
(* A scan looks for an update on the network or on a medium, opens its     *)
(* image, which takes an entry of the image table, and leaves the one      *)
(* schedule of the process pointing to it.  The component directory of a   *)
(* network update is written to store 0, which stays open: the supervisor  *)
(* takes an open store 0 to mean that the offer needs no new scan.  One    *)
(* call of the supervisor at a time scans, or has the offer downloaded or  *)
(* installed by a thread of the agent.  Scans and threads hold the access  *)
(* mutex; what withdraws an offer does not.                                *)
(***************************************************************************)
EXTENDS Naturals

CONSTANTS
  Entries,         \* of the image table, but for that of the manifest
  None

Free == "free"
INTERNET == "internet"
FILE == "file"
Modes == {INTERNET, FILE}

ASSUME OfferAssumption ==
  /\ Entries \subseteq Nat /\ None \notin Entries
  /\ None \notin Modes \cup {"supervisor", "launch"}

VARIABLES
  image,           \* of each entry: Free, or how its image is delivered
  store0,          \* store 0 is open, for writing
  g_sSchedule,     \* how many updates it has; of the first its mode, its
                   \* handle, and whether that handle's image is still open
  scheduled,       \* s_pCurrentUpdateScheduled points to it
  currentDeliveryMode,
  s_AccessMutex,
  pc,              \* of the supervisor
  after,           \* once it has scanned: the kind of update it reports, or
                   \* "launch"
  worker,          \* of each mode, the thread that downloads or installs
  hImage           \* of the image that a download reads

dirVars == <<image, store0>>
offerVars == <<g_sSchedule, scheduled>>
callVars == <<currentDeliveryMode, pc, after>>
workVars == <<worker, hImage>>
vars == <<dirVars, offerVars, callVars, workVars, s_AccessMutex>>

Pcs == {"idle", INTERNET, FILE, "query", "lines", "line", "scanned", "launch"}

TypeOK ==
  /\ image \in [Entries -> Modes \cup {Free}] /\ store0 \in BOOLEAN
  /\ g_sSchedule \in [uiNumUpdates : 0..1, mode : Modes \cup {None},
                      hImage : Entries \cup {None}, open : BOOLEAN]
  /\ scheduled \in BOOLEAN /\ currentDeliveryMode \in Modes \cup {None}
  /\ s_AccessMutex \in {"supervisor", None} \cup Modes
  /\ pc \in Pcs /\ after \in Modes \cup {"launch", None}
  /\ worker \in [Modes -> {"none", "lock", "work", "download"}]
  /\ hImage \in Entries \cup {None}

Init ==
  /\ image = [e \in Entries |-> Free] /\ store0 = FALSE
  /\ g_sSchedule =
       [uiNumUpdates |-> 0, mode |-> None, hImage |-> None, open |-> FALSE]
  /\ scheduled = FALSE /\ currentDeliveryMode = None /\ s_AccessMutex = None
  /\ pc = "idle" /\ after = None
  /\ worker = [m \in Modes |-> "none"] /\ hImage = None
-----------------------------------------------------------------------------
(* The image table and the schedule.                                       *)

Unused == {e \in Entries : image[e] = Free}
First == CHOOSE e \in Unused : \A f \in Unused : e <= f

\* UtvImageClose of what the schedule's handle stands for, whose ever it is
CloseOffered(table) ==
  /\ image' = [e \in Entries |->
                 IF e = g_sSchedule.hImage THEN Free ELSE table[e]]
  /\ g_sSchedule' = [g_sSchedule EXCEPT !.open = FALSE]

\* UtvProjectSetUpdateSchedule(NULL), which takes no mutex
Withdraw ==
  /\ scheduled' = FALSE
  /\ IF scheduled THEN CloseOffered(image) ELSE UNCHANGED <<image, g_sSchedule>>

\* UtvProjectSetUpdateSchedule of a schedule whose first update has image h: an
\* offer that is still there is closed by the handle that the schedule now has
Offer(mode, h) ==
  /\ scheduled' = TRUE
  /\ image' = [image EXCEPT ![h] = IF scheduled THEN Free ELSE mode]
  /\ g_sSchedule' = [uiNumUpdates |-> 1, mode |-> mode, hImage |-> h,
                     open |-> ~scheduled]
-----------------------------------------------------------------------------
(* The calls of the supervisor.                                            *)

OTAUpdateAvailable ==
  /\ pc = "idle" /\ Withdraw
  /\ pc' = INTERNET /\ after' = INTERNET
  /\ UNCHANGED <<store0, currentDeliveryMode, workVars, s_AccessMutex>>

\* a medium without a redirect file is not looked at
MediaUpdateAvailable ==
  /\ pc = "idle"
  /\ pc' \in {FILE, "scanned"} /\ after' = FILE
  /\ UNCHANGED <<dirVars, offerVars, currentDeliveryMode, workVars,
                 s_AccessMutex>>

\* a component directory already open saves the scan
NeedsScan == ~store0
DownloadScheduledUpdate ==
  /\ pc = "idle" /\ currentDeliveryMode # None
  /\ IF NeedsScan
     THEN /\ Withdraw /\ after' = "launch"
          /\ \/ pc' = currentDeliveryMode
             \/ currentDeliveryMode = FILE /\ pc' = "scanned"
     ELSE pc' = "launch" /\ UNCHANGED <<image, offerVars, after>>
  /\ UNCHANGED <<store0, currentDeliveryMode, workVars, s_AccessMutex>>

\* UtvProjectOnShutdown, with no thread at work; the next call starts the agent
\* again
Shutdown ==
  /\ pc = "idle" /\ \A m \in Modes : worker[m] = "none"
  /\ image' = [e \in Entries |-> Free] /\ scheduled' = FALSE
  /\ g_sSchedule' = [g_sSchedule EXCEPT !.open = FALSE]
  /\ UNCHANGED <<store0, currentDeliveryMode, pc, after, workVars,
                 s_AccessMutex>>
-----------------------------------------------------------------------------
(* A scan, by s_GetScheduleBlocking.                                       *)

\* mutant: a scan does not wait for a thread of the agent
AccessTaken == TRUE
AccessFree == s_AccessMutex = None
NoUpdates == g_sSchedule' = [g_sSchedule EXCEPT !.uiNumUpdates = 0]
ScanLock ==
  /\ pc \in Modes /\ AccessFree
  /\ s_AccessMutex' = "supervisor"
  /\ IF pc = INTERNET THEN pc' = "query" /\ NoUpdates
     ELSE pc' = "lines" /\ UNCHANGED g_sSchedule
  /\ UNCHANGED <<dirVars, scheduled, currentDeliveryMode, after, workVars>>

\* mutant: an early return leaves the mutex locked
KeepAccess == UNCHANGED s_AccessMutex
Unlock == s_AccessMutex' = None
ScanOver == /\ pc' = "scanned" /\ Unlock
            /\ UNCHANGED <<currentDeliveryMode, after, workVars>>

\* UTV_NO_DOWNLOAD withdraws what was offered, an error leaves it
NoDownload == pc = "query" /\ Withdraw /\ ScanOver /\ UNCHANGED store0
ScanFails == pc = "query" /\ ScanOver /\ UNCHANGED <<dirVars, offerVars>>

\* The image of an update opens, and with it the store that its component
\* directory is written to.  The first that has a component for this device is
\* offered.
InternetFound ==
  /\ pc = "query" /\ Unused # {}
  /\ store0' = TRUE
  /\ Offer(INTERNET, First) /\ ScanOver
\* one that disagrees with what was announced, or has no such component, is
\* left open, and the next one is looked at
InternetUnfit ==
  /\ pc = "query" /\ Unused # {}
  /\ store0' = TRUE /\ image' = [image EXCEPT ![First] = INTERNET]
  /\ UNCHANGED <<offerVars, callVars, workVars, s_AccessMutex>>
\* or the image does not open after all, which may be after the store was
InternetUnopened ==
  /\ pc = "query" /\ Unused # {}
  /\ store0' \in BOOLEAN
  /\ UNCHANGED <<image, offerVars, callVars, workVars, s_AccessMutex>>

\* The update files that a medium names are looked at in turn.
NoMoreFiles ==
  /\ pc = "lines" /\ ScanOver /\ UNCHANGED <<dirVars, offerVars>>
NextFile ==
  /\ pc = "lines" /\ pc' = "line"
  /\ NoUpdates
  /\ UNCHANGED <<dirVars, scheduled, currentDeliveryMode, after, workVars,
                 s_AccessMutex>>
\* one that is missing, empty or unreadable withdraws the offer
FileAbsent ==
  /\ pc = "line" /\ pc' = "lines" /\ Withdraw
  /\ UNCHANGED <<store0, currentDeliveryMode, after, workVars, s_AccessMutex>>
\* one that is for another device, whose image is closed again, leaves it
FileIncompatible ==
  /\ pc = "line" /\ pc' = "lines" /\ Unused # {}
  /\ UNCHANGED <<dirVars, offerVars, currentDeliveryMode, after, workVars,
                 s_AccessMutex>>
FileFound ==
  /\ pc = "line" /\ Unused # {}
  /\ Offer(FILE, First) /\ ScanOver /\ UNCHANGED store0
\* no component is accepted: the image is left open, and the schedule, in which
\* nothing was replaced, is offered
FileWithout ==
  /\ pc = "line" /\ Unused # {}
  /\ scheduled' = TRUE
  /\ LET opened == [image EXCEPT ![First] = FILE]
     IN  IF scheduled THEN CloseOffered(opened)
         ELSE image' = opened /\ UNCHANGED g_sSchedule
  /\ ScanOver /\ UNCHANGED store0

\* What a call does with the schedule, which it looks at without the mutex: the
\* supervisor is told of an update of the kind it has asked about.
\* mutant: it is told of any
AnyKind(mode) == TRUE
OfKind(mode) == g_sSchedule.mode = mode
Scanned ==
  /\ pc = "scanned"
  /\ pc' = IF after = "launch" THEN "launch" ELSE "idle"
  /\ after' = None
  /\ currentDeliveryMode' = IF after \in Modes /\ scheduled /\ OfKind(after)
                            THEN after ELSE currentDeliveryMode
  /\ UNCHANGED <<dirVars, offerVars, workVars, s_AccessMutex>>
-----------------------------------------------------------------------------
(* The threads of the agent.                                               *)

\* an update from a medium is not approved for download, and a thread that is
\* still there is not started again
Launch ==
  /\ pc = "launch" /\ pc' = "idle"
  /\ worker' = IF /\ scheduled /\ worker[currentDeliveryMode] = "none"
                  /\ currentDeliveryMode = INTERNET => g_sSchedule.mode # FILE
               THEN [worker EXCEPT ![currentDeliveryMode] = "lock"] ELSE worker
  /\ UNCHANGED <<dirVars, offerVars, currentDeliveryMode, after, hImage,
                 s_AccessMutex>>

WorkerLock(m) ==
  /\ worker[m] = "lock" /\ AccessFree
  /\ s_AccessMutex' = m
  /\ worker' = [worker EXCEPT ![m] = "work"]
  /\ UNCHANGED <<dirVars, offerVars, callVars, hImage>>

WorkerOver(m) == /\ worker' = [worker EXCEPT ![m] = "none"] /\ Unlock
                 /\ UNCHANGED <<scheduled, callVars>>

\* aborted before it began, or the update has become another
NetRefused ==
  /\ worker[INTERNET] = "work"
  /\ WorkerOver(INTERNET) /\ UNCHANGED <<dirVars, g_sSchedule, hImage>>

Download(h) ==
  /\ worker[INTERNET] = "work" /\ g_sSchedule.mode = INTERNET
  /\ worker' = [worker EXCEPT ![INTERNET] = "download"] /\ hImage' = h
  /\ UNCHANGED <<offerVars, callVars, s_AccessMutex>>
\* the image of the schedule's handle, if it is of the right name
UseOffered ==
  /\ g_sSchedule.hImage \in Entries /\ image[g_sSchedule.hImage] = INTERNET
  /\ Download(g_sSchedule.hImage) /\ UNCHANGED dirVars
\* else store 0 and the image are opened again
Reopen ==
  /\ ~g_sSchedule.open /\ Unused # {}
  /\ store0' = TRUE /\ image' = [image EXCEPT ![First] = INTERNET]
  /\ Download(First)
ReopenFails ==
  /\ worker[INTERNET] = "work"
  /\ g_sSchedule.mode = INTERNET /\ ~g_sSchedule.open
  /\ store0' = FALSE
  /\ WorkerOver(INTERNET) /\ UNCHANGED <<image, g_sSchedule, hImage>>

\* complete or failed, a download closes its image and store 0
\* mutant: its image only
LeaveStore == UNCHANGED store0
CloseStore == store0' = FALSE
DownloadOver ==
  /\ worker[INTERNET] = "download"
  /\ image' = [image EXCEPT ![hImage] = Free] /\ CloseStore
  /\ g_sSchedule' = IF g_sSchedule.hImage = hImage
                    THEN [g_sSchedule EXCEPT !.open = FALSE] ELSE g_sSchedule
  /\ hImage' = None /\ WorkerOver(INTERNET)

\* an install closes nothing
InstallOver ==
  /\ worker[FILE] = "work"
  /\ WorkerOver(FILE) /\ UNCHANGED <<dirVars, g_sSchedule, hImage>>

Begin == \/ OTAUpdateAvailable \/ MediaUpdateAvailable
         \/ DownloadScheduledUpdate \/ Shutdown
CallStep == \/ ScanLock \/ NoDownload \/ ScanFails \/ InternetFound
            \/ InternetUnfit \/ InternetUnopened \/ NoMoreFiles \/ NextFile
            \/ FileAbsent \/ FileIncompatible \/ FileFound \/ FileWithout
            \/ Scanned \/ Launch
WorkerStep == \/ NetRefused \/ UseOffered \/ Reopen \/ ReopenFails
              \/ DownloadOver \/ InstallOver
              \/ \E m \in Modes : WorkerLock(m)
Next == Begin \/ CallStep \/ WorkerStep

\* A call goes on and ends its scan, and so does a thread its work, bounded by
\* the timeouts of the network, the lines of a file and the size of an update;
\* none need begin.
Fairness ==
  /\ WF_vars(ScanLock) /\ WF_vars(ScanFails)
  /\ SF_vars(NoMoreFiles) /\ WF_vars(FileAbsent)
  /\ WF_vars(Scanned) /\ WF_vars(Launch)
  /\ WF_vars(NetRefused \/ DownloadOver \/ InstallOver)
  /\ \A m \in Modes : SF_vars(WorkerLock(m))

Spec == Init /\ [][Next]_vars
FairSpec == Spec /\ Fairness
-----------------------------------------------------------------------------
AtWork(m) == worker[m] \in {"work", "download"}

\* What UtvDownloadScheduledUpdate takes from store 0 is true of an update found
\* on the network: while store 0 is open and no download is under way, so is the
\* image that the components of the offer point into.  Across
\* scans that fail or open the images of other updates, offers withdrawn,
\* downloads that end or open the image again, and shutdowns.
NetDirectoryHeld ==
  (/\ scheduled /\ g_sSchedule.uiNumUpdates = 1 /\ g_sSchedule.mode = INTERNET
   /\ store0 /\ worker[INTERNET] = "none") =>
    g_sSchedule.open /\ image[g_sSchedule.hImage] = INTERNET

\* What the supervisor believes it was offered is of the kind that the schedule
\* holds whenever it can act on it, so that no update of the network is
\* installed as one of a medium.
ModeMatches ==
  pc \in {"idle", "launch"} /\ scheduled =>
    g_sSchedule.mode = currentDeliveryMode

\* No scan that goes on beside a thread replaces the update that the thread is
\* downloading or installing in the schedule they share.
OfferStable ==
  [][(\E m \in Modes : AtWork(m)) =>
       g_sSchedule' = [g_sSchedule EXCEPT !.open = g_sSchedule'.open]]_vars

\* Every call returns and every thread that was started ends, whoever waits for
\* the access mutex.
CallsEnd == /\ []<>(pc = "idle")
            /\ \A m \in Modes : []<>(worker[m] = "none")

\* "Is a downloaded component directory already open?", "if not open refresh
\* schedule": with store 0 open the schedule needs no refresh, of whatever kind
\* its update is.
DirectoryHeld ==
  (/\ scheduled /\ store0 /\ \A m \in Modes : worker[m] = "none") =>
    g_sSchedule.open
=============================================================================
