---------------------------- MODULE SectionQueue ----------------------------
(***************************************************************************)
(* The section filter: the core thread creates, opens, reads, closes and   *)
(* destroys it (core-broadcast-sectionfilter.c) while the pump thread of   *)
(* the DVB personality (PumpThread) delivers the sections of the hardware  *)
(* into its queue, and a user aborts.                                      *)
(*                                                                         *)
(* None of the fields they share is locked.  The count of the queue is     *)
(* incremented by the one and decremented by the other: a read and a write *)
(* each, with the other thread's in between.                               *)
(***************************************************************************)
EXTENDS Integers, SequencesExt

CONSTANTS
  Core, Pump, User,
  UTV_SECTION_QUEUE_DEPTH,
  CountMod,        \* 2^32 in the code: the semaphore is unsigned
  MaxSections,     \* bound: sections the hardware delivers
  MaxOpens,        \* bound: calls of UtvOpenSectionFilter
  MaxAborts,       \* bound: aborts
  MaxFailures      \* bound: failures of UtvWaitInit and of DMX_STOP

ASSUME ThreadsAssumption == Core # Pump /\ Core # User /\ Pump # User
ASSUME SizesAssumption ==
  /\ UTV_SECTION_QUEUE_DEPTH \in Nat \ {0} /\ CountMod \in Nat \ {0, 1}
  /\ MaxSections \in Nat /\ MaxOpens \in Nat /\ MaxAborts \in Nat
  /\ MaxFailures \in Nat
  /\ CountMod > MaxSections + MaxAborts  \* the signals never wrap the count

Threads == {Core, Pump, User}
Slots == 0 .. UTV_SECTION_QUEUE_DEPTH - 1
Sections == 1 .. MaxSections
NoSection == 0

VARIABLES
  eStatus,             \* UNKNOWN, STOPPED or RUNNING
  pSectionQueue,       \* what each slot holds
  uiSectionQueueInput, uiSectionQueueOutput, uiSectionQueueCount,
  hWait,               \* the wait of the open filter exists
  uiCount,             \* its semaphore
  bSectionFilterOpen, bThreadRunning,
  threadExists,        \* the registry of threads holds PumpThread
  pbSectionBuffer,     \* the buffer PumpThread reads into is allocated
  continues,           \* the scan goes on after an error (DSI, DII) or not
  aborted,             \* UtvGetState() is ABORT
  pc,
  loaded,              \* the count each thread has read
  section,             \* the section in the hand of each thread
  slot,                \* the slot UtvGetSectionData has returned
  sent, opens, aborts, failures,
  delivered, got,      \* history: sections queued, and handed out, since Open
  stopFailed,          \* history: DMX_STOP has failed
  raced,               \* history: an update of the count was lost
  stray,               \* history: a signal went to a wait that is not ours
  failed               \* history: why UtvOpenSectionFilter last failed

indexVars == <<uiSectionQueueInput, uiSectionQueueOutput>>
waitVars == <<hWait, uiCount, stray>>
platformVars == <<bSectionFilterOpen, bThreadRunning, threadExists,
                  pbSectionBuffer>>
failureVars == <<failures, stopFailed>>
boundVars == <<sent, opens, aborts, failureVars>>
historyVars == <<delivered, got, failed>>
vars == <<eStatus, pSectionQueue, indexVars, uiSectionQueueCount, waitVars,
          platformVars, continues, aborted, pc, loaded, section, slot,
          boundVars, historyVars, raced>>

Init ==
  /\ eStatus = "UNKNOWN"
  /\ pSectionQueue = [s \in Slots |-> NoSection]
  /\ uiSectionQueueInput = 0 /\ uiSectionQueueOutput = 0
  /\ uiSectionQueueCount = 0
  /\ hWait = FALSE /\ uiCount = 0
  /\ bSectionFilterOpen = FALSE /\ bThreadRunning = FALSE
  /\ threadExists = FALSE /\ pbSectionBuffer = FALSE
  /\ aborted = FALSE /\ continues = FALSE
  /\ pc = [t \in Threads |-> IF t = Pump THEN "none" ELSE "idle"]
  /\ loaded = [t \in {Core, Pump} |-> 0]
  /\ section = [t \in {Core, Pump} |-> NoSection]
  /\ slot = 0
  /\ sent = 0 /\ opens = 0 /\ aborts = 0 /\ failures = 0
  /\ stopFailed = FALSE
  /\ delivered = <<>> /\ got = <<>>
  /\ raced = FALSE /\ stray = FALSE /\ failed = "no"

Goto(t, l) == pc' = [pc EXCEPT ![t] = l]
Following(i) == (i + 1) % UTV_SECTION_QUEUE_DEPTH
ResetQueue ==
  /\ uiSectionQueueInput' = 0 /\ uiSectionQueueOutput' = 0
  /\ uiSectionQueueCount' = 0
-----------------------------------------------------------------------------
(* UtvCreateSectionFilter and UtvDestroySectionFilter.                     *)

Create ==
  /\ pc[Core] = "idle"
  /\ eStatus' = "STOPPED"
  /\ pbSectionBuffer' = TRUE
  /\ ResetQueue
  /\ UNCHANGED <<pSectionQueue, waitVars, bSectionFilterOpen, bThreadRunning,
                 threadExists, continues, aborted, pc, loaded, section, slot,
                 boundVars, historyVars, raced>>

Destroy ==
  /\ pc[Core] = "idle" /\ eStatus = "STOPPED"
  /\ eStatus' = "UNKNOWN"
  /\ pbSectionBuffer' = FALSE
  /\ UNCHANGED <<pSectionQueue, indexVars, uiSectionQueueCount, waitVars,
                 bSectionFilterOpen, bThreadRunning, threadExists, continues,
                 aborted, pc, loaded, section, slot, boundVars, historyVars,
                 raced>>
-----------------------------------------------------------------------------
(* UtvOpenSectionFilter: empty the queue, create the wait, then start the  *)
(* pump.  When the wait cannot be created the filter stays RUNNING.        *)

OpenReset ==
  /\ pc[Core] = "idle" /\ eStatus = "STOPPED" /\ opens < MaxOpens
  /\ opens' = opens + 1
  /\ ResetQueue
  /\ eStatus' = "RUNNING"
  /\ continues' \in BOOLEAN
  /\ delivered' = <<>> /\ got' = <<>>
  /\ Goto(Core, "openWait")
  /\ UNCHANGED <<pSectionQueue, waitVars, platformVars, aborted, loaded,
                 section, slot, sent, aborts, failureVars, failed, raced>>

OpenWait ==
  /\ pc[Core] = "openWait"
  /\ \/ /\ hWait' = TRUE /\ uiCount' = 0
        /\ Goto(Core, "openPlatform")
        /\ UNCHANGED <<failures, failed>>
     \/ /\ failures < MaxFailures
        /\ failures' = failures + 1
        /\ failed' = "wait"
        /\ Goto(Core, "idle")
        /\ UNCHANGED <<hWait, uiCount>>
  /\ UNCHANGED <<eStatus, pSectionQueue, indexVars, uiSectionQueueCount, stray,
                 platformVars, continues, aborted, loaded, section, slot, sent,
                 opens, aborts, stopFailed, delivered, got, raced>>

\* back in UtvOpenSectionFilter with an error of the personality
OpenFails(reason) ==
  /\ eStatus' = "STOPPED"
  /\ hWait' = FALSE
  /\ failed' = reason
  /\ Goto(Core, "idle")

OpenPlatform ==
  /\ pc[Core] = "openPlatform"
  /\ IF bSectionFilterOpen
     THEN OpenFails("open") /\ UNCHANGED <<bSectionFilterOpen, threadExists>>
     ELSE /\ bSectionFilterOpen' = TRUE
          /\ IF threadExists
             THEN OpenFails("thread") /\ UNCHANGED threadExists
             ELSE /\ threadExists' = TRUE
                  /\ pc' = [pc EXCEPT ![Core] = "get", ![Pump] = "start"]
                  /\ UNCHANGED <<eStatus, hWait, failed>>
  /\ UNCHANGED <<pSectionQueue, indexVars, uiSectionQueueCount, uiCount, stray,
                 bThreadRunning, pbSectionBuffer, continues, aborted, loaded,
                 section, slot, boundVars, delivered, got, raced>>
-----------------------------------------------------------------------------
(* UtvGetSectionData, called in a loop by the scans: test the state, wait  *)
(* for a signal, take the section at the output index, decrement the       *)
(* count.  The scan then parses the section where it is.                   *)

Unqueued == UNCHANGED <<eStatus, pSectionQueue, platformVars, continues,
                        aborted, boundVars, delivered, failed>>

Get ==
  /\ pc[Core] = "get"
  /\ Goto(Core, IF aborted THEN "close" ELSE "wait")
  /\ Unqueued
  /\ UNCHANGED <<indexVars, uiSectionQueueCount, waitVars, loaded, section,
                 slot, got, raced>>

Wait ==
  /\ pc[Core] = "wait"
  /\ IF uiCount = 0
     THEN Goto(Core, "blocked") /\ UNCHANGED uiCount
     ELSE /\ uiCount' = uiCount - 1
          /\ Goto(Core, "check")
  /\ Unqueued
  /\ UNCHANGED <<indexVars, uiSectionQueueCount, hWait, stray, loaded, section,
                 slot, got, raced>>

Woken ==
  /\ pc[Core] = "woken"
  /\ uiCount' = (uiCount - 1) % CountMod
  /\ Goto(Core, "check")
  /\ Unqueued
  /\ UNCHANGED <<indexVars, uiSectionQueueCount, hWait, stray, loaded, section,
                 slot, got, raced>>

\* what a scan does after an error: the time left may not be quite zero
AfterError == IF continues THEN {"get", "close"} ELSE {"close"}

Timeout ==
  /\ pc[Core] = "blocked"
  /\ uiCount' = (uiCount - 1) % CountMod
  /\ \E l \in IF aborted THEN {"close"} ELSE AfterError : Goto(Core, l)
  /\ Unqueued
  /\ UNCHANGED <<indexVars, uiSectionQueueCount, hWait, stray, loaded, section,
                 slot, got, raced>>

\* the wait returned UTV_OK
Check ==
  /\ pc[Core] = "check"
  /\ \E l \in IF aborted THEN {"close"}
              ELSE IF uiSectionQueueCount = 0 THEN AfterError
              ELSE {"take"} : Goto(Core, l)
  /\ Unqueued
  /\ UNCHANGED <<indexVars, uiSectionQueueCount, waitVars, loaded, section,
                 slot, got, raced>>

\* mutant: the output index is not advanced
TakeSame ==
  /\ pc[Core] = "take"
  /\ slot' = uiSectionQueueOutput
  /\ section' = [section EXCEPT ![Core] = pSectionQueue[slot']]
  /\ got' = Append(got, section'[Core])
  /\ loaded' = [loaded EXCEPT ![Core] = uiSectionQueueCount]
  /\ Goto(Core, "decrement")
  /\ Unqueued
  /\ UNCHANGED <<indexVars, uiSectionQueueCount, waitVars, raced>>

Take ==
  /\ pc[Core] = "take"
  /\ slot' = uiSectionQueueOutput
  /\ section' = [section EXCEPT ![Core] = pSectionQueue[slot']]
  /\ got' = Append(got, section'[Core])
  /\ uiSectionQueueOutput' = Following(uiSectionQueueOutput)
  /\ loaded' = [loaded EXCEPT ![Core] = uiSectionQueueCount]
  /\ Goto(Core, "decrement")
  /\ Unqueued
  /\ UNCHANGED <<uiSectionQueueInput, uiSectionQueueCount, waitVars, raced>>

\* a thread writes the count it has read, and perhaps what came in between
StoreCount(t, n) ==
  /\ uiSectionQueueCount' = n
  /\ raced' = (raced \/ uiSectionQueueCount # loaded[t])

Decrement ==
  /\ pc[Core] = "decrement"
  /\ StoreCount(Core, loaded[Core] - 1)
  /\ Goto(Core, "parse")
  /\ Unqueued
  /\ UNCHANGED <<indexVars, waitVars, loaded, section, slot, got>>

\* it was the section the scan wanted, or not yet
Parse ==
  /\ pc[Core] = "parse"
  /\ section' = [section EXCEPT ![Core] = NoSection]
  /\ \E l \in {"get", "close"} : Goto(Core, l)
  /\ Unqueued
  /\ UNCHANGED <<indexVars, uiSectionQueueCount, waitVars, loaded, slot, got,
                 raced>>
-----------------------------------------------------------------------------
(* UtvCloseSectionFilter: stop the pump, join it, destroy the wait.  The   *)
(* result of the personality is ignored.                                   *)

Uncounted == UNCHANGED <<pSectionQueue, indexVars, uiSectionQueueCount,
                         continues, aborted, loaded, section, slot, sent,
                         opens, aborts, historyVars, raced>>

\* mutant: the wait is destroyed before the pump is stopped
CloseWaitFirst ==
  /\ pc[Core] = "close"
  /\ eStatus' = "STOPPED"
  /\ bSectionFilterOpen' = FALSE
  /\ hWait' = FALSE
  /\ Goto(Core, "closeJoin")
  /\ Uncounted
  /\ UNCHANGED <<uiCount, stray, bThreadRunning, threadExists, pbSectionBuffer,
                 failureVars>>

\* mutant: the pump is not told to stop
CloseUntold ==
  /\ pc[Core] = "close"
  /\ eStatus' = "STOPPED"
  /\ Goto(Core, "closeJoin")
  /\ Uncounted
  /\ UNCHANGED <<waitVars, platformVars, failureVars>>

Close ==
  /\ pc[Core] = "close"
  /\ eStatus' = "STOPPED"
  /\ bSectionFilterOpen' = FALSE
  /\ \/ Goto(Core, "closeJoin") /\ UNCHANGED failureVars
     \/ /\ bSectionFilterOpen /\ failures < MaxFailures  \* DMX_STOP fails
        /\ failures' = failures + 1 /\ stopFailed' = TRUE
        /\ Goto(Core, "closeWait")
  /\ Uncounted
  /\ UNCHANGED <<waitVars, bThreadRunning, threadExists, pbSectionBuffer>>

\* The loop of ten seconds, longer than a poll takes, then the join: a pump
\* that had not even started when the loop looked is waited for here.
CloseJoin ==
  /\ pc[Core] = "closeJoin"
  /\ ~bThreadRunning
  /\ pc[Pump] = "ended"
  /\ Goto(Core, "closeWait")
  /\ Uncounted
  /\ UNCHANGED <<eStatus, waitVars, platformVars, failureVars>>

CloseWait ==
  /\ pc[Core] = "closeWait"
  /\ hWait' = FALSE
  /\ Goto(Core, "idle")
  /\ Uncounted
  /\ UNCHANGED <<eStatus, uiCount, stray, platformVars, failureVars>>
-----------------------------------------------------------------------------
(* PumpThread, and UtvDeliverSectionFilterDataWork which it calls.         *)

Unread == UNCHANGED <<eStatus, bSectionFilterOpen, threadExists,
                      pbSectionBuffer, continues, aborted, slot, opens, aborts,
                      failureVars, got, failed>>

PumpStart ==
  /\ pc[Pump] = "start"
  /\ bThreadRunning' = TRUE
  /\ Goto(Pump, "loop")
  /\ Unread
  /\ UNCHANGED <<pSectionQueue, indexVars, uiSectionQueueCount, waitVars,
                 loaded, section, sent, delivered, raced>>

PumpLoop ==
  /\ pc[Pump] = "loop"
  /\ Goto(Pump, IF bSectionFilterOpen THEN "read" ELSE "exit")
  /\ Unread
  /\ UNCHANGED <<pSectionQueue, indexVars, uiSectionQueueCount, waitVars,
                 bThreadRunning, loaded, section, sent, delivered, raced>>

\* poll and read: a section, or none that will be delivered
PumpRead ==
  /\ pc[Pump] = "read"
  /\ \/ Goto(Pump, "loop") /\ UNCHANGED <<section, sent>>
     \/ /\ sent < MaxSections
        /\ sent' = sent + 1
        /\ section' = [section EXCEPT ![Pump] = sent']
        /\ Goto(Pump, "deliver")
  /\ Unread
  /\ UNCHANGED <<pSectionQueue, indexVars, uiSectionQueueCount, waitVars,
                 bThreadRunning, loaded, delivered, raced>>

\* mutant: the last slot is never used
FullEarly == uiSectionQueueCount >= UTV_SECTION_QUEUE_DEPTH - 1

Full == uiSectionQueueCount >= UTV_SECTION_QUEUE_DEPTH

Deliver ==
  /\ pc[Pump] = "deliver"
  /\ Goto(Pump, IF eStatus # "RUNNING" \/ Full THEN "loop" ELSE "copy")
  /\ Unread
  /\ UNCHANGED <<pSectionQueue, indexVars, uiSectionQueueCount, waitVars,
                 bThreadRunning, loaded, section, sent, delivered, raced>>

Copy ==
  /\ pc[Pump] = "copy"
  /\ pSectionQueue' =
       [pSectionQueue EXCEPT ![uiSectionQueueInput] = section[Pump]]
  /\ uiSectionQueueInput' = Following(uiSectionQueueInput)
  /\ delivered' = Append(delivered, section[Pump])
  /\ Goto(Pump, "load")
  /\ Unread
  /\ UNCHANGED <<uiSectionQueueOutput, uiSectionQueueCount, waitVars,
                 bThreadRunning, loaded, section, sent, raced>>

Load ==
  /\ pc[Pump] = "load"
  /\ loaded' = [loaded EXCEPT ![Pump] = uiSectionQueueCount]
  /\ Goto(Pump, "increment")
  /\ Unread
  /\ UNCHANGED <<pSectionQueue, indexVars, uiSectionQueueCount, waitVars,
                 bThreadRunning, section, sent, delivered, raced>>

Increment ==
  /\ pc[Pump] = "increment"
  /\ StoreCount(Pump, loaded[Pump] + 1)
  /\ Goto(Pump, "signal")
  /\ Unread
  /\ UNCHANGED <<pSectionQueue, indexVars, waitVars, bThreadRunning, loaded,
                 section, sent, delivered>>

\* mutant: the count of the semaphore is not incremented
SignalUncounted(t, l) ==
  /\ stray' = (stray \/ (t = Pump /\ ~hWait))
  /\ pc' = [pc EXCEPT ![t] = l,
              ![Core] = IF hWait /\ @ = "blocked" THEN "woken" ELSE @]
  /\ UNCHANGED <<hWait, uiCount>>

\* UtvWaitSignal, by a thread that goes on to label l; a filter that is closed
\* has hWait = 0, which is the handle of another wait
Signal(t, l) ==
  /\ uiCount' = IF hWait THEN (uiCount + 1) % CountMod ELSE uiCount
  /\ stray' = (stray \/ (t = Pump /\ ~hWait))
  /\ pc' = [pc EXCEPT ![t] = l,
              ![Core] = IF hWait /\ @ = "blocked" THEN "woken" ELSE @]
  /\ UNCHANGED hWait

PumpSignal ==
  /\ pc[Pump] = "signal"
  /\ Signal(Pump, "loop")
  /\ Unread
  /\ UNCHANGED <<pSectionQueue, indexVars, uiSectionQueueCount, bThreadRunning,
                 loaded, section, sent, delivered, raced>>

PumpExit ==
  /\ pc[Pump] = "exit"
  /\ bThreadRunning' = FALSE
  /\ Goto(Pump, "ended")
  /\ Unread
  /\ UNCHANGED <<pSectionQueue, indexVars, uiSectionQueueCount, waitVars,
                 loaded, section, sent, delivered, raced>>
-----------------------------------------------------------------------------
(* UtvAbort: the state, then UtvWakeAllThreads; UtvClearState once the     *)
(* task that was aborted has ended.                                        *)

Elsewhere == UNCHANGED <<eStatus, pSectionQueue, indexVars,
                         uiSectionQueueCount, platformVars, continues, loaded,
                         section, slot, sent, opens, failureVars, historyVars,
                         raced>>

Abort ==
  /\ pc[User] = "idle" /\ ~aborted /\ aborts < MaxAborts
  /\ aborts' = aborts + 1
  /\ aborted' = TRUE
  /\ Goto(User, "wake")
  /\ Elsewhere /\ UNCHANGED waitVars

Wake ==
  /\ pc[User] = "wake"
  /\ Signal(User, "idle")
  /\ Elsewhere /\ UNCHANGED <<aborted, aborts>>

ClearState ==
  /\ pc[Core] = "idle" /\ aborted
  /\ aborted' = FALSE
  /\ Elsewhere /\ UNCHANGED <<waitVars, pc, aborts>>
-----------------------------------------------------------------------------
CoreStep == \/ OpenWait \/ OpenPlatform \/ Get \/ Wait \/ Woken \/ Check
            \/ Take \/ Decrement \/ Parse \/ Close \/ CloseJoin \/ CloseWait
PumpStep == \/ PumpStart \/ PumpLoop \/ PumpRead \/ Deliver \/ Copy \/ Load
            \/ Increment \/ PumpSignal \/ PumpExit

Next == \/ Create \/ Destroy \/ OpenReset \/ Timeout \/ CoreStep
        \/ PumpStep
        \/ Abort \/ Wake \/ ClearState

\* Threads that can run do, and an abort once begun is completed; a wait need
\* not time out, and nobody has to open the filter or to abort.
Fairness == WF_vars(CoreStep) /\ WF_vars(PumpStep) /\ WF_vars(Wake)

Spec == Init /\ [][Next]_vars
FairSpec == Spec /\ Fairness
-----------------------------------------------------------------------------
TypeOK ==
  /\ eStatus \in {"UNKNOWN", "STOPPED", "RUNNING"}
  /\ pSectionQueue \in [Slots -> Sections \cup {NoSection}]
  /\ uiSectionQueueInput \in Slots /\ uiSectionQueueOutput \in Slots
  /\ uiSectionQueueCount \in 0 .. UTV_SECTION_QUEUE_DEPTH
  /\ uiCount \in 0 .. CountMod - 1
  /\ slot \in Slots /\ aborted \in BOOLEAN /\ continues \in BOOLEAN

\* UtvGetSectionData hands out the sections in the order PumpThread delivered
\* them since UtvOpenSectionFilter, none twice and none it never delivered, as
\* long as no update of the count is lost.
InOrder == ~raced => IsPrefix(got, delivered)

\* PumpThread never signals a wait that is not the section filter's, and never
\* reads into a buffer that was freed: UtvCloseSectionFilter outlives the pump,
\* also after opens that failed for want of a wait or of a thread.  A DMX_STOP
\* that fails leaves the pump alive, and nothing is said from then on.
PumpWithinOpen == ~stopFailed =>
  /\ ~stray
  /\ pc[Pump] \in {"read", "deliver", "copy"} => pbSectionBuffer

\* "Notify the core thread that a section is available to process": a scan that
\* ends with the first error does not sleep over a section that was delivered
\* and signalled, as long as no update of the count is lost.
NoSleepOverSection ==
  ~continues /\ ~raced /\ pc[Core] = "blocked" =>
    \/ Len(got) = Len(delivered)
    \/ pc[Pump] \in {"load", "increment", "signal"}

\* An abort ends such a scan, whatever the core thread was doing when it came
\* and whatever failed before.
Scanning == pc[Core] \notin {"idle", "openWait", "openPlatform"}
AbortEndsScan == aborted /\ Scanning /\ ~continues ~> ~Scanning

\* The core thread is in the loop that reads sections.
Reading == {"get", "wait", "blocked", "woken", "check", "take", "decrement",
            "parse"}

\* A scan reads from the filter as from SectionSource: the queue and the pump
\* lose no section but those that come while all slots are taken, as long as no
\* update of the count is lost.
Reads == pc[Core] \in Reading /\ ~raced
Offered == IF Reads /\ pc[Pump] \in {"deliver", "copy"}
             THEN section[Pump] ELSE NoSection
Waiting == IF Reads THEN SubSeq(delivered, Len(got) + 1, Len(delivered))
           ELSE <<>>
InHand == IF Reads /\ pc[Core] \in {"decrement", "parse"}
            THEN section[Core] ELSE NoSection
Occupied == Reads /\ pc[Core] = "decrement"
Source == INSTANCE SectionSource WITH
  Depth <- UTV_SECTION_QUEUE_DEPTH, trusted <- ~raced, opened <- Reads,
  offered <- Offered, queue <- Waiting, taken <- InHand, occupied <- Occupied
SourceKept == Source!Spec

\* A filter that was closed can "be opened on another PID/TID".
Reopens == failed # "thread"
=============================================================================
