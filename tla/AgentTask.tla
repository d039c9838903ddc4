------------------------------ MODULE AgentTask ------------------------------
(***************************************************************************)
(* The life of the unattended update agent: UtvApplication's loop around   *)
(* UtvAgentTask, the public state it shares with the threads that call     *)
(* UtvUserAbort, UtvUserExit and UtvSetRestartRequest, the interruptible    *)
(* sleep between two events, and the part of the persistent file that      *)
(* carries the state over a crash or a restart.                            *)
(*                                                                         *)
(* UtvSetState is two steps (lock and decide; write and unlock), because   *)
(* UtvGetState and UtvClearState touch the state without the mutex.        *)
(* A retrieval of the schedule, a transfer and an installation are one     *)
(* step each, whose result is any the code can return; UTV_ABORT only when *)
(* the state was seen to be ABORT.  What they do to the state, the delay   *)
(* and the persistent file, and the sleep between them, are steps.         *)
(***************************************************************************)
EXTENDS Naturals

CONSTANTS
  Users,        \* threads outside the agent that make requests
  Ops,          \* what they request: "abort", "exit", "restart"
  OthersActive, \* some other registered thread, open file or select() exists
  MaxRequests,  \* bound: requests made in a behaviour
  MaxBoots,     \* bound: process starts in a behaviour
  Agent         \* the thread that runs UtvApplication

ASSUME UsersAssumption ==
  Agent \notin Users /\ "none" \notin Users \cup {Agent}
ASSUME OpsAssumption == Ops \subseteq {"abort", "exit", "restart"}
ASSUME BoundsAssumption ==
  OthersActive \in BOOLEAN /\ MaxRequests \in Nat /\ MaxBoots \in Nat

Threads == Users \cup {Agent}
NoThread == "none"

States == {"SCAN", "DOWNLOAD", "DOWNLOAD_DONE", "ABORT", "EXIT"}
Delays == {"LONG", "SHORT", "START", "NOW", "REMAINING"}
Results == {"OK", "ABORT", "COMPLETE", "FUTURE", "NO_DOWNLOAD", "ERROR"}

\* What UtvPlatformPersistWrite leaves in the file; "short" is the file
\* between fopen "wb" and the last fwrite.
Saved(s, w, d) == [valid |-> TRUE, state |-> s, when |-> w, delay |-> d]
NoFile == [Saved("SCAN", "SCAN", "NOW") EXCEPT !.valid = FALSE]
Files == [valid : BOOLEAN, state : States, when : States \ {"ABORT"},
          delay : Delays]

AgentLabels == {"loop", "task", "scan", "scanned", "fetch", "fetching",
                "fetched", "install", "installing", "installed", "scanDone",
                "downloaded", "done", "check", "cleared", "taskEnd", "next",
                "sleepInit", "sleepTest", "blocked", "awake", "shutdown",
                "stopped", "destroy", "execute", "halted"}
UserLabels == {"idle", "wake"}
SharedLabels == {"setLock", "setWrite", "pwOpen", "pwData"}
Labels == AgentLabels \cup UserLabels \cup SharedLabels

VARIABLES
  utvState, utvStateWhenAborted, iDelay,  \* g_pUtvState
  bExitRequest, bRestartRequest,
  owner,        \* the thread that holds ghUtvStateMutex
  locksLive,    \* the state mutex and the list of waits can be used
  pc,           \* where each thread is
  new, after,   \* the call in progress: the new state, where to return
  result,       \* what UtvSetState last returned, per thread
  rStatus, utvCurrState, \* UtvAgentTask's locals
  waitLive, signals,     \* the wait handle the agent sleeps on, and its count
  file,         \* the persistent file
  exitAsked,    \* history: an exit was requested since UtvPublicAgentInit
  requests, boots

requestVars == <<bExitRequest, bRestartRequest, exitAsked, requests>>
stateVars == <<utvState, utvStateWhenAborted>>
lockVars == <<owner, locksLive>>
taskVars == <<rStatus, utvCurrState>>
waitVars == <<waitLive, signals>>
vars == <<stateVars, iDelay, requestVars, lockVars, pc, new, after, result,
          taskVars, waitVars, file, boots>>

Goto(t, l) == pc' = [pc EXCEPT ![t] = l]

Init ==
  /\ utvState = "SCAN" /\ utvStateWhenAborted = "SCAN" /\ iDelay = "NOW"
  /\ bExitRequest = FALSE /\ bRestartRequest = FALSE
  /\ owner = NoThread /\ locksLive = TRUE
  /\ pc = [t \in Threads |-> IF t = Agent THEN "loop" ELSE "idle"]
  /\ new = [t \in Threads |-> "SCAN"]
  /\ after = [t \in Threads |-> "idle"]
  /\ result = [t \in Threads |-> "OK"]
  /\ rStatus = "OK" /\ utvCurrState = "SCAN"
  /\ waitLive = FALSE /\ signals = 0
  /\ file = Saved("SCAN", "SCAN", "NOW")
  /\ exitAsked = FALSE /\ requests = 0 /\ boots = 1
-----------------------------------------------------------------------------
(* UtvSetState: decide under the mutex, then write and unlock.             *)

CallSetState(t, s, l) ==
  /\ new' = [new EXCEPT ![t] = s]
  /\ after' = [after EXCEPT ![t] = l]
  /\ Goto(t, "setLock")

\* mutant: an abort that is pending does not refuse the new state
SetLockOverAbort(t) ==
  /\ pc[t] = "setLock" /\ locksLive /\ owner = NoThread
  /\ owner' = t
  /\ Goto(t, "setWrite")
  /\ UNCHANGED <<stateVars, iDelay, requestVars, locksLive, new, after, result,
                 taskVars, waitVars, file, boots>>

\* mutant: the state is set without the mutex
SetLockUnlocked(t) ==
  /\ pc[t] = "setLock" /\ utvState # "ABORT"
  /\ Goto(t, "setWrite")
  /\ UNCHANGED <<stateVars, iDelay, requestVars, lockVars, new, after, result,
                 taskVars, waitVars, file, boots>>

SetLock(t) ==
  /\ pc[t] = "setLock"
  /\ locksLive => owner = NoThread
  /\ IF locksLive /\ utvState # "ABORT"
     THEN /\ owner' = t
          /\ Goto(t, "setWrite")
          /\ UNCHANGED result
     ELSE /\ result' = [result EXCEPT ![t] =
                          IF locksLive THEN "ABORT" ELSE "ERROR"]
          /\ Goto(t, after[t])
          /\ UNCHANGED owner
  /\ UNCHANGED <<stateVars, iDelay, requestVars, locksLive, new, after,
                 taskVars, waitVars, file, boots>>

SetWrite(t) ==
  /\ pc[t] = "setWrite"
  /\ utvStateWhenAborted' = IF new[t] = "ABORT" THEN utvState
                                                ELSE utvStateWhenAborted
  /\ utvState' = new[t]
  /\ owner' = NoThread
  /\ result' = [result EXCEPT ![t] = "OK"]
  /\ Goto(t, after[t])
  /\ UNCHANGED <<iDelay, requestVars, locksLive, new, after, taskVars,
                 waitVars, file, boots>>
-----------------------------------------------------------------------------
(* UtvPlatformPersistWrite: the file is truncated before it is written.    *)

CallPersistWrite(l) ==
  /\ after' = [after EXCEPT ![Agent] = l]
  /\ Goto(Agent, "pwOpen")

PersistOpen ==
  /\ pc[Agent] = "pwOpen"
  /\ file' = NoFile
  /\ Goto(Agent, "pwData")
  /\ UNCHANGED <<stateVars, iDelay, requestVars, lockVars, new, after, result,
                 taskVars, waitVars, boots>>

PersistData ==
  /\ pc[Agent] = "pwData"
  /\ file' = Saved(utvState, utvStateWhenAborted, iDelay)
  /\ Goto(Agent, after[Agent])
  /\ UNCHANGED <<stateVars, iDelay, requestVars, lockVars, new, after, result,
                 taskVars, waitVars, boots>>
-----------------------------------------------------------------------------
(* UtvSetStateTime: the sleep time is set even when the state is refused.  *)

CallSetStateTime(s, d, l) ==
  /\ iDelay' = d
  /\ CallSetState(Agent, s, l)

\* the steps of the agent that only move on, or call one of the above
Moves == UNCHANGED <<requestVars, lockVars, result, waitVars, file, boots>>

(* UtvApplication: run tasks until the state is EXIT.                      *)
Loop ==
  /\ pc[Agent] = "loop"
  /\ IF utvState = "EXIT"
     THEN CallPersistWrite("shutdown")
     ELSE Goto(Agent, "task") /\ UNCHANGED after
  /\ Moves /\ UNCHANGED <<stateVars, iDelay, new, taskVars>>

(* UtvAgentTask: the state read here selects the event.                    *)
Task ==
  /\ pc[Agent] = "task"
  /\ utvCurrState' = utvState
  /\ rStatus' = "OK"
  /\ CASE utvState = "SCAN" -> CallSetStateTime("SCAN", "LONG", "scan")
       [] utvState = "DOWNLOAD" ->
            CallPersistWrite("downloaded") /\ UNCHANGED <<iDelay, new>>
       [] utvState = "DOWNLOAD_DONE" ->
            CallPersistWrite("done") /\ UNCHANGED <<iDelay, new>>
       [] OTHER -> Goto(Agent, "check") /\ UNCHANGED <<iDelay, new, after>>
  /\ Moves /\ UNCHANGED stateVars

(* UtvScanEvent acquires the hardware and asks for the schedule, which     *)
(* writes sub-states as it goes: one write stands for them.                *)
Scan ==
  /\ pc[Agent] = "scan"
  /\ rStatus' = result[Agent]
  /\ IF result[Agent] = "OK"
     THEN CallPersistWrite("scanned")
     ELSE Goto(Agent, "check") /\ UNCHANGED after
  /\ Moves /\ UNCHANGED <<stateVars, iDelay, new, utvCurrState>>

\* UtvScanEvent on the result of DownloadSynchronous: a scan that found
\* nothing leaves the state and the delay as they are
ScanEnds(r) ==
  /\ r = "ABORT" => utvState = "ABORT"
  /\ rStatus' = r
  /\ CASE r = "OK" -> CallSetStateTime("DOWNLOAD", "START", "scanDone")
       [] r = "NO_DOWNLOAD" ->
            Goto(Agent, "check") /\ UNCHANGED <<iDelay, new, after>>
       [] OTHER -> CallSetStateTime("SCAN", "SHORT", "check")

(* DownloadSynchronous has the schedule: an update of the network is slept *)
(* for and downloaded, one on a medium is installed.                       *)
Scanned ==
  /\ pc[Agent] = "scanned"
  /\ \/ \E r \in {"NO_DOWNLOAD", "ERROR", "ABORT"} : ScanEnds(r)
     \/ /\ Goto(Agent, "sleepInit")
        /\ after' = [after EXCEPT ![Agent] = "fetch"]
        /\ UNCHANGED <<iDelay, new, rStatus>>
     \/ Goto(Agent, "install") /\ UNCHANGED <<iDelay, new, after, rStatus>>
  /\ Moves /\ UNCHANGED <<stateVars, utvCurrState>>

\* the sleep in progress is that of the scan, not UtvApplication's
ScanSleeps == after[Agent] = "fetch"

\* mutant: a transfer sets the state but not the time to sleep
TransferKeepsTime(from, l) ==
  /\ pc[Agent] = from
  /\ CallSetState(Agent, "DOWNLOAD", l)
  /\ Moves /\ UNCHANGED <<stateVars, iDelay, taskVars>>

\* UtvPublicDownloadComponents and UtvPublicInstallComponents begin alike, and
\* go on when the state is refused
Transfer(from, l) ==
  /\ pc[Agent] = from
  /\ CallSetStateTime("DOWNLOAD", "NOW", l)
  /\ Moves /\ UNCHANGED <<stateVars, taskVars>>

\* the tracker and how it ended are recorded, unless the transfer ended before
Recorded(from, l) ==
  /\ pc[Agent] = from
  /\ \/ CallPersistWrite(l)
     \/ Goto(Agent, l) /\ UNCHANGED after
  /\ Moves /\ UNCHANGED <<stateVars, iDelay, new, taskVars>>

Fetch == Transfer("fetch", "fetching")
Fetching == Recorded("fetching", "fetched")
Install == Transfer("install", "installing")
Installing == Recorded("installing", "installed")

\* a complete download may have been installed on its way
Fetched ==
  /\ pc[Agent] = "fetched"
  /\ \/ \E r \in {"NO_DOWNLOAD", "COMPLETE", "ERROR", "ABORT"} : ScanEnds(r)
     \/ Goto(Agent, "install") /\ UNCHANGED <<iDelay, new, after, rStatus>>
  /\ Moves /\ UNCHANGED <<stateVars, utvCurrState>>

Installed ==
  /\ pc[Agent] = "installed"
  /\ \E r \in {"OK", "NO_DOWNLOAD", "COMPLETE", "ERROR", "ABORT"} : ScanEnds(r)
  /\ Moves /\ UNCHANGED <<stateVars, utvCurrState>>

\* the end of UtvScanEvent: scan again soon if the download was refused
ScanDone ==
  /\ pc[Agent] = "scanDone"
  /\ rStatus' = result[Agent]
  /\ IF result[Agent] = "OK"
     THEN Goto(Agent, "check") /\ UNCHANGED <<iDelay, new, after>>
     ELSE CallSetStateTime("SCAN", "SHORT", "check")
  /\ Moves /\ UNCHANGED <<stateVars, utvCurrState>>

\* the events that may follow a download that ended with r
DownloadNext(r) ==
  CASE r = "COMPLETE" -> {<<"DOWNLOAD_DONE", "NOW">>}
    [] r = "FUTURE"   -> {<<"DOWNLOAD", "START">>, <<"SCAN", "SHORT">>}
    [] OTHER          -> {<<"SCAN", "SHORT">>}

(* UtvDownloadEvent and the choice of the event that follows it.           *)
Download ==
  /\ pc[Agent] = "downloaded"
  /\ \E r \in {"OK", "ABORT", "COMPLETE", "FUTURE", "ERROR"} :
       /\ r = "ABORT" => utvState = "ABORT"
       /\ rStatus' = r
       /\ IF utvState \in {"ABORT", "EXIT"}
          THEN Goto(Agent, "check") /\ UNCHANGED <<iDelay, new, after>>
          ELSE \E n \in DownloadNext(r) :
                 CallSetStateTime(n[1], n[2], "check")
  /\ Moves /\ UNCHANGED <<stateVars, utvCurrState>>

\* the download-complete event, after its sub-state was recorded
DownloadDone ==
  /\ pc[Agent] = "done"
  /\ IF utvState \in {"ABORT", "EXIT"}
     THEN Goto(Agent, "check") /\ UNCHANGED <<iDelay, new, after>>
     ELSE CallSetStateTime("SCAN", "SHORT", "check")
  /\ Moves /\ UNCHANGED <<stateVars, taskVars>>

\* mutant: the abort is not cleared
CheckKeepsAbort ==
  /\ pc[Agent] = "check"
  /\ Goto(Agent, IF utvState = "ABORT" THEN "cleared" ELSE "taskEnd")
  /\ Moves /\ UNCHANGED <<stateVars, iDelay, new, after, taskVars>>

(* The trailing part of UtvAgentTask: an abort is cleared without the      *)
(* mutex, then turned into an exit or into another event.                  *)
Check ==
  /\ pc[Agent] = "check"
  /\ utvState' = IF utvState = "ABORT" THEN "SCAN" ELSE utvState
  /\ Goto(Agent, IF utvState = "ABORT" THEN "cleared" ELSE "taskEnd")
  /\ Moves /\ UNCHANGED <<utvStateWhenAborted, iDelay, new, after, taskVars>>

\* the event an aborted task leaves behind
Reverted == IF utvCurrState = "DOWNLOAD_DONE" /\ rStatus = "ABORT"
            THEN "DOWNLOAD_DONE" ELSE "SCAN"

\* mutant: only an abort that interrupted an event is examined for an exit
ClearedIfAborted ==
  /\ pc[Agent] = "cleared"
  /\ IF bExitRequest /\ rStatus = "ABORT"
     THEN CallSetState(Agent, "EXIT", "taskEnd") /\ UNCHANGED iDelay
     ELSE CallSetStateTime(Reverted, "SHORT", "taskEnd")
  /\ Moves /\ UNCHANGED <<stateVars, taskVars>>

Cleared ==
  /\ pc[Agent] = "cleared"
  /\ IF bExitRequest
     THEN CallSetState(Agent, "EXIT", "taskEnd") /\ UNCHANGED iDelay
     ELSE CallSetStateTime(Reverted, "SHORT", "taskEnd")
  /\ Moves /\ UNCHANGED <<stateVars, taskVars>>

TaskEnd ==
  /\ pc[Agent] = "taskEnd"
  /\ CallPersistWrite("next")
  /\ Moves /\ UNCHANGED <<stateVars, iDelay, new, taskVars>>

\* back in UtvApplication: an exit is not slept on
BeforeSleep ==
  /\ pc[Agent] = "next"
  /\ IF utvState = "EXIT"
     THEN Goto(Agent, "loop") /\ UNCHANGED after
     ELSE CallPersistWrite("sleepInit")
  /\ Moves /\ UNCHANGED <<stateVars, iDelay, new, taskVars>>
-----------------------------------------------------------------------------
(* UtvSleep: the wait exists before the state is tested, so that an abort  *)
(* that comes after the test finds a handle to signal.                     *)

SleepStep(l, live, n, d) ==
  /\ Goto(Agent, l)
  /\ waitLive' = live /\ signals' = n /\ iDelay' = d
  /\ UNCHANGED <<stateVars, requestVars, lockVars, new, after, result,
                 taskVars, file, boots>>

SleepInit ==
  /\ pc[Agent] = "sleepInit"
  /\ SleepStep("sleepTest", locksLive, 0, iDelay)

\* mutant: the state is not tested before the wait
SleepUntested ==
  /\ pc[Agent] = "sleepTest"
  /\ SleepStep(IF waitLive THEN "blocked" ELSE "awake", waitLive, signals,
               iDelay)

SleepTest ==
  /\ pc[Agent] = "sleepTest"
  /\ SleepStep(IF utvState # "ABORT" /\ waitLive THEN "blocked" ELSE "awake",
               waitLive, signals, iDelay)

SleepWoken ==
  /\ pc[Agent] = "blocked"
  /\ signals > 0
  /\ SleepStep("awake", waitLive, signals - 1, iDelay)

SleepTimeout ==
  /\ pc[Agent] = "blocked"
  /\ signals = 0
  /\ SleepStep("awake", waitLive, signals, iDelay)

\* what is left of the time becomes the delay of the agent, whoever slept
SleepDone ==
  /\ pc[Agent] = "awake"
  /\ SleepStep(IF ScanSleeps THEN "fetch" ELSE "loop", FALSE, 0, "REMAINING")
-----------------------------------------------------------------------------
(* UtvPublicAgentShutdown and what UtvApplication does after it.           *)

\* mutant: the shutdown does not abort what else runs
ShutdownKeepsState ==
  /\ pc[Agent] = "shutdown"
  /\ Goto(Agent, "stopped")
  /\ Moves /\ UNCHANGED <<stateVars, iDelay, new, after, taskVars>>

\* the agent aborts whatever else runs: its own state is EXIT here
Shutdown ==
  /\ pc[Agent] = "shutdown"
  /\ CallSetState(Agent, "ABORT", "stopped")
  /\ Moves /\ UNCHANGED <<stateVars, iDelay, taskVars>>

Stopped ==
  /\ pc[Agent] = "stopped"
  /\ CallPersistWrite("destroy")
  /\ Moves /\ UNCHANGED <<stateVars, iDelay, new, taskVars>>

\* UtvMutexDestroy unlocks a mutex that is held
Destroy ==
  /\ pc[Agent] = "destroy"
  /\ owner' = NoThread /\ locksLive' = FALSE
  /\ Goto(Agent, "execute")
  /\ UNCHANGED <<stateVars, iDelay, requestVars, new, after, result, taskVars,
                 waitVars, file, boots>>

\* without a restart request UtvApplication returns
Halt ==
  /\ pc[Agent] = "execute"
  /\ ~bRestartRequest
  /\ Goto(Agent, "halted")
  /\ UNCHANGED <<stateVars, iDelay, requestVars, lockVars, new, after, result,
                 taskVars, waitVars, file, boots>>

\* UtvExecute failed: the state is reset, written, and the agent starts again.
\* Nothing initialises the two list mutexes a second time, so that what follows
\* depends on what the C library makes of a destroyed mutex.
ExecuteFails ==
  /\ pc[Agent] = "execute"
  /\ bRestartRequest
  /\ bRestartRequest' = FALSE
  /\ utvState' = "SCAN" /\ utvStateWhenAborted' = "SCAN"
  /\ file' = Saved("SCAN", "SCAN", iDelay)
  /\ locksLive' \in BOOLEAN
  /\ exitAsked' = FALSE
  /\ Goto(Agent, "loop")
  /\ UNCHANGED <<iDelay, bExitRequest, requests, owner, new, after, result,
                 taskVars, waitVars, boots>>

(* UtvPlatformPersistRead in a new process: after a crash at any point,    *)
(* after the agent halted, or after UtvExecute replaced the image.         *)
Boot ==
  /\ boots < MaxBoots
  /\ boots' = boots + 1
  /\ IF file.valid
     THEN /\ utvState' = file.when
          /\ utvStateWhenAborted' = file.when
          /\ iDelay' = file.delay
          /\ UNCHANGED file
     ELSE /\ utvState' = "SCAN"
          /\ utvStateWhenAborted' = "SCAN"
          /\ iDelay' = "NOW"
          /\ file' = Saved("SCAN", "SCAN", "NOW")
  /\ bExitRequest' = FALSE /\ bRestartRequest' = FALSE /\ exitAsked' = FALSE
  /\ owner' = NoThread /\ locksLive' = TRUE
  /\ pc' = [t \in Threads |-> IF t = Agent THEN "loop" ELSE "idle"]
  /\ new' = [t \in Threads |-> "SCAN"]
  /\ after' = [t \in Threads |-> "idle"]
  /\ result' = [t \in Threads |-> "OK"]
  /\ rStatus' = "OK" /\ utvCurrState' = "SCAN"
  /\ waitLive' = FALSE /\ signals' = 0
  /\ UNCHANGED requests
-----------------------------------------------------------------------------
(* UtvUserAbort, UtvUserExit and UtvSetRestartRequest in another thread.   *)

Request(u, op) ==
  /\ pc[u] = "idle" /\ pc[Agent] # "halted"
  /\ requests < MaxRequests
  /\ requests' = requests + 1
  /\ bRestartRequest' = (bRestartRequest \/ op = "restart")
  /\ bExitRequest' = (bExitRequest \/ op \in {"exit", "restart"})
  /\ exitAsked' = (exitAsked \/ op \in {"exit", "restart"})
  /\ CallSetState(u, "ABORT", "wake")
  /\ UNCHANGED <<stateVars, iDelay, lockVars, result, taskVars, waitVars, file,
                 boots>>

\* UtvAbort wakes the waits only if something but a sleeping thread is
\* active: a thread that sleeps has released the mutex of its wait.
Busy == OthersActive \/ owner # NoThread

Wake(u) ==
  /\ pc[u] = "wake"
  /\ Goto(u, "idle")
  /\ signals' = IF result[u] = "OK" /\ Busy /\ waitLive
                THEN signals + 1 ELSE signals
  /\ UNCHANGED <<stateVars, iDelay, requestVars, lockVars, new, after, result,
                 taskVars, waitLive, file, boots>>
-----------------------------------------------------------------------------
AgentEvent == \/ Loop \/ Task \/ Scan \/ Scanned \/ Fetch \/ Fetching
              \/ Fetched \/ Install \/ Installing \/ Installed \/ ScanDone
              \/ Download \/ DownloadDone \/ Check \/ Cleared \/ TaskEnd
              \/ BeforeSleep
AgentSleep == SleepInit \/ SleepTest \/ SleepWoken \/ SleepDone
AgentStop == Shutdown \/ Stopped \/ Destroy \/ Halt \/ ExecuteFails
AgentStep == \/ AgentEvent \/ AgentSleep \/ AgentStop
             \/ PersistOpen \/ PersistData
             \/ SetLock(Agent) \/ SetWrite(Agent)
UserStep(u) == SetLock(u) \/ SetWrite(u) \/ Wake(u)

Next == \/ AgentStep \/ SleepTimeout \/ Boot
        \/ \E u \in Users : UserStep(u) \/ \E op \in Ops : Request(u, op)

\* Threads that can run do run; a mutex that is released again and again is
\* obtained.  Nothing makes the sleep time out, a user act or a process start.
Fairness == /\ WF_vars(AgentStep) /\ SF_vars(SetLock(Agent))
            /\ \A u \in Users : WF_vars(UserStep(u)) /\ SF_vars(SetLock(u))

Spec == Init /\ [][Next]_vars
FairSpec == Spec /\ Fairness
-----------------------------------------------------------------------------
TypeOK ==
  /\ utvState \in States /\ utvStateWhenAborted \in States \ {"ABORT"}
  /\ iDelay \in Delays
  /\ bExitRequest \in BOOLEAN /\ bRestartRequest \in BOOLEAN
  /\ exitAsked \in BOOLEAN
  /\ owner \in Threads \cup {NoThread} /\ locksLive \in BOOLEAN
  /\ pc \in [Threads -> Labels]
  /\ new \in [Threads -> States] /\ after \in [Threads -> Labels]
  /\ result \in [Threads -> Results] /\ rStatus \in Results
  /\ utvCurrState \in States
  /\ waitLive \in BOOLEAN /\ signals \in Nat
  /\ file \in Files
  /\ requests \in Nat /\ boots \in Nat

\* The state mutex: a thread is between UtvMutexLock and UtvMutexUnlock of
\* UtvSetState only if it owns a mutex that exists, and no other thread has
\* made the state ABORT since it looked.
Exclusion == \A t \in Threads :
  pc[t] = "setWrite" => owner = t /\ locksLive /\ utvState # "ABORT"

\* UtvPublicAgentShutdown never pulls the state mutex from under a thread that
\* holds it: its own abort waits for the last holder and refuses the others.
NeverDestroyedHeld == pc[Agent] = "destroy" => owner = NoThread

\* UtvSetState cannot undo an abort: while the agent runs, ABORT gives way
\* only to UtvClearState at the end of UtvAgentTask, the reset after a failed
\* UtvExecute, or a new process.
AbortSticky ==
  [][utvState = "ABORT" /\ utvState' # "ABORT"
       => \/ pc[Agent] \in {"check", "execute"}
          \/ boots' # boots]_vars

\* UtvApplication never sleeps on a delay meant for another event, nor on what
\* UtvSleep left of a sleep in the middle of a scan: a pending download is not
\* slept past, and one that is finished, or was begun by a scan that then found
\* nothing, is handled at once.
SleepMatchesState ==
  pc[Agent] = "blocked" /\ ~ScanSleeps /\ utvState # "ABORT" =>
    <<utvState, iDelay>> \in {<<"SCAN", "LONG">>, <<"SCAN", "SHORT">>,
                              <<"DOWNLOAD", "START">>, <<"DOWNLOAD", "NOW">>,
                              <<"DOWNLOAD_DONE", "NOW">>}

\* UtvSleep "uses a timed wait so that an abort can wake it up": a thread that
\* sleeps with the state at ABORT is woken before its time.
AbortWakesSleeper ==
  pc[Agent] = "blocked" /\ utvState = "ABORT" ~> pc[Agent] # "blocked"

\* Every abort request is acted on by the task that follows it.
AbortHonoured ==
  utvState = "ABORT" ~> utvState # "ABORT" \/ pc[Agent] = "halted"

\* An exit request is never lost, whatever it races with: the agent stops.
ExitHonoured ==
  bExitRequest ~> pc[Agent] = "halted" \/ ~bExitRequest

\* UtvApplication "returns nothing when UtvUserExit() is called otherwise does
\* not return": it returns only if an exit was requested since it started.
ReturnsOnlyOnExit == pc[Agent] = "halted" => exitAsked
=============================================================================
