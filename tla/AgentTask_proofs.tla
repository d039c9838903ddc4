-------------------------- MODULE AgentTask_proofs --------------------------
(***************************************************************************)
(* Safety of AgentTask for every set of users, every set of requests and   *)
(* every bound.                                                            *)
(*                                                                         *)
(* Exclusion is not inductive: the shutdown destroys the mutex, which is   *)
(* safe only because its own UtvUserAbort has made the state ABORT by then *)
(* and no UtvSetState can be in progress under ABORT.  StopsAborted and    *)
(* ReturnPoints say so.                                                    *)
(***************************************************************************)
EXTENDS AgentTask, TLAPS

\* where a UtvSetState, or a UtvPlatformPersistWrite, of the agent returns to
SetReturns == {"scan", "fetching", "installing", "scanDone", "check",
               "taskEnd", "stopped"}
WriteReturns == {"scanned", "fetched", "installed", "downloaded", "done",
                 "next", "sleepInit", "shutdown", "destroy"}

ReturnPoints ==
  /\ \A u \in Users : after[u] \in UserLabels
  /\ pc[Agent] \in {"setLock", "setWrite"} =>
       /\ after[Agent] \in SetReturns
       /\ after[Agent] = "stopped" => new[Agent] = "ABORT"
  /\ pc[Agent] \in {"pwOpen", "pwData"} => after[Agent] \in WriteReturns

\* the agent is past the abort of its shutdown
Stopping == \/ pc[Agent] \in {"stopped", "destroy", "execute", "halted"}
            \/ pc[Agent] \in {"pwOpen", "pwData"} /\ after[Agent] = "destroy"

StopsAborted == Stopping => utvState = "ABORT" \/ ~locksLive

OwnerWrites == \A t \in Threads : owner = t => pc[t] = "setWrite"

IInv == /\ TypeOK /\ Exclusion /\ OwnerWrites
        /\ ReturnPoints /\ StopsAborted
-----------------------------------------------------------------------------
\* Init establishes the invariant.
LEMMA InitInv == Init => IInv
<1> SUFFICES ASSUME Init PROVE IInv
  OBVIOUS
<1> USE UsersAssumption DEF Init, Threads, NoThread
<1>1. TypeOK
  BY DEF TypeOK, States, Delays, Results, Labels, AgentLabels, UserLabels,
         SharedLabels, Files, Saved
<1>2. Exclusion /\ OwnerWrites
  BY DEF Exclusion, OwnerWrites
<1>3. ReturnPoints /\ StopsAborted
  BY DEF ReturnPoints, StopsAborted, Stopping, UserLabels
<1> QED BY <1>1, <1>2, <1>3 DEF IInv
-----------------------------------------------------------------------------
(* The steps of a call preserve the invariant.                             *)

\* UtvSetState locks and decides: owner, or refused.
LEMMA SetLockInv == ASSUME IInv, NEW t \in Threads, SetLock(t) PROVE IInv'
<1> USE UsersAssumption DEF Threads
<1>1. CASE locksLive /\ utvState # "ABORT"
  <2>1. /\ owner = NoThread /\ owner' = t /\ pc[t] = "setLock"
        /\ pc' = [pc EXCEPT ![t] = "setWrite"]
        /\ UNCHANGED <<stateVars, iDelay, requestVars, locksLive, new, after,
                       result, taskVars, waitVars, file, boots>>
    BY <1>1 DEF SetLock, Goto
  <2>2. TypeOK'
    BY <2>1 DEF IInv, TypeOK, stateVars, requestVars, taskVars, waitVars,
                Labels, SharedLabels
  <2>3. Exclusion' /\ OwnerWrites'
    BY <1>1, <2>1 DEF IInv, TypeOK, Exclusion, OwnerWrites, stateVars, NoThread
  <2>4. ReturnPoints' /\ StopsAborted'
    BY <1>1, <2>1 DEF IInv, TypeOK, ReturnPoints, StopsAborted, Stopping,
                      stateVars
  <2> QED BY <2>2, <2>3, <2>4 DEF IInv
<1>2. CASE ~(locksLive /\ utvState # "ABORT")
  <2>1. /\ pc[t] = "setLock"
        /\ pc' = [pc EXCEPT ![t] = after[t]]
        /\ result' = [result EXCEPT ![t] =
                        IF locksLive THEN "ABORT" ELSE "ERROR"]
        /\ UNCHANGED <<stateVars, iDelay, requestVars, lockVars, new, after,
                       taskVars, waitVars, file, boots>>
    BY <1>2 DEF SetLock, Goto, lockVars
  <2>2. TypeOK'
    BY <2>1 DEF IInv, TypeOK, stateVars, requestVars, lockVars, taskVars,
                waitVars, Results
  <2>3. after[t] \in SetReturns \cup UserLabels
    BY <2>1 DEF IInv, ReturnPoints
  <2>4. Exclusion' /\ OwnerWrites'
    BY <2>1, <2>3 DEF IInv, TypeOK, Exclusion, OwnerWrites, stateVars,
                      lockVars, SetReturns, UserLabels
  <2>5. ReturnPoints' /\ StopsAborted'
    BY <1>2, <2>1, <2>3 DEF IInv, TypeOK, ReturnPoints, StopsAborted, Stopping,
                      stateVars, lockVars, SetReturns, UserLabels
  <2> QED BY <2>2, <2>4, <2>5 DEF IInv
<1> QED BY <1>1, <1>2

\* One step of the agent's own control, from one label to the next.
LEMMA AgentEventInv ==
  ASSUME IInv, AgentEvent \/ Shutdown \/ Stopped PROVE IInv'
<1> USE UsersAssumption DEF Threads, NoThread, Moves, Goto, CallSetState,
        CallSetStateTime, CallPersistWrite, stateVars, requestVars, lockVars,
        taskVars, waitVars
<1>t. /\ pc \in [Threads -> Labels] /\ after \in [Threads -> Labels]
      /\ new \in [Threads -> States]
  BY DEF IInv, TypeOK
<1>1. CASE Loop
  <2>1. TypeOK'
    BY <1>1, <1>t DEF Loop, IInv, TypeOK, States, Delays, Results,
       Labels, AgentLabels, SharedLabels
  <2>2. Exclusion' /\ OwnerWrites'
    BY <1>1, <1>t DEF Loop, IInv, Exclusion, OwnerWrites
  <2>3. ReturnPoints' /\ StopsAborted'
    BY <1>1, <1>t DEF Loop, IInv, ReturnPoints, StopsAborted, Stopping,
       SetReturns, WriteReturns
  <2> QED BY <2>1, <2>2, <2>3 DEF IInv
<1>2. CASE Task
  <2>1. TypeOK'
    BY <1>2, <1>t DEF Task, IInv, TypeOK, States, Delays, Results,
       Labels, AgentLabels, SharedLabels
  <2>2. Exclusion' /\ OwnerWrites'
    BY <1>2, <1>t DEF Task, IInv, Exclusion, OwnerWrites
  <2>3. ReturnPoints' /\ StopsAborted'
    BY <1>2, <1>t DEF Task, IInv, ReturnPoints, StopsAborted, Stopping,
       SetReturns, WriteReturns
  <2> QED BY <2>1, <2>2, <2>3 DEF IInv
<1>3. CASE Scan
  <2>1. TypeOK'
    BY <1>3, <1>t DEF Scan, IInv, TypeOK, States, Delays, Results,
       Labels, AgentLabels, SharedLabels
  <2>2. Exclusion' /\ OwnerWrites'
    BY <1>3, <1>t DEF Scan, IInv, Exclusion, OwnerWrites
  <2>3. ReturnPoints' /\ StopsAborted'
    BY <1>3, <1>t DEF Scan, IInv, ReturnPoints, StopsAborted, Stopping,
       SetReturns, WriteReturns
  <2> QED BY <2>1, <2>2, <2>3 DEF IInv
<1>4. CASE Scanned
  <2>1. TypeOK'
    BY <1>4, <1>t DEF Scanned, ScanEnds, IInv, TypeOK, States, Delays, Results,
       Labels, AgentLabels, SharedLabels
  <2>2. Exclusion' /\ OwnerWrites'
    BY <1>4, <1>t DEF Scanned, ScanEnds, IInv, Exclusion, OwnerWrites
  <2>3. ReturnPoints' /\ StopsAborted'
    BY <1>4, <1>t
       DEF Scanned, ScanEnds, IInv, ReturnPoints, StopsAborted, Stopping,
           SetReturns, WriteReturns
  <2> QED BY <2>1, <2>2, <2>3 DEF IInv
<1>5. CASE ScanDone
  <2>1. TypeOK'
    BY <1>5, <1>t DEF ScanDone, IInv, TypeOK, States, Delays, Results,
       Labels, AgentLabels, SharedLabels
  <2>2. Exclusion' /\ OwnerWrites'
    BY <1>5, <1>t DEF ScanDone, IInv, Exclusion, OwnerWrites
  <2>3. ReturnPoints' /\ StopsAborted'
    BY <1>5, <1>t DEF ScanDone, IInv, ReturnPoints, StopsAborted, Stopping,
       SetReturns, WriteReturns
  <2> QED BY <2>1, <2>2, <2>3 DEF IInv
<1>6. CASE Download
  <2>1. TypeOK'
    BY <1>6, <1>t DEF Download, DownloadNext, IInv, TypeOK, States, Delays,
           Results,
       Labels, AgentLabels, SharedLabels
  <2>2. Exclusion' /\ OwnerWrites'
    BY <1>6, <1>t DEF Download, DownloadNext, IInv, Exclusion, OwnerWrites
  <2>3. ReturnPoints' /\ StopsAborted'
    BY <1>6, <1>t DEF Download, DownloadNext, IInv, ReturnPoints,
           StopsAborted, Stopping,
       SetReturns, WriteReturns
  <2> QED BY <2>1, <2>2, <2>3 DEF IInv
<1>7. CASE DownloadDone
  <2>1. TypeOK'
    BY <1>7, <1>t DEF DownloadDone, IInv, TypeOK, States, Delays, Results,
       Labels, AgentLabels, SharedLabels
  <2>2. Exclusion' /\ OwnerWrites'
    BY <1>7, <1>t DEF DownloadDone, IInv, Exclusion, OwnerWrites
  <2>3. ReturnPoints' /\ StopsAborted'
    BY <1>7, <1>t DEF DownloadDone, IInv, ReturnPoints, StopsAborted, Stopping,
       SetReturns, WriteReturns
  <2> QED BY <2>1, <2>2, <2>3 DEF IInv
<1>8. CASE Check
  <2>1. TypeOK'
    BY <1>8, <1>t DEF Check, IInv, TypeOK, States, Delays, Results,
       Labels, AgentLabels, SharedLabels
  <2>2. Exclusion' /\ OwnerWrites'
    BY <1>8, <1>t DEF Check, IInv, Exclusion, OwnerWrites
  <2>3. ReturnPoints' /\ StopsAborted'
    BY <1>8, <1>t DEF Check, IInv, ReturnPoints, StopsAborted, Stopping,
       SetReturns, WriteReturns
  <2> QED BY <2>1, <2>2, <2>3 DEF IInv
<1>9. CASE Cleared
  <2>1. TypeOK'
    BY <1>9, <1>t DEF Cleared, Reverted, IInv, TypeOK, States, Delays, Results,
       Labels, AgentLabels, SharedLabels
  <2>2. Exclusion' /\ OwnerWrites'
    BY <1>9, <1>t DEF Cleared, Reverted, IInv, Exclusion, OwnerWrites
  <2>3. ReturnPoints' /\ StopsAborted'
    BY <1>9, <1>t DEF Cleared, Reverted, IInv, ReturnPoints, StopsAborted,
           Stopping,
       SetReturns, WriteReturns
  <2> QED BY <2>1, <2>2, <2>3 DEF IInv
<1>10. CASE TaskEnd
  <2>1. TypeOK'
    BY <1>10, <1>t DEF TaskEnd, IInv, TypeOK, States, Delays, Results,
       Labels, AgentLabels, SharedLabels
  <2>2. Exclusion' /\ OwnerWrites'
    BY <1>10, <1>t DEF TaskEnd, IInv, Exclusion, OwnerWrites
  <2>3. ReturnPoints' /\ StopsAborted'
    BY <1>10, <1>t DEF TaskEnd, IInv, ReturnPoints, StopsAborted, Stopping,
       SetReturns, WriteReturns
  <2> QED BY <2>1, <2>2, <2>3 DEF IInv
<1>11. CASE BeforeSleep
  <2>1. TypeOK'
    BY <1>11, <1>t DEF BeforeSleep, IInv, TypeOK, States, Delays, Results,
       Labels, AgentLabels, SharedLabels
  <2>2. Exclusion' /\ OwnerWrites'
    BY <1>11, <1>t DEF BeforeSleep, IInv, Exclusion, OwnerWrites
  <2>3. ReturnPoints' /\ StopsAborted'
    BY <1>11, <1>t DEF BeforeSleep, IInv, ReturnPoints, StopsAborted, Stopping,
       SetReturns, WriteReturns
  <2> QED BY <2>1, <2>2, <2>3 DEF IInv
<1>12. CASE Shutdown
  <2>1. TypeOK'
    BY <1>12, <1>t DEF Shutdown, IInv, TypeOK, States, Delays, Results,
       Labels, AgentLabels, SharedLabels
  <2>2. Exclusion' /\ OwnerWrites'
    BY <1>12, <1>t DEF Shutdown, IInv, Exclusion, OwnerWrites
  <2>3. ReturnPoints' /\ StopsAborted'
    BY <1>12, <1>t DEF Shutdown, IInv, ReturnPoints, StopsAborted, Stopping,
       SetReturns, WriteReturns
  <2> QED BY <2>1, <2>2, <2>3 DEF IInv
<1>13. CASE Stopped
  <2>1. TypeOK'
    BY <1>13, <1>t DEF Stopped, IInv, TypeOK, States, Delays, Results,
       Labels, AgentLabels, SharedLabels
  <2>2. Exclusion' /\ OwnerWrites'
    BY <1>13, <1>t DEF Stopped, IInv, Exclusion, OwnerWrites
  <2>3. ReturnPoints' /\ StopsAborted'
    BY <1>13, <1>t DEF Stopped, IInv, ReturnPoints, StopsAborted, Stopping,
       SetReturns, WriteReturns
  <2> QED BY <2>1, <2>2, <2>3 DEF IInv
<1>14. CASE Fetch
  <2>1. TypeOK'
    BY <1>14, <1>t
       DEF Fetch, Transfer, IInv, TypeOK, States, Delays, Results, Labels,
           AgentLabels, SharedLabels
  <2>2. Exclusion' /\ OwnerWrites'
    BY <1>14, <1>t DEF Fetch, Transfer, IInv, Exclusion, OwnerWrites
  <2>3. ReturnPoints' /\ StopsAborted'
    BY <1>14, <1>t
       DEF Fetch, Transfer, IInv, ReturnPoints, StopsAborted, Stopping,
           SetReturns, WriteReturns
  <2> QED BY <2>1, <2>2, <2>3 DEF IInv
<1>15. CASE Fetching
  <2>1. TypeOK'
    BY <1>15, <1>t
       DEF Fetching, Recorded, IInv, TypeOK, States, Delays, Results, Labels,
           AgentLabels, SharedLabels
  <2>2. Exclusion' /\ OwnerWrites'
    BY <1>15, <1>t DEF Fetching, Recorded, IInv, Exclusion, OwnerWrites
  <2>3. ReturnPoints' /\ StopsAborted'
    BY <1>15, <1>t
       DEF Fetching, Recorded, IInv, ReturnPoints, StopsAborted, Stopping,
           SetReturns, WriteReturns
  <2> QED BY <2>1, <2>2, <2>3 DEF IInv
<1>16. CASE Fetched
  <2>1. TypeOK'
    BY <1>16, <1>t
       DEF Fetched, ScanEnds, IInv, TypeOK, States, Delays, Results, Labels,
           AgentLabels, SharedLabels
  <2>2. Exclusion' /\ OwnerWrites'
    BY <1>16, <1>t DEF Fetched, ScanEnds, IInv, Exclusion, OwnerWrites
  <2>3. ReturnPoints' /\ StopsAborted'
    BY <1>16, <1>t
       DEF Fetched, ScanEnds, IInv, ReturnPoints, StopsAborted, Stopping,
           SetReturns, WriteReturns
  <2> QED BY <2>1, <2>2, <2>3 DEF IInv
<1>17. CASE Install
  <2>1. TypeOK'
    BY <1>17, <1>t
       DEF Install, Transfer, IInv, TypeOK, States, Delays, Results, Labels,
           AgentLabels, SharedLabels
  <2>2. Exclusion' /\ OwnerWrites'
    BY <1>17, <1>t DEF Install, Transfer, IInv, Exclusion, OwnerWrites
  <2>3. ReturnPoints' /\ StopsAborted'
    BY <1>17, <1>t
       DEF Install, Transfer, IInv, ReturnPoints, StopsAborted, Stopping,
           SetReturns, WriteReturns
  <2> QED BY <2>1, <2>2, <2>3 DEF IInv
<1>18. CASE Installed
  <2>1. TypeOK'
    BY <1>18, <1>t
       DEF Installed, ScanEnds, IInv, TypeOK, States, Delays, Results, Labels,
           AgentLabels, SharedLabels
  <2>2. Exclusion' /\ OwnerWrites'
    BY <1>18, <1>t DEF Installed, ScanEnds, IInv, Exclusion, OwnerWrites
  <2>3. ReturnPoints' /\ StopsAborted'
    BY <1>18, <1>t
       DEF Installed, ScanEnds, IInv, ReturnPoints, StopsAborted, Stopping,
           SetReturns, WriteReturns
  <2> QED BY <2>1, <2>2, <2>3 DEF IInv
<1>19. CASE Installing
  <2>1. TypeOK'
    BY <1>19, <1>t
       DEF Installing, Recorded, IInv, TypeOK, States, Delays, Results, Labels,
           AgentLabels, SharedLabels
  <2>2. Exclusion' /\ OwnerWrites'
    BY <1>19, <1>t DEF Installing, Recorded, IInv, Exclusion, OwnerWrites
  <2>3. ReturnPoints' /\ StopsAborted'
    BY <1>19, <1>t
       DEF Installing, Recorded, IInv, ReturnPoints, StopsAborted, Stopping,
           SetReturns, WriteReturns
  <2> QED BY <2>1, <2>2, <2>3 DEF IInv
<1> QED BY <1>1, <1>2, <1>3, <1>4, <1>5, <1>6, <1>7, <1>8, <1>9, <1>10, <1>11,
       <1>12, <1>13, <1>14, <1>15, <1>16, <1>17, <1>18, <1>19 DEF AgentEvent

\* The write and the unlock of UtvSetState: the owner leaves.
LEMMA SetWriteInv == ASSUME IInv, NEW t \in Threads, SetWrite(t) PROVE IInv'
<1> USE UsersAssumption DEF Threads, NoThread, Goto, stateVars, requestVars,
        lockVars, taskVars, waitVars
<1>t. /\ pc \in [Threads -> Labels] /\ after \in [Threads -> Labels]
      /\ new \in [Threads -> States]
  BY DEF IInv, TypeOK
<1>a. after[t] \in SetReturns \cup UserLabels
  BY DEF SetWrite, IInv, ReturnPoints
<1>1. TypeOK'
  BY <1>t DEF SetWrite, IInv, TypeOK, Exclusion, Results
<1>2. Exclusion' /\ OwnerWrites'
  BY <1>t, <1>a DEF SetWrite, IInv, Exclusion, OwnerWrites, SetReturns,
                    UserLabels
<1>3. ReturnPoints' /\ StopsAborted'
  BY <1>t, <1>a DEF SetWrite, IInv, Exclusion, ReturnPoints, StopsAborted,
                    Stopping, SetReturns, UserLabels
<1> QED BY <1>1, <1>2, <1>3 DEF IInv

\* What the persistent file may hold.
LEMMA FileType ==
  /\ NoFile \in Files
  /\ \A s \in States, w \in States \ {"ABORT"}, d \in Delays :
       Saved(s, w, d) \in Files
BY DEF NoFile, Saved, Files, States, Delays

\* The fields of what the persistent file may hold.
LEMMA FileFields ==
  \A f \in Files : /\ f.state \in States /\ f.delay \in Delays
                    /\ f.when \in States \ {"ABORT"}
BY DEF Files

\* The persistent file and the sleep leave the state alone.
LEMMA AgentQuietInv ==
  ASSUME IInv, PersistOpen \/ PersistData \/ AgentSleep \/ SleepTimeout
  PROVE  IInv'
<1> USE UsersAssumption DEF Threads, NoThread, Goto, stateVars, requestVars,
        lockVars, taskVars, waitVars
<1>t. /\ pc \in [Threads -> Labels] /\ after \in [Threads -> Labels]
      /\ new \in [Threads -> States]
  BY DEF IInv, TypeOK
<1>1. CASE PersistOpen
  <2>1. TypeOK'
    BY <1>1, <1>t, FileType DEF PersistOpen, IInv, TypeOK,
       Delays, Labels, AgentLabels, SharedLabels
  <2>2. Exclusion' /\ OwnerWrites'
    BY <1>1, <1>t DEF PersistOpen, IInv, Exclusion, OwnerWrites
  <2>3. ReturnPoints' /\ StopsAborted'
    BY <1>1, <1>t DEF PersistOpen, IInv, ReturnPoints, StopsAborted, Stopping,
       WriteReturns
  <2> QED BY <2>1, <2>2, <2>3 DEF IInv
<1>2. CASE PersistData
  <2>1. TypeOK'
    BY <1>2, <1>t, FileType DEF PersistData, IInv, TypeOK,
       Delays, Labels, AgentLabels, SharedLabels
  <2>2. Exclusion' /\ OwnerWrites'
    BY <1>2, <1>t DEF PersistData, IInv, Exclusion, OwnerWrites, ReturnPoints,
       WriteReturns
  <2>3. ReturnPoints' /\ StopsAborted'
    BY <1>2, <1>t DEF PersistData, IInv, ReturnPoints, StopsAborted, Stopping,
       WriteReturns
  <2> QED BY <2>1, <2>2, <2>3 DEF IInv
<1>3. CASE SleepInit
  <2>1. TypeOK'
    BY <1>3, <1>t DEF SleepInit, SleepStep, IInv, TypeOK,
       Delays, Labels, AgentLabels, SharedLabels
  <2>2. Exclusion' /\ OwnerWrites'
    BY <1>3, <1>t DEF SleepInit, SleepStep, IInv, Exclusion, OwnerWrites
  <2>3. ReturnPoints' /\ StopsAborted'
    BY <1>3, <1>t DEF SleepInit, SleepStep, IInv, ReturnPoints, StopsAborted,
           Stopping,
       WriteReturns
  <2> QED BY <2>1, <2>2, <2>3 DEF IInv
<1>4. CASE SleepTest
  <2>1. TypeOK'
    BY <1>4, <1>t DEF SleepTest, SleepStep, IInv, TypeOK,
       Delays, Labels, AgentLabels, SharedLabels
  <2>2. Exclusion' /\ OwnerWrites'
    BY <1>4, <1>t DEF SleepTest, SleepStep, IInv, Exclusion, OwnerWrites
  <2>3. ReturnPoints' /\ StopsAborted'
    BY <1>4, <1>t DEF SleepTest, SleepStep, IInv, ReturnPoints, StopsAborted,
           Stopping,
       WriteReturns
  <2> QED BY <2>1, <2>2, <2>3 DEF IInv
<1>5. CASE SleepWoken
  <2>1. TypeOK'
    BY <1>5, <1>t DEF SleepWoken, SleepStep, IInv, TypeOK,
       Delays, Labels, AgentLabels, SharedLabels
  <2>2. Exclusion' /\ OwnerWrites'
    BY <1>5, <1>t DEF SleepWoken, SleepStep, IInv, Exclusion, OwnerWrites
  <2>3. ReturnPoints' /\ StopsAborted'
    BY <1>5, <1>t DEF SleepWoken, SleepStep, IInv, ReturnPoints, StopsAborted,
           Stopping,
       WriteReturns
  <2> QED BY <2>1, <2>2, <2>3 DEF IInv
<1>6. CASE SleepTimeout
  <2>1. TypeOK'
    BY <1>6, <1>t DEF SleepTimeout, SleepStep, IInv, TypeOK,
       Delays, Labels, AgentLabels, SharedLabels
  <2>2. Exclusion' /\ OwnerWrites'
    BY <1>6, <1>t DEF SleepTimeout, SleepStep, IInv, Exclusion, OwnerWrites
  <2>3. ReturnPoints' /\ StopsAborted'
    BY <1>6, <1>t DEF SleepTimeout, SleepStep, IInv, ReturnPoints,
           StopsAborted, Stopping,
       WriteReturns
  <2> QED BY <2>1, <2>2, <2>3 DEF IInv
<1>7. CASE SleepDone
  <2>1. TypeOK'
    BY <1>7, <1>t DEF SleepDone, ScanSleeps, SleepStep, IInv, TypeOK,
       Delays, Labels, AgentLabels, SharedLabels
  <2>2. Exclusion' /\ OwnerWrites'
    BY <1>7, <1>t
       DEF SleepDone, ScanSleeps, SleepStep, IInv, Exclusion, OwnerWrites
  <2>3. ReturnPoints' /\ StopsAborted'
    BY <1>7, <1>t
       DEF SleepDone, ScanSleeps, SleepStep, IInv, ReturnPoints, StopsAborted,
           Stopping, WriteReturns
  <2> QED BY <2>1, <2>2, <2>3 DEF IInv
<1> QED BY <1>1, <1>2, <1>3, <1>4, <1>5, <1>6, <1>7 DEF AgentSleep

\* The end of the agent: nobody holds the mutex it destroys.
LEMMA AgentStopInv ==
  ASSUME IInv, Destroy \/ Halt \/ ExecuteFails PROVE IInv'
<1> USE UsersAssumption DEF Threads, NoThread, Goto, stateVars, requestVars,
        lockVars, taskVars, waitVars
<1>t. /\ pc \in [Threads -> Labels] /\ after \in [Threads -> Labels]
      /\ new \in [Threads -> States]
  BY DEF IInv, TypeOK
<1>1. CASE Destroy
  <2>1. TypeOK'
    BY <1>1, <1>t DEF Destroy, IInv, TypeOK, Labels, AgentLabels
  <2>2. Exclusion' /\ OwnerWrites'
    BY <1>1, <1>t DEF Destroy, IInv, Exclusion, OwnerWrites, StopsAborted,
       Stopping
  <2>3. ReturnPoints' /\ StopsAborted'
    BY <1>1, <1>t DEF Destroy, IInv, ReturnPoints, StopsAborted, Stopping,
       WriteReturns
  <2> QED BY <2>1, <2>2, <2>3 DEF IInv
<1>2. CASE Halt
  <2>1. TypeOK'
    BY <1>2, <1>t DEF Halt, IInv, TypeOK, Labels, AgentLabels
  <2>2. Exclusion' /\ OwnerWrites'
    BY <1>2, <1>t DEF Halt, IInv, Exclusion, OwnerWrites, StopsAborted,
       Stopping
  <2>3. ReturnPoints' /\ StopsAborted'
    BY <1>2, <1>t DEF Halt, IInv, ReturnPoints, StopsAborted, Stopping,
       WriteReturns
  <2> QED BY <2>1, <2>2, <2>3 DEF IInv
<1>3. CASE ExecuteFails
  <2>1. TypeOK'
    BY <1>3, <1>t, FileType DEF ExecuteFails, IInv, TypeOK, States, Labels,
       AgentLabels
  <2>2. Exclusion' /\ OwnerWrites'
    BY <1>3, <1>t DEF ExecuteFails, IInv, Exclusion, OwnerWrites, StopsAborted,
       Stopping
  <2>3. ReturnPoints' /\ StopsAborted'
    BY <1>3, <1>t DEF ExecuteFails, IInv, ReturnPoints, StopsAborted, Stopping,
       WriteReturns
  <2> QED BY <2>1, <2>2, <2>3 DEF IInv
<1> QED BY <1>1, <1>2, <1>3

\* A new process, and the users.
LEMMA BootInv == ASSUME IInv, Boot PROVE IInv'
<1> USE UsersAssumption DEF Threads, NoThread, Goto, stateVars, requestVars,
        lockVars, taskVars, waitVars
<1>t. /\ pc \in [Threads -> Labels] /\ after \in [Threads -> Labels]
      /\ new \in [Threads -> States]
  BY DEF IInv, TypeOK
<1>1. TypeOK'
  <2>1. /\ utvState' \in States /\ utvStateWhenAborted' \in States \ {"ABORT"}
        /\ iDelay' \in Delays /\ file' \in Files
    BY FileType, FileFields DEF Boot, IInv, TypeOK, States, Delays
  <2>2. /\ pc' \in [Threads -> Labels] /\ after' \in [Threads -> Labels]
        /\ new' \in [Threads -> States] /\ result' \in [Threads -> Results]
    BY DEF Boot, States, Labels, AgentLabels, UserLabels, Results
  <2>3. /\ bExitRequest' \in BOOLEAN /\ bRestartRequest' \in BOOLEAN
        /\ exitAsked' \in BOOLEAN /\ locksLive' \in BOOLEAN
        /\ waitLive' \in BOOLEAN
    BY DEF Boot
  <2>4. /\ owner' \in Threads \cup {NoThread}
        /\ rStatus' \in Results /\ utvCurrState' \in States
        /\ signals' \in Nat /\ requests' \in Nat /\ boots' \in Nat
    BY DEF Boot, IInv, TypeOK, States, Results
  <2> QED
    BY <2>1, <2>2, <2>3, <2>4 DEF TypeOK
<1>2. Exclusion' /\ OwnerWrites'
  BY DEF Boot, Exclusion, OwnerWrites
<1>3. ReturnPoints' /\ StopsAborted'
  BY DEF Boot, ReturnPoints, StopsAborted, Stopping, UserLabels
<1> QED BY <1>1, <1>2, <1>3 DEF IInv

\* A step of a user other than the agent: a request, its wake-up, UtvSetState.
LEMMA UserInv ==
  ASSUME IInv, NEW u \in Users, Wake(u) \/ \E op \in Ops : Request(u, op)
  PROVE  IInv'
<1> USE UsersAssumption DEF Threads, NoThread, Goto, stateVars, requestVars,
        lockVars, taskVars, waitVars
<1>t. /\ pc \in [Threads -> Labels] /\ after \in [Threads -> Labels]
      /\ new \in [Threads -> States]
  BY DEF IInv, TypeOK
<1>1. CASE Wake(u)
  <2>1. TypeOK'
    BY <1>1, <1>t DEF Wake, IInv, TypeOK,
       States, Labels, UserLabels, SharedLabels
  <2>2. Exclusion' /\ OwnerWrites'
    BY <1>1, <1>t DEF Wake, IInv, Exclusion, OwnerWrites
  <2>3. ReturnPoints' /\ StopsAborted'
    BY <1>1, <1>t DEF Wake, IInv, ReturnPoints, StopsAborted, Stopping,
       UserLabels
  <2> QED BY <2>1, <2>2, <2>3 DEF IInv
<1>2. CASE \E op \in Ops : Request(u, op)
  <2>1. TypeOK'
    BY <1>2, <1>t DEF Request, CallSetState, IInv, TypeOK,
       States, Labels, UserLabels, SharedLabels
  <2>2. Exclusion' /\ OwnerWrites'
    BY <1>2, <1>t DEF Request, CallSetState, IInv, Exclusion, OwnerWrites
  <2>3. ReturnPoints' /\ StopsAborted'
    BY <1>2, <1>t DEF Request, CallSetState, IInv, ReturnPoints, StopsAborted,
           Stopping,
       UserLabels
  <2> QED BY <2>1, <2>2, <2>3 DEF IInv
<1> QED BY <1>1, <1>2
-----------------------------------------------------------------------------
\* Every step of the specification preserves the invariant.
LEMMA StepInv == IInv /\ [Next]_vars => IInv'
<1> SUFFICES ASSUME IInv, [Next]_vars PROVE IInv'
  OBVIOUS
<1>1. CASE AgentStep
  BY <1>1, AgentEventInv, AgentQuietInv, AgentStopInv, SetLockInv, SetWriteInv
     DEF AgentStep, AgentStop, Threads
<1>2. CASE SleepTimeout \/ Boot
  BY <1>2, AgentQuietInv, BootInv
<1>3. ASSUME NEW u \in Users,
             UserStep(u) \/ \E op \in Ops : Request(u, op)
      PROVE  IInv'
  BY <1>3, SetLockInv, SetWriteInv, UserInv DEF UserStep, Threads
<1>4. CASE UNCHANGED vars
  BY <1>4 DEF vars, stateVars, requestVars, lockVars, taskVars, waitVars, IInv,
              TypeOK, Exclusion, OwnerWrites, ReturnPoints, StopsAborted,
              Stopping
<1> QED BY <1>1, <1>2, <1>3, <1>4 DEF Next

\* The invariant holds in every reachable state.
LEMMA Invariance == Spec => []IInv
BY InitInv, StepInv, PTL DEF Spec

\* Every variable of the agent has its type; in particular the state to go back
\* to after a restart is never ABORT, so that a start cannot begin aborted.
THEOREM TypeCorrect == Spec => []TypeOK
<1>1. IInv => TypeOK
  BY DEF IInv
<1> QED BY <1>1, Invariance, PTL

\* UtvSetState writes the state only under a live mutex it owns, and never over
\* an abort.
THEOREM MutualExclusion == Spec => []Exclusion
<1>1. IInv => Exclusion
  BY DEF IInv
<1> QED BY <1>1, Invariance, PTL

\* The shutdown destroys a state mutex that nobody holds.
THEOREM DestroyedFree == Spec => []NeverDestroyedHeld
<1>1. IInv => NeverDestroyedHeld
  BY UsersAssumption DEF IInv, TypeOK, Exclusion, OwnerWrites, StopsAborted,
                         Stopping, NeverDestroyedHeld, Threads
<1> QED BY <1>1, Invariance, PTL

\* While the agent runs, ABORT gives way only to the clearing at the end of
\* UtvAgentTask, the reset after a failed UtvExecute, or a new process.
THEOREM AbortIsSticky == Spec => AbortSticky
<1> DEFINE Step == utvState = "ABORT" /\ utvState' # "ABORT"
                     => \/ pc[Agent] \in {"check", "execute"}
                        \/ boots' # boots
<1>1. ASSUME IInv, Next PROVE Step
  <2> SUFFICES ASSUME utvState = "ABORT", utvState' # "ABORT"
               PROVE  \/ pc[Agent] \in {"check", "execute"}
                      \/ boots' # boots
    OBVIOUS
  <2> USE DEF stateVars
  <2>1. ASSUME NEW t \in Threads, SetLock(t) \/ SetWrite(t) PROVE FALSE
    <3>1. CASE SetLock(t)
      BY <3>1 DEF SetLock
    <3>2. CASE SetWrite(t)
      <4>1. pc[t] = "setWrite"
        BY <3>2 DEF SetWrite
      <4> QED BY <1>1, <4>1 DEF IInv, Exclusion
    <3> QED BY <2>1, <3>1, <3>2
  <2>2. CASE AgentEvent \/ AgentStop
    <3>1. CASE AgentEvent
      BY <3>1
         DEF AgentEvent, Loop, Task, Scan, Scanned, Fetch, Fetching, Fetched,
             Install, Installing, Installed, Transfer, Recorded, ScanDone,
             Download, DownloadDone, Check, Cleared, TaskEnd, BeforeSleep
    <3>2. CASE AgentStop
      BY <3>2 DEF AgentStop, Shutdown, Stopped, Destroy, Halt, ExecuteFails
    <3> QED BY <2>2, <3>1, <3>2
  <2>3. CASE AgentSleep \/ SleepTimeout \/ PersistOpen \/ PersistData
    BY <2>3 DEF AgentSleep, SleepInit, SleepTest, SleepWoken, SleepDone,
                SleepTimeout, SleepStep, PersistOpen, PersistData
  <2>4. CASE Boot
    BY <2>4 DEF Boot, IInv, TypeOK
  <2>5. ASSUME NEW u \in Users, Wake(u) \/ \E op \in Ops : Request(u, op)
        PROVE  FALSE
    BY <2>5 DEF Wake, Request
  <2> QED
    BY <1>1, <2>1, <2>2, <2>3, <2>4, <2>5
       DEF Next, AgentStep, UserStep, Threads
<1>2. IInv /\ [Next]_vars => [Step]_vars
  BY <1>1
<1> QED BY <1>2, Invariance, PTL DEF Spec, AbortSticky
-----------------------------------------------------------------------------
(* The delay that is slept is that of the state: an invariant of its own.  *)

\* the delays that an event may be given
OwnDelay(s) ==
  \/ s = "SCAN" /\ iDelay \in {"LONG", "SHORT"}
  \/ s = "DOWNLOAD" /\ iDelay \in {"START", "NOW"}
  \/ s = "DOWNLOAD_DONE" /\ iDelay = "NOW"

InCall == pc[Agent] \in {"setLock", "setWrite"}
Within(places) ==
  \/ pc[Agent] \in places
  \/ pc[Agent] \in {"pwOpen", "pwData"} /\ after[Agent] \in places

UsersAbort == \A u \in Users :
  pc[u] \in {"setLock", "setWrite"} => new[u] = "ABORT"

\* the event that is being set has its own delay
Pending == InCall /\ after[Agent] # "stopped" =>
  \/ new[Agent] = "EXIT" /\ after[Agent] = "taskEnd"
  \/ OwnDelay(new[Agent])

\* so has the event that was set, unless it gave way to an abort or, once the
\* scan is over, an exit
Scanning == {"scan", "scanned", "fetching", "fetched", "install",
             "installing", "installed"}
Settled == locksLive =>
  /\ Within(Scanning) => utvState = "ABORT" \/ OwnDelay(utvState)
  /\ Within({"scanDone", "check", "taskEnd", "next"}) =>
       utvState \in {"ABORT", "EXIT"} \/ OwnDelay(utvState)

\* an exit is not slept on, and a sleep needs a wait
Asleep ==
  /\ locksLive /\ Within({"sleepInit", "sleepTest", "blocked"}) =>
       utvState = "ABORT" \/ OwnDelay(utvState)
  /\ pc[Agent] \in {"sleepTest", "blocked"} /\ waitLive => locksLive
  /\ pc[Agent] = "blocked" => waitLive

\* the event of a complete download is never interrupted: what an abort leaves
\* behind it is a scan
Uninterrupted == utvCurrState = "DOWNLOAD_DONE" =>
  /\ rStatus = "OK"
  /\ ~Within(Scanning \cup {"fetch", "scanDone", "downloaded"})
  /\ InCall =>
       after[Agent] \notin {"scan", "fetching", "installing", "scanDone"}
  /\ pc[Agent] \in {"sleepInit", "sleepTest", "blocked", "awake"} =>
       ~ScanSleeps

DelayInv == UsersAbort /\ Pending /\ Settled /\ Asleep /\ Uninterrupted

\* Init establishes it.
LEMMA InitDelay == Init => DelayInv
<1> SUFFICES ASSUME Init PROVE DelayInv
  OBVIOUS
<1> QED
  BY UsersAssumption
     DEF Init, Threads, DelayInv, UsersAbort, Pending, Settled, Scanning,
         Asleep, Uninterrupted, Scanning, InCall, ScanSleeps, Within

\* One step of the agent's own control.
LEMMA AgentEventDelay ==
  ASSUME IInv, DelayInv, AgentEvent \/ Shutdown \/ Stopped PROVE DelayInv'
<1> USE UsersAssumption DEF Threads, NoThread, Moves, Goto, CallSetState,
        CallSetStateTime, CallPersistWrite, stateVars, requestVars, lockVars,
        taskVars, waitVars
<1>t. /\ pc \in [Threads -> Labels] /\ after \in [Threads -> Labels]
      /\ new \in [Threads -> States]
  BY DEF IInv, TypeOK
<1>1. CASE Loop
  <2>1. UsersAbort'
    BY <1>1, <1>t DEF Loop, DelayInv, UsersAbort
  <2>2. Pending'
    BY <1>1, <1>t DEF Loop, DelayInv, Pending, InCall, OwnDelay
  <2>3. Settled'
    BY <1>1, <1>t DEF Loop, DelayInv, Settled, Scanning, Within, OwnDelay
  <2>4. Asleep'
    BY <1>1, <1>t DEF Loop, DelayInv, Asleep, Within, OwnDelay
  <2>5. Uninterrupted'
    BY <1>1, <1>t
       DEF Loop, DelayInv, Uninterrupted, Scanning, Within, InCall, ScanSleeps
  <2> QED BY <2>1, <2>2, <2>3, <2>4, <2>5 DEF DelayInv
<1>2. CASE Task
  <2>1. UsersAbort'
    BY <1>2, <1>t DEF Task, DelayInv, UsersAbort
  <2>2. Pending'
    BY <1>2, <1>t DEF Task, DelayInv, Pending, InCall, OwnDelay
  <2>3. Settled'
    BY <1>2, <1>t
       DEF Task, IInv, TypeOK, States, DelayInv, Settled, Scanning, Within,
           OwnDelay
  <2>4. Asleep'
    BY <1>2, <1>t DEF Task, DelayInv, Asleep, Within, OwnDelay
  <2>5. Uninterrupted'
    BY <1>2, <1>t
       DEF Task, DelayInv, Uninterrupted, Scanning, Within, InCall, ScanSleeps
  <2> QED BY <2>1, <2>2, <2>3, <2>4, <2>5 DEF DelayInv
<1>3. CASE Scan
  <2>1. UsersAbort'
    BY <1>3, <1>t DEF Scan, DelayInv, UsersAbort
  <2>2. Pending'
    BY <1>3, <1>t DEF Scan, DelayInv, Pending, InCall, OwnDelay
  <2>3. Settled'
    BY <1>3, <1>t DEF Scan, DelayInv, Settled, Scanning, Within, OwnDelay
  <2>4. Asleep'
    BY <1>3, <1>t DEF Scan, DelayInv, Asleep, Within, OwnDelay
  <2>5. Uninterrupted'
    BY <1>3, <1>t
       DEF Scan, DelayInv, Uninterrupted, Scanning, Within, InCall, ScanSleeps
  <2> QED BY <2>1, <2>2, <2>3, <2>4, <2>5 DEF DelayInv
<1>4. CASE Scanned
  <2>1. UsersAbort'
    BY <1>4, <1>t DEF Scanned, ScanEnds, DelayInv, UsersAbort
  <2>2. Pending'
    BY <1>4, <1>t DEF Scanned, ScanEnds, DelayInv, Pending, InCall, OwnDelay
  <2>3. Settled'
    BY <1>4, <1>t
       DEF Scanned, ScanEnds, DelayInv, Settled, Scanning, Within, OwnDelay
  <2>4. Asleep'
    BY <1>4, <1>t
       DEF Scanned, ScanEnds, DelayInv, Settled, Scanning, Asleep, Within,
           OwnDelay
  <2>5. Uninterrupted'
    BY <1>4, <1>t
       DEF Scanned, ScanEnds, DelayInv, Uninterrupted, Scanning, Within,
           InCall, ScanSleeps
  <2> QED BY <2>1, <2>2, <2>3, <2>4, <2>5 DEF DelayInv
<1>5. CASE ScanDone
  <2>1. UsersAbort'
    BY <1>5, <1>t DEF ScanDone, DelayInv, UsersAbort
  <2>2. Pending'
    BY <1>5, <1>t DEF ScanDone, DelayInv, Pending, InCall, OwnDelay
  <2>3. Settled'
    BY <1>5, <1>t DEF ScanDone, DelayInv, Settled, Scanning, Within, OwnDelay
  <2>4. Asleep'
    BY <1>5, <1>t DEF ScanDone, DelayInv, Asleep, Within, OwnDelay
  <2>5. Uninterrupted'
    BY <1>5, <1>t
       DEF ScanDone, DelayInv, Uninterrupted, Scanning, Within, InCall,
           ScanSleeps
  <2> QED BY <2>1, <2>2, <2>3, <2>4, <2>5 DEF DelayInv
<1>6. CASE Download
  <2>1. UsersAbort'
    BY <1>6, <1>t DEF Download, DownloadNext, DelayInv, UsersAbort
  <2>2. Pending'
    BY <1>6, <1>t
       DEF Download, DownloadNext, DelayInv, Pending, InCall, OwnDelay
  <2>3. Settled'
    BY <1>6, <1>t
       DEF Download, DownloadNext, DelayInv, Settled, Scanning, Within,
           OwnDelay
  <2>4. Asleep'
    BY <1>6, <1>t
       DEF Download, DownloadNext, DelayInv, Asleep, Within, OwnDelay
  <2>5. Uninterrupted'
    BY <1>6, <1>t
       DEF Download, DownloadNext, DelayInv, Uninterrupted, Scanning, Within,
           InCall, ScanSleeps
  <2> QED BY <2>1, <2>2, <2>3, <2>4, <2>5 DEF DelayInv
<1>7. CASE DownloadDone
  <2>1. UsersAbort'
    BY <1>7, <1>t DEF DownloadDone, DelayInv, UsersAbort
  <2>2. Pending'
    BY <1>7, <1>t DEF DownloadDone, DelayInv, Pending, InCall, OwnDelay
  <2>3. Settled'
    BY <1>7, <1>t
       DEF DownloadDone, DelayInv, Settled, Scanning, Within, OwnDelay
  <2>4. Asleep'
    BY <1>7, <1>t DEF DownloadDone, DelayInv, Asleep, Within, OwnDelay
  <2>5. Uninterrupted'
    BY <1>7, <1>t
       DEF DownloadDone, DelayInv, Uninterrupted, Scanning, Within, InCall,
           ScanSleeps
  <2> QED BY <2>1, <2>2, <2>3, <2>4, <2>5 DEF DelayInv
<1>8. CASE Check
  <2>1. UsersAbort'
    BY <1>8, <1>t DEF Check, DelayInv, UsersAbort
  <2>2. Pending'
    BY <1>8, <1>t DEF Check, DelayInv, Pending, InCall, OwnDelay
  <2>3. Settled'
    BY <1>8, <1>t DEF Check, DelayInv, Settled, Scanning, Within, OwnDelay
  <2>4. Asleep'
    BY <1>8, <1>t DEF Check, DelayInv, Asleep, Within, OwnDelay
  <2>5. Uninterrupted'
    BY <1>8, <1>t
       DEF Check, DelayInv, Uninterrupted, Scanning, Within, InCall, ScanSleeps
  <2> QED BY <2>1, <2>2, <2>3, <2>4, <2>5 DEF DelayInv
<1>9. CASE Cleared
  <2>1. UsersAbort'
    BY <1>9, <1>t DEF Cleared, Reverted, DelayInv, UsersAbort
  <2>2. Pending'
    BY <1>9, <1>t
       DEF Cleared, Reverted, DelayInv, Pending, Uninterrupted, Scanning,
           InCall, OwnDelay
  <2>3. Settled'
    BY <1>9, <1>t
       DEF Cleared, Reverted, DelayInv, Settled, Scanning, Within, OwnDelay
  <2>4. Asleep'
    BY <1>9, <1>t DEF Cleared, Reverted, DelayInv, Asleep, Within, OwnDelay
  <2>5. Uninterrupted'
    BY <1>9, <1>t
       DEF Cleared, Reverted, DelayInv, Uninterrupted, Scanning, Within,
           InCall, ScanSleeps
  <2> QED BY <2>1, <2>2, <2>3, <2>4, <2>5 DEF DelayInv
<1>10. CASE TaskEnd
  <2>1. UsersAbort'
    BY <1>10, <1>t DEF TaskEnd, DelayInv, UsersAbort
  <2>2. Pending'
    BY <1>10, <1>t DEF TaskEnd, DelayInv, Pending, InCall, OwnDelay
  <2>3. Settled'
    BY <1>10, <1>t DEF TaskEnd, DelayInv, Settled, Scanning, Within, OwnDelay
  <2>4. Asleep'
    BY <1>10, <1>t DEF TaskEnd, DelayInv, Asleep, Within, OwnDelay
  <2>5. Uninterrupted'
    BY <1>10, <1>t
       DEF TaskEnd, DelayInv, Uninterrupted, Scanning, Within, InCall,
           ScanSleeps
  <2> QED BY <2>1, <2>2, <2>3, <2>4, <2>5 DEF DelayInv
<1>11. CASE BeforeSleep
  <2>1. UsersAbort'
    BY <1>11, <1>t DEF BeforeSleep, DelayInv, UsersAbort
  <2>2. Pending'
    BY <1>11, <1>t DEF BeforeSleep, DelayInv, Pending, InCall, OwnDelay
  <2>3. Settled'
    BY <1>11, <1>t
       DEF BeforeSleep, DelayInv, Settled, Scanning, Within, OwnDelay
  <2>4. Asleep'
    BY <1>11, <1>t
       DEF BeforeSleep, DelayInv, Settled, Scanning, Asleep, Within, OwnDelay
  <2>5. Uninterrupted'
    BY <1>11, <1>t
       DEF BeforeSleep, DelayInv, Uninterrupted, Scanning, Within, InCall,
           ScanSleeps
  <2> QED BY <2>1, <2>2, <2>3, <2>4, <2>5 DEF DelayInv
<1>12. CASE Shutdown
  <2>1. UsersAbort'
    BY <1>12, <1>t DEF Shutdown, DelayInv, UsersAbort
  <2>2. Pending'
    BY <1>12, <1>t DEF Shutdown, DelayInv, Pending, InCall, OwnDelay
  <2>3. Settled'
    BY <1>12, <1>t DEF Shutdown, DelayInv, Settled, Scanning, Within, OwnDelay
  <2>4. Asleep'
    BY <1>12, <1>t DEF Shutdown, DelayInv, Asleep, Within, OwnDelay
  <2>5. Uninterrupted'
    BY <1>12, <1>t
       DEF Shutdown, DelayInv, Uninterrupted, Scanning, Within, InCall,
           ScanSleeps
  <2> QED BY <2>1, <2>2, <2>3, <2>4, <2>5 DEF DelayInv
<1>13. CASE Stopped
  <2>1. UsersAbort'
    BY <1>13, <1>t DEF Stopped, DelayInv, UsersAbort
  <2>2. Pending'
    BY <1>13, <1>t DEF Stopped, DelayInv, Pending, InCall, OwnDelay
  <2>3. Settled'
    BY <1>13, <1>t DEF Stopped, DelayInv, Settled, Scanning, Within, OwnDelay
  <2>4. Asleep'
    BY <1>13, <1>t DEF Stopped, DelayInv, Asleep, Within, OwnDelay
  <2>5. Uninterrupted'
    BY <1>13, <1>t
       DEF Stopped, DelayInv, Uninterrupted, Scanning, Within, InCall,
           ScanSleeps
  <2> QED BY <2>1, <2>2, <2>3, <2>4, <2>5 DEF DelayInv
<1>14. CASE Fetch
  <2>1. UsersAbort'
    BY <1>14, <1>t DEF Fetch, Transfer, DelayInv, UsersAbort
  <2>2. Pending'
    BY <1>14, <1>t DEF Fetch, Transfer, DelayInv, Pending, InCall, OwnDelay
  <2>3. Settled'
    BY <1>14, <1>t
       DEF Fetch, Transfer, DelayInv, Settled, Scanning, Within, OwnDelay
  <2>4. Asleep'
    BY <1>14, <1>t DEF Fetch, Transfer, DelayInv, Asleep, Within, OwnDelay
  <2>5. Uninterrupted'
    BY <1>14, <1>t
       DEF Fetch, Transfer, DelayInv, Uninterrupted, Scanning, Within, InCall,
           ScanSleeps
  <2> QED BY <2>1, <2>2, <2>3, <2>4, <2>5 DEF DelayInv
<1>15. CASE Fetching
  <2>1. UsersAbort'
    BY <1>15, <1>t DEF Fetching, Recorded, DelayInv, UsersAbort
  <2>2. Pending'
    BY <1>15, <1>t DEF Fetching, Recorded, DelayInv, Pending, InCall, OwnDelay
  <2>3. Settled'
    BY <1>15, <1>t
       DEF Fetching, Recorded, DelayInv, Settled, Scanning, Within, OwnDelay
  <2>4. Asleep'
    BY <1>15, <1>t DEF Fetching, Recorded, DelayInv, Asleep, Within, OwnDelay
  <2>5. Uninterrupted'
    BY <1>15, <1>t
       DEF Fetching, Recorded, DelayInv, Uninterrupted, Scanning, Within,
           InCall, ScanSleeps
  <2> QED BY <2>1, <2>2, <2>3, <2>4, <2>5 DEF DelayInv
<1>16. CASE Fetched
  <2>1. UsersAbort'
    BY <1>16, <1>t DEF Fetched, ScanEnds, DelayInv, UsersAbort
  <2>2. Pending'
    BY <1>16, <1>t DEF Fetched, ScanEnds, DelayInv, Pending, InCall, OwnDelay
  <2>3. Settled'
    BY <1>16, <1>t
       DEF Fetched, ScanEnds, DelayInv, Settled, Scanning, Within, OwnDelay
  <2>4. Asleep'
    BY <1>16, <1>t DEF Fetched, ScanEnds, DelayInv, Asleep, Within, OwnDelay
  <2>5. Uninterrupted'
    BY <1>16, <1>t
       DEF Fetched, ScanEnds, DelayInv, Uninterrupted, Scanning, Within,
           InCall, ScanSleeps
  <2> QED BY <2>1, <2>2, <2>3, <2>4, <2>5 DEF DelayInv
<1>17. CASE Install
  <2>1. UsersAbort'
    BY <1>17, <1>t DEF Install, Transfer, DelayInv, UsersAbort
  <2>2. Pending'
    BY <1>17, <1>t DEF Install, Transfer, DelayInv, Pending, InCall, OwnDelay
  <2>3. Settled'
    BY <1>17, <1>t
       DEF Install, Transfer, DelayInv, Settled, Scanning, Within, OwnDelay
  <2>4. Asleep'
    BY <1>17, <1>t DEF Install, Transfer, DelayInv, Asleep, Within, OwnDelay
  <2>5. Uninterrupted'
    BY <1>17, <1>t
       DEF Install, Transfer, DelayInv, Uninterrupted, Scanning, Within,
           InCall, ScanSleeps
  <2> QED BY <2>1, <2>2, <2>3, <2>4, <2>5 DEF DelayInv
<1>18. CASE Installed
  <2>1. UsersAbort'
    BY <1>18, <1>t DEF Installed, ScanEnds, DelayInv, UsersAbort
  <2>2. Pending'
    BY <1>18, <1>t DEF Installed, ScanEnds, DelayInv, Pending, InCall, OwnDelay
  <2>3. Settled'
    BY <1>18, <1>t
       DEF Installed, ScanEnds, DelayInv, Settled, Scanning, Within, OwnDelay
  <2>4. Asleep'
    BY <1>18, <1>t DEF Installed, ScanEnds, DelayInv, Asleep, Within, OwnDelay
  <2>5. Uninterrupted'
    BY <1>18, <1>t
       DEF Installed, ScanEnds, DelayInv, Uninterrupted, Scanning, Within,
           InCall, ScanSleeps
  <2> QED BY <2>1, <2>2, <2>3, <2>4, <2>5 DEF DelayInv
<1>19. CASE Installing
  <2>1. UsersAbort'
    BY <1>19, <1>t DEF Installing, Recorded, DelayInv, UsersAbort
  <2>2. Pending'
    BY <1>19, <1>t
       DEF Installing, Recorded, DelayInv, Pending, InCall, OwnDelay
  <2>3. Settled'
    BY <1>19, <1>t
       DEF Installing, Recorded, DelayInv, Settled, Scanning, Within, OwnDelay
  <2>4. Asleep'
    BY <1>19, <1>t DEF Installing, Recorded, DelayInv, Asleep, Within, OwnDelay
  <2>5. Uninterrupted'
    BY <1>19, <1>t
       DEF Installing, Recorded, DelayInv, Uninterrupted, Scanning, Within,
           InCall, ScanSleeps
  <2> QED BY <2>1, <2>2, <2>3, <2>4, <2>5 DEF DelayInv
<1> QED
  BY <1>1, <1>2, <1>3, <1>4, <1>5, <1>6, <1>7, <1>8, <1>9, <1>10, <1>11, <1>12,
     <1>13, <1>14, <1>15, <1>16, <1>17, <1>18, <1>19
     DEF AgentEvent

\* The sleep, a write of persistent memory, and the end of the shutdown.
LEMMA AgentQuietDelay ==
  ASSUME IInv, DelayInv,
         \/ AgentSleep \/ SleepTimeout \/ PersistOpen \/ PersistData
         \/ Destroy \/ Halt \/ ExecuteFails
  PROVE  DelayInv'
<1> USE UsersAssumption DEF Threads, Goto, SleepStep, stateVars, requestVars,
        lockVars, taskVars, waitVars
<1>t. /\ pc \in [Threads -> Labels] /\ after \in [Threads -> Labels]
      /\ new \in [Threads -> States]
  BY DEF IInv, TypeOK
<1>r. pc[Agent] \in {"pwOpen", "pwData"} => after[Agent] \in WriteReturns
  BY DEF IInv, ReturnPoints
<1>1. CASE SleepInit
  <2>1. UsersAbort' /\ Pending'
    BY <1>1, <1>t DEF SleepInit, DelayInv, UsersAbort, Pending, InCall
  <2>2. Settled'
    BY <1>1, <1>t DEF SleepInit, DelayInv, Settled, Scanning, Within, OwnDelay
  <2>3. Asleep'
    BY <1>1, <1>t DEF SleepInit, DelayInv, Asleep, Within, OwnDelay
  <2>4. Uninterrupted'
    BY <1>1, <1>t
       DEF SleepInit, DelayInv, Uninterrupted, Scanning, Within, InCall,
           ScanSleeps
  <2> QED BY <2>1, <2>2, <2>3, <2>4 DEF DelayInv
<1>2. CASE SleepTest
  <2>1. UsersAbort' /\ Pending'
    BY <1>2, <1>t DEF SleepTest, DelayInv, UsersAbort, Pending, InCall
  <2>2. Settled'
    BY <1>2, <1>t DEF SleepTest, DelayInv, Settled, Scanning, Within, OwnDelay
  <2>3. Asleep'
    BY <1>2, <1>t DEF SleepTest, DelayInv, Asleep, Within, OwnDelay
  <2>4. Uninterrupted'
    BY <1>2, <1>t
       DEF SleepTest, DelayInv, Uninterrupted, Scanning, Within, InCall,
           ScanSleeps
  <2> QED BY <2>1, <2>2, <2>3, <2>4 DEF DelayInv
<1>3. CASE SleepWoken
  <2>1. UsersAbort' /\ Pending'
    BY <1>3, <1>t DEF SleepWoken, DelayInv, UsersAbort, Pending, InCall
  <2>2. Settled'
    BY <1>3, <1>t DEF SleepWoken, DelayInv, Settled, Scanning, Within, OwnDelay
  <2>3. Asleep'
    BY <1>3, <1>t DEF SleepWoken, DelayInv, Asleep, Within, OwnDelay
  <2>4. Uninterrupted'
    BY <1>3, <1>t
       DEF SleepWoken, DelayInv, Uninterrupted, Scanning, Within, InCall,
           ScanSleeps
  <2> QED BY <2>1, <2>2, <2>3, <2>4 DEF DelayInv
<1>4. CASE SleepTimeout
  <2>1. UsersAbort' /\ Pending'
    BY <1>4, <1>t DEF SleepTimeout, DelayInv, UsersAbort, Pending, InCall
  <2>2. Settled'
    BY <1>4, <1>t
       DEF SleepTimeout, DelayInv, Settled, Scanning, Within, OwnDelay
  <2>3. Asleep'
    BY <1>4, <1>t DEF SleepTimeout, DelayInv, Asleep, Within, OwnDelay
  <2>4. Uninterrupted'
    BY <1>4, <1>t
       DEF SleepTimeout, DelayInv, Uninterrupted, Scanning, Within, InCall,
           ScanSleeps
  <2> QED BY <2>1, <2>2, <2>3, <2>4 DEF DelayInv
<1>5. CASE SleepDone
  <2>1. UsersAbort' /\ Pending'
    BY <1>5, <1>t
       DEF SleepDone, ScanSleeps, DelayInv, UsersAbort, Pending, InCall
  <2>2. Settled'
    BY <1>5, <1>t
       DEF SleepDone, ScanSleeps, DelayInv, Settled, Scanning, Within, OwnDelay
  <2>3. Asleep'
    BY <1>5, <1>t DEF SleepDone, ScanSleeps, DelayInv, Asleep, Within, OwnDelay
  <2>4. Uninterrupted'
    BY <1>5, <1>t
       DEF SleepDone, ScanSleeps, DelayInv, Uninterrupted, Scanning, Within,
           InCall
  <2> QED BY <2>1, <2>2, <2>3, <2>4 DEF DelayInv
<1>6. CASE PersistOpen
  <2>1. UsersAbort' /\ Pending'
    BY <1>6, <1>t DEF PersistOpen, DelayInv, UsersAbort, Pending, InCall
  <2>2. Settled'
    BY <1>6, <1>t
       DEF PersistOpen, DelayInv, Settled, Scanning, Within, OwnDelay
  <2>3. Asleep'
    BY <1>6, <1>t DEF PersistOpen, DelayInv, Asleep, Within, OwnDelay
  <2>4. Uninterrupted'
    BY <1>6, <1>t
       DEF PersistOpen, DelayInv, Uninterrupted, Scanning, Within, InCall,
           ScanSleeps
  <2> QED BY <2>1, <2>2, <2>3, <2>4 DEF DelayInv
<1>7. CASE PersistData
  <2>1. UsersAbort' /\ Pending'
    BY <1>7, <1>t, <1>r
       DEF PersistData, WriteReturns, DelayInv, UsersAbort, Pending, InCall
  <2>2. Settled'
    BY <1>7, <1>t, <1>r
       DEF PersistData, WriteReturns, DelayInv, Settled, Scanning, Within,
           OwnDelay
  <2>3. Asleep'
    BY <1>7, <1>t, <1>r
       DEF PersistData, WriteReturns, DelayInv, Asleep, Within, OwnDelay
  <2>4. Uninterrupted'
    BY <1>7, <1>t, <1>r
       DEF PersistData, WriteReturns, DelayInv, Uninterrupted, Scanning,
           Within, InCall, ScanSleeps
  <2> QED BY <2>1, <2>2, <2>3, <2>4 DEF DelayInv
<1>8. CASE Destroy
  <2>1. UsersAbort' /\ Pending'
    BY <1>8, <1>t DEF Destroy, DelayInv, UsersAbort, Pending, InCall
  <2>2. Settled'
    BY <1>8, <1>t DEF Destroy, DelayInv, Settled, Scanning, Within, OwnDelay
  <2>3. Asleep'
    BY <1>8, <1>t DEF Destroy, DelayInv, Asleep, Within, OwnDelay
  <2>4. Uninterrupted'
    BY <1>8, <1>t
       DEF Destroy, DelayInv, Uninterrupted, Scanning, Within, InCall,
           ScanSleeps
  <2> QED BY <2>1, <2>2, <2>3, <2>4 DEF DelayInv
<1>9. CASE Halt
  <2>1. UsersAbort' /\ Pending'
    BY <1>9, <1>t DEF Halt, DelayInv, UsersAbort, Pending, InCall
  <2>2. Settled'
    BY <1>9, <1>t DEF Halt, DelayInv, Settled, Scanning, Within, OwnDelay
  <2>3. Asleep'
    BY <1>9, <1>t DEF Halt, DelayInv, Asleep, Within, OwnDelay
  <2>4. Uninterrupted'
    BY <1>9, <1>t
       DEF Halt, DelayInv, Uninterrupted, Scanning, Within, InCall, ScanSleeps
  <2> QED BY <2>1, <2>2, <2>3, <2>4 DEF DelayInv
<1>10. CASE ExecuteFails
  <2>1. UsersAbort' /\ Pending'
    BY <1>10, <1>t DEF ExecuteFails, DelayInv, UsersAbort, Pending, InCall
  <2>2. Settled'
    BY <1>10, <1>t
       DEF ExecuteFails, DelayInv, Settled, Scanning, Within, OwnDelay
  <2>3. Asleep'
    BY <1>10, <1>t DEF ExecuteFails, DelayInv, Asleep, Within, OwnDelay
  <2>4. Uninterrupted'
    BY <1>10, <1>t
       DEF ExecuteFails, DelayInv, Uninterrupted, Scanning, Within, InCall,
           ScanSleeps
  <2> QED BY <2>1, <2>2, <2>3, <2>4 DEF DelayInv
<1> QED
  BY <1>1, <1>2, <1>3, <1>4, <1>5, <1>6, <1>7, <1>8, <1>9, <1>10 DEF AgentSleep

\* UtvSetState of the agent: what it sets has its own delay.
LEMMA AgentSetDelay ==
  ASSUME IInv, DelayInv, SetLock(Agent) \/ SetWrite(Agent) PROVE DelayInv'
<1> USE UsersAssumption DEF Threads, Goto, stateVars, requestVars, lockVars,
        taskVars, waitVars
<1>t. /\ pc \in [Threads -> Labels] /\ after \in [Threads -> Labels]
      /\ new \in [Threads -> States]
  BY DEF IInv, TypeOK
<1>r. InCall => after[Agent] \in SetReturns
  BY DEF IInv, ReturnPoints, InCall
<1>1. CASE SetLock(Agent)
  <2>1. UsersAbort'
    BY <1>1, <1>t DEF SetLock, DelayInv, UsersAbort
  <2>2. Pending'
    BY <1>1, <1>t, <1>r DEF SetLock, DelayInv, Pending, InCall, OwnDelay,
       SetReturns
  <2>3. Settled'
    BY <1>1, <1>t, <1>r
       DEF SetLock, Settled, Scanning, Within, InCall, SetReturns
  <2>4. Asleep'
    BY <1>1, <1>t, <1>r DEF SetLock, Asleep, Within, InCall, SetReturns
  <2>5. Uninterrupted'
    BY <1>1, <1>t, <1>r
       DEF SetLock, DelayInv, Uninterrupted, Scanning, Within, InCall,
           ScanSleeps, SetReturns
  <2> QED BY <2>1, <2>2, <2>3, <2>4, <2>5 DEF DelayInv
<1>2. CASE SetWrite(Agent)
  <2>1. UsersAbort'
    BY <1>2, <1>t DEF SetWrite, DelayInv, UsersAbort
  <2>2. Pending'
    BY <1>2, <1>t, <1>r DEF SetWrite, Pending, InCall, SetReturns
  <2>3. Settled'
    BY <1>2, <1>t, <1>r
       DEF SetWrite, DelayInv, Pending, Settled, Scanning, Within, InCall,
       OwnDelay, SetReturns
  <2>4. Asleep'
    BY <1>2, <1>t, <1>r DEF SetWrite, Asleep, Within, InCall, SetReturns
  <2>5. Uninterrupted'
    BY <1>2, <1>t, <1>r
       DEF SetWrite, DelayInv, Uninterrupted, Scanning, Within, InCall,
           ScanSleeps, SetReturns
  <2> QED BY <2>1, <2>2, <2>3, <2>4, <2>5 DEF DelayInv
<1> QED BY <1>1, <1>2

\* Users only ever make the state ABORT.
LEMMA UserDelay ==
  ASSUME IInv, DelayInv, NEW u \in Users,
         UserStep(u) \/ \E op \in Ops : Request(u, op)
  PROVE  DelayInv'
<1> USE UsersAssumption DEF Threads, Goto, stateVars, requestVars, lockVars,
        taskVars, waitVars
<1>t. /\ pc \in [Threads -> Labels] /\ after \in [Threads -> Labels]
      /\ new \in [Threads -> States]
  BY DEF IInv, TypeOK
<1>1. /\ pc'[Agent] = pc[Agent] /\ after'[Agent] = after[Agent]
      /\ new'[Agent] = new[Agent]
      /\ UNCHANGED <<iDelay, locksLive, taskVars, waitLive>>
  BY <1>t DEF UserStep, SetLock, SetWrite, Wake, Request, CallSetState
<1>2. utvState' = utvState \/ utvState' = "ABORT"
  BY <1>t
     DEF UserStep, SetLock, SetWrite, Wake, Request, CallSetState, DelayInv,
     UsersAbort
<1>3. UsersAbort'
  <2>0. after[u] \in UserLabels
    BY DEF IInv, ReturnPoints
  <2>1. CASE SetLock(u) \/ SetWrite(u) \/ Wake(u)
    BY <1>t, <2>0, <2>1 DEF SetLock, SetWrite, Wake, DelayInv, UsersAbort,
       UserLabels
  <2>2. CASE \E op \in Ops : Request(u, op)
    BY <1>t, <2>2 DEF Request, CallSetState, DelayInv, UsersAbort, States
  <2> QED BY <2>1, <2>2 DEF UserStep
<1>4. Pending' /\ Settled' /\ Asleep' /\ Uninterrupted'
  BY <1>1, <1>2
     DEF DelayInv, Pending, Settled, Scanning, Asleep, Uninterrupted,
         Within, InCall, ScanSleeps, OwnDelay
<1> QED BY <1>3, <1>4 DEF DelayInv

\* Every step preserves it.
LEMMA StepDelay == IInv /\ DelayInv /\ [Next]_vars => DelayInv'
<1> SUFFICES ASSUME IInv, DelayInv, [Next]_vars PROVE DelayInv'
  OBVIOUS
<1>1. CASE AgentStep
  BY <1>1, AgentEventDelay, AgentQuietDelay, AgentSetDelay
     DEF AgentStep, AgentStop
<1>2. CASE SleepTimeout
  BY <1>2, AgentQuietDelay
<1>3. CASE Boot
  BY <1>3, UsersAssumption DEF Boot, Threads, DelayInv, UsersAbort, Pending,
     Settled, Asleep, Uninterrupted, Scanning, InCall, ScanSleeps, Within
<1>4. CASE \E u \in Users : UserStep(u) \/ \E op \in Ops : Request(u, op)
  BY <1>4, UserDelay
<1>5. CASE UNCHANGED vars
  BY <1>5
     DEF vars, stateVars, requestVars, lockVars, taskVars, waitVars, DelayInv,
         UsersAbort, Pending, Settled, Scanning, Asleep, Uninterrupted,
         InCall, ScanSleeps, Within, OwnDelay
<1> QED BY <1>1, <1>2, <1>3, <1>4, <1>5 DEF Next

\* The agent never sleeps on the delay of another event than the one its state
\* names, nor on what a sleep inside a scan has left: whatever such a scan ends
\* with, the transfer that follows the sleep sets the delay again.  This holds
\* whatever aborts, exits and restarts come in between, and with a state mutex
\* that was destroyed and cannot be used again.
THEOREM DelayIsOwn == Spec => []SleepMatchesState
<1>1. IInv /\ DelayInv => SleepMatchesState
  BY DEF DelayInv, Asleep, Within, OwnDelay, SleepMatchesState
<1> QED BY <1>1, InitInv, StepInv, InitDelay, StepDelay, PTL DEF Spec
=============================================================================
