--------------------------- MODULE ThreadRegistry ---------------------------
(***************************************************************************)
(* The registry of threads (UtvThreadCreate, UtvThreadExit and the table   *)
(* threadExists they share).  The table has no lock: threadBeingCreated,   *)
(* a flag that is tested and then set, is to keep a thread from exiting or *)
(* being created while another is.  Whoever finds the flag set looks again *)
(* every second, THREAD_COUNT times at most, then goes on regardless.      *)
(*                                                                         *)
(* Init, Next and the like have names of their own here, for               *)
(* Platform_proofs extends this module and WaitHandle.                     *)
(***************************************************************************)
EXTENDS Integers, FiniteSetsExt

CONSTANTS
  Creators,     \* threads that call UtvThreadCreate
  Workers,      \* handles pthread_create may return
  Routines,     \* thread functions
  NoThread,         \* no handle, no function
  THREAD_COUNT

ASSUME CreatorsAssumption == Creators \cap Workers = {}
ASSUME NullAssumption == NoThread \notin Workers \cup Routines
ASSUME CountAssumption == THREAD_COUNT \in Nat \ {0}

Indices == 0 .. THREAD_COUNT - 1

VARIABLES
  hThread, pRoutine,    \* the two fields of threadExists
  threadBeingCreated,
  place,
  tries,                \* how often each thread has looked at the flag
  index,                \* the entry each thread has found
  wanted,               \* the function each creator wants to run
  created,              \* the handle pthread_create gave to each creator
  runs                  \* the function each thread runs, or NoThread

threadExists == <<hThread, pRoutine>>
registryVars == <<threadExists, threadBeingCreated, place, tries, index,
                  wanted, created, runs>>

RegistryInit ==
  /\ hThread = [i \in Indices |-> NoThread]
  /\ pRoutine = [i \in Indices |-> NoThread]
  /\ threadBeingCreated = 0
  /\ place = [t \in Creators \cup Workers |->
                IF t \in Creators THEN "idle" ELSE "none"]
  /\ tries = [t \in Creators \cup Workers |-> 0]
  /\ index = [t \in Creators \cup Workers |-> 0]
  /\ wanted = [c \in Creators |-> NoThread]
  /\ created = [c \in Creators |-> NoThread]
  /\ runs = [t \in Workers |-> NoThread]

StepTo(t, l) == place' = [place EXCEPT ![t] = l]

\* UtvThreadCreate returns: its locals are gone
CreateReturns(c) ==
  /\ StepTo(c, "idle")
  /\ tries' = [tries EXCEPT ![c] = 0]
  /\ index' = [index EXCEPT ![c] = 0]
  /\ wanted' = [wanted EXCEPT ![c] = NoThread]
  /\ created' = [created EXCEPT ![c] = NoThread]
BeingRegistered(t) ==
  \E c \in Creators : place[c] = "register" /\ created[c] = t

\* the loop both functions begin with has ended for t
Waited(t) == threadBeingCreated = 0 \/ tries[t] = THREAD_COUNT

\* mutant: the sleeps are not counted
SleepUncounted(t) ==
  /\ place[t] \in {"wait", "exit"} /\ ~Waited(t)
  /\ UNCHANGED registryVars

\* sleep(1): creating a thread takes less time than all the sleeps together
Sleep(t) ==
  /\ place[t] \in {"wait", "exit"} /\ ~Waited(t)
  /\ BeingRegistered(t) => tries[t] < THREAD_COUNT - 1
  /\ tries' = [tries EXCEPT ![t] = @ + 1]
  /\ UNCHANGED <<threadExists, threadBeingCreated, place, index, wanted,
                 created, runs>>
-----------------------------------------------------------------------------
(* UtvThreadCreate.  Every return but the last leaves the flag set.        *)

Call(c) ==
  /\ place[c] = "idle"
  /\ \E r \in Routines : wanted' = [wanted EXCEPT ![c] = r]
  /\ StepTo(c, "wait")
  /\ UNCHANGED <<threadExists, threadBeingCreated, tries, index, created, runs>>

LeaveWait(c) ==
  /\ place[c] = "wait" /\ Waited(c)
  /\ StepTo(c, "flag")
  /\ UNCHANGED <<threadExists, threadBeingCreated, tries, index, wanted,
                 created, runs>>

SetFlag(c) ==
  /\ place[c] = "flag"
  /\ threadBeingCreated' = 1
  /\ StepTo(c, "search")
  /\ UNCHANGED <<threadExists, tries, index, wanted, created, runs>>

FreeIndices == {i \in Indices : hThread[i] = NoThread}
AlreadyThreaded(r) ==
  \E i \in Indices : hThread[i] # NoThread /\ pRoutine[i] = r

\* mutant: the first entry is taken when there is no free one
SearchFirst(c) ==
  /\ place[c] = "search"
  /\ IF AlreadyThreaded(wanted[c])
     THEN CreateReturns(c)
     ELSE /\ index' = [index EXCEPT ![c] =
                         IF FreeIndices = {} THEN 0 ELSE Min(FreeIndices)]
          /\ StepTo(c, "create")
          /\ UNCHANGED <<tries, wanted, created>>
  /\ UNCHANGED <<threadExists, threadBeingCreated, runs>>

Search(c) ==
  /\ place[c] = "search"
  /\ IF AlreadyThreaded(wanted[c]) \/ FreeIndices = {}
     THEN CreateReturns(c)
     ELSE /\ index' = [index EXCEPT ![c] = Min(FreeIndices)]
          /\ StepTo(c, "create")
          /\ UNCHANGED <<tries, wanted, created>>
  /\ UNCHANGED <<threadExists, threadBeingCreated, runs>>

\* pthread_create; the new thread runs before it is in the table
Create(c) ==
  /\ place[c] = "create"
  /\ \E t \in {u \in Workers : place[u] = "none"} :
       /\ created' = [created EXCEPT ![c] = t]
       /\ runs' = [runs EXCEPT ![t] = wanted[c]]
       /\ place' = [place EXCEPT ![c] = "register", ![t] = "run"]
  /\ UNCHANGED <<threadExists, threadBeingCreated, tries, index, wanted>>

CreateFails(c) ==
  /\ place[c] = "create"
  /\ CreateReturns(c)
  /\ UNCHANGED <<threadExists, threadBeingCreated, runs>>

Register(c) ==
  /\ place[c] = "register"
  /\ hThread' = [hThread EXCEPT ![index[c]] = created[c]]
  /\ pRoutine' = [pRoutine EXCEPT ![index[c]] = wanted[c]]
  /\ threadBeingCreated' = 0
  /\ CreateReturns(c)
  /\ UNCHANGED runs
-----------------------------------------------------------------------------
(* A thread runs its function, which ends with UtvThreadExit.              *)

Finish(t) ==
  /\ place[t] = "run"
  /\ StepTo(t, "exit")
  /\ UNCHANGED <<threadExists, threadBeingCreated, tries, index, wanted,
                 created, runs>>

EntriesOf(t) == {i \in Indices : hThread[i] = t}

\* mutant: an exit does not wait for the flag
FindUnflagged(t) ==
  /\ place[t] = "exit"
  /\ IF EntriesOf(t) # {}
     THEN /\ index' = [index EXCEPT ![t] = Min(EntriesOf(t))]
          /\ StepTo(t, "clear") /\ UNCHANGED runs
     ELSE /\ runs' = [runs EXCEPT ![t] = NoThread]
          /\ StepTo(t, "undetached") /\ UNCHANGED index
  /\ UNCHANGED <<threadExists, threadBeingCreated, tries, wanted, created>>

\* a thread that is not in the table returns without being detached
FindSelf(t) ==
  /\ place[t] = "exit" /\ Waited(t)
  /\ IF EntriesOf(t) # {}
     THEN /\ index' = [index EXCEPT ![t] = Min(EntriesOf(t))]
          /\ StepTo(t, "clear") /\ UNCHANGED runs
     ELSE /\ runs' = [runs EXCEPT ![t] = NoThread]
          /\ StepTo(t, "undetached") /\ UNCHANGED index
  /\ UNCHANGED <<threadExists, threadBeingCreated, tries, wanted, created>>

ClearHandle(t) ==
  /\ place[t] = "clear"
  /\ hThread' = [hThread EXCEPT ![index[t]] = NoThread]
  /\ StepTo(t, "clearRoutine")
  /\ UNCHANGED <<pRoutine, threadBeingCreated, tries, index, wanted, created,
                 runs>>

\* pthread_exit of a detached thread: its handle may be used again
ClearRoutine(t) ==
  /\ place[t] = "clearRoutine"
  /\ pRoutine' = [pRoutine EXCEPT ![index[t]] = NoThread]
  /\ runs' = [runs EXCEPT ![t] = NoThread]
  /\ tries' = [tries EXCEPT ![t] = 0]
  /\ index' = [index EXCEPT ![t] = 0]
  /\ StepTo(t, "none")
  /\ UNCHANGED <<hThread, threadBeingCreated, wanted, created>>
-----------------------------------------------------------------------------
CreatorStep(c) == \/ Sleep(c) \/ LeaveWait(c) \/ SetFlag(c) \/ Search(c)
                  \/ Create(c) \/ CreateFails(c) \/ Register(c)
ThreadStep(t) == Sleep(t) \/ FindSelf(t) \/ ClearHandle(t) \/ ClearRoutine(t)

RegistryNext == \/ \E c \in Creators : Call(c) \/ CreatorStep(c)
        \/ \E t \in Workers : Finish(t) \/ ThreadStep(t)

\* A thread that can run does; nobody has to create one, nor a function to end.
RegistryFairness == /\ \A c \in Creators : WF_registryVars(CreatorStep(c))
            /\ \A t \in Workers : WF_registryVars(ThreadStep(t))

RegistrySpec == RegistryInit /\ [][RegistryNext]_registryVars
RegistryFairSpec == RegistrySpec /\ RegistryFairness
-----------------------------------------------------------------------------
RegistryTypeOK ==
  /\ hThread \in [Indices -> Workers \cup {NoThread}]
  /\ pRoutine \in [Indices -> Routines \cup {NoThread}]
  /\ threadBeingCreated \in {0, 1}
  /\ place \in [Creators \cup Workers ->
               {"idle", "wait", "flag", "search", "create", "register",
                "none", "run", "exit", "clear", "clearRoutine", "undetached"}]
  /\ tries \in [Creators \cup Workers -> 0 .. THREAD_COUNT]
  /\ index \in [Creators \cup Workers -> Indices]
  /\ wanted \in [Creators -> Routines \cup {NoThread}]
  /\ created \in [Creators -> Workers \cup {NoThread}]
  /\ runs \in [Workers -> Routines \cup {NoThread}]

\* UtvThreadsActive misses no thread: one that has not yet reached the end of
\* UtvThreadExit is in the table, or about to be put there.
ActiveSeen == \A t \in Workers :
  place[t] \in {"run", "exit", "clear"} =>
    BeingRegistered(t) \/ EntriesOf(t) # {}

\* The table "ensures that there are no threads waiting around": it names no
\* thread that has gone, and no thread ends without having left it.
NoGhost ==
  /\ \A i \in Indices : hThread[i] # NoThread =>
       place[hThread[i]] \in {"run", "exit", "clear"}
  /\ \A t \in Workers : place[t] # "undetached"

\* "New threads may not be created using the same function."
UniqueRoutine == \A t, u \in Workers :
  runs[t] # NoThread /\ runs[t] = runs[u] => t = u

\* UtvThreadCreate returns, though an earlier failure has left the flag set,
\* and a thread that has done its work leaves the table, so that its function
\* may be run again.
CallsReturn ==
  /\ \A c \in Creators : place[c] = "wait" ~> place[c] = "idle"
  /\ \A t \in Workers : place[t] = "exit" ~> place[t] = "none"
=============================================================================
