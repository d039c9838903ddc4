----------------------------- MODULE WaitHandle -----------------------------
(***************************************************************************)
(* The table of timed waits (UtvWaitInit, UtvWaitTimed, UtvWaitSignal,     *)
(* UtvWaitDestroy, UtvWakeAllThreads) with the threads that sleep on it as *)
(* UtvSleep does and the threads that abort them as UtvAbort does.         *)
(*                                                                         *)
(* A handle is an index into apUtvWait; what it points to is a block of    *)
(* the heap, which malloc may hand out again once it is freed.  What runs  *)
(* under the mutex of a wait is one step.  A step on the mutex of a block  *)
(* that has been destroyed or freed has no effect on the others.           *)
(***************************************************************************)
EXTENDS Integers, FiniteSetsExt

CONSTANTS
  Sleepers, Wakers, \* threads
  Blocks,           \* heap blocks malloc may return for a wait
  NULL,             \* no block
  UTV_WAIT_MAX,     \* entries of apUtvWait
  CountMod,         \* 2^32 in the code: uiCount is unsigned
  MaxSleeps,        \* bound: waits created by each sleeper
  MaxWaits,         \* uses of a wait between its creation and destruction
  MaxAborts         \* bound: aborts by each waker

ASSUME ThreadsAssumption == Sleepers \cap Wakers = {}
ASSUME BlocksAssumption ==
  NULL \notin Blocks /\ Cardinality(Blocks) >= Cardinality(Sleepers)
ASSUME SizesAssumption ==
  /\ UTV_WAIT_MAX \in Nat \ {0} /\ NULL \notin 0 .. UTV_WAIT_MAX
  /\ CountMod \in Nat \ {0, 1}
  /\ MaxSleeps \in Nat /\ MaxWaits \in Nat \ {0} /\ MaxAborts \in Nat

Threads == Sleepers \cup Wakers
Handles == 0 .. UTV_WAIT_MAX - 1

VARIABLES
  apUtvWait,        \* the block of each handle, or NULL
  life,             \* of each block: free, assigned, live, destroyed
  uiCount,          \* the semaphore of each block
  waiters,          \* the threads blocked on the condition of each block
  aborted,          \* UtvGetState() is ABORT
  pc,
  hWait,            \* the handle of each sleeper, the next one of each waker
  pWait,            \* the block each thread has validated
  sleeps, waits, aborts,
  unwoken           \* history: who slept when a waker began and still does

tableVars == <<apUtvWait, life>>
boundVars == <<sleeps, waits, aborts>>
vars == <<tableVars, uiCount, waiters, aborted, pc, hWait, pWait, boundVars,
          unwoken>>

Init ==
  /\ apUtvWait = [h \in Handles |-> NULL]
  /\ life = [b \in Blocks |-> "free"]
  /\ uiCount = [b \in Blocks |-> 0]
  /\ waiters = [b \in Blocks |-> {}]
  /\ aborted = FALSE
  /\ pc = [t \in Threads |-> "idle"]
  /\ hWait = [t \in Threads |-> 0]
  /\ pWait = [t \in Threads |-> NULL]
  /\ sleeps = [t \in Sleepers |-> 0] /\ waits = [t \in Sleepers |-> 0]
  /\ aborts = [w \in Wakers |-> 0]
  /\ unwoken = [w \in Wakers |-> {}]

Goto(t, l) == pc' = [pc EXCEPT ![t] = l]
FreeHandles == {h \in Handles : apUtvWait[h] = NULL}
FreeBlocks == {b \in Blocks : life[b] = "free"}
-----------------------------------------------------------------------------
(* UtvWaitInit: the entry is assigned under the lock of the list, the      *)
(* mutex and the count are initialised after it.                           *)

\* mutant: the search for a free entry stops one short
LowestFreeShort == IF FreeHandles \ {UTV_WAIT_MAX - 1} = {} THEN NULL
                   ELSE Min(FreeHandles)

LowestFree == IF FreeHandles = {} THEN NULL ELSE Min(FreeHandles)

\* UtvSleep goes on with handle 0 when there is no entry left
Assign(t) ==
  /\ pc[t] = "idle" /\ sleeps[t] < MaxSleeps
  /\ sleeps' = [sleeps EXCEPT ![t] = @ + 1]
  /\ waits' = [waits EXCEPT ![t] = 0]
  /\ IF LowestFree = NULL
     THEN /\ hWait' = [hWait EXCEPT ![t] = 0]
          /\ Goto(t, "test")
          /\ UNCHANGED <<tableVars, pWait>>
     ELSE \E b \in FreeBlocks :
          /\ apUtvWait' = [apUtvWait EXCEPT ![LowestFree] = b]
          /\ life' = [life EXCEPT ![b] = "assigned"]
          /\ hWait' = [hWait EXCEPT ![t] = LowestFree]
          /\ pWait' = [pWait EXCEPT ![t] = b]
          /\ Goto(t, "init")
  /\ UNCHANGED <<uiCount, waiters, aborted, aborts, unwoken>>

InitWait(t) ==
  /\ pc[t] = "init"
  /\ life' = [life EXCEPT ![pWait[t]] = "live"]
  /\ uiCount' = [uiCount EXCEPT ![pWait[t]] = 0]
  /\ waiters' = [waiters EXCEPT ![pWait[t]] = {}]
  /\ Goto(t, "test")
  /\ UNCHANGED <<apUtvWait, aborted, hWait, pWait, boundVars, unwoken>>
-----------------------------------------------------------------------------
(* UtvSleep tests the state once its wait exists, then waits.              *)

\* mutant: the state is not tested once the wait exists
TestNothing(t) ==
  /\ pc[t] = "test"
  /\ Goto(t, "timed")
  /\ UNCHANGED <<tableVars, uiCount, waiters, aborted, hWait, pWait,
                 boundVars, unwoken>>

Test(t) ==
  /\ pc[t] = "test"
  /\ Goto(t, IF aborted THEN "destroy" ELSE "timed")
  /\ UNCHANGED <<tableVars, uiCount, waiters, aborted, hWait, pWait,
                 boundVars, unwoken>>

\* decrement the semaphore, which the code does after a timeout as well
Decrement(b) == uiCount' = [uiCount EXCEPT ![b] = (@ - 1) % CountMod]

\* UtvWaitTimed up to the point where it blocks, or returns without blocking
Timed(t) ==
  LET b == apUtvWait[hWait[t]] IN
  /\ pc[t] = "timed"
  /\ waits' = [waits EXCEPT ![t] = @ + 1]
  /\ pWait' = [pWait EXCEPT ![t] = b]
  /\ IF b = NULL
     THEN Goto(t, "returned") /\ UNCHANGED <<uiCount, waiters>>
     ELSE IF uiCount[b] = 0
     THEN /\ waiters' = [waiters EXCEPT ![b] = @ \cup {t}]
          /\ Goto(t, "blocked") /\ UNCHANGED uiCount
     ELSE /\ Decrement(b)
          /\ Goto(t, "returned") /\ UNCHANGED waiters
  /\ UNCHANGED <<tableVars, aborted, hWait, sleeps, aborts, unwoken>>

\* pthread_cond_timedwait returns: the thread was signalled
Woken(t) ==
  /\ pc[t] = "woken"
  /\ Decrement(pWait[t])
  /\ Goto(t, "returned")
  /\ UNCHANGED <<tableVars, waiters, aborted, hWait, pWait, boundVars,
                 unwoken>>

\* it returns for another reason: the time is up, or spuriously
Timeout(t) ==
  /\ pc[t] = "blocked"
  /\ waiters' = [waiters EXCEPT ![pWait[t]] = @ \ {t}]
  /\ unwoken' = [w \in Wakers |-> unwoken[w] \ {t}]
  /\ Decrement(pWait[t])
  /\ Goto(t, "returned")
  /\ UNCHANGED <<tableVars, aborted, hWait, pWait, boundVars>>

\* a client either waits again on its handle or destroys it
Return(t) ==
  /\ pc[t] = "returned"
  /\ \/ waits[t] < MaxWaits /\ Goto(t, "test")
     \/ Goto(t, "destroy")
  /\ UNCHANGED <<tableVars, uiCount, waiters, aborted, hWait, pWait,
                 boundVars, unwoken>>
-----------------------------------------------------------------------------
(* UtvWaitDestroy: destroy the condition and the mutex, then free the      *)
(* block and clear the entry under the lock of the list.                   *)

DestroyWait(t) ==
  LET b == apUtvWait[hWait[t]] IN
  /\ pc[t] = "destroy"
  /\ IF b = NULL
     THEN Goto(t, "idle") /\ UNCHANGED life
     ELSE /\ life' = [life EXCEPT ![b] = "destroyed"]
          /\ Goto(t, "unassign")
  /\ UNCHANGED <<apUtvWait, uiCount, waiters, aborted, hWait, pWait,
                 boundVars, unwoken>>

Unassign(t) ==
  LET b == apUtvWait[hWait[t]] IN
  /\ pc[t] = "unassign"
  /\ apUtvWait' = [apUtvWait EXCEPT ![hWait[t]] = NULL]
  /\ life' = [x \in Blocks |-> IF x = b THEN "free" ELSE life[x]]
  /\ Goto(t, "idle")
  /\ UNCHANGED <<uiCount, waiters, aborted, hWait, pWait, boundVars, unwoken>>
-----------------------------------------------------------------------------
(* UtvAbort: the state is set first, then UtvWakeAllThreads signals every  *)
(* handle in turn.                                                         *)

Abort(w) ==
  /\ pc[w] = "idle" /\ ~aborted
  /\ aborts[w] < MaxAborts
  /\ aborts' = [aborts EXCEPT ![w] = @ + 1]
  /\ aborted' = TRUE
  /\ hWait' = [hWait EXCEPT ![w] = 0]
  /\ unwoken' = [unwoken EXCEPT ![w] = {t \in Sleepers : pc[t] = "blocked"}]
  /\ Goto(w, "validate")
  /\ UNCHANGED <<tableVars, uiCount, waiters, pWait, sleeps, waits>>

\* mutant: the loop stops one handle early
AdvanceShort(w, woken) ==
  /\ hWait' = [hWait EXCEPT ![w] = @ + 1]
  /\ pc' = [t \in Threads |->
              IF t \in woken THEN "woken"
              ELSE IF t # w THEN pc[t]
              ELSE IF hWait[w] + 2 < UTV_WAIT_MAX THEN "validate" ELSE "idle"]

\* go to the next handle, having woken some threads
Advance(w, woken) ==
  /\ hWait' = [hWait EXCEPT ![w] = @ + 1]
  /\ pc' = [t \in Threads |->
              IF t \in woken THEN "woken"
              ELSE IF t # w THEN pc[t]
              ELSE IF hWait[w] + 1 < UTV_WAIT_MAX THEN "validate" ELSE "idle"]

\* UtvWaitSignal reads the table before it locks anything
Validate(w) ==
  /\ pc[w] = "validate"
  /\ pWait' = [pWait EXCEPT ![w] = apUtvWait[hWait[w]]]
  /\ IF apUtvWait[hWait[w]] = NULL
     THEN Advance(w, {})
     ELSE Goto(w, "signal") /\ UNCHANGED hWait
  /\ UNCHANGED <<tableVars, uiCount, waiters, aborted, boundVars, unwoken>>

Usable(b) == life[b] \in {"assigned", "live"}

\* count the signal and wake one thread that waits, if there is one
Post(w, b) ==
  /\ uiCount' = [uiCount EXCEPT ![b] = (@ + 1) % CountMod]
  /\ \E woken \in {{}} \cup {{t} : t \in waiters[b]} :
       /\ woken = {} => waiters[b] = {}
       /\ waiters' = [waiters EXCEPT ![b] = @ \ woken]
       /\ unwoken' = [x \in Wakers |-> unwoken[x] \ woken]
       /\ Advance(w, woken)

Signal(w) ==
  /\ pc[w] = "signal"
  /\ IF Usable(pWait[w])
     THEN Post(w, pWait[w])
     ELSE Advance(w, {}) /\ UNCHANGED <<uiCount, waiters, unwoken>>
  /\ UNCHANGED <<tableVars, aborted, pWait, boundVars>>

\* the task that was aborted ends: UtvClearState
ClearState ==
  /\ aborted
  /\ aborted' = FALSE
  /\ UNCHANGED <<tableVars, uiCount, waiters, pc, hWait, pWait, boundVars,
                 unwoken>>
-----------------------------------------------------------------------------
SleeperStep(t) == \/ InitWait(t) \/ Test(t) \/ Timed(t) \/ Woken(t)
                  \/ Return(t) \/ DestroyWait(t) \/ Unassign(t)
WakerStep(w) == Validate(w) \/ Signal(w)

Next == \/ \E t \in Sleepers : Assign(t) \/ SleeperStep(t) \/ Timeout(t)
        \/ \E w \in Wakers : Abort(w) \/ WakerStep(w)
        \/ ClearState

\* Threads that can run do; nobody has to sleep, abort or time out.
Fairness == /\ \A t \in Sleepers : WF_vars(SleeperStep(t))
            /\ \A w \in Wakers : WF_vars(WakerStep(w))

Spec == Init /\ [][Next]_vars
FairSpec == Spec /\ Fairness
-----------------------------------------------------------------------------
TypeOK ==
  /\ apUtvWait \in [Handles -> Blocks \cup {NULL}]
  /\ life \in [Blocks -> {"free", "assigned", "live", "destroyed"}]
  /\ uiCount \in [Blocks -> 0 .. CountMod - 1]
  /\ waiters \in [Blocks -> SUBSET Sleepers]
  /\ aborted \in BOOLEAN
  /\ pc \in [Threads -> {"idle", "init", "test", "timed", "blocked", "woken",
                         "returned", "destroy", "unassign", "validate",
                         "signal"}]
  /\ hWait \in [Threads -> 0 .. UTV_WAIT_MAX]
  /\ pWait \in [Threads -> Blocks \cup {NULL}]
  /\ sleeps \in [Sleepers -> Nat] /\ waits \in [Sleepers -> Nat]
  /\ aborts \in [Wakers -> Nat]
  /\ unwoken \in [Wakers -> SUBSET Sleepers]

\* While there are enough entries, a thread that has created a wait has it to
\* itself: nobody else waits on it, frees it or gets its handle.
InUse(t) == pc[t] \notin {"idle", "init"}
PrivateHandle ==
  \A t \in Sleepers : InUse(t) =>
    /\ apUtvWait[hWait[t]] # NULL
    /\ life[apUtvWait[hWait[t]]] =
         IF pc[t] = "unassign" THEN "destroyed" ELSE "live"
    /\ \A s \in Sleepers \ {t} : InUse(s) => hWait[s] # hWait[t]

\* UtvWakeAllThreads misses no thread that slept when it was called, though
\* waits come and go while it walks the table.
WakeReachesAll == \A w \in Wakers : pc[w] = "idle" => unwoken[w] = {}

\* UtvSleep "uses a timed wait so that an abort can wake it up".
AbortWakesSleeper ==
  \A t \in Sleepers : aborted /\ pc[t] = "blocked" ~> pc[t] # "blocked"

\* It does so for the first timed wait on a handle, as in UtvSleep, which
\* destroys the handle after it.
AbortWakesFirstWait ==
  \A t \in Sleepers :
    aborted /\ pc[t] = "blocked" /\ waits[t] = 1 ~> pc[t] # "blocked"
=============================================================================
