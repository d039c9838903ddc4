-------------------------- MODULE Platform_proofs ---------------------------
(***************************************************************************)
(* Proofs about the two tables the platform layer keeps of threads, those  *)
(* that sleep (WaitHandle) and those it has created (ThreadRegistry).      *)
(*                                                                         *)
(* For any number of sleepers, wakers, entries and blocks the table of     *)
(* timed waits is well typed; as long as there are as many entries as      *)
(* sleepers, a wait is private to its creator and UtvWakeAllThreads        *)
(* reaches every thread that slept when it was called.                     *)
(*                                                                         *)
(* For any number of entries, threads and functions the registry is well   *)
(* typed, whoever creates threads; with one creator at a time the unlocked *)
(* table misses no running thread and names none that has gone.            *)
(***************************************************************************)
EXTENDS WaitHandle, ThreadRegistry, FiniteSetTheorems,
        WellFoundedInduction, TLAPS

\* The code has four entries, whatever the number of threads that sleep.
Enough == IsFiniteSet(Sleepers) /\ Cardinality(Sleepers) <= UTV_WAIT_MAX

\* Where a sleeper can be, and where a waker.
Places ==
  /\ \A t \in Sleepers :
       /\ pc[t] \in {"idle", "init", "test", "timed", "blocked", "woken",
                    "returned", "destroy", "unassign"}
       /\ hWait[t] \in Handles
  /\ \A w \in Wakers :
       /\ pc[w] \in {"idle", "validate", "signal"}
       /\ pc[w] # "idle" => hWait[w] \in Handles
       /\ pc[w] = "signal" => pWait[w] \in Blocks
Typed == TypeOK /\ Places

\* A sleeper that is not idle has a handle of its own, the handle a block of its
\* own, and what is in the table belongs to such a sleeper.
HasWait(t) == pc[t] # "idle"
LifeOf(l) == IF l = "init" THEN "assigned"
             ELSE IF l = "unassign" THEN "destroyed" ELSE "live"
Owned ==
  /\ \A t \in Sleepers : HasWait(t) =>
       /\ apUtvWait[hWait[t]] # NULL
       /\ life[apUtvWait[hWait[t]]] = LifeOf(pc[t])
       /\ pc[t] \in {"init", "blocked", "woken"} =>
            pWait[t] = apUtvWait[hWait[t]]
  /\ \A s, t \in Sleepers :
       HasWait(s) /\ HasWait(t) /\ hWait[s] = hWait[t] => s = t
  /\ \A h \in Handles : apUtvWait[h] # NULL =>
       \E t \in Sleepers : HasWait(t) /\ hWait[t] = h
  /\ \A g, h \in Handles :
       apUtvWait[g] # NULL /\ apUtvWait[g] = apUtvWait[h] => g = h

\* The condition of a block has the threads that block on it.
Waiting ==
  /\ \A b \in Blocks : \A t \in waiters[b] : pc[t] = "blocked" /\ pWait[t] = b
  /\ \A t \in Sleepers : pc[t] = "blocked" => t \in waiters[pWait[t]]

\* Whoever is still to be woken by a waker lies ahead of it.
Ahead ==
  \A w \in Wakers : \A t \in unwoken[w] :
    /\ pc[t] = "blocked" /\ pc[w] # "idle" /\ hWait[w] <= hWait[t]
    /\ pc[w] = "signal" /\ hWait[t] = hWait[w] => pWait[w] = pWait[t]

Private == Owned /\ Waiting /\ Ahead
IInv == Typed /\ Private
-----------------------------------------------------------------------------
\* The assumptions on the constants, under one name.
LEMMA ConstantFacts ==
  /\ Sleepers \cap Wakers = {} /\ NULL \notin Blocks
  /\ UTV_WAIT_MAX \in Nat \ {0} /\ CountMod \in Nat \ {0, 1}
  /\ 0 \in Handles /\ Handles \subseteq 0 .. UTV_WAIT_MAX
  /\ NULL \notin Handles
BY ThreadsAssumption, BlocksAssumption, SizesAssumption DEF Handles

\* Every set of natural numbers that is not empty has a least element.
LEMMA Least ==
  ASSUME NEW S \in SUBSET Nat, S # {}
  PROVE  Min(S) \in S
<1>1. PICK m \in S : \A k \in S : ~(<<k, m>> \in OpToRel(<, Nat))
  BY NatLessThanWellFounded, WFMin, Zenon
<1>2. \A k \in S : ~(k < m)
  BY <1>1 DEF OpToRel
<1>3. \A k \in S : m =< k
  BY <1>2
<1>. QED BY <1>3 DEF Min

\* UtvAssignWaitHandle finds a free entry, if there is one.
LEMMA LowestIsFree ==
  /\ FreeHandles # {} =>
       /\ LowestFree \in Handles /\ LowestFree # NULL
       /\ apUtvWait[LowestFree] = NULL
  /\ LowestFree # NULL => FreeHandles # {}
<1>1. FreeHandles \in SUBSET Nat
  <2>1. FreeHandles \subseteq Handles
    BY DEF FreeHandles
  <2>. QED BY <2>1, ConstantFacts
<1>2. CASE FreeHandles # {}
  <2>1. LowestFree \in FreeHandles
    BY <1>1, <1>2, Least DEF LowestFree
  <2>. QED BY <1>2, <2>1, ConstantFacts DEF FreeHandles
<1>3. CASE FreeHandles = {}
  BY <1>3 DEF LowestFree
<1>. QED BY <1>2, <1>3

\* Updating a well typed function.
LEMMA UpdateTyped ==
  ASSUME NEW S, NEW T, NEW f \in [S -> T], NEW x, NEW v \in T
  PROVE  [f EXCEPT ![x] = v] \in [S -> T]
OBVIOUS

\* The count of a semaphore stays within its width.
LEMMA CountWraps ==
  \A n \in 0 .. CountMod - 1 :
    /\ (n + 1) % CountMod \in 0 .. CountMod - 1
    /\ (n - 1) % CountMod \in 0 .. CountMod - 1
BY ConstantFacts

\* What a waker's step to its next handle does to the places of threads.
LEMMA AdvanceTyped ==
  ASSUME Typed, NEW w \in Wakers, NEW woken \in SUBSET Sleepers,
         pc[w] # "idle", Advance(w, woken),
         \A x \in Wakers \ {w} : pWait'[x] = pWait[x]
  PROVE  /\ Places'
         /\ hWait' \in [Threads -> 0 .. UTV_WAIT_MAX]
         /\ pc' \in [Threads -> {"idle", "init", "test", "timed", "blocked",
                "woken", "returned", "destroy", "unassign", "validate", "signal"}]
<1> USE ConstantFacts DEF Typed, TypeOK, Places, Threads
<1>1. /\ hWait' = [hWait EXCEPT ![w] = @ + 1]
      /\ hWait[w] + 1 \in 0 .. UTV_WAIT_MAX
      /\ hWait[w] + 1 < UTV_WAIT_MAX => hWait[w] + 1 \in Handles
  BY DEF Advance, Handles
<1>2. /\ \A t \in Sleepers : pc'[t] = IF t \in woken THEN "woken" ELSE pc[t]
      /\ \A x \in Wakers \ {w} : pc'[x] = pc[x]
      /\ pc'[w] = IF hWait[w] + 1 < UTV_WAIT_MAX THEN "validate" ELSE "idle"
  BY DEF Advance
<1>3. Places'
  BY <1>1, <1>2
<1>. QED BY <1>1, <1>3 DEF Advance

\* The specification is well typed.
LEMMA TypesKept == Typed /\ [Next]_vars => Typed'
<1>1. ASSUME Typed, NEW t \in Sleepers, Assign(t) PROVE Typed'
  <2>1. CASE LowestFree = NULL
    <3>1. /\ hWait' = [hWait EXCEPT ![t] = 0]
          /\ pc' = [pc EXCEPT ![t] = "test"]
          /\ sleeps' = [sleeps EXCEPT ![t] = sleeps[t] + 1]
          /\ waits' = [waits EXCEPT ![t] = 0]
          /\ UNCHANGED <<tableVars, pWait, uiCount, waiters, aborted, aborts,
                        unwoken>>
      BY <1>1, <2>1 DEF Assign, Goto
    <3>2. sleeps' \in [Sleepers -> Nat] /\ waits' \in [Sleepers -> Nat]
      BY <1>1, <3>1, UpdateTyped DEF Typed, TypeOK
    <3>3. Places'
      BY <1>1, <3>1, ConstantFacts DEF Typed, TypeOK, Places, Threads
    <3>. QED
      BY <1>1, <3>1, <3>2, <3>3, ConstantFacts
         DEF tableVars, Typed, TypeOK, Threads
  <2>2. CASE LowestFree # NULL
    <3>1. LowestFree \in Handles
      BY <2>2, LowestIsFree
    <3>2. PICK b \in Blocks :
             /\ apUtvWait' = [apUtvWait EXCEPT ![LowestFree] = b]
             /\ life' = [life EXCEPT ![b] = "assigned"]
             /\ hWait' = [hWait EXCEPT ![t] = LowestFree]
             /\ pWait' = [pWait EXCEPT ![t] = b]
             /\ pc' = [pc EXCEPT ![t] = "init"]
      BY <1>1, <2>2, Zenon DEF Assign, FreeBlocks, Goto
    <3>3. /\ sleeps' = [sleeps EXCEPT ![t] = sleeps[t] + 1]
          /\ waits' = [waits EXCEPT ![t] = 0]
          /\ UNCHANGED <<uiCount, waiters, aborted, aborts, unwoken>>
      BY <1>1 DEF Assign
    <3>4. Places'
      BY <1>1, <3>1, <3>2, ConstantFacts DEF Typed, TypeOK, Places, Threads
    <3>5. sleeps' \in [Sleepers -> Nat] /\ waits' \in [Sleepers -> Nat]
      BY <1>1, <3>3, UpdateTyped DEF Typed, TypeOK
    <3>6. TypeOK'
      BY <1>1, <3>1, <3>2, <3>3, <3>5, ConstantFacts DEF Typed, TypeOK, Threads
    <3>. QED BY <3>4, <3>6 DEF Typed
  <2>. QED BY <2>1, <2>2
<1>2. ASSUME Typed, NEW t \in Sleepers, InitWait(t) PROVE Typed'
  <2>1. /\ pc' = [pc EXCEPT ![t] = "test"]
        /\ life' = [life EXCEPT ![pWait[t]] = "live"]
        /\ uiCount' = [uiCount EXCEPT ![pWait[t]] = 0]
        /\ waiters' = [waiters EXCEPT ![pWait[t]] = {}]
        /\ UNCHANGED <<apUtvWait, aborted, hWait, pWait, sleeps, waits, aborts,
                      unwoken>>
    BY <1>2 DEF InitWait, Goto, boundVars
  <2>2. uiCount' \in [Blocks -> 0 .. CountMod - 1]
    <3>1. 0 \in 0 .. CountMod - 1
      BY ConstantFacts
    <3>. QED BY <1>2, <2>1, <3>1, UpdateTyped DEF Typed, TypeOK
  <2>3. waiters' \in [Blocks -> SUBSET Sleepers]
    BY <1>2, <2>1 DEF Typed, TypeOK
  <2>4. life' \in [Blocks -> {"free", "assigned", "live", "destroyed"}]
    BY <1>2, <2>1 DEF Typed, TypeOK
  <2>5. Places'
    BY <1>2, <2>1, ConstantFacts DEF Typed, TypeOK, Places, Threads
  <2>. QED
    BY <1>2, <2>1, <2>2, <2>3, <2>4, <2>5 DEF Typed, TypeOK, Threads
<1>3. ASSUME Typed, NEW t \in Sleepers, Test(t) PROVE Typed'
  BY <1>3 DEF Test, Goto, tableVars, boundVars, Typed, TypeOK, Places, Threads
<1>4. ASSUME Typed, NEW t \in Sleepers, Timed(t) PROVE Typed'
  <2> DEFINE b == apUtvWait[hWait[t]]
  <2>1. b \in Blocks \cup {NULL}
    BY <1>4 DEF Typed, TypeOK, Places
  <2>2. /\ pc' = [pc EXCEPT ![t] = IF b # NULL /\ uiCount[b] = 0
                                   THEN "blocked" ELSE "returned"]
        /\ waits' = [waits EXCEPT ![t] = waits[t] + 1]
        /\ pWait' = [pWait EXCEPT ![t] = b]
        /\ UNCHANGED <<tableVars, aborted, hWait, sleeps, aborts, unwoken>>
    BY <1>4, Zenon DEF Timed, Goto
  <2>3. uiCount' \in [Blocks -> 0 .. CountMod - 1]
    <3>1. CASE uiCount' = [uiCount EXCEPT ![b] = (uiCount[b] - 1) % CountMod]
      <4>1. CASE b \in Blocks
        <5>1. uiCount[b] \in 0 .. CountMod - 1
          BY <1>4, <4>1 DEF Typed, TypeOK
        <5>2. (uiCount[b] - 1) % CountMod \in 0 .. CountMod - 1
          BY <5>1, CountWraps
        <5>. HIDE DEF b
        <5>. QED BY <1>4, <3>1, <5>2, UpdateTyped DEF Typed, TypeOK
      <4>2. CASE b = NULL
        BY <1>4, <3>1, <4>2, ConstantFacts DEF Typed, TypeOK
      <4>. QED BY <2>1, <4>1, <4>2
    <3>2. CASE UNCHANGED uiCount
      BY <1>4, <3>2 DEF Typed, TypeOK
    <3>. QED BY <1>4, <3>1, <3>2, Zenon DEF Timed, Decrement
  <2>4. waiters' \in [Blocks -> SUBSET Sleepers]
    BY <1>4 DEF Timed, Typed, TypeOK
  <2>5. waits' \in [Sleepers -> Nat]
    BY <1>4, <2>2, UpdateTyped DEF Typed, TypeOK
  <2>6. Places'
    BY <1>4, <2>2, ConstantFacts DEF Typed, TypeOK, Places, Threads
  <2>. HIDE DEF b
  <2>7. pWait' \in [Threads -> Blocks \cup {NULL}]
    BY <1>4, <2>1, <2>2, UpdateTyped DEF Typed, TypeOK
  <2>8. pc' \in [Threads -> {"idle", "init", "test", "timed", "blocked", "woken",
          "returned", "destroy", "unassign", "validate", "signal"}]
    BY <1>4, <2>2 DEF Typed, TypeOK
  <2>. QED
    BY <1>4, <2>2, <2>3, <2>4, <2>5, <2>6, <2>7, <2>8
       DEF tableVars, Typed, TypeOK
<1>5. ASSUME Typed, NEW t \in Sleepers, Woken(t) PROVE Typed'
  BY <1>5, CountWraps
     DEF Woken, Decrement, Goto, tableVars, boundVars, Typed, TypeOK, Places,
         Threads
<1>6. ASSUME Typed, NEW t \in Sleepers, Return(t) PROVE Typed'
  BY <1>6
     DEF Return, Goto, tableVars, boundVars, Typed, TypeOK, Places, Threads
<1>7. ASSUME Typed, NEW t \in Sleepers, DestroyWait(t) PROVE Typed'
  BY <1>7 DEF DestroyWait, Goto, boundVars, Typed, TypeOK, Places, Threads
<1>8. ASSUME Typed, NEW t \in Sleepers, Unassign(t) PROVE Typed'
  BY <1>8 DEF Unassign, Goto, boundVars, Typed, TypeOK, Places, Threads
<1>9. ASSUME Typed, NEW t \in Sleepers, Timeout(t) PROVE Typed'
  BY <1>9, CountWraps
     DEF Timeout, Decrement, Goto, tableVars, boundVars, Typed, TypeOK, Places,
         Threads
<1>10. ASSUME Typed, NEW w \in Wakers, Abort(w) PROVE Typed'
  <2>1. /\ pc' = [pc EXCEPT ![w] = "validate"]
        /\ hWait' = [hWait EXCEPT ![w] = 0]
        /\ aborts' = [aborts EXCEPT ![w] = aborts[w] + 1]
        /\ unwoken' = [unwoken EXCEPT ![w] = {t \in Sleepers : pc[t] = "blocked"}]
        /\ aborted' = TRUE
        /\ UNCHANGED <<apUtvWait, life, uiCount, waiters, pWait, sleeps, waits>>
    BY <1>10 DEF Abort, Goto, tableVars
  <2>2. aborts' \in [Wakers -> Nat]
    BY <1>10, <2>1, UpdateTyped DEF Typed, TypeOK
  <2>3. unwoken' \in [Wakers -> SUBSET Sleepers]
    BY <1>10, <2>1 DEF Typed, TypeOK
  <2>4. Places'
    BY <1>10, <2>1, ConstantFacts DEF Typed, TypeOK, Places, Threads
  <2>. QED
    BY <1>10, <2>1, <2>2, <2>3, <2>4, ConstantFacts DEF Typed, TypeOK, Threads
<1>11. ASSUME Typed, NEW w \in Wakers, Validate(w) PROVE Typed'
  <2>1. CASE apUtvWait[hWait[w]] = NULL
    <3>1. /\ pc[w] = "validate" /\ Advance(w, {})
          /\ pWait' = [pWait EXCEPT ![w] = NULL]
          /\ UNCHANGED <<tableVars, uiCount, waiters, aborted, boundVars, unwoken>>
      BY <1>11, <2>1 DEF Validate
    <3>2. \A x \in Wakers \ {w} : pWait'[x] = pWait[x]
      BY <1>11, <3>1 DEF Typed, TypeOK, Threads
    <3>3. pWait' \in [Threads -> Blocks \cup {NULL}]
      BY <1>11, <3>1 DEF Typed, TypeOK
    <3>. QED
      BY <1>11, <3>1, <3>2, <3>3, AdvanceTyped
         DEF tableVars, boundVars, Typed, TypeOK
  <2>2. CASE apUtvWait[hWait[w]] # NULL
    BY <1>11, <2>2, ConstantFacts
       DEF Validate, Goto, tableVars, boundVars, Typed, TypeOK, Places, Threads
  <2>. QED BY <2>1, <2>2
<1>12. ASSUME Typed, NEW w \in Wakers, Signal(w) PROVE Typed'
  <2>1. CASE Usable(pWait[w])
    <3>1. PICK woken \in {{}} \cup {{t} : t \in waiters[pWait[w]]} :
             /\ waiters' = [waiters EXCEPT ![pWait[w]] = waiters[pWait[w]] \ woken]
             /\ unwoken' = [x \in Wakers |-> unwoken[x] \ woken]
             /\ Advance(w, woken)
      BY <1>12, <2>1, Zenon DEF Signal, Post
    <3>2. uiCount' = [uiCount EXCEPT ![pWait[w]] = (uiCount[pWait[w]] + 1) % CountMod]
      BY <1>12, <2>1, Zenon DEF Signal, Post
    <3>3. UNCHANGED <<tableVars, aborted, pWait, boundVars>> /\ pc[w] = "signal"
      BY <1>12 DEF Signal
    <3>4. pWait[w] \in Blocks
      BY <1>12, <3>3 DEF Typed, Places
    <3>5. woken \in SUBSET Sleepers
      BY <1>12, <3>1, <3>4 DEF Typed, TypeOK
    <3>6. uiCount' \in [Blocks -> 0 .. CountMod - 1]
      <4>1. uiCount[pWait[w]] \in 0 .. CountMod - 1
        BY <1>12, <3>4 DEF Typed, TypeOK
      <4>2. (uiCount[pWait[w]] + 1) % CountMod \in 0 .. CountMod - 1
        BY <4>1, CountWraps
      <4>. QED BY <1>12, <3>2, <4>2, UpdateTyped DEF Typed, TypeOK
    <3>7. waiters' \in [Blocks -> SUBSET Sleepers]
      BY <1>12, <3>1 DEF Typed, TypeOK
    <3>8. unwoken' \in [Wakers -> SUBSET Sleepers]
      BY <1>12, <3>1 DEF Typed, TypeOK
    <3>. QED
      BY <1>12, <3>1, <3>3, <3>5, <3>6, <3>7, <3>8, AdvanceTyped
         DEF tableVars, boundVars, Typed, TypeOK
  <2>2. CASE ~Usable(pWait[w])
    BY <1>12, <2>2, AdvanceTyped
       DEF Signal, tableVars, boundVars, Typed, TypeOK, Threads, Places
  <2>. QED BY <2>1, <2>2
<1>13. ASSUME Typed, ClearState PROVE Typed'
  BY <1>13 DEF ClearState, tableVars, boundVars, Typed, TypeOK, Places, Threads
<1>14. ASSUME Typed, UNCHANGED vars PROVE Typed'
  BY <1>14 DEF vars, tableVars, boundVars, Typed, TypeOK, Places, Threads
<1>. QED
  BY <1>1, <1>2, <1>3, <1>4, <1>5, <1>6, <1>7, <1>8, <1>9, <1>10, <1>11, <1>12,
     <1>13, <1>14
     DEF Next, SleeperStep, WakerStep
-----------------------------------------------------------------------------
\* The handle and the block of a sleeper that has a wait are its own.
LEMMA OwnBlock ==
  ASSUME Typed, Owned, NEW t \in Sleepers, HasWait(t)
  PROVE  /\ hWait[t] \in Handles /\ apUtvWait[hWait[t]] \in Blocks
         /\ life[apUtvWait[hWait[t]]] = LifeOf(pc[t])
         /\ pc[t] \in {"init", "blocked", "woken"} =>
              pWait[t] = apUtvWait[hWait[t]]
         /\ \A s \in Sleepers :
              HasWait(s) /\ hWait[s] = hWait[t] => s = t
         /\ \A s \in Sleepers :
              HasWait(s) /\ apUtvWait[hWait[s]] = apUtvWait[hWait[t]] => s = t
<1>1. \A s \in Sleepers : hWait[s] \in Handles
  BY DEF Typed, Places
<1>2. /\ apUtvWait[hWait[t]] # NULL
      /\ life[apUtvWait[hWait[t]]] = LifeOf(pc[t])
      /\ pc[t] \in {"init", "blocked", "woken"} =>
           pWait[t] = apUtvWait[hWait[t]]
  BY DEF Owned
<1>3. apUtvWait[hWait[t]] \in Blocks
  BY <1>1, <1>2 DEF Typed, TypeOK
<1>4. \A s \in Sleepers : HasWait(s) /\ hWait[s] = hWait[t] => s = t
  BY Zenon DEF Owned
<1>5. \A s \in Sleepers :
        HasWait(s) /\ apUtvWait[hWait[s]] = apUtvWait[hWait[t]] => s = t
  <2>1. ASSUME NEW s \in Sleepers, HasWait(s),
               apUtvWait[hWait[s]] = apUtvWait[hWait[t]]
        PROVE  s = t
    <3>1. hWait[s] = hWait[t]
      BY <1>1, <1>2, <2>1 DEF Owned
    <3>. QED BY <1>4, <2>1, <3>1
  <2>. QED BY <2>1
<1>. QED BY <1>1, <1>2, <1>3, <1>4, <1>5

\* With as many entries as sleepers, a sleeper without a wait finds one free:
\* every entry in use belongs to a sleeper of its own.
LEMMA EntryLeft ==
  ASSUME Enough, Typed, Owned, NEW t \in Sleepers, pc[t] = "idle"
  PROVE  LowestFree # NULL
<1>1. SUFFICES ASSUME FreeHandles = {} PROVE FALSE
  BY LowestIsFree
<1>2. \A h \in Handles : \E s \in Sleepers \ {t} : hWait[s] = h
  <2>1. ASSUME NEW h \in Handles PROVE \E s \in Sleepers \ {t} : hWait[s] = h
    <3>1. apUtvWait[h] # NULL
      BY <1>1 DEF FreeHandles
    <3>2. PICK s \in Sleepers : HasWait(s) /\ hWait[s] = h
      BY <3>1 DEF Owned
    <3>. QED BY <3>2 DEF HasWait
  <2>. QED BY <2>1
<1> DEFINE owner == [h \in Handles |-> CHOOSE s \in Sleepers \ {t} : hWait[s] = h]
<1>3. \A h \in Handles : owner[h] \in Sleepers \ {t} /\ hWait[owner[h]] = h
  BY <1>2
<1>4. owner \in [Handles -> Sleepers \ {t}]
  BY <1>3
<1>5. IsFiniteSet(Handles) /\ Cardinality(Handles) = UTV_WAIT_MAX
  <2>1. 0 \in Int /\ UTV_WAIT_MAX - 1 \in Int /\ ~(0 > UTV_WAIT_MAX - 1)
    BY ConstantFacts
  <2>2. IsFiniteSet(0 .. UTV_WAIT_MAX - 1)
    BY <2>1, FS_Interval
  <2>3. Cardinality(0 .. UTV_WAIT_MAX - 1) = (UTV_WAIT_MAX - 1) - 0 + 1
    BY <2>1, FS_Interval
  <2>. QED BY <2>2, <2>3, ConstantFacts DEF Handles
<1>6. /\ IsFiniteSet(Sleepers \ {t})
      /\ Cardinality(Sleepers \ {t}) = Cardinality(Sleepers) - 1
  BY FS_RemoveElement, Zenon DEF Enough
<1>7. Cardinality(Sleepers \ {t}) < Cardinality(Handles)
  BY <1>5, <1>6, FS_CardinalityType, ConstantFacts DEF Enough
<1> HIDE DEF owner
<1>8. \E g, h \in Handles : g # h /\ owner[g] = owner[h]
  BY <1>4, <1>5, <1>6, <1>7, FS_PigeonHole
<1>. QED BY <1>3, <1>8

\* A step that leaves the table alone, and every sleeper at a place of the same
\* kind, leaves the owners alone.
LEMMA OwnersStay ==
  ASSUME Typed, Owned, UNCHANGED <<apUtvWait, life>>,
         \A s \in Sleepers :
           /\ hWait'[s] = hWait[s]
           /\ (pc'[s] = "idle") = (pc[s] = "idle")
           /\ LifeOf(pc'[s]) = LifeOf(pc[s])
           /\ pc[s] # "idle" /\ pc'[s] \in {"init", "blocked", "woken"} =>
                pWait'[s] = apUtvWait[hWait[s]]
  PROVE  Owned'
<1>1. \A s \in Sleepers : HasWait(s)' = HasWait(s)
  BY DEF HasWait
<1>2. ASSUME NEW t \in Sleepers, HasWait(t)'
      PROVE  /\ apUtvWait'[hWait'[t]] # NULL
             /\ life'[apUtvWait'[hWait'[t]]] = LifeOf(pc'[t])
             /\ pc'[t] \in {"init", "blocked", "woken"} =>
                  pWait'[t] = apUtvWait'[hWait'[t]]
  BY <1>1, <1>2 DEF Owned, HasWait
<1>3. ASSUME NEW h \in Handles, apUtvWait'[h] # NULL
      PROVE  \E t \in Sleepers : HasWait(t)' /\ hWait'[t] = h
  BY <1>1, <1>3 DEF Owned
<1>4. \A s, t \in Sleepers :
        HasWait(s)' /\ HasWait(t)' /\ hWait'[s] = hWait'[t] => s = t
  BY <1>1, Zenon DEF Owned
<1>5. \A g, h \in Handles :
        apUtvWait'[g] # NULL /\ apUtvWait'[g] = apUtvWait'[h] => g = h
  BY DEF Owned
<1>. QED BY <1>2, <1>3, <1>4, <1>5, Zenon DEF Owned

\* A signal wakes a thread that waits on the block of the handle, if it can.
LEMMA SignalWakes ==
  ASSUME Typed, Waiting, NEW w \in Wakers, Signal(w)
  PROVE  \E woken \in SUBSET Sleepers :
           /\ \A t \in woken : pc[t] = "blocked" /\ pWait[t] = pWait[w]
           /\ \A b \in Blocks : waiters'[b] = waiters[b] \ woken
           /\ \A x \in Wakers : unwoken'[x] = unwoken[x] \ woken
           /\ Advance(w, woken)
           /\ Usable(pWait[w]) /\ woken = {} => waiters[pWait[w]] = {}
<1>1. pWait[w] \in Blocks
  BY DEF Signal, Typed, Places
<1>2. CASE Usable(pWait[w])
  <2>1. PICK woken \in {{}} \cup {{t} : t \in waiters[pWait[w]]} :
           /\ woken = {} => waiters[pWait[w]] = {}
           /\ waiters' = [waiters EXCEPT ![pWait[w]] = waiters[pWait[w]] \ woken]
           /\ unwoken' = [x \in Wakers |-> unwoken[x] \ woken]
           /\ Advance(w, woken)
    BY <1>2, Zenon DEF Signal, Post
  <2>2. woken \in SUBSET waiters[pWait[w]]
    BY <2>1
  <2>3. woken \in SUBSET Sleepers
    BY <1>1, <2>2 DEF Typed, TypeOK
  <2>4. \A t \in woken : pc[t] = "blocked" /\ pWait[t] = pWait[w]
    BY <1>1, <2>2 DEF Waiting
  <2>5. ASSUME NEW b \in Blocks PROVE waiters'[b] = waiters[b] \ woken
    <3>1. CASE b = pWait[w]
      BY <2>1, <3>1 DEF Typed, TypeOK
    <3>2. CASE b # pWait[w]
      <4>1. \A t \in woken : t \notin waiters[b]
        BY <2>4, <3>2 DEF Waiting
      <4>. QED BY <2>1, <3>2, <4>1 DEF Typed, TypeOK
    <3>. QED BY <3>1, <3>2
  <2>6. \A x \in Wakers : unwoken'[x] = unwoken[x] \ woken
    BY <2>1
  <2>. QED BY <2>1, <2>3, <2>4, <2>5, <2>6
<1>3. CASE ~Usable(pWait[w])
  BY <1>3, Zenon DEF Signal
<1>. QED BY <1>2, <1>3

\* A wait stays with the sleeper that created it.
LEMMA OwnersKept ==
  ASSUME Enough, Typed, Owned, Waiting, [Next]_vars
  PROVE  Owned'
<1>1. ASSUME NEW t \in Sleepers, Assign(t) PROVE Owned'
  <2>1. pc[t] = "idle" /\ LowestFree # NULL
    BY <1>1, EntryLeft DEF Assign
  <2>2. LowestFree \in Handles /\ apUtvWait[LowestFree] = NULL
    BY <2>1, LowestIsFree
  <2>3. PICK b \in Blocks :
           /\ life[b] = "free"
           /\ apUtvWait' = [apUtvWait EXCEPT ![LowestFree] = b]
           /\ life' = [life EXCEPT ![b] = "assigned"]
           /\ hWait' = [hWait EXCEPT ![t] = LowestFree]
           /\ pWait' = [pWait EXCEPT ![t] = b]
           /\ pc' = [pc EXCEPT ![t] = "init"]
    BY <1>1, <2>1, Zenon DEF Assign, FreeBlocks, Goto
  <2> DEFINE free == LowestFree
  <2>4. free \in Handles /\ apUtvWait[free] = NULL
    BY <2>2
  <2>5. /\ apUtvWait' = [apUtvWait EXCEPT ![free] = b]
        /\ hWait' = [hWait EXCEPT ![t] = free]
    BY <2>3
  <2> HIDE DEF free
  <2>6. b # NULL /\ t \in Threads
    BY ConstantFacts DEF Threads
  <2>7. \A h \in Handles : apUtvWait[h] # b
    <3>1. ASSUME NEW h \in Handles, apUtvWait[h] = b PROVE FALSE
      <4>1. PICK s \in Sleepers : HasWait(s) /\ hWait[s] = h
        BY <2>6, <3>1 DEF Owned
      <4>2. life[b] = LifeOf(pc[s])
        BY <3>1, <4>1, OwnBlock
      <4>. QED BY <2>3, <4>2 DEF LifeOf
    <3>. QED BY <3>1
  <2>8. /\ apUtvWait'[free] = b /\ life'[b] = "assigned"
        /\ hWait'[t] = free /\ pWait'[t] = b /\ pc'[t] = "init"
    BY <2>3, <2>4, <2>5, <2>6 DEF Typed, TypeOK
  <2>9. /\ \A h \in Handles \ {free} : apUtvWait'[h] = apUtvWait[h]
        /\ \A x \in Blocks \ {b} : life'[x] = life[x]
        /\ \A s \in Sleepers \ {t} :
             pc'[s] = pc[s] /\ hWait'[s] = hWait[s] /\ pWait'[s] = pWait[s]
    BY <2>3, <2>5 DEF Typed, TypeOK, Threads
  <2>10. \A s \in Sleepers \ {t} : HasWait(s)' = HasWait(s)
    BY <2>9 DEF HasWait
  <2>11. \A s \in Sleepers \ {t} : HasWait(s) => hWait[s] # free
    BY <2>4, OwnBlock DEF Owned
  <2>12. HasWait(t)'
    BY <2>8 DEF HasWait
  <2>13. ASSUME NEW s \in Sleepers \ {t}, HasWait(s)
         PROVE  /\ apUtvWait'[hWait'[s]] # NULL
                /\ life'[apUtvWait'[hWait'[s]]] = LifeOf(pc'[s])
                /\ pc'[s] \in {"init", "blocked", "woken"} =>
                     pWait'[s] = apUtvWait'[hWait'[s]]
    <3>1. /\ hWait[s] \in Handles \ {free}
          /\ apUtvWait[hWait[s]] \in Blocks \ {b}
      BY <2>7, <2>11, <2>13, OwnBlock
    <3>2. /\ apUtvWait'[hWait'[s]] = apUtvWait[hWait[s]]
          /\ life'[apUtvWait[hWait[s]]] = life[apUtvWait[hWait[s]]]
      BY <2>9, <3>1
    <3>. QED BY <2>9, <2>13, <3>1, <3>2 DEF Owned
  <2>14. \A s \in Sleepers : HasWait(s)' =>
           /\ apUtvWait'[hWait'[s]] # NULL
           /\ life'[apUtvWait'[hWait'[s]]] = LifeOf(pc'[s])
           /\ pc'[s] \in {"init", "blocked", "woken"} =>
                pWait'[s] = apUtvWait'[hWait'[s]]
    BY <2>6, <2>8, <2>10, <2>13 DEF LifeOf
  <2>15. ASSUME NEW r \in Sleepers, NEW s \in Sleepers,
                HasWait(r)', HasWait(s)', hWait'[r] = hWait'[s]
         PROVE  r = s
    <3>1. CASE r = t
      BY <2>8, <2>9, <2>10, <2>11, <2>15, <3>1
    <3>2. CASE s = t
      BY <2>8, <2>9, <2>10, <2>11, <2>15, <3>2
    <3>3. CASE r # t /\ s # t
      <4>1. HasWait(r) /\ HasWait(s) /\ hWait[r] = hWait[s]
        BY <2>9, <2>10, <2>15, <3>3
      <4>. QED BY <4>1, OwnBlock
    <3>. QED BY <3>1, <3>2, <3>3
  <2>16. ASSUME NEW h \in Handles, apUtvWait'[h] # NULL
         PROVE  \E s \in Sleepers : HasWait(s)' /\ hWait'[s] = h
    <3>1. CASE h = free
      BY <2>8, <2>12, <3>1
    <3>2. CASE h # free
      <4>1. PICK s \in Sleepers : HasWait(s) /\ hWait[s] = h
        BY <2>9, <2>16, <3>2 DEF Owned
      <4>2. s # t
        BY <2>1, <4>1 DEF HasWait
      <4>. QED BY <2>9, <2>10, <4>1, <4>2
    <3>. QED BY <3>1, <3>2
  <2>17. ASSUME NEW g \in Handles, NEW h \in Handles,
                apUtvWait'[g] # NULL, apUtvWait'[g] = apUtvWait'[h]
         PROVE  g = h
    <3>1. CASE g = free
      BY <2>7, <2>8, <2>9, <2>17, <3>1
    <3>2. CASE h = free
      BY <2>7, <2>8, <2>9, <2>17, <3>2
    <3>3. CASE g # free /\ h # free
      BY <2>9, <2>17, <3>3 DEF Owned
    <3>. QED BY <3>1, <3>2, <3>3
  <2>. QED BY <2>14, <2>15, <2>16, <2>17, Zenon DEF Owned
<1>2. ASSUME NEW t \in Sleepers, InitWait(t) PROVE Owned'
  <2> DEFINE b == pWait[t]
  <2>1. /\ pc[t] = "init" /\ HasWait(t)
        /\ life' = [life EXCEPT ![b] = "live"]
        /\ pc' = [pc EXCEPT ![t] = "test"]
        /\ UNCHANGED <<apUtvWait, hWait, pWait>>
    BY <1>2 DEF InitWait, Goto, HasWait
  <2>2. b = apUtvWait[hWait[t]] /\ b \in Blocks
    BY <2>1, OwnBlock
  <2>. HIDE DEF b
  <2>3. /\ pc'[t] = "test" /\ life'[b] = "live"
        /\ \A s \in Sleepers \ {t} : pc'[s] = pc[s]
        /\ \A x \in Blocks \ {b} : life'[x] = life[x]
    BY <2>1, <2>2 DEF Typed, TypeOK, Threads
  <2>4. \A s \in Sleepers : HasWait(s)' = HasWait(s)
    BY <2>1, <2>3 DEF HasWait
  <2>5. ASSUME NEW s \in Sleepers, HasWait(s)'
        PROVE  /\ apUtvWait'[hWait'[s]] # NULL
               /\ life'[apUtvWait'[hWait'[s]]] = LifeOf(pc'[s])
               /\ pc'[s] \in {"init", "blocked", "woken"} =>
                    pWait'[s] = apUtvWait'[hWait'[s]]
    <3>1. CASE s = t
      BY <2>1, <2>2, <2>3, <3>1, ConstantFacts DEF LifeOf
    <3>2. CASE s # t
      <4>1. HasWait(s)
        BY <2>4, <2>5
      <4>2. apUtvWait[hWait[s]] \in Blocks \ {b}
        BY <2>1, <2>2, <3>2, <4>1, OwnBlock
      <4>3. life'[apUtvWait[hWait[s]]] = LifeOf(pc[s])
        BY <2>3, <4>1, <4>2, OwnBlock
      <4>. QED BY <2>1, <2>3, <3>2, <4>1, <4>3 DEF Owned
    <3>. QED BY <3>1, <3>2
  <2>6. \A r, s \in Sleepers :
          HasWait(r)' /\ HasWait(s)' /\ hWait'[r] = hWait'[s] => r = s
    BY <2>1, <2>4, OwnBlock
  <2>7. \A h \in Handles : apUtvWait'[h] # NULL =>
          \E s \in Sleepers : HasWait(s)' /\ hWait'[s] = h
    BY <2>1, <2>4 DEF Owned
  <2>8. \A g, h \in Handles :
          apUtvWait'[g] # NULL /\ apUtvWait'[g] = apUtvWait'[h] => g = h
    BY <2>1 DEF Owned
  <2>. QED BY <2>5, <2>6, <2>7, <2>8, Zenon DEF Owned
<1>3. ASSUME NEW t \in Sleepers,
             Test(t) \/ Timed(t) \/ Woken(t) \/ Return(t) \/ Timeout(t)
      PROVE  Owned'
  <2>1. /\ HasWait(t) /\ LifeOf(pc[t]) = "live"
        /\ UNCHANGED <<apUtvWait, life, hWait>>
    BY <1>3 DEF Test, Timed, Woken, Return, Timeout, tableVars, HasWait, LifeOf
  <2>2. /\ pc'[t] \in {"destroy", "timed", "returned", "blocked", "test"}
        /\ pc'[t] = "blocked" => pWait'[t] = apUtvWait[hWait[t]]
        /\ \A s \in Sleepers \ {t} : pc'[s] = pc[s] /\ pWait'[s] = pWait[s]
    <3>1. CASE Timed(t)
      BY <3>1 DEF Timed, Goto, Typed, TypeOK, Threads
    <3>2. CASE Test(t) \/ Woken(t) \/ Return(t) \/ Timeout(t)
      BY <3>2 DEF Test, Woken, Return, Timeout, Goto, Typed, TypeOK, Threads
    <3>. QED BY <1>3, <3>1, <3>2
  <2>3. LifeOf(pc'[t]) = "live" /\ pc'[t] # "idle"
    BY <2>2 DEF LifeOf
  <2>4. ASSUME NEW s \in Sleepers
        PROVE  /\ hWait'[s] = hWait[s]
               /\ (pc'[s] = "idle") = (pc[s] = "idle")
               /\ LifeOf(pc'[s]) = LifeOf(pc[s])
               /\ pc[s] # "idle" /\ pc'[s] \in {"init", "blocked", "woken"} =>
                    pWait'[s] = apUtvWait[hWait[s]]
    <3>1. CASE s = t
      BY <2>1, <2>2, <2>3, <3>1 DEF HasWait
    <3>2. CASE s # t
      BY <2>1, <2>2, <3>2 DEF Owned, HasWait
    <3>. QED BY <3>1, <3>2
  <2>. QED BY <2>1, <2>4, OwnersStay
<1>4. ASSUME NEW t \in Sleepers, DestroyWait(t) PROVE Owned'
  <2> DEFINE b == apUtvWait[hWait[t]]
  <2>1. pc[t] = "destroy" /\ HasWait(t) /\ UNCHANGED <<apUtvWait, hWait, pWait>>
    BY <1>4 DEF DestroyWait, HasWait
  <2>2. b \in Blocks /\ b # NULL
    BY <2>1, OwnBlock, ConstantFacts
  <2>3. life' = [life EXCEPT ![b] = "destroyed"]
        /\ pc' = [pc EXCEPT ![t] = "unassign"]
    BY <1>4, <2>2 DEF DestroyWait, Goto
  <2>4. b = apUtvWait[hWait[t]]
    OBVIOUS
  <2>. HIDE DEF b
  <2>5. /\ pc'[t] = "unassign" /\ life'[b] = "destroyed"
        /\ \A s \in Sleepers \ {t} : pc'[s] = pc[s]
        /\ \A x \in Blocks \ {b} : life'[x] = life[x]
    BY <2>2, <2>3 DEF Typed, TypeOK, Threads
  <2>6. \A s \in Sleepers : HasWait(s)' = HasWait(s)
    BY <2>1, <2>5 DEF HasWait
  <2>7. ASSUME NEW s \in Sleepers, HasWait(s)'
        PROVE  /\ apUtvWait'[hWait'[s]] # NULL
               /\ life'[apUtvWait'[hWait'[s]]] = LifeOf(pc'[s])
               /\ pc'[s] \in {"init", "blocked", "woken"} =>
                    pWait'[s] = apUtvWait'[hWait'[s]]
    <3>1. CASE s = t
      BY <2>1, <2>2, <2>4, <2>5, <3>1 DEF LifeOf
    <3>2. CASE s # t
      <4>1. HasWait(s)
        BY <2>6, <2>7
      <4>2. apUtvWait[hWait[s]] \in Blocks \ {b}
        BY <2>1, <2>4, <3>2, <4>1, OwnBlock
      <4>3. life'[apUtvWait[hWait[s]]] = LifeOf(pc[s])
        BY <2>5, <4>1, <4>2, OwnBlock
      <4>. QED BY <2>1, <2>5, <3>2, <4>1, <4>3 DEF Owned
    <3>. QED BY <3>1, <3>2
  <2>8. \A r, s \in Sleepers :
          HasWait(r)' /\ HasWait(s)' /\ hWait'[r] = hWait'[s] => r = s
    BY <2>1, <2>6, OwnBlock
  <2>9. \A h \in Handles : apUtvWait'[h] # NULL =>
          \E s \in Sleepers : HasWait(s)' /\ hWait'[s] = h
    BY <2>1, <2>6 DEF Owned
  <2>10. \A g, h \in Handles :
          apUtvWait'[g] # NULL /\ apUtvWait'[g] = apUtvWait'[h] => g = h
    BY <2>1 DEF Owned
  <2>. QED BY <2>7, <2>8, <2>9, <2>10, Zenon DEF Owned
<1>5. ASSUME NEW t \in Sleepers, Unassign(t) PROVE Owned'
  <2> DEFINE b == apUtvWait[hWait[t]]
             h0 == hWait[t]
  <2>1. /\ pc[t] = "unassign" /\ HasWait(t) /\ UNCHANGED <<hWait, pWait>>
        /\ apUtvWait' = [apUtvWait EXCEPT ![h0] = NULL]
        /\ life' = [x \in Blocks |-> IF x = b THEN "free" ELSE life[x]]
        /\ pc' = [pc EXCEPT ![t] = "idle"]
    BY <1>5 DEF Unassign, HasWait, Goto
  <2>2. h0 \in Handles /\ h0 = hWait[t] /\ b = apUtvWait[hWait[t]]
    BY <2>1, OwnBlock
  <2>. HIDE DEF b, h0
  <2>3. /\ pc'[t] = "idle" /\ apUtvWait'[h0] = NULL
        /\ \A s \in Sleepers \ {t} : pc'[s] = pc[s]
        /\ \A x \in Blocks \ {b} : life'[x] = life[x]
        /\ \A h \in Handles \ {h0} : apUtvWait'[h] = apUtvWait[h]
    BY <2>1, <2>2 DEF Typed, TypeOK, Threads
  <2>4. ~HasWait(t)' /\ \A s \in Sleepers \ {t} : HasWait(s)' = HasWait(s)
    BY <2>3 DEF HasWait
  <2>5. ASSUME NEW s \in Sleepers, HasWait(s)'
        PROVE  /\ apUtvWait'[hWait'[s]] # NULL
               /\ life'[apUtvWait'[hWait'[s]]] = LifeOf(pc'[s])
               /\ pc'[s] \in {"init", "blocked", "woken"} =>
                    pWait'[s] = apUtvWait'[hWait'[s]]
    <3>1. s # t /\ HasWait(s)
      BY <2>4, <2>5
    <3>2. hWait[s] \in Handles \ {h0} /\ apUtvWait[hWait[s]] \in Blocks \ {b}
      BY <2>1, <2>2, <3>1, OwnBlock
    <3>3. /\ apUtvWait'[hWait[s]] = apUtvWait[hWait[s]]
          /\ life'[apUtvWait[hWait[s]]] = LifeOf(pc[s])
      BY <2>3, <3>1, <3>2, OwnBlock
    <3>. QED BY <2>1, <2>3, <3>1, <3>3 DEF Owned
  <2>6. \A r, s \in Sleepers :
          HasWait(r)' /\ HasWait(s)' /\ hWait'[r] = hWait'[s] => r = s
    <3>1. ASSUME NEW r \in Sleepers, NEW s \in Sleepers,
                 HasWait(r)', HasWait(s)', hWait'[r] = hWait'[s]
          PROVE  r = s
      <4>1. HasWait(r) /\ HasWait(s) /\ hWait[r] = hWait[s]
        BY <2>1, <2>4, <3>1
      <4>. QED BY <4>1, OwnBlock
    <3>. QED BY <3>1
  <2>7. ASSUME NEW h \in Handles, apUtvWait'[h] # NULL
        PROVE  \E s \in Sleepers : HasWait(s)' /\ hWait'[s] = h
    <3>1. h # h0 /\ apUtvWait[h] # NULL
      BY <2>3, <2>7
    <3>2. PICK s \in Sleepers : HasWait(s) /\ hWait[s] = h
      BY <3>1 DEF Owned
    <3>. QED BY <2>1, <2>2, <2>4, <3>1, <3>2
  <2>8. \A g, h \in Handles :
          apUtvWait'[g] # NULL /\ apUtvWait'[g] = apUtvWait'[h] => g = h
    BY <2>3 DEF Owned
  <2>. QED BY <2>5, <2>6, <2>7, <2>8, Zenon DEF Owned
<1>6. ASSUME NEW w \in Wakers, Abort(w) PROVE Owned'
  <2>1. /\ UNCHANGED <<apUtvWait, life, pWait>>
        /\ \A s \in Sleepers : pc'[s] = pc[s] /\ hWait'[s] = hWait[s]
    BY <1>6, ConstantFacts DEF Abort, Goto, tableVars, Typed, TypeOK, Threads
  <2>. QED BY <2>1, OwnersStay DEF Owned, HasWait
<1>7. ASSUME NEW w \in Wakers, Validate(w) PROVE Owned'
  <2>1. /\ UNCHANGED <<apUtvWait, life>>
        /\ \A s \in Sleepers :
             pc'[s] = pc[s] /\ hWait'[s] = hWait[s] /\ pWait'[s] = pWait[s]
    BY <1>7, ConstantFacts
       DEF Validate, Advance, Goto, tableVars, Typed, TypeOK, Threads
  <2>. QED BY <2>1, OwnersStay DEF Owned, HasWait
<1>8. ASSUME NEW w \in Wakers, Signal(w) PROVE Owned'
  <2>1. UNCHANGED <<apUtvWait, life, pWait>>
    BY <1>8 DEF Signal, tableVars
  <2>2. PICK woken \in SUBSET Sleepers :
           /\ \A t \in woken : pc[t] = "blocked"
           /\ Advance(w, woken)
    BY <1>8, SignalWakes, Zenon
  <2>3. \A s \in Sleepers :
          /\ hWait'[s] = hWait[s] /\ pWait'[s] = pWait[s]
          /\ pc'[s] = IF s \in woken THEN "woken" ELSE pc[s]
    BY <2>1, <2>2, ConstantFacts DEF Advance, Typed, TypeOK, Threads
  <2>4. ASSUME NEW s \in Sleepers
        PROVE  /\ (pc'[s] = "idle") = (pc[s] = "idle")
               /\ LifeOf(pc'[s]) = LifeOf(pc[s])
               /\ pc[s] # "idle" /\ pc'[s] \in {"init", "blocked", "woken"} =>
                    pWait'[s] = apUtvWait[hWait[s]]
    <3>1. CASE s \in woken
      BY <2>2, <2>3, <3>1 DEF LifeOf, Owned, HasWait
    <3>2. CASE s \notin woken
      BY <2>3, <3>2 DEF Owned, HasWait
    <3>. QED BY <3>1, <3>2
  <2>. QED BY <2>1, <2>3, <2>4, OwnersStay
<1>9. CASE ClearState
  BY <1>9, OwnersStay DEF ClearState, tableVars, Owned, HasWait
<1>10. CASE UNCHANGED vars
  BY <1>10, OwnersStay DEF vars, tableVars, Owned, HasWait
<1>. QED
  BY <1>1, <1>2, <1>3, <1>4, <1>5, <1>6, <1>7, <1>8, <1>9, <1>10
     DEF Next, SleeperStep, WakerStep

\* Who blocks on a condition stays known to it.
LEMMA WaitingKept ==
  ASSUME Typed, Owned, Waiting, [Next]_vars
  PROVE  Waiting'
<1>1. ASSUME NEW t \in Sleepers,
             \/ Assign(t) \/ Test(t) \/ Return(t) \/ DestroyWait(t)
             \/ Unassign(t) \/ Woken(t)
      PROVE  Waiting'
  <2>1. /\ pc[t] # "blocked" /\ UNCHANGED waiters
        /\ pc'[t] # "blocked" \/ Test(t)
        /\ \A s \in Sleepers \ {t} : pc'[s] = pc[s] /\ pWait'[s] = pWait[s]
    <3>1. CASE Assign(t)
      BY <3>1 DEF Assign, Goto, Typed, TypeOK, Threads
    <3>2. CASE Test(t) \/ Return(t) \/ DestroyWait(t) \/ Unassign(t) \/ Woken(t)
      BY <3>2 DEF Test, Return, DestroyWait, Unassign, Woken, Goto, Typed,
                  TypeOK, Threads
    <3>. QED BY <1>1, <3>1, <3>2
  <2>2. pc'[t] # "blocked"
    BY <2>1 DEF Test, Goto, Typed, TypeOK, Threads
  <2>3. \A x \in Blocks : \A s \in waiters[x] : s \in Sleepers \ {t}
    BY <2>1 DEF Typed, TypeOK, Waiting
  <2>. QED BY <2>1, <2>2, <2>3 DEF Waiting
<1>2. ASSUME NEW t \in Sleepers, InitWait(t) PROVE Waiting'
  <2>1. /\ pc[t] = "init" /\ HasWait(t)
        /\ waiters' = [waiters EXCEPT ![pWait[t]] = {}]
        /\ pc' = [pc EXCEPT ![t] = "test"]
        /\ UNCHANGED pWait
    BY <1>2 DEF InitWait, Goto, HasWait
  <2>2. \A s \in Sleepers : pc[s] = "blocked" => pWait[s] # pWait[t]
    <3>1. ASSUME NEW s \in Sleepers, pc[s] = "blocked", pWait[s] = pWait[t]
          PROVE  FALSE
      <4>1. HasWait(s)
        BY <3>1 DEF HasWait
      <4>2. apUtvWait[hWait[s]] = apUtvWait[hWait[t]]
        BY <2>1, <3>1, <4>1, OwnBlock
      <4>. QED BY <2>1, <3>1, <4>1, <4>2, OwnBlock
    <3>. QED BY <3>1
  <2>3. \A s \in Sleepers :
          pc'[s] = IF s = t THEN "test" ELSE pc[s]
    BY <2>1 DEF Typed, TypeOK, Threads
  <2>4. \A x \in Blocks : waiters'[x] = IF x = pWait[t] THEN {} ELSE waiters[x]
    BY <2>1 DEF Typed, TypeOK
  <2>5. ASSUME NEW x \in Blocks, NEW s \in waiters'[x]
        PROVE  pc'[s] = "blocked" /\ pWait'[s] = x
    <3>1. s \in waiters[x] /\ s \in Sleepers
      BY <2>4, <2>5 DEF Typed, TypeOK
    <3>. QED BY <2>1, <2>3, <3>1 DEF Waiting
  <2>6. ASSUME NEW s \in Sleepers, pc'[s] = "blocked"
        PROVE  s \in waiters'[pWait'[s]]
    <3>1. pc[s] = "blocked" /\ HasWait(s)
      BY <2>3, <2>6 DEF HasWait
    <3>2. pWait[s] \in Blocks /\ pWait[s] # pWait[t]
      BY <2>2, <3>1, OwnBlock
    <3>. QED BY <2>1, <2>4, <3>1, <3>2 DEF Waiting
  <2>. QED BY <2>5, <2>6 DEF Waiting
<1>3. ASSUME NEW t \in Sleepers, Timed(t) PROVE Waiting'
  <2> DEFINE b == apUtvWait[hWait[t]]
  <2>1. pc[t] = "timed" /\ HasWait(t)
    BY <1>3 DEF Timed, HasWait
  <2>2. b \in Blocks /\ b # NULL
    BY <2>1, OwnBlock, ConstantFacts
  <2>3. \/ /\ waiters' = [waiters EXCEPT ![b] = waiters[b] \cup {t}]
           /\ pc' = [pc EXCEPT ![t] = "blocked"]
        \/ /\ UNCHANGED waiters
           /\ pc' = [pc EXCEPT ![t] = "returned"]
    BY <1>3, <2>2 DEF Timed, Goto
  <2>4. pWait' = [pWait EXCEPT ![t] = b]
    BY <1>3 DEF Timed
  <2>. HIDE DEF b
  <2>5. /\ pWait'[t] = b /\ pc'[t] \in {"blocked", "returned"}
        /\ \A s \in Sleepers \ {t} : pc'[s] = pc[s] /\ pWait'[s] = pWait[s]
        /\ \A x \in Blocks :
             waiters'[x] = IF x = b /\ pc'[t] = "blocked"
                           THEN waiters[x] \cup {t} ELSE waiters[x]
    BY <2>2, <2>3, <2>4 DEF Typed, TypeOK, Threads
  <2>6. \A x \in Blocks : \A s \in waiters[x] : s \in Sleepers \ {t}
    BY <2>1 DEF Typed, TypeOK, Waiting
  <2>7. ASSUME NEW x \in Blocks, NEW s \in waiters'[x]
        PROVE  pc'[s] = "blocked" /\ pWait'[s] = x
    <3>1. CASE s \in waiters[x]
      BY <2>5, <2>6, <3>1 DEF Waiting
    <3>2. CASE s \notin waiters[x]
      <4>1. waiters'[x] # waiters[x]
        BY <2>7, <3>2
      <4>2. /\ x = b /\ pc'[t] = "blocked"
            /\ waiters'[x] = waiters[x] \cup {t}
        BY <2>5, <4>1
      <4>3. s = t
        BY <2>7, <3>2, <4>2
      <4>. QED BY <2>5, <4>2, <4>3
    <3>. QED BY <3>1, <3>2
  <2>8. ASSUME NEW s \in Sleepers, pc'[s] = "blocked"
        PROVE  s \in waiters'[pWait'[s]]
    <3>1. CASE s = t
      BY <2>2, <2>5, <2>8, <3>1
    <3>2. CASE s # t
      <4>1. pc[s] = "blocked" /\ HasWait(s)
        BY <2>5, <2>8, <3>2 DEF HasWait
      <4>2. pWait[s] \in Blocks
        BY <4>1, OwnBlock
      <4>. QED BY <2>5, <3>2, <4>1, <4>2 DEF Waiting
    <3>. QED BY <3>1, <3>2
  <2>. QED BY <2>7, <2>8 DEF Waiting
<1>4. ASSUME NEW t \in Sleepers, Timeout(t) PROVE Waiting'
  <2>1. /\ pc[t] = "blocked" /\ HasWait(t)
        /\ waiters' = [waiters EXCEPT ![pWait[t]] = waiters[pWait[t]] \ {t}]
        /\ pc' = [pc EXCEPT ![t] = "returned"]
        /\ UNCHANGED pWait
    BY <1>4 DEF Timeout, Goto, HasWait
  <2>2. \A s \in Sleepers : pc'[s] = IF s = t THEN "returned" ELSE pc[s]
    BY <2>1 DEF Typed, TypeOK, Threads
  <2>3. \A x \in Blocks : waiters'[x] = IF x = pWait[t] THEN waiters[x] \ {t}
                                        ELSE waiters[x]
    BY <2>1 DEF Typed, TypeOK
  <2>4. ASSUME NEW x \in Blocks, NEW s \in waiters'[x]
        PROVE  pc'[s] = "blocked" /\ pWait'[s] = x
    <3>1. s \in waiters[x]
      BY <2>3, <2>4
    <3>2. s \in Sleepers /\ pc[s] = "blocked" /\ pWait[s] = x
      BY <3>1 DEF Typed, TypeOK, Waiting
    <3>3. s # t
      BY <2>3, <2>4, <3>2
    <3>. QED BY <2>1, <2>2, <3>2, <3>3
  <2>5. ASSUME NEW s \in Sleepers, pc'[s] = "blocked"
        PROVE  s \in waiters'[pWait'[s]]
    <3>1. s # t /\ pc[s] = "blocked" /\ HasWait(s)
      BY <2>2, <2>5 DEF HasWait
    <3>2. pWait[s] \in Blocks
      BY <3>1, OwnBlock
    <3>. QED BY <2>1, <2>3, <3>1, <3>2 DEF Waiting
  <2>. QED BY <2>4, <2>5 DEF Waiting
<1>5. ASSUME NEW w \in Wakers, Abort(w) \/ Validate(w) PROVE Waiting'
  <2>1. /\ UNCHANGED waiters
        /\ \A s \in Sleepers : pc'[s] = pc[s] /\ pWait'[s] = pWait[s]
    BY <1>5, ConstantFacts
       DEF Abort, Validate, Advance, Goto, Typed, TypeOK, Threads
  <2>2. \A x \in Blocks : \A s \in waiters[x] : s \in Sleepers
    BY DEF Typed, TypeOK
  <2>. QED BY <2>1, <2>2 DEF Waiting
<1>6. ASSUME NEW w \in Wakers, Signal(w) PROVE Waiting'
  <2>1. PICK woken \in SUBSET Sleepers :
           /\ \A b \in Blocks : waiters'[b] = waiters[b] \ woken
           /\ Advance(w, woken)
    BY <1>6, SignalWakes, Zenon
  <2>2. /\ UNCHANGED pWait
        /\ \A s \in Sleepers : pc'[s] = IF s \in woken THEN "woken" ELSE pc[s]
    BY <1>6, <2>1, ConstantFacts DEF Signal, Advance, Threads
  <2>3. ASSUME NEW x \in Blocks, NEW s \in waiters'[x]
        PROVE  pc'[s] = "blocked" /\ pWait'[s] = x
    <3>1. s \in Sleepers /\ s \in waiters[x] /\ s \notin woken
      BY <2>1, <2>3 DEF Typed, TypeOK
    <3>. QED BY <2>2, <3>1 DEF Waiting
  <2>4. ASSUME NEW s \in Sleepers, pc'[s] = "blocked"
        PROVE  s \in waiters'[pWait'[s]]
    <3>1. s \notin woken /\ pc[s] = "blocked" /\ HasWait(s)
      BY <2>2, <2>4 DEF HasWait
    <3>2. pWait[s] \in Blocks
      BY <3>1, OwnBlock
    <3>. QED BY <2>1, <2>2, <3>1, <3>2 DEF Waiting
  <2>. QED BY <2>3, <2>4 DEF Waiting
<1>7. CASE ClearState
  BY <1>7 DEF ClearState, Waiting
<1>8. CASE UNCHANGED vars
  BY <1>8 DEF vars, Waiting
<1>. QED
  BY <1>1, <1>2, <1>3, <1>4, <1>5, <1>6, <1>7, <1>8
     DEF Next, SleeperStep, WakerStep

\* A step of a sleeper that may leave its sleep, but does not start one unseen,
\* keeps what is ahead of every waker.
LEMMA SleeperAhead ==
  ASSUME Typed, Ahead, NEW t \in Sleepers,
         \A w \in Wakers :
           pc'[w] = pc[w] /\ hWait'[w] = hWait[w] /\ pWait'[w] = pWait[w],
         \A s \in Sleepers \ {t} :
           pc'[s] = pc[s] /\ hWait'[s] = hWait[s] /\ pWait'[s] = pWait[s],
         \A w \in Wakers : unwoken'[w] \in SUBSET (unwoken[w] \ {t})
  PROVE  Ahead'
<1>1. ASSUME NEW w \in Wakers, NEW s \in unwoken'[w]
      PROVE  /\ pc'[s] = "blocked" /\ pc'[w] # "idle" /\ hWait'[w] <= hWait'[s]
             /\ pc'[w] = "signal" /\ hWait'[s] = hWait'[w] =>
                  pWait'[w] = pWait'[s]
  <2>1. s \in unwoken[w] /\ s \in Sleepers \ {t}
    BY <1>1 DEF Typed, TypeOK
  <2>2. pc'[s] = pc[s] /\ hWait'[s] = hWait[s] /\ pWait'[s] = pWait[s]
    BY <2>1
  <2>3. pc'[w] = pc[w] /\ hWait'[w] = hWait[w] /\ pWait'[w] = pWait[w]
    OBVIOUS
  <2>. QED BY <2>1, <2>2, <2>3 DEF Ahead
<1>. QED BY <1>1 DEF Ahead

\* Whoever a waker has still to wake stays ahead of it.
LEMMA AheadKept ==
  ASSUME Typed, Owned, Waiting, Ahead, [Next]_vars
  PROVE  Ahead'
<1>1. ASSUME NEW t \in Sleepers, Assign(t) \/ SleeperStep(t) PROVE Ahead'
  <2>1. pc[t] # "blocked" /\ UNCHANGED unwoken
    BY <1>1 DEF SleeperStep, Assign, InitWait, Test, Timed, Woken, Return,
                DestroyWait, Unassign
  <2>2. \A s \in Threads \ {t} :
          pc'[s] = pc[s] /\ hWait'[s] = hWait[s] /\ pWait'[s] = pWait[s]
    <3>1. CASE Assign(t)
      BY <3>1 DEF Assign, Goto, Typed, TypeOK
    <3>2. CASE InitWait(t) \/ Test(t) \/ Timed(t) \/ Woken(t)
      BY <3>2 DEF InitWait, Test, Timed, Woken, Goto, Typed, TypeOK
    <3>3. CASE Return(t) \/ DestroyWait(t) \/ Unassign(t)
      BY <3>3 DEF Return, DestroyWait, Unassign, Goto, Typed, TypeOK
    <3>. QED BY <1>1, <3>1, <3>2, <3>3 DEF SleeperStep
  <2>3. \A w \in Wakers : w \in Threads \ {t}
    BY ConstantFacts DEF Threads
  <2>4. \A s \in Sleepers \ {t} : s \in Threads \ {t}
    BY DEF Threads
  <2>5. \A w \in Wakers : unwoken'[w] \in SUBSET (unwoken[w] \ {t})
    BY <2>1 DEF Ahead
  <2>. QED BY <2>2, <2>3, <2>4, <2>5, SleeperAhead
<1>2. ASSUME NEW t \in Sleepers, Timeout(t) PROVE Ahead'
  <2>1. \A s \in Threads \ {t} :
          pc'[s] = pc[s] /\ hWait'[s] = hWait[s] /\ pWait'[s] = pWait[s]
    BY <1>2 DEF Timeout, Goto, Typed, TypeOK
  <2>2. \A w \in Wakers : w \in Threads \ {t}
    BY ConstantFacts DEF Threads
  <2>3. \A s \in Sleepers \ {t} : s \in Threads \ {t}
    BY DEF Threads
  <2>4. \A w \in Wakers : unwoken'[w] \in SUBSET (unwoken[w] \ {t})
    BY <1>2 DEF Timeout
  <2>. QED BY <2>1, <2>2, <2>3, <2>4, SleeperAhead
<1>3. ASSUME NEW w \in Wakers, Abort(w) PROVE Ahead'
  <2>1. /\ UNCHANGED pWait
        /\ pc'[w] = "validate" /\ hWait'[w] = 0
        /\ unwoken'[w] = {t \in Sleepers : pc[t] = "blocked"}
        /\ \A x \in Wakers \ {w} :
             /\ pc'[x] = pc[x] /\ hWait'[x] = hWait[x]
             /\ unwoken'[x] = unwoken[x]
        /\ \A t \in Sleepers : pc'[t] = pc[t] /\ hWait'[t] = hWait[t]
    BY <1>3, ConstantFacts DEF Abort, Goto, Typed, TypeOK, Threads
  <2>2. \A t \in Sleepers : 0 <= hWait[t]
    BY DEF Typed, Places, Handles
  <2>3. \A x \in Wakers : unwoken[x] \subseteq Sleepers
    BY DEF Typed, TypeOK
  <2>4. ASSUME NEW x \in Wakers, NEW t \in unwoken'[x]
        PROVE  /\ pc'[t] = "blocked" /\ pc'[x] # "idle" /\ hWait'[x] <= hWait'[t]
               /\ pc'[x] = "signal" /\ hWait'[t] = hWait'[x] =>
                    pWait'[x] = pWait'[t]
    <3>1. CASE x = w
      BY <2>1, <2>2, <2>4, <3>1
    <3>2. CASE x # w
      BY <2>1, <2>3, <2>4, <3>2 DEF Ahead
    <3>. QED BY <3>1, <3>2
  <2>. QED BY <2>4 DEF Ahead
<1>4. ASSUME NEW w \in Wakers, NEW woken \in SUBSET Sleepers,
             pc[w] # "idle", Advance(w, woken),
             \A x \in Wakers : unwoken'[x] = unwoken[x] \ woken,
             \A t \in unwoken[w] : t \notin woken => hWait[t] # hWait[w],
             \A x \in Threads \ {w} : pWait'[x] = pWait[x]
      PROVE  Ahead'
  <2>1. /\ \A x \in Wakers \ {w} : pc'[x] = pc[x] /\ hWait'[x] = hWait[x]
        /\ \A t \in Sleepers : hWait'[t] = hWait[t]
        /\ \A t \in Sleepers \ woken : pc'[t] = pc[t]
        /\ hWait'[w] = hWait[w] + 1
        /\ pc'[w] = IF hWait[w] + 1 < UTV_WAIT_MAX THEN "validate" ELSE "idle"
    BY <1>4, ConstantFacts DEF Advance, Typed, TypeOK, Threads
  <2>2. /\ hWait[w] \in 0 .. UTV_WAIT_MAX - 1
        /\ \A t \in Sleepers : hWait[t] \in 0 .. UTV_WAIT_MAX - 1
    BY <1>4 DEF Typed, Places, Handles
  <2>3. ASSUME NEW x \in Wakers, NEW t \in unwoken'[x]
        PROVE  /\ pc'[t] = "blocked" /\ pc'[x] # "idle" /\ hWait'[x] <= hWait'[t]
               /\ pc'[x] = "signal" /\ hWait'[t] = hWait'[x] =>
                    pWait'[x] = pWait'[t]
    <3>1. t \in unwoken[x] /\ t \in Sleepers \ woken
      BY <1>4, <2>3 DEF Typed, TypeOK
    <3>2. pc'[t] = "blocked" /\ hWait[x] <= hWait[t]
      BY <2>1, <3>1 DEF Ahead
    <3>3. CASE x = w
      <4>1. hWait[w] # hWait[t]
        BY <1>4, <3>1, <3>3
      <4>2. hWait[w] + 1 <= hWait[t] /\ hWait[w] + 1 < UTV_WAIT_MAX
        BY <2>2, <3>1, <3>2, <3>3, <4>1, ConstantFacts
      <4>. QED BY <2>1, <3>1, <3>2, <3>3, <4>2
    <3>4. CASE x # w
      <4>1. pWait'[x] = pWait[x] /\ pWait'[t] = pWait[t]
        BY <1>4, <3>1, <3>4, ConstantFacts DEF Threads
      <4>. QED BY <2>1, <3>1, <3>2, <3>4, <4>1 DEF Ahead
    <3>. QED BY <3>3, <3>4
  <2>. QED BY <2>3 DEF Ahead
<1>5. ASSUME NEW w \in Wakers, Validate(w) PROVE Ahead'
  <2>1. /\ pc[w] = "validate" /\ UNCHANGED unwoken
        /\ pWait'[w] = apUtvWait[hWait[w]]
        /\ \A x \in Threads \ {w} : pWait'[x] = pWait[x]
    BY <1>5 DEF Validate, Typed, TypeOK, Threads
  <2>2. \A t \in unwoken[w] :
          /\ t \in Sleepers /\ HasWait(t) /\ pc[t] = "blocked"
          /\ apUtvWait[hWait[t]] # NULL /\ pWait[t] = apUtvWait[hWait[t]]
    BY DEF Typed, TypeOK, Ahead, HasWait, Owned
  <2>3. CASE apUtvWait[hWait[w]] = NULL
    <3>1. Advance(w, {})
      BY <1>5, <2>3 DEF Validate
    <3>2. \A t \in unwoken[w] : hWait[t] # hWait[w]
      BY <2>2, <2>3
    <3>3. \A x \in Wakers : unwoken'[x] = unwoken[x] \ {}
      BY <2>1
    <3>. QED BY <1>4, <2>1, <3>1, <3>2, <3>3
  <2>4. CASE apUtvWait[hWait[w]] # NULL
    <3>1. /\ pc'[w] = "signal" /\ UNCHANGED hWait
          /\ \A x \in Threads \ {w} : pc'[x] = pc[x]
      BY <1>5, <2>4 DEF Validate, Goto, Typed, TypeOK, Threads
    <3>2. ASSUME NEW x \in Wakers, NEW t \in unwoken'[x]
          PROVE  /\ pc'[t] = "blocked" /\ pc'[x] # "idle"
                 /\ hWait'[x] <= hWait'[t]
                 /\ pc'[x] = "signal" /\ hWait'[t] = hWait'[x] =>
                      pWait'[x] = pWait'[t]
      <4>1. t \in unwoken[x] /\ t \in Threads \ {w} /\ x \in Threads
        BY <2>1, <3>2, ConstantFacts DEF Typed, TypeOK, Threads
      <4>2. CASE x = w
        BY <2>1, <2>2, <3>1, <4>1, <4>2 DEF Ahead
      <4>3. CASE x # w
        BY <2>1, <3>1, <4>1, <4>3 DEF Ahead
      <4>. QED BY <4>2, <4>3
    <3>. QED BY <3>2 DEF Ahead
  <2>. QED BY <2>3, <2>4
<1>6. ASSUME NEW w \in Wakers, Signal(w) PROVE Ahead'
  <2>1. PICK woken \in SUBSET Sleepers :
           /\ \A t \in woken : pc[t] = "blocked" /\ pWait[t] = pWait[w]
           /\ \A x \in Wakers : unwoken'[x] = unwoken[x] \ woken
           /\ Advance(w, woken)
           /\ Usable(pWait[w]) /\ woken = {} => waiters[pWait[w]] = {}
    BY <1>6, SignalWakes, Zenon
  <2>2. pc[w] = "signal" /\ UNCHANGED pWait
    BY <1>6 DEF Signal
  <2>3. ASSUME NEW t \in unwoken[w], hWait[t] = hWait[w] PROVE t \in woken
    <3>1. t \in Sleepers /\ pc[t] = "blocked" /\ HasWait(t)
      BY DEF Typed, TypeOK, Ahead, HasWait
    <3>2. pWait[w] = pWait[t] /\ pWait[t] = apUtvWait[hWait[t]]
      BY <2>2, <2>3, <3>1, OwnBlock DEF Ahead
    <3>3. Usable(pWait[w]) /\ t \in waiters[pWait[w]]
      BY <3>1, <3>2, OwnBlock DEF Usable, LifeOf, Waiting
    <3>4. PICK s \in woken : TRUE
      BY <2>1, <3>3
    <3>5. s \in Sleepers /\ HasWait(s) /\ pWait[s] = apUtvWait[hWait[s]]
      BY <2>1, <3>4, OwnBlock DEF HasWait
    <3>6. s = t
      BY <2>1, <3>1, <3>2, <3>4, <3>5, OwnBlock
    <3>. QED BY <3>4, <3>6
  <2>. QED BY <1>4, <2>1, <2>2, <2>3
<1>7. CASE ClearState
  BY <1>7 DEF ClearState, Ahead
<1>8. CASE UNCHANGED vars
  BY <1>8 DEF vars, Ahead
<1>. QED
  BY <1>1, <1>2, <1>3, <1>5, <1>6, <1>7, <1>8 DEF Next, WakerStep
-----------------------------------------------------------------------------
LEMMA TypedInit == Init => Typed
<1>1. SUFFICES ASSUME Init PROVE Typed
  OBVIOUS
<1>2. 0 \in 0 .. CountMod - 1 /\ 0 \in 0 .. UTV_WAIT_MAX
  BY ConstantFacts
<1>3. uiCount \in [Blocks -> 0 .. CountMod - 1]
  BY <1>1, <1>2 DEF Init
<1>4. hWait \in [Threads -> 0 .. UTV_WAIT_MAX]
  BY <1>1, <1>2 DEF Init
<1>5. Places
  BY <1>1, ConstantFacts DEF Init, Places, Threads
<1>. QED BY <1>1, <1>3, <1>4, <1>5 DEF Init, Typed, TypeOK

\* Whatever the constants, the table of waits is well typed: the semaphores keep
\* their width, and what is not a block or a handle is never stored as one.
THEOREM WaitTypeCorrect == Spec => []TypeOK
<1>1. Typed => TypeOK
  BY DEF Typed
<1>. QED BY <1>1, TypedInit, TypesKept, PTL DEF Spec

THEOREM Invariance ==
  ASSUME Enough
  PROVE  Spec => []IInv
<1>1. Init => IInv
  <2>1. SUFFICES ASSUME Init PROVE Private
    BY TypedInit DEF IInv
  <2>2. /\ \A t \in Threads : pc[t] = "idle"
        /\ \A b \in Blocks : waiters[b] = {}
        /\ \A w \in Wakers : unwoken[w] = {}
        /\ \A h \in Handles : apUtvWait[h] = NULL
    BY <2>1 DEF Init
  <2>. QED BY <2>2 DEF Private, Owned, Waiting, Ahead, HasWait, Threads
<1>2. IInv /\ [Next]_vars => IInv'
  BY TypesKept, OwnersKept, WaitingKept, AheadKept DEF IInv, Private
<1>. QED BY <1>1, <1>2, PTL DEF Spec

\* With as many entries as sleepers, a wait that was created is its creator's
\* alone until it is destroyed.
THEOREM HandlesPrivate ==
  ASSUME Enough
  PROVE  Spec => []PrivateHandle
<1>1. IInv => PrivateHandle
  <2>1. SUFFICES ASSUME IInv, NEW t \in Sleepers, InUse(t)
        PROVE  /\ apUtvWait[hWait[t]] # NULL
               /\ life[apUtvWait[hWait[t]]] =
                    IF pc[t] = "unassign" THEN "destroyed" ELSE "live"
               /\ \A s \in Sleepers \ {t} : InUse(s) => hWait[s] # hWait[t]
    BY DEF PrivateHandle
  <2>2. /\ HasWait(t) /\ pc[t] # "init"
        /\ \A s \in Sleepers : InUse(s) => HasWait(s)
    BY <2>1 DEF InUse, HasWait
  <2>. QED BY <2>1, <2>2, OwnBlock, ConstantFacts DEF IInv, Private, LifeOf
<1>. QED BY <1>1, Invariance, PTL

\* With as many entries as sleepers, UtvWakeAllThreads has woken everyone who
\* slept when it was called by the time it returns, however many waits were
\* created, destroyed or signalled while it walked the table.
THEOREM WakeReachesSleepers ==
  ASSUME Enough
  PROVE  Spec => []WakeReachesAll
<1>1. IInv => WakeReachesAll
  BY DEF IInv, Private, Ahead, WakeReachesAll, Typed, TypeOK
<1>. QED BY <1>1, Invariance, PTL

-----------------------------------------------------------------------------
(* The registry of threads.                                                *)

\* Threads are created by one thread at a time.
OneCreator == \A c, d \in Creators : c = d

\* Where a creator can be, and where a thread.
WorkerPlaces ==
  /\ \A c \in Creators :
       place[c] \in {"idle", "wait", "flag", "search", "create", "register"}
  /\ \A t \in Workers :
       place[t] \in {"none", "run", "exit", "clear", "clearRoutine",
                     "undetached"}

\* While a thread is being created the flag is set, and the entry that is to be
\* its own stays free.
FlagSet ==
  /\ \A c \in Creators :
       place[c] \in {"search", "create", "register"} => threadBeingCreated = 1
  /\ \A c \in Creators :
       place[c] \in {"create", "register"} => hThread[index[c]] = NoThread

\* A thread that is not in the table yet cannot pass the loop of UtvThreadExit.
Unregistered ==
  /\ \A c \in Creators : place[c] = "register" =>
       /\ created[c] \in Workers
       /\ place[created[c]] \in {"run", "exit"}
       /\ tries[created[c]] < THREAD_COUNT
       /\ EntriesOf(created[c]) = {}
  /\ \A t \in Workers : place[t] \in {"none", "run"} => tries[t] = 0

\* A thread has one entry, which it finds.
OneEntry ==
  /\ \A i, j \in Indices :
       hThread[i] # NoThread /\ hThread[i] = hThread[j] => i = j
  /\ \A t \in Workers : place[t] = "clear" => hThread[index[t]] = t

RegTyped == RegistryTypeOK /\ WorkerPlaces
RegKept == /\ FlagSet /\ Unregistered /\ OneEntry
           /\ ActiveSeen /\ NoGhost
RegInv == RegTyped /\ RegKept
-----------------------------------------------------------------------------
\* What the assumptions say.
LEMMA RegFacts ==
  /\ Creators \cap Workers = {} /\ NoThread \notin Workers \cup Routines
  /\ THREAD_COUNT \in Nat \ {0}
  /\ 0 \in Indices /\ Indices \subseteq Nat
BY CreatorsAssumption, NullAssumption, CountAssumption DEF Indices

\* Every set of natural numbers that is not empty has a least element.
LEMMA RegLeast ==
  ASSUME NEW S \in SUBSET Nat, S # {}
  PROVE  Min(S) \in S
<1>1. PICK m \in S : \A k \in S : ~(<<k, m>> \in OpToRel(<, Nat))
  BY NatLessThanWellFounded, WFMin, Zenon
<1>2. \A k \in S : ~(k < m)
  BY <1>1 DEF OpToRel
<1>3. \A k \in S : m =< k
  BY <1>2
<1>. QED BY <1>3 DEF Min

\* The specification is well typed.
LEMMA RegTypesKept ==
  RegTyped /\ [RegistryNext]_registryVars => RegTyped'
<1> SUFFICES ASSUME RegTyped, [RegistryNext]_registryVars PROVE RegTyped'
  OBVIOUS
<1> USE RegFacts DEF RegTyped, RegistryTypeOK, WorkerPlaces
<1>1. ASSUME NEW c \in Creators, Call(c) PROVE RegTyped'
  BY <1>1 DEF Call, StepTo, threadExists
<1>2. ASSUME NEW c \in Creators, Sleep(c) PROVE RegTyped'
  BY <1>2 DEF Sleep, Waited, threadExists
<1>3. ASSUME NEW c \in Creators, LeaveWait(c) PROVE RegTyped'
  BY <1>3 DEF LeaveWait, StepTo, threadExists
<1>4. ASSUME NEW c \in Creators, SetFlag(c) PROVE RegTyped'
  BY <1>4 DEF SetFlag, StepTo, threadExists
<1>5. ASSUME NEW c \in Creators, Search(c) PROVE RegTyped'
  <2>1. FreeIndices # {} => Min(FreeIndices) \in Indices
    <3>1. /\ FreeIndices \in SUBSET Nat
          /\ FreeIndices \subseteq Indices
      BY DEF FreeIndices
    <3>. QED BY <3>1, RegLeast
  <2>. QED BY <1>5, <2>1 DEF Search, CreateReturns, StepTo, threadExists
<1>6. ASSUME NEW c \in Creators, Create(c) PROVE RegTyped'
  <2>1. PICK t \in Workers :
           /\ place[t] = "none"
           /\ created' = [created EXCEPT ![c] = t]
           /\ runs' = [runs EXCEPT ![t] = wanted[c]]
           /\ place' = [place EXCEPT ![c] = "register", ![t] = "run"]
    BY <1>6 DEF Create
  <2>2. UNCHANGED <<threadExists, threadBeingCreated, tries, index, wanted>>
    BY <1>6 DEF Create
  <2>3. WorkerPlaces'
    BY <2>1
  <2>. QED BY <2>1, <2>2, <2>3 DEF threadExists
<1>7. ASSUME NEW c \in Creators, CreateFails(c) PROVE RegTyped'
  BY <1>7 DEF CreateFails, CreateReturns, StepTo, threadExists
<1>8. ASSUME NEW c \in Creators, Register(c) PROVE RegTyped'
  BY <1>8 DEF Register, CreateReturns, StepTo
<1>9. ASSUME NEW t \in Workers, Finish(t) PROVE RegTyped'
  BY <1>9 DEF Finish, StepTo, threadExists
<1>10. ASSUME NEW t \in Workers, Sleep(t) PROVE RegTyped'
  BY <1>10 DEF Sleep, Waited, threadExists
<1>11. ASSUME NEW t \in Workers, FindSelf(t) PROVE RegTyped'
  <2>1. EntriesOf(t) # {} => Min(EntriesOf(t)) \in Indices
    <3>1. /\ EntriesOf(t) \in SUBSET Nat
          /\ EntriesOf(t) \subseteq Indices
      BY DEF EntriesOf
    <3>. QED BY <3>1, RegLeast
  <2>. QED BY <1>11, <2>1 DEF FindSelf, StepTo, threadExists
<1>12. ASSUME NEW t \in Workers, ClearHandle(t) PROVE RegTyped'
  BY <1>12 DEF ClearHandle, StepTo
<1>13. ASSUME NEW t \in Workers, ClearRoutine(t) PROVE RegTyped'
  BY <1>13 DEF ClearRoutine, StepTo
<1>14. CASE UNCHANGED registryVars
  BY <1>14 DEF registryVars, threadExists
<1>. QED
  BY <1>1, <1>2, <1>3, <1>4, <1>5, <1>6, <1>7, <1>8, <1>9, <1>10, <1>11, <1>12,
     <1>13, <1>14
     DEF RegistryNext, CreatorStep, ThreadStep
-----------------------------------------------------------------------------
\* With one creator the rest of the invariant is kept as well.
LEMMA RegKeptKept ==
  ASSUME OneCreator
  PROVE  RegInv /\ RegTyped' /\ [RegistryNext]_registryVars => RegKept'
<1> SUFFICES ASSUME RegInv, RegTyped', [RegistryNext]_registryVars PROVE RegKept'
  OBVIOUS
<1> USE RegFacts, OneCreator
    DEF OneCreator, RegInv, RegTyped, RegistryTypeOK, WorkerPlaces, RegKept
<1>1. ASSUME NEW c \in Creators, Call(c) PROVE RegKept'
  <2>1. FlagSet'
    BY <1>1 DEF Call, StepTo, threadExists, FlagSet
  <2>2. Unregistered'
    BY <1>1
       DEF Call, StepTo, threadExists, Unregistered, EntriesOf,
           FlagSet
  <2>3. OneEntry'
    BY <1>1
       DEF Call, StepTo, threadExists, OneEntry, Unregistered,
           EntriesOf, NoGhost
  <2>4. ActiveSeen'
    BY <1>1
       DEF Call, StepTo, threadExists, ActiveSeen,
           BeingRegistered, EntriesOf, Unregistered, OneEntry
  <2>5. NoGhost'
    BY <1>1
       DEF Call, StepTo, threadExists, NoGhost, OneEntry,
           ActiveSeen, BeingRegistered, Unregistered, EntriesOf,
           FlagSet
  <2>. QED BY <2>1, <2>2, <2>3, <2>4, <2>5
<1>2. ASSUME NEW c \in Creators, Sleep(c) PROVE RegKept'
  <2>1. FlagSet'
    BY <1>2
       DEF Sleep, Waited, BeingRegistered, threadExists, FlagSet
  <2>2. Unregistered'
    BY <1>2
       DEF Sleep, Waited, BeingRegistered, threadExists,
           Unregistered, EntriesOf, FlagSet
  <2>3. OneEntry'
    BY <1>2
       DEF Sleep, Waited, BeingRegistered, threadExists, OneEntry,
           Unregistered, EntriesOf, NoGhost
  <2>4. ActiveSeen'
    BY <1>2
       DEF Sleep, Waited, BeingRegistered, threadExists,
           ActiveSeen, EntriesOf, Unregistered, OneEntry
  <2>5. NoGhost'
    BY <1>2
       DEF Sleep, Waited, BeingRegistered, threadExists,
           NoGhost, OneEntry, ActiveSeen, Unregistered, EntriesOf,
           FlagSet
  <2>. QED BY <2>1, <2>2, <2>3, <2>4, <2>5
<1>3. ASSUME NEW c \in Creators, LeaveWait(c) PROVE RegKept'
  <2>1. FlagSet'
    BY <1>3 DEF LeaveWait, StepTo, threadExists, FlagSet
  <2>2. Unregistered'
    BY <1>3
       DEF LeaveWait, StepTo, threadExists, Unregistered, EntriesOf,
           FlagSet
  <2>3. OneEntry'
    BY <1>3
       DEF LeaveWait, StepTo, threadExists, OneEntry, Unregistered,
           EntriesOf, NoGhost
  <2>4. ActiveSeen'
    BY <1>3
       DEF LeaveWait, StepTo, threadExists, ActiveSeen,
           BeingRegistered, EntriesOf, Unregistered, OneEntry
  <2>5. NoGhost'
    BY <1>3
       DEF LeaveWait, StepTo, threadExists, NoGhost, OneEntry,
           ActiveSeen, BeingRegistered, Unregistered, EntriesOf,
           FlagSet
  <2>. QED BY <2>1, <2>2, <2>3, <2>4, <2>5
<1>4. ASSUME NEW c \in Creators, SetFlag(c) PROVE RegKept'
  <2>1. FlagSet'
    BY <1>4 DEF SetFlag, StepTo, threadExists, FlagSet
  <2>2. Unregistered'
    BY <1>4
       DEF SetFlag, StepTo, threadExists, Unregistered, EntriesOf,
           FlagSet
  <2>3. OneEntry'
    BY <1>4
       DEF SetFlag, StepTo, threadExists, OneEntry, Unregistered,
           EntriesOf, NoGhost
  <2>4. ActiveSeen'
    BY <1>4
       DEF SetFlag, StepTo, threadExists, ActiveSeen,
           BeingRegistered, EntriesOf, Unregistered, OneEntry
  <2>5. NoGhost'
    BY <1>4
       DEF SetFlag, StepTo, threadExists, NoGhost, OneEntry,
           ActiveSeen, BeingRegistered, Unregistered, EntriesOf,
           FlagSet
  <2>. QED BY <2>1, <2>2, <2>3, <2>4, <2>5
<1>5. ASSUME NEW c \in Creators, Search(c) PROVE RegKept'
  <2>0. FreeIndices # {} => Min(FreeIndices) \in FreeIndices
    <3>1. /\ FreeIndices \in SUBSET Nat
          /\ FreeIndices \subseteq Indices
      BY DEF FreeIndices
    <3>. QED BY <3>1, RegLeast
  <2>1. FlagSet'
    BY <1>5, <2>0
       DEF Search, CreateReturns, StepTo, threadExists, FreeIndices,
           FlagSet
  <2>2. Unregistered'
    BY <1>5, <2>0
       DEF Search, CreateReturns, StepTo, threadExists, FreeIndices,
           Unregistered, EntriesOf, FlagSet
  <2>3. /\ hThread' = hThread /\ place[c] = "search"
        /\ \A t \in Workers : place'[t] = place[t] /\ index'[t] = index[t]
        /\ \A d \in Creators \ {c} :
             place'[d] = place[d] /\ created'[d] = created[d]
    BY <1>5 DEF Search, CreateReturns, StepTo, threadExists
  <2>4. OneEntry'
    BY <2>3 DEF OneEntry
  <2>5. ActiveSeen'
    BY <2>3 DEF ActiveSeen, BeingRegistered, EntriesOf
  <2>6. NoGhost'
    BY <2>3 DEF NoGhost
  <2>. QED BY <2>1, <2>2, <2>4, <2>5, <2>6
<1>6. ASSUME NEW c \in Creators, Create(c) PROVE RegKept'
  <2>1. FlagSet'
    BY <1>6 DEF Create, StepTo, threadExists, FlagSet
  <2>2. Unregistered'
    <3>1. PICK t \in Workers :
             /\ place[t] = "none"
             /\ created' = [created EXCEPT ![c] = t]
             /\ place' = [place EXCEPT ![c] = "register", ![t] = "run"]
      BY <1>6 DEF Create
    <3>2. tries[t] = 0
      BY <3>1 DEF Unregistered
    <3>3. ASSUME NEW i \in Indices, hThread[i] = t PROVE FALSE
      <4>1. t # NoThread /\ place[hThread[i]] = "none"
        BY <3>1, <3>3
      <4>. QED BY <3>3, <4>1 DEF NoGhost
    <3>4. EntriesOf(t) = {}
      BY <3>3 DEF EntriesOf
    <3>. QED BY <1>6, <3>1, <3>2, <3>4
                DEF Create, threadExists, Unregistered, EntriesOf
  <2>3. OneEntry'
    BY <1>6
       DEF Create, StepTo, threadExists, OneEntry, Unregistered,
           EntriesOf, NoGhost
  <2>4. ActiveSeen'
    BY <1>6
       DEF Create, StepTo, threadExists, ActiveSeen,
           BeingRegistered, EntriesOf, Unregistered, OneEntry
  <2>5. NoGhost'
    BY <1>6
       DEF Create, StepTo, threadExists, NoGhost, OneEntry,
           ActiveSeen, BeingRegistered, Unregistered, EntriesOf,
           FlagSet
  <2>. QED BY <2>1, <2>2, <2>3, <2>4, <2>5
<1>7. ASSUME NEW c \in Creators, CreateFails(c) PROVE RegKept'
  <2>1. FlagSet'
    BY <1>7 DEF CreateFails, CreateReturns, StepTo, threadExists, FlagSet
  <2>2. Unregistered'
    BY <1>7
       DEF CreateFails, CreateReturns, StepTo, threadExists, Unregistered,
           EntriesOf, FlagSet
  <2>3. OneEntry'
    BY <1>7
       DEF CreateFails, CreateReturns, StepTo, threadExists, OneEntry,
           Unregistered, EntriesOf, NoGhost
  <2>4. ActiveSeen'
    BY <1>7
       DEF CreateFails, CreateReturns, StepTo, threadExists,
           ActiveSeen, BeingRegistered, EntriesOf, Unregistered,
           OneEntry
  <2>5. NoGhost'
    BY <1>7
       DEF CreateFails, CreateReturns, StepTo, threadExists, NoGhost,
           OneEntry, ActiveSeen, BeingRegistered, Unregistered,
           EntriesOf, FlagSet
  <2>. QED BY <2>1, <2>2, <2>3, <2>4, <2>5
<1>8. ASSUME NEW c \in Creators, Register(c) PROVE RegKept'
  <2>1. FlagSet'
    BY <1>8 DEF Register, CreateReturns, StepTo, FlagSet
  <2>2. Unregistered'
    BY <1>8
       DEF Register, CreateReturns, StepTo, Unregistered, EntriesOf,
           FlagSet
  <2>3. OneEntry'
    <3>1. /\ hThread' = [hThread EXCEPT ![index[c]] = created[c]]
          /\ \A t \in Workers : place'[t] = place[t] /\ index'[t] = index[t]
          /\ created[c] \in Workers /\ place[created[c]] \in {"run", "exit"}
          /\ hThread[index[c]] = NoThread
      BY <1>8 DEF Register, CreateReturns, StepTo, Unregistered, FlagSet
    <3>2. \A i \in Indices : hThread[i] # created[c]
      BY <1>8 DEF Register, Unregistered, EntriesOf
    <3>. QED BY <3>1, <3>2 DEF OneEntry
  <2>4. ActiveSeen'
    <3>1. /\ hThread' = [hThread EXCEPT ![index[c]] = created[c]]
          /\ \A t \in Workers : place'[t] = place[t]
          /\ hThread[index[c]] = NoThread
      BY <1>8 DEF Register, CreateReturns, StepTo, FlagSet
    <3>2. ASSUME NEW t \in Workers, place'[t] \in {"run", "exit", "clear"}
          PROVE  EntriesOf(t)' # {}
      <4>1. CASE t = created[c]
        BY <3>1, <4>1 DEF EntriesOf
      <4>2. CASE t # created[c]
        <5>1. PICK i \in Indices : hThread[i] = t
          <6>1. ~BeingRegistered(t)
            BY <4>2 DEF BeingRegistered
          <6>2. EntriesOf(t) # {}
            BY <3>1, <3>2, <6>1 DEF ActiveSeen
          <6>. QED BY <6>2 DEF EntriesOf
        <5>. QED BY <3>1, <5>1 DEF EntriesOf
      <4>. QED BY <4>1, <4>2
    <3>. QED BY <3>2 DEF ActiveSeen
  <2>5. NoGhost'
    BY <1>8
       DEF Register, CreateReturns, StepTo, NoGhost, OneEntry,
           ActiveSeen, BeingRegistered, Unregistered, EntriesOf,
           FlagSet
  <2>. QED BY <2>1, <2>2, <2>3, <2>4, <2>5
<1>9. ASSUME NEW t \in Workers, Finish(t) PROVE RegKept'
  <2>1. FlagSet'
    BY <1>9 DEF Finish, StepTo, threadExists, FlagSet
  <2>2. Unregistered'
    BY <1>9
       DEF Finish, StepTo, threadExists, Unregistered, EntriesOf,
           FlagSet
  <2>3. OneEntry'
    BY <1>9
       DEF Finish, StepTo, threadExists, OneEntry, Unregistered,
           EntriesOf, NoGhost
  <2>4. ActiveSeen'
    BY <1>9
       DEF Finish, StepTo, threadExists, ActiveSeen,
           BeingRegistered, EntriesOf, Unregistered, OneEntry
  <2>5. NoGhost'
    BY <1>9
       DEF Finish, StepTo, threadExists, NoGhost, OneEntry,
           ActiveSeen, BeingRegistered, Unregistered, EntriesOf,
           FlagSet
  <2>. QED BY <2>1, <2>2, <2>3, <2>4, <2>5
<1>10. ASSUME NEW t \in Workers, Sleep(t) PROVE RegKept'
  <2>1. FlagSet'
    BY <1>10
       DEF Sleep, Waited, BeingRegistered, threadExists, FlagSet
  <2>2. Unregistered'
    BY <1>10
       DEF Sleep, Waited, BeingRegistered, threadExists,
           Unregistered, EntriesOf, FlagSet
  <2>3. OneEntry'
    BY <1>10
       DEF Sleep, Waited, BeingRegistered, threadExists, OneEntry,
           Unregistered, EntriesOf, NoGhost
  <2>4. ActiveSeen'
    BY <1>10
       DEF Sleep, Waited, BeingRegistered, threadExists,
           ActiveSeen, EntriesOf, Unregistered, OneEntry
  <2>5. NoGhost'
    BY <1>10
       DEF Sleep, Waited, BeingRegistered, threadExists,
           NoGhost, OneEntry, ActiveSeen, Unregistered, EntriesOf,
           FlagSet
  <2>. QED BY <2>1, <2>2, <2>3, <2>4, <2>5
<1>11. ASSUME NEW t \in Workers, FindSelf(t) PROVE RegKept'
  <2>0. EntriesOf(t) # {} => Min(EntriesOf(t)) \in EntriesOf(t)
    <3>1. /\ EntriesOf(t) \in SUBSET Nat
          /\ EntriesOf(t) \subseteq Indices
      BY DEF EntriesOf
    <3>. QED BY <3>1, RegLeast
  <2>1. FlagSet'
    BY <1>11, <2>0
       DEF FindSelf, Waited, StepTo, threadExists, FlagSet
  <2>2. Unregistered'
    BY <1>11, <2>0
       DEF FindSelf, Waited, StepTo, threadExists, Unregistered,
           EntriesOf, FlagSet
  <2>3. OneEntry'
    BY <1>11, <2>0
       DEF FindSelf, Waited, StepTo, threadExists, OneEntry,
           Unregistered, EntriesOf, NoGhost
  <2>4. ActiveSeen'
    BY <1>11, <2>0
       DEF FindSelf, Waited, StepTo, threadExists, ActiveSeen,
           BeingRegistered, EntriesOf, Unregistered, OneEntry
  <2>5. NoGhost'
    BY <1>11, <2>0
       DEF FindSelf, Waited, StepTo, threadExists, NoGhost,
           OneEntry, ActiveSeen, BeingRegistered, Unregistered,
           EntriesOf, FlagSet
  <2>. QED BY <2>1, <2>2, <2>3, <2>4, <2>5
<1>12. ASSUME NEW t \in Workers, ClearHandle(t) PROVE RegKept'
  <2>1. FlagSet'
    BY <1>12 DEF ClearHandle, StepTo, FlagSet
  <2>2. Unregistered'
    BY <1>12
       DEF ClearHandle, StepTo, Unregistered, EntriesOf, FlagSet
  <2>3. OneEntry'
    BY <1>12
       DEF ClearHandle, StepTo, OneEntry, Unregistered, EntriesOf,
           NoGhost
  <2>4. ActiveSeen'
    BY <1>12
       DEF ClearHandle, StepTo, ActiveSeen, BeingRegistered,
           EntriesOf, Unregistered, OneEntry
  <2>5. NoGhost'
    <3>1. /\ hThread' = [hThread EXCEPT ![index[t]] = NoThread]
          /\ place' = [place EXCEPT ![t] = "clearRoutine"]
          /\ hThread[index[t]] = t
      BY <1>12 DEF ClearHandle, StepTo, OneEntry
    <3>2. \A i \in Indices : hThread'[i] # t
      <4>1. t # NoThread /\ index[t] \in Indices
        OBVIOUS
      <4>2. ASSUME NEW i \in Indices, hThread'[i] = t PROVE FALSE
        <5>1. i # index[t] /\ hThread[i] = t
          BY <3>1, <4>1, <4>2
        <5>. QED BY <3>1, <4>1, <5>1 DEF OneEntry
      <4>. QED BY <4>2
    <3>. QED BY <3>1, <3>2 DEF NoGhost
  <2>. QED BY <2>1, <2>2, <2>3, <2>4, <2>5
<1>13. ASSUME NEW t \in Workers, ClearRoutine(t) PROVE RegKept'
  <2>1. FlagSet'
    BY <1>13 DEF ClearRoutine, StepTo, FlagSet
  <2>2. Unregistered'
    BY <1>13
       DEF ClearRoutine, StepTo, Unregistered, EntriesOf, FlagSet
  <2>3. OneEntry'
    BY <1>13
       DEF ClearRoutine, StepTo, OneEntry, Unregistered, EntriesOf,
           NoGhost
  <2>4. ActiveSeen'
    BY <1>13
       DEF ClearRoutine, StepTo, ActiveSeen, BeingRegistered,
           EntriesOf, Unregistered, OneEntry
  <2>5. NoGhost'
    BY <1>13
       DEF ClearRoutine, StepTo, NoGhost, OneEntry, ActiveSeen,
           BeingRegistered, Unregistered, EntriesOf, FlagSet
  <2>. QED BY <2>1, <2>2, <2>3, <2>4, <2>5
<1>14. CASE UNCHANGED registryVars
  BY <1>14
     DEF registryVars, threadExists, FlagSet, Unregistered, OneEntry,
         ActiveSeen, NoGhost, EntriesOf, BeingRegistered
<1>. QED
  BY <1>1, <1>2, <1>3, <1>4, <1>5, <1>6, <1>7, <1>8, <1>9, <1>10, <1>11, <1>12,
     <1>13, <1>14
     DEF RegistryNext, CreatorStep, ThreadStep
-----------------------------------------------------------------------------
\* The table is empty at first, and nothing is under way.
LEMMA RegInit == RegistryInit => RegInv
<1> SUFFICES ASSUME RegistryInit PROVE RegInv
  OBVIOUS
<1> USE RegFacts DEF RegistryInit
<1>1. RegTyped
  BY DEF RegTyped, RegistryTypeOK, WorkerPlaces
<1>2. RegKept
  BY DEF RegKept, FlagSet, Unregistered, OneEntry, ActiveSeen, NoGhost,
         EntriesOf
<1>. QED BY <1>1, <1>2 DEF RegInv

\* The table is well typed for any number of creators: the index that a search
\* finds is an entry, and nobody looks at the flag more than THREAD_COUNT times.
THEOREM RegistryTypeCorrect ==
  RegistrySpec => []RegistryTypeOK
<1>1. RegistryInit => RegTyped
  BY RegInit DEF RegInv
<1>2. RegTyped => RegistryTypeOK
  BY DEF RegTyped
<1>. QED BY <1>1, <1>2, RegTypesKept, PTL DEF RegistrySpec

\* The inductive invariant holds throughout.
LEMMA RegInvariance ==
  ASSUME OneCreator PROVE RegistrySpec => []RegInv
<1>1. RegInv /\ [RegistryNext]_registryVars => RegInv'
  BY RegTypesKept, RegKeptKept DEF RegInv
<1>. QED BY RegInit, <1>1, PTL DEF RegistrySpec

\* With one creator at a time UtvThreadsActive misses no thread, for a table of
\* any size: a new thread cannot leave before it has been entered.
THEOREM ActiveThreadsSeen ==
  ASSUME OneCreator PROVE RegistrySpec => []ActiveSeen
<1>1. RegInv => ActiveSeen
  BY DEF RegInv, RegKept
<1>. QED BY RegInvariance, <1>1, PTL

\* With one creator at a time the table names no thread that has gone, and no
\* thread ends without having left it.
THEOREM NoGhostThreads ==
  ASSUME OneCreator PROVE RegistrySpec => []NoGhost
<1>1. RegInv => NoGhost
  BY DEF RegInv, RegKept
<1>. QED BY RegInvariance, <1>1, PTL
=============================================================================
