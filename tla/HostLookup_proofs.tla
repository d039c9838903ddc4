------------------------- MODULE HostLookup_proofs --------------------------
(***************************************************************************)
(* Proofs about the look-up of hosts, for any callers, hosts, number of    *)
(* wait handles and bounds: it is well typed, calls that nothing overlaps  *)
(* get and keep the address of their own host, and they give their wait    *)
(* handles back.                                                           *)
(***************************************************************************)
EXTENDS HostLookup, FiniteSetTheorems, WellFoundedInduction, TLAPS

(* The inductive invariant.                                                *)

Busy(c) == pc[c] # "idle"
Active(n) == resolver[n] \notin {"none", "over"}

\* A call and a resolver thread, if any, are alone, and the thread is looking
\* up the host of the call.
Alone ==
  /\ \A c, d \in Callers : Busy(c) /\ Busy(d) => c = d
  /\ \A n, k \in Lookups : Active(n) /\ Active(k) => n = k
  /\ \A n \in Lookups, c \in Callers : Active(n) /\ Busy(c) =>
       /\ asked[n] = host[c]
       /\ pc[c] \in {"wait", "destroy", "check", "answer", "store"}

\* What has been answered is the address of the host that was asked for.
OwnAddress ==
  /\ \A c \in Callers : pc[c] \notin {"idle", "init", "address"} =>
       s_uiAddress \in {NoHost, host[c]}
  /\ \A c \in Callers : pc[c] = "store" => s_uiAddress = host[c]
  /\ \A c \in Callers : ~Busy(c) => uiAddress[c] = NoHost

\* Between its creation and its destruction a wait is in s_hWait.
HoldsWait(c) == pc[c] \in {"address", "processed", "create", "wait", "destroy"}
Others == IF \E c \in Callers : HoldsWait(c) THEN Live \ {s_hWait} ELSE Live
Spared == Cardinality(Others) <= refusals

Undisturbed == Alone /\ OwnAddress /\ OwnAnswer /\ Spared
IInv == TypeOK /\ (~overlap => Undisturbed)
-----------------------------------------------------------------------------
\* The declared constants and the tuples of variables that steps leave alone.
LEMMA ConstantFacts ==
  /\ NoHost \notin Hosts /\ UTV_WAIT_MAX \in Nat \ {0}
  /\ MaxLookups \in Nat /\ MaxWakes \in Nat /\ MaxRefusals \in Nat
BY LookupAssumption

\* Every set of natural numbers that is not empty has a least element.
LEMMA Least ==
  ASSUME NEW S \in SUBSET Nat, S # {}
  PROVE  \E m \in S : \A k \in S : m <= k
<1>1. PICK m \in S : \A k \in S : ~(<<k, m>> \in OpToRel(<, Nat))
  BY NatLessThanWellFounded, WFMin, Zenon
<1>2. \A k \in S : ~(k < m)
  BY <1>1 DEF OpToRel
<1>. QED BY <1>2

\* The outcome of Create in which there is a thread.
Created(c) ==
  /\ pc[c] = "create" /\ lookups < MaxLookups
  /\ lookups' = lookups + 1
  /\ resolver' = [resolver EXCEPT ![lookups'] = "resolving"]
  /\ asked' = [asked EXCEPT ![lookups'] = host[c]]
  /\ hWait' = [hWait EXCEPT ![c] = s_hWait]
  /\ pc' = [pc EXCEPT ![c] = "wait"]
  /\ UNCHANGED <<s_DNSCacheEntries, statics, waits, host, rStatus, uiAddress,
                 boundVars>>

\* The specification is well typed.
LEMMA TypesKept == TypeOK /\ [Next]_vars => TypeOK'
<1> SUFFICES ASSUME TypeOK, [Next]_vars PROVE TypeOK'
  OBVIOUS
<1> USE ConstantFacts DEF Handles, NoHandle, Addresses, CallerPcs, Entries,
                         Lookups
<1>1. ASSUME NEW c \in Callers, Begin(c) PROVE TypeOK'
  BY <1>1 DEF TypeOK, Begin, Goto, Live, statics, threadVars
<1>2. ASSUME NEW c \in Callers, WaitInit(c) PROVE TypeOK'
  <2>1. CASE Unused = {}
    BY <1>2, <2>1 DEF TypeOK, WaitInit, Goto, Live, threadVars, boundVars
  <2>2. CASE Unused # {}
    <3>1. s_hWait' \in Unused
      <4>1. Unused \in SUBSET Nat
        BY DEF Unused
      <4>2. \E h \in Unused : \A g \in Unused : h <= g
        BY <2>2, <4>1, Least
      <4>. QED BY <1>2, <2>2, <4>2 DEF WaitInit
    <3>2. s_hWait' \in Handles
      BY <3>1 DEF Unused
    <3>3. /\ waits' = [h \in Live \cup {s_hWait'} |->
                        IF h = s_hWait' THEN 0 ELSE waits[h]]
          /\ pc' = [pc EXCEPT ![c] = "address"]
          /\ UNCHANGED <<s_DNSCacheEntries, s_uiAddress,
                        s_bDNSRequestProcessed, host, rStatus, hWait,
                        uiAddress, threadVars, boundVars>>
      BY <1>2, <2>2 DEF WaitInit, Goto
    <3>4. Live' = Live \cup {s_hWait'} /\ waits' \in [Live' -> Nat]
      BY <3>3 DEF TypeOK, Live
    <3>. QED BY <3>2, <3>3, <3>4 DEF TypeOK, threadVars, boundVars
  <2>. QED BY <2>1, <2>2
<1>3. ASSUME NEW c \in Callers, ResetAddress(c) PROVE TypeOK'
  BY <1>3 DEF TypeOK, ResetAddress, NoAnswer, Goto, Live, threadVars, boundVars
<1>4. ASSUME NEW c \in Callers, ResetProcessed(c) PROVE TypeOK'
  BY <1>4 DEF TypeOK, ResetProcessed, Goto, Live, threadVars, boundVars
<1>5. ASSUME NEW c \in Callers, Create(c) PROVE TypeOK'
  <2>1. CASE Created(c)
    <3>1. lookups' \in Lookups /\ lookups' \in 0 .. MaxLookups
      BY <2>1 DEF TypeOK, Created
    <3>2. resolver' = [resolver EXCEPT ![lookups'] = "resolving"]
          /\ asked' = [asked EXCEPT ![lookups'] = host[c]]
      BY <2>1 DEF Created
    <3>. QED BY <2>1, <3>1, <3>2
             DEF TypeOK, Created, Live, statics, boundVars
  <2>2. CASE Return(c)
    BY <1>5, <2>2 DEF TypeOK, Create, Return, Goto, Live, statics, threadVars
  <2>. QED BY <1>5, <2>1, <2>2 DEF Create, Created, Goto, boundVars
<1>6. ASSUME NEW c \in Callers, WaitTimed(c) PROVE TypeOK'
  BY <1>6 DEF TypeOK, WaitTimed, Goto, Live, statics, threadVars, boundVars
<1>7. ASSUME NEW c \in Callers, WaitDestroy(c) PROVE TypeOK'
  BY <1>7 DEF TypeOK, WaitDestroy, Destroyed, Return, Goto, Live, statics,
              threadVars, boundVars
<1>8. ASSUME NEW c \in Callers, Check(c) PROVE TypeOK'
  BY <1>8 DEF TypeOK, Check, Return, Goto, Live, statics, threadVars, boundVars
<1>9. ASSUME NEW c \in Callers, Answer(c) PROVE TypeOK'
  BY <1>9
     DEF TypeOK, Answer, Return, Goto, Live, statics, threadVars, boundVars
<1>10. ASSUME NEW c \in Callers, Store(c) PROVE TypeOK'
  BY <1>10 DEF TypeOK, Store, Victim, Return, Goto, Live, statics, threadVars,
               boundVars
<1>11. ASSUME NEW n \in Lookups, Resolved(n) PROVE TypeOK'
  BY <1>11 DEF TypeOK, Resolved, Live, callerVars, boundVars
<1>12. ASSUME NEW n \in Lookups, Flag(n) PROVE TypeOK'
  BY <1>12 DEF TypeOK, Flag, Live, callerVars, boundVars
<1>13. ASSUME NEW n \in Lookups, Signal(n) PROVE TypeOK'
  BY <1>13 DEF TypeOK, Signal, Signalled, Live, statics, callerVars, boundVars
<1>14. ASSUME WakeAll PROVE TypeOK'
  BY <1>14
     DEF TypeOK, WakeAll, Signalled, Live, statics, callerVars, threadVars
<1>15. CASE UNCHANGED vars
  BY <1>15 DEF TypeOK, vars, Live, statics, callerVars, threadVars, boundVars
<1>. QED
  BY <1>1, <1>2, <1>3, <1>4, <1>5, <1>6, <1>7, <1>8, <1>9, <1>10, <1>11, <1>12,
     <1>13, <1>14, <1>15 DEF Next, CallerStep
-----------------------------------------------------------------------------
\* There are finitely many live waits, and no more waits of others when some
\* are destroyed.
LEMMA SparedKept ==
  ASSUME TypeOK, Spared, Others' \subseteq Others,
         refusals' \in Nat, refusals <= refusals'
  PROVE  Spared'
<1>1. IsFiniteSet(Handles)
  BY ConstantFacts, FS_Interval DEF Handles
<1>2. Others \subseteq Handles
  BY DEF TypeOK, Others
<1>3. IsFiniteSet(Others)
  BY <1>1, <1>2, FS_Subset
<1>4. Cardinality(Others') <= Cardinality(Others)
      /\ Cardinality(Others') \in Nat /\ Cardinality(Others) \in Nat
  BY <1>3, FS_Subset, FS_CardinalityType
<1>. QED BY <1>4 DEF TypeOK, Spared

\* While no call or thread is under way but one of each, nobody else is busy.
LEMMA OthersIdle ==
  ASSUME TypeOK, Alone, NEW c \in Callers, Busy(c)
  PROVE  \A d \in Callers \ {c} : pc[d] = "idle"
BY DEF Alone, Busy

\* The four conjuncts, while nothing overlaps.
LEMMA UndisturbedKept ==
  TypeOK /\ TypeOK' /\ Undisturbed /\ ~overlap' /\ [Next]_vars => Undisturbed'
<1> SUFFICES ASSUME TypeOK, TypeOK', Undisturbed, ~overlap', [Next]_vars
             PROVE  Undisturbed'
  OBVIOUS
<1> USE ConstantFacts DEF Undisturbed
<1>1. ASSUME NEW c \in Callers, Begin(c) PROVE Undisturbed'
  <2>1. Alone'
    BY <1>1
       DEF Begin, Goto, UnderWay, statics, threadVars, Alone, Busy, Active,
           TypeOK
  <2>2. OwnAddress'
    BY <1>1
       DEF Begin, Goto, UnderWay, statics, threadVars, OwnAddress, Busy,
           OwnAnswer, Alone, Active, TypeOK
  <2>3. OwnAnswer'
    BY <1>1
       DEF Begin, Goto, UnderWay, statics, threadVars, OwnAnswer, OwnAddress,
           Busy, Alone, Active, TypeOK
  <2>4. Spared'
    BY <1>1, SparedKept
       DEF Begin, Goto, UnderWay, statics, threadVars, TypeOK, Others,
           HoldsWait, Live
  <2>. QED BY <2>1, <2>2, <2>3, <2>4
<1>2. ASSUME NEW c \in Callers, WaitInit(c) PROVE Undisturbed'
  <2>0. Busy(c) /\ \A d \in Callers \ {c} : pc[d] = "idle"
    BY <1>2, OthersIdle DEF WaitInit, Busy
  <2>1. Alone'
    BY <1>2, <2>0
       DEF WaitInit, Goto, threadVars, boundVars, Alone, Busy, Active, TypeOK
  <2>2. OwnAddress'
    BY <1>2, <2>0
       DEF WaitInit, Goto, threadVars, boundVars, OwnAddress, Busy, OwnAnswer,
           TypeOK
  <2>3. OwnAnswer'
    BY <1>2, <2>0
       DEF WaitInit, Goto, threadVars, boundVars, OwnAnswer, OwnAddress, Busy,
           TypeOK
  <2>4. Spared'
    BY <1>2, <2>0, SparedKept
       DEF WaitInit, Goto, threadVars, boundVars, TypeOK, Others, HoldsWait,
           Live
  <2>. QED BY <2>1, <2>2, <2>3, <2>4
<1>3. ASSUME NEW c \in Callers, ResetAddress(c) PROVE Undisturbed'
  <2>0. Busy(c) /\ \A d \in Callers \ {c} : pc[d] = "idle"
    BY <1>3, OthersIdle DEF ResetAddress, Busy
  <2>1. Alone'
    BY <1>3, <2>0
       DEF ResetAddress, NoAnswer, Goto, threadVars, boundVars, Alone, Busy,
           Active, TypeOK
  <2>2. OwnAddress'
    BY <1>3, <2>0
       DEF ResetAddress, NoAnswer, Goto, threadVars, boundVars, OwnAddress,
           Busy, OwnAnswer, TypeOK
  <2>3. OwnAnswer'
    BY <1>3, <2>0
       DEF ResetAddress, NoAnswer, Goto, threadVars, boundVars, OwnAnswer,
           OwnAddress, Busy, TypeOK
  <2>4. Spared'
    BY <1>3, <2>0, SparedKept
       DEF ResetAddress, NoAnswer, Goto, threadVars, boundVars, TypeOK, Others,
           HoldsWait, Live
  <2>. QED BY <2>1, <2>2, <2>3, <2>4
<1>4. ASSUME NEW c \in Callers, ResetProcessed(c) PROVE Undisturbed'
  <2>0. Busy(c) /\ \A d \in Callers \ {c} : pc[d] = "idle"
    BY <1>4, OthersIdle DEF ResetProcessed, Busy
  <2>1. Alone'
    BY <1>4, <2>0
       DEF ResetProcessed, Goto, threadVars, boundVars, Alone, Busy, Active,
           TypeOK
  <2>2. OwnAddress'
    BY <1>4, <2>0
       DEF ResetProcessed, Goto, threadVars, boundVars, OwnAddress, Busy,
           OwnAnswer, TypeOK
  <2>3. OwnAnswer'
    BY <1>4, <2>0
       DEF ResetProcessed, Goto, threadVars, boundVars, OwnAnswer, OwnAddress,
           Busy, TypeOK
  <2>4. Spared'
    BY <1>4, <2>0, SparedKept
       DEF ResetProcessed, Goto, threadVars, boundVars, TypeOK, Others,
           HoldsWait, Live
  <2>. QED BY <2>1, <2>2, <2>3, <2>4
<1>5. ASSUME NEW c \in Callers, Create(c) PROVE Undisturbed'
  <2>0. Busy(c) /\ \A d \in Callers \ {c} : pc[d] = "idle"
    BY <1>5, OthersIdle DEF Create, Busy
  <2>1. Alone'
    <3>0. \A n \in Lookups : ~Active(n)
      BY <1>5, <2>0 DEF Alone, Create
    <3>1. CASE Created(c)
      <4>1. lookups' \in Lookups
        BY <3>1 DEF Created, TypeOK
      <4>2. \A n \in Lookups : Active(n)' => n = lookups'
        BY <3>0, <3>1, <4>1 DEF Created, Active, TypeOK
      <4>3. \A d \in Callers : Busy(d)' => d = c
        BY <2>0, <3>1 DEF Created, Busy, TypeOK
      <4>4. asked'[lookups'] = host'[c] /\ pc'[c] = "wait"
        BY <3>1, <4>1 DEF Created, TypeOK
      <4>. QED BY <4>2, <4>3, <4>4 DEF Alone
    <3>2. CASE Return(c) /\ UNCHANGED threadVars
      BY <2>0, <3>0, <3>2
         DEF Return, Goto, threadVars, Alone, Busy, Active, TypeOK
    <3>. QED BY <1>5, <3>1, <3>2 DEF Create, Created, Goto, boundVars
  <2>2. OwnAddress'
    BY <1>5, <2>0
       DEF Create, Return, Goto, statics, threadVars, OwnAddress, Busy,
           OwnAnswer, TypeOK
  <2>3. OwnAnswer'
    BY <1>5, <2>0
       DEF Create, Return, Goto, statics, threadVars, OwnAnswer, OwnAddress,
           Busy, TypeOK
  <2>4. Spared'
    <3>1. CASE Created(c)
      BY <2>0, <3>1, SparedKept
         DEF Created, statics, boundVars, TypeOK, Others, HoldsWait, Live
    <3>2. CASE Return(c) /\ refusals' = refusals + 1 /\ UNCHANGED waits
      <4>1. IsFiniteSet(Live)
        <5>1. IsFiniteSet(Handles)
          BY FS_Interval DEF Handles
        <5>. QED BY <5>1, FS_Subset DEF TypeOK
      <4>2. Cardinality(Live) <= Cardinality(Live \ {s_hWait}) + 1
            /\ Cardinality(Live) \in Nat
            /\ Cardinality(Live \ {s_hWait}) \in Nat
        <5>1. IsFiniteSet(Live \ {s_hWait})
          BY <4>1, FS_RemoveElement
        <5>2. Cardinality(Live) \in Nat
              /\ Cardinality(Live \ {s_hWait}) \in Nat
          BY <4>1, <5>1, FS_CardinalityType
        <5>3. Cardinality(Live \ {s_hWait}) =
                IF s_hWait \in Live THEN Cardinality(Live) - 1
                ELSE Cardinality(Live)
          BY <4>1, FS_RemoveElement, Zenon
        <5>. QED BY <5>2, <5>3
      <4>3. Others = Live \ {s_hWait}
        BY <1>5 DEF Create, Others, HoldsWait
      <4>4. Others' = Live
        BY <2>0, <3>2 DEF Return, Goto, Others, HoldsWait, Live, TypeOK
      <4>. QED BY <3>2, <4>2, <4>3, <4>4 DEF Spared, TypeOK
    <3>. QED BY <1>5, <3>1, <3>2 DEF Create, Created, Goto, boundVars, statics
  <2>. QED BY <2>1, <2>2, <2>3, <2>4
<1>6. ASSUME NEW c \in Callers, WaitTimed(c) PROVE Undisturbed'
  <2>0. Busy(c) /\ \A d \in Callers \ {c} : pc[d] = "idle"
    BY <1>6, OthersIdle DEF WaitTimed, Busy
  <2>1. Alone'
    BY <1>6, <2>0
       DEF WaitTimed, Goto, statics, threadVars, boundVars, Alone, Busy,
           Active, TypeOK
  <2>2. OwnAddress'
    BY <1>6, <2>0
       DEF WaitTimed, Goto, statics, threadVars, boundVars, OwnAddress, Busy,
           OwnAnswer, TypeOK
  <2>3. OwnAnswer'
    BY <1>6, <2>0
       DEF WaitTimed, Goto, statics, threadVars, boundVars, OwnAnswer,
           OwnAddress, Busy, TypeOK
  <2>4. Spared'
    BY <1>6, <2>0, SparedKept
       DEF WaitTimed, Goto, statics, threadVars, boundVars, TypeOK, Others,
           HoldsWait, Live
  <2>. QED BY <2>1, <2>2, <2>3, <2>4
<1>7. ASSUME NEW c \in Callers, WaitDestroy(c) PROVE Undisturbed'
  <2>0. Busy(c) /\ \A d \in Callers \ {c} : pc[d] = "idle"
    BY <1>7, OthersIdle DEF WaitDestroy, Busy
  <2>1. Alone'
    BY <1>7, <2>0
       DEF WaitDestroy, Destroyed, Return, Goto, statics, threadVars,
           boundVars, Alone, Busy, Active, TypeOK
  <2>2. OwnAddress'
    BY <1>7, <2>0
       DEF WaitDestroy, Destroyed, Return, Goto, statics, threadVars,
           boundVars, OwnAddress, Busy, OwnAnswer, TypeOK
  <2>3. OwnAnswer'
    BY <1>7, <2>0
       DEF WaitDestroy, Destroyed, Return, Goto, statics, threadVars,
           boundVars, OwnAnswer, OwnAddress, Busy, TypeOK
  <2>4. Spared'
    BY <1>7, <2>0, SparedKept
       DEF WaitDestroy, Destroyed, Return, Goto, statics, threadVars,
           boundVars, TypeOK, Others, HoldsWait, Live
  <2>. QED BY <2>1, <2>2, <2>3, <2>4
<1>8. ASSUME NEW c \in Callers, Check(c) PROVE Undisturbed'
  <2>0. Busy(c) /\ \A d \in Callers \ {c} : pc[d] = "idle"
    BY <1>8, OthersIdle DEF Check, Busy
  <2>1. Alone'
    BY <1>8, <2>0
       DEF Check, Return, Goto, statics, threadVars, boundVars, Alone, Busy,
           Active, TypeOK
  <2>2. OwnAddress'
    BY <1>8, <2>0
       DEF Check, Return, Goto, statics, threadVars, boundVars, OwnAddress,
           Busy, OwnAnswer, TypeOK
  <2>3. OwnAnswer'
    BY <1>8, <2>0
       DEF Check, Return, Goto, statics, threadVars, boundVars, OwnAnswer,
           OwnAddress, Busy, TypeOK
  <2>4. Spared'
    BY <1>8, <2>0, SparedKept
       DEF Check, Return, Goto, statics, threadVars, boundVars, TypeOK, Others,
           HoldsWait, Live
  <2>. QED BY <2>1, <2>2, <2>3, <2>4
<1>9. ASSUME NEW c \in Callers, Answer(c) PROVE Undisturbed'
  <2>0. Busy(c) /\ \A d \in Callers \ {c} : pc[d] = "idle"
    BY <1>9, OthersIdle DEF Answer, Busy
  <2>1. Alone'
    BY <1>9, <2>0
       DEF Answer, Return, Goto, statics, threadVars, boundVars, Alone, Busy,
           Active, TypeOK
  <2>2. OwnAddress'
    BY <1>9, <2>0
       DEF Answer, Return, Goto, statics, threadVars, boundVars, OwnAddress,
           Busy, OwnAnswer, TypeOK
  <2>3. OwnAnswer'
    BY <1>9, <2>0
       DEF Answer, Return, Goto, statics, threadVars, boundVars, OwnAnswer,
           OwnAddress, Busy, TypeOK
  <2>4. Spared'
    BY <1>9, <2>0, SparedKept
       DEF Answer, Return, Goto, statics, threadVars, boundVars, TypeOK,
           Others, HoldsWait, Live
  <2>. QED BY <2>1, <2>2, <2>3, <2>4
<1>10. ASSUME NEW c \in Callers, Store(c) PROVE Undisturbed'
  <2>0. Busy(c) /\ \A d \in Callers \ {c} : pc[d] = "idle"
    BY <1>10, OthersIdle DEF Store, Busy
  <2>1. Alone'
    BY <1>10, <2>0
       DEF Store, Victim, Return, Goto, statics, threadVars, boundVars, Alone,
           Busy, Active, TypeOK
  <2>2. OwnAddress'
    BY <1>10, <2>0
       DEF Store, Victim, Return, Goto, statics, threadVars, boundVars,
           OwnAddress, Busy, OwnAnswer, TypeOK
  <2>3. OwnAnswer'
    BY <1>10, <2>0
       DEF Store, Victim, Return, Goto, statics, threadVars, boundVars,
           OwnAnswer, OwnAddress, Busy, TypeOK
  <2>4. Spared'
    BY <1>10, <2>0, SparedKept
       DEF Store, Victim, Return, Goto, statics, threadVars, boundVars, TypeOK,
           Others, HoldsWait, Live
  <2>. QED BY <2>1, <2>2, <2>3, <2>4
<1>11. ASSUME NEW n \in Lookups, Resolved(n) PROVE Undisturbed'
  <2>1. Alone'
    BY <1>11 DEF Resolved, callerVars, boundVars, Alone, Busy, Active, TypeOK
  <2>2. OwnAddress'
    BY <1>11
       DEF Resolved, callerVars, boundVars, OwnAddress, Busy, OwnAnswer, Alone,
           Active, TypeOK
  <2>3. OwnAnswer'
    BY <1>11
       DEF Resolved, callerVars, boundVars, OwnAnswer, OwnAddress, Busy, Alone,
           Active, TypeOK
  <2>4. Spared'
    BY <1>11, SparedKept
       DEF Resolved, callerVars, boundVars, TypeOK, Others, HoldsWait, Live
  <2>. QED BY <2>1, <2>2, <2>3, <2>4
<1>12. ASSUME NEW n \in Lookups, Flag(n) PROVE Undisturbed'
  <2>1. Alone'
    BY <1>12 DEF Flag, callerVars, boundVars, Alone, Busy, Active, TypeOK
  <2>2. OwnAddress'
    BY <1>12
       DEF Flag, callerVars, boundVars, OwnAddress, Busy, OwnAnswer, TypeOK
  <2>3. OwnAnswer'
    BY <1>12
       DEF Flag, callerVars, boundVars, OwnAnswer, OwnAddress, Busy, TypeOK
  <2>4. Spared'
    BY <1>12, SparedKept
       DEF Flag, callerVars, boundVars, TypeOK, Others, HoldsWait, Live
  <2>. QED BY <2>1, <2>2, <2>3, <2>4
<1>13. ASSUME NEW n \in Lookups, Signal(n) PROVE Undisturbed'
  <2>1. Alone'
    BY <1>13
       DEF Signal, Signalled, statics, callerVars, boundVars, Alone, Busy,
           Active, TypeOK
  <2>2. OwnAddress'
    BY <1>13
       DEF Signal, Signalled, statics, callerVars, boundVars, OwnAddress, Busy,
           OwnAnswer, TypeOK
  <2>3. OwnAnswer'
    BY <1>13
       DEF Signal, Signalled, statics, callerVars, boundVars, OwnAnswer,
           OwnAddress, Busy, TypeOK
  <2>4. Spared'
    BY <1>13, SparedKept
       DEF Signal, Signalled, statics, callerVars, boundVars, TypeOK, Others,
           HoldsWait, Live
  <2>. QED BY <2>1, <2>2, <2>3, <2>4
<1>14. ASSUME WakeAll PROVE Undisturbed'
  <2>1. Alone'
    BY <1>14
       DEF WakeAll, Signalled, statics, callerVars, threadVars, Alone, Busy,
           Active, TypeOK
  <2>2. OwnAddress'
    BY <1>14
       DEF WakeAll, Signalled, statics, callerVars, threadVars, OwnAddress,
           Busy, OwnAnswer, TypeOK
  <2>3. OwnAnswer'
    BY <1>14
       DEF WakeAll, Signalled, statics, callerVars, threadVars, OwnAnswer,
           OwnAddress, Busy, TypeOK
  <2>4. Spared'
    BY <1>14, SparedKept
       DEF WakeAll, Signalled, statics, callerVars, threadVars, TypeOK, Others,
           HoldsWait, Live
  <2>. QED BY <2>1, <2>2, <2>3, <2>4
<1>15. CASE UNCHANGED vars
  BY <1>15 DEF vars, statics, callerVars, threadVars, boundVars, Alone, Busy,
               Active, OwnAddress, OwnAnswer, Spared, Others, HoldsWait, Live
<1>. QED
  BY <1>1, <1>2, <1>3, <1>4, <1>5, <1>6, <1>7, <1>8, <1>9, <1>10, <1>11, <1>12,
     <1>13, <1>14, <1>15 DEF Next, CallerStep
-----------------------------------------------------------------------------
\* The initial states are well typed, and nothing is under way.
LEMMA InitIInv == Init => IInv
<1> SUFFICES ASSUME Init PROVE IInv
  OBVIOUS
<1> USE ConstantFacts DEF Init, Handles, Entries, Lookups
<1>1. TypeOK
  <2>1. 0 \in Handles /\ lookups \in 0 .. MaxLookups
    OBVIOUS
  <2>2. Live = {} /\ waits \in [Live -> Nat]
    BY DEF Live
  <2>. QED BY <2>1, <2>2 DEF TypeOK, Addresses, CallerPcs, Free
<1>2. Alone /\ OwnAddress /\ OwnAnswer
  BY DEF Alone, Busy, Active, OwnAddress, OwnAnswer, Free
<1>3. Others = {}
  BY DEF Others, HoldsWait, Live
<1>4. Spared
  BY <1>3, FS_EmptySet DEF Spared
<1>. QED BY <1>1, <1>2, <1>4 DEF IInv, Undisturbed

\* Only Begin changes overlap, and never takes it back.
LEMMA OverlapStays == [Next]_vars /\ ~overlap' => ~overlap
BY DEF Next, CallerStep, Begin, WaitInit, ResetAddress, ResetProcessed, Create,
       WaitTimed, WaitDestroy, Check, Answer, Store, Resolved, Flag, Signal,
       WakeAll, vars, boundVars

\* The inductive invariant holds throughout.
THEOREM Invariance == Spec => []IInv
<1>1. IInv /\ [Next]_vars => IInv'
  BY TypesKept, UndisturbedKept, OverlapStays DEF IInv
<1>. QED BY InitIInv, <1>1, PTL DEF Spec

\* For any callers, hosts, bounds and number of wait handles: the look-up is
\* well typed; in particular no wait handle but those of the table is live.
THEOREM LookupTypeCorrect == Spec => []TypeOK
<1>1. IInv => TypeOK
  BY DEF IInv
<1>. QED BY Invariance, <1>1, PTL

\* A call that nothing overlaps gets the address of its own host, and so does
\* every entry of the cache, whatever the threads of earlier calls have done.
THEOREM AnswersOwnHost == Spec => []OwnAnswer
<1>1. IInv => OwnAnswer
  BY DEF IInv, Undisturbed, OwnAnswer
<1>. QED BY Invariance, <1>1, PTL

\* Calls that do not overlap leave no wait behind but those of the threads that
\* could not be created.
THEOREM WaitsGivenBack == Spec => []HandlesReturn
<1>1. ASSUME IInv, ~overlap, ~UnderWay PROVE Cardinality(Live) <= refusals
  <2>1. Others = Live
    BY <1>1 DEF UnderWay, Others, HoldsWait
  <2>. QED BY <1>1, <2>1 DEF IInv, Undisturbed, Spared
<1>2. IInv => HandlesReturn
  BY <1>1 DEF HandlesReturn
<1>. QED BY Invariance, <1>2, PTL
=============================================================================
