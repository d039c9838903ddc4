------------------------ MODULE SectionQueue_proofs ------------------------
(***************************************************************************)
(* Proofs about the section filter.  Whatever the depth of the queue, the  *)
(* number of sections, of opens, of aborts and of failures: the queue      *)
(* hands out what the pump put in, in that order, the pump stays within    *)
(* the open filter, and no scan sleeps over a section.  At the end, the    *)
(* filter is shown to implement SectionSource.                             *)
(***************************************************************************)
EXTENDS SectionQueue, TLAPS

Depth == UTV_SECTION_QUEUE_DEPTH

Opening == {"openWait", "openPlatform"}
Closing == {"close", "closeJoin", "closeWait"}
CoreLabels == {"idle"} \cup Opening \cup Reading \cup Closing

\* The pump has a section in hand that it may still signal.
Carrying == {"deliver", "copy", "load", "increment", "signal"}
PumpLabels == {"none", "start", "loop", "read", "exit", "ended"} \cup Carrying

Bit(b) == IF b THEN 1 ELSE 0

\* What the variables hold.  The count a thread has read tells what it writes.
Places ==
  /\ pc \in [Threads -> CoreLabels \cup PumpLabels \cup {"wake"}]
  /\ pc[Core] \in CoreLabels /\ pc[Pump] \in PumpLabels
  /\ pc[User] \in {"idle", "wake"}
  /\ loaded \in [{Core, Pump} -> 0 .. Depth]
  /\ section \in [{Core, Pump} -> Sections \cup {NoSection}]
  /\ delivered \in Seq(Sections \cup {NoSection})
  /\ got \in Seq(Sections \cup {NoSection})
  /\ failures \in Nat
  /\ sent \in 0 .. MaxSections /\ aborts \in 0 .. MaxAborts
Counts ==
  /\ pc[Pump] \in {"copy", "load"} => uiSectionQueueCount < Depth
  /\ pc[Pump] = "increment" => loaded[Pump] < Depth
  /\ pc[Core] = "take" => uiSectionQueueCount > 0
  /\ pc[Core] = "decrement" => loaded[Core] > 0
Typed == TypeOK /\ Places /\ Counts

\* The filter lives longer than its pump, unless that could not be stopped.
Filter ==
  /\ eStatus # "UNKNOWN" => pbSectionBuffer
  /\ pc[Core] # "idle" => eStatus # "UNKNOWN"
  /\ pc[Core] \in {"openPlatform"} \cup Reading \cup Closing => hWait
  /\ ~threadExists => pc[Pump] = "none"
Life ==
  ~stopFailed =>
    /\ ~stray
    /\ pc[Pump] \notin {"none", "ended"} =>
         pc[Core] \in Reading \cup {"close", "closeJoin"}

\* The ring: the k-th section that waits is k slots after the output index.
After(o, k) == IF o + k < Depth THEN o + k ELSE o + k - Depth
Place(k) == After(uiSectionQueueOutput, k)
Fill == Len(delivered) - Len(got)
Fresh ==
  pc[Core] \in Opening =>
    /\ got = <<>>
    /\ pc[Pump] = "none" =>
         /\ delivered = <<>> /\ uiSectionQueueCount = 0
         /\ uiSectionQueueInput = 0 /\ uiSectionQueueOutput = 0
Ordered == ~raced =>
  /\ Len(got) <= Len(delivered)
  /\ \A i \in 1 .. Len(got) : got[i] = delivered[i]
Ring == pc[Core] \in Reading /\ ~raced =>
  /\ Fill \in 0 .. Depth
  /\ uiSectionQueueCount + Bit(pc[Pump] \in {"load", "increment"}) =
       Fill + Bit(pc[Core] = "decrement")
  /\ uiSectionQueueInput = Place(Fill)
  /\ \A k \in 0 .. Fill - 1 :
       pSectionQueue[Place(k)] = delivered[Len(got) + 1 + k]

\* The semaphore: what was signalled and not yet waited for.
Bounded ==
  /\ Bit(pc[Pump] \in Carrying) <= sent
  /\ Bit(pc[User] = "wake") <= aborts
  /\ pc[Core] \in {"openPlatform"} \cup Reading /\ ~continues =>
       uiCount + Bit(pc[Pump] \in Carrying) + Bit(pc[User] = "wake")
         <= sent + aborts
Signalled == pc[Core] \in Reading /\ ~continues =>
  /\ pc[Core] = "blocked" => uiCount = 0
  /\ pc[Core] = "woken" => uiCount > 0
  /\ Fill <= uiCount + Bit(pc[Core] \in {"check", "take"})
               + Bit(pc[Pump] \in {"load", "increment", "signal"})

IInv == /\ Typed /\ Filter /\ Life
        /\ Fresh /\ Ordered /\ Ring
        /\ Bounded /\ Signalled
-----------------------------------------------------------------------------
\* The assumptions on the constants, under one name.
LEMMA ConstantFacts ==
  /\ Core # Pump /\ Core # User /\ Pump # User
  /\ Depth \in Nat \ {0} /\ CountMod \in Nat \ {0, 1}
  /\ MaxSections \in Nat /\ MaxOpens \in Nat /\ MaxAborts \in Nat
  /\ CountMod > MaxSections + MaxAborts
  /\ 0 \in Slots
BY ThreadsAssumption, SizesAssumption DEF Depth, Slots

\* The indices go round the queue.
LEMMA FollowingIs ==
  \A i \in Slots : /\ Following(i) = IF i + 1 < Depth THEN i + 1 ELSE 0
                   /\ Following(i) \in Slots
<1> SUFFICES ASSUME NEW i \in Slots
             PROVE  Following(i) = IF i + 1 < Depth THEN i + 1 ELSE 0
  BY ConstantFacts DEF Slots, Depth
<1>1. CASE i + 1 < Depth
  BY <1>1, ConstantFacts DEF Following, Slots, Depth
<1>2. CASE i + 1 = Depth
  <2>1. Depth % Depth = 0
    BY ConstantFacts
  <2>. QED BY <1>2, <2>1, ConstantFacts DEF Following, Slots, Depth
<1>. QED BY <1>1, <1>2, ConstantFacts DEF Slots, Depth

\* The count of the semaphore stays within its width.
LEMMA CountWraps ==
  \A n \in 0 .. CountMod - 1 :
    /\ (n + 1) % CountMod \in 0 .. CountMod - 1
    /\ n + 1 < CountMod => (n + 1) % CountMod = n + 1
    /\ (n - 1) % CountMod \in 0 .. CountMod - 1
    /\ n > 0 => (n - 1) % CountMod = n - 1
BY ConstantFacts

\* The invariant holds before the personality is created.
LEMMA InitIInv == Init => IInv
<1> SUFFICES ASSUME Init PROVE IInv
  OBVIOUS
<1> USE ConstantFacts
<1>1. Typed
  BY DEF Init, Typed, TypeOK, Places, Counts, Threads, CoreLabels,
             PumpLabels, Depth
<1>2. Filter /\ Life /\ Fresh /\ Ring /\ Signalled
  BY DEF Init, Filter, Life, Fresh, Ring, Signalled, Threads, Opening,
             Reading, Closing
<1>3. Ordered
  BY DEF Init, Ordered
<1>4. Bounded
  BY DEF Init, Bounded, Threads, Carrying, Reading, Bit
<1>. QED BY <1>1, <1>2, <1>3, <1>4 DEF IInv

\* The specification is well typed.
LEMMA TypesKept == Typed /\ [Next]_vars => Typed'
<1> SUFFICES ASSUME Typed, [Next]_vars PROVE Typed'
  OBVIOUS
<1> USE ConstantFacts
    DEF Typed, TypeOK, Places, Counts, Depth, indexVars, waitVars,
        platformVars, boundVars, failureVars, historyVars, Sections
<1>1. CASE Create
  BY <1>1, FollowingIs, CountWraps
     DEF Create, ResetQueue, Threads, CoreLabels, PumpLabels, Opening, Reading,
         Closing, Carrying
<1>2. CASE Destroy
  BY <1>2, FollowingIs, CountWraps
     DEF Destroy, Threads, CoreLabels, PumpLabels, Opening, Reading, Closing,
         Carrying
<1>3. CASE OpenReset
  BY <1>3, FollowingIs, CountWraps
     DEF OpenReset, ResetQueue, Goto, Threads, CoreLabels, PumpLabels, Opening,
         Reading, Closing, Carrying
<1>4. CASE Timeout
  BY <1>4, FollowingIs, CountWraps
     DEF Timeout, AfterError, Goto, Unqueued, Threads, CoreLabels, PumpLabels,
         Opening, Reading, Closing, Carrying
<1>5. CASE OpenWait
  BY <1>5, FollowingIs, CountWraps
     DEF OpenWait, Goto, Threads, CoreLabels, PumpLabels, Opening, Reading,
         Closing, Carrying
<1>6. CASE OpenPlatform
  BY <1>6, FollowingIs, CountWraps
     DEF OpenPlatform, OpenFails, Goto, Threads, CoreLabels, PumpLabels,
         Opening, Reading, Closing, Carrying
<1>7. CASE Get
  BY <1>7, FollowingIs, CountWraps
     DEF Get, Goto, Unqueued, Threads, CoreLabels, PumpLabels, Opening,
         Reading, Closing, Carrying
<1>8. CASE Wait
  BY <1>8, FollowingIs, CountWraps
     DEF Wait, Goto, Unqueued, Threads, CoreLabels, PumpLabels, Opening,
         Reading, Closing, Carrying
<1>9. CASE Woken
  BY <1>9, FollowingIs, CountWraps
     DEF Woken, Goto, Unqueued, Threads, CoreLabels, PumpLabels, Opening,
         Reading, Closing, Carrying
<1>10. CASE Check
  BY <1>10, FollowingIs, CountWraps
     DEF Check, AfterError, Goto, Unqueued, Threads, CoreLabels, PumpLabels,
         Opening, Reading, Closing, Carrying
<1>11. CASE Take
  BY <1>11, FollowingIs, CountWraps
     DEF Take, Goto, Unqueued, Threads, CoreLabels, PumpLabels, Opening,
         Reading, Closing, Carrying
<1>12. CASE Decrement
  BY <1>12, FollowingIs, CountWraps
     DEF Decrement, StoreCount, Goto, Unqueued, Threads, CoreLabels,
         PumpLabels, Opening, Reading, Closing, Carrying
<1>13. CASE Parse
  BY <1>13, FollowingIs, CountWraps
     DEF Parse, Goto, Unqueued, Threads, CoreLabels, PumpLabels, Opening,
         Reading, Closing, Carrying
<1>14. CASE Close
  BY <1>14, FollowingIs, CountWraps
     DEF Close, Goto, Uncounted, Threads, CoreLabels, PumpLabels, Opening,
         Reading, Closing, Carrying
<1>15. CASE CloseJoin
  BY <1>15, FollowingIs, CountWraps
     DEF CloseJoin, Goto, Uncounted, Threads, CoreLabels, PumpLabels, Opening,
         Reading, Closing, Carrying
<1>16. CASE CloseWait
  BY <1>16, FollowingIs, CountWraps
     DEF CloseWait, Goto, Uncounted, Threads, CoreLabels, PumpLabels, Opening,
         Reading, Closing, Carrying
<1>17. CASE PumpStart
  BY <1>17, FollowingIs, CountWraps
     DEF PumpStart, Goto, Unread, Threads, CoreLabels, PumpLabels, Opening,
         Reading, Closing, Carrying
<1>18. CASE PumpLoop
  BY <1>18, FollowingIs, CountWraps
     DEF PumpLoop, Goto, Unread, Threads, CoreLabels, PumpLabels, Opening,
         Reading, Closing, Carrying
<1>19. CASE PumpRead
  BY <1>19, FollowingIs, CountWraps
     DEF PumpRead, Goto, Unread, Threads, CoreLabels, PumpLabels, Opening,
         Reading, Closing, Carrying
<1>20. CASE Deliver
  BY <1>20, FollowingIs, CountWraps
     DEF Deliver, Goto, Unread, Full, Threads, CoreLabels, PumpLabels, Opening,
         Reading, Closing, Carrying
<1>21. CASE Copy
  BY <1>21, FollowingIs, CountWraps
     DEF Copy, Goto, Unread, Threads, CoreLabels, PumpLabels, Opening, Reading,
         Closing, Carrying
<1>22. CASE Load
  BY <1>22, FollowingIs, CountWraps
     DEF Load, Goto, Unread, Threads, CoreLabels, PumpLabels, Opening, Reading,
         Closing, Carrying
<1>23. CASE Increment
  BY <1>23, FollowingIs, CountWraps
     DEF Increment, StoreCount, Goto, Unread, Threads, CoreLabels, PumpLabels,
         Opening, Reading, Closing, Carrying
<1>24. CASE PumpSignal
  BY <1>24, FollowingIs, CountWraps
     DEF PumpSignal, Signal, Unread, Threads, CoreLabels, PumpLabels, Opening,
         Reading, Closing, Carrying
<1>25. CASE PumpExit
  BY <1>25, FollowingIs, CountWraps
     DEF PumpExit, Goto, Unread, Threads, CoreLabels, PumpLabels, Opening,
         Reading, Closing, Carrying
<1>26. CASE Abort
  BY <1>26, FollowingIs, CountWraps
     DEF Abort, Goto, Elsewhere, Threads, CoreLabels, PumpLabels, Opening,
         Reading, Closing, Carrying
<1>27. CASE Wake
  BY <1>27, FollowingIs, CountWraps
     DEF Wake, Signal, Elsewhere, Threads, CoreLabels, PumpLabels, Opening,
         Reading, Closing, Carrying
<1>28. CASE ClearState
  BY <1>28, FollowingIs, CountWraps
     DEF ClearState, Elsewhere, Threads, CoreLabels, PumpLabels, Opening,
         Reading, Closing, Carrying
<1>29. CASE UNCHANGED vars
  BY <1>29
     DEF vars, indexVars, waitVars, platformVars, boundVars, failureVars,
         historyVars
<1>. QED BY <1>1, <1>2, <1>3, <1>4, <1>5, <1>6, <1>7, <1>8, <1>9, <1>10, <1>11,
            <1>12, <1>13, <1>14, <1>15, <1>16, <1>17, <1>18, <1>19, <1>20,
            <1>21, <1>22, <1>23, <1>24, <1>25, <1>26, <1>27, <1>28, <1>29
   DEF Next, CoreStep, PumpStep

\* The filter outlives its pump.
LEMMA LifeKept == IInv /\ Typed' /\ [Next]_vars => (Filter /\ Life)'
<1> SUFFICES ASSUME IInv, Typed', [Next]_vars PROVE (Filter /\ Life)'
  OBVIOUS
<1> USE ConstantFacts
    DEF IInv, Typed, Places, Filter, Life, CoreLabels, PumpLabels, Carrying,
        Threads, Opening, Reading, Closing, indexVars, waitVars,
        platformVars, boundVars, failureVars, historyVars
<1>1. CASE Create
  BY <1>1 DEF Create, ResetQueue
<1>2. CASE Destroy
  BY <1>2 DEF Destroy
<1>3. CASE OpenReset
  BY <1>3 DEF OpenReset, ResetQueue, Goto
<1>4. CASE Timeout
  BY <1>4 DEF Timeout, AfterError, Goto, Unqueued
<1>5. CASE OpenWait
  BY <1>5 DEF OpenWait, Goto
<1>6. CASE OpenPlatform
  BY <1>6 DEF OpenPlatform, OpenFails, Goto
<1>7. CASE Get
  BY <1>7 DEF Get, Goto, Unqueued
<1>8. CASE Wait
  BY <1>8 DEF Wait, Goto, Unqueued
<1>9. CASE Woken
  BY <1>9 DEF Woken, Goto, Unqueued
<1>10. CASE Check
  BY <1>10 DEF Check, AfterError, Goto, Unqueued
<1>11. CASE Take
  BY <1>11 DEF Take, Goto, Unqueued
<1>12. CASE Decrement
  BY <1>12 DEF Decrement, StoreCount, Goto, Unqueued
<1>13. CASE Parse
  BY <1>13 DEF Parse, Goto, Unqueued
<1>14. CASE Close
  BY <1>14 DEF Close, Goto, Uncounted
<1>15. CASE CloseJoin
  BY <1>15 DEF CloseJoin, Goto, Uncounted
<1>16. CASE CloseWait
  BY <1>16 DEF CloseWait, Goto, Uncounted
<1>17. CASE PumpStart
  BY <1>17 DEF PumpStart, Goto, Unread
<1>18. CASE PumpLoop
  BY <1>18 DEF PumpLoop, Goto, Unread
<1>19. CASE PumpRead
  BY <1>19 DEF PumpRead, Goto, Unread
<1>20. CASE Deliver
  BY <1>20 DEF Deliver, Goto, Unread, Full
<1>21. CASE Copy
  BY <1>21 DEF Copy, Goto, Unread
<1>22. CASE Load
  BY <1>22 DEF Load, Goto, Unread
<1>23. CASE Increment
  BY <1>23 DEF Increment, StoreCount, Goto, Unread
<1>24. CASE PumpSignal
  BY <1>24 DEF PumpSignal, Signal, Unread
<1>25. CASE PumpExit
  BY <1>25 DEF PumpExit, Goto, Unread
<1>26. CASE Abort
  BY <1>26 DEF Abort, Goto, Elsewhere
<1>27. CASE Wake
  <2>1. ~stray => ~stray'
    BY <1>27, ConstantFacts, Zenon DEF Wake, Signal
  <2>. QED BY <1>27, <2>1 DEF Wake, Signal, Elsewhere
<1>28. CASE ClearState
  BY <1>28 DEF ClearState, Elsewhere
<1>29. CASE UNCHANGED vars
  BY <1>29 DEF vars
<1>. QED BY <1>1, <1>2, <1>3, <1>4, <1>5, <1>6, <1>7, <1>8, <1>9, <1>10, <1>11,
            <1>12, <1>13, <1>14, <1>15, <1>16, <1>17, <1>18, <1>19, <1>20,
            <1>21, <1>22, <1>23, <1>24, <1>25, <1>26, <1>27, <1>28, <1>29
   DEF Next, CoreStep, PumpStep

\* Going round from a slot.
LEMMA AfterIs ==
  \A o \in Slots :
    /\ After(o, 0) = o
    /\ \A k \in 0 .. Depth - 1 :
         /\ After(o, k) \in Slots
         /\ Following(After(o, k)) = After(o, k + 1)
         /\ After(Following(o), k) = After(o, k + 1)
         /\ \A j \in 0 .. k - 1 : After(o, j) # After(o, k)
<1>1. Depth \in Nat \ {0} /\ Slots = 0 .. Depth - 1
  BY ConstantFacts DEF Slots, Depth
<1>2. \A o \in Slots : \A k \in 0 .. Depth - 1 :
        /\ After(o, 0) = o /\ After(o, k) \in Slots
        /\ \A j \in 0 .. k - 1 : After(o, j) # After(o, k)
  BY <1>1 DEF After
<1>3. \A o \in Slots : \A k \in 0 .. Depth - 1 :
        Following(After(o, k)) = After(o, k + 1)
  BY <1>1, <1>2, FollowingIs DEF After
<1>4. \A o \in Slots : \A k \in 0 .. Depth - 1 :
        After(Following(o), k) = After(o, k + 1)
  <2> SUFFICES ASSUME NEW o \in Slots, NEW k \in 0 .. Depth - 1
               PROVE  After(Following(o), k) = After(o, k + 1)
    OBVIOUS
  <2>1. CASE o + 1 < Depth
    <3>1. Following(o) = o + 1
      BY <2>1, FollowingIs
    <3>. QED BY <1>1, <3>1 DEF After
  <2>2. CASE o + 1 = Depth
    <3>1. Following(o) = 0
      BY <2>2, <1>1, FollowingIs
    <3>. QED BY <1>1, <2>2, <3>1 DEF After
  <2>. QED BY <1>1, <2>1, <2>2
<1>. QED BY <1>1, <1>2, <1>3, <1>4

\* UtvGetSectionData hands out the section that waits longest.
LEMMA TakeInOrder == ASSUME IInv, Take PROVE (Fresh /\ Ordered /\ Ring)'
<1>1. /\ pc[Core] = "take" /\ pc'[Core] = "decrement" /\ pc'[Pump] = pc[Pump]
      /\ got' = Append(got, pSectionQueue[uiSectionQueueOutput])
      /\ uiSectionQueueOutput' = Following(uiSectionQueueOutput)
      /\ UNCHANGED <<pSectionQueue, uiSectionQueueInput,
                    uiSectionQueueCount, raced, delivered>>
  BY ConstantFacts
     DEF Take, Goto, Unqueued, IInv, Typed, Places, Threads
<1>2. /\ uiSectionQueueOutput \in Slots /\ uiSectionQueueCount \in Nat
      /\ uiSectionQueueCount > 0 /\ Depth \in Nat
      /\ pSectionQueue \in [Slots -> Sections \cup {NoSection}]
      /\ delivered \in Seq(Sections \cup {NoSection})
      /\ got \in Seq(Sections \cup {NoSection})
  BY <1>1, ConstantFacts DEF IInv, Typed, TypeOK, Places, Counts, Depth
<1>3. Fresh'
  BY <1>1 DEF Fresh, Opening
<1>4. ASSUME ~raced PROVE (Ordered /\ Ring)'
  <2>1. /\ Fill \in 1 .. Depth
        /\ uiSectionQueueCount + Bit(pc[Pump] \in {"load", "increment"}) = Fill
        /\ uiSectionQueueInput = Place(Fill)
        /\ \A k \in 0 .. Fill - 1 :
             pSectionQueue[Place(k)] = delivered[Len(got) + 1 + k]
    BY <1>1, <1>2, <1>4 DEF IInv, Ring, Bit, Reading
  <2>2. /\ Len(got') = Len(got) + 1 /\ Len(got) \in Nat
        /\ \A i \in 1 .. Len(got) : got'[i] = got[i]
        /\ got'[Len(got) + 1] = pSectionQueue[uiSectionQueueOutput]
    BY <1>1, <1>2
  <2>3. Fill' = Fill - 1
    BY <1>1, <1>2, <2>2 DEF Fill
  <2>4. /\ \A k \in 0 .. Depth - 1 : Place(k)' = Place(k + 1)
        /\ Place(0) = uiSectionQueueOutput
    BY <1>1, <1>2, AfterIs DEF Place
  <2>5. Ordered'
    <3>1. got'[Len(got) + 1] = delivered[Len(got) + 1]
      BY <2>1, <2>2, <2>4
    <3>2. Len(got) + 1 <= Len(delivered)
      BY <1>2, <2>1, <2>2 DEF Fill
    <3>. QED BY <1>1, <1>4, <2>2, <3>1, <3>2 DEF IInv, Ordered
  <2>6. uiSectionQueueInput' = Place(Fill)'
    BY <1>1, <1>2, <2>1, <2>3, <2>4
  <2>7. \A k \in 0 .. Fill - 2 :
          pSectionQueue[Place(k + 1)] = delivered[Len(got) + 2 + k]
    <3> SUFFICES ASSUME NEW k \in 0 .. Fill - 2
                 PROVE  pSectionQueue[Place(k + 1)] =
                          delivered[Len(got) + 2 + k]
      OBVIOUS
    <3>1. k + 1 \in 0 .. Fill - 1 /\ Len(got) + 1 + (k + 1) = Len(got) + 2 + k
      BY <1>2, <2>1, <2>2
    <3>. QED BY <2>1, <3>1
  <2>8. \A k \in 0 .. Fill' - 1 :
          pSectionQueue'[Place(k)'] = delivered'[Len(got') + 1 + k]
    BY <1>1, <1>2, <2>1, <2>2, <2>3, <2>4, <2>7
  <2>. QED
    BY <1>1, <1>2, <2>1, <2>3, <2>5, <2>6, <2>8 DEF Ring, Bit
<1>. QED BY <1>1, <1>3, <1>4 DEF Ordered, Ring

\* PumpThread puts its section behind those that wait, over none of them.
LEMMA CopyInOrder == ASSUME IInv, Copy PROVE (Fresh /\ Ordered /\ Ring)'
<1>1. /\ pc[Pump] = "copy" /\ pc'[Pump] = "load" /\ pc'[Core] = pc[Core]
      /\ pSectionQueue' =
           [pSectionQueue EXCEPT ![uiSectionQueueInput] = section[Pump]]
      /\ uiSectionQueueInput' = Following(uiSectionQueueInput)
      /\ delivered' = Append(delivered, section[Pump])
      /\ UNCHANGED <<uiSectionQueueOutput, uiSectionQueueCount, raced, got>>
  BY ConstantFacts DEF Copy, Goto, Unread, IInv, Typed, Places, Threads
<1>2. /\ uiSectionQueueOutput \in Slots /\ uiSectionQueueCount \in Nat
      /\ uiSectionQueueCount < Depth /\ Depth \in Nat
      /\ pSectionQueue \in [Slots -> Sections \cup {NoSection}]
      /\ section[Pump] \in Sections \cup {NoSection}
      /\ delivered \in Seq(Sections \cup {NoSection})
      /\ got \in Seq(Sections \cup {NoSection})
  BY <1>1, ConstantFacts DEF IInv, Typed, TypeOK, Places, Counts, Depth
<1>3. /\ Len(delivered') = Len(delivered) + 1
      /\ Len(delivered) \in Nat /\ Len(got) \in Nat
      /\ \A i \in 1 .. Len(delivered) : delivered'[i] = delivered[i]
      /\ delivered'[Len(delivered) + 1] = section[Pump]
  BY <1>1, <1>2
<1>4. Fresh'
  BY <1>1 DEF IInv, Fresh
<1>5. Ordered'
  BY <1>1, <1>3 DEF IInv, Ordered
<1>6. ASSUME pc[Core] \in Reading, ~raced PROVE Ring'
  <2>1. /\ Fill \in 0 .. Depth - 1
        /\ uiSectionQueueCount = Fill + Bit(pc[Core] = "decrement")
        /\ uiSectionQueueInput = Place(Fill)
        /\ \A k \in 0 .. Fill - 1 :
             pSectionQueue[Place(k)] = delivered[Len(got) + 1 + k]
    BY <1>1, <1>2, <1>6 DEF IInv, Ring, Bit
  <2>2. Fill' = Fill + 1 /\ Len(got) + 1 + Fill = Len(delivered) + 1
    BY <1>1, <1>3 DEF Fill
  <2>3. /\ \A k \in 0 .. Fill : Place(k) \in Slots
        /\ \A k \in 0 .. Fill - 1 : Place(k) # Place(Fill)
        /\ Following(Place(Fill)) = Place(Fill + 1)
    BY <1>2, <2>1, AfterIs DEF Place
  <2>4. \A k \in 0 .. Fill + 1 : Place(k)' = Place(k)
    BY <1>1 DEF Place
  <2>5. uiSectionQueueInput' = Place(Fill)'
    BY <1>1, <2>1, <2>2, <2>3, <2>4
  <2>6. pSectionQueue'[Place(Fill)] = delivered'[Len(got) + 1 + Fill]
    BY <1>1, <1>2, <1>3, <2>1, <2>2, <2>3
  <2>7. ASSUME NEW k \in 0 .. Fill - 1
        PROVE  pSectionQueue'[Place(k)] = delivered'[Len(got) + 1 + k]
    <3>1. Len(got) + 1 + k \in 1 .. Len(delivered)
      BY <1>3, <2>1, <2>2
    <3>2. pSectionQueue'[Place(k)] = pSectionQueue[Place(k)]
      BY <1>1, <1>2, <2>1, <2>3
    <3>. QED BY <1>3, <2>1, <3>1, <3>2
  <2>8. \A k \in 0 .. Fill' - 1 :
          pSectionQueue'[Place(k)'] = delivered'[Len(got') + 1 + k]
    BY <1>1, <2>1, <2>2, <2>4, <2>6, <2>7
  <2>. QED BY <1>1, <1>2, <2>1, <2>2, <2>5, <2>8 DEF Ring, Bit
<1>. QED BY <1>1, <1>4, <1>5, <1>6 DEF Ring

\* What is handed out is what was put in.
LEMMA OrderKept == IInv /\ Typed' /\ [Next]_vars => (Fresh /\ Ordered /\ Ring)'
<1> SUFFICES ASSUME IInv, Typed', [Next]_vars PROVE (Fresh /\ Ordered /\ Ring)'
  OBVIOUS
<1> USE ConstantFacts
    DEF IInv, Typed, Places, TypeOK, Counts, Filter, Fresh, Ordered, Ring,
        Place, After, Fill, Bit, Depth, Threads, Opening, Reading, Closing,
        indexVars, waitVars, platformVars, boundVars, failureVars, historyVars
<1>1. CASE Create
  BY <1>1 DEF Create, ResetQueue
<1>2. CASE Destroy
  BY <1>2 DEF Destroy
<1>3. CASE OpenReset
  BY <1>3 DEF OpenReset, ResetQueue, Goto
<1>4. CASE Timeout
  BY <1>4 DEF Timeout, AfterError, Goto, Unqueued
<1>5. CASE OpenWait
  BY <1>5 DEF OpenWait, Goto
<1>6. CASE OpenPlatform
  <2>1. UNCHANGED <<pSectionQueue, indexVars, uiSectionQueueCount, raced,
                    delivered, got>>
    BY <1>6 DEF OpenPlatform
  <2>2. CASE pc'[Core] = "get"
    <3>1. ~threadExists /\ pc[Core] = "openPlatform" /\ pc'[Pump] = "start"
      BY <1>6, <2>2 DEF OpenPlatform, OpenFails, Goto
    <3>2. /\ delivered' = <<>> /\ got' = <<>> /\ uiSectionQueueCount' = 0
          /\ uiSectionQueueInput' = 0 /\ uiSectionQueueOutput' = 0
      BY <2>1, <3>1
    <3>. QED BY <2>2, <3>1, <3>2
  <2>3. CASE pc'[Core] = "idle"
    BY <2>1, <2>3
  <2>. QED BY <1>6, <2>2, <2>3 DEF OpenPlatform, OpenFails, Goto
<1>7. CASE Get
  BY <1>7 DEF Get, Goto, Unqueued
<1>8. CASE Wait
  BY <1>8 DEF Wait, Goto, Unqueued
<1>9. CASE Woken
  BY <1>9 DEF Woken, Goto, Unqueued
<1>10. CASE Check
  BY <1>10 DEF Check, AfterError, Goto, Unqueued
<1>11. CASE Take
  BY <1>11, TakeInOrder
<1>12. CASE Decrement
  <2>1. ~raced' => ~raced /\ uiSectionQueueCount = loaded[Core]
    BY <1>12, Zenon DEF Decrement, StoreCount
  <2>. QED BY <1>12, <2>1 DEF Decrement, StoreCount, Goto, Unqueued
<1>13. CASE Parse
  BY <1>13 DEF Parse, Goto, Unqueued
<1>14. CASE Close
  BY <1>14 DEF Close, Goto, Uncounted
<1>15. CASE CloseJoin
  BY <1>15 DEF CloseJoin, Goto, Uncounted
<1>16. CASE CloseWait
  BY <1>16 DEF CloseWait, Goto, Uncounted
<1>17. CASE PumpStart
  BY <1>17 DEF PumpStart, Goto, Unread
<1>18. CASE PumpLoop
  BY <1>18 DEF PumpLoop, Goto, Unread
<1>19. CASE PumpRead
  BY <1>19 DEF PumpRead, Goto, Unread
<1>20. CASE Deliver
  BY <1>20 DEF Deliver, Goto, Unread, Full
<1>21. CASE Copy
  BY <1>21, CopyInOrder
<1>22. CASE Load
  BY <1>22 DEF Load, Goto, Unread
<1>23. CASE Increment
  <2>1. ~raced' => ~raced /\ uiSectionQueueCount = loaded[Pump]
    BY <1>23, Zenon DEF Increment, StoreCount
  <2>. QED BY <1>23, <2>1 DEF Increment, StoreCount, Goto, Unread
<1>24. CASE PumpSignal
  BY <1>24 DEF PumpSignal, Signal, Unread
<1>25. CASE PumpExit
  BY <1>25 DEF PumpExit, Goto, Unread
<1>26. CASE Abort
  BY <1>26 DEF Abort, Goto, Elsewhere
<1>27. CASE Wake
  BY <1>27 DEF Wake, Signal, Elsewhere
<1>28. CASE ClearState
  BY <1>28 DEF ClearState, Elsewhere
<1>29. CASE UNCHANGED vars
  BY <1>29 DEF vars
<1>. QED BY <1>1, <1>2, <1>3, <1>4, <1>5, <1>6, <1>7, <1>8, <1>9, <1>10, <1>11,
            <1>12, <1>13, <1>14, <1>15, <1>16, <1>17, <1>18, <1>19, <1>20,
            <1>21, <1>22, <1>23, <1>24, <1>25, <1>26, <1>27, <1>28, <1>29
   DEF Next, CoreStep, PumpStep

\* What the semaphore proof says of a state, as numbers.
Held == Bit(pc[Pump] \in Carrying) + Bit(pc[User] = "wake")
Owing == Fill - Bit(pc[Pump] \in {"load", "increment", "signal"})
Afoot == Bit(pc[Core] \in {"check", "take"})

\* A signal raises the count by one: it never wraps while a scan that stops at
\* the first error goes on.
LEMMA SignalCounts ==
  ASSUME IInv, NEW t \in {Pump, User}, NEW l, Signal(t, l),
         pc[Core] \in {"openPlatform"} \cup Reading, ~continues, Held > 0
  PROVE  uiCount' = uiCount + 1
<1>1. hWait /\ uiCount \in 0 .. CountMod - 1
  BY DEF IInv, Filter, Typed, TypeOK
<1>2. sent <= MaxSections /\ aborts <= MaxAborts
  BY DEF IInv, Typed, Places
<1>3. uiCount + Held <= sent + aborts /\ sent \in Nat /\ aborts \in Nat
  BY <1>1 DEF IInv, Bounded, Held, Bit, Typed, Places
<1>4. uiCount + 1 < CountMod
  BY <1>1, <1>2, <1>3, ConstantFacts DEF Held, Bit
<1>. QED BY <1>1, <1>4, CountWraps DEF Signal

\* The pump signals the section it has queued.
LEMMA PumpSignalKept == ASSUME IInv, PumpSignal PROVE (Bounded /\ Signalled)'
<1>1. /\ pc[Pump] = "signal" /\ pc'[Pump] = "loop" /\ pc'[User] = pc[User]
      /\ pc'[Core] = IF hWait /\ pc[Core] = "blocked" THEN "woken"
                     ELSE pc[Core]
      /\ Signal(Pump, "loop")
      /\ UNCHANGED <<sent, aborts, continues, delivered, got>>
  BY ConstantFacts
     DEF PumpSignal, Signal, Unread, boundVars, failureVars, IInv, Typed,
         Places, Threads
<1>2. /\ Bit(pc[Pump] \in Carrying) = 1 /\ Bit(pc'[Pump] \in Carrying) = 0
      /\ Bit(pc'[Pump] \in {"load", "increment", "signal"}) = 0
      /\ Bit(pc[Pump] \in {"load", "increment", "signal"}) = 1
      /\ Bit(pc'[User] = "wake") = Bit(pc[User] = "wake")
      /\ Bit(pc'[Core] \in {"check", "take"}) = Afoot
      /\ Bit(pc[User] = "wake") \in {0, 1} /\ Fill' = Fill
  BY <1>1 DEF Carrying, Bit, Fill, Afoot
<1>3. /\ sent \in Nat /\ aborts \in Nat /\ uiCount \in Nat
      /\ Fill \in Int /\ Afoot \in {0, 1}
  BY DEF IInv, Typed, TypeOK, Places, Fill, Afoot, Bit
<1>4. CASE pc[Core] \in {"openPlatform"} \cup Reading /\ ~continues
  <2>1. uiCount' = uiCount + 1
    <3>1. Held > 0
      BY <1>2 DEF Held
    <3>. QED BY <1>1, <1>4, <3>1, SignalCounts
  <2>2. Bounded'
    BY <1>1, <1>2, <1>3, <1>4, <2>1 DEF IInv, Bounded
  <2>3. pc[Core] \in Reading => Fill <= uiCount + Afoot + 1
    BY <1>2, <1>4 DEF IInv, Signalled, Afoot
  <2>4. pc'[Core] \in Reading => pc[Core] \in Reading /\ pc'[Core] # "blocked"
    BY <1>1 DEF Reading, IInv, Filter
  <2>. QED BY <1>2, <1>3, <2>1, <2>2, <2>3, <2>4 DEF Signalled
<1>5. CASE ~(pc[Core] \in {"openPlatform"} \cup Reading /\ ~continues)
  <2>1. ~(pc'[Core] \in {"openPlatform"} \cup Reading /\ ~continues')
    BY <1>1, <1>5 DEF Reading
  <2>. QED BY <1>1, <1>2, <1>3, <2>1 DEF IInv, Bounded, Signalled
<1>. QED BY <1>4, <1>5

\* An abort wakes whoever waits.
LEMMA WakeKept == ASSUME IInv, Wake PROVE (Bounded /\ Signalled)'
<1>1. /\ pc[User] = "wake" /\ pc'[User] = "idle" /\ pc'[Pump] = pc[Pump]
      /\ pc'[Core] = IF hWait /\ pc[Core] = "blocked" THEN "woken"
                     ELSE pc[Core]
      /\ Signal(User, "idle")
      /\ UNCHANGED <<sent, aborts, continues, delivered, got>>
  BY ConstantFacts
     DEF Wake, Signal, Elsewhere, historyVars, IInv, Typed, Places, Threads
<1>2. /\ Bit(pc[User] = "wake") = 1 /\ Bit(pc'[User] = "wake") = 0
      /\ Bit(pc'[Core] \in {"check", "take"}) = Afoot
      /\ Bit(pc[Pump] \in Carrying) \in {0, 1} /\ Fill' = Fill
      /\ Bit(pc[Pump] \in {"load", "increment", "signal"}) \in {0, 1}
  BY <1>1 DEF Bit, Fill, Afoot
<1>3. /\ sent \in Nat /\ aborts \in Nat /\ uiCount \in Nat
      /\ Fill \in Int /\ Afoot \in {0, 1}
  BY DEF IInv, Typed, TypeOK, Places, Fill, Afoot, Bit
<1>4. CASE pc[Core] \in {"openPlatform"} \cup Reading /\ ~continues
  <2>1. uiCount' = uiCount + 1
    <3>1. Held > 0
      BY <1>2 DEF Held
    <3>. QED BY <1>1, <1>4, <3>1, SignalCounts
  <2>2. Bounded'
    BY <1>1, <1>2, <1>3, <1>4, <2>1 DEF IInv, Bounded
  <2>3. pc[Core] \in Reading =>
          Fill <= uiCount + Afoot
                    + Bit(pc[Pump] \in {"load", "increment", "signal"})
    BY <1>4 DEF IInv, Signalled, Afoot
  <2>4. pc'[Core] \in Reading => pc[Core] \in Reading /\ pc'[Core] # "blocked"
    BY <1>1 DEF Reading, IInv, Filter
  <2>. QED BY <1>1, <1>2, <1>3, <2>1, <2>2, <2>3, <2>4 DEF Signalled
<1>5. CASE ~(pc[Core] \in {"openPlatform"} \cup Reading /\ ~continues)
  <2>1. ~(pc'[Core] \in {"openPlatform"} \cup Reading /\ ~continues')
    BY <1>1, <1>5 DEF Reading
  <2>. QED BY <1>1, <1>2, <1>3, <2>1 DEF IInv, Bounded, Signalled
<1>. QED BY <1>4, <1>5

\* UtvWaitTimed takes a signal, or returns with one taken.
LEMMA WaitKept == ASSUME IInv, Wait \/ Woken PROVE (Bounded /\ Signalled)'
<1>1. /\ pc[Core] \in {"wait", "woken"}
      /\ pc'[Pump] = pc[Pump] /\ pc'[User] = pc[User]
      /\ UNCHANGED <<sent, aborts, continues, delivered, got>>
      /\ \/ /\ pc[Core] = "wait" /\ pc'[Core] = "blocked"
            /\ uiCount = 0 /\ uiCount' = 0
         \/ /\ pc'[Core] = "check" /\ uiCount' = (uiCount - 1) % CountMod
            /\ pc[Core] = "wait" => uiCount # 0 /\ uiCount' = uiCount - 1
  <2>1. uiCount # 0 => uiCount - 1 = (uiCount - 1) % CountMod
    BY CountWraps DEF IInv, Typed, TypeOK
  <2>2. CASE Wait
    BY <2>1, <2>2, ConstantFacts
       DEF Wait, Goto, Unqueued, boundVars, failureVars, IInv, Typed, Places,
           Threads
  <2>3. CASE Woken
    BY <2>3, ConstantFacts
       DEF Woken, Goto, Unqueued, boundVars, failureVars, IInv, Typed, Places,
           Threads
  <2>. QED BY <2>2, <2>3
<1>2. /\ Bit(pc[Core] \in {"check", "take"}) = 0 /\ Fill' = Fill
      /\ pc[Core] \in Reading /\ pc'[Core] \in Reading
      /\ Bit(pc'[Core] \in {"check", "take"}) =
           IF pc'[Core] = "check" THEN 1 ELSE 0
      /\ pc'[Core] # "woken" /\ Fill \in Int /\ uiCount \in 0 .. CountMod - 1
      /\ Bit(pc[Pump] \in Carrying) \in {0, 1}
      /\ Bit(pc[User] = "wake") \in {0, 1} /\ sent \in Nat /\ aborts \in Nat
      /\ Bit(pc[Pump] \in {"load", "increment", "signal"}) \in {0, 1}
  BY <1>1, ConstantFacts
     DEF Bit, Fill, Reading, IInv, Typed, TypeOK, Places
<1>3. ~continues => \/ uiCount' = uiCount /\ uiCount = 0
                    \/ uiCount' = uiCount - 1 /\ pc'[Core] = "check"
  <2>1. pc[Core] = "woken" /\ ~continues => uiCount > 0
    BY <1>2 DEF IInv, Signalled
  <2>. QED BY <1>1, <1>2, <2>1, CountWraps
<1>4. Bounded'
  BY <1>1, <1>2, <1>3 DEF IInv, Bounded
<1>5. Signalled'
  BY <1>1, <1>2, <1>3 DEF IInv, Signalled
<1>. QED BY <1>4, <1>5

\* The wait of a new session has no signals, and its queue no sections.
LEMMA OpenKept ==
  ASSUME IInv, OpenWait \/ OpenPlatform PROVE (Bounded /\ Signalled)'
<1>1. /\ pc'[User] = pc[User] /\ pc[Core] \in Opening
      /\ UNCHANGED <<sent, aborts, continues, delivered, got>>
      /\ \/ pc'[Pump] = pc[Pump]
         \/ pc[Pump] = "none" /\ pc'[Pump] = "start"
      /\ \/ pc'[Core] = "idle"
         \/ pc'[Core] = "openPlatform" /\ uiCount' = 0
         \/ /\ pc[Core] = "openPlatform" /\ pc'[Core] = "get"
            /\ uiCount' = uiCount /\ pc[Pump] = "none"
  <2>1. /\ pc \in [Threads -> CoreLabels \cup PumpLabels \cup {"wake"}]
        /\ Threads = {Core, Pump, User}
        /\ ~threadExists => pc[Pump] = "none"
    BY DEF IInv, Typed, Places, Filter, Threads
  <2>2. CASE OpenWait
    <3>1. UNCHANGED <<sent, aborts, continues, delivered, got>>
      BY <2>2 DEF OpenWait
    <3>. QED BY <2>1, <2>2, <3>1, ConstantFacts DEF OpenWait, Goto, Opening
  <2>3. CASE OpenPlatform
    <3>1. UNCHANGED <<sent, aborts, continues, delivered, got>>
      BY <2>3 DEF OpenPlatform, boundVars, failureVars
    <3>2. CASE pc'[Core] = "get"
      BY <2>1, <2>3, <3>1, <3>2, ConstantFacts
         DEF OpenPlatform, OpenFails, Goto, Opening
    <3>3. CASE pc'[Core] # "get"
      BY <2>1, <2>3, <3>1, <3>3, ConstantFacts
         DEF OpenPlatform, OpenFails, Goto, Opening
    <3>. QED BY <3>2, <3>3
  <2>. QED BY <2>2, <2>3
<1>2. /\ Bit(pc'[Pump] \in Carrying) = Bit(pc[Pump] \in Carrying)
      /\ Bit(pc[Pump] \in Carrying) \in {0, 1}
      /\ Bit(pc[User] = "wake") \in {0, 1} /\ sent \in Nat /\ aborts \in Nat
      /\ uiCount \in Nat
  BY <1>1 DEF Bit, Carrying, IInv, Typed, TypeOK, Places
<1>3. Bounded'
  BY <1>1, <1>2 DEF IInv, Bounded, Opening, Reading
<1>4. Signalled'
  <2>1. pc'[Core] \in Reading => pc'[Core] = "get" /\ pc[Pump] = "none"
    BY <1>1 DEF Reading
  <2>2. pc'[Core] \in Reading => Fill' = 0
    BY <1>1, <2>1 DEF Fill, IInv, Fresh
  <2>3. Bit(pc'[Core] \in {"check", "take"}) \in {0, 1} /\
        Bit(pc'[Pump] \in {"load", "increment", "signal"}) \in {0, 1}
    BY DEF Bit
  <2>. QED BY <1>1, <1>2, <2>1, <2>2, <2>3 DEF Signalled
<1>. QED BY <1>3, <1>4

\* The pump reads a section that it has not read before.
LEMMA ReadKept == ASSUME IInv, PumpRead PROVE (Bounded /\ Signalled)'
<1>1. /\ pc[Pump] = "read" /\ pc'[Core] = pc[Core] /\ pc'[User] = pc[User]
      /\ UNCHANGED <<aborts, continues, delivered, got, uiCount>>
      /\ \/ pc'[Pump] = "loop" /\ sent' = sent
         \/ /\ pc'[Pump] = "deliver" /\ sent' = sent + 1
            /\ sent < MaxSections
  BY ConstantFacts DEF PumpRead, Goto, Unread, waitVars, IInv, Typed, Places,
                       Threads
<1>2. /\ Bit(pc[Pump] \in Carrying) = 0
      /\ Bit(pc'[Pump] \in Carrying) = sent' - sent
      /\ Bit(pc[Pump] \in {"load", "increment", "signal"}) = 0
      /\ Bit(pc'[Pump] \in {"load", "increment", "signal"}) = 0
      /\ Bit(pc[User] = "wake") \in {0, 1} /\ sent \in Nat /\ aborts \in Nat
      /\ uiCount \in Nat /\ Fill' = Fill
  BY <1>1 DEF Bit, Carrying, IInv, Typed, TypeOK, Places, Fill
<1>3. Bounded'
  BY <1>1, <1>2, ConstantFacts DEF IInv, Bounded, Typed, Places
<1>4. Signalled'
  BY <1>1, <1>2 DEF IInv, Signalled
<1>. QED BY <1>3, <1>4

\* What was signalled is waited for.
LEMMA SignalKept == IInv /\ Typed' /\ [Next]_vars => (Bounded /\ Signalled)'
<1> SUFFICES ASSUME IInv, Typed', [Next]_vars PROVE (Bounded /\ Signalled)'
  OBVIOUS
<1> USE ConstantFacts
    DEF IInv, Typed, Places, TypeOK, Filter, Fresh, Bounded, Signalled,
        Fill, Bit, Carrying, Threads, Opening, Reading, Closing, indexVars,
        waitVars, platformVars, boundVars, failureVars, historyVars
<1>1. CASE Create
  BY <1>1 DEF Create, ResetQueue
<1>2. CASE Destroy
  BY <1>2 DEF Destroy
<1>3. CASE OpenReset
  BY <1>3 DEF OpenReset, ResetQueue, Goto
<1>4. CASE Timeout
  BY <1>4, CountWraps DEF Timeout, AfterError, Goto, Unqueued
<1>5. CASE OpenWait
  BY <1>5, OpenKept
<1>6. CASE OpenPlatform
  BY <1>6, OpenKept
<1>7. CASE Get
  BY <1>7 DEF Get, Goto, Unqueued
<1>8. CASE Wait
  BY <1>8, WaitKept
<1>9. CASE Woken
  BY <1>9, WaitKept
<1>10. CASE Check
  BY <1>10 DEF Check, AfterError, Goto, Unqueued
<1>11. CASE Take
  BY <1>11 DEF Take, Goto, Unqueued
<1>12. CASE Decrement
  BY <1>12 DEF Decrement, StoreCount, Goto, Unqueued
<1>13. CASE Parse
  BY <1>13 DEF Parse, Goto, Unqueued
<1>14. CASE Close
  BY <1>14 DEF Close, Goto, Uncounted
<1>15. CASE CloseJoin
  BY <1>15 DEF CloseJoin, Goto, Uncounted
<1>16. CASE CloseWait
  BY <1>16 DEF CloseWait, Goto, Uncounted
<1>17. CASE PumpStart
  BY <1>17 DEF PumpStart, Goto, Unread
<1>18. CASE PumpLoop
  BY <1>18 DEF PumpLoop, Goto, Unread
<1>19. CASE PumpRead
  BY <1>19, ReadKept
<1>20. CASE Deliver
  BY <1>20 DEF Deliver, Goto, Unread, Full
<1>21. CASE Copy
  BY <1>21 DEF Copy, Goto, Unread
<1>22. CASE Load
  BY <1>22 DEF Load, Goto, Unread
<1>23. CASE Increment
  BY <1>23 DEF Increment, StoreCount, Goto, Unread
<1>24. CASE PumpSignal
  BY <1>24, PumpSignalKept
<1>25. CASE PumpExit
  BY <1>25 DEF PumpExit, Goto, Unread
<1>26. CASE Abort
  BY <1>26 DEF Abort, Goto, Elsewhere
<1>27. CASE Wake
  BY <1>27, WakeKept
<1>28. CASE ClearState
  BY <1>28 DEF ClearState, Elsewhere
<1>29. CASE UNCHANGED vars
  BY <1>29 DEF vars
<1>. QED BY <1>1, <1>2, <1>3, <1>4, <1>5, <1>6, <1>7, <1>8, <1>9, <1>10, <1>11,
            <1>12, <1>13, <1>14, <1>15, <1>16, <1>17, <1>18, <1>19, <1>20,
            <1>21, <1>22, <1>23, <1>24, <1>25, <1>26, <1>27, <1>28, <1>29
   DEF Next, CoreStep, PumpStep

\* Every step keeps it.
LEMMA NextIInv == IInv /\ [Next]_vars => IInv'
<1> SUFFICES ASSUME IInv, [Next]_vars PROVE IInv'
  OBVIOUS
<1>1. Typed'
  BY TypesKept DEF IInv
<1>. QED BY <1>1, LifeKept, OrderKept, SignalKept DEF IInv

\* So it always holds.
LEMMA Invariance == Spec => []IInv
BY InitIInv, NextIInv, PTL DEF Spec
-----------------------------------------------------------------------------
\* The variables hold what their types say: the count stays within the depth
\* of the queue though updates of it are lost.
THEOREM SectionTypeCorrect == Spec => []TypeOK
<1>1. IInv => TypeOK
  BY DEF IInv, Typed
<1>. QED BY <1>1, Invariance, PTL

\* UtvGetSectionData hands out the sections in the order PumpThread delivered
\* them, as long as no update of the count is lost.
THEOREM SectionsInOrder == Spec => []InOrder
<1>1. IInv => InOrder
  <2> SUFFICES ASSUME IInv, ~raced PROVE IsPrefix(got, delivered)
    BY DEF InOrder
  <2>1. /\ Len(got) <= Len(delivered)
        /\ \A i \in 1 .. Len(got) : got[i] = delivered[i]
    BY DEF IInv, Ordered
  <2>2. /\ got \in Seq(Sections \cup {NoSection})
        /\ delivered \in Seq(Sections \cup {NoSection})
    BY DEF IInv, Typed, Places
  <2>3. SubSeq(got, 1, Len(got)) = SubSeq(delivered, 1, Len(got))
    BY <2>1, <2>2
  <2>. QED BY <2>1, <2>3 DEF IsPrefix
<1>. QED BY <1>1, Invariance, PTL

\* PumpThread signals no wait but the filter's and reads into no buffer that
\* was freed, whichever opens have failed, until a DMX_STOP fails.
THEOREM PumpStaysWithin == Spec => []PumpWithinOpen
<1>1. IInv => PumpWithinOpen
  <2> SUFFICES ASSUME IInv, ~stopFailed,
                      pc[Pump] \in {"read", "deliver", "copy"}
               PROVE  pbSectionBuffer
    BY DEF PumpWithinOpen, IInv, Life
  <2>. QED BY DEF IInv, Life, Filter, Reading
<1>. QED BY <1>1, Invariance, PTL

\* A scan that ends with the first error does not sleep over a section that
\* was delivered and signalled, as long as no update of the count is lost.
THEOREM NoneSleptOver == Spec => []NoSleepOverSection
<1>1. IInv => NoSleepOverSection
  <2> SUFFICES ASSUME IInv, ~continues, ~raced, pc[Core] = "blocked",
                      pc[Pump] \notin {"load", "increment", "signal"}
               PROVE  Len(got) = Len(delivered)
    BY DEF NoSleepOverSection
  <2>1. Fill <= 0
    BY DEF IInv, Signalled, Reading, Bit
  <2>2. Fill >= 0
    BY DEF IInv, Ring, Reading
  <2>3. Len(got) \in Nat /\ Len(delivered) \in Nat
    BY DEF IInv, Typed, Places
  <2>. QED BY <2>1, <2>2, <2>3 DEF Fill
<1>. QED BY <1>1, Invariance, PTL
-----------------------------------------------------------------------------
(* The filter implements SectionSource.                                    *)

\* A scan reads from a filter that is running, and the pump offers sections.
Handed ==
  /\ pc[Core] \in Opening \cup Reading => eStatus = "RUNNING"
  /\ pc[Pump] \in {"deliver", "copy"} => section[Pump] \in Sections

\* Every step keeps that.
LEMMA HandedKept == Typed /\ Handed /\ [Next]_vars => Handed'
<1> SUFFICES ASSUME Typed, Handed, [Next]_vars PROVE Handed'
  OBVIOUS
<1> USE ConstantFacts
    DEF Typed, Places, Handed, CoreLabels, PumpLabels, Carrying, Threads,
        Opening, Reading, Closing, Goto, Unqueued, Uncounted, Unread, Elsewhere
<1>1. CASE Create \/ Destroy \/ OpenReset \/ OpenWait \/ OpenPlatform
  BY <1>1 DEF Create, Destroy, OpenReset, OpenWait, OpenPlatform, OpenFails
<1>2. CASE Get \/ Wait \/ Woken \/ Timeout \/ Check
  BY <1>2 DEF Get, Wait, Woken, Timeout, Check, AfterError
<1>3. CASE Take \/ Decrement \/ Parse
  BY <1>3 DEF Take, Decrement, Parse
<1>4. CASE Close \/ CloseJoin \/ CloseWait
  BY <1>4 DEF Close, CloseJoin, CloseWait
<1>5. CASE PumpRead
  BY <1>5 DEF PumpRead, Sections
<1>6. CASE PumpStart \/ PumpLoop \/ Deliver \/ Copy
  BY <1>6 DEF PumpStart, PumpLoop, Deliver, Copy
<1>7. CASE Load \/ Increment \/ PumpSignal \/ PumpExit
  BY <1>7 DEF Load, Increment, PumpSignal, Signal, PumpExit
<1>8. CASE Abort \/ Wake \/ ClearState
  BY <1>8 DEF Abort, Wake, Signal, ClearState
<1>9. CASE UNCHANGED vars
  BY <1>9 DEF vars
<1>. QED BY <1>1, <1>2, <1>3, <1>4, <1>5, <1>6, <1>7, <1>8, <1>9
         DEF Next, CoreStep, PumpStep

\* What waits is what is in the ring; the ring tells how many slots are taken.
LEMMA WaitingIs ==
  IInv /\ Reads =>
    /\ Waiting \in Seq(Sections \cup {NoSection}) /\ Len(Waiting) = Fill
    /\ Fill \in Nat
    /\ \A i \in 1 .. Fill : Waiting[i] = delivered[Len(got) + i]
    /\ Source!SlotsTaken = Fill + Bit(pc[Core] = "decrement")
<1> SUFFICES ASSUME IInv, Reads
             PROVE  /\ Waiting \in Seq(Sections \cup {NoSection})
                    /\ Len(Waiting) = Fill /\ Fill \in Nat
                    /\ \A i \in 1 .. Fill : Waiting[i] = delivered[Len(got) + i]
                    /\ Source!SlotsTaken = Fill + Bit(pc[Core] = "decrement")
  OBVIOUS
<1>1. /\ delivered \in Seq(Sections \cup {NoSection}) /\ Len(got) \in Nat
      /\ Len(delivered) \in Nat /\ Fill \in Nat
  BY ConstantFacts DEF IInv, Typed, Places, Ring, Reads
<1>2. Waiting = SubSeq(delivered, Len(got) + 1, Len(delivered))
  BY DEF Waiting
<1>3. /\ Waiting \in Seq(Sections \cup {NoSection}) /\ Len(Waiting) = Fill
      /\ \A i \in 1 .. Fill : Waiting[i] = delivered[Len(got) + i]
  BY <1>1, <1>2 DEF Fill
<1>. QED BY <1>1, <1>3 DEF Source!SlotsTaken, Occupied, Reads, Bit

\* What a scan sees is told by these.
LEMMA ReadsSame ==
  ASSUME Reads, Reads', UNCHANGED <<delivered, got, section>>,
         pc[Core] \in {"decrement", "parse"} \/
           pc'[Core] \in {"decrement", "parse"} => pc'[Core] = pc[Core],
         pc'[Pump] \in {"deliver", "copy"} <=> pc[Pump] \in {"deliver", "copy"}
  PROVE  UNCHANGED Source!vars
<1>1. Offered' = Offered
  BY DEF Offered
<1>2. Waiting' = Waiting
  BY DEF Waiting
<1>3. InHand' = InHand /\ Occupied' = Occupied
  BY DEF InHand, Occupied
<1>4. (~raced)' = ~raced /\ Reads' = Reads
  BY DEF Reads
<1>. QED BY <1>1, <1>2, <1>3, <1>4 DEF Source!vars

\* UtvGetSectionData hands out what has waited longest.
LEMMA ReadsTake ==
  ASSUME IInv, IInv', Take, Reads, Reads'
  PROVE  Source!Take
<1>1. /\ pc[Core] = "take" /\ pc'[Core] = "decrement"
      /\ pc'[Pump] = pc[Pump] /\ delivered' = delivered
      /\ got' = Append(got, section'[Core])
      /\ section'[Pump] = section[Pump]
  BY ConstantFacts DEF Take, Goto, Unqueued, IInv, Typed, Places, Threads
<1>2. got \in Seq(Sections \cup {NoSection}) /\ ~raced /\ ~raced'
  BY DEF IInv, Typed, Places, Reads
<1>3. Len(got') = Len(got) + 1 /\ got'[Len(got) + 1] = section'[Core]
  BY <1>1, <1>2
<1>4. section'[Core] = delivered[Len(got) + 1] /\ Len(got) + 1 <= Len(delivered)
  BY <1>1, <1>2, <1>3 DEF IInv, Ordered
<1>5. Fill > 0
  BY <1>2, <1>4 DEF Fill, IInv, Typed, Places
<1>6. Waiting # <<>> /\ Head(Waiting) = section'[Core]
  BY <1>4, <1>5, WaitingIs
<1>7. Waiting' = Tail(Waiting)
  <2>1. Waiting' = SubSeq(delivered, Len(got) + 2, Len(delivered))
    BY <1>1, <1>2, <1>3 DEF Waiting
  <2>2. Waiting = SubSeq(delivered, Len(got) + 1, Len(delivered))
    BY DEF Waiting
  <2>3. delivered \in Seq(Sections \cup {NoSection}) /\ Len(got) \in Nat
    BY DEF IInv, Typed, Places
  <2>. QED BY <1>4, <2>1, <2>2, <2>3
<1>8. InHand' = section'[Core] /\ ~Occupied /\ Occupied'
  BY <1>1 DEF InHand, Occupied
<1>9. Offered' = Offered
  BY <1>1 DEF Offered
<1>. QED BY <1>2, <1>6, <1>7, <1>8, <1>9 DEF Source!Take

\* UtvDeliverSectionFilterDataWork drops a section only when no slot is free.
LEMMA ReadsDeliver ==
  ASSUME IInv, Handed, Deliver, Reads, Reads'
  PROVE  Source!Refuse \/ UNCHANGED Source!vars
<1>1. /\ pc[Pump] = "deliver" /\ pc'[Pump] = IF Full THEN "loop" ELSE "copy"
      /\ pc'[Core] = pc[Core] /\ UNCHANGED <<delivered, got, section, raced>>
      /\ section[Pump] \in Sections
  BY ConstantFacts
     DEF Deliver, Goto, Unread, IInv, Typed, Places, Threads, Handed, Reads
<1>2. CASE Full
  <2>1. uiSectionQueueCount = Fill + Bit(pc[Core] = "decrement")
    BY <1>1, ConstantFacts DEF IInv, Ring, Reads, Bit, Typed, TypeOK, Depth
  <2>2. Source!SlotsTaken >= Depth
    BY <1>2, <2>1, WaitingIs DEF Full, Depth
  <2>3. Offered = section[Pump] /\ Offered' = NoSection
    BY <1>1, <1>2 DEF Offered
  <2>4. UNCHANGED <<Waiting, InHand, Occupied>>
    BY <1>1 DEF Waiting, InHand, Occupied
  <2>. QED BY <1>1, <2>2, <2>3, <2>4
           DEF Source!Refuse, Depth, Sections, NoSection
<1>3. CASE ~Full
  BY <1>1, <1>3, ReadsSame
<1>. QED BY <1>2, <1>3

\* What is copied into the ring is queued, into a slot that is free.
LEMMA ReadsCopy ==
  ASSUME IInv, Handed, Copy, Reads, Reads'
  PROVE  Source!Put
<1>1. /\ pc[Pump] = "copy" /\ pc'[Pump] = "load"
      /\ pc'[Core] = pc[Core] /\ UNCHANGED <<got, section, raced>>
      /\ delivered' = Append(delivered, section[Pump])
      /\ section[Pump] \in Sections
  BY ConstantFacts
     DEF Copy, Goto, Unread, IInv, Typed, Places, Threads, Handed
<1>2. Source!SlotsTaken < Depth
  <2>1. uiSectionQueueCount = Fill + Bit(pc[Core] = "decrement")
    BY <1>1, ConstantFacts DEF IInv, Ring, Reads, Bit, Typed, TypeOK, Depth
  <2>. QED BY <1>1, <2>1, WaitingIs DEF IInv, Typed, Counts
<1>3. Offered = section[Pump] /\ Offered' = NoSection
  BY <1>1 DEF Offered
<1>4. Waiting' = Append(Waiting, section[Pump])
  <2>1. Waiting = SubSeq(delivered, Len(got) + 1, Len(delivered))
    BY DEF Waiting
  <2>2. Waiting' = SubSeq(delivered', Len(got) + 1, Len(delivered'))
    BY <1>1 DEF Waiting
  <2>3. /\ delivered \in Seq(Sections \cup {NoSection}) /\ Len(got) \in Nat
        /\ Len(got) <= Len(delivered)
        /\ section[Pump] \in Sections \cup {NoSection}
    BY <1>1 DEF IInv, Typed, Places, Ordered, Reads
  <2>4. /\ Len(delivered') = Len(delivered) + 1
        /\ delivered'[Len(delivered) + 1] = section[Pump]
        /\ \A i \in 1 .. Len(delivered) : delivered'[i] = delivered[i]
        /\ delivered' \in Seq(Sections \cup {NoSection})
    BY <1>1, <2>3
  <2>5. /\ Len(Waiting') = Fill + 1 /\ Fill \in Nat
        /\ Waiting' \in Seq(Sections \cup {NoSection})
        /\ \A i \in 1 .. Fill + 1 : Waiting'[i] = delivered'[Len(got) + i]
    BY <2>2, <2>3, <2>4 DEF Fill
  <2>6. /\ Waiting \in Seq(Sections \cup {NoSection}) /\ Len(Waiting) = Fill
        /\ \A i \in 1 .. Fill : Waiting[i] = delivered[Len(got) + i]
    BY <2>1, <2>3 DEF Fill
  <2>7. ASSUME NEW i \in 1 .. Fill + 1
        PROVE  Waiting'[i] = Append(Waiting, section[Pump])[i]
    <3>1. CASE i = Fill + 1
      <4>1. Len(got) + i = Len(delivered) + 1
        BY <2>3, <3>1 DEF Fill
      <4>. QED BY <2>3, <2>4, <2>5, <2>6, <3>1, <4>1
    <3>2. CASE i \in 1 .. Fill
      <4>1. Len(got) + i \in 1 .. Len(delivered)
        BY <2>3, <3>2 DEF Fill
      <4>. QED BY <2>3, <2>4, <2>5, <2>6, <3>2, <4>1
    <3>3. i = Fill + 1 \/ i \in 1 .. Fill
      BY <2>5
    <3>. QED BY <3>1, <3>2, <3>3
  <2>8. /\ Append(Waiting, section[Pump]) \in Seq(Sections \cup {NoSection})
        /\ Len(Append(Waiting, section[Pump])) = Fill + 1
    BY <2>3, <2>6
  <2>. QED BY <2>5, <2>7, <2>8
<1>5. UNCHANGED <<InHand, Occupied>>
  BY <1>1 DEF InHand, Occupied
<1>. QED BY <1>1, <1>2, <1>3, <1>4, <1>5
         DEF Source!Put, Depth, Sections, NoSection

\* A scan begins with an empty queue; what waits when it ends is thrown away,
\* as it is when an update of the count is lost.
LEMMA ReadsChange ==
  ASSUME IInv, IInv', Next, ~(Reads /\ Reads')
  PROVE  [Source!Next]_Source!vars
<1> USE DEF Goto, Unqueued, Uncounted, Unread, Elsewhere, indexVars, waitVars,
            platformVars, boundVars, failureVars, historyVars
<1>1. /\ pc \in [Threads -> CoreLabels \cup PumpLabels \cup {"wake"}]
      /\ Core \in Threads /\ Pump \in Threads /\ User \in Threads
      /\ Core # Pump /\ Core # User /\ Pump # User
  BY ConstantFacts DEF IInv, Typed, Places, Threads
<1>2. raced => raced'
  BY DEF Next, CoreStep, PumpStep, Create, Destroy, OpenReset, OpenWait,
         OpenPlatform, Get, Wait, Woken, Timeout, Check, Take, Decrement,
         Parse, Close, CloseJoin, CloseWait, PumpStart, PumpLoop, PumpRead,
         Deliver, Copy, Load, Increment, PumpSignal, PumpExit, Abort, Wake,
         ClearState, StoreCount
<1>3. ~Reads' => Source!Nothing'
  BY DEF Source!Nothing, Offered, Waiting, InHand, Occupied
<1>4. ~Reads => Source!Nothing
  BY DEF Source!Nothing, Offered, Waiting, InHand, Occupied
<1>5. CASE raced' /\ ~raced
  BY <1>3, <1>5 DEF Source!Next, Source!Spoil, Reads
<1>6. CASE ~Reads /\ ~Reads' /\ (raced' <=> raced)
  <2>1. (~raced)' = ~raced
    BY <1>6
  <2>2. Reads' = Reads /\ Occupied' = Occupied
    BY <1>6 DEF Reads, Occupied
  <2>. QED BY <1>3, <1>4, <1>6, <2>1, <2>2 DEF Source!Nothing, Source!vars
<1>7. CASE ~Reads /\ Reads'
  <2>1. pc[Core] \notin Reading /\ pc'[Core] \in Reading /\ ~raced /\ ~raced'
    BY <1>2, <1>7 DEF Reads
  <2>2. OpenPlatform
    BY <1>1, <2>1 DEF Next, CoreStep, PumpStep, Create, Destroy, OpenReset,
         OpenWait, Get, Wait, Woken, Timeout, Check, Take, Decrement,
         Parse, Close, CloseJoin, CloseWait, PumpStart, PumpLoop, PumpRead,
         Deliver, Copy, Load, Increment, PumpSignal, PumpExit, Abort, Wake,
         ClearState, Signal, Reading
  <2>3. /\ pc[Core] = "openPlatform" /\ ~threadExists
        /\ pc'[Core] = "get" /\ pc'[Pump] = "start"
        /\ UNCHANGED <<delivered, got>>
    BY <1>1, <2>1, <2>2 DEF OpenPlatform, OpenFails, Reading
  <2>4. delivered = <<>> /\ got = <<>>
    BY <2>3 DEF IInv, Filter, Fresh, Opening
  <2>5. Source!Nothing'
    BY <2>3, <2>4 DEF Source!Nothing, Offered, Waiting, InHand, Occupied
  <2>. QED BY <1>7, <2>1, <2>5 DEF Source!Next, Source!Open
<1>8. CASE Reads /\ ~Reads' /\ ~raced'
  <2>1. pc[Core] \in Reading /\ pc'[Core] \notin Reading
    BY <1>8 DEF Reads
  <2>2. pc[Core] # "decrement"
    BY <1>1, <2>1 DEF Next, CoreStep, PumpStep, Create, Destroy, OpenReset,
         OpenWait, OpenPlatform, Get, Wait, Woken, Timeout, Check, Take,
         Decrement, Parse, Close, CloseJoin, CloseWait, PumpStart, PumpLoop,
         PumpRead, Deliver, Copy, Load, Increment, PumpSignal, PumpExit, Abort,
         Wake, ClearState, Signal, Reading
  <2>. QED BY <1>2, <1>3, <1>8, <2>2
     DEF Source!Next, Source!Close, Occupied, Reads
<1>. QED BY <1>2, <1>5, <1>6, <1>7, <1>8 DEF Reads

\* A scan that does not begin or end, with a count that stays right.
LEMMA ReadsOn ==
  ASSUME IInv, Handed, IInv', Next, Reads, Reads'
  PROVE  [Source!Next]_Source!vars
<1> USE DEF Goto, Unqueued, Unread, Elsewhere, indexVars, waitVars,
            platformVars, boundVars, failureVars, historyVars
<1>1. /\ pc \in [Threads -> CoreLabels \cup PumpLabels \cup {"wake"}]
      /\ Core \in Threads /\ Pump \in Threads /\ User \in Threads
      /\ Core # Pump /\ Core # User /\ Pump # User
      /\ section \in [{Core, Pump} -> Sections \cup {NoSection}]
  BY ConstantFacts DEF IInv, Typed, Places, Threads
<1>2. pc[Core] \in Reading /\ pc'[Core] \in Reading /\ ~raced /\ ~raced'
  BY DEF Reads
<1>3. ASSUME UNCHANGED <<delivered, got, section>>,
             pc[Core] \in {"decrement", "parse"} \/
               pc'[Core] \in {"decrement", "parse"} => pc'[Core] = pc[Core],
             pc[Pump] \in {"deliver", "copy"} \/
               pc'[Pump] \in {"deliver", "copy"} => pc'[Pump] = pc[Pump]
      PROVE  UNCHANGED Source!vars
  BY <1>2, <1>3, ReadsSame
<1>4. CASE Get \/ Wait \/ Woken \/ Timeout \/ Check
  BY <1>1, <1>2, <1>3, <1>4 DEF Get, Wait, Woken, Timeout, Check, AfterError
<1>5. CASE PumpStart \/ PumpLoop \/ Load \/ Increment \/ PumpExit
  BY <1>1, <1>2, <1>3, <1>5 DEF PumpStart, PumpLoop, Load, Increment, PumpExit
<1>6. CASE PumpSignal \/ Abort \/ Wake
  BY <1>1, <1>2, <1>3, <1>6 DEF PumpSignal, Abort, Wake, Signal
<1>7. CASE Take
  BY <1>7, ReadsTake DEF Source!Next
<1>8. CASE Decrement
  <2>1. /\ pc[Core] = "decrement" /\ pc'[Core] = "parse"
        /\ pc'[Pump] = pc[Pump] /\ UNCHANGED <<delivered, got, section>>
    BY <1>1, <1>8 DEF Decrement
  <2>2. Source!Free
    BY <1>2, <2>1 DEF Source!Free, Reads, Offered, Waiting, InHand, Occupied
  <2>. QED BY <2>2 DEF Source!Next
<1>9. CASE Parse
  <2>1. /\ pc[Core] = "parse" /\ pc'[Core] = "get"
        /\ pc'[Pump] = pc[Pump] /\ UNCHANGED <<delivered, got>>
        /\ section'[Pump] = section[Pump]
    BY <1>1, <1>2, <1>9 DEF Parse, Reading
  <2>2. Source!Done
    BY <1>2, <2>1 DEF Source!Done, Reads, Offered, Waiting, InHand, Occupied
  <2>. QED BY <2>2 DEF Source!Next
<1>10. CASE PumpRead
  <2>1. CASE UNCHANGED <<section, sent>>
    BY <1>1, <1>2, <1>3, <1>10, <2>1, ConstantFacts
       DEF PumpRead, IInv, Typed, Places
  <2>2. CASE ~UNCHANGED <<section, sent>>
    <3>1. /\ pc[Pump] = "read" /\ pc'[Pump] = "deliver"
          /\ pc'[Core] = pc[Core] /\ UNCHANGED <<delivered, got>>
          /\ section'[Pump] = sent' /\ section'[Core] = section[Core]
          /\ sent' \in Sections
      BY <1>1, <1>10, <2>2, ConstantFacts
         DEF PumpRead, IInv, Typed, Places, Sections
    <3>2. Source!Receive(sent')
      BY <1>2, <3>1
         DEF Source!Receive, Reads, Offered, Waiting, InHand, Occupied
    <3>. QED BY <3>1, <3>2 DEF Source!Next
  <2>. QED BY <2>1, <2>2
<1>11. CASE Deliver
  BY <1>11, ReadsDeliver DEF Source!Next
<1>12. CASE Copy
  BY <1>12, ReadsCopy DEF Source!Next
<1>13. ~ (Create \/ Destroy \/ OpenReset \/ OpenWait \/ OpenPlatform \/ Close
            \/ CloseJoin \/ CloseWait \/ ClearState)
  BY <1>2 DEF Create, Destroy, OpenReset, OpenWait, OpenPlatform, Close,
              CloseJoin, CloseWait, ClearState, Reading
<1>. QED BY <1>4, <1>5, <1>6, <1>7, <1>8, <1>9, <1>10, <1>11, <1>12, <1>13
         DEF Next, CoreStep, PumpStep

\* The filter starts without a scan, and keeps what SectionSource promises:
\* UtvGetSectionData returns, first in and first out, every section that
\* PumpThread received but those that came while all slots were taken.
THEOREM ReadsFromSource == Spec => SourceKept
<1>1. Init => Source!Init /\ Handed
  <2> SUFFICES ASSUME Init PROVE Source!Init /\ Handed
    OBVIOUS
  <2>1. pc[Core] = "idle" /\ pc[Pump] = "none" /\ ~raced
    BY ConstantFacts DEF Init, Threads
  <2>. QED BY <2>1 DEF Handed, Opening, Reading, Source!Init, Source!Nothing,
                       Reads, Offered, Waiting, InHand, Occupied
<1>2. Spec => []Handed
  <2>1. IInv => Typed
    BY DEF IInv
  <2>. QED BY <1>1, <2>1, HandedKept, Invariance, PTL DEF Spec
<1>3. IInv /\ Handed /\ IInv' /\ [Next]_vars => [Source!Next]_Source!vars
  <2> SUFFICES ASSUME IInv, Handed, IInv', [Next]_vars
               PROVE  [Source!Next]_Source!vars
    OBVIOUS
  <2>1. CASE UNCHANGED vars
    BY <2>1 DEF vars, historyVars, Source!vars, Reads, Offered, Waiting,
                InHand, Occupied
  <2>2. CASE Next /\ Reads /\ Reads'
    BY <2>2, ReadsOn
  <2>3. CASE Next /\ ~(Reads /\ Reads')
    BY <2>3, ReadsChange
  <2>. QED BY <2>1, <2>2, <2>3
<1>. QED BY <1>1, <1>2, <1>3, Invariance, PTL DEF Spec, SourceKept, Source!Spec
=============================================================================
