--------------------------- MODULE SectionSource ---------------------------
(***************************************************************************)
(* What a section filter promises the scan that reads from it: a queue of  *)
(* so many slots, first in and first out, that refuses a section only when *)
(* no slot is free.  A slot stays taken for a while after its section was  *)
(* handed out.  There is no thread, index, count or signal here, which     *)
(* SectionQueue uses to keep the promise.  It is kept for as long as the   *)
(* filter is trusted: an update of its count that is lost ends that.       *)
(***************************************************************************)
EXTENDS Naturals, Sequences

CONSTANTS Depth,      \* the slots of the queue
          Sections,   \* what may be received
          NoSection

VARIABLES trusted,    \* the promise holds
          opened,     \* a scan reads from the filter
          offered,    \* the section received last, not queued yet
          queue,      \* the sections that wait
          taken,      \* the section the scan has in hand
          occupied    \* its slot is not free yet

vars == <<trusted, opened, offered, queue, taken, occupied>>

Nothing ==
  /\ offered = NoSection /\ queue = <<>>
  /\ taken = NoSection /\ ~occupied
SlotsTaken == Len(queue) + (IF occupied THEN 1 ELSE 0)

Init == trusted = TRUE /\ opened = FALSE /\ Nothing

Open ==
  /\ trusted /\ ~opened
  /\ opened'
  /\ Nothing'
  /\ UNCHANGED trusted

Receive(s) ==
  /\ opened /\ offered = NoSection
  /\ offered' = s
  /\ UNCHANGED <<trusted, opened, queue, taken, occupied>>

Put ==
  /\ offered # NoSection
  /\ SlotsTaken < Depth
  /\ queue' = Append(queue, offered)
  /\ offered' = NoSection
  /\ UNCHANGED <<trusted, opened, taken, occupied>>

\* A section is refused only when every slot is taken.
Refuse ==
  /\ offered # NoSection
  /\ SlotsTaken >= Depth
  /\ offered' = NoSection
  /\ UNCHANGED <<trusted, opened, queue, taken, occupied>>

Take ==
  /\ queue # <<>> /\ ~occupied
  /\ taken' = Head(queue)
  /\ queue' = Tail(queue)
  /\ occupied'
  /\ UNCHANGED <<trusted, opened, offered>>

Free ==
  /\ occupied
  /\ ~occupied'
  /\ UNCHANGED <<trusted, opened, offered, queue, taken>>

\* The scan has parsed its section.
Done ==
  /\ opened /\ ~occupied
  /\ taken' = NoSection
  /\ UNCHANGED <<trusted, opened, offered, queue, occupied>>

\* What waits when the scan ends is thrown away.
Close ==
  /\ opened /\ ~occupied
  /\ ~opened'
  /\ Nothing'
  /\ UNCHANGED trusted

Spoil ==
  /\ trusted
  /\ ~trusted' /\ ~opened'
  /\ Nothing'

Next == \/ Open \/ Put \/ Refuse \/ Take \/ Free \/ Done \/ Close \/ Spoil
        \/ \E s \in Sections : Receive(s)

Spec == Init /\ [][Next]_vars
=============================================================================
