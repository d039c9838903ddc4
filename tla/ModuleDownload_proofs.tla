------------------------ MODULE ModuleDownload_proofs ------------------------
(***************************************************************************)
(* Safety of ModuleDownload, for every update, every set of versions and   *)
(* every bound: that nothing a session has passed is missing, and that the *)
(* worker keeps the promise of UpdateDelivery.                             *)
(***************************************************************************)
EXTENDS ModuleDownload, FiniteSetTheorems, WellFoundedInduction, TLAPS

\* The locals outside a session, and the module a fetch is for.
Position ==
  /\ pc = "idle" => c = 0 /\ m = 0 /\ ver = 0 /\ ~remaining
  /\ pc # "idle" => ver \in Versions
  /\ pc = "fetch" => c \in Compatible /\ m < Mods[c] /\ remaining

\* With no file open nothing is buffered; a file left open by a session that
\* ended well comes with a tracker that lets nothing be skipped.
LeftOpen ==
  /\ cur = None => tail.data = 0
  /\ ~remaining /\ cur # None => tracker.count = 0

\* In the midst of a component its file is open, or will be opened to append,
\* because there is a record of it.
Accounted ==
  m > 0 => cur = c \/ (cur = None /\ RecordsOf(c) # {})

\* The records of a tracker are of the version v.
RecordsFrom(t, v) == \A i \in 1 .. MaxRecords : t.rec[i].crc \in {0, v}

\* A tracker that names a version has no record of another, nor has that of
\* the session under way.
Coherence ==
  /\ tracker.mv # 0 => RecordsFrom(tracker, tracker.mv)
  /\ stored.mv # 0 => RecordsFrom(stored, stored.mv)
  /\ pc # "idle" => tracker.mv \in {0, ver} /\ RecordsFrom(tracker, ver)

IInv == /\ TypeOK /\ Position /\ LeftOpen
        /\ Accounted /\ Coherence /\ PrefixIntact
-----------------------------------------------------------------------------
(* The places, the records and the files.                                  *)

\* A place is a component with one of its modules.
LEMMA SlotsMember ==
  /\ \A x \in Comps : \A y \in Nat : y < Mods[x] => <<x, y>> \in Slots
  /\ \A s \in Slots : /\ s = <<s[1], s[2]>> /\ s[1] \in Comps
                      /\ s[2] \in Nat /\ s[2] < Mods[s[1]]
<1> USE DownloadAssumption
<1>1. ASSUME NEW x \in Comps, NEW y \in Nat, y < Mods[x]
      PROVE  <<x, y>> \in Slots
  <2>1. Mods[x] \in Nat
    OBVIOUS
  <2>2. <<x, y>> \in {x} \X (0 .. Mods[x] - 1)
    BY <1>1, <2>1
  <2> QED
    BY <2>2 DEF Slots
<1>2. ASSUME NEW s \in Slots
      PROVE  /\ s = <<s[1], s[2]>> /\ s[1] \in Comps
             /\ s[2] \in Nat /\ s[2] < Mods[s[1]]
  <2>1. PICK x \in Comps : s \in {x} \X (0 .. Mods[x] - 1)
    BY DEF Slots
  <2>2. Mods[x] \in Nat
    OBVIOUS
  <2>3. s = <<s[1], s[2]>> /\ s[1] = x /\ s[2] \in 0 .. Mods[x] - 1
    BY <2>1
  <2> QED
    BY <2>2, <2>3
<1> QED
  BY <1>1, <1>2

\* The first place, which NoTail names, is one.
LEMMA FirstSlot == <<0, 0>> \in Slots
<1>1. 0 \in Comps
  BY DownloadAssumption DEF Comps
<1>2. Mods[0] \in Nat /\ 0 < Mods[0]
  BY <1>1, DownloadAssumption
<1> QED
  BY <1>1, <1>2, SlotsMember

\* A set of naturals that is not empty has a least element.
LEMMA MinMember == ASSUME NEW S \in SUBSET Nat, S # {} PROVE Min(S) \in S
<1>1. PICK x \in S : \A y \in S : ~ (<<y, x>> \in OpToRel(<, Nat))
  BY NatLessThanWellFounded, WFMin
<1>2. \A y \in S : x =< y
  <2> TAKE y \in S
  <2>1. ~ (y < x)
    BY <1>1 DEF OpToRel
  <2> QED
    BY <2>1
<1> QED
  BY <1>2 DEF Min

\* Where a record is found, or made.
LEMMA RecordIndexMember ==
  ASSUME TypeOK, NEW x, NEW y
  PROVE  /\ HasRecord(x, y) => RecordIndex(x, y) \in Matching(x, y)
         /\ RecordIndex(x, y) \in 1 .. MaxRecords + 1
<1>1. tracker.count \in 0 .. MaxRecords /\ MaxRecords \in Nat
  BY DownloadAssumption DEF TypeOK, Tracker
<1>2. Matching(x, y) \in SUBSET (1 .. tracker.count)
  BY DEF Matching, RecordsOf
<1>3. ASSUME HasRecord(x, y) PROVE RecordIndex(x, y) \in Matching(x, y)
  <2>1. Matching(x, y) \in SUBSET Nat
    BY <1>1, <1>2
  <2> QED
    BY <2>1, <1>3, MinMember DEF HasRecord, RecordIndex
<1>4. RecordIndex(x, y) \in 1 .. MaxRecords + 1
  <2>1. CASE HasRecord(x, y)
    BY <1>1, <1>2, <1>3, <2>1
  <2>2. CASE ~HasRecord(x, y)
    BY <1>1, <2>2 DEF RecordIndex
  <2> QED
    BY <2>1, <2>2
<1> QED
  BY <1>3, <1>4

\* The count of the records of a component, while there is room for another:
\* zero only if there is none.
LEMMA CountModsIs ==
  ASSUME TypeOK, NEW x, NEW n \in CountMods(x)
  PROVE  /\ n \in Nat
         /\ tracker.count < MaxRecords /\ RecordsOf(x) # {} => n # 0
<1>1. tracker.count \in Int
  BY DownloadAssumption DEF TypeOK, Tracker
<1>2. IsFiniteSet(RecordsOf(x))
  <2>1. IsFiniteSet(1 .. tracker.count)
    BY <1>1, FS_Interval
  <2> QED
    BY <2>1, FS_Subset DEF RecordsOf
<1>3. Cardinality(RecordsOf(x)) \in Nat
  BY <1>2, FS_CardinalityType
<1>4. RecordsOf(x) # {} => Cardinality(RecordsOf(x)) # 0
  BY <1>2, FS_EmptySet
<1> QED
  BY <1>1, <1>3, <1>4, DownloadAssumption DEF CountMods

\* Nothing but an empty place or data of the versions is ever read or written.
LEMMA ContentType ==
  ASSUME TypeOK
  PROVE  /\ Content \in [Slots -> Data]
         /\ tail.data = 0 => Content = file
         /\ \A s \in Slots : s # tail.slot => Content[s] = file[s]
BY DEF TypeOK, Content, Flushed, Data

\* A file that is opened loses data of its own component only, and none if it
\* is the one already open or one with a record.
LEMMA OpeningsAre ==
  ASSUME TypeOK, LeftOpen, c \in Comps, NEW o \in Openings
  PROVE  /\ o.file \in [Slots -> Data]
         /\ o.written \in Nat
         /\ \A s \in Slots : o.file[s] \in {Content[s], 0}
         /\ \A s \in Slots : s[1] # c => o.file[s] = Content[s]
         /\ /\ tracker.count < MaxRecords
            /\ cur = c \/ (cur = None /\ RecordsOf(c) # {})
            => o.file = Content
<1>1. Mods[c] \in Nat
  BY DownloadAssumption
<1>2. ASSUME NEW f \in [Slots -> Data]
      PROVE  /\ Truncated(f, c) \in [Slots -> Data]
             /\ \A s \in Slots : Truncated(f, c)[s] \in {f[s], 0}
             /\ \A s \in Slots : s[1] # c => Truncated(f, c)[s] = f[s]
  BY DEF Truncated, Data
<1>3. Content \in [Slots -> Data] /\ file \in [Slots -> Data]
  BY ContentType DEF TypeOK
<1>4. cur = None => Content = file
  BY ContentType DEF LeftOpen
<1>5. Flushed(file) = Content
  BY DEF Content
<1>6. CASE cur = c
  <2>1. o = Opening(Content, written)
    BY <1>5, <1>6 DEF Openings
  <2> QED
    BY <1>3, <2>1 DEF Opening, TypeOK
<1>7. CASE cur # c /\ cur = None
  <2>1. PICK n \in CountMods(c) :
          o = Opening(IF n = 0 THEN Truncated(file, c) ELSE file, Counted(n))
    BY <1>7 DEF Openings
  <2>2. /\ n \in Nat
        /\ tracker.count < MaxRecords /\ RecordsOf(c) # {} => n # 0
    BY CountModsIs
  <2>3. Counted(n) \in Nat
    BY <1>1, <2>2 DEF Counted
  <2>4. /\ o.file = IF n = 0 THEN Truncated(file, c) ELSE file
        /\ o.written = Counted(n)
    BY <2>1 DEF Opening
  <2>5. CASE n = 0
    <3>1. o.file = Truncated(file, c)
      BY <2>4, <2>5
    <3>2. ~ (tracker.count < MaxRecords /\ RecordsOf(c) # {})
      BY <2>2, <2>5
    <3> QED
      BY <1>2, <1>3, <1>4, <1>7, <2>3, <2>4, <3>1, <3>2
  <2>6. CASE n # 0
    BY <1>3, <1>4, <1>7, <2>3, <2>4, <2>6
  <2> QED
    BY <2>5, <2>6
<1>8. CASE cur # c /\ cur # None
  <2>1. o = Opening(Truncated(Content, c), 0)
    BY <1>5, <1>8 DEF Openings
  <2>2. o.file = Truncated(Content, c) /\ o.written = 0
    BY <2>1 DEF Opening
  <2> QED
    BY <1>2, <1>3, <1>8, <2>2
<1> QED
  BY <1>6, <1>7, <1>8
-----------------------------------------------------------------------------
(* The trackers.                                                           *)

\* What a tracker is made of.
LEMMA TrackerFields ==
  ASSUME NEW t \in Tracker
  PROVE  /\ t.mv \in Data /\ t.count \in 0 .. MaxRecords /\ t.sure \in BOOLEAN
         /\ t.rec \in [1 .. MaxRecords -> Record]
BY DEF Tracker

\* A new tracker names no version and has no record and no CRC.
LEMMA NewTrackerIs ==
  /\ NewTracker \in Tracker
  /\ NewTracker.mv = 0 /\ NewTracker.count = 0
  /\ \A v : RecordsFrom(NewTracker, v)
<1>1. Blank \in Record /\ 0 \in Data
  BY DownloadAssumption DEF Blank, Record, Comps, Data
<1>2. 0 \in 0 .. MaxRecords
  BY DownloadAssumption
<1> DEFINE blanks == [i \in 1 .. MaxRecords |-> Blank]
<1>3. blanks \in [1 .. MaxRecords -> Record]
  BY <1>1
<1>4. NewTracker = [mv |-> 0, count |-> 0, rec |-> blanks, sure |-> TRUE]
  BY DEF NewTracker
<1>5. \A i \in 1 .. MaxRecords : blanks[i].crc = 0
  BY DEF Blank
<1> HIDE DEF blanks
<1>6. NewTracker \in Tracker /\ NewTracker.rec = blanks
      /\ NewTracker.mv = 0 /\ NewTracker.count = 0
  BY <1>1, <1>2, <1>3, <1>4 DEF Tracker
<1> QED
  BY <1>5, <1>6 DEF RecordsFrom

\* So does an emptied one, but for the version.
LEMMA EmptiedIs ==
  ASSUME NEW v \in Data
  PROVE  /\ Emptied(v) \in Tracker
         /\ Emptied(v).mv = v /\ Emptied(v).count = 0
         /\ \A w : RecordsFrom(Emptied(v), w)
<1>1. Emptied(v) = [NewTracker EXCEPT !.mv = v]
  BY DEF Emptied
<1>2. /\ Emptied(v) \in Tracker
      /\ Emptied(v).mv = v /\ Emptied(v).count = 0
      /\ Emptied(v).rec = NewTracker.rec
  BY <1>1, NewTrackerIs DEF Tracker
<1> QED
  BY <1>2, NewTrackerIs DEF RecordsFrom

\* What is read back has the records in use, and their CRCs.
LEMMA PersistedIs ==
  ASSUME NEW t \in Tracker
  PROVE  /\ Persisted(t) \in Tracker
         /\ Persisted(t).mv = t.mv
         /\ \A v : RecordsFrom(t, v) => RecordsFrom(Persisted(t), v)
<1>1. Blank \in Record
  BY DownloadAssumption DEF Blank, Record, Comps, Data
<1> DEFINE kept == [i \in 1 .. MaxRecords |->
                      IF i <= t.count THEN t.rec[i] ELSE Blank]
<1>2. t.rec \in [1 .. MaxRecords -> Record]
  BY TrackerFields
<1>3. kept \in [1 .. MaxRecords -> Record]
  BY <1>1, <1>2
<1>4. Persisted(t) = [t EXCEPT !.rec = kept]
  BY DEF Persisted
<1>5. Persisted(t) \in Tracker /\ Persisted(t).mv = t.mv
      /\ Persisted(t).rec = kept
  BY <1>3, <1>4 DEF Tracker
<1>6. ASSUME NEW v, RecordsFrom(t, v), NEW i \in 1 .. MaxRecords
      PROVE  kept[i].crc \in {0, v}
  BY <1>6 DEF RecordsFrom, Blank
<1> QED
  BY <1>5, <1>6 DEF RecordsFrom

\* Whatever becomes of a write to persistent memory, what it leaves there is
\* a tracker that agrees with the version it names.
LEMMA PersistIs ==
  ASSUME stored \in Tracker,
         stored.mv # 0 => RecordsFrom(stored, stored.mv),
         NEW t \in Tracker, t.mv # 0 => RecordsFrom(t, t.mv),
         Persist(t)
  PROVE  /\ stored' \in Tracker
         /\ stored'.mv # 0 => RecordsFrom(stored', stored'.mv)
BY PersistedIs, NewTrackerIs DEF Persist

\* The CRC and the record of a module that was installed.
LEMMA WithCrcIs ==
  ASSUME TypeOK, ver \in Data
  PROVE  /\ WithCrc(tracker) \in Tracker
         /\ WithCrc(tracker).mv = tracker.mv
         /\ WithCrc(tracker).count = tracker.count
         /\ RecordsFrom(tracker, ver) => RecordsFrom(WithCrc(tracker), ver)
<1>1. tracker \in Tracker /\ slot \in 1 .. MaxRecords + 1 /\ MaxRecords \in Nat
  BY DownloadAssumption DEF TypeOK
<1>2. CASE slot <= MaxRecords
  <2> DEFINE r == [tracker.rec EXCEPT ![slot] = [@ EXCEPT !.crc = ver]]
  <2>1. tracker.rec \in [1 .. MaxRecords -> Record] /\ slot \in 1 .. MaxRecords
    BY <1>1, <1>2, TrackerFields
  <2>2. [tracker.rec[slot] EXCEPT !.crc = ver] \in Record
    BY <2>1 DEF Record
  <2>3. r \in [1 .. MaxRecords -> Record]
    BY <2>1, <2>2
  <2>4. WithCrc(tracker) = [tracker EXCEPT !.rec = r]
    BY <1>1, <1>2 DEF WithCrc
  <2>5. /\ WithCrc(tracker) \in Tracker
        /\ WithCrc(tracker).mv = tracker.mv
        /\ WithCrc(tracker).count = tracker.count
        /\ WithCrc(tracker).rec = r
    BY <1>1, <2>3, <2>4 DEF Tracker
  <2>6. ASSUME RecordsFrom(tracker, ver), NEW i \in 1 .. MaxRecords
        PROVE  r[i].crc \in {0, ver}
    <3>1. CASE i = slot
      BY <2>1, <3>1 DEF Record
    <3>2. CASE i # slot
      BY <2>1, <2>6, <3>2 DEF RecordsFrom
    <3> QED
      BY <3>1, <3>2
  <2> QED
    BY <2>5, <2>6 DEF RecordsFrom
<1>3. CASE ~ (slot <= MaxRecords)
  BY <1>1, <1>3 DEF WithCrc
<1> QED
  BY <1>2, <1>3

\* The record made for the module the worker is at.
LEMMA RecordModuleIdIs ==
  ASSUME NEW t \in Tracker, t.count < MaxRecords, c \in Comps, m \in Nat
  PROVE  /\ RecordModuleId(t) \in Tracker
         /\ RecordModuleId(t).mv = t.mv
         /\ RecordModuleId(t).count = t.count + 1
         /\ RecordModuleId(t).rec[t.count + 1].comp = c
         /\ \A v : RecordsFrom(t, v) => RecordsFrom(RecordModuleId(t), v)
<1>1. t.count \in 0 .. MaxRecords /\ MaxRecords \in Nat
  BY TrackerFields, DownloadAssumption
<1> DEFINE n == t.count + 1
           new == [t.rec[n] EXCEPT !.comp = c, !.mod = m]
           r == [t.rec EXCEPT ![n] = new]
<1>2. n \in 1 .. MaxRecords /\ n \in 0 .. MaxRecords
  BY <1>1
<1>3. t.rec \in [1 .. MaxRecords -> Record]
  BY TrackerFields
<1>4. new \in Record /\ new.comp = c /\ new.crc = t.rec[n].crc
  BY <1>2, <1>3 DEF Record
<1>5. r \in [1 .. MaxRecords -> Record] /\ r[n] = new
  BY <1>2, <1>3, <1>4
<1>6. RecordModuleId(t) = [t EXCEPT !.count = n, !.rec = r]
  BY DEF RecordModuleId, Tracker
<1>7. /\ RecordModuleId(t) \in Tracker
      /\ RecordModuleId(t).mv = t.mv
      /\ RecordModuleId(t).count = n
      /\ RecordModuleId(t).rec = r
  BY <1>2, <1>5, <1>6 DEF Tracker
<1>8. ASSUME NEW v, RecordsFrom(t, v), NEW i \in 1 .. MaxRecords
      PROVE  r[i].crc \in {0, v}
  <2>1. CASE i = n
    BY <1>2, <1>4, <1>5, <1>8, <2>1 DEF RecordsFrom
  <2>2. CASE i # n
    BY <1>2, <1>3, <1>8, <2>2 DEF RecordsFrom
  <2> QED
    BY <2>1, <2>2
<1> QED
  BY <1>4, <1>5, <1>7, <1>8 DEF RecordsFrom
-----------------------------------------------------------------------------
(* The invariant holds at first and every step preserves it.               *)

\* Init establishes the invariant.
LEMMA InitInv == Init => IInv
<1> SUFFICES ASSUME Init PROVE IInv
  OBVIOUS
<1>1. TypeOK
  <2>1. 0 \in Data /\ 0 \in 0 .. NComp /\ None \in Comps \cup {None, Dangling}
        /\ 1 \in 1 .. MaxRecords + 1 /\ MaxRetry \in 1 .. MaxRetry
    BY DownloadAssumption DEF Data
  <2>2. file \in [Slots -> Data] /\ NoTail \in [slot : Slots, data : Data]
    BY <2>1, FirstSlot DEF Init, NoTail
  <2> QED
    BY <2>1, <2>2, NewTrackerIs DEF Init, TypeOK
<1>2. Position /\ LeftOpen /\ Accounted /\ PrefixIntact
  BY DEF Init, Position, LeftOpen, Accounted, PrefixIntact, NoTail
<1>3. Coherence
  BY NewTrackerIs DEF Init, Coherence
<1> QED
  BY <1>1, <1>2, <1>3 DEF IInv

\* After a session the locals are as they were before it.
LEMMA EndSessionIs ==
  ASSUME EndSession
  PROVE  /\ Position' /\ Accounted' /\ PrefixIntact'
         /\ pc' \in {"idle", "module", "fetch"} /\ ver' \in Data
         /\ c' \in 0 .. NComp /\ m' \in Nat /\ slot' \in 1 .. MaxRecords + 1
         /\ retry' \in 1 .. MaxRetry
         /\ remaining' \in BOOLEAN /\ installed' \in BOOLEAN
<1>1. /\ pc' = "idle" /\ ver' = 0 /\ c' = 0 /\ m' = 0 /\ slot' = 1
      /\ retry' = MaxRetry /\ remaining' = FALSE /\ installed' = FALSE
  BY DEF EndSession
<1>2. Position' /\ Accounted' /\ PrefixIntact'
  BY <1>1 DEF Position, Accounted, PrefixIntact
<1>3. 0 \in 0 .. NComp /\ 1 \in 1 .. MaxRecords + 1 /\ MaxRetry \in 1 .. MaxRetry
  BY DownloadAssumption
<1> QED
  BY <1>1, <1>2, <1>3 DEF Data

\* A session starts: nothing has been passed yet.
LEMMA StartInv ==
  ASSUME IInv, NEW v \in Versions, Start(v) PROVE IInv'
<1> DEFINE t == DownloadStart(v)
<1>1. v \in Data /\ v # 0
  BY DownloadAssumption DEF Data
<1>2. /\ t \in Tracker /\ t.mv = v /\ RecordsFrom(t, v)
      /\ tracker.count = 0 => t.count = 0
  <2>1. CASE tracker.mv = v
    <3>1. t = tracker
      BY <2>1 DEF DownloadStart
    <3> QED
      BY <1>1, <2>1, <3>1 DEF IInv, TypeOK, Coherence
  <2>2. CASE tracker.mv # v
    <3>1. t = Emptied(v)
      BY <2>2 DEF DownloadStart
    <3> QED
      BY <1>1, <3>1, EmptiedIs
  <2> QED
    BY <2>1, <2>2
<1> HIDE DEF t
<1>3. /\ tracker' \in Tracker /\ tracker'.mv = v /\ RecordsFrom(tracker', v)
      /\ tracker'.count = t.count
  <2>1. tracker' = [t EXCEPT !.sure = @ /\ cur = None]
    BY DEF Start, t
  <2> QED
    BY <1>2, <2>1 DEF Tracker, RecordsFrom
<1>4. /\ pc = "idle" /\ c = 0 /\ m = 0 /\ ~remaining
  BY DEF IInv, Position, Start
<1>5. /\ pc' = "module" /\ ver' = v /\ result' = "none"
      /\ c' = c /\ m' = m /\ remaining' = remaining /\ tail' = tail
      /\ cur' \in Comps \cup {None, Dangling}
      /\ cur' = None => cur = None
      /\ cur' # None => cur # None
  BY DownloadAssumption DEF Start, IInv, TypeOK, None, Dangling
<1>6. TypeOK'
  BY <1>1, <1>3, <1>5 DEF IInv, TypeOK, Start
<1>7. Position' /\ LeftOpen' /\ Accounted'
  BY <1>2, <1>3, <1>4, <1>5
     DEF IInv, Position, LeftOpen, Accounted
<1>8. Coherence'
  BY <1>1, <1>3, <1>5 DEF IInv, Coherence, Start, RecordsFrom
<1>9. PrefixIntact'
  <2>1. \A s \in Slots : ~ (s[1] < 0 \/ (s[1] = 0 /\ s[2] < 0))
    BY SlotsMember DEF Comps
  <2> QED
    BY <1>4, <1>5, <2>1 DEF PrefixIntact, Passed, Wanted
<1> QED
  BY <1>6, <1>7, <1>8, <1>9 DEF IInv

\* The steps that move the worker on without touching a file.
LEMMA NextComponentInv == ASSUME IInv, NextComponent PROVE IInv'
<1>1. /\ pc' = "module" /\ c' = c + 1 /\ m' = 0 /\ c \in Nat /\ c < NComp
      /\ ver' = ver /\ pc = "module"
  BY DownloadAssumption DEF NextComponent, IInv, TypeOK
<1>2. TypeOK'
  <2>1. c + 1 \in 0 .. NComp /\ MaxRetry \in 1 .. MaxRetry
    BY <1>1, DownloadAssumption
  <2> QED
    BY <1>1, <2>1 DEF IInv, TypeOK, NextComponent, disk
<1>3. Position' /\ LeftOpen' /\ Accounted' /\ Coherence'
  BY <1>1 DEF IInv, Position, LeftOpen, Accounted, Coherence, NextComponent,
              RecordsFrom, disk
<1>4. PrefixIntact'
  <2>1. Content' = Content
    BY DEF NextComponent, Content, Flushed, disk
  <2>2. ASSUME NEW s \in Wanted, s[1] < c + 1
        PROVE  s \in Passed
    <3>1. s[1] \in Compatible /\ s[1] \in Nat /\ s[2] \in Nat /\ s[2] < Mods[s[1]]
      BY SlotsMember DEF Wanted, Comps
    <3>2. s[1] < c \/ s[1] = c
      BY <1>1, <2>2, <3>1
    <3>3. CASE s[1] = c
      <4>1. m = Mods[c]
        BY <3>1, <3>3 DEF NextComponent
      <4> QED
        BY <3>1, <3>3, <4>1 DEF Passed
    <3> QED
      BY <3>2, <3>3 DEF Passed
  <2>3. \A s \in Wanted : s[2] \in Nat
    BY SlotsMember DEF Wanted
  <2>4. \A s \in Passed' : s \in Passed
    BY <1>1, <2>2, <2>3 DEF Passed
  <2> QED
    BY <1>1, <2>1, <2>4 DEF IInv, PrefixIntact
<1> QED
  BY <1>2, <1>3, <1>4 DEF IInv

\* A module is skipped: what its record says is what the session wants.
LEMMA SkipModuleInv == ASSUME IInv, SkipModule PROVE IInv'
<1>1. /\ pc = "module" /\ pc' = "module" /\ c' = c /\ m' = m + 1
      /\ c \in Comps /\ c \in Compatible /\ m \in Nat /\ m < Mods[c]
      /\ ~remaining /\ ver' = ver /\ ver \in Versions
  BY DownloadAssumption DEF SkipModule, AtModule, IInv, TypeOK, Position
<1>2. /\ RecordIndex(c, m) \in Matching(c, m)
      /\ RecordIndex(c, m) \in 1 .. MaxRecords + 1
  BY RecordIndexMember DEF SkipModule, Intact, IInv
<1>3. tracker.count \in 0 .. MaxRecords /\ MaxRecords \in Nat
  BY DownloadAssumption, TrackerFields DEF IInv, TypeOK
<1>4. RecordsOf(c) # {} /\ tracker.count # 0
  BY <1>2, <1>3 DEF Matching, RecordsOf
<1>5. RecordIndex(c, m) \in 1 .. MaxRecords
  BY <1>2, <1>3 DEF Matching, RecordsOf
<1>6. cur = None /\ tail.data = 0
  BY <1>1, <1>4 DEF IInv, LeftOpen
<1>7. TypeOK'
  BY <1>1, <1>2 DEF IInv, TypeOK, SkipModule, disk
<1>8. Position' /\ LeftOpen' /\ Coherence'
  BY <1>1 DEF IInv, Position, LeftOpen, Coherence, SkipModule, RecordsFrom,
              disk
<1>9. Accounted'
  BY <1>1, <1>4, <1>6 DEF Accounted, SkipModule, RecordsOf
<1>10. PrefixIntact'
  <2>1. Content' = Content /\ Content = file
    BY <1>6, ContentType DEF IInv, SkipModule, Content, Flushed, disk
  <2>2. file[<<c, m>>] = ver
    <3>1. /\ tracker.rec[RecordIndex(c, m)].crc # 0
          /\ file[<<c, m>>] = tracker.rec[RecordIndex(c, m)].crc
      BY DEF SkipModule, Intact
    <3> QED
      BY <1>1, <1>5, <3>1 DEF IInv, Coherence, RecordsFrom
  <2>3. ASSUME NEW s \in Wanted, s[1] < c \/ (s[1] = c /\ s[2] < m + 1)
        PROVE  Content[s] = ver
    <3>1. s = <<s[1], s[2]>> /\ s[2] \in Nat
      BY SlotsMember DEF Wanted
    <3>2. s \in Passed \/ s = <<c, m>>
      BY <1>1, <2>3, <3>1 DEF Passed
    <3> QED
      BY <1>1, <2>1, <2>2, <3>2 DEF IInv, PrefixIntact
  <2> QED
    BY <1>1, <2>1, <2>3 DEF PrefixIntact, Passed
<1> QED
  BY <1>7, <1>8, <1>9, <1>10 DEF IInv

\* A module is selected for download: the tracker is kept, or cleared where
\* nothing of the component has been passed.
LEMMA SelectModuleInv == ASSUME IInv, SelectModule PROVE IInv'
<1>1. /\ pc = "module" /\ pc' = "fetch" /\ UNCHANGED <<file, cur, written,
           tail, ver, c, m, retry, installed, result>>
      /\ c \in Compatible /\ m < Mods[c] /\ m \in Nat
      /\ remaining' = TRUE /\ slot' = RecordIndex(c, m)
      /\ ver \in Versions /\ ver # 0
  BY DownloadAssumption
     DEF SelectModule, AtModule, IInv, TypeOK, Position
<1>2. /\ tracker \in Tracker
      /\ tracker.mv \in {0, ver} /\ RecordsFrom(tracker, ver)
      /\ stored \in Tracker
      /\ stored.mv # 0 => RecordsFrom(stored, stored.mv)
  BY <1>1 DEF IInv, TypeOK, Coherence
<1>3. /\ tracker' \in Tracker
      /\ tracker'.mv \in {0, ver} /\ RecordsFrom(tracker', ver)
      /\ m > 0 => tracker'.count = tracker.count /\ tracker'.rec = tracker.rec
  <2>1. CASE tracker' = tracker
    BY <1>2, <2>1
  <2>2. CASE tracker' = Emptied(0) /\ m = 0
    <3>1. 0 \in Data
      BY DEF Data
    <3> QED
      BY <2>2, <3>1, EmptiedIs
  <2>3. CASE tracker' = [tracker EXCEPT !.sure = FALSE]
    BY <1>2, <2>3 DEF Tracker, RecordsFrom
  <2> QED
    BY <1>1, <2>1, <2>2, <2>3 DEF SelectModule
<1>4. /\ stored' \in Tracker
      /\ stored'.mv # 0 => RecordsFrom(stored', stored'.mv)
  <2>1. CASE UNCHANGED stored
    BY <1>2, <2>1
  <2>2. CASE Persist(tracker')
    BY <1>2, <1>3, <2>2, PersistIs
  <2> QED
    BY <2>1, <2>2 DEF SelectModule
<1>5. TypeOK'
  BY <1>1, <1>3, <1>4, RecordIndexMember DEF IInv, TypeOK
<1>6. Position' /\ LeftOpen'
  BY <1>1 DEF IInv, Position, LeftOpen
<1>7. Accounted'
  BY <1>1, <1>3 DEF IInv, Accounted, RecordsOf
<1>8. Coherence'
  BY <1>1, <1>3, <1>4 DEF Coherence
<1>9. PrefixIntact'
  <2>1. Content' = Content
    BY <1>1 DEF Content, Flushed
  <2> QED
    BY <1>1, <2>1 DEF IInv, PrefixIntact, Passed
<1> QED
  BY <1>5, <1>6, <1>7, <1>8, <1>9 DEF IInv

\* A session that fails leaves no file open and a tracker of its version.
LEMMA FailInv ==
  ASSUME IInv, NEW f \in [Slots -> Data],
         NEW t \in Tracker, t.mv # 0 => RecordsFrom(t, t.mv),
         Fail(f, t)
  PROVE  IInv'
<1>1. /\ file' = f /\ tail' = NoTail /\ cur' = None /\ written' = 0
      /\ tracker' = t /\ Persist(t) /\ result' = "failed" /\ EndSession
      /\ pc' = "idle"
  BY DEF Fail, EndSession
<1>2. /\ stored' \in Tracker
      /\ stored'.mv # 0 => RecordsFrom(stored', stored'.mv)
  BY <1>1, PersistIs DEF IInv, TypeOK, Coherence
<1>3. NoTail \in [slot : Slots, data : Data] /\ NoTail.data = 0
  BY FirstSlot DEF NoTail, Data
<1>4. TypeOK'
  BY <1>1, <1>2, <1>3, EndSessionIs DEF TypeOK
<1>5. LeftOpen' /\ Coherence'
  BY <1>1, <1>2, <1>3 DEF LeftOpen, Coherence
<1> QED
  BY <1>1, <1>4, <1>5, EndSessionIs DEF IInv

\* A fetch is for a module of a compatible component; its tracker is of the
\* version under way.
LEMMA Fetching ==
  ASSUME IInv, pc = "fetch"
  PROVE  /\ c \in Comps /\ c \in Compatible /\ m \in Nat /\ m < Mods[c]
         /\ <<c, m>> \in Slots
         /\ ver \in Versions /\ ver \in Data /\ ver # 0 /\ remaining
         /\ tracker \in Tracker /\ RecordsFrom(tracker, ver)
         /\ tracker.mv \in {0, ver}
         /\ tracker.mv # 0 => RecordsFrom(tracker, tracker.mv)
<1>1. /\ c \in Compatible /\ m < Mods[c] /\ m \in Nat
      /\ ver \in Versions /\ remaining
      /\ tracker \in Tracker /\ RecordsFrom(tracker, ver)
      /\ tracker.mv \in {0, ver}
      /\ tracker.mv # 0 => RecordsFrom(tracker, tracker.mv)
  BY DEF IInv, Position, TypeOK, Coherence
<1>2. c \in Comps /\ ver # 0 /\ ver \in Data
  BY <1>1, DownloadAssumption DEF Data
<1> QED
  BY <1>1, <1>2, SlotsMember

\* The files after a close whose errors are ignored.
LEMMA LeftoversAre ==
  ASSUME TypeOK, NEW f \in Leftovers
  PROVE  /\ f \in [Slots -> Data]
         /\ \A s \in Slots \ {tail.slot} : f[s] = Content[s]
BY ContentType DEF Leftovers, TypeOK, Data

\* The ways in which a session breaks off.
LEMMA FailuresInv ==
  ASSUME IInv, FetchFails \/ BadHash \/ InstallFails \/ RecordFails
  PROVE  IInv'
<1> USE DEF IInv
<1>1. pc = "fetch"
  BY DEF FetchFails, BadHash, InstallFails, RecordFails
<1>2. ASSUME NEW f \in Leftovers, Fail(f, tracker) PROVE IInv'
  BY <1>1, <1>2, Fetching, LeftoversAre, FailInv
<1>3. CASE FetchFails
  BY <1>2, <1>3 DEF FetchFails
<1>4. CASE BadHash
  <2>1. CASE RetriesLeft = 0
    BY <1>2, <1>4, <2>1 DEF BadHash
  <2>2. CASE RetriesLeft # 0
    <3>1. /\ retry' = RetriesLeft /\ pc' = "module"
          /\ UNCHANGED <<disk, tracker, cur, written, tail, ver, c, m, slot,
                         remaining, installed, result>>
      BY <1>4, <2>2 DEF BadHash
    <3>2. retry' \in 1 .. MaxRetry
      BY <2>2, <3>1, DownloadAssumption DEF TypeOK, RetriesLeft
    <3>3. TypeOK'
      BY <3>1, <3>2 DEF TypeOK, disk
    <3>4. Position' /\ LeftOpen' /\ Accounted' /\ Coherence'
      BY <1>1, <3>1 DEF Position, LeftOpen, Accounted, Coherence,
                        RecordsFrom, RecordsOf, disk
    <3>5. Content' = Content
      BY <3>1 DEF Content, Flushed, disk
    <3>6. PrefixIntact'
      BY <1>1, <3>1, <3>5 DEF PrefixIntact, Passed
    <3> QED
      BY <3>3, <3>4, <3>6
  <2> QED
    BY <2>1, <2>2
<1>5. ASSUME NEW o \in Openings, NEW d \in {o.file[<<c, m>>], 0, ver}
      PROVE  [o.file EXCEPT ![<<c, m>>] = d] \in [Slots -> Data]
  <2>1. o.file \in [Slots -> Data] /\ <<c, m>> \in Slots
    BY <1>1, Fetching, OpeningsAre
  <2>2. d \in Data
    BY <1>1, <2>1, Fetching DEF Data
  <2> QED
    BY <2>1, <2>2
<1>6. CASE InstallFails
  BY <1>1, <1>5, <1>6, Fetching, FailInv DEF InstallFails
<1>7. CASE RecordFails
  <2>1. /\ WithCrc(tracker) \in Tracker
        /\ WithCrc(tracker).mv # 0 =>
             RecordsFrom(WithCrc(tracker), WithCrc(tracker).mv)
    BY <1>1, Fetching, WithCrcIs
  <2> QED
    BY <1>5, <1>7, <2>1, FailInv DEF RecordFails
<1> QED
  BY <1>3, <1>4, <1>6, <1>7

\* What an installed module adds to the files, whether its file is closed
\* after it or it is still in the buffer.
LEMMA InstallWrites ==
  ASSUME IInv, Install
  PROVE  \E o \in Openings :
           /\ Content' = [o.file EXCEPT ![<<c, m>>] = ver]
           /\ file' \in [Slots -> Data] /\ written' \in Nat
           /\ tail' \in [slot : Slots, data : Data]
           /\ \/ cur' = None /\ tail'.data = 0
              \/ cur' = c
           /\ installed' \in BOOLEAN
<1>1. pc = "fetch"
  BY DEF Install
<1>2. PICK o \in Openings :
        LET w    == Counted(o.written + 1)
            done == w = Mods[c]
        IN  /\ file' =
                 IF done THEN [o.file EXCEPT ![<<c, m>>] = ver] ELSE o.file
            /\ tail' =
                 IF done THEN NoTail ELSE [slot |-> <<c, m>>, data |-> ver]
            /\ cur' = IF done THEN None ELSE c
            /\ written' = IF done THEN 0 ELSE w
            /\ installed' = (installed \/ done)
  BY DEF Install
<1>3. o.file \in [Slots -> Data] /\ o.written \in Nat
  BY <1>1, Fetching, OpeningsAre DEF IInv
<1>4. <<c, m>> \in Slots /\ ver \in Data /\ ver # 0 /\ Mods[c] \in Nat
  BY <1>1, Fetching, DownloadAssumption
<1>5. Counted(o.written + 1) \in Nat
  BY <1>3, <1>4 DEF Counted
<1>6. [o.file EXCEPT ![<<c, m>>] = ver] \in [Slots -> Data]
  BY <1>3, <1>4
<1>7. installed \in BOOLEAN
  BY DEF IInv, TypeOK
<1>8. CASE Counted(o.written + 1) = Mods[c]
  <2>1. /\ file' = [o.file EXCEPT ![<<c, m>>] = ver]
        /\ tail' = NoTail /\ cur' = None /\ written' = 0 /\ installed' = TRUE
    BY <1>2, <1>8
  <2>2. NoTail \in [slot : Slots, data : Data] /\ NoTail.data = 0
    BY FirstSlot DEF NoTail, Data
  <2>3. Content' = file'
    BY <2>1, <2>2 DEF Content, Flushed
  <2> QED
    BY <1>6, <2>1, <2>2, <2>3
<1>9. CASE Counted(o.written + 1) # Mods[c]
  <2>1. /\ file' = o.file /\ tail' = [slot |-> <<c, m>>, data |-> ver]
        /\ cur' = c /\ written' = Counted(o.written + 1)
        /\ installed' = installed
    BY <1>2, <1>7, <1>9
  <2>2. Content' = [o.file EXCEPT ![<<c, m>>] = ver]
    BY <1>4, <2>1 DEF Content, Flushed
  <2> QED
    BY <1>3, <1>4, <1>5, <1>7, <2>1, <2>2
<1> QED
  BY <1>8, <1>9

\* A module is installed: nothing passed is lost by opening its file.
LEMMA InstallInv == ASSUME IInv, Install PROVE IInv'
<1>1. /\ pc = "fetch" /\ pc' = "module" /\ m' = m + 1 /\ retry' = MaxRetry
      /\ UNCHANGED <<stored, ver, c, slot, remaining, result>>
      /\ tracker' = RecordModuleId(WithCrc(tracker))
      /\ tracker.count < MaxRecords
  BY DEF Install
<1>2. /\ c \in Comps /\ c \in Compatible /\ m \in Nat /\ m < Mods[c]
      /\ <<c, m>> \in Slots /\ ver \in Versions /\ ver \in Data /\ ver # 0
      /\ remaining /\ RecordsFrom(tracker, ver) /\ tracker.mv \in {0, ver}
  BY <1>1, Fetching
<1>3. PICK o \in Openings :
        /\ Content' = [o.file EXCEPT ![<<c, m>>] = ver]
        /\ file' \in [Slots -> Data] /\ written' \in Nat
        /\ tail' \in [slot : Slots, data : Data]
        /\ \/ cur' = None /\ tail'.data = 0
           \/ cur' = c
        /\ installed' \in BOOLEAN
  BY InstallWrites
<1>4. /\ tracker' \in Tracker /\ tracker'.mv = tracker.mv
      /\ tracker'.count = tracker.count + 1
      /\ tracker'.rec[tracker.count + 1].comp = c
      /\ RecordsFrom(tracker', ver)
  <2>1. /\ WithCrc(tracker) \in Tracker
        /\ WithCrc(tracker).mv = tracker.mv
        /\ WithCrc(tracker).count = tracker.count
        /\ RecordsFrom(WithCrc(tracker), ver)
    BY <1>2, WithCrcIs DEF IInv
  <2> QED
    BY <1>1, <1>2, <2>1, RecordModuleIdIs
<1>5. MaxRetry \in 1 .. MaxRetry /\ c # None
  BY <1>2, DownloadAssumption DEF None, Comps
<1>6. TypeOK'
  BY <1>1, <1>2, <1>3, <1>4, <1>5 DEF IInv, TypeOK
<1>7. Position' /\ LeftOpen'
  BY <1>1, <1>2, <1>3, <1>5 DEF Position, LeftOpen
<1>8. Accounted'
  <2>1. tracker.count \in Nat
    BY TrackerFields, DownloadAssumption DEF IInv, TypeOK
  <2>2. tracker.count + 1 \in RecordsOf(c)'
    BY <1>1, <1>4, <2>1 DEF RecordsOf
  <2> QED
    BY <1>1, <1>3, <2>2 DEF Accounted
<1>9. Coherence'
  BY <1>1, <1>2, <1>4 DEF IInv, Coherence, RecordsFrom
<1>10. PrefixIntact'
  <2>1. o.file \in [Slots -> Data]
    BY <1>2, OpeningsAre DEF IInv
  <2>2. ASSUME NEW s \in Passed PROVE o.file[s] = ver
    <3>1. s \in Slots /\ Content[s] = ver
      BY <1>1 DEF IInv, PrefixIntact, Passed, Wanted
    <3>2. CASE s[1] # c
      BY <1>2, <3>1, <3>2, OpeningsAre DEF IInv
    <3>3. CASE s[1] = c
      <4>1. s[2] < m /\ s[2] \in Nat
        BY <1>2, <3>1, <3>3, SlotsMember DEF Passed, Comps
      <4>2. cur = c \/ (cur = None /\ RecordsOf(c) # {})
        BY <1>2, <4>1 DEF IInv, Accounted
      <4>3. o.file = Content
        BY <1>1, <1>2, <4>2, OpeningsAre DEF IInv
      <4> QED
        BY <3>1, <4>3
    <3> QED
      BY <3>2, <3>3
  <2>3. ASSUME NEW s \in Wanted, s[1] < c \/ (s[1] = c /\ s[2] < m + 1)
        PROVE  Content'[s] = ver
    <3>1. s = <<s[1], s[2]>> /\ s[2] \in Nat /\ s \in Slots
      BY SlotsMember DEF Wanted
    <3>2. CASE s = <<c, m>>
      BY <1>2, <1>3, <2>1, <3>2
    <3>3. CASE s # <<c, m>>
      <4>1. s \in Passed
        BY <1>2, <2>3, <3>1, <3>3 DEF Passed
      <4> QED
        BY <1>3, <2>1, <2>2, <3>1, <3>3, <4>1
    <3> QED
      BY <3>2, <3>3
  <2> QED
    BY <1>1, <2>3 DEF PrefixIntact, Passed, Wanted
<1> QED
  BY <1>6, <1>7, <1>8, <1>9, <1>10 DEF IInv

\* The end of a session, the writes to persistent memory outside of one, and
\* a restart.
LEMMA FinishInv == ASSUME IInv, Finish PROVE IInv'
<1>1. /\ tracker' = Emptied(0) /\ Persist(Emptied(0)) /\ EndSession
      /\ UNCHANGED <<file, cur, written, tail>> /\ pc' = "idle"
      /\ result' \in {"installed", "failed", "complete"}
  BY DEF Finish, EndSession
<1>2. /\ Emptied(0) \in Tracker /\ Emptied(0).mv = 0 /\ Emptied(0).count = 0
  <2>1. 0 \in Data
    BY DEF Data
  <2> QED
    BY <2>1, EmptiedIs
<1>3. /\ stored' \in Tracker
      /\ stored'.mv # 0 => RecordsFrom(stored', stored'.mv)
  BY <1>1, <1>2, PersistIs DEF IInv, TypeOK, Coherence
<1>4. TypeOK'
  BY <1>1, <1>2, <1>3, EndSessionIs DEF IInv, TypeOK
<1>5. LeftOpen' /\ Coherence'
  BY <1>1, <1>2, <1>3 DEF IInv, LeftOpen, Coherence
<1> QED
  BY <1>1, <1>4, <1>5, EndSessionIs DEF IInv

\* Persistent memory is written and nothing else changes but the result of a
\* session that never began.
LEMMA PersistInv == ASSUME IInv, StartFails \/ OtherPersist PROVE IInv'
<1>1. /\ Persist(tracker)
      /\ UNCHANGED <<file, tracker, cur, written, tail, pc, session>>
      /\ result' \in {result, "failed"}
  BY DEF StartFails, OtherPersist
<1>2. tracker.mv # 0 => RecordsFrom(tracker, tracker.mv)
  BY DEF IInv, Coherence
<1>3. /\ stored' \in Tracker
      /\ stored'.mv # 0 => RecordsFrom(stored', stored'.mv)
  BY <1>1, <1>2, PersistIs DEF IInv, TypeOK, Coherence
<1>4. TypeOK'
  BY <1>1, <1>3 DEF IInv, TypeOK, session
<1>5. Position' /\ LeftOpen' /\ Accounted' /\ Coherence'
  BY <1>1, <1>3
     DEF IInv, Position, LeftOpen, Accounted, Coherence, RecordsFrom,
         RecordsOf, session
<1>6. PrefixIntact'
  <2>1. Content' = Content
    BY <1>1 DEF Content, Flushed
  <2> QED
    BY <1>1, <2>1 DEF IInv, PrefixIntact, Passed, session
<1> QED
  BY <1>4, <1>5, <1>6 DEF IInv

LEMMA CrashInv == ASSUME IInv, NEW lost, Crash(lost) PROVE IInv'
<1>1. /\ file' = [s \in Slots |-> IF s \in lost THEN 0 ELSE file[s]]
      /\ stored' \in {stored, NewTracker} /\ tracker' = stored'
      /\ cur' = None /\ written' = 0 /\ tail' = NoTail /\ result' = "none"
      /\ EndSession /\ pc' = "idle"
  BY DEF Crash, EndSession
<1>2. file' \in [Slots -> Data]
  BY <1>1 DEF IInv, TypeOK, Data
<1>3. /\ stored' \in Tracker
      /\ stored'.mv # 0 => RecordsFrom(stored', stored'.mv)
  BY <1>1, NewTrackerIs DEF IInv, TypeOK, Coherence
<1>4. NoTail \in [slot : Slots, data : Data] /\ NoTail.data = 0
  BY FirstSlot DEF NoTail, Data
<1>5. TypeOK'
  BY <1>1, <1>2, <1>3, <1>4, EndSessionIs DEF TypeOK
<1>6. LeftOpen' /\ Coherence'
  BY <1>1, <1>3, <1>4 DEF LeftOpen, Coherence
<1> QED
  BY <1>1, <1>5, <1>6, EndSessionIs DEF IInv

\* Every step preserves the invariant.
LEMMA NextInv == IInv /\ [Next]_vars => IInv'
<1> SUFFICES ASSUME IInv, [Next]_vars PROVE IInv'
  OBVIOUS
<1>1. ASSUME NEW v \in Versions, Start(v) PROVE IInv'
  BY <1>1, StartInv
<1>2. CASE StartFails \/ OtherPersist
  BY <1>2, PersistInv
<1>3. CASE Worker
  BY <1>3, NextComponentInv, SkipModuleInv, SelectModuleInv, FailuresInv,
     InstallInv, FinishInv DEF Worker
<1>4. ASSUME NEW lost, Crash(lost) PROVE IInv'
  BY <1>4, CrashInv
<1>5. CASE UNCHANGED vars
  <2>1. Content' = Content
    BY <1>5 DEF vars, Content, Flushed
  <2> QED
    BY <1>5, <2>1
       DEF vars, IInv, TypeOK, Position, LeftOpen, Accounted, Coherence,
           RecordsFrom, RecordsOf, PrefixIntact, Passed
<1> QED
  BY <1>1, <1>2, <1>3, <1>4, <1>5 DEF Next

LEMMA Invariance == Spec => []IInv
BY InitInv, NextInv, PTL DEF Spec

\* The worker's state is well typed for every update and every bound: no
\* record is made past the end of the tracker, none is looked for there, and
\* the count of retries never passes zero.
THEOREM DownloadTypeCorrect == Spec => []TypeOK
<1>1. IInv => TypeOK
  BY DEF IInv
<1> QED
  BY <1>1, Invariance, PTL

\* Everything a session has passed is there and of its version, however many
\* sessions, failed writes and restarts came before.
THEOREM PassedIsIntact == Spec => []PrefixIntact
<1>1. IInv => PrefixIntact
  BY DEF IInv
<1> QED
  BY <1>1, Invariance, PTL
-----------------------------------------------------------------------------
(* The count of modules stays right as long as no check of a recorded one  *)
(* has failed: an invariant of its own, about how many records there are.  *)

Of(t, x) == {i \in 1 .. t.count : t.rec[i].comp = x}
Number(t, x) == Cardinality(Of(t, x))

\* a component is recorded from its first module on, each module once
Exact(t) == \A x \in Comps :
  /\ Number(t, x) <= Mods[x]
  /\ x \notin Compatible => Number(t, x) = 0
  /\ \A y \in Nat :
       (\E i \in Of(t, x) : t.rec[i].mod = y) <=> y < Number(t, x)

\* and only after the components before it
Complete(t, z) == \A x \in Compatible : x < z => Number(t, x) = Mods[x]
InOrder(t) == \A z \in Comps : Number(t, z) # 0 => Complete(t, z)

Sound(t) == t.sure => Exact(t) /\ (t.mv # 0 => InOrder(t))

\* a session that still skips has its records before it
Resuming == pc # "idle" /\ tracker.sure /\ ~remaining =>
  /\ cur = None /\ tracker.mv = ver
  /\ Complete(tracker, c)
  /\ m # 0 => c \in Compatible /\ m <= Number(tracker, c)

\* one that downloads has just made the last of them, and the open file, if
\* any, is that of the component it is in the midst of
Recording == pc # "idle" /\ tracker.sure /\ remaining =>
  /\ m # 0 => c \in Compatible
  /\ c \in Comps => Number(tracker, c) = m
  /\ \A x \in Comps : x > c => Number(tracker, x) = 0
  /\ tracker.mv # 0 => Complete(tracker, c)
  /\ cur \in {None, c}
  /\ c \in Comps /\ cur = c => c \in Compatible /\ written = m /\ m < Mods[c]
  /\ ~installed => c \in Compatible /\ m < Mods[c]

Closed == cur = None => written = 0

CountInv == Sound(tracker) /\ Sound(stored) /\ Resuming /\ Recording /\ Closed

\* The number of records of a component is a natural number.
LEMMA NumberType ==
  ASSUME NEW t \in Tracker, NEW x
  PROVE  /\ IsFiniteSet(Of(t, x)) /\ Number(t, x) \in Nat
         /\ Number(t, x) = 0 <=> Of(t, x) = {}
<1>1. t.count \in Int
  BY TrackerFields, DownloadAssumption
<1>2. IsFiniteSet(Of(t, x))
  BY <1>1, FS_Interval, FS_Subset DEF Of
<1> QED
  BY <1>2, FS_CardinalityType, FS_EmptySet DEF Number

\* A tracker without records is sound.
LEMMA NoRecords ==
  ASSUME NEW t \in Tracker, t.count = 0
  PROVE  (\A x : Number(t, x) = 0) /\ Sound(t)
<1>1. \A x : Of(t, x) = {}
  BY DEF Of
<1>2. \A x : Number(t, x) = 0
  BY <1>1, NumberType
<1> QED
  BY <1>1, <1>2, DownloadAssumption DEF Sound, Exact, InOrder

\* Soundness is about the components and modules of the records alone.
LEMMA SameRecords ==
  ASSUME NEW t \in Tracker, NEW u \in Tracker, u.count = t.count,
         \A i \in 1 .. t.count :
           u.rec[i].comp = t.rec[i].comp /\ u.rec[i].mod = t.rec[i].mod
  PROVE  /\ \A x : Number(u, x) = Number(t, x)
         /\ Exact(t) => Exact(u)
         /\ InOrder(t) => InOrder(u)
         /\ \A z : Complete(t, z) => Complete(u, z)
<1>1. \A x : Of(u, x) = Of(t, x)
  BY DEF Of
<1>2. \A x : Number(u, x) = Number(t, x)
  BY <1>1 DEF Number
<1>3. Exact(t) => Exact(u)
  <2>1. \A x : \A i \in Of(t, x) : u.rec[i].mod = t.rec[i].mod
    BY DEF Of
  <2> QED
    BY <1>1, <1>2, <2>1 DEF Exact
<1> QED
  BY <1>2, <1>3 DEF InOrder, Complete

\* A tracker with the same records and the version it had, or none.
LEMMA SoundKept ==
  ASSUME NEW t \in Tracker, NEW u \in Tracker, Sound(t), u.count = t.count,
         u.mv \in {t.mv, 0}, u.sure => t.sure,
         \A i \in 1 .. t.count :
           u.rec[i].comp = t.rec[i].comp /\ u.rec[i].mod = t.rec[i].mod
  PROVE  Sound(u)
BY SameRecords DEF Sound

\* Persistent memory keeps it, whatever becomes of a write.
LEMMA PersistSound ==
  ASSUME stored \in Tracker, Sound(stored), NEW t \in Tracker, Sound(t),
         Persist(t)
  PROVE  Sound(stored')
<1>1. Sound(NewTracker)
  BY NewTrackerIs, NoRecords
<1>2. Sound(Persisted(t))
  <2> DEFINE kept == [i \in 1 .. MaxRecords |->
                        IF i <= t.count THEN t.rec[i] ELSE Blank]
  <2>1. Persisted(t) = [t EXCEPT !.rec = kept]
    BY DEF Persisted
  <2>2. /\ Persisted(t).count = t.count /\ Persisted(t).mv = t.mv
        /\ Persisted(t).sure = t.sure /\ Persisted(t).rec = kept
    BY <2>1 DEF Tracker
  <2>3. \A i \in 1 .. t.count : kept[i] = t.rec[i]
    BY TrackerFields, DownloadAssumption
  <2> QED
    BY <2>2, <2>3, PersistedIs, SoundKept
<1> QED
  BY <1>1, <1>2 DEF Persist

\* The CRC of a record is no matter.
LEMMA WithCrcSound ==
  ASSUME TypeOK, ver \in Data
  PROVE  /\ WithCrc(tracker).sure = tracker.sure
         /\ \A i \in 1 .. tracker.count :
              /\ WithCrc(tracker).rec[i].comp = tracker.rec[i].comp
              /\ WithCrc(tracker).rec[i].mod = tracker.rec[i].mod
         /\ Sound(tracker) => Sound(WithCrc(tracker))
<1>1. /\ tracker \in Tracker /\ tracker.rec \in [1 .. MaxRecords -> Record]
      /\ slot \in 1 .. MaxRecords + 1 /\ MaxRecords \in Nat
      /\ tracker.count \in 0 .. MaxRecords
  BY TrackerFields, DownloadAssumption DEF TypeOK
<1>2. /\ WithCrc(tracker).sure = tracker.sure
      /\ \A i \in 1 .. tracker.count :
           /\ WithCrc(tracker).rec[i].comp = tracker.rec[i].comp
           /\ WithCrc(tracker).rec[i].mod = tracker.rec[i].mod
  <2>1. CASE slot <= MaxRecords
    <3> DEFINE r == [tracker.rec EXCEPT ![slot] = [@ EXCEPT !.crc = ver]]
    <3>1. WithCrc(tracker) = [tracker EXCEPT !.rec = r]
      BY <1>1, <2>1 DEF WithCrc
    <3>2. WithCrc(tracker).rec = r /\ WithCrc(tracker).sure = tracker.sure
      BY <1>1, <3>1 DEF Tracker
    <3>3. ASSUME NEW i \in 1 .. tracker.count
          PROVE  /\ r[i].comp = tracker.rec[i].comp
                 /\ r[i].mod = tracker.rec[i].mod
      <4>1. i \in 1 .. MaxRecords /\ tracker.rec[i] \in Record
        BY <1>1
      <4> QED
        BY <1>1, <4>1 DEF Record
    <3> QED
      BY <3>2, <3>3
  <2>2. CASE ~ (slot <= MaxRecords)
    BY <2>2 DEF WithCrc
  <2> QED
    BY <2>1, <2>2
<1> QED
  BY <1>1, <1>2, WithCrcIs, SoundKept

\* The record of a module adds one to the count of its component.
LEMMA RecordCounts ==
  ASSUME NEW t \in Tracker, t.count < MaxRecords, c \in Comps, m \in Nat
  PROVE  LET u == RecordModuleId(t)
         IN  /\ u.sure = t.sure
             /\ Number(u, c) = Number(t, c) + 1
             /\ \A x \in Comps \ {c} : Number(u, x) = Number(t, x)
             /\ Exact(t) /\ Number(t, c) = m /\ m < Mods[c] /\ c \in Compatible
                  => Exact(u)
<1> DEFINE u == RecordModuleId(t)
           n == t.count + 1
           r == [t.rec EXCEPT ![n] = [@ EXCEPT !.comp = c, !.mod = m]]
<1>1. /\ t.count \in Nat /\ MaxRecords \in Nat /\ n \in 1 .. MaxRecords
      /\ t.rec \in [1 .. MaxRecords -> Record]
  BY TrackerFields, DownloadAssumption
<1>2. u = [t EXCEPT !.count = n, !.rec = r]
  BY DEF RecordModuleId, Tracker
<1>3. u \in Tracker /\ u.count = n /\ u.rec = r /\ u.sure = t.sure
  BY <1>2, RecordModuleIdIs DEF Tracker
<1>4. r[n].comp = c /\ r[n].mod = m /\ \A i \in 1 .. t.count : r[i] = t.rec[i]
  <2>1. t.rec[n] \in Record
    BY <1>1
  <2> QED
    BY <1>1, <2>1 DEF Record
<1> HIDE DEF u, r
<1>5. Of(u, c) = Of(t, c) \cup {n}
  BY <1>1, <1>3, <1>4 DEF Of
<1>6. \A x \in Comps \ {c} : Of(u, x) = Of(t, x)
  BY <1>1, <1>3, <1>4 DEF Of
<1>7. Number(u, c) = Number(t, c) + 1
  <2>1. IsFiniteSet(Of(t, c))
    BY NumberType
  <2>2. n \notin Of(t, c)
    BY <1>1 DEF Of
  <2> QED
    BY <1>5, <2>1, <2>2, FS_AddElement DEF Number
<1>8. \A x \in Comps \ {c} : Number(u, x) = Number(t, x)
  BY <1>6 DEF Number
<1>9. ASSUME Exact(t), Number(t, c) = m, m < Mods[c], c \in Compatible
      PROVE  Exact(u)
  <2>1. \A x : \A i \in Of(t, x) : u.rec[i].mod = t.rec[i].mod
    BY <1>3, <1>4 DEF Of
  <2>2. ASSUME NEW y \in Nat
        PROVE  (\E i \in Of(u, c) : u.rec[i].mod = y) <=> y < m + 1
    <3>1. (\E i \in Of(t, c) : t.rec[i].mod = y) <=> y < m
      BY <1>9 DEF Exact
    <3>2. (\E i \in Of(u, c) : u.rec[i].mod = y) <=>
            (\E i \in Of(t, c) : t.rec[i].mod = y) \/ m = y
      BY <1>3, <1>4, <1>5, <2>1
    <3> QED
      BY <3>1, <3>2
  <2>3. m + 1 <= Mods[c]
    BY <1>9, DownloadAssumption
  <2>4. ASSUME NEW x \in Comps \ {c}, NEW y \in Nat
        PROVE  (\E i \in Of(u, x) : u.rec[i].mod = y) <=> y < Number(u, x)
    <3>1. (\E i \in Of(t, x) : t.rec[i].mod = y) <=> y < Number(t, x)
      BY <1>9 DEF Exact
    <3> QED
      BY <1>6, <1>8, <2>1, <3>1
  <2> QED
    BY <1>7, <1>8, <1>9, <2>2, <2>3, <2>4 DEF Exact
<1> QED
  BY <1>3, <1>7, <1>8, <1>9 DEF u

\* At first there is no record.
LEMMA InitCount == Init => CountInv
BY NewTrackerIs, NoRecords DEF Init, CountInv, Resuming, Recording, Closed

\* A session that ends leaves the trackers.
LEMMA EndCount ==
  ASSUME EndSession, Sound(tracker'), Sound(stored'), Closed' PROVE CountInv'
BY DEF EndSession, CountInv, Resuming, Recording

\* A session begins with what its version has recorded.
LEMMA StartCount ==
  ASSUME IInv, CountInv, NEW v \in Versions, Start(v) PROVE CountInv'
<1> DEFINE t == DownloadStart(v)
<1>1. /\ tracker' = [t EXCEPT !.sure = @ /\ cur = None]
      /\ pc' = "module" /\ ver' = v /\ stored' = stored
      /\ cur' \in (IF cur = None THEN {None} ELSE {cur, Dangling})
      /\ UNCHANGED <<c, m, remaining>>
  BY DEF Start
<1>2. v \in Data /\ tracker \in Tracker
  BY DownloadAssumption DEF Data, IInv, TypeOK
<1>3. t \in Tracker /\ t.mv = v /\ Sound(t)
  <2>1. CASE tracker.mv = v
    BY <1>2, <2>1 DEF DownloadStart, CountInv
  <2>2. CASE tracker.mv # v
    BY <1>2, <2>2, EmptiedIs, NoRecords DEF DownloadStart
  <2> QED
    BY <2>1, <2>2
<1> HIDE DEF t
<1>4. /\ tracker' \in Tracker /\ tracker'.mv = v /\ tracker'.count = t.count
      /\ tracker'.rec = t.rec
      /\ tracker'.sure => t.sure /\ cur = None
  BY <1>1, <1>3 DEF Tracker
<1>5. Sound(tracker') /\ Sound(stored')
  BY <1>1, <1>3, <1>4, SoundKept DEF CountInv
<1>6. c = 0 /\ m = 0 /\ remaining = FALSE
  BY DEF Start, IInv, Position, TypeOK
<1>7. Resuming'
  <2>1. Complete(tracker', 0)
    BY DownloadAssumption DEF Complete, Comps
  <2> QED
    BY <1>1, <1>4, <1>6, <2>1 DEF Resuming
<1>8. Recording'
  BY <1>1, <1>6 DEF Recording
<1>9. Closed'
  BY DownloadAssumption DEF Start, CountInv, Closed, None, Dangling
<1> QED
  BY <1>5, <1>7, <1>8, <1>9 DEF CountInv

\* The next component: this one is complete, or not to be downloaded.
LEMMA NextComponentCount ==
  ASSUME IInv, CountInv, NextComponent PROVE CountInv'
<1>1. /\ pc = "module" /\ c < NComp /\ (c \in Compatible => m = Mods[c])
      /\ c' = c + 1 /\ m' = 0
      /\ UNCHANGED <<stored, tracker, cur, written, pc, ver, remaining,
                     installed>>
  BY DEF NextComponent, disk
<1>2. /\ c \in Comps /\ tracker \in Tracker /\ Mods[c] \in Nat \ {0}
      /\ m \in Nat /\ Compatible \subseteq Comps /\ c \in Int
      /\ \A x \in Comps : x \in Int
  BY <1>1, DownloadAssumption DEF IInv, TypeOK, Comps
<1>3. ASSUME Complete(tracker, c),
             c \in Compatible => Number(tracker, c) = Mods[c]
      PROVE  Complete(tracker, c + 1)
  BY <1>2, <1>3 DEF Complete
<1>4. Resuming'
  <2> SUFFICES ASSUME tracker.sure, ~remaining PROVE Resuming'
    BY <1>1 DEF Resuming
  <2>1. /\ cur = None /\ tracker.mv = ver /\ Complete(tracker, c)
        /\ m # 0 => m <= Number(tracker, c)
    BY <1>1 DEF CountInv, Resuming
  <2>2. Number(tracker, c) \in Nat /\ Number(tracker, c) <= Mods[c]
    BY <1>2, NumberType DEF CountInv, Sound, Exact
  <2> QED
    BY <1>1, <1>2, <1>3, <2>1, <2>2 DEF Resuming
<1>5. Recording'
  <2> SUFFICES ASSUME tracker.sure, remaining PROVE Recording'
    BY <1>1 DEF Recording
  <2>1. /\ Number(tracker, c) = m /\ (tracker.mv # 0 => Complete(tracker, c))
        /\ \A x \in Comps : x > c => Number(tracker, x) = 0
        /\ cur \in {None, c} /\ (cur = c => c \in Compatible /\ m < Mods[c])
        /\ ~installed => c \in Compatible /\ m < Mods[c]
    BY <1>1, <1>2 DEF CountInv, Recording
  <2>2. cur = None
    <3> SUFFICES ASSUME cur = c PROVE FALSE
      BY <2>1
    <3> QED
      BY <1>1, <1>2, <2>1
  <2>3. \A x \in Comps : x > c + 1 => x > c
    BY <1>2
  <2>4. c + 1 \in Comps => Number(tracker, c + 1) = 0
    BY <1>2, <2>1
  <2>5. tracker.mv # 0 => Complete(tracker, c + 1)
    BY <1>1, <1>3, <2>1
  <2>6. installed
    BY <1>1, <1>2, <2>1
  <2> QED
    BY <1>1, <2>1, <2>2, <2>3, <2>4, <2>5, <2>6, DownloadAssumption
       DEF Recording, Comps, None
<1> QED
  BY <1>1, <1>4, <1>5 DEF CountInv, Closed

\* A module that is skipped has its record.
LEMMA SkipModuleCount ==
  ASSUME IInv, CountInv, SkipModule PROVE CountInv'
<1>1. /\ pc = "module" /\ c \in Compatible /\ m < Mods[c] /\ ~remaining
      /\ HasRecord(c, m) /\ m' = m + 1
      /\ UNCHANGED <<stored, tracker, cur, written, pc, ver, c, remaining>>
  BY DEF SkipModule, AtModule, Intact, disk
<1>2. c \in Comps /\ m \in Nat /\ tracker \in Tracker
  BY <1>1, DownloadAssumption DEF IInv, TypeOK
<1>3. tracker.sure => m < Number(tracker, c)
  <2>1. \E i \in Of(tracker, c) : tracker.rec[i].mod = m
    BY <1>1 DEF HasRecord, Matching, RecordsOf, Of
  <2> QED
    BY <1>2, <2>1 DEF CountInv, Sound, Exact
<1>4. Resuming'
  <2>1. Number(tracker, c) \in Nat
    BY <1>2, NumberType
  <2> QED
    BY <1>1, <1>2, <1>3, <2>1 DEF CountInv, Resuming
<1> QED
  BY <1>1, <1>4 DEF CountInv, Recording, Closed

\* A module is selected for download: it is the first that has no record, or
\* the tracker is no longer sure of its records, or has been cleared.
LEMMA SelectModuleCount ==
  ASSUME IInv, CountInv, SelectModule PROVE CountInv'
<1>1. /\ pc = "module" /\ pc' = "fetch" /\ c \in Compatible /\ m < Mods[c]
      /\ remaining' = TRUE
      /\ UNCHANGED <<cur, written, ver, c, m, installed>>
  BY DEF SelectModule, AtModule
<1>2. /\ c \in Comps /\ m \in Nat /\ tracker \in Tracker /\ stored \in Tracker
      /\ remaining \in BOOLEAN /\ Compatible \subseteq Comps
      /\ c \in Int /\ \A x \in Comps : x \in Int
  BY <1>1, DownloadAssumption DEF IInv, TypeOK, Comps
<1>3. CASE ~remaining /\ HasRecord(c, m)
  <2>0. cur = None
    <3>1. tracker.count # 0
      BY <1>3 DEF HasRecord, Matching, RecordsOf
    <3> QED
      BY <1>3, <3>1 DEF IInv, LeftOpen
  <2>1. CASE m = 0
    <3>1. tracker' = Emptied(0) /\ Persist(Emptied(0))
      BY <1>3, <2>1 DEF SelectModule
    <3>2. /\ Emptied(0) \in Tracker /\ Emptied(0).count = 0 /\ Emptied(0).mv = 0
      BY EmptiedIs DEF Data
    <3>3. Sound(tracker') /\ Sound(stored')
      BY <1>2, <3>1, <3>2, NoRecords, PersistSound DEF CountInv
    <3>4. \A x : Number(tracker', x) = 0
      BY <3>1, <3>2, NoRecords
    <3>5. Recording'
      BY <1>1, <1>2, <2>0, <2>1, <3>1, <3>2, <3>4, DownloadAssumption
         DEF Recording, Comps, None
    <3> QED
      BY <1>1, <3>3, <3>5 DEF CountInv, Resuming, Closed
  <2>2. CASE m # 0
    <3>1. tracker' = [tracker EXCEPT !.sure = FALSE] /\ stored' = stored
      BY <1>3, <2>2 DEF SelectModule
    <3>2. tracker'.sure = FALSE
      BY <1>2, <3>1 DEF Tracker
    <3> QED
      BY <1>1, <3>1, <3>2 DEF CountInv, Sound, Resuming, Recording, Closed
  <2> QED
    BY <2>1, <2>2
<1>4. CASE remaining
  BY <1>1, <1>4 DEF SelectModule, CountInv, Resuming, Recording, Closed
<1>5. CASE ~remaining /\ ~HasRecord(c, m)
  <2>1. tracker' = tracker /\ stored' = stored
    BY <1>5 DEF SelectModule
  <2>2. Recording'
    <3> SUFFICES ASSUME tracker.sure PROVE Recording'
      BY <2>1 DEF Recording
    <3>1. /\ cur = None /\ tracker.mv = ver /\ Complete(tracker, c)
          /\ m # 0 => m <= Number(tracker, c)
      BY <1>1, <1>5 DEF CountInv, Resuming
    <3>2. Exact(tracker) /\ InOrder(tracker)
      <4>1. ver # 0
        BY <1>1, DownloadAssumption DEF IInv, Position
      <4> QED
        BY <3>1, <4>1 DEF CountInv, Sound
    <3>3. Number(tracker, c) \in Nat
      BY <1>2, NumberType
    <3>4. Number(tracker, c) = m
      <4>1. ~ (m < Number(tracker, c))
        <5>1. ~ \E i \in Of(tracker, c) : tracker.rec[i].mod = m
          BY <1>5 DEF HasRecord, Matching, RecordsOf, Of
        <5> QED
          BY <1>2, <3>2, <5>1 DEF Exact
      <4> QED
        BY <1>2, <3>1, <3>3, <4>1
    <3>5. \A x \in Comps : x > c => Number(tracker, x) = 0
      <4>1. Number(tracker, c) # Mods[c]
        BY <1>1, <1>2, <3>4, DownloadAssumption
      <4> QED
        BY <1>1, <1>2, <3>2, <4>1 DEF InOrder, Complete
    <3> QED
      BY <1>1, <1>2, <2>1, <3>1, <3>4, <3>5, DownloadAssumption
         DEF Recording, Comps, None
  <2> QED
    BY <1>1, <2>1, <2>2 DEF CountInv, Resuming, Closed
<1> QED
  BY <1>2, <1>3, <1>4, <1>5

\* The ways in which a session breaks off.
LEMMA FailuresCount ==
  ASSUME IInv, CountInv, FetchFails \/ BadHash \/ InstallFails \/ RecordFails
  PROVE  CountInv'
<1>1. pc = "fetch"
  BY DEF FetchFails, BadHash, InstallFails, RecordFails
<1>2. /\ tracker \in Tracker /\ stored \in Tracker /\ ver \in Data
      /\ Sound(tracker) /\ Sound(stored) /\ TypeOK
  BY <1>1, Fetching DEF IInv, TypeOK, CountInv
<1>3. ASSUME NEW f, NEW t \in Tracker, Sound(t), Fail(f, t) PROVE CountInv'
  <2>1. tracker' = t /\ Persist(t) /\ EndSession /\ Closed'
    BY <1>3 DEF Fail, Closed
  <2> QED
    BY <1>2, <1>3, <2>1, PersistSound, EndCount
<1>4. CASE FetchFails
  BY <1>2, <1>3, <1>4 DEF FetchFails
<1>5. CASE BadHash
  <2>1. CASE RetriesLeft = 0
    BY <1>2, <1>3, <1>5, <2>1 DEF BadHash
  <2>2. CASE RetriesLeft # 0
    BY <1>1, <1>5, <2>2
       DEF BadHash, disk, CountInv, Sound, Resuming, Recording, Closed
  <2> QED
    BY <2>1, <2>2
<1>6. CASE InstallFails
  BY <1>2, <1>3, <1>6 DEF InstallFails
<1>7. CASE RecordFails
  BY <1>2, <1>3, <1>7, WithCrcIs, WithCrcSound DEF RecordFails
<1> QED
  BY <1>4, <1>5, <1>6, <1>7

\* A module is installed: the count it finds, in the open file or in the
\* tracker, is that of the modules before it.
LEMMA InstallCount == ASSUME IInv, CountInv, Install PROVE CountInv'
<1>1. /\ pc = "fetch" /\ pc' = "module" /\ m' = m + 1
      /\ UNCHANGED <<stored, ver, c, remaining>>
      /\ tracker' = RecordModuleId(WithCrc(tracker))
      /\ tracker.count < MaxRecords
  BY DEF Install
<1>2. /\ c \in Comps /\ c \in Compatible /\ m \in Nat /\ m < Mods[c]
      /\ ver \in Data /\ remaining /\ tracker \in Tracker /\ TypeOK
      /\ Mods[c] \in Nat /\ Compatible \subseteq Comps
      /\ c \in Int /\ \A x \in Comps : x \in Int
  BY <1>1, Fetching, DownloadAssumption DEF IInv, Comps
<1> DEFINE t == WithCrc(tracker)
<1>3. /\ t \in Tracker /\ t.mv = tracker.mv /\ t.count = tracker.count
      /\ t.sure = tracker.sure
      /\ \A i \in 1 .. tracker.count :
           /\ t.rec[i].comp = tracker.rec[i].comp
           /\ t.rec[i].mod = tracker.rec[i].mod
  BY <1>2, WithCrcIs, WithCrcSound
<1>4. /\ tracker' = RecordModuleId(t) /\ t.count < MaxRecords
      /\ tracker' \in Tracker /\ tracker'.mv = tracker.mv
      /\ tracker'.sure = tracker.sure
  BY <1>1, <1>2, <1>3, RecordModuleIdIs, RecordCounts
<1>c. Closed'
  BY <1>2, DownloadAssumption DEF Install, Closed, None, Comps
<1> HIDE DEF t
<1>5. CASE ~tracker.sure
  BY <1>1, <1>4, <1>5, <1>c DEF CountInv, Sound, Resuming, Recording
<1>6. CASE tracker.sure
  <2>1. /\ Number(tracker, c) = m
        /\ \A x \in Comps : x > c => Number(tracker, x) = 0
        /\ tracker.mv # 0 => Complete(tracker, c)
        /\ cur \in {None, c} /\ (cur = c => written = m)
    BY <1>1, <1>2, <1>6 DEF CountInv, Recording
  <2>2. Exact(tracker) /\ (tracker.mv # 0 => InOrder(tracker))
    BY <1>6 DEF CountInv, Sound
  <2>3. /\ \A x : Number(t, x) = Number(tracker, x)
        /\ Exact(t)
    BY <1>2, <1>3, <2>2, SameRecords
  <2>4. /\ Number(tracker', c) = m + 1 /\ Exact(tracker')
        /\ \A x \in Comps \ {c} : Number(tracker', x) = Number(tracker, x)
    BY <1>2, <1>3, <1>4, <2>1, <2>3, RecordCounts
  <2>5. tracker.mv # 0 => Complete(tracker', c)
    BY <1>2, <2>1, <2>4 DEF Complete
  <2>6. tracker.mv # 0 => InOrder(tracker')
    <3> SUFFICES ASSUME tracker.mv # 0, NEW z \in Comps,
                        Number(tracker', z) # 0
                 PROVE  Complete(tracker', z)
      BY DEF InOrder
    <3>1. CASE z = c
      BY <2>5, <3>1
    <3>2. CASE z # c
      <4>1. Number(tracker, z) # 0 /\ z < c
        BY <1>2, <2>1, <2>4, <3>2
      <4>2. Complete(tracker, z)
        BY <2>2, <4>1 DEF InOrder
      <4> QED
        BY <1>2, <2>4, <4>1, <4>2 DEF Complete
    <3> QED
      BY <3>1, <3>2
  <2>7. /\ cur' \in {None, c}
        /\ cur' = c => written' = m + 1 /\ m + 1 < Mods[c]
        /\ m + 1 < Mods[c] \/ installed'
    <3>1. PICK o \in Openings :
            LET w == Counted(o.written + 1)
            IN  /\ cur' = IF w = Mods[c] THEN None ELSE c
                /\ written' = IF w = Mods[c] THEN 0 ELSE w
                /\ installed' = (installed \/ w = Mods[c])
      BY DEF Install
    <3>2. o.written = m
      <4>1. CASE cur = c
        BY <2>1, <4>1 DEF Openings, Opening
      <4>2. CASE cur # c
        <5>1. cur = None /\ CountMods(c) = {m}
          <6>1. tracker.count \in Nat /\ MaxRecords \in Nat
            BY <1>2, TrackerFields, DownloadAssumption
          <6>2. Cardinality(RecordsOf(c)) = m
            BY <2>1 DEF RecordsOf, Number, Of
          <6> QED
            BY <1>1, <2>1, <4>2, <6>1, <6>2 DEF CountMods
        <5>2. Counted(m) = m
          BY <1>2 DEF Counted
        <5> QED
          BY <4>2, <5>1, <5>2 DEF Openings, Opening
      <4> QED
        BY <4>1, <4>2
    <3>3. Counted(o.written + 1) = m + 1
      BY <1>2, <3>2 DEF Counted
    <3>4. c # None
      BY <1>2, DownloadAssumption DEF None, Comps
    <3>5. CASE m + 1 = Mods[c]
      BY <3>1, <3>3, <3>4, <3>5
    <3>6. CASE m + 1 # Mods[c]
      BY <1>2, <3>1, <3>3, <3>6
    <3> QED
      BY <3>5, <3>6
  <2>8. Sound(tracker') /\ Sound(stored')
    BY <1>1, <1>4, <2>4, <2>6 DEF Sound, CountInv
  <2>9. \A x \in Comps : x > c => Number(tracker', x) = 0
    BY <1>2, <2>1, <2>4
  <2>10. Recording'
    BY <1>1, <1>2, <1>4, <2>4, <2>5, <2>7, <2>9 DEF Recording
  <2> QED
    BY <1>1, <1>2, <1>c, <2>8, <2>10 DEF CountInv, Resuming
<1> QED
  BY <1>5, <1>6

\* The end of a session, the writes to persistent memory outside of one, and
\* a restart.
LEMMA FinishCount == ASSUME IInv, CountInv, Finish PROVE CountInv'
<1>1. /\ tracker' = Emptied(0) /\ Persist(Emptied(0)) /\ EndSession
      /\ UNCHANGED <<cur, written>>
  BY DEF Finish
<1>2. Emptied(0) \in Tracker /\ Emptied(0).count = 0
  BY EmptiedIs DEF Data
<1> QED
  BY <1>1, <1>2, NoRecords, PersistSound, EndCount
     DEF IInv, TypeOK, CountInv, Closed

LEMMA PersistCount ==
  ASSUME IInv, CountInv, StartFails \/ OtherPersist PROVE CountInv'
<1>1. Persist(tracker) /\ UNCHANGED <<tracker, cur, written, pc, session>>
  BY DEF StartFails, OtherPersist
<1>2. Sound(stored')
  BY <1>1, PersistSound DEF IInv, TypeOK, CountInv
<1> QED
  BY <1>1, <1>2 DEF CountInv, Sound, Resuming, Recording, Closed, session

LEMMA CrashCount == ASSUME IInv, CountInv, NEW lost, Crash(lost) PROVE CountInv'
<1>1. /\ stored' \in {stored, NewTracker} /\ tracker' = stored' /\ EndSession
      /\ Closed'
  BY DEF Crash, Closed
<1>2. Sound(stored')
  BY <1>1, NewTrackerIs, NoRecords DEF CountInv
<1> QED
  BY <1>1, <1>2, EndCount

\* Every step preserves it.
LEMMA NextCount == IInv /\ CountInv /\ [Next]_vars => CountInv'
<1> SUFFICES ASSUME IInv, CountInv, [Next]_vars PROVE CountInv'
  OBVIOUS
<1>1. ASSUME NEW v \in Versions, Start(v) PROVE CountInv'
  BY <1>1, StartCount
<1>2. CASE StartFails \/ OtherPersist
  BY <1>2, PersistCount
<1>3. CASE Worker
  BY <1>3, NextComponentCount, SkipModuleCount, SelectModuleCount,
     FailuresCount, InstallCount, FinishCount DEF Worker
<1>4. ASSUME NEW lost, Crash(lost) PROVE CountInv'
  BY <1>4, CrashCount
<1>5. CASE UNCHANGED vars
  BY <1>5 DEF vars, CountInv, Sound, Resuming, Recording, Closed
<1> QED
  BY <1>1, <1>2, <1>3, <1>4, <1>5 DEF Next

\* As long as no check of a recorded module has failed, the count that closes
\* a component's file is the number of its modules that are there, across
\* sessions, restarts and failed writes; and a session that has downloaded
\* ends with no file open and the update announced.
THEOREM CountsStayRight == Spec => []CountsAgree
<1>1. ASSUME IInv, CountInv PROVE CountsAgree
  <2>1. c \in 0 .. NComp /\ Compatible \subseteq Comps /\ NComp \in Nat
        /\ remaining \in BOOLEAN /\ cur \in Comps \cup {None, Dangling}
    BY <1>1, DownloadAssumption DEF IInv, TypeOK
  <2>2. CountExact
    BY <1>1, <2>1
       DEF CountInv, Resuming, Recording, Closed, CountExact, Comps, None,
           Dangling
  <2>3. FinishClean
    BY <1>1, <2>1 DEF CountInv, Resuming, Recording, FinishClean, Comps, None
  <2> QED
    BY <2>2, <2>3 DEF CountsAgree
<1> QED
  BY <1>1, Invariance, InitCount, NextCount, PTL DEF Spec
-----------------------------------------------------------------------------
(* The worker keeps the promise of UpdateDelivery: every step is one of its *)
(* steps or leaves what it speaks of alone.                                *)

\* The state UpdateDelivery speaks of.
target == IF pc = "idle" THEN 0 ELSE ver
Same == Content' = Content /\ target' = target /\ result' = result

\* A session that breaks off from a fetch, its files being f.
LEMMA FailDelivers ==
  ASSUME IInv, pc = "fetch", NEW f \in [Slots -> Data], NEW t, Fail(f, t),
         NEW last \in Slots,
         \A s \in Slots \ {last} : f[s] \in {Content[s], 0, ver}
  PROVE  Delivery!Fail
<1>1. /\ pc' = "idle" /\ result' = "failed" /\ file' = f /\ tail' = NoTail
  BY DEF Fail, EndSession
<1>2. Content' = f
  BY <1>1 DEF Content, Flushed, NoTail
<1>3. f \in [Slots -> Delivery!Data]
  BY DEF Data, Delivery!Data
<1>4. f \in Delivery!Broken(Slots)
  BY <1>3 DEF Delivery!Broken, Delivery!MayHold
<1> QED
  BY <1>1, <1>2, <1>4 DEF Delivery!Fail

\* An error return loses or adds data only where the promise allows it.
LEMMA FailuresDeliver ==
  ASSUME IInv, FetchFails \/ BadHash \/ InstallFails \/ RecordFails
  PROVE  Delivery!Fail \/ Same
<1>1. pc = "fetch"
  BY DEF FetchFails, BadHash, InstallFails, RecordFails
<1>2. ASSUME NEW f \in Leftovers, Fail(f, tracker) PROVE Delivery!Fail
  <2>1. /\ f \in [Slots -> Data] /\ tail.slot \in Slots
        /\ \A s \in Slots \ {tail.slot} : f[s] = Content[s]
    BY LeftoversAre DEF IInv, TypeOK
  <2> QED
    BY <1>1, <1>2, <2>1, FailDelivers
<1>3. CASE FetchFails
  BY <1>2, <1>3 DEF FetchFails
<1>4. CASE BadHash
  <2>1. CASE RetriesLeft = 0
    BY <1>2, <1>4, <2>1 DEF BadHash
  <2>2. CASE RetriesLeft # 0
    BY <1>1, <1>4, <2>2
       DEF BadHash, Same, target, Content, Flushed, disk
  <2> QED
    BY <2>1, <2>2
<1>5. ASSUME NEW o \in Openings, NEW d \in {o.file[<<c, m>>], 0, ver}, NEW t,
             Fail([o.file EXCEPT ![<<c, m>>] = d], t)
      PROVE  Delivery!Fail
  <2> DEFINE f == [o.file EXCEPT ![<<c, m>>] = d]
  <2>1. /\ o.file \in [Slots -> Data] /\ <<c, m>> \in Slots /\ ver \in Data
        /\ \A s \in Slots : o.file[s] \in {Content[s], 0}
    BY <1>1, Fetching, OpeningsAre DEF IInv
  <2>2. f \in [Slots -> Data]
    BY <2>1 DEF Data
  <2>3. \A s \in Slots \ {<<c, m>>} : f[s] \in {Content[s], 0, ver}
    BY <2>1
  <2> HIDE DEF f
  <2>4. Fail(f, t)
    BY <1>5 DEF f
  <2> QED
    BY <1>1, <2>1, <2>2, <2>3, <2>4, FailDelivers
<1>6. CASE InstallFails
  BY <1>5, <1>6 DEF InstallFails
<1>7. CASE RecordFails
  BY <1>5, <1>7 DEF RecordFails
<1> QED
  BY <1>3, <1>4, <1>6, <1>7

\* An installed module is a write of its place.
LEMMA InstallDelivers ==
  ASSUME IInv, Install PROVE Delivery!Write(<<c, m>>)
<1>1. pc = "fetch" /\ pc' = "module" /\ ver' = ver /\ result' = result
  BY DEF Install
<1>2. PICK o \in Openings : Content' = [o.file EXCEPT ![<<c, m>>] = ver]
  BY InstallWrites
<1>3. /\ o.file \in [Slots -> Data] /\ <<c, m>> \in Slots
      /\ ver \in Data /\ ver # 0
      /\ \A s \in Slots : o.file[s] \in {Content[s], 0}
  BY <1>1, Fetching, OpeningsAre DEF IInv
<1>4. /\ Content' \in [Slots -> Data] /\ Content'[<<c, m>>] = ver
      /\ \A s \in Slots : s # <<c, m>> => Content'[s] \in {Content[s], 0}
  BY <1>2, <1>3
<1>5. Content' \in Delivery!Changed({<<c, m>>})
  BY <1>1, <1>4
     DEF Delivery!Changed, Delivery!MayHold, Delivery!Data, Data
<1> QED
  BY <1>1, <1>3, <1>4, <1>5 DEF Delivery!Write

\* A session that ends well has passed all that is wanted.
LEMMA FinishDelivers ==
  ASSUME IInv, Finish PROVE Delivery!Succeed \/ Delivery!Fail
<1>1. /\ pc = "module" /\ c = NComp /\ pc' = "idle" /\ ver \in Versions
      /\ UNCHANGED <<file, cur, written, tail>>
      /\ result' \in {"installed", "failed", "complete"}
  BY DEF Finish, EndSession, IInv, Position
<1>2. Content' = Content
  BY <1>1 DEF Content, Flushed
<1>3. \A s \in Wanted : Content[s] = ver
  <2> SUFFICES ASSUME NEW s \in Wanted PROVE s \in Passed
    BY <1>1 DEF IInv, PrefixIntact
  <2>1. s[1] \in 0 .. NComp - 1
    BY SlotsMember DEF Wanted, Comps
  <2> QED
    BY <1>1, <2>1, DownloadAssumption DEF Passed
<1>4. CASE result' \in {"installed", "complete"}
  <2>1. ver # 0
    BY <1>1, DownloadAssumption
  <2> QED
    BY <1>1, <1>2, <1>3, <1>4, <2>1 DEF Delivery!Succeed, Delivery!Delivered
<1>5. CASE result' = "failed"
  <2>1. Content \in [Slots -> Delivery!Data] /\ <<0, 0>> \in Slots
    BY ContentType, FirstSlot DEF IInv, Data, Delivery!Data
  <2>2. Content' \in Delivery!Broken(Slots)
    BY <1>2, <2>1 DEF Delivery!Broken, Delivery!MayHold
  <2> QED
    BY <1>1, <1>5, <2>2 DEF Delivery!Fail
<1> QED
  BY <1>1, <1>4, <1>5

\* The start of a session, a start that fails, and a restart.
LEMMA StartDelivers ==
  ASSUME IInv, NEW v \in Versions, Start(v) PROVE Delivery!Begin(v)
<1>1. Content' = Content
  BY DEF Start, Content, Flushed
<1> QED
  BY <1>1 DEF Start, Delivery!Begin

LEMMA StartFailsDelivers == ASSUME IInv, StartFails PROVE Delivery!Fail
<1>1. /\ pc' = "idle" /\ result' = "failed" /\ Content' = Content
  BY DEF StartFails, Content, Flushed
<1>2. Content \in [Slots -> Delivery!Data] /\ <<0, 0>> \in Slots
  BY ContentType, FirstSlot DEF IInv, Data, Delivery!Data
<1>3. Content' \in Delivery!Broken(Slots)
  BY <1>1, <1>2 DEF Delivery!Broken, Delivery!MayHold
<1> QED
  BY <1>1, <1>3 DEF Delivery!Fail

LEMMA CrashDelivers == ASSUME IInv, NEW lost, Crash(lost) PROVE Delivery!Crash
<1>1. /\ file' = [s \in Slots |-> IF s \in lost THEN 0 ELSE file[s]]
      /\ tail' = NoTail /\ pc' = "idle" /\ result' = "none"
  BY DEF Crash, EndSession
<1>2. Content' = file'
  BY <1>1 DEF Content, Flushed, NoTail
<1>3. /\ file \in [Slots -> Data] /\ tail.slot \in Slots
      /\ \A s \in Slots \ {tail.slot} : file[s] = Content[s]
  BY ContentType DEF IInv, TypeOK
<1>4. file' \in [Slots -> Delivery!Data]
  BY <1>1, <1>3 DEF Data, Delivery!Data
<1>5. \A s \in Slots \ {tail.slot} : file'[s] \in {Content[s], 0}
  BY <1>1, <1>3
<1>6. file' \in Delivery!Broken({})
  BY <1>3, <1>4, <1>5 DEF Delivery!Broken, Delivery!MayHold
<1> QED
  BY <1>1, <1>2, <1>6 DEF Delivery!Crash

\* The other steps are not seen.
LEMMA OthersStutter ==
  ASSUME IInv, \/ NextComponent \/ SkipModule \/ SelectModule \/ OtherPersist
               \/ UNCHANGED vars
  PROVE  Same
<1>1. UNCHANGED <<file, tail, ver, result>> /\ (pc = "idle") = (pc' = "idle")
  <2>1. CASE NextComponent
    BY <2>1 DEF NextComponent, disk
  <2>2. CASE SkipModule
    BY <2>2 DEF SkipModule, AtModule, disk
  <2>3. CASE SelectModule
    BY <2>3 DEF SelectModule, AtModule
  <2>4. CASE OtherPersist
    BY <2>4 DEF OtherPersist, session
  <2>5. CASE UNCHANGED vars
    BY <2>5 DEF vars
  <2> QED
    BY <2>1, <2>2, <2>3, <2>4, <2>5
<1> QED
  BY <1>1 DEF Same, target, Content, Flushed

\* Every step is a step of UpdateDelivery or is not seen.
LEMMA NextDelivers == IInv /\ [Next]_vars => [Delivery!Next]_Delivery!vars
<1> SUFFICES ASSUME IInv, [Next]_vars PROVE Delivery!Next \/ Same
  BY DEF Delivery!vars, Same, target
<1>1. ASSUME NEW v \in Versions, Start(v) PROVE Delivery!Next
  BY <1>1, StartDelivers DEF Delivery!Next
<1>2. CASE StartFails
  BY <1>2, StartFailsDelivers DEF Delivery!Next
<1>3. CASE FetchFails \/ BadHash \/ InstallFails \/ RecordFails
  BY <1>3, FailuresDeliver DEF Delivery!Next
<1>4. CASE Install
  <2>1. <<c, m>> \in Slots
    BY <1>4, Fetching DEF Install
  <2> QED
    BY <1>4, <2>1, InstallDelivers DEF Delivery!Next
<1>5. CASE Finish
  BY <1>5, FinishDelivers DEF Delivery!Next
<1>6. ASSUME NEW lost, Crash(lost) PROVE Delivery!Next
  BY <1>6, CrashDelivers DEF Delivery!Next
<1>7. CASE \/ NextComponent \/ SkipModule \/ SelectModule \/ OtherPersist
           \/ UNCHANGED vars
  BY <1>7, OthersStutter
<1> QED
  BY <1>1, <1>2, <1>3, <1>4, <1>5, <1>6, <1>7 DEF Next, Worker

\* The worker delivers updates as UpdateDelivery promises: a device is told
\* that the update is there only when all that it wants of it is.
THEOREM WorkerDelivers == Spec => Delivers
<1>1. Init => Delivery!Init
  <2> SUFFICES ASSUME Init PROVE Delivery!Init
    OBVIOUS
  <2>1. Content = file
    BY DEF Init, NoTail, Content, Flushed
  <2> QED
    BY <2>1 DEF Init, Delivery!Init
<1> QED
  BY <1>1, NextDelivers, Invariance, PTL DEF Spec, Delivers, Delivery!Spec

-----------------------------------------------------------------------------
(* What follows from the promise, whoever keeps it.                        *)

\* The places hold data of an offered version or none, whatever is lost,
\* delivered or broken off.
THEOREM DeliveryTypeCorrect == Delivery!Spec => []Delivery!TypeOK
<1>1. Delivery!Init => Delivery!TypeOK
  BY DEF Delivery!Init, Delivery!TypeOK, Delivery!Data
<1>2. Delivery!TypeOK /\ [Delivery!Next]_Delivery!vars => Delivery!TypeOK'
  <2> SUFFICES ASSUME Delivery!TypeOK, [Delivery!Next]_Delivery!vars
               PROVE  Delivery!TypeOK'
    OBVIOUS
  <2>1. ASSUME NEW v \in Versions, Delivery!Begin(v) PROVE Delivery!TypeOK'
    BY <2>1 DEF Delivery!TypeOK, Delivery!Begin, Delivery!Data
  <2>2. ASSUME NEW s \in Slots, Delivery!Write(s) PROVE Delivery!TypeOK'
    BY <2>2 DEF Delivery!TypeOK, Delivery!Write, Delivery!Changed
  <2>3. CASE Delivery!Succeed
    BY <2>3 DEF Delivery!TypeOK, Delivery!Succeed, Delivery!Data
  <2>4. CASE Delivery!Fail
    BY <2>4 DEF Delivery!TypeOK, Delivery!Fail, Delivery!Broken, Delivery!Data
  <2>5. CASE Delivery!Crash
    BY <2>5 DEF Delivery!TypeOK, Delivery!Crash, Delivery!Broken, Delivery!Data
  <2>6. CASE UNCHANGED Delivery!vars
    BY <2>6 DEF Delivery!TypeOK, Delivery!vars
  <2> QED
    BY <2>1, <2>2, <2>3, <2>4, <2>5, <2>6 DEF Delivery!Next
<1> QED
  BY <1>1, <1>2, PTL DEF Delivery!Spec

\* A device told that the update is there holds one version in all the wanted
\* places.  Inductive together with the type: a write needs a session under
\* way, and there is none while the outcome stands.
THEOREM DeliversOneVersion == Delivery!Spec => []Delivery!OneVersion
<1>1. Delivery!Init => Delivery!OneVersion
  BY DEF Delivery!Init, Delivery!OneVersion
<1>2. Delivery!TypeOK /\ Delivery!OneVersion /\ [Delivery!Next]_Delivery!vars
        => Delivery!OneVersion'
  <2> SUFFICES ASSUME Delivery!TypeOK, Delivery!OneVersion,
                      [Delivery!Next]_Delivery!vars
               PROVE  Delivery!OneVersion'
    OBVIOUS
  <2>1. ASSUME NEW v \in Versions, Delivery!Begin(v) PROVE Delivery!OneVersion'
    BY <2>1 DEF Delivery!OneVersion, Delivery!Begin
  <2>2. ASSUME NEW s \in Slots, Delivery!Write(s) PROVE Delivery!OneVersion'
    BY <2>2 DEF Delivery!OneVersion, Delivery!Write
  <2>3. CASE Delivery!Succeed
    BY <2>3 DEF Delivery!TypeOK, Delivery!OneVersion, Delivery!Succeed,
                Delivery!Delivered, Delivery!Data
  <2>4. CASE Delivery!Fail
    BY <2>4 DEF Delivery!OneVersion, Delivery!Fail
  <2>5. CASE Delivery!Crash
    BY <2>5 DEF Delivery!OneVersion, Delivery!Crash
  <2>6. CASE UNCHANGED Delivery!vars
    BY <2>6 DEF Delivery!OneVersion, Delivery!vars
  <2> QED
    BY <2>1, <2>2, <2>3, <2>4, <2>5, <2>6 DEF Delivery!Next
<1> QED
  BY <1>1, <1>2, DeliveryTypeCorrect, PTL DEF Delivery!Spec

\* Hence a device that was told the update is there holds one version of it,
\* never a mixture of an old download and a new one.
THEOREM WorkerDeliversOneVersion == Spec => []Delivery!OneVersion
BY WorkerDelivers, DeliversOneVersion DEF Delivers
=============================================================================
