--------------------------- MODULE PersistProofs ---------------------------
(***************************************************************************)
(* Proofs about the journal, in memory and on disk: for any ring, any disk *)
(* and partition, any number of entries and of power cycles, and wherever  *)
(* the power goes out or the device gives up.                              *)
(***************************************************************************)
EXTENDS Persist, Numbers, FiniteSetTheorems, SequenceTheorems

-----------------------------------------------------------------------------
(* The ring. *)

Slot == 0..(CAPACITY - 1)

RingTyped ==
  /\ next_sequence \in Nat \ {0} /\ boot \in Nat
  /\ ring \in [Slot -> {Empty} \cup [sequence : Nat, what : Nat]]

(* What for_each walks over is where it looks for it, and of this boot. *)
RingKept ==
  /\ RingTyped
  /\ \A s \in first_retained..written :
       ring[slot_of(s)] \in [sequence : {s}, what : {boot}]

(* Sequence numbers less than a ring apart lie in different slots. *)
LEMMA SlotsApart ==
  ASSUME NEW s \in Nat \ {0}, NEW t \in Nat \ {0}, s < t, t - s < CAPACITY
  PROVE  slot_of(s) # slot_of(t)
<1> SUFFICES ASSUME slot_of(s) = slot_of(t)  PROVE FALSE
  OBVIOUS
<1>1. CAPACITY \in Nat \ {0} /\ s - 1 \in Nat /\ t - 1 \in Nat
  BY CapacityAssumption
<1>2. PICK q \in Nat : s - 1 = CAPACITY * q + slot_of(s)
  BY <1>1, Division DEF slot_of
<1>3. PICK p \in Nat : t - 1 = CAPACITY * p + slot_of(t)
  BY <1>1, Division DEF slot_of
<1>4. slot_of(s) \in Int
  BY <1>1, Division DEF slot_of
<1>5. PICK d \in Int : d = p - q
  OBVIOUS
<1>6. t - s = CAPACITY * d
  <2>1. CAPACITY * p - CAPACITY * q = CAPACITY * (p - q)
    BY <1>1
  <2> QED
    BY <1>1, <1>2, <1>3, <1>4, <1>5, <2>1
<1>7. d >= 1 => CAPACITY * d >= CAPACITY
  BY <1>1
<1>8. d <= 0 => CAPACITY * d <= 0
  BY <1>1
<1> QED
  BY <1>1, <1>6, <1>7, <1>8

LEMMA SlotInRing == \A s \in Nat \ {0} : slot_of(s) \in Slot
<1>1. ASSUME NEW s \in Nat \ {0}  PROVE slot_of(s) \in Slot
  <2>1. s - 1 \in Nat /\ CAPACITY \in Nat \ {0}
    BY CapacityAssumption
  <2> QED
    BY <2>1, Division DEF slot_of, Slot
<1> QED
  BY <1>1

(* What for_each visits: no gap, oldest first. *)
LEMMA Visits ==
  ASSUME RingKept
  PROVE  /\ first_retained \in Nat \ {0} /\ written \in Nat
         /\ written - first_retained + 1 = (IF written < CAPACITY THEN written ELSE CAPACITY)
         /\ for_each = [i \in 1..(written - first_retained + 1) |->
                          ring[slot_of(first_retained + i - 1)]]
<1> DEFINE f == first_retained
           w == written
           at(s) == ring[slot_of(s)]
           held == {s \in f..w : at(s).sequence = s}
           nth(i) == CHOOSE s \in held : Cardinality({t \in held : t <= s}) = i
<1>1. /\ f \in Nat \ {0} /\ w \in Nat /\ f <= w + 1
      /\ w - f + 1 = (IF w < CAPACITY THEN w ELSE CAPACITY)
  BY CapacityAssumption DEF RingKept, RingTyped, first_retained, written
<1>2. \A s \in f..w : at(s).sequence = s
  BY DEF RingKept
<1> HIDE DEF f, w, at
<1>3. held = f..w
  BY <1>1, <1>2
<1>4. Cardinality(held) = w - f + 1
  <2>1. Cardinality(f..w) = IF f > w THEN 0 ELSE w - f + 1
    BY <1>1, FS_Interval
  <2>2. Cardinality(held) = Cardinality(f..w)
    BY <1>3
  <2> HIDE DEF held
  <2> QED
    BY ONLY <1>1, <2>1, <2>2, f \in Int, w \in Int
<1> HIDE DEF held
<1>5. ASSUME NEW s \in f..w  PROVE Cardinality({t \in held : t <= s}) = s - f + 1
  <2>1. {t \in held : t <= s} = f..s
    BY <1>1, <1>3
  <2>2. Cardinality(f..s) = IF f > s THEN 0 ELSE s - f + 1
    BY <1>1, FS_Interval
  <2>3. f <= s
    BY <1>1
  <2>4. Cardinality({t \in held : t <= s}) = Cardinality(f..s)
    BY <2>1
  <2> QED
    BY ONLY <1>1, <2>2, <2>3, <2>4, s \in f..w
<1>6. ASSUME NEW i \in 1..(w - f + 1)  PROVE nth(i) = f + i - 1
  <2>1. f + i - 1 \in f..w /\ (f + i - 1) - f + 1 = i
    BY <1>1
  <2>2. \A s \in held : Cardinality({t \in held : t <= s}) = i <=> s = f + i - 1
    <3>1. \A s \in f..w : s - f + 1 = i <=> s = f + i - 1
      BY <1>1
    <3> QED
      BY <1>3, <1>5, <3>1
  <2> QED
    BY <1>3, <2>1, <2>2
<1>7. for_each = [i \in 1..Cardinality(held) |-> at(nth(i))]
  BY DEF for_each, held, at, f, w
<1> HIDE DEF nth
<1>8. for_each = [i \in 1..(w - f + 1) |-> at(f + i - 1)]
  BY <1>4, <1>6, <1>7
<1> QED
  BY <1>1, <1>8 DEF f, w, at

(* An entry joins, over the oldest if there is no room. *)
LEMMA RecordKeeps ==
  ASSUME RingKept, record(boot), UNCHANGED boot
  PROVE  RingKept'
<1> DEFINE n == next_sequence
           x == [sequence |-> n, what |-> boot]
<1>1. /\ n \in Nat \ {0} /\ ring \in [Slot -> {Empty} \cup [sequence : Nat, what : Nat]]
      /\ boot \in Nat
  BY DEF RingKept, RingTyped
<1>2. ring' = [ring EXCEPT ![slot_of(n)] = x] /\ next_sequence' = n + 1
  BY DEF record
<1>3. slot_of(n) \in Slot
  BY <1>1, SlotInRing
<1>4. x \in [sequence : Nat, what : Nat] /\ x \in [sequence : {n}, what : {boot}]
  BY <1>1
<1> HIDE DEF x
<1>5. RingTyped'
  BY <1>1, <1>2, <1>3, <1>4 DEF RingTyped
<1>6. /\ written' = n /\ written = n - 1
      /\ first_retained' = IF n > CAPACITY THEN n - CAPACITY + 1 ELSE 1
      /\ first_retained = IF n - 1 > CAPACITY THEN n - 1 - CAPACITY + 1 ELSE 1
  BY <1>1, <1>2 DEF written, first_retained
<1>7. ASSUME NEW s \in first_retained'..written'
      PROVE  ring'[slot_of(s)] \in [sequence : {s}, what : {boot}]
  <2>0. s \in Nat \ {0} /\ s <= n /\ n - s < CAPACITY
    BY <1>1, <1>6, CapacityAssumption
  <2>1. CASE s = n
    BY <1>1, <1>2, <1>3, <1>4, <2>1
  <2>2. CASE s < n
    <3>1. s \in first_retained..written
      BY <1>1, <1>6, <2>0, <2>2, CapacityAssumption
    <3>2. slot_of(s) # slot_of(n) /\ slot_of(s) \in Slot
      BY <1>1, <2>0, <2>2, SlotsApart, SlotInRing
    <3>3. ring[slot_of(s)] \in [sequence : {s}, what : {boot}]
      BY <3>1 DEF RingKept
    <3> QED
      BY <1>1, <1>2, <3>2, <3>3
  <2> QED
    BY <1>1, <2>0, <2>1, <2>2
<1> QED
  BY <1>5, <1>7 DEF RingKept, slot_of

(* An empty ring, at power-on. *)
LEMMA EmptyRing ==
  ASSUME SijilInit, boot \in Nat
  PROVE  RingKept
<1>1. written = 0 /\ first_retained = 1
  BY CapacityAssumption DEF SijilInit, written, first_retained
<1>2. RingTyped
  BY DEF SijilInit, RingTyped, Slot
<1> QED
  BY <1>1, <1>2 DEF RingKept

LEMMA RingStep == RingKept /\ [PersistNext]_persistVars => RingKept'
<1> SUFFICES ASSUME RingKept, [PersistNext]_persistVars  PROVE RingKept'
  OBVIOUS
<1>1. CASE Journaled
  BY <1>1, RecordKeeps DEF Journaled
<1>2. CASE PowerCycle
  <2>1. /\ ring' = [s \in Slot |-> Empty] /\ next_sequence' = 1 /\ boot' \in Nat
    BY <1>2 DEF PowerCycle, RingKept, RingTyped, Slot
  <2>2. written' = 0 /\ first_retained' = 1
    BY <2>1, CapacityAssumption DEF written, first_retained
  <2>3. RingTyped'
    BY <2>1 DEF RingTyped
  <2> QED
    BY <2>2, <2>3 DEF RingKept
<1>3. CASE UNCHANGED <<sijilVars, boot>>
  BY <1>3 DEF RingKept, RingTyped, sijilVars, first_retained, written, slot_of
<1>4. \/ Journaled \/ PowerCycle \/ UNCHANGED <<sijilVars, boot>>
  BY DEF PersistNext, persistVars, sijilVars, Locate, ScratchWrite, ScratchFlush, OpenJournal,
         AppendRecord, AppendSuperblock, EndOfRing, FlushJournal
<1> QED
  BY <1>1, <1>2, <1>3, <1>4

LEMMA RingAlways == PersistSpec => []RingKept
<1>1. PersistInit => RingKept
  BY EmptyRing DEF PersistInit
<1> QED
  BY <1>1, RingStep, PTL DEF PersistSpec

(* However often the ring has wrapped, for_each (sijil lib.rs) visits the  *)
(* newest entries, as many as it can hold, oldest first and without a gap. *)
THEOREM RingRetainsTheNewest == PersistSpec => []RetainsTheNewest
<1>1. RingKept => RetainsTheNewest
  <2> SUFFICES ASSUME RingKept  PROVE RetainsTheNewest
    OBVIOUS
  <2> DEFINE f == first_retained
             w == written
             k == w - f + 1
  <2>1. /\ f \in Nat \ {0} /\ w \in Nat /\ k = (IF w < CAPACITY THEN w ELSE CAPACITY)
        /\ for_each = [i \in 1..k |-> ring[slot_of(f + i - 1)]]
    BY Visits
  <2>2. k \in Nat
    BY <2>1, CapacityAssumption
  <2>3. \A s \in f..w : ring[slot_of(s)].sequence = s
    BY DEF RingKept
  <2>4. ASSUME NEW i \in 1..k  PROVE for_each[i].sequence = w - k + i
    <3>1. f + i - 1 \in f..w /\ w - k + i = f + i - 1
      BY <2>1
    <3> QED
      BY <2>1, <2>3, <3>1
  <2>5. Len(for_each) = k
    BY <2>1, <2>2
  <2> HIDE DEF k
  <2> QED
    BY <2>1, <2>4, <2>5 DEF RetainsTheNewest
<1> QED
  BY <1>1, RingAlways, PTL

-----------------------------------------------------------------------------
(* The disk.  What a sector can hold. *)

Line == [sequence : Nat, what : Nat]
Stored == {Unwritten} \cup [kind : {"Record"}, record : Line, hash : Seq(Line)]
Superblocks == {Superblock(Log(Len(tip), tip)) : tip \in Seq(Line)}
RecordSectors == [kind : {"Records"}, slots : [0..(RECORDS_PER_SECTOR - 1) -> Stored]]

Content ==
  {Blank, Scratch, Foreign, Damaged, Entries, Header(2), Header(SECTORS - 2)}
    \cup Superblocks \cup RecordSectors

Disks == [Lba -> Content]

Write == [lba : Lba, content : Content]

(* The medium with the writes in K applied, whatever the state. *)
Over(medium, writes, K) ==
  [s \in Lba |-> LET hits == {i \in K : writes[i].lba = s}
                 IN  IF hits = {} THEN medium[s] ELSE writes[Max(hits)].content]

LEMMA Latest ==
  ASSUME NEW K \in SUBSET Nat, K # {}, NEW n \in Nat, \A i \in K : i <= n
  PROVE  Max(K) \in K /\ \A i \in K : i <= Max(K)
<1>1. \E x \in K : \A y \in K : x >= y
  BY GreatestNatural
<1>2. Max(K) \in K /\ \A y \in K : Max(K) >= y
  BY <1>1 DEF Max
<1> QED
  BY <1>2

LEMMA OverTyped ==
  ASSUME NEW medium \in Disks, NEW writes \in Seq(Write), NEW K \in SUBSET DOMAIN writes
  PROVE  Over(medium, writes, K) \in Disks
<1> SUFFICES ASSUME NEW s \in Lba
             PROVE  LET hits == {i \in K : writes[i].lba = s}
                    IN  (IF hits = {} THEN medium[s] ELSE writes[Max(hits)].content) \in Content
  BY DEF Over, Disks
<1> DEFINE hits == {i \in K : writes[i].lba = s}
<1>1. CASE hits = {}
  BY <1>1 DEF Disks
<1>2. CASE hits # {}
  <2>1. Len(writes) \in Nat /\ DOMAIN writes = 1..Len(writes)
    OBVIOUS
  <2>2. hits \in SUBSET Nat /\ \A i \in hits : i <= Len(writes)
    BY <2>1
  <2>3. Max(hits) \in hits
    BY <1>2, <2>1, <2>2, Latest
  <2>4. writes[Max(hits)] \in Write
    BY <2>3
  <2> QED
    BY <1>2, <2>4 DEF Write
<1> QED
  BY <1>1, <1>2

(* One more write changes its own sector, in the images that have it. *)
OneMore(medium, writes, w, more, K) ==
  /\ K \subseteq DOMAIN writes => Over(medium, more, K) = Over(medium, writes, K)
  /\ Len(more) \in K =>
       Over(medium, more, K) =
         [Over(medium, writes, K \ {Len(more)}) EXCEPT ![w.lba] = w.content]

LEMMA OverAppend ==
  ASSUME NEW medium, NEW writes \in Seq(Write), NEW w \in Write, NEW more,
         more = Append(writes, w), NEW K \in SUBSET DOMAIN more
  PROVE  OneMore(medium, writes, w, more, K)
<1> DEFINE n == Len(writes)
           m == Len(more)
<1>1. /\ n \in Nat /\ m = n + 1 /\ DOMAIN writes = 1..n /\ DOMAIN more = 1..m
      /\ more[m] = w /\ \A i \in 1..n : more[i] = writes[i]
  OBVIOUS
<1> HIDE DEF n, m
<1>2. ASSUME K \subseteq DOMAIN writes  PROVE Over(medium, more, K) = Over(medium, writes, K)
  <2>1. \A s : {i \in K : more[i].lba = s} = {i \in K : writes[i].lba = s}
    BY <1>1, <1>2
  <2>2. ASSUME NEW s \in Lba, {i \in K : writes[i].lba = s} # {}
        PROVE  more[Max({i \in K : writes[i].lba = s})]
                 = writes[Max({i \in K : writes[i].lba = s})]
    <3> DEFINE hits == {i \in K : writes[i].lba = s}
    <3>1. hits \in SUBSET Nat /\ \A i \in hits : i <= n
      BY <1>1, <1>2
    <3>2. Max(hits) \in hits
      BY <1>1, <2>2, <3>1, Latest
    <3> HIDE DEF hits
    <3>3. Max(hits) \in 1..n
      BY <1>1, <1>2, <3>2 DEF hits
    <3>4. more[Max(hits)] = writes[Max(hits)]
      BY <1>1, <3>3
    <3> QED
      BY <3>4 DEF hits
  <2> QED
    BY <2>1, <2>2 DEF Over
<1>3. ASSUME m \in K
      PROVE  Over(medium, more, K) = [Over(medium, writes, K \ {m}) EXCEPT ![w.lba] = w.content]
  <2> DEFINE J == K \ {m}
             new == Over(medium, more, K)
             old == Over(medium, writes, J)
  <2>1. J \in SUBSET (1..n)
    BY <1>1
  <2>2. ASSUME NEW s \in Lba  PROVE new[s] = IF s = w.lba THEN w.content ELSE old[s]
    <3> DEFINE hits == {i \in K : more[i].lba = s}
               before == {i \in J : writes[i].lba = s}
    <3>0. new[s] = (IF hits = {} THEN medium[s] ELSE more[Max(hits)].content)
          /\ old[s] = (IF before = {} THEN medium[s] ELSE writes[Max(before)].content)
      BY DEF Over
    <3>1. hits \in SUBSET Nat /\ \A i \in hits : i <= m
      BY <1>1
    <3>2. CASE s = w.lba
      <4>1. m \in hits
        BY <1>1, <1>3, <3>2
      <4>2. Max(hits) \in hits /\ m <= Max(hits)
        BY <1>1, <3>1, <4>1, Latest
      <4> HIDE DEF hits
      <4>3. Max(hits) = m
        <5>1. PICK x : x = Max(hits)
          OBVIOUS
        <5>2. x \in Nat /\ x <= m /\ m <= x
          BY <3>1, <4>2, <5>1
        <5> QED
          BY <1>1, <5>1, <5>2
      <4> QED
        BY <1>1, <3>0, <3>2, <4>1, <4>3
    <3>3. CASE s # w.lba
      <4>1. hits = before
        BY <1>1, <3>3, <2>1
      <4>2. CASE before = {}
        BY <3>0, <3>3, <4>1, <4>2
      <4>3. CASE before # {}
        <5>1. before \in SUBSET Nat /\ \A i \in before : i <= n
          BY <1>1
        <5>2. Max(before) \in before
          BY <1>1, <4>3, <5>1, Latest
        <5> HIDE DEF hits, before
        <5>3. Max(before) \in 1..n
          BY <2>1, <5>2 DEF before
        <5>4. more[Max(before)] = writes[Max(before)]
          BY <1>1, <5>3
        <5> QED
          BY <3>0, <3>3, <4>1, <4>3, <5>4
      <4> QED
        BY <4>2, <4>3
    <3> QED
      BY <3>2, <3>3
  <2>3. new = [s \in Lba |-> new[s]] /\ old = [s \in Lba |-> old[s]]
    BY DEF Over
  <2> HIDE DEF new, old
  <2>4. new = [old EXCEPT ![w.lba] = w.content]
    BY <2>2, <2>3
  <2> QED
    BY <2>4 DEF new, old
<1> QED
  BY <1>1, <1>2, <1>3 DEF m, OneMore

(* The device: a write joins the pending ones; a flush or the power going  *)
(* out leaves none.                                                        *)
Medium == durable \in Disks /\ pending \in Seq(Write)

LEMMA ImagesTyped ==
  ASSUME Medium
  PROVE  /\ View \in Disks /\ View \in OrderedImages /\ durable \in OrderedImages
         /\ OrderedImages \subseteq CrashImages /\ CrashImages \subseteq Disks
<1>1. \A K : Applied(K) = Over(durable, pending, K)
  BY DEF Applied, Over
<1>2. DOMAIN pending = 1..Len(pending) /\ Len(pending) \in Nat
  BY DEF Medium
<1>3. View = Applied(1..Len(pending))
  BY <1>2 DEF View
<1>4. ASSUME NEW K \in SUBSET DOMAIN pending  PROVE Applied(K) \in Disks
  BY <1>1, <1>4, OverTyped DEF Medium
<1>5. durable = Applied(1..0)
  <2>1. \A s : {i \in 1..0 : pending[i].lba = s} = {}
    OBVIOUS
  <2> QED
    BY <2>1 DEF Applied, Medium, Disks
<1> HIDE DEF Applied
<1>6. OrderedImages \subseteq CrashImages
  <2>1. ASSUME NEW n \in 0..Len(pending)  PROVE 1..n \in SUBSET DOMAIN pending
    BY <1>2
  <2> QED
    BY <2>1 DEF OrderedImages, CrashImages
<1>7. View \in OrderedImages /\ durable \in OrderedImages
  BY <1>2, <1>3, <1>5 DEF OrderedImages
<1>8. CrashImages \subseteq Disks
  BY <1>4 DEF CrashImages
<1> QED
  BY <1>6, <1>7, <1>8

Put(lba, content) ==
  /\ Medium'
  /\ View' = [View EXCEPT ![lba] = content]
  /\ \A d \in CrashImages' :
       d \in CrashImages \/ \E e \in CrashImages : d = [e EXCEPT ![lba] = content]
  /\ \A d \in OrderedImages' : d \in OrderedImages \/ d = View'

LEMMA WritePuts ==
  ASSUME Medium, NEW lba \in Lba, NEW content \in Content,
         pending' = Append(pending, [lba |-> lba, content |-> content]), durable' = durable
  PROVE  Put(lba, content)
<1> DEFINE w == [lba |-> lba, content |-> content]
           n == Len(pending)
<1>0. w \in Write /\ w.lba = lba /\ w.content = content
  BY DEF Write
<1> HIDE DEF w
<1>1. /\ pending \in Seq(Write) /\ pending' \in Seq(Write) /\ n \in Nat /\ Len(pending') = n + 1
      /\ DOMAIN pending = 1..n /\ DOMAIN pending' = 1..(n + 1) /\ pending' = Append(pending, w)
  BY <1>0 DEF Medium, w
<1>2. \A K : Applied(K) = Over(durable, pending, K) /\ Applied(K)' = Over(durable, pending', K)
  BY DEF Applied, Over
<1>3. ASSUME NEW K \in SUBSET DOMAIN pending'
      PROVE  /\ n + 1 \notin K => Applied(K)' = Applied(K) /\ K \in SUBSET DOMAIN pending
             /\ n + 1 \in K => /\ Applied(K)' = [Applied(K \ {n + 1}) EXCEPT ![lba] = content]
                               /\ K \ {n + 1} \in SUBSET DOMAIN pending
  <2>1. n + 1 \notin K => K \subseteq DOMAIN pending
    BY <1>1
  <2>2. K \ {n + 1} \in SUBSET DOMAIN pending
    BY <1>1
  <2>3. /\ K \subseteq DOMAIN pending =>
             Over(durable, pending', K) = Over(durable, pending, K)
        /\ n + 1 \in K =>
             Over(durable, pending', K) =
               [Over(durable, pending, K \ {n + 1}) EXCEPT ![lba] = content]
    <3>1. OneMore(durable, pending, w, pending', K)
      BY <1>0, <1>1, OverAppend
    <3> QED
      BY <1>0, <1>1, <3>1 DEF OneMore
  <2> QED
    BY <1>2, <2>1, <2>2, <2>3
<1> HIDE DEF Applied
<1>4. View' = [View EXCEPT ![lba] = content]
  <2>1. (1..(n + 1)) \ {n + 1} = 1..n
    BY <1>1
  <2>2. PICK K : K = 1..(n + 1)
    OBVIOUS
  <2>3. View' = Applied(K)'
    BY <1>1, <1>2, <2>2 DEF View
  <2>4. Applied(K)' = [Applied(K \ {n + 1}) EXCEPT ![lba] = content]
    BY <1>1, <1>3, <2>2
  <2> QED
    BY <1>1, <2>1, <2>2, <2>3, <2>4 DEF View
<1>5. ASSUME NEW d \in CrashImages'
      PROVE  d \in CrashImages \/ \E e \in CrashImages : d = [e EXCEPT ![lba] = content]
  <2>1. PICK K \in SUBSET DOMAIN pending' : d = Applied(K)'
    BY <1>2 DEF CrashImages
  <2> QED
    BY <1>3, <2>1 DEF CrashImages
<1>6. ASSUME NEW d \in OrderedImages'  PROVE d \in OrderedImages \/ d = View'
  <2>1. PICK k \in 0..(n + 1) : \E K : K = 1..k /\ d = Applied(K)'
    BY <1>1, <1>2 DEF OrderedImages
  <2> PICK K : K = 1..k /\ d = Applied(K)'
    BY <2>1
  <2>2. CASE k = n + 1
    BY <1>1, <1>2, <2>1, <2>2 DEF View
  <2>3. CASE k \in 0..n
    <3>1. n + 1 \notin K /\ K \in SUBSET DOMAIN pending'
      BY <1>1, <2>1, <2>3
    <3> QED
      BY <1>3, <2>1, <2>3, <3>1 DEF OrderedImages
  <2> QED
    BY <1>1, <2>1, <2>2, <2>3
<1> QED
  BY <1>1, <1>4, <1>5, <1>6 DEF Put, Medium

Only(d) == Medium' /\ durable' = d /\ View' = d /\ CrashImages' = {d} /\ OrderedImages' = {d}

LEMMA NonePending ==
  ASSUME NEW d \in Disks, durable' = d, pending' = <<>>
  PROVE  Only(d)
<1>1. DOMAIN pending' = {} /\ Len(pending') = 0 /\ pending' \in Seq(Write)
  OBVIOUS
<1>2. ASSUME NEW K, K = {}  PROVE Applied(K)' = d
  BY <1>2 DEF Applied, Disks
<1> HIDE DEF Applied
<1>3. View' = d
  <2>1. PICK K : K = DOMAIN pending'
    OBVIOUS
  <2>2. Applied(K)' = d
    BY <1>1, <1>2, <2>1
  <2>3. View' = Over(durable', pending', K) /\ Applied(K)' = Over(durable', pending', K)
    BY <2>1 DEF View, Applied, Over
  <2> QED
    BY <2>2, <2>3
<1>4. CrashImages' = {d}
  <2>1. CrashImages' = {Over(durable', pending', K) : K \in SUBSET DOMAIN pending'}
    BY DEF CrashImages, Applied, Over
  <2>2. SUBSET DOMAIN pending' = {{}}
    BY <1>1
  <2>3. Over(durable', pending', {}) = d
    BY DEF Over, Disks
  <2> QED
    BY <2>1, <2>2, <2>3
<1>5. OrderedImages' = {d}
  <2>1. OrderedImages' = {Over(durable', pending', 1..n) : n \in 0..Len(pending')}
    BY DEF OrderedImages, Applied, Over
  <2>2. 0..Len(pending') = {0} /\ 1..0 = {}
    BY <1>1
  <2>3. Over(durable', pending', {}) = d
    BY DEF Over, Disks
  <2> QED
    BY <2>1, <2>2, <2>3
<1> QED
  BY <1>1, <1>3, <1>4, <1>5 DEF Only, Medium

Untouched ==
  Medium' /\ UNCHANGED <<durable, pending>> /\ View' = View
          /\ CrashImages' = CrashImages /\ OrderedImages' = OrderedImages

LEMMA NoWrite ==
  ASSUME Medium, UNCHANGED <<durable, pending>>
  PROVE  Untouched
BY DEF Untouched, Medium, View, CrashImages, OrderedImages, Applied

-----------------------------------------------------------------------------
(* What a sector of a kind holds. *)
LEMMA Kinds ==
  ASSUME NEW c \in Content
  PROVE  /\ c.kind = "Superblock" => c \in Superblocks
         /\ c.kind = "Records" => c \in RecordSectors
         /\ c.kind = "Entries" => c = Entries
         /\ c.kind = "Header" => c.entries_lba \in {2, SECTORS - 2}
<1>1. \A x \in Superblocks : x.kind = "Superblock"
  BY DEF Superblocks, Superblock
<1>2. \A x \in RecordSectors : x.kind = "Records"
  BY DEF RecordSectors
<1>3. /\ Blank.kind = "Blank" /\ Scratch.kind = "Scratch" /\ Foreign.kind = "Foreign"
      /\ Damaged.kind = "Damaged" /\ Entries.kind = "Entries"
      /\ Header(2).kind = "Header" /\ Header(SECTORS - 2).kind = "Header"
      /\ Header(2).entries_lba = 2 /\ Header(SECTORS - 2).entries_lba = SECTORS - 2
  BY DEF Blank, Scratch, Foreign, Damaged, Entries, Header
<1> QED
  BY <1>1, <1>2, <1>3 DEF Content

LEMMA SuperblockHolds ==
  ASSUME NEW tip \in Seq(Line)
  PROVE  /\ Superblock(Log(Len(tip), tip)) \in Content
         /\ Superblock(Log(Len(tip), tip)).kind = "Superblock"
         /\ Superblock(Log(Len(tip), tip)).count = Len(tip)
         /\ Superblock(Log(Len(tip), tip)).tip = tip
<1>1. Superblock(Log(Len(tip), tip)) \in Superblocks
  BY DEF Superblocks
<1> QED
  BY <1>1 DEF Content, Superblock, Log

(* The two places a journal may be given. *)
InPartition ==
  [scratch |-> LastLba, first |-> FirstLba,
   count |-> IF LastLba > FirstLba THEN LastLba - FirstLba ELSE 1]

WholeDisk == [scratch |-> sector_count, first |-> 0, count |-> sector_count]

Places == {InPartition, WholeDisk}

Fits(p) ==
  /\ p.first \in Nat /\ p.count \in Nat \ {0} /\ p.scratch \in Lba
  /\ p.first + p.count < SECTORS
  /\ p.scratch = p.first + p.count \/ (p.count = 1 /\ p.scratch = p.first)

LEMMA PlacesFit == SECTORS \in Nat /\ SECTORS >= 7 /\ \A p \in Places : Fits(p)
<1>1. FirstLba \in Nat /\ LastLba \in Nat /\ FirstLba >= 4 /\ FirstLba <= LastLba /\ SECTORS \in Int
      /\ LastLba <= SECTORS - 3
  BY PersistAssumption
<1>2. Fits(InPartition)
  BY <1>1 DEF InPartition, Fits, Lba
<1>3. Fits(WholeDisk)
  BY <1>1 DEF WholeDisk, Fits, Lba, sector_count
<1> QED
  BY <1>1, <1>2, <1>3 DEF Places

LEMMA PlacedSomewhere ==
  ASSUME NEW d \in Disks, NEW readable \in BOOLEAN
  PROVE  placed(d, readable) \in Places
<1> DEFINE total == sector_count
           at == IF parse_header(d[1]) THEN 1
                 ELSE IF total > 1 /\ parse_header(d[total - 1]) THEN total - 1 ELSE 0
           entries == d[d[at].entries_lba]
<1>0. SECTORS \in Nat /\ SECTORS >= 7
  BY PlacesFit
<1>1. CASE ~(readable /\ find(d, total).ok)
  BY <1>1 DEF placed, Places, WholeDisk
<1>2. CASE readable /\ find(d, total).ok
  <2>1. /\ at # 0 /\ entries.kind = "Entries"
        /\ find(d, total).first_lba = entries.first_lba
        /\ find(d, total).last_lba = entries.last_lba
    BY <1>2 DEF find
  <2>2. at \in Lba /\ d[at] \in Content /\ d[at].kind = "Header"
    BY <1>0, <2>1 DEF parse_header, sector_count, Lba, Disks
  <2>3. d[at].entries_lba \in Lba
    BY <1>0, <2>2, Kinds DEF Lba
  <2>4. entries = Entries
    BY <2>1, <2>3, Kinds DEF Disks
  <2>5. find(d, total).first_lba = FirstLba /\ find(d, total).last_lba = LastLba
    BY <2>1, <2>4 DEF Entries
  <2> QED
    BY <1>2, <2>5 DEF placed, Places, InPartition
<1> QED
  BY <1>1, <1>2

(* Where the kernel looks if it can read the table, and why: the table is  *)
(* where the image builder left it, or no header is.                       *)
Home == IF image = "partitioned" THEN InPartition ELSE WholeDisk

Tables(d) ==
  IF image = "partitioned" THEN astray = 0 => \A s \in Outside : d[s] = Original(image)[s]
  ELSE d[1].kind # "Header" /\ d[SECTORS - 2].kind # "Header"

LEMMA Finds ==
  ASSUME NEW d, NEW total, NEW e, parse_header(d[1]), e = d[d[1].entries_lba],
         e.kind = "Entries", e.journal = TRUE, sound_bounds(e, total)
  PROVE  find(d, total) = [ok |-> TRUE, first_lba |-> e.first_lba, last_lba |-> e.last_lba]
BY DEF find

LEMMA HomeFound ==
  ASSUME NEW d \in Disks, Tables(d), astray = 0
  PROVE  placed(d, TRUE) = Home
<1>0. SECTORS \in Nat /\ SECTORS >= 7
  BY PlacesFit
<1>1. CASE image = "partitioned"
  <2>1. 1 \in Outside /\ 2 \in Outside /\ 1 \in Lba /\ 2 \in Lba
    BY <1>0, PersistAssumption DEF Outside, Lba
  <2>2. d[1] = Original("partitioned")[1] /\ d[2] = Original("partitioned")[2]
    BY <1>1, <2>1 DEF Tables
  <2>3. d[1] = Header(2) /\ d[2] = Entries
    <3>1. Original("partitioned")[1] = Header(2) /\ Original("partitioned")[2] = Entries
      BY <2>1 DEF Original
    <3> QED
      BY <2>2, <3>1
  <2>4. /\ parse_header(d[1]) /\ d[1].entries_lba = 2 /\ d[2].kind = "Entries" /\ d[2].journal
        /\ d[2].first_lba = FirstLba /\ d[2].last_lba = LastLba
    BY <2>3 DEF parse_header, Header, Entries
  <2>5. sound_bounds(d[2], sector_count)
    BY <1>0, <2>4, PersistAssumption DEF sound_bounds, sector_count
  <2>6. find(d, sector_count) = [ok |-> TRUE, first_lba |-> FirstLba, last_lba |-> LastLba]
    <3>1. d[d[1].entries_lba] = d[2] /\ d[2].journal = TRUE
      BY <2>3, <2>4 DEF Entries
    <3> QED
      BY <2>4, <2>5, <3>1, Finds
  <2> QED
    BY <1>1, <2>6 DEF placed, Home, InPartition
<1>2. CASE image # "partitioned"
  <2>1. ~parse_header(d[1]) /\ ~parse_header(d[sector_count - 1])
    <3>1. sector_count - 1 = SECTORS - 2
      BY <1>0 DEF sector_count
    <3> QED
      BY <1>2, <3>1 DEF Tables, parse_header
  <2>2. ~find(d, sector_count).ok
    BY <2>1 DEF find
  <2> QED
    BY <1>2, <2>2 DEF placed, Home, WholeDisk
<1> QED
  BY <1>1, <1>2

-----------------------------------------------------------------------------
(* The records of a log. *)

Slice == 0..(RECORDS_PER_SECTOR - 1)

LEMMA SectorOf ==
  ASSUME NEW n \in Nat \ {0}
  PROVE  /\ record_capacity(n) \in Nat
         /\ \A i \in Nat : sector_of(i) \in Nat \ {0} /\ record_slot(i) \in Slice
         /\ \A i \in Nat : i < record_capacity(n) => n > 1 /\ sector_of(i) \in 1..(n - 1)
<1> DEFINE r == RECORDS_PER_SECTOR
<1>0. r \in Nat \ {0}
  BY RecordsPerSectorAssumption
<1>1. record_capacity(n) = IF n > 1 THEN (n - 1) * r ELSE 0
  BY DEF record_capacity, FIRST_RECORD_SECTOR
<1>2. record_capacity(n) \in Nat
  <2>1. n > 1 => n - 1 \in Nat
    OBVIOUS
  <2> QED
    BY <1>0, <1>1, <2>1
<1>3. ASSUME NEW i \in Nat
      PROVE  /\ i \div r \in Nat /\ i = r * (i \div r) + (i % r) /\ i % r \in 0..(r - 1)
             /\ sector_of(i) = 1 + i \div r /\ record_slot(i) = i % r
  BY <1>0, Division DEF sector_of, record_slot, FIRST_RECORD_SECTOR
<1>4. ASSUME NEW i \in Nat, i < record_capacity(n)
      PROVE  n > 1 /\ sector_of(i) \in 1..(n - 1)
  <2>1. n > 1 /\ i < (n - 1) * r
    BY <1>1, <1>4
  <2> DEFINE q == i \div r
  <2>2. q \in Nat /\ r * q <= i
    <3>1. q \in Nat /\ i % r \in Nat /\ i = r * q + (i % r)
      BY <1>3
    <3>2. PICK m, x \in Int : m = r * q /\ x = i % r
      BY <1>0, <3>1
    <3> QED
      BY <3>1, <3>2
  <2> HIDE DEF q
  <2>3. q < n - 1
    <3>1. SUFFICES ASSUME q >= n - 1  PROVE FALSE
      BY <2>1, <2>2
    <3>2. r * q >= r * (n - 1)
      BY <1>0, <2>1, <2>2, <3>1
    <3>3. r * (n - 1) = (n - 1) * r /\ r * q \in Nat /\ (n - 1) * r \in Nat
      BY <1>0, <2>1, <2>2
    <3> QED
      BY <2>1, <2>2, <3>2, <3>3
  <2> QED
    BY <1>3, <2>1, <2>2, <2>3 DEF q
<1>5. \A i \in Nat : sector_of(i) \in Nat \ {0} /\ record_slot(i) \in Slice
  BY <1>3 DEF Slice
<1> QED
  BY <1>2, <1>4, <1>5

(* The record at i, given the log up to and with it. *)
Entry(tip, i) == [kind |-> "Record", record |-> tip[i], hash |-> SubSeq(tip, 1, i)]

(* What the place holds for a record. *)
At(d, place, i) ==
  LET s == d[place.first + sector_of(i)]
  IN  IF s.kind = "Records" THEN s.slots[record_slot(i)] ELSE Unwritten

LEMMA ReadsAt ==
  ASSUME NEW d \in Disks, NEW place, Fits(place), NEW i \in Nat, i < record_capacity(place.count)
  PROVE  /\ read_record(Through(place, d), i) = At(d, place, i)
         /\ place.first + sector_of(i) \in Lba /\ sector_of(i) # 0
         /\ Through(place, d)[sector_of(i)] = d[place.first + sector_of(i)]
<1>1. place.count \in Nat \ {0} /\ place.first \in Nat /\ place.first + place.count < SECTORS
  BY DEF Fits
<1>2. sector_of(i) \in 1..(place.count - 1)
  BY <1>1, SectorOf
<1>3. sector_of(i) \in 0..(place.count - 1) /\ place.first + sector_of(i) \in Lba /\ sector_of(i) # 0
  BY <1>1, <1>2, PlacesFit DEF Lba
<1>4. Through(place, d)[sector_of(i)] = d[place.first + sector_of(i)]
  BY <1>3 DEF Through
<1> QED
  BY <1>3, <1>4 DEF read_record, At

Chained(d, place, tip) ==
  /\ tip \in Seq(Line) /\ Len(tip) <= record_capacity(place.count)
  /\ \A i \in 1..Len(tip) : At(d, place, i - 1) = Entry(tip, i)

(* The place holds this log. *)
Holds(d, place, tip) ==
  Chained(d, place, tip) /\ d[place.first] = Superblock(Log(Len(tip), tip))

LEMMA Opening ==
  ASSUME NEW S, NEW t \in Seq(S), NEW i \in 0..Len(t)
  PROVE  /\ SubSeq(t, 1, i) \in Seq(S) /\ Len(SubSeq(t, 1, i)) = i
         /\ \A j \in 1..i : SubSeq(t, 1, i)[j] = t[j]
<1>1. PICK b \in Int : b = 1
  OBVIOUS
<1>2. \A j \in b..i : t[j] \in S
  BY <1>1
<1>3. /\ SubSeq(t, b, i) \in Seq(S)
      /\ Len(SubSeq(t, b, i)) = IF b <= i THEN i - b + 1 ELSE 0
      /\ \A j \in 1..(i - b + 1) : SubSeq(t, b, i)[j] = t[b + j - 1]
  BY <1>2, SubSeqProperties
<1>4. i - b + 1 = i /\ \A j \in 1..i : b + j - 1 = j
  BY <1>1
<1> QED
  BY <1>1, <1>3, <1>4

LEMMA FrontGrows ==
  ASSUME NEW S, NEW t \in Seq(S)
  PROVE  /\ SubSeq(t, 1, 0) = <<>> /\ SubSeq(t, 1, Len(t)) = t
         /\ \A i \in 0..(Len(t) - 1) : SubSeq(t, 1, i + 1) = Append(SubSeq(t, 1, i), t[i + 1])
<1>1. SubSeq(t, 1, 0) = <<>>
  BY Opening
<1>2. SubSeq(t, 1, Len(t)) = t
  <2>1. PICK f : f = SubSeq(t, 1, Len(t))
    OBVIOUS
  <2>2. f \in Seq(S) /\ Len(f) = Len(t) /\ \A j \in 1..Len(t) : f[j] = t[j]
    BY <2>1, Opening
  <2>3. f = t
    BY <2>2, SeqEqual
  <2> QED
    BY <2>1, <2>3
<1>3. ASSUME NEW i \in 0..(Len(t) - 1)
      PROVE  SubSeq(t, 1, i + 1) = Append(SubSeq(t, 1, i), t[i + 1])
  <2> DEFINE f == SubSeq(t, 1, i + 1)
             g == SubSeq(t, 1, i)
             h == Append(g, t[i + 1])
  <2>1. i \in 0..Len(t) /\ i + 1 \in 0..Len(t) /\ t[i + 1] \in S
    OBVIOUS
  <2>2. f \in Seq(S) /\ Len(f) = i + 1 /\ \A j \in 1..(i + 1) : f[j] = t[j]
    BY <2>1, Opening
  <2>3. g \in Seq(S) /\ Len(g) = i /\ \A j \in 1..i : g[j] = t[j]
    BY <2>1, Opening
  <2> HIDE DEF f, g
  <2>4. h \in Seq(S) /\ Len(h) = i + 1 /\ \A j \in 1..(i + 1) : h[j] = t[j]
    BY <2>1, <2>3
  <2> HIDE DEF h
  <2>5. f = h
    BY <2>2, <2>4, SeqEqual
  <2> QED
    BY <2>5 DEF f, g, h
<1> QED
  BY <1>1, <1>2, <1>3

(* A log whose every link verifies holds what its last hash stands for. *)
LEMMA LinksHold ==
  ASSUME NEW R, NEW n \in Nat,
         \A i \in 0..(n - 1) : R[i] \in [kind : {"Record"}, record : Line, hash : Seq(Line)],
         \A i \in 0..(n - 1) :
           R[i].hash = Append(IF i = 0 THEN <<>> ELSE R[i - 1].hash, R[i].record),
         NEW tip \in Seq(Line), n = Len(tip), n # 0 => tip = R[n - 1].hash
  PROVE  \A i \in 1..n : R[i - 1] = Entry(tip, i)
<1> DEFINE Right(i) == /\ Len(R[i].hash) = i + 1
                       /\ \A j \in 1..(i + 1) : R[i].hash[j] = R[j - 1].record
           Bad == {i \in Nat : i < n /\ ~Right(i)}
<1>1. Bad = {}
  <2>1. SUFFICES ASSUME Bad # {}  PROVE FALSE
    OBVIOUS
  <2>2. PICK k \in Bad : \A i \in Bad : k <= i
    BY <2>1, LeastNatural
  <2>3. /\ k \in 0..(n - 1) /\ ~Right(k) /\ R[k].record \in Line
        /\ R[k].hash = Append(IF k = 0 THEN <<>> ELSE R[k - 1].hash, R[k].record)
    BY <2>2
  <2>4. CASE k = 0
    BY <2>3, <2>4
  <2>5. CASE k # 0
    <3>1. k - 1 \in 0..(n - 1) /\ k - 1 \notin Bad
      BY <2>2, <2>3, <2>5
    <3>2. PICK p : p = R[k - 1].hash
      OBVIOUS
    <3>3. p \in Seq(Line) /\ Len(p) = k /\ \A j \in 1..k : p[j] = R[j - 1].record
      BY <2>3, <2>5, <3>1, <3>2
    <3>4. R[k].hash = Append(p, R[k].record)
      BY <2>3, <2>5, <3>2
    <3>5. /\ Len(Append(p, R[k].record)) = k + 1
          /\ \A j \in 1..k : Append(p, R[k].record)[j] = p[j]
          /\ Append(p, R[k].record)[k + 1] = R[k].record
      BY <2>3, <3>3
    <3>6. \A j \in 1..(k + 1) : j \in 1..k \/ j = k + 1
      BY <2>3
    <3>7. (k + 1) - 1 = k
      BY <2>3
    <3> QED
      BY <2>3, <3>3, <3>4, <3>5, <3>6, <3>7
  <2> QED
    BY <2>4, <2>5
<1>2. ASSUME NEW i \in 0..(n - 1)  PROVE Right(i)
  <2> HIDE DEF Bad, Right
  <2>1. i \in Nat /\ i < n
    OBVIOUS
  <2>2. i \notin Bad
    BY <1>1
  <2> QED
    BY <2>1, <2>2 DEF Bad
<1> HIDE DEF Bad
<1>3. SUFFICES ASSUME NEW i \in 1..n  PROVE R[i - 1] = Entry(tip, i)
  OBVIOUS
<1>4. tip = R[n - 1].hash /\ n - 1 \in 0..(n - 1) /\ i - 1 \in 0..(n - 1) /\ (i - 1) + 1 = i
      /\ (n - 1) + 1 = n
  BY <1>3
<1>5. \A j \in 1..n : tip[j] = R[j - 1].record
  <2>1. Right(n - 1)
    BY <1>2, <1>4
  <2> QED
    BY <1>4, <2>1
<1>6. PICK h : h = R[i - 1].hash
  OBVIOUS
<1>7. h \in Seq(Line) /\ Len(h) = i /\ \A j \in 1..i : h[j] = R[j - 1].record
  BY <1>2, <1>4, <1>6
<1>8. PICK f : f = SubSeq(tip, 1, i)
  OBVIOUS
<1>9. f \in Seq(Line) /\ Len(f) = i /\ \A j \in 1..i : f[j] = tip[j]
  <2>1. i \in 0..Len(tip)
    BY <1>3
  <2> QED
    BY <1>8, <2>1, Opening
<1>10. h = f
  <2>1. ASSUME NEW j \in 1..i  PROVE h[j] = f[j]
    <3>1. j \in 1..n
      BY <1>3
    <3> QED
      BY <1>5, <1>7, <1>9, <3>1
  <2> QED
    BY <1>7, <1>9, <2>1, SeqEqual
<1>11. R[i - 1] \in [kind : {"Record"}, record : Line, hash : Seq(Line)] /\ R[i - 1].record = tip[i]
  BY <1>4, <1>5
<1> QED
  BY <1>6, <1>8, <1>10, <1>11 DEF Entry

LEMMA SuperblockAt ==
  ASSUME NEW d \in Disks, NEW place, Fits(place)
  PROVE  Through(place, d)[SUPERBLOCK_SECTOR] = d[place.first] /\ place.first \in Lba
<1>1. 0 \in 0..(place.count - 1) /\ place.first + 0 = place.first /\ place.first \in Lba
  BY PlacesFit DEF Fits, Lba
<1> QED
  BY <1>1 DEF Through, SUPERBLOCK_SECTOR

(* What Journal::open accepts is held by the disk, record for record. *)
LEMMA AcceptedIsHeld ==
  ASSUME NEW d \in Disks, NEW place, Fits(place), open(Through(place, d), place.count).ok
  PROVE  \E tip \in Seq(Line) :
           /\ Holds(d, place, tip)
           /\ open(Through(place, d), place.count).journal = Log(Len(tip), tip)
<1> DEFINE sectors == Through(place, d)
           sb == d[place.first]
<1>0. sectors[SUPERBLOCK_SECTOR] = sb /\ sb \in Content
  BY SuperblockAt DEF Disks
<1> HIDE DEF sectors, sb
<1>1. /\ sb.kind = "Superblock" /\ ~(sb.count > record_capacity(place.count))
      /\ \A i \in 0..(sb.count - 1) : Link(sectors, i)
      /\ tip_matches(sectors, sb)
      /\ open(sectors, place.count).journal = Log(sb.count, sb.tip)
  BY <1>0 DEF open, sectors
<1>2. PICK tip \in Seq(Line) : sb = Superblock(Log(Len(tip), tip))
  BY <1>0, <1>1, Kinds DEF Superblocks
<1> DEFINE n == Len(tip)
<1>3. sb.count = n /\ sb.tip = tip /\ n \in Nat
  BY <1>2, SuperblockHolds
<1>4. n <= record_capacity(place.count)
  <2>1. record_capacity(place.count) \in Nat
    BY SectorOf DEF Fits
  <2> QED
    BY <1>1, <1>3, <2>1
<1> DEFINE R == [i \in 0..(n - 1) |-> At(d, place, i)]
<1>5. ASSUME NEW i \in 0..(n - 1)
      PROVE  /\ i \in Nat /\ i < record_capacity(place.count)
             /\ read_record(sectors, i) = At(d, place, i)
             /\ At(d, place, i) \in Stored
  <2>1. i \in Nat /\ i < record_capacity(place.count)
    <3>1. record_capacity(place.count) \in Nat
      BY SectorOf DEF Fits
    <3> QED
      BY <1>3, <1>4, <3>1
  <2>2. /\ read_record(sectors, i) = At(d, place, i)
        /\ place.first + sector_of(i) \in Lba
    BY <2>1, ReadsAt DEF sectors
  <2>3. record_slot(i) \in Slice
    BY <2>1, SectorOf DEF Fits
  <2>4. d[place.first + sector_of(i)] \in Content
    BY <2>2 DEF Disks
  <2>5. At(d, place, i) \in Stored
    <3>1. CASE d[place.first + sector_of(i)].kind = "Records"
      <4>1. d[place.first + sector_of(i)].slots \in [Slice -> Stored]
        BY <2>4, <3>1, Kinds DEF RecordSectors, Slice
      <4> QED
        BY <2>3, <3>1, <4>1 DEF At
    <3>2. CASE d[place.first + sector_of(i)].kind # "Records"
      BY <3>2 DEF At, Stored
    <3> QED
      BY <3>1, <3>2
  <2> QED
    BY <2>1, <2>2, <2>5
<1>6. ASSUME NEW i \in 0..(n - 1)
      PROVE  /\ R[i] \in [kind : {"Record"}, record : Line, hash : Seq(Line)]
             /\ R[i].hash = Append(IF i = 0 THEN <<>> ELSE R[i - 1].hash, R[i].record)
  <2>1. Link(sectors, i)
    BY <1>1, <1>3
  <2>2. i # 0 => i - 1 \in 0..(n - 1)
    OBVIOUS
  <2>3. /\ At(d, place, i).kind = "Record"
        /\ At(d, place, i).hash =
             hash(At(d, place, i).record,
                  IF i = 0 THEN ZeroHash ELSE At(d, place, i - 1).hash)
    BY <1>5, <2>1, <2>2 DEF Link
  <2>4. At(d, place, i) \in [kind : {"Record"}, record : Line, hash : Seq(Line)]
    BY <1>5, <2>3 DEF Stored, Unwritten
  <2> QED
    BY <2>2, <2>3, <2>4 DEF hash, ZeroHash
<1>7. n # 0 => tip = R[n - 1].hash
  <2>1. ASSUME n # 0  PROVE tip = R[n - 1].hash
    <3>1. n - 1 \in 0..(n - 1)
      BY <1>3, <2>1
    <3> QED
      BY <1>1, <1>3, <1>5, <2>1, <3>1 DEF tip_matches
  <2> QED
    BY <2>1
<1> HIDE DEF R
<1>8. \A i \in 1..n : R[i - 1] = Entry(tip, i)
  <2>1. \A i \in 0..(n - 1) : R[i] \in [kind : {"Record"}, record : Line, hash : Seq(Line)]
    BY <1>6
  <2>2. \A i \in 0..(n - 1) :
          R[i].hash = Append(IF i = 0 THEN <<>> ELSE R[i - 1].hash, R[i].record)
    BY <1>6
  <2>3. n = Len(tip)
    OBVIOUS
  <2> HIDE DEF n
  <2> QED
    BY ONLY <1>3, <1>7, <2>1, <2>2, <2>3, tip \in Seq(Line), LinksHold
<1>9. Chained(d, place, tip)
  <2>1. ASSUME NEW i \in 1..n  PROVE At(d, place, i - 1) = Entry(tip, i)
    <3>1. i - 1 \in 0..(n - 1)
      BY <1>3
    <3>2. R[i - 1] = At(d, place, i - 1)
      BY <3>1 DEF R
    <3> QED
      BY <1>8, <3>2
  <2> QED
    BY <1>2, <1>4, <2>1 DEF Chained
<1> QED
  BY <1>1, <1>2, <1>3, <1>9 DEF Holds, sectors, sb

(* And what the disk holds is accepted. *)
LEMMA HeldIsAccepted ==
  ASSUME NEW d \in Disks, NEW place, Fits(place), NEW tip, Holds(d, place, tip)
  PROVE  /\ open(Through(place, d), place.count).ok
         /\ open(Through(place, d), place.count).journal = Log(Len(tip), tip)
<1> DEFINE sectors == Through(place, d)
           sb == d[place.first]
           n == Len(tip)
<1>0. sectors[SUPERBLOCK_SECTOR] = sb
  BY SuperblockAt
<1>1. /\ tip \in Seq(Line) /\ n \in Nat /\ n <= record_capacity(place.count)
      /\ sb.kind = "Superblock" /\ sb.count = n /\ sb.tip = tip
  BY SuperblockHolds DEF Holds, Chained
<1>2. record_capacity(place.count) \in Nat
  BY SectorOf DEF Fits
<1> HIDE DEF sectors, sb
<1>3. ASSUME NEW i \in 0..(n - 1)  PROVE read_record(sectors, i) = Entry(tip, i + 1)
  <2>1. i \in Nat /\ i < record_capacity(place.count) /\ i + 1 \in 1..n /\ (i + 1) - 1 = i
    BY <1>1, <1>2
  <2>2. read_record(sectors, i) = At(d, place, i)
    BY <2>1, ReadsAt DEF sectors
  <2>3. At(d, place, (i + 1) - 1) = Entry(tip, i + 1)
    BY <2>1 DEF Holds, Chained
  <2> QED
    BY <2>1, <2>2, <2>3
<1>4. /\ SubSeq(tip, 1, 0) = <<>> /\ SubSeq(tip, 1, n) = tip
      /\ \A i \in 0..(n - 1) : SubSeq(tip, 1, i + 1) = Append(SubSeq(tip, 1, i), tip[i + 1])
  BY <1>1, FrontGrows
<1>5. ASSUME NEW i \in 0..(n - 1)  PROVE Link(sectors, i)
  <2>1. read_record(sectors, i) = Entry(tip, i + 1)
    BY <1>3
  <2>2. i # 0 => read_record(sectors, i - 1) = Entry(tip, i)
    <3>1. i # 0 => i - 1 \in 0..(n - 1) /\ (i - 1) + 1 = i
      BY <1>1
    <3> QED
      BY <1>3, <3>1
  <2>3. \A j : /\ Entry(tip, j).kind = "Record" /\ Entry(tip, j).record = tip[j]
               /\ Entry(tip, j).hash = SubSeq(tip, 1, j)
    BY DEF Entry
  <2>4. SubSeq(tip, 1, i) = IF i = 0 THEN ZeroHash ELSE read_record(sectors, i - 1).hash
    BY <1>4, <2>2, <2>3 DEF ZeroHash
  <2>5. SubSeq(tip, 1, i + 1) = Append(SubSeq(tip, 1, i), tip[i + 1])
    BY <1>4
  <2> QED
    BY <2>1, <2>3, <2>4, <2>5 DEF Link, hash
<1>6. tip_matches(sectors, sb)
  <2>1. CASE n = 0
    BY <1>1, <2>1 DEF tip_matches, ZeroHash
  <2>2. CASE n # 0
    <3>1. n - 1 \in 0..(n - 1) /\ (n - 1) + 1 = n
      BY <1>1, <2>2
    <3>2. read_record(sectors, n - 1) = Entry(tip, n)
      BY <1>3, <3>1
    <3>3. Entry(tip, n).hash = tip
      BY <1>4 DEF Entry
    <3> QED
      BY <1>1, <2>2, <3>2, <3>3 DEF tip_matches
  <2> QED
    BY <2>1, <2>2
<1>7. ~(sb.count > record_capacity(place.count))
  BY <1>1, <1>2
<1> QED
  BY <1>0, <1>1, <1>5, <1>6, <1>7 DEF open, sectors, Log

(* Writes and the log a place holds. *)
LEMMA SameSector ==
  ASSUME NEW i \in Nat, NEW k \in Nat, i < k, sector_of(i) = sector_of(k)
  PROVE  record_slot(i) # record_slot(k) /\ record_slot(k) # 0
<1> DEFINE r == RECORDS_PER_SECTOR
<1>0. r \in Nat \ {0}
  BY RecordsPerSectorAssumption
<1>1. /\ i \div r \in Nat /\ i = r * (i \div r) + (i % r) /\ i % r \in 0..(r - 1)
      /\ k \div r \in Nat /\ k = r * (k \div r) + (k % r) /\ k % r \in 0..(r - 1)
  BY <1>0, Division
<1>2. i \div r = k \div r
  BY <1>1 DEF sector_of, FIRST_RECORD_SECTOR
<1>3. PICK m \in Int : m = r * (i \div r)
  BY <1>0, <1>1
<1>4. i = m + (i % r) /\ k = m + (k % r)
  BY <1>1, <1>2, <1>3
<1> QED
  BY <1>1, <1>4 DEF record_slot

(* A log is not touched by a write that misses it. *)
LEMMA Missed ==
  ASSUME NEW d \in Disks, NEW place, Fits(place), NEW tip, Chained(d, place, tip),
         NEW lba \in Lba, NEW c,
         \A i \in 0..(Len(tip) - 1) : lba # place.first + sector_of(i)
  PROVE  Chained([d EXCEPT ![lba] = c], place, tip)
<1> DEFINE e == [d EXCEPT ![lba] = c]
           n == Len(tip)
<1>1. tip \in Seq(Line) /\ n \in Nat /\ record_capacity(place.count) \in Nat
      /\ n <= record_capacity(place.count)
  <2>1. place.count \in Nat \ {0} /\ tip \in Seq(Line) /\ n <= record_capacity(place.count)
    BY DEF Chained, Fits
  <2> QED
    BY <2>1, SectorOf
<1>2. ASSUME NEW i \in 1..n  PROVE At(e, place, i - 1) = Entry(tip, i)
  <2>1. i - 1 \in 0..(n - 1) /\ i - 1 \in Nat /\ i - 1 < record_capacity(place.count)
    BY <1>1
  <2>2. place.first + sector_of(i - 1) \in Lba /\ lba # place.first + sector_of(i - 1)
    BY <2>1, ReadsAt
  <2>3. e[place.first + sector_of(i - 1)] = d[place.first + sector_of(i - 1)]
    BY <2>2 DEF Disks
  <2>4. At(e, place, i - 1) = At(d, place, i - 1)
    BY <2>3 DEF At
  <2> QED
    BY <2>4 DEF Chained
<1> QED
  BY <1>1, <1>2 DEF Chained

(* The superblock commits the records before it. *)
LEMMA Committing ==
  ASSUME NEW d \in Disks, NEW place, Fits(place), NEW tip, Chained(d, place, tip)
  PROVE  Holds([d EXCEPT ![place.first] = Superblock(Log(Len(tip), tip))], place, tip)
<1>1. place.first \in Lba
  BY SuperblockAt
<1>2. ASSUME NEW i \in 0..(Len(tip) - 1)  PROVE place.first # place.first + sector_of(i)
  <2>1. tip \in Seq(Line) /\ i \in Nat /\ place.count \in Nat \ {0} /\ place.first \in Nat
    BY DEF Chained, Fits
  <2>2. sector_of(i) \in Nat \ {0}
    BY <2>1, SectorOf
  <2> QED
    BY <2>1, <2>2
<1> DEFINE c == Superblock(Log(Len(tip), tip))
<1> HIDE DEF c
<1>3. Chained([d EXCEPT ![place.first] = c], place, tip)
  BY <1>1, <1>2, Missed
<1>4. [d EXCEPT ![place.first] = c][place.first] = c
  BY <1>1 DEF Disks
<1> QED
  BY <1>3, <1>4 DEF Holds, c

(* The scratch sector is outside of a log that has records. *)
LEMMA Scratching ==
  ASSUME NEW d \in Disks, NEW place, Fits(place), NEW tip, Holds(d, place, tip), tip # <<>>,
         NEW c
  PROVE  Holds([d EXCEPT ![place.scratch] = c], place, tip)
<1> DEFINE n == Len(tip)
<1>1. tip \in Seq(Line) /\ n \in Nat /\ n # 0 /\ n <= record_capacity(place.count)
  BY DEF Holds, Chained
<1>2. /\ place.count \in Nat \ {0} /\ place.first \in Nat /\ place.scratch \in Lba
      /\ record_capacity(place.count) \in Nat
  BY SectorOf DEF Fits
<1>3. \A i \in 0..(n - 1) : i \in Nat /\ i < record_capacity(place.count)
  BY <1>1, <1>2
<1>4. place.count > 1 /\ \A i \in 0..(n - 1) : sector_of(i) \in 1..(place.count - 1)
  <2>1. 0 \in 0..(n - 1)
    BY <1>1
  <2> QED
    BY <1>2, <1>3, <2>1, SectorOf
<1>5. place.scratch = place.first + place.count
  BY <1>2, <1>4 DEF Fits
<1>6. \A i \in 0..(n - 1) : place.scratch # place.first + sector_of(i)
  BY <1>2, <1>4, <1>5
<1>7. Chained([d EXCEPT ![place.scratch] = c], place, tip)
  BY <1>2, <1>6, Missed DEF Holds
<1>8. [d EXCEPT ![place.scratch] = c][place.first] = d[place.first]
  <2>1. place.first \in Lba /\ place.first # place.scratch
    BY <1>2, <1>5, SuperblockAt
  <2> QED
    BY <2>1 DEF Disks
<1> QED
  BY <1>7, <1>8 DEF Holds

(* append's first half: the log is as it was, and one longer in waiting. *)
Appended(d, place, tip, x, lba, c) ==
  /\ lba \in Lba /\ lba # place.first /\ c \in Content /\ c \in RecordSectors
  /\ lba \in place.first..(place.first + place.count - 1)
  /\ Holds([d EXCEPT ![lba] = c], place, tip)
  /\ Chained([d EXCEPT ![lba] = c], place, Append(tip, x))

LEMMA Appending ==
  ASSUME NEW d \in Disks, NEW place, Fits(place), NEW tip, Holds(d, place, tip), NEW x \in Line,
         Len(tip) < record_capacity(place.count), NEW lba, NEW c,
         lba = place.first + sector_of(Len(tip)),
         c = record_sector(Through(place, d), Log(Len(tip), tip), x)
  PROVE  Appended(d, place, tip, x, lba, c)
<1> DEFINE k == Len(tip)
           old == d[lba]
           new == [kind |-> "Record", record |-> x, hash |-> hash(x, tip)]
           e == [d EXCEPT ![lba] = c]
           next == Append(tip, x)
<1>0. tip \in Seq(Line) /\ k \in Nat /\ k < record_capacity(place.count)
      /\ record_capacity(place.count) \in Nat
  <2>1. place.count \in Nat \ {0} /\ tip \in Seq(Line)
    BY DEF Holds, Chained, Fits
  <2> QED
    BY <2>1, SectorOf
<1>1. /\ lba \in Lba /\ Through(place, d)[sector_of(k)] = old
      /\ lba \in place.first..(place.first + place.count - 1) /\ lba # place.first
  <2>1. place.count \in Nat \ {0} /\ place.first \in Nat /\ sector_of(k) \in 1..(place.count - 1)
    BY <1>0, SectorOf DEF Fits
  <2>2. lba \in Lba /\ Through(place, d)[sector_of(k)] = old
    BY <1>0, ReadsAt
  <2> QED
    BY <2>1, <2>2
<1>2. record_slot(k) \in Slice
  BY <1>0, SectorOf DEF Fits
<1>3. old \in Content /\ (old.kind = "Records" => old.slots \in [Slice -> Stored])
  BY <1>1, Kinds DEF Disks, RecordSectors, Slice
<1>4. new \in Stored
  <2>1. hash(x, tip) \in Seq(Line)
    BY <1>0 DEF hash
  <2> QED
    BY <2>1 DEF Stored
<1>5. /\ c.kind = "Records" /\ DOMAIN c.slots = Slice
      /\ c.slots[record_slot(k)] = new
      /\ \A s \in Slice : s # record_slot(k) =>
           c.slots[s] = IF record_slot(k) # 0 /\ old.kind = "Records" THEN old.slots[s]
                        ELSE Unwritten
  <2>1. Log(k, tip).count = k /\ Log(k, tip).tip = tip
    BY DEF Log
  <2> QED
    BY <1>1, <1>2, <2>1 DEF record_sector, Slice
<1>6. c \in RecordSectors
  <2> DEFINE S == c.slots
  <2>1. c = [kind |-> "Records", slots |-> S]
    BY DEF record_sector
  <2>2. S \in [Slice -> Stored]
    <3>1. S = [s \in Slice |-> S[s]]
      BY DEF record_sector, Slice
    <3>2. ASSUME NEW s \in Slice  PROVE S[s] \in Stored
      <4>1. CASE s = record_slot(k)
        BY <1>4, <1>5, <4>1
      <4>2. CASE s # record_slot(k)
        BY <1>3, <1>5, <4>2 DEF Stored
      <4> QED
        BY <4>1, <4>2
    <3> HIDE DEF S
    <3> QED
      BY <3>1, <3>2
  <2> HIDE DEF S
  <2> QED
    BY <2>1, <2>2 DEF RecordSectors, Slice
<1>7. /\ e[lba] = c /\ \A s \in Lba : s # lba => e[s] = d[s]
  BY <1>1 DEF Disks
<1>8. e[place.first] = d[place.first]
  BY <1>1, <1>7, SuperblockAt
<1> HIDE DEF new, e, old
<1>9. ASSUME NEW i \in 0..(k - 1)  PROVE At(e, place, i) = Entry(tip, i + 1)
  <2>0. i \in Nat /\ i < record_capacity(place.count) /\ i < k /\ i + 1 \in 1..k /\ (i + 1) - 1 = i
    BY <1>0
  <2>1. At(d, place, i) = Entry(tip, i + 1)
    <3>1. At(d, place, (i + 1) - 1) = Entry(tip, i + 1)
      BY <2>0 DEF Holds, Chained
    <3> QED
      BY <2>0, <3>1
  <2>2. place.first + sector_of(i) \in Lba
    BY <2>0, ReadsAt
  <2>3. CASE sector_of(i) # sector_of(k)
    <3>1. place.first + sector_of(i) # lba
      <4>1. place.first \in Nat /\ sector_of(i) \in Nat /\ sector_of(k) \in Nat
        BY <1>0, <2>0, SectorOf DEF Fits
      <4> QED
        BY <2>3, <4>1
    <3> QED
      BY <1>7, <2>1, <2>2, <3>1 DEF At
  <2>4. CASE sector_of(i) = sector_of(k)
    <3>1. record_slot(i) # record_slot(k) /\ record_slot(k) # 0 /\ record_slot(i) \in Slice
      BY <1>0, <2>0, <2>4, SameSector, SectorOf DEF Fits
    <3>2. At(d, place, i) = IF old.kind = "Records" THEN old.slots[record_slot(i)] ELSE Unwritten
      BY <2>4 DEF At, old
    <3>3. old.kind = "Records"
      <4>1. Entry(tip, i + 1).kind = "Record" /\ Unwritten.kind = "Unwritten"
        BY DEF Entry, Unwritten
      <4> QED
        BY <2>1, <3>2, <4>1
    <3>4. c.slots[record_slot(i)] = old.slots[record_slot(i)]
      BY <1>5, <3>1, <3>3
    <3>5. At(e, place, i) = c.slots[record_slot(i)]
      BY <1>5, <1>7, <2>4 DEF At
    <3> QED
      BY <2>1, <3>2, <3>3, <3>4, <3>5
  <2> QED
    BY <2>3, <2>4
<1>10. Holds(e, place, tip)
  <2>1. ASSUME NEW i \in 1..k  PROVE At(e, place, i - 1) = Entry(tip, i)
    <3>1. i - 1 \in 0..(k - 1) /\ (i - 1) + 1 = i
      BY <1>0
    <3> QED
      BY <1>9, <3>1
  <2> QED
    BY <1>0, <1>8, <2>1 DEF Holds, Chained
<1>11. /\ next \in Seq(Line) /\ Len(next) = k + 1 /\ next[k + 1] = x
       /\ \A i \in 1..k : next[i] = tip[i]
  BY <1>0
<1> HIDE DEF next
<1>12. ASSUME NEW i \in 1..(k + 1)  PROVE At(e, place, i - 1) = Entry(next, i)
  <2>1. CASE i = k + 1
    <3>1. At(e, place, k) = new
      BY <1>5, <1>7 DEF At
    <3>2. SubSeq(next, 1, Len(next)) = next
      BY <1>11, FrontGrows
    <3>3. new = Entry(next, k + 1)
      BY <1>11, <3>2 DEF new, Entry, hash, next
    <3>4. i - 1 = k
      BY <1>0, <2>1
    <3> QED
      BY <2>1, <3>1, <3>3, <3>4
  <2>2. CASE i \in 1..k
    <3>1. i - 1 \in 0..(k - 1) /\ (i - 1) + 1 = i /\ i \in 0..Len(next) /\ i \in 0..Len(tip)
      BY <1>0, <1>11, <2>2
    <3>2. PICK f, g : f = SubSeq(next, 1, i) /\ g = SubSeq(tip, 1, i)
      OBVIOUS
    <3>3. /\ f \in Seq(Line) /\ Len(f) = i /\ \A j \in 1..i : f[j] = next[j]
          /\ g \in Seq(Line) /\ Len(g) = i /\ \A j \in 1..i : g[j] = tip[j]
      BY <1>0, <1>11, <3>1, <3>2, Opening
    <3>4. \A j \in 1..i : j \in 1..k
      BY <1>0, <2>2
    <3>5. f = g
      <4>1. \A j \in 1..i : f[j] = g[j]
        BY <1>11, <3>3, <3>4
      <4> QED
        BY <3>3, <4>1, SeqEqual
    <3>6. Entry(next, i) = Entry(tip, i)
      BY <1>11, <2>2, <3>2, <3>5 DEF Entry
    <3> QED
      BY <1>9, <3>1, <3>6
  <2> QED
    BY <1>0, <2>1, <2>2
<1>13. Chained(e, place, next)
  <2>1. k + 1 <= record_capacity(place.count)
    BY <1>0
  <2> QED
    BY <1>11, <1>12, <2>1 DEF Chained
<1> QED
  BY <1>1, <1>6, <1>10, <1>13 DEF Appended, Content, e, next

-----------------------------------------------------------------------------
(* persist::run.  The inductive invariant: what the journal in memory says *)
(* is what the place it was given holds, and the table stays findable.     *)

Steps == {"up", "scratch", "scratch flush", "open", "append", "superblock", "flush", "done"}

Placed ==
  pc # "up" => storage \in Places /\ (astray = 0 => storage = Home)

Writing ==
  /\ journal.tip \in Seq(Line) /\ journal = Log(Len(journal.tip), journal.tip)
  /\ todo \in Seq(Line)
  /\ pc \in {"append", "superblock"} => Holds(View, storage, journal.tip)
  /\ pc = "superblock" =>
       todo # <<>> /\ Chained(View, storage, Append(journal.tip, Head(todo)))
  /\ pc = "flush" => \E tip : Holds(View, storage, tip)

Found == \A d \in CrashImages : Tables(d)

Running ==
  /\ Medium /\ RingKept /\ pc \in Steps /\ image \in Images /\ astray \in Nat
  /\ Placed
  /\ Writing
  /\ Found

(* What each step does to the device. *)
LEMMA Accepted ==
  ASSUME Medium, NEW lba \in Lba, NEW c \in Content
  PROVE  /\ Writes(lba, c) => Put(lba, c) /\ faulty' = faulty
         /\ WriteFails(lba, c) => (Untouched \/ Put(lba, c)) /\ faulty' = TRUE
         /\ RequestFails => Untouched /\ faulty' = TRUE
<1>1. Writes(lba, c) => Put(lba, c) /\ faulty' = faulty
  BY WritePuts DEF Writes
<1>2. RequestFails => Untouched /\ faulty' = TRUE
  BY NoWrite DEF RequestFails
<1>3. WriteFails(lba, c) => (Untouched \/ Put(lba, c)) /\ faulty' = TRUE
  BY <1>2, WritePuts DEF WriteFails
<1> QED
  BY <1>1, <1>2, <1>3

LEMMA Flushed ==
  ASSUME Medium, Flushes
  PROVE  Only(View) /\ faulty' = faulty
<1>1. PICK d : d = View
  OBVIOUS
<1>2. d \in Disks
  BY <1>1, ImagesTyped
<1>3. Only(d)
  BY <1>1, <1>2, NonePending DEF Flushes
<1> QED
  BY <1>1, <1>3 DEF Flushes, Only

LEMMA Scratches ==
  ASSUME Running, ScratchWrite
  PROVE  /\ Untouched \/ Put(storage.scratch, Scratch)
         /\ faulty' = TRUE \/ faulty' = faulty
<1>1. Fits(storage) /\ Medium
  BY PlacesFit DEF Running, Placed, ScratchWrite
<1>2. storage.scratch \in Lba /\ Scratch \in Content
  BY <1>1 DEF Fits, Content
<1> QED
  BY <1>1, <1>2, Accepted DEF ScratchWrite, scratch_lba

LEMMA ScratchFlushes ==
  ASSUME Running, ScratchFlush
  PROVE  (Untouched \/ Only(View)) /\ (faulty' = TRUE \/ faulty' = faulty)
<1>1. Medium
  BY DEF Running
<1>2. CASE Flushes
  BY <1>1, <1>2, Flushed
<1>3. CASE RequestFails
  BY <1>1, <1>3, NoWrite DEF RequestFails
<1> QED
  BY <1>2, <1>3 DEF ScratchFlush

(* Opening finds the log that is there, or starts one where none is. *)
Begins(tip) ==
  /\ Holds(View, storage, tip) /\ Untouched /\ StartAppending(Log(Len(tip), tip))

Fresh ==
  /\ \A tip : ~Holds(View, storage, tip)
  /\ Put(storage.first, Superblock(Log(Len(ZeroHash), ZeroHash)))
  /\ \/ StartAppending(Log(Len(ZeroHash), ZeroHash)) /\ faulty' = faulty
     \/ GiveUp /\ faulty' = TRUE

Refused == GiveUp /\ Untouched

LEMMA Opens ==
  ASSUME Running, OpenJournal
  PROVE  (\E tip : Begins(tip)) \/ Fresh \/ Refused
<1> DEFINE found == open(Through(storage, View), storage.count)
           fresh == Log(0, ZeroHash)
<1>1. Fits(storage) /\ Medium /\ View \in Disks
  BY PlacesFit, ImagesTyped DEF Running, Placed, OpenJournal
<1>2. ZeroHash \in Seq(Line) /\ Len(ZeroHash) = 0
  BY DEF ZeroHash
<1>3. storage.first \in Lba /\ superblock_lba = storage.first
      /\ Superblock(Log(Len(ZeroHash), ZeroHash)) \in Content
  <2>1. storage.first \in Nat /\ storage.first \in Lba
    BY <1>1, SuperblockAt DEF Fits
  <2>2. superblock_lba = storage.first
    BY <2>1 DEF superblock_lba, SUPERBLOCK_SECTOR
  <2>3. Superblock(Log(Len(ZeroHash), ZeroHash)) \in Content
    BY <1>2, SuperblockHolds
  <2> QED
    BY <2>1, <2>2, <2>3
<1>4. UNCHANGED deviceVars \/ RequestFails => Untouched
  BY <1>1, NoWrite DEF deviceVars, RequestFails
<1>5. CASE found.ok /\ StartAppending(found.journal) /\ (UNCHANGED deviceVars \/ RequestFails)
  <2>1. PICK tip \in Seq(Line) : Holds(View, storage, tip) /\ found.journal = Log(Len(tip), tip)
    BY <1>1, <1>5, AcceptedIsHeld
  <2> QED
    BY <1>4, <1>5, <2>1 DEF Begins
<1>6. CASE GiveUp /\ (UNCHANGED deviceVars \/ RequestFails)
  BY <1>4, <1>6 DEF Refused
<1>7. ASSUME ~found.ok  PROVE \A tip : ~Holds(View, storage, tip)
  BY <1>1, <1>7, HeldIsAccepted
<1> HIDE DEF found
<1>8. CASE /\ ~found.ok /\ Writes(superblock_lba, Superblock(fresh)) /\ StartAppending(fresh)
  BY <1>1, <1>2, <1>3, <1>7, <1>8, Accepted DEF Fresh
<1>9. CASE ~found.ok /\ WriteFails(superblock_lba, Superblock(fresh)) /\ GiveUp
  <2>1. faulty' = TRUE
        /\ (Untouched \/ Put(storage.first, Superblock(Log(Len(ZeroHash), ZeroHash))))
    BY <1>1, <1>2, <1>3, <1>9, Accepted
  <2> QED
    BY <1>7, <1>9, <2>1 DEF Fresh, Refused
<1> QED
  BY <1>5, <1>6, <1>8, <1>9 DEF OpenJournal, found

(* append's two writes. *)
Lengthens ==
  \E lba, c :
    /\ Appended(View, storage, journal.tip, Head(todo), lba, c) /\ Put(lba, c)
    /\ Len(journal.tip) < record_capacity(storage.count)
    /\ pc' = "superblock" \/ (pc' = "flush" /\ faulty' = TRUE)

Stops ==
  /\ Untouched /\ pc' = "flush"
  /\ Len(journal.tip) >= record_capacity(storage.count) \/ faulty' = TRUE

LEMMA Appends ==
  ASSUME Running, AppendRecord
  PROVE  Lengthens \/ Stops
<1> DEFINE lba == storage.first + sector_of(journal.count)
           c == record_sector(Through(storage, View), journal, Head(todo))
<1>1. Fits(storage) /\ Medium /\ View \in Disks /\ Holds(View, storage, journal.tip)
  BY PlacesFit, ImagesTyped DEF Running, Placed, Writing, AppendRecord
<1>2. journal = Log(Len(journal.tip), journal.tip) /\ journal.count = Len(journal.tip)
  <2>1. journal = Log(Len(journal.tip), journal.tip)
    BY DEF Running, Writing
  <2> QED
    BY <2>1 DEF Log
<1>3. Head(todo) \in Line
  <2>1. todo \in Seq(Line) /\ todo # <<>>
    BY DEF Running, Writing, AppendRecord
  <2> QED
    BY <2>1
<1>4. CASE Len(journal.tip) < record_capacity(storage.count)
  <2>1. Appended(View, storage, journal.tip, Head(todo), lba, c)
    BY <1>1, <1>2, <1>3, <1>4, Appending
  <2>2. lba \in Lba /\ c \in Content
    BY <2>1 DEF Appended
  <2> HIDE DEF lba, c
  <2>3. Writes(lba, c) /\ pc' = "superblock" => Lengthens
    BY <1>1, <1>4, <2>1, <2>2, Accepted DEF Lengthens
  <2>4. WriteFails(lba, c) /\ pc' = "flush" => Lengthens \/ Stops
    BY <1>1, <1>4, <2>1, <2>2, Accepted DEF Lengthens, Stops
  <2>5. record_capacity(storage.count) \in Nat /\ Len(journal.tip) \in Nat
    <3>1. journal.tip \in Seq(Line) /\ storage.count \in Nat \ {0}
      BY <1>1 DEF Fits, Running, Writing
    <3>2. Len(journal.tip) \in Nat
      BY <3>1
    <3>3. record_capacity(storage.count) \in Nat
      BY <3>1, SectorOf
    <3> QED
      BY <3>2, <3>3
  <2> QED
    BY <1>2, <1>4, <2>3, <2>4, <2>5 DEF AppendRecord, lba, c
<1>5. CASE ~(Len(journal.tip) < record_capacity(storage.count))
  <2>1. Untouched /\ pc' = "flush"
    BY <1>1, <1>2, <1>5, NoWrite DEF AppendRecord, deviceVars
  <2>2. Len(journal.tip) >= record_capacity(storage.count)
    BY <1>2, <1>5 DEF AppendRecord
  <2> QED
    BY <2>1, <2>2 DEF Stops
<1> QED
  BY <1>4, <1>5

Advances(next) ==
  /\ next = Append(journal.tip, Head(todo)) /\ next \in Seq(Line)
  /\ todo # <<>> /\ Head(todo) \in Line /\ todo' = Tail(todo)
  /\ Chained(View, storage, next)
  /\ journal' = Log(Len(next), next)
  /\ \/ /\ Put(storage.first, Superblock(Log(Len(next), next)))
        /\ pc' = "append" \/ (pc' = "flush" /\ faulty' = TRUE)
     \/ Untouched /\ pc' = "flush" /\ faulty' = TRUE

LEMMA Commits ==
  ASSUME Running, AppendSuperblock
  PROVE  \E next : Advances(next)
<1>1. Fits(storage) /\ Medium /\ View \in Disks
  BY PlacesFit, ImagesTyped DEF Running, Placed, AppendSuperblock
<1>2. PICK next : next = Append(journal.tip, Head(todo))
  OBVIOUS
<1>3. journal = Log(Len(journal.tip), journal.tip) /\ journal.count = Len(journal.tip)
  <2>1. journal = Log(Len(journal.tip), journal.tip)
    BY DEF Running, Writing
  <2> QED
    BY <2>1 DEF Log
<1>4. Head(todo) \in Line /\ journal.tip \in Seq(Line) /\ todo # <<>>
  <2>1. todo \in Seq(Line) /\ todo # <<>> /\ journal.tip \in Seq(Line)
    BY DEF Running, Writing, AppendSuperblock
  <2> QED
    BY <2>1
<1>5. next \in Seq(Line) /\ Len(next) = Len(journal.tip) + 1
  BY <1>2, <1>4
<1>6. journal' = Log(Len(next), next)
  BY <1>2, <1>3, <1>5 DEF AppendSuperblock, advanced, hash
<1>7. Chained(View, storage, next)
  BY <1>2 DEF Running, Writing, AppendSuperblock
<1>8. storage.first \in Lba /\ superblock_lba = storage.first
  <2>1. storage.first \in Nat /\ storage.first \in Lba
    BY <1>1, SuperblockAt DEF Fits
  <2> QED
    BY <2>1 DEF superblock_lba, SUPERBLOCK_SECTOR
<1>9. Superblock(Log(Len(next), next)) \in Content
  BY <1>5, SuperblockHolds
<1>10. \/ Writes(storage.first, Superblock(Log(Len(next), next))) /\ pc' = "append"
       \/ WriteFails(storage.first, Superblock(Log(Len(next), next))) /\ pc' = "flush"
  BY <1>6, <1>8 DEF AppendSuperblock
<1>11. todo' = Tail(todo)
  BY DEF AppendSuperblock
<1> QED
  BY <1>1, <1>2, <1>4, <1>5, <1>6, <1>7, <1>8, <1>9, <1>10, <1>11, Accepted DEF Advances

(* The commit, and the power going out. *)
LEMMA Commit ==
  ASSUME Running, FlushJournal
  PROVE  \/ Only(View) /\ committed' = View[storage.first].tip /\ faulty' = faulty
         \/ Untouched /\ committed' = committed /\ faulty' = TRUE
<1>1. Fits(storage) /\ Medium
  BY PlacesFit DEF Running, Placed, FlushJournal
<1>2. superblock_lba = storage.first
  BY <1>1 DEF superblock_lba, SUPERBLOCK_SECTOR, Fits
<1>3. CASE Flushes /\ committed' = View[superblock_lba].tip
  BY <1>1, <1>2, <1>3, Flushed
<1>4. CASE RequestFails /\ UNCHANGED committed
  BY <1>1, <1>4, NoWrite DEF RequestFails
<1> QED
  BY <1>3, <1>4 DEF FlushJournal

LEMMA GoesOut ==
  ASSUME Running, PowerCycle
  PROVE  \E d \in CrashImages :
           Only(d) /\ (~reordered' => ~reordered /\ d \in OrderedImages)
<1>1. PICK d \in CrashImages : durable' = d
  BY DEF PowerCycle
<1>2. d \in Disks
  BY ImagesTyped DEF Running
<1>3. Only(d)
  BY <1>1, <1>2, NonePending DEF PowerCycle
<1>4. ~reordered' => ~reordered /\ d \in OrderedImages
  BY <1>1 DEF PowerCycle
<1> QED
  BY <1>3, <1>4

-----------------------------------------------------------------------------
(* The invariant is inductive. *)

LEMMA VisitsTyped ==
  ASSUME RingKept
  PROVE  /\ for_each \in Seq(Line)
         /\ \A i \in 1..Len(for_each) :
              /\ for_each[i].what = boot
              /\ for_each[i].sequence = first_retained + i - 1
<1> DEFINE n == written - first_retained + 1
<1>1. first_retained \in Nat \ {0} /\ written \in Nat /\ n \in Nat
  BY Visits, CapacityAssumption
<1>2. for_each = [i \in 1..n |-> ring[slot_of(first_retained + i - 1)]]
  BY Visits
<1> HIDE DEF for_each, first_retained, written
<1>3. ASSUME NEW i \in 1..n
      PROVE  ring[slot_of(first_retained + i - 1)]
               \in [sequence : {first_retained + i - 1}, what : {boot}]
  <2>1. first_retained + i - 1 \in first_retained..written
    BY <1>1
  <2> QED
    BY <2>1 DEF RingKept
<1> HIDE DEF n
<1>4. ASSUME NEW i \in 1..n
      PROVE  /\ for_each[i] \in Line /\ for_each[i].what = boot
             /\ for_each[i].sequence = first_retained + i - 1
  <2>1. first_retained + i - 1 \in Nat /\ boot \in Nat
    BY <1>1 DEF RingKept, RingTyped
  <2> QED
    BY <1>2, <1>3, <2>1 DEF Line
<1>5. for_each \in [1..n -> Line]
  BY <1>2, <1>4
<1>6. for_each \in Seq(Line) /\ Len(for_each) = n
  BY <1>1, <1>5, SeqDef
<1> QED
  BY <1>4, <1>6

(* Where the journal writes: nothing of it is a table. *)
LEMMA Within ==
  ASSUME Running, pc # "up", image = "partitioned", astray = 0
  PROVE  /\ storage.scratch \in FirstLba..LastLba /\ storage.first \in FirstLba..LastLba
         /\ storage.first..(storage.first + storage.count - 1) \subseteq FirstLba..LastLba
<1>1. storage = InPartition
  BY DEF Running, Placed, Home
<1>2. FirstLba \in Nat /\ LastLba \in Nat /\ FirstLba <= LastLba
  BY PersistAssumption
<1>3. storage.scratch = LastLba /\ storage.first = FirstLba
      /\ storage.count = IF LastLba > FirstLba THEN LastLba - FirstLba ELSE 1
  BY <1>1 DEF InPartition
<1> QED
  BY <1>2, <1>3

LEMMA StaysFound ==
  ASSUME Running, UNCHANGED <<image, astray>>, NEW lba \in Lba, NEW c \in Content, Put(lba, c),
         c.kind # "Header", image = "partitioned" /\ astray = 0 => lba \in FirstLba..LastLba
  PROVE  Found'
<1> SUFFICES ASSUME NEW d \in CrashImages'  PROVE Tables(d)'
  BY DEF Found
<1>1. ASSUME NEW e \in CrashImages  PROVE Tables(e) /\ e \in Disks
  BY ImagesTyped DEF Running, Found
<1>2. ASSUME NEW e, Tables(e)  PROVE Tables(e)'
  BY <1>2 DEF Tables
<1>3. CASE d \in CrashImages
  BY <1>1, <1>2, <1>3
<1>4. ASSUME NEW e \in CrashImages, d = [e EXCEPT ![lba] = c]  PROVE Tables(d)
  <2>1. Tables(e) /\ e \in Disks
    BY <1>1
  <2>2. d[lba] = c /\ \A s \in Lba : s # lba => d[s] = e[s]
    BY <1>4, <2>1 DEF Disks
  <2>3. CASE image = "partitioned"
    BY <2>1, <2>2, <2>3 DEF Tables, Outside
  <2>4. CASE image # "partitioned"
    <3>1. 1 \in Lba /\ SECTORS - 2 \in Lba
      BY PlacesFit DEF Lba
    <3> QED
      BY <2>1, <2>2, <2>4, <3>1 DEF Tables
  <2> QED
    BY <2>3, <2>4
<1> QED
  BY <1>2, <1>3, <1>4 DEF Put

LEMMA StillFound ==
  ASSUME Running, UNCHANGED image, astray' = astray \/ astray' = astray + 1,
         CrashImages' \subseteq CrashImages
  PROVE  Found'
<1>1. ASSUME NEW d \in CrashImages'  PROVE Tables(d)'
  <2>1. Tables(d) /\ astray \in Nat
    BY DEF Running, Found
  <2> QED
    BY <2>1 DEF Tables
<1> QED
  BY <1>1 DEF Found

LEMMA RunningInitially == PersistInit => Running
<1> SUFFICES ASSUME PersistInit  PROVE Running
  OBVIOUS
<1>1. RingKept
  BY EmptyRing DEF PersistInit
<1>2. durable = Original(image) /\ pending = <<>> /\ image \in {"bare", "partitioned", "damaged"}
  BY PersistAssumption DEF PersistInit
<1>3. durable \in Disks
  <2>1. SECTORS \in Nat
    BY PersistAssumption
  <2>2. ASSUME NEW s \in Lba  PROVE Original(image)[s] \in Content
    BY <2>1 DEF Original, Content
  <2> QED
    BY <1>2, <2>2 DEF Original, Disks
<1>4. Medium
  BY <1>2, <1>3 DEF Medium
<1>5. CrashImages = {durable}
  <2>1. CrashImages = {Over(durable, pending, K) : K \in SUBSET DOMAIN pending}
    BY DEF CrashImages, Applied, Over
  <2>2. SUBSET DOMAIN pending = {{}}
    BY <1>2
  <2>3. Over(durable, pending, {}) = durable
    BY <1>3 DEF Over, Disks
  <2> QED
    BY <2>1, <2>2, <2>3
<1>6. Found
  <2>1. 1 \in Lba /\ SECTORS - 2 \in Lba /\ SECTORS - 2 # 1 /\ SECTORS - 2 # SECTORS - 1
    BY PlacesFit DEF Lba
  <2>2. image # "partitioned" => Original(image)[1].kind # "Header"
    BY <1>2, <2>1 DEF Original, Blank, Damaged
  <2>3. image # "partitioned" => Original(image)[SECTORS - 2].kind # "Header"
    BY <1>2, <2>1 DEF Original, Blank, Entries
  <2> QED
    BY <1>2, <1>5, <2>2, <2>3 DEF Found, Tables
<1>7. Writing
  <2>1. journal = Log(0, ZeroHash) /\ todo = <<>> /\ pc = "up"
    BY DEF PersistInit
  <2>2. journal.tip = <<>> /\ Len(<<>>) = 0
    BY <2>1 DEF Log, ZeroHash
  <2>3. journal = Log(Len(journal.tip), journal.tip)
    BY <2>1, <2>2 DEF ZeroHash
  <2>4. journal.tip \in Seq(Line) /\ todo \in Seq(Line)
    <3>1. <<>> \in Seq(Line)
      OBVIOUS
    <3> QED
      BY <2>1, <2>2, <3>1, Zenon
  <2> QED
    BY <2>1, <2>3, <2>4 DEF Writing
<1> QED
  BY <1>1, <1>4, <1>6, <1>7 DEF Running, PersistInit, Placed, Steps

LEMMA RunningStep == Running /\ [PersistNext]_persistVars => Running'
<1> SUFFICES ASSUME Running, [PersistNext]_persistVars  PROVE Running'
  OBVIOUS
<1>1. RingKept'
  BY RingStep DEF Running
<1>2. pc' \in Steps /\ image' = image /\ (astray' = astray \/ astray' = astray + 1)
  BY DEF Running, Steps, PersistNext, persistVars, Journaled, Locate, ScratchWrite, ScratchFlush,
         OpenJournal, StartAppending, GiveUp, AppendRecord, AppendSuperblock, EndOfRing,
         FlushJournal, PowerCycle
<1>3. image' \in Images /\ astray' \in Nat
  BY <1>2 DEF Running
<1> SUFFICES Medium' /\ Placed' /\ Writing' /\ Found'
  BY <1>1, <1>2, <1>3 DEF Running
<1>4. Medium /\ Found /\ Placed /\ Writing /\ RingKept /\ View \in Disks
  BY ImagesTyped DEF Running
<1>5. Home' = Home
  BY <1>2 DEF Home, InPartition, WholeDisk, sector_count
<1>6. Untouched => CrashImages' \subseteq CrashImages /\ Medium'
  BY DEF Untouched
<1>7. Only(View) => CrashImages' \subseteq CrashImages /\ Medium'
  BY <1>4, ImagesTyped DEF Only
<1>8. pc # "up" => Fits(storage)
  BY <1>4, PlacesFit DEF Placed
<1>9. CASE Journaled
  <2>1. Untouched /\ UNCHANGED <<pc, storage, journal, todo, image, astray>>
    BY <1>4, <1>9, NoWrite DEF Journaled, deviceVars
  <2>2. Writing'
    BY <1>4, <2>1 DEF Writing, Untouched
  <2>3. Placed'
    BY <1>4, <1>5, <2>1 DEF Placed
  <2> QED
    BY <1>6, <2>1, <2>2, <2>3, StillFound
<1>10. CASE Locate
  <2>1. Untouched /\ pc' = "scratch" /\ UNCHANGED <<journal, todo, image>>
    BY <1>4, <1>10, NoWrite DEF Locate, deviceVars, RequestFails
  <2>2. Writing'
    BY <1>4, <2>1 DEF Writing
  <2>3. Placed'
    <3>1. CASE storage' = placed(View, TRUE) /\ astray' = astray
      <4>1. storage' \in Places
        BY <1>4, <3>1, PlacedSomewhere
      <4>2. astray = 0 => storage' = Home
        <5>1. Tables(View)
          BY <1>4, ImagesTyped DEF Found
        <5> QED
          BY <1>4, <3>1, <5>1, HomeFound
      <4> QED
        BY <1>5, <3>1, <4>1, <4>2 DEF Placed
    <3>2. CASE storage' = placed(View, FALSE) /\ astray' = astray + 1
      <4>1. storage' \in Places
        BY <1>4, <3>2, PlacedSomewhere
      <4>2. astray' # 0
        BY <3>2 DEF Running
      <4> QED
        BY <4>1, <4>2 DEF Placed
    <3> QED
      BY <1>10, <3>1, <3>2 DEF Locate
  <2> QED
    BY <1>2, <1>6, <2>1, <2>2, <2>3, StillFound
<1>11. CASE ScratchWrite
  <2>1. /\ pc # "up" /\ pc' \in {"scratch flush", "open"}
        /\ UNCHANGED <<storage, journal, todo, image, astray>>
    BY <1>11 DEF ScratchWrite
  <2>2. Untouched \/ Put(storage.scratch, Scratch)
    BY <1>11, Scratches
  <2>3. Placed' /\ Writing'
    BY <1>4, <1>5, <2>1 DEF Placed, Writing
  <2>4. CASE Untouched
    BY <1>2, <1>6, <2>3, <2>4, StillFound
  <2>5. CASE Put(storage.scratch, Scratch)
    <3>1. Scratch \in Content /\ Scratch.kind # "Header" /\ storage.scratch \in Lba
      BY <1>8, <2>1 DEF Content, Scratch, Fits
    <3>2. Found'
      BY <2>1, <2>5, <3>1, Within, StaysFound
    <3> QED
      BY <2>3, <2>5, <3>2 DEF Put
  <2> QED
    BY <2>2, <2>4, <2>5
<1>12. CASE ScratchFlush
  <2>1. /\ pc # "up" /\ pc' = "open" /\ UNCHANGED <<storage, journal, todo, image, astray>>
    BY <1>12 DEF ScratchFlush
  <2>2. Untouched \/ Only(View)
    BY <1>12, ScratchFlushes
  <2>3. Placed' /\ Writing'
    BY <1>4, <1>5, <2>1 DEF Placed, Writing
  <2> QED
    BY <1>2, <1>6, <1>7, <2>2, <2>3, StillFound
<1>13. CASE OpenJournal
  <2>1. pc = "open" /\ UNCHANGED <<storage, image, astray>>
    BY <1>13 DEF OpenJournal
  <2>2. Placed'
    BY <1>4, <1>5, <2>1 DEF Placed
  <2>3. Fits(storage) /\ storage.first \in Lba
    BY <1>4, <1>8, <2>1, SuperblockAt
  <2>4. ASSUME NEW tip, tip \in Seq(Line), StartAppending(Log(Len(tip), tip)),
               Holds(View', storage, tip)
        PROVE  Writing'
    <3>1. pc' = "append" /\ todo' = for_each /\ journal' = Log(Len(tip), tip)
      BY <2>4 DEF StartAppending
    <3>2. todo' \in Seq(Line)
      BY <1>4, <3>1, VisitsTyped
    <3>3. journal'.tip = tip
      BY <3>1 DEF Log
    <3> QED
      BY <2>1, <2>4, <3>1, <3>2, <3>3 DEF Writing
  <2>5. ASSUME GiveUp  PROVE Writing'
    BY <1>4, <2>5 DEF GiveUp, Writing
  <2>6. ASSUME NEW tip, Begins(tip)  PROVE Medium' /\ Writing' /\ Found'
    <3>1. tip \in Seq(Line) /\ Holds(View', storage, tip)
      BY <2>6 DEF Begins, Holds, Chained, Untouched
    <3>2. Writing'
      BY <2>4, <2>6, <3>1 DEF Begins
    <3> QED
      BY <1>2, <1>6, <2>6, <3>2, StillFound DEF Begins
  <2>7. CASE Fresh
    <3>1. PICK tip : tip = ZeroHash
      OBVIOUS
    <3>2. tip \in Seq(Line) /\ Len(tip) = 0
      BY <3>1 DEF ZeroHash
    <3>3. PICK c : c = Superblock(Log(Len(tip), tip))
      OBVIOUS
    <3>4. c \in Content /\ c.kind # "Header"
      BY <3>2, <3>3, SuperblockHolds
    <3>5. Put(storage.first, c)
      BY <2>7, <3>1, <3>3 DEF Fresh
    <3>6. Found'
      BY <2>1, <2>3, <3>4, <3>5, Within, StaysFound
    <3>7. Holds(View', storage, tip)
      <4>1. Chained(View, storage, tip)
        <5>1. Len(tip) <= record_capacity(storage.count) /\ 1..Len(tip) = {}
          <6>1. storage.count \in Nat \ {0}
            BY <2>3 DEF Fits
          <6>2. record_capacity(storage.count) \in Nat
            BY <6>1, SectorOf
          <6> QED
            BY <3>2, <6>2
        <5> QED
          BY <3>2, <5>1 DEF Chained
      <4>2. View' = [View EXCEPT ![storage.first] = c]
        BY <3>5 DEF Put
      <4> QED
        BY <1>4, <2>3, <3>3, <4>1, <4>2, Committing
    <3>8. Writing'
      BY <2>4, <2>5, <2>7, <3>1, <3>2, <3>7 DEF Fresh
    <3> QED
      BY <2>2, <3>5, <3>6, <3>8 DEF Put
  <2>8. CASE Refused
    BY <1>2, <1>6, <2>2, <2>5, <2>8, StillFound DEF Refused
  <2> QED
    BY <1>13, <2>2, <2>6, <2>7, <2>8, Opens
<1>14. CASE AppendRecord
  <2>1. pc = "append" /\ UNCHANGED <<storage, journal, todo, image, astray>> /\ todo # <<>>
    BY <1>14 DEF AppendRecord
  <2>2. Placed' /\ Holds(View, storage, journal.tip)
    BY <1>4, <1>5, <2>1 DEF Placed, Writing
  <2>3. CASE Lengthens
    <3>1. PICK lba, c :
            /\ Appended(View, storage, journal.tip, Head(todo), lba, c) /\ Put(lba, c)
            /\ pc' \in {"superblock", "flush"}
      BY <2>3 DEF Lengthens
    <3>2. /\ lba \in Lba /\ c \in Content /\ c.kind # "Header"
          /\ lba \in storage.first..(storage.first + storage.count - 1)
      BY <3>1 DEF Appended, RecordSectors
    <3>3. Found'
      BY <2>1, <3>1, <3>2, Within, StaysFound
    <3>4. /\ Holds(View', storage, journal.tip)
          /\ Chained(View', storage, Append(journal.tip, Head(todo)))
      BY <3>1 DEF Appended, Put
    <3>5. Writing'
      BY <1>4, <2>1, <3>1, <3>4 DEF Writing
    <3> QED
      BY <2>2, <3>1, <3>3, <3>5 DEF Put
  <2>4. CASE Stops
    <3>0. Untouched /\ pc' = "flush"
      BY <2>4 DEF Stops
    <3>1. Writing'
      BY <1>4, <2>1, <2>2, <3>0 DEF Writing, Untouched
    <3> QED
      BY <1>2, <1>6, <2>2, <3>0, <3>1, StillFound
  <2>5. Lengthens \/ Stops
    BY <1>14, Appends
  <2> QED
    BY <2>3, <2>4, <2>5
<1>15. CASE AppendSuperblock
  <2>1. pc = "superblock" /\ UNCHANGED <<storage, image, astray>>
    BY <1>15 DEF AppendSuperblock
  <2>2. Placed' /\ Holds(View, storage, journal.tip)
    BY <1>4, <1>5, <2>1, <1>15 DEF Placed, Writing, AppendSuperblock
  <2>3. Fits(storage) /\ storage.first \in Lba
    BY <1>4, <1>8, <2>1, SuperblockAt
  <2>4. PICK next : Advances(next)
    BY <1>15, Commits
  <2>5. /\ next \in Seq(Line) /\ journal' = Log(Len(next), next) /\ todo' = Tail(todo)
        /\ Chained(View, storage, next) /\ todo # <<>> /\ pc' \in {"append", "flush"}
    BY <2>4 DEF Advances
  <2>6. /\ journal'.tip = next /\ journal'.tip \in Seq(Line) /\ todo' \in Seq(Line)
    <3>1. todo \in Seq(Line)
      BY <1>4 DEF Writing
    <3>2. journal'.tip = next
      BY <2>5 DEF Log
    <3>3. Tail(todo) \in Seq(Line)
      BY <2>5, <3>1
    <3> QED
      BY <2>5, <3>2, <3>3
  <2>7. PICK c : c = Superblock(Log(Len(next), next))
    OBVIOUS
  <2>8. CASE Put(storage.first, c)
    <3>1. c \in Content /\ c.kind # "Header"
      BY <2>5, <2>7, SuperblockHolds
    <3>2. Found'
      BY <2>1, <2>3, <2>8, <3>1, Within, StaysFound
    <3>3. Holds(View', storage, next)
      <4>1. View' = [View EXCEPT ![storage.first] = c]
        BY <2>8 DEF Put
      <4> QED
        BY <1>4, <2>3, <2>5, <2>7, <4>1, Committing
    <3>4. Writing'
      BY <2>1, <2>5, <2>6, <3>3 DEF Writing
    <3> QED
      BY <2>2, <2>8, <3>2, <3>4 DEF Put
  <2>9. CASE Untouched /\ pc' = "flush"
    <3>1. Writing'
      BY <2>1, <2>2, <2>5, <2>6, <2>9 DEF Writing, Untouched
    <3> QED
      BY <1>2, <1>6, <2>2, <2>9, <3>1, StillFound
  <2> QED
    BY <2>4, <2>7, <2>8, <2>9 DEF Advances
<1>16. CASE EndOfRing
  <2>1. Untouched /\ UNCHANGED <<storage, journal, todo, image, astray>> /\ pc = "append"
        /\ pc' = "flush"
    BY <1>4, <1>16, NoWrite DEF EndOfRing, deviceVars
  <2>2. Placed' /\ Writing'
    BY <1>4, <1>5, <2>1 DEF Placed, Writing, Untouched
  <2> QED
    BY <1>2, <1>6, <2>1, <2>2, StillFound
<1>17. CASE FlushJournal
  <2>1. pc = "flush" /\ pc' = "done" /\ UNCHANGED <<storage, journal, todo, image, astray>>
    BY <1>17 DEF FlushJournal
  <2>2. Placed' /\ Writing'
    BY <1>4, <1>5, <2>1 DEF Placed, Writing
  <2>3. Untouched \/ Only(View)
    BY <1>17, Commit
  <2> QED
    BY <1>2, <1>6, <1>7, <2>2, <2>3, StillFound
<1>18. CASE PowerCycle
  <2>1. PICK d \in CrashImages : Only(d)
    BY <1>18, GoesOut
  <2>2. pc' = "up" /\ journal' = Log(0, ZeroHash) /\ todo' = <<>> /\ UNCHANGED <<image, astray>>
    BY <1>18 DEF PowerCycle
  <2>3. journal'.tip = <<>> /\ Len(<<>>) = 0 /\ <<>> \in Seq(Line)
    BY <2>2 DEF Log, ZeroHash
  <2>4. journal' = Log(Len(journal'.tip), journal'.tip)
    BY <2>2, <2>3 DEF ZeroHash
  <2>5. Placed' /\ Writing'
    BY <2>2, <2>3, <2>4, Zenon DEF Placed, Writing
  <2>6. CrashImages' \subseteq CrashImages /\ Medium'
    BY <2>1 DEF Only
  <2> QED
    BY <1>2, <2>5, <2>6, StillFound
<1>19. CASE UNCHANGED persistVars
  <2>1. Untouched /\ UNCHANGED <<pc, storage, journal, todo, image, astray>>
    BY <1>4, <1>19, NoWrite DEF persistVars
  <2>2. Placed' /\ Writing'
    BY <1>4, <1>5, <2>1 DEF Placed, Writing, Untouched
  <2> QED
    BY <1>2, <1>6, <2>1, <2>2, StillFound
<1> QED
  BY <1>9, <1>10, <1>11, <1>12, <1>13, <1>14, <1>15, <1>16, <1>17, <1>18, <1>19 DEF PersistNext

LEMMA RunningAlways == PersistSpec => []Running
  BY RunningInitially, RunningStep, PTL DEF PersistSpec

(* On a partitioned disk whose table could always be read, no boot, crash  *)
(* or failing device makes persist::run write outside of the journal's     *)
(* partition.                                                              *)
THEOREM JournalStaysInside == PersistSpec => []WritesStayInside
<1>1. Running => WritesStayInside
  <2> SUFFICES ASSUME Running, image = "partitioned", astray = 0
               PROVE  \A s \in Outside : View[s] = Original(image)[s]
    BY DEF WritesStayInside
  <2>1. Tables(View)
    BY ImagesTyped DEF Running, Found
  <2> QED
    BY <2>1 DEF Tables
<1> QED
  BY <1>1, RunningAlways, PTL

(* While Journal::append runs, the records on the disk are those the tip   *)
(* in memory is the hash of: none stale, none lost.                        *)
THEOREM TipIsTheDisk == PersistSpec => []TipMatchesDisk
<1>1. Running => TipMatchesDisk
  <2> SUFFICES ASSUME Running, pc \in {"append", "superblock"}
               PROVE  RawLog(Through(storage, View), journal.count) = journal.tip
    BY DEF TipMatchesDisk
  <2>1. Fits(storage) /\ View \in Disks
    BY PlacesFit, ImagesTyped DEF Running, Placed
  <2>2. PICK tip : tip = journal.tip
    OBVIOUS
  <2>3. tip \in Seq(Line) /\ Holds(View, storage, tip) /\ journal = Log(Len(tip), tip)
    BY <2>2 DEF Running, Writing
  <2>4. journal.count = Len(tip)
    BY <2>3 DEF Log
  <2>5. PICK n \in Nat : n = Len(tip)
    BY <2>3
  <2>6. PICK view : view = Through(storage, View)
    OBVIOUS
  <2>7. ASSUME NEW i \in 1..n
        PROVE  LET r == read_record(view, i - 1)
               IN  (IF r.kind = "Record" THEN r.record ELSE r) = tip[i]
    <3>1. i - 1 \in Nat /\ i - 1 < record_capacity(storage.count)
      <4>1. n <= record_capacity(storage.count)
        BY <2>3, <2>5 DEF Holds, Chained
      <4>2. storage.count \in Nat \ {0}
        BY <2>1 DEF Fits
      <4>3. record_capacity(storage.count) \in Nat
        BY <4>2, SectorOf
      <4> QED
        BY <4>1, <4>3
    <3>2. read_record(view, i - 1) = At(View, storage, i - 1)
      BY <2>1, <2>6, <3>1, ReadsAt
    <3>3. At(View, storage, i - 1) = Entry(tip, i)
      BY <2>3, <2>5 DEF Holds, Chained
    <3> QED
      BY <3>2, <3>3 DEF Entry
  <2>8. RawLog(view, n) = [i \in 1..n |-> tip[i]]
    BY <2>7 DEF RawLog
  <2>9. tip = [i \in 1..n |-> tip[i]]
    BY <2>3, <2>5
  <2> QED
    BY <2>2, <2>4, <2>5, <2>6, <2>8, <2>9
<1> QED
  BY <1>1, RunningAlways, PTL

-----------------------------------------------------------------------------
(* What was committed. *)

LEMMA PrefixOf ==
  ASSUME NEW S, NEW s \in Seq(S), NEW t \in Seq(S)
  PROVE  IsPrefix(s, t) <=> Len(s) <= Len(t) /\ \A i \in 1..Len(s) : s[i] = t[i]
<1>1. SubSeq(s, 1, Len(s)) = s
  BY FrontGrows
<1>2. CASE Len(s) <= Len(t)
  <2>1. PICK n \in Nat : n = Len(s)
    OBVIOUS
  <2>2. n \in 0..Len(t)
    BY <1>2, <2>1
  <2>3. PICK f : f = SubSeq(t, 1, n)
    OBVIOUS
  <2>4. f \in Seq(S) /\ Len(f) = n /\ \A j \in 1..n : f[j] = t[j]
    BY <2>2, <2>3, Opening
  <2>5. s = f <=> \A i \in 1..n : s[i] = t[i]
    <3>1. (\A i \in 1..n : s[i] = f[i]) => s = f
      BY <2>1, <2>4, SeqEqual
    <3> QED
      BY <2>4, <3>1
  <2> QED
    BY <1>1, <1>2, <2>1, <2>3, <2>5 DEF IsPrefix
<1>3. CASE ~(Len(s) <= Len(t))
  BY <1>3 DEF IsPrefix
<1> QED
  BY <1>2, <1>3

(* A place holds one log. *)
LEMMA HeldOnce ==
  ASSUME NEW d, NEW place, NEW tip, Holds(d, place, tip)
  PROVE  d[place.first].tip = tip /\ tip \in Seq(Line)
BY DEF Holds, Chained, Superblock, Log

(* Every image the power may leave, if it takes the last writes first,     *)
(* holds a log that begins with what was committed.                        *)
Begun(d, log) == \E tip : Holds(d, Home, tip) /\ IsPrefix(log, tip)

Kept ==
  /\ committed \in Seq(Line)
  /\ ~reordered /\ astray = 0 /\ committed # ZeroHash =>
       \A d \in OrderedImages : Begun(d, committed)

LEMMA KeptStep == Running /\ Kept /\ [PersistNext]_persistVars => Kept'
<1> SUFFICES ASSUME Running, Kept, [PersistNext]_persistVars  PROVE Kept'
  OBVIOUS
<1>1. /\ image' = image /\ astray \in Nat /\ (astray' = astray \/ astray' = astray + 1)
      /\ reordered' = reordered \/ PowerCycle
  BY DEF Running, PersistNext, persistVars, Journaled, Locate, ScratchWrite, ScratchFlush,
         OpenJournal, AppendRecord, AppendSuperblock, EndOfRing, FlushJournal, PowerCycle
<1>2. astray' = 0 => astray = 0
  BY <1>1
<1>3. Home' = Home
  BY <1>1 DEF Home, InPartition, WholeDisk, sector_count
<1>4. Medium /\ View \in Disks /\ View \in OrderedImages /\ committed \in Seq(Line)
  BY ImagesTyped DEF Running, Kept
<1>5. ASSUME NEW d, NEW log  PROVE Begun(d, log) <=> \E tip : Holds(d, Home', tip) /\ IsPrefix(log, tip)
  BY <1>3 DEF Begun
<1>6. ASSUME ~PowerCycle, committed' = committed,
             ~reordered /\ astray = 0 /\ committed # ZeroHash /\ astray' = 0
               => \A d \in OrderedImages' : d \in OrderedImages \/ Begun(d, committed)
      PROVE  Kept'
  <2> SUFFICES ASSUME ~reordered', astray' = 0, committed' # ZeroHash, NEW d \in OrderedImages'
               PROVE  \E tip : Holds(d, Home', tip) /\ IsPrefix(committed', tip)
    BY <1>4, <1>6 DEF Kept, Begun
  <2>1. ~reordered /\ astray = 0 /\ committed # ZeroHash
    BY <1>1, <1>2, <1>6
  <2>2. Begun(d, committed)
    BY <1>6, <2>1 DEF Kept
  <2> QED
    BY <1>5, <1>6, <2>2
<1>7. Untouched => \A d \in OrderedImages' : d \in OrderedImages
  BY DEF Untouched
<1>8. Only(View) => \A d \in OrderedImages' : d \in OrderedImages
  BY <1>4 DEF Only
<1>9. pc # "up" => Fits(storage) /\ (astray = 0 => storage = Home)
  BY PlacesFit DEF Running, Placed
<1>10. ASSUME ~reordered, astray = 0, committed # ZeroHash
       PROVE  \E tip : Holds(View, Home, tip) /\ IsPrefix(committed, tip)
  BY <1>4, <1>10 DEF Kept, Begun
<1>11. CASE ~PowerCycle /\ committed' = committed /\ (Untouched \/ Only(View))
  BY <1>6, <1>7, <1>8, <1>11
<1>12. CASE ScratchWrite
  <2>1. pc # "up" /\ ~PowerCycle /\ committed' = committed
    BY <1>12 DEF ScratchWrite, PowerCycle
  <2>2. CASE Put(storage.scratch, Scratch)
    <3>1. ASSUME ~reordered, astray = 0, committed # ZeroHash  PROVE Begun(View', committed)
      <4>1. PICK tip : Holds(View, Home, tip) /\ IsPrefix(committed, tip)
        BY <1>10, <3>1
      <4>2. tip # <<>>
        <5>1. tip \in Seq(Line)
          BY <4>1, HeldOnce
        <5>2. Len(committed) <= Len(tip) /\ Len(committed) # 0
          BY <1>4, <3>1, <4>1, <5>1, PrefixOf DEF ZeroHash
        <5> QED
          BY <1>4, <5>1, <5>2
      <4>3. Holds([View EXCEPT ![storage.scratch] = Scratch], storage, tip)
        BY <1>4, <1>9, <2>1, <3>1, <4>1, <4>2, Scratching
      <4>4. Holds(View', Home, tip)
        BY <1>9, <2>1, <2>2, <3>1, <4>3 DEF Put
      <4> QED
        BY <4>1, <4>4 DEF Begun
    <3>2. \A d \in OrderedImages' : d \in OrderedImages \/ d = View'
      BY <2>2 DEF Put
    <3> QED
      BY <1>6, <2>1, <3>1, <3>2
  <2> QED
    BY <1>11, <1>12, <2>1, <2>2, Scratches
<1>13. CASE OpenJournal
  <2>1. pc # "up" /\ ~PowerCycle /\ committed' = committed
    BY <1>13 DEF OpenJournal, PowerCycle, StartAppending, GiveUp
  <2>2. CASE Fresh
    <3>1. ~(~reordered /\ astray = 0 /\ committed # ZeroHash)
      BY <1>9, <1>10, <2>1, <2>2 DEF Fresh
    <3> QED
      BY <1>6, <2>1, <3>1
  <2>3. ASSUME NEW tip, Begins(tip)  PROVE Kept'
    BY <1>11, <2>1, <2>3 DEF Begins
  <2>4. CASE Refused
    BY <1>11, <2>1, <2>4 DEF Refused
  <2> QED
    BY <1>13, <2>2, <2>3, <2>4, Opens
<1>14. ASSUME pc \in {"append", "superblock"}, ~reordered, astray = 0, committed # ZeroHash
       PROVE  IsPrefix(committed, journal.tip) /\ storage = Home
  <2>1. Holds(View, storage, journal.tip) /\ storage = Home
    BY <1>9, <1>14 DEF Running, Writing
  <2> QED
    BY <1>10, <1>14, <2>1, HeldOnce
<1>15. CASE AppendRecord
  <2>1. pc = "append" /\ ~PowerCycle /\ committed' = committed
    BY <1>15 DEF AppendRecord, PowerCycle
  <2>2. CASE Lengthens
    <3>1. PICK lba, c :
            Appended(View, storage, journal.tip, Head(todo), lba, c) /\ Put(lba, c)
      BY <2>2 DEF Lengthens
    <3>2. Holds(View', storage, journal.tip)
          /\ \A d \in OrderedImages' : d \in OrderedImages \/ d = View'
      BY <3>1 DEF Appended, Put
    <3>3. ASSUME ~reordered, astray = 0, committed # ZeroHash  PROVE Begun(View', committed)
      BY <1>14, <2>1, <3>2, <3>3 DEF Begun
    <3> QED
      BY <1>6, <2>1, <3>2, <3>3
  <2>3. CASE Stops
    BY <1>11, <2>1, <2>3 DEF Stops
  <2>4. Lengthens \/ Stops
    BY <1>15, Appends
  <2> QED
    BY <2>2, <2>3, <2>4
<1>16. CASE AppendSuperblock
  <2>1. pc = "superblock" /\ ~PowerCycle /\ committed' = committed
    BY <1>16 DEF AppendSuperblock, PowerCycle
  <2>2. PICK next : Advances(next)
    BY <1>16, Commits
  <2>3. CASE Put(storage.first, Superblock(Log(Len(next), next)))
    <3>1. \A d \in OrderedImages' : d \in OrderedImages \/ d = View'
      BY <2>3 DEF Put
    <3>2. Holds(View', storage, next)
      <4>1. View' = [View EXCEPT ![storage.first] = Superblock(Log(Len(next), next))]
        BY <2>3 DEF Put
      <4>2. Chained(View, storage, next)
        BY <2>2 DEF Advances
      <4> QED
        BY <1>4, <1>9, <2>1, <4>1, <4>2, Committing
    <3>3. ASSUME ~reordered, astray = 0, committed # ZeroHash  PROVE Begun(View', committed)
      <4>1. IsPrefix(committed, journal.tip) /\ storage = Home
        BY <1>14, <2>1, <3>3
      <4>2. journal.tip \in Seq(Line) /\ next \in Seq(Line) /\ Head(todo) \in Line
            /\ next = Append(journal.tip, Head(todo))
        BY <2>2 DEF Advances, Running, Writing
      <4>3. PICK tip \in Seq(Line) : tip = journal.tip
        BY <4>2
      <4>4. Len(committed) <= Len(tip) /\ \A i \in 1..Len(committed) : committed[i] = tip[i]
        BY <1>4, <4>1, <4>3, PrefixOf
      <4>5. Len(next) = Len(tip) + 1 /\ \A i \in 1..Len(tip) : next[i] = tip[i]
        BY <4>2, <4>3
      <4>6. Len(committed) <= Len(next) /\ \A i \in 1..Len(committed) : committed[i] = next[i]
        BY <1>4, <4>4, <4>5
      <4>7. IsPrefix(committed, next)
        BY <1>4, <4>2, <4>6, PrefixOf
      <4> QED
        BY <3>2, <4>1, <4>7 DEF Begun
    <3> QED
      BY <1>6, <2>1, <3>1, <3>3
  <2>4. CASE Untouched
    BY <1>11, <2>1, <2>4
  <2> QED
    BY <2>2, <2>3, <2>4 DEF Advances
<1>17. CASE FlushJournal
  <2>1. pc = "flush" /\ ~PowerCycle
    BY <1>17 DEF FlushJournal, PowerCycle
  <2>2. CASE Only(View) /\ committed' = View[storage.first].tip
    <3>1. PICK tip : Holds(View, storage, tip)
      BY <2>1 DEF Running, Writing
    <3>2. committed' = tip /\ tip \in Seq(Line)
      BY <2>2, <3>1, HeldOnce
    <3>3. IsPrefix(tip, tip)
      BY <3>2, PrefixOf
    <3>4. astray' = 0 => \A d \in OrderedImages' : Holds(d, Home', tip)
      BY <1>2, <1>3, <1>9, <2>1, <2>2, <3>1 DEF Only
    <3> QED
      BY <3>2, <3>3, <3>4 DEF Kept, Begun
  <2>3. CASE Untouched /\ committed' = committed
    BY <1>11, <2>1, <2>3
  <2> QED
    BY <1>17, <2>2, <2>3, Commit
<1>18. CASE PowerCycle
  <2>1. PICK d \in CrashImages : Only(d) /\ (~reordered' => ~reordered /\ d \in OrderedImages)
    BY <1>18, GoesOut
  <2>2. committed' = committed /\ astray' = astray
    BY <1>18 DEF PowerCycle
  <2>3. OrderedImages' = {d}
    BY <2>1 DEF Only
  <2>4. ASSUME ~reordered', astray' = 0, committed' # ZeroHash, NEW e \in OrderedImages'
        PROVE  \E tip : Holds(e, Home', tip) /\ IsPrefix(committed', tip)
    <3>1. Begun(e, committed)
      BY <2>1, <2>2, <2>3, <2>4 DEF Kept
    <3> QED
      BY <1>5, <2>2, <3>1
  <2> QED
    BY <1>4, <2>2, <2>4 DEF Kept, Begun
<1>19. CASE Journaled \/ Locate \/ EndOfRing \/ UNCHANGED persistVars
  <2>1. UNCHANGED <<durable, pending>> /\ committed' = committed
    BY <1>19 DEF Journaled, Locate, EndOfRing, persistVars, deviceVars, RequestFails
  <2>2. Untouched
    BY <1>4, <2>1, NoWrite
  <2>3. boot' = boot
    BY <1>19 DEF Journaled, Locate, EndOfRing, persistVars
  <2>4. ~PowerCycle
    BY <2>3 DEF PowerCycle, Running, RingKept, RingTyped
  <2> QED
    BY <1>11, <2>1, <2>2, <2>4
<1>20. CASE ScratchFlush
  <2>1. ~PowerCycle /\ committed' = committed
    BY <1>20 DEF ScratchFlush, PowerCycle
  <2> QED
    BY <1>11, <1>20, <2>1, ScratchFlushes
<1> QED
  BY <1>12, <1>13, <1>15, <1>16, <1>17, <1>18, <1>19, <1>20 DEF PersistNext

(* Journal::open, run on any image an orderly medium may be left with,     *)
(* accepts the log, and the log begins with what flush ever committed.     *)
THEOREM CommittedLogsSurvive == PersistSpec => []CommittedSurvives
<1>1. PersistInit => Kept
  <2>1. PersistInit => committed = <<>> /\ <<>> \in Seq(Line)
    BY DEF PersistInit, ZeroHash
  <2> QED
    BY <2>1 DEF Kept, ZeroHash
<1>2. Running /\ Kept => CommittedSurvives
  <2> SUFFICES ASSUME Running, Kept, ~reordered, astray = 0, committed # ZeroHash,
                      NEW d \in OrderedImages
               PROVE  Reopened(d).ok /\ IsPrefix(committed, Reopened(d).journal.tip)
    BY DEF CommittedSurvives
  <2>1. d \in Disks /\ Tables(d)
    BY ImagesTyped DEF Running, Found
  <2>2. placed(d, TRUE) = Home /\ Fits(Home)
    BY <2>1, HomeFound, PlacesFit DEF Home, Places
  <2>3. PICK tip : Holds(d, Home, tip) /\ IsPrefix(committed, tip)
    BY DEF Kept, Begun
  <2>4. Reopened(d).ok /\ Reopened(d).journal = Log(Len(tip), tip)
    BY <2>1, <2>2, <2>3, HeldIsAccepted DEF Reopened
  <2> QED
    BY <2>3, <2>4 DEF Log
<1>3. PersistSpec => []Kept
  BY <1>1, KeptStep, RunningAlways, PTL DEF PersistSpec
<1> QED
  BY <1>2, <1>3, RunningAlways, PTL

-----------------------------------------------------------------------------
(* What is on the disk is told in order. *)

LEMMA Joined ==
  ASSUME NEW S, NEW a \in Seq(S), NEW b \in Seq(S)
  PROVE  /\ a \o b \in Seq(S) /\ Len(a \o b) = Len(a) + Len(b)
         /\ \A i \in 1..Len(a) : (a \o b)[i] = a[i]
         /\ \A i \in 1..Len(b) : (a \o b)[Len(a) + i] = b[i]
<1>1. /\ a \o b \in Seq(S) /\ Len(a \o b) = Len(a) + Len(b)
      /\ \A i \in 1..(Len(a) + Len(b)) :
           (a \o b)[i] = IF i <= Len(a) THEN a[i] ELSE b[i - Len(a)]
  BY ConcatProperties
<1>2. PICK n \in Nat, m \in Nat : n = Len(a) /\ m = Len(b)
  OBVIOUS
<1>3. ASSUME NEW i \in 1..n  PROVE (a \o b)[i] = a[i]
  <2>1. i \in 1..(n + m) /\ i <= n
    OBVIOUS
  <2> QED
    BY <1>1, <1>2, <2>1
<1>4. ASSUME NEW i \in 1..m  PROVE (a \o b)[n + i] = b[i]
  <2>1. n + i \in 1..(n + m) /\ ~(n + i <= n) /\ (n + i) - n = i
    OBVIOUS
  <2> QED
    BY <1>1, <1>2, <2>1
<1> QED
  BY <1>1, <1>2, <1>3, <1>4

LEMMA Shifted ==
  ASSUME NEW S, NEW a \in Seq(S), NEW b \in Seq(S), b # <<>>
  PROVE  /\ Append(a, Head(b)) \in Seq(S) /\ Tail(b) \in Seq(S)
         /\ Append(a, Head(b)) \o Tail(b) = a \o b
<1>1. PICK x, t : x = Head(b) /\ t = Tail(b)
  OBVIOUS
<1>2. /\ x \in S /\ t \in Seq(S) /\ Len(t) = Len(b) - 1
      /\ \A i \in 1..Len(t) : t[i] = b[i + 1]
  BY <1>1, HeadTailProperties
<1>3. PICK n \in Nat, m \in Nat : n = Len(a) /\ m = Len(t)
  BY <1>2
<1>4. Len(b) = m + 1 /\ b[1] = x /\ \A i \in 1..m : b[i + 1] = t[i]
  <2>1. b[1] = x
    BY <1>1
  <2>2. Len(b) \in Nat
    OBVIOUS
  <2> QED
    BY <1>2, <1>3, <2>1, <2>2
<1>5. PICK c : c = Append(a, x)
  OBVIOUS
<1>6. c \in Seq(S) /\ Len(c) = n + 1 /\ c[n + 1] = x /\ \A i \in 1..n : c[i] = a[i]
  BY <1>2, <1>3, <1>5
<1>7. PICK u, v : u = c \o t /\ v = a \o b
  OBVIOUS
<1>8. /\ u \in Seq(S) /\ Len(u) = Len(c) + Len(t)
      /\ \A i \in 1..Len(c) : u[i] = c[i]
      /\ \A i \in 1..Len(t) : u[Len(c) + i] = t[i]
  <2>1. c \in Seq(S) /\ t \in Seq(S)
    BY <1>2, <1>6
  <2> QED
    BY <1>7, <2>1, Joined
<1>9. /\ v \in Seq(S) /\ Len(v) = Len(a) + Len(b)
      /\ \A i \in 1..Len(a) : v[i] = a[i]
      /\ \A i \in 1..Len(b) : v[Len(a) + i] = b[i]
  BY <1>7, Joined
<1>10. Len(u) = n + 1 + m /\ Len(v) = n + 1 + m
  BY <1>3, <1>4, <1>6, <1>8, <1>9
<1>11. ASSUME NEW i \in 1..(n + 1 + m)  PROVE u[i] = v[i]
  <2>1. CASE i \in 1..n
    <3>1. i \in 1..(n + 1)
      BY <2>1
    <3>2. u[i] = c[i] /\ c[i] = a[i] /\ v[i] = a[i]
      BY <1>3, <1>6, <1>8, <1>9, <2>1, <3>1
    <3> QED
      BY <3>2
  <2>2. CASE i = n + 1
    <3>1. i \in 1..(n + 1) /\ 1 \in 1..(m + 1)
      BY <2>2
    <3>2. u[i] = c[n + 1] /\ v[n + 1] = b[1]
      BY <1>3, <1>4, <1>6, <1>8, <1>9, <2>2, <3>1
    <3> QED
      BY <1>4, <1>6, <2>2, <3>2
  <2>3. CASE i > n + 1
    <3>1. PICK j \in 1..m : i = n + 1 + j
      <4>1. i - (n + 1) \in 1..m /\ i = n + 1 + (i - (n + 1))
        BY <2>3
      <4> QED
        BY <4>1
    <3>2. u[n + 1 + j] = t[j]
      BY <1>3, <1>6, <1>8
    <3>3. j + 1 \in 1..(m + 1) /\ n + (j + 1) = i
      BY <3>1
    <3>4. v[n + (j + 1)] = b[j + 1]
      BY <1>3, <1>4, <1>9, <3>3
    <3> QED
      BY <1>4, <3>1, <3>2, <3>3, <3>4
  <2> QED
    BY <2>1, <2>2, <2>3
<1>12. u = v
  BY <1>8, <1>9, <1>10, <1>11, SeqEqual
<1> QED
  BY <1>1, <1>2, <1>5, <1>6, <1>7, <1>12

(* A log told in order, up to a boot. *)
Told(log, b) == InOrder(log) /\ \A i \in 1..Len(log) : log[i].what <= b

LEMMA ToldFront ==
  ASSUME NEW a \in Seq(Line), NEW c \in Seq(Line), NEW b, Told(a \o c, b)
  PROVE  Told(a, b)
<1>1. PICK n \in Nat, m \in Nat : n = Len(a) /\ m = Len(c)
  OBVIOUS
<1>2. PICK t : t = a \o c
  OBVIOUS
<1>3. Len(t) = n + m /\ \A i \in 1..n : t[i] = a[i]
  BY <1>1, <1>2, Joined
<1>4. ASSUME NEW i \in 2..n  PROVE i \in 2..Len(t) /\ t[i] = a[i] /\ t[i - 1] = a[i - 1]
  <2>1. i \in 1..n /\ i - 1 \in 1..n /\ i \in 2..(n + m)
    OBVIOUS
  <2> QED
    BY <1>3, <2>1
<1>5. InOrder(a)
  BY <1>1, <1>2, <1>4 DEF Told, InOrder
<1>6. ASSUME NEW i \in 1..n  PROVE a[i].what <= b
  <2>1. i \in 1..(n + m)
    OBVIOUS
  <2> QED
    BY <1>2, <1>3, <2>1 DEF Told
<1> QED
  BY <1>1, <1>5, <1>6 DEF Told

LEMMA ToldLater ==
  ASSUME NEW log \in Seq(Line), NEW b \in Int, NEW c \in Int, b <= c, Told(log, b)
  PROVE  Told(log, c)
<1>1. ASSUME NEW i \in 1..Len(log)  PROVE log[i].what <= c
  <2>1. log[i].what \in Nat /\ log[i].what <= b
    <3>1. log[i] \in Line
      OBVIOUS
    <3> QED
      BY <3>1 DEF Line, Told
  <2> QED
    BY <2>1
<1> QED
  BY <1>1 DEF Told

(* This boot's entries come after those of the boots before. *)
LEMMA ToldOn ==
  ASSUME NEW a \in Seq(Line), NEW c \in Seq(Line), NEW b \in Nat, Told(a, b - 1), NEW f \in Nat,
         \A i \in 1..Len(c) : c[i].what = b /\ c[i].sequence = f + i - 1
  PROVE  Told(a \o c, b)
<1>1. PICK n \in Nat, m \in Nat : n = Len(a) /\ m = Len(c)
  OBVIOUS
<1>2. PICK t : t = a \o c
  OBVIOUS
<1>3. /\ Len(t) = n + m /\ \A i \in 1..n : t[i] = a[i]
      /\ \A i \in 1..m : t[n + i] = c[i]
  BY <1>1, <1>2, Joined
<1>4. ASSUME NEW i \in 1..n  PROVE a[i].what \in Nat /\ a[i].what <= b - 1
  <2>1. a[i] \in Line /\ i \in 1..Len(a)
    BY <1>1
  <2> QED
    BY <2>1 DEF Line, Told
<1>5. ASSUME NEW i \in 1..(n + m)  PROVE t[i].what <= b
  <2>1. CASE i \in 1..n
    BY <1>3, <1>4, <2>1
  <2>2. CASE i > n
    <3>1. i - n \in 1..m /\ n + (i - n) = i
      BY <2>2
    <3>2. t[i] = c[i - n]
      BY <1>3, <3>1
    <3> QED
      BY <1>1, <3>1, <3>2
  <2> QED
    BY <2>1, <2>2
<1>6. ASSUME NEW i \in 2..(n + m)
      PROVE  \/ t[i - 1].what < t[i].what
             \/ t[i - 1].what = t[i].what /\ t[i].sequence = t[i - 1].sequence + 1
  <2>1. CASE i \in 2..n
    <3>1. i \in 1..n /\ i - 1 \in 1..n /\ i \in 2..Len(a)
      BY <1>1, <2>1
    <3>2. t[i] = a[i] /\ t[i - 1] = a[i - 1]
      BY <1>3, <3>1
    <3> QED
      BY <3>1, <3>2 DEF Told, InOrder
  <2>2. CASE i = n + 1
    <3>1. n \in 1..n /\ 1 \in 1..m /\ i - 1 = n
      BY <2>2
    <3>2. t[i - 1] = a[n] /\ t[i] = c[1]
      BY <1>3, <2>2, <3>1
    <3>3. a[n].what \in Nat /\ a[n].what <= b - 1 /\ c[1].what = b
      BY <1>1, <1>4, <3>1
    <3> QED
      BY <3>2, <3>3
  <2>3. CASE i > n + 1
    <3>1. PICK j \in 1..m : j = i - n /\ j - 1 \in 1..m /\ n + j = i /\ n + (j - 1) = i - 1
      <4>1. i - n \in 1..m /\ (i - n) - 1 \in 1..m /\ n + (i - n) = i /\ n + ((i - n) - 1) = i - 1
        BY <2>3
      <4> QED
        BY <4>1
    <3>2. t[i] = c[j] /\ t[i - 1] = c[j - 1]
      <4>1. t[n + j] = c[j] /\ t[n + (j - 1)] = c[j - 1]
        BY <1>3, <3>1
      <4> QED
        BY <3>1, <4>1
    <3>3. /\ c[j].what = b /\ c[j].sequence = f + j - 1
          /\ c[j - 1].what = b /\ c[j - 1].sequence = f + (j - 1) - 1
      BY <1>1, <3>1
    <3>4. f + j - 1 = (f + (j - 1) - 1) + 1
      BY <3>1
    <3> QED
      BY <3>2, <3>3, <3>4
  <2> QED
    BY <2>1, <2>2, <2>3
<1> QED
  BY <1>2, <1>3, <1>5, <1>6 DEF Told, InOrder

(* Every superblock that may be on the medium, wherever it lies, is of a   *)
(* log told in order; before the log is opened, of an earlier boot.        *)
Early == {"up", "scratch", "scratch flush", "open"}
Past == IF pc \in Early THEN boot - 1 ELSE boot

TellsTo(c, b) == c.kind = "Superblock" => Told(c.tip, b)

Telling ==
  /\ \A d \in CrashImages : \A s \in Lba : TellsTo(d[s], Past)
  /\ pc \in {"append", "superblock"} => Told(journal.tip \o todo, boot)

LEMMA TellsLater ==
  ASSUME NEW c \in Content, NEW b \in Int, NEW e \in Int, b <= e, TellsTo(c, b)
  PROVE  TellsTo(c, e)
<1>1. ASSUME c.kind = "Superblock"  PROVE c.tip \in Seq(Line)
  <2>1. c \in Superblocks
    BY <1>1, Kinds
  <2>2. PICK tip \in Seq(Line) : c = Superblock(Log(Len(tip), tip))
    BY <2>1 DEF Superblocks
  <2> QED
    BY <2>2, SuperblockHolds
<1> QED
  BY <1>1, ToldLater DEF TellsTo

LEMMA TellingOn ==
  ASSUME Running, Telling, Past' \in Int, Past <= Past',
         CrashImages' \subseteq CrashImages
           \/ \E lba \in Lba, c \in Content : Put(lba, c) /\ TellsTo(c, Past')
  PROVE  \A d \in CrashImages' : \A s \in Lba : TellsTo(d[s], Past')
<1> SUFFICES ASSUME NEW d \in CrashImages', NEW s \in Lba  PROVE TellsTo(d[s], Past')
  OBVIOUS
<1>1. PICK b : b = Past
  OBVIOUS
<1>2. PICK e : e = Past'
  OBVIOUS
<1>3. b \in Int /\ e \in Int /\ b <= e
  BY <1>1, <1>2 DEF Past, Running, RingKept, RingTyped
<1>4. ASSUME NEW f \in CrashImages  PROVE TellsTo(f[s], e) /\ f \in Disks
  <2>1. f \in Disks /\ TellsTo(f[s], b)
    BY <1>1, ImagesTyped DEF Running, Telling
  <2>2. f[s] \in Content
    BY <2>1 DEF Disks
  <2> QED
    BY <1>3, <2>1, <2>2, TellsLater
<1>5. CASE d \in CrashImages
  BY <1>2, <1>4, <1>5
<1>6. CASE d \notin CrashImages
  <2>1. PICK lba \in Lba, c \in Content : Put(lba, c) /\ TellsTo(c, e)
    BY <1>2, <1>6
  <2>2. PICK f \in CrashImages : d = [f EXCEPT ![lba] = c]
    BY <1>6, <2>1 DEF Put
  <2>3. d[s] = c \/ d[s] = f[s]
    BY <1>4, <2>2 DEF Disks
  <2> QED
    BY <1>2, <1>4, <2>1, <2>3
<1> QED
  BY <1>5, <1>6

LEMMA TellingStep == Running /\ Telling /\ [PersistNext]_persistVars => Telling'
<1> SUFFICES ASSUME Running, Telling, [PersistNext]_persistVars  PROVE Telling'
  OBVIOUS
<1>1. Medium /\ boot \in Nat /\ RingKept /\ View \in Disks /\ View \in CrashImages
  BY ImagesTyped DEF Running, RingKept, RingTyped
<1>2. journal.tip \in Seq(Line) /\ todo \in Seq(Line)
  BY DEF Running, Writing
<1>3. pc # "up" => Fits(storage) /\ storage.first \in Lba
  <2>1. pc # "up" => Fits(storage)
    BY PlacesFit DEF Running, Placed
  <2> QED
    BY <1>1, <2>1, SuperblockAt
<1>4. Untouched => CrashImages' \subseteq CrashImages
  BY DEF Untouched
<1>5. Only(View) => CrashImages' \subseteq CrashImages
  BY <1>1 DEF Only
<1>6. ASSUME boot' = boot, pc \in Early \/ pc' \notin Early
      PROVE  Past' \in Int /\ Past <= Past'
  BY <1>1, <1>6 DEF Past
<1>7. CASE UNCHANGED <<boot, journal, todo>> /\ (pc' \in {"append", "superblock"} => pc = "append")
           /\ (pc \in Early \/ pc' \notin Early) /\ (Untouched \/ Only(View))
  BY <1>4, <1>5, <1>6, <1>7, TellingOn DEF Telling
<1>8. CASE ScratchWrite
  <2>1. pc \in Early /\ pc' \in Early /\ boot' = boot /\ pc = "scratch"
    BY <1>8 DEF ScratchWrite, Early
  <2>2. Scratch \in Content /\ TellsTo(Scratch, Past') /\ storage.scratch \in Lba
    BY <1>3, <2>1 DEF Content, Scratch, TellsTo, Fits
  <2>3. Untouched \/ Put(storage.scratch, Scratch)
    BY <1>8, Scratches
  <2>4. \A d \in CrashImages' : \A s \in Lba : TellsTo(d[s], Past')
    BY <1>4, <1>6, <2>1, <2>2, <2>3, TellingOn
  <2> QED
    BY <2>1, <2>4 DEF Telling, Early
<1>9. CASE OpenJournal
  <2>1. pc = "open" /\ pc \in Early /\ boot' = boot /\ Past = boot - 1
    BY <1>9 DEF OpenJournal, Early, Past
  <2>2. ASSUME NEW tip \in Seq(Line), Told(tip, boot - 1), StartAppending(Log(Len(tip), tip))
        PROVE  Told(journal'.tip \o todo', boot') /\ pc' \notin Early
    <3>1. pc' = "append" /\ todo' = for_each /\ journal' = Log(Len(tip), tip)
      BY <2>2 DEF StartAppending
    <3>2. journal'.tip = tip
      BY <3>1 DEF Log
    <3>3. PICK c, f : c = for_each /\ f = first_retained
      OBVIOUS
    <3>4. /\ c \in Seq(Line) /\ f \in Nat
          /\ \A i \in 1..Len(c) : c[i].what = boot /\ c[i].sequence = f + i - 1
      BY <1>1, <3>3, Visits, VisitsTyped
    <3>5. Told(tip \o c, boot)
      BY <1>1, <2>2, <3>4, ToldOn
    <3> QED
      BY <2>1, <3>1, <3>2, <3>3, <3>5 DEF Early
  <2>3. ASSUME NEW tip, Begins(tip)  PROVE Telling'
    <3>1. tip \in Seq(Line) /\ View[storage.first] = Superblock(Log(Len(tip), tip))
      BY <2>3 DEF Begins, Holds, Chained
    <3>2. TellsTo(View[storage.first], boot - 1)
      BY <1>1, <1>3, <2>1 DEF Telling
    <3>3. Told(tip, boot - 1)
      BY <3>1, <3>2, SuperblockHolds DEF TellsTo
    <3>4. Told(journal'.tip \o todo', boot') /\ pc' \notin Early
      BY <2>2, <2>3, <3>1, <3>3 DEF Begins
    <3>5. \A d \in CrashImages' : \A s \in Lba : TellsTo(d[s], Past')
      BY <1>4, <1>6, <2>1, <2>3, TellingOn DEF Begins
    <3> QED
      BY <3>4, <3>5 DEF Telling
  <2>4. CASE Fresh
    <3>1. PICK tip : tip = ZeroHash
      OBVIOUS
    <3>2. tip \in Seq(Line) /\ Len(tip) = 0
      BY <3>1 DEF ZeroHash
    <3>3. \A b : Told(tip, b)
      BY <3>2 DEF Told, InOrder
    <3>4. PICK c : c = Superblock(Log(Len(tip), tip))
      OBVIOUS
    <3>5. c \in Content /\ c.tip = tip
      BY <3>2, <3>4, SuperblockHolds
    <3>6. TellsTo(c, Past')
      BY <3>3, <3>5 DEF TellsTo
    <3>7. Put(storage.first, c)
      BY <2>4, <3>1, <3>4 DEF Fresh
    <3>8. \A d \in CrashImages' : \A s \in Lba : TellsTo(d[s], Past')
      BY <1>3, <1>6, <2>1, <3>5, <3>6, <3>7, TellingOn
    <3>9. pc' \in {"append", "superblock"} => Told(journal'.tip \o todo', boot')
      BY <2>2, <2>4, <3>1, <3>2, <3>3 DEF Fresh, GiveUp
    <3> QED
      BY <3>8, <3>9 DEF Telling
  <2>5. CASE Refused
    <3>1. pc' = "done" /\ Untouched
      BY <2>5 DEF Refused, GiveUp
    <3>2. \A d \in CrashImages' : \A s \in Lba : TellsTo(d[s], Past')
      BY <1>4, <1>6, <2>1, <3>1, TellingOn
    <3> QED
      BY <3>1, <3>2 DEF Telling
  <2> QED
    BY <1>9, <2>3, <2>4, <2>5, Opens
<1>10. CASE AppendRecord
  <2>1. pc = "append" /\ pc \notin Early /\ UNCHANGED <<boot, journal, todo>>
    BY <1>10 DEF AppendRecord, Early
  <2>2. CASE Lengthens
    <3>1. PICK lba, c :
            /\ Appended(View, storage, journal.tip, Head(todo), lba, c) /\ Put(lba, c)
            /\ pc' \in {"superblock", "flush"}
      BY <2>2 DEF Lengthens
    <3>2. lba \in Lba /\ c \in Content /\ TellsTo(c, Past')
      BY <3>1 DEF Appended, RecordSectors, TellsTo
    <3>3. pc' \notin Early
      BY <3>1 DEF Early
    <3>4. \A d \in CrashImages' : \A s \in Lba : TellsTo(d[s], Past')
      BY <1>6, <2>1, <3>1, <3>2, <3>3, TellingOn
    <3> QED
      BY <2>1, <3>4 DEF Telling
  <2>3. CASE Stops
    <3>1. Untouched /\ pc' = "flush" /\ pc' \notin Early
      BY <2>3 DEF Stops, Early
    <3> QED
      BY <1>7, <2>1, <3>1
  <2>4. Lengthens \/ Stops
    BY <1>10, Appends
  <2> QED
    BY <2>2, <2>3, <2>4
<1>11. CASE AppendSuperblock
  <2>1. pc = "superblock" /\ boot' = boot /\ pc' \in {"append", "flush"}
    BY <1>11 DEF AppendSuperblock
  <2>2. PICK next : Advances(next)
    BY <1>11, Commits
  <2>3. /\ next = Append(journal.tip, Head(todo)) /\ next \in Seq(Line) /\ todo # <<>>
        /\ journal' = Log(Len(next), next) /\ todo' = Tail(todo)
    BY <2>2 DEF Advances
  <2>4. journal'.tip = next
    BY <2>3 DEF Log
  <2>5. next \o Tail(todo) = journal.tip \o todo /\ Tail(todo) \in Seq(Line)
    BY <1>2, <2>3, Shifted
  <2>6. Told(journal'.tip \o todo', boot')
    BY <2>1, <2>3, <2>4, <2>5 DEF Telling
  <2>7. Told(next, boot)
    BY <2>1, <2>3, <2>4, <2>5, <2>6, ToldFront
  <2>8. PICK c : c = Superblock(Log(Len(next), next))
    OBVIOUS
  <2>9. c \in Content /\ TellsTo(c, boot)
    BY <2>3, <2>7, <2>8, SuperblockHolds DEF TellsTo
  <2>10. Past' = boot /\ pc' \notin Early
    BY <2>1 DEF Past, Early
  <2>11. Untouched \/ Put(storage.first, c)
    BY <2>2, <2>8 DEF Advances
  <2>12. Past' \in Int /\ Past <= Past' /\ storage.first \in Lba
    BY <1>3, <1>6, <2>1, <2>10
  <2>13. \A d \in CrashImages' : \A s \in Lba : TellsTo(d[s], Past')
    BY <1>4, <2>9, <2>10, <2>11, <2>12, TellingOn
  <2> QED
    BY <2>6, <2>13 DEF Telling
<1>12. CASE PowerCycle
  <2>1. PICK d \in CrashImages : Only(d)
    BY <1>12, GoesOut
  <2>2. pc' = "up" /\ boot' = boot + 1
    BY <1>12 DEF PowerCycle
  <2>3. Past' \in Int /\ Past <= Past'
    <3>1. Past' = (boot + 1) - 1
      BY <2>2 DEF Past, Early
    <3>2. Past \in {boot - 1, boot}
      BY DEF Past
    <3> QED
      BY <1>1, <3>1, <3>2
  <2>4. CrashImages' \subseteq CrashImages
    BY <2>1 DEF Only
  <2>5. \A e \in CrashImages' : \A s \in Lba : TellsTo(e[s], Past')
    BY <2>3, <2>4, TellingOn
  <2> QED
    BY <2>2, <2>5 DEF Telling
<1>13. CASE Journaled \/ Locate \/ EndOfRing
  <2>1. /\ UNCHANGED <<durable, pending, boot, journal, todo>>
        /\ pc' \in {"append", "superblock"} => pc = "append"
        /\ pc \in Early \/ pc' \notin Early
    BY <1>13 DEF Journaled, Locate, EndOfRing, deviceVars, RequestFails, Early
  <2> QED
    BY <1>1, <1>7, <2>1, NoWrite
<1>14. CASE ScratchFlush \/ FlushJournal
  <2>1. /\ UNCHANGED <<boot, journal, todo>> /\ pc' \notin {"append", "superblock"}
        /\ pc \in Early \/ pc' \notin Early
    BY <1>14 DEF ScratchFlush, FlushJournal, Early
  <2> QED
    BY <1>7, <1>14, <2>1, ScratchFlushes, Commit
<1>15. CASE UNCHANGED persistVars
  <2>1. Untouched /\ UNCHANGED <<pc, boot, journal, todo>>
    BY <1>1, <1>15, NoWrite DEF persistVars
  <2>2. \A d \in CrashImages' : \A s \in Lba : TellsTo(d[s], Past')
    BY <2>1 DEF Telling, Past, Untouched
  <2> QED
    BY <2>1, <2>2 DEF Telling
<1> QED
  BY <1>8, <1>9, <1>10, <1>11, <1>12, <1>13, <1>14, <1>15 DEF PersistNext

(* Whatever the power leaves of the pending writes, in whatever order, a   *)
(* log Journal::open accepts tells the boots and their entries in order.   *)
THEOREM AcceptedLogsInOrder == PersistSpec => []AcceptedInOrder
<1>1. PersistInit => Telling
  <2> SUFFICES ASSUME PersistInit  PROVE Telling
    OBVIOUS
  <2>1. durable = Original(image) /\ pending = <<>> /\ pc = "up"
        /\ image \in {"bare", "partitioned", "damaged"}
    BY PersistAssumption DEF PersistInit
  <2>2. ASSUME NEW s \in Lba  PROVE TellsTo(durable[s], Past)
    BY <2>1 DEF TellsTo, Original, Blank, Damaged, Header, Entries, Foreign
  <2>3. ASSUME NEW d \in CrashImages  PROVE \A s \in Lba : d[s] = durable[s]
    <3>1. PICK K \in SUBSET DOMAIN pending : d = Applied(K)
      BY DEF CrashImages
    <3>2. K = {}
      BY <2>1, <3>1
    <3> QED
      BY <3>1, <3>2 DEF Applied
  <2> QED
    BY <2>1, <2>2, <2>3 DEF Telling
<1>2. Running /\ Telling => AcceptedInOrder
  <2> SUFFICES ASSUME Running, Telling, NEW d \in CrashImages, Reopened(d).ok
               PROVE  InOrder(Reopened(d).journal.tip)
    BY DEF AcceptedInOrder
  <2>1. d \in Disks
    BY ImagesTyped DEF Running
  <2>2. PICK place : place = placed(d, TRUE)
    OBVIOUS
  <2>3. Fits(place)
    BY <2>1, <2>2, PlacedSomewhere, PlacesFit
  <2>4. PICK tip \in Seq(Line) :
          /\ Holds(d, place, tip)
          /\ open(Through(place, d), place.count).journal = Log(Len(tip), tip)
    BY <2>1, <2>2, <2>3, AcceptedIsHeld DEF Reopened
  <2>5. Reopened(d).journal.tip = tip
    <3>1. Reopened(d).journal = Log(Len(tip), tip)
      BY <2>2, <2>4 DEF Reopened
    <3> QED
      BY <3>1 DEF Log
  <2>6. TellsTo(d[place.first], Past)
    BY <2>1, <2>3, SuperblockAt DEF Telling
  <2>7. Told(tip, Past)
    BY <2>4, <2>6, SuperblockHolds DEF TellsTo, Holds
  <2> QED
    BY <2>5, <2>7 DEF Told
<1>3. PersistSpec => []Telling
  BY <1>1, TellingStep, RunningAlways, PTL DEF PersistSpec
<1> QED
  BY <1>2, <1>3, RunningAlways, PTL

-----------------------------------------------------------------------------
(* A boot that goes well leaves what it set out to leave. *)

Room(all, capacity) == IF Len(all) <= capacity THEN all ELSE SubSeq(all, 1, capacity)

Promising ==
  /\ pc \in Early => promised = ZeroHash
  /\ ~faulty /\ pc \in {"append", "superblock"} =>
       promised = Room(journal.tip \o todo, record_capacity(storage.count))
  /\ ~faulty /\ pc = "flush" => Holds(View, storage, promised)
  /\ ~faulty /\ pc = "done" /\ promised # ZeroHash => Holds(durable, storage, promised)

(* A full log, or one with nothing more to come, is what was promised. *)
LEMMA RoomIsTaken ==
  ASSUME NEW a \in Seq(Line), NEW b \in Seq(Line), NEW capacity \in Nat, Len(a) <= capacity,
         b = <<>> \/ Len(a) >= capacity
  PROVE  Room(a \o b, capacity) = a
<1>1. CASE b = <<>>
  <2>1. a \o b = a
    BY <1>1, ConcatEmptySeq
  <2> QED
    BY <2>1 DEF Room
<1>2. CASE b # <<>> /\ Len(a) >= capacity
  <2>1. PICK t : t = a \o b
    OBVIOUS
  <2>2. t \in Seq(Line) /\ Len(t) = Len(a) + Len(b) /\ \A i \in 1..Len(a) : t[i] = a[i]
    BY <2>1, Joined
  <2>3. Len(a) = capacity /\ Len(b) \in Nat \ {0}
    BY <1>2, EmptySeq
  <2>4. ~(Len(t) <= capacity) /\ capacity \in 0..Len(t)
    BY <2>2, <2>3
  <2>5. PICK f : f = SubSeq(t, 1, capacity)
    OBVIOUS
  <2>6. f \in Seq(Line) /\ Len(f) = capacity /\ \A j \in 1..capacity : f[j] = t[j]
    BY <2>2, <2>4, <2>5, Opening
  <2>7. \A j \in 1..capacity : f[j] = a[j]
    BY <2>2, <2>3, <2>6
  <2>8. f = a
    BY <2>3, <2>6, <2>7, SeqEqual
  <2> QED
    BY <2>1, <2>4, <2>5, <2>8 DEF Room
<1> QED
  BY <1>1, <1>2

LEMMA PromisingStep == Running /\ Promising /\ [PersistNext]_persistVars => Promising'
<1> SUFFICES ASSUME Running, Promising, [PersistNext]_persistVars  PROVE Promising'
  OBVIOUS
<1>1. Medium /\ View \in Disks
  BY ImagesTyped DEF Running
<1>2. journal.tip \in Seq(Line) /\ todo \in Seq(Line)
  BY DEF Running, Writing
<1>3. pc # "up" => Fits(storage)
  BY PlacesFit DEF Running, Placed
<1>4. ASSUME pc # "up"  PROVE record_capacity(storage.count) \in Nat
  <2>1. storage.count \in Nat \ {0}
    BY <1>3, <1>4 DEF Fits
  <2> QED
    BY <2>1, SectorOf
<1>5. ASSUME pc \in {"append", "superblock"}
      PROVE  Holds(View, storage, journal.tip)
             /\ Len(journal.tip) <= record_capacity(storage.count)
  BY <1>5 DEF Running, Writing, Holds, Chained
<1>6. CASE Journaled
  BY <1>6 DEF Journaled, Promising, deviceVars, Early
<1>7. CASE Locate \/ ScratchWrite \/ ScratchFlush
  BY <1>7 DEF Locate, ScratchWrite, ScratchFlush, Promising, Early
<1>8. CASE OpenJournal
  <2>1. pc = "open" /\ promised = ZeroHash /\ UNCHANGED storage
    BY <1>8 DEF OpenJournal, Promising, Early
  <2>2. ASSUME NEW tip, StartAppending(Log(Len(tip), tip))  PROVE Promising'
    <3>1. /\ pc' = "append" /\ todo' = for_each /\ journal' = Log(Len(tip), tip)
          /\ Log(Len(tip), tip).tip = tip
      BY <2>2 DEF StartAppending, Log
    <3>2. promised' = Room(tip \o for_each, record_capacity(storage.count))
      BY <2>2, <3>1 DEF StartAppending, Room
    <3>3. journal'.tip = tip
      BY <3>1
    <3> QED
      BY <2>1, <3>1, <3>2, <3>3 DEF Promising, Early
  <2>3. ASSUME GiveUp  PROVE Promising'
    BY <2>1, <2>3 DEF GiveUp, Promising, Early
  <2>4. ASSUME NEW tip, Begins(tip)  PROVE Promising'
    BY <2>2, <2>4 DEF Begins
  <2>5. CASE Fresh
    BY <2>2, <2>3, <2>5 DEF Fresh
  <2>6. CASE Refused
    BY <2>3, <2>6 DEF Refused
  <2> QED
    BY <1>8, <2>4, <2>5, <2>6, Opens
<1>9. CASE AppendRecord
  <2>1. pc = "append" /\ UNCHANGED <<storage, journal, todo, promised>>
    BY <1>9 DEF AppendRecord
  <2>2. ~faulty' => ~faulty
    BY <1>9 DEF AppendRecord, deviceVars, Writes, WriteFails, RequestFails
  <2>3. CASE Lengthens
    <3>1. pc' = "superblock" \/ (pc' = "flush" /\ faulty' = TRUE)
      BY <2>3 DEF Lengthens
    <3> QED
      BY <2>1, <2>2, <3>1 DEF Promising, Early
  <2>4. CASE Stops
    <3>1. pc' = "flush" /\ View' = View
      BY <2>4 DEF Stops, Untouched
    <3>2. ASSUME ~faulty'  PROVE Holds(View, storage, promised)
      <4>1. Len(journal.tip) >= record_capacity(storage.count)
        BY <2>4, <3>2 DEF Stops
      <4>2. promised = Room(journal.tip \o todo, record_capacity(storage.count))
        BY <2>1, <2>2, <3>2 DEF Promising
      <4>3. promised = journal.tip
        BY <1>2, <1>4, <1>5, <2>1, <4>1, <4>2, RoomIsTaken
      <4> QED
        BY <1>5, <2>1, <4>3
    <3> QED
      BY <2>1, <3>1, <3>2 DEF Promising, Early
  <2>5. Lengthens \/ Stops
    BY <1>9, Appends
  <2> QED
    BY <2>3, <2>4, <2>5
<1>10. CASE AppendSuperblock
  <2>1. pc = "superblock" /\ UNCHANGED <<storage, promised>>
    BY <1>10 DEF AppendSuperblock
  <2>2. ~faulty' => ~faulty
    BY <1>10 DEF AppendSuperblock, Writes, WriteFails, RequestFails
  <2>3. PICK next : Advances(next)
    BY <1>10, Commits
  <2>4. /\ next = Append(journal.tip, Head(todo)) /\ todo # <<>>
        /\ journal' = Log(Len(next), next) /\ todo' = Tail(todo)
        /\ pc' = "append" \/ (pc' = "flush" /\ faulty' = TRUE)
    BY <2>3 DEF Advances
  <2>5. journal'.tip = next
    BY <2>4 DEF Log
  <2>6. next \o Tail(todo) = journal.tip \o todo
    BY <1>2, <2>4, Shifted
  <2>7. ~faulty => promised = Room(journal.tip \o todo, record_capacity(storage.count))
    BY <2>1 DEF Promising
  <2>8. journal'.tip \o todo' = journal.tip \o todo
    BY <2>4, <2>5, <2>6
  <2> QED
    BY <2>1, <2>2, <2>4, <2>7, <2>8 DEF Promising, Early
<1>11. CASE EndOfRing
  <2>1. /\ pc = "append" /\ pc' = "flush" /\ todo = <<>> /\ Untouched
        /\ UNCHANGED <<storage, promised, faulty>>
    BY <1>1, <1>11, NoWrite DEF EndOfRing, deviceVars
  <2>2. ASSUME ~faulty  PROVE Holds(View, storage, promised)
    <3>1. promised = Room(journal.tip \o todo, record_capacity(storage.count))
      BY <2>1, <2>2 DEF Promising
    <3>2. promised = journal.tip
      BY <1>2, <1>4, <1>5, <2>1, <3>1, RoomIsTaken
    <3> QED
      BY <1>5, <2>1, <3>2
  <2> QED
    BY <2>1, <2>2 DEF Promising, Early, Untouched
<1>12. CASE FlushJournal
  <2>1. pc = "flush" /\ pc' = "done" /\ UNCHANGED <<storage, promised>>
    BY <1>12 DEF FlushJournal
  <2>2. CASE Only(View) /\ faulty' = faulty
    BY <2>1, <2>2 DEF Promising, Early, Only
  <2>3. CASE faulty' = TRUE
    BY <2>1, <2>3 DEF Promising, Early
  <2> QED
    BY <1>12, <2>2, <2>3, Commit
<1>13. CASE PowerCycle
  BY <1>13 DEF PowerCycle, Promising, Early
<1>14. CASE UNCHANGED persistVars
  <2>1. Untouched /\ UNCHANGED <<pc, storage, journal, todo, promised, faulty>>
    BY <1>1, <1>14, NoWrite DEF persistVars
  <2> QED
    BY <2>1 DEF Promising, Untouched
<1> QED
  BY <1>6, <1>7, <1>8, <1>9, <1>10, <1>11, <1>12, <1>13, <1>14 DEF PersistNext

(* A boot none of whose requests failed, and that could read the table,    *)
(* has left on the medium the log it found and every entry of the ring     *)
(* there was room for.                                                     *)
THEOREM CleanBootsCommit == PersistSpec => []CleanBootCommitsAll
<1>1. PersistInit => Promising
  BY DEF PersistInit, Promising, Early
<1>2. Running /\ Promising => CleanBootCommitsAll
  <2> SUFFICES ASSUME Running, Promising, pc = "done", ~faulty, astray = 0, promised # ZeroHash
               PROVE  Reopened(durable).ok /\ Reopened(durable).journal.tip = promised
    BY DEF CleanBootCommitsAll
  <2>1. durable \in Disks /\ Tables(durable)
    BY ImagesTyped DEF Running, Found
  <2>2. placed(durable, TRUE) = Home /\ Fits(Home) /\ storage = Home
    BY <2>1, HomeFound, PlacesFit DEF Home, Places, Running, Placed
  <2>3. PICK tip : tip = promised
    OBVIOUS
  <2>4. Holds(durable, Home, tip)
    BY <2>2, <2>3 DEF Promising
  <2>5. Reopened(durable).ok /\ Reopened(durable).journal = Log(Len(tip), tip)
    BY <2>1, <2>2, <2>4, HeldIsAccepted DEF Reopened
  <2> QED
    BY <2>3, <2>5 DEF Log
<1>3. PersistSpec => []Promising
  BY <1>1, PromisingStep, RunningAlways, PTL DEF PersistSpec
<1> QED
  BY <1>2, <1>3, RunningAlways, PTL
=============================================================================
