---------------------------- MODULE MemoryProofs ----------------------------
(***************************************************************************)
(* Proofs about memory: the frame allocator for any number of frames and   *)
(* any sizes asked for, and the heap for any block quantum, base and       *)
(* layouts.                                                                *)
(***************************************************************************)
EXTENDS Memory, Numbers, FiniteSetTheorems, SequenceTheorems

-----------------------------------------------------------------------------
(* The frame allocator. *)

FramesTyped ==
  /\ used \in SUBSET Nat
  /\ next_hint \in Nat
  /\ refused \in Nat
  /\ extents \in SUBSET [first : Nat, count : Nat \ {0}]

(* The bitmap and the extents handed out agree, and no frame is in two. *)
FramesPartition ==
  /\ \A d, e \in extents : d # e => Span(d) \cap Span(e) = {}
  /\ \A e \in extents : Span(e) \cap 0..(BITMAP_FRAMES - 1) = {}
  /\ used = 0..(BITMAP_FRAMES - 1) \cup UNION {Span(e) : e \in extents}

(* Where the search finds a run, it takes the lowest, and it is free. *)
LEMMA LowestRun ==
  ASSUME NEW from \in Nat, NEW count \in Nat \ {0}, Runs(from, count) # {}
  PROVE  LET first == Min(Runs(from, count))
         IN  /\ first \in Nat /\ first >= from
             /\ first \in Runs(from, count)
             /\ first..(first + count - 1) \cap used = {}
             /\ \A s \in Runs(from, count) : first <= s
<1>1. FRAMES \in Nat
  BY FramesAssumption
<1>2. Runs(from, count) \in SUBSET Nat
  BY <1>1 DEF Runs
<1>3. \E s \in Runs(from, count) : \A t \in Runs(from, count) : s <= t
  BY <1>2, LeastNatural
<1>4. /\ Min(Runs(from, count)) \in Runs(from, count)
      /\ \A s \in Runs(from, count) : Min(Runs(from, count)) <= s
  BY <1>3 DEF Min
<1> QED
  BY <1>1, <1>2, <1>4 DEF Runs

(* The search starts at a frame number. *)
LEMMA SearchFrom ==
  ASSUME next_hint \in Nat, NEW count
  PROVE  search_from(count) \in Nat
BY DEF search_from

(* A call either hands out a run of free frames, which becomes used, or    *)
(* finds none in the whole bitmap (allocate_contiguous, mem.rs).           *)
LEMMA AllocateOutcome ==
  ASSUME FramesTyped, NEW count \in Nat \ {0}, allocate_frames(count)
  PROVE  \/ /\ Runs(0, count) = {}
            /\ next_hint' = 0 /\ refused' = count
            /\ UNCHANGED <<used, extents>>
         \/ \E first \in Nat :
              /\ first..(first + count - 1) \cap used = {}
              /\ used' = used \cup (first..(first + count - 1))
              /\ extents' = extents \cup {[first |-> first, count |-> count]}
              /\ next_hint' = first + count /\ refused' = 0
              /\ first = Min(Runs(search_from(count), count))
<1> DEFINE runs == Runs(search_from(count), count)
           first == Min(runs)
<1>1. search_from(count) \in Nat
  BY SearchFrom DEF FramesTyped
<1>2. CASE runs = {}
  BY <1>2 DEF allocate_frames, search_from
<1>3. CASE runs # {}
  <2>1. first \in Nat /\ first..(first + count - 1) \cap used = {}
    BY <1>1, <1>3, LowestRun
  <2>2. /\ used' = used \cup (first..(first + count - 1))
        /\ next_hint' = first + count
        /\ extents' = extents \cup {[first |-> first, count |-> count]}
        /\ refused' = 0
    BY <1>3 DEF allocate_frames
  <2> QED
    BY <2>1, <2>2
<1> QED
  BY <1>2, <1>3

(* Handing out free frames keeps the owners apart. *)
LEMMA AllocateKeeps ==
  ASSUME FramesTyped, FramesPartition, NEW count \in Nat \ {0}, allocate_frames(count)
  PROVE  FramesTyped' /\ FramesPartition'
<1>1. CASE UNCHANGED <<used, extents>> /\ next_hint' = 0 /\ refused' = count
  BY <1>1 DEF FramesTyped, FramesPartition, Span
<1>2. ASSUME NEW first \in Nat,
             first..(first + count - 1) \cap used = {},
             used' = used \cup (first..(first + count - 1)),
             extents' = extents \cup {[first |-> first, count |-> count]},
             next_hint' = first + count, refused' = 0
      PROVE  FramesTyped' /\ FramesPartition'
  <2> DEFINE new == [first |-> first, count |-> count]
  <2>1. new \in [first : Nat, count : Nat \ {0}] /\ Span(new) = first..(first + count - 1)
    BY DEF Span
  <2> HIDE DEF new
  <2>2. FramesTyped'
    BY <1>2, <2>1 DEF FramesTyped, new
  <2>3. \A e \in extents : Span(e) \subseteq used
    BY DEF FramesPartition
  <2>4. 0..(BITMAP_FRAMES - 1) \subseteq used
    BY DEF FramesPartition
  <2>5. extents' = extents \cup {new} /\ used' = used \cup Span(new) /\ Span(new) \cap used = {}
    BY <1>2, <2>1 DEF new
  <2>6. \A d, e \in extents' : d # e => Span(d) \cap Span(e) = {}
    BY <2>3, <2>5 DEF FramesPartition
  <2>7. \A e \in extents' : Span(e) \cap 0..(BITMAP_FRAMES - 1) = {}
    BY <2>4, <2>5 DEF FramesPartition
  <2>8. used' = 0..(BITMAP_FRAMES - 1) \cup UNION {Span(e) : e \in extents'}
    BY <2>5 DEF FramesPartition
  <2> QED
    BY <2>2, <2>6, <2>7, <2>8 DEF FramesPartition, Span
<1> QED
  BY <1>1, <1>2, AllocateOutcome

(* Taking an extent back frees its frames and no other's. *)
LEMMA FreeKeeps ==
  ASSUME FramesTyped, FramesPartition, NEW e \in extents, free_frames(e)
  PROVE  FramesTyped' /\ FramesPartition'
<1>1. used' = used \ Span(e) /\ extents' = extents \ {e} /\ refused' = 0 /\ next_hint' = next_hint
  BY DEF free_frames
<1>2. FramesTyped'
  BY <1>1 DEF FramesTyped
<1>3. \A d \in extents' : Span(d) \cap Span(e) = {}
  BY <1>1 DEF FramesPartition
<1>4. used' = 0..(BITMAP_FRAMES - 1) \cup UNION {Span(d) : d \in extents'}
  BY <1>1, <1>3 DEF FramesPartition
<1>5. /\ \A d, f \in extents' : d # f => Span(d) \cap Span(f) = {}
      /\ \A d \in extents' : Span(d) \cap 0..(BITMAP_FRAMES - 1) = {}
  BY <1>1 DEF FramesPartition
<1> QED
  BY <1>2, <1>4, <1>5 DEF FramesPartition, Span

-----------------------------------------------------------------------------
(* Bring-up hands out the first frames one after another, so the heap gets *)
(* the frames its addresses are computed from.                             *)

BootOrder ==
  /\ IsFiniteSet(extents)
  /\ ~booted =>
       LET n == Cardinality(extents)
       IN  /\ n \in 0..TABLE_FRAMES
           /\ used = 0..(BITMAP_FRAMES + n - 1)
           /\ next_hint <= BITMAP_FRAMES + n
  /\ booted => HeapExtent \in extents

(* The heap starts at the frame behind the page tables. *)
LEMMA HeapFrame ==
  HeapExtent = [first |-> BITMAP_FRAMES + TABLE_FRAMES, count |-> HEAP_PAGES]
<1>1. /\ BITMAP_FRAMES + TABLE_FRAMES \in Nat /\ PAGE_SIZE \in Nat \ {0} /\ 0 \in 0..(PAGE_SIZE - 1)
      /\ HEAP_BASE = PAGE_SIZE * (BITMAP_FRAMES + TABLE_FRAMES) + 0
  BY MemoryAssumption, FramesAssumption
<1>2. HEAP_BASE \div PAGE_SIZE = BITMAP_FRAMES + TABLE_FRAMES
  BY <1>1, DivisionUnique
<1> QED
  BY <1>2 DEF HeapExtent

(* While the first n frames are used and the hint is not past them, a call *)
(* gets the next ones.                                                     *)
LEMMA NextInOrder ==
  ASSUME FramesTyped, NEW n \in Nat, NEW count \in Nat \ {0},
         used = 0..(n - 1), next_hint <= n, n + count <= FRAMES,
         allocate_frames(count)
  PROVE  /\ extents' = extents \cup {[first |-> n, count |-> count]}
         /\ used' = 0..(n + count - 1)
         /\ next_hint' = n + count
<1>0. FRAMES \in Nat /\ next_hint \in Nat
  BY FramesAssumption DEF FramesTyped
<1>1. ASSUME NEW from \in Nat, from <= n
      PROVE  n \in Runs(from, count) /\ \A s \in Runs(from, count) : n <= s
  <2>1. n \in Runs(from, count)
    BY <1>0, <1>1 DEF Runs
  <2>2. ASSUME NEW s \in Runs(from, count)  PROVE n <= s
    <3>1. s \in Nat /\ s \in s..(s + count - 1) /\ s..(s + count - 1) \cap used = {}
      BY <1>0, <1>1 DEF Runs
    <3> QED
      BY <3>1
  <2> QED
    BY <2>1, <2>2
<1>2. search_from(count) \in Nat /\ search_from(count) <= n
  BY <1>0 DEF search_from
<1>3. Runs(0, count) # {} /\ Runs(search_from(count), count) # {}
  BY <1>1, <1>2
<1>4. PICK first \in Nat :
        /\ used' = used \cup (first..(first + count - 1))
        /\ extents' = extents \cup {[first |-> first, count |-> count]}
        /\ next_hint' = first + count
        /\ first = Min(Runs(search_from(count), count))
  BY <1>3, AllocateOutcome
<1>5. first = n
  BY <1>1, <1>2, <1>3, <1>4, LowestRun
<1> QED
  BY <1>4, <1>5

(* Every step keeps the frames' laws; bring-up keeps its order. *)
LEMMA FramesStep ==
  ASSUME FramesTyped, FramesPartition, BootOrder, MemoryNext
  PROVE  FramesTyped' /\ FramesPartition' /\ BootOrder'
<1>0. /\ BITMAP_FRAMES \in Nat /\ TABLE_FRAMES \in Nat /\ FRAMES \in Nat
      /\ HEAP_PAGES \in Nat \ {0}
      /\ BITMAP_FRAMES + TABLE_FRAMES + HEAP_PAGES <= FRAMES
  BY MemoryAssumption, FramesAssumption
<1> DEFINE n == Cardinality(extents)
<1>1. CASE PageTables
  <2>1. /\ ~booted /\ ~booted' /\ n < TABLE_FRAMES /\ allocate_frames(1)
    BY <1>1 DEF PageTables
  <2>2. FramesTyped' /\ FramesPartition'
    BY <2>1, AllocateKeeps
  <2>3. /\ n \in Nat /\ used = 0..(BITMAP_FRAMES + n - 1) /\ next_hint <= BITMAP_FRAMES + n
    BY <2>1 DEF BootOrder
  <2>4. /\ extents' = extents \cup {[first |-> BITMAP_FRAMES + n, count |-> 1]}
        /\ used' = 0..(BITMAP_FRAMES + n + 1 - 1)
        /\ next_hint' = BITMAP_FRAMES + n + 1
    BY <1>0, <2>1, <2>3, NextInOrder
  <2>5. [first |-> BITMAP_FRAMES + n, count |-> 1] \notin extents
    <3>1. SUFFICES ASSUME [first |-> BITMAP_FRAMES + n, count |-> 1] \in extents PROVE FALSE
      OBVIOUS
    <3>2. BITMAP_FRAMES + n \in Span([first |-> BITMAP_FRAMES + n, count |-> 1])
      BY <1>0, <2>3 DEF Span
    <3>3. BITMAP_FRAMES + n \in used
      BY <3>1, <3>2 DEF FramesPartition
    <3> QED
      BY <1>0, <2>3, <3>3
  <2>6. IsFiniteSet(extents') /\ Cardinality(extents') = n + 1
    BY <2>4, <2>5, FS_AddElement DEF BootOrder
  <2>7. Cardinality(extents') \in 0..TABLE_FRAMES
    BY <1>0, <2>1, <2>3, <2>6
  <2>8. /\ used' = 0..(BITMAP_FRAMES + Cardinality(extents') - 1)
        /\ next_hint' <= BITMAP_FRAMES + Cardinality(extents')
    BY <1>0, <2>3, <2>4, <2>6
  <2> QED
    BY <2>1, <2>2, <2>6, <2>7, <2>8 DEF BootOrder
<1>2. CASE HeapComesUp
  <2>1. ~booted /\ booted' = TRUE /\ n = TABLE_FRAMES /\ allocate_frames(HEAP_PAGES)
    BY <1>2 DEF HeapComesUp
  <2>2. FramesTyped' /\ FramesPartition'
    BY <1>0, <2>1, AllocateKeeps
  <2>3. /\ used = 0..(BITMAP_FRAMES + TABLE_FRAMES - 1)
        /\ next_hint <= BITMAP_FRAMES + TABLE_FRAMES
    BY <2>1 DEF BootOrder
  <2>4. extents' = extents \cup
          {[first |-> BITMAP_FRAMES + TABLE_FRAMES, count |-> HEAP_PAGES]}
    BY <1>0, <2>1, <2>3, NextInOrder
  <2>5. HeapExtent' = HeapExtent
    BY DEF HeapExtent
  <2>6. IsFiniteSet(extents')
    BY <2>4, FS_AddElement DEF BootOrder
  <2> QED
    BY <2>1, <2>2, <2>4, <2>5, <2>6, HeapFrame DEF BootOrder
<1>3. CASE FrameCalls
  <2>1. booted /\ booted' = booted /\ HeapExtent' = HeapExtent
    BY <1>3 DEF FrameCalls, HeapExtent
  <2>2. ASSUME NEW count \in Counts, allocate_frames(count)
        PROVE  FramesTyped' /\ FramesPartition' /\ BootOrder'
    <3>1. count \in Nat \ {0}
      BY FramesAssumption
    <3>2. extents' = extents \/ \E x : extents' = extents \cup {x}
      BY <2>2, <3>1, AllocateOutcome
    <3>3. IsFiniteSet(extents') /\ HeapExtent \in extents'
      BY <2>1, <3>2, FS_AddElement DEF BootOrder
    <3> QED
      BY <2>1, <2>2, <3>1, <3>3, AllocateKeeps DEF BootOrder
  <2>3. ASSUME NEW e \in Returnable, free_frames(e)
        PROVE  FramesTyped' /\ FramesPartition' /\ BootOrder'
    <3>1. e \in extents /\ e # HeapExtent
      BY <1>0, HeapFrame DEF Returnable
    <3>2. extents' = extents \ {e}
      BY <2>3 DEF free_frames
    <3>3. IsFiniteSet(extents') /\ HeapExtent \in extents'
      BY <2>1, <3>1, <3>2, FS_RemoveElement DEF BootOrder
    <3> QED
      BY <2>1, <2>3, <3>1, <3>3, FreeKeeps DEF BootOrder
  <2> QED
    BY <1>3, <2>2, <2>3 DEF FrameCalls
<1>4. CASE HeapCalls
  BY <1>4 DEF HeapCalls, framesVars, FramesTyped, FramesPartition, BootOrder, HeapExtent, Span
<1> QED
  BY <1>1, <1>2, <1>3, <1>4 DEF MemoryNext

(* The laws of the frames hold in every reachable state. *)
LEMMA FramesAlways == MemorySpec => [](FramesTyped /\ FramesPartition /\ BootOrder)
<1> DEFINE Inv == FramesTyped /\ FramesPartition /\ BootOrder
<1>1. MemoryInit => Inv
  <2> SUFFICES ASSUME MemoryInit PROVE Inv
    OBVIOUS
  <2>1. IsFiniteSet(extents) /\ Cardinality(extents) = 0
    BY FS_EmptySet DEF MemoryInit, FramesInit
  <2>2. BITMAP_FRAMES \in Nat /\ TABLE_FRAMES \in Nat
    BY MemoryAssumption, FramesAssumption
  <2> QED
    BY <2>1, <2>2
       DEF MemoryInit, FramesInit, FramesTyped, FramesPartition, BootOrder
<1>2. Inv /\ [MemoryNext]_memoryVars => Inv'
  <2>1. Inv /\ MemoryNext => Inv'
    BY FramesStep
  <2>2. Inv /\ UNCHANGED memoryVars => Inv'
    BY DEF memoryVars, framesVars, FramesTyped, FramesPartition, BootOrder, HeapExtent, Span
  <2> QED
    BY <2>1, <2>2
<1> QED
  BY <1>1, <1>2, PTL DEF MemorySpec

(* No frame is ever handed to two owners, and the heap keeps its own, for  *)
(* any region, bitmap and sizes (mem.rs).                                  *)
THEOREM FramesHaveOneOwner == MemorySpec => []FramesOwnedOnce
<1>1. FramesPartition /\ BootOrder => FramesOwnedOnce
  BY DEF FramesPartition, BootOrder, FramesOwnedOnce
<1> QED
  BY <1>1, FramesAlways, PTL

(* Frames are refused only for want of a run that long: the bitmap does    *)
(* not change when a call is refused, and the search has been everywhere.  *)
THEOREM RefusalMeansFull == MemorySpec => []RefusedMeansFull
<1>1. MemoryInit => RefusedMeansFull
  BY DEF MemoryInit, FramesInit, RefusedMeansFull
<1>2. FramesTyped /\ RefusedMeansFull /\ [MemoryNext]_memoryVars => RefusedMeansFull'
  <2> SUFFICES ASSUME FramesTyped, RefusedMeansFull, [MemoryNext]_memoryVars
               PROVE  RefusedMeansFull'
    OBVIOUS
  <2>1. ASSUME NEW count \in Nat \ {0}, allocate_frames(count)  PROVE RefusedMeansFull'
    BY <2>1, AllocateOutcome DEF RefusedMeansFull, Runs
  <2>2. CASE PageTables
    BY <2>1, <2>2 DEF PageTables
  <2>3. CASE HeapComesUp
    BY <2>1, <2>3, MemoryAssumption DEF HeapComesUp
  <2>4. CASE FrameCalls
    BY <2>1, <2>4, FramesAssumption DEF FrameCalls, free_frames, RefusedMeansFull
  <2>5. CASE HeapCalls \/ UNCHANGED memoryVars
    BY <2>5 DEF HeapCalls, memoryVars, framesVars, RefusedMeansFull, Runs
  <2> QED
    BY <2>2, <2>3, <2>4, <2>5 DEF MemoryNext
<1> QED
  BY <1>1, <1>2, FramesAlways, PTL DEF MemorySpec

-----------------------------------------------------------------------------
(* The heap: arithmetic of a cut. *)

(* Rounding up gives the multiple at or above. *)
LEMMA NextMultiple ==
  ASSUME NEW n \in Nat, NEW m \in Nat \ {0}
  PROVE  /\ next_multiple_of(n, m) \in Nat
         /\ next_multiple_of(n, m) >= n
         /\ next_multiple_of(n, m) % m = 0
<1>1. n % m \in 0..(m - 1) /\ n \div m \in Nat /\ n = m * (n \div m) + (n % m)
  BY Division
<1>2. n % m # 0 => n + (m - (n % m)) = m * ((n \div m) + 1)
  BY <1>1
<1>3. (n \div m) + 1 \in Nat /\ n + (m - (n % m)) \in Nat
  BY <1>1
<1>4. n % m # 0 => (n + (m - (n % m))) % m = 0
  BY <1>2, <1>3, Multiple
<1> QED
  BY <1>1, <1>3, <1>4 DEF next_multiple_of

(* What is handed out for a layout is a whole number of quanta, at least   *)
(* one, and as large as asked.                                             *)
LEMMA EffectiveSize ==
  ASSUME NEW l \in Layouts
  PROVE  /\ effective_size(l) \in Nat
         /\ effective_size(l) % MIN_BLOCK = 0
         /\ effective_size(l) >= MIN_BLOCK
         /\ effective_size(l) >= l.size
<1>1. MIN_BLOCK \in Nat \ {0} /\ l.size \in Nat
  BY HeapAssumption
<1>2. max(l.size, MIN_BLOCK) \in Nat
      /\ max(l.size, MIN_BLOCK) >= l.size /\ max(l.size, MIN_BLOCK) >= MIN_BLOCK
  BY <1>1 DEF max
<1>3. /\ effective_size(l) \in Nat
      /\ effective_size(l) >= max(l.size, MIN_BLOCK)
      /\ effective_size(l) % MIN_BLOCK = 0
  BY <1>1, <1>2, NextMultiple DEF effective_size
<1> QED
  BY <1>1, <1>2, <1>3

(* The alignment used is a multiple of the one asked for and of the        *)
(* quantum: one of the two divides the other.                              *)
LEMMA EffectiveAlign ==
  ASSUME NEW l \in Layouts
  PROVE  /\ effective_align(l) \in Nat \ {0}
         /\ effective_align(l) % l.align = 0
         /\ effective_align(l) % MIN_BLOCK = 0
<1>1. /\ MIN_BLOCK \in Nat \ {0} /\ l.align \in Nat \ {0}
      /\ l.align % MIN_BLOCK = 0 \/ MIN_BLOCK % l.align = 0
  BY HeapAssumption
<1>2. l.align % l.align = 0 /\ MIN_BLOCK % MIN_BLOCK = 0
  BY <1>1, Multiple
<1>3. CASE l.align >= MIN_BLOCK
  <2>1. effective_align(l) = l.align
    BY <1>3 DEF effective_align, max
  <2>2. l.align % MIN_BLOCK = 0
    BY <1>1, <1>2, <1>3, SmallRemainder
  <2> QED
    BY <1>1, <1>2, <2>1, <2>2
<1>4. CASE l.align < MIN_BLOCK
  <2>1. effective_align(l) = MIN_BLOCK
    BY <1>1, <1>4 DEF effective_align, max
  <2>2. MIN_BLOCK % l.align = 0
    BY <1>1, <1>4, SmallRemainder
  <2> QED
    BY <1>1, <1>2, <2>1, <2>2
<1> QED
  BY <1>1, <1>3, <1>4

Blocks == [at : Nat, size : Nat]
Quantum(b) == b.at % MIN_BLOCK = 0 /\ b.size % MIN_BLOCK = 0 /\ b.size >= MIN_BLOCK

(* A fitting block is cut into padding, payload and remainder, whole       *)
(* quanta all three, with nothing between them.                            *)
LEMMA Cut ==
  ASSUME NEW b \in Blocks, Quantum(b), NEW l \in Layouts, Fits(b, l)
  PROVE  LET p == payload(b, l)
             e == effective_size(l)
             right == b.size - (padding(b, l) + e)
         IN  /\ p \in Nat /\ p >= b.at /\ p % MIN_BLOCK = 0 /\ p % l.align = 0
             /\ padding(b, l) = p - b.at /\ padding(b, l) \in Nat
             /\ padding(b, l) % MIN_BLOCK = 0
             /\ right \in Nat /\ right % MIN_BLOCK = 0
             /\ padding(b, l) = 0 \/ padding(b, l) >= MIN_BLOCK
             /\ right = 0 \/ right >= MIN_BLOCK
<1> DEFINE p == payload(b, l)
           e == effective_size(l)
           right == b.size - (padding(b, l) + e)
<1>0. /\ MIN_BLOCK \in Nat \ {0} /\ l.align \in Nat \ {0} /\ b.at \in Nat /\ b.size \in Nat
      /\ b.at % MIN_BLOCK = 0 /\ b.size % MIN_BLOCK = 0
  BY HeapAssumption DEF Blocks, Quantum
<1>1. /\ effective_align(l) \in Nat \ {0}
      /\ effective_align(l) % l.align = 0 /\ effective_align(l) % MIN_BLOCK = 0
  BY EffectiveAlign
<1>2. p \in Nat /\ p >= b.at /\ p % effective_align(l) = 0
  BY <1>0, <1>1, NextMultiple DEF payload
<1>3. p % MIN_BLOCK = 0 /\ p % l.align = 0
  BY <1>0, <1>1, <1>2, MultipleTransitive
<1>4. padding(b, l) = p - b.at /\ padding(b, l) \in Nat
  BY <1>0, <1>2 DEF padding
<1>5. padding(b, l) % MIN_BLOCK = 0
  BY <1>0, <1>2, <1>3, <1>4, MultipleDifference
<1>6. e \in Nat /\ e % MIN_BLOCK = 0
  BY EffectiveSize
<1> HIDE DEF p, e
<1>7. padding(b, l) + e \in Nat /\ (padding(b, l) + e) % MIN_BLOCK = 0
  <2> DEFINE left == padding(b, l)
  <2>1. left \in Nat /\ left % MIN_BLOCK = 0
    BY <1>4, <1>5
  <2> HIDE DEF left
  <2>2. MIN_BLOCK \in Nat \ {0} /\ e \in Nat /\ e % MIN_BLOCK = 0
    BY <1>0, <1>6
  <2>3. (left + e) % MIN_BLOCK = 0
    BY <2>1, <2>2, MultipleSum
  <2> QED
    BY <2>1, <2>2, <2>3 DEF left
<1>8. padding(b, l) + e <= b.size
  BY <1>0, <1>4, <1>6 DEF Fits, e
<1>9. right \in Nat /\ right % MIN_BLOCK = 0
  BY <1>0, <1>7, <1>8, MultipleDifference
<1>10. right = 0 \/ right >= MIN_BLOCK
  BY <1>0, <1>9, MultipleBound
<1>11. padding(b, l) = 0 \/ padding(b, l) >= MIN_BLOCK
  BY <1>0, <1>4, <1>5, MultipleBound
<1> QED
  BY <1>2, <1>3, <1>4, <1>5, <1>9, <1>10, <1>11 DEF p, e

-----------------------------------------------------------------------------
(* The heap: its invariant. *)

(* Three sequences one after the other, place by place. *)
LEMMA ThreeInARow ==
  ASSUME NEW S, NEW x \in Seq(S), NEW y \in Seq(S), NEW z \in Seq(S)
  PROVE  /\ x \o y \o z \in Seq(S)
         /\ Len(x \o y \o z) = Len(x) + Len(y) + Len(z)
         /\ \A j \in 1..Len(x) : (x \o y \o z)[j] = x[j]
         /\ \A j \in 1..Len(y) : (x \o y \o z)[Len(x) + j] = y[j]
         /\ \A j \in 1..Len(z) : (x \o y \o z)[Len(x) + Len(y) + j] = z[j]
<1> DEFINE xy == x \o y
           xyz == xy \o z
<1>1. Len(x) \in Nat /\ Len(y) \in Nat /\ Len(z) \in Nat
  OBVIOUS
<1>2. /\ xy \in Seq(S) /\ Len(xy) = Len(x) + Len(y)
      /\ \A j \in 1..(Len(x) + Len(y)) : xy[j] = IF j <= Len(x) THEN x[j] ELSE y[j - Len(x)]
  BY ConcatProperties
<1> HIDE DEF xy
<1>3. /\ xyz \in Seq(S) /\ Len(xyz) = Len(xy) + Len(z)
      /\ \A j \in 1..(Len(xy) + Len(z)) : xyz[j] = IF j <= Len(xy) THEN xy[j] ELSE z[j - Len(xy)]
  <2>1. xy \in Seq(S)
    BY <1>2
  <2> QED
    BY <2>1, ConcatProperties, Zenon
<1> HIDE DEF xyz
<1>4. \A j \in 1..Len(x) : xyz[j] = x[j]
  BY <1>1, <1>2, <1>3
<1>5. ASSUME NEW j \in 1..Len(y)  PROVE xyz[Len(x) + j] = y[j]
  <2>1. Len(x) + j \in 1..(Len(x) + Len(y)) /\ (Len(x) + j) - Len(x) = j /\ ~(Len(x) + j <= Len(x))
    BY <1>1
  <2>2. xy[Len(x) + j] = y[j]
    BY <1>2, <2>1
  <2>3. Len(x) + j \in 1..(Len(xy) + Len(z)) /\ Len(x) + j <= Len(xy)
    BY <1>1, <1>2
  <2> QED
    BY <1>3, <2>2, <2>3
<1>6. ASSUME NEW j \in 1..Len(z)  PROVE xyz[Len(x) + Len(y) + j] = z[j]
  <2> DEFINE m == Len(x) + Len(y) + j
  <2>1. m \in 1..(Len(xy) + Len(z)) /\ ~(m <= Len(xy)) /\ m - Len(xy) = j
    BY <1>1, <1>2
  <2> QED
    BY <1>3, <2>1
<1>7. Len(xyz) = Len(x) + Len(y) + Len(z)
  BY <1>1, <1>2, <1>3
<1> QED
  BY <1>3, <1>4, <1>5, <1>6, <1>7 DEF xy, xyz

(* Two singletons one after the other. *)
LEMMA Pair ==
  ASSUME NEW S, NEW a \in S, NEW b \in S
  PROVE  <<a>> \o <<b>> = <<a, b>>
<1>1. /\ <<a>> \in Seq(S) /\ Len(<<a>>) = 1 /\ <<a>>[1] = a
      /\ <<b>> \in Seq(S) /\ Len(<<b>>) = 1 /\ <<b>>[1] = b
      /\ <<a, b>> \in Seq(S) /\ Len(<<a, b>>) = 2 /\ <<a, b>>[1] = a /\ <<a, b>>[2] = b
  OBVIOUS
<1> DEFINE u == <<a>>
           v == <<b>>
           w == <<a, b>>
           uv == u \o v
<1> HIDE DEF u, v, w
<1>2. /\ uv \in Seq(S) /\ Len(uv) = Len(u) + Len(v)
      /\ \A j \in 1..(Len(u) + Len(v)) : uv[j] = IF j <= Len(u) THEN u[j] ELSE v[j - Len(u)]
  BY <1>1, ConcatProperties DEF u, v
<1> HIDE DEF uv
<1>3. Len(uv) = Len(w) /\ \A j \in 1..Len(uv) : uv[j] = w[j]
  BY <1>1, <1>2 DEF u, v, w
<1>4. w \in Seq(S)
  BY <1>1 DEF w
<1>5. uv = w
  BY <1>2, <1>3, <1>4, SeqEqual
<1> QED
  BY <1>5 DEF u, v, w, uv

(* A sequence with one element replaced by a sequence r, place by place. *)
Splice(s, i, r) == SubSeq(s, 1, i - 1) \o r \o SubSeq(s, i + 1, Len(s))

Places(S, s, i, r, t) ==
  /\ t \in Seq(S)
  /\ Len(t) = Len(s) - 1 + Len(r)
  /\ \A j \in 1..(i - 1) : t[j] = s[j]
  /\ \A k \in 1..Len(r) : t[i - 1 + k] = r[k]
  /\ \A j \in (i + 1)..Len(s) : t[j - 1 + Len(r)] = s[j]

LEMMA Spliced ==
  ASSUME NEW S, NEW s \in Seq(S), NEW i \in 1..Len(s), NEW r \in Seq(S)
  PROVE  Places(S, s, i, r, Splice(s, i, r))
<1> DEFINE front == SubSeq(s, 1, i - 1)
           back == SubSeq(s, i + 1, Len(s))
           t == front \o r \o back
<1>0. Len(s) \in Nat /\ Len(r) \in Nat /\ \A j \in 1..Len(s) : s[j] \in S
  OBVIOUS
<1>1. /\ front \in Seq(S) /\ Len(front) = i - 1
      /\ \A j \in 1..(i - 1) : front[j] = s[j]
  BY <1>0
<1>2. /\ back \in Seq(S) /\ Len(back) = Len(s) - i
      /\ \A j \in 1..(Len(s) - i) : back[j] = s[i + j]
  BY <1>0
<1> HIDE DEF front, back
<1>3. /\ t \in Seq(S)
      /\ Len(t) = Len(front) + Len(r) + Len(back)
      /\ \A j \in 1..Len(front) : t[j] = front[j]
      /\ \A j \in 1..Len(r) : t[Len(front) + j] = r[j]
      /\ \A j \in 1..Len(back) : t[Len(front) + Len(r) + j] = back[j]
  <2>1. front \in Seq(S) /\ back \in Seq(S)
    BY <1>1, <1>2
  <2> QED
    BY <2>1, ThreeInARow, SMTT(30)
<1> HIDE DEF t
<1>4. Len(t) = Len(s) - 1 + Len(r)
  BY <1>0, <1>1, <1>2, <1>3
<1>5. /\ \A j \in 1..(i - 1) : t[j] = s[j]
      /\ \A k \in 1..Len(r) : t[i - 1 + k] = r[k]
  BY <1>1, <1>3
<1>6. ASSUME NEW j \in (i + 1)..Len(s)  PROVE t[j - 1 + Len(r)] = s[j]
  <2>1. j - i \in 1..Len(back) /\ i + (j - i) = j
        /\ Len(front) + Len(r) + (j - i) = j - 1 + Len(r)
    BY <1>0, <1>1, <1>2
  <2>2. back[j - i] = s[j]
    BY <1>2, <2>1
  <2> QED
    BY <1>3, <2>1, <2>2
<1>7. Places(S, s, i, r, t)
  BY <1>3, <1>4, <1>5, <1>6 DEF Places
<1> QED
  BY <1>7 DEF t, front, back, Splice

(* Where the elements of the new sequence come from: two places of it have *)
(* two origins, in r or in s but for the one replaced, and none is lost.   *)
Sources(s, i, r, t) ==
  /\ \A p \in DOMAIN t :
       \/ \E k \in 1..Len(r) : t[p] = r[k]
       \/ \E j \in 1..Len(s) : j # i /\ t[p] = s[j]
  /\ \A p, q \in DOMAIN t : p # q =>
       \/ \E j, k \in 1..Len(r) : j # k /\ t[p] = r[j] /\ t[q] = r[k]
       \/ \E j \in 1..Len(r), k \in 1..Len(s) : k # i /\ t[p] = r[j] /\ t[q] = s[k]
       \/ \E j \in 1..Len(s), k \in 1..Len(r) : j # i /\ t[p] = s[j] /\ t[q] = r[k]
       \/ \E j, k \in 1..Len(s) : j # k /\ j # i /\ k # i /\ t[p] = s[j] /\ t[q] = s[k]
  /\ \A k \in 1..Len(r) : \E p \in DOMAIN t : t[p] = r[k]
  /\ \A j \in 1..Len(s) : j # i => \E p \in DOMAIN t : t[p] = s[j]

LEMMA Origins ==
  ASSUME NEW S, NEW s \in Seq(S), NEW i \in 1..Len(s), NEW r \in Seq(S)
  PROVE  Sources(s, i, r, Splice(s, i, r))
<1> DEFINE n == Len(s)
           m == Len(r)
           t == Splice(s, i, r)
           cut(p) == p >= i /\ p < i + m
           old(p) == IF p < i THEN p ELSE p + 1 - m
           place(p) == p + 1 - i
<1>1. /\ t \in Seq(S) /\ Len(t) = n - 1 + m
      /\ \A j \in 1..(i - 1) : t[j] = s[j]
      /\ \A k \in 1..m : t[i - 1 + k] = r[k]
      /\ \A j \in (i + 1)..n : t[j - 1 + m] = s[j]
  <2>1. Places(S, s, i, r, t)
    BY Spliced
  <2> QED
    BY <2>1 DEF Places
<1>2. n \in Nat /\ m \in Nat /\ i \in 1..n
  OBVIOUS
<1>3. DOMAIN t = 1..(n - 1 + m)
  <2>1. DOMAIN t = 1..Len(t)
    BY <1>1
  <2> QED
    BY <1>1, <2>1
<1> HIDE DEF n, m, t
<1>4. ASSUME NEW p \in DOMAIN t, cut(p)  PROVE place(p) \in 1..m /\ t[p] = r[place(p)]
  <2>1. place(p) \in 1..m /\ i - 1 + place(p) = p
    BY <1>2, <1>3, <1>4
  <2> QED
    BY <1>1, <2>1
<1>5. ASSUME NEW p \in DOMAIN t, ~cut(p)
      PROVE  old(p) \in 1..n /\ old(p) # i /\ t[p] = s[old(p)]
  <2>1. CASE p < i
    BY <1>1, <1>2, <1>3, <2>1
  <2>2. CASE ~(p < i)
    <3>1. p + 1 - m \in (i + 1)..n /\ (p + 1 - m) - 1 + m = p
      BY <1>2, <1>3, <1>5, <2>2
    <3>2. t[p] = s[p + 1 - m]
      BY <1>1, <3>1
    <3> QED
      BY <1>2, <2>2, <3>1, <3>2
  <2> QED
    BY <2>1, <2>2
<1>6. ASSUME NEW p \in DOMAIN t, NEW q \in DOMAIN t, p # q
      PROVE  place(p) # place(q) /\ (~cut(p) /\ ~cut(q) => old(p) # old(q))
  BY <1>2, <1>3, <1>6
<1> HIDE DEF cut, old, place
<1>7. ASSUME NEW p \in DOMAIN t, NEW q \in DOMAIN t, p # q
      PROVE  \/ \E j, k \in 1..m : j # k /\ t[p] = r[j] /\ t[q] = r[k]
             \/ \E j \in 1..m, k \in 1..n : k # i /\ t[p] = r[j] /\ t[q] = s[k]
             \/ \E j \in 1..n, k \in 1..m : j # i /\ t[p] = s[j] /\ t[q] = r[k]
             \/ \E j, k \in 1..n : j # k /\ j # i /\ k # i /\ t[p] = s[j] /\ t[q] = s[k]
  <2>1. /\ cut(p) => place(p) \in 1..m /\ t[p] = r[place(p)]
        /\ cut(q) => place(q) \in 1..m /\ t[q] = r[place(q)]
        /\ ~cut(p) => old(p) \in 1..n /\ old(p) # i /\ t[p] = s[old(p)]
        /\ ~cut(q) => old(q) \in 1..n /\ old(q) # i /\ t[q] = s[old(q)]
    BY <1>4, <1>5
  <2>2. CASE cut(p) /\ cut(q)
    BY <1>6, <1>7, <2>1, <2>2
  <2>3. CASE cut(p) /\ ~cut(q)
    BY <2>1, <2>3
  <2>4. CASE ~cut(p) /\ cut(q)
    BY <2>1, <2>4
  <2>5. CASE ~cut(p) /\ ~cut(q)
    BY <1>6, <1>7, <2>1, <2>5
  <2> QED
    BY <2>2, <2>3, <2>4, <2>5
<1>8. \A p \in DOMAIN t :
        (\E k \in 1..m : t[p] = r[k]) \/ (\E j \in 1..n : j # i /\ t[p] = s[j])
  BY <1>4, <1>5
<1>9. \A k \in 1..m : \E p \in DOMAIN t : t[p] = r[k]
  <2>1. \A k \in 1..m : i - 1 + k \in DOMAIN t
    BY <1>2, <1>3
  <2> QED
    BY <1>1, <2>1
<1>10. ASSUME NEW j \in 1..n, j # i  PROVE \E p \in DOMAIN t : t[p] = s[j]
  <2>1. CASE j < i
    <3>1. j \in DOMAIN t /\ t[j] = s[j]
      BY <1>1, <1>2, <1>3, <2>1
    <3> QED
      BY <3>1
  <2>2. CASE j > i
    <3>1. j - 1 + m \in DOMAIN t /\ t[j - 1 + m] = s[j]
      BY <1>1, <1>2, <1>3, <2>2
    <3> QED
      BY <3>1
  <2> QED
    BY <1>2, <1>10, <2>1, <2>2
<1> QED
  BY <1>7, <1>8, <1>9, <1>10 DEF Sources, n, m, t

HeapTyped ==
  /\ list \in Seq(Blocks)
  /\ live \in SUBSET [at : Nat, layout : Layouts]
  /\ booted \in BOOLEAN

(* Everything on the heap is in whole quanta, aligned as asked. *)
HeapQuanta ==
  /\ \A i \in DOMAIN list : Quantum(list[i])
  /\ \A a \in live : a.at % MIN_BLOCK = 0 /\ a.at % a.layout.align = 0

Apart ==
  /\ \A i, j \in DOMAIN list : i # j => FreeBytes(i) \cap FreeBytes(j) = {}
  /\ \A a, b \in live : a # b => LiveBytes(a) \cap LiveBytes(b) = {}
  /\ \A i \in DOMAIN list, a \in live : FreeBytes(i) \cap LiveBytes(a) = {}

InHeap(x) == (\E i \in DOMAIN list : x \in FreeBytes(i)) \/ (\E a \in live : x \in LiveBytes(a))

Covering ==
  /\ ~booted => list = <<>> /\ live = {}
  /\ booted => \A x : InHeap(x) <=> x \in Bytes(HEAP_BASE, HEAP_BYTES)

HeapInv == HeapTyped /\ HeapQuanta /\ Apart /\ Covering

(* The pieces that stay free and the payload make up the block again. *)
LEMMA Pieces ==
  ASSUME NEW b \in Blocks, Quantum(b), NEW l \in Layouts, Fits(b, l)
  PROVE  LET r == remainders(b, l)
             cut(k) == Bytes(r[k].at, r[k].size)
             given == Bytes(payload(b, l), effective_size(l))
         IN  /\ r \in Seq(Blocks)
             /\ \A k \in 1..Len(r) : Quantum(r[k])
             /\ \A j, k \in 1..Len(r) : j # k => cut(j) \cap cut(k) = {}
             /\ \A k \in 1..Len(r) : cut(k) \cap given = {} /\ cut(k) \subseteq Bytes(b.at, b.size)
             /\ given \subseteq Bytes(b.at, b.size)
             /\ \A x \in Bytes(b.at, b.size) : x \in given \/ \E k \in 1..Len(r) : x \in cut(k)
<1> DEFINE p == payload(b, l)
           e == effective_size(l)
           left == padding(b, l)
           need == left + e
           right == b.size - need
           r == remainders(b, l)
<1>1. /\ p \in Nat /\ p >= b.at /\ p % MIN_BLOCK = 0
      /\ left = p - b.at /\ left \in Nat /\ left % MIN_BLOCK = 0
      /\ right \in Nat /\ right % MIN_BLOCK = 0
      /\ left = 0 \/ left >= MIN_BLOCK
      /\ right = 0 \/ right >= MIN_BLOCK
  BY Cut
<1>2. e \in Nat /\ e >= MIN_BLOCK /\ e % MIN_BLOCK = 0
  BY EffectiveSize
<1>3. /\ b.at \in Nat /\ b.size \in Nat /\ MIN_BLOCK \in Nat \ {0}
      /\ b.at % MIN_BLOCK = 0
  BY HeapAssumption DEF Blocks, Quantum
<1>4. r = (IF right >= MIN_BLOCK THEN <<Block(b.at + need, right)>> ELSE <<>>)
            \o (IF left >= MIN_BLOCK THEN <<Block(b.at, left)>> ELSE <<>>)
  BY DEF remainders
<1> DEFINE R == Block(b.at + need, right)
           L == Block(b.at, left)
<1> HIDE DEF p, e, left, r
<1>5. /\ b.at + need = p + e /\ b.at + need \in Nat
      /\ b.at + b.size = p + e + right
  <2>1. /\ b.at \in Nat /\ b.size \in Nat /\ p \in Nat /\ e \in Nat /\ left \in Nat
        /\ left = p - b.at
    BY <1>1, <1>2, <1>3
  <2> QED
    BY <2>1
<1> HIDE DEF right, need
<1>6. (p + e) % MIN_BLOCK = 0
  BY <1>1, <1>2, <1>3, MultipleSum
<1>7. /\ R \in Blocks /\ R.at = p + e /\ R.size = right
      /\ L \in Blocks /\ L.at = b.at /\ L.size = left
  BY <1>1, <1>3, <1>5 DEF Block, Blocks
<1>8. /\ right >= MIN_BLOCK => Quantum(R)
      /\ left >= MIN_BLOCK => Quantum(L)
  BY <1>1, <1>3, <1>6, <1>7 DEF Quantum
<1> HIDE DEF R, L
<1>9. /\ r \in Seq(Blocks)
      /\ \A k \in 1..Len(r) : (r[k] = R /\ right >= MIN_BLOCK) \/ (r[k] = L /\ left >= MIN_BLOCK)
      /\ \A j, k \in 1..Len(r) : j # k => {r[j], r[k]} = {R, L}
      /\ right >= MIN_BLOCK => \E k \in 1..Len(r) : r[k] = R
      /\ left >= MIN_BLOCK => \E k \in 1..Len(r) : r[k] = L
  <2>1. CASE right >= MIN_BLOCK /\ left >= MIN_BLOCK
    <3>1. r = <<R, L>>
      <4>1. r = <<R>> \o <<L>>
        BY <1>4, <2>1 DEF R, L
      <4> HIDE DEF R, L
      <4>2. R \in Blocks /\ L \in Blocks
        BY <1>7
      <4> QED
        BY <4>1, <4>2, Pair
    <3> QED
      BY <1>7, <2>1, <3>1
  <2>2. CASE right >= MIN_BLOCK /\ ~(left >= MIN_BLOCK)
    <3>1. r = <<R>>
      BY <1>4, <2>2 DEF R
    <3> QED
      BY <1>7, <2>2, <3>1
  <2>3. CASE ~(right >= MIN_BLOCK) /\ left >= MIN_BLOCK
    <3>1. r = <<L>>
      BY <1>4, <2>3 DEF L
    <3> QED
      BY <1>7, <2>3, <3>1
  <2>4. CASE ~(right >= MIN_BLOCK) /\ ~(left >= MIN_BLOCK)
    <3>1. r = <<>>
      BY <1>4, <2>4
    <3> QED
      BY <2>4, <3>1
  <2> QED
    BY <2>1, <2>2, <2>3, <2>4
<1> DEFINE given == Bytes(p, e)
           all == Bytes(b.at, b.size)
           rb == Bytes(R.at, R.size)
           lb == Bytes(L.at, L.size)
<1>10. /\ rb \cap lb = {} /\ rb \cap given = {} /\ lb \cap given = {}
       /\ rb \subseteq all /\ lb \subseteq all /\ given \subseteq all
       /\ all \subseteq given \cup rb \cup lb
  BY <1>1, <1>2, <1>3, <1>5, <1>7 DEF Bytes
<1>11. /\ \A x \in rb : right >= MIN_BLOCK
       /\ \A x \in lb : left >= MIN_BLOCK
  BY <1>1, <1>2, <1>3, <1>5, <1>7 DEF Bytes
<1> HIDE DEF given, all
<1>12. ASSUME NEW j \in 1..Len(r), NEW k \in 1..Len(r), j # k
       PROVE  Bytes(r[j].at, r[j].size) \cap Bytes(r[k].at, r[k].size) = {}
  BY <1>9, <1>10, <1>12
<1>13. ASSUME NEW k \in 1..Len(r)
       PROVE  /\ Bytes(r[k].at, r[k].size) \cap given = {}
              /\ Bytes(r[k].at, r[k].size) \subseteq all
  BY <1>9, <1>10
<1>14. ASSUME NEW x \in all
       PROVE  x \in given \/ \E k \in 1..Len(r) : x \in Bytes(r[k].at, r[k].size)
  BY <1>9, <1>10, <1>11
<1>15. \A k \in 1..Len(r) : Quantum(r[k])
  BY <1>8, <1>9
<1> QED
  BY <1>9, <1>10, <1>12, <1>13, <1>14, <1>15 DEF given, all, p, e, r

(* The laws of the heap, told of what is on it: the bytes of a block. *)
Of(b) == Bytes(b.at, b.size)

(* alloc: first fit, the remainders taking the block's place.              *)
LEMMA AllocKeeps ==
  ASSUME HeapInv, booted, booted' = booted, NEW l \in Layouts, NEW i \in DOMAIN list,
         Fits(list[i], l)
  PROVE  /\ list' = SubSeq(list, 1, i - 1) \o remainders(list[i], l)
                      \o SubSeq(list, i + 1, Len(list))
         /\ live' = live \cup {[at |-> payload(list[i], l), layout |-> l]}
         => HeapInv'
<1>0. SUFFICES ASSUME list' = SubSeq(list, 1, i - 1) \o remainders(list[i], l)
                                \o SubSeq(list, i + 1, Len(list)),
                      live' = live \cup {[at |-> payload(list[i], l), layout |-> l]}
               PROVE  HeapInv'
  OBVIOUS
<1> DEFINE b == list[i]
           r == remainders(b, l)
           new == [at |-> payload(b, l), layout |-> l]
           given == Bytes(payload(b, l), effective_size(l))
<1>1. /\ list \in Seq(Blocks) /\ i \in 1..Len(list) /\ DOMAIN list = 1..Len(list)
      /\ b \in Blocks /\ Quantum(b)
  BY DEF HeapInv, HeapTyped, HeapQuanta
<1>2. /\ r \in Seq(Blocks)
      /\ \A k \in 1..Len(r) : Quantum(r[k])
      /\ \A j, k \in 1..Len(r) : j # k => Of(r[j]) \cap Of(r[k]) = {}
      /\ \A k \in 1..Len(r) : Of(r[k]) \cap given = {} /\ Of(r[k]) \subseteq Of(b)
      /\ given \subseteq Of(b)
      /\ \A x \in Of(b) : x \in given \/ \E k \in 1..Len(r) : x \in Of(r[k])
  BY <1>1, Pieces DEF Of
<1>3. /\ new \in [at : Nat, layout : Layouts] /\ LiveBytes(new) = given
      /\ new.at % MIN_BLOCK = 0 /\ new.at % l.align = 0 /\ new.layout = l
  BY <1>1, Cut DEF LiveBytes
<1> HIDE DEF r, new, given
<1>4. list' = Splice(list, i, r) /\ list' \in Seq(Blocks)
  <2>1. list' = Splice(list, i, r)
    BY <1>0 DEF r, Splice
  <2>2. Places(Blocks, list, i, r, Splice(list, i, r))
    BY <1>1, <1>2, Spliced
  <2> QED
    BY <2>1, <2>2 DEF Places
<1>5. Sources(list, i, r, list')
  <2>1. r \in Seq(Blocks)
    BY <1>2
  <2> QED
    BY <1>1, <1>4, <2>1, Origins
<1>6. /\ \A j, k \in 1..Len(list) : j # k => Of(list[j]) \cap Of(list[k]) = {}
      /\ \A a, c \in live : a # c => LiveBytes(a) \cap LiveBytes(c) = {}
      /\ \A j \in 1..Len(list), a \in live : Of(list[j]) \cap LiveBytes(a) = {}
  BY <1>1 DEF HeapInv, Apart, FreeBytes, Of
<1>7. live' = live \cup {new}
  BY <1>0 DEF new
<1>8. ASSUME NEW p \in DOMAIN list', NEW q \in DOMAIN list', p # q
      PROVE  Of(list'[p]) \cap Of(list'[q]) = {}
  <2>1. ASSUME NEW j \in 1..Len(r), NEW k \in 1..Len(list), k # i
        PROVE  Of(r[j]) \cap Of(list[k]) = {}
    BY <1>1, <1>2, <1>6, <2>1
  <2>2. \/ \E j, k \in 1..Len(r) : j # k /\ list'[p] = r[j] /\ list'[q] = r[k]
        \/ \E j \in 1..Len(r), k \in 1..Len(list) :
             k # i /\ list'[p] = r[j] /\ list'[q] = list[k]
        \/ \E j \in 1..Len(list), k \in 1..Len(r) :
             j # i /\ list'[p] = list[j] /\ list'[q] = r[k]
        \/ \E j, k \in 1..Len(list) : j # k /\ list'[p] = list[j] /\ list'[q] = list[k]
    BY <1>5, <1>8 DEF Sources
  <2>3. CASE \E j, k \in 1..Len(r) : j # k /\ list'[p] = r[j] /\ list'[q] = r[k]
    BY <1>2, <2>3
  <2>4. CASE \E j \in 1..Len(r), k \in 1..Len(list) :
               k # i /\ list'[p] = r[j] /\ list'[q] = list[k]
    BY <2>1, <2>4
  <2>5. CASE \E j \in 1..Len(list), k \in 1..Len(r) :
               j # i /\ list'[p] = list[j] /\ list'[q] = r[k]
    BY <2>1, <2>5
  <2>6. CASE \E j, k \in 1..Len(list) : j # k /\ list'[p] = list[j] /\ list'[q] = list[k]
    BY <1>6, <2>6
  <2> QED
    BY <2>2, <2>3, <2>4, <2>5, <2>6
<1>9. ASSUME NEW p \in DOMAIN list'  PROVE Quantum(list'[p])
  BY <1>1, <1>2, <1>5 DEF HeapInv, HeapQuanta, Sources
<1>10. ASSUME NEW p \in DOMAIN list'
       PROVE  Of(list'[p]) \cap given = {} /\ \A a \in live : Of(list'[p]) \cap LiveBytes(a) = {}
  BY <1>1, <1>2, <1>5, <1>6 DEF Sources
<1>11. \A a \in live : LiveBytes(a) \cap given = {}
  BY <1>1, <1>2, <1>6
<1>12. ASSUME NEW x
       PROVE  ((\E p \in DOMAIN list' : x \in Of(list'[p])) \/ (\E a \in live' : x \in LiveBytes(a)))
              <=> ((\E j \in DOMAIN list : x \in Of(list[j])) \/ (\E a \in live : x \in LiveBytes(a)))
  <2>1. ASSUME NEW p \in DOMAIN list', x \in Of(list'[p])
        PROVE  \E j \in DOMAIN list : x \in Of(list[j])
    BY <1>1, <1>2, <1>5, <2>1 DEF Sources
  <2>2. x \in given => x \in Of(b)
    BY <1>2
  <2>3. ASSUME NEW j \in DOMAIN list, x \in Of(list[j])
        PROVE  x \in given \/ \E p \in DOMAIN list' : x \in Of(list'[p])
    <3>1. CASE j = i
      BY <1>2, <1>5, <2>3, <3>1 DEF Sources
    <3>2. CASE j # i
      BY <1>1, <1>5, <2>3, <3>2 DEF Sources
    <3> QED
      BY <3>1, <3>2
  <2> QED
    BY <1>1, <1>3, <1>7, <2>1, <2>2, <2>3
<1>13. HeapTyped'
  BY <1>3, <1>4, <1>7 DEF HeapInv, HeapTyped
<1>14. HeapQuanta'
  BY <1>3, <1>7, <1>9 DEF HeapInv, HeapQuanta, Quantum
<1>15. Apart'
  BY <1>3, <1>6, <1>7, <1>8, <1>10, <1>11 DEF Apart, FreeBytes, LiveBytes, Of
<1>16. Covering'
  BY <1>12 DEF HeapInv, Covering, InHeap, FreeBytes, LiveBytes, Of
<1> QED
  BY <1>13, <1>14, <1>15, <1>16 DEF HeapInv

(* dealloc: the block goes back to the front of the list.                  *)
LEMMA DeallocKeeps ==
  ASSUME HeapInv, booted, booted' = booted, NEW a \in live, dealloc(a)
  PROVE  HeapInv'
<1> DEFINE b == Block(a.at, effective_size(a.layout))
<1>1. /\ list \in Seq(Blocks) /\ DOMAIN list = 1..Len(list) /\ Len(list) \in Nat
      /\ a.at \in Nat /\ a.layout \in Layouts
      /\ a.at % MIN_BLOCK = 0
  BY DEF HeapInv, HeapTyped, HeapQuanta
<1>2. b \in Blocks /\ Quantum(b) /\ Of(b) = LiveBytes(a)
  BY <1>1, EffectiveSize DEF Block, Blocks, Quantum, Of, LiveBytes
<1> HIDE DEF b
<1>3. list' = <<b>> \o list /\ live' = live \ {a}
  BY DEF dealloc, b
<1>4. /\ list' \in Seq(Blocks) /\ DOMAIN list' = 1..(Len(list) + 1)
      /\ list'[1] = b /\ \A p \in 2..(Len(list) + 1) : list'[p] = list[p - 1]
  BY <1>1, <1>2, <1>3
<1>5. /\ \A j, k \in 1..Len(list) : j # k => Of(list[j]) \cap Of(list[k]) = {}
      /\ \A c, d \in live : c # d => LiveBytes(c) \cap LiveBytes(d) = {}
      /\ \A j \in 1..Len(list), c \in live : Of(list[j]) \cap LiveBytes(c) = {}
      /\ \A j \in 1..Len(list) : Quantum(list[j])
  BY <1>1 DEF HeapInv, Apart, FreeBytes, Of, HeapQuanta
<1>6. ASSUME NEW p \in DOMAIN list'
      PROVE  (p = 1 /\ list'[p] = b) \/ (p - 1 \in 1..Len(list) /\ list'[p] = list[p - 1])
  BY <1>1, <1>4
<1>7. \A j \in 1..Len(list) : j + 1 \in DOMAIN list' /\ list'[j + 1] = list[j]
  BY <1>1, <1>4
<1>8. ASSUME NEW p \in DOMAIN list', NEW q \in DOMAIN list', p # q
      PROVE  Of(list'[p]) \cap Of(list'[q]) = {}
  <2>1. p - 1 # q - 1
    BY <1>1, <1>4, <1>8
  <2>2. CASE p = 1
    <3>1. q - 1 \in 1..Len(list) /\ list'[q] = list[q - 1] /\ list'[p] = b
      BY <1>6, <1>8, <2>2
    <3> QED
      BY <1>2, <1>5, <3>1
  <2>3. CASE q = 1
    <3>1. p - 1 \in 1..Len(list) /\ list'[p] = list[p - 1] /\ list'[q] = b
      BY <1>6, <1>8, <2>3
    <3> QED
      BY <1>2, <1>5, <3>1
  <2>4. CASE p # 1 /\ q # 1
    <3>1. /\ p - 1 \in 1..Len(list) /\ list'[p] = list[p - 1]
          /\ q - 1 \in 1..Len(list) /\ list'[q] = list[q - 1]
      BY <1>6, <2>4
    <3> QED
      BY <1>5, <2>1, <3>1
  <2> QED
    BY <2>2, <2>3, <2>4
<1>9. \A p \in DOMAIN list' : Quantum(list'[p])
  BY <1>2, <1>5, <1>6
<1>10. \A p \in DOMAIN list', c \in live' : Of(list'[p]) \cap LiveBytes(c) = {}
  BY <1>2, <1>3, <1>5, <1>6
<1>11. ASSUME NEW x
       PROVE  ((\E p \in DOMAIN list' : x \in Of(list'[p])) \/ (\E c \in live' : x \in LiveBytes(c)))
              <=> ((\E j \in DOMAIN list : x \in Of(list[j])) \/ (\E c \in live : x \in LiveBytes(c)))
  <2>1. ASSUME NEW p \in DOMAIN list', x \in Of(list'[p])
        PROVE  x \in LiveBytes(a) \/ \E j \in DOMAIN list : x \in Of(list[j])
    BY <1>1, <1>2, <1>6, <2>1
  <2>2. ASSUME NEW j \in DOMAIN list, x \in Of(list[j])
        PROVE  \E p \in DOMAIN list' : x \in Of(list'[p])
    BY <1>1, <1>7, <2>2
  <2>3. x \in LiveBytes(a) => \E p \in DOMAIN list' : x \in Of(list'[p])
    <3>1. 1 \in DOMAIN list' /\ list'[1] = b
      BY <1>1, <1>4
    <3> QED
      BY <1>2, <3>1
  <2> QED
    BY <1>3, <2>1, <2>2, <2>3
<1>12. HeapTyped'
  BY <1>3, <1>4 DEF HeapInv, HeapTyped
<1>13. HeapQuanta'
  BY <1>3, <1>9 DEF HeapInv, HeapQuanta, Quantum
<1>14. Apart'
  BY <1>3, <1>5, <1>8, <1>10 DEF Apart, FreeBytes, LiveBytes, Of
<1>15. Covering'
  BY <1>11 DEF HeapInv, Covering, InHeap, FreeBytes, LiveBytes, Of
<1> QED
  BY <1>12, <1>13, <1>14, <1>15 DEF HeapInv

(* The heap's laws hold in every reachable state. *)
LEMMA HeapAlways == MemorySpec => []HeapInv
<1>1. MemoryInit => HeapInv
  <2> SUFFICES ASSUME MemoryInit PROVE HeapInv
    OBVIOUS
  <2>1. list = <<>> /\ live = {} /\ booted = FALSE
    BY DEF MemoryInit, HeapInit
  <2>2. list \in Seq(Blocks) /\ DOMAIN list = {}
    BY <2>1
  <2> QED
    BY <2>1, <2>2 DEF HeapInv, HeapTyped, HeapQuanta, Apart, Covering
<1>2. HeapInv /\ [MemoryNext]_memoryVars => HeapInv'
  <2> SUFFICES ASSUME HeapInv, [MemoryNext]_memoryVars PROVE HeapInv'
    OBVIOUS
  <2>1. CASE UNCHANGED <<list, live, booted>>
    BY <2>1 DEF HeapInv, HeapTyped, HeapQuanta, Apart, Covering, InHeap, FreeBytes, LiveBytes
  <2>2. CASE PageTables \/ FrameCalls \/ UNCHANGED memoryVars
    BY <2>1, <2>2 DEF PageTables, FrameCalls, memoryVars, heapVars
  <2>3. CASE HeapComesUp
    <3> DEFINE b == Block(HEAP_BASE, HEAP_BYTES)
    <3>1. list' = <<b>> /\ live' = {} /\ booted' = TRUE
      BY <2>3 DEF HeapComesUp, heap_init, HeapInv, Covering
    <3>2. b \in Blocks /\ Quantum(b) /\ b.at = HEAP_BASE /\ b.size = HEAP_BYTES
      BY HeapAssumption DEF Block, Blocks, Quantum
    <3> HIDE DEF b
    <3>3. list' \in Seq(Blocks) /\ DOMAIN list' = {1} /\ list'[1] = b
      BY <3>1, <3>2
    <3> QED
      BY <3>1, <3>2, <3>3 DEF HeapInv, HeapTyped, HeapQuanta, Apart, Covering, InHeap,
                              FreeBytes, LiveBytes, Quantum
  <2>4. CASE HeapCalls
    <3>1. booted /\ booted' = booted
      BY <2>4 DEF HeapCalls
    <3>2. ASSUME NEW l \in Layouts, alloc(l)  PROVE HeapInv'
      <4>1. CASE UNCHANGED heapVars
        BY <2>1, <3>1, <4>1 DEF heapVars
      <4>2. CASE \E i \in DOMAIN list :
                   /\ Fits(list[i], l)
                   /\ list' = SubSeq(list, 1, i - 1) \o remainders(list[i], l)
                                \o SubSeq(list, i + 1, Len(list))
                   /\ live' = live \cup {[at |-> payload(list[i], l), layout |-> l]}
        BY <3>1, <4>2, AllocKeeps
      <4> QED
        BY <3>2, <4>1, <4>2 DEF alloc
    <3>3. ASSUME NEW a \in live, dealloc(a)  PROVE HeapInv'
      BY <3>1, <3>3, DeallocKeeps
    <3> QED
      BY <2>4, <3>2, <3>3 DEF HeapCalls
  <2> QED
    BY <2>2, <2>3, <2>4 DEF MemoryNext
<1> QED
  BY <1>1, <1>2, PTL DEF MemorySpec

(* Free blocks and live allocations tile the heap for any quantum, heap    *)
(* and layouts: nothing is handed out twice and no byte is lost.           *)
THEOREM HeapIsTiled == MemorySpec => []HeapTiled
<1>1. HeapInv => HeapTiled
  <2> SUFFICES ASSUME HeapInv PROVE HeapTiled
    OBVIOUS
  <2>1. ASSUME booted
        PROVE  (UNION {FreeBytes(i) : i \in DOMAIN list}) \cup (UNION {LiveBytes(a) : a \in live})
                 = Bytes(HEAP_BASE, HEAP_BYTES)
    <3>1. \A x : InHeap(x) <=> x \in Bytes(HEAP_BASE, HEAP_BYTES)
      BY <2>1 DEF HeapInv, Covering
    <3> QED
      BY <3>1 DEF InHeap
  <2> QED
    BY <2>1 DEF HeapInv, Apart, HeapTiled
<1> QED
  BY <1>1, HeapAlways, PTL

(* Every free block can hold its header, every caller gets memory as large *)
(* and as aligned as it asked (heap.rs).                                   *)
THEOREM BlocksHoldTheirHeader == MemorySpec => []BlocksRepresentable
<1>1. HeapInv => BlocksRepresentable
  <2> SUFFICES ASSUME HeapInv PROVE BlocksRepresentable
    OBVIOUS
  <2>1. \A a \in live : effective_size(a.layout) >= a.layout.size
    BY EffectiveSize DEF HeapInv, HeapTyped
  <2> QED
    BY <2>1 DEF HeapInv, HeapQuanta, Quantum, BlocksRepresentable
<1> QED
  BY <1>1, HeapAlways, PTL
=============================================================================
