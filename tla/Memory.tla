------------------------------- MODULE Memory -------------------------------
(***************************************************************************)
(* Bring-up of memory (nawa/core/src/entry.rs) and what follows: the frame *)
(* allocator starts from the memory map, the page tables take theirs one   *)
(* by one, the heap takes its pages once, and from then on drivers ask for *)
(* frames while kernel code allocates on the heap.  The machine is assumed *)
(* to have memory enough for the heap; without it there is none.           *)
(***************************************************************************)
EXTENDS Frames, Heap

CONSTANTS HEAP_PAGES, PAGE_SIZE,
          TABLE_FRAMES,   \* what paging::init takes for the page tables
          MaxLive      \* bound on heap allocations live at once

ASSUME MemoryAssumption ==
  /\ HEAP_PAGES \in Nat \ {0} /\ PAGE_SIZE \in Nat \ {0} /\ MaxLive \in Nat
  /\ TABLE_FRAMES \in Nat /\ BITMAP_FRAMES + TABLE_FRAMES + HEAP_PAGES <= FRAMES
  /\ HEAP_BASE = (BITMAP_FRAMES + TABLE_FRAMES) * PAGE_SIZE
  /\ HEAP_BYTES = HEAP_PAGES * PAGE_SIZE

VARIABLE booted

memoryVars == <<framesVars, heapVars, booted>>

MemoryInit ==
  /\ FramesInit
  /\ HeapInit
  /\ booted = FALSE

(* paging::init, one frame after another. *)
PageTables ==
  /\ ~booted /\ Cardinality(extents) < TABLE_FRAMES
  /\ allocate_frames(1)
  /\ UNCHANGED <<heapVars, booted>>

(* heap::init: the next frames handed out become the heap. *)
HeapComesUp ==
  /\ ~booted /\ Cardinality(extents) = TABLE_FRAMES
  /\ booted' = TRUE
  /\ allocate_frames(HEAP_PAGES)
  /\ heap_init

HeapExtent == [first |-> HEAP_BASE \div PAGE_SIZE, count |-> HEAP_PAGES]

(* Drivers; what the page tables and the heap hold is never returned. *)
Returnable == {e \in extents : e.first >= HeapExtent.first + HeapExtent.count}

FrameCalls ==
  /\ booted
  /\ \/ \E count \in Counts : allocate_frames(count)
     \/ \E e \in Returnable : free_frames(e)
  /\ UNCHANGED <<heapVars, booted>>

HeapCalls ==
  /\ booted
  /\ \/ \E l \in Layouts : Cardinality(live) < MaxLive /\ alloc(l)
     \/ \E a \in live : dealloc(a)
  /\ UNCHANGED <<framesVars, booted>>

MemoryNext == PageTables \/ HeapComesUp \/ FrameCalls \/ HeapCalls

MemorySpec == MemoryInit /\ [][MemoryNext]_memoryVars

-----------------------------------------------------------------------------
(* A frame is handed to one owner only, never the bitmap's, the heap keeps *)
(* the frames its addresses lie in, and the bitmap says exactly what is    *)
(* handed out.                                                             *)
FramesOwnedOnce ==
  /\ \A d, e \in extents : d # e => Span(d) \cap Span(e) = {}
  /\ \A e \in extents : Span(e) \cap 0..(BITMAP_FRAMES - 1) = {}
  /\ booted => HeapExtent \in extents
  /\ used = 0..(BITMAP_FRAMES - 1) \cup UNION {Span(e) : e \in extents}

(* Frames are refused only if there is no run of that many free frames     *)
(* anywhere, wherever the hint has got to (mem.rs 100-104).                 *)
RefusedMeansFull == refused # 0 => Runs(0, refused) = {}

Bytes(at, size) == at..(at + size - 1)
FreeBytes(i) == Bytes(list[i].at, list[i].size)
LiveBytes(a) == Bytes(a.at, effective_size(a.layout))

(* Free blocks and live allocations tile the heap: no byte is in two of    *)
(* them and none is lost, however the heap has been cut up and returned    *)
(* ("no unrepresentable gaps, no leaked slivers", heap.rs 49-53).          *)
HeapTiled ==
  /\ \A i, j \in DOMAIN list : i # j => FreeBytes(i) \cap FreeBytes(j) = {}
  /\ \A a, b \in live : a # b => LiveBytes(a) \cap LiveBytes(b) = {}
  /\ \A i \in DOMAIN list, a \in live : FreeBytes(i) \cap LiveBytes(a) = {}
  /\ booted => (UNION {FreeBytes(i) : i \in DOMAIN list}) \cup (UNION {LiveBytes(a) : a \in live})
                 = Bytes(HEAP_BASE, HEAP_BYTES)

(* Every block can hold its header, and every caller got memory aligned as *)
(* asked and large enough.                                                 *)
BlocksRepresentable ==
  /\ \A i \in DOMAIN list : list[i].at % MIN_BLOCK = 0 /\ list[i].size >= MIN_BLOCK
  /\ \A a \in live : a.at % a.layout.align = 0 /\ effective_size(a.layout) >= a.layout.size
=============================================================================
