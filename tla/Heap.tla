-------------------------------- MODULE Heap --------------------------------
(***************************************************************************)
(* The kernel heap (nawa/core/src/heap.rs): a first-fit free list over one *)
(* run of frames.  A block's header lives in the free memory itself, so    *)
(* every block must be able to hold one: all sizes are multiples of        *)
(* MIN_BLOCK.  Freed blocks go to the front of the list and are not        *)
(* merged.  The list's lock is held for the whole of each call.            *)
(***************************************************************************)
EXTENDS Integers, Sequences, SequencesExt

CONSTANTS MIN_BLOCK,    \* size of a FreeBlock (16)
          HEAP_BASE, HEAP_BYTES,
          Layouts       \* [size, align] asked for

(* The base is page-aligned, alignments are powers of two. *)
ASSUME HeapAssumption ==
  /\ MIN_BLOCK \in Nat \ {0} /\ HEAP_BASE \in Nat /\ HEAP_BYTES \in Nat
  /\ HEAP_BASE % MIN_BLOCK = 0 /\ HEAP_BYTES % MIN_BLOCK = 0 /\ HEAP_BYTES >= MIN_BLOCK
  /\ Layouts \subseteq [size : Nat, align : Nat \ {0}]
  /\ \A l \in Layouts : l.align % MIN_BLOCK = 0 \/ MIN_BLOCK % l.align = 0

VARIABLES list,   \* the free list, head first: blocks [at, size]
          live    \* history: allocations not yet freed, [at, layout]

heapVars == <<list, live>>

Block(at, size) == [at |-> at, size |-> size]

(* No heap until its pages are there; then one block. *)
HeapInit == list = <<>> /\ live = {}
heap_init == list' = <<Block(HEAP_BASE, HEAP_BYTES)>> /\ UNCHANGED live

next_multiple_of(n, m) == IF n % m = 0 THEN n ELSE n + (m - (n % m))
max(x, y) == IF x >= y THEN x ELSE y

(* Mutant: sizes are not rounded up to the quantum. *)
effective_size_Raw(layout) == max(layout.size, MIN_BLOCK)

effective_size(layout) == next_multiple_of(max(layout.size, MIN_BLOCK), MIN_BLOCK)
effective_align(layout) == max(layout.align, MIN_BLOCK)

(* Mutant: the block's own address is handed out, whatever the alignment. *)
payload_Unaligned(block, layout) == block.at

(* The first address of the block that is aligned as asked. *)
payload(block, layout) == next_multiple_of(block.at, effective_align(layout))
padding(block, layout) == payload(block, layout) - block.at

Fits(block, layout) ==
  /\ padding(block, layout) = 0 \/ padding(block, layout) >= MIN_BLOCK
  /\ block.size >= padding(block, layout) + effective_size(layout)

(* Mutant: the left padding is dropped. *)
remainders_LosePadding(block, layout) ==
  LET need == padding(block, layout) + effective_size(layout)
  IN  IF block.size - need >= MIN_BLOCK
        THEN <<Block(block.at + need, block.size - need)>> ELSE <<>>

(* What stays free of a block an allocation is cut from: right remainder,  *)
(* then left padding, in the order they are linked.                        *)
remainders(block, layout) ==
  LET left == padding(block, layout)
      need == left + effective_size(layout)
      right == block.size - need
  IN  (IF right >= MIN_BLOCK THEN <<Block(block.at + need, right)>> ELSE <<>>)
        \o (IF left >= MIN_BLOCK THEN <<Block(block.at, left)>> ELSE <<>>)

(* First fit: the remainders take the block's place in the list. *)
alloc(layout) ==
  LET fitting == {i \in DOMAIN list : Fits(list[i], layout)}
  IN  \/ /\ fitting = {}           \* null
         /\ UNCHANGED heapVars
      \/ \E i \in fitting :
           /\ \A j \in fitting : i <= j
           /\ list' = SubSeq(list, 1, i - 1) \o remainders(list[i], layout)
                        \o SubSeq(list, i + 1, Len(list))
           /\ live' = live \cup {[at |-> payload(list[i], layout), layout |-> layout]}

(* The caller hands back what it got, with the layout it asked for. *)
dealloc(a) ==
  /\ list' = <<Block(a.at, effective_size(a.layout))>> \o list
  /\ live' = live \ {a}
=============================================================================
