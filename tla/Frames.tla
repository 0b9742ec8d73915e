------------------------------- MODULE Frames -------------------------------
(***************************************************************************)
(* The physical-frame allocator (nawa/core/src/mem.rs): a bitmap over the  *)
(* largest conventional region, the bitmap itself in the region's first    *)
(* frames, and a first-fit search that starts at a hint and wraps once.    *)
(* Frames are numbered from the start of the region.                       *)
(***************************************************************************)
EXTENDS Integers, FiniteSetsExt

CONSTANTS FRAMES,          \* frames managed
          BITMAP_FRAMES,   \* the first of them, which hold the bitmap
          Counts           \* frames asked for at once

ASSUME FramesAssumption ==
  /\ FRAMES \in Nat /\ BITMAP_FRAMES \in 0..FRAMES
  /\ Counts \subseteq Nat \ {0}

VARIABLES used,        \* the bitmap: frames marked used
          next_hint,
          extents,     \* history: [first, count] handed out and not returned
          refused      \* the count the last call could not satisfy, or 0

framesVars == <<used, next_hint, extents, refused>>

Extent == [first : Nat, count : Nat]
Span(e) == e.first..(e.first + e.count - 1)

FramesInit ==
  /\ used = 0..(BITMAP_FRAMES - 1)
  /\ next_hint = 0
  /\ extents = {}
  /\ refused = 0

(* Mutant: a run may end one frame into what is used. *)
Runs_OneShort(from, count) ==
  {s \in from..(FRAMES - count) : s..(s + count - 2) \cap used = {}}

(* Where a run of `count` free frames at or after `from` starts. *)
Runs(from, count) ==
  {s \in from..(FRAMES - count) : s..(s + count - 1) \cap used = {}}

(* Mutant: the search does not start over from the beginning. *)
search_from_NoWrap(count) == next_hint

(* The search starts at the hint, and at 0 if that finds nothing. *)
search_from(count) == IF Runs(next_hint, count) # {} THEN next_hint ELSE 0

allocate_frames(count) ==
  LET runs == Runs(search_from(count), count)
      first == Min(runs)
  IN  \/ /\ runs # {}
         /\ used' = used \cup (first..(first + count - 1))
         /\ next_hint' = first + count
         /\ extents' = extents \cup {[first |-> first, count |-> count]}
         /\ refused' = 0
      \/ /\ runs = {}
         /\ next_hint' = 0
         /\ refused' = count
         /\ UNCHANGED <<used, extents>>

(* An owner returns an extent.  Freeing what is not used panics. *)
free_frames(e) ==
  /\ Span(e) \subseteq used
  /\ used' = used \ Span(e)
  /\ extents' = extents \ {e}
  /\ refused' = 0
  /\ UNCHANGED next_hint
=============================================================================
