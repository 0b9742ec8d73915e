------------------------------ MODULE MCMemory ------------------------------
(* Seven frames (a bitmap, a page table, the heap, four to hand out) and a *)
(* heap of twelve bytes in quanta of two, asked for layouts that need      *)
(* rounding and padding.                                                   *)
EXTENDS Memory

MCLayouts ==
  {[size |-> 1, align |-> 1], [size |-> 3, align |-> 2], [size |-> 4, align |-> 8]}
=============================================================================
