----------------------------- MODULE MCTimeHeap -----------------------------
(* Five timers, with room for two or four at first.                        *)
EXTENDS TimeHeap, TLC

(* Timers differ in nothing but their names.                                *)
Symmetry == Permutations(Timers)
=============================================================================
