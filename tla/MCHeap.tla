------------------------------- MODULE MCHeap -------------------------------
(* Heap for TLC: addresses are interchangeable, and so are the tasks that are not
   the main script's. *)
EXTENDS Heap, TLC

Symmetry == Permutations(Objects) \cup Permutations(Tasks \ {Main})
=============================================================================
