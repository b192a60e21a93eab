------------------------------- MODULE MCHeap -------------------------------
(* Instances of Heap for TLC. *)
EXTENDS Heap, StringsTest, TLC

(* The callers are interchangeable. *)
Symmetry == Permutations(Task)
=============================================================================
