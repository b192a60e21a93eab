------------------------------ MODULE MCSched ------------------------------
(* Instances of Sched for TLC. *)
EXTENDS SchedRefinement, TLC

(* The addresses of structs, and those of stacks, are interchangeable.     *)
Symmetry == Permutations(Task \ {Boot}) \cup Permutations(Stack)
=============================================================================
