--------------------------- MODULE SchedRefinement ---------------------------
(***************************************************************************)
(* The linked list, the zombie slot and the context switch of Sched        *)
(* implement the circular queue of RoundRobin.                             *)
(***************************************************************************)
EXTENDS Sched

(* The node k pointers behind t. *)
Hop(t) == LET hop[k \in Nat] == IF k = 0 THEN t ELSE next[hop[k - 1]] IN hop

(* The queue is read off the list from head on. *)
RingOrder == LET hop == Hop(head) IN [k \in 1..Cardinality(Ring) |-> hop[k - 1]]

(* Between task_exit's list_remove and its schedule() the CPU is already   *)
(* promised to the successor.                                              *)
Running == IF state[current_task] = "DEAD" THEN next[current_task]
           ELSE current_task

Abstract == INSTANCE RoundRobin WITH order <- RingOrder, running <- Running

(* sched.h:16-20: every step of the scheduler is a step of the circular    *)
(* queue, or invisible to it.                                              *)
ImplementsRoundRobin == Abstract!Spec
=============================================================================
