----------------------------- MODULE RoundRobin -----------------------------
(***************************************************************************)
(* What src/sched/sched.c promises, without pointers, stacks or            *)
(* interrupts: the live tasks stand in a circular queue that starts at the *)
(* boot task.  A new task is queued right behind the boot task, the CPU    *)
(* only ever passes to the successor of the task that runs, and a task     *)
(* that exits hands the CPU to its successor and is never queued again.    *)
(***************************************************************************)
EXTENDS Naturals, Sequences, SequencesExt

CONSTANTS
  Task,   \* the addresses a task_t can have
  Boot    \* the task that sched_init creates

VARIABLES
  order,   \* the circular queue of live tasks, from Boot on
  running  \* the task that owns the CPU

vars == <<order, running>>

(* Where t stands in the circular queue, and the task after it. *)
Position(t) == CHOOSE i \in 1..Len(order) : order[i] = t
Successor(t) == order[(Position(t) % Len(order)) + 1]

Init == order = <<Boot>> /\ running = Boot

(* The boot task starts t.  An address may come back once its task exited. *)
Create(t) ==
  /\ running = Boot
  /\ ~ Contains(order, t)
  /\ order' = InsertAt(order, 2, t)
  /\ UNCHANGED running

(* The time slice of the running task ends, or it yields. *)
Rotate == running' = Successor(running) /\ UNCHANGED order

(* The running task ends. *)
Exit ==
  /\ running # Boot
  /\ running' = Successor(running)
  /\ order' = RemoveAt(order, Position(running))

Next == Rotate \/ Exit \/ \E t \in Task : Create(t)

Spec == Init /\ [][Next]_vars
=============================================================================
