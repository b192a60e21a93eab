------------------------------ MODULE Threads ------------------------------
(***************************************************************************)
(* The command "threads": cmd_threads and demo_worker of                   *)
(* src/kernel/kernel.c and the sleep of src/cpu/timer.c, running on the    *)
(* scheduler.  Sched leaves open what a task does in its own code; here    *)
(* the boot task creates the workers and waits for them, and each worker   *)
(* writes a line and sleeps, again and again, and returns.                 *)
(*                                                                         *)
(* Time is kept as the ticks that are left until a sleep's target, so the  *)
(* counter ticks itself is not in the state.                               *)
(***************************************************************************)
EXTENDS Sched

CONSTANTS
  Workers,     \* the tasks the command creates: 3
  Rounds,      \* the lines a worker writes: 5
  Tries,       \* the times the command sleeps at most: 40
  WorkerTicks, \* sleep(150) at 100 Hz: 15
  WaitTicks    \* sleep(100) at 100 Hz: 10

ASSUME ThreadsAssumption ==
  /\ {Workers, Rounds, Tries, WorkerTicks, WaitTicks} \subseteq Nat \ {0}
  /\ MaxTid > Workers

VARIABLES
  at,    \* where each task is in its own code
  loops, \* the iterations its loop has left
  due,   \* the ticks until the target of its sleep
  lines  \* history: the lines the workers have written

own == <<at, loops, due, lines>>
all == <<vars, own>>

TInit ==
  /\ Init
  /\ at = [t \in Task |-> "create"]
  /\ loops = [t \in Task |-> Tries]
  /\ due = [t \in Task |-> 0]
  /\ lines = 0

(* The task on the CPU, which is t, is at p in its own code. *)
Here(t, p) == t = current_task /\ At("body") /\ at[t] = p

(***************************************************************************)
(* sleep: the test and the hlt, which any interrupt ends.                  *)
(***************************************************************************)
Sleep(t, n) ==
  /\ at' = [at EXCEPT ![t] = "while"]
  /\ due' = [due EXCEPT ![t] = n]

(* The end of the loop body that sleep is the last call of. *)
AfterSleep(t) == CASE t = Boot -> "test"
                   [] t # Boot /\ loops[t] > 1 -> "write"
                   [] OTHER -> "return"

SleepTest(t) ==
  /\ Here(t, "while")
  /\ \/ /\ due[t] > 0
        /\ at' = [at EXCEPT ![t] = "hlt"]
        /\ UNCHANGED loops
     \/ /\ due[t] = 0
        /\ at' = [at EXCEPT ![t] = AfterSleep(t)]
        /\ loops' = [loops EXCEPT ![t] = @ - 1]
  /\ UNCHANGED <<vars, due, lines>>

Woken == [at EXCEPT ![current_task] = IF @ = "hlt" THEN "while" ELSE @]

Tick_NoWake ==
  /\ TimerIrq
  /\ due' = [t \in Task |-> IF due[t] = 0 THEN 0 ELSE due[t] - 1]
  /\ UNCHANGED <<at, loops, lines>>
Tick ==
  /\ TimerIrq
  /\ at' = Woken
  /\ due' = [t \in Task |-> IF due[t] = 0 THEN 0 ELSE due[t] - 1]
  /\ UNCHANGED <<loops, lines>>

(* The keyboard's interrupt, or the mouse's. *)
OtherIrq ==
  /\ Here(current_task, "hlt")
  /\ at' = Woken
  /\ UNCHANGED <<vars, loops, due, lines>>

(***************************************************************************)
(* cmd_threads.                                                            *)
(***************************************************************************)
Begin == at[Boot] = "create" /\ CreateStruct /\ UNCHANGED own

(* The new task will start at the head of demo_worker's loop. *)
MakeWorker ==
  /\ CreateInit
  /\ at' = [at EXCEPT ![new] = "write"]
  /\ loops' = [loops EXCEPT ![new] = Rounds]
  /\ UNCHANGED <<due, lines>>

LinkWorker ==
  /\ CreateAdd
  /\ at' = [at EXCEPT ![Boot] = IF next_tid > Workers THEN "test" ELSE @]
  /\ UNCHANGED <<loops, due, lines>>

sched_task_count_Others == Cardinality(Ring) - 1
sched_task_count == Cardinality(Ring)

WaitTest ==
  /\ Here(Boot, "test")
  /\ IF loops[Boot] > 0 /\ sched_task_count > 1
     THEN Sleep(Boot, WaitTicks)
     ELSE at' = [at EXCEPT ![Boot] = "done"] /\ UNCHANGED due
  /\ UNCHANGED <<vars, loops, lines>>

(***************************************************************************)
(* demo_worker.                                                            *)
(***************************************************************************)
Write(t) ==
  /\ Here(t, "write")
  /\ lines' = lines + 1
  /\ Sleep(t, WorkerTicks)
  /\ UNCHANGED <<vars, loops>>

Return(t) == Here(t, "return") /\ TaskExit /\ UNCHANGED own

(***************************************************************************)
(* The specification.  A time slice is 10 ms, so a task that gets the CPU  *)
(* again and again executes its next instruction: strong fairness of what  *)
(* it does in its own code.                                                *)
(***************************************************************************)
Command == Begin \/ MakeWorker \/ LinkWorker \/ WaitTest
           \/ ((CreateStack \/ CreateFault) /\ UNCHANGED own)
OwnCode(t) == SleepTest(t) \/ Write(t) \/ Return(t)
Scheduler == Kernel /\ UNCHANGED own

TNext ==
  \/ Command \/ OtherIrq \/ Tick \/ Scheduler
  \/ (Halted /\ UNCHANGED own)
  \/ \E t \in Task : OwnCode(t)

TSpec == /\ TInit /\ [][TNext]_all
         /\ SF_all(Tick) /\ WF_all(Scheduler) /\ SF_all(Command)
         /\ \A t \in Task : SF_all(OwnCode(t))

-----------------------------------------------------------------------------
(* kernel.c:172: the command reports that the workers are gone, unless it  *)
(* gave up waiting, only when they have written all of their lines,        *)
(* wherever the ticks fell, and though structs of workers that returned    *)
(* early may have been used again for later ones.                          *)
ReportsAfterTheLastLine ==
  at[Boot] = "done" /\ loops[Boot] > 0 => lines = Workers * Rounds

(* Every sleep ends and every worker returns: in the end the boot task is  *)
(* past the command and alone, unless task_create ran out of memory.       *)
CommandEnds ==
  <>[](\/ at[Boot] = "done" /\ Ring = {Boot}
       \/ pc[Boot] = "fault")

-----------------------------------------------------------------------------
(***************************************************************************)
(* The inductive invariant behind ReportsAfterTheLastLine: a line that is  *)
(* not written yet is owed by a worker that has not returned, or by one    *)
(* that is not made yet.                                                   *)
(***************************************************************************)

(* The workers that task_create has made and that have not returned.       *)
Live == {t \in (heap \cap Task) \ {Boot} :
           state[t] # "DEAD" /\ (t = new => BootAt = "add")}

(* The lines that are still to be written, as (worker, number) pairs.      *)
Owes(t) == CASE at[t] = "write"  -> loops[t]
             [] at[t] = "return" -> 0
             [] OTHER            -> loops[t] - 1
Owed == {l \in Live \X (1..Rounds) : l[2] <= Owes(l[1])}

OwnPlace == {"create", "test", "while", "hlt", "done", "write", "return"}

(* The boot task makes all of its workers before it waits for them.        *)
CommandInv ==
  /\ at[Boot] \notin {"write", "return"}
  /\ at[Boot] = "create" => BootAt = "add" \/ next_tid <= Workers
  /\ at[Boot] # "create" => next_tid = Workers + 1 /\ BootAt \notin Making
  /\ at[Boot] \in {"while", "hlt"} => loops[Boot] > 0
  /\ at[Boot] = "done" /\ loops[Boot] > 0 => Ring = {Boot}

WorkerInv ==
  \A t \in Live : /\ at[t] \in {"write", "while", "hlt", "return"}
                  /\ loops[t] <= Rounds
                  /\ at[t] # "return" => loops[t] > 0

EveryLineIsOwed ==
  lines + Cardinality(Owed) + (Workers + 1 - next_tid) * Rounds = Workers * Rounds

ThreadsInv ==
  /\ IInv
  /\ at \in [Task -> OwnPlace] /\ loops \in [Task -> Nat] /\ lines \in Nat
  /\ next_tid <= Workers + 1
  /\ CommandInv /\ WorkerInv /\ EveryLineIsOwed
=============================================================================
