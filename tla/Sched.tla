-------------------------------- MODULE Sched --------------------------------
(***************************************************************************)
(* The preemptive scheduler: src/sched/sched.c, the context switch and the *)
(* trampoline of src/cpu/switch.asm, and the timer interrupt of            *)
(* src/cpu/timer.c that drives it.                                         *)
(*                                                                         *)
(* There is one CPU.  Code that runs with interrupts off cannot be         *)
(* interleaved with anything, so an action is a stretch of code between    *)
(* two points where the interrupt flag, the interrupt controller or the    *)
(* stack changes hands.  pc[t] is where task t is; for a task that does    *)
(* not own the CPU it is the return address on its kernel stack, so pc     *)
(* stands for t->rsp and the frame it points to.  saved[t] is the pair     *)
(* (rip, IF) that an interrupt frame or irq_save left on that stack.       *)
(*                                                                         *)
(* task_t.id is written and never read, so only next_tid is kept.          *)
(***************************************************************************)
EXTENDS Integers, FiniteSets

CONSTANTS
  Task,    \* the addresses kmalloc can return for a task_t
  Stack,   \* the addresses kmalloc can return for KSTACK_SIZE bytes
  Boot,    \* the task_t of the boot task
  NULL,    \* the null pointer
  MaxTid   \* bound: task_create stops once next_tid reaches it

ASSUME SchedAssumption ==
  /\ Boot \in Task
  /\ NULL \notin Task \cup Stack
  /\ Task \cap Stack = {}
  /\ MaxTid \in Nat \ {0}

VARIABLES
  current_task, \* the task that owns the CPU
  state,        \* task_t.state
  next,         \* task_t.next
  stack_base,   \* task_t.stack_base
  pc,           \* where each task is (see above)
  saved,        \* the (rip, IF) pair saved on each task's stack
  zombie,       \* the exited task whose memory the next schedule frees
  next_tid,     \* the number of tasks created
  heap,         \* the objects kmalloc has handed out
  new,          \* task_create's local t
  newstack,     \* task_create's local stack
  IFlag,        \* RFLAGS.IF
  inService     \* the interrupt controller awaits an EOI for IRQ 0

vars == <<current_task, state, next, stack_base, pc, saved, zombie, next_tid,
          heap, new, newstack, IFlag, inService>>

(* head never changes after sched_init. *)
head == Boot

(***************************************************************************)
(* Code positions.  A task is interruptible in its own code ("body") and   *)
(* between the calls of task_create; everywhere else IF is 0.              *)
(***************************************************************************)
OpenLabel == {"body", "stack", "init", "add"}
ShutLabel == {"irq0", "tick", "iret", "yield", "restore", "exit", "hang",
              "trampoline", "fault"}
Label == OpenLabel \cup ShutLabel

(* What schedule() returns into, for each of its callers. *)
Caller == {"tick", "yield", "exit"}
ReturnOf(caller) == CASE caller = "tick"  -> "iret"
                      [] caller = "yield" -> "restore"
                      [] OTHER            -> "hang"

TaskState == {"READY", "RUNNING", "DEAD"}

(***************************************************************************)
(* The circular list.                                                      *)
(***************************************************************************)

(* The task_t structs that are linked: allocated, not dead, and past the   *)
(* list_add of task_create.                                                *)
Ring == {t \in heap \cap Task : state[t] # "DEAD" /\ t # new}

(* list_remove's search: the linked node that points to t. *)
Predecessor(t) == CHOOSE p \in Ring : next[p] = t

(* schedule's search for the task to run: the first node after prev that   *)
(* is not dead, or prev itself once the search is back there.              *)
SkipDead(prev) ==
  LET walk[k \in Nat] ==
        IF k = 0 THEN next[prev]
        ELSE LET n == walk[k - 1]
             IN  IF state[n] = "DEAD" /\ n # prev THEN next[n] ELSE n
  IN  walk[Cardinality(Task)]
NextReady(prev) ==
  IF state[next[prev]] # "DEAD" THEN next[prev] ELSE SkipDead(prev)

(***************************************************************************)
(* sched_init, the first code that touches the list.  Interrupts are       *)
(* enabled right after it, so the initial state has IF = 1.  The boot      *)
(* task's stack is the one Limine provided: it is not on the heap.         *)
(***************************************************************************)
Init ==
  /\ current_task = Boot
  /\ state = [t \in Task |-> IF t = Boot THEN "RUNNING" ELSE "DEAD"]
  /\ next = [t \in Task |-> Boot]
  /\ stack_base = [t \in Task |-> NULL]
  /\ pc = [t \in Task |-> "body"]
  /\ saved = [t \in Task |-> [at |-> "body", flag |-> TRUE]]
  /\ zombie = NULL
  /\ next_tid = 1
  /\ heap = {Boot}
  /\ new = NULL
  /\ newstack = NULL
  /\ IFlag = TRUE
  /\ inService = FALSE

(* The task that owns the CPU goes from one position to another. *)
At(l) == pc[current_task] = l
Goto(l) == pc' = [pc EXCEPT ![current_task] = l]

(***************************************************************************)
(* The heap, as the scheduler sees it: kmalloc returns an object that is   *)
(* not in use, or NULL when there is none.  kmalloc and kfree run with     *)
(* interrupts off.                                                         *)
(***************************************************************************)
Kmalloc(S, p) ==
  /\ p \in IF S \subseteq heap THEN {NULL} ELSE S \ heap
  /\ heap' = heap \cup ({p} \ {NULL})

(***************************************************************************)
(* task_create, called by the boot task (cmd_threads).                     *)
(***************************************************************************)
CreateStruct ==
  /\ current_task = Boot /\ At("body") /\ next_tid < MaxTid
  /\ \E p \in Task \cup {NULL} : Kmalloc(Task, p) /\ new' = p
  /\ Goto("stack")
  /\ UNCHANGED <<current_task, state, next, stack_base, saved, zombie,
                 next_tid, newstack, IFlag, inService>>

CreateStack ==
  /\ At("stack")
  /\ \E p \in Stack \cup {NULL} : Kmalloc(Stack, p) /\ newstack' = p
  /\ Goto("init")
  /\ UNCHANGED <<current_task, state, next, stack_base, saved, zombie,
                 next_tid, new, IFlag, inService>>

(* The stack of the new task is made to return into task_trampoline. *)
CreateInit ==
  /\ At("init")
  /\ new # NULL /\ newstack # NULL
  /\ stack_base' = [stack_base EXCEPT ![new] = newstack]
  /\ state' = [state EXCEPT ![new] = "READY"]
  /\ pc' = [pc EXCEPT ![new] = "trampoline", ![current_task] = "add"]
  /\ next_tid' = next_tid + 1
  /\ UNCHANGED <<current_task, next, saved, zombie, heap, new, newstack,
                 IFlag, inService>>

(* Neither kmalloc is checked: a write through NULL ends in page_fault. *)
CreateFault ==
  /\ At("init")
  /\ new = NULL \/ newstack = NULL
  /\ Goto("fault")
  /\ IFlag' = FALSE
  /\ UNCHANGED <<current_task, state, next, stack_base, saved, zombie,
                 next_tid, heap, new, newstack, inService>>

(* page_fault: cli; hlt, for ever. *)
Halted == At("fault") /\ UNCHANGED vars

ListAdd_Backwards(t) ==
  next' = [next EXCEPT ![t] = head, ![head] = t]
ListAdd(t) ==
  next' = [next EXCEPT ![t] = next[head], ![head] = t]

CreateAdd ==
  /\ At("add")
  /\ ListAdd(new)
  /\ new' = NULL /\ newstack' = NULL
  /\ Goto("body")
  /\ UNCHANGED <<current_task, state, stack_base, saved, zombie, next_tid,
                 heap, IFlag, inService>>

(***************************************************************************)
(* irq0_timer.  The controller raises IRQ 0 again only after an EOI.       *)
(***************************************************************************)
TimerIrq ==
  /\ IFlag /\ ~ inService
  /\ saved' = [saved EXCEPT ![current_task] =
                 [at |-> pc[current_task], flag |-> IFlag]]
  /\ Goto("irq0")
  /\ IFlag' = FALSE
  /\ inService' = TRUE
  /\ UNCHANGED <<current_task, state, next, stack_base, zombie, next_tid,
                 heap, new, newstack>>

TimerEoi_Forgotten ==
  /\ At("irq0")
  /\ Goto("tick")
  /\ UNCHANGED <<current_task, state, next, stack_base, saved, zombie,
                 next_tid, heap, new, newstack, IFlag, inService>>
TimerEoi ==
  /\ At("irq0")
  /\ inService' = FALSE
  /\ Goto("tick")
  /\ UNCHANGED <<current_task, state, next, stack_base, saved, zombie,
                 next_tid, heap, new, newstack, IFlag>>

(* iretq, once schedule() has returned into irq0_timer. *)
TimerReturn ==
  /\ At("iret")
  /\ Goto(saved[current_task].at)
  /\ IFlag' = saved[current_task].flag
  /\ UNCHANGED <<current_task, state, next, stack_base, saved, zombie,
                 next_tid, heap, new, newstack, inService>>

(***************************************************************************)
(* task_yield.                                                             *)
(***************************************************************************)
TaskYield ==
  /\ At("body")
  /\ saved' = [saved EXCEPT ![current_task] = [at |-> "body", flag |-> IFlag]]
  /\ IFlag' = FALSE
  /\ Goto("yield")
  /\ UNCHANGED <<current_task, state, next, stack_base, zombie, next_tid,
                 heap, new, newstack, inService>>

YieldReturn ==
  /\ At("restore")
  /\ Goto(saved[current_task].at)
  /\ IFlag' = saved[current_task].flag
  /\ UNCHANGED <<current_task, state, next, stack_base, saved, zombie,
                 next_tid, heap, new, newstack, inService>>

(***************************************************************************)
(* task_trampoline: a fresh task starts with interrupts on.                *)
(***************************************************************************)
Trampoline_NoSti ==
  /\ At("trampoline")
  /\ Goto("body")
  /\ UNCHANGED <<current_task, state, next, stack_base, saved, zombie,
                 next_tid, heap, new, newstack, IFlag, inService>>
Trampoline ==
  /\ At("trampoline")
  /\ IFlag' = TRUE
  /\ Goto("body")
  /\ UNCHANGED <<current_task, state, next, stack_base, saved, zombie,
                 next_tid, heap, new, newstack, inService>>

(***************************************************************************)
(* task_exit, which the trampoline calls when the entry function returns.  *)
(* The boot task's kmain never returns.                                    *)
(***************************************************************************)
ListRemove_Forgotten(t) == UNCHANGED next
ListRemove(t) == next' = [next EXCEPT ![Predecessor(t)] = next[t]]

TaskExit ==
  /\ current_task # Boot /\ At("body")
  /\ IFlag' = FALSE
  /\ state' = [state EXCEPT ![current_task] = "DEAD"]
  /\ ListRemove(current_task)
  /\ zombie' = current_task
  /\ Goto("exit")
  /\ UNCHANGED <<current_task, stack_base, saved, next_tid, heap, new,
                 newstack, inService>>

(***************************************************************************)
(* schedule(), from any of its callers: reap the zombie, pick the next     *)
(* task, switch to its stack.                                              *)
(***************************************************************************)
Reap_OwnStack ==
  IF zombie # NULL
  THEN heap' = heap \ {zombie, stack_base[zombie]} /\ zombie' = NULL
  ELSE UNCHANGED <<heap, zombie>>
Reap_Never == UNCHANGED <<heap, zombie>>
Reap ==
  IF zombie # NULL /\ zombie # current_task
  THEN heap' = heap \ {zombie, stack_base[zombie]} /\ zombie' = NULL
  ELSE UNCHANGED <<heap, zombie>>

SwitchTo_Revives(nxt) ==
  IF nxt = current_task THEN UNCHANGED <<current_task, state>>
  ELSE /\ state' = [state EXCEPT ![current_task] = "READY", ![nxt] = "RUNNING"]
       /\ current_task' = nxt
SwitchTo(nxt) ==
  IF nxt = current_task THEN UNCHANGED <<current_task, state>>
  ELSE /\ state' = [state EXCEPT
                      ![current_task] = IF @ = "RUNNING" THEN "READY" ELSE @,
                      ![nxt] = "RUNNING"]
       /\ current_task' = nxt

Schedule ==
  /\ pc[current_task] \in Caller
  /\ Reap
  /\ SwitchTo(NextReady(current_task))
  /\ Goto(ReturnOf(pc[current_task]))
  /\ UNCHANGED <<next, stack_base, saved, next_tid, new, newstack, IFlag,
                 inService>>

(***************************************************************************)
(* The specification.  The PIC latches IRQ 0 and the CPU takes it as soon  *)
(* as IF is 1: strong fairness of TimerIrq.  Code with interrupts off runs *)
(* on: weak fairness.  Nothing makes a task yield, exit or create another. *)
(***************************************************************************)
Create == CreateStruct \/ CreateStack \/ CreateInit \/ CreateFault \/ CreateAdd
Timer == TimerIrq \/ TimerEoi \/ TimerReturn
Kernel == TimerEoi \/ TimerReturn \/ YieldReturn \/ Trampoline \/ Schedule

Next ==
  \/ Create \/ Halted
  \/ Timer
  \/ TaskYield \/ YieldReturn
  \/ Trampoline \/ TaskExit
  \/ Schedule

Spec == Init /\ [][Next]_vars
FairSpec == Spec /\ SF_vars(TimerIrq) /\ WF_vars(Kernel)

-----------------------------------------------------------------------------
(* Every variable holds a value of its C type.                             *)
TypeOK ==
  /\ current_task \in Task
  /\ state \in [Task -> TaskState]
  /\ next \in [Task -> Task]
  /\ stack_base \in [Task -> Stack \cup {NULL}]
  /\ pc \in [Task -> Label]
  /\ saved \in [Task -> [at : OpenLabel, flag : BOOLEAN]]
  /\ zombie \in Task \cup {NULL}
  /\ next_tid \in 1..MaxTid
  /\ heap \subseteq Task \cup Stack
  /\ new \in Task \cup {NULL}
  /\ newstack \in Stack \cup {NULL}
  /\ IFlag \in BOOLEAN
  /\ inService \in BOOLEAN

(* f lists the set R, from head on, in the order of the pointers nx, and   *)
(* the last node points back to head.                                      *)
IsCycle(R, nx, n, f) ==
  /\ f[0] = head
  /\ \A i, j \in 0..(n - 1) : f[i] = f[j] => i = j
  /\ \A t \in R : \E i \in 0..(n - 1) : f[i] = t
  /\ \A i \in 0..(n - 1) : nx[f[i]] = IF i = n - 1 THEN f[0] ELSE f[i + 1]

(* The pointers nx make R one cycle of n nodes.                            *)
Cycle(R, nx, n) == \E f \in [0..(n - 1) -> R] : IsCycle(R, nx, n, f)

(* The linked tasks form one cycle through head, so that list_remove's and *)
(* sched_task_count's loops end and schedule's loop can reach every task.  *)
RingIsOneCycle == \E n \in 1..MaxTid : Cycle(Ring, next, n)

(* Of the linked tasks exactly the one that owns the CPU is RUNNING.       *)
OneRunning == \A t \in Ring : state[t] = "RUNNING" <=> t = current_task

(* A task's stack is on the heap, or is Limine's.                          *)
OwnsStack(t) == IF t = Boot THEN stack_base[t] = NULL ELSE stack_base[t] \in heap

(* The scheduler never runs on, links or is about to free memory that was  *)
(* already given back to kfree.                                            *)
NoUseAfterFree ==
  /\ current_task \in heap /\ OwnsStack(current_task)
  /\ next[current_task] \in Ring
  /\ \A t \in Ring : next[t] \in Ring /\ OwnsStack(t)
  /\ zombie # NULL => zombie \in heap /\ OwnsStack(zombie)

(* Interrupts are on exactly in code that may be preempted, and every task *)
(* that waits for the CPU will turn them on again when it gets it: by      *)
(* iretq, by irq_restore or by the trampoline's sti.                       *)
InterruptDiscipline ==
  /\ IFlag <=> pc[current_task] \in OpenLabel
  /\ \A t \in Ring \ {current_task} :
       \/ pc[t] = "trampoline"
       \/ pc[t] \in {"iret", "restore"} /\ saved[t].flag

(* No switch happens with IRQ 0 unacknowledged: the next task would never  *)
(* be preempted.                                                           *)
EoiBeforeSwitch == inService => At("irq0")

(* Memory is freed only if it belonged to a task that has exited and whose *)
(* stack is not the one the CPU is on.                                     *)
FreesOnlyDead ==
  [][\A x \in heap \ heap' :
       \E t \in Task \ {current_task} :
         state[t] = "DEAD" /\ x \in {t, stack_base[t]}]_vars

(* An exited task stays dead, and never gets the CPU again, until its      *)
(* struct is given to another task.                                        *)
DeadStaysDead ==
  [][\A t \in (heap \cap heap' \cap Task) \ {new} :
       state[t] = "DEAD" =>
         /\ state'[t] = "DEAD"
         /\ current_task' = t => current_task = t]_vars

(* Every task that is ready gets the CPU, unless the boot task halts the   *)
(* kernel in page_fault, out of memory.                                    *)
EveryReadyTaskRuns ==
  \A t \in Task :
    (t \in Ring /\ state[t] = "READY") ~> (current_task = t \/ At("fault"))

(* The zombie slot is emptied again, with the same exception.              *)
ZombieIsReaped == (zombie # NULL) ~> (zombie = NULL \/ At("fault"))

(* sched.h:20 and the comment on demo_worker (kernel.c:146) say that the   *)
(* memory of an exited task is taken back later: until then it has to be   *)
(* in the zombie slot, which is all that schedule() looks at.              *)
ExitedTaskIsReclaimable ==
  \A t \in (heap \cap Task) \ {new} : state[t] = "DEAD" => t = zombie

-----------------------------------------------------------------------------
(***************************************************************************)
(* The inductive invariant behind the safety properties.                   *)
(***************************************************************************)

(* The tasks task_create has finished with, dead ones included.            *)
Made == (heap \cap Task) \ {new}

(* Where the boot task is in its own code, off the CPU or not.             *)
BootAt == IF pc[Boot] \in {"irq0", "tick", "iret", "yield", "restore"}
          THEN saved[Boot].at ELSE pc[Boot]
Making == {"stack", "init", "add", "fault"}

(* Each task has a stack of its own on the heap, the boot task has none.   *)
StackInv ==
  /\ Boot \in Made /\ stack_base[Boot] = NULL
  /\ \A t \in Made \ {Boot} : stack_base[t] \in heap \cap Stack
  /\ \A t, u \in Made \ {Boot} : stack_base[t] = stack_base[u] => t = u
  /\ newstack # NULL =>
       newstack \in heap /\ \A t \in Made : stack_base[t] # newstack

(* The list is one cycle, no longer than the tasks that were linked.       *)
RingInv ==
  \E n \in 1..(IF BootAt = "add" THEN next_tid - 1 ELSE next_tid) :
    Cycle(Ring, next, n)

(* The CPU is with a linked task, or with the one that is exiting.         *)
CpuInv ==
  /\ current_task \in Made
  /\ OneRunning
  /\ state[current_task] = "DEAD" =>
       At("exit") /\ zombie = current_task /\ next[current_task] \in Ring
  /\ At("exit") => state[current_task] = "DEAD"

ZombieInv == zombie # NULL => zombie \in Made /\ state[zombie] = "DEAD"

(* task_create's locals, at each of its positions.                         *)
CreateInv ==
  /\ new # NULL => new \in heap /\ BootAt \in Making
  /\ newstack # NULL => BootAt \in Making \ {"stack"}
  /\ BootAt \in {"stack", "init"} => next_tid < MaxTid
  /\ BootAt = "add" =>
       /\ new # NULL /\ newstack # NULL
       /\ state[new] = "READY" /\ pc[new] = "trampoline"
       /\ stack_base[new] = newstack
  /\ \A t \in Task \ {Boot} : pc[t] \notin Making /\ saved[t].at = "body"

IntInv ==
  /\ InterruptDiscipline
  /\ EoiBeforeSwitch
  /\ \A t \in Task : saved[t].flag

(* The conjunction of the above: it holds initially and every step keeps   *)
(* it (SchedProofs).                                                       *)
IInv == /\ TypeOK /\ StackInv /\ RingInv /\ CpuInv /\ ZombieInv
        /\ CreateInv /\ IntInv
=============================================================================
