-------------------------------- MODULE Boot --------------------------------
(***************************************************************************)
(* Boot and interrupt delivery: kmain of src/kernel/kernel.c with the      *)
(* gates of src/cpu/idt.c and src/cpu/exceptions.c, the two interrupt      *)
(* controllers as src/cpu/pic.c uses them, and panic of src/cpu/panic.c.   *)
(*                                                                         *)
(* kmain runs with interrupts off up to its sti, while devices may raise   *)
(* lines and the CPU may meet an exception.  After it, a handler runs from *)
(* its acceptance to its iretq with interrupts off.  What the parts and    *)
(* the handlers do is in the other modules: here it matters what has to be *)
(* there before they run.  The dialogue with the 8042 that keyboard_init   *)
(* and mouse_init hold is that of Ps2Init.                                 *)
(***************************************************************************)
EXTENDS Ps2Init, FiniteSets, FiniteSetsExt

CONSTANTS
  Line,    \* the lines that devices raise
  Fault,   \* the exceptions that can happen
  MaxIrqs  \* bound: how often lines are raised

ASSUME BootAssumption ==
  /\ Line \subseteq 0..15 /\ 2 \notin Line
  /\ Fault \subseteq 0..31
  /\ MaxIrqs \in Nat

VARIABLES
  stage,   \* how far kmain has come
  ready,   \* the parts that are initialised
  gate,    \* the IDT: vector -> handler
  loaded,  \* lidt was executed
  offset,  \* the vector of each controller's first line
  mask,    \* lines that are masked
  irr,     \* lines that await service
  isr,     \* lines in service
  period,  \* of the PIT, in its clock's ticks
  IFlag,   \* RFLAGS.IF
  running, \* what runs: "kmain", or a handler
  cause,   \* the exception that stopped the machine, or -1
  raised   \* how often lines were raised

kernel == <<stage, ready, gate, loaded, offset, mask, irr, isr, period, IFlag,
            running, cause, raised>>
all == <<ps2, kernel>>
pic == <<offset, mask, irr, isr>>
cpu == <<IFlag, running, cause>>

All == 0..15

(* Limine masks the controllers and hands over with interrupts off; gfx    *)
(* was initialised by _start.                                              *)
BInit ==
  /\ PInit
  /\ stage = 1 /\ ready = {"gfx"}
  /\ gate = [v \in {} |-> 0] /\ loaded = FALSE
  /\ offset = <<8, 112>> /\ mask = All /\ irr = {} /\ isr = {}
  /\ period = 0
  /\ IFlag = FALSE /\ running = "kmain" /\ cause = -1
  /\ raised = 0

(***************************************************************************)
(* Gates.  A handler is what it does and whether it was compiled to pop an *)
(* error code.                                                             *)
(***************************************************************************)
SetGates(g) == gate' = [v \in DOMAIN gate \cup DOMAIN g |->
                          IF v \in DOMAIN g THEN g[v] ELSE gate[v]]
Gate(v, does) == [x \in {v} |-> [does |-> does, err |-> FALSE]]

(* The EXC_ERR lines of exceptions.c; and the exceptions for which the CPU *)
(* pushes an error code.                                                   *)
EXC_ERR == {8, 10, 11, 12, 13, 14, 17, 21, 29, 30}
PushesError(v) == v \in {8, 17, 21, 29, 30} \cup 10..14

exceptions_install ==
  [v \in 0..31 |-> [does |-> "panic", err |-> v \in EXC_ERR]]

idt_init ==
  /\ SetGates([exceptions_install EXCEPT ![14].does = "page_fault"])
  /\ loaded' = TRUE
  /\ UNCHANGED <<pic, period, IFlag>>

(***************************************************************************)
(* The controllers: the second one hangs on line 2 of the first.           *)
(***************************************************************************)
(* ICW1 also forgets what was pending; the last writes mask all lines.     *)
pic_remap ==
  /\ offset' = <<32, 40>>
  /\ mask' = All /\ irr' = {} /\ isr' = {}
  /\ UNCHANGED <<gate, loaded, period, IFlag>>

Vector(l) == IF l < 8 THEN offset[1] + l ELSE offset[2] + l - 8
Chip(l) == IF l < 8 THEN 0..7 ELSE 8..15

(* An end of interrupt ends the service of the chip's most urgent line.    *)
Eoi(S, chip) == IF S \cap chip = {} THEN S ELSE S \ {Min(S \cap chip)}
pic_send_eoi_MasterOnly(l) == isr' = Eoi(isr, 0..7)
pic_send_eoi(l) ==
  isr' = Eoi(IF l >= 8 THEN Eoi(isr, 8..15) ELSE isr, 0..7)

(* A line gets through unless it is masked, or the cascade is, or a line   *)
(* of its chip that is as urgent is in service.                            *)
Blocked(l) == l \in mask \/ \E m \in isr \cap Chip(l) : m <= l
Delivers(l) == l \in irr /\ ~ Blocked(l) /\ (l >= 8 => ~ Blocked(2))
Urgency(l) == IF l < 8 THEN 10 * l ELSE 20 + l - 8

(***************************************************************************)
(* kmain.                                                                  *)
(***************************************************************************)
Install(v, does, lines) ==
  /\ SetGates(Gate(v, does))
  /\ mask' = mask \ lines
  /\ UNCHANGED <<loaded, offset, irr, isr, period, IFlag>>

(* The PIT gets the divisor in two bytes.                                  *)
PIT_FREQUENCY == 1193182
pit_init(frequency) ==
  LET divisor == PIT_FREQUENCY \div frequency
  IN  /\ period' = (divisor % 256) + 256 * ((divisor \div 256) % 256)
      /\ UNCHANGED <<gate, loaded, pic, IFlag>>

Sti == IFlag' = TRUE /\ UNCHANGED <<gate, loaded, pic, period>>
Plain == UNCHANGED <<gate, loaded, pic, period, IFlag>>

Kmain_StiBeforeEvents ==
  <<"idt", "pic", "pit", "timer", "keyboard", "mouse", "pmm", "vmm", "heap",
    "backbuffer", "sti", "event", "sched", "serial", "shell">>
Kmain ==
  <<"idt", "pic", "pit", "timer", "keyboard", "mouse", "pmm", "vmm", "heap",
    "backbuffer", "event", "sched", "serial", "sti", "shell">>

MouseStage == CHOOSE i \in DOMAIN Kmain : Kmain[i] = "mouse"

(* What each part, and each handler, calls.                                *)
Uses == [code \in {Kmain[i] : i \in DOMAIN Kmain}
                  \cup {"irq0_timer", "keyboard_handler", "mouse_irq", "panic"} |->
  CASE code = "vmm" -> {"pmm"}
    [] code = "heap" -> {"pmm", "vmm"}
    [] code \in {"backbuffer", "sched"} -> {"heap"}
    [] code \in {"timer", "keyboard", "mouse"} -> {"pic"}
    [] code = "shell" -> {"gfx", "keyboard", "heap", "sched", "serial"}
    [] code = "irq0_timer" -> {"pit", "sched"}
    [] code \in {"keyboard_handler", "mouse_irq"} -> {"event"}
    [] code = "panic" -> {"gfx"}
    [] OTHER -> {}]

Running(part) == running = "kmain" /\ cause = -1 /\ Kmain[stage] = part

(* The polling in keyboard_init, which is the first flush, and mouse_init. *)
Setup ==
  /\ (Running("keyboard") /\ pos = 1) \/ Running("mouse")
  /\ Driver
  /\ UNCHANGED kernel

(* The rest of the call that kmain is at.  mouse_init's locals are gone    *)
(* then.                                                                   *)
Step ==
  LET part == Kmain[stage]
  IN  /\ Running(part) /\ stage < Len(Kmain)
      /\ part = "keyboard" => pos = 2
      /\ part = "mouse" => ScriptDone
      /\ CASE part = "idt" -> idt_init
           [] part = "pic" -> pic_remap
           [] part = "pit" -> pit_init(100)
           [] part = "timer" -> Install(32, "irq0_timer", {0})
           [] part = "keyboard" -> Install(33, "keyboard_handler", {1})
           [] part = "mouse" -> Install(44, "mouse_irq", {2, 12})
           [] part = "sti" -> Sti
           [] OTHER -> Plain
      /\ ready' = ready \cup {part}
      /\ stage' = stage + 1
      /\ status' = {} /\ answers' = <<>>
      /\ UNCHANGED <<pos, input, output, queues, devices, running, cause, raised>>

(***************************************************************************)
(* Devices and the CPU.                                                    *)
(***************************************************************************)
(* The controller raises line 1 and line 12 if the command byte says so.   *)
Raise(l) ==
  /\ raised < MaxIrqs /\ cause = -1
  /\ l = 0 => period > 0
  /\ l = 1 => 0 \in cmdbyte
  /\ l = 12 => 1 \in cmdbyte
  /\ raised' = raised + 1
  /\ irr' = irr \cup {l}
  /\ UNCHANGED <<ps2, stage, ready, gate, loaded, offset, mask, isr, period, cpu>>

(* The 8042 and the user, while the machine runs and set-up is not over.   *)
Device ==
  /\ cause = -1 /\ stage <= MouseStage
  /\ Controller \/ Press
  /\ UNCHANGED kernel

(* Vector v is handled.  A vector without a gate is exception 11.          *)
Enter(v) ==
  LET u == IF v \in DOMAIN gate THEN v ELSE 11
  IN  /\ running' = gate[u].does
      /\ IFlag' = FALSE
      /\ cause' = IF gate[u].does \in {"panic", "page_fault"} THEN u ELSE cause

Accept(l) ==
  /\ IFlag /\ cause = -1
  /\ Delivers(l) /\ \A m \in Line : Delivers(m) => Urgency(l) <= Urgency(m)
  /\ irr' = irr \ {l}
  /\ isr' = isr \cup {l} \cup (IF l >= 8 THEN {2} ELSE {})
  /\ Enter(Vector(l))
  /\ UNCHANGED <<ps2, stage, ready, gate, loaded, offset, mask, period, raised>>

(* The handler of line l acknowledges and returns.                         *)
LineOf == [irq0_timer |-> 0, keyboard_handler |-> 1, mouse_irq |-> 12]
Return ==
  /\ running \in DOMAIN LineOf
  /\ pic_send_eoi(LineOf[running])
  /\ running' = "kmain" /\ IFlag' = TRUE
  /\ UNCHANGED <<ps2, stage, ready, gate, loaded, offset, mask, irr, period,
                 cause, raised>>

(* An exception, in kmain, in a command of the shell or in a handler.      *)
Exception(v) ==
  /\ loaded /\ cause = -1
  /\ Enter(v)
  /\ UNCHANGED <<ps2, stage, ready, gate, loaded, pic, period, raised>>

(* panic and page_fault: cli; hlt, for ever.                               *)
Stopped == cause # -1 /\ UNCHANGED all

BNext ==
  \/ Setup \/ Step \/ Return
  \/ Device
  \/ \E l \in Line : Raise(l) \/ Accept(l)
  \/ \E v \in Fault : Exception(v)
  \/ Stopped

(* kmain, the handlers and the 8042 go on, and the CPU takes what is       *)
(* delivered.  Nobody has to press a key.                                  *)
BSpec == /\ BInit /\ [][BNext]_all
         /\ WF_all(Setup) /\ WF_all(Step) /\ WF_all(Return)
         /\ WF_all(Controller /\ Device)
         /\ WF_all(\E l \in Line : Accept(l))

-----------------------------------------------------------------------------
(* Whatever runs, whenever it runs, finds what it uses initialised; no     *)
(* interrupt comes to a vector without a gate; every gate's handler pops   *)
(* an error code exactly if the CPU pushes one; and the PIT ticks at       *)
(* 100 Hz once there is a handler.                                         *)
CodeFindsWhatItUses ==
  /\ Uses[Kmain[stage]] \subseteq ready
  /\ running \in DOMAIN Uses => Uses[running] \subseteq ready
  /\ cause # -1 => cause \in Fault
  /\ \A v \in DOMAIN gate : gate[v].err <=> PushesError(v)
  /\ 32 \in DOMAIN gate => PIT_FREQUENCY \div period = 100

(* Every line that is raised and that boot opens is served, those of the   *)
(* second controller too: no line is left in service to block it.          *)
EveryIrqIsServed ==
  \A l \in Line \cap {0, 1, 12} : (l \in irr) ~> (l \notin irr \/ cause # -1)

(* When mouse_init is through, and no key was pressed meanwhile, what was  *)
(* in the output buffer before has done no harm: the command byte is the   *)
(* firmware's but for the two bits, and a mouse that is there reports and  *)
(* has given all of its answers.                                           *)
UndisturbedSetupWorks ==
  Kmain[stage] = "mouse" /\ ScriptDone /\ keys = 0 =>
    /\ cmdbyte = Intended /\ ~ UnderWay
    /\ present => reports /\ Tail(answers) = <<ACK, ACK>>

(* With no mouse to answer, whatever keys are pressed and whatever         *)
(* interrupts come, boot reaches the shell, unless an exception stops it.  *)
BootReachesTheShell == <>(cause # -1 \/ Kmain[stage] = "shell")

-----------------------------------------------------------------------------
(***************************************************************************)
(* The inductive invariant: what kmain's calls up to stage have left, and  *)
(* how far the dialogue may be.                                            *)
(***************************************************************************)
Through(n) == stage > n

PartsInv ==
  /\ stage \in DOMAIN Kmain
  /\ ready = {"gfx"} \cup {Kmain[i] : i \in 1..stage-1}
  /\ Through(3) => period = 11931

GatesInv ==
  /\ loaded <=> Through(1)
  /\ DOMAIN gate = UNION { IF Through(1) THEN 0..31 ELSE {},
                           IF Through(4) THEN {32} ELSE {},
                           IF Through(5) THEN {33} ELSE {},
                           IF Through(6) THEN {44} ELSE {} }
  /\ \A v \in DOMAIN gate :
       /\ gate[v].err <=> PushesError(v)
       /\ v \in 0..31 => gate[v].does \in {"panic", "page_fault"}
       /\ v = 32 => gate[v].does = "irq0_timer"
       /\ v = 33 => gate[v].does = "keyboard_handler"
       /\ v = 44 => gate[v].does = "mouse_irq"

LinesInv ==
  /\ Through(2) => offset = <<32, 40>>
  /\ All \ {0, 1, 2, 12} \subseteq mask

CpuInv ==
  /\ IFlag => Through(14)
  /\ cause = -1 => \/ running = "kmain"
                   \/ running \in DOMAIN LineOf /\ Through(14)
  /\ cause # -1 => cause \in Fault /\ running \in {"panic", "page_fault"}

PlaceInv ==
  /\ pos \in 1..14
  /\ stage < 5 => pos = 1
  /\ stage = 5 => pos <= 2
  /\ stage = 6 => pos >= 2
  /\ stage > 6 => pos = 14

BootInv ==
  /\ PartsInv /\ GatesInv /\ LinesInv /\ CpuInv /\ PlaceInv /\ keys \in Nat
  /\ keys = 0 => DialogueInv /\ (stage <= MouseStage => LocalsInv)
=============================================================================
