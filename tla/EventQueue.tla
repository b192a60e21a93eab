----------------------------- MODULE EventQueue -----------------------------
(***************************************************************************)
(* The input event queue: src/kernel/event.c.  event_push runs in the      *)
(* keyboard's and the mouse's interrupt handlers, behind interrupt gates,  *)
(* so it is one step that needs IF = 1; event_poll and event_pending run   *)
(* in a task and are taken apart at every access to shared memory.         *)
(***************************************************************************)
EXTENDS Integers, Sequences

CONSTANTS
  Event,     \* the event_t values the handlers push
  NoEvent,   \* the all-zero event_t (EV_NONE)
  EVQ_SIZE

ASSUME EventQueueAssumption ==
  /\ EVQ_SIZE \in Nat \ {0, 1}
  /\ NoEvent \notin Event

VARIABLES
  q, q_head, q_tail,
  pc,        \* where the task is: in no call, or inside one
  IFlag,     \* RFLAGS.IF
  flags,     \* event_poll's local f
  out,       \* the event_t event_poll fills
  ret,       \* event_poll's return value, once it is decided
  head,      \* event_pending: the q_head it read
  answer,    \* event_pending's return value
  pushed     \* pushes since that read, counted up to EVQ_SIZE (history)

vars == <<q, q_head, q_tail, pc, IFlag, flags, out, ret, head, answer, pushed>>

Slot == 0..(EVQ_SIZE - 1)

(* (x + 1) & EVQ_MASK, as EVQ_SIZE is a power of two in event.c.           *)
Inc(x) == (x + 1) % EVQ_SIZE

(* event_init, before the sti of kmain.                                    *)
Init ==
  /\ q = [s \in Slot |-> NoEvent]
  /\ q_head = 0 /\ q_tail = 0
  /\ pc = "idle"
  /\ IFlag = TRUE
  /\ flags = TRUE
  /\ out = NoEvent /\ ret = 0
  /\ head = 0 /\ answer = 0 /\ pushed = 0

(***************************************************************************)
(* event_push.                                                             *)
(***************************************************************************)
Push(e) ==
  /\ IFlag
  /\ q_tail' = IF Inc(q_head) = q_tail THEN Inc(q_tail) ELSE q_tail
  /\ q' = [q EXCEPT ![q_head] = e]
  /\ q_head' = Inc(q_head)
  /\ pushed' = IF pushed < EVQ_SIZE THEN pushed + 1 ELSE pushed
  /\ UNCHANGED <<pc, IFlag, flags, out, ret, head, answer>>

(***************************************************************************)
(* event_poll: irq_save, the empty test, the copy, the step of q_tail,     *)
(* irq_restore.                                                            *)
(***************************************************************************)
PollSave_Unlocked ==
  /\ pc = "idle"
  /\ flags' = IFlag
  /\ pc' = "test"
  /\ UNCHANGED <<q, q_head, q_tail, IFlag, out, ret, head, answer, pushed>>
PollSave ==
  /\ pc = "idle"
  /\ flags' = IFlag
  /\ IFlag' = FALSE
  /\ pc' = "test"
  /\ UNCHANGED <<q, q_head, q_tail, out, ret, head, answer, pushed>>

PollTest ==
  /\ pc = "test"
  /\ \/ q_tail = q_head /\ ret' = 0 /\ pc' = "restore"
     \/ q_tail # q_head /\ pc' = "read" /\ UNCHANGED ret
  /\ UNCHANGED <<q, q_head, q_tail, IFlag, flags, out, head, answer, pushed>>

PollRead ==
  /\ pc = "read"
  /\ out' = q[q_tail]
  /\ ret' = 1
  /\ pc' = "advance"
  /\ UNCHANGED <<q, q_head, q_tail, IFlag, flags, head, answer, pushed>>

PollAdvance ==
  /\ pc = "advance"
  /\ q_tail' = Inc(q_tail)
  /\ pc' = "restore"
  /\ UNCHANGED <<q, q_head, IFlag, flags, out, ret, head, answer, pushed>>

PollRestore ==
  /\ pc = "restore"
  /\ IFlag' = flags
  /\ pc' = "idle"
  /\ UNCHANGED <<q, q_head, q_tail, flags, out, ret, head, answer, pushed>>

(***************************************************************************)
(* event_pending: two reads, and interrupts may come between them.         *)
(***************************************************************************)
PendingHead ==
  /\ pc = "idle"
  /\ head' = q_head
  /\ pushed' = 0
  /\ pc' = IF q_head = q_tail THEN "tail_empty" ELSE "tail"
  /\ UNCHANGED <<q, q_head, q_tail, IFlag, flags, out, ret, answer>>

PendingTail_NoWrap ==
  /\ pc \in {"tail", "tail_empty"}
  /\ answer' = IF head > q_tail THEN 1 ELSE 0
  /\ pc' = "idle"
  /\ UNCHANGED <<q, q_head, q_tail, IFlag, flags, out, ret, head, pushed>>
PendingTail ==
  /\ pc \in {"tail", "tail_empty"}
  /\ answer' = IF head # q_tail THEN 1 ELSE 0
  /\ pc' = "idle"
  /\ UNCHANGED <<q, q_head, q_tail, IFlag, flags, out, ret, head, pushed>>

Poll == PollSave \/ PollTest \/ PollRead \/ PollAdvance \/ PollRestore
Pending == PendingHead \/ PendingTail
Next == Poll \/ Pending \/ \E e \in Event : Push(e)

Spec == Init /\ [][Next]_vars

-----------------------------------------------------------------------------
(* The distance from one index of the ring to another, and the index k     *)
(* places behind one.                                                      *)
Distance(from, to) == IF to >= from THEN to - from ELSE to - from + EVQ_SIZE
Behind(from, k) == IF from + k < EVQ_SIZE THEN from + k
                   ELSE from + k - EVQ_SIZE

(* The events between two indices of the ring, the oldest first.           *)
Items(buf, from, to) ==
  [i \in 1..Distance(from, to) |-> buf[Behind(from, i - 1)]]

(* event_poll has taken its event once it has copied it.                   *)
Oldest == IF pc = "advance" THEN Inc(q_tail) ELSE q_tail
Contents == Items(q, Oldest, q_head)

(* Every variable holds a value of its C type; the indices stay in q.      *)
TypeOK ==
  /\ q \in [Slot -> Event \cup {NoEvent}]
  /\ q_head \in Slot /\ q_tail \in Slot
  /\ pc \in {"idle", "test", "read", "advance", "restore", "tail", "tail_empty"}
  /\ IFlag \in BOOLEAN
  /\ flags \in BOOLEAN
  /\ out \in Event \cup {NoEvent}
  /\ ret \in 0..1
  /\ head \in Slot
  /\ answer \in 0..1
  /\ pushed \in 0..EVQ_SIZE

(* event_poll never hands out a slot that no handler has filled.           *)
OnlyPushedEvents ==
  /\ \A k \in 1..Distance(q_tail, q_head) : q[Behind(q_tail, k - 1)] \in Event
  /\ ret = 1 => out \in Event

(* event_pending answers 0 only if the queue was empty when it looked at   *)
(* q_head, or if EVQ_SIZE - 1 events arrived before it looked at q_tail    *)
(* (they push q_tail all the way round); it answers 1 only if the queue is *)
(* not empty then.                                                         *)
PendingIsHonest ==
  [][PendingTail =>
       /\ answer' = 0 => pc = "tail_empty" \/ pushed >= EVQ_SIZE - 1
       /\ answer' = 1 => q_head # q_tail]_vars

(* event.h promises a queue that loses only the oldest event when full.    *)
Abstract == INSTANCE DropOldestQueue
              WITH queue <- Contents, Capacity <- EVQ_SIZE - 1
ImplementsDropOldest == Abstract!Spec

-----------------------------------------------------------------------------
(* The inductive invariant behind the properties: event_poll's critical    *)
(* section runs with interrupts off, and event_pending lags behind q_head  *)
(* by the pushes it has not seen.                                          *)
IInv ==
  /\ TypeOK
  /\ OnlyPushedEvents
  /\ flags
  /\ IFlag <=> pc \in {"idle", "tail", "tail_empty"}
  /\ pc \in {"read", "advance"} => q_tail # q_head
  /\ pc \in {"tail", "tail_empty"} /\ pushed > 0 => q_tail # q_head
  /\ pc \in {"tail", "tail_empty"} /\ pushed < EVQ_SIZE - 1 =>
       /\ q_head = Behind(head, pushed)
       /\ pc = "tail" => head # q_tail /\ pushed < Distance(q_tail, q_head)
       /\ pc = "tail_empty" => head = q_tail
=============================================================================
