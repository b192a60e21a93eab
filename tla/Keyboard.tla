------------------------------ MODULE Keyboard ------------------------------
(***************************************************************************)
(* The keyboard: the interrupt handler, the shell's key buffer and         *)
(* keyboard_getchar of src/drivers/keyboard.c, and the two loops of        *)
(* src/kernel/kernel.c that live on what the handler produces: kmain's     *)
(* read_line and cmd_events.                                               *)
(*                                                                         *)
(* The buffer has one writer (the handler) and one reader (the boot task)  *)
(* and no lock, so keyboard_getchar is taken apart at each access.  The    *)
(* event queue is used as the atomic queue that EventQueue implements.     *)
(*                                                                         *)
(* A scan code is a key and whether it is pressed or released.  What a     *)
(* command line says is left open: any line may be the command "events".   *)
(***************************************************************************)
EXTENDS Integers, Sequences

CONSTANTS
  KBD_BUF_SIZE,
  EVQ_CAPACITY,  \* events that fit into the event queue: EVQ_SIZE - 1
  MaxKeys        \* bound on the key presses

ASSUME KeyboardAssumption ==
  /\ KBD_BUF_SIZE \in Nat \ {0, 1}
  /\ EVQ_CAPACITY \in Nat \ {0}
  /\ MaxKeys \in Nat

VARIABLES
  shift_down, caps_lock,
  kbd_buf, kbd_head, kbd_tail,
  events,    \* the event queue, the oldest event first
  mode,      \* the loop the boot task is in
  pc,        \* and where in it
  c,         \* keyboard_getchar's local c
  got,       \* the last character that it returned
  held,      \* the keys that are held down (the keyboard's own state)
  id,        \* presses so far (history): the number of a press
  shown      \* the presses that cmd_events has taken (history)

vars == <<shift_down, caps_lock, kbd_buf, kbd_head, kbd_tail, events, mode,
          pc, c, got, held, id, shown>>

(* One key of each kind that the handler tells apart. *)
Letter == "a"
Shift == {"lshift", "rshift"}
Key == {Letter, "enter", "esc", "caps"} \cup Shift

Slot == 0..(KBD_BUF_SIZE - 1)
Inc(x) == (x + 1) % KBD_BUF_SIZE

(* scancode_ascii and scancode_ascii_shift: NUL for the keys that have no  *)
(* character.                                                              *)
NUL == "nul"
Ascii(key) == IF key \in Shift \cup {"caps"} THEN NUL ELSE key
AsciiShift(key) == IF key = Letter THEN "A" ELSE Ascii(key)

NoKey == [ch |-> NUL, id |-> 0]
Typed == [ch : {Letter, "A", "enter", "esc"}, id : 1..MaxKeys]
Event == [type : {"down", "up"}, key : Key, id : 0..MaxKeys]

Init ==
  /\ shift_down = FALSE /\ caps_lock = FALSE
  /\ kbd_buf = [s \in Slot |-> NoKey]
  /\ kbd_head = 0 /\ kbd_tail = 0
  /\ events = <<>>
  /\ mode = "line" /\ pc = "test"
  /\ c = NoKey /\ got = NoKey
  /\ held = {} /\ id = 0 /\ shown = {}

(***************************************************************************)
(* keyboard_handler.  It runs behind an interrupt gate, whenever the task  *)
(* has interrupts on, which it has at every position modelled here.        *)
(***************************************************************************)

(* Any interrupt ends a hlt; the loop it stands in goes round. *)
Wake == pc' = CASE pc = "halted" /\ mode = "events" -> "poll"
                [] pc = "halted" /\ mode # "events" -> "test"
                [] OTHER -> pc

(* event_push *)
EventPush(e) ==
  events' = Append(IF Len(events) = EVQ_CAPACITY THEN Tail(events) ELSE events, e)

(* The character of a key, once the modifiers are up to date. *)
CharOf(key, shift, caps) ==
  IF caps /\ key = Letter
  THEN IF caps # shift THEN AsciiShift(key) ELSE Ascii(key)
  ELSE IF shift THEN AsciiShift(key) ELSE Ascii(key)

BufPut_NoFullTest(ch) ==
  IF ch # NUL
  THEN /\ kbd_buf' = [kbd_buf EXCEPT ![kbd_head] = [ch |-> ch, id |-> id + 1]]
       /\ kbd_head' = Inc(kbd_head)
  ELSE UNCHANGED <<kbd_buf, kbd_head>>
BufPut(ch) ==
  IF ch # NUL /\ Inc(kbd_head) # kbd_tail
  THEN /\ kbd_buf' = [kbd_buf EXCEPT ![kbd_head] = [ch |-> ch, id |-> id + 1]]
       /\ kbd_head' = Inc(kbd_head)
  ELSE UNCHANGED <<kbd_buf, kbd_head>>

(* A key goes down, or repeats while it is held. *)
KeyDown(key) ==
  /\ id < MaxKeys
  /\ id' = id + 1
  /\ held' = held \cup {key}
  /\ shift_down' = (shift_down \/ key \in Shift)
  /\ caps_lock' = IF key = "caps" THEN ~ caps_lock ELSE caps_lock
  /\ BufPut(CharOf(key, shift_down', caps_lock'))
  /\ EventPush([type |-> "down", key |-> key, id |-> id'])
  /\ Wake
  /\ UNCHANGED <<kbd_tail, mode, c, got, shown>>

KeyUp_LeftOnly(key) ==
  /\ key \in held
  /\ held' = held \ {key}
  /\ shift_down' = (shift_down /\ key # "lshift")
  /\ EventPush([type |-> "up", key |-> key, id |-> 0])
  /\ Wake
  /\ UNCHANGED <<caps_lock, kbd_buf, kbd_head, kbd_tail, mode, c, got, id, shown>>
KeyUp(key) ==
  /\ key \in held
  /\ held' = held \ {key}
  /\ shift_down' = (shift_down /\ key \notin Shift)
  /\ EventPush([type |-> "up", key |-> key, id |-> 0])
  /\ Wake
  /\ UNCHANGED <<caps_lock, kbd_buf, kbd_head, kbd_tail, mode, c, got, id, shown>>

(* The 0xE0 prefix is skipped; the key that follows is taken for the one   *)
(* that has the same code without it.                                      *)
KeyPrefix ==
  /\ Wake
  /\ UNCHANGED <<shift_down, caps_lock, kbd_buf, kbd_head, kbd_tail, events,
                 mode, c, got, held, id, shown>>

(* irq0_timer, as far as this task sees it. *)
TimerTick_Masked == FALSE /\ UNCHANGED vars
TimerTick ==
  /\ pc = "halted"
  /\ Wake
  /\ UNCHANGED <<shift_down, caps_lock, kbd_buf, kbd_head, kbd_tail, events,
                 mode, c, got, held, id, shown>>

(***************************************************************************)
(* keyboard_getchar, called by read_line and by the end of cmd_events.     *)
(***************************************************************************)
GetcharTest ==
  /\ pc = "test"
  /\ pc' = IF kbd_head = kbd_tail THEN "hlt" ELSE "read"
  /\ UNCHANGED <<shift_down, caps_lock, kbd_buf, kbd_head, kbd_tail, events,
                 mode, c, got, held, id, shown>>

(* hlt, in keyboard_getchar and in cmd_events. *)
Hlt ==
  /\ pc = "hlt"
  /\ pc' = "halted"
  /\ UNCHANGED <<shift_down, caps_lock, kbd_buf, kbd_head, kbd_tail, events,
                 mode, c, got, held, id, shown>>

GetcharRead ==
  /\ pc = "read"
  /\ c' = kbd_buf[kbd_tail]
  /\ pc' = "advance"
  /\ UNCHANGED <<shift_down, caps_lock, kbd_buf, kbd_head, kbd_tail, events,
                 mode, got, held, id, shown>>

(* The buffer is advanced and the caller goes on with c: read_line ends at *)
(* a newline, and the line may be "events".                                *)
GetcharAdvance ==
  /\ pc = "advance"
  /\ kbd_tail' = Inc(kbd_tail)
  /\ got' = c
  /\ \/ mode = "line" /\ mode' = "line" /\ pc' = "test"
     \/ mode = "line" /\ c.ch = "enter" /\ mode' = "events" /\ pc' = "poll"
     \/ mode = "drain" /\ mode' = "drain" /\ pc' = "haskey"
  /\ UNCHANGED <<shift_down, caps_lock, kbd_buf, kbd_head, events, c, held,
                 id, shown>>

(***************************************************************************)
(* cmd_events: the loop over event_poll, and the loop that empties the key *)
(* buffer once ESC has come.                                               *)
(***************************************************************************)
PollEmpty ==
  /\ pc = "poll" /\ events = <<>>
  /\ pc' = "hlt"
  /\ UNCHANGED <<shift_down, caps_lock, kbd_buf, kbd_head, kbd_tail, events,
                 mode, c, got, held, id, shown>>

PollEvent_NoDrain ==
  /\ pc = "poll" /\ events # <<>>
  /\ LET e == Head(events)
     IN  /\ IF e.type = "down" /\ e.key = "esc"
            THEN mode' = "line" /\ pc' = "test"
            ELSE UNCHANGED <<mode, pc>>
         /\ shown' = shown \cup ({e.id} \ {0})
  /\ events' = Tail(events)
  /\ UNCHANGED <<shift_down, caps_lock, kbd_buf, kbd_head, kbd_tail, c, got,
                 held, id>>
PollEvent ==
  /\ pc = "poll" /\ events # <<>>
  /\ LET e == Head(events)
     IN  /\ IF e.type = "down" /\ e.key = "esc"
            THEN mode' = "drain" /\ pc' = "haskey"
            ELSE UNCHANGED <<mode, pc>>
         /\ shown' = shown \cup ({e.id} \ {0})
  /\ events' = Tail(events)
  /\ UNCHANGED <<shift_down, caps_lock, kbd_buf, kbd_head, kbd_tail, c, got,
                 held, id>>

Haskey ==
  /\ pc = "haskey"
  /\ pc' = "test"
  /\ mode' = IF kbd_head = kbd_tail THEN "line" ELSE "drain"
  /\ UNCHANGED <<shift_down, caps_lock, kbd_buf, kbd_head, kbd_tail, events,
                 c, got, held, id, shown>>

(***************************************************************************)
(* The specification.  The task goes on whenever it can, and the timer     *)
(* keeps ticking; nothing makes the user press a key.                      *)
(***************************************************************************)
Handler == KeyPrefix \/ \E key \in Key : KeyDown(key) \/ KeyUp(key)
BootTask == GetcharTest \/ Hlt \/ GetcharRead \/ GetcharAdvance
            \/ PollEmpty \/ PollEvent \/ Haskey
Next == Handler \/ TimerTick \/ BootTask

Spec == Init /\ [][Next]_vars
FairSpec == Spec /\ WF_vars(BootTask) /\ WF_vars(TimerTick)

-----------------------------------------------------------------------------
(* Every variable holds a value of its C type; the indices stay in the     *)
(* buffer.                                                                 *)
TypeOK ==
  /\ shift_down \in BOOLEAN /\ caps_lock \in BOOLEAN
  /\ kbd_buf \in [Slot -> Typed \cup {NoKey}]
  /\ kbd_head \in Slot /\ kbd_tail \in Slot
  /\ events \in Seq(Event) /\ Len(events) <= EVQ_CAPACITY
  /\ mode \in {"line", "events", "drain"}
  /\ pc \in {"test", "hlt", "halted", "read", "advance", "poll", "haskey"}
  /\ c \in Typed \cup {NoKey} /\ got \in Typed \cup {NoKey}
  /\ held \subseteq Key /\ id \in 0..MaxKeys /\ shown \subseteq 1..MaxKeys

(* shift_down is never stuck: it is set only while a shift key is held.    *)
NoStuckShift == shift_down => held \cap Shift # {}

(* kernel.c:199: a key that cmd_events has taken never turns up in a later *)
(* command line.                                                           *)
TakenKeysDoNotLeak ==
  [][GetcharAdvance /\ mode = "line" => c.id \notin shown]_vars

(* cmd_events' last keyboard_getchar calls never halt: keyboard_haskey has *)
(* seen a character that no one else takes.                                *)
DrainNeverWaits == mode = "drain" => pc \notin {"hlt", "halted"}

(* Whatever is typed, whoever reads it, and however the two interleave.     *)
KeyboardIsSound == TypeOK /\ NoStuckShift /\ DrainNeverWaits

(* From slot from to slot to, and the k-th slot behind from, round the end *)
(* of the buffer.                                                          *)
Distance(from, to) == IF to >= from THEN to - from ELSE to - from + KBD_BUF_SIZE
Behind(from, k) == IF from + k < KBD_BUF_SIZE THEN from + k
                   ELSE from + k - KBD_BUF_SIZE

(* The characters that wait, the oldest first.                             *)
Items(buf, from, to) ==
  [i \in 1..Distance(from, to) |-> buf[Behind(from, i - 1)]]
Pending == Items(kbd_buf, kbd_tail, kbd_head)

(* The buffer without a lock is a queue that drops what does not fit.      *)
Abstract == INSTANCE DropNewestQueue
              WITH queue <- Pending, Char <- Typed, NoChar <- NoKey,
                   Capacity <- KBD_BUF_SIZE - 1
ImplementsDropNewest == Abstract!Spec

(* A character in the buffer is taken, even if it came between the test    *)
(* and the hlt: the next timer tick ends the hlt.                          *)
TypedIsTaken ==
  \A k \in 1..MaxKeys :
    (mode = "line" /\ \E i \in DOMAIN Pending : Pending[i].id = k)
      ~> (got.id = k \/ mode # "line")

(* The same for an event that is pending while cmd_events runs, unless the *)
(* queue has dropped it.                                                   *)
EventIsTaken ==
  \A k \in 1..MaxKeys :
    (mode = "events" /\ \E i \in DOMAIN events : events[i].id = k)
      ~> (mode # "events" \/ \A i \in DOMAIN events : events[i].id # k)

-----------------------------------------------------------------------------
(***************************************************************************)
(* The inductive invariant behind the safety properties.                   *)
(***************************************************************************)

(* Which positions belong to which loop; and where a character is known to *)
(* wait.                                                                   *)
PositionInv ==
  /\ pc \in CASE mode = "line" -> {"test", "hlt", "halted", "read", "advance"}
               [] mode = "events" -> {"poll", "hlt", "halted"}
               [] OTHER -> {"haskey", "test", "read", "advance"}
  /\ pc \in {"read", "advance"} \/ (mode = "drain" /\ pc = "test") =>
       kbd_head # kbd_tail
  /\ pc = "advance" => c = kbd_buf[kbd_tail]

(* Presses are numbered as they come, and none that waits for a command    *)
(* line has been taken by cmd_events.                                      *)
PressInv ==
  /\ shown \subseteq 1..id
  /\ \A i \in 1..Len(events) : events[i].id <= id
  /\ mode = "line" => \A i \in 1..Len(Pending) : Pending[i].id \notin shown

(* The conjunction: it holds initially and every step keeps it             *)
(* (KeyboardProofs).                                                       *)
IInv == KeyboardIsSound /\ PositionInv /\ PressInv
=============================================================================
