-------------------------------- MODULE Mouse --------------------------------
(***************************************************************************)
(* The PS/2 mouse: the interrupt handler of src/drivers/mouse.c, and the   *)
(* wire that feeds it.  The mouse sends a report as three bytes, one       *)
(* interrupt each; the handler puts them together again, moves the pointer *)
(* and pushes events.                                                      *)
(*                                                                         *)
(* A byte can get lost on the wire, and the acknowledgement that           *)
(* mouse_init gave up waiting for can still come: either is a glitch, and  *)
(* from then on the handler may take the wrong byte for the first one.     *)
(*                                                                         *)
(* The handler runs behind an interrupt gate and is one step.  A byte is   *)
(* its number.  The event queue is EventQueue's; here "pushed" holds what  *)
(* the step at hand has given to event_push.                               *)
(***************************************************************************)
EXTENDS Integers, Sequences, FiniteSetsExt

CONSTANTS
  ScreenW, ScreenH,  \* the size of the screen
  Delta,             \* the movements the mouse reports
  Buttons,           \* the sets of buttons it reports
  MaxGlitches        \* bound on the glitches

ASSUME MouseAssumption ==
  /\ ScreenW \in Nat \ {0} /\ ScreenH \in Nat \ {0}
  /\ Delta \subseteq -256..255
  /\ Buttons \subseteq SUBSET {1, 2, 4}
  /\ MaxGlitches \in Nat

VARIABLES
  s_x, s_y, s_buttons,  \* s_buttons as the set of its bits
  packet, cycle,
  pushed,    \* the events this step pushed, in order
  wire,      \* the bytes on their way
  report,    \* the report they belong to
  before,    \* the driver's state when that report was sent (history)
  whole,     \* no byte of that report was lost (history)
  glitches   \* glitches so far (history)

vars == <<s_x, s_y, s_buttons, packet, cycle, pushed, wire, report, before,
          whole, glitches>>

Bit(byte, weight) == (byte \div weight) % 2 = 1
Bits(byte) == {b \in {1, 2, 4} : Bit(byte, b)}

Pointer == [x |-> s_x, y |-> s_y, buttons |-> s_buttons]

(***************************************************************************)
(* mouse_init.  0xFA acknowledges the last command.                        *)
(***************************************************************************)
Ack == 250

Init ==
  /\ s_x = ScreenW \div 2 /\ s_y = ScreenH \div 2
  /\ s_buttons = {}
  /\ packet = [i \in 0..2 |-> 0] /\ cycle = 0
  /\ pushed = <<>>
  /\ \/ wire = <<>> /\ glitches = 0
     \/ wire = <<Ack>> /\ glitches = 1 /\ MaxGlitches > 0
  /\ report = [dx |-> 0, dy |-> 0, buttons |-> {}, overflow |-> FALSE]
  /\ before = [pointer |-> Pointer, cycle |-> 0]
  /\ whole = FALSE

(***************************************************************************)
(* The mouse and the wire.                                                 *)
(***************************************************************************)
Byte(d) == d % 256
Flags(r) ==
  8 + (IF 1 \in r.buttons THEN 1 ELSE 0) + (IF 2 \in r.buttons THEN 2 ELSE 0)
    + (IF 4 \in r.buttons THEN 4 ELSE 0)
    + (IF r.dx < 0 THEN 16 ELSE 0) + (IF r.dy < 0 THEN 32 ELSE 0)
    + (IF r.overflow THEN 64 ELSE 0)

Send ==
  /\ wire = <<>>
  /\ \E dx, dy \in Delta, b \in Buttons, o \in BOOLEAN :
       report' = [dx |-> dx, dy |-> dy, buttons |-> b, overflow |-> o]
  /\ wire' = <<Flags(report'), Byte(report'.dx), Byte(report'.dy)>>
  /\ before' = [pointer |-> Pointer, cycle |-> cycle]
  /\ whole' = TRUE
  /\ pushed' = <<>>
  /\ UNCHANGED <<s_x, s_y, s_buttons, packet, cycle, glitches>>

Lose ==
  /\ wire # <<>> /\ glitches < MaxGlitches
  /\ wire' = Tail(wire)
  /\ whole' = FALSE
  /\ glitches' = glitches + 1
  /\ pushed' = <<>>
  /\ UNCHANGED <<s_x, s_y, s_buttons, packet, cycle, report, before>>

(***************************************************************************)
(* mouse_irq.                                                              *)
(***************************************************************************)
Received(data) == /\ wire # <<>> /\ data = Head(wire)
                  /\ wire' = Tail(wire)
                  /\ UNCHANGED <<report, before, whole, glitches>>

(* Bit 3 of a first byte is always set: a byte without it is skipped.      *)
FirstByte_Any ==
  /\ cycle = 0
  /\ \E data \in 0..255 :
       /\ Received(data)
       /\ packet' = [packet EXCEPT ![0] = data] /\ cycle' = 1
  /\ pushed' = <<>>
  /\ UNCHANGED <<s_x, s_y, s_buttons>>
FirstByte ==
  /\ cycle = 0
  /\ \E data \in 0..255 :
       /\ Received(data)
       /\ IF Bit(data, 8)
          THEN packet' = [packet EXCEPT ![0] = data] /\ cycle' = 1
          ELSE UNCHANGED <<packet, cycle>>
  /\ pushed' = <<>>
  /\ UNCHANGED <<s_x, s_y, s_buttons>>

SecondByte ==
  /\ cycle = 1
  /\ \E data \in 0..255 :
       Received(data) /\ packet' = [packet EXCEPT ![1] = data]
  /\ cycle' = 2
  /\ pushed' = <<>>
  /\ UNCHANGED <<s_x, s_y, s_buttons>>

Clamp(v, size) == IF v < 0 THEN 0 ELSE IF v >= size THEN size - 1 ELSE v

(* The movement in a packet: nine bits each, the sign is in the flags.     *)
PacketX_Unsigned(p) == p[1]
PacketX(p) == p[1] - (IF Bit(p[0], 16) THEN 256 ELSE 0)
PacketY(p) == p[2] - (IF Bit(p[0], 32) THEN 256 ELSE 0)
Overflow(p) == Bit(p[0], 64) \/ Bit(p[0], 128)

(* The events of a packet: the movement after clamping, then each button   *)
(* that has changed.                                                       *)
MoveEvent_Raw(p) ==
  <<[type |-> "move", x |-> s_x', y |-> s_y', dx |-> PacketX(p), dy |-> - PacketY(p),
     buttons |-> Bits(p[0])]>>
MoveEvent(p) ==
  IF s_x' = s_x /\ s_y' = s_y THEN <<>>
  ELSE <<[type |-> "move", x |-> s_x', y |-> s_y',
          dx |-> s_x' - s_x, dy |-> s_y' - s_y, buttons |-> Bits(p[0])]>>
ButtonEvent(new, b) ==
  IF (b \in new) = (b \in s_buttons) THEN <<>>
  ELSE <<[type |-> IF b \in new THEN "down" ELSE "up", button |-> b,
          x |-> s_x', y |-> s_y', buttons |-> new]>>
ButtonEvents(new) ==
  ButtonEvent(new, 1) \o ButtonEvent(new, 2) \o ButtonEvent(new, 4)

ThirdByte ==
  /\ cycle = 2
  /\ \E data \in 0..255 :
       Received(data) /\ packet' = [packet EXCEPT ![2] = data]
  /\ cycle' = 0
  /\ IF Overflow(packet')
     THEN pushed' = <<>> /\ UNCHANGED <<s_x, s_y, s_buttons>>
     ELSE /\ s_x' = Clamp(s_x + PacketX(packet'), ScreenW)
          /\ s_y' = Clamp(s_y - PacketY(packet'), ScreenH)
          /\ s_buttons' = Bits(packet'[0])
          /\ pushed' = MoveEvent(packet') \o ButtonEvents(s_buttons')

mouse_irq == FirstByte \/ SecondByte \/ ThirdByte

Next == Send \/ Lose \/ mouse_irq

Spec == Init /\ [][Next]_vars

-----------------------------------------------------------------------------
(* Every variable holds a value of its C type, and the pointer stays on    *)
(* the screen.                                                             *)
Pointers == [x : 0..(ScreenW - 1), y : 0..(ScreenH - 1), buttons : SUBSET {1, 2, 4}]
Reports == [dx : -256..255, dy : -256..255, buttons : SUBSET {1, 2, 4},
            overflow : BOOLEAN]
TypeOK ==
  /\ Pointer \in Pointers
  /\ packet \in [0..2 -> 0..255] /\ cycle \in 0..2
  /\ wire \in Seq(0..255) /\ Len(wire) <= 3
  /\ report \in Reports
  /\ before \in [pointer : Pointers, cycle : 0..2]
  /\ whole \in BOOLEAN /\ glitches \in 0..MaxGlitches

(* What is next to v on the screen.                                        *)
Nearest(v, size) == Max({0, Min({v, size - 1})})

(* A report means: move the pointer, as far as the screen goes, and hold   *)
(* these buttons.  One whose movement overflowed is dropped.               *)
Applied(p, r) ==
  IF r.overflow THEN p
  ELSE [x |-> Nearest(p.x + r.dx, ScreenW), y |-> Nearest(p.y - r.dy, ScreenH),
        buttons |-> r.buttons]

(* A report that comes in whole while the handler waits for a first byte   *)
(* has its effect, all of it and no other, and leaves the handler in step  *)
(* for the next.                                                           *)
AlignedReportIsApplied ==
  wire = <<>> /\ whole /\ before.cycle = 0 =>
    cycle = 0 /\ Pointer = Applied(before.pointer, report)

(* mouse.c:52, "senkron kaybi -> at": whatever was lost before, one whole  *)
(* report with small positive movements brings the handler back in step,   *)
(* as neither of its movement bytes can pass for a first byte.             *)
Unmistakable(r) == ~ Bit(Byte(r.dx), 8) /\ ~ Bit(Byte(r.dy), 8)
UnmistakableReportRealigns ==
  wire = <<>> /\ whole /\ Unmistakable(report) => cycle = 0

(* event.h: a task that follows the events knows where the pointer is and  *)
(* which buttons are held; a button goes down only when it was up, and up  *)
(* only when it was down.                                                  *)
Follow(p, e) ==
  CASE e.type = "move" -> [p EXCEPT !.x = @ + e.dx, !.y = @ + e.dy]
    [] e.type = "down" -> [p EXCEPT !.buttons = @ \cup {e.button}]
    [] e.type = "up"   -> [p EXCEPT !.buttons = @ \ {e.button}]
Followed(p, es) ==
  LET after[k \in 0..Len(es)] ==
        IF k = 0 THEN p ELSE Follow(after[k - 1], es[k])
  IN  after[Len(es)]
Tells(e) ==
  /\ <<e.x, e.y, e.buttons>> = <<s_x', s_y', s_buttons'>>
  /\ e.type = "down" => e.button \notin s_buttons
  /\ e.type = "up" => e.button \in s_buttons
EventsTellAll ==
  [][/\ Followed(Pointer, pushed') = Pointer'
     /\ \A i \in DOMAIN pushed' : Tells(pushed'[i])]_vars

-----------------------------------------------------------------------------
(***************************************************************************)
(* The inductive invariant behind the two properties of whole reports.     *)
(***************************************************************************)

(* How far the handler is when so many bytes of a whole report are left:   *)
(* after one that began in step, and after one that can bring it back.     *)
InStep(at, applied) ==
  before.cycle = 0 => cycle = at /\ Pointer = applied
CatchesUp(from1, from2) ==
  Unmistakable(report) => /\ before.cycle = 1 => cycle = from1
                          /\ before.cycle = 2 => cycle = from2
Sent == <<Flags(report), Byte(report.dx), Byte(report.dy)>>

ReportInv ==
  whole =>
    \/ /\ wire = Sent
       /\ cycle = before.cycle /\ Pointer = before.pointer
    \/ /\ wire = Tail(Sent)
       /\ InStep(1, before.pointer) /\ CatchesUp(2, 0)
       /\ before.cycle = 0 => packet[0] = Sent[1]
    \/ /\ wire = Tail(Tail(Sent))
       /\ InStep(2, before.pointer) /\ CatchesUp(0, 0)
       /\ before.cycle = 0 => packet[0] = Sent[1] /\ packet[1] = Sent[2]
    \/ /\ wire = <<>>
       /\ InStep(0, Applied(before.pointer, report)) /\ CatchesUp(0, 0)

(* The conjunction: it holds initially and every step keeps it             *)
(* (MouseProofs).                                                          *)
IInv == TypeOK /\ ReportInv
==============================================================================
