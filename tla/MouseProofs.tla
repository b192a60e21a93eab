----------------------------- MODULE MouseProofs -----------------------------
(***************************************************************************)
(* The mouse from the wire to the screen, for every size of the screen,    *)
(* every movement of nine bits and any number of glitches: mouse_irq       *)
(* applies a whole report that comes in step, one that is unmistakable     *)
(* brings it back in step, its events tell a task all it needs, and the    *)
(* demo that draws what they tell leaves no trail of its cursor.  Last,    *)
(* the console whose buffers the demo borrows, for every size of a cell:   *)
(* what it shows is the end of the text.                                   *)
(***************************************************************************)
EXTENDS Mouse, Cursor, SequenceTheorems, WellFoundedInduction, TLAPS

(***************************************************************************)
(* The two clamps of mouse.c:66-69 find the nearest place on the screen.   *)
(***************************************************************************)
LEMMA ExtremesOfTwo ==
  ASSUME NEW a \in Int, NEW b \in Int
  PROVE  /\ Min({a, b}) = IF a <= b THEN a ELSE b
         /\ Max({a, b}) = IF a <= b THEN b ELSE a
<1>1. Min({a, b}) \in {a, b} /\ \A y \in {a, b} : Min({a, b}) <= y
  <2> DEFINE P(x) == x \in {a, b} /\ \A y \in {a, b} : x <= y
  <2>1. \E x : P(x)
    OBVIOUS
  <2>2. P(CHOOSE x : P(x))
    BY <2>1
  <2> QED
    BY <2>2 DEF Min
<1>2. Max({a, b}) \in {a, b} /\ \A y \in {a, b} : Max({a, b}) >= y
  BY DEF Max
<1> QED
  BY <1>1, <1>2

LEMMA ClampIsNearest ==
  ASSUME NEW v \in Int, NEW size \in Nat \ {0}
  PROVE  /\ Clamp(v, size) \in 0..(size - 1)
         /\ Clamp(v, size) = Nearest(v, size)
<1>1. Clamp(v, size) \in 0..(size - 1)
  BY DEF Clamp
<1>2. Min({v, size - 1}) = IF v <= size - 1 THEN v ELSE size - 1
  BY ExtremesOfTwo
<1>3. Min({v, size - 1}) \in Int
  BY <1>2
<1>4. Nearest(v, size) = IF 0 <= Min({v, size - 1}) THEN Min({v, size - 1}) ELSE 0
  BY <1>3, ExtremesOfTwo DEF Nearest
<1> QED
  BY <1>1, <1>2, <1>4 DEF Clamp

(***************************************************************************)
(* What mouse_irq makes of the bytes of a report.                          *)
(***************************************************************************)
LEMMA BitsOfASum ==
  ASSUME NEW a \in 0..1, NEW b \in 0..1, NEW d \in 0..1, NEW e \in 0..1,
         NEW f \in 0..1, NEW g \in 0..1,
         NEW n \in Nat, n = 8 + a + 2 * b + 4 * d + 16 * e + 32 * f + 64 * g
  PROVE  /\ n \in 0..255 /\ Bit(n, 8) /\ ~ Bit(n, 128)
         /\ Bit(n, 1) <=> a = 1
         /\ Bit(n, 2) <=> b = 1
         /\ Bit(n, 4) <=> d = 1
         /\ Bit(n, 16) <=> e = 1
         /\ Bit(n, 32) <=> f = 1
         /\ Bit(n, 64) <=> g = 1
BY DEF Bit

LEMMA FlagsDecode ==
  ASSUME NEW r \in Reports
  PROVE  /\ Flags(r) \in 0..255 /\ Bit(Flags(r), 8) /\ Bits(Flags(r)) = r.buttons
         /\ Bit(Flags(r), 16) <=> r.dx < 0
         /\ Bit(Flags(r), 32) <=> r.dy < 0
         /\ Bit(Flags(r), 64) \/ Bit(Flags(r), 128) <=> r.overflow
<1> DEFINE One(b) == IF b THEN 1 ELSE 0
           a == One(1 \in r.buttons)
           b == One(2 \in r.buttons)
           d == One(4 \in r.buttons)
           e == One(r.dx < 0)
           f == One(r.dy < 0)
           g == One(r.overflow)
           n == Flags(r)
<1>1. /\ a \in 0..1 /\ b \in 0..1 /\ d \in 0..1 /\ e \in 0..1 /\ f \in 0..1
      /\ g \in 0..1
  OBVIOUS
<1>2. n \in Nat /\ n = 8 + a + 2 * b + 4 * d + 16 * e + 32 * f + 64 * g
  BY DEF Flags
<1>3. /\ a = 1 <=> 1 \in r.buttons
      /\ b = 1 <=> 2 \in r.buttons
      /\ d = 1 <=> 4 \in r.buttons
      /\ e = 1 <=> r.dx < 0
      /\ f = 1 <=> r.dy < 0
      /\ g = 1 <=> r.overflow
  BY DEF Reports
<1> HIDE DEF a, b, d, e, f, g, n
<1>4. /\ n \in 0..255 /\ Bit(n, 8) /\ ~ Bit(n, 128)
      /\ Bit(n, 1) <=> a = 1
      /\ Bit(n, 2) <=> b = 1
      /\ Bit(n, 4) <=> d = 1
      /\ Bit(n, 16) <=> e = 1
      /\ Bit(n, 32) <=> f = 1
      /\ Bit(n, 64) <=> g = 1
  BY <1>1, <1>2, BitsOfASum
<1>5. Bits(n) = r.buttons
  BY <1>3, <1>4 DEF Bits, Reports
<1> QED
  BY <1>3, <1>4, <1>5 DEF n

LEMMA MovementDecodes ==
  ASSUME NEW v \in -256..255
  PROVE  /\ Byte(v) \in 0..255
         /\ Byte(v) - (IF v < 0 THEN 256 ELSE 0) = v
BY DEF Byte

(* A packet that holds a report's bytes says what the report says.         *)
LEMMA PacketDecodes ==
  ASSUME NEW r \in Reports, NEW p, p[0] = Flags(r), p[1] = Byte(r.dx),
         p[2] = Byte(r.dy)
  PROVE  /\ PacketX(p) = r.dx /\ PacketY(p) = r.dy
         /\ Overflow(p) <=> r.overflow
         /\ Bits(p[0]) = r.buttons
<1>1. r.dx \in -256..255 /\ r.dy \in -256..255
  BY DEF Reports
<1>2. PacketX(p) = Byte(r.dx) - (IF r.dx < 0 THEN 256 ELSE 0)
      /\ PacketY(p) = Byte(r.dy) - (IF r.dy < 0 THEN 256 ELSE 0)
  BY FlagsDecode DEF PacketX, PacketY
<1>3. PacketX(p) = r.dx /\ PacketY(p) = r.dy
  BY <1>1, <1>2, MovementDecodes
<1> QED
  BY <1>3, FlagsDecode DEF Overflow

(* A byte has bits that are among the three buttons, and a packet holds a  *)
(* movement of nine bits.                                                  *)
LEMMA PacketTypes ==
  ASSUME NEW p \in [0..2 -> 0..255]
  PROVE  PacketX(p) \in -256..255 /\ PacketY(p) \in -256..255
         /\ Bits(p[0]) \in SUBSET {1, 2, 4}
BY DEF PacketX, PacketY, Bits

LEMMA SentIs ==
  ASSUME report \in Reports
  PROVE  /\ Sent \in Seq(0..255) /\ Len(Sent) = 3
         /\ Sent[1] = Flags(report) /\ Sent[2] = Byte(report.dx)
         /\ Sent[3] = Byte(report.dy)
         /\ Tail(Sent) = <<Byte(report.dx), Byte(report.dy)>>
         /\ Tail(Tail(Sent)) = <<Byte(report.dy)>>
         /\ Tail(Tail(Tail(Sent))) = <<>>
         /\ Head(Sent) = Flags(report)
         /\ Head(Tail(Sent)) = Byte(report.dx)
         /\ Head(Tail(Tail(Sent))) = Byte(report.dy)
         /\ Tail(Sent) # <<>> /\ Tail(Tail(Sent)) # <<>>
<1>1. report.dx \in -256..255 /\ report.dy \in -256..255
  BY DEF Reports
<1>2. Flags(report) \in 0..255 /\ Byte(report.dx) \in 0..255 /\ Byte(report.dy) \in 0..255
  BY <1>1, FlagsDecode, MovementDecodes
<1> QED
  BY <1>2 DEF Sent

(***************************************************************************)
(* The invariant.                                                          *)
(***************************************************************************)
LEMMA InitInv == Init => IInv
<1> SUFFICES ASSUME Init PROVE IInv
  OBVIOUS
<1>1. ScreenW \div 2 \in 0..(ScreenW - 1) /\ ScreenH \div 2 \in 0..(ScreenH - 1)
  BY MouseAssumption
<1>2. Pointer \in Pointers
  BY <1>1 DEF Init, Pointer, Pointers
<1>3. packet \in [0..2 -> 0..255]
  BY DEF Init
<1>4. wire \in Seq(0..255) /\ Len(wire) <= 3 /\ glitches \in 0..MaxGlitches
  <2>1. CASE wire = <<>> /\ glitches = 0
    BY <2>1, MouseAssumption
  <2>2. CASE wire = <<Ack>> /\ glitches = 1 /\ MaxGlitches > 0
    <3>1. Ack \in 0..255
      BY DEF Ack
    <3> QED
      BY <2>2, <3>1, MouseAssumption
  <2> QED
    BY <2>1, <2>2 DEF Init
<1>5. report \in Reports
  BY DEF Init, Reports
<1>6. /\ cycle = 0 /\ ~ whole /\ whole \in BOOLEAN
      /\ before = [pointer |-> Pointer, cycle |-> 0]
  BY DEF Init
<1>7. TypeOK
  BY <1>2, <1>3, <1>4, <1>5, <1>6 DEF TypeOK
<1> QED
  BY <1>6, <1>7 DEF IInv, ReportInv

LEMMA SendKeeps ==
  ASSUME IInv, Send PROVE IInv'
<1>1. TypeOK
  BY DEF IInv
<1>2. report' \in Reports
  <2>1. PICK dx \in Delta, dy \in Delta, b \in Buttons, o \in BOOLEAN :
          report' = [dx |-> dx, dy |-> dy, buttons |-> b, overflow |-> o]
    BY DEF Send
  <2>2. dx \in -256..255 /\ dy \in -256..255 /\ b \in SUBSET {1, 2, 4}
    BY MouseAssumption
  <2> QED
    BY <2>1, <2>2 DEF Reports
<1>3. /\ wire' = <<Flags(report'), Byte(report'.dx), Byte(report'.dy)>>
      /\ Pointer' = Pointer
  BY DEF Send, Pointer
<1>4. report'.dx \in -256..255 /\ report'.dy \in -256..255
  BY <1>2 DEF Reports
<1>5. /\ Flags(report') \in 0..255 /\ Byte(report'.dx) \in 0..255
      /\ Byte(report'.dy) \in 0..255
  BY <1>2, <1>4, FlagsDecode, MovementDecodes
<1>6. wire' \in Seq(0..255) /\ Len(wire') = 3
  BY <1>3, <1>5
<1>7. TypeOK'
  BY <1>1, <1>2, <1>3, <1>6 DEF TypeOK, Send
<1>8. wire' = Sent'
  BY <1>3 DEF Sent, Flags, Byte
<1>9. ReportInv'
  BY <1>3, <1>8 DEF ReportInv, Send
<1> QED
  BY <1>7, <1>9 DEF IInv

LEMMA LoseKeeps ==
  ASSUME IInv, Lose PROVE IInv'
<1>1. wire' \in Seq(0..255) /\ Len(wire') <= 3
  BY DEF IInv, TypeOK, Lose
<1>2. Pointer' = Pointer /\ glitches' \in 0..MaxGlitches
  BY MouseAssumption DEF Lose, Pointer, IInv, TypeOK
<1> QED
  BY <1>1, <1>2 DEF IInv, TypeOK, Lose, ReportInv

(* Where a step of mouse_irq finds the handler, with the byte it takes and *)
(* what it leaves on the wire.                                             *)
Takes(data) ==
  \/ /\ data = Sent[1] /\ wire' = Tail(Sent)
     /\ cycle = before.cycle /\ Pointer = before.pointer
  \/ /\ data = Sent[2] /\ wire' = Tail(Tail(Sent))
     /\ InStep(1, before.pointer) /\ CatchesUp(2, 0)
     /\ before.cycle = 0 => packet[0] = Sent[1]
  \/ /\ data = Sent[3] /\ wire' = <<>>
     /\ InStep(2, before.pointer) /\ CatchesUp(0, 0)
     /\ before.cycle = 0 => packet[0] = Sent[1] /\ packet[1] = Sent[2]

LEMMA ReceivedByte ==
  ASSUME IInv, NEW data \in 0..255, Received(data)
  PROVE  /\ wire' \in Seq(0..255) /\ Len(wire') <= 3
         /\ Sent' = Sent /\ Unmistakable(report)' = Unmistakable(report)
         /\ UNCHANGED <<whole, before, report, glitches>>
         /\ before.cycle \in 0..2
         /\ Bit(Sent[1], 8)
         /\ Unmistakable(report) => ~ Bit(Sent[2], 8) /\ ~ Bit(Sent[3], 8)
         /\ whole => Takes(data)
<1>1. report \in Reports /\ before.cycle \in 0..2
  BY DEF IInv, TypeOK
<1>2. wire' \in Seq(0..255) /\ Len(wire') <= 3
  BY DEF IInv, TypeOK, Received
<1>3. /\ Sent' = Sent /\ Unmistakable(report)' = Unmistakable(report)
      /\ UNCHANGED <<whole, before, report, glitches>>
  BY DEF Received, Sent, Flags, Byte, Unmistakable
<1>4. Bit(Sent[1], 8) /\ (Unmistakable(report) => ~ Bit(Sent[2], 8) /\ ~ Bit(Sent[3], 8))
  BY <1>1, SentIs, FlagsDecode DEF Unmistakable
<1>5. wire # <<>> /\ data = Head(wire) /\ wire' = Tail(wire)
  BY DEF Received
<1>6. whole => Takes(data)
  BY <1>1, <1>5, SentIs DEF IInv, ReportInv, Takes
<1> QED
  BY <1>1, <1>2, <1>3, <1>4, <1>6

LEMMA FirstByteKeeps ==
  ASSUME IInv, FirstByte PROVE IInv'
<1>1. PICK data \in 0..255 :
        /\ Received(data)
        /\ IF Bit(data, 8)
           THEN packet' = [packet EXCEPT ![0] = data] /\ cycle' = 1
           ELSE UNCHANGED <<packet, cycle>>
  BY DEF FirstByte
<1>2. /\ wire' \in Seq(0..255) /\ Len(wire') <= 3
      /\ Sent' = Sent /\ Unmistakable(report)' = Unmistakable(report)
      /\ UNCHANGED <<whole, before, report, glitches>>
      /\ before.cycle \in 0..2
      /\ Bit(Sent[1], 8)
      /\ Unmistakable(report) => ~ Bit(Sent[2], 8) /\ ~ Bit(Sent[3], 8)
      /\ whole => Takes(data)
  BY <1>1, ReceivedByte
<1>3. Pointer' = Pointer /\ TypeOK /\ cycle = 0 /\ packet \in [0..2 -> 0..255]
  BY DEF FirstByte, Pointer, IInv, TypeOK
<1>4. packet' \in [0..2 -> 0..255] /\ cycle' \in 0..2
  BY <1>1, <1>3
<1>5. TypeOK'
  BY <1>2, <1>3, <1>4 DEF TypeOK
<1>6. Bit(data, 8) => cycle' = 1 /\ packet'[0] = data
  BY <1>1, <1>3
<1>7. ~ Bit(data, 8) => cycle' = 0
  BY <1>1, <1>3
<1>8. ASSUME whole PROVE ReportInv'
  <2>1. CASE data = Sent[1] /\ wire' = Tail(Sent) /\ cycle = before.cycle
             /\ Pointer = before.pointer
    BY <1>2, <1>3, <1>6, <2>1 DEF ReportInv, InStep, CatchesUp
  <2>2. CASE data = Sent[2] /\ wire' = Tail(Tail(Sent)) /\ InStep(1, before.pointer)
             /\ CatchesUp(2, 0)
    BY <1>2, <1>3, <1>7, <2>2 DEF ReportInv, InStep, CatchesUp
  <2>3. CASE data = Sent[3] /\ wire' = <<>> /\ InStep(2, before.pointer)
             /\ CatchesUp(0, 0)
    BY <1>2, <1>3, <1>7, <2>3 DEF ReportInv, InStep, CatchesUp
  <2> QED
    BY <1>2, <1>8, <2>1, <2>2, <2>3 DEF Takes
<1>9. ReportInv'
  BY <1>2, <1>8 DEF ReportInv
<1> QED
  BY <1>5, <1>9 DEF IInv

LEMMA SecondByteKeeps ==
  ASSUME IInv, SecondByte PROVE IInv'
<1>1. PICK data \in 0..255 :
        Received(data) /\ packet' = [packet EXCEPT ![1] = data]
  BY DEF SecondByte
<1>2. /\ wire' \in Seq(0..255) /\ Len(wire') <= 3
      /\ Sent' = Sent /\ Unmistakable(report)' = Unmistakable(report)
      /\ UNCHANGED <<whole, before, report, glitches>>
      /\ before.cycle \in 0..2
      /\ whole => Takes(data)
  BY <1>1, ReceivedByte
<1>3. /\ Pointer' = Pointer /\ TypeOK /\ cycle = 1 /\ cycle' = 2
      /\ packet \in [0..2 -> 0..255]
  BY DEF SecondByte, Pointer, IInv, TypeOK
<1>4. /\ packet' \in [0..2 -> 0..255]
      /\ packet'[0] = packet[0] /\ packet'[1] = data
  BY <1>1, <1>3
<1>5. TypeOK'
  BY <1>2, <1>3, <1>4 DEF TypeOK
<1>6. ASSUME whole PROVE ReportInv'
  <2>1. CASE data = Sent[1] /\ wire' = Tail(Sent) /\ cycle = before.cycle
             /\ Pointer = before.pointer
    BY <1>2, <1>3, <2>1 DEF ReportInv, InStep, CatchesUp
  <2>2. CASE /\ data = Sent[2] /\ wire' = Tail(Tail(Sent)) /\ InStep(1, before.pointer)
             /\ CatchesUp(2, 0)
             /\ before.cycle = 0 => packet[0] = Sent[1]
    BY <1>2, <1>3, <1>4, <2>2 DEF ReportInv, InStep, CatchesUp
  <2>3. CASE data = Sent[3] /\ wire' = <<>> /\ InStep(2, before.pointer)
             /\ CatchesUp(0, 0)
    BY <1>2, <1>3, <2>3 DEF ReportInv, InStep, CatchesUp
  <2> QED
    BY <1>2, <1>6, <2>1, <2>2, <2>3 DEF Takes
<1>7. ReportInv'
  BY <1>2, <1>6 DEF ReportInv
<1> QED
  BY <1>5, <1>7 DEF IInv

(* The third byte applies the packet.  Only a report that began in step    *)
(* has all its bytes in one packet.                                        *)
LEMMA ThirdByteKeeps ==
  ASSUME IInv, ThirdByte PROVE IInv'
<1>1. PICK data \in 0..255 :
        Received(data) /\ packet' = [packet EXCEPT ![2] = data]
  BY DEF ThirdByte
<1>2. /\ wire' \in Seq(0..255) /\ Len(wire') <= 3
      /\ Sent' = Sent /\ Unmistakable(report)' = Unmistakable(report)
      /\ UNCHANGED <<whole, before, report, glitches>>
      /\ before.cycle \in 0..2
      /\ whole => Takes(data)
  BY <1>1, ReceivedByte
<1>3. /\ TypeOK /\ cycle = 2 /\ cycle' = 0 /\ packet \in [0..2 -> 0..255]
      /\ Pointer \in Pointers /\ report \in Reports
  BY DEF ThirdByte, IInv, TypeOK
<1>4. /\ packet' \in [0..2 -> 0..255]
      /\ packet'[0] = packet[0] /\ packet'[1] = packet[1] /\ packet'[2] = data
  BY <1>1, <1>3
<1>5. s_x \in 0..(ScreenW - 1) /\ s_y \in 0..(ScreenH - 1) /\ s_buttons \in SUBSET {1, 2, 4}
  BY <1>3 DEF Pointer, Pointers
<1>6. Overflow(packet') => Pointer' = Pointer
  BY DEF ThirdByte, Pointer
<1>7. ~ Overflow(packet') =>
        Pointer' = [x |-> Clamp(s_x + PacketX(packet'), ScreenW),
                    y |-> Clamp(s_y - PacketY(packet'), ScreenH),
                    buttons |-> Bits(packet'[0])]
  BY DEF ThirdByte, Pointer
<1>8. /\ PacketX(packet') \in -256..255 /\ PacketY(packet') \in -256..255
      /\ Bits(packet'[0]) \in SUBSET {1, 2, 4}
  BY <1>4, PacketTypes
<1>9. /\ Clamp(s_x + PacketX(packet'), ScreenW) \in 0..(ScreenW - 1)
      /\ Clamp(s_x + PacketX(packet'), ScreenW) = Nearest(s_x + PacketX(packet'), ScreenW)
      /\ Clamp(s_y - PacketY(packet'), ScreenH) \in 0..(ScreenH - 1)
      /\ Clamp(s_y - PacketY(packet'), ScreenH) = Nearest(s_y - PacketY(packet'), ScreenH)
  <2>1. s_x + PacketX(packet') \in Int /\ s_y - PacketY(packet') \in Int
    <3>1. s_x \in Int /\ s_y \in Int
      BY <1>5, MouseAssumption
    <3>2. PacketX(packet') \in Int /\ PacketY(packet') \in Int
      BY <1>8
    <3> QED
      BY <3>1, <3>2
  <2> QED
    BY <2>1, ClampIsNearest, MouseAssumption
<1>10. Pointer' \in Pointers
  BY <1>3, <1>6, <1>7, <1>8, <1>9 DEF Pointers
<1>11. TypeOK'
  BY <1>2, <1>3, <1>4, <1>10 DEF TypeOK
<1>12. ASSUME packet[0] = Sent[1], packet[1] = Sent[2], data = Sent[3]
       PROVE  Pointer' = Applied(Pointer, report)
  <2>1. /\ packet'[0] = Flags(report) /\ packet'[1] = Byte(report.dx)
        /\ packet'[2] = Byte(report.dy)
    BY <1>3, <1>4, <1>12, SentIs
  <2>2. /\ PacketX(packet') = report.dx /\ PacketY(packet') = report.dy
        /\ Overflow(packet') <=> report.overflow
        /\ Bits(packet'[0]) = report.buttons
    BY <1>3, <2>1, PacketDecodes
  <2>3. Pointer.x = s_x /\ Pointer.y = s_y
    BY DEF Pointer
  <2> QED
    BY <1>6, <1>7, <1>9, <2>2, <2>3 DEF Applied
<1>13. ASSUME whole PROVE ReportInv'
  <2>1. CASE data = Sent[1] /\ wire' = Tail(Sent) /\ cycle = before.cycle
             /\ Pointer = before.pointer
    BY <1>2, <1>3, <2>1 DEF ReportInv, InStep, CatchesUp
  <2>2. CASE /\ data = Sent[2] /\ wire' = Tail(Tail(Sent)) /\ InStep(1, before.pointer)
             /\ CatchesUp(2, 0)
    BY <1>2, <1>3, <2>2 DEF ReportInv, InStep, CatchesUp
  <2>3. CASE /\ data = Sent[3] /\ wire' = <<>> /\ InStep(2, before.pointer)
             /\ CatchesUp(0, 0)
             /\ before.cycle = 0 => packet[0] = Sent[1] /\ packet[1] = Sent[2]
    <3>1. before.cycle = 0 => Pointer' = Applied(before.pointer, report)
      BY <1>12, <2>3 DEF InStep
    <3>2. Applied(before.pointer, report)' = Applied(before.pointer, report)
      BY <1>2 DEF Applied
    <3>3. InStep(0, Applied(before.pointer, report))' /\ CatchesUp(0, 0)'
      BY <1>2, <1>3, <3>1, <3>2 DEF InStep, CatchesUp
    <3> QED
      BY <2>3, <3>3 DEF ReportInv
  <2> QED
    BY <1>2, <1>13, <2>1, <2>2, <2>3 DEF Takes
<1>14. ReportInv'
  BY <1>2, <1>13 DEF ReportInv
<1> QED
  BY <1>11, <1>14 DEF IInv

LEMMA NextKeeps == IInv /\ [Next]_vars => IInv'
<1>1. IInv /\ UNCHANGED vars => IInv'
  <2> SUFFICES ASSUME IInv, UNCHANGED vars PROVE IInv'
    OBVIOUS
  <2>1. /\ Pointer' = Pointer /\ Sent' = Sent
        /\ Unmistakable(report)' = Unmistakable(report)
        /\ Applied(before.pointer, report)' = Applied(before.pointer, report)
    BY DEF vars, Pointer, Sent, Unmistakable, Applied, Flags, Byte
  <2>2. TypeOK'
    BY <2>1 DEF IInv, TypeOK, vars
  <2>3. ReportInv'
    BY <2>1 DEF IInv, ReportInv, InStep, CatchesUp, vars
  <2> QED
    BY <2>2, <2>3 DEF IInv
<1> QED
  BY <1>1, SendKeeps, LoseKeeps, FirstByteKeeps, SecondByteKeeps, ThirdByteKeeps
  DEF Next, mouse_irq

(***************************************************************************)
(* The theorems.                                                           *)
(***************************************************************************)

(* The inductive invariant holds in every reachable state.                 *)
THEOREM Invariance == Spec => []IInv
BY InitInv, NextKeeps, PTL DEF Spec

(* mouse.c:66-69 keep the pointer on the screen, and cycle indexes packet. *)
THEOREM TypeCorrectness == Spec => []TypeOK
<1>1. IInv => TypeOK
  BY DEF IInv
<1> QED
  BY <1>1, Invariance, PTL

(* mouse.c:44-108: a report that comes in whole while the handler waits    *)
(* for a first byte has its effect, all of it and no other.                *)
THEOREM AlignedReports == Spec => []AlignedReportIsApplied
<1>1. IInv => AlignedReportIsApplied
  BY SentIs DEF IInv, TypeOK, ReportInv, InStep, AlignedReportIsApplied
<1> QED
  BY <1>1, Invariance, PTL

(* mouse.c:52: a whole report none of whose movements can pass for a first *)
(* byte brings the handler back in step, whatever was lost before.         *)
THEOREM UnmistakableReports == Spec => []UnmistakableReportRealigns
<1>1. IInv => UnmistakableReportRealigns
  <2> SUFFICES ASSUME IInv, wire = <<>>, whole, Unmistakable(report)
               PROVE  cycle = 0
    BY DEF UnmistakableReportRealigns
  <2>1. before.cycle \in 0..2
    BY DEF IInv, TypeOK
  <2>2. InStep(0, Applied(before.pointer, report)) /\ CatchesUp(0, 0)
    BY SentIs DEF IInv, TypeOK, ReportInv
  <2> QED
    BY <2>1, <2>2 DEF InStep, CatchesUp
<1> QED
  BY <1>1, Invariance, PTL

-----------------------------------------------------------------------------
(***************************************************************************)
(* What a task makes of the events.  Induction is over a set of naturals:  *)
(* the library's theorem takes an operator, which no prover instantiates.  *)
(***************************************************************************)
LEMMA LeastElement ==
  ASSUME NEW T, T \subseteq Nat, T # {}
  PROVE  \E x \in T : \A y \in T : x <= y
<1> DEFINE R == OpToRel(<, Nat)
<1>1. IsWellFoundedOn(R, Nat)
  BY NatLessThanWellFounded
<1>2. \A x, y \in Nat : x < y => <<x, y>> \in R
  BY DEF OpToRel
<1> HIDE DEF R
<1>3. PICK x \in T : \A y \in T : ~ (<<y, x>> \in R)
  BY <1>1, WFMin
<1>4. \A y \in T : ~ (y < x)
  BY <1>2, <1>3
<1> QED
  BY <1>4

LEMMA Induction ==
  ASSUME NEW Q, 0 \in Q, \A k \in Nat : k \in Q => k + 1 \in Q
  PROVE  \A k \in Nat : k \in Q
<1> DEFINE T == {k \in Nat : k \notin Q}
<1>1. ASSUME NEW k \in T, \A j \in T : k <= j PROVE FALSE
  <2>1. k \in Nat /\ k # 0 /\ k \notin Q
    OBVIOUS
  <2>2. k - 1 \in Nat /\ (k - 1) + 1 = k
    BY <2>1
  <2>3. k - 1 \notin T
    BY <1>1, <2>1, <2>2
  <2> QED
    BY <2>1, <2>2, <2>3
<1>2. T \subseteq Nat
  OBVIOUS
<1> HIDE DEF T
<1>3. T = {}
  BY <1>1, <1>2, LeastElement
<1> QED
  BY <1>3 DEF T

(* after[k] is where the pointer is after the first k events of es.        *)
After(n, p, es, after) ==
  \A k \in 0..n : after[k] = IF k = 0 THEN p ELSE Follow(after[k - 1], es[k])

Closed(T, E) == \A q \in T, e \in E : Follow(q, e) \in T

LEMMA AfterExists ==
  ASSUME NEW T, NEW E, Closed(T, E),
         NEW p \in T, NEW n \in Nat, NEW es \in [1..n -> E]
  PROVE  \E f \in [0..n -> T] : After(n, p, es, f)
<1> DEFINE Body(f, i) == IF i = 0 THEN p ELSE Follow(f[i - 1], es[i])
           Good(f, k) == \A i \in 0..n : i <= k => f[i] = Body(f, i)
           Q == {k \in Nat : \E f \in [0..n -> T] : Good(f, k)}
<1>1. 0 \in Q
  <2> DEFINE f == [i \in 0..n |-> p]
  <2>1. f \in [0..n -> T] /\ Good(f, 0)
    OBVIOUS
  <2> QED
    BY <2>1
<1>2. ASSUME NEW k \in Nat, k \in Q PROVE k + 1 \in Q
  <2>1. PICK f \in [0..n -> T] : Good(f, k)
    BY <1>2
  <2> DEFINE g == [i \in 0..n |-> IF i <= k THEN f[i] ELSE Body(f, i)]
  <2>2. \A i \in 0..n : i # 0 => i - 1 \in 0..n /\ f[i - 1] \in T /\ es[i] \in E
    OBVIOUS
  <2>3. g \in [0..n -> T]
    BY <2>2 DEF Closed
  <2>4. \A i \in 0..n : i <= k + 1 => g[i] = Body(f, i)
    BY <2>1
  <2>5. \A i \in 0..n : i <= k + 1 => Body(f, i) = Body(g, i)
    BY <2>2
  <2>6. g \in [0..n -> T] /\ Good(g, k + 1)
    BY <2>3, <2>4, <2>5
  <2> HIDE DEF g, Good
  <2> QED
    BY <2>6
<1>3. \A k \in Nat : k \in Q
  <2> HIDE DEF Q
  <2> QED
    BY <1>1, <1>2, Induction
<1>4. PICK f \in [0..n -> T] : Good(f, n)
  BY <1>3
<1>5. After(n, p, es, f)
  BY <1>4 DEF After
<1> QED
  BY <1>5

LEMMA AfterAgree ==
  ASSUME NEW n \in Nat, NEW p, NEW es, NEW ds, NEW f, NEW g,
         After(n, p, es, f), After(n, p, ds, g), \A i \in 1..n : es[i] = ds[i]
  PROVE  f[n] = g[n]
<1> DEFINE Q == {k \in Nat : k \in 0..n => f[k] = g[k]}
<1>1. /\ \A i \in 0..n : f[i] = IF i = 0 THEN p ELSE Follow(f[i - 1], es[i])
      /\ \A i \in 0..n : g[i] = IF i = 0 THEN p ELSE Follow(g[i - 1], ds[i])
  BY DEF After
<1>2. 0 \in Q
  BY <1>1
<1>3. ASSUME NEW k \in Nat, k \in Q PROVE k + 1 \in Q
  <2> SUFFICES ASSUME k + 1 \in 0..n PROVE f[k + 1] = g[k + 1]
    OBVIOUS
  <2>1. k \in 0..n /\ f[k] = g[k] /\ (k + 1) - 1 = k /\ k + 1 # 0 /\ k + 1 \in 1..n
    BY <1>3
  <2> QED
    BY <1>1, <2>1
<1>4. \A k \in Nat : k \in Q
  <2> HIDE DEF Q
  <2> QED
    BY <1>2, <1>3, Induction
<1> QED
  BY <1>4

LEMMA FollowedIs ==
  ASSUME NEW p, NEW es, Len(es) \in Nat, NEW f, f = [k \in 0..Len(es) |-> f[k]],
         After(Len(es), p, es, f)
  PROVE  Followed(p, es) = f[Len(es)]
<1> DEFINE n == Len(es)
           R(h) == h = [k \in 0..n |-> IF k = 0 THEN p ELSE Follow(h[k - 1], es[k])]
           c == CHOOSE h : R(h)
<1>1. Followed(p, es) = c[n]
  BY DEF Followed
<1> HIDE DEF n
<1>2. R(f)
  BY DEF After, n
<1>3. R(c)
  BY <1>2
<1>4. After(n, p, es, c)
  BY <1>3 DEF After
<1> HIDE DEF c
<1> QED
  BY <1>1, <1>4, AfterAgree DEF n

LEMMA FollowedNone ==
  ASSUME NEW p PROVE Followed(p, <<>>) = p
<1> DEFINE f == [k \in 0..0 |-> p]
<1>1. After(0, p, <<>>, f)
  BY DEF After
<1>2. f = [k \in 0..0 |-> f[k]] /\ f[0] = p
  OBVIOUS
<1>3. Len(<<>>) = 0
  OBVIOUS
<1> HIDE DEF f
<1> QED
  BY <1>1, <1>2, <1>3, FollowedIs

LEMMA FollowedAppend ==
  ASSUME NEW T, NEW E, Closed(T, E),
         NEW p \in T, NEW es \in Seq(E), NEW e \in E
  PROVE  Followed(p, es) \in T
         /\ Followed(p, es \o <<e>>) = Follow(Followed(p, es), e)
<1> DEFINE n == Len(es)
           ds == es \o <<e>>
<1>1. n \in Nat /\ es \in [1..n -> E]
  OBVIOUS
<1>2. /\ ds \in [1..(n + 1) -> E] /\ Len(ds) = n + 1
      /\ ds[n + 1] = e /\ \A i \in 1..n : es[i] = ds[i]
  <2> DEFINE last == <<e>>
  <2>1. last \in Seq(E) /\ Len(last) = 1 /\ last[1] = e
    OBVIOUS
  <2> HIDE DEF last, n, ds
  <2>2. /\ es \o last \in Seq(E) /\ Len(es \o last) = n + 1
        /\ \A i \in 1..(n + 1) :
             (es \o last)[i] = IF i <= n THEN es[i] ELSE last[i - n]
    <3>1. /\ es \o last \in Seq(E) /\ Len(es \o last) = Len(es) + Len(last)
          /\ \A i \in 1..(Len(es) + Len(last)) :
               (es \o last)[i] = IF i <= Len(es) THEN es[i] ELSE last[i - Len(es)]
      BY <2>1, ConcatProperties
    <3> QED
      BY <2>1, <3>1 DEF n
  <2>3. es \o last \in [1..(n + 1) -> E]
    BY <2>2, LenProperties
  <2> QED
    BY <1>1, <2>1, <2>2, <2>3 DEF last, ds
<1> HIDE DEF ds, n
<1>3. PICK f \in [0..n -> T] : After(n, p, es, f)
  BY <1>1, AfterExists
<1>4. n + 1 \in Nat
  BY <1>1
<1>5. PICK g \in [0..(n + 1) -> T] : After(n + 1, p, ds, g)
  BY <1>2, <1>4, AfterExists
<1>6. Followed(p, es) = f[n] /\ f[n] \in T
  BY <1>1, <1>3, FollowedIs DEF n
<1>7. Followed(p, ds) = g[n + 1]
  BY <1>2, <1>4, <1>5, FollowedIs
<1>8. After(n, p, ds, g)
  BY <1>1, <1>5 DEF After
<1>9. f[n] = g[n]
  BY <1>1, <1>2, <1>3, <1>8, AfterAgree
<1>10. n + 1 \in 0..(n + 1) /\ n + 1 # 0 /\ (n + 1) - 1 = n
  BY <1>1
<1>11. g[n + 1] = Follow(g[n], e)
  BY <1>2, <1>5, <1>10 DEF After
<1> QED
  BY <1>6, <1>7, <1>9, <1>11 DEF ds

(***************************************************************************)
(* The events of one packet.                                               *)
(***************************************************************************)
Places == [x : Int, y : Int, buttons : SUBSET {1, 2, 4}]
Events ==
  [type : {"move"}, x : Int, y : Int, dx : Int, dy : Int, buttons : SUBSET {1, 2, 4}]
    \cup [type : {"down", "up"}, button : {1, 2, 4}, x : Int, y : Int,
          buttons : SUBSET {1, 2, 4}]

LEMMA FollowType == Closed(Places, Events)
<1> SUFFICES ASSUME NEW q \in Places, NEW e \in Events PROVE Follow(q, e) \in Places
  BY DEF Closed
<1>1. /\ q = [x |-> q.x, y |-> q.y, buttons |-> q.buttons]
      /\ q.x \in Int /\ q.y \in Int /\ q.buttons \in SUBSET {1, 2, 4}
  BY DEF Places
<1>2. CASE e.type = "move"
  <2>1. e.dx \in Int /\ e.dy \in Int
    BY <1>2 DEF Events
  <2>2. q.x + e.dx \in Int /\ q.y + e.dy \in Int
    BY <1>1, <2>1
  <2>3. Follow(q, e) =
          [x |-> q.x + e.dx, y |-> q.y + e.dy, buttons |-> q.buttons]
    BY <1>1, <1>2 DEF Follow
  <2> QED
    BY <1>1, <2>2, <2>3 DEF Places
<1>3. ASSUME NEW held \in SUBSET {1, 2, 4}
      PROVE  [q EXCEPT !.buttons = held] \in Places
  BY <1>1 DEF Places
<1>4. CASE e.type \in {"down", "up"}
  <2>1. e.button \in {1, 2, 4}
    BY <1>4 DEF Events
  <2>2. /\ q.buttons \cup {e.button} \in SUBSET {1, 2, 4}
        /\ q.buttons \ {e.button} \in SUBSET {1, 2, 4}
    BY <1>1, <2>1
  <2>3. \/ Follow(q, e) = [q EXCEPT !.buttons = q.buttons \cup {e.button}]
        \/ Follow(q, e) = [q EXCEPT !.buttons = q.buttons \ {e.button}]
    BY <1>4 DEF Follow
  <2> QED
    BY <1>3, <2>2, <2>3
<1> QED
  BY <1>2, <1>4 DEF Events

(* After the events es the task is at the new position, with these buttons *)
(* held, and no event has told it anything that is not so.                 *)
Told(es, held) ==
  /\ es \in Seq(Events) /\ \A i \in DOMAIN es : Tells(es[i])
  /\ Followed(Pointer, es) = [x |-> s_x', y |-> s_y', buttons |-> held]

LEMMA ToldMore ==
  ASSUME Pointer \in Places, NEW es, NEW held, Told(es, held),
         NEW e \in Events, Tells(e), NEW now,
         Follow([x |-> s_x', y |-> s_y', buttons |-> held], e) =
           [x |-> s_x', y |-> s_y', buttons |-> now]
  PROVE  Told(es \o <<e>>, now)
<1>1. es \in Seq(Events) /\ es \o <<e>> \in Seq(Events)
  BY DEF Told
<1>2. \A i \in DOMAIN (es \o <<e>>) : Tells((es \o <<e>>)[i])
  <2>1. \A i \in DOMAIN (es \o <<e>>) :
          \/ i \in DOMAIN es /\ (es \o <<e>>)[i] = es[i]
          \/ (es \o <<e>>)[i] = e
    BY <1>1
  <2> QED
    BY <2>1 DEF Told
<1>3. Followed(Pointer, es \o <<e>>) = Follow(Followed(Pointer, es), e)
  BY <1>1, FollowType, FollowedAppend
<1> QED
  BY <1>1, <1>2, <1>3 DEF Told

LEMMA ButtonIsTold ==
  ASSUME Pointer \in Places, s_x' \in Int, s_y' \in Int,
         s_buttons' \in SUBSET {1, 2, 4}, NEW b \in {1, 2, 4},
         NEW es, NEW held \in SUBSET {1, 2, 4}, Told(es, held),
         b \in held <=> b \in s_buttons
  PROVE  /\ ButtonEvent(s_buttons', b) \in Seq(Events)
         /\ Told(es \o ButtonEvent(s_buttons', b),
                 (held \ {b}) \cup ({b} \cap s_buttons'))
<1> DEFINE now == (held \ {b}) \cup ({b} \cap s_buttons')
           e == [type |-> IF b \in s_buttons' THEN "down" ELSE "up", button |-> b,
                 x |-> s_x', y |-> s_y', buttons |-> s_buttons']
<1>1. CASE (b \in s_buttons') = (b \in s_buttons)
  <2>1. ButtonEvent(s_buttons', b) = <<>> /\ now = held
    BY <1>1 DEF ButtonEvent
  <2>2. es \o <<>> = es
    BY ConcatEmptySeq DEF Told
  <2>3. <<>> \in Seq(Events)
    OBVIOUS
  <2> HIDE DEF now
  <2>4. Told(es \o <<>>, now)
    BY <2>1, <2>2
  <2> QED
    BY <2>1, <2>3, <2>4 DEF now
<1>2. CASE (b \in s_buttons') # (b \in s_buttons)
  <2>1. ButtonEvent(s_buttons', b) = <<e>>
    BY <1>2 DEF ButtonEvent
  <2>2. e \in Events
    BY DEF Events
  <2>3. Tells(e)
    BY <1>2 DEF Tells
  <2>4. Follow([x |-> s_x', y |-> s_y', buttons |-> held], e) =
          [x |-> s_x', y |-> s_y', buttons |-> now]
    BY <1>2 DEF Follow
  <2> HIDE DEF e, now
  <2>5. Told(es \o <<e>>, now)
    BY <2>2, <2>3, <2>4, ToldMore
  <2> QED
    BY <2>1, <2>2, <2>5 DEF now
<1> QED
  BY <1>1, <1>2

LEMMA MoveIsTold ==
  ASSUME NEW p, Pointer \in Places, s_x' \in Int, s_y' \in Int,
         s_buttons' = Bits(p[0]), s_buttons' \in SUBSET {1, 2, 4}
  PROVE  Told(MoveEvent(p), s_buttons)
<1>1. /\ Pointer = [x |-> s_x, y |-> s_y, buttons |-> s_buttons]
      /\ s_x \in Int /\ s_y \in Int
  BY DEF Pointer, Places
<1>2. CASE s_x' = s_x /\ s_y' = s_y
  <2>1. MoveEvent(p) = <<>>
    BY <1>2 DEF MoveEvent
  <2> QED
    BY <1>1, <1>2, <2>1, FollowedNone DEF Told
<1>3. CASE ~ (s_x' = s_x /\ s_y' = s_y)
  <2> DEFINE e == [type |-> "move", x |-> s_x', y |-> s_y', dx |-> s_x' - s_x,
                   dy |-> s_y' - s_y, buttons |-> s_buttons']
  <2>1. MoveEvent(p) = <<e>>
    BY <1>3 DEF MoveEvent
  <2>2. e \in Events /\ Tells(e)
    BY <1>1 DEF Events, Tells
  <2>3. Follow(Pointer, e) = [x |-> s_x', y |-> s_y', buttons |-> s_buttons]
    <3>1. s_x + e.dx = s_x' /\ s_y + e.dy = s_y'
      <4>1. s_x + (s_x' - s_x) = s_x' /\ s_y + (s_y' - s_y) = s_y'
        <5>1. \A i, j \in Int : i + (j - i) = j
          OBVIOUS
        <5> QED
          BY <1>1, <5>1
      <4>2. e.dx = s_x' - s_x /\ e.dy = s_y' - s_y
        OBVIOUS
      <4> HIDE DEF e
      <4> QED
        BY <4>1, <4>2
    <3>2. Follow(Pointer, e) =
            [x |-> s_x + e.dx, y |-> s_y + e.dy, buttons |-> s_buttons]
      BY <1>1 DEF Follow
    <3> QED
      BY <3>1, <3>2
  <2> HIDE DEF e
  <2>4. <<>> \in Seq(Events) /\ <<>> \o <<e>> = <<e>> /\ <<e>> \in Seq(Events)
    BY <2>2, ConcatEmptySeq
  <2>5. Followed(Pointer, <<e>>) = Follow(Pointer, e)
    <3> DEFINE none == <<>>
    <3>1. none \in Seq(Events) /\ none \o <<e>> = <<e>>
          /\ Followed(Pointer, none) = Pointer
      BY <2>4, FollowedNone
    <3> HIDE DEF none
    <3>2. Followed(Pointer, none \o <<e>>) = Follow(Followed(Pointer, none), e)
      BY <2>2, <3>1, FollowType, FollowedAppend
    <3> QED
      BY <3>1, <3>2
  <2>6. \A i \in DOMAIN <<e>> : <<e>>[i] = e
    OBVIOUS
  <2> QED
    BY <2>1, <2>2, <2>3, <2>4, <2>5, <2>6 DEF Told
<1> QED
  BY <1>2, <1>3

LEMMA PacketIsTold ==
  ASSUME IInv, ThirdByte, ~ Overflow(packet')
  PROVE  Told(pushed', s_buttons')
<1>1. /\ s_buttons' = Bits(packet'[0])
      /\ pushed' = MoveEvent(packet') \o ButtonEvents(s_buttons')
  BY DEF ThirdByte
<1>2. IInv'
  BY ThirdByteKeeps
<1>3. Pointer \in Places /\ s_buttons \in SUBSET {1, 2, 4}
  BY MouseAssumption DEF IInv, TypeOK, Pointer, Pointers, Places
<1>4. s_x' \in Int /\ s_y' \in Int /\ s_buttons' \in SUBSET {1, 2, 4}
  BY <1>2, MouseAssumption DEF IInv, TypeOK, Pointer, Pointers
<1> DEFINE M == MoveEvent(packet')
           B1 == ButtonEvent(s_buttons', 1)
           B2 == ButtonEvent(s_buttons', 2)
           B4 == ButtonEvent(s_buttons', 4)
           now(held, b) == (held \ {b}) \cup ({b} \cap s_buttons')
<1>5. pushed' = M \o ((B1 \o B2) \o B4)
  BY <1>1 DEF ButtonEvents
<1>6. Told(M, s_buttons) /\ M \in Seq(Events)
  BY <1>1, <1>3, <1>4, MoveIsTold DEF Told
<1> HIDE DEF M
<1>7. B1 \in Seq(Events) /\ Told(M \o B1, now(s_buttons, 1))
  BY <1>3, <1>4, <1>6, ButtonIsTold
<1> HIDE DEF B1
<1>8. /\ now(s_buttons, 1) \in SUBSET {1, 2, 4}
      /\ 2 \in now(s_buttons, 1) <=> 2 \in s_buttons
  BY <1>3, <1>4
<1>9. B2 \in Seq(Events) /\ Told((M \o B1) \o B2, now(now(s_buttons, 1), 2))
  <2> HIDE DEF now
  <2>1. /\ B2 \in Seq(Events)
        /\ Told((M \o B1) \o B2,
                (now(s_buttons, 1) \ {2}) \cup ({2} \cap s_buttons'))
    BY <1>3, <1>4, <1>7, <1>8, ButtonIsTold
  <2> QED
    BY <2>1 DEF now
<1> HIDE DEF B2
<1>10. /\ now(now(s_buttons, 1), 2) \in SUBSET {1, 2, 4}
       /\ 4 \in now(now(s_buttons, 1), 2) <=> 4 \in s_buttons
  BY <1>3, <1>4
<1>11. B4 \in Seq(Events)
       /\ Told(((M \o B1) \o B2) \o B4, now(now(now(s_buttons, 1), 2), 4))
  <2> DEFINE held == now(now(s_buttons, 1), 2)
  <2> HIDE DEF held
  <2>1. B4 \in Seq(Events)
        /\ Told(((M \o B1) \o B2) \o B4, (held \ {4}) \cup ({4} \cap s_buttons'))
    BY <1>3, <1>4, <1>9, <1>10, ButtonIsTold DEF held
  <2> QED
    BY <2>1 DEF held
<1>12. now(now(now(s_buttons, 1), 2), 4) = s_buttons'
  BY <1>3, <1>4
<1> HIDE DEF B4, now
<1>13. M \in Seq(Events) /\ B1 \in Seq(Events)
       /\ B2 \in Seq(Events) /\ B4 \in Seq(Events)
  BY <1>6, <1>7, <1>9, <1>11
<1>14. M \o ((B1 \o B2) \o B4) = ((M \o B1) \o B2) \o B4
  <2>1. M \o ((B1 \o B2) \o B4) = (M \o (B1 \o B2)) \o B4
    <3> DEFINE B == B1 \o B2
    <3>1. B \in Seq(Events)
      BY <1>13, ConcatProperties
    <3> HIDE DEF B
    <3>2. M \o (B \o B4) = (M \o B) \o B4
      BY <1>13, <3>1, ConcatAssociative, SMTT(30)
    <3> QED
      BY <3>2 DEF B
  <2>2. M \o (B1 \o B2) = (M \o B1) \o B2
    BY <1>13, ConcatAssociative, SMTT(30)
  <2> QED
    BY <2>1, <2>2
<1> QED
  BY <1>5, <1>11, <1>12, <1>14

(* mouse.c:74-101: whatever is on the wire, a task that follows the events *)
(* knows the pointer and the buttons after every step, and no button goes  *)
(* down twice or up twice.                                                 *)
THEOREM EventsTell == Spec => EventsTellAll
<1> DEFINE A == /\ Followed(Pointer, pushed') = Pointer'
                /\ \A i \in DOMAIN pushed' : Tells(pushed'[i])
<1>1. ASSUME IInv, Next PROVE A
  <2>1. CASE ThirdByte /\ ~ Overflow(packet')
    BY <1>1, <2>1, PacketIsTold DEF Told, Pointer
  <2>2. CASE ~ (ThirdByte /\ ~ Overflow(packet'))
    <3>1. pushed' = <<>> /\ Pointer' = Pointer
      BY <1>1, <2>2
      DEF Next, Send, Lose, mouse_irq, FirstByte, SecondByte, ThirdByte, Pointer
    <3> QED
      BY <3>1, FollowedNone
  <2> QED
    BY <2>1, <2>2
<1>2. IInv /\ [Next]_vars => [A]_vars
  BY <1>1
<1> QED
  BY <1>2, Invariance, PTL DEF Spec, EventsTellAll
-----------------------------------------------------------------------------
(***************************************************************************)
(* The demo: cmd_mouse.                                                    *)
(***************************************************************************)
LEMMA BoxesAreColoured ==
  ASSUME NEW buffer, NEW on, NEW p \in Pixel
  PROVE  /\ p \in BoxPixels => draw_btns(buffer, on)[p] \in {Green, Gray}
         /\ p \notin BoxPixels => draw_btns(buffer, on)[p] = buffer[p]
BY DEF BoxPixels, draw_btns, Colour

LEMMA BoxesAreEnclosed ==
  ASSUME NEW p \in BoxPixels
  PROVE  p \in Rect(Boxes.x, Boxes.y, Boxes.w, Boxes.h)
BY CursorAssumption DEF BoxPixels

LEMMA CursorIsInItsBlock ==
  ASSUME NEW buffer, NEW x \in Int, NEW y \in Int, NEW on, NEW p \in Pixel,
         p \notin Rect(x, y, CurW, CurH)
  PROVE  draw_cursor(buffer, x, y, on)[p] = buffer[p]
<1> DEFINE q == <<p[1] - x, p[2] - y>>
<1>1. p[1] \in Int /\ p[2] \in Int /\ CurW \in Int /\ CurH \in Int
  BY GfxAssumption, CursorAssumption DEF Pixel
<1>2. q \notin (0..CurW-1) \X (0..CurH-1)
  BY <1>1 DEF Rect
<1>3. q \notin DOMAIN Shape
  BY <1>2, CursorAssumption
<1> QED
  BY <1>3 DEF draw_cursor

LEMMA PlaceOnScreen ==
  ASSUME NEW x \in 0..Width-1, NEW y \in 0..Height-1
  PROVE  /\ Smaller(x, Width - CurW) \in 0..Width-CurW
         /\ Smaller(y, Height - CurH) \in 0..Height-CurH
BY GfxAssumption, CursorAssumption DEF Smaller

(* A block on the screen, by its pixels and by its places. *)
LEMMA BlockOnScreen ==
  ASSUME NEW x \in 0..Width-CurW, NEW y \in 0..Height-CurH
  PROVE  /\ \A q \in (0..CurW-1) \X (0..CurH-1) : <<x + q[1], y + q[2]>> \in Pixel
         /\ \A p \in Rect(x, y, CurW, CurH) :
              /\ p \in Pixel
              /\ <<p[1] - x, p[2] - y>> \in (0..CurW-1) \X (0..CurH-1)
              /\ p = <<x + (p[1] - x), y + (p[2] - y)>>
<1>1. Width \in Int /\ Height \in Int /\ CurW \in Int /\ CurH \in Int
  BY GfxAssumption, CursorAssumption
<1>2. ASSUME NEW q \in (0..CurW-1) \X (0..CurH-1)
      PROVE  <<x + q[1], y + q[2]>> \in Pixel
  BY <1>1 DEF Pixel
<1>3. ASSUME NEW p \in Rect(x, y, CurW, CurH)
      PROVE  /\ p \in Pixel
             /\ <<p[1] - x, p[2] - y>> \in (0..CurW-1) \X (0..CurH-1)
             /\ p = <<x + (p[1] - x), y + (p[2] - y)>>
  <2>1. p \in Pixel /\ p[1] \in x..x+CurW-1 /\ p[2] \in y..y+CurH-1
    BY DEF Rect
  <2>2. p = <<p[1], p[2]>> /\ p[1] \in Int /\ p[2] \in Int
    BY <2>1 DEF Pixel
  <2> QED
    BY <1>1, <2>1, <2>2
<1> QED
  BY <1>2, <1>3

LEMMA TrailInitially == MInit => TrailInv
<1> SUFFICES ASSUME MInit PROVE TrailInv
  OBVIOUS
<1>1. <<0, 0>> \in Pixel
  BY GfxAssumption DEF Pixel
<1> QED
  BY <1>1 DEF MInit, TrailInv, NoTrail, Unread

LEMMA MouseOnScreen ==
  ASSUME NEW m \in MouseState PROVE <<m.x, m.y>> \in Pixel
<1>1. PICK p \in Point, on \in SUBSET Button : m = [x |-> p.x, y |-> p.y, buttons |-> on]
  BY DEF MouseState
<1>2. p.x \in 0..Width-1 /\ p.y \in 0..Height-1
  BY CursorAssumption
<1> QED
  BY <1>1, <1>2 DEF Pixel

LEMMA StartLeavesNoTrail == ASSUME TrailInv, Start PROVE TrailInv'
<1>1. fb' = draw_btns(Scene, {}) /\ hw' = fb' /\ ox = -1 /\ ox' = -1
  BY DEF Start, TrailInv
<1>2. \A p \in Pixel : Backdrop(p, fb'[p])
  BY <1>1, BoxesAreColoured DEF Backdrop
<1>3. <<mouse'.x, mouse'.y>> \in Pixel
  BY MouseOnScreen DEF Start
<1>4. NoTrail'
  BY <1>1, <1>2 DEF NoTrail, Backdrop
<1> QED
  BY <1>1, <1>3, <1>4 DEF TrailInv, Start

(* The whole screen is the backdrop again before the cursor is drawn.      *)
LEMMA RedrawLeavesNoTrail == ASSUME TrailInv, Redraw PROVE TrailInv'
<1> DEFINE on == mouse.buttons
           nx == Smaller(mx, Width - CurW)
           ny == Smaller(my, Height - CurH)
           moved == Moved(nx, ny)
           lift == moved /\ ox >= 0
           fb1 == IF lift THEN gfx_blit(Boxed(on), under, ox, oy, CurW, CurH)
                  ELSE Boxed(on)
           hw1 == IF lift THEN gfx_present_rect(ScreenBoxed(on), fb1, ox, oy, CurW, CurH)
                  ELSE ScreenBoxed(on)
           Block == (0..CurW-1) \X (0..CurH-1)
           New == Rect(nx, ny, CurW, CurH)
           Old == Rect(ox, oy, CurW, CurH)
<1>1. /\ at = "redraw" /\ at' = "asleep" /\ mx' = 0 /\ my' = 0 /\ mouse' = mouse
      /\ double' = double
  BY DEF Redraw, console
<1>2. nx \in 0..Width-CurW /\ ny \in 0..Height-CurH
  BY PlaceOnScreen DEF TrailInv, Pixel
<1>3. /\ ox = -1 \/ ox >= 0
      /\ ox >= 0 => /\ ox \in 0..Width-CurW /\ oy \in 0..Height-CurH
                    /\ \A q \in Block : Backdrop(<<ox + q[1], oy + q[2]>>, under[q])
  BY GfxAssumption, CursorAssumption DEF TrailInv
<1>4. hw = fb /\ \A p \in Pixel \ Cursor : Backdrop(p, fb[p])
  BY <1>1 DEF TrailInv, NoTrail
<1>5. /\ ox < 0 => Cursor = {}
      /\ ox >= 0 => Cursor = Old
  BY <1>3 DEF Cursor
<1>6. CASE moved \/ Changed(on)
  <2>1. /\ under' = IF moved \/ ox < 0 THEN gfx_copy_out(fb1, nx, ny, CurW, CurH)
                    ELSE under
        /\ fb' = draw_cursor(fb1, nx, ny, on)
        /\ hw' = IF double THEN gfx_present_rect(hw1, fb', nx, ny, CurW, CurH)
                 ELSE fb'
        /\ ox' = nx /\ oy' = ny
    BY <1>6 DEF Redraw
  <2>2. ox < 0 => moved
    BY <1>2 DEF Moved
  <2>3. ~ moved => nx = ox /\ ny = oy
    BY DEF Moved
  <2> HIDE DEF nx, ny, moved
  <2>4. ASSUME NEW p \in Pixel
        PROVE  IF p \in BoxPixels /\ Changed(on)
               THEN Boxed(on)[p] \in {Green, Gray}
               ELSE Boxed(on)[p] = fb[p]
    BY BoxesAreColoured DEF Boxed
  <2>5. ASSUME NEW p \in Pixel \ Cursor PROVE Backdrop(p, Boxed(on)[p])
    BY <1>4, <2>4, <2>5 DEF Backdrop
  <2>6. ASSUME NEW p \in Pixel, moved PROVE Backdrop(p, fb1[p])
    <3>1. CASE ox = -1
      <4>1. ~ lift /\ Cursor = {}
        BY <1>5, <3>1
      <4>2. fb1[p] = Boxed(on)[p]
        BY <4>1
      <4>3. p \in Pixel \ Cursor
        BY <4>1
      <4> QED
        BY <2>5, <4>2, <4>3
    <3>2. CASE ox >= 0 /\ p \in Old
      <4> DEFINE q == <<p[1] - ox, p[2] - oy>>
      <4>1. q \in Block /\ p = <<ox + q[1], oy + q[2]>>
        BY <1>3, <3>2, BlockOnScreen
      <4>2. fb1[p] = under[q]
        BY <2>6, <3>2 DEF gfx_blit
      <4> HIDE DEF q
      <4>3. Backdrop(<<ox + q[1], oy + q[2]>>, under[q])
        BY <1>3, <3>2, <4>1
      <4> QED
        BY <4>1, <4>2, <4>3
    <3>3. CASE ox >= 0 /\ p \notin Old
      <4>1. fb1[p] = Boxed(on)[p]
        BY <2>6, <3>3 DEF gfx_blit
      <4> QED
        BY <1>5, <2>5, <3>3, <4>1
    <3> QED
      BY <1>3, <3>1, <3>2, <3>3
  <2>7. ASSUME NEW p \in Pixel \ New PROVE Backdrop(p, fb1[p])
    <3>1. CASE moved
      BY <2>6, <3>1
    <3>2. CASE ~ moved
      BY <1>3, <1>5, <2>2, <2>3, <2>5, <3>2
    <3> QED
      BY <3>1, <3>2
  <2>8. ASSUME NEW p \in Pixel \ New PROVE fb'[p] = fb1[p]
    BY <1>2, <2>1, CursorIsInItsBlock
  <2>9. hw' = fb'
    <3>1. CASE double
      <4>1. ASSUME NEW p \in Pixel \ New PROVE hw1[p] = fb1[p]
        <5>1. ScreenBoxed(on)[p] = Boxed(on)[p]
          BY <1>4, <2>4, BoxesAreEnclosed DEF ScreenBoxed, Boxed, gfx_present_rect
        <5>2. CASE ~ lift
          BY <5>1, <5>2
        <5>3. CASE lift
          BY <5>1, <5>3 DEF gfx_present_rect, gfx_blit
        <5> QED
          BY <5>2, <5>3
      <4> HIDE DEF hw1, fb1
      <4>2. hw' = [p \in Pixel |-> IF p \in New THEN fb'[p] ELSE hw1[p]]
        BY <2>1, <3>1 DEF gfx_present_rect
      <4>3. fb' = [p \in Pixel |-> fb'[p]]
        BY <2>1 DEF draw_cursor
      <4>4. \A p \in Pixel : (IF p \in New THEN fb'[p] ELSE hw1[p]) = fb'[p]
        BY <2>8, <4>1
      <4> QED
        BY <4>2, <4>3, <4>4
    <3>2. CASE ~ double
      BY <2>1, <3>2
    <3> QED
      BY <3>1, <3>2
  <2> HIDE DEF fb1, hw1
  <2>10. Cursor' = New
    BY <1>2, <2>1 DEF Cursor, nx
  <2>11. NoTrail'
    BY <2>7, <2>8, <2>9, <2>10 DEF NoTrail, Backdrop
  <2>12. ASSUME NEW q \in Block
         PROVE  Backdrop(<<nx + q[1], ny + q[2]>>, under'[q])
    <3>1. CASE moved
      <4>1. under'[q] = fb1[<<nx + q[1], ny + q[2]>>]
        BY <2>1, <3>1 DEF gfx_copy_out
      <4>2. <<nx + q[1], ny + q[2]>> \in Pixel
        BY <1>2, BlockOnScreen DEF nx, ny
      <4> QED
        BY <2>6, <3>1, <4>1, <4>2
    <3>2. CASE ~ moved
      BY <1>3, <2>1, <2>2, <2>3, <3>2
    <3> QED
      BY <3>1, <3>2
  <2>13. <<0, 0>> \in Pixel
    BY GfxAssumption DEF Pixel
  <2> QED
    BY <1>1, <1>2, <2>1, <2>11, <2>12, <2>13 DEF TrailInv, Backdrop, nx, ny
<1>7. CASE ~ (moved \/ Changed(on))
  <2>1. UNCHANGED <<under, fb, hw, ox, oy>>
    BY <1>7 DEF Redraw
  <2>2. <<0, 0>> \in Pixel
    BY GfxAssumption DEF Pixel
  <2> QED
    BY <1>1, <2>1, <2>2 DEF TrailInv, NoTrail, Cursor, Backdrop
<1> QED
  BY <1>6, <1>7

LEMMA OthersLeaveNoTrail ==
  ASSUME TrailInv, UNCHANGED <<fb, hw, ox, oy, under>>, at # "off", at' # "off",
         <<mouse'.x, mouse'.y>> \in Pixel, <<mx', my'>> \in Pixel
  PROVE  TrailInv'
BY DEF TrailInv, NoTrail, Cursor, Backdrop

LEMMA LeavingLeavesNoTrail == ASSUME Leave PROVE TrailInv'
<1>1. <<0, 0>> \in Pixel
  BY GfxAssumption DEF Pixel
<1> QED
  BY <1>1 DEF Leave, TrailInv, NoTrail, Unread

LEMMA StepLeavesNoTrail == TrailInv /\ [MNext]_all => TrailInv'
<1> SUFFICES ASSUME TrailInv, [MNext]_all PROVE TrailInv'
  OBVIOUS
<1>1. CASE Shell
  BY <1>1 DEF Shell, demo, TrailInv, NoTrail
<1>2. CASE Start
  BY <1>2, StartLeavesNoTrail
<1>3. CASE Redraw
  BY <1>3, RedrawLeavesNoTrail
<1>4. CASE ReadX \/ ReadY \/ Wake \/ Report
  <2>1. UNCHANGED <<fb, hw, ox, oy, under>> /\ at # "off" /\ at' # "off"
    BY <1>4 DEF ReadX, ReadY, Wake, Report, drawn, buffers
  <2>2. <<mouse'.x, mouse'.y>> \in Pixel
    BY <1>4, MouseOnScreen DEF ReadX, ReadY, Wake, Report, TrailInv
  <2>3. <<mx', my'>> \in Pixel
    BY <1>4 DEF ReadX, ReadY, Wake, Report, TrailInv, Pixel
  <2> QED
    BY <2>1, <2>2, <2>3, OthersLeaveNoTrail
<1>5. CASE EndDemo \/ Exception
  BY <1>5, LeavingLeavesNoTrail DEF EndDemo, Exception
<1>6. CASE UNCHANGED all
  BY <1>6 DEF all, screen, demo, TrailInv, NoTrail, Cursor, Backdrop
<1> QED
  BY <1>1, <1>2, <1>3, <1>4, <1>5, <1>6 DEF MNext, Demo

(* kernel.c:121-137: what the cursor hides is put back where it was, and   *)
(* the parts of the screen that are presented are the parts that changed:  *)
(* for every screen, cursor and scene, wherever a report tears the reads.  *)
THEOREM CursorLeavesNoTrail == MSpec => []NoTrail
<1>1. TrailInv => NoTrail
  BY DEF TrailInv
<1> QED
  BY <1>1, TrailInitially, StepLeavesNoTrail, PTL DEF MSpec

-----------------------------------------------------------------------------
(***************************************************************************)
(* The page.  sheet[k] is the page after the first k characters of text.   *)
(***************************************************************************)
Sheets(n, text, sheet) ==
  \A k \in 0..n : sheet[k] = IF k = 0 THEN Blank ELSE Written(sheet[k - 1], text[k])

LEMMA SheetsExist ==
  ASSUME NEW n \in Nat, NEW text
  PROVE  \E f : f = [k \in 0..n |-> f[k]] /\ Sheets(n, text, f)
<1> DEFINE Body(f, i) == IF i = 0 THEN Blank ELSE Written(f[i - 1], text[i])
           Good(f, k) == /\ f = [i \in 0..n |-> f[i]]
                         /\ \A i \in 0..n : i <= k => f[i] = Body(f, i)
           Q == {k \in Nat : \E f : Good(f, k)}
<1>1. 0 \in Q
  <2> DEFINE f == [i \in 0..n |-> Blank]
  <2>1. Good(f, 0)
    OBVIOUS
  <2> QED
    BY <2>1
<1>2. ASSUME NEW k \in Nat, k \in Q PROVE k + 1 \in Q
  <2>1. PICK f : Good(f, k)
    BY <1>2
  <2> DEFINE g == [i \in 0..n |-> IF i <= k THEN f[i] ELSE Body(f, i)]
  <2>2. \A i \in 0..n : i # 0 => i - 1 \in 0..n
    OBVIOUS
  <2>3. g = [i \in 0..n |-> g[i]]
    OBVIOUS
  <2>4. \A i \in 0..n : i <= k + 1 => g[i] = Body(f, i)
    BY <2>1
  <2>5. \A i \in 0..n : i <= k + 1 => Body(f, i) = Body(g, i)
    BY <2>2
  <2>6. Good(g, k + 1)
    BY <2>3, <2>4, <2>5
  <2> HIDE DEF g, Good
  <2> QED
    BY <2>6
<1>3. \A k \in Nat : k \in Q
  <2> HIDE DEF Q
  <2> QED
    BY <1>1, <1>2, Induction
<1>4. PICK f : Good(f, n)
  BY <1>3
<1>5. \A i \in 0..n : f[i] = Body(f, i)
  BY <1>4
<1>6. Sheets(n, text, f)
  BY <1>5, Zenon DEF Sheets
<1> QED
  BY <1>4, <1>6

LEMMA SheetsAgree ==
  ASSUME NEW n \in Nat, NEW s, NEW t, NEW f, NEW g,
         Sheets(n, s, f), Sheets(n, t, g), \A i \in 1..n : s[i] = t[i]
  PROVE  f[n] = g[n]
<1> DEFINE Q == {k \in Nat : k \in 0..n => f[k] = g[k]}
<1>1. /\ \A i \in 0..n : f[i] = IF i = 0 THEN Blank ELSE Written(f[i - 1], s[i])
      /\ \A i \in 0..n : g[i] = IF i = 0 THEN Blank ELSE Written(g[i - 1], t[i])
  BY DEF Sheets
<1>2. 0 \in Q
  BY <1>1
<1>3. ASSUME NEW k \in Nat, k \in Q PROVE k + 1 \in Q
  <2> SUFFICES ASSUME k + 1 \in 0..n PROVE f[k + 1] = g[k + 1]
    OBVIOUS
  <2>1. k \in 0..n /\ f[k] = g[k] /\ (k + 1) - 1 = k /\ k + 1 # 0 /\ k + 1 \in 1..n
    BY <1>3
  <2> QED
    BY <1>1, <2>1
<1>4. \A k \in Nat : k \in Q
  <2> HIDE DEF Q
  <2> QED
    BY <1>2, <1>3, Induction
<1> QED
  BY <1>4

LEMMA LayoutIs ==
  ASSUME NEW text, Len(text) \in Nat, NEW f, f = [k \in 0..Len(text) |-> f[k]],
         Sheets(Len(text), text, f)
  PROVE  Layout(text) = f[Len(text)]
<1> DEFINE n == Len(text)
           R(h) == h = [k \in 0..n |-> IF k = 0 THEN Blank
                                       ELSE Written(h[k - 1], text[k])]
           c == CHOOSE h : R(h)
<1>1. Layout(text) = c[n]
  BY DEF Layout
<1> HIDE DEF n
<1>2. R(f)
  BY DEF Sheets, n
<1>3. R(c)
  BY <1>2
<1>4. Sheets(n, text, c)
  BY <1>3 DEF Sheets
<1> HIDE DEF c
<1> QED
  BY <1>1, <1>4, SheetsAgree DEF n

LEMMA LayoutNone == Layout(<<>>) = Blank
<1> DEFINE f == [k \in 0..0 |-> Blank]
<1>1. Sheets(0, <<>>, f)
  BY DEF Sheets
<1>2. f = [k \in 0..0 |-> f[k]] /\ f[0] = Blank
  OBVIOUS
<1>3. Len(<<>>) = 0
  OBVIOUS
<1> HIDE DEF f
<1> QED
  BY <1>1, <1>2, <1>3, LayoutIs

LEMMA LayoutAppend ==
  ASSUME NEW E, NEW text \in Seq(E), NEW e \in E
  PROVE  Layout(Append(text, e)) = Written(Layout(text), e)
<1> DEFINE n == Len(text)
           more == Append(text, e)
<1>1. n \in Nat /\ Len(more) = n + 1 /\ more[n + 1] = e
      /\ \A i \in 1..n : text[i] = more[i]
  BY AppendProperties
<1> HIDE DEF n, more
<1>2. PICK f : f = [k \in 0..n |-> f[k]] /\ Sheets(n, text, f)
  BY <1>1, SheetsExist
<1>3. n + 1 \in Nat
  BY <1>1
<1>4. PICK g : g = [k \in 0..(n + 1) |-> g[k]] /\ Sheets(n + 1, more, g)
  BY <1>3, SheetsExist
<1>5. Layout(text) = f[n]
  BY <1>1, <1>2, LayoutIs DEF n
<1>6. Layout(more) = g[n + 1]
  BY <1>1, <1>3, <1>4, LayoutIs
<1>7. Sheets(n, more, g)
  <2>1. \A k \in 0..n : k \in 0..(n + 1)
    BY <1>1
  <2> QED
    BY <1>4, <2>1, Zenon DEF Sheets
<1>8. f[n] = g[n]
  BY <1>1, <1>2, <1>7, SheetsAgree
<1>9. n + 1 \in 0..(n + 1) /\ n + 1 # 0 /\ (n + 1) - 1 = n
  BY <1>1
<1>10. g[n + 1] = Written(g[n], e)
  BY <1>1, <1>4, <1>9 DEF Sheets
<1> QED
  BY <1>5, <1>6, <1>8, <1>10 DEF more

-----------------------------------------------------------------------------
(***************************************************************************)
(* The grid of cells.                                                      *)
(***************************************************************************)
LEMMA Division ==
  ASSUME NEW n \in Nat \ {0}, NEW a \in Nat, NEW q \in Nat
  PROVE  /\ a \div n = q <=> q * n <= a /\ a <= q * n + n - 1
         /\ a \div n = q => a % n = a - q * n
<1> DEFINE d == a \div n
           m == a % n
<1>1. d \in Nat /\ m \in 0..n-1 /\ a = n * d + m
  OBVIOUS
<1> HIDE DEF d, m
<1>2. ASSUME q * n <= a, a <= q * n + n - 1 PROVE d = q
  <2>1. CASE d > q
    <3>1. PICK k \in Nat : d = q + 1 + k
      <4>1. d - q - 1 \in Nat /\ d = q + 1 + (d - q - 1)
        BY <1>1, <2>1
      <4> QED
        BY <4>1
    <3>2. n * d = q * n + n + n * k /\ n * k \in Nat /\ q * n \in Nat
      BY <3>1
    <3> QED
      BY <1>1, <1>2, <3>2
  <2>2. CASE d < q
    <3>1. PICK k \in Nat : q = d + 1 + k
      <4>1. q - d - 1 \in Nat /\ q = d + 1 + (q - d - 1)
        BY <1>1, <2>2
      <4> QED
        BY <4>1
    <3>2. q * n = n * d + n + n * k /\ n * k \in Nat /\ n * d \in Nat
      BY <1>1, <3>1
    <3> QED
      BY <1>1, <1>2, <3>2
  <2> QED
    BY <1>1, <2>1, <2>2
<1>3. n * d = d * n /\ n * d \in Nat
  BY <1>1
<1>4. ASSUME d = q PROVE q * n <= a /\ a <= q * n + n - 1 /\ m = a - q * n
  BY <1>1, <1>3, <1>4
<1> QED
  BY <1>2, <1>4 DEF d, m

LEMMA NextCell ==
  ASSUME NEW n \in Nat \ {0}, NEW a \in Nat
  PROVE  (a + n) \div n = a \div n + 1 /\ (a + n) % n = a % n
<1> DEFINE d == a \div n
<1>1. d \in Nat
  OBVIOUS
<1>2. d * n <= a /\ a <= d * n + n - 1 /\ a % n = a - d * n
  BY <1>1, Division
<1> HIDE DEF d
<1>3. (d + 1) * n = d * n + n /\ d * n \in Nat /\ d + 1 \in Nat /\ a + n \in Nat
  BY <1>1
<1>4. (d + 1) * n <= a + n /\ a + n <= (d + 1) * n + n - 1
  BY <1>2, <1>3
<1>5. (a + n) \div n = d + 1 /\ (a + n) % n = a + n - (d + 1) * n
  <2> DEFINE b == a + n
             e == d + 1
  <2>1. b \in Nat /\ e \in Nat /\ e * n <= b /\ b <= e * n + n - 1
    BY <1>3, <1>4
  <2> HIDE DEF b, e
  <2>2. b \div n = e /\ b % n = b - e * n
    BY <2>1, Division
  <2> QED
    BY <2>2 DEF b, e
<1> QED
  BY <1>2, <1>3, <1>5 DEF d

LEMMA Sizes ==
  /\ CH_W \in Nat \ {0} /\ CH_H \in Nat \ {0}
  /\ Width \in Nat \ {0} /\ Height \in Nat \ {0}
  /\ Cols \in Nat \ {0} /\ Rows \in Nat \ {0}
<1>1. /\ CH_W \in Nat \ {0} /\ CH_H \in Nat \ {0} /\ CH_W <= Width /\ CH_H <= Height
      /\ Width \in Nat \ {0} /\ Height \in Nat \ {0}
  BY ConsoleAssumption, GfxAssumption
<1>2. Cols \in Nat /\ Rows \in Nat
  BY <1>1 DEF Cols, Rows
<1>3. Cols # 0
  <2>1. Cols = 0 => Width <= 0 * CH_W + CH_W - 1
    BY <1>1, Division DEF Cols
  <2> QED
    BY <1>1, <2>1
<1>4. Rows # 0
  <2>1. Rows = 0 => Height <= 0 * CH_H + CH_H - 1
    BY <1>1, Division DEF Rows
  <2> QED
    BY <1>1, <2>1
<1> QED
  BY <1>1, <1>2, <1>3, <1>4

LEMMA PixelIs ==
  ASSUME NEW p \in Pixel
  PROVE  /\ p = <<p[1], p[2]>> /\ p[1] \in Nat /\ p[2] \in Nat
         /\ p[1] < Width /\ p[2] < Height
BY Sizes DEF Pixel

LEMMA CellOfPixel ==
  ASSUME NEW p \in Pixel, NEW c \in Nat, NEW r \in Nat
  PROVE  LET cell == Rect(c * CH_W, r * CH_H, CH_W, CH_H)
         IN  /\ p \in cell <=> p[1] \div CH_W = c /\ p[2] \div CH_H = r
             /\ p \in cell => <<p[1] - c * CH_W, p[2] - r * CH_H>>
                               = <<p[1] % CH_W, p[2] % CH_H>>
<1> DEFINE x == c * CH_W
           y == r * CH_H
<1>1. x \in Nat /\ y \in Nat
  BY Sizes
<1>2. p[1] \in Nat /\ p[2] \in Nat
  BY PixelIs
<1>3. /\ p[1] \div CH_W = c <=> x <= p[1] /\ p[1] <= x + CH_W - 1
      /\ p[1] \div CH_W = c => p[1] % CH_W = p[1] - x
  BY <1>2, Division, Sizes
<1>4. /\ p[2] \div CH_H = r <=> y <= p[2] /\ p[2] <= y + CH_H - 1
      /\ p[2] \div CH_H = r => p[2] % CH_H = p[2] - y
  BY <1>2, Division, Sizes
<1> HIDE DEF x, y
<1>5. p \in Rect(x, y, CH_W, CH_H) <=>
        /\ x <= p[1] /\ p[1] <= x + CH_W - 1
        /\ y <= p[2] /\ p[2] <= y + CH_H - 1
  BY <1>1, <1>2, Sizes DEF Rect
<1> QED
  BY <1>3, <1>4, <1>5 DEF x, y

-----------------------------------------------------------------------------
(***************************************************************************)
(* What a drawing does to a view of the page.                              *)
(***************************************************************************)
LEMMA ViewAt ==
  ASSUME NEW cells, NEW top, NEW bg, NEW p \in Pixel
  PROVE  View(cells, top, bg)[p] =
           Shown(cells, <<p[1] \div CH_W, p[2] \div CH_H + top>>,
                 <<p[1] % CH_W, p[2] % CH_H>>, bg)
BY DEF View

LEMMA ShownElsewhere ==
  ASSUME NEW cells, NEW c, NEW i, NEW cell, cell # c, NEW dot, NEW bg
  PROVE  /\ Shown(Put(cells, c, i), cell, dot, bg) = Shown(cells, cell, dot, bg)
         /\ Shown(Erase(cells, c), cell, dot, bg) = Shown(cells, cell, dot, bg)
<1>1. /\ cell \in DOMAIN Put(cells, c, i) <=> cell \in DOMAIN cells
      /\ cell \in DOMAIN Put(cells, c, i) => Put(cells, c, i)[cell] = cells[cell]
  BY DEF Put
<1>2. /\ cell \in DOMAIN Erase(cells, c) <=> cell \in DOMAIN cells
      /\ cell \in DOMAIN Erase(cells, c) => Erase(cells, c)[cell] = cells[cell]
  BY DEF Erase
<1> QED
  BY <1>1, <1>2, Zenon DEF Shown

LEMMA ShownThere ==
  ASSUME NEW cells, NEW c, NEW i, NEW dot, NEW bg
  PROVE  /\ Shown(Put(cells, c, i), c, dot, bg)
               = IF dot \in Glyph[i.char] THEN i.fg ELSE bg
         /\ Shown(Erase(cells, c), c, dot, bg) = bg
<1>1. c \in DOMAIN Put(cells, c, i) /\ Put(cells, c, i)[c] = i
  BY DEF Put
<1>2. c \notin DOMAIN Erase(cells, c)
  BY DEF Erase
<1> QED
  BY <1>1, <1>2, Zenon DEF Shown

(* gfx_char in row r of the screen, which is row r + top of the page.      *)
LEMMA CharIsShown ==
  ASSUME NEW cells, NEW top \in Nat, NEW bg, NEW c \in Nat, NEW r \in Nat, NEW i
  PROVE  gfx_char(View(cells, top, bg), Glyph[i.char], c * CH_W, r * CH_H,
                  CH_W, CH_H, i.fg, bg)
           = View(Put(cells, <<c, r + top>>, i), top, bg)
<1> DEFINE old == View(cells, top, bg)
           place == <<c, r + top>>
           more == Put(cells, place, i)
           new == View(more, top, bg)
           rect == Rect(c * CH_W, r * CH_H, CH_W, CH_H)
           Drawn(p) == IF p \in rect
                       THEN IF <<p[1] - c * CH_W, p[2] - r * CH_H>> \in Glyph[i.char]
                            THEN i.fg ELSE bg
                       ELSE old[p]
<1>1. ASSUME NEW p \in Pixel PROVE Drawn(p) = new[p]
  <2> DEFINE col == p[1] \div CH_W
             row == p[2] \div CH_H
             cell == <<col, row + top>>
             dot == <<p[1] % CH_W, p[2] % CH_H>>
  <2>1. /\ p \in rect <=> col = c /\ row = r
        /\ p \in rect => <<p[1] - c * CH_W, p[2] - r * CH_H>> = dot
    BY CellOfPixel
  <2>2. row \in Nat
    BY PixelIs, Sizes
  <2>3. p \in rect <=> cell = place
    <3> HIDE DEF col, row, rect
    <3> QED
      BY <2>1, <2>2
  <2>4. old[p] = Shown(cells, cell, dot, bg) /\ new[p] = Shown(more, cell, dot, bg)
    <3>1. old[p] = Shown(cells, cell, dot, bg)
      BY ViewAt
    <3> HIDE DEF more
    <3>2. new[p] = Shown(more, cell, dot, bg)
      BY ViewAt
    <3> QED
      BY <3>1, <3>2
  <2> HIDE DEF cell, dot, old, new, rect, place
  <2>5. CASE p \in rect
    <3>1. Shown(more, place, dot, bg) = IF dot \in Glyph[i.char] THEN i.fg ELSE bg
      BY ShownThere
    <3> QED
      BY <2>1, <2>3, <2>4, <2>5, <3>1
  <2>6. CASE p \notin rect
    <3>1. Shown(more, cell, dot, bg) = Shown(cells, cell, dot, bg)
      BY <2>3, <2>6, ShownElsewhere
    <3> QED
      BY <2>4, <2>6, <3>1
  <2> QED
    BY <2>5, <2>6
<1>2. gfx_char(old, Glyph[i.char], c * CH_W, r * CH_H, CH_W, CH_H, i.fg, bg)
        = [p \in Pixel |-> Drawn(p)]
  BY DEF gfx_char
<1>3. new = [p \in Pixel |-> new[p]]
  BY DEF View
<1> HIDE DEF old, new, Drawn
<1>4. [p \in Pixel |-> Drawn(p)] = [p \in Pixel |-> new[p]]
  BY <1>1
<1> QED
  BY <1>2, <1>3, <1>4 DEF old, new

LEMMA EraseIsShown ==
  ASSUME NEW cells, NEW top \in Nat, NEW bg, NEW c \in Nat, NEW r \in Nat
  PROVE  gfx_fill_rect(View(cells, top, bg), c * CH_W, r * CH_H, CH_W, CH_H, bg)
           = View(Erase(cells, <<c, r + top>>), top, bg)
<1> DEFINE old == View(cells, top, bg)
           place == <<c, r + top>>
           less == Erase(cells, place)
           new == View(less, top, bg)
           rect == Rect(c * CH_W, r * CH_H, CH_W, CH_H)
           Drawn(p) == IF p \in rect THEN bg ELSE old[p]
<1>1. ASSUME NEW p \in Pixel PROVE Drawn(p) = new[p]
  <2> DEFINE col == p[1] \div CH_W
             row == p[2] \div CH_H
             cell == <<col, row + top>>
             dot == <<p[1] % CH_W, p[2] % CH_H>>
  <2>1. p \in rect <=> col = c /\ row = r
    BY CellOfPixel
  <2>2. row \in Nat
    BY PixelIs, Sizes
  <2>3. p \in rect <=> cell = place
    <3> HIDE DEF col, row, rect
    <3> QED
      BY <2>1, <2>2
  <2>4. old[p] = Shown(cells, cell, dot, bg) /\ new[p] = Shown(less, cell, dot, bg)
    <3>1. old[p] = Shown(cells, cell, dot, bg)
      BY ViewAt
    <3> HIDE DEF less
    <3>2. new[p] = Shown(less, cell, dot, bg)
      BY ViewAt
    <3> QED
      BY <3>1, <3>2
  <2> HIDE DEF cell, dot, old, new, rect, place
  <2>5. CASE p \in rect
    <3>1. Shown(less, place, dot, bg) = bg
      BY ShownThere
    <3> QED
      BY <2>3, <2>4, <2>5, <3>1
  <2>6. CASE p \notin rect
    <3>1. Shown(less, cell, dot, bg) = Shown(cells, cell, dot, bg)
      BY <2>3, <2>6, ShownElsewhere
    <3> QED
      BY <2>4, <2>6, <3>1
  <2> QED
    BY <2>5, <2>6
<1>2. gfx_fill_rect(old, c * CH_W, r * CH_H, CH_W, CH_H, bg)
        = [p \in Pixel |-> Drawn(p)]
  BY DEF gfx_fill_rect
<1>3. new = [p \in Pixel |-> new[p]]
  BY DEF View
<1> HIDE DEF old, new, Drawn
<1>4. [p \in Pixel |-> Drawn(p)] = [p \in Pixel |-> new[p]]
  BY <1>1
<1> QED
  BY <1>2, <1>3, <1>4 DEF old, new

(* A scroll of one row, when nothing is on the page below the screen.      *)
LEMMA ScrollIsShown ==
  ASSUME NEW cells, NEW top \in Nat, NEW bg,
         \A cell \in DOMAIN cells : cell[2] < top + Rows
  PROVE  gfx_scroll_up(View(cells, top, bg), CH_H, bg) = View(cells, top + 1, bg)
<1> DEFINE old == View(cells, top, bg)
           new == View(cells, top + 1, bg)
           Drawn(p) == IF p[2] + CH_H < Height THEN old[<<p[1], p[2] + CH_H>>] ELSE bg
<1>1. ASSUME NEW p \in Pixel PROVE Drawn(p) = new[p]
  <2>1. p[1] \in Nat /\ p[2] \in Nat /\ p[1] < Width /\ p[2] < Height
    BY PixelIs
  <2> DEFINE col == p[1] \div CH_W
             row == p[2] \div CH_H
             dot == <<p[1] % CH_W, p[2] % CH_H>>
             q == <<p[1], p[2] + CH_H>>
  <2>2. row \in Nat
    BY <2>1, Sizes
  <2>3. new[p] = Shown(cells, <<col, row + (top + 1)>>, dot, bg)
    BY ViewAt
  <2>4. CASE p[2] + CH_H < Height
    <3>1. q \in Pixel /\ q[1] = p[1] /\ q[2] = p[2] + CH_H
      BY <2>1, <2>4, Sizes DEF Pixel
    <3>2. q[2] \div CH_H = row + 1 /\ q[2] % CH_H = p[2] % CH_H
      BY <2>1, <3>1, NextCell, Sizes
    <3> HIDE DEF q
    <3>3. old[q] = Shown(cells, <<q[1] \div CH_W, q[2] \div CH_H + top>>,
                         <<q[1] % CH_W, q[2] % CH_H>>, bg)
      BY <3>1, ViewAt
    <3> HIDE DEF row
    <3>4. old[q] = Shown(cells, <<col, row + 1 + top>>, dot, bg)
      BY <3>1, <3>2, <3>3
    <3>5. row + 1 + top = row + (top + 1)
      BY <2>2
    <3> HIDE DEF old, new
    <3> QED
      BY <2>3, <2>4, <3>4, <3>5 DEF q
  <2>5. CASE ~ (p[2] + CH_H < Height)
    <3>1. Rows * CH_H <= Height
      BY Division, Sizes DEF Rows
    <3>2. p[2] <= row * CH_H + CH_H - 1
      BY <2>1, <2>2, Division, Sizes
    <3> HIDE DEF row
    <3>3. row >= Rows - 1
      <4> SUFFICES ASSUME row + 2 <= Rows PROVE FALSE
        BY <2>2, Sizes
      <4>1. PICK k \in Nat : Rows = row + 2 + k
        <5>1. Rows - row - 2 \in Nat /\ Rows = row + 2 + (Rows - row - 2)
          BY <2>2, Sizes
        <5> QED
          BY <5>1
      <4>2. Rows * CH_H = row * CH_H + 2 * CH_H + k * CH_H
            /\ k * CH_H \in Nat /\ row * CH_H \in Nat
        BY <2>2, <4>1, Sizes
      <4> QED
        BY <2>1, <2>5, <3>1, <3>2, <4>2, Sizes
    <3>4. row + (top + 1) >= top + Rows
      BY <2>2, <3>3, Sizes
    <3>5. <<col, row + (top + 1)>> \notin DOMAIN cells
      BY <2>2, <3>4, Sizes
    <3>6. new[p] = bg
      BY <2>3, <3>5, Zenon DEF Shown
    <3> HIDE DEF old, new
    <3> QED
      BY <2>5, <3>6
  <2> QED
    BY <2>4, <2>5
<1>2. gfx_scroll_up(old, CH_H, bg) = [p \in Pixel |-> Drawn(p)]
  BY DEF gfx_scroll_up
<1>3. new = [p \in Pixel |-> new[p]]
  BY DEF View
<1> HIDE DEF old, new, Drawn
<1>4. [p \in Pixel |-> Drawn(p)] = [p \in Pixel |-> new[p]]
  BY <1>1
<1> QED
  BY <1>2, <1>3, <1>4 DEF old, new

LEMMA ClearIsShown ==
  ASSUME NEW top, NEW bg
  PROVE  gfx_clear(bg) = View(Blank.cells, top, bg)
<1>1. Blank.cells = <<>> /\ DOMAIN <<>> = {}
  BY DEF Blank
<1>2. \A cell, dot : Shown(Blank.cells, cell, dot, bg) = bg
  BY <1>1, Zenon DEF Shown
<1> QED
  BY <1>2, Zenon DEF View, gfx_clear

-----------------------------------------------------------------------------
(***************************************************************************)
(* The steps of putchar.                                                   *)
(***************************************************************************)
LEMMA EndOfRow ==
  ASSUME NEW x \in 0..Cols-1
  PROVE  /\ x + 1 >= Cols => (x + 1) % Cols = 0 /\ (x + 1) \div Cols = 1
         /\ x + 1 < Cols => (x + 1) % Cols = x + 1 /\ (x + 1) \div Cols = 0
<1>1. Cols \in Nat \ {0} /\ x + 1 \in Nat /\ x \in Nat
  BY Sizes
<1> DEFINE n == x + 1
<1>2. n \in Nat /\ n <= Cols
  BY <1>1
<1> HIDE DEF n
<1>3. CASE n >= Cols
  <2>1. 1 * Cols <= n /\ n <= 1 * Cols + Cols - 1
    BY <1>1, <1>2, <1>3
  <2>2. n \div Cols = 1 /\ n % Cols = n - 1 * Cols
    BY <1>1, <1>2, <2>1, Division
  <2> QED
    BY <1>1, <1>2, <1>3, <2>2 DEF n
<1>4. CASE n < Cols
  <2>1. 0 * Cols <= n /\ n <= 0 * Cols + Cols - 1
    BY <1>1, <1>2, <1>4
  <2>2. n \div Cols = 0 /\ n % Cols = n - 0 * Cols
    BY <1>1, <1>2, <2>1, Division
  <2> QED
    BY <1>1, <1>2, <1>4, <2>2 DEF n
<1> QED
  BY <1>1, <1>2, <1>3, <1>4 DEF n

LEMMA WrittenIs ==
  ASSUME NEW s, NEW i
  PROVE  LET left == IF s.x > 0 THEN s.x - 1 ELSE 0
         IN  /\ i.char = NL =>
                  Written(s, i) = [x |-> 0, y |-> s.y + 1, cells |-> s.cells]
             /\ i.char = CR =>
                  Written(s, i) = [x |-> 0, y |-> s.y, cells |-> s.cells]
             /\ i.char = BS =>
                  Written(s, i) = [x |-> left, y |-> s.y,
                                   cells |-> Erase(s.cells, <<left, s.y>>)]
             /\ i.char \in Char =>
                  Written(s, i) = [x |-> (s.x + 1) % Cols,
                                   y |-> s.y + (s.x + 1) \div Cols,
                                   cells |-> Put(s.cells, <<s.x, s.y>>, i)]
<1>1. i.char \in Char => i.char # NL /\ i.char # CR /\ i.char # BS
  BY ConsoleAssumption DEF NL, CR, BS
<1>2. NL # CR /\ NL # BS /\ CR # BS
  BY DEF NL, CR, BS
<1> QED
  BY <1>1, <1>2, Zenon DEF Written

LEMMA SheetGrows ==
  ASSUME ConsoleInv, Begin
  PROVE  LET item == [char |-> char', fg |-> con_fg]
         IN  Sheet' = Written(Sheet, item) /\ page' \in Seq(Item) /\ item \in Item
<1> DEFINE item == [char |-> char', fg |-> con_fg]
<1>1. item \in Item
  BY DEF ConsoleInv, Begin, Item
<1>2. page \in Seq(Item) /\ page' = Append(page, item)
  BY DEF ConsoleInv, Begin
<1> HIDE DEF item
<1>3. page' \in Seq(Item)
  BY <1>1, <1>2, AppendProperties
<1>4. Layout(page') = Written(Layout(page), item)
  BY <1>1, <1>2, LayoutAppend
<1> QED
  BY <1>1, <1>3, <1>4 DEF Sheet, item

(* What is known where putchar begins.                                     *)
LEMMA AtTheStart ==
  ASSUME ConsoleInv, BuffersInv, pc = "idle"
  PROVE  /\ Wraps = 0 /\ Top = Sheet.y - cur_y /\ Sheet.x = cur_x
         /\ cur_x \in 0..Cols-1 /\ cur_y \in Nat /\ cur_y < Rows
         /\ Sheet.y \in Nat /\ Top \in Nat /\ Sheet.y = cur_y + Top
         /\ Top = 0 \/ cur_y >= Rows - 1
         /\ \A cell \in DOMAIN Sheet.cells : cell \in (0..Cols-1) \X (0..Sheet.y)
         /\ fb = View(Sheet.cells, Top, con_bg) /\ hw = fb
<1>1. Wraps = 0
  BY DEF Wraps
<1>2. Top \in Nat /\ Sheet.y \in Nat /\ cur_y \in Nat /\ cur_y < Rows
      /\ (Top = 0 \/ cur_y >= Rows - 1) /\ Sheet.x = cur_x /\ cur_x \in 0..Cols-1
  BY Sizes DEF ConsoleInv, PlaceInv
<1>3. Top = Sheet.y - cur_y
  BY <1>1, <1>2 DEF Top
<1>4. \A cell \in DOMAIN Sheet.cells : cell \in (0..Cols-1) \X (0..Sheet.y)
  BY <1>1, <1>2 DEF ConsoleInv, CellsInv
<1>5. fb = View(Sheet.cells, Top, con_bg) /\ hw = fb
  BY DEF BuffersInv
<1> QED
  BY <1>1, <1>2, <1>3, <1>4, <1>5

LEMMA NewlineKeeps ==
  ASSUME ConsoleInv, BuffersInv, Begin, char' \in {NL, CR}
  PROVE  ConsoleInv' /\ BuffersInv'
<1>1. pc = "idle"
  BY DEF Begin
<1> DEFINE item == [char |-> char', fg |-> con_fg]
           down == IF char' = NL THEN 1 ELSE 0
<1>2. /\ cur_x' = 0 /\ cur_y' = cur_y + down /\ pc' = "scroll"
      /\ UNCHANGED <<fb, hw, con_fg, con_bg>>
  <2>1. NL # CR /\ NL # BS /\ CR # BS
    BY DEF NL, CR, BS
  <2>2. cur_y \in Nat
    BY <1>1, AtTheStart
  <2>3. CASE char' = NL
    <3>1. cur_x' = 0 /\ cur_y' = cur_y + 1 /\ pc' = "scroll" /\ UNCHANGED <<fb, hw>>
      BY <2>1, <2>3, Zenon DEF Begin, buffers
    <3> QED
      BY <2>3, <3>1 DEF Begin, colours
  <2>4. CASE char' = CR
    <3>1. cur_x' = 0 /\ cur_y' = cur_y /\ pc' = "scroll" /\ UNCHANGED <<fb, hw>>
      BY <2>1, <2>4, Zenon DEF Begin, buffers
    <3> QED
      BY <2>1, <2>2, <2>4, <3>1 DEF Begin, colours
  <2> QED
    BY <2>3, <2>4
<1>3. Sheet' = Written(Sheet, item) /\ page' \in Seq(Item)
  BY SheetGrows
<1>4. Written(Sheet, item) = [x |-> 0, y |-> Sheet.y + down, cells |-> Sheet.cells]
  <2>1. item.char = char' /\ NL # CR
    BY DEF NL, CR
  <2>2. CASE char' = NL
    BY <2>1, <2>2, WrittenIs
  <2>3. CASE char' = CR
    <3>1. Written(Sheet, item) = [x |-> 0, y |-> Sheet.y, cells |-> Sheet.cells]
      BY <2>1, <2>3, WrittenIs
    <3>2. Sheet.y = Sheet.y + down
      BY <1>1, <2>1, <2>3, AtTheStart
    <3> QED
      BY <3>1, <3>2
  <2> QED
    BY <2>2, <2>3
<1>5. Sheet'.x = 0 /\ Sheet'.y = Sheet.y + down /\ Sheet'.cells = Sheet.cells
  BY <1>3, <1>4
<1>6. down \in 0..1
  OBVIOUS
<1> HIDE DEF down, item
<1>7. Wraps' = 0 /\ Top' = Top
  <2>1. Wraps' = 0
    BY <1>2 DEF Wraps
  <2> QED
    BY <1>1, <1>2, <1>5, <1>6, <2>1, AtTheStart DEF Top
<1>8. PlaceInv'
  BY <1>1, <1>2, <1>5, <1>6, <1>7, AtTheStart, Sizes DEF PlaceInv
<1>9. CellsInv'
  <2> SUFFICES ASSUME NEW cell \in DOMAIN Sheet.cells
               PROVE  /\ cell \in (0..Cols-1) \X (0..Sheet'.y - Wraps')
                      /\ cur_y' = Rows => cell[2] < Sheet'.y
    BY <1>5 DEF CellsInv
  <2>1. cell \in (0..Cols-1) \X (0..Sheet.y) /\ cur_y < Rows /\ Sheet.y \in Nat
        /\ cur_y \in Nat
    BY <1>1, AtTheStart
  <2> QED
    BY <1>2, <1>5, <1>6, <1>7, <2>1, Sizes
<1>10. BuffersInv'
  <2>1. fb' = View(Sheet'.cells, Top', con_bg')
    BY <1>1, <1>2, <1>5, <1>7, AtTheStart
  <2> QED
    BY <1>1, <1>2, <2>1, AtTheStart DEF BuffersInv
<1>11. con_fg' \in Ink
  BY <1>2 DEF ConsoleInv
<1> QED
  BY <1>2, <1>3, <1>8, <1>9, <1>10, <1>11 DEF ConsoleInv

LEMMA CharacterKeeps ==
  ASSUME ConsoleInv, BuffersInv, Begin, char' \in Char
  PROVE  ConsoleInv' /\ BuffersInv'
<1>1. pc = "idle"
  BY DEF Begin
<1> DEFINE item == [char |-> char', fg |-> con_fg]
           place == <<cur_x, Sheet.y>>
<1>2. char' # NL /\ char' # CR /\ char' # BS
  BY ConsoleAssumption DEF NL, CR, BS
<1>3. /\ fb' = gfx_char(fb, Glyph[char'], cur_x * CH_W, cur_y * CH_H,
                        CH_W, CH_H, con_fg, con_bg)
      /\ pc' = "present" /\ UNCHANGED <<cur_x, cur_y, con_fg, con_bg>>
  BY <1>2 DEF Begin, Draw, colours
<1>4. Sheet' = Written(Sheet, item) /\ page' \in Seq(Item)
  BY SheetGrows
<1>5. Sheet'.x = (cur_x + 1) % Cols /\ Sheet'.y = Sheet.y + (cur_x + 1) \div Cols
      /\ Sheet'.cells = Put(Sheet.cells, place, item)
  <2>1. item.char \in Char
    OBVIOUS
  <2>2. Sheet.x = cur_x
    BY <1>1, AtTheStart
  <2> HIDE DEF item
  <2>3. Written(Sheet, item) =
          [x |-> (Sheet.x + 1) % Cols, y |-> Sheet.y + (Sheet.x + 1) \div Cols,
           cells |-> Put(Sheet.cells, <<Sheet.x, Sheet.y>>, item)]
    BY <2>1, WrittenIs
  <2> QED
    BY <1>4, <2>2, <2>3
<1> DEFINE wraps == (cur_x + 1) \div Cols
<1>6. wraps = (IF cur_x + 1 >= Cols THEN 1 ELSE 0) /\ wraps \in 0..1
  <2>1. cur_x \in 0..Cols-1
    BY <1>1, AtTheStart
  <2>2. cur_x + 1 >= Cols \/ cur_x + 1 < Cols
    BY <2>1, Sizes
  <2> QED
    BY <2>1, <2>2, EndOfRow
<1>7. Wraps' = wraps
  BY <1>2, <1>3, <1>6 DEF Wraps
<1>8. (cur_x + 1) % Cols \in 0..Cols-1
  BY <1>1, AtTheStart, Sizes
<1> HIDE DEF wraps, item
<1>9. Top' = Top /\ Sheet'.y = Sheet.y + wraps
  BY <1>1, <1>3, <1>5, <1>6, <1>7, AtTheStart DEF Top, wraps
<1>10. PlaceInv'
  BY <1>1, <1>2, <1>3, <1>5, <1>6, <1>8, <1>9, AtTheStart, Sizes DEF PlaceInv
<1>11. CellsInv'
  <2>1. DOMAIN Sheet'.cells = DOMAIN Sheet.cells \cup {place}
    BY <1>5 DEF Put
  <2>2. place \in (0..Cols-1) \X (0..Sheet.y)
    BY <1>1, AtTheStart
  <2>3. \A cell \in DOMAIN Sheet'.cells : cell \in (0..Cols-1) \X (0..Sheet.y)
    BY <1>1, <2>1, <2>2, AtTheStart
  <2>4. Sheet.y = Sheet'.y - Wraps' /\ cur_y' # Rows
    BY <1>1, <1>3, <1>6, <1>7, <1>9, AtTheStart, Sizes
  <2> QED
    BY <2>3, <2>4 DEF CellsInv
<1>12. BuffersInv'
  <2>1. place = <<cur_x, cur_y + Top>> /\ cur_x \in Nat /\ cur_y \in Nat /\ Top \in Nat
    BY <1>1, AtTheStart
  <2>2. Glyph[char'] = Glyph[item.char] /\ con_fg = item.fg
    BY DEF item
  <2> HIDE DEF place
  <2>3. fb' = View(Sheet'.cells, Top, con_bg)
    <3>1. fb' = gfx_char(View(Sheet.cells, Top, con_bg), Glyph[item.char],
                         cur_x * CH_W, cur_y * CH_H, CH_W, CH_H, item.fg, con_bg)
      BY <1>1, <1>3, <2>2, AtTheStart
    <3>2. fb' = View(Put(Sheet.cells, <<cur_x, cur_y + Top>>, item), Top, con_bg)
      BY <2>1, <3>1, CharIsShown
    <3> QED
      BY <1>5, <2>1, <3>2
  <2>4. ASSUME NEW p \in Pixel \ Rect(cur_x * CH_W, cur_y * CH_H, CH_W, CH_H)
        PROVE  hw'[p] = fb'[p]
    <3>1. fb'[p] = fb[p]
      BY <1>3 DEF gfx_char
    <3>2. hw' = fb' \/ hw' = hw
      BY <1>2 DEF Begin, Draw
    <3>3. hw = fb
      BY <1>1, AtTheStart
    <3> QED
      BY <3>1, <3>2, <3>3
  <2> QED
    BY <1>3, <1>9, <2>3, <2>4 DEF BuffersInv
<1>13. con_fg' \in Ink
  BY <1>3 DEF ConsoleInv
<1> QED
  BY <1>3, <1>4, <1>10, <1>11, <1>12, <1>13 DEF ConsoleInv

LEMMA BackspaceKeeps ==
  ASSUME ConsoleInv, BuffersInv, Begin, char' = BS
  PROVE  ConsoleInv' /\ BuffersInv'
<1>1. pc = "idle"
  BY DEF Begin
<1> DEFINE item == [char |-> char', fg |-> con_fg]
           left == IF cur_x > 0 THEN cur_x - 1 ELSE 0
           place == <<left, Sheet.y>>
<1>2. NL # CR /\ NL # BS /\ CR # BS
  BY DEF NL, CR, BS
<1>3. /\ cur_x' = left /\ UNCHANGED cur_y /\ pc' = "present"
      /\ Draw(gfx_fill_rect(fb, cur_x' * CH_W, cur_y * CH_H, CH_W, CH_H, con_bg))
  BY <1>2, Zenon DEF Begin
<1>4. UNCHANGED <<con_fg, con_bg>>
  BY DEF Begin, colours
<1>5. left \in 0..Cols-1
  <2>1. cur_x \in 0..Cols-1
    BY <1>1, AtTheStart
  <2> QED
    BY <2>1, Sizes
<1>6. Sheet' = Written(Sheet, item) /\ page' \in Seq(Item)
  BY SheetGrows
<1>7. Sheet'.x = left /\ Sheet'.y = Sheet.y /\ Sheet'.cells = Erase(Sheet.cells, place)
  <2>1. item.char = BS /\ Sheet.x = cur_x
    BY <1>1, AtTheStart
  <2> HIDE DEF item
  <2>2. Written(Sheet, item) =
          [x |-> left, y |-> Sheet.y, cells |-> Erase(Sheet.cells, place)]
    BY <2>1, WrittenIs
  <2> QED
    BY <1>6, <2>2
<1> HIDE DEF left, item
<1>8. Wraps' = 0
  BY DEF Wraps
<1>9. Top' = Top
  BY <1>1, <1>3, <1>7, <1>8, AtTheStart DEF Top
<1>10. PlaceInv'
  BY <1>1, <1>3, <1>5, <1>7, <1>8, <1>9, AtTheStart, Sizes DEF PlaceInv
<1>11. CellsInv'
  <2>1. DOMAIN Sheet'.cells \subseteq DOMAIN Sheet.cells
    BY <1>7 DEF Erase
  <2>2. cur_y' # Rows
    BY <1>1, <1>3, AtTheStart, Sizes
  <2>3. \A cell \in DOMAIN Sheet'.cells : cell \in (0..Cols-1) \X (0..Sheet.y)
    BY <1>1, <2>1, AtTheStart
  <2>4. Sheet.y = Sheet'.y - Wraps'
    BY <1>1, <1>7, <1>8, AtTheStart
  <2> QED
    BY <2>2, <2>3, <2>4 DEF CellsInv
<1>12. BuffersInv'
  <2>1. place = <<left, cur_y + Top>> /\ left \in Nat /\ cur_y \in Nat /\ Top \in Nat
    BY <1>1, <1>5, AtTheStart
  <2> HIDE DEF place
  <2>2. fb' = View(Sheet'.cells, Top, con_bg)
    <3>1. fb' = gfx_fill_rect(View(Sheet.cells, Top, con_bg),
                              left * CH_W, cur_y * CH_H, CH_W, CH_H, con_bg)
      BY <1>1, <1>3, AtTheStart DEF Draw
    <3>2. fb' = View(Erase(Sheet.cells, <<left, cur_y + Top>>), Top, con_bg)
      BY <2>1, <3>1, EraseIsShown
    <3> QED
      BY <1>7, <2>1, <3>2
  <2>3. ASSUME NEW p \in Pixel \ Rect(left * CH_W, cur_y * CH_H, CH_W, CH_H)
        PROVE  hw'[p] = fb'[p]
    <3>1. fb'[p] = fb[p]
      BY <1>3 DEF Draw, gfx_fill_rect
    <3>2. hw' = fb' \/ hw' = hw
      BY <1>3 DEF Draw
    <3>3. hw = fb
      BY <1>1, AtTheStart
    <3> QED
      BY <3>1, <3>2, <3>3
  <2> QED
    BY <1>3, <1>4, <1>9, <2>2, <2>3 DEF BuffersInv
<1>13. con_fg' \in Ink
  BY <1>4 DEF ConsoleInv
<1> QED
  BY <1>3, <1>6, <1>10, <1>11, <1>12, <1>13 DEF ConsoleInv

(* A present leaves no difference between the buffers where it presents.   *)
LEMMA PresentShows ==
  ASSUME NEW old, NEW cells, NEW top, NEW bg, NEW x, NEW y, NEW w, NEW h,
         \A p \in Pixel \ Rect(x, y, w, h) : old[p] = View(cells, top, bg)[p]
  PROVE  gfx_present_rect(old, View(cells, top, bg), x, y, w, h) = View(cells, top, bg)
<1> DEFINE new == View(cells, top, bg)
<1>1. new = [p \in Pixel |-> new[p]]
  BY DEF View
<1> HIDE DEF new
<1>2. [p \in Pixel |-> IF p \in Rect(x, y, w, h) THEN new[p] ELSE old[p]]
        = [p \in Pixel |-> new[p]]
  BY DEF new
<1> QED
  BY <1>1, <1>2 DEF gfx_present_rect, new

LEMMA PresentCellKeeps ==
  ASSUME ConsoleInv, BuffersInv, PresentCell
  PROVE  ConsoleInv' /\ BuffersInv'
<1>1. /\ pc = "present" /\ pc' = "scroll"
      /\ hw' = gfx_present_rect(hw, fb, cur_x * CH_W, cur_y * CH_H, CH_W, CH_H)
      /\ UNCHANGED <<fb, con_fg, con_bg, char, page>>
  BY DEF PresentCell, Present, colours
<1>2. /\ cur_x \in 0..Cols-1 /\ cur_y \in Nat /\ cur_y < Rows
      /\ Sheet.y \in Nat /\ Top \in Nat /\ (Top = 0 \/ cur_y >= Rows - 1)
      /\ char # BS => Sheet.x = (cur_x + 1) % Cols
      /\ char = BS => Sheet.x = cur_x
  BY <1>1, Sizes DEF ConsoleInv, PlaceInv
<1>3. Sheet' = Sheet
  BY <1>1 DEF Sheet
<1>4. Wraps \in 0..1 /\ Wraps' = 0 /\ cur_y' = cur_y + Wraps
  BY <1>1, <1>2 DEF Wraps, PresentCell
<1>5. Top' = Top
  BY <1>2, <1>3, <1>4 DEF Top
<1>6. Sheet.x = cur_x' /\ cur_x' \in 0..Cols-1
  <2>1. CASE char = BS
    BY <1>2, <2>1 DEF PresentCell
  <2>2. CASE char # BS /\ cur_x + 1 >= Cols
    BY <1>2, <2>2, EndOfRow, Sizes DEF PresentCell
  <2>3. CASE char # BS /\ cur_x + 1 < Cols
    <3>1. cur_x' = cur_x + 1
      BY <1>2, <2>3, Sizes DEF PresentCell
    <3> QED
      BY <1>2, <2>3, <3>1, EndOfRow, Sizes
  <2> QED
    BY <1>2, <2>1, <2>2, <2>3, Sizes
<1>7. PlaceInv'
  BY <1>1, <1>2, <1>3, <1>4, <1>5, <1>6, Sizes DEF PlaceInv
<1>8. CellsInv'
  <2> SUFFICES ASSUME NEW cell \in DOMAIN Sheet.cells
               PROVE  /\ cell \in (0..Cols-1) \X (0..Sheet.y - Wraps')
                      /\ cur_y' = Rows => cell[2] < Sheet.y
    BY <1>3 DEF CellsInv
  <2>1. cell \in (0..Cols-1) \X (0..Sheet.y - Wraps)
    BY DEF ConsoleInv, CellsInv
  <2> QED
    BY <1>2, <1>4, <2>1, Sizes
<1>9. BuffersInv'
  <2>1. fb = View(Sheet.cells, Top, con_bg)
        /\ \A p \in Pixel \ Rect(cur_x * CH_W, cur_y * CH_H, CH_W, CH_H) : hw[p] = fb[p]
    BY <1>1 DEF BuffersInv
  <2>2. hw' = fb
    BY <1>1, <2>1, PresentShows
  <2> QED
    BY <1>1, <1>3, <1>5, <2>1, <2>2 DEF BuffersInv
<1> QED
  BY <1>1, <1>7, <1>8, <1>9 DEF ConsoleInv

LEMMA ScrollKeeps ==
  ASSUME ConsoleInv, BuffersInv, Scroll
  PROVE  ConsoleInv' /\ BuffersInv'
<1>1. /\ pc = "scroll" /\ pc' = "scrolled" /\ cur_y >= Rows
      /\ fb' = gfx_scroll_up(fb, CH_H, con_bg)
      /\ UNCHANGED <<cur_x, cur_y, con_fg, con_bg, char, page>>
  BY DEF Scroll, Draw, colours
<1>2. /\ cur_y = Rows /\ Sheet.y \in Nat /\ Top \in Nat /\ Wraps = 0
      /\ Top = Sheet.y - cur_y /\ Sheet.x = cur_x
  BY <1>1, Sizes DEF ConsoleInv, PlaceInv, Wraps, Top
<1>3. Sheet' = Sheet /\ Wraps' = 0
  BY <1>1 DEF Sheet, Wraps
<1>4. Top' = Top
  BY <1>1, <1>2, <1>3 DEF Top
<1>5. PlaceInv'
  BY <1>1, <1>2, <1>3, <1>4, Sizes DEF ConsoleInv, PlaceInv
<1>6. CellsInv'
  BY <1>1, <1>2, <1>3 DEF ConsoleInv, CellsInv
<1>7. fb' = View(Sheet.cells, Top + 1, con_bg)
  <2>1. \A cell \in DOMAIN Sheet.cells : cell[2] < Top + Rows
    BY <1>2, Sizes DEF ConsoleInv, CellsInv
  <2>2. fb = View(Sheet.cells, Top, con_bg)
    BY <1>1 DEF BuffersInv
  <2> QED
    BY <1>1, <1>2, <2>1, <2>2, ScrollIsShown
<1>8. BuffersInv'
  BY <1>1, <1>3, <1>4, <1>7 DEF BuffersInv
<1> QED
  BY <1>1, <1>5, <1>6, <1>8 DEF ConsoleInv

LEMMA PresentScrolledKeeps ==
  ASSUME ConsoleInv, BuffersInv, PresentScrolled
  PROVE  ConsoleInv' /\ BuffersInv'
<1>1. /\ pc = "scrolled" /\ pc' = "scroll" /\ cur_y' = cur_y - 1
      /\ hw' = gfx_present_rect(hw, fb, 0, 0, Width, Height)
      /\ UNCHANGED <<fb, cur_x, con_fg, con_bg, char, page>>
  BY DEF PresentScrolled, Present, colours
<1>2. /\ cur_y = Rows /\ Sheet.y \in Nat /\ Top \in Nat /\ Wraps = 0
      /\ Top = Sheet.y - cur_y /\ Sheet.x = cur_x
  BY <1>1, Sizes DEF ConsoleInv, PlaceInv, Wraps, Top
<1>3. Sheet' = Sheet /\ Wraps' = 0
  BY <1>1 DEF Sheet, Wraps
<1>4. Top' = Top + 1
  BY <1>1, <1>2, <1>3, Sizes DEF Top
<1>5. PlaceInv'
  BY <1>1, <1>2, <1>3, <1>4, Sizes DEF ConsoleInv, PlaceInv
<1>6. CellsInv'
  BY <1>1, <1>2, <1>3, Sizes DEF ConsoleInv, CellsInv
<1>7. fb = View(Sheet.cells, Top + 1, con_bg)
  BY <1>1 DEF BuffersInv
<1>8. hw' = fb
  <2>1. Pixel \ Rect(0, 0, Width, Height) = {}
    BY Sizes DEF Rect, Pixel
  <2> QED
    BY <1>1, <1>7, <2>1, PresentShows
<1>9. BuffersInv'
  BY <1>1, <1>3, <1>4, <1>7, <1>8 DEF BuffersInv
<1> QED
  BY <1>1, <1>5, <1>6, <1>9 DEF ConsoleInv

LEMMA EndKeeps ==
  ASSUME ConsoleInv, BuffersInv, End
  PROVE  ConsoleInv' /\ BuffersInv'
<1>1. /\ pc = "scroll" /\ pc' = "idle" /\ cur_y < Rows
      /\ UNCHANGED <<fb, hw, cur_x, cur_y, con_fg, con_bg, char, page>>
  BY DEF End, buffers, colours
<1>2. Sheet' = Sheet /\ Wraps = 0 /\ Wraps' = 0
  BY <1>1 DEF Sheet, Wraps
<1>3. Top' = Top
  BY <1>1, <1>2 DEF Top
<1>4. PlaceInv'
  BY <1>1, <1>2, <1>3 DEF ConsoleInv, PlaceInv
<1>5. CellsInv'
  BY <1>1, <1>2 DEF ConsoleInv, CellsInv
<1>6. BuffersInv'
  BY <1>1, <1>2, <1>3 DEF BuffersInv
<1> QED
  BY <1>1, <1>4, <1>5, <1>6 DEF ConsoleInv

-----------------------------------------------------------------------------
(***************************************************************************)
(* The steps of everyone else.                                             *)
(***************************************************************************)
LEMMA ClearedIsSound ==
  ASSUME page' = <<>>, pc' = "idle", cur_x' = 0, cur_y' = 0,
         fb' = gfx_clear(con_bg'), hw' = fb', con_fg' \in Ink
  PROVE  ConsoleInv' /\ BuffersInv'
<1>1. Sheet' = Blank
  BY LayoutNone DEF Sheet
<1>2. Blank.x = 0 /\ Blank.y = 0 /\ DOMAIN Blank.cells = {}
  BY DEF Blank
<1>3. Wraps' = 0
  BY DEF Wraps
<1>4. Top' = 0
  BY <1>1, <1>2, <1>3 DEF Top
<1>5. PlaceInv'
  BY <1>1, <1>2, <1>4, Sizes DEF PlaceInv
<1>6. CellsInv'
  BY <1>1, <1>2 DEF CellsInv
<1>7. BuffersInv'
  <2>1. fb' = View(Blank.cells, 0, con_bg')
    BY ClearIsShown
  <2> QED
    BY <1>1, <1>4, <2>1 DEF BuffersInv
<1>8. page' \in Seq(Item)
  BY EmptySeq
<1> QED
  BY <1>5, <1>6, <1>7, <1>8 DEF ConsoleInv

LEMMA InkIs ==
  /\ \A t \in Theme : t.fg \in Ink
  /\ Shade \subseteq Ink /\ PanicTheme.fg \in Ink
BY DEF Ink

LEMMA StillSound ==
  ASSUME ConsoleInv, UNCHANGED <<page, pc, char, cur_x, cur_y>>, con_fg' \in Ink
  PROVE  /\ ConsoleInv'
         /\ BuffersInv /\ UNCHANGED <<fb, hw, con_bg>> => BuffersInv'
<1>1. Sheet' = Sheet
  BY DEF Sheet
<1>2. Wraps' = Wraps
  BY DEF Wraps
<1>3. Top' = Top
  BY <1>1, <1>2 DEF Top
<1>4. PlaceInv'
  BY <1>1, <1>3 DEF ConsoleInv, PlaceInv
<1>5. CellsInv'
  BY <1>1, <1>2 DEF ConsoleInv, CellsInv
<1>6. ConsoleInv'
  BY <1>4, <1>5 DEF ConsoleInv
<1>7. BuffersInv /\ UNCHANGED <<fb, hw, con_bg>> => BuffersInv'
  BY <1>1, <1>3 DEF BuffersInv
<1> QED
  BY <1>6, <1>7

LEMMA TextInitially == MInit => TextInv
<1> SUFFICES ASSUME MInit PROVE TextInv
  OBVIOUS
<1>1. /\ page = <<>> /\ pc = "idle" /\ cur_x = 0 /\ cur_y = 0 /\ con_fg \in Ink
      /\ fb = gfx_clear(con_bg) /\ hw = fb /\ at = "off"
  BY InkIs DEF MInit, CInit
<1>2. Sheet = Blank
  BY <1>1, LayoutNone DEF Sheet
<1>3. Blank.x = 0 /\ Blank.y = 0 /\ DOMAIN Blank.cells = {}
  BY DEF Blank
<1>4. Wraps = 0
  BY <1>1 DEF Wraps
<1>5. Top = 0
  BY <1>1, <1>2, <1>3, <1>4 DEF Top
<1>6. PlaceInv
  BY <1>1, <1>2, <1>3, <1>5, Sizes DEF PlaceInv
<1>7. CellsInv
  BY <1>2, <1>3 DEF CellsInv
<1>8. fb = View(Blank.cells, 0, con_bg)
  BY <1>1, ClearIsShown
<1>9. BuffersInv
  BY <1>1, <1>2, <1>5, <1>8 DEF BuffersInv
<1>10. page \in Seq(Item)
  BY <1>1, EmptySeq
<1> QED
  BY <1>1, <1>6, <1>7, <1>9, <1>10 DEF ConsoleInv, TextInv

LEMMA BeginKeeps ==
  ASSUME ConsoleInv, BuffersInv, Begin
  PROVE  ConsoleInv' /\ BuffersInv'
<1>1. char' \in Char \cup {NL, CR, BS}
  BY DEF Begin
<1>2. CASE char' \in Char
  BY <1>2, CharacterKeeps
<1>3. CASE char' \in {NL, CR}
  BY <1>3, NewlineKeeps
<1>4. CASE char' = BS
  BY <1>4, BackspaceKeeps
<1> QED
  BY <1>1, <1>2, <1>3, <1>4

LEMMA ShellKeeps ==
  ASSUME TextInv, Shell
  PROVE  TextInv'
<1>1. at = "off" /\ at' = "off" /\ ConsoleInv /\ BuffersInv
  BY DEF TextInv, Shell, demo
<1>2. ASSUME putchar PROVE ConsoleInv' /\ BuffersInv'
  BY <1>1, <1>2, BeginKeeps, PresentCellKeeps, ScrollKeeps, PresentScrolledKeeps,
     EndKeeps DEF putchar
<1>3. ASSUME SetTheme PROVE ConsoleInv' /\ BuffersInv'
  <2>1. /\ page' = <<>> /\ pc' = "idle" /\ cur_x' = 0 /\ cur_y' = 0
        /\ fb' = gfx_clear(con_bg') /\ hw' = fb' /\ con_fg' \in Ink
    BY <1>3, InkIs DEF SetTheme, clear_screen
  <2> QED
    BY <2>1, ClearedIsSound
<1>4. ASSUME ClearCommand PROVE ConsoleInv' /\ BuffersInv'
  <2>1. /\ page' = <<>> /\ pc' = "idle" /\ cur_x' = 0 /\ cur_y' = 0
        /\ fb' = gfx_clear(con_bg') /\ hw' = fb' /\ con_fg' \in Ink
    BY <1>1, <1>4 DEF ClearCommand, clear_screen, colours, ConsoleInv
  <2> QED
    BY <2>1, ClearedIsSound
<1>5. ASSUME Prompt PROVE ConsoleInv' /\ BuffersInv'
  <2>1. /\ UNCHANGED <<page, pc, char, cur_x, cur_y>> /\ con_fg' \in Ink
        /\ UNCHANGED <<fb, hw, con_bg>>
    BY <1>5, InkIs DEF Prompt, buffers
  <2> QED
    BY <1>1, <2>1, StillSound
<1>6. ASSUME Halted PROVE ConsoleInv' /\ BuffersInv'
  <2>1. /\ UNCHANGED <<page, pc, char, cur_x, cur_y>> /\ con_fg' \in Ink
        /\ UNCHANGED <<fb, hw, con_bg>>
    BY <1>1, <1>6 DEF Halted, screen, ConsoleInv
  <2> QED
    BY <1>1, <2>1, StillSound
<1>7. ConsoleInv' /\ BuffersInv'
  BY <1>2, <1>3, <1>4, <1>5, <1>6 DEF Shell, Commands
<1> QED
  BY <1>1, <1>7 DEF TextInv

LEMMA TextStep == TextInv /\ [MNext]_all => TextInv'
<1> SUFFICES ASSUME TextInv, [MNext]_all PROVE TextInv'
  OBVIOUS
<1>1. ConsoleInv
  BY DEF TextInv
<1>2. ASSUME UNCHANGED all PROVE TextInv'
  <2>1. /\ UNCHANGED <<page, pc, char, cur_x, cur_y, at>> /\ con_fg' \in Ink
        /\ UNCHANGED <<fb, hw, con_bg>>
    BY <1>1, <1>2 DEF all, demo, screen, ConsoleInv
  <2> QED
    BY <1>1, <2>1, StillSound DEF TextInv
<1>3. ASSUME Start \/ Demo \/ Report PROVE TextInv'
  <2>1. UNCHANGED console
    BY <1>3 DEF Start, Demo, Report, ReadX, ReadY, Redraw, Wake
  <2>2. UNCHANGED <<page, pc, char, cur_x, cur_y>> /\ con_fg' \in Ink
    BY <1>1, <2>1 DEF console, ConsoleInv
  <2>3. page = <<>> /\ pc = "idle" /\ at' # "off"
    BY <1>3 DEF TextInv, Start, Demo, Report, ReadX, ReadY, Redraw, Wake
  <2> QED
    BY <1>1, <2>2, <2>3, StillSound DEF TextInv
<1>4. ASSUME EndDemo PROVE TextInv'
  <2>1. /\ page' = <<>> /\ pc' = "idle" /\ cur_x' = 0 /\ cur_y' = 0 /\ at' = "off"
        /\ fb' = gfx_clear(con_bg') /\ hw' = fb' /\ con_fg' \in Ink
    BY <1>1, <1>4 DEF TextInv, EndDemo, clear_screen, colours, Leave, ConsoleInv
  <2> QED
    BY <2>1, ClearedIsSound DEF TextInv
<1>5. ASSUME Exception PROVE TextInv'
  <2>1. /\ page' = <<>> /\ pc' = "idle" /\ cur_x' = 0 /\ cur_y' = 0 /\ at' = "off"
        /\ fb' = gfx_clear(con_bg') /\ hw' = fb' /\ con_fg' \in Ink
    BY <1>5, InkIs DEF Exception, Panic, clear_screen, Leave
  <2> QED
    BY <2>1, ClearedIsSound DEF TextInv
<1> QED
  BY <1>2, <1>3, <1>4, <1>5, ShellKeeps DEF MNext

LEMMA TextIsShown == TextInv => ScreenShowsTheText
<1> SUFFICES ASSUME TextInv, at = "off", pc = "idle" PROVE hw = Window
  BY DEF ScreenShowsTheText
<1> DEFINE first == IF Sheet.y < Rows THEN 0 ELSE Sheet.y - Rows + 1
<1>1. ConsoleInv /\ BuffersInv
  BY DEF TextInv
<1>2. first = Top
  BY <1>1, AtTheStart, Sizes
<1>3. hw = View(Sheet.cells, Top, con_bg)
  BY <1>1, AtTheStart
<1> QED
  BY <1>2, <1>3 DEF Window

(* When putchar has returned, the screen shows the end of the text, for    *)
(* any screen, font and themes, with or without a back buffer, after       *)
(* scrolling, after the mouse demo and on the panic screen.                *)
THEOREM ConsoleShowsTheText == MSpec => []ScreenShowsTheText
<1>1. MSpec => []TextInv
  BY TextInitially, TextStep, PTL DEF MSpec
<1> QED
  BY <1>1, TextIsShown, PTL
==============================================================================
