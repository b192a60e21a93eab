------------------------------- MODULE Serial -------------------------------
(***************************************************************************)
(* The serial port: src/drivers/serial.c, written to by tasks that preempt *)
(* each other (demo_worker).  There is no lock: a tick may come between    *)
(* the test of tx_empty and the outb that it allows.                       *)
(*                                                                         *)
(* The UART is external.  It sends what is in its transmit FIFO, first in  *)
(* first out, and reports empty only when nothing is left in it (bit 5 of  *)
(* the line status register).  A byte written to a full FIFO is lost.      *)
(***************************************************************************)
EXTENDS Integers, Sequences, SequencesExt, FiniteSets

CONSTANTS
  Task,   \* the tasks that write
  Char,   \* the characters
  Text,   \* what each of them writes
  CR, NL, \* the characters \r and \n
  Depth   \* of the FIFO: 16

ASSUME SerialAssumption ==
  /\ IsFiniteSet(Task)
  /\ Depth \in Nat /\ Depth >= Cardinality(Task) /\ Depth >= 1
  /\ Text \in [Task -> Seq(Char \ {CR})]
  /\ {CR, NL} \subseteq Char /\ CR # NL

VARIABLES
  works,  \* the port passes its loopback test
  depth,  \* of the FIFO as it is set up: 1 when it is off, 0 before that
  loop,   \* loopback mode: what is sent does not get out
  fifo,   \* bytes in the UART, each with the task that wrote it
  sent,   \* history: bytes on the line
  pc,     \* each task in serial_putc
  rest,   \* what each task has left to write
  cr      \* serial_putc has written the \r of a \n

vars == <<works, depth, loop, fifo, sent, pc, rest, cr>>

Init ==
  /\ works \in BOOLEAN
  /\ depth = 0
  /\ loop = FALSE
  /\ fifo = <<>> /\ sent = <<>>
  /\ pc = [t \in Task |-> "test"]
  /\ rest = Text
  /\ cr = [t \in Task |-> FALSE]

(* FCR = 0xC7 turns the FIFO on; the test is made in loopback mode, which  *)
(* is left on if it fails.  kmain does not look at the result.             *)
serial_init_NoFifo ==
  /\ depth = 0
  /\ depth' = 1
  /\ loop' = ~ works
  /\ UNCHANGED <<works, fifo, sent, pc, rest, cr>>
serial_init ==
  /\ depth = 0
  /\ depth' = Depth
  /\ loop' = ~ works
  /\ UNCHANGED <<works, fifo, sent, pc, rest, cr>>

(* Bit 5 of the line status.  Bit 0, data received, would never be set.    *)
tx_empty_DataReady == FALSE
tx_empty == fifo = <<>>

(* serial_putc, for the next character of task t: while (!tx_empty()), ... *)
Polls(t) == depth > 0 /\ pc[t] = "test" /\ rest[t] # <<>>
PutcPoll(t) == Polls(t) /\ ~ tx_empty /\ UNCHANGED vars
PutcTest(t) ==
  /\ Polls(t) /\ tx_empty
  /\ pc' = [pc EXCEPT ![t] = "out"]
  /\ UNCHANGED <<works, depth, loop, fifo, sent, rest, cr>>

(* ... and outb. *)
Byte_NoReturn(t) == Head(rest[t])
Byte(t) == IF Head(rest[t]) = NL /\ ~ cr[t] THEN CR ELSE Head(rest[t])

PutcOut(t) ==
  /\ pc[t] = "out"
  /\ fifo' = IF Len(fifo) < depth
             THEN Append(fifo, [by |-> t, byte |-> Byte(t)]) ELSE fifo
  /\ cr' = [cr EXCEPT ![t] = (Byte(t) = CR)]
  /\ rest' = [rest EXCEPT ![t] = IF Byte(t) = CR THEN @ ELSE Tail(@)]
  /\ pc' = [pc EXCEPT ![t] = "test"]
  /\ UNCHANGED <<works, depth, loop, sent>>

(* The UART. *)
Transmit ==
  /\ fifo # <<>>
  /\ fifo' = Tail(fifo)
  /\ sent' = IF loop THEN sent ELSE Append(sent, Head(fifo))
  /\ UNCHANGED <<works, depth, loop, pc, rest, cr>>

Done == depth > 0 /\ fifo = <<>> /\ \A t \in Task : rest[t] = <<>>

Putc(t) == PutcTest(t) \/ PutcOut(t)
Next == \/ serial_init \/ Transmit
        \/ \E t \in Task : Putc(t) \/ PutcPoll(t)
        \/ Done /\ UNCHANGED vars

Spec == Init /\ [][Next]_vars

(* The scheduler gives every task the CPU for a slice again and again.     *)
(* Other tasks may fill the FIFO before it polls, but each does so only    *)
(* once for each character it has left: strong fairness of Putc.           *)
FairSpec == /\ Spec /\ WF_vars(serial_init) /\ WF_vars(Transmit)
            /\ \A t \in Task : SF_vars(Putc(t))

-----------------------------------------------------------------------------
(* What text s is on the line: \n is preceded by \r.                       *)
OnLine(s) ==
  FlattenSeq([k \in 1..Len(s) |-> IF s[k] = NL THEN <<CR, NL>> ELSE <<s[k]>>])

(* The bytes of task t that the port has taken, and those to come.         *)
BytesOf(t, log) ==
  FlattenSeq([k \in 1..Len(log) |->
                IF log[k].by = t THEN <<log[k].byte>> ELSE <<>>])
Taken(t) == BytesOf(t, sent \o fifo)
ToCome(t) == IF cr[t] THEN Tail(OnLine(rest[t])) ELSE OnLine(rest[t])

(* However the tasks preempt each other, the lines mix byte by byte, but   *)
(* no byte is lost or repeated and each task's bytes keep their order.     *)
LinesAreMerged ==
  works => \A t \in Task : Taken(t) \o ToCome(t) = OnLine(Text[t])

(* A task that has passed the test of tx_empty finds room for its byte,    *)
(* though other tasks may have written since: a task can be one byte       *)
(* late, and the FIFO has room for one from each.                          *)
RoomAfterTheTest == \A t \in Task : pc[t] = "out" => Len(fifo) < depth

(* Polling ends: every task gets to the end of its text, with a port that  *)
(* failed its test as well.                                                *)
EveryTextIsWritten == <>Done

-----------------------------------------------------------------------------
(* Every variable that serial_putc touches holds a value of its type.      *)
TypeOK ==
  /\ depth \in {0, Depth}
  /\ fifo \in Seq([by : Task, byte : Char])
  /\ pc \in [Task -> {"test", "out"}]
  /\ rest \in [Task -> Seq(Char)]
  /\ cr \in [Task -> BOOLEAN]

(* Passing the test is a ticket for one byte.  The bytes in the FIFO and   *)
(* the tickets that are out are together no more than the tasks.           *)
Ticket == {t \in Task : pc[t] = "out"}
IInv ==
  /\ TypeOK
  /\ Len(fifo) + Cardinality(Ticket) <= Cardinality(Task)
  /\ \A t \in Ticket : depth = Depth /\ rest[t] # <<>>

(* With a port that works, what each task has left is free of \r, and a    *)
(* \r that serial_putc has written belongs to the \n that comes next.      *)
MergeInv ==
  works =>
    /\ ~ loop /\ sent \in Seq([by : Task, byte : Char])
    /\ \A t \in Task : /\ rest[t] \in Seq(Char \ {CR})
                       /\ cr[t] => rest[t] # <<>> /\ Head(rest[t]) = NL
                       /\ Taken(t) \o ToCome(t) = OnLine(Text[t])
=============================================================================
