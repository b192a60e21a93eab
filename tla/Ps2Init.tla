------------------------------ MODULE Ps2Init ------------------------------
(***************************************************************************)
(* Setting up the keyboard and the mouse: keyboard_init of                 *)
(* src/drivers/keyboard.c and mouse_init of src/drivers/mouse.c, with the  *)
(* 8042 controller they talk to by polling, interrupts being off.  Boot    *)
(* extends this module: kmain calls the two.                               *)
(*                                                                         *)
(* The controller, the keyboard and the mouse are external.  The           *)
(* controller takes a command or a byte from its input buffer when it gets *)
(* to it, and puts one byte at a time into the output buffer: its own      *)
(* answer, an answer of the mouse, or the code of a key that the user      *)
(* pressed.  A byte is the set of its bits that are 1.                     *)
(***************************************************************************)
EXTENDS Integers, Sequences

CONSTANTS
  Firmware,  \* the command bytes that the firmware may have left
  Key,       \* scan codes
  ACK,       \* the mouse's answer to a command: 0xFA
  None,      \* an empty buffer
  MaxKeys    \* bound on the keys pressed before the set-up is over

PortByte == SUBSET (0..7)

ASSUME Ps2Assumption ==
  /\ Firmware \cup Key \cup {ACK} \subseteq PortByte
  /\ \A byte \in PortByte : None # byte
  /\ None \notin [port : {"cmd"}, byte : {"A8", "20", "60", "D4"}]
  /\ None \notin [port : {"data"}, byte : {"F6", "F4"}]
  /\ \A byte \in PortByte : None # [port |-> "data", byte |-> byte]
  /\ MaxKeys \in Nat

VARIABLES
  present,  \* there is a mouse
  old,      \* the command byte as the firmware left it
  pos,      \* the next step of the set-up
  status,   \* mouse_init's local status
  answers,  \* what its calls of mouse_read returned
  inbuf,    \* input buffer: [port, byte] or None
  expects,  \* where the next data byte goes
  cmdbyte,  \* the command byte in force
  outbuf,   \* output buffer
  last,     \* what the data port holds when the output buffer is empty
  answer,   \* the controller's answer that waits for the output buffer
  auxq,     \* the mouse's answers that wait for it
  kbdq,     \* the keyboard's codes that wait for it
  reports,  \* the mouse reports movements
  keys      \* the keys pressed so far

ps2 == <<present, old, pos, status, answers, inbuf, expects, cmdbyte, outbuf,
          last, answer, auxq, kbdq, reports, keys>>
input == <<inbuf, expects>>
output == <<outbuf, last>>
queues == <<answer, auxq, kbdq>>
driver == <<pos, status, answers>>
devices == <<present, old, cmdbyte, reports, keys>>

(***************************************************************************)
(* The set-up, call by call.  Every out and every read polls the status    *)
(* register first.                                                         *)
(***************************************************************************)
Script_NoFlush ==
  << [op |-> "cmd", byte |-> "A8"],
     [op |-> "cmd", byte |-> "20"], [op |-> "read"],
     [op |-> "cmd", byte |-> "60"], [op |-> "status"],
     [op |-> "cmd", byte |-> "D4"], [op |-> "data", byte |-> "F6"], [op |-> "read"],
     [op |-> "cmd", byte |-> "D4"], [op |-> "data", byte |-> "F4"], [op |-> "read"] >>
Script ==
  << [op |-> "flush"], [op |-> "flush"],
     [op |-> "cmd", byte |-> "A8"],
     [op |-> "cmd", byte |-> "20"], [op |-> "read"],
     [op |-> "cmd", byte |-> "60"], [op |-> "status"],
     [op |-> "cmd", byte |-> "D4"], [op |-> "data", byte |-> "F6"], [op |-> "read"],
     [op |-> "cmd", byte |-> "D4"], [op |-> "data", byte |-> "F4"], [op |-> "read"] >>
ScriptDone == pos > Len(Script)

PInit ==
  /\ present \in BOOLEAN
  /\ old \in Firmware /\ cmdbyte = old
  /\ pos = 1 /\ status = {} /\ answers = <<>>
  /\ inbuf = None /\ expects = "keyboard"
  /\ outbuf \in Key \cup {None} /\ last = {}
  /\ answer = None /\ auxq = <<>> /\ kbdq = <<>>
  /\ reports = FALSE /\ keys = 0

Does(op) == ~ ScriptDone /\ Script[pos].op = op

(* while (inb(PS2_STATUS) & ST_OUT_FULL) inb(PS2_DATA)                     *)
Flush ==
  /\ Does("flush")
  /\ IF outbuf # None THEN outbuf' = None /\ last' = outbuf /\ UNCHANGED pos
     ELSE pos' = pos + 1 /\ UNCHANGED output
  /\ UNCHANGED <<status, answers, input, queues, devices>>

(* ps2_wait_write and outb: the controller takes its input long before the *)
(* 100000 rounds of the poll are over.                                     *)
Write ==
  /\ inbuf = None
  /\ \/ Does("cmd") /\ inbuf' = [port |-> "cmd", byte |-> Script[pos].byte]
     \/ Does("data") /\ inbuf' = [port |-> "data", byte |-> Script[pos].byte]
     \/ Does("status") /\ inbuf' = [port |-> "data", byte |-> (status \cup {1}) \ {5}]
  /\ pos' = pos + 1
  /\ UNCHANGED <<status, answers, expects, output, queues, devices>>

(* mouse_read.  The poll gives up after 100000 rounds, longer than any     *)
(* answer takes that is under way, and reads what the port holds.          *)
UnderWay == \/ inbuf # None \/ outbuf # None \/ answer # None
            \/ auxq # <<>> /\ 5 \notin cmdbyte
            \/ kbdq # <<>> /\ 4 \notin cmdbyte
mouse_read == outbuf # None \/ ~ UnderWay

Read_Resend ==
  /\ Does("read") /\ mouse_read
  /\ LET byte == IF outbuf = None THEN last ELSE outbuf
     IN  /\ status' = IF answers = <<>> THEN byte ELSE status
         /\ last' = byte
         /\ IF answers = <<>> \/ byte = ACK
            THEN answers' = Append(answers, byte) /\ pos' = pos + 1
            ELSE pos' = pos - 2 /\ UNCHANGED answers
  /\ outbuf' = None
  /\ UNCHANGED <<input, queues, devices>>
Read ==
  /\ Does("read") /\ mouse_read
  /\ LET byte == IF outbuf = None THEN last ELSE outbuf
     IN  /\ answers' = Append(answers, byte)
         /\ status' = IF answers = <<>> THEN byte ELSE status
         /\ last' = byte
  /\ outbuf' = None
  /\ pos' = pos + 1
  /\ UNCHANGED <<input, queues, devices>>

(***************************************************************************)
(* The controller, the mouse and the user.                                 *)
(***************************************************************************)
TakeCommand ==
  /\ inbuf # None /\ inbuf.port = "cmd"
  /\ inbuf' = None
  /\ expects' = CASE inbuf.byte = "60" -> "controller"
                  [] inbuf.byte = "D4" -> "mouse"
                  [] OTHER -> expects
  /\ cmdbyte' = IF inbuf.byte = "A8" THEN cmdbyte \ {5} ELSE cmdbyte
  /\ answer' = IF inbuf.byte = "20" THEN cmdbyte ELSE answer
  /\ UNCHANGED <<driver, output, auxq, kbdq, present, old, reports, keys>>

TakeData ==
  /\ inbuf # None /\ inbuf.port = "data"
  /\ inbuf' = None /\ expects' = "keyboard"
  /\ \/ /\ expects = "controller"
        /\ cmdbyte' = inbuf.byte
        /\ UNCHANGED <<auxq, reports>>
     \/ /\ expects = "mouse"
        /\ auxq' = IF present THEN Append(auxq, ACK) ELSE auxq
        /\ reports' = (present /\ inbuf.byte = "F4")
        /\ UNCHANGED cmdbyte
  /\ UNCHANGED <<driver, output, answer, kbdq, present, old, keys>>

Fill ==
  /\ outbuf = None
  /\ \/ /\ answer # None
        /\ outbuf' = answer /\ answer' = None
        /\ UNCHANGED <<auxq, kbdq>>
     \/ /\ answer = None /\ auxq # <<>> /\ 5 \notin cmdbyte
        /\ outbuf' = Head(auxq) /\ auxq' = Tail(auxq)
        /\ UNCHANGED <<answer, kbdq>>
     \/ /\ answer = None /\ kbdq # <<>> /\ 4 \notin cmdbyte
        /\ outbuf' = Head(kbdq) /\ kbdq' = Tail(kbdq)
        /\ UNCHANGED <<answer, auxq>>
  /\ UNCHANGED <<driver, input, last, devices>>

Press ==
  /\ keys < MaxKeys /\ ~ ScriptDone
  /\ keys' = keys + 1
  /\ \E k \in Key : kbdq' = Append(kbdq, k)
  /\ UNCHANGED <<driver, input, output, answer, auxq, present, old, cmdbyte, reports>>

Driver == Flush \/ Write \/ Read
Controller == TakeCommand \/ TakeData \/ Fill

(* The command byte that mouse_init means to leave: the firmware's with    *)
(* bit 1 set and bit 5 cleared.                                            *)
Intended == (old \cup {1}) \ {5}

-----------------------------------------------------------------------------
(***************************************************************************)
(* The dialogue as long as no key is pressed, by the step that is next.    *)
(***************************************************************************)
Asks(port, byte) == inbuf = [port |-> port, byte |-> byte]
BytesInv ==
  old \in Firmware /\ last \in PortByte /\ outbuf \in PortByte \cup {None}
Silent == outbuf = None /\ answer = None /\ auxq = <<>>

InputInv ==
  \/ inbuf = None
  \/ pos = 4 /\ Asks("cmd", "A8")
  \/ pos = 5 /\ Asks("cmd", "20")
  \/ pos = 7 /\ Asks("cmd", "60")
  \/ pos = 8 /\ Asks("data", Intended)
  \/ pos \in {9, 12} /\ Asks("cmd", "D4")
  \/ pos = 10 /\ Asks("data", "F6")
  \/ pos = 13 /\ Asks("data", "F4")

ExpectsInv ==
  expects = IF (pos = 7 /\ inbuf = None) \/ (pos = 8 /\ inbuf # None)
            THEN "controller"
            ELSE IF \/ pos \in {9, 12} /\ inbuf = None
                    \/ pos \in {10, 13} /\ inbuf # None
            THEN "mouse" ELSE "keyboard"

CommandByteInv ==
  cmdbyte = IF pos <= 3 \/ (pos = 4 /\ inbuf # None) THEN old
            ELSE IF pos <= 7 \/ (pos = 8 /\ inbuf # None) THEN old \ {5}
            ELSE Intended

OutputInv ==
  \/ Silent
  \/ pos = 1 /\ outbuf # None /\ answer = None /\ auxq = <<>>
  \/ /\ pos = 5 /\ inbuf = None /\ auxq = <<>>
     /\ \/ answer = cmdbyte /\ outbuf = None
        \/ answer = None /\ outbuf = cmdbyte
  \/ /\ pos \in {10, 13} /\ inbuf = None /\ present /\ answer = None
     /\ \/ auxq = <<ACK>> /\ outbuf = None
        \/ auxq = <<>> /\ outbuf = ACK

(* What was asked for is on its way.                                       *)
AnswerInv ==
  /\ pos = 5 /\ inbuf = None => ~ Silent
  /\ pos \in {10, 13} /\ inbuf = None /\ present => ~ Silent

ReportsInv ==
  reports <=> present /\ ((pos = 13 /\ inbuf = None) \/ pos = 14)

DialogueInv ==
  /\ kbdq = <<>> /\ BytesInv
  /\ InputInv /\ ExpectsInv /\ CommandByteInv /\ OutputInv /\ AnswerInv /\ ReportsInv

(* The locals of mouse_init.                                               *)
LocalsInv ==
  /\ answers \in Seq(PortByte)
  /\ Len(answers) = IF pos <= 5 THEN 0 ELSE IF pos <= 10 THEN 1
                    ELSE IF pos <= 13 THEN 2 ELSE 3
  /\ pos \in 6..7 => status = old \ {5}
  /\ present => \A i \in 2..Len(answers) : answers[i] = ACK
=============================================================================
