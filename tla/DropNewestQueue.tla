--------------------------- MODULE DropNewestQueue ---------------------------
(***************************************************************************)
(* What the shell's key buffer (kbd_buf of src/drivers/keyboard.c)         *)
(* promises keyboard_getchar: characters come out in the order they were   *)
(* typed; one that is typed when the buffer is full is lost, and no other. *)
(***************************************************************************)
EXTENDS Naturals, Sequences

CONSTANTS
  Char,      \* what the buffer holds
  NoChar,    \* what was returned before the first call
  Capacity   \* how many characters fit

VARIABLES
  queue,     \* the characters to come, the oldest first
  got        \* the last one keyboard_getchar returned

vars == <<queue, got>>

Init == queue = <<>> /\ got = NoChar

Put == /\ Len(queue) < Capacity
       /\ \E c \in Char : queue' = Append(queue, c)
       /\ UNCHANGED got

Get == queue # <<>> /\ got' = Head(queue) /\ queue' = Tail(queue)

Next == Put \/ Get

Spec == Init /\ [][Next]_vars
=============================================================================
