--------------------------- MODULE DropOldestQueue ---------------------------
(***************************************************************************)
(* What include/event.h and the comment at the top of src/kernel/event.c   *)
(* promise: a first-in first-out queue of Capacity events; when it is full *)
(* the oldest event makes room for the newest, and nothing else is lost,   *)
(* repeated or reordered.                                                  *)
(***************************************************************************)
EXTENDS Naturals, Sequences

CONSTANTS
  Event,     \* the events
  NoEvent,   \* what the caller's event_t holds before the first poll
  Capacity   \* how many events fit

VARIABLES
  queue,     \* the pending events, the oldest first
  out,       \* the caller's event_t
  ret        \* what event_poll returns

vars == <<queue, out, ret>>

Init == queue = <<>> /\ out = NoEvent /\ ret = 0

Kept == IF Len(queue) = Capacity THEN Tail(queue) ELSE queue

Push(e) == queue' = Append(Kept, e) /\ UNCHANGED <<out, ret>>

PollEmpty == queue = <<>> /\ ret' = 0 /\ UNCHANGED <<queue, out>>

PollEvent ==
  /\ queue # <<>>
  /\ out' = Head(queue)
  /\ queue' = Tail(queue)
  /\ ret' = 1

Next == PollEmpty \/ PollEvent \/ \E e \in Event : Push(e)

Spec == Init /\ [][Next]_vars
=============================================================================
