-------------------------- MODULE EventQueueProofs --------------------------
(***************************************************************************)
(* event.c implements the drop-oldest queue of event.h, for every size of  *)
(* the ring and every set of events.                                       *)
(***************************************************************************)
EXTENDS EventQueue, TLAPS

(***************************************************************************)
(* Arithmetic of the ring.                                                 *)
(***************************************************************************)
LEMMA IncWraps ==
  ASSUME NEW x \in Slot
  PROVE  /\ Inc(x) = IF x = EVQ_SIZE - 1 THEN 0 ELSE x + 1
         /\ Inc(x) \in Slot /\ Inc(x) # x
BY EventQueueAssumption DEF Inc, Slot

LEMMA DistanceBounds ==
  ASSUME NEW x \in Slot, NEW y \in Slot
  PROVE  /\ Distance(x, y) \in 0..(EVQ_SIZE - 1)
         /\ Distance(x, y) = 0 <=> x = y
         /\ Distance(x, y) = EVQ_SIZE - 1 <=> Inc(y) = x
         /\ Inc(y) # x => Distance(x, Inc(y)) = Distance(x, y) + 1
         /\ x # y => Distance(Inc(x), y) = Distance(x, y) - 1
BY EventQueueAssumption, IncWraps DEF Distance, Slot

LEMMA BehindBounds ==
  ASSUME NEW x \in Slot, NEW k \in 0..(EVQ_SIZE - 1)
  PROVE  /\ Behind(x, k) \in Slot
         /\ k > 0 => Behind(Inc(x), k - 1) = Behind(x, k)
         /\ k < EVQ_SIZE - 1 => Inc(Behind(x, k)) = Behind(x, k + 1)
BY EventQueueAssumption, IncWraps DEF Behind, Slot

LEMMA BehindDistance ==
  ASSUME NEW x \in Slot, NEW y \in Slot, NEW k \in 0..(EVQ_SIZE - 1)
  PROVE  Behind(x, k) = y <=> k = Distance(x, y)
BY EventQueueAssumption DEF Behind, Distance, Slot

(***************************************************************************)
(* The two ways an index moves, seen on the sequence of pending events.    *)
(***************************************************************************)
Stores(new, buf, y, e) ==
  /\ buf = [s \in Slot |-> buf[s]]
  /\ new = [buf EXCEPT ![y] = e]

LEMMA ItemsAppend ==
  ASSUME NEW new, NEW buf, NEW x \in Slot, NEW y \in Slot, NEW e,
         Stores(new, buf, y, e), Inc(y) # x
  PROVE  Items(new, x, Inc(y)) = Append(Items(buf, x, y), e)
<1> DEFINE n == Distance(x, y)
           S == {buf[s] : s \in Slot} \cup {e}
<1>1. /\ n \in 0..(EVQ_SIZE - 1) /\ n < EVQ_SIZE - 1
      /\ Distance(x, Inc(y)) = n + 1
  BY DistanceBounds, EventQueueAssumption
<1>2. Behind(x, n) = y
  BY <1>1, BehindDistance
<1>3. \A i \in 1..n : /\ Behind(x, i - 1) \in Slot /\ Behind(x, i - 1) # y
                      /\ new[Behind(x, i - 1)] = buf[Behind(x, i - 1)]
  <2> TAKE i \in 1..n
  <2>1. i - 1 \in 0..(EVQ_SIZE - 1) /\ i - 1 # n
    BY <1>1, EventQueueAssumption
  <2>2. Behind(x, i - 1) \in Slot /\ Behind(x, i - 1) # y
    BY <2>1, BehindBounds, BehindDistance
  <2> QED
    BY <2>2 DEF Stores
<1>4. e \in S /\ \A i \in 1..n : buf[Behind(x, i - 1)] \in S
  BY <1>3
<1> HIDE DEF n, S
<1>5. Append(Items(buf, x, y), e) =
        [i \in 1..(n + 1) |-> IF i = n + 1 THEN e ELSE buf[Behind(x, i - 1)]]
  <2> DEFINE s == [i \in 1..n |-> buf[Behind(x, i - 1)]]
  <2>1. s \in Seq(S) /\ Len(s) = n
    BY <1>1, <1>4, EventQueueAssumption
  <2>2. Items(buf, x, y) = s
    BY DEF Items, n
  <2>3. Append(s, e) = [i \in 1..(n + 1) |-> IF i = n + 1 THEN e ELSE s[i]]
    BY <1>1, <1>4, <2>1, EventQueueAssumption
  <2>4. \A i \in 1..n : i \in 1..(n + 1) /\ i # n + 1 /\ s[i] = buf[Behind(x, i - 1)]
    BY <1>1, EventQueueAssumption
  <2>5. \A i \in 1..(n + 1) : i # n + 1 => i \in 1..n
    BY <1>1, EventQueueAssumption
  <2> HIDE DEF s
  <2> QED
    BY <2>2, <2>3, <2>4, <2>5
<1>6. new[y] = e
  BY DEF Stores
<1>7. Items(new, x, Inc(y)) =
        [i \in 1..(n + 1) |-> IF i = n + 1 THEN e ELSE buf[Behind(x, i - 1)]]
  BY <1>1, <1>2, <1>3, <1>6 DEF Items
<1> QED
  BY <1>5, <1>7

LEMMA ItemsTail ==
  ASSUME NEW S, NEW buf \in [Slot -> S], NEW x \in Slot, NEW y \in Slot, x # y
  PROVE  /\ Items(buf, x, y) # <<>>
         /\ Head(Items(buf, x, y)) = buf[x]
         /\ Tail(Items(buf, x, y)) = Items(buf, Inc(x), y)
<1> DEFINE n == Distance(x, y)
           s == [i \in 1..n |-> buf[Behind(x, i - 1)]]
<1>1. n \in 1..(EVQ_SIZE - 1) /\ Distance(Inc(x), y) = n - 1
  BY DistanceBounds
<1>2. \A i \in 1..n : Behind(x, i - 1) \in Slot
  <2> TAKE i \in 1..n
  <2>1. i - 1 \in 0..(EVQ_SIZE - 1)
    BY <1>1, EventQueueAssumption
  <2> QED
    BY <2>1, BehindBounds
<1>3. s \in Seq(S) /\ Len(s) = n
  BY <1>1, <1>2
<1>4. Items(buf, x, y) = s
  BY DEF Items
<1>5. s # <<>> /\ Head(s) = s[1]
  BY <1>1, <1>3
<1>6. s[1] = buf[x]
  BY <1>1, EventQueueAssumption DEF Behind, Slot
<1>7. Tail(s) = [i \in 1..(n - 1) |-> s[i + 1]]
  BY <1>1, <1>3
<1>8. \A i \in 1..(n - 1) : s[i + 1] = buf[Behind(Inc(x), i - 1)]
  <2> TAKE i \in 1..(n - 1)
  <2>1. i \in 0..(EVQ_SIZE - 1) /\ i > 0 /\ (i + 1) - 1 = i /\ i + 1 \in 1..n
    BY <1>1, EventQueueAssumption
  <2>2. Behind(Inc(x), i - 1) = Behind(x, i)
    BY <2>1, BehindBounds
  <2> QED
    BY <2>1, <2>2
<1> HIDE DEF n, s
<1>9. Tail(s) = Items(buf, Inc(x), y)
  BY <1>1, <1>7, <1>8 DEF Items
<1> QED
  BY <1>4, <1>5, <1>6, <1>9

LEMMA ItemsLen ==
  ASSUME NEW buf, NEW x \in Slot, NEW y \in Slot
  PROVE  /\ Len(Items(buf, x, y)) = Distance(x, y)
         /\ x = y => Items(buf, x, y) = <<>>
<1>1. Distance(x, y) \in Nat
  BY DistanceBounds, EventQueueAssumption
<1>2. x = y => Distance(x, y) = 0
  BY DistanceBounds
<1> QED
  BY <1>1, <1>2 DEF Items

(***************************************************************************)
(* The invariant.                                                          *)
(***************************************************************************)
LEMMA InitInv == Init => IInv
BY EventQueueAssumption
DEF Init, IInv, TypeOK, OnlyPushedEvents, Slot, Distance

LEMMA PushKeeps ==
  ASSUME IInv, NEW e \in Event, Push(e) PROVE IInv'
<1>1. TypeOK'
  BY EventQueueAssumption, IncWraps DEF IInv, TypeOK, Push
<1>2. OnlyPushedEvents'
  <2> SUFFICES ASSUME NEW k \in 1..Distance(q_tail', q_head')
               PROVE  q'[Behind(q_tail', k - 1)] \in Event
    BY DEF IInv, OnlyPushedEvents, Push
  <2> DEFINE s == Behind(q_tail', k - 1)
  <2>1. /\ q_tail \in Slot /\ q_head \in Slot
        /\ q_tail' \in Slot /\ q_head' \in Slot /\ q_head' = Inc(q_head)
    BY <1>1 DEF IInv, TypeOK, Push
  <2>2. k - 1 \in 0..(EVQ_SIZE - 1) /\ k \in Nat
    BY <2>1, DistanceBounds, EventQueueAssumption
  <2>3. s \in Slot
    BY <2>1, <2>2, BehindBounds
  <2>4. CASE s = q_head
    BY <2>4, <2>1 DEF IInv, TypeOK, Push
  <2>5. CASE s # q_head
    <3>1. q'[s] = q[s]
      BY <2>3, <2>5 DEF IInv, TypeOK, Push
    <3>2. \E j \in 1..Distance(q_tail, q_head) : s = Behind(q_tail, j - 1)
      <4>1. CASE Inc(q_head) # q_tail
        <5>1. q_tail' = q_tail /\ Distance(q_tail, q_head') = Distance(q_tail, q_head) + 1
          BY <2>1, <4>1, DistanceBounds DEF Push
        <5>2. k - 1 # Distance(q_tail, q_head)
          BY <2>1, <2>2, <2>5, <5>1, BehindDistance
        <5>3. Distance(q_tail, q_head) \in Nat
          BY <2>1, DistanceBounds, EventQueueAssumption
        <5> QED
          BY <2>2, <5>1, <5>2, <5>3
      <4>2. CASE Inc(q_head) = q_tail
        <5>1. /\ q_tail' = Inc(q_tail) /\ Distance(q_tail, q_head) = EVQ_SIZE - 1
              /\ q_head \in Slot
          BY <2>1, <4>2, DistanceBounds DEF Push
        <5>2. k \in 1..(EVQ_SIZE - 1)
          BY <2>1, DistanceBounds, EventQueueAssumption
        <5>3. s = Behind(q_tail, k)
          BY <2>1, <5>1, <5>2, BehindBounds, EventQueueAssumption
        <5>4. k # EVQ_SIZE - 1
          BY <2>1, <2>5, <5>1, <5>2, <5>3, BehindDistance, EventQueueAssumption
        <5>5. k + 1 \in 1..Distance(q_tail, q_head) /\ (k + 1) - 1 = k
          BY <5>1, <5>2, <5>4, EventQueueAssumption
        <5> QED
          BY <5>3, <5>5
      <4> QED
        BY <4>1, <4>2
    <3> QED
      BY <3>1, <3>2 DEF IInv, OnlyPushedEvents
  <2> QED
    BY <2>4, <2>5
<1>3. /\ flags' /\ pc' = pc
      /\ IFlag' <=> pc' \in {"idle", "tail", "tail_empty"}
      /\ pc \notin {"read", "advance"}
  BY DEF IInv, Push
<1>4. q_tail' # q_head'
  BY IncWraps DEF IInv, TypeOK, Push
<1>5. ASSUME pc \in {"tail", "tail_empty"}, pushed' < EVQ_SIZE - 1
      PROVE  /\ q_head' = Behind(head, pushed')
             /\ pc = "tail" => head # q_tail' /\ pushed' < Distance(q_tail', q_head')
             /\ pc = "tail_empty" => head = q_tail'
  <2>1. /\ q_tail \in Slot /\ q_head \in Slot /\ head \in Slot
        /\ pushed \in Nat /\ pushed + 1 < EVQ_SIZE - 1 /\ pushed' = pushed + 1
        /\ q_head' = Inc(q_head) /\ q_head = Behind(head, pushed)
    BY <1>5, EventQueueAssumption DEF IInv, TypeOK, Push
  <2>2. pushed \in 0..(EVQ_SIZE - 1) /\ pushed < EVQ_SIZE - 1
        /\ pushed + 1 \in 0..(EVQ_SIZE - 1) /\ pushed + 2 \in 0..(EVQ_SIZE - 1)
        /\ (pushed + 1) + 1 = pushed + 2
    BY <2>1, EventQueueAssumption
  <2>3. q_head' = Behind(head, pushed + 1) /\ q_head' \in Slot
    BY <2>1, <2>2, BehindBounds
  <2>4. Inc(q_head') = Behind(head, pushed + 2)
    BY <2>1, <2>2, <2>3, BehindBounds
  <2>5. Behind(head, pushed + 1) # head /\ Behind(head, pushed + 2) # head
    BY <2>1, <2>2, BehindDistance, DistanceBounds
  <2>6. CASE q_head' # q_tail
    <3>1. /\ q_tail' = q_tail /\ Distance(q_tail, q_head') = Distance(q_tail, q_head) + 1
          /\ Distance(q_tail, q_head) \in Nat
      BY <2>1, <2>6, DistanceBounds, EventQueueAssumption DEF Push
    <3>2. /\ pc = "tail" => head # q_tail /\ pushed < Distance(q_tail, q_head)
          /\ pc = "tail_empty" => head = q_tail
      BY <1>5, <2>2 DEF IInv
    <3> QED
      BY <2>1, <2>3, <3>1, <3>2
  <2>7. CASE q_head' = q_tail
    <3>1. q_tail' = Inc(q_tail) /\ pc # "tail_empty"
      BY <1>5, <2>1, <2>3, <2>5, <2>7, <2>2 DEF IInv, Push
    <3>2. Distance(q_tail', q_head') = EVQ_SIZE - 1
      BY <2>1, <2>3, <2>7, <3>1, IncWraps, DistanceBounds
    <3> QED
      BY <2>1, <2>3, <2>4, <2>5, <2>7, <3>1, <3>2
  <2> QED
    BY <2>6, <2>7
<1> QED
  BY <1>1, <1>2, <1>3, <1>4, <1>5 DEF IInv, Push

LEMMA PollKeeps == IInv /\ Poll => IInv'
<1> SUFFICES ASSUME IInv, Poll PROVE IInv'
  OBVIOUS
<1>1. CASE PollSave
  BY <1>1 DEF IInv, TypeOK, OnlyPushedEvents, PollSave
<1>2. CASE PollTest
  BY <1>2 DEF IInv, TypeOK, OnlyPushedEvents, PollTest
<1>3. CASE PollRead
  <2>1. q_tail \in Slot /\ q_head \in Slot /\ q_tail # q_head
    BY <1>3 DEF IInv, TypeOK, PollRead
  <2>2. 1 \in 1..Distance(q_tail, q_head) /\ Behind(q_tail, 1 - 1) = q_tail
    BY <2>1, EventQueueAssumption DEF Distance, Behind, Slot
  <2>3. q[q_tail] \in Event
    BY <2>2 DEF IInv, OnlyPushedEvents
  <2> QED
    BY <1>3, <2>3 DEF IInv, TypeOK, OnlyPushedEvents, PollRead
<1>4. CASE PollAdvance
  <2>1. q_tail \in Slot /\ q_head \in Slot /\ q_tail # q_head
    BY <1>4 DEF IInv, TypeOK, PollAdvance
  <2>2. TypeOK'
    BY <1>4, <2>1, IncWraps DEF IInv, TypeOK, PollAdvance
  <2>3. \A k \in 1..Distance(Inc(q_tail), q_head) :
          q[Behind(Inc(q_tail), k - 1)] \in Event
    <3> TAKE k \in 1..Distance(Inc(q_tail), q_head)
    <3>1. /\ Distance(Inc(q_tail), q_head) = Distance(q_tail, q_head) - 1
          /\ Distance(q_tail, q_head) \in 0..(EVQ_SIZE - 1)
      BY <2>1, DistanceBounds
    <3>2. /\ k \in 0..(EVQ_SIZE - 1) /\ k > 0 /\ (k + 1) - 1 = k
          /\ k + 1 \in 1..Distance(q_tail, q_head)
      BY <3>1, EventQueueAssumption
    <3>3. Behind(Inc(q_tail), k - 1) = Behind(q_tail, (k + 1) - 1)
      BY <2>1, <3>2, BehindBounds
    <3> QED
      BY <3>2, <3>3 DEF IInv, OnlyPushedEvents
  <2> QED
    BY <1>4, <2>2, <2>3 DEF IInv, OnlyPushedEvents, PollAdvance
<1>5. CASE PollRestore
  BY <1>5 DEF IInv, TypeOK, OnlyPushedEvents, PollRestore
<1> QED
  BY <1>1, <1>2, <1>3, <1>4, <1>5 DEF Poll

LEMMA PendingKeeps == IInv /\ Pending => IInv'
<1> SUFFICES ASSUME IInv, Pending PROVE IInv'
  OBVIOUS
<1>1. CASE PendingHead
  <2>1. q_tail \in Slot /\ q_head \in Slot
    BY DEF IInv, TypeOK
  <2>2. /\ Behind(q_head, 0) = q_head
        /\ q_head # q_tail => 0 < Distance(q_tail, q_head)
    BY <2>1, EventQueueAssumption DEF Behind, Distance, Slot
  <2> QED
    BY <1>1, <2>1, <2>2, EventQueueAssumption
    DEF IInv, TypeOK, OnlyPushedEvents, PendingHead
<1>2. CASE PendingTail
  BY <1>2 DEF IInv, TypeOK, OnlyPushedEvents, PendingTail
<1> QED
  BY <1>1, <1>2 DEF Pending

LEMMA NextKeeps == IInv /\ [Next]_vars => IInv'
<1>1. IInv /\ UNCHANGED vars => IInv'
  BY DEF IInv, TypeOK, OnlyPushedEvents, vars
<1> QED
  BY <1>1, PushKeeps, PollKeeps, PendingKeeps DEF Next

(***************************************************************************)
(* The inductive invariant holds in every reachable state.                 *)
(***************************************************************************)
THEOREM Invariance == Spec => []IInv
BY InitInv, NextKeeps, PTL DEF Spec

(* The indices that event.c masks stay in the ring.                        *)
THEOREM TypeCorrectness == Spec => []TypeOK
<1>1. IInv => TypeOK
  BY DEF IInv
<1> QED
  BY <1>1, Invariance, PTL

(* event_poll (event.c:28-35) only hands out events that a handler pushed. *)
THEOREM NothingStaleIsPolled == Spec => []OnlyPushedEvents
<1>1. IInv => OnlyPushedEvents
  BY DEF IInv
<1> QED
  BY <1>1, Invariance, PTL

(* The two unlocked reads of event_pending (event.c:37-39) can only be     *)
(* fooled by EVQ_SIZE - 1 pushes that come between them.                   *)
THEOREM PendingAnswers == Spec => PendingIsHonest
<1> DEFINE A == PendingTail =>
       /\ answer' = 0 => pc = "tail_empty" \/ pushed >= EVQ_SIZE - 1
       /\ answer' = 1 => q_head # q_tail
<1>1. IInv => A
  <2> SUFFICES ASSUME IInv, PendingTail PROVE A
    OBVIOUS
  <2>1. /\ pushed \in 0..EVQ_SIZE /\ q_head \in Slot /\ q_tail \in Slot
        /\ head \in Slot
    BY DEF IInv, TypeOK
  <2>2. CASE pushed < EVQ_SIZE - 1
    BY <2>1, <2>2, DistanceBounds, EventQueueAssumption DEF IInv, PendingTail
  <2> QED
    BY <2>1, <2>2, EventQueueAssumption DEF IInv, PendingTail
<1> QED
  BY <1>1, Invariance, PTL DEF PendingIsHonest

(***************************************************************************)
(* Refinement.                                                             *)
(***************************************************************************)
LEMMA InitRefines == Init => Abstract!Init
<1> SUFFICES ASSUME Init PROVE Abstract!Init
  OBVIOUS
<1>1. Oldest = 0 /\ q_head = 0 /\ 0 \in Slot
  BY EventQueueAssumption DEF Init, Oldest, Slot
<1>2. Contents = <<>>
  BY <1>1, ItemsLen DEF Contents
<1> QED
  BY <1>2 DEF Init, Abstract!Init

LEMMA PushRefines ==
  ASSUME IInv, NEW e \in Event, Push(e) PROVE Abstract!Push(e)
<1>1. /\ q_tail \in Slot /\ q_head \in Slot
      /\ q \in [Slot -> Event \cup {NoEvent}]
      /\ Inc(q_tail) \in Slot /\ Inc(q_tail) # q_tail
      /\ Inc(q_head) # q_head
  BY IncWraps DEF IInv, TypeOK
<1>2. Oldest = q_tail /\ Oldest' = q_tail'
  BY DEF IInv, Push, Oldest
<1>3. Contents = Items(q, q_tail, q_head)
  BY <1>2 DEF Contents
<1>4. Contents' = Items(q', q_tail', Inc(q_head))
  BY <1>2 DEF Contents, Push, Items, Distance, Behind
<1>5. Len(Contents) = Distance(q_tail, q_head)
  BY <1>1, <1>3, ItemsLen
<1>6. Stores(q', q, q_head, e)
  BY <1>1 DEF Push, Stores
<1>7. \A x \in Slot : Inc(q_head) # x =>
        Items(q', x, Inc(q_head)) = Append(Items(q, x, q_head), e)
  BY <1>1, <1>6, ItemsAppend
<1>8. CASE Inc(q_head) # q_tail
  <2>1. Abstract!Kept = Contents
    BY <1>1, <1>5, <1>8, DistanceBounds DEF Abstract!Kept
  <2>2. Contents' = Append(Contents, e)
    BY <1>1, <1>3, <1>4, <1>8, <1>7 DEF Push
  <2> QED
    BY <2>1, <2>2 DEF Abstract!Push, Push
<1>9. CASE Inc(q_head) = q_tail
  <2>1. Abstract!Kept = Tail(Contents)
    BY <1>1, <1>5, <1>9, DistanceBounds DEF Abstract!Kept
  <2>2. Tail(Contents) = Items(q, Inc(q_tail), q_head)
    BY <1>1, <1>3, <1>9, ItemsTail
  <2>3. Inc(q_head) # Inc(q_tail)
    BY <1>1, <1>9
  <2>4. Contents' = Append(Items(q, Inc(q_tail), q_head), e)
    BY <1>1, <1>4, <1>9, <1>7, <2>3 DEF Push
  <2> QED
    BY <2>1, <2>2, <2>4 DEF Abstract!Push, Push
<1> QED
  BY <1>8, <1>9

LEMMA PollReadRefines ==
  ASSUME IInv, PollRead PROVE Abstract!PollEvent
<1>1. /\ q_tail \in Slot /\ q_head \in Slot /\ q_tail # q_head
      /\ q \in [Slot -> Event \cup {NoEvent}]
  BY DEF IInv, TypeOK, PollRead
<1>2. Contents = Items(q, q_tail, q_head)
  BY DEF Contents, Oldest, PollRead
<1>3. Contents' = Items(q, Inc(q_tail), q_head)
  BY DEF Contents, Oldest, PollRead, Items, Distance, Behind
<1>4. Contents # <<>> /\ Head(Contents) = q[q_tail] /\ Contents' = Tail(Contents)
  BY <1>1, <1>2, <1>3, ItemsTail
<1> QED
  BY <1>4 DEF Abstract!PollEvent, PollRead

LEMMA PollTestRefines ==
  ASSUME IInv, PollTest PROVE Abstract!PollEmpty \/ UNCHANGED Abstract!vars
<1>1. Contents' = Contents /\ Contents = Items(q, q_tail, q_head)
  BY DEF Contents, Oldest, PollTest, Items, Distance, Behind
<1>2. q_tail = q_head => Contents = <<>>
  BY <1>1, ItemsLen DEF IInv, TypeOK
<1> QED
  BY <1>1, <1>2 DEF PollTest, Abstract!PollEmpty, Abstract!vars

LEMMA HiddenSteps ==
  ASSUME IInv,
         \/ PollSave \/ PollAdvance \/ PollRestore \/ Pending
         \/ UNCHANGED vars
  PROVE  UNCHANGED Abstract!vars
<1>1. q' = q /\ q_head' = q_head /\ Oldest' = Oldest /\ out' = out /\ ret' = ret
  BY DEF PollSave, PollAdvance, PollRestore, Pending, PendingHead, PendingTail,
         vars, Oldest, IInv, Inc
<1>2. Contents' = Contents
  BY <1>1 DEF Contents, Items, Distance, Behind
<1> QED
  BY <1>1, <1>2 DEF Abstract!vars

(* event.c implements the drop-oldest queue that event.h promises: no      *)
(* interleaving of handlers with event_poll and event_pending loses,       *)
(* repeats or reorders an event, other than dropping the oldest when full. *)
THEOREM Refinement == Spec => ImplementsDropOldest
<1>1. IInv /\ [Next]_vars => [Abstract!Next]_(Abstract!vars)
  <2> SUFFICES ASSUME IInv, [Next]_vars
               PROVE  [Abstract!Next]_(Abstract!vars)
    OBVIOUS
  <2>1. CASE \E e \in Event : Push(e)
    BY <2>1, PushRefines DEF Abstract!Next
  <2>2. CASE PollRead
    BY <2>2, PollReadRefines DEF Abstract!Next
  <2>3. CASE PollTest
    BY <2>3, PollTestRefines DEF Abstract!Next
  <2>4. CASE PollSave \/ PollAdvance \/ PollRestore \/ Pending \/ UNCHANGED vars
    BY <2>4, HiddenSteps
  <2> QED
    BY <2>1, <2>2, <2>3, <2>4 DEF Next, Poll
<1> QED
  BY <1>1, InitRefines, Invariance, PTL
  DEF Spec, ImplementsDropOldest, Abstract!Spec
=============================================================================
