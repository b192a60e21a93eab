--------------------------- MODULE KeyboardProofs ---------------------------
(***************************************************************************)
(* The key buffer of keyboard.c implements a queue without a lock, and the *)
(* shell never sees a key that cmd_events has taken: for every size of the *)
(* buffer and of the event queue and every number of presses.              *)
(***************************************************************************)
EXTENDS Keyboard, TLAPS

(***************************************************************************)
(* Arithmetic of the ring.                                                 *)
(***************************************************************************)
LEMMA IncWraps ==
  ASSUME NEW x \in Slot
  PROVE  /\ Inc(x) = IF x = KBD_BUF_SIZE - 1 THEN 0 ELSE x + 1
         /\ Inc(x) \in Slot /\ Inc(x) # x
BY KeyboardAssumption DEF Inc, Slot

LEMMA DistanceBounds ==
  ASSUME NEW x \in Slot, NEW y \in Slot
  PROVE  /\ Distance(x, y) \in 0..(KBD_BUF_SIZE - 1)
         /\ Distance(x, y) = 0 <=> x = y
         /\ Distance(x, y) = KBD_BUF_SIZE - 1 <=> Inc(y) = x
         /\ Inc(y) # x => Distance(x, Inc(y)) = Distance(x, y) + 1
         /\ x # y => Distance(Inc(x), y) = Distance(x, y) - 1
BY KeyboardAssumption, IncWraps DEF Distance, Slot

LEMMA BehindBounds ==
  ASSUME NEW x \in Slot, NEW k \in 0..(KBD_BUF_SIZE - 1)
  PROVE  /\ Behind(x, k) \in Slot
         /\ k > 0 => Behind(Inc(x), k - 1) = Behind(x, k)
         /\ k < KBD_BUF_SIZE - 1 => Inc(Behind(x, k)) = Behind(x, k + 1)
BY KeyboardAssumption, IncWraps DEF Behind, Slot

LEMMA BehindDistance ==
  ASSUME NEW x \in Slot, NEW y \in Slot, NEW k \in 0..(KBD_BUF_SIZE - 1)
  PROVE  Behind(x, k) = y <=> k = Distance(x, y)
BY KeyboardAssumption DEF Behind, Distance, Slot

(***************************************************************************)
(* The two ways an index moves, seen on the characters that wait.    *)
(***************************************************************************)
Stores(new, buf, y, e) ==
  /\ buf = [s \in Slot |-> buf[s]]
  /\ new = [buf EXCEPT ![y] = e]

LEMMA ItemsAppend ==
  ASSUME NEW new, NEW buf, NEW x \in Slot, NEW y \in Slot, NEW e,
         Stores(new, buf, y, e), Inc(y) # x
  PROVE  Items(new, x, Inc(y)) = Append(Items(buf, x, y), e)
<1> DEFINE n == Distance(x, y)
           S == {buf[s] : s \in Slot} \cup {e}
<1>1. /\ n \in 0..(KBD_BUF_SIZE - 1) /\ n < KBD_BUF_SIZE - 1
      /\ Distance(x, Inc(y)) = n + 1
  BY DistanceBounds, KeyboardAssumption
<1>2. Behind(x, n) = y
  BY <1>1, BehindDistance
<1>3. \A i \in 1..n : /\ Behind(x, i - 1) \in Slot /\ Behind(x, i - 1) # y
                      /\ new[Behind(x, i - 1)] = buf[Behind(x, i - 1)]
  <2> TAKE i \in 1..n
  <2>1. i - 1 \in 0..(KBD_BUF_SIZE - 1) /\ i - 1 # n
    BY <1>1, KeyboardAssumption
  <2>2. Behind(x, i - 1) \in Slot /\ Behind(x, i - 1) # y
    BY <2>1, BehindBounds, BehindDistance
  <2> QED
    BY <2>2 DEF Stores
<1>4. e \in S /\ \A i \in 1..n : buf[Behind(x, i - 1)] \in S
  BY <1>3
<1> HIDE DEF n, S
<1>5. Append(Items(buf, x, y), e) =
        [i \in 1..(n + 1) |-> IF i = n + 1 THEN e ELSE buf[Behind(x, i - 1)]]
  <2> DEFINE s == [i \in 1..n |-> buf[Behind(x, i - 1)]]
  <2>1. s \in Seq(S) /\ Len(s) = n
    BY <1>1, <1>4, KeyboardAssumption
  <2>2. Items(buf, x, y) = s
    BY DEF Items, n
  <2>3. Append(s, e) = [i \in 1..(n + 1) |-> IF i = n + 1 THEN e ELSE s[i]]
    BY <1>1, <1>4, <2>1, KeyboardAssumption
  <2>4. \A i \in 1..n : i \in 1..(n + 1) /\ i # n + 1 /\ s[i] = buf[Behind(x, i - 1)]
    BY <1>1, KeyboardAssumption
  <2>5. \A i \in 1..(n + 1) : i # n + 1 => i \in 1..n
    BY <1>1, KeyboardAssumption
  <2> HIDE DEF s
  <2> QED
    BY <2>2, <2>3, <2>4, <2>5
<1>6. new[y] = e
  BY DEF Stores
<1>7. Items(new, x, Inc(y)) =
        [i \in 1..(n + 1) |-> IF i = n + 1 THEN e ELSE buf[Behind(x, i - 1)]]
  BY <1>1, <1>2, <1>3, <1>6 DEF Items
<1> QED
  BY <1>5, <1>7

LEMMA ItemsTail ==
  ASSUME NEW S, NEW buf \in [Slot -> S], NEW x \in Slot, NEW y \in Slot, x # y
  PROVE  /\ Items(buf, x, y) # <<>>
         /\ Head(Items(buf, x, y)) = buf[x]
         /\ Tail(Items(buf, x, y)) = Items(buf, Inc(x), y)
<1> DEFINE n == Distance(x, y)
           s == [i \in 1..n |-> buf[Behind(x, i - 1)]]
<1>1. n \in 1..(KBD_BUF_SIZE - 1) /\ Distance(Inc(x), y) = n - 1
  BY DistanceBounds
<1>2. \A i \in 1..n : Behind(x, i - 1) \in Slot
  <2> TAKE i \in 1..n
  <2>1. i - 1 \in 0..(KBD_BUF_SIZE - 1)
    BY <1>1, KeyboardAssumption
  <2> QED
    BY <2>1, BehindBounds
<1>3. s \in Seq(S) /\ Len(s) = n
  BY <1>1, <1>2
<1>4. Items(buf, x, y) = s
  BY DEF Items
<1>5. s # <<>> /\ Head(s) = s[1]
  BY <1>1, <1>3
<1>6. s[1] = buf[x]
  BY <1>1, KeyboardAssumption DEF Behind, Slot
<1>7. Tail(s) = [i \in 1..(n - 1) |-> s[i + 1]]
  BY <1>1, <1>3
<1>8. \A i \in 1..(n - 1) : s[i + 1] = buf[Behind(Inc(x), i - 1)]
  <2> TAKE i \in 1..(n - 1)
  <2>1. i \in 0..(KBD_BUF_SIZE - 1) /\ i > 0 /\ (i + 1) - 1 = i /\ i + 1 \in 1..n
    BY <1>1, KeyboardAssumption
  <2>2. Behind(Inc(x), i - 1) = Behind(x, i)
    BY <2>1, BehindBounds
  <2> QED
    BY <2>1, <2>2
<1> HIDE DEF n, s
<1>9. Tail(s) = Items(buf, Inc(x), y)
  BY <1>1, <1>7, <1>8 DEF Items
<1> QED
  BY <1>4, <1>5, <1>6, <1>9

LEMMA ItemsLen ==
  ASSUME NEW buf, NEW x \in Slot, NEW y \in Slot
  PROVE  /\ Len(Items(buf, x, y)) = Distance(x, y)
         /\ x = y => Items(buf, x, y) = <<>>
<1>1. Distance(x, y) \in Nat
  BY DistanceBounds, KeyboardAssumption
<1>2. x = y => Distance(x, y) = 0
  BY DistanceBounds
<1> QED
  BY <1>1, <1>2 DEF Items

(***************************************************************************)
(* The handler's two outputs.                                              *)
(***************************************************************************)
Cell == Typed \cup {NoKey}

LEMMA CharOfValues ==
  ASSUME NEW key \in Key, NEW shift \in BOOLEAN, NEW caps \in BOOLEAN
  PROVE  CharOf(key, shift, caps) \in {Letter, "A", "enter", "esc", NUL}
BY DEF CharOf, AsciiShift, Ascii, Key, Shift, Letter, NUL

LEMMA PendingIsSeq == TypeOK => Pending \in Seq(Cell)
<1> SUFFICES ASSUME TypeOK PROVE Pending \in Seq(Cell)
  OBVIOUS
<1>1. kbd_tail \in Slot /\ kbd_head \in Slot /\ kbd_buf \in [Slot -> Cell]
  BY DEF TypeOK, Cell
<1> DEFINE n == Distance(kbd_tail, kbd_head)
<1>2. n \in 0..(KBD_BUF_SIZE - 1)
  BY <1>1, DistanceBounds
<1>3. \A i \in 1..n : kbd_buf[Behind(kbd_tail, i - 1)] \in Cell
  <2> TAKE i \in 1..n
  <2>1. i - 1 \in 0..(KBD_BUF_SIZE - 1)
    BY <1>2, KeyboardAssumption
  <2> QED
    BY <1>1, <2>1, BehindBounds
<1> HIDE DEF n
<1>4. [i \in 1..n |-> kbd_buf[Behind(kbd_tail, i - 1)]] \in Seq(Cell)
  BY <1>2, <1>3, KeyboardAssumption
<1> QED
  BY <1>4 DEF Pending, Items, n

(* A step that leaves the buffer alone leaves what waits in it alone.      *)
LEMMA PendingStays ==
  UNCHANGED <<kbd_buf, kbd_head, kbd_tail>> => Pending' = Pending
BY DEF Pending, Items, Distance, Behind

(* BufPut appends a character, or drops it when the buffer is full.        *)
LEMMA BufPutAppends ==
  ASSUME TypeOK, NEW ch \in {Letter, "A", "enter", "esc", NUL}, BufPut(ch),
         kbd_tail' = kbd_tail, id < MaxKeys
  PROVE  /\ kbd_buf' \in [Slot -> Cell] /\ kbd_head' \in Slot
         /\ kbd_head # kbd_tail => /\ kbd_head' # kbd_tail'
                                   /\ kbd_buf'[kbd_tail] = kbd_buf[kbd_tail]
         /\ \/ Pending' = Pending
            \/ \E t \in Typed : /\ t.id = id + 1
                                /\ Len(Pending) < KBD_BUF_SIZE - 1
                                /\ Pending' = Append(Pending, t)
<1>1. /\ kbd_tail \in Slot /\ kbd_head \in Slot /\ kbd_buf \in [Slot -> Cell]
      /\ id \in Nat /\ MaxKeys \in Nat
  BY KeyboardAssumption DEF TypeOK, Cell
<1>2. CASE ch # NUL /\ Inc(kbd_head) # kbd_tail
  <2> DEFINE t == [ch |-> ch, id |-> id + 1]
  <2>1. t \in Typed /\ t.id = id + 1
    BY <1>1, <1>2 DEF Typed
  <2>2. kbd_buf' = [kbd_buf EXCEPT ![kbd_head] = t] /\ kbd_head' = Inc(kbd_head)
    BY <1>2 DEF BufPut
  <2> HIDE DEF t
  <2>3. Stores(kbd_buf', kbd_buf, kbd_head, t)
    BY <1>1, <2>2 DEF Stores
  <2>4. Pending' = Items(kbd_buf', kbd_tail, Inc(kbd_head))
    BY <2>2 DEF Pending, Items, Distance, Behind
  <2>5. Pending' = Append(Pending, t)
    BY <1>1, <1>2, <2>3, <2>4, ItemsAppend DEF Pending
  <2>6. Len(Pending) < KBD_BUF_SIZE - 1
    BY <1>1, <1>2, ItemsLen, DistanceBounds, KeyboardAssumption DEF Pending
  <2>7. kbd_head' \in Slot /\ kbd_buf' \in [Slot -> Cell]
    BY <1>1, <2>1, <2>2, IncWraps DEF Cell
  <2> QED
    BY <1>1, <1>2, <2>1, <2>2, <2>5, <2>6, <2>7
<1>3. CASE ~ (ch # NUL /\ Inc(kbd_head) # kbd_tail)
  BY <1>1, <1>3, PendingStays DEF BufPut
<1> QED
  BY <1>2, <1>3

(* EventPush keeps the event queue within its bound, and the numbers in it *)
(* below every bound that the new event keeps.                             *)
LEMMA EventPushBounds ==
  ASSUME events \in Seq(Event), Len(events) <= EVQ_CAPACITY,
         NEW e \in Event, EventPush(e), NEW m \in Nat, e.id <= m,
         \A i \in 1..Len(events) : events[i].id <= m
  PROVE  /\ events' \in Seq(Event) /\ Len(events') <= EVQ_CAPACITY
         /\ \A i \in 1..Len(events') : events'[i].id <= m
<1> DEFINE kept == IF Len(events) = EVQ_CAPACITY THEN Tail(events) ELSE events
<1>1. /\ kept \in Seq(Event) /\ Len(kept) < EVQ_CAPACITY
      /\ \A i \in 1..Len(kept) : kept[i].id <= m
  <2>1. CASE Len(events) = EVQ_CAPACITY
    <3>1. events # <<>> /\ kept = Tail(events)
      BY <2>1, KeyboardAssumption
    <3>2. /\ kept \in Seq(Event) /\ Len(kept) = Len(events) - 1
          /\ \A i \in 1..Len(kept) : kept[i] = events[i + 1]
      BY <3>1
    <3>3. \A i \in 1..Len(kept) : i + 1 \in 1..Len(events)
      BY <3>2
    <3> HIDE DEF kept
    <3> QED
      BY <2>1, <3>2, <3>3, KeyboardAssumption
  <2>2. CASE Len(events) # EVQ_CAPACITY
    BY <2>2, KeyboardAssumption
  <2> QED
    BY <2>1, <2>2
<1>2. events' = Append(kept, e)
  BY DEF EventPush
<1> HIDE DEF kept
<1>3. /\ events' \in Seq(Event) /\ Len(events') = Len(kept) + 1
      /\ \A i \in 1..Len(events') : events'[i] = IF i = Len(kept) + 1 THEN e ELSE kept[i]
  BY <1>1, <1>2
<1>4. \A i \in 1..Len(events') : i # Len(kept) + 1 => i \in 1..Len(kept)
  BY <1>1, <1>3
<1> QED
  BY <1>1, <1>3, <1>4, KeyboardAssumption

(***************************************************************************)
(* The invariant, one action at a time.                                    *)
(***************************************************************************)
LEMMA InitInv == Init => IInv
<1> SUFFICES ASSUME Init PROVE IInv
  OBVIOUS
<1>1. 0 \in Slot
  BY KeyboardAssumption DEF Slot
<1>2. Pending = <<>>
  BY <1>1, ItemsLen DEF Init, Pending
<1>3. TypeOK
  BY <1>1, KeyboardAssumption DEF Init, TypeOK
<1>4. PressInv
  BY <1>2 DEF Init, PressInv
<1> QED
  BY <1>3, <1>4 DEF Init, IInv, KeyboardIsSound, NoStuckShift, DrainNeverWaits,
     PositionInv

(* A step of the boot task that only moves it, or that only fills c.       *)
LEMMA MovesKeep ==
  ASSUME IInv,
         UNCHANGED <<shift_down, caps_lock, kbd_buf, kbd_head, kbd_tail, events,
                     held, id, shown>>,
         mode' = "line" => mode = "line" \/ kbd_head = kbd_tail,
         TypeOK', PositionInv'
  PROVE  IInv'
<1>1. Pending' = Pending
  BY PendingStays
<1>2. kbd_head = kbd_tail => Len(Pending) = 0
  BY ItemsLen DEF Pending, IInv, KeyboardIsSound, TypeOK
<1>3. PressInv'
  BY <1>1, <1>2 DEF IInv, PressInv
<1>4. DrainNeverWaits'
  BY DEF PositionInv, DrainNeverWaits
<1> QED
  BY <1>3, <1>4 DEF IInv, KeyboardIsSound, NoStuckShift

(* A press.  The buffer's reader keeps what it has seen, the new character *)
(* has a number that cmd_events has not shown.                             *)
LEMMA KeyDownKeeps ==
  ASSUME IInv, NEW key \in Key, KeyDown(key) PROVE IInv'
<1>1. /\ TypeOK /\ PositionInv /\ PressInv /\ NoStuckShift
      /\ id \in Nat /\ MaxKeys \in Nat /\ id < MaxKeys /\ id' = id + 1
  BY KeyboardAssumption DEF IInv, KeyboardIsSound, TypeOK, KeyDown
<1>2. shift_down' \in BOOLEAN /\ caps_lock' \in BOOLEAN
  BY <1>1 DEF TypeOK, KeyDown
<1>3. PICK ch \in {Letter, "A", "enter", "esc", NUL} :
        BufPut(ch) /\ kbd_tail' = kbd_tail
  BY <1>2, CharOfValues DEF KeyDown
<1>4. /\ kbd_buf' \in [Slot -> Cell] /\ kbd_head' \in Slot
      /\ kbd_head # kbd_tail => /\ kbd_head' # kbd_tail'
                                /\ kbd_buf'[kbd_tail] = kbd_buf[kbd_tail]
      /\ \/ Pending' = Pending
         \/ \E t \in Typed : /\ t.id = id + 1
                             /\ Len(Pending) < KBD_BUF_SIZE - 1
                             /\ Pending' = Append(Pending, t)
  BY <1>1, <1>3, BufPutAppends
<1>5. /\ events' \in Seq(Event) /\ Len(events') <= EVQ_CAPACITY
      /\ \A i \in 1..Len(events') : events'[i].id <= id'
  <2> DEFINE e == [type |-> "down", key |-> key, id |-> id']
  <2>1. e \in Event /\ EventPush(e) /\ e.id <= id' /\ id' \in Nat
    BY <1>1 DEF Event, KeyDown
  <2>2. events \in Seq(Event) /\ Len(events) <= EVQ_CAPACITY
    BY <1>1 DEF TypeOK
  <2>3. \A i \in 1..Len(events) : events[i].id <= id'
    <3> TAKE i \in 1..Len(events)
    <3>1. events[i] \in Event /\ events[i].id <= id
      BY <1>1, <2>2 DEF PressInv
    <3>2. events[i].id \in Nat
      BY <1>1, <3>1 DEF Event
    <3> QED
      BY <1>1, <3>1, <3>2
  <2> HIDE DEF e
  <2> QED
    BY <2>1, <2>2, <2>3, EventPushBounds
<1>6. TypeOK'
  BY <1>1, <1>2, <1>3, <1>4, <1>5 DEF TypeOK, Cell, KeyDown, Wake
<1>7. PositionInv'
  BY <1>1, <1>4 DEF PositionInv, KeyDown, Wake
<1>8. PressInv'
  <2>1. shown' \subseteq 1..id' /\ id + 1 \notin shown
    BY <1>1 DEF PressInv, KeyDown
  <2>2. ASSUME mode' = "line", NEW i \in 1..Len(Pending')
        PROVE  Pending'[i].id \notin shown'
    <3>1. Pending \in Seq(Cell) /\ mode = "line" /\ shown' = shown
      BY <1>1, <2>2, PendingIsSeq DEF KeyDown
    <3>2. CASE Pending' = Pending
      BY <1>1, <2>2, <3>1, <3>2 DEF PressInv
    <3>3. ASSUME NEW t \in Typed, t.id = id + 1, Pending' = Append(Pending, t)
          PROVE  Pending'[i].id \notin shown'
      <4>1. t \in Cell
        BY DEF Cell
      <4>2. CASE i = Len(Pending) + 1
        BY <2>1, <3>1, <3>3, <4>1, <4>2
      <4>3. CASE i # Len(Pending) + 1
        <5>1. i \in 1..Len(Pending) /\ Pending'[i] = Pending[i]
          BY <2>2, <3>1, <3>3, <4>1, <4>3
        <5> QED
          BY <1>1, <3>1, <5>1 DEF PressInv
      <4> QED
        BY <4>2, <4>3
    <3> QED
      BY <1>4, <3>2, <3>3
  <2> QED
    BY <1>5, <2>1, <2>2 DEF PressInv
<1>9. NoStuckShift' /\ DrainNeverWaits'
  BY <1>1, <1>7 DEF NoStuckShift, DrainNeverWaits, PositionInv, KeyDown
<1> QED
  BY <1>6, <1>7, <1>8, <1>9 DEF IInv, KeyboardIsSound

LEMMA KeyUpKeeps ==
  ASSUME IInv, NEW key \in Key, KeyUp(key) PROVE IInv'
<1>1. /\ TypeOK /\ PositionInv /\ PressInv /\ NoStuckShift
      /\ id \in Nat /\ MaxKeys \in Nat
  BY KeyboardAssumption DEF IInv, KeyboardIsSound, TypeOK
<1>2. /\ events' \in Seq(Event) /\ Len(events') <= EVQ_CAPACITY
      /\ \A i \in 1..Len(events') : events'[i].id <= id
  <2> DEFINE e == [type |-> "up", key |-> key, id |-> 0]
  <2>1. e \in Event /\ EventPush(e) /\ e.id <= id
    BY <1>1 DEF Event, KeyUp
  <2>2. events \in Seq(Event) /\ Len(events) <= EVQ_CAPACITY
    BY <1>1 DEF TypeOK
  <2>3. \A i \in 1..Len(events) : events[i].id <= id
    BY <1>1 DEF PressInv
  <2> HIDE DEF e
  <2> QED
    BY <1>1, <2>1, <2>2, <2>3, EventPushBounds
<1>3. Pending' = Pending
  BY PendingStays DEF KeyUp
<1>4. TypeOK'
  BY <1>1, <1>2 DEF TypeOK, KeyUp, Wake
<1>5. PositionInv'
  BY <1>1 DEF PositionInv, KeyUp, Wake
<1>6. PressInv'
  BY <1>1, <1>2, <1>3 DEF PressInv, KeyUp
<1>7. NoStuckShift' /\ DrainNeverWaits'
  BY <1>1, <1>5 DEF NoStuckShift, DrainNeverWaits, PositionInv, KeyUp
<1> QED
  BY <1>4, <1>5, <1>6, <1>7 DEF IInv, KeyboardIsSound

LEMMA MovementKeeps ==
  IInv /\ (KeyPrefix \/ TimerTick \/ GetcharTest \/ Hlt \/ GetcharRead
           \/ PollEmpty \/ Haskey \/ UNCHANGED vars) => IInv'
<1> SUFFICES ASSUME IInv,
                    KeyPrefix \/ TimerTick \/ GetcharTest \/ Hlt \/ GetcharRead
                    \/ PollEmpty \/ Haskey \/ UNCHANGED vars
             PROVE  IInv'
  OBVIOUS
<1>1. TypeOK /\ PositionInv
  BY DEF IInv, KeyboardIsSound
<1>2. CASE KeyPrefix \/ TimerTick
  <2>1. TypeOK' /\ PositionInv'
    BY <1>1, <1>2 DEF TypeOK, PositionInv, KeyPrefix, TimerTick, Wake
  <2> QED
    BY <1>2, <2>1, MovesKeep DEF KeyPrefix, TimerTick
<1>3. CASE GetcharTest \/ Hlt \/ PollEmpty \/ UNCHANGED vars
  <2>1. TypeOK' /\ PositionInv'
    BY <1>1, <1>3 DEF TypeOK, PositionInv, GetcharTest, Hlt, PollEmpty, vars
  <2> QED
    BY <1>3, <2>1, MovesKeep DEF GetcharTest, Hlt, PollEmpty, vars
<1>4. CASE GetcharRead
  <2>1. kbd_buf[kbd_tail] \in Typed \cup {NoKey}
    BY <1>1 DEF TypeOK
  <2>2. TypeOK' /\ PositionInv'
    BY <1>1, <1>4, <2>1 DEF TypeOK, PositionInv, GetcharRead
  <2> QED
    BY <1>4, <2>2, MovesKeep DEF GetcharRead
<1>5. CASE Haskey
  <2>1. mode = "drain"
    BY <1>1, <1>5 DEF TypeOK, PositionInv, Haskey
  <2>2. TypeOK' /\ PositionInv'
    BY <1>1, <1>5, <2>1 DEF TypeOK, PositionInv, Haskey
  <2> QED
    BY <1>5, <2>2, MovesKeep DEF Haskey
<1> QED
  BY <1>2, <1>3, <1>4, <1>5

(* The oldest character, at kbd_tail, is what keyboard_getchar has read.   *)
LEMMA AdvanceTakesTheOldest ==
  ASSUME IInv, GetcharAdvance
  PROVE  /\ Pending \in Seq(Cell) /\ Pending # <<>>
         /\ got' = Head(Pending) /\ Pending' = Tail(Pending) /\ c = Head(Pending)
<1>1. /\ kbd_tail \in Slot /\ kbd_head \in Slot /\ kbd_head # kbd_tail
      /\ kbd_buf \in [Slot -> Cell] /\ c = kbd_buf[kbd_tail]
  BY DEF IInv, KeyboardIsSound, TypeOK, PositionInv, GetcharAdvance, Cell
<1>2. Pending \in Seq(Cell)
  BY PendingIsSeq DEF IInv, KeyboardIsSound
<1>3. Pending' = Items(kbd_buf, Inc(kbd_tail), kbd_head)
  BY DEF Pending, GetcharAdvance, Items, Distance, Behind
<1> QED
  BY <1>1, <1>2, <1>3, ItemsTail DEF Pending, GetcharAdvance

LEMMA AdvanceKeeps ==
  ASSUME IInv, GetcharAdvance PROVE IInv'
<1>1. /\ TypeOK /\ PositionInv /\ PressInv /\ NoStuckShift
  BY DEF IInv, KeyboardIsSound
<1>2. kbd_tail' \in Slot
  BY <1>1, IncWraps DEF TypeOK, GetcharAdvance
<1>3. TypeOK' /\ PositionInv'
  BY <1>1, <1>2 DEF TypeOK, PositionInv, GetcharAdvance
<1>4. PressInv'
  <2>1. /\ Pending \in Seq(Cell) /\ Pending # <<>> /\ Pending' = Tail(Pending)
    BY AdvanceTakesTheOldest
  <2>2. Len(Pending') = Len(Pending) - 1
        /\ \A i \in 1..Len(Pending') : Pending'[i] = Pending[i + 1]
    BY <2>1
  <2>3. \A i \in 1..Len(Pending') : i + 1 \in 1..Len(Pending)
    BY <2>1, <2>2
  <2>4. mode' = "line" => mode = "line"
    BY DEF GetcharAdvance
  <2> QED
    BY <1>1, <2>2, <2>3, <2>4 DEF PressInv, GetcharAdvance
<1> QED
  BY <1>1, <1>3, <1>4
  DEF IInv, KeyboardIsSound, NoStuckShift, DrainNeverWaits, PositionInv, GetcharAdvance

(* cmd_events takes an event.  It is in no command line, so PressInv asks  *)
(* nothing of the buffer.                                                  *)
LEMMA PollEventKeeps ==
  ASSUME IInv, PollEvent PROVE IInv'
<1>1. /\ TypeOK /\ PositionInv /\ PressInv /\ NoStuckShift
      /\ id \in Nat /\ MaxKeys \in Nat
  BY KeyboardAssumption DEF IInv, KeyboardIsSound, TypeOK
<1>2. mode = "events" /\ mode' # "line"
  BY <1>1 DEF TypeOK, PositionInv, PollEvent
<1>3. /\ events \in Seq(Event) /\ events # <<>>
      /\ events' \in Seq(Event) /\ Len(events') = Len(events) - 1
      /\ \A i \in 1..Len(events') : events'[i] = events[i + 1]
      /\ Head(events) = events[1]
  BY <1>1 DEF TypeOK, PollEvent
<1>4. 1 \in 1..Len(events) /\ \A i \in 1..Len(events') : i + 1 \in 1..Len(events)
  BY <1>3
<1>5. \A i \in 1..Len(events') : events'[i].id <= id
  BY <1>1, <1>3, <1>4 DEF PressInv
<1>6. Head(events) \in Event /\ Head(events).id <= id
  BY <1>1, <1>3, <1>4 DEF PressInv
<1>7. Head(events).id \in 0..id
  BY <1>1, <1>6 DEF Event
<1>8. shown' \subseteq 1..id /\ shown' \subseteq 1..MaxKeys
  <2>1. shown' = shown \cup ({Head(events).id} \ {0})
    BY DEF PollEvent
  <2>2. shown \subseteq 1..id /\ id \in 0..MaxKeys
    BY <1>1 DEF PressInv, TypeOK
  <2> SUFFICES ASSUME NEW k \in shown' PROVE k \in 1..id /\ k \in 1..MaxKeys
    OBVIOUS
  <2>3. k \in 1..id
    <3>1. CASE k \in shown
      BY <2>2, <3>1
    <3>2. CASE k = Head(events).id /\ k # 0
      BY <1>1, <1>7, <3>2
    <3> QED
      BY <2>1, <3>1, <3>2
  <2> QED
    BY <1>1, <2>2, <2>3
<1>9. Len(events') <= EVQ_CAPACITY
  BY <1>1, <1>3, KeyboardAssumption DEF TypeOK
<1>10. TypeOK'
  BY <1>1, <1>3, <1>8, <1>9 DEF TypeOK, PollEvent
<1>11. PositionInv'
  BY <1>1, <1>2 DEF PositionInv, PollEvent
<1>12. PressInv'
  BY <1>2, <1>5, <1>8 DEF PressInv, PollEvent
<1> QED
  BY <1>1, <1>10, <1>11, <1>12
  DEF IInv, KeyboardIsSound, NoStuckShift, DrainNeverWaits, PositionInv, PollEvent

LEMMA NextKeeps == IInv /\ [Next]_vars => IInv'
BY KeyDownKeeps, KeyUpKeeps, MovementKeeps, AdvanceKeeps, PollEventKeeps
DEF Next, Handler, BootTask

(***************************************************************************)
(* The theorems.                                                           *)
(***************************************************************************)

(* The inductive invariant holds in every reachable state.                 *)
THEOREM Invariance == Spec => []IInv
BY InitInv, NextKeeps, PTL DEF Spec

(* keyboard.c's indices stay in the buffer, shift_down is never stuck, and *)
(* the drain of cmd_events (kernel.c:199) never halts.                     *)
THEOREM Soundness == Spec => []KeyboardIsSound
<1>1. IInv => KeyboardIsSound
  BY DEF IInv
<1> QED
  BY <1>1, Invariance, PTL

(* kernel.c:199: no key that cmd_events has taken turns up in a command    *)
(* line, though the handler hands every key to both.                       *)
THEOREM TakenKeysStay == Spec => TakenKeysDoNotLeak
<1>1. IInv => (GetcharAdvance /\ mode = "line" => c.id \notin shown)
  <2> SUFFICES ASSUME IInv, GetcharAdvance, mode = "line"
               PROVE  c.id \notin shown
    OBVIOUS
  <2>1. Pending \in Seq(Cell) /\ Pending # <<>> /\ c = Head(Pending)
    BY AdvanceTakesTheOldest
  <2>2. c = Pending[1] /\ 1 \in 1..Len(Pending)
    BY <2>1
  <2> QED
    BY <2>2 DEF IInv, PressInv
<1> QED
  BY <1>1, Invariance, PTL DEF TakenKeysDoNotLeak

LEMMA InitRefines == Init => Abstract!Init
<1> SUFFICES ASSUME Init PROVE Abstract!Init
  OBVIOUS
<1>1. 0 \in Slot
  BY KeyboardAssumption DEF Slot
<1>2. Pending = <<>>
  BY <1>1, ItemsLen DEF Init, Pending
<1> QED
  BY <1>2 DEF Init, Abstract!Init

LEMMA KeyDownRefines ==
  ASSUME IInv, NEW key \in Key, KeyDown(key)
  PROVE  Abstract!Put \/ UNCHANGED Abstract!vars
<1>1. TypeOK /\ id < MaxKeys
  BY DEF IInv, KeyboardIsSound, KeyDown
<1>2. shift_down' \in BOOLEAN /\ caps_lock' \in BOOLEAN
  BY <1>1 DEF TypeOK, KeyDown
<1>3. PICK ch \in {Letter, "A", "enter", "esc", NUL} :
        BufPut(ch) /\ kbd_tail' = kbd_tail
  BY <1>2, CharOfValues DEF KeyDown
<1>4. \/ Pending' = Pending
      \/ \E t \in Typed : /\ Len(Pending) < KBD_BUF_SIZE - 1
                          /\ Pending' = Append(Pending, t)
  BY <1>1, <1>3, BufPutAppends
<1> QED
  BY <1>4 DEF Abstract!Put, Abstract!vars, KeyDown

(* keyboard.c's buffer without a lock implements a queue that drops what   *)
(* does not fit: whatever the interleaving of the handler with             *)
(* keyboard_getchar, no other character is lost, repeated or reordered.    *)
THEOREM Refinement == Spec => ImplementsDropNewest
<1>1. IInv /\ [Next]_vars => [Abstract!Next]_(Abstract!vars)
  <2> SUFFICES ASSUME IInv, [Next]_vars
               PROVE  [Abstract!Next]_(Abstract!vars)
    OBVIOUS
  <2>1. CASE \E key \in Key : KeyDown(key)
    BY <2>1, KeyDownRefines DEF Abstract!Next
  <2>2. CASE GetcharAdvance
    BY <2>2, AdvanceTakesTheOldest DEF Abstract!Next, Abstract!Get
  <2>3. CASE \/ \E key \in Key : KeyUp(key)
             \/ KeyPrefix \/ TimerTick \/ GetcharTest \/ Hlt \/ GetcharRead
             \/ PollEmpty \/ PollEvent \/ Haskey \/ UNCHANGED vars
    <3>1. UNCHANGED <<kbd_buf, kbd_head, kbd_tail, got>>
      BY <2>3 DEF KeyUp, KeyPrefix, TimerTick, GetcharTest, Hlt, GetcharRead,
         PollEmpty, PollEvent, Haskey, vars
    <3> QED
      BY <3>1, PendingStays DEF Abstract!vars
  <2> QED
    BY <2>1, <2>2, <2>3 DEF Next, Handler, BootTask
<1> QED
  BY <1>1, InitRefines, Invariance, PTL
  DEF Spec, ImplementsDropNewest, Abstract!Spec
=============================================================================
