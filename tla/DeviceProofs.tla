---------------------------- MODULE DeviceProofs ----------------------------
(***************************************************************************)
(* Proofs about the devices that the kernel talks to through ports: the    *)
(* serial port of Serial, and the boot of Boot with its interrupt          *)
(* controllers and its dialogue with the 8042.                             *)
(*                                                                         *)
(* First the serial port: no byte is ever written to a full FIFO, for any  *)
(* number of tasks up to its depth, and the line is a merge of the texts.  *)
(***************************************************************************)
EXTENDS Serial, Boot, FiniteSetTheorems, SequenceTheorems, TLAPS

LEMMA TicketsAreFinite ==
  /\ IsFiniteSet(Ticket) /\ Cardinality(Ticket) \in Nat
  /\ Cardinality(Ticket) <= Cardinality(Task)
  /\ Cardinality(Task) \in Nat
<1>1. Ticket \subseteq Task
  BY DEF Ticket
<1>2. QED
  BY <1>1, SerialAssumption, FS_Subset, FS_CardinalityType DEF SerialAssumption

LEMMA InitHolds == ASSUME Init PROVE IInv
<1>1. Ticket = {}
  BY DEF Init, Ticket
<1>2. Cardinality(Ticket) = 0
  BY <1>1, FS_EmptySet
<1>3. TypeOK
  BY SerialAssumption DEF Init, TypeOK, SerialAssumption
<1>4. QED
  BY <1>1, <1>2, <1>3, TicketsAreFinite DEF IInv, Init

(* A task that passes the test finds the FIFO empty, so however many tasks *)
(* have a ticket, the sum is at most the number of tasks.                  *)
LEMMA TestKeeps ==
  ASSUME IInv, NEW t \in Task, PutcTest(t) PROVE IInv'
<1>1. TypeOK'
  BY DEF IInv, TypeOK, PutcTest
<1>2. Ticket' \subseteq Task
  BY DEF Ticket
<1>3. Cardinality(Ticket') <= Cardinality(Task) /\ Cardinality(Ticket') \in Nat
  BY <1>2, SerialAssumption, FS_Subset, FS_CardinalityType DEF SerialAssumption
<1>4. fifo' = <<>> /\ Len(fifo') = 0
  BY DEF PutcTest, tx_empty
<1>5. \A u \in Ticket' : depth' = Depth /\ rest'[u] # <<>>
  BY DEF IInv, TypeOK, PutcTest, Polls, Ticket
<1>6. QED
  BY <1>1, <1>3, <1>4, <1>5, TicketsAreFinite DEF IInv

(* Writing a byte uses up the ticket.                                      *)
LEMMA OutKeeps ==
  ASSUME IInv, NEW t \in Task, PutcOut(t) PROVE IInv'
<1>1. t \in Ticket
  BY DEF PutcOut, Ticket
<1>2. rest[t] \in Seq(Char) /\ rest[t] # <<>>
  BY <1>1 DEF IInv, TypeOK
<1>3. Byte(t) \in Char
  BY <1>2, SerialAssumption DEF Byte, SerialAssumption
<1>4. TypeOK'
  <2>1. fifo' \in Seq([by : Task, byte : Char])
    <3>1. [by |-> t, byte |-> Byte(t)] \in [by : Task, byte : Char]
      BY <1>3
    <3>2. fifo \in Seq([by : Task, byte : Char])
      BY DEF IInv, TypeOK
    <3>3. Append(fifo, [by |-> t, byte |-> Byte(t)])
            \in Seq([by : Task, byte : Char])
      BY <3>1, <3>2
    <3>4. QED
      BY <3>2, <3>3 DEF PutcOut
  <2>2. rest' \in [Task -> Seq(Char)]
    BY <1>2 DEF PutcOut, IInv, TypeOK
  <2>3. QED
    BY <2>1, <2>2 DEF PutcOut, IInv, TypeOK
<1>5. Ticket' = Ticket \ {t}
  BY DEF PutcOut, Ticket, IInv, TypeOK
<1>6. Cardinality(Ticket') = Cardinality(Ticket) - 1
  BY <1>1, <1>5, TicketsAreFinite, FS_RemoveElement
<1>7. Len(fifo') <= Len(fifo) + 1 /\ Len(fifo') \in Nat /\ Len(fifo) \in Nat
  BY <1>3 DEF PutcOut, IInv, TypeOK
<1>8. \A u \in Ticket' : depth' = Depth /\ rest'[u] # <<>>
  BY <1>5 DEF PutcOut, IInv, TypeOK, Ticket
<1>9. QED
  BY <1>4, <1>6, <1>7, <1>8, TicketsAreFinite DEF IInv

LEMMA TransmitKeeps == ASSUME IInv, Transmit PROVE IInv'
<1>1. TypeOK'
  BY DEF Transmit, IInv, TypeOK
<1>2. Ticket' = Ticket
  BY DEF Transmit, Ticket
<1>3. Len(fifo') <= Len(fifo) /\ Len(fifo') \in Nat /\ Len(fifo) \in Nat
  BY DEF Transmit, IInv, TypeOK
<1>4. QED
  BY <1>1, <1>2, <1>3, TicketsAreFinite DEF IInv, Transmit

LEMMA SetUpKeeps == ASSUME IInv, serial_init PROVE IInv'
<1>1. TypeOK' /\ Ticket' = Ticket
  BY DEF serial_init, IInv, TypeOK, Ticket
<1>2. QED
  BY <1>1 DEF serial_init, IInv

LEMMA StepHolds == ASSUME IInv, [Next]_vars PROVE IInv'
<1>1. CASE UNCHANGED vars
  BY <1>1 DEF vars, IInv, TypeOK, Ticket
<1>2. CASE Next
  BY <1>1, <1>2, TestKeeps, OutKeeps, TransmitKeeps, SetUpKeeps
     DEF Next, Putc, PutcPoll
<1>3. QED
  BY <1>1, <1>2

LEMMA InvariantGivesRoom == ASSUME IInv PROVE RoomAfterTheTest
<1> SUFFICES ASSUME NEW t \in Task, pc[t] = "out" PROVE Len(fifo) < depth
  BY DEF RoomAfterTheTest
<1>1. t \in Ticket
  BY DEF Ticket
<1>2. Cardinality(Ticket) >= 1
  <2>1. Cardinality(Ticket) # 0
    BY <1>1, TicketsAreFinite, FS_EmptySet
  <2>2. QED
    BY <2>1, TicketsAreFinite
<1>3. Len(fifo) \in Nat
  BY DEF IInv, TypeOK
<1>4. QED
  BY <1>1, <1>2, <1>3, TicketsAreFinite, SerialAssumption DEF IInv, SerialAssumption

-----------------------------------------------------------------------------
(* Every history keeps the bytes in the FIFO and the tickets in balance.   *)
THEOREM Invariance == Spec => []IInv
<1>1. Init => IInv
  BY InitHolds
<1>2. IInv /\ [Next]_vars => IInv'
  BY StepHolds
<1>3. QED
  BY <1>1, <1>2, PTL DEF Spec

(* A task that has passed serial.c's test of tx_empty finds room in the    *)
(* FIFO, whatever other tasks wrote before its outb.                       *)
THEOREM NoOverrun == Spec => []RoomAfterTheTest
<1>1. IInv => RoomAfterTheTest
  BY InvariantGivesRoom
<1>2. QED
  BY <1>1, Invariance, PTL
-----------------------------------------------------------------------------
(***************************************************************************)
(* Induction, as a set of naturals that is not empty has a least element:  *)
(* the library's theorem takes an operator, which no prover instantiates.  *)
(***************************************************************************)
LEMMA LeastElement ==
  ASSUME NEW T, T \subseteq Nat, T # {}
  PROVE  \E x \in T : \A y \in T : x <= y
<1> DEFINE R == OpToRel(<, Nat)
<1>1. IsWellFoundedOn(R, Nat)
  BY NatLessThanWellFounded
<1>2. \A x, y \in Nat : x < y => <<x, y>> \in R
  BY DEF OpToRel
<1> HIDE DEF R
<1>3. PICK x \in T : \A y \in T : ~ (<<y, x>> \in R)
  BY <1>1, WFMin
<1>4. \A y \in T : ~ (y < x)
  BY <1>2, <1>3
<1> QED
  BY <1>4

LEMMA Induction ==
  ASSUME NEW Q, 0 \in Q, \A k \in Nat : k \in Q => k + 1 \in Q
  PROVE  \A k \in Nat : k \in Q
<1> DEFINE T == {k \in Nat : k \notin Q}
<1>1. ASSUME NEW k \in T, \A j \in T : k <= j PROVE FALSE
  <2>1. k \in Nat /\ k # 0 /\ k \notin Q
    OBVIOUS
  <2>2. k - 1 \in Nat /\ (k - 1) + 1 = k
    BY <2>1
  <2>3. k - 1 \notin T
    BY <1>1, <2>1, <2>2
  <2> QED
    BY <2>1, <2>2, <2>3
<1>2. T \subseteq Nat
  OBVIOUS
<1> HIDE DEF T
<1>3. T = {}
  BY <1>1, <1>2, LeastElement
<1> QED
  BY <1>3 DEF T

(***************************************************************************)
(* FlattenSeq: pieces put one after the other.  f holds what the first     *)
(* pieces of ss make, for each number of them.                             *)
(***************************************************************************)
Glue(a, b) == a \o b
Closed(T) == \A a, b \in T : Glue(a, b) \in T
Steps(n, ss, f) ==
  \A i \in 1..n : f[i] = IF i = 1 THEN ss[i] ELSE Glue(f[i - 1], ss[i])
Flattens(T, n, ss, f) == f \in [1..n -> T] /\ Steps(n, ss, f)

LEMMA GlueAssociates ==
  ASSUME NEW S, NEW a \in Seq(S), NEW b \in Seq(S), NEW c \in Seq(S)
  PROVE  Glue(Glue(a, b), c) = Glue(a, Glue(b, c))
BY ConcatAssociative DEF Glue

LEMMA FlattensExists ==
  ASSUME NEW T, Closed(T), NEW n \in Nat, NEW ss \in [1..n -> T]
  PROVE  \E f : Flattens(T, n, ss, f)
<1> DEFINE Body(f, i) == IF i = 1 THEN ss[i] ELSE Glue(f[i - 1], ss[i])
           Good(f, k) == \A i \in 1..n : i <= k => f[i] = Body(f, i)
           Q == {k \in Nat : \E f \in [1..n -> T] : Good(f, k)}
<1>1. 0 \in Q
  <2> DEFINE f == [i \in 1..n |-> ss[i]]
  <2>1. f \in [1..n -> T] /\ Good(f, 0)
    OBVIOUS
  <2> QED
    BY <2>1
<1>2. ASSUME NEW k \in Nat, k \in Q PROVE k + 1 \in Q
  <2>1. PICK f \in [1..n -> T] : Good(f, k)
    BY <1>2
  <2> DEFINE g == [i \in 1..n |-> IF i <= k THEN f[i] ELSE Body(f, i)]
  <2>2. \A i \in 1..n : i # 1 => i - 1 \in 1..n /\ f[i - 1] \in T
    OBVIOUS
  <2>3. g \in [1..n -> T]
    BY <2>2 DEF Closed
  <2>4. \A i \in 1..n : i <= k + 1 => g[i] = Body(f, i)
    BY <2>1
  <2>5. \A i \in 1..n : i <= k + 1 => Body(f, i) = Body(g, i)
    BY <2>2
  <2>6. g \in [1..n -> T] /\ Good(g, k + 1)
    BY <2>3, <2>4, <2>5
  <2> HIDE DEF g, Good
  <2> QED
    BY <2>6
<1>3. \A k \in Nat : k \in Q
  <2> HIDE DEF Q
  <2> QED
    BY <1>1, <1>2, Induction
<1>4. PICK f \in [1..n -> T] : Good(f, n)
  BY <1>3
<1>5. Flattens(T, n, ss, f)
  BY <1>4 DEF Flattens, Steps
<1> QED
  BY <1>5

(* Two sequences of pieces make the same as far as they are the same.      *)
LEMMA FlattensAgree ==
  ASSUME NEW n \in Nat, NEW ss, NEW tt, NEW f, NEW g,
         Steps(n, ss, f), Steps(n, tt, g), \A i \in 1..n : ss[i] = tt[i]
  PROVE  \A i \in 1..n : f[i] = g[i]
<1> DEFINE Q == {k \in Nat : k \in 1..n => f[k] = g[k]}
<1>1. /\ \A i \in 1..n : f[i] = IF i = 1 THEN tt[i] ELSE Glue(f[i - 1], tt[i])
      /\ \A i \in 1..n : g[i] = IF i = 1 THEN tt[i] ELSE Glue(g[i - 1], tt[i])
  BY DEF Steps
<1>2. 0 \in Q
  OBVIOUS
<1>3. ASSUME NEW k \in Nat, k \in Q PROVE k + 1 \in Q
  <2> SUFFICES ASSUME k + 1 \in 1..n PROVE f[k + 1] = g[k + 1]
    OBVIOUS
  <2>1. CASE k = 0
    BY <1>1, <2>1
  <2>2. CASE k # 0
    <3>1. k \in 1..n /\ f[k] = g[k] /\ (k + 1) - 1 = k /\ k + 1 # 1
      BY <1>3, <2>2
    <3> QED
      BY <1>1, <3>1
  <2> QED
    BY <2>1, <2>2
<1>4. \A k \in Nat : k \in Q
  <2> HIDE DEF Q
  <2> QED
    BY <1>2, <1>3, Induction
<1> QED
  BY <1>4

(* A sequence of pieces, to the provers.                                   *)
LEMMA Pieces ==
  ASSUME NEW S, NEW ss \in Seq(Seq(S))
  PROVE  /\ Len(ss) \in Nat /\ ss \in [1..Len(ss) -> Seq(S)]
         /\ Len(ss) = 0 <=> ss = <<>>
         /\ Closed(Seq(S))
<1>1. Closed(Seq(S))
  BY ConcatProperties DEF Closed, Glue
<1> QED
  BY <1>1, LenProperties, EmptySeq

LEMMA FlattenIs ==
  ASSUME NEW S, NEW ss \in Seq(Seq(S)), NEW f,
         Flattens(Seq(S), Len(ss), ss, f), ss # <<>>
  PROVE  FlattenSeq(ss) = f[Len(ss)] /\ f[Len(ss)] \in Seq(S)
<1> DEFINE n == Len(ss)
           R(h) == h = [i \in 1..n |-> IF i = 1 THEN ss[i] ELSE Glue(h[i - 1], ss[i])]
           c == CHOOSE h : R(h)
<1>1. n \in Nat /\ n # 0
  BY Pieces
<1>2. FlattenSeq(ss) = c[n]
  BY <1>1 DEF FlattenSeq, Glue
<1> HIDE DEF n
<1>3. R(f)
  BY DEF Flattens, Steps, n
<1>4. R(c)
  BY <1>3
<1>5. Steps(n, ss, c)
  BY <1>4 DEF Steps
<1> HIDE DEF c
<1>6. n \in 1..n /\ n <= n
  BY <1>1
<1>7. \A i \in 1..n : f[i] = c[i]
  BY <1>1, <1>5, FlattensAgree DEF Flattens, n
<1>8. f[n] \in Seq(S)
  BY <1>6 DEF Flattens, n
<1> QED
  BY <1>2, <1>6, <1>7, <1>8 DEF n

LEMMA FlattenType ==
  ASSUME NEW S, NEW ss \in Seq(Seq(S))
  PROVE  FlattenSeq(ss) \in Seq(S)
<1>1. CASE ss = <<>>
  BY <1>1 DEF FlattenSeq
<1>2. CASE ss # <<>>
  <2>1. PICK f : Flattens(Seq(S), Len(ss), ss, f)
    BY Pieces, FlattensExists
  <2> QED
    BY <1>2, <2>1, FlattenIs
<1> QED
  BY <1>1, <1>2

LEMMA FlattenAppend ==
  ASSUME NEW S, NEW ss \in Seq(Seq(S)), NEW x \in Seq(S)
  PROVE  FlattenSeq(Append(ss, x)) = FlattenSeq(ss) \o x
<1> DEFINE tt == Append(ss, x)
           n == Len(ss)
<1>1. tt \in Seq(Seq(S)) /\ tt # <<>> /\ Len(tt) = n + 1
  BY AppendProperties
<1>2. tt[n + 1] = x /\ \A i \in 1..n : ss[i] = tt[i]
  BY AppendProperties
<1> HIDE DEF tt, n
<1>3. n \in Nat /\ n + 1 \in Nat /\ n <= n + 1 /\ n + 1 \in 1..(n + 1)
  BY Pieces DEF n
<1>4. PICK g : Flattens(Seq(S), n + 1, tt, g)
  BY <1>1, Pieces, FlattensExists
<1>5. FlattenSeq(tt) = g[n + 1]
  BY <1>1, <1>4, FlattenIs
<1>6. \A i \in 1..(n + 1) : g[i] = IF i = 1 THEN tt[i] ELSE Glue(g[i - 1], tt[i])
  BY <1>4 DEF Flattens, Steps
<1>7. CASE ss = <<>>
  <2>1. n = 0 /\ FlattenSeq(ss) = <<>>
    BY <1>7 DEF FlattenSeq, n
  <2>2. g[n + 1] = x
    BY <1>2, <1>3, <1>6, <2>1
  <2>3. <<>> \o x = x
    BY ConcatEmptySeq
  <2> QED
    BY <1>5, <2>1, <2>2, <2>3 DEF tt
<1>8. CASE ss # <<>>
  <2>1. PICK f : Flattens(Seq(S), n, ss, f)
    BY Pieces, FlattensExists DEF n
  <2>2. n \in 1..n /\ n # 0
    BY <1>3, <1>8, Pieces DEF n
  <2>3. Steps(n, ss, f) /\ Steps(n, tt, g)
    BY <1>3, <1>6, <2>1 DEF Flattens, Steps
  <2>4. g[n] = f[n]
    BY <1>2, <1>3, <2>2, <2>3, FlattensAgree
  <2>5. FlattenSeq(ss) = f[n]
    BY <1>8, <2>1, FlattenIs DEF n
  <2>6. g[n + 1] = Glue(g[n], x)
    BY <1>2, <1>3, <1>6, <2>2
  <2> QED
    BY <1>5, <2>4, <2>5, <2>6 DEF tt, Glue
<1> QED
  BY <1>7, <1>8

LEMMA FlattenHead ==
  ASSUME NEW S, NEW ss \in Seq(Seq(S)), ss # <<>>
  PROVE  FlattenSeq(ss) = Head(ss) \o FlattenSeq(Tail(ss))
<1> DEFINE tt == Tail(ss)
           n == Len(ss)
           a == ss[1]
<1>1. tt \in Seq(Seq(S)) /\ Len(tt) = n - 1 /\ Head(ss) = a
  OBVIOUS
<1>2. \A i \in 1..(n - 1) : tt[i] = ss[i + 1]
  OBVIOUS
<1> HIDE DEF tt, n
<1>3. n \in Nat /\ n # 0 /\ ss \in [1..n -> Seq(S)]
  BY Pieces DEF n
<1>4. n - 1 \in Nat /\ tt \in [1..(n - 1) -> Seq(S)] /\ (n - 1 = 0 <=> tt = <<>>)
  BY <1>1, Pieces
<1>5. a \in Seq(S) /\ 1 \in 1..n
  BY <1>3
<1> HIDE DEF a
<1>6. PICK f : Flattens(Seq(S), n, ss, f)
  BY <1>3, Pieces, FlattensExists
<1>7. PICK g : Flattens(Seq(S), n - 1, tt, g)
  BY <1>4, Pieces, FlattensExists
<1>8. FlattenSeq(ss) = f[n]
  BY <1>6, FlattenIs DEF n
<1>9. \A i \in 1..n : f[i] = IF i = 1 THEN ss[i] ELSE Glue(f[i - 1], ss[i])
  BY <1>6 DEF Flattens, Steps
<1>10. \A i \in 1..(n - 1) : /\ g[i] = IF i = 1 THEN tt[i] ELSE Glue(g[i - 1], tt[i])
                             /\ g[i] \in Seq(S)
  BY <1>7 DEF Flattens, Steps
<1>11. f[1] = a
  BY <1>5, <1>9 DEF a
<1>12. CASE n = 1
  <2>1. tt = <<>> /\ FlattenSeq(tt) = <<>>
    BY <1>4, <1>12 DEF FlattenSeq
  <2>2. a \o <<>> = a
    BY <1>5, ConcatEmptySeq
  <2> QED
    BY <1>1, <1>8, <1>11, <1>12, <2>1, <2>2 DEF tt
<1>13. CASE n # 1
  <2> DEFINE Q == {k \in Nat : k \in 1..(n - 1) => f[k + 1] = Glue(a, g[k])}
  <2>1. 0 \in Q
    OBVIOUS
  <2>2. ASSUME NEW k \in Nat, k \in Q PROVE k + 1 \in Q
    <3> SUFFICES ASSUME k + 1 \in 1..(n - 1)
                 PROVE  f[(k + 1) + 1] = Glue(a, g[k + 1])
      OBVIOUS
    <3>1. /\ (k + 1) + 1 \in 1..n /\ (k + 1) + 1 # 1
          /\ ((k + 1) + 1) - 1 = k + 1
      BY <1>3
    <3>2. tt[k + 1] = ss[(k + 1) + 1] /\ tt[k + 1] \in Seq(S)
      BY <1>2, <1>4
    <3>3. f[(k + 1) + 1] = Glue(f[k + 1], tt[k + 1])
      BY <1>9, <3>1, <3>2
    <3>4. CASE k = 0
      <4>1. k + 1 = 1 /\ g[k + 1] = tt[k + 1]
        BY <1>10, <3>4
      <4> QED
        BY <1>11, <3>3, <4>1
    <3>5. CASE k # 0
      <4>1. k \in 1..(n - 1) /\ (k + 1) - 1 = k /\ k + 1 # 1
        BY <1>3, <3>5
      <4>2. f[k + 1] = Glue(a, g[k])
        BY <2>2, <4>1
      <4>3. g[k + 1] = Glue(g[k], tt[k + 1]) /\ g[k] \in Seq(S)
        BY <1>10, <4>1
      <4>4. Glue(Glue(a, g[k]), tt[k + 1]) = Glue(a, Glue(g[k], tt[k + 1]))
        BY <1>5, <3>2, <4>3, GlueAssociates
      <4> QED
        BY <3>3, <4>2, <4>3, <4>4
    <3> QED
      BY <3>4, <3>5
  <2>3. \A k \in Nat : k \in Q
    <3> HIDE DEF Q
    <3> QED
      BY <2>1, <2>2, Induction
  <2>4. n - 1 \in 1..(n - 1) /\ (n - 1) + 1 = n /\ n - 1 # 0
    BY <1>3, <1>13
  <2>5. f[n] = Glue(a, g[n - 1])
    BY <1>4, <2>3, <2>4
  <2>6. FlattenSeq(tt) = g[n - 1]
    BY <1>1, <1>4, <1>7, <2>4, FlattenIs
  <2> QED
    BY <1>1, <1>8, <2>5, <2>6 DEF tt, Glue
<1> QED
  BY <1>12, <1>13
-----------------------------------------------------------------------------
(***************************************************************************)
(* What a step adds to the line, and what it leaves to come.               *)
(***************************************************************************)
Entry == [by : Task, byte : Char]

LEMMA BytesOfAppend ==
  ASSUME NEW t \in Task, NEW log \in Seq(Entry), NEW e \in Entry
  PROVE  /\ BytesOf(t, log) \in Seq(Char)
         /\ BytesOf(t, Append(log, e)) =
              BytesOf(t, log) \o (IF e.by = t THEN <<e.byte>> ELSE <<>>)
<1> DEFINE P(b) == IF b.by = t THEN <<b.byte>> ELSE <<>>
           ss == [k \in 1..Len(log) |-> P(log[k])]
           tt == [k \in 1..Len(Append(log, e)) |-> P(Append(log, e)[k])]
<1>1. \A b \in Entry : P(b) \in Seq(Char)
  BY DEF Entry
<1>2. Len(log) \in Nat /\ \A k \in 1..Len(log) : log[k] \in Entry
  OBVIOUS
<1>3. /\ Len(Append(log, e)) = Len(log) + 1
      /\ Append(log, e)[Len(log) + 1] = e
      /\ \A k \in 1..Len(log) : Append(log, e)[k] = log[k]
  BY AppendProperties
<1>4. BytesOf(t, log) = FlattenSeq(ss) /\ BytesOf(t, Append(log, e)) = FlattenSeq(tt)
  BY DEF BytesOf
<1> HIDE DEF P
<1>5. ss \in Seq(Seq(Char)) /\ Len(ss) = Len(log)
  BY <1>1, <1>2
<1>6. tt = Append(ss, P(e))
  <2>1. /\ DOMAIN Append(ss, P(e)) = 1..(Len(log) + 1)
        /\ Append(ss, P(e))[Len(log) + 1] = P(e)
        /\ \A k \in 1..Len(log) : Append(ss, P(e))[k] = ss[k]
    BY <1>1, <1>2, <1>5, AppendProperties, LenProperties
  <2>2. Append(ss, P(e)) = [k \in 1..(Len(log) + 1) |-> Append(ss, P(e))[k]]
    BY <1>1, <1>5, <2>1, AppendProperties, LenProperties
  <2>3. \A k \in 1..(Len(log) + 1) : Append(ss, P(e))[k] = tt[k]
    BY <1>2, <1>3, <2>1
  <2> QED
    BY <1>3, <2>2, <2>3
<1>7. FlattenSeq(tt) = FlattenSeq(ss) \o P(e)
  BY <1>1, <1>5, <1>6, FlattenAppend
<1>8. FlattenSeq(ss) \in Seq(Char)
  BY <1>5, FlattenType
<1> QED
  BY <1>4, <1>7, <1>8 DEF P

LEMMA OnLineHead ==
  ASSUME NEW s \in Seq(Char), s # <<>>
  PROVE  /\ Tail(s) \in Seq(Char) /\ OnLine(Tail(s)) \in Seq(Char)
         /\ OnLine(s) = (IF Head(s) = NL THEN <<CR, NL>> ELSE <<Head(s)>>)
                          \o OnLine(Tail(s))
<1> DEFINE P(c) == IF c = NL THEN <<CR, NL>> ELSE <<c>>
           ss == [k \in 1..Len(s) |-> P(s[k])]
           tt == [k \in 1..Len(Tail(s)) |-> P(Tail(s)[k])]
<1>1. \A c \in Char : P(c) \in Seq(Char)
  BY SerialAssumption
<1>2. /\ Len(s) \in Nat \ {0} /\ \A k \in 1..Len(s) : s[k] \in Char
      /\ Tail(s) \in Seq(Char) /\ Len(Tail(s)) = Len(s) - 1
      /\ \A k \in 1..(Len(s) - 1) : Tail(s)[k] = s[k + 1]
      /\ Head(s) = s[1]
  OBVIOUS
<1>3. OnLine(s) = FlattenSeq(ss) /\ OnLine(Tail(s)) = FlattenSeq(tt)
  BY DEF OnLine
<1> HIDE DEF P
<1>4. ss \in Seq(Seq(Char)) /\ Len(ss) = Len(s) /\ ss # <<>>
  BY <1>1, <1>2
<1>5. Head(ss) = P(Head(s))
  BY <1>2, <1>4
<1>6. Tail(ss) = tt
  <2>1. /\ Tail(ss) = [k \in 1..(Len(s) - 1) |-> ss[k + 1]]
    BY <1>2, <1>4
  <2>2. \A k \in 1..(Len(s) - 1) : ss[k + 1] = P(Tail(s)[k])
    BY <1>2
  <2> QED
    BY <1>2, <2>1, <2>2
<1>7. FlattenSeq(ss) = P(Head(s)) \o FlattenSeq(tt)
  BY <1>4, <1>5, <1>6, FlattenHead
<1>8. FlattenSeq(tt) \in Seq(Char)
  <2>1. tt \in Seq(Seq(Char))
    BY <1>1, <1>2
  <2> QED
    BY <2>1, FlattenType
<1> QED
  BY <1>2, <1>3, <1>7, <1>8 DEF P

(* The three cases of serial_putc: \r before \n, \n after \r, the rest.    *)
LEMMA ByteIsNextToCome ==
  ASSUME IInv, MergeInv, works, NEW t \in Task, PutcOut(t)
  PROVE  /\ ToCome(t)' \in Seq(Char) /\ ToCome(t) = <<Byte(t)>> \o ToCome(t)'
         /\ Byte(t) \in Char
         /\ rest'[t] \in Seq(Char \ {CR})
         /\ cr'[t] => rest'[t] # <<>> /\ Head(rest'[t]) = NL
<1>1. /\ rest[t] \in Seq(Char \ {CR}) /\ rest[t] \in Seq(Char) /\ rest[t] # <<>>
      /\ cr[t] => Head(rest[t]) = NL
      /\ cr[t] \in BOOLEAN
  BY DEF IInv, TypeOK, MergeInv, PutcOut, Ticket
<1>2. Head(rest[t]) \in Char \ {CR} /\ Tail(rest[t]) \in Seq(Char \ {CR})
  BY <1>1
<1>3. /\ rest'[t] = IF Byte(t) = CR THEN rest[t] ELSE Tail(rest[t])
      /\ cr'[t] = (Byte(t) = CR)
  BY DEF PutcOut, IInv, TypeOK
<1> DEFINE r == OnLine(Tail(rest[t]))
<1>4. /\ r \in Seq(Char)
      /\ OnLine(rest[t]) = (IF Head(rest[t]) = NL THEN <<CR, NL>>
                            ELSE <<Head(rest[t])>>) \o r
  BY <1>1, OnLineHead
<1>5. {CR, NL} \subseteq Char /\ CR # NL
  BY SerialAssumption
<1>6. Tail(<<CR, NL>> \o r) = <<NL>> \o r /\ <<CR, NL>> \o r = <<CR>> \o (<<NL>> \o r)
      /\ <<NL>> \o r \in Seq(Char)
  <2> DEFINE q == <<NL>> \o r
  <2>1. <<CR>> \in Seq(Char) /\ <<NL>> \in Seq(Char) /\ <<CR, NL>> = <<CR>> \o <<NL>>
    <3>1. <<CR>> \in Seq(Char) /\ <<NL>> \in Seq(Char)
      BY <1>5
    <3> DEFINE s == <<CR>> \o <<NL>>
               p == <<CR, NL>>
    <3>2. s \in Seq(Char) /\ Len(s) = 2 /\ s[1] = CR /\ s[2] = NL
      BY <3>1, ConcatProperties
    <3>3. p \in Seq(Char) /\ Len(p) = 2 /\ p[1] = CR /\ p[2] = NL
      BY <1>5
    <3> HIDE DEF s, p
    <3>4. Len(s) = Len(p) /\ \A i \in 1..Len(s) : s[i] = p[i]
      BY <3>2, <3>3
    <3>5. s = p
      BY <3>2, <3>3, <3>4, SeqEqual
    <3> QED
      BY <3>1, <3>5 DEF s, p
  <2>2. <<CR, NL>> \o r = <<CR>> \o q /\ q \in Seq(Char)
    BY <1>4, <2>1, ConcatAssociative, ConcatProperties
  <2> HIDE DEF q
  <2>3. Tail(<<CR>> \o q) = q
    BY <1>5, <2>2
  <2> QED
    BY <2>2, <2>3 DEF q
<1>7. CASE Head(rest[t]) = NL /\ ~ cr[t]
  <2>1. Byte(t) = CR /\ cr'[t] /\ rest'[t] = rest[t]
    BY <1>3, <1>7 DEF Byte
  <2>2. ToCome(t) = <<CR, NL>> \o r /\ ToCome(t)' = Tail(<<CR, NL>> \o r)
    BY <1>4, <1>7, <2>1 DEF ToCome, OnLine
  <2> QED
    BY <1>1, <1>5, <1>6, <1>7, <2>1, <2>2
<1>8. CASE Head(rest[t]) = NL /\ cr[t]
  <2>1. Byte(t) = NL /\ ~ cr'[t] /\ rest'[t] = Tail(rest[t])
    BY <1>3, <1>5, <1>8 DEF Byte
  <2>2. ToCome(t) = Tail(<<CR, NL>> \o r) /\ ToCome(t)' = r
    BY <1>4, <1>8, <2>1 DEF ToCome, OnLine
  <2> QED
    BY <1>2, <1>4, <1>5, <1>6, <2>1, <2>2
<1>9. CASE Head(rest[t]) # NL
  <2>1. Byte(t) = Head(rest[t]) /\ Byte(t) # CR /\ ~ cr[t] /\ ~ cr'[t]
        /\ rest'[t] = Tail(rest[t])
    BY <1>1, <1>2, <1>3, <1>9 DEF Byte
  <2>2. ToCome(t) = <<Head(rest[t])>> \o r /\ ToCome(t)' = r
    BY <1>4, <1>9, <2>1 DEF ToCome, OnLine
  <2> QED
    BY <1>2, <1>4, <2>1, <2>2
<1> QED
  BY <1>7, <1>8, <1>9

LEMMA MergeInitially == Init => MergeInv
<1> SUFFICES ASSUME Init, works PROVE MergeInv
  BY DEF MergeInv
<1>1. ~ loop /\ sent \o fifo = <<>> /\ sent = <<>>
  BY DEF Init
<1>2. ASSUME NEW t \in Task
      PROVE  /\ rest[t] \in Seq(Char \ {CR}) /\ ~ cr[t]
             /\ Taken(t) \o ToCome(t) = OnLine(Text[t])
  <2>1. rest[t] = Text[t] /\ rest[t] \in Seq(Char \ {CR}) /\ ~ cr[t]
    BY SerialAssumption DEF Init
  <2>2. ToCome(t) = OnLine(Text[t])
    BY <2>1 DEF ToCome
  <2>3. Taken(t) = <<>>
    BY <1>1 DEF Taken, BytesOf, FlattenSeq
  <2>4. OnLine(Text[t]) \in Seq(Char)
    <3>1. \A c \in Char : (IF c = NL THEN <<CR, NL>> ELSE <<c>>) \in Seq(Char)
      BY SerialAssumption
    <3>2. Len(Text[t]) \in Nat /\ \A k \in 1..Len(Text[t]) : Text[t][k] \in Char
      BY <2>1
    <3>3. [k \in 1..Len(Text[t]) |->
             IF Text[t][k] = NL THEN <<CR, NL>> ELSE <<Text[t][k]>>]
            \in Seq(Seq(Char))
      BY <3>1, <3>2
    <3> QED
      BY <3>3, FlattenType DEF OnLine
  <2> QED
    BY <2>1, <2>2, <2>3, <2>4, ConcatEmptySeq
<1> QED
  BY <1>1, <1>2 DEF MergeInv

LEMMA OutMerges ==
  ASSUME IInv, MergeInv, works, NEW t \in Task, PutcOut(t) PROVE MergeInv'
<1> DEFINE e == [by |-> t, byte |-> Byte(t)]
           log == sent \o fifo
<1>1. UNCHANGED <<works, loop, sent>>
  BY DEF PutcOut
<1>2. sent \in Seq(Entry) /\ fifo \in Seq(Entry) /\ log \in Seq(Entry)
  BY ConcatProperties DEF IInv, TypeOK, MergeInv, Entry
<1>3. ToCome(t)' \in Seq(Char) /\ ToCome(t) = <<Byte(t)>> \o ToCome(t)'
      /\ Byte(t) \in Char
  BY ByteIsNextToCome
<1>4. e \in Entry
  BY <1>3 DEF Entry
<1>5. (sent \o fifo)' = Append(log, e)
  <2>1. Len(fifo) < depth
    BY InvariantGivesRoom DEF PutcOut, RoomAfterTheTest
  <2>2. fifo' = Append(fifo, e)
    BY <2>1 DEF PutcOut
  <2> HIDE DEF e
  <2> QED
    BY <1>1, <1>2, <1>4, <2>2
<1> HIDE DEF log, e
<1>6. ASSUME NEW u \in Task
      PROVE  /\ rest'[u] \in Seq(Char \ {CR})
             /\ cr'[u] => rest'[u] # <<>> /\ Head(rest'[u]) = NL
             /\ Taken(u)' \o ToCome(u)' = OnLine(Text[u])
  <2>1. /\ Taken(u) = BytesOf(u, log) /\ BytesOf(u, log) \in Seq(Char)
        /\ Taken(u)' = BytesOf(u, log) \o (IF e.by = u THEN <<e.byte>> ELSE <<>>)
    <3>1. Taken(u) = BytesOf(u, log) /\ Taken(u)' = BytesOf(u, Append(log, e))
      BY <1>5 DEF Taken, log, BytesOf
    <3> QED
      BY <1>2, <1>4, <3>1, BytesOfAppend
  <2>2. e.by = t /\ e.byte = Byte(t)
    BY DEF e
  <2>3. Taken(u) \o ToCome(u) = OnLine(Text[u])
    BY DEF MergeInv
  <2>4. CASE u = t
    <3>1. Taken(t)' = Taken(t) \o <<Byte(t)>>
      BY <2>1, <2>2, <2>4
    <3>2. <<Byte(t)>> \in Seq(Char)
      BY <1>3
    <3>3. (Taken(t) \o <<Byte(t)>>) \o ToCome(t)' =
             Taken(t) \o (<<Byte(t)>> \o ToCome(t)')
      BY <1>3, <2>1, <2>4, <3>2, ConcatAssociative
    <3> QED
      BY <1>3, <2>3, <2>4, <3>1, <3>3, ByteIsNextToCome
  <2>5. CASE u # t
    <3>1. rest'[u] = rest[u] /\ cr'[u] = cr[u]
      BY <2>5 DEF PutcOut, IInv, TypeOK
    <3>2. Taken(u)' = Taken(u)
      BY <2>1, <2>2, <2>5, ConcatEmptySeq
    <3>3. ToCome(u)' = ToCome(u)
      BY <3>1 DEF ToCome
    <3> QED
      BY <2>3, <3>1, <3>2, <3>3 DEF MergeInv
  <2> QED
    BY <2>4, <2>5
<1> QED
  BY <1>1, <1>2, <1>6 DEF MergeInv, Entry

LEMMA TransmitMerges ==
  ASSUME IInv, MergeInv, works, Transmit PROVE MergeInv'
<1>1. UNCHANGED <<works, loop, rest, cr>> /\ ~ loop
  BY DEF Transmit, MergeInv
<1>2. sent \in Seq(Entry) /\ fifo \in Seq(Entry) /\ fifo # <<>>
  BY DEF IInv, TypeOK, MergeInv, Entry, Transmit
<1>3. sent' = Append(sent, Head(fifo)) /\ fifo' = Tail(fifo)
  BY <1>1 DEF Transmit
<1>4. sent' \in Seq(Entry) /\ sent' \o fifo' = sent \o fifo
  BY <1>2, <1>3
<1>5. \A t \in Task : Taken(t)' = Taken(t) /\ ToCome(t)' = ToCome(t)
  BY <1>1, <1>4 DEF Taken, ToCome
<1> QED
  BY <1>1, <1>4, <1>5 DEF MergeInv, Entry

LEMMA OthersMerge ==
  ASSUME MergeInv, UNCHANGED <<works, fifo, sent, rest, cr>>, loop' => loop \/ ~ works
  PROVE  MergeInv'
<1>1. \A t \in Task : Taken(t)' = Taken(t) /\ ToCome(t)' = ToCome(t)
  BY DEF Taken, ToCome
<1> QED
  BY <1>1 DEF MergeInv

LEMMA StepMerges ==
  ASSUME IInv, MergeInv, [Next]_vars PROVE MergeInv'
<1>1. CASE ~ works
  BY <1>1 DEF Next, vars, MergeInv, serial_init, Transmit, Putc, PutcTest,
              PutcOut, PutcPoll
<1>2. CASE works /\ Transmit
  BY <1>2, TransmitMerges
<1>3. CASE works /\ \E t \in Task : PutcOut(t)
  BY <1>3, OutMerges
<1>4. CASE works /\ serial_init
  BY <1>4, OthersMerge DEF serial_init
<1>5. CASE works /\ (\E t \in Task : PutcTest(t) \/ PutcPoll(t))
  <2>1. UNCHANGED <<works, loop, fifo, sent, rest, cr>>
    BY <1>5 DEF PutcTest, PutcPoll, vars
  <2> QED
    BY <2>1, OthersMerge
<1>6. CASE UNCHANGED vars
  BY <1>6, OthersMerge DEF vars
<1> QED
  BY <1>1, <1>2, <1>3, <1>4, <1>5, <1>6 DEF Next, Putc

(* serial.c:28-34: on a port that works, however the tasks preempt each    *)
(* other, no byte is lost or repeated, each task's bytes keep their order, *)
(* and every \n has its \r before it.                                      *)
THEOREM LinesMerge == Spec => []LinesAreMerged
<1>1. MergeInv => LinesAreMerged
  BY DEF MergeInv, LinesAreMerged
<1> QED
  BY <1>1, Invariance, MergeInitially, StepMerges, PTL DEF Spec

-----------------------------------------------------------------------------
(***************************************************************************)
(* The boot.  The dialogue with the 8042 comes first: what each access of  *)
(* keyboard_init and mouse_init, and each answer, does to it.              *)
(***************************************************************************)
LEMMA ScriptIs ==
  /\ Len(Script) = 13
  /\ \A i \in {1, 2} : Script[i].op = "flush"
  /\ \A i \in {3, 4, 6, 8, 11} : Script[i].op = "cmd"
  /\ \A i \in {5, 10, 13} : Script[i].op = "read"
  /\ Script[7].op = "status"
  /\ \A i \in {9, 12} : Script[i].op = "data"
  /\ Script[3].byte = "A8" /\ Script[4].byte = "20" /\ Script[6].byte = "60"
  /\ Script[8].byte = "D4" /\ Script[9].byte = "F6"
  /\ Script[11].byte = "D4" /\ Script[12].byte = "F4"
BY DEF Script

LEMMA WhatIsNext ==
  ASSUME pos \in 1..14
  PROVE  /\ Does("flush") => pos \in {1, 2}
         /\ Does("cmd") => pos \in {3, 4, 6, 8, 11}
         /\ Does("read") => pos \in {5, 10, 13}
         /\ Does("status") => pos = 7
         /\ Does("data") => pos \in {9, 12}
         /\ ScriptDone <=> pos = 14
BY ScriptIs DEF Does, ScriptDone

(* No byte and no command is taken for an empty buffer. *)
LEMMA BytesAreNotNone ==
  /\ \A byte \in {"A8", "20", "60", "D4"} : None # [port |-> "cmd", byte |-> byte]
  /\ \A byte \in {"F6", "F4"} : None # [port |-> "data", byte |-> byte]
  /\ \A byte \in PortByte : None # byte /\ None # [port |-> "data", byte |-> byte]
  /\ ACK # None
BY Ps2Assumption

LEMMA IntendedIsAByte ==
  ASSUME BytesInv
  PROVE  /\ Intended \in PortByte /\ Intended # None
         /\ old \in PortByte /\ old # None
         /\ old \ {5} \in PortByte /\ old \ {5} # None
         /\ ((old \ {5}) \cup {1}) \ {5} = Intended
         /\ 5 \notin Intended
BY Ps2Assumption DEF BytesInv, Intended, PortByte

LEMMA FlushKeeps ==
  ASSUME pos \in 1..14, DialogueInv, Flush
  PROVE  DialogueInv' /\ pos' \in 1..3 /\ UNCHANGED <<answers, keys>>
<1>1. pos \in {1, 2} /\ pos' \in {pos, pos + 1}
  BY WhatIsNext DEF Flush, output
<1>2. /\ inbuf = None /\ inbuf' = None /\ UNCHANGED <<expects, answer, auxq, kbdq>>
      /\ UNCHANGED <<present, old, cmdbyte, reports, keys, answers>>
  BY <1>1, BytesAreNotNone
  DEF DialogueInv, InputInv, Asks, Flush, input, queues, devices
<1>3. /\ expects = "keyboard" /\ cmdbyte = old /\ ~ reports
      /\ answer = None /\ auxq = <<>> /\ kbdq = <<>>
  BY <1>1, <1>2
  DEF DialogueInv, ExpectsInv, CommandByteInv, OutputInv, Silent, ReportsInv
<1>4. BytesInv'
  <2>1. outbuf' \in {outbuf, None} /\ (last' = last \/ (last' = outbuf /\ outbuf # None))
    BY DEF Flush, output
  <2> QED
    BY <1>2, <2>1 DEF DialogueInv, BytesInv
<1>5. pos' = pos \/ outbuf' = None
  BY DEF Flush, output
<1>6. outbuf' = None \/ pos' = 1
  BY <1>1, <1>5 DEF DialogueInv, OutputInv, Silent, Flush, output
<1> QED
  BY <1>1, <1>2, <1>3, <1>4, <1>6
  DEF DialogueInv, InputInv, ExpectsInv, CommandByteInv, OutputInv, AnswerInv,
      ReportsInv, Silent

LEMMA WriteKeeps ==
  ASSUME pos \in 1..14, DialogueInv, pos \in 6..7 => status = old \ {5}, Write
  PROVE  /\ DialogueInv' /\ UNCHANGED <<answers, status, keys>>
         /\ pos' \in {4, 5, 7, 8, 9, 10, 12, 13} /\ pos' = pos + 1
<1>1. /\ pos \in {3, 4, 6, 7, 8, 9, 11, 12} /\ pos' = pos + 1
      /\ inbuf = None
      /\ UNCHANGED <<expects, outbuf, last, answer, auxq, kbdq, answers, status>>
      /\ UNCHANGED <<present, old, cmdbyte, reports, keys>>
  BY WhatIsNext DEF Write, output, queues, devices
<1>2. Silent
  BY <1>1 DEF DialogueInv, OutputInv, Silent
<1>3. /\ pos = 3 => inbuf' = [port |-> "cmd", byte |-> "A8"]
      /\ pos = 4 => inbuf' = [port |-> "cmd", byte |-> "20"]
      /\ pos = 6 => inbuf' = [port |-> "cmd", byte |-> "60"]
      /\ pos = 7 => inbuf' = [port |-> "data", byte |-> Intended]
      /\ pos \in {8, 11} => inbuf' = [port |-> "cmd", byte |-> "D4"]
      /\ pos = 9 => inbuf' = [port |-> "data", byte |-> "F6"]
      /\ pos = 12 => inbuf' = [port |-> "data", byte |-> "F4"]
  <2>1. Does("cmd") => inbuf' = [port |-> "cmd", byte |-> Script[pos].byte]
    BY <1>1, WhatIsNext DEF Write
  <2>2. Does("data") => inbuf' = [port |-> "data", byte |-> Script[pos].byte]
    BY <1>1, WhatIsNext DEF Write
  <2>3. pos = 7 => inbuf' = [port |-> "data", byte |-> (status \cup {1}) \ {5}]
    BY <1>1, WhatIsNext DEF Write
  <2>4. pos = 7 => (status \cup {1}) \ {5} = Intended
    BY IntendedIsAByte DEF DialogueInv
  <2>5. Does("cmd") \/ Does("data") \/ pos = 7
    BY WhatIsNext DEF Write
  <2>6. pos \in {3, 4, 6, 8, 11} => inbuf' = [port |-> "cmd", byte |-> Script[pos].byte]
    BY <1>1, <2>1, <2>5, WhatIsNext
  <2>7. pos \in {9, 12} => inbuf' = [port |-> "data", byte |-> Script[pos].byte]
    BY <1>1, <2>2, <2>5, WhatIsNext
  <2>8. pos = 3 => inbuf' = [port |-> "cmd", byte |-> "A8"]
    BY <2>6, ScriptIs
  <2>9. pos = 4 => inbuf' = [port |-> "cmd", byte |-> "20"]
    BY <2>6, ScriptIs
  <2>10. pos = 6 => inbuf' = [port |-> "cmd", byte |-> "60"]
    BY <2>6, ScriptIs
  <2>11. pos \in {8, 11} => inbuf' = [port |-> "cmd", byte |-> "D4"]
    BY <2>6, ScriptIs
  <2>12. pos = 9 => inbuf' = [port |-> "data", byte |-> "F6"]
    BY <2>7, ScriptIs
  <2>13. pos = 12 => inbuf' = [port |-> "data", byte |-> "F4"]
    BY <2>7, ScriptIs
  <2> QED
    BY <2>3, <2>4, <2>8, <2>9, <2>10, <2>11, <2>12, <2>13
<1>4. inbuf' # None
  BY <1>1, <1>3, BytesAreNotNone, IntendedIsAByte DEF DialogueInv
<1>5. InputInv'
  BY <1>1, <1>3 DEF InputInv, Asks, Intended
<1>6. ExpectsInv'
  BY <1>1, <1>4 DEF DialogueInv, ExpectsInv
<1>7. CommandByteInv'
  BY <1>1, <1>4 DEF DialogueInv, CommandByteInv, Intended
<1>8. OutputInv' /\ AnswerInv'
  BY <1>1, <1>2, <1>4 DEF OutputInv, AnswerInv, Silent
<1>9. ReportsInv'
  BY <1>1, <1>4 DEF DialogueInv, ReportsInv
<1>10. BytesInv' /\ kbdq' = <<>>
  BY <1>1 DEF DialogueInv, BytesInv
<1> QED
  BY <1>1, <1>5, <1>6, <1>7, <1>8, <1>9, <1>10 DEF DialogueInv

LEMMA ReadKeeps ==
  ASSUME pos \in 1..14, DialogueInv, Read
  PROVE  /\ DialogueInv' /\ UNCHANGED <<present, keys, old>>
         /\ pos \in {5, 10, 13} /\ pos' = pos + 1
         /\ \E byte \in PortByte :
              /\ answers' = Append(answers, byte)
              /\ status' = IF answers = <<>> THEN byte ELSE status
              /\ pos = 5 => byte = old \ {5}
              /\ pos # 5 /\ present => byte = ACK
<1>1. /\ pos \in {5, 10, 13} /\ pos' = pos + 1 /\ outbuf' = None
      /\ UNCHANGED <<inbuf, expects, answer, auxq, kbdq>>
      /\ UNCHANGED <<present, old, cmdbyte, reports, keys>>
  BY WhatIsNext DEF Read, input, queues, devices
<1>2. inbuf = None
  BY <1>1, BytesAreNotNone
  DEF Read, mouse_read, UnderWay, DialogueInv, OutputInv, Silent
<1>3. answer = None /\ auxq = <<>>
  BY <1>1, <1>2, IntendedIsAByte
  DEF Read, mouse_read, UnderWay, DialogueInv, OutputInv, Silent, CommandByteInv
<1>4. /\ pos = 5 => outbuf = old \ {5} /\ outbuf # None
      /\ pos # 5 /\ present => outbuf = ACK /\ outbuf # None
  BY <1>1, <1>2, <1>3, IntendedIsAByte, BytesAreNotNone
  DEF DialogueInv, OutputInv, AnswerInv, Silent, CommandByteInv
<1>5. PICK byte : /\ answers' = Append(answers, byte) /\ last' = byte
                  /\ status' = IF answers = <<>> THEN byte ELSE status
                  /\ byte = IF outbuf = None THEN last ELSE outbuf
  BY DEF Read
<1>6. byte \in PortByte
  BY <1>5 DEF DialogueInv, BytesInv
<1>7. BytesInv'
  BY <1>1, <1>5, <1>6 DEF DialogueInv, BytesInv
<1>8. ReportsInv'
  BY <1>1, <1>2 DEF DialogueInv, ReportsInv
<1>9. InputInv' /\ ExpectsInv' /\ CommandByteInv' /\ OutputInv' /\ AnswerInv'
  BY <1>1, <1>2, <1>3
  DEF DialogueInv, InputInv, ExpectsInv, CommandByteInv, OutputInv, AnswerInv,
      Silent, Intended
<1> QED
  BY <1>1, <1>4, <1>5, <1>6, <1>7, <1>8, <1>9 DEF DialogueInv

LEMMA TakeCommandKeeps ==
  ASSUME pos \in 1..14, DialogueInv, TakeCommand
  PROVE  DialogueInv' /\ UNCHANGED <<present, keys, old, pos, status, answers>>
<1>1. /\ inbuf # None /\ inbuf' = None /\ inbuf.port = "cmd"
      /\ UNCHANGED <<pos, status, answers, outbuf, last, auxq, kbdq>>
      /\ UNCHANGED <<present, old, reports, keys>>
      /\ expects' = CASE inbuf.byte = "60" -> "controller"
                      [] inbuf.byte = "D4" -> "mouse"
                      [] OTHER -> expects
      /\ cmdbyte' = IF inbuf.byte = "A8" THEN cmdbyte \ {5} ELSE cmdbyte
      /\ answer' = IF inbuf.byte = "20" THEN cmdbyte ELSE answer
  BY DEF TakeCommand, driver, output
<1>2. \/ pos = 4 /\ inbuf.byte = "A8"
      \/ pos = 5 /\ inbuf.byte = "20"
      \/ pos = 7 /\ inbuf.byte = "60"
      \/ pos \in {9, 12} /\ inbuf.byte = "D4"
  BY <1>1 DEF DialogueInv, InputInv, Asks
<1>3. Silent
  BY <1>1, <1>2 DEF DialogueInv, OutputInv
<1>4. BytesInv' /\ InputInv' /\ kbdq' = <<>>
  BY <1>1 DEF DialogueInv, BytesInv, InputInv
<1>5. expects' = IF pos = 7 THEN "controller" ELSE IF pos \in {9, 12} THEN "mouse"
                 ELSE "keyboard"
  BY <1>1, <1>2 DEF DialogueInv, ExpectsInv
<1>6. ExpectsInv'
  BY <1>1, <1>2, <1>5 DEF ExpectsInv
<1>7. cmdbyte' = IF pos <= 7 THEN old \ {5} ELSE Intended
  <2>1. CASE pos = 4
    BY <1>1, <1>2, <2>1 DEF DialogueInv, CommandByteInv
  <2>2. CASE pos \in {5, 7}
    <3>1. cmdbyte = old \ {5}
      BY <2>2 DEF DialogueInv, CommandByteInv
    <3> QED
      BY <1>1, <1>2, <2>2, <3>1
  <2>3. CASE pos \in {9, 12}
    <3>1. cmdbyte = Intended
      BY <2>3 DEF DialogueInv, CommandByteInv
    <3> QED
      BY <1>1, <1>2, <2>3, <3>1
  <2> QED
    BY <1>2, <2>1, <2>2, <2>3
<1>8. CommandByteInv'
  BY <1>1, <1>2, <1>7 DEF CommandByteInv, Intended
<1>9. OutputInv' /\ AnswerInv'
  <2>1. CASE pos = 5
    <3>1. answer' = cmdbyte' /\ cmdbyte' # None
      BY <1>1, <1>2, <1>7, <2>1, IntendedIsAByte DEF DialogueInv
    <3> QED
      BY <1>1, <1>3, <2>1, <3>1 DEF OutputInv, AnswerInv, Silent
  <2>2. CASE pos # 5
    BY <1>1, <1>2, <1>3, <2>2 DEF OutputInv, AnswerInv, Silent
  <2> QED
    BY <2>1, <2>2
<1>10. ReportsInv'
  BY <1>1, <1>2 DEF DialogueInv, ReportsInv
<1> QED
  BY <1>1, <1>4, <1>6, <1>8, <1>9, <1>10 DEF DialogueInv

LEMMA TakeDataKeeps ==
  ASSUME pos \in 1..14, DialogueInv, TakeData
  PROVE  DialogueInv' /\ UNCHANGED <<present, keys, old, pos, status, answers>>
<1>1. /\ inbuf # None /\ inbuf' = None /\ inbuf.port = "data"
      /\ expects' = "keyboard"
      /\ UNCHANGED <<pos, status, answers, outbuf, last, answer, kbdq>>
      /\ UNCHANGED <<present, old, keys>>
  BY DEF TakeData, driver, output
<1>2. \/ pos = 8 /\ inbuf.byte = Intended /\ expects = "controller"
      \/ pos = 10 /\ inbuf.byte = "F6" /\ expects = "mouse"
      \/ pos = 13 /\ inbuf.byte = "F4" /\ expects = "mouse"
  BY <1>1 DEF DialogueInv, InputInv, ExpectsInv, Asks
<1>3. Silent
  BY <1>1, <1>2 DEF DialogueInv, OutputInv
<1>4. BytesInv' /\ InputInv' /\ kbdq' = <<>>
  BY <1>1 DEF DialogueInv, BytesInv, InputInv
<1>5. ExpectsInv'
  BY <1>1, <1>2 DEF ExpectsInv
<1>6. CASE pos = 8
  <2>1. cmdbyte' = Intended /\ UNCHANGED <<auxq, reports>>
    BY <1>2, <1>6 DEF TakeData
  <2>2. CommandByteInv'
    BY <1>1, <1>6, <2>1 DEF CommandByteInv, Intended
  <2>3. OutputInv' /\ AnswerInv'
    BY <1>1, <1>3, <1>6, <2>1 DEF OutputInv, AnswerInv, Silent
  <2>4. ReportsInv'
    BY <1>1, <1>6, <2>1 DEF DialogueInv, ReportsInv
  <2> QED
    BY <1>1, <1>4, <1>5, <2>2, <2>3, <2>4 DEF DialogueInv
<1>7. CASE pos \in {10, 13}
  <2>1. /\ auxq' = IF present THEN Append(auxq, ACK) ELSE auxq
        /\ reports' = (present /\ inbuf.byte = "F4")
        /\ UNCHANGED cmdbyte
    BY <1>2, <1>7 DEF TakeData
  <2>2. CommandByteInv'
    BY <1>1, <1>7, <2>1 DEF DialogueInv, CommandByteInv, Intended
  <2>3. auxq' = IF present THEN <<ACK>> ELSE <<>>
    BY <1>3, <2>1 DEF Silent
  <2>4. <<ACK>> # <<>>
    OBVIOUS
  <2>5. OutputInv' /\ AnswerInv'
    BY <1>1, <1>3, <1>7, <2>3, <2>4 DEF OutputInv, AnswerInv, Silent
  <2>6. reports' <=> present /\ pos = 13
    <3>1. inbuf.byte = "F4" <=> pos = 13
      BY <1>2, <1>7
    <3> QED
      BY <2>1, <3>1, Zenon
  <2>7. ReportsInv'
    BY <1>1, <1>7, <2>6 DEF ReportsInv
  <2> QED
    BY <1>1, <1>4, <1>5, <2>2, <2>5, <2>7 DEF DialogueInv
<1> QED
  BY <1>2, <1>6, <1>7

LEMMA FillKeeps ==
  ASSUME pos \in 1..14, DialogueInv, Fill
  PROVE  DialogueInv' /\ UNCHANGED <<present, keys, old, pos, status, answers>>
<1>1. /\ outbuf = None
      /\ UNCHANGED <<pos, status, answers, inbuf, expects, last>>
      /\ UNCHANGED <<present, old, cmdbyte, reports, keys>>
  BY DEF Fill, driver, input, devices
<1>2. kbdq = <<>>
  BY DEF DialogueInv
<1>3. \/ /\ pos = 5 /\ inbuf = None /\ auxq = <<>> /\ answer = cmdbyte
         /\ outbuf' = cmdbyte /\ answer' = None /\ UNCHANGED <<auxq, kbdq>>
      \/ /\ pos \in {10, 13} /\ inbuf = None /\ present /\ answer = None
         /\ outbuf' = ACK /\ auxq' = <<>> /\ UNCHANGED <<answer, kbdq>>
  <2>1. Head(<<ACK>>) = ACK /\ Tail(<<ACK>>) = <<>>
    OBVIOUS
  <2> QED
    BY <1>1, <1>2, <2>1 DEF Fill, DialogueInv, OutputInv, Silent
<1>4. outbuf' \in PortByte /\ outbuf' # None
  BY <1>3, IntendedIsAByte, BytesAreNotNone, Ps2Assumption
  DEF DialogueInv, CommandByteInv
<1>5. BytesInv'
  BY <1>1, <1>4 DEF DialogueInv, BytesInv
<1>6. OutputInv' /\ AnswerInv'
  BY <1>1, <1>3, <1>4 DEF OutputInv, AnswerInv, Silent
<1>7. InputInv' /\ ExpectsInv' /\ CommandByteInv'
  BY <1>1 DEF DialogueInv, InputInv, ExpectsInv, CommandByteInv, Asks, Intended
<1>8. ReportsInv' /\ kbdq' = <<>>
  BY <1>1, <1>2, <1>3 DEF DialogueInv, ReportsInv
<1> QED
  BY <1>1, <1>5, <1>6, <1>7, <1>8 DEF DialogueInv

(***************************************************************************)
(* kmain.                                                                  *)
(***************************************************************************)
LEMMA KmainIs ==
  /\ DOMAIN Kmain = 1..15 /\ Len(Kmain) = 15
  /\ Kmain[1] = "idt" /\ Kmain[2] = "pic" /\ Kmain[3] = "pit"
  /\ Kmain[4] = "timer" /\ Kmain[5] = "keyboard" /\ Kmain[6] = "mouse"
  /\ Kmain[7] = "pmm" /\ Kmain[8] = "vmm" /\ Kmain[9] = "heap"
  /\ Kmain[10] = "backbuffer" /\ Kmain[11] = "event" /\ Kmain[12] = "sched"
  /\ Kmain[13] = "serial" /\ Kmain[14] = "sti" /\ Kmain[15] = "shell"
BY DEF Kmain

LEMMA StageIs ==
  ASSUME NEW i \in 1..15
  PROVE  /\ Kmain[i] = "keyboard" <=> i = 5
         /\ Kmain[i] = "mouse" <=> i = 6
<1>1. \/ i = 1 \/ i = 2 \/ i = 3 \/ i = 4 \/ i = 5 \/ i = 6 \/ i = 7 \/ i = 8
      \/ i = 9 \/ i = 10 \/ i = 11 \/ i = 12 \/ i = 13 \/ i = 14 \/ i = 15
  OBVIOUS
<1> QED
  BY <1>1, KmainIs

LEMMA MouseStageIs == MouseStage = 6
<1>1. \A i \in DOMAIN Kmain : Kmain[i] = "mouse" <=> i = 6
  BY StageIs, KmainIs
<1> QED
  BY <1>1, KmainIs DEF MouseStage

LEMMA StepDoes ==
  ASSUME stage \in 1..15, Step
  PROVE  /\ running = "kmain" /\ cause = -1 /\ stage \in 1..14 /\ stage' = stage + 1
         /\ ready' = ready \cup {Kmain[stage]}
         /\ UNCHANGED <<pos, input, output, queues, devices, running, cause>>
         /\ answers' = <<>>
         /\ stage = 5 => pos = 2
         /\ stage = 6 => ScriptDone
         /\ stage = 1 => idt_init
         /\ stage = 2 => pic_remap
         /\ stage = 3 => pit_init(100)
         /\ stage = 4 => Install(32, "irq0_timer", {0})
         /\ stage = 5 => Install(33, "keyboard_handler", {1})
         /\ stage = 6 => Install(44, "mouse_irq", {2, 12})
         /\ stage = 14 => Sti
         /\ stage \in 7..13 => Plain
<1> DEFINE part == Kmain[stage]
<1>1. /\ running = "kmain" /\ cause = -1 /\ stage \in 1..14 /\ stage' = stage + 1
      /\ ready' = ready \cup {Kmain[stage]}
      /\ UNCHANGED <<pos, input, output, queues, devices, running, cause>>
      /\ answers' = <<>>
  BY KmainIs DEF Step, Running
<1>2. /\ part = "keyboard" => pos = 2
      /\ part = "mouse" => ScriptDone
      /\ CASE part = "idt" -> idt_init
           [] part = "pic" -> pic_remap
           [] part = "pit" -> pit_init(100)
           [] part = "timer" -> Install(32, "irq0_timer", {0})
           [] part = "keyboard" -> Install(33, "keyboard_handler", {1})
           [] part = "mouse" -> Install(44, "mouse_irq", {2, 12})
           [] part = "sti" -> Sti
           [] OTHER -> Plain
  BY DEF Step
<1>3. stage = 5 => part = "keyboard"
  BY KmainIs
<1>4. stage = 6 => part = "mouse"
  BY KmainIs
<1>5. CASE stage = 1
  BY <1>1, <1>2, <1>5, KmainIs
<1>6. CASE stage = 2
  BY <1>1, <1>2, <1>6, KmainIs
<1>7. CASE stage = 3
  BY <1>1, <1>2, <1>7, KmainIs
<1>8. CASE stage = 4
  BY <1>1, <1>2, <1>8, KmainIs
<1>9. CASE stage = 5
  BY <1>1, <1>2, <1>9, KmainIs
<1>10. CASE stage = 6
  BY <1>1, <1>2, <1>10, KmainIs
<1>11. CASE stage \in 7..13
  <2>1. part \in {"pmm", "vmm", "heap", "backbuffer", "event", "sched", "serial"}
    <3>1. \/ stage = 7 \/ stage = 8 \/ stage = 9 \/ stage = 10 \/ stage = 11
          \/ stage = 12 \/ stage = 13
      BY <1>11
    <3> QED
      BY <3>1, KmainIs
  <2> HIDE DEF part
  <2>2. Plain
    BY <1>2, <2>1
  <2> QED
    BY <1>1, <1>11, <2>2
<1>12. CASE stage = 14
  BY <1>1, <1>2, <1>12, KmainIs
<1> QED
  BY <1>1, <1>5, <1>6, <1>7, <1>8, <1>9, <1>10, <1>11, <1>12

LEMMA BootInitially == BInit => BootInv
<1> SUFFICES ASSUME BInit PROVE BootInv
  OBVIOUS
<1>1. stage = 1 /\ pos = 1 /\ cause = -1 /\ running = "kmain" /\ keys = 0
  BY DEF BInit, PInit
<1>2. PartsInv
  <2>1. {Kmain[i] : i \in 1..stage-1} = {}
    BY <1>1
  <2> QED
    BY <1>1, <2>1, KmainIs DEF BInit, PartsInv, Through
<1>3. GatesInv
  BY <1>1 DEF BInit, GatesInv, Through
<1>4. LinesInv /\ CpuInv /\ PlaceInv
  BY <1>1 DEF BInit, LinesInv, CpuInv, PlaceInv, Through
<1>5. DialogueInv
  BY <1>1, Ps2Assumption DEF BInit, PInit, DialogueInv, BytesInv, InputInv,
     ExpectsInv, CommandByteInv, OutputInv, AnswerInv, ReportsInv, Silent, PortByte
<1>6. LocalsInv
  BY <1>1 DEF BInit, PInit, LocalsInv
<1> QED
  BY <1>1, <1>2, <1>3, <1>4, <1>5, <1>6 DEF BootInv

LEMMA KernelUnchanged ==
  ASSUME PartsInv, GatesInv, LinesInv, CpuInv, UNCHANGED kernel
  PROVE  PartsInv' /\ GatesInv' /\ LinesInv' /\ CpuInv'
BY DEF PartsInv, GatesInv, LinesInv, CpuInv, kernel, Through

LEMMA DialogueUnchanged ==
  ASSUME DialogueInv, UNCHANGED <<pos, input, output, queues, devices>>
  PROVE  DialogueInv'
BY DEF DialogueInv, BytesInv, InputInv, ExpectsInv, CommandByteInv, OutputInv,
   AnswerInv, ReportsInv, Silent, Asks, Intended, input, output, queues, devices

LEMMA LocalsUnchanged ==
  ASSUME LocalsInv, UNCHANGED <<pos, status, answers, present, old>>
  PROVE  LocalsInv'
BY DEF LocalsInv

LEMMA SetupKeeps == ASSUME BootInv, Setup PROVE BootInv'
<1>1. pos \in 1..14 /\ stage \in 1..15 /\ keys \in Nat
  BY KmainIs DEF BootInv, PlaceInv, PartsInv
<1>2. UNCHANGED kernel /\ stage' = stage /\ keys' = keys
  BY DEF Setup, kernel, Driver, Flush, Write, Read, devices
<1>3. \/ stage = 5 /\ pos = 1
      \/ stage = 6 /\ pos >= 2
  BY <1>1, StageIs DEF Setup, Running, BootInv, PlaceInv
<1>4. PartsInv' /\ GatesInv' /\ LinesInv' /\ CpuInv'
  BY <1>2, KernelUnchanged DEF BootInv
<1>5. pos' \in 1..14 /\ pos' \in {pos, pos + 1}
  BY <1>1, WhatIsNext, ScriptIs DEF Setup, Driver, Flush, Write, Read, Does, ScriptDone
<1>6. PlaceInv'
  BY <1>1, <1>2, <1>3, <1>5 DEF PlaceInv
<1>7. ASSUME keys = 0 PROVE DialogueInv' /\ LocalsInv'
  <2>1. DialogueInv /\ LocalsInv
    BY <1>3, <1>7, MouseStageIs DEF BootInv
  <2>2. CASE Flush
    <3>1. DialogueInv' /\ pos' \in 1..3 /\ answers' = answers
      BY <1>1, <2>1, <2>2, FlushKeeps
    <3> QED
      BY <1>1, <1>5, <2>1, <2>2, <3>1 DEF LocalsInv, Flush, devices
  <2>3. CASE Write
    <3>1. /\ DialogueInv' /\ UNCHANGED <<answers, status>>
          /\ pos' \in {4, 5, 7, 8, 9, 10, 12, 13} /\ pos' = pos + 1
      BY <1>1, <2>1, <2>3, WriteKeeps DEF LocalsInv
    <3> QED
      BY <1>1, <2>1, <2>3, <3>1 DEF LocalsInv, Write, devices
  <2>4. CASE Read
    <3>1. /\ DialogueInv' /\ UNCHANGED <<present, old>>
          /\ pos \in {5, 10, 13} /\ pos' = pos + 1
      BY <1>1, <2>1, <2>4, ReadKeeps
    <3>2. PICK byte \in PortByte :
             /\ answers' = Append(answers, byte)
             /\ status' = IF answers = <<>> THEN byte ELSE status
             /\ pos = 5 => byte = old \ {5}
             /\ pos # 5 /\ present => byte = ACK
      BY <1>1, <2>1, <2>4, ReadKeeps
    <3> HIDE DEF PortByte
    <3>3. /\ answers' \in Seq(PortByte) /\ Len(answers') = Len(answers) + 1
          /\ answers'[Len(answers) + 1] = byte
          /\ \A i \in 1..Len(answers) : answers'[i] = answers[i]
      BY <2>1, <3>2, AppendProperties DEF LocalsInv
    <3>4. Len(answers) = IF pos <= 5 THEN 0 ELSE IF pos <= 10 THEN 1
                         ELSE IF pos <= 13 THEN 2 ELSE 3
      BY <2>1 DEF LocalsInv
    <3>5. Len(answers') = IF pos' <= 5 THEN 0 ELSE IF pos' <= 10 THEN 1
                          ELSE IF pos' <= 13 THEN 2 ELSE 3
      BY <3>1, <3>3, <3>4
    <3>6. pos' \in 6..7 => status' = old' \ {5}
      <4>1. pos = 5 => answers = <<>>
        BY <2>1, <3>4, EmptySeq DEF LocalsInv
      <4> QED
        BY <3>1, <3>2, <4>1
    <3>7. present' => \A i \in 2..Len(answers') : answers'[i] = ACK
      <4>1. pos = 5 => Len(answers') = 1
        BY <3>3, <3>4
      <4>2. ASSUME present, NEW i \in 2..Len(answers) PROVE answers'[i] = ACK
        BY <2>1, <3>3, <4>2 DEF LocalsInv
      <4>3. pos # 5 /\ present => answers'[Len(answers) + 1] = ACK
        BY <3>2, <3>3
      <4>4. Len(answers) \in Nat
        BY <3>1, <3>4
      <4> QED
        BY <3>1, <3>3, <4>1, <4>2, <4>3, <4>4
    <3> QED
      BY <3>1, <3>3, <3>5, <3>6, <3>7 DEF LocalsInv
  <2> QED
    BY <2>2, <2>3, <2>4 DEF Setup, Driver
<1> QED
  BY <1>1, <1>2, <1>4, <1>6, <1>7 DEF BootInv

LEMMA DeviceKeeps == ASSUME BootInv, Device PROVE BootInv'
<1>1. pos \in 1..14 /\ stage \in 1..15 /\ keys \in Nat
  BY KmainIs DEF BootInv, PlaceInv, PartsInv
<1>2. UNCHANGED kernel /\ stage' = stage /\ pos' = pos
  BY DEF Device, kernel, Controller, Press, TakeCommand, TakeData, Fill, driver
<1>3. PartsInv' /\ GatesInv' /\ LinesInv' /\ CpuInv' /\ PlaceInv'
  BY <1>2, KernelUnchanged DEF BootInv, PlaceInv
<1>4. CASE Press
  <2>1. keys' = keys + 1
    BY <1>4 DEF Press
  <2> QED
    BY <1>1, <1>3, <2>1 DEF BootInv
<1>5. CASE Controller
  <2>1. keys' = keys
    BY <1>5 DEF Controller, TakeCommand, TakeData, Fill, devices
  <2>2. ASSUME keys = 0 PROVE DialogueInv' /\ LocalsInv'
    <3>1. DialogueInv /\ LocalsInv
      BY <2>2, MouseStageIs DEF BootInv, Device
    <3>2. DialogueInv' /\ UNCHANGED <<present, old, pos, status, answers>>
      BY <1>1, <1>5, <3>1, TakeCommandKeeps, TakeDataKeeps, FillKeeps DEF Controller
    <3> QED
      BY <3>1, <3>2, LocalsUnchanged
  <2> QED
    BY <1>1, <1>3, <2>1, <2>2 DEF BootInv
<1> QED
  BY <1>4, <1>5 DEF Device

(* A gate that is set does not change the others. *)
LEMMA InstallIs ==
  ASSUME NEW v, NEW does, NEW lines, Install(v, does, lines)
  PROVE  /\ DOMAIN gate' = DOMAIN gate \cup {v}
         /\ gate'[v].does = does /\ gate'[v].err = FALSE
         /\ \A u \in DOMAIN gate \ {v} : gate'[u] = gate[u]
         /\ mask' = mask \ lines
         /\ UNCHANGED <<loaded, offset, IFlag, period>>
BY DEF Install, SetGates, Gate

LEMMA GatesOfExceptions ==
  LET g == [exceptions_install EXCEPT ![14].does = "page_fault"]
  IN  /\ DOMAIN g = 0..31
      /\ \A v \in 0..31 : /\ g[v].err <=> PushesError(v)
                          /\ g[v].does \in {"panic", "page_fault"}
<1> DEFINE g == [exceptions_install EXCEPT ![14].does = "page_fault"]
<1>1. DOMAIN g = 0..31
  BY DEF exceptions_install
<1>2. ASSUME NEW v \in 0..31
      PROVE  g[v].err = (v \in EXC_ERR) /\ g[v].does \in {"panic", "page_fault"}
  BY DEF exceptions_install
<1>3. \A v \in 0..31 : v \in EXC_ERR <=> PushesError(v)
  BY DEF EXC_ERR, PushesError
<1> QED
  BY <1>1, <1>2, <1>3

LEMMA DivisorIs ==
  ASSUME pit_init(100)
  PROVE  period' = 11931 /\ UNCHANGED <<gate, loaded, pic, IFlag>>
<1>1. PIT_FREQUENCY \div 100 = 11931
  BY DEF PIT_FREQUENCY
<1>2. 11931 % 256 = 155 /\ 11931 \div 256 = 46 /\ 46 % 256 = 46
  OBVIOUS
<1> QED
  BY <1>1, <1>2 DEF pit_init

LEMMA StepInstalls ==
  ASSUME stage \in 1..15, Step, stage \in {4, 5, 6}
  PROVE  \E lines \in {{0}, {1}, {2, 12}} :
           Install(IF stage = 4 THEN 32 ELSE IF stage = 5 THEN 33 ELSE 44,
                   IF stage = 4 THEN "irq0_timer"
                   ELSE IF stage = 5 THEN "keyboard_handler" ELSE "mouse_irq",
                   lines)
<1>1. CASE stage = 4
  BY <1>1, StepDoes
<1>2. CASE stage = 5
  BY <1>2, StepDoes
<1>3. CASE stage = 6
  BY <1>3, StepDoes
<1> QED
  BY <1>1, <1>2, <1>3

(* What the calls leave alone. *)
LEMMA StepLeaves ==
  ASSUME stage \in 1..15, Step
  PROVE  /\ stage # 3 => period' = period
         /\ stage \notin {1, 4, 5, 6} => gate' = gate /\ loaded' = loaded
         /\ stage \notin {2, 4, 5, 6} => offset' = offset /\ mask' = mask
         /\ stage # 14 => IFlag' = IFlag
<1>1. stage \in 1..14
  BY StepDoes
<1>2. CASE stage = 1
  BY <1>2, StepDoes DEF idt_init, pic
<1>3. CASE stage = 2
  BY <1>3, StepDoes DEF pic_remap
<1>4. CASE stage = 3
  BY <1>4, StepDoes, DivisorIs DEF pic
<1>5. CASE stage \in {4, 5, 6}
  <2>1. PICK v, does, lines : Install(v, does, lines)
    BY <1>5, StepInstalls
  <2> QED
    BY <1>5, <2>1, InstallIs
<1>6. CASE stage \in 7..13
  BY <1>6, StepDoes DEF Plain, pic
<1>7. CASE stage = 14
  BY <1>7, StepDoes DEF Sti, pic
<1> QED
  BY <1>1, <1>2, <1>3, <1>4, <1>5, <1>6, <1>7

LEMMA StepKeeps == ASSUME BootInv, Step PROVE BootInv'
<1>1. stage \in 1..15 /\ pos \in 1..14 /\ keys \in Nat
  BY KmainIs DEF BootInv, PartsInv, PlaceInv
<1>2. /\ running = "kmain" /\ cause = -1 /\ stage \in 1..14 /\ stage' = stage + 1
      /\ ready' = ready \cup {Kmain[stage]}
      /\ UNCHANGED <<pos, input, output, queues, devices, running, cause>>
      /\ answers' = <<>>
  BY <1>1, StepDoes
<1>3. PlaceInv'
  BY <1>1, <1>2, StepDoes, WhatIsNext DEF BootInv, PlaceInv
<1>4. PartsInv'
  <2>1. ready' = {"gfx"} \cup {Kmain[i] : i \in 1..stage'-1}
    <3>1. 1..stage'-1 = (1..stage-1) \cup {stage}
      BY <1>2
    <3> HIDE DEF Kmain
    <3> QED
      BY <1>2, <3>1 DEF BootInv, PartsInv
  <2>2. Through(3)' => period' = 11931
    <3>1. CASE stage = 3
      BY <1>1, <3>1, StepDoes, DivisorIs
    <3>2. CASE stage # 3
      <4>1. period' = period
        BY <1>1, <3>2, StepLeaves
      <4> QED
        BY <1>2, <3>2, <4>1 DEF BootInv, PartsInv, Through
    <3> QED
      BY <3>1, <3>2
  <2> QED
    BY <1>2, <2>1, <2>2, KmainIs DEF PartsInv
<1>5. GatesInv'
  <2>1. CASE stage = 1
    <3> DEFINE g == [exceptions_install EXCEPT ![14].does = "page_fault"]
    <3>1. DOMAIN gate = {} /\ ~ loaded
      BY <2>1 DEF BootInv, GatesInv, Through
    <3>2. loaded' = TRUE /\ SetGates(g)
      BY <1>1, <2>1, StepDoes DEF idt_init
    <3>3. /\ DOMAIN g = 0..31
          /\ \A v \in 0..31 : /\ g[v].err <=> PushesError(v)
                              /\ g[v].does \in {"panic", "page_fault"}
      BY GatesOfExceptions
    <3> HIDE DEF g
    <3>4. DOMAIN gate' = 0..31 /\ \A v \in 0..31 : gate'[v] = g[v]
      BY <3>1, <3>2, <3>3 DEF SetGates
    <3>5. \A v \in DOMAIN gate' : /\ gate'[v].err <=> PushesError(v)
                                  /\ gate'[v].does \in {"panic", "page_fault"}
                                  /\ v \in 0..31 /\ v # 32 /\ v # 33 /\ v # 44
      BY <3>3, <3>4
    <3> QED
      BY <1>2, <2>1, <3>2, <3>4, <3>5 DEF GatesInv, Through
  <2>2. CASE stage \in {4, 5, 6}
    <3> DEFINE v == IF stage = 4 THEN 32 ELSE IF stage = 5 THEN 33 ELSE 44
               does == IF stage = 4 THEN "irq0_timer"
                       ELSE IF stage = 5 THEN "keyboard_handler" ELSE "mouse_irq"
    <3>1. /\ DOMAIN gate' = DOMAIN gate \cup {v}
          /\ gate'[v].does = does /\ gate'[v].err = FALSE
          /\ \A u \in DOMAIN gate \ {v} : gate'[u] = gate[u]
          /\ loaded' = loaded
      <4>1. PICK lines : Install(v, does, lines)
        BY <1>1, <2>2, StepInstalls
      <4> HIDE DEF v, does
      <4> QED
        BY <4>1, InstallIs
    <3>2. ~ PushesError(v) /\ v \notin 0..31
      BY <2>2 DEF PushesError
    <3>3. /\ loaded <=> Through(1)
          /\ DOMAIN gate = UNION { IF Through(1) THEN 0..31 ELSE {},
                                   IF Through(4) THEN {32} ELSE {},
                                   IF Through(5) THEN {33} ELSE {},
                                   IF Through(6) THEN {44} ELSE {} }
          /\ \A u \in DOMAIN gate :
               /\ gate[u].err <=> PushesError(u)
               /\ u \in 0..31 => gate[u].does \in {"panic", "page_fault"}
               /\ u = 32 => gate[u].does = "irq0_timer"
               /\ u = 33 => gate[u].does = "keyboard_handler"
               /\ u = 44 => gate[u].does = "mouse_irq"
      BY DEF BootInv, GatesInv
    <3>4. DOMAIN gate' = UNION { IF Through(1)' THEN 0..31 ELSE {},
                                 IF Through(4)' THEN {32} ELSE {},
                                 IF Through(5)' THEN {33} ELSE {},
                                 IF Through(6)' THEN {44} ELSE {} }
      BY <1>2, <2>2, <3>1, <3>3 DEF Through
    <3>5. /\ v = 32 => does = "irq0_timer"
          /\ v = 33 => does = "keyboard_handler"
          /\ v = 44 => does = "mouse_irq"
      BY <2>2
    <3> HIDE DEF v, does
    <3>6. \A u \in DOMAIN gate' :
            /\ gate'[u].err <=> PushesError(u)
            /\ u \in 0..31 => gate'[u].does \in {"panic", "page_fault"}
            /\ u = 32 => gate'[u].does = "irq0_timer"
            /\ u = 33 => gate'[u].does = "keyboard_handler"
            /\ u = 44 => gate'[u].does = "mouse_irq"
      BY <3>1, <3>2, <3>3, <3>5
    <3>7. loaded' <=> Through(1)'
      BY <1>2, <2>2, <3>1, <3>3 DEF Through
    <3> QED
      BY <3>4, <3>6, <3>7 DEF GatesInv
  <2>3. CASE stage \notin {1, 4, 5, 6}
    <3>1. UNCHANGED <<gate, loaded>>
      BY <1>1, <2>3, StepLeaves
    <3>2. /\ Through(1)' <=> Through(1)
          /\ Through(4)' <=> Through(4)
          /\ Through(5)' <=> Through(5)
          /\ Through(6)' <=> Through(6)
      BY <1>2, <2>3 DEF Through
    <3> QED
      BY <3>1, <3>2 DEF BootInv, GatesInv
  <2> QED
    BY <2>1, <2>2, <2>3
<1>6. LinesInv'
  <2>1. CASE stage = 2
    BY <1>1, <1>2, <2>1, StepDoes DEF pic_remap, LinesInv
  <2>2. CASE stage \in {4, 5, 6}
    <3>1. offset' = offset /\ mask \ {0, 1, 2, 12} \subseteq mask'
      <4>1. PICK lines \in {{0}, {1}, {2, 12}} : \E v, does : Install(v, does, lines)
        BY <1>1, <2>2, StepInstalls
      <4>2. offset' = offset /\ mask' = mask \ lines
        BY <4>1, InstallIs
      <4> QED
        BY <4>1, <4>2
    <3> QED
      BY <1>2, <2>2, <3>1 DEF BootInv, LinesInv, Through
  <2>3. CASE stage \notin {2, 4, 5, 6}
    <3>1. offset' = offset /\ mask' = mask
      BY <1>1, <2>3, StepLeaves
    <3> QED
      BY <1>2, <2>3, <3>1 DEF BootInv, LinesInv, Through
  <2> QED
    BY <2>1, <2>2, <2>3
<1>7. CpuInv'
  <2>1. CASE stage = 14
    BY <1>2, <2>1 DEF CpuInv, Through
  <2>2. CASE stage # 14
    <3>1. IFlag' = IFlag
      BY <1>1, <2>2, StepLeaves
    <3> QED
      BY <1>2, <2>2, <3>1 DEF BootInv, CpuInv, Through
  <2> QED
    BY <2>1, <2>2
<1>8. ASSUME keys = 0
      PROVE  DialogueInv' /\ (stage' <= MouseStage' => LocalsInv')
  <2>1. DialogueInv'
    BY <1>2, <1>8, DialogueUnchanged DEF BootInv
  <2>2. stage' <= 6 => LocalsInv'
    BY <1>1, <1>2, StepDoes DEF BootInv, PlaceInv, LocalsInv
  <2>3. MouseStage' = 6
    BY MouseStageIs DEF MouseStage
  <2> QED
    BY <2>1, <2>2, <2>3
<1>9. keys' = keys
  BY <1>2 DEF devices
<1> QED
  BY <1>1, <1>3, <1>4, <1>5, <1>6, <1>7, <1>8, <1>9 DEF BootInv

(***************************************************************************)
(* Interrupts and exceptions.                                              *)
(***************************************************************************)
LEMMA DriverUnchanged ==
  ASSUME BootInv, UNCHANGED <<ps2, stage>>
  PROVE  /\ PlaceInv' /\ keys' \in Nat
         /\ keys' = 0 => DialogueInv' /\ (stage' <= MouseStage => LocalsInv')
<1>1. UNCHANGED <<pos, status, answers, input, output, queues, devices>>
  BY DEF ps2, input, output, queues, devices
<1>2. UNCHANGED <<present, old, keys>>
  BY <1>1 DEF devices
<1>3. keys' = 0 => DialogueInv' /\ (stage' <= MouseStage => LocalsInv')
  BY <1>1, <1>2, DialogueUnchanged, LocalsUnchanged DEF BootInv
<1> QED
  BY <1>1, <1>2, <1>3 DEF BootInv, PlaceInv

LEMMA SetUpUnchanged ==
  ASSUME BootInv, UNCHANGED <<stage, ready, gate, loaded, offset, mask, period>>
  PROVE  PartsInv' /\ GatesInv' /\ LinesInv'
BY DEF BootInv, PartsInv, GatesInv, LinesInv, Through

(* After sti, the lines that get through have a gate with a handler.       *)
LEMMA AcceptKeeps ==
  ASSUME BootInv, NEW l \in Line, Accept(l) PROVE BootInv'
<1>1. UNCHANGED <<ps2, stage, ready, gate, loaded, offset, mask, period>>
  BY DEF Accept
<1>2. IFlag /\ cause = -1 /\ Through(14) /\ l \in Line /\ l \notin mask
  BY DEF Accept, Delivers, Blocked, BootInv, CpuInv
<1>3. stage \in 1..15 /\ stage > 14
  BY <1>2, KmainIs DEF BootInv, PartsInv, Through
<1>4. l \in {0, 1, 12}
  BY <1>2, BootAssumption DEF BootInv, LinesInv, All
<1>5. Vector(l) = IF l = 0 THEN 32 ELSE IF l = 1 THEN 33 ELSE 44
  BY <1>3, <1>4 DEF BootInv, LinesInv, Vector, Through
<1>6. {32, 33, 44} \subseteq DOMAIN gate
  BY <1>3 DEF BootInv, GatesInv, Through
<1>7. gate[Vector(l)].does \in {"irq0_timer", "keyboard_handler", "mouse_irq"}
  BY <1>4, <1>5, <1>6 DEF BootInv, GatesInv
<1>8. running' = gate[Vector(l)].does /\ IFlag' = FALSE /\ cause' = cause
  <2>1. Enter(Vector(l)) /\ Vector(l) \in DOMAIN gate
    BY <1>4, <1>5, <1>6 DEF Accept
  <2> QED
    BY <1>7, <2>1 DEF Enter
<1>9. CpuInv'
  BY <1>1, <1>2, <1>7, <1>8 DEF CpuInv, LineOf, Through
<1> QED
  BY <1>1, <1>9, DriverUnchanged, SetUpUnchanged, MouseStageIs DEF BootInv, MouseStage

LEMMA ExceptionKeeps ==
  ASSUME BootInv, NEW v \in Fault, Exception(v) PROVE BootInv'
<1>1. UNCHANGED <<ps2, stage, ready, gate, loaded, offset, mask, period>>
  BY DEF Exception, pic
<1>2. v \in 0..31 /\ v \in DOMAIN gate
  BY BootAssumption DEF Exception, BootInv, GatesInv
<1>3. gate[v].does \in {"panic", "page_fault"}
  BY <1>2 DEF BootInv, GatesInv
<1>4. running' = gate[v].does /\ IFlag' = FALSE /\ cause' = v
  BY <1>2, <1>3 DEF Exception, Enter
<1>5. CpuInv'
  BY <1>2, <1>3, <1>4 DEF CpuInv
<1> QED
  BY <1>1, <1>5, DriverUnchanged, SetUpUnchanged DEF BootInv, MouseStage

LEMMA ReturnKeeps == ASSUME BootInv, Return PROVE BootInv'
<1>1. UNCHANGED <<ps2, stage, ready, gate, loaded, offset, mask, period>>
  BY DEF Return
<1>2. running \in DOMAIN LineOf /\ running' = "kmain" /\ cause' = cause
  BY DEF Return
<1>3. cause = -1 /\ Through(14)
  BY <1>2 DEF BootInv, CpuInv, LineOf
<1>4. CpuInv'
  BY <1>1, <1>2, <1>3 DEF CpuInv, Through
<1> QED
  BY <1>1, <1>4, DriverUnchanged, SetUpUnchanged DEF BootInv, MouseStage

LEMMA BootStep == BootInv /\ [BNext]_all => BootInv'
<1> SUFFICES ASSUME BootInv, [BNext]_all PROVE BootInv'
  OBVIOUS
<1>1. CASE \E l \in Line : Raise(l)
  <2>1. UNCHANGED <<ps2, stage, ready, gate, loaded, offset, mask, period, cpu>>
    BY <1>1 DEF Raise
  <2>2. CpuInv'
    BY <2>1 DEF BootInv, CpuInv, cpu, Through
  <2> QED
    BY <2>1, <2>2, DriverUnchanged, SetUpUnchanged DEF BootInv, MouseStage
<1>2. CASE UNCHANGED all
  <2>1. UNCHANGED <<ps2, stage, ready, gate, loaded, offset, mask, period, cpu>>
    BY <1>2 DEF all, kernel, cpu
  <2>2. CpuInv'
    BY <2>1 DEF BootInv, CpuInv, cpu, Through
  <2> QED
    BY <2>1, <2>2, DriverUnchanged, SetUpUnchanged DEF BootInv, MouseStage
<1> QED
  BY <1>1, <1>2, SetupKeeps, StepKeeps, ReturnKeeps, DeviceKeeps, AcceptKeeps,
     ExceptionKeeps DEF BNext, Stopped

THEOREM BootInvariance == BSpec => []BootInv
BY BootInitially, BootStep, PTL DEF BSpec

(***************************************************************************)
(* What follows.                                                           *)
(***************************************************************************)
(* What each of kmain's calls uses was initialised by an earlier one.      *)
LEMMA UsesAreEarlier ==
  ASSUME PartsInv
  PROVE  /\ Uses[Kmain[stage]] \subseteq ready
         /\ Uses["panic"] \subseteq ready
         /\ Through(14) => \A h \in DOMAIN LineOf : Uses[h] \subseteq ready
<1>1. stage \in 1..15 /\ ready = {"gfx"} \cup {Kmain[i] : i \in 1..stage-1}
  BY KmainIs DEF PartsInv
<1>2. /\ stage > 2 => "pic" \in ready
      /\ stage > 3 => "pit" \in ready
      /\ stage > 5 => "keyboard" \in ready
      /\ stage > 7 => "pmm" \in ready
      /\ stage > 8 => "vmm" \in ready
      /\ stage > 9 => "heap" \in ready
      /\ stage > 11 => "event" \in ready
      /\ stage > 12 => "sched" \in ready
      /\ stage > 13 => "serial" \in ready
  <2>1. \A i \in 1..15 : stage > i => Kmain[i] \in ready
    BY <1>1
  <2> HIDE DEF Kmain
  <2> QED
    BY <2>1, KmainIs
<1> DEFINE Code == {Kmain[i] : i \in DOMAIN Kmain}
                   \cup {"irq0_timer", "keyboard_handler", "mouse_irq", "panic"}
<1>3. \A code \in Code : Uses[code] =
        CASE code = "vmm" -> {"pmm"}
          [] code = "heap" -> {"pmm", "vmm"}
          [] code \in {"backbuffer", "sched"} -> {"heap"}
          [] code \in {"timer", "keyboard", "mouse"} -> {"pic"}
          [] code = "shell" -> {"gfx", "keyboard", "heap", "sched", "serial"}
          [] code = "irq0_timer" -> {"pit", "sched"}
          [] code \in {"keyboard_handler", "mouse_irq"} -> {"event"}
          [] code = "panic" -> {"gfx"}
          [] OTHER -> {}
  BY DEF Uses
<1>4. Kmain[stage] \in Code /\ DOMAIN LineOf \cup {"panic"} \subseteq Code
  BY <1>1, KmainIs DEF LineOf
<1> HIDE DEF Code
<1>5. Uses[Kmain[stage]] \subseteq ready
  <2>1. CASE stage \in {4, 5, 6}
    <3>1. Kmain[stage] \in {"timer", "keyboard", "mouse"}
      BY <2>1, KmainIs
    <3> QED
      BY <1>2, <1>3, <1>4, <2>1, <3>1
  <2>2. CASE stage = 8
    BY <1>2, <1>3, <1>4, <2>2, KmainIs
  <2>3. CASE stage = 9
    BY <1>2, <1>3, <1>4, <2>3, KmainIs
  <2>4. CASE stage \in {10, 12}
    <3>1. Kmain[stage] \in {"backbuffer", "sched"}
      BY <2>4, KmainIs
    <3> QED
      BY <1>2, <1>3, <1>4, <2>4, <3>1
  <2>5. CASE stage = 15
    BY <1>1, <1>2, <1>3, <1>4, <2>5, KmainIs
  <2>6. CASE stage \in {1, 2, 3, 7, 11, 13, 14}
    <3>1. Kmain[stage] \in {"idt", "pic", "pit", "pmm", "event", "serial", "sti"}
      <4>1. \/ stage = 1 \/ stage = 2 \/ stage = 3 \/ stage = 7 \/ stage = 11
            \/ stage = 13 \/ stage = 14
        BY <2>6
      <4> QED
        BY <4>1, KmainIs
    <3>2. Uses[Kmain[stage]] = {}
      BY <1>3, <1>4, <3>1
    <3> QED
      BY <3>2
  <2> QED
    BY <1>1, <2>1, <2>2, <2>3, <2>4, <2>5, <2>6
<1>6. Uses["panic"] = {"gfx"}
  BY <1>3, <1>4
<1>7. /\ Uses["irq0_timer"] = {"pit", "sched"}
      /\ Uses["keyboard_handler"] = {"event"} /\ Uses["mouse_irq"] = {"event"}
  BY <1>3, <1>4 DEF LineOf
<1>8. Through(14) => \A h \in DOMAIN LineOf : Uses[h] \subseteq ready
  BY <1>1, <1>2, <1>7 DEF Through, LineOf
<1> QED
  BY <1>1, <1>5, <1>6, <1>8

(* kernel.c:227-250: whatever runs, in kmain, in a handler or in panic,    *)
(* finds what it calls initialised, and no interrupt and no exception      *)
(* comes to a vector whose gate is missing or pops the wrong frame: for    *)
(* any devices that raise lines and any exceptions.                        *)
THEOREM CodeFindsItsParts == BSpec => []CodeFindsWhatItUses
<1>1. BootInv => CodeFindsWhatItUses
  <2> SUFFICES ASSUME BootInv PROVE CodeFindsWhatItUses
    OBVIOUS
  <2>1. Uses[Kmain[stage]] \subseteq ready
    BY UsesAreEarlier DEF BootInv
  <2>2. running \in DOMAIN Uses => Uses[running] \subseteq ready
    <3>1. DOMAIN Uses = {Kmain[i] : i \in DOMAIN Kmain}
            \cup {"irq0_timer", "keyboard_handler", "mouse_irq", "panic"}
      BY DEF Uses
    <3>2. "kmain" \notin {Kmain[i] : i \in DOMAIN Kmain}
      BY DEF Kmain
    <3>3. "page_fault" \notin {Kmain[i] : i \in DOMAIN Kmain}
      BY DEF Kmain
    <3>4. \/ running \in {"kmain", "page_fault", "panic"}
          \/ running \in DOMAIN LineOf /\ Through(14)
      BY DEF BootInv, CpuInv
    <3> QED
      BY <3>1, <3>2, <3>3, <3>4, UsesAreEarlier DEF BootInv
  <2>3. cause # -1 => cause \in Fault
    BY DEF BootInv, CpuInv
  <2>4. \A v \in DOMAIN gate : gate[v].err <=> PushesError(v)
    BY DEF BootInv, GatesInv
  <2>5. 32 \in DOMAIN gate => PIT_FREQUENCY \div period = 100
    <3>1. 32 \in DOMAIN gate => Through(4)
      BY DEF BootInv, GatesInv
    <3>2. Through(4) => Through(3)
      BY KmainIs DEF Through, BootInv, PartsInv
    <3>3. PIT_FREQUENCY \div 11931 = 100
      BY DEF PIT_FREQUENCY
    <3> QED
      BY <3>1, <3>2, <3>3 DEF BootInv, PartsInv
  <2> QED
    BY <2>1, <2>2, <2>3, <2>4, <2>5 DEF CodeFindsWhatItUses
<1> QED
  BY <1>1, BootInvariance, PTL

(* mouse.c:104-130: if no key is pressed meanwhile, the dialogue with the  *)
(* 8042 leaves the firmware's command byte but for the two bits, nothing   *)
(* under way, and a mouse that is there reporting: for every command byte, *)
(* whatever was in the output buffer before.                               *)
THEOREM SetupWorks == BSpec => []UndisturbedSetupWorks
<1>1. BootInv => UndisturbedSetupWorks
  <2> SUFFICES ASSUME BootInv, Kmain[stage] = "mouse", ScriptDone, keys = 0
               PROVE  /\ cmdbyte = Intended /\ ~ UnderWay
                      /\ present => reports /\ Tail(answers) = <<ACK, ACK>>
    BY DEF UndisturbedSetupWorks
  <2>1. stage = 6 /\ pos = 14
    BY KmainIs, StageIs, WhatIsNext DEF BootInv, PartsInv, PlaceInv
  <2>2. DialogueInv /\ LocalsInv
    BY <2>1, MouseStageIs DEF BootInv
  <2>3. inbuf = None /\ Silent /\ kbdq = <<>> /\ cmdbyte = Intended
    BY <2>1, <2>2 DEF DialogueInv, InputInv, OutputInv, CommandByteInv
  <2>4. present => reports
    BY <2>1, <2>2 DEF DialogueInv, ReportsInv
  <2>5. ~ UnderWay
    BY <2>3 DEF UnderWay, Silent
  <2>6. ASSUME present PROVE Tail(answers) = <<ACK, ACK>>
    <3>1. /\ answers \in Seq(PortByte) /\ Len(answers) = 3
          /\ answers[2] = ACK /\ answers[3] = ACK
      BY <2>1, <2>2, <2>6 DEF LocalsInv
    <3> DEFINE t == Tail(answers)
    <3>2. t \in Seq(PortByte) /\ Len(t) = 2 /\ t[1] = ACK /\ t[2] = ACK
      <4>1. answers # <<>>
        <5>1. Len(<<>>) = 0
          OBVIOUS
        <5>2. Len(answers) # 0
          BY <3>1
        <5> QED
          BY <5>1, <5>2, Zenon
      <4>2. t \in Seq(PortByte) /\ Len(t) = Len(answers) - 1
        BY <3>1, <4>1, HeadTailProperties
      <4>3. \A i \in 1..Len(t) : t[i] = answers[i + 1]
        BY <3>1, <4>1, HeadTailProperties
      <4> HIDE DEF t
      <4> QED
        BY <3>1, <4>2, <4>3
    <3>3. t = [i \in 1..2 |-> t[i]]
      <4> HIDE DEF t
      <4> QED
        BY <3>2, LenProperties
    <3> HIDE DEF t
    <3>4. <<ACK, ACK>> = [i \in 1..2 |-> t[i]]
      BY <3>2
    <3> QED
      BY <3>3, <3>4 DEF t
  <2> QED
    BY <2>3, <2>4, <2>5, <2>6
<1> QED
  BY <1>1, BootInvariance, PTL
=============================================================================
