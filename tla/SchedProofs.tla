----------------------------- MODULE SchedProofs -----------------------------
(***************************************************************************)
(* The safety properties of Sched for every set of tasks and stacks and    *)
(* every MaxTid.  The heart is that the linked tasks stay one cycle: the   *)
(* two list operations are handled by InsertKeepsCycle and                 *)
(* RemoveKeepsCycle, which speak of pointers only.                         *)
(***************************************************************************)
EXTENDS SchedRefinement, Threads, Sequences, FiniteSetTheorems, TLAPS

(***************************************************************************)
(* Induction, as a set of naturals that is not empty has a least element.  *)
(***************************************************************************)
LEMMA LeastElement ==
  ASSUME NEW T, T \subseteq Nat, T # {}
  PROVE  \E x \in T : \A y \in T : x <= y
<1> DEFINE R == OpToRel(<, Nat)
<1>1. IsWellFoundedOn(R, Nat)
  BY NatLessThanWellFounded
<1>2. \A x, y \in Nat : x < y => <<x, y>> \in R
  BY DEF OpToRel
<1> HIDE DEF R
<1>3. PICK x \in T : \A y \in T : ~ (<<y, x>> \in R)
  BY <1>1, WFMin
<1>4. \A y \in T : ~ (y < x)
  BY <1>2, <1>3
<1> QED
  BY <1>4

LEMMA Induction ==
  ASSUME NEW Q, 0 \in Q, \A k \in Nat : k \in Q => k + 1 \in Q
  PROVE  \A k \in Nat : k \in Q
<1> DEFINE T == {k \in Nat : k \notin Q}
<1>1. ASSUME NEW k \in T, \A j \in T : k <= j PROVE FALSE
  <2>1. k \in Nat /\ k # 0 /\ k \notin Q
    OBVIOUS
  <2>2. k - 1 \in Nat /\ (k - 1) + 1 = k
    BY <2>1
  <2>3. k - 1 \notin T
    BY <1>1, <2>1, <2>2
  <2> QED
    BY <2>1, <2>2, <2>3
<1>2. T \subseteq Nat
  OBVIOUS
<1> HIDE DEF T
<1>3. T = {}
  BY <1>1, <1>2, LeastElement
<1> QED
  BY <1>3 DEF T

(***************************************************************************)
(* list_add: linking t behind head makes a cycle one longer.               *)
(***************************************************************************)
Inserts(R, nx, t, ny) ==
  /\ t \notin R
  /\ ny[t] = nx[head] /\ ny[head] = t
  /\ \A u \in R \ {head} : ny[u] = nx[u]

Inserted(f, n, t) ==
  [i \in 0..n |-> IF i = 0 THEN f[0] ELSE IF i = 1 THEN t ELSE f[i - 1]]

LEMMA InsertKeepsOrder ==
  ASSUME NEW R, NEW nx, NEW n \in Nat \ {0},
         NEW f \in [0..(n - 1) -> R], IsCycle(R, nx, n, f),
         NEW t, NEW ny, Inserts(R, nx, t, ny)
  PROVE  /\ Inserted(f, n, t) \in [0..n -> R \cup {t}]
         /\ IsCycle(R \cup {t}, ny, n + 1, Inserted(f, n, t))
<1> DEFINE g == Inserted(f, n, t)
<1> USE DEF Inserts, Inserted
<1>1. g \in [0..n -> R \cup {t}]
  OBVIOUS
<1>2. g[0] = head
  BY DEF IsCycle
<1>3. \A i, j \in 0..n : g[i] = g[j] => i = j
  <2> SUFFICES ASSUME NEW i \in 0..n, NEW j \in 0..n, g[i] = g[j]
               PROVE  i = j
    OBVIOUS
  <2>1. \A k \in 0..(n - 1) : f[k] # t
    OBVIOUS
  <2>2. CASE i = 1 \/ j = 1
    BY <2>1, <2>2
  <2>3. CASE i # 1 /\ j # 1
    BY <2>3 DEF IsCycle
  <2> QED
    BY <2>2, <2>3
<1>4. \A u \in R \cup {t} : \E i \in 0..n : g[i] = u
  <2> TAKE u \in R \cup {t}
  <2>1. CASE u = t
    BY <2>1, g[1] = t, 1 \in 0..n
  <2>2. CASE u \in R
    <3>1. PICK k \in 0..(n - 1) : f[k] = u
      BY <2>2 DEF IsCycle
    <3>2. CASE k = 0
      BY <3>1, <3>2, g[0] = f[0], 0 \in 0..n
    <3>3. CASE k # 0
      <4>1. k + 1 \in 0..n /\ k + 1 # 0 /\ k + 1 # 1 /\ (k + 1) - 1 = k
        BY <3>3
      <4>2. g[k + 1] = f[k]
        BY <4>1
      <4> QED
        BY <3>1, <4>1, <4>2
    <3> QED
      BY <3>2, <3>3
  <2> QED
    BY <2>1, <2>2
<1>5. \A i \in 0..n : ny[g[i]] = IF i = n THEN g[0] ELSE g[i + 1]
  <2> TAKE i \in 0..n
  <2>1. CASE i = 0
    BY <2>1, g[1] = t DEF IsCycle
  <2>2. CASE i = 1
    <3>1. ny[g[1]] = nx[f[0]]
      BY <1>2 DEF IsCycle
    <3>2. nx[f[0]] = IF 0 = n - 1 THEN f[0] ELSE f[1]
      BY 0 \in 0..(n - 1), 0 + 1 = 1 DEF IsCycle
    <3>3. n # 1 => 2 \in 0..n /\ g[2] = f[1]
      OBVIOUS
    <3> QED
      BY <2>2, <3>1, <3>2, <3>3
  <2>3. CASE i # 0 /\ i # 1
    <3> DEFINE k == i - 1
    <3>1. k \in 0..(n - 1) /\ k # 0 /\ g[i] = f[k]
      BY <2>3
    <3>2. ny[f[k]] = nx[f[k]]
      BY <3>1, 0 \in 0..(n - 1) DEF IsCycle
    <3>3. nx[f[k]] = IF k = n - 1 THEN f[0] ELSE f[k + 1]
      BY <3>1 DEF IsCycle
    <3>4. k # n - 1 => i + 1 \in 0..n /\ g[i + 1] = f[k + 1]
      BY <2>3
    <3> QED
      BY <3>1, <3>2, <3>3, <3>4
  <2> QED
    BY <2>1, <2>2, <2>3
<1> HIDE DEF g, Inserted
<1>6. IsCycle(R \cup {t}, ny, n + 1, g)
  BY <1>2, <1>3, <1>4, <1>5, (n + 1) - 1 = n DEF IsCycle
<1> QED
  BY <1>1, <1>6 DEF g

LEMMA InsertKeepsCycle ==
  ASSUME NEW R, NEW nx, NEW n \in Nat \ {0}, Cycle(R, nx, n),
         NEW t, NEW ny, Inserts(R, nx, t, ny)
  PROVE  Cycle(R \cup {t}, ny, n + 1)
<1> PICK f \in [0..(n - 1) -> R] : IsCycle(R, nx, n, f)
  BY DEF Cycle
<1> QED
  BY InsertKeepsOrder, (n + 1) - 1 = n DEF Cycle

(***************************************************************************)
(* list_remove's search has one answer, and bypassing t makes a cycle one  *)
(* shorter.                                                                *)
(***************************************************************************)
Bypasses(R, nx, t, p, ny) ==
  /\ t \in R /\ t # head
  /\ p \in R /\ nx[p] = t
  /\ ny[p] = nx[t]
  /\ \A u \in R \ {p} : ny[u] = nx[u]

Stands(f, k, t) == f[k] = t
Removed(f, n, k) == [i \in 0..(n - 2) |-> IF i < k THEN f[i] ELSE f[i + 1]]

LEMMA RemoveKeepsOrder ==
  ASSUME NEW R, NEW nx, NEW n \in Nat \ {0},
         NEW f \in [0..(n - 1) -> R], IsCycle(R, nx, n, f),
         NEW t, NEW p, NEW ny, Bypasses(R, nx, t, p, ny),
         NEW k \in 0..(n - 1), Stands(f, k, t)
  PROVE  /\ n > 1 /\ k # 0
         /\ p # t /\ nx[t] \in R \ {t}
         /\ Removed(f, n, k) \in [0..(n - 2) -> R \ {t}]
         /\ IsCycle(R \ {t}, ny, n - 1, Removed(f, n, k))
<1> DEFINE g == Removed(f, n, k)
<1> USE DEF Bypasses
<1>1. f[k] = t
  BY DEF Stands
<1>2. k # 0
  BY <1>1 DEF IsCycle
<1>3. PICK l \in 0..(n - 1) : f[l] = p
  BY DEF IsCycle
<1>4. l = k - 1
  <2>1. t = IF l = n - 1 THEN f[0] ELSE f[l + 1]
    BY <1>3 DEF IsCycle
  <2>2. l # n - 1
    BY <2>1 DEF IsCycle
  <2>3. l + 1 \in 0..(n - 1) /\ f[l + 1] = f[k]
    BY <1>1, <2>1, <2>2
  <2>4. l + 1 = k
    BY <2>3 DEF IsCycle
  <2> QED
    BY <2>4
<1>5. n > 1 /\ p # t
  BY <1>1, <1>2, <1>3, <1>4 DEF IsCycle
<1>6. nx[t] = IF k = n - 1 THEN f[0] ELSE f[k + 1]
  BY <1>1 DEF IsCycle
<1>7. nx[t] \in R \ {t}
  <2>1. CASE k = n - 1
    BY <1>1, <1>2, <1>6, <2>1 DEF IsCycle
  <2>2. CASE k # n - 1
    BY <1>1, <1>6, <2>2, k + 1 \in 0..(n - 1) DEF IsCycle
  <2> QED
    BY <2>1, <2>2
<1> USE DEF Removed
<1>8. g \in [0..(n - 2) -> R \ {t}]
  <2> SUFFICES ASSUME NEW i \in 0..(n - 2)
               PROVE  (IF i < k THEN f[i] ELSE f[i + 1]) \in R \ {t}
    OBVIOUS
  <2>1. i \in 0..(n - 1) /\ i + 1 \in 0..(n - 1)
    BY <1>5
  <2> QED
    BY <1>1, <2>1 DEF IsCycle
<1>9. g[0] = head
  BY <1>2, <1>5 DEF IsCycle
<1>10. \A i, j \in 0..(n - 2) : g[i] = g[j] => i = j
  <2> SUFFICES ASSUME NEW i \in 0..(n - 2), NEW j \in 0..(n - 2), g[i] = g[j]
               PROVE  i = j
    OBVIOUS
  <2>1. /\ i \in 0..(n - 1) /\ i + 1 \in 0..(n - 1)
        /\ j \in 0..(n - 1) /\ j + 1 \in 0..(n - 1)
    BY <1>5
  <2> QED
    BY <2>1 DEF IsCycle
<1>11. \A u \in R \ {t} : \E i \in 0..(n - 2) : g[i] = u
  <2> TAKE u \in R \ {t}
  <2>1. PICK m \in 0..(n - 1) : f[m] = u
    BY DEF IsCycle
  <2>2. m # k
    BY <1>1, <2>1
  <2>3. CASE m < k
    BY <2>1, <2>3, m \in 0..(n - 2), g[m] = f[m]
  <2>4. CASE m > k
    <3>1. m - 1 \in 0..(n - 2) /\ ~ (m - 1 < k) /\ (m - 1) + 1 = m
      BY <2>4
    <3>2. g[m - 1] = f[m]
      BY <3>1
    <3> QED
      BY <2>1, <3>1, <3>2
  <2> QED
    BY <2>2, <2>3, <2>4
<1>12. \A i \in 0..(n - 2) : ny[g[i]] = IF i = n - 2 THEN g[0] ELSE g[i + 1]
  <2> TAKE i \in 0..(n - 2)
  <2>1. g[0] = f[0]
    BY <1>2, <1>5
  <2>2. \A j \in 0..(n - 1) : j # k - 1 => ny[f[j]] = nx[f[j]]
    BY <1>3, <1>4 DEF IsCycle
  <2>3. CASE i = k - 1
    <3>1. g[i] = p /\ ny[g[i]] = nx[t]
      BY <1>3, <1>4, <2>3
    <3>2. k # n - 1 => i + 1 \in 0..(n - 2) /\ g[i + 1] = f[k + 1]
      BY <2>3
    <3> QED
      BY <1>6, <2>1, <2>3, <3>1, <3>2
  <2>4. CASE i < k - 1
    <3>1. i \in 0..(n - 1) /\ i # n - 1 /\ i # n - 2
          /\ g[i] = f[i] /\ g[i + 1] = f[i + 1]
      BY <2>4
    <3>2. ny[f[i]] = f[i + 1]
      BY <2>2, <2>4, <3>1 DEF IsCycle
    <3> QED
      BY <3>1, <3>2
  <2>5. CASE i > k - 1
    <3>1. i + 1 \in 0..(n - 1) /\ g[i] = f[i + 1]
      BY <2>5
    <3>2. ny[f[i + 1]] = IF i + 1 = n - 1 THEN f[0] ELSE f[(i + 1) + 1]
      BY <2>2, <2>5, <3>1 DEF IsCycle
    <3>3. i # n - 2 => i + 1 \in 0..(n - 2) /\ g[i + 1] = f[(i + 1) + 1]
      <4> SUFFICES ASSUME i # n - 2
                   PROVE  i + 1 \in 0..(n - 2) /\ g[i + 1] = f[(i + 1) + 1]
        OBVIOUS
      <4>1. i + 1 \in 0..(n - 2) /\ ~ (i + 1 < k)
        BY <2>5
      <4> QED
        BY <4>1
    <3> QED
      BY <2>1, <3>1, <3>2, <3>3
  <2> QED
    BY <2>3, <2>4, <2>5
<1> HIDE DEF g, Removed
<1>13. IsCycle(R \ {t}, ny, n - 1, g)
  BY <1>9, <1>10, <1>11, <1>12, (n - 1) - 1 = n - 2 DEF IsCycle
<1> QED
  BY <1>2, <1>5, <1>7, <1>8, <1>13 DEF g

LEMMA RemoveKeepsCycle ==
  ASSUME NEW R, NEW nx, NEW n \in Nat \ {0}, Cycle(R, nx, n),
         NEW t, NEW p, NEW ny, Bypasses(R, nx, t, p, ny)
  PROVE  /\ n > 1
         /\ p # t /\ nx[t] \in R \ {t}
         /\ Cycle(R \ {t}, ny, n - 1)
<1> PICK f \in [0..(n - 1) -> R] : IsCycle(R, nx, n, f)
  BY DEF Cycle
<1>1. PICK k \in 0..(n - 1) : Stands(f, k, t)
  BY DEF IsCycle, Bypasses, Stands
<1> DEFINE g == Removed(f, n, k)
<1>2. n > 1 /\ p # t /\ nx[t] \in R \ {t}
  <2>1. k # 0
    BY <1>1, RemoveKeepsOrder
  <2>2. nx[t] \in R \ {t}
    BY <1>1, RemoveKeepsOrder
  <2> QED
    BY <2>1, <2>2 DEF Bypasses
<1>3. g \in [0..(n - 2) -> R \ {t}]
  BY <1>1, RemoveKeepsOrder
<1>4. IsCycle(R \ {t}, ny, n - 1, g)
  BY <1>1, RemoveKeepsOrder
<1> HIDE DEF g
<1> QED
  BY <1>2, <1>3, <1>4, (n - 1) - 1 = n - 2 DEF Cycle

(***************************************************************************)
(* What RingInv says of the pointers: head is linked, and the linked nodes *)
(* are closed under next and under its inverse.                            *)
(***************************************************************************)
LEMMA RingIsClosed ==
  ASSUME TypeOK, RingInv
  PROVE  /\ Boot \in Ring
         /\ \A t \in Ring : next[t] \in Ring
         /\ \A t \in Ring : \E p \in Ring : next[p] = t
<1> DEFINE bound == IF BootAt = "add" THEN next_tid - 1 ELSE next_tid
<1>1. bound \in Int
  BY DEF TypeOK
<1>2. PICK n \in 1..bound : Cycle(Ring, next, n)
  BY DEF RingInv
<1>3. PICK f \in [0..(n - 1) -> Ring] : IsCycle(Ring, next, n, f)
  BY <1>2 DEF Cycle
<1> HIDE DEF bound
<1>4. n \in Nat /\ n > 0
  BY <1>1, <1>2
<1>5. Boot \in Ring
  BY <1>3, <1>4, 0 \in 0..(n - 1) DEF IsCycle, head
<1>6. ASSUME NEW t \in Ring PROVE next[t] \in Ring
  <2>1. PICK i \in 0..(n - 1) : f[i] = t
    BY <1>3, <1>6 DEF IsCycle
  <2>2. next[t] = IF i = n - 1 THEN f[0] ELSE f[i + 1]
    BY <1>3, <2>1 DEF IsCycle
  <2>3. 0 \in 0..(n - 1) /\ (i # n - 1 => i + 1 \in 0..(n - 1))
    BY <1>4
  <2> QED
    BY <1>3, <2>2, <2>3
<1>7. ASSUME NEW t \in Ring PROVE \E p \in Ring : next[p] = t
  <2>1. PICK i \in 0..(n - 1) : f[i] = t
    BY <1>3, <1>7 DEF IsCycle
  <2>2. CASE i = 0
    <3>1. n - 1 \in 0..(n - 1)
      BY <1>4
    <3>2. next[f[n - 1]] = f[0]
      BY <1>3, <3>1 DEF IsCycle
    <3> QED
      BY <1>3, <2>1, <2>2, <3>1, <3>2
  <2>3. CASE i # 0
    <3>1. i - 1 \in 0..(n - 1) /\ i - 1 # n - 1 /\ (i - 1) + 1 = i
      BY <1>4, <2>3
    <3>2. next[f[i - 1]] = f[(i - 1) + 1]
      BY <1>3, <3>1 DEF IsCycle
    <3> QED
      BY <1>3, <2>1, <3>1, <3>2
  <2> QED
    BY <2>2, <2>3
<1> QED
  BY <1>5, <1>6, <1>7

(* A step that touches neither the list nor its bound keeps RingInv.       *)
LEMMA RingFrame ==
  ASSUME RingInv, Ring' = Ring, next' = next, next_tid' = next_tid,
         BootAt' = "add" <=> BootAt = "add"
  PROVE  RingInv'
<1>1. \A n : Cycle(Ring, next, n)' <=> Cycle(Ring, next, n)
  BY DEF Cycle, IsCycle, head
<1> QED
  BY <1>1 DEF RingInv

(***************************************************************************)
(* The initial state: a ring of one.                                       *)
(***************************************************************************)
LEMMA InitInv == Init => IInv
<1> SUFFICES ASSUME Init PROVE IInv
  OBVIOUS
<1> USE SchedAssumption
<1>1. TypeOK
  <2>1. saved \in [Task -> [at : OpenLabel, flag : BOOLEAN]]
    BY DEF Init, OpenLabel
  <2>2. /\ state \in [Task -> TaskState] /\ next \in [Task -> Task]
        /\ stack_base \in [Task -> Stack \cup {NULL}] /\ pc \in [Task -> Label]
    BY DEF Init, TaskState, Label, OpenLabel
  <2>3. next_tid \in 1..MaxTid
    BY DEF Init
  <2> QED
    BY <2>1, <2>2, <2>3 DEF Init, TypeOK
<1>2. Ring = {Boot} /\ Made = {Boot} /\ BootAt = "body"
  BY DEF Init, Ring, Made, BootAt
<1>3. StackInv
  BY <1>2 DEF Init, StackInv
<1>4. RingInv
  <2> DEFINE f == [i \in 0..0 |-> Boot]
  <2>1. f \in [0..(1 - 1) -> Ring]
    BY <1>2
  <2>2. IsCycle(Ring, next, 1, f)
    BY <1>2 DEF Init, IsCycle, head
  <2>3. 1 \in 1..next_tid
    BY DEF Init
  <2> QED
    BY <1>2, <2>1, <2>2, <2>3 DEF RingInv, Cycle
<1>5. CpuInv
  BY <1>2 DEF Init, CpuInv, OneRunning, At
<1>6. ZombieInv /\ CreateInv
  BY <1>2 DEF Init, ZombieInv, CreateInv, Making
<1>7. IntInv
  BY <1>2 DEF Init, IntInv, InterruptDiscipline, EoiBeforeSwitch, OpenLabel
<1> QED
  BY <1>1, <1>3, <1>4, <1>5, <1>6, <1>7 DEF IInv

(***************************************************************************)
(* Steps that move the CPU and its flags but no task, list or memory.      *)
(***************************************************************************)
Still == UNCHANGED <<current_task, state, next, stack_base, zombie, next_tid,
                     heap, new, newstack>>

LEMMA StillFrame ==
  ASSUME IInv, Still, BootAt' = "add" <=> BootAt = "add"
  PROVE  /\ Ring' = Ring /\ Made' = Made
         /\ StackInv' /\ RingInv' /\ ZombieInv' /\ OneRunning'
<1>1. Ring' = Ring /\ Made' = Made
  BY DEF Still, Ring, Made
<1>2. RingInv'
  BY <1>1, RingFrame DEF IInv, Still
<1>3. StackInv'
  BY <1>1 DEF IInv, StackInv, Still
<1>4. ZombieInv' /\ OneRunning'
  BY <1>1 DEF IInv, ZombieInv, CpuInv, OneRunning, Still
<1> QED
  BY <1>1, <1>2, <1>3, <1>4

LEMMA TimerIrqKeeps == IInv /\ TimerIrq => IInv'
<1> SUFFICES ASSUME IInv, TimerIrq PROVE IInv'
  OBVIOUS
<1>1. Still /\ state[current_task] # "DEAD" /\ pc[current_task] \in OpenLabel
  BY DEF IInv, CpuInv, IntInv, InterruptDiscipline, TimerIrq, Still, At,
         OpenLabel, TypeOK
<1>2. TypeOK'
  BY <1>1 DEF IInv, TypeOK, TimerIrq, Goto, At, Label, OpenLabel, ShutLabel
<1>3. BootAt' = BootAt
  BY <1>1, SchedAssumption
  DEF IInv, TypeOK, TimerIrq, At, Goto, BootAt, OpenLabel
<1>4. /\ Ring' = Ring /\ Made' = Made
      /\ StackInv' /\ RingInv' /\ ZombieInv' /\ OneRunning'
  BY <1>1, <1>3, StillFrame
<1>5. CpuInv'
  BY <1>1, <1>4
  DEF IInv, TypeOK, CpuInv, TimerIrq, Still, Goto, At, OpenLabel
<1>6. CreateInv'
  BY <1>1, <1>3
  DEF IInv, TypeOK, CreateInv, TimerIrq, Still, Goto, At, Making, OpenLabel
<1>7. IntInv'
  BY <1>1, <1>4
  DEF IInv, TypeOK, IntInv, InterruptDiscipline, EoiBeforeSwitch, TimerIrq,
      Still, Goto, At, OpenLabel
<1> QED
  BY <1>2, <1>4, <1>5, <1>6, <1>7 DEF IInv

LEMMA TimerEoiKeeps == IInv /\ TimerEoi => IInv'
<1> SUFFICES ASSUME IInv, TimerEoi PROVE IInv'
  OBVIOUS
<1>1. Still /\ state[current_task] # "DEAD"
  BY DEF IInv, CpuInv, IntInv, InterruptDiscipline, TimerEoi, Still, At,
         OpenLabel, TypeOK
<1>2. TypeOK'
  BY <1>1 DEF IInv, TypeOK, TimerEoi, Goto, At, Label, OpenLabel, ShutLabel
<1>3. BootAt' = BootAt
  BY <1>1, SchedAssumption
  DEF IInv, TypeOK, TimerEoi, At, Goto, BootAt, OpenLabel
<1>4. /\ Ring' = Ring /\ Made' = Made
      /\ StackInv' /\ RingInv' /\ ZombieInv' /\ OneRunning'
  BY <1>1, <1>3, StillFrame
<1>5. CpuInv'
  BY <1>1, <1>4
  DEF IInv, TypeOK, CpuInv, TimerEoi, Still, Goto, At, OpenLabel
<1>6. CreateInv'
  BY <1>1, <1>3
  DEF IInv, TypeOK, CreateInv, TimerEoi, Still, Goto, At, Making, OpenLabel
<1>7. IntInv'
  BY <1>1, <1>4
  DEF IInv, TypeOK, IntInv, InterruptDiscipline, EoiBeforeSwitch, TimerEoi,
      Still, Goto, At, OpenLabel
<1> QED
  BY <1>2, <1>4, <1>5, <1>6, <1>7 DEF IInv

LEMMA TimerReturnKeeps == IInv /\ TimerReturn => IInv'
<1> SUFFICES ASSUME IInv, TimerReturn PROVE IInv'
  OBVIOUS
<1>1. Still /\ state[current_task] # "DEAD"
  BY DEF IInv, CpuInv, IntInv, InterruptDiscipline, TimerReturn, Still, At,
         OpenLabel, TypeOK
<1>2. TypeOK'
  BY <1>1 DEF IInv, TypeOK, TimerReturn, Goto, At, Label, OpenLabel, ShutLabel
<1>3. BootAt' = BootAt
  BY <1>1, SchedAssumption
  DEF IInv, TypeOK, TimerReturn, At, Goto, BootAt, OpenLabel
<1>4. /\ Ring' = Ring /\ Made' = Made
      /\ StackInv' /\ RingInv' /\ ZombieInv' /\ OneRunning'
  BY <1>1, <1>3, StillFrame
<1>5. CpuInv'
  BY <1>1, <1>4
  DEF IInv, TypeOK, CpuInv, TimerReturn, Still, Goto, At, OpenLabel
<1>6. CreateInv'
  BY <1>1, <1>3
  DEF IInv, TypeOK, CreateInv, TimerReturn, Still, Goto, At, Making, OpenLabel
<1>7. IntInv'
  BY <1>1, <1>4
  DEF IInv, TypeOK, IntInv, InterruptDiscipline, EoiBeforeSwitch, TimerReturn,
      Still, Goto, At, OpenLabel
<1> QED
  BY <1>2, <1>4, <1>5, <1>6, <1>7 DEF IInv

LEMMA TaskYieldKeeps == IInv /\ TaskYield => IInv'
<1> SUFFICES ASSUME IInv, TaskYield PROVE IInv'
  OBVIOUS
<1>1. Still /\ state[current_task] # "DEAD"
  BY DEF IInv, CpuInv, IntInv, InterruptDiscipline, TaskYield, Still, At,
         OpenLabel, TypeOK
<1>2. TypeOK'
  BY <1>1 DEF IInv, TypeOK, TaskYield, Goto, At, Label, OpenLabel, ShutLabel
<1>3. BootAt' = BootAt
  BY <1>1, SchedAssumption
  DEF IInv, TypeOK, TaskYield, At, Goto, BootAt, OpenLabel
<1>4. /\ Ring' = Ring /\ Made' = Made
      /\ StackInv' /\ RingInv' /\ ZombieInv' /\ OneRunning'
  BY <1>1, <1>3, StillFrame
<1>5. CpuInv'
  BY <1>1, <1>4
  DEF IInv, TypeOK, CpuInv, TaskYield, Still, Goto, At, OpenLabel
<1>6. CreateInv'
  BY <1>1, <1>3
  DEF IInv, TypeOK, CreateInv, TaskYield, Still, Goto, At, Making, OpenLabel
<1>7. IntInv'
  BY <1>1, <1>4
  DEF IInv, TypeOK, IntInv, InterruptDiscipline, EoiBeforeSwitch, TaskYield,
      Still, Goto, At, OpenLabel
<1> QED
  BY <1>2, <1>4, <1>5, <1>6, <1>7 DEF IInv

LEMMA YieldReturnKeeps == IInv /\ YieldReturn => IInv'
<1> SUFFICES ASSUME IInv, YieldReturn PROVE IInv'
  OBVIOUS
<1>1. Still /\ state[current_task] # "DEAD"
  BY DEF IInv, CpuInv, IntInv, InterruptDiscipline, YieldReturn, Still, At,
         OpenLabel, TypeOK
<1>2. TypeOK'
  BY <1>1 DEF IInv, TypeOK, YieldReturn, Goto, At, Label, OpenLabel, ShutLabel
<1>3. BootAt' = BootAt
  BY <1>1, SchedAssumption
  DEF IInv, TypeOK, YieldReturn, At, Goto, BootAt, OpenLabel
<1>4. /\ Ring' = Ring /\ Made' = Made
      /\ StackInv' /\ RingInv' /\ ZombieInv' /\ OneRunning'
  BY <1>1, <1>3, StillFrame
<1>5. CpuInv'
  BY <1>1, <1>4
  DEF IInv, TypeOK, CpuInv, YieldReturn, Still, Goto, At, OpenLabel
<1>6. CreateInv'
  BY <1>1, <1>3
  DEF IInv, TypeOK, CreateInv, YieldReturn, Still, Goto, At, Making, OpenLabel
<1>7. IntInv'
  BY <1>1, <1>4
  DEF IInv, TypeOK, IntInv, InterruptDiscipline, EoiBeforeSwitch, YieldReturn,
      Still, Goto, At, OpenLabel
<1> QED
  BY <1>2, <1>4, <1>5, <1>6, <1>7 DEF IInv

LEMMA TrampolineKeeps == IInv /\ Trampoline => IInv'
<1> SUFFICES ASSUME IInv, Trampoline PROVE IInv'
  OBVIOUS
<1>1. Still /\ state[current_task] # "DEAD"
  BY DEF IInv, CpuInv, IntInv, InterruptDiscipline, Trampoline, Still, At,
         OpenLabel, TypeOK
<1>2. TypeOK'
  BY <1>1 DEF IInv, TypeOK, Trampoline, Goto, At, Label, OpenLabel, ShutLabel
<1>3. (BootAt' \in Making <=> BootAt \in Making)
      /\ (BootAt \in Making => BootAt' = BootAt)
  BY <1>1, SchedAssumption
  DEF IInv, TypeOK, Trampoline, At, Goto, BootAt, OpenLabel, Making
<1>4. /\ Ring' = Ring /\ Made' = Made
      /\ StackInv' /\ RingInv' /\ ZombieInv' /\ OneRunning'
  BY <1>1, <1>3, StillFrame DEF Making
<1>5. CpuInv'
  BY <1>1, <1>4
  DEF IInv, TypeOK, CpuInv, Trampoline, Still, Goto, At, OpenLabel
<1>6. CreateInv'
  BY <1>1, <1>3
  DEF IInv, TypeOK, CpuInv, CreateInv, Made, Trampoline, Still, Goto, At, Making, OpenLabel
<1>7. IntInv'
  BY <1>1, <1>4
  DEF IInv, TypeOK, IntInv, InterruptDiscipline, EoiBeforeSwitch, Trampoline,
      Still, Goto, At, OpenLabel
<1> QED
  BY <1>2, <1>4, <1>5, <1>6, <1>7 DEF IInv

LEMMA CreateFaultKeeps == IInv /\ CreateFault => IInv'
<1> SUFFICES ASSUME IInv, CreateFault PROVE IInv'
  OBVIOUS
<1>1. Still /\ state[current_task] # "DEAD" /\ current_task = Boot
  BY DEF IInv, CpuInv, CreateInv, Making, IntInv, InterruptDiscipline, CreateFault, Still, At,
         OpenLabel, TypeOK
<1>2. TypeOK'
  BY <1>1 DEF IInv, TypeOK, CreateFault, Goto, At, Label, OpenLabel, ShutLabel
<1>3. BootAt \in Making \ {"add"} /\ BootAt' = "fault"
  BY <1>1, SchedAssumption
  DEF IInv, TypeOK, CreateFault, At, Goto, BootAt, OpenLabel, Making
<1>4. /\ Ring' = Ring /\ Made' = Made
      /\ StackInv' /\ RingInv' /\ ZombieInv' /\ OneRunning'
  BY <1>1, <1>3, StillFrame
<1>5. CpuInv'
  BY <1>1, <1>4
  DEF IInv, TypeOK, CpuInv, CreateFault, Still, Goto, At, OpenLabel
<1>6. CreateInv'
  BY <1>1, <1>3
  DEF IInv, TypeOK, CreateInv, CreateFault, Still, Goto, At, Making, OpenLabel
<1>7. IntInv'
  BY <1>1, <1>4
  DEF IInv, TypeOK, IntInv, InterruptDiscipline, EoiBeforeSwitch, CreateFault,
      Still, Goto, At, OpenLabel
<1> QED
  BY <1>2, <1>4, <1>5, <1>6, <1>7 DEF IInv

(***************************************************************************)
(* task_create, position by position.                                      *)
(***************************************************************************)
LEMMA CreateStructKeeps == IInv /\ CreateStruct => IInv'
<1> SUFFICES ASSUME IInv, CreateStruct PROVE IInv'
  OBVIOUS
<1>1. PICK p \in Task \cup {NULL} : Kmalloc(Task, p) /\ new' = p
  BY DEF CreateStruct
<1>2. BootAt = "body" /\ BootAt' = "stack" /\ new = NULL /\ newstack = NULL
  BY SchedAssumption
  DEF IInv, TypeOK, CreateInv, CreateStruct, BootAt, At, Goto, Making
<1>3. heap' = heap \cup ({p} \ {NULL}) /\ p \notin heap
  BY <1>1, SchedAssumption DEF Kmalloc, IInv, TypeOK
<1>4. Ring' = Ring /\ Made' = Made
  BY <1>1, <1>2, <1>3, SchedAssumption DEF CreateStruct, Ring, Made, IInv, TypeOK
<1>5. TypeOK'
  BY <1>1, <1>3 DEF IInv, TypeOK, CreateStruct, Goto, Label, OpenLabel
<1>6. StackInv'
  BY <1>2, <1>3, <1>4 DEF IInv, StackInv, CreateStruct
<1>7. RingInv'
  BY <1>2, <1>4, RingFrame DEF IInv, CreateStruct
<1>8. CpuInv'
  BY <1>4 DEF IInv, TypeOK, CpuInv, OneRunning, CreateStruct, At, Goto
<1>9. ZombieInv'
  BY <1>4 DEF IInv, ZombieInv, CreateStruct
<1>10. CreateInv'
  BY <1>1, <1>2, <1>3 DEF IInv, TypeOK, CreateInv, CreateStruct, Goto, Making
<1>11. IntInv'
  BY <1>4 DEF IInv, TypeOK, IntInv, InterruptDiscipline, EoiBeforeSwitch,
              CreateStruct, At, Goto, OpenLabel
<1> QED
  BY <1>5, <1>6, <1>7, <1>8, <1>9, <1>10, <1>11 DEF IInv

LEMMA CreateStackKeeps == IInv /\ CreateStack => IInv'
<1> SUFFICES ASSUME IInv, CreateStack PROVE IInv'
  OBVIOUS
<1>1. PICK p \in Stack \cup {NULL} : Kmalloc(Stack, p) /\ newstack' = p
  BY DEF CreateStack
<1>2. current_task = Boot /\ BootAt = "stack" /\ BootAt' = "init"
  BY SchedAssumption
  DEF IInv, TypeOK, CreateInv, CreateStack, BootAt, At, Goto, Making
<1>3. heap' = heap \cup ({p} \ {NULL}) /\ p \notin heap
  BY <1>1, SchedAssumption DEF Kmalloc, IInv, TypeOK
<1>4. Ring' = Ring /\ Made' = Made
  BY <1>1, <1>2, <1>3, SchedAssumption DEF CreateStack, Ring, Made
<1>5. TypeOK'
  BY <1>1, <1>3 DEF IInv, TypeOK, CreateStack, Goto, Label, OpenLabel
<1>6. StackInv'
  <2>1. \A t \in Made : stack_base[t] \in heap \cup {NULL}
    BY DEF IInv, StackInv
  <2> QED
    BY <1>1, <1>3, <1>4, <2>1 DEF IInv, StackInv, CreateStack
<1>7. RingInv'
  BY <1>2, <1>4, RingFrame DEF IInv, CreateStack
<1>8. CpuInv'
  BY <1>4 DEF IInv, TypeOK, CpuInv, OneRunning, CreateStack, At, Goto
<1>9. ZombieInv'
  BY <1>4 DEF IInv, ZombieInv, CreateStack
<1>10. CreateInv'
  BY <1>2, <1>3 DEF IInv, TypeOK, CreateInv, CreateStack, Goto, Making
<1>11. IntInv'
  BY <1>4 DEF IInv, TypeOK, IntInv, InterruptDiscipline, EoiBeforeSwitch,
              CreateStack, At, Goto, OpenLabel
<1> QED
  BY <1>5, <1>6, <1>7, <1>8, <1>9, <1>10, <1>11 DEF IInv

LEMMA CreateInitKeeps == IInv /\ CreateInit => IInv'
<1> SUFFICES ASSUME IInv, CreateInit PROVE IInv'
  OBVIOUS
<1>1. current_task = Boot /\ BootAt = "init" /\ next_tid < MaxTid
  BY SchedAssumption
  DEF IInv, TypeOK, CreateInv, CreateInit, BootAt, At, Making
<1>2. /\ new \in Task /\ new \in heap /\ new \notin Made /\ new # Boot
      /\ newstack \in Stack /\ newstack \in heap
  BY DEF IInv, TypeOK, StackInv, CreateInv, CreateInit, Made
<1>3. BootAt' = "add"
  BY <1>1, <1>2, SchedAssumption DEF IInv, TypeOK, CreateInit, BootAt
<1>4. Made' = Made
  BY DEF CreateInit, Made
<1>5. Ring' = Ring
  BY DEF IInv, TypeOK, CreateInit, Ring
<1>6. TypeOK'
  <2>1. next_tid' \in 1..MaxTid
    BY <1>1, SchedAssumption DEF IInv, TypeOK, CreateInit
  <2>2. /\ stack_base' \in [Task -> Stack \cup {NULL}]
        /\ state' \in [Task -> TaskState]
    BY <1>2 DEF IInv, TypeOK, CreateInit, TaskState
  <2>3. pc' \in [Task -> Label]
    BY <1>1, <1>2 DEF IInv, TypeOK, CreateInit, Label, OpenLabel, ShutLabel
  <2> QED
    BY <2>1, <2>2, <2>3 DEF IInv, TypeOK, CreateInit
<1>7. StackInv'
  BY <1>2, <1>4 DEF IInv, TypeOK, StackInv, CreateInit, Made
<1>8. RingInv'
  <2>1. \A n : Cycle(Ring, next, n)' <=> Cycle(Ring, next, n)
    BY <1>5 DEF CreateInit, Cycle, IsCycle, head
  <2>2. next_tid' - 1 = next_tid
    BY DEF CreateInit, IInv, TypeOK
  <2> QED
    BY <1>1, <1>3, <1>5, <2>1, <2>2 DEF IInv, RingInv
<1>9. CpuInv'
  BY <1>1, <1>2, <1>4, <1>5, SchedAssumption
  DEF IInv, TypeOK, CpuInv, OneRunning, CreateInit, At, Ring, Made
<1>10. ZombieInv'
  BY <1>2, <1>4 DEF IInv, TypeOK, ZombieInv, CreateInit, Made
<1>11. CreateInv'
  BY <1>1, <1>2, <1>3, SchedAssumption
  DEF IInv, TypeOK, CreateInv, CreateInit, Making
<1>12. IntInv'
  BY <1>1, <1>2, <1>5, SchedAssumption
  DEF IInv, TypeOK, IntInv, InterruptDiscipline, EoiBeforeSwitch,
      CreateInit, At, OpenLabel, Ring
<1> QED
  BY <1>6, <1>7, <1>8, <1>9, <1>10, <1>11, <1>12 DEF IInv

LEMMA CreateAddKeeps == IInv /\ CreateAdd => IInv'
<1> SUFFICES ASSUME IInv, CreateAdd PROVE IInv'
  OBVIOUS
<1>1. current_task = Boot /\ BootAt = "add" /\ BootAt' = "body"
  BY SchedAssumption
  DEF IInv, TypeOK, CreateInv, CreateAdd, BootAt, At, Goto, Making
<1>2. /\ new \in Task /\ new \in heap /\ new \notin Made /\ new # Boot
      /\ state[new] = "READY" /\ pc[new] = "trampoline"
      /\ newstack # NULL /\ newstack \in heap \cap Stack
      /\ stack_base[new] = newstack
  BY <1>1 DEF IInv, TypeOK, StackInv, CreateInv, Made
<1>3. Made' = Made \cup {new}
  BY <1>2, SchedAssumption DEF CreateAdd, Made
<1>4. Ring' = Ring \cup {new} /\ new \notin Ring
  BY <1>2, SchedAssumption DEF CreateAdd, Ring
<1>5. TypeOK'
  BY <1>2, SchedAssumption
  DEF IInv, TypeOK, CreateAdd, ListAdd, head, Goto, Label, OpenLabel
<1>6. StackInv'
  BY <1>2, <1>3 DEF IInv, StackInv, CreateAdd
<1>7. RingInv'
  <2>1. PICK n \in 1..(next_tid - 1) : Cycle(Ring, next, n)
    BY <1>1 DEF IInv, RingInv
  <2>2. n \in Nat \ {0} /\ n + 1 \in 1..next_tid
    BY DEF IInv, TypeOK
  <2>3. Inserts(Ring, next, new, next')
    BY <1>2, <1>4, SchedAssumption
    DEF IInv, TypeOK, CreateAdd, ListAdd, head, Ring, Inserts
  <2>4. Cycle(Ring', next', n + 1)
    BY <1>4, <2>1, <2>2, <2>3, InsertKeepsCycle
  <2>5. \A m : Cycle(Ring, next, m)' <=> Cycle(Ring', next', m)
    BY DEF Cycle, IsCycle, head
  <2> QED
    BY <1>1, <2>2, <2>4, <2>5 DEF RingInv, CreateAdd
<1>8. CpuInv'
  BY <1>1, <1>2, <1>3, <1>4
  DEF IInv, TypeOK, CpuInv, OneRunning, CreateAdd, At, Goto
<1>9. ZombieInv'
  BY <1>3 DEF IInv, ZombieInv, CreateAdd
<1>10. CreateInv'
  BY <1>1, SchedAssumption
  DEF IInv, TypeOK, CreateInv, CreateAdd, Goto, Making
<1>11. IntInv'
  BY <1>1, <1>2, <1>4
  DEF IInv, TypeOK, IntInv, InterruptDiscipline, EoiBeforeSwitch,
      CreateAdd, At, Goto, OpenLabel
<1> QED
  BY <1>5, <1>6, <1>7, <1>8, <1>9, <1>10, <1>11 DEF IInv

(***************************************************************************)
(* task_exit: the running task is unlinked and becomes the zombie.         *)
(***************************************************************************)
LEMMA TaskExitKeeps == IInv /\ TaskExit => IInv'
<1> SUFFICES ASSUME IInv, TaskExit PROVE IInv'
  OBVIOUS
<1>1. /\ current_task # Boot /\ current_task \in Task /\ current_task \in Made
      /\ state[current_task] # "DEAD" /\ current_task \in Ring
  BY DEF IInv, TypeOK, CpuInv, TaskExit, At, Ring, Made
<1>2. BootAt' = BootAt
  BY <1>1, SchedAssumption DEF IInv, TypeOK, TaskExit, Goto, BootAt
<1>3. Made' = Made
  BY DEF TaskExit, Made
<1>4. Ring' = Ring \ {current_task}
  BY <1>1 DEF IInv, TypeOK, TaskExit, Ring
<1>5. PICK p \in Ring : next[p] = current_task /\ p = Predecessor(current_task)
  BY <1>1, RingIsClosed DEF IInv, Predecessor
<1>6. /\ next'[p] = next[current_task]
      /\ \A u \in Ring \ {p} : next'[u] = next[u]
  BY <1>5 DEF IInv, TypeOK, TaskExit, ListRemove, Ring
<1>7. TypeOK'
  BY <1>1, <1>5
  DEF IInv, TypeOK, TaskExit, ListRemove, Goto, Label, ShutLabel, TaskState, Ring
<1>8. PICK n \in 1..(IF BootAt = "add" THEN next_tid - 1 ELSE next_tid) :
        Cycle(Ring, next, n)
  BY DEF IInv, RingInv
<1>9. n \in Nat \ {0}
  BY DEF IInv, TypeOK
<1>10. /\ n > 1 /\ p # current_task /\ next[current_task] \in Ring'
       /\ Cycle(Ring', next', n - 1)
  <2>1. Bypasses(Ring, next, current_task, p, next')
    BY <1>1, <1>5, <1>6 DEF Bypasses, head
  <2> QED
    BY <1>4, <1>8, <1>9, <2>1, RemoveKeepsCycle
<1>11. StackInv'
  BY <1>3 DEF IInv, StackInv, TaskExit
<1>12. RingInv'
  <2>1. \A m : Cycle(Ring, next, m)' <=> Cycle(Ring', next', m)
    BY DEF Cycle, IsCycle, head
  <2>2. /\ n - 1 \in 1..(IF BootAt = "add" THEN next_tid - 1 ELSE next_tid)
        /\ next_tid' = next_tid
    BY <1>8, <1>9, <1>10 DEF IInv, TypeOK, TaskExit
  <2> QED
    BY <1>2, <1>10, <2>1, <2>2 DEF RingInv
<1>13. CpuInv'
  <2>1. next'[current_task] = next[current_task]
    BY <1>1, <1>6, <1>10
  <2>2. OneRunning'
    BY <1>4 DEF IInv, TypeOK, CpuInv, OneRunning, TaskExit, Ring
  <2> QED
    BY <1>1, <1>3, <1>10, <2>1, <2>2
    DEF IInv, TypeOK, CpuInv, TaskExit, At, Goto
<1>14. ZombieInv'
  BY <1>1, <1>3 DEF IInv, TypeOK, ZombieInv, TaskExit
<1>15. CreateInv'
  BY <1>1, <1>2
  DEF IInv, TypeOK, CreateInv, TaskExit, Goto, Made, Making
<1>16. IntInv'
  BY <1>1, <1>4
  DEF IInv, TypeOK, IntInv, InterruptDiscipline, EoiBeforeSwitch, TaskExit,
      At, Goto, OpenLabel
<1> QED
  BY <1>7, <1>11, <1>12, <1>13, <1>14, <1>15, <1>16 DEF IInv

(***************************************************************************)
(* schedule().  The loop never has to skip a dead task, as the successor   *)
(* of the running one is linked.                                           *)
(***************************************************************************)
LEMMA NextReadyIsLinked ==
  ASSUME IInv
  PROVE  /\ NextReady(current_task) = next[current_task]
         /\ next[current_task] \in Ring
<1>1. next[current_task] \in Ring
  BY RingIsClosed DEF IInv, CpuInv, Ring, Made
<1> QED
  BY <1>1 DEF NextReady, Ring

LEMMA ScheduleKeeps == IInv /\ Schedule => IInv'
<1> SUFFICES ASSUME IInv, Schedule PROVE IInv'
  OBVIOUS
<1> DEFINE nxt == next[current_task]
<1>1. nxt \in Ring /\ nxt \in Task /\ nxt \in Made /\ nxt # new /\ Boot \in Ring
  BY NextReadyIsLinked, RingIsClosed DEF IInv, Ring, Made
<1>2. /\ SwitchTo(nxt) /\ Reap /\ pc[current_task] \in Caller
      /\ pc' = [pc EXCEPT ![current_task] = ReturnOf(pc[current_task])]
  BY NextReadyIsLinked DEF Schedule, Goto
<1>3. /\ current_task' = nxt
      /\ \A t \in Task \ {current_task, nxt} : state'[t] = state[t]
      /\ state'[nxt] # "DEAD"
      /\ nxt # current_task => state'[nxt] = "RUNNING"
      /\ nxt = current_task => state' = state
      /\ state'[current_task] = "DEAD" <=> state[current_task] = "DEAD"
      /\ nxt # current_task => state'[current_task] # "RUNNING"
      /\ state' \in [Task -> TaskState]
  BY <1>1, <1>2 DEF SwitchTo, IInv, TypeOK, Ring, TaskState
<1>4. \A t \in Task : state'[t] = "DEAD" <=> state[t] = "DEAD"
  BY <1>1, <1>3 DEF Ring
<1>5. /\ zombie' \in {zombie, NULL} /\ heap' \subseteq heap
      /\ \A t \in (heap \cap Task) \ heap' : t \in Made /\ t # Boot
                                          /\ t # current_task /\ state[t] = "DEAD"
      /\ heap' = heap \/ heap' = heap \ {zombie, stack_base[zombie]}
      /\ heap' # heap => zombie \in Made \ {Boot} /\ zombie # current_task
      /\ zombie' # NULL => heap' = heap /\ zombie' = current_task
  BY <1>1, <1>2, SchedAssumption
  DEF Reap, IInv, TypeOK, StackInv, ZombieInv, Ring, Made
<1>6. Ring' = Ring
  BY <1>4, <1>5 DEF Ring, Schedule
<1>7. Made' = Made \cap heap' /\ current_task \in Made'
  BY <1>5 DEF Made, Schedule, IInv, CpuInv
<1>8. TypeOK'
  BY <1>1, <1>2, <1>3, <1>5
  DEF IInv, TypeOK, Schedule, ReturnOf, Caller, Label, ShutLabel
<1>9. BootAt' = BootAt
  <2>1. CASE current_task = Boot
    <3>1. pc[Boot] # "exit"
      BY <1>1, <2>1 DEF IInv, CpuInv, At, Ring
    <3> QED
      BY <1>2, <2>1, <3>1, SchedAssumption
      DEF IInv, TypeOK, Schedule, BootAt, ReturnOf, Caller
  <2>2. CASE current_task # Boot
    BY <1>2, <2>2, SchedAssumption DEF IInv, TypeOK, Schedule, BootAt
  <2> QED
    BY <2>1, <2>2
<1>10. StackInv'
  <2>1. /\ \A t \in Made' \ {Boot} : stack_base[t] \in heap'
        /\ newstack # NULL => newstack \in heap'
    <3>1. CASE heap' = heap
      BY <1>7, <3>1 DEF IInv, StackInv
    <3>2. CASE heap' # heap
      BY <1>5, <1>7, <3>2, SchedAssumption DEF IInv, TypeOK, StackInv, Made
    <3> QED
      BY <3>1, <3>2
  <2>2. Boot \in Made'
    BY <1>5, <1>7 DEF IInv, StackInv, Made
  <2> QED
    BY <1>7, <2>1, <2>2 DEF IInv, StackInv, Schedule
<1>11. RingInv'
  BY <1>6, <1>9, RingFrame DEF IInv, Schedule
<1>12. CpuInv'
  <2>1. OneRunning'
    BY <1>3, <1>6 DEF IInv, CpuInv, OneRunning, Ring
  <2>2. ~ At("exit")'
    <3>1. CASE nxt = current_task
      BY <1>1, <1>2, <1>3, <3>1 DEF IInv, TypeOK, At, ReturnOf, Caller
    <3>2. CASE nxt # current_task
      BY <1>1, <1>2, <1>3, <3>2
      DEF IInv, TypeOK, IntInv, InterruptDiscipline, At
    <3> QED
      BY <3>1, <3>2
  <2>3. current_task' \in Made'
    BY <1>1, <1>3, <1>6, <1>7 DEF Ring
  <2> QED
    BY <1>3, <2>1, <2>2, <2>3 DEF CpuInv
<1>13. ZombieInv'
  BY <1>4, <1>5, <1>7 DEF IInv, TypeOK, ZombieInv
<1>14. CreateInv'
  BY <1>1, <1>2, <1>3, <1>5, <1>9
  DEF IInv, TypeOK, CreateInv, CpuInv, Schedule, Made, Making, ReturnOf, Caller
<1>15. IntInv'
  BY <1>1, <1>2, <1>3, <1>6
  DEF IInv, TypeOK, IntInv, CpuInv, InterruptDiscipline, EoiBeforeSwitch,
      Schedule, At, ReturnOf, Caller, OpenLabel, Ring
<1> QED
  BY <1>8, <1>10, <1>11, <1>12, <1>13, <1>14, <1>15 DEF IInv

LEMMA NextKeeps == IInv /\ [Next]_vars => IInv'
<1> SUFFICES ASSUME IInv, [Next]_vars PROVE IInv'
  OBVIOUS
<1>1. CASE Create
  BY <1>1, CreateStructKeeps, CreateStackKeeps, CreateInitKeeps,
     CreateFaultKeeps, CreateAddKeeps DEF Create
<1>2. CASE Timer
  BY <1>2, TimerIrqKeeps, TimerEoiKeeps, TimerReturnKeeps DEF Timer
<1>3. CASE TaskYield \/ YieldReturn \/ Trampoline \/ TaskExit \/ Schedule
  BY <1>3, TaskYieldKeeps, YieldReturnKeeps, TrampolineKeeps, TaskExitKeeps,
     ScheduleKeeps
<1>4. CASE UNCHANGED vars
  <2>1. Still /\ Ring' = Ring /\ Made' = Made /\ BootAt' = BootAt
    BY <1>4 DEF vars, Still, Ring, Made, BootAt
  <2>2. StackInv' /\ RingInv' /\ ZombieInv' /\ OneRunning'
    BY <2>1, StillFrame
  <2>3. TypeOK' /\ CpuInv' /\ CreateInv' /\ IntInv'
    BY <1>4, <2>1, <2>2
    DEF vars, IInv, TypeOK, CpuInv, CreateInv, IntInv, InterruptDiscipline,
        EoiBeforeSwitch, At
  <2> QED
    BY <2>2, <2>3 DEF IInv
<1> QED
  BY <1>1, <1>2, <1>3, <1>4 DEF Next, Halted

(***************************************************************************)
(* The inductive invariant holds in every reachable state.                 *)
(***************************************************************************)
THEOREM Invariance == Spec => []IInv
BY InitInv, NextKeeps, PTL DEF Spec

(* Type correctness of the scheduler's state (sched.c's and sched.h's      *)
(* declarations).                                                          *)
THEOREM TypeCorrectness == Spec => []TypeOK
<1>1. IInv => TypeOK
  BY DEF IInv
<1> QED
  BY <1>1, Invariance, PTL

(* list_add (sched.c:15-18) and list_remove (sched.c:21-25), whatever      *)
(* interrupts come between task_create's calls, keep the list one cycle    *)
(* through head.                                                           *)
THEOREM ListIsOneCycle == Spec => []RingIsOneCycle
<1>1. IInv => RingIsOneCycle
  <2> SUFFICES ASSUME IInv PROVE RingIsOneCycle
    OBVIOUS
  <2>1. PICK n \in 1..(IF BootAt = "add" THEN next_tid - 1 ELSE next_tid) :
          Cycle(Ring, next, n)
    BY DEF IInv, RingInv
  <2>2. n \in 1..MaxTid
    BY <2>1, SchedAssumption DEF IInv, TypeOK
  <2> QED
    BY <2>1, <2>2 DEF RingIsOneCycle
<1> QED
  BY <1>1, Invariance, PTL

(* The state fields agree with who owns the CPU (sched.c:86-90).           *)
THEOREM OneTaskIsRunning == Spec => []OneRunning
<1>1. IInv => OneRunning
  BY DEF IInv, CpuInv
<1> QED
  BY <1>1, Invariance, PTL

(* reap (sched.c:30-37) frees no task_t and no stack that is still linked, *)
(* still in use or waiting in the zombie slot.                             *)
THEOREM MemorySafety == Spec => []NoUseAfterFree
<1>1. IInv => NoUseAfterFree
  <2> SUFFICES ASSUME IInv PROVE NoUseAfterFree
    OBVIOUS
  <2>1. \A t \in Made : OwnsStack(t)
    BY DEF IInv, StackInv, OwnsStack
  <2>2. \A t \in Ring : t \in Made
    BY DEF Ring, Made
  <2>3. current_task \in Made /\ (zombie # NULL => zombie \in Made)
    BY DEF IInv, CpuInv, ZombieInv
  <2> QED
    BY <2>1, <2>2, <2>3, RingIsClosed, NextReadyIsLinked
    DEF IInv, NoUseAfterFree, Made
<1> QED
  BY <1>1, Invariance, PTL

(* Preemptible code and interrupts-off code never mix, on the CPU or on a  *)
(* stack that waits for it (irqlock.h, switch.asm:33, timer.c:14-20).      *)
THEOREM InterruptsAreDisciplined == Spec => []InterruptDiscipline
<1>1. IInv => InterruptDiscipline
  BY DEF IInv, IntInv
<1> QED
  BY <1>1, Invariance, PTL

(* irq0_timer's order of EOI and sched_tick (timer.c:18-19).               *)
THEOREM EoiComesFirst == Spec => []EoiBeforeSwitch
<1>1. IInv => EoiBeforeSwitch
  BY DEF IInv, IntInv
<1> QED
  BY <1>1, Invariance, PTL

(* The two kfree calls of reap, in every state they are made in.           *)
THEOREM OnlyDeadTasksAreFreed == Spec => FreesOnlyDead
<1> DEFINE A == \A x \in heap \ heap' :
                  \E t \in Task \ {current_task} :
                    state[t] = "DEAD" /\ x \in {t, stack_base[t]}
<1>1. IInv /\ [Next]_vars => [A]_vars
  <2> SUFFICES ASSUME IInv, Next PROVE A
    BY DEF Next
  <2>1. CASE Schedule
    BY <2>1 DEF Schedule, Reap, IInv, TypeOK, ZombieInv
  <2>2. CASE ~ Schedule
    <3>1. heap \subseteq heap'
      BY <2>2
      DEF Next, Create, CreateStruct, CreateStack, CreateInit, CreateFault,
          CreateAdd, Kmalloc, Halted, Timer, TimerIrq, TimerEoi, TimerReturn,
          TaskYield, YieldReturn, Trampoline, TaskExit, vars
    <3> QED
      BY <3>1
  <2> QED
    BY <2>1, <2>2
<1> QED
  BY <1>1, Invariance, PTL DEF Spec, FreesOnlyDead

(* schedule's "if RUNNING then READY" (sched.c:87) and list_remove keep an *)
(* exited task from ever coming back.                                      *)
THEOREM TheDeadStayDead == Spec => DeadStaysDead
<1> DEFINE A == \A t \in (heap \cap heap' \cap Task) \ {new} :
                  state[t] = "DEAD" =>
                    /\ state'[t] = "DEAD"
                    /\ current_task' = t => current_task = t
<1>1. IInv /\ [Next]_vars => [A]_vars
  <2> SUFFICES ASSUME IInv, Next PROVE A
    BY DEF Next
  <2>1. CASE Schedule
    <3>1. SwitchTo(next[current_task]) /\ next[current_task] \in Ring
      BY <2>1, NextReadyIsLinked DEF Schedule
    <3> QED
      BY <3>1 DEF SwitchTo, Ring, IInv, TypeOK
  <2>2. CASE CreateInit
    BY <2>2 DEF CreateInit, IInv, TypeOK
  <2>3. CASE TaskExit
    BY <2>3 DEF TaskExit, IInv, TypeOK
  <2>4. CASE ~ Schedule /\ ~ CreateInit /\ ~ TaskExit
    <3>1. UNCHANGED <<current_task, state>>
      BY <2>4
      DEF Next, Create, CreateStruct, CreateStack, CreateFault, CreateAdd,
          Halted, Timer, TimerIrq, TimerEoi, TimerReturn, TaskYield,
          YieldReturn, Trampoline, vars
    <3> QED
      BY <3>1
  <2> QED
    BY <2>1, <2>2, <2>3, <2>4
<1> QED
  BY <1>1, Invariance, PTL DEF Spec, DeadStaysDead

(***************************************************************************)
(* Counting modulo n.                                                      *)
(***************************************************************************)
LEMMA Remainder ==
  ASSUME NEW n \in Nat \ {0}, NEW q \in Nat, NEW r \in 0..(n - 1)
  PROVE  (q * n + r) % n = r
<1>1. q * n \in Nat
  OBVIOUS
<1> QED
  BY <1>1

LEMMA NextRemainder ==
  ASSUME NEW n \in Nat \ {0}, NEW k \in Nat
  PROVE  /\ k % n \in 0..(n - 1)
         /\ (k + 1) % n = IF k % n = n - 1 THEN 0 ELSE (k % n) + 1
<1> DEFINE q == k \div n
           r == k % n
<1>1. k = q * n + r /\ r \in 0..(n - 1) /\ q \in Nat
  OBVIOUS
<1> HIDE DEF q, r
<1>2. CASE r = n - 1
  <2>1. k + 1 = (q + 1) * n + 0
    BY <1>1, <1>2
  <2>2. ((q + 1) * n + 0) % n = 0
    BY <1>1, q + 1 \in Nat, 0 \in 0..(n - 1), Remainder
  <2> QED
    BY <1>1, <1>2, <2>1, <2>2 DEF r
<1>3. CASE r # n - 1
  <2>1. k + 1 = q * n + (r + 1) /\ r + 1 \in 0..(n - 1)
    BY <1>1, <1>3
  <2>2. (q * n + (r + 1)) % n = r + 1
    BY <1>1, <2>1, Remainder
  <2> QED
    BY <1>1, <1>3, <2>1, <2>2 DEF r
<1> QED
  BY <1>2, <1>3

(***************************************************************************)
(* The circular queue of RoundRobin.  A list of n nodes is read off the    *)
(* pointers in n - 1 hops, whatever function f lists it.                   *)
(***************************************************************************)
Hops(nx) == LET hop[k \in Nat] == IF k = 0 THEN head ELSE nx[hop[k - 1]] IN hop

LEMMA HopsAlong ==
  ASSUME NEW R, NEW nx, NEW n \in Nat \ {0},
         NEW f \in [0..(n - 1) -> R], IsCycle(R, nx, n, f)
  PROVE  \A k \in 0..(n - 1) : Hops(nx)[k] = f[k]
<1> DEFINE Body(h) == [k \in Nat |-> IF k = 0 THEN head ELSE nx[h[k - 1]]]
           hop == CHOOSE h : h = Body(h)
           b == [k \in Nat |-> f[k % n]]
<1>1. b = Body(b)
  <2>1. ASSUME NEW k \in Nat
        PROVE  f[k % n] = IF k = 0 THEN head ELSE nx[b[k - 1]]
    <3>1. k % n \in 0..(n - 1)
      OBVIOUS
    <3>2. CASE k = 0
      BY <3>2, 0 % n = 0 DEF IsCycle
    <3>3. CASE k # 0
      <4>1. k - 1 \in Nat /\ (k - 1) % n \in 0..(n - 1)
        BY <3>3
      <4>2. k % n = IF (k - 1) % n = n - 1 THEN 0 ELSE ((k - 1) % n) + 1
        BY <4>1, (k - 1) + 1 = k, NextRemainder
      <4>3. nx[f[(k - 1) % n]] = f[k % n]
        BY <4>1, <4>2 DEF IsCycle
      <4> QED
        BY <3>3, <4>1, <4>3
    <3> QED
      BY <3>2, <3>3
  <2> QED
    BY <2>1
<1>2. hop = Body(hop)
  <2> HIDE DEF b, Body
  <2> QED
    BY <1>1
<1>3. hop[0] = head /\ \A k \in Nat : hop[k + 1] = nx[hop[k]]
  <2> HIDE DEF hop
  <2>1. \A k \in Nat : k + 1 \in Nat /\ k + 1 # 0 /\ (k + 1) - 1 = k
    OBVIOUS
  <2> QED
    BY <1>2, <2>1
<1>4. Hops(nx) = hop
  BY DEF Hops
<1> HIDE DEF hop
<1> DEFINE Q == {k \in Nat : k \in 0..(n - 1) => hop[k] = f[k]}
<1>5. 0 \in Q
  BY <1>3 DEF IsCycle
<1>6. ASSUME NEW k \in Nat, k \in Q PROVE k + 1 \in Q
  <2> SUFFICES ASSUME k + 1 \in 0..(n - 1) PROVE hop[k + 1] = f[k + 1]
    OBVIOUS
  <2>1. k \in 0..(n - 1) /\ k # n - 1
    OBVIOUS
  <2> QED
    BY <1>3, <1>6, <2>1 DEF IsCycle
<1>7. \A k \in Nat : k \in Q
  <2> HIDE DEF Q
  <2> QED
    BY <1>5, <1>6, Induction
<1> QED
  BY <1>4, <1>7

LEMMA CycleLength ==
  ASSUME NEW R, NEW nx, NEW n \in Nat \ {0},
         NEW f \in [0..(n - 1) -> R], IsCycle(R, nx, n, f)
  PROVE  Cardinality(R) = n /\ IsFiniteSet(R)
<1> DEFINE g == [k \in 1..n |-> f[k - 1]]
<1>1. g \in [1..n -> R]
  OBVIOUS
<1>2. \A i, j \in 1..n : g[i] = g[j] => i = j
  <2> SUFFICES ASSUME NEW i \in 1..n, NEW j \in 1..n, g[i] = g[j] PROVE i = j
    OBVIOUS
  <2>1. i - 1 = j - 1
    BY i - 1 \in 0..(n - 1), j - 1 \in 0..(n - 1) DEF IsCycle
  <2> QED
    BY <2>1
<1>3. \A t \in R : \E i \in 1..n : g[i] = t
  <2> TAKE t \in R
  <2>1. PICK k \in 0..(n - 1) : f[k] = t
    BY DEF IsCycle
  <2>2. k + 1 \in 1..n /\ (k + 1) - 1 = k
    OBVIOUS
  <2> QED
    BY <2>1, <2>2
<1>4. g \in Bijection(1..n, R)
  <2> HIDE DEF g
  <2> QED
    BY <1>1, <1>2, <1>3 DEF Bijection, Injection, Surjection, IsInjective
<1> QED
  BY <1>4, FS_CountingElements, FS_NatBijection DEF ExistsBijection

(* The sequence that f lists. *)
OrderOf(f, n) == [k \in 1..n |-> f[k - 1]]

LEMMA OrderIs ==
  ASSUME NEW R, NEW nx, NEW n \in Nat \ {0},
         NEW f \in [0..(n - 1) -> R], IsCycle(R, nx, n, f)
  PROVE  [k \in 1..Cardinality(R) |-> Hops(nx)[k - 1]] = OrderOf(f, n)
<1>1. \A k \in 1..n : k - 1 \in 0..(n - 1)
  OBVIOUS
<1> QED
  BY <1>1, HopsAlong, CycleLength DEF OrderOf

(* What list_add, list_remove and a hop do to that sequence. *)
LEMMA OrderIsSeq ==
  ASSUME NEW n \in Nat \ {0}, NEW R, NEW f \in [0..(n - 1) -> R]
  PROVE  /\ OrderOf(f, n) \in Seq(R) /\ Len(OrderOf(f, n)) = n
         /\ \A k \in 1..n : OrderOf(f, n)[k] = f[k - 1]
BY DEF OrderOf

InsertIn(q, t) == SubSeq(q, 1, 1) \o <<t>> \o SubSeq(q, 2, Len(q))

LEMMA InsertedOrder ==
  ASSUME NEW n \in Nat \ {0}, NEW R, NEW f \in [0..(n - 1) -> R], NEW t
  PROVE  OrderOf(Inserted(f, n, t), n + 1) = InsertIn(OrderOf(f, n), t)
<1> DEFINE o == OrderOf(f, n)
<1>1. o \in Seq(R) /\ Len(o) = n /\ \A k \in 1..n : o[k] = f[k - 1]
  BY OrderIsSeq
<1> HIDE DEF o
<1> DEFINE S == R \cup {t}
           a == SubSeq(o, 1, 1)
           b == SubSeq(o, 2, Len(o))
<1>2. a \in Seq(S) /\ Len(a) = 1 /\ a[1] = f[0]
  BY <1>1
<1>3. b \in Seq(S) /\ Len(b) = n - 1
      /\ \A k \in 1..(n - 1) : b[k] = f[k]
  <2>1. \A k \in 1..(n - 1) : 2 + k - 1 \in 1..n /\ (2 + k - 1) - 1 = k
    OBVIOUS
  <2> QED
    BY <1>1, <2>1
<1> HIDE DEF a, b
<1> DEFINE w == a \o <<t>> \o b
           v == OrderOf(Inserted(f, n, t), n + 1)
<1>4. w \in Seq(S) /\ Len(w) = n + 1
      /\ \A k \in 1..(n + 1) : w[k] = IF k = 1 THEN f[0] ELSE
                                      IF k = 2 THEN t ELSE f[k - 2]
  <2>1. a \o <<t>> \in Seq(S) /\ Len(a \o <<t>>) = 2
        /\ (a \o <<t>>)[1] = f[0] /\ (a \o <<t>>)[2] = t
    BY <1>2
  <2> DEFINE c == a \o <<t>>
  <2> HIDE DEF c
  <2>2. \A k \in 1..(n + 1) : k > 2 => k - 2 \in 1..(n - 1)
    OBVIOUS
  <2> QED
    BY <1>3, <2>1, <2>2 DEF c
<1>5. v = [k \in 1..(n + 1) |-> IF k = 1 THEN f[0] ELSE
                                IF k = 2 THEN t ELSE f[k - 2]]
  <2>1. \A k \in 1..(n + 1) :
          /\ k - 1 \in 0..n
          /\ (k - 1 = 0 <=> k = 1) /\ (k - 1 = 1 <=> k = 2)
          /\ (k - 1) - 1 = k - 2
    OBVIOUS
  <2> QED
    BY <2>1 DEF OrderOf, Inserted
<1>6. w = v
  <2> HIDE DEF w, v
  <2> QED
    BY <1>4, <1>5
<1> QED
  BY <1>6 DEF a, b, o, InsertIn

RemoveFrom(q, k) == SubSeq(q, 1, k - 1) \o SubSeq(q, k + 1, Len(q))

LEMMA RemovedOrder ==
  ASSUME NEW n \in Nat \ {0}, NEW R, NEW f \in [0..(n - 1) -> R],
         NEW k \in 1..n
  PROVE  OrderOf(Removed(f, n, k - 1), n - 1) = RemoveFrom(OrderOf(f, n), k)
<1> DEFINE o == OrderOf(f, n)
<1>1. o \in Seq(R) /\ Len(o) = n /\ \A i \in 1..n : o[i] = f[i - 1]
  BY OrderIsSeq
<1> HIDE DEF o
<1> DEFINE a == SubSeq(o, 1, k - 1)
           b == SubSeq(o, k + 1, Len(o))
<1>2. a \in Seq(R) /\ Len(a) = k - 1 /\ \A i \in 1..(k - 1) : a[i] = f[i - 1]
  BY <1>1
<1>3. b \in Seq(R) /\ Len(b) = n - k /\ \A i \in 1..(n - k) : b[i] = f[i + k - 1]
  <2>1. \A i \in 1..(n - k) : (k + 1) + i - 1 \in 1..n
                              /\ ((k + 1) + i - 1) - 1 = i + k - 1
    OBVIOUS
  <2> QED
    BY <1>1, <2>1
<1> HIDE DEF a, b
<1> DEFINE w == a \o b
           v == OrderOf(Removed(f, n, k - 1), n - 1)
<1>4. w \in Seq(R) /\ Len(w) = n - 1
      /\ \A i \in 1..(n - 1) : w[i] = IF i < k THEN f[i - 1] ELSE f[i]
  <2>1. w \in Seq(R) /\ Len(w) = n - 1
    <3> HIDE DEF w
    <3>1. w \in Seq(R) /\ Len(w) = Len(a) + Len(b)
      <4>1. a \in Seq(R) /\ b \in Seq(R)
        BY <1>2, <1>3
      <4> QED
        BY ONLY <4>1 DEF w
    <3>2. (k - 1) + (n - k) = n - 1
      OBVIOUS
    <3> QED
      BY <1>2, <1>3, <3>1, <3>2
  <2>2. ASSUME NEW i \in 1..(n - 1) PROVE w[i] = IF i < k THEN f[i - 1] ELSE f[i]
    <3>1. CASE i < k
      BY <1>2, <1>3, <3>1
    <3>2. CASE ~ (i < k)
      <4>1. i - (k - 1) \in 1..(n - k) /\ i - (k - 1) + k - 1 = i
        BY <3>2
      <4>2. w[i] = b[i - (k - 1)]
        BY <1>2, <1>3, <3>2
      <4> QED
        BY <1>3, <3>2, <4>1, <4>2
    <3> QED
      BY <3>1, <3>2
  <2> QED
    BY <2>1, <2>2
<1>5. v = [i \in 1..(n - 1) |-> IF i < k THEN f[i - 1] ELSE f[i]]
  <2>1. \A i \in 1..(n - 1) :
          /\ i - 1 \in 0..(n - 2) /\ (i - 1 < k - 1 <=> i < k)
          /\ (i - 1) + 1 = i
    OBVIOUS
  <2> QED
    BY <2>1 DEF OrderOf, Removed
<1>6. w = v
  <2> HIDE DEF w, v
  <2> QED
    BY <1>4, <1>5
<1> QED
  BY <1>6 DEF a, b, o, RemoveFrom

LEMMA OrderFollows ==
  ASSUME NEW R, NEW nx, NEW n \in Nat \ {0},
         NEW f \in [0..(n - 1) -> R], IsCycle(R, nx, n, f),
         NEW t \in R, NEW i \in 1..n, Stands(OrderOf(f, n), i, t)
  PROVE  Stands(OrderOf(f, n), (i % n) + 1, nx[t])
<1> DEFINE o == OrderOf(f, n)
<1>1. o \in Seq(R) /\ Len(o) = n /\ \A k \in 1..n : o[k] = f[k - 1]
  BY OrderIsSeq
<1>3. f[i - 1] = t
  BY <1>1 DEF Stands
<1>4. i % n = IF i = n THEN 0 ELSE i
  <2>1. i - 1 \in Nat /\ (i - 1) % n = i - 1 /\ (i - 1) + 1 = i
    <3>1. i - 1 \in 0..(n - 1) /\ 0 * n + (i - 1) = i - 1
      BY <1>3
    <3> QED
      BY <1>3, <3>1, Remainder
  <2>2. ((i - 1) + 1) % n = IF (i - 1) % n = n - 1 THEN 0 ELSE ((i - 1) % n) + 1
    BY <2>1, NextRemainder
  <2> QED
    BY <2>1, <2>2
<1>5. nx[f[i - 1]] = IF i = n THEN f[0] ELSE f[i]
  BY i - 1 \in 0..(n - 1), (i - 1) + 1 = i DEF IsCycle
<1>6. (i % n) + 1 \in 1..n /\ ((i % n) + 1) - 1 = i % n
  BY <1>4
<1>7. o[(i % n) + 1] = f[i % n]
  BY <1>1, <1>6
<1> QED
  BY <1>3, <1>4, <1>5, <1>7 DEF Stands

LEMMA OrderFinds ==
  ASSUME NEW R, NEW nx, NEW n \in Nat \ {0},
         NEW f \in [0..(n - 1) -> R], IsCycle(R, nx, n, f),
         NEW t \in R
  PROVE  \E i \in 1..n : OrderOf(f, n)[i] = t
<1>1. \A k \in 1..n : OrderOf(f, n)[k] = f[k - 1]
  BY OrderIsSeq
<1>2. PICK k \in 0..(n - 1) : f[k] = t
  BY DEF IsCycle
<1>3. k + 1 \in 1..n /\ (k + 1) - 1 = k
  OBVIOUS
<1> QED
  BY <1>1, <1>2, <1>3

(***************************************************************************)
(* The queue that the pointers nx make of R, and what the three list       *)
(* operations do to it.                                                    *)
(***************************************************************************)
Cyclic(R, nx) == \E n \in Nat \ {0} : Cycle(R, nx, n)
QueueOf(R, nx) == [k \in 1..Cardinality(R) |-> Hops(nx)[k - 1]]
PositionIn(q, t) == CHOOSE i \in 1..Len(q) : q[i] = t

LEMMA QueueIsOrder ==
  ASSUME NEW R, NEW nx, Cyclic(R, nx)
  PROVE  \E n \in Nat \ {0} : \E f \in [0..(n - 1) -> R] :
           IsCycle(R, nx, n, f) /\ QueueOf(R, nx) = OrderOf(f, n)
<1>1. PICK n \in Nat \ {0} : Cycle(R, nx, n)
  BY DEF Cyclic
<1>2. PICK f \in [0..(n - 1) -> R] : IsCycle(R, nx, n, f)
  BY <1>1 DEF Cycle
<1>3. QueueOf(R, nx) = OrderOf(f, n)
  BY <1>2, OrderIs DEF QueueOf
<1> QED
  BY <1>2, <1>3

LEMMA QueueFollows ==
  ASSUME NEW R, NEW nx, Cyclic(R, nx), NEW t \in R
  PROVE  LET q == QueueOf(R, nx)
             i == PositionIn(q, t)
         IN  i \in 1..Len(q) /\ q[i] = t /\ q[(i % Len(q)) + 1] = nx[t]
<1> DEFINE q == QueueOf(R, nx)
           i == PositionIn(q, t)
<1>1. PICK n \in Nat \ {0} : \E f \in [0..(n - 1) -> R] :
        IsCycle(R, nx, n, f) /\ q = OrderOf(f, n)
  BY QueueIsOrder
<1>2. PICK f \in [0..(n - 1) -> R] : IsCycle(R, nx, n, f) /\ q = OrderOf(f, n)
  BY <1>1
<1> HIDE DEF q
<1>3. Len(q) = n
  BY <1>2, OrderIsSeq
<1>4. \E j \in 1..n : q[j] = t
  <2>1. \E j \in 1..n : OrderOf(f, n)[j] = t
    BY <1>2, OrderFinds
  <2> QED
    BY <1>2, <2>1
<1>5. i \in 1..n /\ q[i] = t
  BY <1>3, <1>4 DEF PositionIn
<1> HIDE DEF i
<1>6. q[(i % n) + 1] = nx[t]
  <2>1. Stands(OrderOf(f, n), i, t)
    BY <1>2, <1>5 DEF Stands
  <2>2. Stands(OrderOf(f, n), (i % n) + 1, nx[t])
    BY <1>2, <1>5, <2>1, OrderFollows
  <2> QED
    BY <1>2, <2>2 DEF Stands
<1> QED
  BY <1>3, <1>5, <1>6 DEF q, i

LEMMA QueueInserts ==
  ASSUME NEW R, NEW nx, Cyclic(R, nx), NEW t, NEW ny, Inserts(R, nx, t, ny)
  PROVE  /\ \A k \in 1..Len(QueueOf(R, nx)) : QueueOf(R, nx)[k] \in R
         /\ QueueOf(R \cup {t}, ny) = InsertIn(QueueOf(R, nx), t)
<1>1. PICK n \in Nat \ {0} : \E f \in [0..(n - 1) -> R] :
        IsCycle(R, nx, n, f) /\ QueueOf(R, nx) = OrderOf(f, n)
  BY QueueIsOrder
<1>2. PICK f \in [0..(n - 1) -> R] :
        IsCycle(R, nx, n, f) /\ QueueOf(R, nx) = OrderOf(f, n)
  BY <1>1
<1>3. \A k \in 1..Len(QueueOf(R, nx)) : QueueOf(R, nx)[k] \in R
  <2>1. Len(OrderOf(f, n)) = n /\ \A k \in 1..n : OrderOf(f, n)[k] = f[k - 1]
    BY OrderIsSeq
  <2>2. \A k \in 1..n : k - 1 \in 0..(n - 1)
    OBVIOUS
  <2> QED
    BY <1>2, <2>1, <2>2
<1> DEFINE g == Inserted(f, n, t)
<1>4. g \in [0..n -> R \cup {t}] /\ IsCycle(R \cup {t}, ny, n + 1, g)
  BY <1>2, InsertKeepsOrder
<1>5. QueueOf(R \cup {t}, ny) = OrderOf(g, n + 1)
  <2> HIDE DEF g
  <2>1. n + 1 \in Nat \ {0} /\ (n + 1) - 1 = n
    OBVIOUS
  <2> QED
    BY <1>4, <2>1, OrderIs DEF QueueOf
<1>6. OrderOf(g, n + 1) = InsertIn(OrderOf(f, n), t)
  BY InsertedOrder
<1> QED
  BY <1>2, <1>3, <1>5, <1>6

LEMMA QueueRemoves ==
  ASSUME NEW R, NEW nx, Cyclic(R, nx), NEW t, NEW p, NEW ny,
         Bypasses(R, nx, t, p, ny)
  PROVE  /\ p # t
         /\ QueueOf(R \ {t}, ny) =
              RemoveFrom(QueueOf(R, nx), PositionIn(QueueOf(R, nx), t))
<1>1. PICK n \in Nat \ {0} : \E f \in [0..(n - 1) -> R] :
        IsCycle(R, nx, n, f) /\ QueueOf(R, nx) = OrderOf(f, n)
  BY QueueIsOrder
<1>2. PICK f \in [0..(n - 1) -> R] :
        IsCycle(R, nx, n, f) /\ QueueOf(R, nx) = OrderOf(f, n)
  BY <1>1
<1> DEFINE i == PositionIn(QueueOf(R, nx), t)
<1>3. i \in 1..Len(QueueOf(R, nx)) /\ QueueOf(R, nx)[i] = t
  BY QueueFollows DEF Bypasses
<1> HIDE DEF i
<1>4. i \in 1..n /\ f[i - 1] = t
  <2>1. Len(OrderOf(f, n)) = n /\ \A k \in 1..n : OrderOf(f, n)[k] = f[k - 1]
    BY OrderIsSeq
  <2> QED
    BY <1>2, <1>3, <2>1
<1>5. PICK k \in 0..(n - 1) : k = i - 1 /\ Stands(f, k, t)
  BY <1>4 DEF Stands
<1> DEFINE g == Removed(f, n, k)
<1>6. /\ k # 0 /\ nx[t] \in R \ {t}
      /\ g \in [0..(n - 2) -> R \ {t}] /\ IsCycle(R \ {t}, ny, n - 1, g)
  <2>1. Stands(f, k, t) /\ IsCycle(R, nx, n, f)
    BY <1>2, <1>5
  <2>2. k # 0
    BY <2>1, RemoveKeepsOrder
  <2>3. nx[t] \in R \ {t}
    BY <2>1, RemoveKeepsOrder
  <2>4. g \in [0..(n - 2) -> R \ {t}]
    BY <2>1, RemoveKeepsOrder
  <2>5. IsCycle(R \ {t}, ny, n - 1, g)
    BY <2>1, RemoveKeepsOrder
  <2> QED
    BY <2>2, <2>3, <2>4, <2>5
<1>7. QueueOf(R \ {t}, ny) = OrderOf(g, n - 1)
  <2> HIDE DEF g
  <2>1. n - 1 \in Nat \ {0} /\ (n - 1) - 1 = n - 2
    BY <1>6
  <2> QED
    BY <1>6, <2>1, OrderIs DEF QueueOf
<1>8. OrderOf(g, n - 1) = RemoveFrom(OrderOf(f, n), i)
  <2>1. OrderOf(Removed(f, n, i - 1), n - 1) = RemoveFrom(OrderOf(f, n), i)
    BY <1>4, RemovedOrder
  <2> QED
    BY <1>5, <2>1
<1> QED
  BY <1>2, <1>6, <1>7, <1>8 DEF Bypasses, i

(***************************************************************************)
(* Each step of the scheduler is a step of the circular queue, or leaves   *)
(* the queue and its running task alone.                                   *)
(***************************************************************************)
LEMMA RingOrderIs ==
  RingOrder = QueueOf(Ring, next) /\ RingOrder' = QueueOf(Ring', next')
BY DEF RingOrder, Hop, Hops, QueueOf, head

LEMMA RingIsCyclic == IInv => Cyclic(Ring, next)
<1> SUFFICES ASSUME IInv PROVE Cyclic(Ring, next)
  OBVIOUS
<1> DEFINE bound == IF BootAt = "add" THEN next_tid - 1 ELSE next_tid
<1>1. PICK n \in 1..bound : Cycle(Ring, next, n)
  BY DEF IInv, RingInv
<1>2. bound \in Int
  BY DEF IInv, TypeOK
<1> HIDE DEF bound
<1>3. n \in Nat \ {0}
  BY <1>1, <1>2
<1> QED
  BY <1>1, <1>3 DEF Cyclic

(* The successor in the queue is the task next points to. *)
LEMMA SuccessorIsNext ==
  ASSUME IInv, NEW t \in Ring
  PROVE  Abstract!Successor(t) = next[t]
<1>1. Abstract!Position(t) = PositionIn(RingOrder, t)
  BY DEF Abstract!Position, PositionIn
<1> QED
  BY <1>1, RingIsCyclic, RingOrderIs, QueueFollows DEF Abstract!Successor

LEMMA CreateAddIsCreate ==
  ASSUME IInv, CreateAdd
  PROVE  Abstract!Create(new) /\ new \in Task
<1>1. current_task = Boot /\ BootAt = "add"
  BY SchedAssumption
  DEF IInv, TypeOK, CreateInv, CreateAdd, BootAt, At, Goto, Making
<1>2. /\ new \in Task /\ new \in heap /\ new # Boot /\ state[new] = "READY"
      /\ Boot \in Ring
  BY <1>1, RingIsClosed DEF IInv, TypeOK, StackInv, CreateInv, Made
<1>3. Ring' = Ring \cup {new} /\ new \notin Ring
  BY <1>2, SchedAssumption DEF CreateAdd, Ring
<1>4. Inserts(Ring, next, new, next')
  BY <1>2, <1>3, SchedAssumption
  DEF IInv, TypeOK, CreateAdd, ListAdd, head, Ring, Inserts
<1>5. /\ \A k \in 1..Len(RingOrder) : RingOrder[k] \in Ring
      /\ RingOrder' = InsertIn(RingOrder, new)
  BY <1>3, <1>4, RingIsCyclic, RingOrderIs, QueueInserts
<1>6. RingOrder' = Abstract!InsertAt(RingOrder, 2, new)
  BY <1>5, 2 - 1 = 1 DEF Abstract!InsertAt, InsertIn
<1>7. ~ Abstract!Contains(RingOrder, new)
  BY <1>3, <1>5 DEF Abstract!Contains
<1>8. Running = Boot /\ Running' = Boot
  BY <1>1, <1>2 DEF Running, Ring, CreateAdd
<1> QED
  BY <1>2, <1>6, <1>7, <1>8 DEF Abstract!Create

LEMMA TaskExitIsExit ==
  ASSUME IInv, TaskExit
  PROVE  Abstract!Exit
<1> DEFINE t == current_task
           i == PositionIn(RingOrder, t)
<1>1. t # Boot /\ t \in Task /\ state[t] # "DEAD" /\ t \in Ring
  BY DEF IInv, TypeOK, CpuInv, TaskExit, At, Ring, Made
<1>2. Ring' = Ring \ {t}
  BY <1>1 DEF IInv, TypeOK, TaskExit, Ring
<1>3. PICK p \in Ring : next[p] = t /\ p = Predecessor(t)
  BY <1>1, RingIsClosed DEF IInv, Predecessor
<1>4. Bypasses(Ring, next, t, p, next')
  BY <1>1, <1>3 DEF IInv, TypeOK, TaskExit, ListRemove, Ring, Bypasses, head
<1>5. /\ p # t
      /\ RingOrder' = RemoveFrom(RingOrder, i)
  <2> HIDE DEF t
  <2> QED
    BY <1>2, <1>4, RingIsCyclic, RingOrderIs, QueueRemoves
<1>6. RingOrder' = Abstract!RemoveAt(RingOrder, Abstract!Position(t))
  <2>1. i = Abstract!Position(t)
    BY DEF Abstract!Position, PositionIn
  <2> HIDE DEF i
  <2> QED
    BY <1>5, <2>1 DEF Abstract!RemoveAt, RemoveFrom
<1>7. Running = t /\ Running' = next[t]
  <2>1. next'[t] = next[t]
    BY <1>1, <1>4, <1>5 DEF Bypasses
  <2>2. current_task' = t /\ state'[t] = "DEAD"
    BY <1>1 DEF IInv, TypeOK, TaskExit
  <2> QED
    BY <1>1, <2>1, <2>2 DEF Running
<1>8. Abstract!Successor(t) = next[t]
  BY <1>1, SuccessorIsNext
<1> QED
  BY <1>1, <1>6, <1>7, <1>8 DEF Abstract!Exit

LEMMA SameListSameOrder ==
  Ring' = Ring /\ next' = next => RingOrder' = RingOrder
BY DEF RingOrder, Hop, head

LEMMA ScheduleMoves ==
  ASSUME IInv, Schedule
  PROVE  /\ current_task' = next[current_task] /\ Ring' = Ring
         /\ state'[next[current_task]] # "DEAD"
<1> DEFINE nxt == next[current_task]
<1>1. nxt \in Ring /\ nxt \in Task /\ current_task \in Task
  BY NextReadyIsLinked DEF IInv, TypeOK, Ring
<1>2. SwitchTo(nxt) /\ Reap
  BY NextReadyIsLinked DEF Schedule
<1>3. current_task' = nxt /\ state'[nxt] # "DEAD"
      /\ \A u \in Task : state'[u] = "DEAD" <=> state[u] = "DEAD"
  BY <1>1, <1>2 DEF SwitchTo, IInv, TypeOK, Ring
<1>4. \A u \in (heap \cap Task) \ heap' : state[u] = "DEAD"
  <2>1. zombie # NULL => /\ zombie \in Task /\ state[zombie] = "DEAD"
                         /\ stack_base[zombie] \notin Task
    BY SchedAssumption DEF IInv, TypeOK, ZombieInv, StackInv, Made
  <2> QED
    BY <1>2, <2>1 DEF Reap
<1>5. Ring' = Ring
  <2>1. heap' \subseteq heap /\ new' = new
    BY <1>2 DEF Reap, Schedule
  <2> QED
    BY <1>3, <1>4, <2>1 DEF Ring
<1> QED
  BY <1>3, <1>5

LEMMA ScheduleIsRotate ==
  ASSUME IInv, Schedule
  PROVE  Abstract!Rotate \/ UNCHANGED <<RingOrder, Running>>
<1> DEFINE t == current_task
           nxt == next[t]
<1>1. /\ current_task' = nxt /\ Ring' = Ring
      /\ state'[nxt] # "DEAD"
  BY ScheduleMoves
<1>2. RingOrder' = RingOrder
  BY <1>1, SameListSameOrder DEF Schedule
<1>3. Running' = nxt
  BY <1>1 DEF Running
<1>4. CASE state[t] = "DEAD"
  BY <1>2, <1>3, <1>4 DEF Running
<1>5. CASE state[t] # "DEAD"
  <2>1. t \in Ring /\ Running = t
    BY <1>5 DEF IInv, CpuInv, Made, Ring, Running
  <2>2. Abstract!Successor(t) = nxt
    BY <2>1, SuccessorIsNext
  <2> QED
    BY <1>2, <1>3, <2>1, <2>2 DEF Abstract!Rotate
<1> QED
  BY <1>4, <1>5

(* The other steps move no pointer, start no task and end none. *)
LEMMA OthersStay ==
  ASSUME IInv, [Next]_vars, ~ CreateAdd, ~ TaskExit, ~ Schedule
  PROVE  /\ Ring' = Ring /\ UNCHANGED <<current_task, next>>
         /\ state'[current_task] = state[current_task]
<1>1. CASE CreateStruct
  <2>1. PICK p \in Task \cup {NULL} : Kmalloc(Task, p) /\ new' = p
    BY <1>1 DEF CreateStruct
  <2>2. new = NULL
    BY <1>1, SchedAssumption
    DEF IInv, TypeOK, CreateInv, CreateStruct, BootAt, At, Goto, Making
  <2>3. heap' = heap \cup ({p} \ {NULL}) /\ p \notin heap
    BY <2>1, SchedAssumption DEF Kmalloc, IInv, TypeOK
  <2>4. Ring' = Ring
    BY <1>1, <2>1, <2>2, <2>3, SchedAssumption
    DEF CreateStruct, Ring, IInv, TypeOK
  <2> QED
    BY <1>1, <2>4 DEF CreateStruct
<1>2. CASE CreateStack
  <2>1. PICK p \in Stack \cup {NULL} : Kmalloc(Stack, p)
    BY <1>2 DEF CreateStack
  <2>2. heap' \cap Task = heap \cap Task
    BY <2>1, SchedAssumption DEF Kmalloc
  <2>3. Ring' = Ring
    BY <1>2, <2>2 DEF CreateStack, Ring
  <2> QED
    BY <1>2, <2>3 DEF CreateStack
<1>3. CASE CreateInit
  <2>1. current_task # new /\ current_task \in Task
    BY DEF IInv, CpuInv, Made
  <2>2. \A t \in Task \ {new} : state'[t] = state[t]
    BY <1>3 DEF CreateInit, IInv, TypeOK
  <2>3. Ring' = Ring
    BY <1>3, <2>2 DEF CreateInit, Ring
  <2> QED
    BY <1>3, <2>1, <2>2, <2>3 DEF CreateInit
<1>4. CASE ~ CreateStruct /\ ~ CreateStack /\ ~ CreateInit
  <2>1. UNCHANGED <<current_task, state, next, heap, new>>
    BY <1>4
    DEF Next, Create, CreateFault, Halted, Timer, TimerIrq, TimerEoi,
        TimerReturn, TaskYield, YieldReturn, Trampoline, vars
  <2> QED
    BY <2>1 DEF Ring
<1> QED
  BY <1>1, <1>2, <1>3, <1>4

LEMMA OthersStutter ==
  ASSUME IInv, [Next]_vars, ~ CreateAdd, ~ TaskExit, ~ Schedule
  PROVE  UNCHANGED <<RingOrder, Running>>
BY OthersStay, SameListSameOrder DEF Running

(* Whatever interrupts come, and whoever creates, yields or exits: the     *)
(* list, the zombie slot and the context switch behave as the circular     *)
(* queue that sched.h:16-20 promises.                                      *)
THEOREM SchedulerIsRoundRobin == Spec => ImplementsRoundRobin
<1>1. Init => Abstract!Init
  <2> SUFFICES ASSUME Init PROVE RingOrder = <<Boot>> /\ Running = Boot
    BY DEF Abstract!Init
  <2> USE SchedAssumption
  <2>1. Ring = {Boot} /\ Running = Boot
    BY DEF Init, Ring, Running
  <2> DEFINE f == [i \in 0..(1 - 1) |-> Boot]
  <2>2. f \in [0..(1 - 1) -> Ring] /\ IsCycle(Ring, next, 1, f)
    BY <2>1 DEF Init, IsCycle, head
  <2>3. OrderOf(f, 1) = <<Boot>>
    BY DEF OrderOf
  <2> HIDE DEF f
  <2>4. RingOrder = OrderOf(f, 1)
    BY <2>2, 1 \in Nat \ {0}, RingOrderIs, OrderIs DEF QueueOf
  <2> QED
    BY <2>1, <2>3, <2>4
<1>2. IInv /\ [Next]_vars => [Abstract!Next]_<<RingOrder, Running>>
  <2> SUFFICES ASSUME IInv, [Next]_vars
               PROVE  Abstract!Next \/ UNCHANGED <<RingOrder, Running>>
    OBVIOUS
  <2>1. CASE CreateAdd
    BY <2>1, CreateAddIsCreate DEF Abstract!Next
  <2>2. CASE TaskExit
    BY <2>2, TaskExitIsExit DEF Abstract!Next
  <2>3. CASE Schedule
    BY <2>3, ScheduleIsRotate DEF Abstract!Next
  <2> QED
    BY <2>1, <2>2, <2>3, OthersStutter
<1> QED
  BY <1>1, <1>2, Invariance, PTL
  DEF Spec, ImplementsRoundRobin, Abstract!Spec, Abstract!vars

-----------------------------------------------------------------------------
(***************************************************************************)
(* The threads command.  The lines that are owed are counted as a set of   *)
(* pairs, so that writing one takes one element out.                       *)
(***************************************************************************)
LEMMA LiveIs ==
  ASSUME IInv
  PROVE  Live = (Ring \ {Boot}) \cup (IF BootAt = "add" THEN {new} ELSE {})
<1>1. BootAt = "add" => /\ new \in heap \cap Task /\ new # Boot
                        /\ state[new] = "READY"
  BY DEF IInv, TypeOK, CreateInv, StackInv, Made
<1> QED
  BY <1>1 DEF Live, Ring

LEMMA LiveIsFinite == IInv => IsFiniteSet(Live)
<1> SUFFICES ASSUME IInv PROVE IsFiniteSet(Live)
  OBVIOUS
<1>1. PICK n \in Nat \ {0} : Cycle(Ring, next, n)
  BY RingIsCyclic DEF Cyclic
<1>2. PICK f \in [0..(n - 1) -> Ring] : IsCycle(Ring, next, n, f)
  BY <1>1 DEF Cycle
<1>3. IsFiniteSet(Ring)
  BY <1>2, CycleLength
<1>4. Live \subseteq Ring \cup {new}
  BY LiveIs
<1>5. IsFiniteSet(Ring \cup {new})
  BY <1>3, FS_AddElement
<1> QED
  BY <1>4, <1>5, FS_Subset

LEMMA OwedIsFinite == IInv => IsFiniteSet(Owed) /\ Cardinality(Owed) \in Nat
<1> SUFFICES ASSUME IInv PROVE IsFiniteSet(Owed)
  BY FS_CardinalityType
<1>1. 1 \in Int /\ Rounds \in Int
  BY ThreadsAssumption
<1>2. IsFiniteSet(1..Rounds)
  BY <1>1, FS_Interval
<1>3. IsFiniteSet(Live \X (1..Rounds))
  BY <1>2, LiveIsFinite, FS_Product
<1> QED
  BY <1>3, FS_Subset DEF Owed

(* The CPU's own steps are steps of Sched. *)
LEMMA ThreadsStepsSched == [TNext]_all => [Next]_vars
BY DEF TNext, all, own, Command, Begin, MakeWorker, LinkWorker, WaitTest,
       OtherIrq, Tick, Scheduler, OwnCode, SleepTest, Write, Return, Next,
       Create, Timer, Kernel

LEMMA ThreadsInitially == TInit => ThreadsInv
<1> SUFFICES ASSUME TInit PROVE ThreadsInv
  OBVIOUS
<1> USE SchedAssumption, ThreadsAssumption
<1>1. IInv
  BY InitInv DEF TInit
<1>2. Live = {} /\ BootAt = "body" /\ next_tid = 1
  BY DEF TInit, Init, Live, BootAt
<1>3. Owed = {} /\ Cardinality(Owed) = 0
  BY <1>2, FS_EmptySet DEF Owed
<1>4. EveryLineIsOwed
  BY <1>2, <1>3 DEF TInit, EveryLineIsOwed
<1>5. CommandInv /\ WorkerInv
  BY <1>2 DEF TInit, CommandInv, WorkerInv
<1>6. at \in [Task -> OwnPlace] /\ loops \in [Task -> Nat] /\ lines \in Nat
  BY DEF TInit, OwnPlace
<1> QED
  BY <1>1, <1>2, <1>4, <1>5, <1>6 DEF ThreadsInv

(* A step that leaves the ring alone and task_create where it is.          *)
Quiet == /\ Ring' = Ring /\ next_tid' = next_tid
         /\ BootAt = "add" => new' = new
         /\ BootAt' = "add" <=> BootAt = "add"
         /\ BootAt' \in Making => BootAt \in Making \/ at[Boot] = "create"

LEMMA QuietKeepsLive ==
  ASSUME IInv, IInv', Quiet PROVE Live' = Live
<1>1. Live = (Ring \ {Boot}) \cup (IF BootAt = "add" THEN {new} ELSE {})
  BY LiveIs
<1>2. (Live = (Ring \ {Boot}) \cup (IF BootAt = "add" THEN {new} ELSE {}))'
  BY LiveIs, PTL
<1> QED
  BY <1>1, <1>2 DEF Quiet

LEMMA SameDebt ==
  ASSUME ThreadsInv, Live' = Live, \A t \in Live : Owes(t)' = Owes(t),
         lines' = lines, next_tid' = next_tid
  PROVE  EveryLineIsOwed'
<1>1. Owed' = Owed
  BY DEF Owed
<1> QED
  BY <1>1 DEF ThreadsInv, EveryLineIsOwed

LEMMA KernelIsQuiet ==
  ASSUME IInv, TimerIrq \/ Kernel PROVE Quiet
<1>1. Ring' = Ring
  BY OthersStay, ScheduleMoves
  DEF Kernel, Next, Timer, TimerEoi, TimerReturn, YieldReturn, Trampoline,
      TimerIrq, Schedule, CreateAdd, TaskExit, At, Caller
<1>2. UNCHANGED <<next_tid, new>>
  BY DEF Kernel, TimerEoi, TimerReturn, YieldReturn, Trampoline, TimerIrq,
         Schedule
<1>3. (BootAt' \in Making <=> BootAt \in Making)
      /\ (BootAt \in Making => BootAt' = BootAt)
  <2>1. CASE current_task # Boot
    BY <2>1, SchedAssumption
    DEF Kernel, TimerEoi, TimerReturn, YieldReturn, Trampoline, TimerIrq,
        Schedule, IInv, TypeOK, Goto, BootAt
  <2>2. CASE current_task = Boot /\ TimerIrq
    BY <2>2, SchedAssumption
    DEF TimerIrq, IInv, TypeOK, IntInv, InterruptDiscipline, At, Goto, BootAt,
        OpenLabel
  <2>3. CASE current_task = Boot /\ (TimerEoi \/ TimerReturn \/ YieldReturn)
    BY <2>3, SchedAssumption
    DEF TimerEoi, TimerReturn, YieldReturn, IInv, TypeOK, At, Goto, BootAt,
        OpenLabel
  <2>4. CASE current_task = Boot /\ Trampoline
    BY <2>4, SchedAssumption
    DEF Trampoline, IInv, TypeOK, At, Goto, BootAt, Making
  <2>5. CASE current_task = Boot /\ Schedule
    <3>1. pc[Boot] # "exit"
      BY <2>5, RingIsClosed DEF IInv, CpuInv, At, Ring
    <3> QED
      BY <2>5, <3>1, SchedAssumption
      DEF IInv, TypeOK, Schedule, Goto, BootAt, ReturnOf, Caller
  <2> QED
    BY <2>1, <2>2, <2>3, <2>4, <2>5 DEF Kernel
<1> QED
  BY <1>1, <1>2, <1>3 DEF Quiet, Making

(***************************************************************************)
(* Steps of the kernel, and of task_create before the worker is made.      *)
(***************************************************************************)
LEMMA QuietKeeps ==
  ASSUME ThreadsInv, IInv', Quiet, UNCHANGED own
  PROVE  ThreadsInv'
<1> USE DEF own
<1>1. Live' = Live
  BY QuietKeepsLive DEF ThreadsInv
<1>2. \A t \in Live : Owes(t)' = Owes(t)
  BY DEF Owes
<1>3. EveryLineIsOwed'
  BY <1>1, <1>2, SameDebt DEF Quiet
<1>4. WorkerInv'
  BY <1>1 DEF ThreadsInv, WorkerInv
<1>5. CommandInv'
  BY DEF ThreadsInv, CommandInv, Quiet
<1> QED
  BY <1>3, <1>4, <1>5 DEF ThreadsInv, Quiet

LEMMA CreateIsQuiet ==
  ASSUME ThreadsInv, Begin \/ CreateStack \/ CreateFault
  PROVE  Quiet
<1>1. Ring' = Ring
  BY OthersStay
  DEF ThreadsInv, Next, Create, Begin, CreateStruct, CreateStack, CreateFault,
      CreateAdd, TaskExit, Schedule, At, Caller
<1>2. next_tid' = next_tid
  BY DEF Begin, CreateStruct, CreateStack, CreateFault
<1>3. BootAt # "add" /\ BootAt' # "add"
      /\ (BootAt \in Making \/ at[Boot] = "create")
  BY SchedAssumption
  DEF ThreadsInv, IInv, TypeOK, CreateInv, Begin, CreateStruct, CreateStack,
      CreateFault, At, Goto, BootAt, Making
<1> QED
  BY <1>1, <1>2, <1>3 DEF Quiet

(***************************************************************************)
(* Steps of the tasks' own code.                                           *)
(***************************************************************************)
LEMMA NothingMoves ==
  UNCHANGED vars => Quiet /\ Ring' = Ring /\ Live' = Live /\ BootAt' = BootAt
BY DEF vars, Quiet, Ring, Live, BootAt

(* An interrupt that ends a hlt changes nothing that is owed. *)
LEMMA WakingKeeps ==
  ASSUME ThreadsInv, IInv', Quiet, at' = Woken, UNCHANGED <<loops, lines>>
  PROVE  ThreadsInv'
<1>1. Live' = Live
  BY QuietKeepsLive DEF ThreadsInv
<1>2. /\ at' \in [Task -> OwnPlace]
      /\ \A t \in Task : \/ at'[t] = at[t]
                         \/ at[t] = "hlt" /\ at'[t] = "while"
  BY DEF ThreadsInv, Woken, OwnPlace
<1>3. \A t \in Live : t \in Task
  BY DEF Live
<1>4. \A t \in Live : Owes(t)' = Owes(t)
  BY <1>2, <1>3 DEF Owes
<1>5. EveryLineIsOwed'
  BY <1>1, <1>4, SameDebt DEF Quiet
<1>6. WorkerInv'
  BY <1>1, <1>2, <1>3 DEF ThreadsInv, WorkerInv
<1>7. CommandInv'
  BY <1>2, SchedAssumption DEF ThreadsInv, CommandInv, Quiet
<1> QED
  BY <1>2, <1>5, <1>6, <1>7 DEF ThreadsInv, Quiet

(* The end of a loop body takes the worker to its next line, or out. *)
LEMMA SleepTestKeeps ==
  ASSUME ThreadsInv, IInv', NEW t \in Task, SleepTest(t)
  PROVE  ThreadsInv'
<1>1. /\ UNCHANGED <<vars, lines>> /\ t = current_task /\ at[t] = "while"
  BY DEF SleepTest, Here
<1>2. Quiet /\ Ring' = Ring /\ Live' = Live /\ BootAt' = BootAt
      /\ next_tid' = next_tid
  BY <1>1, NothingMoves DEF vars
<1>3. t \in Live \/ t = Boot
  BY <1>1 DEF SleepTest, Here, ThreadsInv, IInv, TypeOK, CpuInv, At, Made, Live
<1>4. loops[t] \in Nat /\ loops[t] > 0
  BY <1>1, <1>3 DEF ThreadsInv, CommandInv, WorkerInv
<1>5. \/ /\ at' = [at EXCEPT ![t] = "hlt"]
         /\ loops' = loops
      \/ /\ at' = [at EXCEPT ![t] = AfterSleep(t)]
         /\ loops' = [loops EXCEPT ![t] = @ - 1]
  BY DEF SleepTest
<1>6. AfterSleep(t) = IF t = Boot THEN "test"
                      ELSE IF loops[t] > 1 THEN "write" ELSE "return"
  BY <1>4 DEF AfterSleep
<1>7. /\ at' \in [Task -> OwnPlace] /\ loops' \in [Task -> Nat]
      /\ \A u \in Task \ {t} : at'[u] = at[u] /\ loops'[u] = loops[u]
      /\ \/ at'[t] = "hlt" /\ loops'[t] = loops[t]
         \/ /\ loops'[t] = loops[t] - 1
            /\ at'[t] = IF t = Boot THEN "test"
                        ELSE IF loops[t] > 1 THEN "write" ELSE "return"
  BY <1>4, <1>5, <1>6 DEF ThreadsInv, OwnPlace
<1>8. \A u \in Live : u \in Task /\ u # Boot
  BY DEF Live
<1>9. \A u \in Live : Owes(u)' = Owes(u)
  BY <1>1, <1>4, <1>7, <1>8 DEF Owes
<1>10. EveryLineIsOwed'
  BY <1>1, <1>2, <1>9, SameDebt
<1>11. WorkerInv'
  <2> SUFFICES ASSUME NEW u \in Live
               PROVE  /\ at'[u] \in {"write", "while", "hlt", "return"}
                      /\ loops'[u] <= Rounds
                      /\ at'[u] # "return" => loops'[u] > 0
    BY <1>2 DEF WorkerInv
  <2>1. u \in Task /\ u # Boot /\ loops[u] \in Nat /\ Rounds \in Nat
        /\ loops[u] <= Rounds
    BY <1>8, ThreadsAssumption DEF ThreadsInv, WorkerInv
  <2>2. CASE u = t
    BY <1>1, <1>4, <1>7, <2>1, <2>2
  <2>3. CASE u # t
    BY <1>7, <2>1, <2>3 DEF ThreadsInv, WorkerInv
  <2> QED
    BY <2>2, <2>3
<1>12. CommandInv'
  BY <1>1, <1>2, <1>4, <1>7, SchedAssumption DEF ThreadsInv, CommandInv
<1> QED
  BY <1>1, <1>2, <1>7, <1>10, <1>11, <1>12 DEF ThreadsInv

(* The command stops waiting when the boot task is alone in the list. *)
LEMMA WaitTestKeeps ==
  ASSUME ThreadsInv, IInv', WaitTest
  PROVE  ThreadsInv'
<1>1. UNCHANGED <<vars, loops, lines>> /\ at[Boot] = "test" /\ Boot \in Task
  BY SchedAssumption DEF WaitTest, Here
<1>2. Quiet /\ Ring' = Ring /\ Live' = Live /\ BootAt' = BootAt
      /\ next_tid' = next_tid
  BY <1>1, NothingMoves DEF vars
<1>3. \/ loops[Boot] > 0 /\ at' = [at EXCEPT ![Boot] = "while"]
      \/ /\ ~ (loops[Boot] > 0 /\ Cardinality(Ring) > 1)
         /\ at' = [at EXCEPT ![Boot] = "done"]
  BY DEF WaitTest, Sleep, sched_task_count
<1>4. /\ at' \in [Task -> OwnPlace]
      /\ \A u \in Task \ {Boot} : at'[u] = at[u]
      /\ \/ loops[Boot] > 0 /\ at'[Boot] = "while"
         \/ ~ (loops[Boot] > 0 /\ Cardinality(Ring) > 1) /\ at'[Boot] = "done"
  BY <1>1, <1>3 DEF ThreadsInv, OwnPlace
<1>5. ~ (Cardinality(Ring) > 1) => Ring = {Boot}
  <2>1. Boot \in Ring /\ IsFiniteSet(Ring)
    <3>1. PICK n \in Nat \ {0} : Cycle(Ring, next, n)
      BY RingIsCyclic DEF Cyclic, ThreadsInv
    <3>2. PICK f \in [0..(n - 1) -> Ring] : IsCycle(Ring, next, n, f)
      BY <3>1 DEF Cycle
    <3> QED
      BY <3>2, CycleLength, RingIsClosed DEF ThreadsInv, IInv
  <2>2. /\ IsFiniteSet(Ring \ {Boot}) /\ Cardinality(Ring) \in Nat
        /\ Cardinality(Ring \ {Boot}) = Cardinality(Ring) - 1
        /\ Cardinality(Ring \ {Boot}) \in Nat
    BY <2>1, FS_RemoveElement, FS_CardinalityType
  <2>3. ~ (Cardinality(Ring) > 1) => Ring \ {Boot} = {}
    BY <2>2, FS_EmptySet
  <2> QED
    BY <2>1, <2>3
<1>6. \A u \in Live : u \in Task /\ u # Boot
  BY DEF Live
<1>7. \A u \in Live : Owes(u)' = Owes(u)
  BY <1>1, <1>4, <1>6 DEF Owes
<1>8. EveryLineIsOwed'
  BY <1>1, <1>2, <1>7, SameDebt
<1>9. WorkerInv'
  BY <1>1, <1>2, <1>4, <1>6 DEF ThreadsInv, WorkerInv
<1>10. CommandInv'
  BY <1>1, <1>2, <1>4, <1>5 DEF ThreadsInv, CommandInv
<1> QED
  BY <1>1, <1>2, <1>4, <1>8, <1>9, <1>10 DEF ThreadsInv

(* A line that is written is owed no more. *)
LEMMA WriteKeeps ==
  ASSUME ThreadsInv, IInv', NEW t \in Task, Write(t)
  PROVE  ThreadsInv'
<1>1. /\ UNCHANGED <<vars, loops>> /\ t = current_task /\ at[t] = "write"
      /\ lines' = lines + 1 /\ at' = [at EXCEPT ![t] = "while"]
  BY DEF Write, Here, Sleep
<1>2. Quiet /\ Ring' = Ring /\ Live' = Live /\ BootAt' = BootAt
      /\ next_tid' = next_tid
  BY <1>1, NothingMoves DEF vars
<1>3. t \in Live
  BY <1>1
  DEF Write, Here, ThreadsInv, IInv, TypeOK, CpuInv, At, Made, Live, CommandInv
<1>4. loops[t] \in 1..Rounds
  BY <1>1, <1>3, ThreadsAssumption DEF ThreadsInv, WorkerInv
<1>5. /\ at' \in [Task -> OwnPlace] /\ at'[t] = "while"
      /\ \A u \in Task \ {t} : at'[u] = at[u]
  BY <1>1 DEF ThreadsInv, OwnPlace
<1>6. \A u \in Live : u \in Task /\ u # Boot
  BY DEF Live
<1>7. /\ \A u \in Live \ {t} : Owes(u)' = Owes(u)
      /\ Owes(t) = loops[t] /\ Owes(t)' = loops[t] - 1
  BY <1>1, <1>5, <1>6 DEF Owes
<1> DEFINE l == <<t, loops[t]>>
<1>8. l \in Owed /\ Owed' = Owed \ {l}
  <2>1. l \in Owed
    BY <1>3, <1>4, <1>7 DEF Owed
  <2>2. \A m \in Live \X (1..Rounds) :
          m[2] <= Owes(m[1])' <=> m[2] <= Owes(m[1]) /\ m # l
    <3> TAKE m \in Live \X (1..Rounds)
    <3>1. m[1] \in Live /\ m[2] \in 1..Rounds /\ m = <<m[1], m[2]>>
      OBVIOUS
    <3>2. CASE m[1] = t
      BY <1>4, <1>7, <3>1, <3>2
    <3>3. CASE m[1] # t
      BY <1>7, <3>1, <3>3
    <3> QED
      BY <3>2, <3>3
  <2>3. Owed' = {m \in Live \X (1..Rounds) : m[2] <= Owes(m[1])'}
    BY <1>2 DEF Owed
  <2> HIDE DEF l
  <2> QED
    BY <2>1, <2>2, <2>3 DEF Owed
<1>9. Cardinality(Owed') = Cardinality(Owed) - 1 /\ Cardinality(Owed) \in Nat
  <2> HIDE DEF l
  <2> QED
    BY <1>8, OwedIsFinite, FS_RemoveElement DEF ThreadsInv
<1>10. EveryLineIsOwed'
  <2>1. next_tid \in Nat /\ (Workers + 1 - next_tid) * Rounds \in Int
    BY ThreadsAssumption DEF ThreadsInv, IInv, TypeOK
  <2> QED
    BY <1>1, <1>2, <1>9, <2>1 DEF ThreadsInv, EveryLineIsOwed
<1>11. WorkerInv'
  BY <1>1, <1>2, <1>5, <1>6 DEF ThreadsInv, WorkerInv
<1>12. CommandInv'
  BY <1>1, <1>2, <1>3, <1>5, <1>6, SchedAssumption DEF ThreadsInv, CommandInv
<1> QED
  BY <1>1, <1>2, <1>5, <1>10, <1>11, <1>12 DEF ThreadsInv

(***************************************************************************)
(* A worker is made, linked, and returns.                                  *)
(***************************************************************************)
LEMMA MakeWorkerKeeps ==
  ASSUME ThreadsInv, IInv', MakeWorker
  PROVE  ThreadsInv'
<1>1. current_task = Boot /\ BootAt = "init" /\ BootAt' = "add" /\ new # Boot
      /\ at[Boot] = "create" /\ next_tid <= Workers
  BY SchedAssumption
  DEF ThreadsInv, IInv, TypeOK, CreateInv, StackInv, CommandInv, MakeWorker,
      CreateInit, BootAt, At, Making, Made
<1>2. /\ new \in Task /\ next_tid' = next_tid + 1 /\ new' = new
      /\ at' = [at EXCEPT ![new] = "write"]
      /\ loops' = [loops EXCEPT ![new] = Rounds] /\ lines' = lines
  BY DEF MakeWorker, CreateInit, ThreadsInv, IInv, TypeOK
<1>3. Ring' = Ring
  BY OthersStay
  DEF ThreadsInv, Next, Create, MakeWorker, CreateInit, CreateAdd, TaskExit,
      Schedule, At, Caller
<1>4. Live' = Live \cup {new} /\ new \notin Live
  <2>1. Live = (Ring \ {Boot}) \cup (IF BootAt = "add" THEN {new} ELSE {})
    BY LiveIs DEF ThreadsInv
  <2>2. (Live = (Ring \ {Boot}) \cup (IF BootAt = "add" THEN {new} ELSE {}))'
    BY LiveIs, PTL
  <2> QED
    BY <1>1, <1>2, <1>3, <2>1, <2>2 DEF Live
<1>5. /\ at' \in [Task -> OwnPlace] /\ loops' \in [Task -> Nat]
      /\ at'[new] = "write" /\ loops'[new] = Rounds
      /\ \A u \in Task \ {new} : at'[u] = at[u] /\ loops'[u] = loops[u]
  BY <1>2, ThreadsAssumption DEF ThreadsInv, OwnPlace
<1>6. \A u \in Live : u \in Task /\ u # Boot
  BY DEF Live
<1>7. (\A u \in Live : Owes(u)' = Owes(u)) /\ Owes(new)' = Rounds
  <2>1. \A u \in Live : at'[u] = at[u] /\ loops'[u] = loops[u]
    BY <1>4, <1>5, <1>6
  <2>2. \A u \in Live : Owes(u)' = Owes(u)
    BY <2>1 DEF Owes
  <2>3. new' = new /\ at'[new] = "write" /\ loops'[new] = Rounds
    BY <1>2, <1>5
  <2>4. Owes(new)' = Rounds
    BY <2>3 DEF Owes
  <2> QED
    BY <2>2, <2>4
<1> DEFINE More == {new} \X (1..Rounds)
<1>8. Owed' = Owed \cup More /\ Owed \cap More = {}
  <2>1. Owed \cap More = {}
    BY <1>4 DEF Owed
  <2>2. \A m \in (Live \cup {new}) \X (1..Rounds) :
          m[2] <= Owes(m[1])' <=> m \in Owed \/ m \in More
    <3> TAKE m \in (Live \cup {new}) \X (1..Rounds)
    <3>1. m[1] \in Live \cup {new} /\ m[2] \in 1..Rounds /\ m = <<m[1], m[2]>>
      OBVIOUS
    <3>2. CASE m[1] = new
      <4>1. Owes(m[1])' = Rounds
        BY <1>2, <1>7, <3>2 DEF Owes
      <4>2. m[2] <= Rounds /\ m \in More
        BY <3>1, <3>2, ThreadsAssumption
      <4> QED
        BY <4>1, <4>2
    <3>3. CASE m[1] # new
      BY <1>7, <3>1, <3>3 DEF Owed
    <3> QED
      BY <3>2, <3>3
  <2>3. Owed' = {m \in (Live \cup {new}) \X (1..Rounds) : m[2] <= Owes(m[1])'}
    BY <1>4 DEF Owed
  <2>4. Owed \subseteq (Live \cup {new}) \X (1..Rounds)
        /\ More \subseteq (Live \cup {new}) \X (1..Rounds)
    BY DEF Owed
  <2> HIDE DEF More
  <2> QED
    BY <2>1, <2>2, <2>3, <2>4
<1>9. IsFiniteSet(More) /\ Cardinality(More) = Rounds
  <2>1. 1 \in Int /\ Rounds \in Int /\ Rounds >= 1
    BY ThreadsAssumption
  <2>2. IsFiniteSet(1..Rounds) /\ Cardinality(1..Rounds) = Rounds
    BY <2>1, FS_Interval
  <2>3. IsFiniteSet({new}) /\ Cardinality({new}) = 1
    BY FS_Singleton
  <2>4. IsFiniteSet(More) /\ Cardinality(More) = 1 * Cardinality(1..Rounds)
    BY <2>2, <2>3, FS_Product
  <2> QED
    BY <2>1, <2>2, <2>4
<1>10. Cardinality(Owed') = Cardinality(Owed) + Rounds /\ Cardinality(Owed) \in Nat
  <2> HIDE DEF More
  <2>1. IsFiniteSet(Owed) /\ Cardinality(Owed) \in Nat
    BY OwedIsFinite DEF ThreadsInv
  <2> QED
    BY <1>8, <1>9, <2>1, ThreadsAssumption, FS_Union, FS_EmptySet
<1>11. EveryLineIsOwed'
  <2>1. next_tid \in Nat /\ Workers \in Nat /\ Rounds \in Nat /\ lines \in Nat
    BY ThreadsAssumption DEF ThreadsInv, IInv, TypeOK
  <2>2. (Workers + 1 - (next_tid + 1)) * Rounds + Rounds =
          (Workers + 1 - next_tid) * Rounds
    BY <2>1
  <2>3. (Workers + 1 - (next_tid + 1)) * Rounds \in Int
    BY <2>1
  <2> QED
    BY <1>2, <1>10, <2>1, <2>2, <2>3 DEF ThreadsInv, EveryLineIsOwed
<1>12. WorkerInv'
  BY <1>4, <1>5, <1>6, ThreadsAssumption DEF ThreadsInv, WorkerInv
<1>13. CommandInv'
  BY <1>1, <1>3, <1>5, SchedAssumption DEF ThreadsInv, CommandInv
<1>14. next_tid' <= Workers + 1
  BY <1>1, <1>2, ThreadsAssumption DEF ThreadsInv, IInv, TypeOK
<1> QED
  BY <1>2, <1>5, <1>11, <1>12, <1>13, <1>14 DEF ThreadsInv

LEMMA LinkWorkerKeeps ==
  ASSUME ThreadsInv, IInv', LinkWorker
  PROVE  ThreadsInv'
<1>1. BootAt = "add" /\ BootAt' = "body" /\ Boot \in Task
  BY SchedAssumption
  DEF ThreadsInv, IInv, TypeOK, CreateInv, LinkWorker, CreateAdd, BootAt, At,
      Goto, Making
<1>2. /\ at' = [at EXCEPT ![Boot] = IF next_tid > Workers THEN "test" ELSE @]
      /\ UNCHANGED <<loops, lines, next_tid>>
  BY DEF LinkWorker, CreateAdd
<1>3. at[Boot] = "create"
  BY <1>1 DEF ThreadsInv, CommandInv, Making
<1>4. Live' = Live
  <2>1. new # NULL /\ new' = NULL /\ UNCHANGED <<heap, state>>
    BY <1>1 DEF LinkWorker, CreateAdd, ThreadsInv, IInv, CreateInv
  <2> QED
    BY <1>1, <2>1, SchedAssumption DEF Live
<1>5. /\ at' \in [Task -> OwnPlace]
      /\ \A u \in Task \ {Boot} : at'[u] = at[u]
      /\ at'[Boot] = IF next_tid > Workers THEN "test" ELSE "create"
  BY <1>1, <1>2, <1>3 DEF ThreadsInv, OwnPlace
<1>6. \A u \in Live : u \in Task /\ u # Boot
  BY DEF Live
<1>7. \A u \in Live : Owes(u)' = Owes(u)
  BY <1>2, <1>5, <1>6 DEF Owes
<1>8. EveryLineIsOwed'
  BY <1>2, <1>4, <1>7, SameDebt
<1>9. WorkerInv'
  BY <1>2, <1>4, <1>5, <1>6 DEF ThreadsInv, WorkerInv
<1>10. CommandInv'
  <2>1. next_tid \in Nat /\ Workers \in Nat /\ next_tid <= Workers + 1
    BY ThreadsAssumption DEF ThreadsInv, IInv, TypeOK
  <2>2. IF next_tid > Workers THEN next_tid = Workers + 1 ELSE next_tid <= Workers
    BY <2>1
  <2>3. \/ at'[Boot] = "test" /\ next_tid > Workers
        \/ at'[Boot] = "create" /\ ~ (next_tid > Workers)
    BY <1>5
  <2>4. "body" \notin Making
    BY DEF Making
  <2> QED
    BY <1>1, <1>2, <2>2, <2>3, <2>4 DEF CommandInv
<1> QED
  BY <1>2, <1>5, <1>8, <1>9, <1>10 DEF ThreadsInv

(* A worker that returns owes nothing. *)
LEMMA ReturnKeeps ==
  ASSUME ThreadsInv, IInv', NEW t \in Task, Return(t)
  PROVE  ThreadsInv'
<1>1. t = current_task /\ at[t] = "return" /\ TaskExit /\ UNCHANGED own
      /\ next_tid' = next_tid
  BY DEF Return, Here, TaskExit
<1>2. t # Boot /\ BootAt' = BootAt /\ new' = new /\ heap' = heap
  BY <1>1, SchedAssumption
  DEF TaskExit, ThreadsInv, IInv, TypeOK, Goto, BootAt
<1>3. t \in Made /\ \A u \in Task : state'[u] = IF u = t THEN "DEAD" ELSE state[u]
  BY <1>1 DEF TaskExit, ThreadsInv, IInv, TypeOK, CpuInv
<1>4. Live' = Live \ {t} /\ Ring' = Ring \ {t}
  BY <1>2, <1>3 DEF Live, Ring
<1>5. Owed' = Owed
  <2>1. \A m \in Live \X (1..Rounds) : Owes(m[1])' = Owes(m[1])
    BY <1>1 DEF Owes, own
  <2>2. Owes(t) = 0
    BY <1>1 DEF Owes
  <2>3. \A m \in Owed : m[1] # t
    BY <2>2 DEF Owed
  <2> QED
    BY <1>4, <2>1, <2>3 DEF Owed
<1>6. EveryLineIsOwed'
  BY <1>1, <1>5 DEF ThreadsInv, EveryLineIsOwed, own
<1>7. WorkerInv'
  BY <1>1, <1>4 DEF ThreadsInv, WorkerInv, own
<1>8. CommandInv'
  BY <1>1, <1>2, <1>4 DEF ThreadsInv, CommandInv, own
<1> QED
  BY <1>1, <1>6, <1>7, <1>8 DEF ThreadsInv, own

LEMMA ThreadsKeeps == ThreadsInv /\ [TNext]_all => ThreadsInv'
<1> SUFFICES ASSUME ThreadsInv, [TNext]_all PROVE ThreadsInv'
  OBVIOUS
<1>1. IInv'
  BY ThreadsStepsSched, NextKeeps DEF ThreadsInv
<1>2. CASE Begin \/ ((CreateStack \/ CreateFault) /\ UNCHANGED own)
  BY <1>1, <1>2, CreateIsQuiet, QuietKeeps DEF Begin
<1>3. CASE MakeWorker \/ LinkWorker \/ WaitTest
  BY <1>1, <1>3, MakeWorkerKeeps, LinkWorkerKeeps, WaitTestKeeps
<1>4. CASE OtherIrq
  BY <1>1, <1>4, NothingMoves, WakingKeeps DEF OtherIrq
<1>5. CASE Tick
  BY <1>1, <1>5, KernelIsQuiet, WakingKeeps DEF Tick, ThreadsInv
<1>6. CASE Scheduler
  BY <1>1, <1>6, KernelIsQuiet, QuietKeeps DEF Scheduler, ThreadsInv
<1>7. CASE (Halted /\ UNCHANGED own) \/ UNCHANGED all
  BY <1>1, <1>7, NothingMoves, QuietKeeps DEF Halted, all
<1>8. CASE \E t \in Task : OwnCode(t)
  BY <1>1, <1>8, SleepTestKeeps, WriteKeeps, ReturnKeeps DEF OwnCode
<1> QED
  BY <1>2, <1>3, <1>4, <1>5, <1>6, <1>7, <1>8 DEF TNext, Command

(* kernel.c:172: "all tasks exited" is written after the last line of the  *)
(* last worker, for any number of workers and lines, with every placement  *)
(* of the ticks, unless the command gave up waiting.                       *)
THEOREM ThreadsReport == TSpec => []ReportsAfterTheLastLine
<1>1. ThreadsInv => ReportsAfterTheLastLine
  <2> SUFFICES ASSUME ThreadsInv, at[Boot] = "done", loops[Boot] > 0
               PROVE  lines = Workers * Rounds
    BY DEF ReportsAfterTheLastLine
  <2>1. Ring = {Boot} /\ next_tid = Workers + 1 /\ BootAt # "add"
    BY DEF ThreadsInv, CommandInv, Making
  <2>2. Live = {}
    BY <2>1, LiveIs DEF ThreadsInv
  <2>3. Owed = {} /\ Cardinality(Owed) = 0
    BY <2>2, FS_EmptySet DEF Owed
  <2>4. (Workers + 1 - next_tid) * Rounds = 0
    BY <2>1, ThreadsAssumption
  <2> QED
    BY <2>3, <2>4 DEF ThreadsInv, EveryLineIsOwed
<1> QED
  BY <1>1, ThreadsInitially, ThreadsKeeps, PTL DEF TSpec
=============================================================================
