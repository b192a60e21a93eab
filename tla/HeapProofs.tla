----------------------------- MODULE HeapProofs -----------------------------
(***************************************************************************)
(* heap.c keeps its block list sound and gives every caller a region of    *)
(* its own: for every page size, header size, request and number of tasks. *)
(* The functions of string.c do what they promise for every memory, and    *)
(* krealloc's copy moves what the caller had stored.                       *)
(***************************************************************************)
EXTENDS Heap, FiniteSetTheorems, TLAPS

(***************************************************************************)
(* Functions that are defined by recursion: a walk along the links of a    *)
(* list, and the iteration of a step.  The induction theorems of the       *)
(* library take an operator as their parameter, which the provers cannot   *)
(* instantiate; here induction is over a set of naturals instead.          *)
(***************************************************************************)
(***************************************************************************)
(* Induction, as a set of naturals that is not empty has a least element.  *)
(***************************************************************************)
LEMMA LeastElement ==
  ASSUME NEW T, T \subseteq Nat, T # {}
  PROVE  \E x \in T : \A y \in T : x <= y
<1> DEFINE R == OpToRel(<, Nat)
<1>1. IsWellFoundedOn(R, Nat)
  BY NatLessThanWellFounded
<1>2. \A x, y \in Nat : x < y => <<x, y>> \in R
  BY DEF OpToRel
<1> HIDE DEF R
<1>3. PICK x \in T : \A y \in T : ~ (<<y, x>> \in R)
  BY <1>1, WFMin
<1>4. \A y \in T : ~ (y < x)
  BY <1>2, <1>3
<1> QED
  BY <1>4

LEMMA Induction ==
  ASSUME NEW Q, 0 \in Q, \A k \in Nat : k \in Q => k + 1 \in Q
  PROVE  \A k \in Nat : k \in Q
<1> DEFINE T == {k \in Nat : k \notin Q}
<1>1. ASSUME NEW k \in T, \A j \in T : k <= j PROVE FALSE
  <2>1. k \in Nat /\ k # 0 /\ k \notin Q
    OBVIOUS
  <2>2. k - 1 \in Nat /\ (k - 1) + 1 = k
    BY <2>1
  <2>3. k - 1 \notin T
    BY <1>1, <2>1, <2>2
  <2> QED
    BY <2>1, <2>2, <2>3
<1>2. T \subseteq Nat
  OBVIOUS
<1> HIDE DEF T
<1>3. T = {}
  BY <1>1, <1>2, LeastElement
<1> QED
  BY <1>3 DEF T

(***************************************************************************)
(* A walk along succ that ends at the first element with stop.             *)
(***************************************************************************)
Walks(S, succ, stop, top) ==
  /\ stop \in [S -> BOOLEAN]
  /\ \A b \in S : ~ stop[b] => /\ b \in 0..top /\ succ[b] \in S
                               /\ succ[b] \in Nat => succ[b] > b

LEMMA WalkExists ==
  ASSUME NEW S, NEW succ, NEW stop, NEW top \in Nat, Walks(S, succ, stop, top)
  PROVE  \E f : f = [b \in S |-> IF stop[b] THEN b ELSE f[succ[b]]]
<1> DEFINE Body(f, b) == IF stop[b] THEN b ELSE f[succ[b]]
           Above(k) == {b \in S : stop[b] \/ b + k > top}
           Good(f, k) == \A b \in Above(k) : f[b] = Body(f, b)
           Q == {k \in Nat : \E f \in [S -> S] : Good(f, k)}
<1>1. \A b \in S : ~ stop[b] => b \in Nat /\ b <= top /\ succ[b] \in S
                                /\ (succ[b] \in Nat => succ[b] > b)
  BY DEF Walks
<1>2. 0 \in Q
  <2> DEFINE f == [b \in S |-> b]
  <2>1. f \in [S -> S] /\ Good(f, 0)
    BY <1>1
  <2> QED
    BY <2>1
<1>3. ASSUME NEW k \in Nat, k \in Q PROVE k + 1 \in Q
  <2>1. PICK f \in [S -> S] : Good(f, k)
    BY <1>3
  <2> DEFINE g == [b \in S |-> IF b \in Above(k) THEN f[b] ELSE Body(f, b)]
  <2>2. g \in [S -> S]
    BY <1>1
  <2>3. \A b \in Above(k + 1) : ~ stop[b] => succ[b] \in Above(k)
    BY <1>1
  <2>4. \A b \in Above(k + 1) : g[b] = Body(f, b)
    BY <2>1
  <2>5. \A b \in Above(k + 1) : Body(f, b) = Body(g, b)
    BY <2>3
  <2>6. g \in [S -> S] /\ Good(g, k + 1)
    BY <2>2, <2>4, <2>5
  <2> HIDE DEF g, Good
  <2> QED
    BY <2>6
<1>4. \A k \in Nat : k \in Q
  <2> HIDE DEF Q
  <2> QED
    BY <1>2, <1>3, Induction
<1>5. PICK f \in [S -> S] : Good(f, top + 1)
  BY <1>4, top + 1 \in Nat
<1>6. Above(top + 1) = S
  BY <1>1
<1>7. f = [b \in S |-> IF stop[b] THEN b ELSE f[succ[b]]]
  BY <1>5, <1>6
<1> QED
  BY <1>7

LEMMA WalkEnds ==
  ASSUME NEW S, NEW succ, NEW stop, NEW top \in Nat, Walks(S, succ, stop, top),
         NEW f, f = [b \in S |-> IF stop[b] THEN b ELSE f[succ[b]]]
  PROVE  \A b \in S : f[b] \in S /\ stop[f[b]]
<1> DEFINE P(b) == f[b] \in S /\ stop[f[b]]
           Q == {k \in Nat : \A b \in S : ~ stop[b] /\ b + k >= top => P(b)}
<1>1. \A b \in S : ~ stop[b] => b \in Nat /\ b <= top /\ succ[b] \in S
                                /\ (succ[b] \in Nat => succ[b] > b)
  BY DEF Walks
<1>2. \A b \in S : f[b] = IF stop[b] THEN b ELSE f[succ[b]]
  OBVIOUS
<1>3. \A b \in S : stop[b] => P(b)
  BY <1>2
<1>4. \A b \in S : ~ stop[b] /\ P(succ[b]) => P(b)
  BY <1>1, <1>2
<1> HIDE DEF P
<1>5. 0 \in Q
  BY <1>1, <1>3, <1>4
<1>6. ASSUME NEW k \in Nat, k \in Q PROVE k + 1 \in Q
  BY <1>1, <1>3, <1>4, <1>6
<1>7. \A k \in Nat : k \in Q
  <2> HIDE DEF Q
  <2> QED
    BY <1>5, <1>6, Induction
<1>8. ASSUME NEW b \in S, ~ stop[b] PROVE P(b)
  <2>1. top \in Q /\ b + top >= top
    BY <1>1, <1>7, <1>8
  <2> QED
    BY <1>8, <2>1
<1> QED
  BY <1>3, <1>8 DEF P

(***************************************************************************)
(* Taking a step n times.                                                  *)
(***************************************************************************)
LEMMA IterationExists ==
  ASSUME NEW n \in Nat, NEW R, NEW a \in R, NEW step \in [R -> R]
  PROVE  \E f \in [0..n -> R] :
           f = [i \in 0..n |-> IF i = 0 THEN a ELSE step[f[i - 1]]]
<1> DEFINE Body(f, i) == IF i = 0 THEN a ELSE step[f[i - 1]]
           Good(f, k) == \A i \in 0..n : i <= k => f[i] = Body(f, i)
           Q == {k \in Nat : \E f \in [0..n -> R] : Good(f, k)}
<1>1. 0 \in Q
  <2> DEFINE f == [i \in 0..n |-> a]
  <2>1. f \in [0..n -> R] /\ Good(f, 0)
    OBVIOUS
  <2> QED
    BY <2>1
<1>2. ASSUME NEW k \in Nat, k \in Q PROVE k + 1 \in Q
  <2>1. PICK f \in [0..n -> R] : Good(f, k)
    BY <1>2
  <2> DEFINE g == [i \in 0..n |-> IF i <= k THEN f[i] ELSE Body(f, i)]
  <2>2. \A i \in 0..n : i # 0 => i - 1 \in 0..n /\ f[i - 1] \in R
    OBVIOUS
  <2>3. g \in [0..n -> R]
    BY <2>2
  <2>4. \A i \in 0..n : i <= k + 1 => g[i] = Body(f, i)
    BY <2>1
  <2>5. \A i \in 0..n : i <= k + 1 => Body(f, i) = Body(g, i)
    BY <2>2
  <2>6. g \in [0..n -> R] /\ Good(g, k + 1)
    BY <2>3, <2>4, <2>5
  <2> HIDE DEF g, Good
  <2> QED
    BY <2>6
<1>3. \A k \in Nat : k \in Q
  <2> HIDE DEF Q
  <2> QED
    BY <1>1, <1>2, Induction
<1>4. PICK f \in [0..n -> R] : Good(f, n)
  BY <1>3
<1>5. f = [i \in 0..n |-> IF i = 0 THEN a ELSE step[f[i - 1]]]
  BY <1>4
<1> QED
  BY <1>5

(***************************************************************************)
(* Rounding up.                                                            *)
(***************************************************************************)
LEMMA AlignUpBounds ==
  ASSUME NEW n \in Nat, NEW a \in Nat \ {0}
  PROVE  /\ AlignUp(n, a) \in Nat /\ AlignUp(n, a) >= n
         /\ AlignUp(n, a) \div a \in Nat
         /\ (AlignUp(n, a) \div a) * a = AlignUp(n, a)
<1> DEFINE q == (n + a - 1) \div a
<1>1. q \in Nat /\ q * a <= n + a - 1 /\ n + a - 1 < q * a + a
  OBVIOUS
<1>2. q * a \in Nat /\ q * a >= n
  BY <1>1
<1>3. (q * a) \div a = q
  BY <1>1
<1>4. AlignUp(n, a) = q * a
  BY DEF AlignUp
<1> HIDE DEF q
<1> QED
  BY <1>1, <1>2, <1>3, <1>4

LEMMA PagesCover ==
  ASSUME NEW size \in Nat
  PROVE  /\ Pages(size) \in Nat \ {0} /\ Pages(size) * PAGE_SIZE \in Nat
         /\ Pages(size) * PAGE_SIZE >= size + HEADER
<1>1. PAGE_SIZE \in Nat \ {0} /\ size + HEADER \in Nat /\ HEADER > 0
  BY HeapAssumption
<1>2. /\ Pages(size) \in Nat
      /\ Pages(size) * PAGE_SIZE = AlignUp(size + HEADER, PAGE_SIZE)
      /\ AlignUp(size + HEADER, PAGE_SIZE) \in Nat
      /\ AlignUp(size + HEADER, PAGE_SIZE) >= size + HEADER
  BY <1>1, AlignUpBounds DEF Pages
<1>3. Pages(size) # 0
  BY <1>1, <1>2, HeapAssumption
<1> QED
  BY <1>2, <1>3

(***************************************************************************)
(* The two walks along the list end where they should.                     *)
(***************************************************************************)
LEMMA NextIsHigher ==
  ASSUME Shape(blk), Linked(blk), Ordered(blk, heap_end), heap_end \in Nat
  PROVE  \A b \in DOMAIN blk :
           /\ b \in 0..heap_end /\ blk[b].size \in Nat /\ blk[b].free \in BOOLEAN
           /\ blk[b].next # NULL => /\ blk[b].next \in DOMAIN blk
                                    /\ blk[b].next > b
BY HeapAssumption DEF Shape, Linked, Ordered, EndIn, Payload, Header

LEMMA FirstFitFinds ==
  ASSUME Shape(blk), Linked(blk), Ordered(blk, heap_end), heap_end \in Nat,
         NEW size \in Nat
  PROVE  \/ FirstFit(size) = NULL
         \/ /\ FirstFit(size) \in DOMAIN blk
            /\ blk[FirstFit(size)].free /\ blk[FirstFit(size)].size >= size
<1> DEFINE S == DOMAIN blk \cup {NULL}
           succ == [b \in S |-> blk[b].next]
           stop == [b \in S |-> b = NULL \/ (blk[b].free /\ blk[b].size >= size)]
           Def(f) == f = [b \in S |-> IF stop[b] THEN b ELSE f[succ[b]]]
           Def2(f) == f = [b \in S |->
                            IF b = NULL \/ (blk[b].free /\ blk[b].size >= size)
                            THEN b ELSE f[blk[b].next]]
<1>1. Walks(S, succ, stop, heap_end)
  BY NextIsHigher, HeapAssumption DEF Walks
<1>2. \A f : Def(f) <=> Def2(f)
  OBVIOUS
<1>3. FirstFit(size) = (CHOOSE f : Def2(f))[head]
  BY DEF FirstFit
<1>4. \E f : Def(f)
  <2> HIDE DEF S, succ, stop
  <2> QED
    BY <1>1, WalkExists
<1>5. Def(CHOOSE f : Def2(f))
  <2> HIDE DEF Def, Def2
  <2> QED
    BY <1>2, <1>4
<1>6. head \in S
  BY DEF Shape
<1>7. FirstFit(size) \in S /\ stop[FirstFit(size)]
  <2> DEFINE f == CHOOSE f : Def2(f)
  <2>1. f = [b \in S |-> IF stop[b] THEN b ELSE f[succ[b]]]
    BY <1>5
  <2>2. FirstFit(size) = f[head]
    BY <1>3
  <2> HIDE DEF S, succ, stop, f
  <2> QED
    BY <1>1, <1>6, <2>1, <2>2, WalkEnds
<1> QED
  BY <1>7

LEMMA LastBlockIsLast ==
  ASSUME Shape(blk), Linked(blk), Ordered(blk, heap_end), heap_end \in Nat
  PROVE  LastBlock \in DOMAIN blk /\ blk[LastBlock].next = NULL
<1> DEFINE S == DOMAIN blk
           succ == [b \in S |-> blk[b].next]
           stop == [b \in S |-> blk[b].next = NULL]
           Def(f) == f = [b \in S |-> IF stop[b] THEN b ELSE f[succ[b]]]
           Def2(f) == f = [b \in S |-> IF blk[b].next = NULL THEN b
                                       ELSE f[blk[b].next]]
<1>1. Walks(S, succ, stop, heap_end)
  BY NextIsHigher, HeapAssumption DEF Walks
<1>2. \A f : Def(f) <=> Def2(f)
  OBVIOUS
<1>3. LastBlock = (CHOOSE f : Def2(f))[head]
  BY DEF LastBlock
<1>4. \E f : Def(f)
  <2> HIDE DEF S, succ, stop
  <2> QED
    BY <1>1, WalkExists
<1>5. Def(CHOOSE f : Def2(f))
  <2> HIDE DEF Def, Def2
  <2> QED
    BY <1>2, <1>4
<1>6. head \in S
  BY DEF Shape
<1>7. LastBlock \in S /\ stop[LastBlock]
  <2> DEFINE f == CHOOSE f : Def2(f)
  <2>1. f = [b \in S |-> IF stop[b] THEN b ELSE f[succ[b]]]
    BY <1>5
  <2>2. LastBlock = f[head]
    BY <1>3
  <2> HIDE DEF S, succ, stop, f
  <2> QED
    BY <1>1, <1>6, <2>1, <2>2, WalkEnds
<1> QED
  BY <1>7

(***************************************************************************)
(* Growing takes a frame for every page, and none is left when it fails.   *)
(***************************************************************************)
Growths == [end : Nat, frames : 0..frames, result : {"ok", "full", "fault"}]

GrownBy(g, i) ==
  /\ g.end >= heap_end
  /\ g.end + g.frames * PAGE_SIZE <= heap_end + frames * PAGE_SIZE
  /\ g.result = "ok" => g.end = heap_end + i * PAGE_SIZE
  /\ g.result # "ok" => g.frames = 0

LEMMA GrowPageKeeps ==
  ASSUME heap_end \in Nat, frames \in Nat, NEW g \in Growths, NEW i \in Nat,
         GrownBy(g, i)
  PROVE  GrowPage(g) \in Growths /\ GrownBy(GrowPage(g), i + 1)
<1> DEFINE table == IF (g.end \div PAGE_SIZE) % TABLE_PAGES = 0 THEN 1 ELSE 0
<1>1. /\ PAGE_SIZE \in Nat /\ table \in 0..1 /\ g.end \in Nat
      /\ g.frames \in 0..frames /\ g.result \in {"ok", "full", "fault"}
      /\ g = [end |-> g.end, frames |-> g.frames, result |-> g.result]
  BY HeapAssumption DEF Growths
<1>2. GrowPage(g) =
        CASE g.result # "ok" -> g
          [] g.result = "ok" /\ g.frames = 0 -> [g EXCEPT !.result = "full"]
          [] g.result = "ok" /\ g.frames > 0 /\ g.frames - 1 < table ->
               [end |-> g.end, frames |-> 0, result |-> "fault"]
          [] OTHER -> [end |-> g.end + PAGE_SIZE,
                       frames |-> g.frames - 1 - table, result |-> "ok"]
  BY DEF GrowPage
<1> HIDE DEF table
<1>3. CASE g.result # "ok"
  BY <1>1, <1>2, <1>3 DEF GrownBy
<1>4. CASE g.result = "ok" /\ g.frames = 0
  <2>1. GrowPage(g) = [g EXCEPT !.result = "full"]
    BY <1>1, <1>2, <1>4
  <2>2. GrowPage(g) \in Growths
    BY <1>1, <2>1 DEF Growths
  <2>3. /\ GrowPage(g).end = g.end /\ GrowPage(g).frames = 0
        /\ GrowPage(g).result = "full"
    BY <1>1, <1>4, <2>1
  <2> QED
    BY <1>1, <1>4, <2>2, <2>3 DEF GrownBy
<1>5. CASE g.result = "ok" /\ g.frames > 0 /\ g.frames - 1 < table
  <2>1. GrowPage(g) = [end |-> g.end, frames |-> 0, result |-> "fault"]
    BY <1>1, <1>2, <1>5
  <2>2. g.frames * PAGE_SIZE >= 0
    BY <1>1
  <2> QED
    BY <1>1, <2>1, <2>2 DEF GrownBy, Growths
<1>6. CASE g.result = "ok" /\ g.frames > 0 /\ ~ (g.frames - 1 < table)
  <2>1. GrowPage(g) = [end |-> g.end + PAGE_SIZE,
                       frames |-> g.frames - 1 - table, result |-> "ok"]
    BY <1>1, <1>2, <1>6
  <2>2. (g.frames - 1 - table) * PAGE_SIZE <= g.frames * PAGE_SIZE - PAGE_SIZE
    <3>1. table * PAGE_SIZE >= 0
      BY <1>1
    <3>2. (g.frames - 1 - table) * PAGE_SIZE =
            g.frames * PAGE_SIZE - PAGE_SIZE - table * PAGE_SIZE
      BY <1>1
    <3> QED
      BY <1>1, <3>1, <3>2
  <2>3. (i + 1) * PAGE_SIZE = i * PAGE_SIZE + PAGE_SIZE
    BY <1>1
  <2>4. g.frames - 1 - table \in 0..frames /\ g.end + PAGE_SIZE \in Nat
    BY <1>1, <1>6
  <2>5. GrowPage(g) \in Growths
    BY <2>1, <2>4 DEF Growths
  <2>6. i * PAGE_SIZE \in Nat /\ g.frames * PAGE_SIZE \in Nat /\ frames * PAGE_SIZE \in Nat
        /\ (g.frames - 1 - table) * PAGE_SIZE \in Nat
    BY <1>1, <2>4
  <2>7. GrownBy(GrowPage(g), i + 1)
    BY <1>1, <1>6, <2>1, <2>2, <2>3, <2>4, <2>6 DEF GrownBy
  <2> QED
    BY <2>5, <2>7
<1> QED
  BY <1>1, <1>3, <1>4, <1>5, <1>6

LEMMA GrowthBounds ==
  ASSUME heap_end \in Nat, frames \in Nat, NEW n \in Nat
  PROVE  GrowPages(n) \in Growths /\ GrownBy(GrowPages(n), n)
<1> DEFINE a == [end |-> heap_end, frames |-> frames, result |-> "ok"]
           R == {g \in Growths : \E i \in Nat : GrownBy(g, i)}
           step == [g \in R |-> GrowPage(g)]
           Def(f) == f = [i \in 0..n |-> IF i = 0 THEN a ELSE step[f[i - 1]]]
           Def2(f) == f = [i \in 0..n |-> IF i = 0 THEN a ELSE GrowPage(f[i - 1])]
<1>1. a \in Growths /\ GrownBy(a, 0)
  BY HeapAssumption DEF Growths, GrownBy
<1>2. a \in R
  BY <1>1
<1>3. \A g \in R : GrowPage(g) \in R
  BY GrowPageKeeps
<1>4. step \in [R -> R]
  BY <1>3
<1>5. PICK f \in [0..n -> R] : Def(f)
  <2> HIDE DEF R, a, step
  <2> QED
    BY <1>2, <1>4, IterationExists
<1>6. Def2(f)
  <2> HIDE DEF R, a
  <2>1. \A i \in 0..n : i # 0 => i - 1 \in 0..n
    OBVIOUS
  <2>2. \A i \in 0..n : f[i] \in R
    OBVIOUS
  <2> QED
    BY <1>5, <2>1, <2>2
<1>7. GrowPages(n) = (CHOOSE h : Def2(h))[n]
  BY DEF GrowPages
<1> DEFINE h == CHOOSE h : Def2(h)
<1>8. Def2(h)
  <2> HIDE DEF Def2
  <2> QED
    BY <1>6
<1> HIDE DEF h
<1> DEFINE Q == {i \in Nat : i <= n => h[i] \in Growths /\ GrownBy(h[i], i)}
<1>9. 0 \in Q
  BY <1>1, <1>8
<1>10. ASSUME NEW k \in Nat, k \in Q PROVE k + 1 \in Q
  <2>1. k + 1 <= n => h[k + 1] = GrowPage(h[k])
    BY <1>8
  <2> QED
    BY <1>10, <2>1, GrowPageKeeps
<1>11. n \in Q
  <2> HIDE DEF Q
  <2> QED
    BY <1>9, <1>10, Induction
<1> QED
  BY <1>7, <1>11 DEF h

(***************************************************************************)
(* The operations on the list, one at a time.                              *)
(***************************************************************************)
ListOK(B, top) == Shape(B) /\ Linked(B) /\ Ordered(B, top)
UsedOf(B) == {b \in DOMAIN B : ~ B[b].free}

LEMMA BlockFacts ==
  ASSUME NEW B, NEW top \in Nat, ListOK(B, top), NEW b \in DOMAIN B
  PROVE  /\ b \in Nat /\ B[b].size \in Nat /\ B[b].free \in BOOLEAN
         /\ B[b] = [size |-> B[b].size, free |-> B[b].free, next |-> B[b].next,
                    prev |-> B[b].prev]
         /\ HEADER \in Nat /\ HEADER > 0
         /\ EndIn(B, b) = b + HEADER + B[b].size /\ EndIn(B, b) \in Nat
         /\ EndIn(B, b) > b /\ EndIn(B, b) <= top
         /\ \A d \in DOMAIN B : b < d => EndIn(B, b) <= d
         /\ B[b].next # NULL => /\ B[b].next = EndIn(B, b) /\ B[b].next \in DOMAIN B
                                /\ B[B[b].next].prev = b /\ B[b].next \in Nat
         /\ B[b].prev # NULL => /\ B[b].prev \in DOMAIN B /\ B[B[b].prev].next = b
                                /\ B[b].prev \in Nat
         /\ B[b].prev = NULL => b = head
         /\ B[b].next = NULL => \A d \in DOMAIN B : d <= b
<1>1. b \in Nat /\ B[b] \in Header /\ \A d \in DOMAIN B : d \in Nat
  BY DEF ListOK, Shape
<1>2. HEADER \in Nat /\ HEADER > 0
  BY HeapAssumption
<1>3. /\ B[b].size \in Nat /\ B[b].free \in BOOLEAN
      /\ B[b] = [size |-> B[b].size, free |-> B[b].free, next |-> B[b].next,
                 prev |-> B[b].prev]
  BY <1>1 DEF Header
<1>4. EndIn(B, b) = b + HEADER + B[b].size
  BY DEF EndIn, Payload
<1>5. /\ EndIn(B, b) \in Nat /\ EndIn(B, b) > b
  BY <1>1, <1>2, <1>3, <1>4
<1> QED
  BY <1>1, <1>2, <1>3, <1>4, <1>5 DEF ListOK, Linked, Ordered

(* Marking blocks as free or used does not disturb the list.               *)
LEMMA MarkKeeps ==
  ASSUME NEW B, NEW top \in Nat, ListOK(B, top), NEW M, DOMAIN M = DOMAIN B,
         \A x \in DOMAIN B : /\ M[x] \in Header /\ M[x].size = B[x].size
                             /\ M[x].next = B[x].next /\ M[x].prev = B[x].prev
  PROVE  ListOK(M, top) /\ \A e : EndsAt(B, e) => EndsAt(M, e)
<1>1. \A x \in DOMAIN B : EndIn(M, x) = EndIn(B, x)
  BY DEF EndIn
<1>2. Shape(M)
  BY DEF ListOK, Shape
<1>3. Linked(M)
  <2>1. head \in DOMAIN B /\ M[head].prev = NULL
    BY DEF ListOK, Shape, Linked
  <2>2. ASSUME NEW x \in DOMAIN B
        PROVE  /\ M[x].next # NULL => /\ M[x].next = EndIn(M, x)
                                      /\ M[x].next \in DOMAIN M
                                      /\ M[M[x].next].prev = x
               /\ M[x].prev # NULL => /\ M[x].prev \in DOMAIN M
                                      /\ M[M[x].prev].next = x
               /\ M[x].prev = NULL => x = head
    BY <1>1, BlockFacts
  <2> QED
    BY <2>1, <2>2 DEF Linked
<1>4. Ordered(M, top)
  BY <1>1 DEF ListOK, Ordered
<1>5. \A e : EndsAt(B, e) => EndsAt(M, e)
  BY <1>1 DEF EndsAt
<1> QED
  BY <1>2, <1>3, <1>4, <1>5 DEF ListOK

(* The mark itself. *)
LEMMA MarkFields ==
  ASSUME NEW B, NEW top \in Nat, ListOK(B, top), NEW b \in DOMAIN B,
         NEW v \in BOOLEAN
  PROVE  LET M == [B EXCEPT ![b].free = v]
         IN  /\ DOMAIN M = DOMAIN B
             /\ \A x \in DOMAIN B :
                  /\ M[x] \in Header /\ M[x].size = B[x].size
                  /\ M[x].next = B[x].next /\ M[x].prev = B[x].prev
                  /\ M[x].free = IF x = b THEN v ELSE B[x].free
<1> DEFINE M == [B EXCEPT ![b].free = v]
<1>1. \A x \in DOMAIN B : B[x] \in Header
  BY DEF ListOK, Shape
<1>2. \A x \in DOMAIN B :
        M[x] = [size |-> B[x].size, free |-> IF x = b THEN v ELSE B[x].free,
                next |-> B[x].next, prev |-> B[x].prev]
  BY BlockFacts
<1>3. \A x \in DOMAIN B : M[x] \in Header
  BY <1>1, <1>2 DEF Header
<1> QED
  BY <1>2, <1>3

(* split_block.  The rest is a free block of its own, if it is large       *)
(* enough for a header.                                                    *)
LEMMA SplitKeeps ==
  ASSUME NEW B, NEW top \in Nat, ListOK(B, top), Merged(B), NEW b \in DOMAIN B,
         B[b].free, NEW size \in Nat, B[b].size >= size
  PROVE  LET S == SplitBlock(B, b, size)
         IN  /\ ListOK(S, top) /\ b \in DOMAIN S /\ S[b].size \in Nat
             /\ S[b].size >= size /\ S[b].free
             /\ \A e : EndsAt(B, e) => EndsAt(S, e)
             /\ UsedOf(S) = UsedOf(B)
             /\ \A x \in UsedOf(B) : S[x].size = B[x].size
             /\ \A x \in DOMAIN S :
                  x # b /\ S[x].free /\ S[x].next # NULL => ~ S[S[x].next].free
<1> DEFINE remaining == B[b].size - size
           nb == Payload(b) + size
           nx == B[b].next
           rest == [size |-> remaining - HEADER, free |-> TRUE,
                    next |-> nx, prev |-> b]
           S == SplitBlock(B, b, size)
<1>1. /\ b \in Nat /\ B[b].size \in Nat /\ HEADER \in Nat /\ HEADER > 0
      /\ ALIGN \in Nat /\ ALIGN > 0 /\ remaining \in Nat
      /\ nb = b + HEADER + size /\ nb \in Nat
  BY BlockFacts, HeapAssumption DEF Payload
<1>2. CASE remaining < HEADER + ALIGN
  <2>1. S = B
    BY <1>2 DEF SplitBlock
  <2>2. \A x \in DOMAIN B : B[x].free /\ B[x].next # NULL => ~ B[B[x].next].free
    BY DEF Merged
  <2> HIDE DEF S
  <2> QED
    BY <1>1, <2>1, <2>2 DEF UsedOf, S
<1>3. CASE ~ (remaining < HEADER + ALIGN)
  <2> DEFINE C == [B EXCEPT ![b].size = size, ![b].next = nb]
             P == SetPrev(C, nx, nb)
  <2>1. S = With(P, nb, rest)
    BY <1>3 DEF SplitBlock
  <2>2. /\ EndIn(B, b) = b + HEADER + B[b].size
        /\ remaining - HEADER \in Nat /\ b < nb /\ nb < EndIn(B, b)
        /\ nb + HEADER + (remaining - HEADER) = EndIn(B, b)
    BY <1>1, <1>3, BlockFacts
  <2>3. nb \notin DOMAIN B
    BY <1>1, <2>2, BlockFacts
  <2>4. nx # NULL => nx \in DOMAIN B /\ nx # b /\ nx = EndIn(B, b) /\ nx \in Nat
                     /\ B[nx].prev = b /\ ~ B[nx].free
    BY <1>1, BlockFacts DEF Merged
  <2>5. /\ DOMAIN C = DOMAIN B
        /\ \A x \in DOMAIN B :
             C[x] = [size |-> IF x = b THEN size ELSE B[x].size,
                     free |-> B[x].free,
                     next |-> IF x = b THEN nb ELSE B[x].next,
                     prev |-> B[x].prev]
    <3>1. DOMAIN C = DOMAIN B
      OBVIOUS
    <3>2. ASSUME NEW x \in DOMAIN B, x # b PROVE C[x] = B[x]
      BY <3>2
    <3>3. C[b] = [B[b] EXCEPT !.size = size, !.next = nb]
      OBVIOUS
    <3>4. \A x \in DOMAIN B : B[x] = [size |-> B[x].size, free |-> B[x].free,
                                     next |-> B[x].next, prev |-> B[x].prev]
      BY BlockFacts
    <3>5. [B[b] EXCEPT !.size = size, !.next = nb] =
            [size |-> size, free |-> B[b].free, next |-> nb, prev |-> B[b].prev]
      <4>1. B[b] \in Header
        BY DEF ListOK, Shape
      <4> DEFINE R == [B[b] EXCEPT !.size = size, !.next = nb]
      <4> HIDE DEF nb
      <4>2. nb \in Nat
        BY <1>1
      <4>3. R \in Header
        BY <4>1, <4>2 DEF Header
      <4>4. /\ R.size = size /\ R.free = B[b].free /\ R.next = nb
            /\ R.prev = B[b].prev
        BY <4>1, <4>2 DEF Header
      <4> HIDE DEF R
      <4>5. R = [size |-> R.size, free |-> R.free, next |-> R.next, prev |-> R.prev]
        BY <4>3 DEF Header
      <4> QED
        BY <4>4, <4>5 DEF R
    <3> HIDE DEF C, nb
    <3> QED
      BY <3>1, <3>2, <3>3, <3>4, <3>5
  <2> HIDE DEF C
  <2>6. /\ DOMAIN P = DOMAIN B
        /\ \A x \in DOMAIN B :
             P[x] = [size |-> IF x = b THEN size ELSE B[x].size,
                     free |-> B[x].free,
                     next |-> IF x = b THEN nb ELSE B[x].next,
                     prev |-> IF x = nx /\ nx # NULL THEN nb ELSE B[x].prev]
    <3>1. CASE nx = NULL
      BY <2>5, <3>1 DEF SetPrev
    <3>2. CASE nx # NULL
      <4>1. P = [C EXCEPT ![nx].prev = nb]
        BY <3>2 DEF SetPrev
      <4> HIDE DEF P, nx
      <4> QED
        BY <2>4, <2>5, <3>2, <4>1
    <3> QED
      BY <3>1, <3>2
  <2> HIDE DEF P
  <2>7. /\ DOMAIN S = DOMAIN B \cup {nb}
        /\ S[nb] = rest
        /\ \A x \in DOMAIN B : S[x] = P[x]
    BY <2>1, <2>3, <2>6 DEF With
  <2> HIDE DEF S
  <2>8. /\ \A x \in DOMAIN B :
             /\ S[x].size = IF x = b THEN size ELSE B[x].size
             /\ S[x].free = B[x].free
             /\ S[x].next = IF x = b THEN nb ELSE B[x].next
             /\ S[x].prev = IF x = nx /\ nx # NULL THEN nb ELSE B[x].prev
        /\ S[nb].size = remaining - HEADER /\ S[nb].free
        /\ S[nb].next = nx /\ S[nb].prev = b
    BY <2>6, <2>7
  <2>9. /\ \A x \in DOMAIN B : x # b => EndIn(S, x) = EndIn(B, x)
        /\ EndIn(S, b) = nb /\ EndIn(S, nb) = EndIn(B, b)
    BY <1>1, <2>2, <2>8 DEF EndIn, Payload
  <2>10. Shape(S)
    <3>1. DOMAIN S \subseteq Nat /\ head \in DOMAIN S
      BY <1>1, <2>7 DEF ListOK, Shape
    <3>2. rest \in Header
      BY <1>1, <2>2, <2>4 DEF Header
    <3>3. \A x \in DOMAIN B : P[x] \in Header
      <4> TAKE x \in DOMAIN B
      <4>1. B[x] \in Header
        BY DEF ListOK, Shape
      <4> HIDE DEF nx, nb
      <4> QED
        BY <1>1, <2>6, <4>1 DEF Header
    <3> QED
      BY <2>7, <3>1, <3>2, <3>3 DEF Shape
  <2> HIDE DEF rest, remaining, nb, nx
  <2>11. Linked(S)
    <3>1. S[head].prev = NULL
      <4>1. head \in DOMAIN B /\ B[head].prev = NULL
        BY DEF ListOK, Shape, Linked
      <4>2. ~ (head = nx /\ nx # NULL)
        BY <1>1, <2>4, <2>2 DEF head
      <4> QED
        BY <2>8, <4>1, <4>2
    <3>2. ASSUME NEW x \in DOMAIN B
          PROVE  /\ S[x].next # NULL => /\ S[x].next = EndIn(S, x)
                                        /\ S[x].next \in DOMAIN S
                                        /\ S[S[x].next].prev = x
                 /\ S[x].prev # NULL => S[x].prev \in DOMAIN S /\ S[S[x].prev].next = x
                 /\ S[x].prev = NULL => x = head
      <4>1. CASE x = b
        <5>1. S[x].next = nb /\ EndIn(S, x) = nb /\ S[nb].prev = b
          BY <2>8, <2>9, <4>1
        <5>2. S[x].prev = B[x].prev
          BY <2>4, <2>8, <4>1
        <5>3. B[x].prev # NULL => B[x].prev \in DOMAIN B /\ B[B[x].prev].next = x
                                  /\ B[x].prev # b
          BY <1>1, <2>4, <4>1, BlockFacts
        <5> QED
          BY <2>7, <2>8, <4>1, <5>1, <5>2, <5>3, BlockFacts
      <4>2. CASE x # b
        <5>1. /\ S[x].next = B[x].next /\ EndIn(S, x) = EndIn(B, x)
          BY <2>8, <2>9, <4>2
        <5>2. B[x].next # NULL => /\ B[x].next = EndIn(B, x) /\ B[x].next \in DOMAIN B
                                  /\ B[B[x].next].prev = x
          BY BlockFacts
        <5>3. B[x].next # NULL => ~ (B[x].next = nx /\ nx # NULL)
          BY <2>4, <4>2, <5>2
        <5>4. S[x].next # NULL => /\ S[x].next = EndIn(S, x) /\ S[x].next \in DOMAIN S
                                  /\ S[S[x].next].prev = x
          BY <2>7, <2>8, <5>1, <5>2, <5>3
        <5>5. CASE x = nx /\ nx # NULL
          <6>1. S[x].prev = nb /\ S[nb].next = x /\ nb \in DOMAIN S /\ nb # NULL
            BY <1>1, <2>7, <2>8, <5>5, HeapAssumption
          <6> QED
            BY <5>4, <6>1
        <5>6. CASE ~ (x = nx /\ nx # NULL)
          <6>1. S[x].prev = B[x].prev
            BY <2>8, <5>6
          <6>2. B[x].prev # NULL => /\ B[x].prev \in DOMAIN B /\ B[B[x].prev].next = x
                                    /\ B[x].prev # b
            <7>1. B[x].prev # NULL => B[x].prev \in DOMAIN B /\ B[B[x].prev].next = x
              BY BlockFacts
            <7>2. x # NULL
              BY BlockFacts, HeapAssumption
            <7>3. B[x].prev # NULL /\ B[x].prev = b => nx = x
              BY <7>1 DEF nx
            <7> QED
              BY <5>6, <7>1, <7>2, <7>3
          <6> QED
            BY <2>7, <2>8, <5>4, <6>1, <6>2, BlockFacts
        <5> QED
          BY <5>5, <5>6
      <4> QED
        BY <4>1, <4>2
    <3>3. /\ S[nb].next # NULL => /\ S[nb].next = EndIn(S, nb)
                                  /\ S[nb].next \in DOMAIN S
                                  /\ S[S[nb].next].prev = nb
          /\ S[nb].prev = b /\ b \in DOMAIN S /\ S[b].next = nb /\ b # NULL
      BY <1>1, <2>4, <2>7, <2>8, <2>9, HeapAssumption
    <3> QED
      BY <2>7, <3>1, <3>2, <3>3 DEF Linked
  <2>12. Ordered(S, top)
    <3>1. \A x \in DOMAIN B :
            /\ x \in Nat /\ EndIn(B, x) \in Nat /\ EndIn(B, x) <= top /\ EndIn(B, x) > x
            /\ \A d \in DOMAIN B : x < d => EndIn(B, x) <= d
            /\ B[x].next = NULL => \A d \in DOMAIN B : d <= x
      BY BlockFacts
    <3>2. \A x \in DOMAIN S : EndIn(S, x) <= top
      BY <1>1, <2>2, <2>7, <2>9, <3>1
    <3>3. ASSUME NEW x \in DOMAIN S, NEW d \in DOMAIN S, x < d
          PROVE  EndIn(S, x) <= d
      <4>1. CASE x = nb /\ d = nb
        BY <1>1, <3>3, <4>1
      <4>2. CASE x = nb /\ d \in DOMAIN B
        BY <1>1, <2>2, <2>9, <3>1, <3>3, <4>2
      <4>3. CASE x \in DOMAIN B /\ x # b /\ d = nb
        BY <1>1, <2>2, <2>9, <3>1, <3>3, <4>3
      <4>4. CASE x = b
        BY <1>1, <2>2, <2>7, <2>9, <3>1, <3>3, <4>4
      <4>5. CASE x \in DOMAIN B /\ x # b /\ d \in DOMAIN B
        BY <2>9, <3>1, <3>3, <4>5
      <4> QED
        BY <2>7, <4>1, <4>2, <4>3, <4>4, <4>5
    <3>4. ASSUME NEW x \in DOMAIN S, S[x].next = NULL, NEW d \in DOMAIN S
          PROVE  d <= x
      <4>1. x # b
        BY <1>1, <2>8, <3>4, HeapAssumption
      <4>2. CASE x = nb
        <5>1. B[b].next = NULL
          BY <2>8, <3>4, <4>2 DEF nx
        <5> QED
          BY <1>1, <2>2, <2>7, <3>1, <3>4, <4>2, <5>1
      <4>3. CASE x \in DOMAIN B
        <5>1. B[x].next = NULL /\ b <= x
          BY <2>8, <3>1, <3>4, <4>1, <4>3
        <5>2. EndIn(B, b) <= x
          BY <1>1, <3>1, <4>1, <4>3, <5>1
        <5> QED
          BY <1>1, <2>2, <2>7, <3>1, <3>4, <4>3, <5>1, <5>2
      <4> QED
        BY <2>7, <3>4, <4>2, <4>3
    <3> QED
      BY <3>2, <3>3, <3>4 DEF Ordered
  <2>13. \A e : EndsAt(B, e) => EndsAt(S, e)
    <3> SUFFICES ASSUME NEW e, EndsAt(B, e), NEW x \in DOMAIN S, S[x].next = NULL
                 PROVE  EndIn(S, x) = e
      BY DEF EndsAt
    <3>1. x # b
      BY <1>1, <2>8, HeapAssumption
    <3>2. CASE x = nb
      <4>1. B[b].next = NULL
        BY <2>8, <3>2 DEF nx
      <4> QED
        BY <2>9, <3>2, <4>1 DEF EndsAt
    <3>3. CASE x \in DOMAIN B
      BY <2>8, <2>9, <3>1, <3>3 DEF EndsAt
    <3> QED
      BY <2>7, <3>2, <3>3
  <2>14. UsedOf(S) = UsedOf(B)
    BY <2>7, <2>8 DEF UsedOf
  <2>15. \A x \in UsedOf(B) : S[x].size = B[x].size
    BY <2>8 DEF UsedOf
  <2>16. ASSUME NEW x \in DOMAIN S, x # b, S[x].free, S[x].next # NULL
         PROVE  ~ S[S[x].next].free
    <3>1. CASE x = nb
      BY <2>4, <2>8, <2>16, <3>1
    <3>2. CASE x \in DOMAIN B
      <4>1. /\ S[x].next = B[x].next /\ B[x].next \in DOMAIN B /\ B[x].free
            /\ ~ B[B[x].next].free
        BY <2>8, <2>16, <3>2, BlockFacts DEF Merged
      <4> QED
        BY <2>8, <4>1
    <3> QED
      BY <2>7, <2>16, <3>1, <3>2
  <2>17. b \in DOMAIN S /\ S[b].size = size /\ S[b].free
    BY <2>7, <2>8
  <2> QED
    BY <2>10, <2>11, <2>12, <2>13, <2>14, <2>15, <2>16, <2>17 DEF ListOK, S
<1> QED
  BY <1>2, <1>3

(* A block swallows the one behind it.                                     *)
Absorb(B, b) ==
  LET nx == B[b].next
  IN  Without(SetPrev([B EXCEPT ![b].size = @ + HEADER + B[nx].size,
                                ![b].next = B[nx].next],
                      B[nx].next, b), nx)

LEMMA AbsorbKeeps ==
  ASSUME NEW B, NEW top \in Nat, ListOK(B, top), NEW b \in DOMAIN B,
         B[b].next # NULL, NEW nx, nx = B[b].next, NEW M, M = Absorb(B, b)
  PROVE  /\ ListOK(M, top) /\ DOMAIN M = DOMAIN B \ {nx} /\ b \in DOMAIN M
         /\ nx \in DOMAIN B /\ nx # b
         /\ \A x \in DOMAIN M :
              /\ M[x].free = B[x].free
              /\ x # b => M[x].size = B[x].size /\ M[x].next = B[x].next
         /\ M[b].next = B[nx].next /\ M[b].prev = B[b].prev
         /\ \A e : EndsAt(B, e) => EndsAt(M, e)
<1> DEFINE far == B[nx].next
           size == B[b].size + HEADER + B[nx].size
           C == [B EXCEPT ![b].size = @ + HEADER + B[nx].size, ![b].next = far]
           P == SetPrev(C, far, b)
<1>1. \A x \in DOMAIN B :
        /\ x \in Nat /\ B[x].size \in Nat /\ B[x] \in Header
        /\ B[x] = [size |-> B[x].size, free |-> B[x].free, next |-> B[x].next,
                   prev |-> B[x].prev]
        /\ EndIn(B, x) = x + HEADER + B[x].size /\ EndIn(B, x) \in Nat
        /\ EndIn(B, x) > x /\ EndIn(B, x) <= top
        /\ \A d \in DOMAIN B : x < d => EndIn(B, x) <= d
        /\ B[x].next # NULL => /\ B[x].next = EndIn(B, x) /\ B[x].next \in DOMAIN B
                               /\ B[B[x].next].prev = x
        /\ B[x].prev # NULL => B[x].prev \in DOMAIN B /\ B[B[x].prev].next = x
        /\ B[x].prev = NULL => x = head
        /\ B[x].next = NULL => \A d \in DOMAIN B : d <= x
  <2> TAKE x \in DOMAIN B
  <2>1. B[x] \in Header
    BY DEF ListOK, Shape
  <2> QED
    BY <2>1, BlockFacts
<1>2. /\ HEADER \in Nat /\ NULL \notin Nat
  BY HeapAssumption
<1>3. /\ nx \in DOMAIN B /\ nx # b /\ nx > b /\ nx = EndIn(B, b) /\ B[nx].prev = b
      /\ size \in Nat
  BY <1>1, <1>2
<1>4. far # NULL => /\ far \in DOMAIN B /\ far > nx /\ far # b /\ far # nx
                    /\ B[far].prev = nx /\ far = EndIn(B, nx)
  BY <1>1, <1>2, <1>3
<1>5. far \in Nat \cup {NULL}
  BY <1>1, <1>3 DEF Header
<1>6. /\ DOMAIN C = DOMAIN B
      /\ \A x \in DOMAIN B :
           C[x] = [size |-> IF x = b THEN size ELSE B[x].size,
                   free |-> B[x].free,
                   next |-> IF x = b THEN far ELSE B[x].next,
                   prev |-> B[x].prev]
  <2>1. DOMAIN C = DOMAIN B
    OBVIOUS
  <2>2. ASSUME NEW x \in DOMAIN B, x # b PROVE C[x] = B[x]
    BY <2>2
  <2> DEFINE R == [B[b] EXCEPT !.size = @ + HEADER + B[nx].size, !.next = far]
  <2>3. C[b] = R
    OBVIOUS
  <2>4. R = [size |-> size, free |-> B[b].free, next |-> far, prev |-> B[b].prev]
    <3>1. B[b] \in Header /\ B[nx].size \in Nat /\ B[b].size + HEADER + B[nx].size \in Nat
      BY <1>1, <1>2, <1>3
    <3> HIDE DEF far
    <3>2. R \in Header
      BY <1>5, <3>1 DEF Header
    <3>3. /\ R.size = size /\ R.free = B[b].free /\ R.next = far
          /\ R.prev = B[b].prev
      BY <1>5, <3>1 DEF Header
    <3> HIDE DEF R
    <3>4. R = [size |-> R.size, free |-> R.free, next |-> R.next, prev |-> R.prev]
      BY <3>2 DEF Header
    <3> QED
      BY <3>3, <3>4
  <2> HIDE DEF C, R, size, far
  <2> QED
    BY <1>1, <2>1, <2>2, <2>3, <2>4
<1> HIDE DEF C
<1>7. /\ DOMAIN P = DOMAIN B
      /\ \A x \in DOMAIN B :
           P[x] = [size |-> IF x = b THEN size ELSE B[x].size,
                   free |-> B[x].free,
                   next |-> IF x = b THEN far ELSE B[x].next,
                   prev |-> IF x = far /\ far # NULL THEN b ELSE B[x].prev]
  <2>1. CASE far = NULL
    BY <1>6, <2>1 DEF SetPrev
  <2>2. CASE far # NULL
    <3>1. P = [C EXCEPT ![far].prev = b]
      BY <2>2 DEF SetPrev
    <3> HIDE DEF P, far, size
    <3> QED
      BY <1>4, <1>6, <2>2, <3>1
  <2> QED
    BY <2>1, <2>2
<1>8. M = Without(P, nx)
  BY DEF Absorb, C
<1> HIDE DEF P, size, far
<1>9. DOMAIN M = DOMAIN B \ {nx} /\ \A x \in DOMAIN M : M[x] = P[x]
  BY <1>7, <1>8 DEF Without
<1>10. \A x \in DOMAIN M :
         /\ x \in DOMAIN B /\ x # nx
         /\ M[x].size = IF x = b THEN size ELSE B[x].size
         /\ M[x].free = B[x].free
         /\ M[x].next = IF x = b THEN far ELSE B[x].next
         /\ M[x].prev = IF x = far /\ far # NULL THEN b ELSE B[x].prev
  BY <1>7, <1>9
<1>11. \A x \in DOMAIN M : EndIn(M, x) = IF x = b THEN EndIn(B, nx) ELSE EndIn(B, x)
  <2>1. b + HEADER + size = EndIn(B, nx)
    BY <1>1, <1>2, <1>3 DEF size
  <2> QED
    BY <1>1, <1>10, <2>1 DEF EndIn, Payload
<1>12. b \in DOMAIN M
  BY <1>3, <1>9
<1>13. Shape(M)
  <2>1. head \in DOMAIN M
    <3>1. head \in DOMAIN B
      BY DEF ListOK, Shape
    <3>2. head # nx
      BY <1>1, <1>3 DEF head
    <3> QED
      BY <1>9, <3>1, <3>2
  <2>2. \A x \in DOMAIN M : M[x] \in Header
    <3> TAKE x \in DOMAIN M
    <3>1. M[x] = P[x] /\ x \in DOMAIN B /\ B[x] \in Header /\ b \in Nat
      BY <1>1, <1>9
    <3> QED
      BY <1>3, <1>5, <1>7, <3>1 DEF Header
  <2> QED
    BY <1>1, <1>9, <2>1, <2>2 DEF Shape
<1>14. Linked(M)
  <2>1. M[head].prev = NULL
    <3>1. head \in DOMAIN M /\ B[head].prev = NULL
      BY <1>13 DEF ListOK, Linked, Shape
    <3>2. ~ (head = far /\ far # NULL)
      BY <1>1, <1>3, <1>4 DEF head
    <3> QED
      BY <1>10, <3>1, <3>2
  <2>2. ASSUME NEW x \in DOMAIN M
        PROVE  M[x].next # NULL => /\ M[x].next = EndIn(M, x) /\ M[x].next \in DOMAIN M
                                   /\ M[M[x].next].prev = x
    <3>1. CASE x = b
      BY <1>3, <1>4, <1>9, <1>10, <1>11, <3>1
    <3>2. CASE x # b
      <4>1. B[x].next # NULL => B[x].next # nx /\ ~ (B[x].next = far /\ far # NULL)
        BY <1>1, <1>3, <1>4, <1>10, <3>2
      <4> QED
        BY <1>1, <1>9, <1>10, <1>11, <3>2, <4>1
    <3> QED
      BY <3>1, <3>2
  <2>3. ASSUME NEW x \in DOMAIN M
        PROVE  /\ M[x].prev # NULL => M[x].prev \in DOMAIN M /\ M[M[x].prev].next = x
               /\ M[x].prev = NULL => x = head
    <3>1. CASE x = far /\ far # NULL
      BY <1>1, <1>2, <1>10, <1>12, <3>1
    <3>2. CASE ~ (x = far /\ far # NULL)
      <4>1. M[x].prev = B[x].prev /\ x \in DOMAIN B /\ x # nx
        BY <1>10, <3>2
      <4>2. B[x].prev # NULL => B[x].prev # nx /\ B[x].prev # b
        <5>1. B[x].prev # NULL => B[B[x].prev].next = x
          BY <1>1, <4>1
        <5>2. x # NULL
          BY <1>1, <1>2, <4>1
        <5> QED
          BY <3>2, <4>1, <5>1, <5>2 DEF far
      <4> QED
        BY <1>1, <1>9, <1>10, <4>1, <4>2
    <3> QED
      BY <3>1, <3>2
  <2> QED
    BY <2>1, <2>2, <2>3 DEF Linked
<1>15. Ordered(M, top)
  <2>1. ASSUME NEW x \in DOMAIN M
        PROVE  /\ EndIn(M, x) <= top
               /\ \A d \in DOMAIN M : x < d => EndIn(M, x) <= d
               /\ M[x].next = NULL => \A d \in DOMAIN M : d <= x
    <3>1. CASE x = b
      <4>1. EndIn(M, x) = EndIn(B, nx)
        BY <1>11, <3>1
      <4>2. \A d \in DOMAIN M : b < d => nx < d
        <5> TAKE d \in DOMAIN M
        <5>1. d \in DOMAIN B /\ d # nx /\ d \in Nat
          BY <1>1, <1>9
        <5>2. b < d => nx <= d
          BY <1>1, <1>3, <5>1
        <5> QED
          BY <1>1, <1>3, <5>1, <5>2
      <4>3. far = NULL => \A d \in DOMAIN B : d <= nx
        BY <1>1, <1>3 DEF far
      <4>4. far = NULL => \A d \in DOMAIN M : d <= b
        BY <1>1, <1>3, <1>9, <4>2, <4>3
      <4> QED
        BY <1>1, <1>3, <1>9, <1>10, <3>1, <4>1, <4>2, <4>4
    <3>2. CASE x # b
      BY <1>1, <1>9, <1>10, <1>11, <3>2
    <3> QED
      BY <3>1, <3>2
  <2> QED
    BY <2>1 DEF Ordered
<1>16. \A e : EndsAt(B, e) => EndsAt(M, e)
  <2> SUFFICES ASSUME NEW e, EndsAt(B, e), NEW x \in DOMAIN M, M[x].next = NULL
               PROVE  EndIn(M, x) = e
    BY DEF EndsAt
  <2>1. CASE x = b
    <3>1. B[nx].next = NULL
      BY <1>10, <2>1 DEF far
    <3> QED
      BY <1>3, <1>11, <2>1, <3>1 DEF EndsAt
  <2>2. CASE x # b
    BY <1>10, <1>11, <2>2 DEF EndsAt
  <2> QED
    BY <2>1, <2>2
<1>17. M[b].next = far /\ M[b].prev = B[b].prev
  BY <1>4, <1>10, <1>12
<1> QED
  BY <1>3, <1>9, <1>10, <1>12, <1>13, <1>14, <1>15, <1>16, <1>17 DEF ListOK, far

(* kfree on the list: the block is marked, and swallows or is swallowed by *)
(* its neighbours, so that no two free blocks are left side by side.       *)
FreedList(B, b) == MergePrev(MergeNext([B EXCEPT ![b].free = TRUE], b), b)

LEMMA FreedKeeps ==
  ASSUME NEW B, NEW top \in Nat, ListOK(B, top), Merged(B), NEW b \in UsedOf(B)
  PROVE  LET F == FreedList(B, b)
         IN  /\ ListOK(F, top) /\ Merged(F)
             /\ \A e : EndsAt(B, e) => EndsAt(F, e)
             /\ UsedOf(F) = UsedOf(B) \ {b}
             /\ \A x \in UsedOf(F) : F[x].size = B[x].size
<1> DEFINE M1 == [B EXCEPT ![b].free = TRUE]
           M2 == MergeNext(M1, b)
           F == MergePrev(M2, b)
           Pair(M, x) == M[x].free /\ M[x].next # NULL /\ M[M[x].next].free
<1>1. /\ b \in DOMAIN B /\ ~ B[b].free
  BY DEF UsedOf
<1>2. /\ ListOK(M1, top) /\ DOMAIN M1 = DOMAIN B
      /\ \A x \in DOMAIN B :
           /\ M1[x].size = B[x].size /\ M1[x].next = B[x].next
           /\ M1[x].free = IF x = b THEN TRUE ELSE B[x].free
      /\ \A e : EndsAt(B, e) => EndsAt(M1, e)
  <2>1. DOMAIN M1 = DOMAIN B
    OBVIOUS
  <2>2. \A x \in DOMAIN B :
          /\ M1[x] \in Header /\ M1[x].size = B[x].size
          /\ M1[x].next = B[x].next /\ M1[x].prev = B[x].prev
          /\ M1[x].free = IF x = b THEN TRUE ELSE B[x].free
    BY <1>1, MarkFields
  <2> HIDE DEF M1
  <2> QED
    BY <2>1, <2>2, MarkKeeps
<1> HIDE DEF M1
<1>3. \A x \in DOMAIN B : x # b /\ Pair(M1, x) => M1[x].next = b
  <2> TAKE x \in DOMAIN B
  <2>1. B[x].next # NULL => B[x].next \in DOMAIN B
    BY BlockFacts
  <2> QED
    BY <1>2, <2>1 DEF Merged
<1>4. /\ ListOK(M2, top) /\ b \in DOMAIN M2 /\ M2[b].free
      /\ DOMAIN M2 \subseteq DOMAIN B
      /\ \A e : EndsAt(B, e) => EndsAt(M2, e)
      /\ UsedOf(M2) = UsedOf(B) \ {b}
      /\ \A x \in UsedOf(M2) : M2[x].size = B[x].size
      /\ \A x \in DOMAIN M2 : Pair(M2, x) => M2[x].next = b
  <2> DEFINE nx == M1[b].next
  <2>1. CASE nx # NULL /\ M1[nx].free
    <3>1. M2 = Absorb(M1, b)
      BY <2>1 DEF MergeNext, Absorb
    <3>2. /\ ListOK(M2, top) /\ DOMAIN M2 = DOMAIN M1 \ {nx} /\ b \in DOMAIN M2
          /\ nx \in DOMAIN M1 /\ nx # b
          /\ \A x \in DOMAIN M2 :
               /\ M2[x].free = M1[x].free
               /\ x # b => M2[x].size = M1[x].size /\ M2[x].next = M1[x].next
          /\ M2[b].next = M1[nx].next
          /\ \A e : EndsAt(M1, e) => EndsAt(M2, e)
      <4> HIDE DEF M2, nx
      <4>1. nx = M1[b].next
        BY DEF nx
      <4>2. ListOK(M1, top) /\ b \in DOMAIN M1 /\ M1[b].next # NULL
        BY <1>1, <1>2, <2>1, <4>1
      <4> QED
        BY <3>1, <4>1, <4>2, AbsorbKeeps
    <3> HIDE DEF M2
    <3>3. M2[b].free
      BY <1>1, <1>2, <3>2
    <3>4. UsedOf(M2) = UsedOf(B) \ {b}
      BY <1>1, <1>2, <2>1, <3>2 DEF UsedOf
    <3>5. \A x \in UsedOf(M2) : M2[x].size = B[x].size
      BY <1>2, <3>2, <3>3 DEF UsedOf
    <3>6. ASSUME NEW x \in DOMAIN M2, Pair(M2, x) PROVE M2[x].next = b
      <4>1. M2[x].next \in DOMAIN M2
        BY <3>2, <3>6, BlockFacts
      <4>2. CASE x = b
        <5>1. Pair(M1, nx) /\ M1[nx].next = M2[b].next
          BY <2>1, <3>2, <3>6, <4>1, <4>2
        <5> QED
          BY <1>2, <1>3, <3>2, <4>2, <5>1
      <4>3. CASE x # b
        BY <1>2, <1>3, <3>2, <3>6, <4>1, <4>3
      <4> QED
        BY <4>2, <4>3
    <3> QED
      BY <1>2, <3>2, <3>3, <3>4, <3>5, <3>6
  <2>2. CASE ~ (nx # NULL /\ M1[nx].free)
    <3>1. M2 = M1
      BY <2>2 DEF MergeNext
    <3> HIDE DEF M2
    <3>2. UsedOf(M2) = UsedOf(B) \ {b}
      BY <1>1, <1>2, <3>1 DEF UsedOf
    <3> QED
      BY <1>1, <1>2, <1>3, <2>2, <3>1, <3>2 DEF UsedOf
  <2> QED
    BY <2>1, <2>2
<1> HIDE DEF M2
<1>5. /\ ListOK(F, top) /\ Merged(F)
      /\ \A e : EndsAt(M2, e) => EndsAt(F, e)
      /\ UsedOf(F) = UsedOf(M2)
      /\ \A x \in UsedOf(F) : F[x].size = M2[x].size
  <2> DEFINE pv == M2[b].prev
  <2>1. pv # NULL => pv \in DOMAIN M2 /\ M2[pv].next = b
    BY <1>4, BlockFacts
  <2>2. CASE pv # NULL /\ M2[pv].free
    <3>1. F = Absorb(M2, pv) /\ b # NULL
      <4>1. M2[pv].next = b /\ b # NULL
        BY <1>4, <2>1, <2>2, BlockFacts, HeapAssumption
      <4> QED
        BY <2>2, <4>1 DEF MergePrev, Absorb
    <3>2. /\ ListOK(F, top) /\ DOMAIN F = DOMAIN M2 \ {b} /\ pv \in DOMAIN F
          /\ pv # b
          /\ \A x \in DOMAIN F :
               /\ F[x].free = M2[x].free
               /\ x # pv => F[x].size = M2[x].size /\ F[x].next = M2[x].next
          /\ F[pv].next = M2[b].next
          /\ \A e : EndsAt(M2, e) => EndsAt(F, e)
      <4> HIDE DEF F, pv
      <4> QED
        BY <1>4, <2>1, <2>2, <3>1, AbsorbKeeps
    <3> HIDE DEF F
    <3>3. UsedOf(F) = UsedOf(M2)
      BY <1>4, <3>2 DEF UsedOf
    <3>4. \A x \in UsedOf(F) : F[x].size = M2[x].size
      BY <2>2, <3>2 DEF UsedOf
    <3>5. ASSUME NEW x \in DOMAIN F, F[x].free, F[x].next # NULL, F[F[x].next].free
          PROVE  FALSE
      <4>1. F[x].next \in DOMAIN F
        BY <3>2, <3>5, BlockFacts
      <4>2. CASE x = pv
        <5>1. Pair(M2, b)
          BY <1>4, <3>2, <3>5, <4>1, <4>2
        <5> QED
          BY <1>4, <3>2, <4>1, <4>2, <5>1
      <4>3. CASE x # pv
        <5>1. Pair(M2, x)
          BY <3>2, <3>5, <4>1, <4>3
        <5> QED
          BY <1>4, <3>2, <4>1, <4>3, <5>1
      <4> QED
        BY <4>2, <4>3
    <3>6. Merged(F)
      <4> SUFFICES ASSUME NEW x \in DOMAIN F, F[x].free, F[x].next # NULL
                   PROVE  ~ F[F[x].next].free
        BY DEF Merged
      <4> QED
        BY <3>5
    <3> QED
      BY <3>2, <3>3, <3>4, <3>6
  <2>3. CASE ~ (pv # NULL /\ M2[pv].free)
    <3>1. F = M2
      BY <2>3 DEF MergePrev
    <3>2. Merged(M2)
      <4> SUFFICES ASSUME NEW x \in DOMAIN M2, M2[x].free, M2[x].next # NULL,
                          M2[M2[x].next].free
                   PROVE  FALSE
        BY DEF Merged
      <4>1. M2[x].next = b
        BY <1>4
      <4>2. pv = x /\ x # NULL
        BY <1>4, <4>1, BlockFacts, HeapAssumption
      <4> QED
        BY <2>3, <4>2
    <3> HIDE DEF F
    <3> QED
      BY <1>4, <3>1, <3>2
  <2> QED
    BY <2>2, <2>3
<1>6. FreedList(B, b) = F
  BY DEF FreedList, M1, M2
<1> HIDE DEF F
<1> QED
  BY <1>4, <1>5, <1>6

(* extend_heap on the list: the last block grows if it is free, and a free *)
(* block follows it otherwise.                                             *)
LEMMA ExtendKeeps ==
  ASSUME heap_end \in Nat, ListOK(blk, heap_end), Merged(blk),
         EndsAt(blk, heap_end), NEW size \in Nat,
         NEW X, X = ExtendHeap(blk, Pages(size)), NEW e, e = Extension,
         NEW top, top = heap_end + Pages(size) * PAGE_SIZE
  PROVE  /\ top \in Nat /\ ListOK(X, top) /\ Merged(X) /\ EndsAt(X, top)
         /\ e \in DOMAIN X /\ X[e].free /\ X[e].size >= size
         /\ UsedOf(X) = UsedOf(blk)
         /\ \A x \in UsedOf(blk) : X[x].size = blk[x].size
<1> DEFINE more == Pages(size) * PAGE_SIZE
           last == LastBlock
<1>1. /\ more \in Nat /\ more >= size + HEADER /\ HEADER \in Nat /\ HEADER > 0
      /\ NULL \notin Nat
  BY PagesCover, HeapAssumption
<1>2. last \in DOMAIN blk /\ blk[last].next = NULL
  BY LastBlockIsLast DEF ListOK
<1>3. EndIn(blk, last) = heap_end
  BY <1>2 DEF EndsAt
<1>4. \A x \in DOMAIN blk :
        /\ x \in Nat /\ blk[x].size \in Nat /\ blk[x] \in Header
        /\ blk[x] = [size |-> blk[x].size, free |-> blk[x].free,
                     next |-> blk[x].next, prev |-> blk[x].prev]
        /\ EndIn(blk, x) = x + HEADER + blk[x].size /\ EndIn(blk, x) \in Nat
        /\ EndIn(blk, x) > x /\ EndIn(blk, x) <= heap_end /\ x <= last
        /\ \A d \in DOMAIN blk : x < d => EndIn(blk, x) <= d
        /\ blk[x].next # NULL => /\ blk[x].next = EndIn(blk, x)
                                 /\ blk[x].next \in DOMAIN blk
                                 /\ blk[blk[x].next].prev = x
        /\ blk[x].next = NULL => x = last
        /\ blk[x].prev # NULL => blk[x].prev \in DOMAIN blk /\ blk[blk[x].prev].next = x
        /\ blk[x].prev = NULL => x = head
  <2> TAKE x \in DOMAIN blk
  <2>1. blk[x] \in Header
    BY DEF ListOK, Shape
  <2>2. x <= last
    BY <1>2, BlockFacts
  <2>3. blk[x].next = NULL => x = last
    <3>1. blk[x].next = NULL => last <= x
      BY <1>2, BlockFacts
    <3>2. x \in Nat /\ last \in Nat
      BY <1>2, BlockFacts
    <3> QED
      BY <2>2, <3>1, <3>2
  <2> QED
    BY <2>1, <2>2, <2>3, BlockFacts
<1>5. /\ heap_end \notin DOMAIN blk /\ head \in DOMAIN blk /\ blk[head].prev = NULL
      /\ last \in Nat /\ last # NULL /\ heap_end # NULL /\ last < heap_end
  <2>1. heap_end \notin DOMAIN blk
    BY <1>4
  <2>2. head \in DOMAIN blk /\ blk[head].prev = NULL
    BY DEF ListOK, Shape, Linked
  <2> QED
    BY <1>1, <1>2, <1>3, <1>4, <2>1, <2>2
<1>6. top = heap_end + more /\ top \in Nat
  BY <1>1
<1> HIDE DEF more, last
<1>7. CASE blk[last].free
  <2>1. e = last
    BY <1>7 DEF Extension, last
  <2> DEFINE wide == blk[last].size + more
  <2>2. X = [blk EXCEPT ![last].size = @ + HEADER + (more - HEADER)]
    BY <1>7 DEF ExtendHeap, last, more
  <2>3. /\ DOMAIN X = DOMAIN blk
        /\ \A x \in DOMAIN blk :
             X[x] = [size |-> IF x = last THEN wide ELSE blk[x].size,
                     free |-> blk[x].free, next |-> blk[x].next,
                     prev |-> blk[x].prev]
    <3>1. blk[last].size + HEADER + (more - HEADER) = wide
      BY <1>1, <1>2, <1>4
    <3> QED
      BY <1>2, <1>4, <2>2, <3>1
  <2>4. wide \in Nat /\ wide >= size
    BY <1>1, <1>2, <1>4
  <2> HIDE DEF wide
  <2>5. \A x \in DOMAIN X :
          /\ X[x].size = (IF x = last THEN wide ELSE blk[x].size)
          /\ X[x].free = blk[x].free /\ X[x].next = blk[x].next
          /\ X[x].prev = blk[x].prev
          /\ EndIn(X, x) = IF x = last THEN top ELSE EndIn(blk, x)
    <3>1. last + HEADER + wide = top
      BY <1>1, <1>2, <1>3, <1>4, <1>6 DEF wide
    <3> QED
      BY <1>4, <2>3, <3>1 DEF EndIn, Payload
  <2>6. Shape(X)
    <3>1. \A x \in DOMAIN X : X[x] \in Header
      <4> TAKE x \in DOMAIN X
      <4>1. blk[x] \in Header
        BY <1>4, <2>3
      <4> QED
        BY <2>3, <2>4, <4>1 DEF Header
    <3> QED
      BY <1>4, <1>5, <2>3, <3>1 DEF Shape
  <2>7. Linked(X)
    <3>1. \A x \in DOMAIN X :
            /\ X[x].next # NULL => /\ X[x].next = EndIn(X, x) /\ X[x].next \in DOMAIN X
                                   /\ X[X[x].next].prev = x
            /\ X[x].prev # NULL => X[x].prev \in DOMAIN X /\ X[X[x].prev].next = x
            /\ X[x].prev = NULL => x = head
      BY <1>2, <1>4, <2>3, <2>5
    <3> QED
      BY <1>5, <2>3, <2>5, <3>1 DEF Linked
  <2>8. Ordered(X, top)
    BY <1>1, <1>2, <1>4, <1>5, <1>6, <2>3, <2>5 DEF Ordered
  <2>9. Merged(X)
    BY <1>4, <2>3, <2>5 DEF Merged
  <2>10. EndsAt(X, top)
    BY <1>4, <2>3, <2>5 DEF EndsAt
  <2>11. UsedOf(X) = UsedOf(blk)
    BY <2>3, <2>5 DEF UsedOf
  <2>12. \A x \in UsedOf(blk) : X[x].size = blk[x].size
    BY <1>7, <2>3, <2>5 DEF UsedOf
  <2>13. e \in DOMAIN X /\ X[e].free /\ X[e].size >= size
    BY <1>2, <1>7, <2>1, <2>3, <2>4, <2>5
  <2> QED
    BY <1>6, <2>6, <2>7, <2>8, <2>9, <2>10, <2>11, <2>12, <2>13 DEF ListOK
<1>8. CASE ~ blk[last].free
  <2> DEFINE C == [blk EXCEPT ![last].next = heap_end]
             new == [size |-> more - HEADER, free |-> TRUE, next |-> NULL,
                     prev |-> last]
  <2>1. e = heap_end
    BY <1>8 DEF Extension, last
  <2>2. X = With(C, heap_end, new)
    BY <1>8 DEF ExtendHeap, last, more
  <2>3. /\ DOMAIN C = DOMAIN blk
        /\ \A x \in DOMAIN blk :
             C[x] = [size |-> blk[x].size, free |-> blk[x].free,
                     next |-> IF x = last THEN heap_end ELSE blk[x].next,
                     prev |-> blk[x].prev]
    BY <1>2, <1>4
  <2> HIDE DEF C
  <2>4. /\ DOMAIN X = DOMAIN blk \cup {heap_end} /\ X[heap_end] = new
        /\ \A x \in DOMAIN blk : X[x] = C[x]
    BY <1>5, <2>2, <2>3 DEF With
  <2>5. \A x \in DOMAIN blk :
          /\ X[x].size = blk[x].size /\ X[x].free = blk[x].free
          /\ X[x].next = (IF x = last THEN heap_end ELSE blk[x].next)
          /\ X[x].prev = blk[x].prev
          /\ EndIn(X, x) = EndIn(blk, x)
    BY <2>3, <2>4 DEF EndIn
  <2>6. /\ X[heap_end].size = more - HEADER /\ X[heap_end].free
        /\ X[heap_end].next = NULL /\ X[heap_end].prev = last
        /\ EndIn(X, heap_end) = top
    <3>1. heap_end + HEADER + (more - HEADER) = top
      BY <1>1, <1>6
    <3> QED
      BY <2>4, <3>1 DEF EndIn, Payload
  <2>7. more - HEADER \in Nat /\ more - HEADER >= size
    BY <1>1
  <2>8. Shape(X)
    <3>1. \A x \in DOMAIN blk : X[x] \in Header
      <4> TAKE x \in DOMAIN blk
      <4>1. blk[x] \in Header
        BY <1>4
      <4> QED
        BY <2>3, <2>4, <4>1 DEF Header
    <3>2. X[heap_end] \in Header
      BY <1>5, <2>4, <2>7 DEF Header
    <3> QED
      BY <1>4, <1>5, <2>4, <3>1, <3>2 DEF Shape
  <2>9. Linked(X)
    <3>1. \A x \in DOMAIN blk :
            /\ X[x].next # NULL => /\ X[x].next = EndIn(X, x) /\ X[x].next \in DOMAIN X
                                   /\ X[X[x].next].prev = x
            /\ X[x].prev # NULL => X[x].prev \in DOMAIN X /\ X[X[x].prev].next = x
            /\ X[x].prev = NULL => x = head
      <4> TAKE x \in DOMAIN blk
      <4>1. CASE x = last
        BY <1>2, <1>3, <1>4, <1>5, <2>4, <2>5, <2>6, <4>1
      <4>2. blk[x].prev # last
        BY <1>1, <1>2, <1>4, <1>5
      <4>3. CASE x # last
        <5>1. X[x].next = blk[x].next /\ X[x].prev = blk[x].prev
          BY <2>5, <4>3
        <5>2. blk[x].next # NULL =>
                /\ blk[x].next = EndIn(X, x) /\ blk[x].next \in DOMAIN X
                /\ X[blk[x].next].prev = x
          BY <1>4, <2>4, <2>5
        <5>3. blk[x].prev # NULL =>
                blk[x].prev \in DOMAIN X /\ X[blk[x].prev].next = x
          BY <1>4, <2>4, <2>5, <4>2
        <5> QED
          BY <1>4, <5>1, <5>2, <5>3
      <4> QED
        BY <4>1, <4>3
    <3>2. /\ X[heap_end].next = NULL /\ X[heap_end].prev # NULL
          /\ X[heap_end].prev \in DOMAIN X /\ X[X[heap_end].prev].next = heap_end
      BY <1>2, <1>5, <2>4, <2>5, <2>6
    <3> QED
      BY <1>5, <2>4, <2>5, <3>1, <3>2 DEF Linked
  <2>10. Ordered(X, top)
    <3>1. \A x \in DOMAIN blk :
            /\ EndIn(X, x) <= top /\ X[x].next # NULL
            /\ \A d \in DOMAIN X : x < d => EndIn(X, x) <= d
      BY <1>1, <1>2, <1>4, <1>5, <1>6, <2>4, <2>5
    <3>2. /\ EndIn(X, heap_end) <= top
          /\ \A d \in DOMAIN X : d <= heap_end
      BY <1>4, <1>5, <1>6, <2>4, <2>6
    <3>3. \A d \in DOMAIN X : heap_end < d => EndIn(X, heap_end) <= d
      BY <1>4, <1>5, <2>4, <3>2
    <3> QED
      BY <2>4, <3>1, <3>2, <3>3 DEF Ordered
  <2>11. Merged(X)
    <3> SUFFICES ASSUME NEW x \in DOMAIN X, X[x].free, X[x].next # NULL
                 PROVE  ~ X[X[x].next].free
      BY DEF Merged
    <3>1. x \in DOMAIN blk /\ x # last
      BY <1>8, <2>4, <2>5, <2>6
    <3>2. /\ blk[x].free /\ blk[x].next # NULL /\ X[x].next = blk[x].next
          /\ blk[x].next \in DOMAIN blk
      BY <1>4, <2>5, <3>1
    <3>3. ~ blk[blk[x].next].free
      BY <3>1, <3>2 DEF Merged
    <3> QED
      BY <2>5, <3>2, <3>3
  <2>12. EndsAt(X, top)
    BY <1>4, <1>5, <2>4, <2>5, <2>6 DEF EndsAt
  <2>13. UsedOf(X) = UsedOf(blk)
    BY <2>4, <2>5, <2>6 DEF UsedOf
  <2>14. \A x \in UsedOf(blk) : X[x].size = blk[x].size
    BY <2>5 DEF UsedOf
  <2>15. e \in DOMAIN X /\ X[e].free /\ X[e].size >= size
    BY <2>1, <2>4, <2>6, <2>7
  <2> QED
    BY <1>6, <2>8, <2>9, <2>10, <2>11, <2>12, <2>13, <2>14, <2>15 DEF ListOK
<1> QED
  BY <1>7, <1>8

(***************************************************************************)
(* The calls.                                                              *)
(***************************************************************************)
(* What is held at P stays as it is.                                       *)
Kept(P) ==
  /\ P \subseteq DOMAIN owner /\ P \subseteq DOMAIN owner'
  /\ \A p \in P : /\ owner'[p] = owner[p]
                  /\ blk'[BlockOf(p)].size = blk[BlockOf(p)].size

(* Block b, which is handed out, is counted with what it holds. *)
Counted(b) == used_bytes' = used_bytes + blk'[b].size

LEMMA OwnerFacts ==
  ASSUME OwnerInv, NEW p \in DOMAIN owner
  PROVE  /\ p \in Nat /\ p = Payload(BlockOf(p)) /\ BlockOf(p) \in DOMAIN blk
         /\ ~ blk[BlockOf(p)].free /\ BlockOf(p) \in UsedOf(blk)
         /\ owner[p].task \in Task /\ owner[p].asked \in Nat \ {0}
         /\ blk[BlockOf(p)].size >= owner[p].asked
<1>1. p \in Nat /\ p = Payload(BlockOf(p))
  BY HeapAssumption DEF OwnerInv, Payload, BlockOf
<1>2. BlockOf(p) \in UsedBlocks /\ owner[p] \in [task : Task, asked : Nat \ {0}]
      /\ blk[BlockOf(p)].size >= owner[p].asked
  BY DEF OwnerInv
<1>3. BlockOf(p) \in DOMAIN blk /\ ~ blk[BlockOf(p)].free
  BY <1>2 DEF UsedBlocks
<1> QED
  BY <1>1, <1>2, <1>3 DEF UsedOf

LEMMA TakeKeeps ==
  ASSUME OwnerInv, NEW t \in Task, NEW n \in Nat \ {0}, NEW size \in Nat, size >= n,
         NEW B, NEW top \in Nat, ListOK(B, top), Merged(B),
         UsedOf(B) = UsedOf(blk), \A x \in UsedOf(blk) : B[x].size = blk[x].size,
         NEW b \in DOMAIN B, B[b].free, B[b].size >= size,
         Take(B, b, size, t, n)
  PROVE  /\ ListOK(blk', top) /\ Merged(blk')
         /\ \A e : EndsAt(B, e) => EndsAt(blk', e)
         /\ OwnerInv' /\ Kept(DOMAIN owner)
         /\ DOMAIN owner' = DOMAIN owner \cup {Payload(b)}
         /\ Payload(b) \notin DOMAIN owner
         /\ owner'[Payload(b)] = [task |-> t, asked |-> n]
         /\ blk'[b].size \in Nat /\ blk'[b].size >= size
         /\ Counted(b)
<1> DEFINE S == SplitBlock(B, b, size)
<1>1. /\ ListOK(S, top) /\ b \in DOMAIN S /\ S[b].size \in Nat
      /\ S[b].size >= size /\ S[b].free
      /\ \A e : EndsAt(B, e) => EndsAt(S, e)
      /\ UsedOf(S) = UsedOf(B)
      /\ \A x \in UsedOf(B) : S[x].size = B[x].size
      /\ \A x \in DOMAIN S :
           x # b /\ S[x].free /\ S[x].next # NULL => ~ S[S[x].next].free
  BY SplitKeeps
<1>2. /\ blk' = [S EXCEPT ![b].free = FALSE]
      /\ owner' = With(owner, Payload(b), [task |-> t, asked |-> n])
      /\ used_bytes' = used_bytes + S[b].size
  BY DEF Take
<1> HIDE DEF S
<1>3. /\ DOMAIN blk' = DOMAIN S
      /\ \A x \in DOMAIN S :
           /\ blk'[x] \in Header /\ blk'[x].size = S[x].size
           /\ blk'[x].next = S[x].next /\ blk'[x].prev = S[x].prev
           /\ blk'[x].free = IF x = b THEN FALSE ELSE S[x].free
  BY <1>1, <1>2, MarkFields
<1>4. ListOK(blk', top) /\ \A e : EndsAt(S, e) => EndsAt(blk', e)
  BY <1>1, <1>3, MarkKeeps
<1>5. Merged(blk')
  <2> SUFFICES ASSUME NEW x \in DOMAIN blk', blk'[x].free, blk'[x].next # NULL
               PROVE  ~ blk'[blk'[x].next].free
    BY DEF Merged
  <2>1. x \in DOMAIN S /\ x # b /\ S[x].free /\ blk'[x].next = S[x].next
        /\ S[x].next # NULL
    BY <1>3
  <2>2. ~ S[S[x].next].free /\ S[x].next \in DOMAIN S
    BY <1>1, <2>1, BlockFacts
  <2> QED
    BY <1>3, <2>1, <2>2
<1>6. b \notin UsedOf(blk) /\ b \in Nat
  BY BlockFacts DEF UsedOf
<1>7. Payload(b) \in Nat /\ BlockOf(Payload(b)) = b
  BY <1>6, HeapAssumption DEF Payload, BlockOf
<1>8. Payload(b) \notin DOMAIN owner
  BY <1>6, <1>7, OwnerFacts
<1>9. /\ DOMAIN owner' = DOMAIN owner \cup {Payload(b)}
      /\ owner'[Payload(b)] = [task |-> t, asked |-> n]
      /\ \A p \in DOMAIN owner : owner'[p] = owner[p]
  BY <1>2, <1>8 DEF With
<1>10. UsedOf(blk)' = UsedOf(blk) \cup {b}
  BY <1>1, <1>3 DEF UsedOf
<1>11. \A x \in UsedOf(blk) : blk'[x].size = blk[x].size
  BY <1>1, <1>3 DEF UsedOf
<1>12. Kept(DOMAIN owner)
  BY <1>9, <1>11, OwnerFacts DEF Kept
<1>13. OwnerInv'
  <2>1. UsedBlocks' = UsedBlocks \cup {b}
    BY <1>10 DEF UsedBlocks, UsedOf
  <2>2. UsedBlocks = {BlockOf(p) : p \in DOMAIN owner}
    BY DEF OwnerInv, UsedBlocksAreHeld
  <2>3. {BlockOf(p) : p \in DOMAIN owner'} = {BlockOf(p) : p \in DOMAIN owner} \cup {b}
    BY <1>7, <1>9
  <2>4. UsedBlocksAreHeld'
    BY <2>1, <2>2, <2>3 DEF UsedBlocksAreHeld, BlockOf
  <2>5. ASSUME NEW p \in DOMAIN owner'
        PROVE  /\ p \in Nat /\ BlockOf(p) \in UsedBlocks'
               /\ owner'[p] \in [task : Task, asked : Nat \ {0}]
               /\ blk'[BlockOf(p)].size >= owner'[p].asked
    <3>1. CASE p = Payload(b)
      <4>1. BlockOf(p) = b /\ p \in Nat
        BY <1>7, <3>1
      <4>2. owner'[p] = [task |-> t, asked |-> n]
        BY <1>9, <3>1
      <4>3. blk'[b].size \in Nat /\ blk'[b].size >= size
        BY <1>1, <1>3
      <4>4. blk'[BlockOf(p)].size >= owner'[p].asked
        BY <4>1, <4>2, <4>3
      <4> QED
        BY <2>1, <4>1, <4>2, <4>4
    <3>2. CASE p \in DOMAIN owner
      BY <1>9, <1>12, <2>1, <3>2 DEF OwnerInv, Kept
    <3> QED
      BY <1>9, <3>1, <3>2
  <2> QED
    BY <2>4, <2>5 DEF OwnerInv, BlockOf
<1>14. Counted(b)
  BY <1>1, <1>2, <1>3 DEF Counted
<1> QED
  BY <1>1, <1>3, <1>4, <1>5, <1>8, <1>9, <1>12, <1>13, <1>14

LEMMA InitHolds == Init => IInv
<1> SUFFICES ASSUME Init PROVE IInv
  OBVIOUS
<1> DEFINE S == HEAP_INIT_PAGES * PAGE_SIZE
<1>1. /\ PAGE_SIZE \in Nat /\ HEADER \in Nat /\ HEADER > 0 /\ S \in Nat
      /\ S - HEADER \in Nat /\ NULL \notin Nat
  <2>1. PAGE_SIZE \in Nat /\ HEAP_INIT_PAGES \in Nat /\ HEAP_INIT_PAGES >= 1
    BY HeapAssumption
  <2>2. S >= PAGE_SIZE
    BY <2>1
  <2> QED
    BY <2>1, <2>2, HeapAssumption
<1>2. blk = [b \in {0} |-> [size |-> S - HEADER, free |-> TRUE, next |-> NULL,
                            prev |-> NULL]] /\ heap_end = S
  BY DEF Init, head
<1> HIDE DEF S
<1>3. /\ DOMAIN blk = {0} /\ blk[0].size = S - HEADER /\ blk[0].free
      /\ blk[0].next = NULL /\ blk[0].prev = NULL /\ blk[0] \in Header
  BY <1>1, <1>2 DEF Header
<1>4. EndIn(blk, 0) = heap_end
  BY <1>1, <1>2, <1>3 DEF EndIn, Payload
<1>5. ListInv
  <2>1. \A b \in DOMAIN blk : b = 0 /\ b \in Nat
    BY <1>3
  <2>2. heap_end \in Nat
    BY <1>1, <1>2
  <2>3. Shape(blk)
    BY <1>3, <2>1 DEF Shape, head
  <2>4. Linked(blk)
    BY <1>3, <2>1 DEF Linked, head
  <2>5. Ordered(blk, heap_end)
    BY <1>3, <1>4, <2>1, <2>2 DEF Ordered
  <2>6. Merged(blk) /\ EndsAt(blk, heap_end)
    BY <1>3, <1>4, <2>1 DEF Merged, EndsAt
  <2> QED
    BY <2>3, <2>4, <2>5, <2>6 DEF ListInv
<1>6. PagesInv
  <2>1. frames \in 0..FRAMES /\ FRAMES \in Nat /\ HEAP_INIT_PAGES \in Nat
    BY HeapAssumption DEF Init
  <2>2. frames * PAGE_SIZE <= FRAMES * PAGE_SIZE
    BY <1>1, <2>1
  <2>3. HeapTop = S + FRAMES * PAGE_SIZE
    BY <1>1, <2>1 DEF HeapTop, S
  <2>4. frames * PAGE_SIZE \in Nat /\ FRAMES * PAGE_SIZE \in Nat
    BY <1>1, <2>1
  <2>5. heap_end + frames * PAGE_SIZE <= HeapTop
    BY <1>1, <1>2, <2>2, <2>3, <2>4
  <2>6. halted \in BOOLEAN
    BY DEF Init
  <2> QED
    BY <1>1, <1>2, <2>1, <2>5, <2>6 DEF PagesInv
<1>7. OwnerInv
  <2>1. DOMAIN owner = {}
    BY DEF Init
  <2> QED
    BY <1>3, <2>1 DEF OwnerInv, UsedBlocksAreHeld, UsedBlocks
<1>8. CallInv
  BY DEF Init, CallInv
<1> QED
  BY <1>5, <1>6, <1>7, <1>8 DEF IInv

(* kmalloc.                                                                *)
LEMMA KmallocKeeps ==
  ASSUME ListInv, PagesInv, OwnerInv, NEW t \in Task, NEW n \in Nat,
         Kmalloc(t, n), NEW np, np = KmallocReturns(n)
  PROVE  /\ ListInv' /\ PagesInv' /\ OwnerInv' /\ Kept(DOMAIN owner)
         /\ np = NULL => owner' = owner /\ used_bytes' = used_bytes
         /\ np # NULL =>
              /\ np \notin DOMAIN owner /\ DOMAIN owner' = DOMAIN owner \cup {np}
              /\ owner'[np].task = t
              /\ Counted(BlockOf(np))
              /\ blk'[BlockOf(np)].size \in Nat
              /\ blk'[BlockOf(np)].size >= AlignUp(n, ALIGN)
<1> DEFINE size == AlignUp(n, ALIGN)
<1>1. size \in Nat /\ size >= n
  BY AlignUpBounds, HeapAssumption
<1>2. /\ ListOK(blk, heap_end) /\ Merged(blk) /\ heap_end \in Nat
      /\ frames > 0 => EndsAt(blk, heap_end)
  BY DEF ListInv, PagesInv, ListOK
<1>3. /\ frames \in Nat /\ frames \in 0..FRAMES /\ FRAMES \in Nat
      /\ PAGE_SIZE \in Nat /\ PAGE_SIZE > 0
      /\ heap_end + frames * PAGE_SIZE <= HeapTop /\ HeapTop \in Int
  BY HeapAssumption DEF PagesInv, HeapTop
<1> HIDE DEF size
<1>4. CASE KmallocFound(t, n)
  <2> DEFINE b == FirstFit(size)
  <2>1. /\ n > 0 /\ b # NULL /\ Take(blk, b, size, t, n)
        /\ UNCHANGED <<heap_end, frames, halted>>
    BY <1>4 DEF KmallocFound, size
  <2>2. b \in DOMAIN blk /\ blk[b].free /\ blk[b].size >= size
    BY <1>1, <1>2, <2>1, FirstFitFinds DEF ListOK
  <2>3. np = Payload(b)
    BY <2>1 DEF KmallocReturns, size
  <2> HIDE DEF b
  <2>4. /\ ListOK(blk', heap_end) /\ Merged(blk')
        /\ \A e : EndsAt(blk, e) => EndsAt(blk', e)
        /\ OwnerInv' /\ Kept(DOMAIN owner)
        /\ DOMAIN owner' = DOMAIN owner \cup {Payload(b)}
        /\ Payload(b) \notin DOMAIN owner
        /\ owner'[Payload(b)] = [task |-> t, asked |-> n]
        /\ blk'[b].size \in Nat /\ blk'[b].size >= size
        /\ Counted(b)
    BY <1>1, <1>2, <2>1, <2>2, TakeKeeps
  <2>5. BlockOf(np) = b /\ np # NULL
    BY <1>2, <2>2, <2>3, BlockFacts, HeapAssumption DEF BlockOf, Payload
  <2>6. ListInv'
    BY <1>2, <2>1, <2>4 DEF ListInv, ListOK
  <2>7. PagesInv'
    BY <2>1 DEF PagesInv
  <2> QED
    BY <2>3, <2>4, <2>5, <2>6, <2>7 DEF size
<1>5. ASSUME n > 0 PROVE
        /\ Growth(size) \in Growths
        /\ GrownBy(Growth(size), Pages(size))
        /\ Pages(size) * PAGE_SIZE \in Nat \ {0}
        /\ Growth(size).frames * PAGE_SIZE \in Nat
        /\ frames * PAGE_SIZE \in Nat
  <2>1. /\ Growth(size) \in Growths /\ GrownBy(Growth(size), Pages(size))
        /\ Pages(size) \in Nat \ {0}
    BY <1>1, <1>2, <1>3, PagesCover, GrowthBounds DEF Growth
  <2>2. Growth(size).frames \in Nat
    BY <1>3, <2>1 DEF Growths
  <2>3. Pages(size) * PAGE_SIZE \in Nat \ {0}
    BY <1>3, <2>1
  <2> QED
    BY <1>3, <2>1, <2>2, <2>3
<1>6. ASSUME n > 0, heap_end' = Growth(size).end, frames' = Growth(size).frames,
             halted' \in BOOLEAN
      PROVE  PagesInv' /\ heap_end' >= heap_end
  <2>1. Growth(size).end \in Nat /\ Growth(size).frames \in 0..frames
    BY <1>5, <1>6 DEF Growths
  <2>2. /\ Growth(size).end + Growth(size).frames * PAGE_SIZE
             <= heap_end + frames * PAGE_SIZE
        /\ Growth(size).end >= heap_end
    BY <1>5, <1>6 DEF GrownBy
  <2>3. HeapTop' = HeapTop
    BY DEF HeapTop
  <2>4. heap_end' + frames' * PAGE_SIZE <= HeapTop
    BY <1>2, <1>3, <1>5, <1>6, <2>1, <2>2
  <2> QED
    BY <1>3, <1>6, <2>1, <2>2, <2>3, <2>4 DEF PagesInv
<1>7. CASE KmallocExtends(t, n)
  <2> DEFINE X == ExtendHeap(blk, Pages(size))
             e == Extension
             top == heap_end + Pages(size) * PAGE_SIZE
  <2>1. /\ n > 0 /\ FirstFit(size) = NULL /\ Growth(size).result = "ok"
        /\ Take(X, e, size, t, n)
        /\ heap_end' = Growth(size).end /\ frames' = Growth(size).frames
        /\ halted' = halted
    BY <1>7 DEF KmallocExtends, size
  <2>2. /\ Growth(size).end = top /\ frames > 0
    <3>1. Growth(size).end = top
      BY <1>5, <2>1 DEF GrownBy
    <3>2. Growth(size).end + Growth(size).frames * PAGE_SIZE
            <= heap_end + frames * PAGE_SIZE
      BY <1>5, <2>1 DEF GrownBy
    <3>3. frames * PAGE_SIZE > 0
      BY <1>2, <1>5, <2>1, <3>1, <3>2
    <3> QED
      BY <1>3, <3>1, <3>3
  <2>3. np = Payload(e)
    BY <2>1 DEF KmallocReturns, size
  <2>4. /\ top \in Nat /\ ListOK(X, top) /\ Merged(X) /\ EndsAt(X, top)
        /\ e \in DOMAIN X /\ X[e].free /\ X[e].size >= size
        /\ UsedOf(X) = UsedOf(blk)
        /\ \A x \in UsedOf(blk) : X[x].size = blk[x].size
    BY <1>1, <1>2, <2>2, ExtendKeeps
  <2> HIDE DEF X, e, top
  <2>5. /\ ListOK(blk', top) /\ Merged(blk')
        /\ \A c : EndsAt(X, c) => EndsAt(blk', c)
        /\ OwnerInv' /\ Kept(DOMAIN owner)
        /\ DOMAIN owner' = DOMAIN owner \cup {Payload(e)}
        /\ Payload(e) \notin DOMAIN owner
        /\ owner'[Payload(e)] = [task |-> t, asked |-> n]
        /\ blk'[e].size \in Nat /\ blk'[e].size >= size
        /\ Counted(e)
    <3>1. n \in Nat \ {0}
      BY <2>1
    <3>2. /\ top \in Nat /\ ListOK(X, top) /\ Merged(X) /\ UsedOf(X) = UsedOf(blk)
          /\ \A x \in UsedOf(blk) : X[x].size = blk[x].size
          /\ e \in DOMAIN X /\ X[e].free /\ X[e].size >= size
          /\ Take(X, e, size, t, n)
      BY <2>1, <2>4
    <3>3. Counted(e)
      BY <1>1, <3>1, <3>2, TakeKeeps
    <3>4. \A c : EndsAt(X, c) => EndsAt(blk', c)
      BY <1>1, <3>1, <3>2, TakeKeeps
    <3>5. /\ ListOK(blk', top) /\ Merged(blk') /\ OwnerInv' /\ Kept(DOMAIN owner)
      BY <1>1, <3>1, <3>2, TakeKeeps
    <3>6. /\ DOMAIN owner' = DOMAIN owner \cup {Payload(e)}
          /\ Payload(e) \notin DOMAIN owner
          /\ owner'[Payload(e)] = [task |-> t, asked |-> n]
          /\ blk'[e].size \in Nat /\ blk'[e].size >= size
      BY <1>1, <3>1, <3>2, TakeKeeps
    <3> QED
      BY <3>3, <3>4, <3>5, <3>6
  <2>6. BlockOf(np) = e /\ np # NULL
    BY <2>3, <2>4, BlockFacts, HeapAssumption DEF BlockOf, Payload
  <2>7. ListInv'
    BY <2>1, <2>2, <2>4, <2>5 DEF ListInv, ListOK
  <2>8. PagesInv'
    BY <1>6, <2>1 DEF PagesInv
  <2> QED
    BY <2>3, <2>5, <2>6, <2>7, <2>8 DEF size
<1>8. CASE KmallocFails(n)
  <2>1. /\ n > 0 /\ FirstFit(size) = NULL /\ Growth(size).result # "ok"
        /\ heap_end' = Growth(size).end /\ frames' = Growth(size).frames
        /\ halted' = (Growth(size).result = "fault")
        /\ blk' = blk /\ owner' = owner /\ used_bytes' = used_bytes
    BY <1>8 DEF KmallocFails, size
  <2>2. PagesInv' /\ heap_end' >= heap_end /\ heap_end' \in Nat
    <3>1. halted' \in BOOLEAN
      BY <2>1
    <3> QED
      BY <1>6, <2>1, <3>1 DEF PagesInv
  <2>3. frames' = 0
    BY <1>5, <2>1 DEF GrownBy
  <2>4. Ordered(blk, heap_end')
    <3>1. \A x \in DOMAIN blk : EndIn(blk, x) <= heap_end'
      BY <1>2, <2>2, BlockFacts
    <3> QED
      BY <1>2, <3>1 DEF Ordered, ListOK
  <2>5. ListInv'
    BY <1>2, <2>1, <2>3, <2>4 DEF ListInv, ListOK
  <2>6. OwnerInv' /\ Kept(DOMAIN owner)
    BY <2>1 DEF OwnerInv, UsedBlocksAreHeld, UsedBlocks, Kept
  <2>7. np = NULL
    BY <2>1 DEF KmallocReturns, size
  <2> QED
    BY <2>1, <2>2, <2>5, <2>6, <2>7
<1>9. CASE KmallocZero(n)
  <2>1. n = 0 /\ UNCHANGED <<blk, heap_end, used_bytes, frames, halted, owner>>
    BY <1>9 DEF KmallocZero
  <2>2. ListInv' /\ PagesInv'
    BY <2>1 DEF ListInv, PagesInv
  <2>3. OwnerInv' /\ Kept(DOMAIN owner)
    BY <2>1 DEF OwnerInv, UsedBlocksAreHeld, UsedBlocks, Kept
  <2>4. np = NULL
    BY <2>1 DEF KmallocReturns
  <2> QED
    BY <2>1, <2>2, <2>3, <2>4
<1> QED
  BY <1>4, <1>7, <1>8, <1>9 DEF Kmalloc

(* kfree.                                                                  *)
LEMMA KfreeKeeps ==
  ASSUME ListInv, PagesInv, OwnerInv, NEW p \in DOMAIN owner, Kfree(p)
  PROVE  /\ ListInv' /\ PagesInv' /\ OwnerInv'
         /\ DOMAIN owner' = DOMAIN owner \ {p} /\ Kept(DOMAIN owner \ {p})
         /\ used_bytes' = used_bytes - blk[BlockOf(p)].size
<1> DEFINE b == BlockOf(p)
<1>1. /\ b \in UsedOf(blk) /\ blk' = FreedList(blk, b)
      /\ owner' = Without(owner, p) /\ UNCHANGED <<heap_end, frames, halted>>
      /\ used_bytes' = used_bytes - blk[b].size
  BY OwnerFacts DEF Kfree, FreedList
<1>2. ListOK(blk, heap_end) /\ Merged(blk) /\ heap_end \in Nat
  BY DEF ListInv, PagesInv, ListOK
<1>3. /\ ListOK(blk', heap_end) /\ Merged(blk')
      /\ \A e : EndsAt(blk, e) => EndsAt(blk', e)
      /\ UsedOf(blk') = UsedOf(blk) \ {b}
      /\ \A x \in UsedOf(blk') : blk'[x].size = blk[x].size
  <2> HIDE DEF b
  <2> QED
    BY <1>1, <1>2, FreedKeeps
<1>4. ListInv' /\ PagesInv'
  BY <1>1, <1>3 DEF ListInv, ListOK, PagesInv
<1>5. /\ DOMAIN owner' = DOMAIN owner \ {p}
      /\ \A q \in DOMAIN owner' : owner'[q] = owner[q]
  BY <1>1 DEF Without
<1>6. \A q \in DOMAIN owner' : BlockOf(q) \in UsedOf(blk') /\ q \in DOMAIN owner
  <2> TAKE q \in DOMAIN owner'
  <2>1. q \in DOMAIN owner /\ q # p
    BY <1>5
  <2>2. BlockOf(q) # b
    BY <2>1, OwnerFacts DEF b
  <2> QED
    BY <1>3, <2>1, <2>2, OwnerFacts
<1>7. Kept(DOMAIN owner \ {p})
  BY <1>3, <1>5, <1>6 DEF Kept
<1>8. OwnerInv'
  <2>1. UsedBlocks' = UsedBlocks \ {b}
    BY <1>3 DEF UsedBlocks, UsedOf
  <2>2. UsedBlocks = {BlockOf(q) : q \in DOMAIN owner}
    BY DEF OwnerInv, UsedBlocksAreHeld
  <2>3. \A q \in DOMAIN owner' : BlockOf(q) \in UsedBlocks'
    BY <1>6 DEF UsedOf, UsedBlocks
  <2>4. UsedBlocks' = {BlockOf(q) : q \in DOMAIN owner'}
    BY <1>5, <2>1, <2>2, <2>3
  <2>5. UsedBlocksAreHeld'
    BY <2>4 DEF UsedBlocksAreHeld, BlockOf
  <2>6. \A q \in DOMAIN owner' :
          /\ q \in Nat /\ BlockOf(q) \in UsedBlocks'
          /\ owner'[q] \in [task : Task, asked : Nat \ {0}]
          /\ blk'[BlockOf(q)].size >= owner'[q].asked
    BY <1>3, <1>5, <1>6, <1>7, <2>3 DEF OwnerInv, Kept
  <2> QED
    BY <2>5, <2>6 DEF OwnerInv, BlockOf
<1> QED
  BY <1>1, <1>4, <1>5, <1>7, <1>8

(***************************************************************************)
(* The tasks.                                                              *)
(***************************************************************************)

(* The other tasks' calls are not disturbed by a step of t that leaves     *)
(* what they hold as it is.                                                *)
LEMMA OthersKeep ==
  ASSUME CallInv, NEW t \in Task, NEW P, Kept(P),
         \A u \in Task \ {t} : Held(u) \subseteq P,
         DOMAIN call' = Task, \A u \in Task \ {t} : call'[u] = call[u],
         call'[t] = Idle \/ Allocating(t)' \/ Copying(t)'
  PROVE  CallInv'
<1> SUFFICES ASSUME NEW u \in Task, u # t, call[u] # Idle
             PROVE  Allocating(u)' \/ Copying(u)'
  BY DEF CallInv
<1>1. call'[u] = call[u]
  OBVIOUS
<1>2. Held(u) \subseteq Held(u)'
  BY DEF Held, Kept
<1>3. \A p \in Held(u) : blk'[BlockOf(p)].size = blk[BlockOf(p)].size
  BY DEF Kept
<1>4. CASE Allocating(u)
  BY <1>1, <1>2, <1>3, <1>4 DEF Allocating, BlockOf, AlignUp
<1>5. CASE Copying(u)
  BY <1>1, <1>2, <1>3, <1>5 DEF Copying, BlockOf
<1> QED
  BY <1>4, <1>5 DEF CallInv

LEMMA MallocKeeps ==
  ASSUME IInv, NEW t \in Task, Malloc(t)
  PROVE  IInv'
<1>1. PICK n \in Nat : Kmalloc(t, n)
  BY HeapAssumption DEF Malloc
<1>2. ListInv' /\ PagesInv' /\ OwnerInv' /\ Kept(DOMAIN owner)
  BY <1>1, KmallocKeeps DEF IInv
<1>3. call' = call /\ call[t] = Idle
  BY DEF Malloc
<1>4. CallInv'
  <2>1. \A u \in Task \ {t} : Held(u) \subseteq DOMAIN owner
    BY DEF Held
  <2>2. DOMAIN call' = Task /\ CallInv
    BY <1>3 DEF IInv, CallInv
  <2> QED
    BY <1>2, <1>3, <2>1, <2>2, OthersKeep
<1> QED
  BY <1>2, <1>4 DEF IInv

LEMMA FreeKeeps ==
  ASSUME IInv, NEW t \in Task, Free(t)
  PROVE  IInv'
<1>1. PICK p \in Held(t) : Kfree(p)
  BY DEF Free
<1>2. p \in DOMAIN owner /\ owner[p].task = t
  BY DEF Held
<1>3. /\ ListInv' /\ PagesInv' /\ OwnerInv' /\ Kept(DOMAIN owner \ {p})
  BY <1>1, <1>2, KfreeKeeps DEF IInv
<1>4. call' = call /\ call[t] = Idle
  BY DEF Free
<1>5. CallInv'
  <2>1. \A u \in Task \ {t} : Held(u) \subseteq DOMAIN owner \ {p}
    BY <1>2 DEF Held
  <2>2. DOMAIN call' = Task /\ CallInv
    BY <1>4 DEF IInv, CallInv
  <2> QED
    BY <1>3, <1>4, <2>1, <2>2, OthersKeep
<1> QED
  BY <1>3, <1>5 DEF IInv

LEMMA ReallocTestKeeps ==
  ASSUME IInv, NEW t \in Task, ReallocTest(t)
  PROVE  IInv'
<1>1. PICK p \in Held(t), n \in Request \ {0} :
        /\ blk[BlockOf(p)].size < AlignUp(n, ALIGN)
        /\ call' = [call EXCEPT ![t] = [at |-> "alloc", ptr |-> p, size |-> n]]
  BY DEF ReallocTest
<1>2. /\ UNCHANGED <<blk, heap_end, used_bytes, frames, halted, owner>>
      /\ DOMAIN call = Task
  BY DEF ReallocTest, IInv, CallInv
<1>3. ListInv' /\ PagesInv' /\ OwnerInv'
  BY <1>2 DEF IInv, ListInv, PagesInv, OwnerInv, UsedBlocksAreHeld, UsedBlocks
<1>4. p \in DOMAIN owner /\ p \in Nat /\ n \in Nat \ {0}
  BY OwnerFacts, HeapAssumption DEF Held, IInv
<1>5. call'[t] = [at |-> "alloc", ptr |-> p, size |-> n] /\ DOMAIN call' = Task
      /\ \A u \in Task \ {t} : call'[u] = call[u]
  BY <1>1, <1>2
<1>6. Allocating(t)'
  <2>1. p \in Held(t)'
    BY <1>2 DEF Held
  <2>2. blk'[BlockOf(p)].size < AlignUp(n, ALIGN)
    BY <1>1, <1>2
  <2> QED
    BY <1>4, <1>5, <2>1, <2>2 DEF Allocating, BlockOf, AlignUp
<1>7. CallInv'
  <2>1. Kept(DOMAIN owner) /\ \A u \in Task \ {t} : Held(u) \subseteq DOMAIN owner
    BY <1>2 DEF Kept, Held
  <2>2. CallInv
    BY DEF IInv
  <2> QED
    BY <1>5, <1>6, <2>1, <2>2, OthersKeep
<1> QED
  BY <1>3, <1>7 DEF IInv

LEMMA ReallocAllocKeeps ==
  ASSUME IInv, NEW t \in Task, ReallocAlloc(t)
  PROVE  IInv'
<1> DEFINE n == call[t].size
           np == KmallocReturns(n)
           ptr == call[t].ptr
<1>1. /\ Kmalloc(t, n) /\ call[t].at = "alloc"
      /\ call' = [call EXCEPT ![t] = IF np = NULL THEN Idle
                                     ELSE [at |-> "copy", ptr |-> ptr, np |-> np]]
  BY DEF ReallocAlloc
<1>2. Allocating(t) /\ DOMAIN call = Task
  BY <1>1 DEF IInv, CallInv, Idle, Copying
<1>3. /\ n \in Nat \ {0} /\ ptr \in Held(t) /\ ptr \in Nat
      /\ blk[BlockOf(ptr)].size < AlignUp(n, ALIGN)
  BY <1>2 DEF Allocating
<1> HIDE DEF n, np, ptr
<1>4. /\ ListInv' /\ PagesInv' /\ OwnerInv' /\ Kept(DOMAIN owner)
      /\ np # NULL =>
           /\ np \in DOMAIN owner' /\ owner'[np].task = t
           /\ blk'[BlockOf(np)].size \in Nat
           /\ blk'[BlockOf(np)].size >= AlignUp(n, ALIGN)
  <2>1. np = KmallocReturns(n)
    BY DEF np
  <2> QED
    BY <1>1, <1>3, <2>1, KmallocKeeps DEF IInv
<1>5. /\ call'[t] = IF np = NULL THEN Idle
                    ELSE [at |-> "copy", ptr |-> ptr, np |-> np]
      /\ DOMAIN call' = Task /\ \A u \in Task \ {t} : call'[u] = call[u]
  BY <1>1, <1>2
<1>6. ptr \in DOMAIN owner /\ owner[ptr].task = t
  BY <1>3 DEF Held
<1>7. np # NULL => Copying(t)'
  <2> SUFFICES ASSUME np # NULL PROVE Copying(t)'
    OBVIOUS
  <2>1. call'[t] = [at |-> "copy", ptr |-> ptr, np |-> np]
    BY <1>5
  <2>2. np \in Nat
    BY <1>4 DEF OwnerInv
  <2>3. ptr \in Held(t)' /\ np \in Held(t)'
    BY <1>4, <1>6 DEF Held, Kept
  <2>4. blk'[BlockOf(ptr)].size = blk[BlockOf(ptr)].size
    BY <1>4, <1>6 DEF Kept
  <2>5. blk[BlockOf(ptr)].size \in Nat /\ AlignUp(n, ALIGN) \in Nat
    <3>1. BlockOf(ptr) \in DOMAIN blk
      BY <1>6, OwnerFacts DEF IInv
    <3>2. blk[BlockOf(ptr)] \in Header
      BY <3>1 DEF IInv, ListInv, Shape
    <3> QED
      BY <1>3, <3>2, AlignUpBounds, HeapAssumption DEF Header
  <2>6. blk'[BlockOf(ptr)].size < blk'[BlockOf(np)].size
    BY <1>3, <1>4, <2>4, <2>5
  <2> QED
    BY <1>3, <2>1, <2>2, <2>3, <2>6 DEF Copying, BlockOf
<1>8. CallInv'
  <2>1. \A u \in Task \ {t} : Held(u) \subseteq DOMAIN owner
    BY DEF Held
  <2>2. call'[t] = Idle \/ Copying(t)'
    BY <1>5, <1>7
  <2>3. CallInv
    BY DEF IInv
  <2> QED
    BY <1>4, <1>5, <2>1, <2>2, <2>3, OthersKeep
<1> QED
  BY <1>4, <1>8 DEF IInv

LEMMA ReallocFreeKeeps ==
  ASSUME IInv, NEW t \in Task, ReallocFree(t)
  PROVE  IInv'
<1> DEFINE p == call[t].ptr
<1>1. /\ Kfree(p) /\ call[t].at = "copy"
      /\ call' = [call EXCEPT ![t] = Idle]
  BY DEF ReallocFree
<1>2. Copying(t) /\ DOMAIN call = Task
  BY <1>1 DEF IInv, CallInv, Idle, Allocating
<1>3. p \in DOMAIN owner /\ owner[p].task = t
  BY <1>2 DEF Copying, Held
<1>4. /\ ListInv' /\ PagesInv' /\ OwnerInv' /\ Kept(DOMAIN owner \ {p})
  BY <1>1, <1>3, KfreeKeeps DEF IInv
<1>5. call'[t] = Idle /\ DOMAIN call' = Task
      /\ \A u \in Task \ {t} : call'[u] = call[u]
  BY <1>1, <1>2
<1>6. CallInv'
  <2>1. \A u \in Task \ {t} : Held(u) \subseteq DOMAIN owner \ {p}
    BY <1>3 DEF Held
  <2>2. CallInv
    BY DEF IInv
  <2> QED
    BY <1>4, <1>5, <2>1, <2>2, OthersKeep
<1> QED
  BY <1>4, <1>6 DEF IInv

LEMMA NextKeeps == IInv /\ [Next]_vars => IInv'
<1> SUFFICES ASSUME IInv, [Next]_vars PROVE IInv'
  OBVIOUS
<1>1. CASE Next
  BY <1>1, MallocKeeps, FreeKeeps, ReallocTestKeeps, ReallocAllocKeeps,
     ReallocFreeKeeps DEF Next
<1>2. CASE UNCHANGED vars
  BY <1>2 DEF vars, IInv, ListInv, PagesInv, OwnerInv, UsedBlocksAreHeld,
     UsedBlocks, CallInv, Allocating, Copying, Held, HeapTop, BlockOf, AlignUp
<1> QED
  BY <1>1, <1>2

-----------------------------------------------------------------------------
(* The inductive invariant of heap.c: the list from HEAP_BASE to heap_end, *)
(* the frames behind it, the blocks the callers hold and what each call of *)
(* krealloc has found out.                                                 *)
THEOREM Invariance == Spec => []IInv
BY InitHolds, NextKeeps, PTL DEF Spec

(* After any sequence of calls by any number of tasks, the blocks tile the *)
(* heap, prev is the inverse of next, no two free blocks are neighbours    *)
(* and a block is in use exactly while a caller holds its pointer.         *)
THEOREM Soundness == Spec => []HeapIsSound
<1>1. IInv => HeapIsSound
  <2> SUFFICES ASSUME IInv PROVE HeapIsSound
    OBVIOUS
  <2>1. TypeOK
    <3>1. \A p \in DOMAIN owner : BlockOf(p) \in DOMAIN blk /\ owner[p].task \in Task
      BY OwnerFacts DEF IInv
    <3>2. \A t \in Task : call[t].at \in {"idle", "alloc", "copy"}
      BY DEF IInv, CallInv, Idle, Allocating, Copying
    <3> QED
      BY <3>1, <3>2 DEF IInv, TypeOK, ListInv, PagesInv, Shape
  <2>2. BlocksTileTheHeap
    <3>1. \A b \in DOMAIN blk : End(b) = EndIn(blk, b)
      BY DEF End, EndIn
    <3> QED
      BY <3>1 DEF IInv, ListInv, Linked, Ordered, EndsAt, BlocksTileTheHeap
  <2>3. NoAdjacentFree
    BY DEF IInv, ListInv, Merged, NoAdjacentFree
  <2> QED
    BY <2>1, <2>2, <2>3 DEF IInv, OwnerInv, HeapIsSound
<1> QED
  BY <1>1, Invariance, PTL

(* krealloc copies without a lock, and yet never more than the new block   *)
(* holds and never from a block that is no longer its own.                 *)
THEOREM CopiesFit == Spec => []CopyFits
<1>1. IInv => CopyFits
  BY DEF IInv, CallInv, CopyFits, Idle, Allocating, Copying
<1> QED
  BY <1>1, Invariance, PTL

(***************************************************************************)
(* The regions that callers hold are what Allocator promises.              *)
(***************************************************************************)
Region(p) ==
  /\ p \in 0..HeapTop
  /\ Live[p] \in [length : 0..HeapTop, asked : (0..HeapTop) \ {0}]
  /\ Live[p].length >= Live[p].asked
  /\ p + Live[p].length <= HeapTop
  /\ \A q \in DOMAIN owner :
       q # p => p + Live[p].length <= q \/ q + Live[q].length <= p
Regions == \A p \in DOMAIN owner : Region(p)

LEMMA RegionsSound == IInv => Regions
<1> SUFFICES ASSUME IInv, NEW p \in DOMAIN owner PROVE Region(p)
  BY DEF Regions
<1>1. /\ ListOK(blk, heap_end) /\ heap_end \in Nat /\ heap_end <= HeapTop
      /\ HeapTop \in Int /\ HEADER \in Nat /\ OwnerInv
  <2>1. frames * PAGE_SIZE \in Nat /\ HeapTop \in Int /\ HEADER \in Nat
    BY HeapAssumption DEF IInv, PagesInv, HeapTop
  <2> QED
    BY <2>1 DEF IInv, ListInv, PagesInv, ListOK
<1>2. \A q \in DOMAIN owner :
        /\ BlockOf(q) \in DOMAIN blk /\ q = Payload(BlockOf(q)) /\ q \in Nat
        /\ BlockOf(q) \in Nat /\ blk[BlockOf(q)].size \in Nat
        /\ q + blk[BlockOf(q)].size = EndIn(blk, BlockOf(q))
        /\ EndIn(blk, BlockOf(q)) <= heap_end
        /\ Live[q] = [length |-> blk[BlockOf(q)].size, asked |-> owner[q].asked]
        /\ Live[q].length = blk[BlockOf(q)].size /\ Live[q].asked = owner[q].asked
        /\ q + Live[q].length = EndIn(blk, BlockOf(q))
  <2> TAKE q \in DOMAIN owner
  <2>1. /\ BlockOf(q) \in DOMAIN blk /\ q = Payload(BlockOf(q)) /\ q \in Nat
    BY <1>1, OwnerFacts
  <2>2. /\ BlockOf(q) \in Nat /\ blk[BlockOf(q)].size \in Nat
        /\ EndIn(blk, BlockOf(q)) <= heap_end
    BY <1>1, <2>1, BlockFacts
  <2>3. q + blk[BlockOf(q)].size = EndIn(blk, BlockOf(q))
    BY <2>1 DEF EndIn
  <2>4. Live[q] = [length |-> blk[BlockOf(q)].size, asked |-> owner[q].asked]
    BY DEF Live
  <2>5. Live[q].length = blk[BlockOf(q)].size /\ Live[q].asked = owner[q].asked
    BY <2>4
  <2>6. q + Live[q].length = EndIn(blk, BlockOf(q))
    BY <2>3, <2>5
  <2> QED
    BY <2>1, <2>2, <2>3, <2>4, <2>5, <2>6
<1>3. owner[p].asked \in Nat \ {0} /\ blk[BlockOf(p)].size >= owner[p].asked
  BY <1>1, OwnerFacts
<1>4. /\ p \in 0..HeapTop /\ blk[BlockOf(p)].size \in 0..HeapTop
      /\ p + blk[BlockOf(p)].size <= HeapTop
      /\ owner[p].asked \in (0..HeapTop) \ {0}
  <2>1. /\ p \in Nat /\ blk[BlockOf(p)].size \in Nat
        /\ p + blk[BlockOf(p)].size <= heap_end
    BY <1>2
  <2> HIDE DEF HeapTop
  <2> QED
    BY <1>1, <1>3, <2>1
<1>5. ASSUME NEW q \in DOMAIN owner, q # p
      PROVE  \/ p + Live[p].length <= q
             \/ q + Live[q].length <= p
  <2> DEFINE b == BlockOf(p)
             d == BlockOf(q)
  <2>1. /\ p = b + HEADER /\ q = d + HEADER /\ b \in Nat /\ d \in Nat
        /\ b \in DOMAIN blk /\ d \in DOMAIN blk
        /\ p + Live[p].length = EndIn(blk, b) /\ q + Live[q].length = EndIn(blk, d)
    <3>1. \A r \in DOMAIN owner :
            /\ BlockOf(r) \in DOMAIN blk /\ r = BlockOf(r) + HEADER
            /\ BlockOf(r) \in Nat /\ r + Live[r].length = EndIn(blk, BlockOf(r))
      <4> TAKE r \in DOMAIN owner
      <4> QED
        BY <1>2 DEF Payload
    <3> QED
      BY <1>5, <3>1
  <2> HIDE DEF b, d
  <2>2. b < d \/ d < b
    BY <1>1, <1>5, <2>1
  <2>3. /\ b < d => EndIn(blk, b) <= d
        /\ d < b => EndIn(blk, d) <= b
    BY <1>1, <2>1, BlockFacts
  <2>4. EndIn(blk, b) \in Nat /\ EndIn(blk, d) \in Nat
    BY <1>1, <2>1, BlockFacts
  <2> QED
    BY <1>1, <2>1, <2>2, <2>3, <2>4
<1>6. /\ Live[p] \in [length : 0..HeapTop, asked : (0..HeapTop) \ {0}]
      /\ Live[p].length >= Live[p].asked
  <2>1. Live[p] = [length |-> blk[BlockOf(p)].size, asked |-> owner[p].asked]
    BY <1>2
  <2> HIDE DEF HeapTop
  <2>2. Live[p] \in [length : 0..HeapTop, asked : (0..HeapTop) \ {0}]
    BY <1>4, <2>1
  <2>3. Live[p].length = blk[BlockOf(p)].size /\ Live[p].asked = owner[p].asked
    BY <2>1
  <2>4. Live[p].length >= Live[p].asked
    BY <1>3, <2>3
  <2> QED
    BY <2>2, <2>4
<1>7. p + Live[p].length <= HeapTop
  BY <1>2, <1>4
<1> QED
  BY <1>4, <1>5, <1>6, <1>7 DEF Region

LEMMA KmallocRefines ==
  ASSUME IInv, IInv', NEW t \in Task, NEW n \in Nat, Kmalloc(t, n),
         NEW np, np = KmallocReturns(n)
  PROVE  UNCHANGED Live \/ \E a \in 0..HeapTop : Abstract!Grant(a)
<1>1. /\ Kept(DOMAIN owner)
      /\ np = NULL => owner' = owner
      /\ np # NULL => np \notin DOMAIN owner /\ DOMAIN owner' = DOMAIN owner \cup {np}
  BY KmallocKeeps DEF IInv
<1>2. \A p \in DOMAIN owner : Live'[p] = Live[p]
  BY <1>1 DEF Kept, Live, BlockOf
<1>3. DOMAIN Live = DOMAIN owner /\ DOMAIN Live' = DOMAIN owner'
  BY DEF Live
<1>4. CASE np = NULL
  <2>1. Live' = [p \in DOMAIN owner |-> Live'[p]]
    BY <1>1, <1>4 DEF Live
  <2>2. Live = [p \in DOMAIN owner |-> Live[p]]
    BY DEF Live
  <2> HIDE DEF Live
  <2> QED
    BY <1>2, <2>1, <2>2
<1>5. CASE np # NULL
  <2>1. HeapTop' = HeapTop
    BY DEF HeapTop
  <2>2. /\ np \in 0..HeapTop
        /\ Live'[np] \in [length : 0..HeapTop, asked : (0..HeapTop) \ {0}]
        /\ Live'[np].length >= Live'[np].asked
        /\ \A q \in DOMAIN owner' :
             q # np => \/ np + Live'[np].length <= q
                       \/ q + Live'[q].length <= np
    <3>1. Regions'
      BY RegionsSound, PTL
    <3>2. Region(np)'
      BY <1>1, <1>5, <3>1 DEF Regions, Region
    <3> QED
      BY <2>1, <3>2 DEF Region
  <2>3. Abstract!Grant(np)
    BY <1>1, <1>2, <1>3, <1>5, <2>2 DEF Abstract!Grant, Abstract!Disjoint
  <2> QED
    BY <2>2, <2>3
<1> QED
  BY <1>4, <1>5

LEMMA KfreeRefines ==
  ASSUME IInv, NEW p \in DOMAIN owner, Kfree(p)
  PROVE  \E a \in 0..HeapTop : Abstract!Release(a)
<1>1. DOMAIN owner' = DOMAIN owner \ {p} /\ Kept(DOMAIN owner \ {p})
  BY KfreeKeeps DEF IInv
<1>2. Live' = [x \in DOMAIN Live \ {p} |-> Live[x]]
  BY <1>1 DEF Kept, Live, BlockOf
<1>3. p \in 0..HeapTop /\ p \in DOMAIN Live
  BY RegionsSound DEF Regions, Region, Live
<1> QED
  BY <1>2, <1>3 DEF Abstract!Release

(* The heap implements the allocator that is specified without a block     *)
(* list: a region is as long as was asked for, overlaps no other, and      *)
(* keeps its place and its length until its holder gives it back.          *)
THEOREM Refinement == Spec => ImplementsAllocator
<1>1. Init => Abstract!Init
  <2> SUFFICES ASSUME Init PROVE Abstract!Init
    OBVIOUS
  <2>1. DOMAIN owner = {}
    BY DEF Init
  <2> QED
    BY <2>1 DEF Live, Abstract!Init
<1>2. IInv /\ [Next]_vars => [Abstract!Next]_Live
  <2> SUFFICES ASSUME IInv, [Next]_vars PROVE Abstract!Next \/ UNCHANGED Live
    OBVIOUS
  <2>1. IInv'
    BY NextKeeps
  <2>2. ASSUME NEW t \in Task, Malloc(t) PROVE Abstract!Next \/ UNCHANGED Live
    <3>1. PICK n \in Nat : Kmalloc(t, n)
      BY <2>2, HeapAssumption DEF Malloc
    <3> QED
      BY <2>1, <3>1, KmallocRefines DEF Abstract!Next
  <2>3. ASSUME NEW t \in Task, Free(t) PROVE Abstract!Next
    <3>1. PICK p \in DOMAIN owner : Kfree(p)
      BY <2>3 DEF Free, Held
    <3> QED
      BY <3>1, KfreeRefines DEF Abstract!Next
  <2>4. ASSUME NEW t \in Task, ReallocAlloc(t)
        PROVE  Abstract!Next \/ UNCHANGED Live
    <3>1. Kmalloc(t, call[t].size) /\ call[t].size \in Nat
      BY <2>4 DEF ReallocAlloc, IInv, CallInv, Idle, Allocating, Copying
    <3> QED
      BY <2>1, <3>1, KmallocRefines DEF Abstract!Next
  <2>5. ASSUME NEW t \in Task, ReallocFree(t) PROVE Abstract!Next
    <3>1. Kfree(call[t].ptr) /\ call[t].ptr \in DOMAIN owner
      BY <2>5 DEF ReallocFree, IInv, CallInv, Idle, Allocating, Copying, Held
    <3> QED
      BY <3>1, KfreeRefines DEF Abstract!Next
  <2>6. CASE UNCHANGED vars \/ \E t \in Task : ReallocTest(t)
    BY <2>6 DEF vars, ReallocTest, Live, BlockOf
  <2> QED
    BY <2>2, <2>3, <2>4, <2>5, <2>6 DEF Next
<1> QED
  BY <1>1, <1>2, Invariance, PTL DEF Spec, ImplementsAllocator, Abstract!Spec

-----------------------------------------------------------------------------
(***************************************************************************)
(* The sum of the sizes of a set of blocks, however its elements are       *)
(* chosen.                                                                 *)
(***************************************************************************)
SumSizes(B, S) == MapThenSumSet(LAMBDA b : B[b].size, S)

First(s) == CHOOSE x \in s : TRUE
Rest(s) == s \ {First(s)}
Summing(B, S, g) ==
  [s \in SUBSET S |-> IF s = {} THEN 0 ELSE B[First(s)].size + g[Rest(s)]]

LEMMA SumIs ==
  ASSUME NEW B, NEW S
  PROVE  SumSizes(B, S) = (CHOOSE g : g = Summing(B, S, g))[S]
BY DEF SumSizes, MapThenSumSet, MapThenFoldSet, Summing, First, Rest

LEMMA RestIsSmaller ==
  ASSUME NEW s, IsFiniteSet(s), s # {}
  PROVE  /\ First(s) \in s /\ Rest(s) \subseteq s /\ IsFiniteSet(Rest(s))
         /\ Cardinality(s) \in Nat /\ Cardinality(Rest(s)) \in Nat
         /\ Cardinality(Rest(s)) = Cardinality(s) - 1
<1>1. First(s) \in s
  BY DEF First
<1>2. IsFiniteSet(Rest(s)) /\ Cardinality(Rest(s)) = Cardinality(s) - 1
  BY <1>1, FS_RemoveElement DEF Rest
<1> QED
  BY <1>1, <1>2, FS_CardinalityType DEF Rest

LEMMA SumExists ==
  ASSUME NEW S, IsFiniteSet(S), NEW B, \A b \in S : B[b].size \in Nat
  PROVE  \E g \in [SUBSET S -> Nat] : g = Summing(B, S, g)
<1> DEFINE Body(g, s) == IF s = {} THEN 0 ELSE B[First(s)].size + g[Rest(s)]
           Small(k) == {s \in SUBSET S : Cardinality(s) <= k}
           Good(g, k) == \A s \in Small(k) : g[s] = Body(g, s)
           Q == {k \in Nat : \E g \in [SUBSET S -> Nat] : Good(g, k)}
<1>1. \A s \in SUBSET S : IsFiniteSet(s) /\ Cardinality(s) \in Nat
                           /\ (Cardinality(s) = 0 <=> s = {})
  BY FS_Subset, FS_CardinalityType, FS_EmptySet
<1>2. \A s \in SUBSET S : s # {} =>
         /\ First(s) \in S /\ Rest(s) \in SUBSET S
         /\ Cardinality(Rest(s)) = Cardinality(s) - 1
  BY <1>1, RestIsSmaller
<1>3. 0 \in Q
  <2> DEFINE g == [s \in SUBSET S |-> 0]
  <2>1. \A s \in Small(0) : s = {}
    BY <1>1
  <2>2. g \in [SUBSET S -> Nat] /\ Good(g, 0)
    BY <2>1
  <2> HIDE DEF g, Good
  <2> QED
    BY <2>2
<1>4. ASSUME NEW k \in Nat, k \in Q PROVE k + 1 \in Q
  <2>1. PICK g \in [SUBSET S -> Nat] : Good(g, k)
    BY <1>4
  <2> DEFINE h == [s \in SUBSET S |-> IF s \in Small(k) THEN g[s] ELSE Body(g, s)]
  <2>2. h \in [SUBSET S -> Nat]
    BY <1>2
  <2>3. \A s \in Small(k + 1) : s # {} => Rest(s) \in Small(k)
    BY <1>1, <1>2
  <2>4. \A s \in Small(k + 1) : h[s] = Body(g, s)
    BY <2>1
  <2>5. \A s \in Small(k + 1) : Body(g, s) = Body(h, s)
    BY <2>3
  <2>6. h \in [SUBSET S -> Nat] /\ Good(h, k + 1)
    BY <2>2, <2>4, <2>5
  <2> HIDE DEF h, Good
  <2> QED
    BY <2>6
<1>5. \A k \in Nat : k \in Q
  <2> HIDE DEF Q
  <2> QED
    BY <1>3, <1>4, Induction
<1>6. PICK g \in [SUBSET S -> Nat] : Good(g, Cardinality(S))
  BY <1>1, <1>5
<1>7. \A s \in SUBSET S : Cardinality(s) <= Cardinality(S)
  BY FS_Subset
<1>8. g = Summing(B, S, g)
  BY <1>6, <1>7 DEF Summing
<1> QED
  BY <1>8

LEMMA SumsAgree ==
  ASSUME NEW S, IsFiniteSet(S), NEW B, NEW g, g = Summing(B, S, g),
         NEW T, NEW C, NEW h, h = Summing(C, T, h)
  PROVE  \A s \in SUBSET (S \cap T) :
           (\A b \in s : B[b].size = C[b].size) => g[s] = h[s]
<1> DEFINE Same(s) == \A b \in s : B[b].size = C[b].size
           Q == {k \in Nat : \A s \in SUBSET (S \cap T) :
                               Cardinality(s) <= k /\ Same(s) => g[s] = h[s]}
<1>1. \A s \in SUBSET (S \cap T) : IsFiniteSet(s) /\ Cardinality(s) \in Nat
                           /\ (Cardinality(s) = 0 <=> s = {})
  BY FS_Subset, FS_CardinalityType, FS_EmptySet
<1>2. \A s \in SUBSET (S \cap T) : s # {} =>
         /\ First(s) \in s /\ Rest(s) \in SUBSET (S \cap T) /\ Rest(s) \subseteq s
         /\ Cardinality(Rest(s)) = Cardinality(s) - 1
  BY <1>1, RestIsSmaller
<1>3. \A s \in SUBSET (S \cap T) :
         /\ g[s] = IF s = {} THEN 0 ELSE B[First(s)].size + g[Rest(s)]
         /\ h[s] = IF s = {} THEN 0 ELSE C[First(s)].size + h[Rest(s)]
  BY DEF Summing
<1>4. 0 \in Q
  BY <1>1, <1>3
<1>5. ASSUME NEW k \in Nat, k \in Q PROVE k + 1 \in Q
  <2>1. SUFFICES ASSUME NEW s \in SUBSET (S \cap T), Cardinality(s) <= k + 1, Same(s)
                 PROVE  g[s] = h[s]
    OBVIOUS
  <2>2. CASE s = {}
    BY <1>3, <2>2
  <2>3. CASE s # {}
    <3>1. /\ Rest(s) \in SUBSET (S \cap T) /\ Cardinality(Rest(s)) <= k /\ Same(Rest(s))
          /\ B[First(s)].size = C[First(s)].size
      BY <1>1, <1>2, <2>1, <2>3
    <3>2. g[Rest(s)] = h[Rest(s)]
      BY <1>5, <3>1
    <3> QED
      BY <1>3, <2>3, <3>1, <3>2
  <2> QED
    BY <2>2, <2>3
<1>6. \A k \in Nat : k \in Q
  <2> HIDE DEF Q
  <2> QED
    BY <1>4, <1>5, Induction
<1> QED
  BY <1>1, <1>6

LEMMA SumRest ==
  ASSUME NEW S, IsFiniteSet(S), NEW B, \A b \in S : B[b].size \in Nat
  PROVE  /\ SumSizes(B, S) \in Nat
         /\ SumSizes(B, S) = IF S = {} THEN 0
                             ELSE B[First(S)].size + SumSizes(B, Rest(S))
<1> DEFINE g == CHOOSE g : g = Summing(B, S, g)
           h == CHOOSE h : h = Summing(B, Rest(S), h)
<1>1. g = Summing(B, S, g) /\ g \in [SUBSET S -> Nat]
  <2>1. PICK f \in [SUBSET S -> Nat] : f = Summing(B, S, f)
    BY SumExists
  <2>2. g = Summing(B, S, g)
    BY <2>1
  <2>3. \A s \in SUBSET S : g[s] = f[s]
    <3> HIDE DEF g
    <3> QED
      BY <2>1, <2>2, SumsAgree
  <2>4. g = [s \in SUBSET S |-> g[s]]
    BY <2>2 DEF Summing
  <2> HIDE DEF g
  <2> QED
    BY <2>2, <2>3, <2>4
<1>2. SumSizes(B, S) = g[S] /\ SumSizes(B, Rest(S)) = h[Rest(S)]
  BY SumIs
<1>3. ASSUME S # {} PROVE h[Rest(S)] = g[Rest(S)]
  <2>1. IsFiniteSet(Rest(S)) /\ Rest(S) \subseteq S
    BY <1>3, RestIsSmaller
  <2>2. \E f : f = Summing(B, Rest(S), f)
    BY <2>1, SumExists
  <2>3. h = Summing(B, Rest(S), h)
    BY <2>2
  <2> HIDE DEF g, h
  <2> QED
    BY <1>1, <2>1, <2>3, SumsAgree
<1> HIDE DEF g, h
<1>4. g[S] \in Nat /\ g[S] = IF S = {} THEN 0 ELSE B[First(S)].size + g[Rest(S)]
  BY <1>1 DEF Summing
<1> QED
  BY <1>2, <1>3, <1>4

LEMMA SumSame ==
  ASSUME NEW S, IsFiniteSet(S), NEW B, \A b \in S : B[b].size \in Nat,
         NEW C, \A b \in S : C[b].size = B[b].size
  PROVE  SumSizes(C, S) = SumSizes(B, S)
<1> DEFINE g == CHOOSE g : g = Summing(B, S, g)
           h == CHOOSE h : h = Summing(C, S, h)
<1>1. g = Summing(B, S, g)
  BY SumExists
<1>2. h = Summing(C, S, h)
  BY SumExists
<1>3. SumSizes(B, S) = g[S] /\ SumSizes(C, S) = h[S]
  BY SumIs
<1> HIDE DEF g, h
<1> QED
  BY <1>1, <1>2, <1>3, SumsAgree

(* Any element may be taken first. *)
LEMMA SumRemove ==
  ASSUME NEW S, IsFiniteSet(S), NEW B, \A b \in S : B[b].size \in Nat, NEW x \in S
  PROVE  SumSizes(B, S) = B[x].size + SumSizes(B, S \ {x})
<1> DEFINE Sized(T) == T \subseteq S
           P(T) == \A y \in T : SumSizes(B, T) = B[y].size + SumSizes(B, T \ {y})
           Q == {k \in Nat : \A T \in SUBSET S : Cardinality(T) <= k => P(T)}
<1>1. \A T \in SUBSET S : /\ IsFiniteSet(T) /\ Cardinality(T) \in Nat
                          /\ Cardinality(T) = 0 <=> T = {}
                          /\ \A b \in T : B[b].size \in Nat
  BY FS_Subset, FS_CardinalityType, FS_EmptySet
<1>2. \A T \in SUBSET S : SumSizes(B, T) \in Nat
  BY <1>1, SumRest
<1>3. 0 \in Q
  BY <1>1
<1>4. ASSUME NEW k \in Nat, k \in Q PROVE k + 1 \in Q
  <2>1. SUFFICES ASSUME NEW T \in SUBSET S, Cardinality(T) <= k + 1, NEW y \in T
                 PROVE  SumSizes(B, T) = B[y].size + SumSizes(B, T \ {y})
    OBVIOUS
  <2> DEFINE f == First(T)
             U == Rest(T)
  <2>2. /\ f \in T /\ U = T \ {f} /\ U \in SUBSET S /\ Cardinality(U) <= k
        /\ SumSizes(B, T) = B[f].size + SumSizes(B, U)
    <3>1. IsFiniteSet(T) /\ T # {} /\ \A b \in T : B[b].size \in Nat
      BY <1>1, <2>1
    <3>2. /\ f \in T /\ U \subseteq T /\ Cardinality(U) = Cardinality(T) - 1
          /\ Cardinality(T) \in Nat
      BY <3>1, RestIsSmaller
    <3>3. SumSizes(B, T) = B[f].size + SumSizes(B, U)
      BY <3>1, SumRest
    <3>4. U = T \ {f}
      BY DEF Rest
    <3> HIDE DEF f, U
    <3> QED
      BY <2>1, <3>2, <3>3, <3>4
  <2>3. CASE y = f
    BY <2>2, <2>3
  <2>4. CASE y # f
    <3> DEFINE V == T \ {y}
    <3>1. V \in SUBSET S /\ Cardinality(V) = Cardinality(T) - 1 /\ Cardinality(V) <= k
      BY <1>1, <2>1, FS_RemoveElement
    <3>2. f \in V /\ y \in U /\ V \ {f} = U \ {y} /\ U \ {y} \in SUBSET S
      BY <2>2, <2>4
    <3> HIDE DEF V, U, f
    <3>3. SumSizes(B, U) = B[y].size + SumSizes(B, U \ {y})
      BY <1>4, <2>2, <3>2
    <3>4. SumSizes(B, V) = B[f].size + SumSizes(B, U \ {y})
      BY <1>4, <3>1, <3>2
    <3>5. /\ SumSizes(B, U \ {y}) \in Nat /\ B[y].size \in Nat /\ B[f].size \in Nat
      BY <1>2, <2>1, <2>2, <3>2
    <3> QED
      BY <2>2, <3>3, <3>4, <3>5 DEF V
  <2> QED
    BY <2>3, <2>4
<1>5. \A k \in Nat : k \in Q
  <2> HIDE DEF Q
  <2> QED
    BY <1>3, <1>4, Induction
<1>6. P(S)
  BY <1>1, <1>5
<1> QED
  BY <1>6

(***************************************************************************)
(* The counter of used bytes.                                              *)
(***************************************************************************)
Sizes == /\ IsFiniteSet(UsedBlocks)
         /\ \A b \in UsedBlocks : blk[b].size \in Nat

LEMMA SizesSound == IInv => Sizes
<1> SUFFICES ASSUME IInv PROVE Sizes
  OBVIOUS
<1>1. ListOK(blk, heap_end) /\ heap_end \in Nat
  BY DEF IInv, ListInv, ListOK, PagesInv
<1>2. UsedBlocks \subseteq 0..heap_end /\ \A b \in UsedBlocks : blk[b].size \in Nat
  <2> SUFFICES ASSUME NEW b \in UsedBlocks
               PROVE  b \in 0..heap_end /\ blk[b].size \in Nat
    OBVIOUS
  <2>1. b \in DOMAIN blk
    BY DEF UsedBlocks
  <2>2. b \in Nat /\ blk[b].size \in Nat /\ EndIn(blk, b) <= heap_end
    BY <1>1, <2>1 DEF ListOK, Shape, Ordered, Header
  <2> QED
    BY <1>1, <2>2, HeapAssumption DEF EndIn, Payload
<1>3. IsFiniteSet(0..heap_end)
  BY <1>1, FS_Interval
<1> QED
  BY <1>2, <1>3, FS_Subset DEF Sizes

CountIsRight == used_bytes = SumSizes(blk, UsedBlocks)

LEMMA CountIsUsedBytes == CountIsRight <=> UsedBytesAreHeld
BY DEF CountIsRight, UsedBytesAreHeld, SumSizes

LEMMA KmallocCounts ==
  ASSUME IInv, IInv', CountIsRight, NEW t \in Task, NEW n \in Nat, Kmalloc(t, n),
         NEW np, np = KmallocReturns(n)
  PROVE  CountIsRight'
<1>1. /\ Kept(DOMAIN owner)
      /\ np = NULL => owner' = owner /\ used_bytes' = used_bytes
      /\ np # NULL => /\ DOMAIN owner' = DOMAIN owner \cup {np}
                      /\ np \notin DOMAIN owner
                      /\ Counted(BlockOf(np)) /\ blk'[BlockOf(np)].size \in Nat
  BY KmallocKeeps DEF IInv
<1> DEFINE U == UsedBlocks
           V == UsedBlocks'
<1>2. /\ U = {BlockOf(p) : p \in DOMAIN owner}
      /\ V = {BlockOf(p) : p \in DOMAIN owner'}
  BY DEF IInv, OwnerInv, UsedBlocksAreHeld, BlockOf
<1>3. IsFiniteSet(U) /\ (\A b \in U : blk[b].size \in Nat)
  BY SizesSound DEF Sizes
<1>4. IsFiniteSet(V) /\ (\A b \in V : blk'[b].size \in Nat)
  <2>1. Sizes'
    BY SizesSound, PTL
  <2> QED
    BY <2>1 DEF Sizes
<1> HIDE DEF U, V
<1>5. \A b \in U : blk'[b].size = blk[b].size
  BY <1>1, <1>2 DEF Kept
<1>6. SumSizes(blk', U) = SumSizes(blk, U) /\ SumSizes(blk, U) \in Nat
  BY <1>3, <1>5, SumSame, SumRest
<1>7. CASE np = NULL
  BY <1>1, <1>2, <1>6, <1>7 DEF CountIsRight, U, V
<1>8. CASE np # NULL
  <2>1. V = U \cup {BlockOf(np)}
    BY <1>1, <1>2, <1>8
  <2>2. BlockOf(np) \notin U
    <3>1. \A p \in DOMAIN owner : p = BlockOf(p) + HEADER
      BY OwnerFacts DEF IInv, Payload
    <3>2. np = BlockOf(np) + HEADER
      <4>1. np \in DOMAIN owner'
        BY <1>1, <1>8
      <4>2. OwnerInv'
        BY DEF IInv
      <4> QED
        BY <4>1, <4>2, HeapAssumption DEF OwnerInv, BlockOf
    <3> QED
      BY <1>1, <1>2, <1>8, <3>1, <3>2
  <2>3. V \ {BlockOf(np)} = U
    BY <2>1, <2>2
  <2>4. SumSizes(blk', V) = blk'[BlockOf(np)].size + SumSizes(blk', U)
    BY <1>4, <2>1, <2>3, SumRemove
  <2>5. used_bytes = SumSizes(blk, U) /\ used_bytes' = used_bytes + blk'[BlockOf(np)].size
    BY <1>1, <1>8 DEF Counted, CountIsRight, U
  <2>6. used_bytes' = SumSizes(blk', V)
    BY <1>1, <1>6, <1>8, <2>4, <2>5
  <2> QED
    BY <2>6 DEF CountIsRight, V
<1> QED
  BY <1>7, <1>8

LEMMA KfreeCounts ==
  ASSUME IInv, IInv', CountIsRight, NEW p \in DOMAIN owner, Kfree(p)
  PROVE  CountIsRight'
<1> DEFINE U == UsedBlocks
           V == UsedBlocks'
           b == BlockOf(p)
<1>1. /\ DOMAIN owner' = DOMAIN owner \ {p} /\ Kept(DOMAIN owner \ {p})
      /\ used_bytes' = used_bytes - blk[b].size
  BY KfreeKeeps DEF IInv
<1>2. /\ U = {BlockOf(q) : q \in DOMAIN owner}
      /\ V = {BlockOf(q) : q \in DOMAIN owner'}
  BY DEF IInv, OwnerInv, UsedBlocksAreHeld, BlockOf
<1>3. IsFiniteSet(U) /\ (\A c \in U : blk[c].size \in Nat)
  BY SizesSound DEF Sizes
<1>4. \A q \in DOMAIN owner : q = BlockOf(q) + HEADER
  BY OwnerFacts DEF IInv, Payload
<1> HIDE DEF U, V, b
<1>5. b \in U /\ V = U \ {b}
  BY <1>1, <1>2, <1>4 DEF b
<1>6. \A c \in V : blk'[c].size = blk[c].size
  BY <1>1, <1>2 DEF Kept
<1>7. SumSizes(blk, U) = blk[b].size + SumSizes(blk, V)
  BY <1>3, <1>5, SumRemove
<1>8. IsFiniteSet(V) /\ \A c \in V : blk[c].size \in Nat
  BY <1>3, <1>5, FS_RemoveElement
<1>9. SumSizes(blk', V) = SumSizes(blk, V) /\ SumSizes(blk, V) \in Nat
  BY <1>6, <1>8, SumSame, SumRest
<1>10. used_bytes = SumSizes(blk, U) /\ blk[b].size \in Nat
  BY <1>3, <1>5 DEF CountIsRight, U
<1>11. used_bytes' = SumSizes(blk', V)
  BY <1>1, <1>7, <1>9, <1>10
<1> QED
  BY <1>11 DEF CountIsRight, V

(* What heap_used_bytes reports is the sum of what the used blocks hold,   *)
(* split or not and however they were merged before.                       *)
THEOREM BytesAreCounted == Spec => []UsedBytesAreHeld
<1>1. Init => CountIsRight
  <2> SUFFICES ASSUME Init PROVE CountIsRight
    OBVIOUS
  <2>1. UsedBlocks = {} /\ used_bytes = 0
    BY DEF Init, UsedBlocks
  <2>2. SumSizes(blk, {}) = 0
    BY SumRest, FS_EmptySet
  <2> QED
    BY <2>1, <2>2 DEF CountIsRight
<1>2. IInv /\ IInv' /\ CountIsRight /\ [Next]_vars => CountIsRight'
  <2> SUFFICES ASSUME IInv, IInv', CountIsRight, [Next]_vars PROVE CountIsRight'
    OBVIOUS
  <2>1. ASSUME NEW t \in Task, Malloc(t) PROVE CountIsRight'
    <3>1. PICK n \in Nat : Kmalloc(t, n)
      BY <2>1, HeapAssumption DEF Malloc
    <3> QED
      BY <3>1, KmallocCounts
  <2>2. ASSUME NEW t \in Task, Free(t) PROVE CountIsRight'
    <3>1. PICK p \in DOMAIN owner : Kfree(p)
      BY <2>2 DEF Free, Held
    <3> QED
      BY <3>1, KfreeCounts
  <2>3. ASSUME NEW t \in Task, ReallocAlloc(t) PROVE CountIsRight'
    <3>1. Kmalloc(t, call[t].size) /\ call[t].size \in Nat
      BY <2>3 DEF ReallocAlloc, IInv, CallInv, Idle, Allocating, Copying
    <3> QED
      BY <3>1, KmallocCounts
  <2>4. ASSUME NEW t \in Task, ReallocFree(t) PROVE CountIsRight'
    <3>1. Kfree(call[t].ptr) /\ call[t].ptr \in DOMAIN owner
      BY <2>4 DEF ReallocFree, IInv, CallInv, Idle, Allocating, Copying, Held
    <3> QED
      BY <3>1, KfreeCounts
  <2>5. CASE UNCHANGED vars \/ \E t \in Task : ReallocTest(t)
    BY <2>5 DEF vars, ReallocTest, CountIsRight, UsedBlocks
  <2> QED
    BY <2>1, <2>2, <2>3, <2>4, <2>5 DEF Next
<1>3. Spec => []CountIsRight
  BY <1>1, <1>2, Invariance, PTL DEF Spec
<1> QED
  BY <1>3, CountIsUsedBytes, PTL

-----------------------------------------------------------------------------
(***************************************************************************)
(* The functions of string.c, for every memory and any number of bytes: a  *)
(* memory is a function m on a set A of addresses.  Copied is m with the n *)
(* bytes from s on also at d, Filled is m with n times v from d on.        *)
(***************************************************************************)
Lib == INSTANCE Strings

Copied(A, m, d, s, n) ==
  [x \in A |-> IF x \in d..d+n-1 THEN m[x - d + s] ELSE m[x]]
Filled(A, m, d, n, v) ==
  [x \in A |-> IF x \in d..d+n-1 THEN v ELSE m[x]]

(* A store to one address. *)
Stored(m, a, v) == [m EXCEPT ![a] = v]

LEMMA StoredIs ==
  ASSUME NEW A, NEW old, NEW new, NEW a, NEW v,
         old = [x \in A |-> old[x]], new = [x \in A |-> new[x]],
         \A x \in A : new[x] = IF x = a THEN v ELSE old[x]
  PROVE  Stored(old, a, v) = new
BY DEF Stored

(* The rounds of a loop, when what each of them leaves is known.           *)
LEMMA LoopIs ==
  ASSUME NEW n \in Nat, NEW f, NEW g,
         f[0] = g[0],
         \A i \in 1..n : f[i - 1] = g[i - 1] => f[i] = g[i]
  PROVE  f[n] = g[n]
<1> DEFINE Q == {k \in Nat : k \in 0..n => f[k] = g[k]}
<1>1. 0 \in Q
  OBVIOUS
<1>2. ASSUME NEW k \in Nat, k \in Q PROVE k + 1 \in Q
  <2> SUFFICES ASSUME k + 1 \in 0..n PROVE f[k + 1] = g[k + 1]
    OBVIOUS
  <2>1. k + 1 \in 1..n /\ (k + 1) - 1 = k /\ f[k] = g[k]
    BY <1>2
  <2> QED
    BY <2>1
<1>3. \A k \in Nat : k \in Q
  <2> HIDE DEF Q
  <2> QED
    BY <1>1, <1>2, Induction
<1> QED
  BY <1>3

LEMMA FilledMore ==
  ASSUME NEW A, A \subseteq Int, NEW m, NEW d \in Int, NEW i \in Nat \ {0}, NEW v,
         d + i - 1 \in A
  PROVE  Stored(Filled(A, m, d, i - 1, v), d + i - 1, v) = Filled(A, m, d, i, v)
<1> DEFINE old == Filled(A, m, d, i - 1, v)
           new == Filled(A, m, d, i, v)
<1>1. \A x \in A : new[x] = IF x = d + i - 1 THEN v ELSE old[x]
  <2> TAKE x \in A
  <2>1. x \in d..d+i-1 <=> x = d + i - 1 \/ x \in d..d+(i-1)-1
    OBVIOUS
  <2> QED
    BY <2>1 DEF Filled
<1>2. old = [x \in A |-> old[x]] /\ new = [x \in A |-> new[x]]
  BY DEF Filled
<1> HIDE DEF old, new
<1>3. Stored(old, d + i - 1, v) = new
  BY <1>1, <1>2, StoredIs
<1> QED
  BY <1>3 DEF old, new

(* Copying upwards: the byte that is read was not written before.          *)
LEMMA CopiedMore ==
  ASSUME NEW A, A \subseteq Int, NEW m, NEW d \in Int, NEW s \in Int,
         NEW i \in Nat \ {0}, d + i - 1 \in A, s + i - 1 \in A,
         s + i - 1 \notin d..d+i-2
  PROVE  LET old == Copied(A, m, d, s, i - 1)
         IN  Stored(old, d + i - 1, old[s + i - 1]) = Copied(A, m, d, s, i)
<1> DEFINE old == Copied(A, m, d, s, i - 1)
           new == Copied(A, m, d, s, i)
<1>1. old[s + i - 1] = m[s + i - 1]
  BY DEF Copied
<1>2. \A x \in A : new[x] = IF x = d + i - 1 THEN m[s + i - 1] ELSE old[x]
  <2> TAKE x \in A
  <2>1. x \in Int
    OBVIOUS
  <2>2. CASE x = d + i - 1
    <3>1. x \in d..d+i-1 /\ x - d + s = s + i - 1
      BY <2>2
    <3> QED
      BY <2>2, <3>1 DEF Copied
  <2>3. CASE x # d + i - 1
    <3>1. x \in d..d+i-1 <=> x \in d..d+(i-1)-1
      BY <2>1, <2>3
    <3> QED
      BY <2>3, <3>1 DEF Copied
  <2> QED
    BY <2>2, <2>3
<1>3. old = [x \in A |-> old[x]] /\ new = [x \in A |-> new[x]]
  BY DEF Copied
<1> HIDE DEF old, new
<1>4. Stored(old, d + i - 1, old[s + i - 1]) = new
  BY <1>1, <1>2, <1>3, StoredIs
<1> QED
  BY <1>4 DEF old, new

(* Copying downwards is copying the upper bytes first.                     *)
LEMMA CopiedBelow ==
  ASSUME NEW A, A \subseteq Int, NEW m, NEW d \in Int, NEW s \in Int, s < d,
         NEW n \in Nat, NEW i \in 1..n, d + n - i \in A, s + n - i \in A
  PROVE  LET old == Copied(A, m, d + n - (i - 1), s + n - (i - 1), i - 1)
         IN  Stored(old, d + n - i, old[s + n - i])
               = Copied(A, m, d + n - i, s + n - i, i)
<1> DEFINE a == d + n - i
           b == s + n - i
           old == Copied(A, m, d + n - (i - 1), s + n - (i - 1), i - 1)
           new == Copied(A, m, a, b, i)
<1>1. a \in Int /\ b \in Int /\ b < a /\ a \in A /\ b \in A
      /\ d + n - (i - 1) = a + 1 /\ s + n - (i - 1) = b + 1
  OBVIOUS
<1>2. old = Copied(A, m, a + 1, b + 1, i - 1)
  BY <1>1
<1> HIDE DEF a, b
<1>3. old[b] = m[b]
  BY <1>1, <1>2 DEF Copied
<1>4. \A x \in A : new[x] = IF x = a THEN m[b] ELSE old[x]
  <2> TAKE x \in A
  <2>1. x \in Int
    OBVIOUS
  <2>2. CASE x = a
    <3>1. x \in a..a+i-1 /\ x - a + b = b
      BY <1>1, <2>2
    <3> QED
      BY <2>2, <3>1 DEF Copied
  <2>3. CASE x # a
    <3>1. x \in a..a+i-1 <=> x \in (a+1)..(a+1)+(i-1)-1
      BY <1>1, <2>1, <2>3
    <3>2. x - a + b = x - (a + 1) + (b + 1)
      BY <1>1, <2>1
    <3> QED
      BY <1>2, <2>3, <3>1, <3>2 DEF Copied
  <2> QED
    BY <2>2, <2>3
<1>5. old = [x \in A |-> old[x]] /\ new = [x \in A |-> new[x]]
  BY DEF Copied
<1> HIDE DEF old, new
<1>6. Stored(old, a, old[b]) = new
  BY <1>3, <1>4, <1>5, StoredIs
<1> QED
  BY <1>6 DEF a, b, old, new

LEMMA NothingCopied ==
  ASSUME NEW A, A \subseteq Int, NEW m, m = [x \in A |-> m[x]], NEW d \in Int, NEW s \in Int
  PROVE  Copied(A, m, d, s, 0) = m
BY DEF Copied

LEMMA ForwardCopies ==
  ASSUME NEW A, A \subseteq Int, NEW m, m = [x \in A |-> m[x]],
         NEW d \in Int, NEW s \in Int, NEW n \in Nat,
         d..d+n-1 \subseteq A, s..s+n-1 \subseteq A,
         d <= s \/ s + n <= d
  PROVE  Lib!Forward(m, d, s, n) = Copied(A, m, d, s, n)
<1> DEFINE Body(f, i) == IF i = 0 THEN m ELSE Stored(f[i-1], d + i - 1, f[i-1][s + i - 1])
           R(f) == f = [i \in 0..n |-> Body(f, i)]
           g == [i \in 0..n |-> Copied(A, m, d, s, i)]
           c == CHOOSE f : R(f)
<1>1. Lib!Forward(m, d, s, n) = c[n]
  BY DEF Lib!Forward, Stored
<1>2. g[0] = m
  BY NothingCopied
<1>3. ASSUME NEW i \in 1..n
      PROVE  g[i] = Stored(g[i-1], d + i - 1, g[i-1][s + i - 1])
  <2>1. d + i - 1 \in A /\ s + i - 1 \in A /\ s + i - 1 \notin d..d+i-2
        /\ i \in Nat \ {0}
    OBVIOUS
  <2>2. g[i] = Copied(A, m, d, s, i) /\ g[i-1] = Copied(A, m, d, s, i - 1)
    OBVIOUS
  <2> HIDE DEF g
  <2> QED
    BY <2>1, <2>2, CopiedMore
<1>4. R(g)
  <2>1. g = [i \in 0..n |-> g[i]]
    OBVIOUS
  <2> HIDE DEF g
  <2>2. \A i \in 0..n : g[i] = Body(g, i)
    BY <1>2, <1>3
  <2> HIDE DEF Body
  <2> QED
    BY <2>1, <2>2
<1>5. R(c)
  <2> HIDE DEF g, R
  <2> QED
    BY <1>4
<1>6. c[0] = g[0] /\ \A i \in 1..n : c[i - 1] = g[i - 1] => c[i] = g[i]
  <2> HIDE DEF g, c
  <2>1. \A i \in 0..n : c[i] = Body(c, i)
    <3> HIDE DEF Body
    <3> QED
      BY <1>5
  <2>2. c[0] = m
    BY <2>1
  <2>3. ASSUME NEW i \in 1..n
        PROVE  c[i] = Stored(c[i-1], d + i - 1, c[i-1][s + i - 1])
    BY <2>1
  <2> QED
    BY <1>2, <1>3, <2>2, <2>3
<1>7. c[n] = g[n]
  <2> HIDE DEF g, c
  <2> QED
    BY <1>6, LoopIs
<1> HIDE DEF c
<1> QED
  BY <1>1, <1>7

LEMMA BackwardCopies ==
  ASSUME NEW A, A \subseteq Int, NEW m, m = [x \in A |-> m[x]],
         NEW d \in Int, NEW s \in Int, NEW n \in Nat,
         d..d+n-1 \subseteq A, s..s+n-1 \subseteq A, s < d
  PROVE  Lib!Backward(m, d, s, n) = Copied(A, m, d, s, n)
<1> DEFINE Body(f, i) == IF i = 0 THEN m ELSE Stored(f[i-1], d + n - i, f[i-1][s + n - i])
           R(f) == f = [i \in 0..n |-> Body(f, i)]
           g == [i \in 0..n |-> Copied(A, m, d + n - i, s + n - i, i)]
           c == CHOOSE f : R(f)
<1>1. Lib!Backward(m, d, s, n) = c[n]
  BY DEF Lib!Backward, Stored
<1>2. g[0] = m
  BY NothingCopied
<1>3. ASSUME NEW i \in 1..n
      PROVE  g[i] = Stored(g[i-1], d + n - i, g[i-1][s + n - i])
  <2>1. d + n - i \in A /\ s + n - i \in A
    OBVIOUS
  <2>2. g[i] = Copied(A, m, d + n - i, s + n - i, i)
        /\ g[i-1] = Copied(A, m, d + n - (i - 1), s + n - (i - 1), i - 1)
    OBVIOUS
  <2> HIDE DEF g
  <2> QED
    BY <2>1, <2>2, CopiedBelow
<1>4. R(g)
  <2>1. g = [i \in 0..n |-> g[i]]
    OBVIOUS
  <2> HIDE DEF g
  <2>2. \A i \in 0..n : g[i] = Body(g, i)
    BY <1>2, <1>3
  <2> HIDE DEF Body
  <2> QED
    BY <2>1, <2>2
<1>5. R(c)
  <2> HIDE DEF g, R
  <2> QED
    BY <1>4
<1>6. c[0] = g[0] /\ \A i \in 1..n : c[i - 1] = g[i - 1] => c[i] = g[i]
  <2> HIDE DEF g, c
  <2>1. \A i \in 0..n : c[i] = Body(c, i)
    <3> HIDE DEF Body
    <3> QED
      BY <1>5
  <2>2. c[0] = m
    BY <2>1
  <2>3. ASSUME NEW i \in 1..n
        PROVE  c[i] = Stored(c[i-1], d + n - i, c[i-1][s + n - i])
    BY <2>1
  <2> QED
    BY <1>2, <1>3, <2>2, <2>3
<1>7. c[n] = g[n]
  <2> HIDE DEF g, c
  <2> QED
    BY <1>6, LoopIs
<1>8. g[n] = Copied(A, m, d, s, n)
  <2>1. d + n - n = d /\ s + n - n = s
    OBVIOUS
  <2> QED
    BY <2>1
<1> HIDE DEF c, g
<1> QED
  BY <1>1, <1>7, <1>8

(* string.c:16-26: memmove copies right also when the regions overlap.     *)
THEOREM MemmoveCopies ==
  ASSUME NEW A, A \subseteq Int, NEW m, m = [x \in A |-> m[x]],
         NEW dest \in Int, NEW src \in Int, NEW count \in Nat,
         dest..dest+count-1 \subseteq A, src..src+count-1 \subseteq A
  PROVE  Lib!memmove(m, dest, src, count) = Copied(A, m, dest, src, count)
<1>1. CASE count = 0
  BY <1>1, NothingCopied DEF Lib!memmove
<1>2. CASE count # 0 /\ dest = src
  <2>1. \A x \in A : x - dest + src = x
    BY <1>2
  <2>2. Copied(A, m, dest, src, count) = m
    BY <2>1 DEF Copied
  <2> QED
    BY <1>2, <2>2 DEF Lib!memmove
<1>3. CASE count # 0 /\ dest < src
  <2>1. Lib!memmove(m, dest, src, count) = Lib!Forward(m, dest, src, count)
    BY <1>3 DEF Lib!memmove
  <2> QED
    BY <1>3, <2>1, ForwardCopies
<1>4. CASE count # 0 /\ src < dest
  <2>1. Lib!memmove(m, dest, src, count) = Lib!Backward(m, dest, src, count)
    BY <1>4 DEF Lib!memmove
  <2> QED
    BY <1>4, <2>1, BackwardCopies
<1> QED
  BY <1>1, <1>2, <1>3, <1>4

(* string.c:9-14: memcpy copies right when the regions do not overlap, and *)
(* when the destination is the lower one.                                  *)
THEOREM MemcpyCopies ==
  ASSUME NEW A, A \subseteq Int, NEW m, m = [x \in A |-> m[x]],
         NEW dest \in Int, NEW src \in Int, NEW count \in Nat,
         dest..dest+count-1 \subseteq A, src..src+count-1 \subseteq A,
         dest <= src \/ src + count <= dest
  PROVE  Lib!memcpy(m, dest, src, count) = Copied(A, m, dest, src, count)
BY ForwardCopies DEF Lib!memcpy

(* string.c:3-7: memset fills count bytes with the low byte of its value,   *)
(* and changes nothing else.                                               *)
THEOREM MemsetFills ==
  ASSUME NEW A, A \subseteq Int, NEW m, m = [x \in A |-> m[x]],
         NEW dest \in Int, NEW value \in Int, NEW count \in Nat,
         dest..dest+count-1 \subseteq A
  PROVE  Lib!memset(m, dest, value, count) = Filled(A, m, dest, count, value % 256)
<1> DEFINE v == value % 256
<1> HIDE DEF v
<1> DEFINE Body(f, i) == IF i = 0 THEN m ELSE Stored(f[i-1], dest + i - 1, v)
           R(f) == f = [i \in 0..count |-> Body(f, i)]
           g == [i \in 0..count |-> Filled(A, m, dest, i, v)]
           c == CHOOSE f : R(f)
<1>1. Lib!memset(m, dest, value, count) = c[count]
  BY DEF Lib!memset, Stored, v
<1>2. g[0] = m
  BY DEF Filled
<1>3. ASSUME NEW i \in 1..count PROVE g[i] = Stored(g[i-1], dest + i - 1, v)
  <2>1. dest + i - 1 \in A /\ i \in Nat \ {0}
    OBVIOUS
  <2>2. g[i] = Filled(A, m, dest, i, v) /\ g[i-1] = Filled(A, m, dest, i - 1, v)
    OBVIOUS
  <2> HIDE DEF g
  <2> QED
    BY <2>1, <2>2, FilledMore
<1>4. R(g)
  <2>1. g = [i \in 0..count |-> g[i]]
    OBVIOUS
  <2> HIDE DEF g
  <2>2. \A i \in 0..count : g[i] = Body(g, i)
    BY <1>2, <1>3
  <2> HIDE DEF Body
  <2> QED
    BY <2>1, <2>2
<1>5. R(c)
  <2> HIDE DEF g, R
  <2> QED
    BY <1>4
<1>6. c[0] = g[0] /\ \A i \in 1..count : c[i - 1] = g[i - 1] => c[i] = g[i]
  <2> HIDE DEF g, c
  <2>1. \A i \in 0..count : c[i] = Body(c, i)
    <3> HIDE DEF Body
    <3> QED
      BY <1>5
  <2>2. c[0] = m
    BY <2>1
  <2>3. ASSUME NEW i \in 1..count PROVE c[i] = Stored(c[i-1], dest + i - 1, v)
    BY <2>1
  <2> QED
    BY <1>2, <1>3, <2>2, <2>3
<1>7. c[count] = g[count]
  <2> HIDE DEF g, c
  <2> QED
    BY <1>6, LoopIs
<1> HIDE DEF c
<1> QED
  BY <1>1, <1>7 DEF v

(***************************************************************************)
(* A loop that goes on while i is in go and else returns out[i].           *)
(***************************************************************************)
LEMMA LoopEnds ==
  ASSUME NEW go, NEW out, NEW f, NEW k \in Nat,
         f = [i \in Nat |-> IF i \in go THEN f[i + 1] ELSE out[i]],
         k \notin go, \A i \in 0..k-1 : i \in go
  PROVE  f[0] = out[k]
<1> DEFINE Q == {j \in Nat : j <= k => f[k - j] = out[k]}
<1>1. \A i \in Nat : f[i] = IF i \in go THEN f[i + 1] ELSE out[i]
  OBVIOUS
<1>2. 0 \in Q
  BY <1>1
<1>3. ASSUME NEW j \in Nat, j \in Q PROVE j + 1 \in Q
  <2> SUFFICES ASSUME j + 1 <= k PROVE f[k - (j + 1)] = out[k]
    OBVIOUS
  <2>1. k - (j + 1) \in 0..k-1 /\ (k - (j + 1)) + 1 = k - j /\ f[k - j] = out[k]
    BY <1>3
  <2> QED
    BY <1>1, <2>1
<1>4. k \in Q
  <2> HIDE DEF Q
  <2> QED
    BY <1>2, <1>3, Induction
<1>5. k - k = 0
  OBVIOUS
<1> QED
  BY <1>4, <1>5

LEMMA LoopExists ==
  ASSUME NEW go, NEW out
  PROVE  \E f : f = [i \in Nat |-> IF i \in go THEN f[i + 1] ELSE out[i]]
<1> DEFINE Stop(i) == {k \in Nat : i <= k /\ k \notin go /\ \A j \in i..k-1 : j \in go}
           f == [i \in Nat |-> IF Stop(i) = {} THEN 0 ELSE out[CHOOSE k \in Stop(i) : TRUE]]
<1>1. ASSUME NEW i \in Nat, i \in go PROVE Stop(i) = Stop(i + 1)
  <2> SUFFICES ASSUME NEW k \in Nat PROVE k \in Stop(i) <=> k \in Stop(i + 1)
    OBVIOUS
  <2>1. i <= k => i..k = {i} \cup ((i + 1)..k)
    OBVIOUS
  <2>2. k \notin go /\ i <= k => i + 1 <= k
    BY <1>1
  <2>3. i + 1 <= k => i..k-1 = {i} \cup ((i + 1)..k-1)
    OBVIOUS
  <2> QED
    BY <1>1, <2>2, <2>3
<1>2. ASSUME NEW i \in Nat, i \notin go PROVE Stop(i) = {i}
  BY <1>2
<1>3. ASSUME NEW i \in Nat PROVE f[i] = IF i \in go THEN f[i + 1] ELSE out[i]
  <2>1. CASE i \in go
    <3>1. Stop(i) = Stop(i + 1) /\ i + 1 \in Nat
      BY <1>1, <2>1
    <3> HIDE DEF Stop
    <3> QED
      BY <2>1, <3>1
  <2>2. CASE i \notin go
    <3>1. Stop(i) = {i}
      BY <1>2, <2>2
    <3> HIDE DEF Stop
    <3>2. (CHOOSE k \in Stop(i) : TRUE) = i
      BY <3>1
    <3> QED
      BY <2>2, <3>1, <3>2
  <2> QED
    BY <2>1, <2>2
<1>4. f = [i \in Nat |-> f[i]]
  OBVIOUS
<1> HIDE DEF f
<1>5. f = [i \in Nat |-> IF i \in go THEN f[i + 1] ELSE out[i]]
  BY <1>3, <1>4
<1> QED
  BY <1>5

LEMMA LoopReturns ==
  ASSUME NEW go, NEW out, NEW k \in Nat, k \notin go, \A i \in 0..k-1 : i \in go
  PROVE  (CHOOSE f : f = [i \in Nat |-> IF i \in go THEN f[i + 1] ELSE out[i]])[0]
           = out[k]
<1> DEFINE R(f) == f = [i \in Nat |-> IF i \in go THEN f[i + 1] ELSE out[i]]
           c == CHOOSE f : R(f)
<1>1. \E f : R(f)
  BY LoopExists
<1>2. R(c)
  <2> HIDE DEF R
  <2> QED
    BY <1>1
<1>3. c = [i \in Nat |-> IF i \in go THEN c[i + 1] ELSE out[i]]
  BY <1>2
<1> HIDE DEF c
<1>4. c[0] = out[k]
  BY <1>3, LoopEnds
<1> QED
  BY <1>4 DEF c

(* string.c:28-35: memcmp is 0 exactly for equal bytes, and its sign is     *)
(* the order of the first bytes that differ, bytes being unsigned.         *)
THEOREM MemcmpOrders ==
  ASSUME NEW m, \A x \in Int : m[x] \in 0..255,
         NEW a \in Int, NEW b \in Int, NEW count \in Nat
  PROVE  LET Same(k) == \A i \in 0..k-1 : m[a + i] = m[b + i]
             result == Lib!memcmp(m, a, b, count)
         IN  /\ result = 0 <=> Same(count)
             /\ result < 0 <=> \E k \in 0..count-1 : Same(k) /\ m[a + k] < m[b + k]
<1> DEFINE Same(k) == \A i \in 0..k-1 : m[a + i] = m[b + i]
           T == {i \in 0..count-1 : m[a + i] # m[b + i]}
           result == Lib!memcmp(m, a, b, count)
           k == Lib!Min(T)
<1>1. CASE T = {}
  <2>1. result = 0
    BY <1>1 DEF Lib!memcmp
  <2>2. \A i \in 0..count-1 : m[a + i] = m[b + i]
    BY <1>1
  <2> HIDE DEF result
  <2>3. \A j \in 0..count-1 : ~ (m[a + j] < m[b + j])
    <3> TAKE j \in 0..count-1
    <3>1. m[b + j] \in 0..255 /\ m[a + j] = m[b + j]
      <4>1. b + j \in Int
        OBVIOUS
      <4> QED
        BY <2>2, <4>1, Zenon
    <3> QED
      BY <3>1
  <2>4. result = 0 <=> Same(count)
    BY <2>1, <2>2
  <2>5. result < 0 <=> \E j \in 0..count-1 : Same(j) /\ m[a + j] < m[b + j]
    BY <2>1, <2>3
  <2> QED
    BY <2>4, <2>5 DEF result
<1>2. CASE T # {}
  <2>1. \E x \in T : \A y \in T : x <= y
    <3>1. T \subseteq Nat
      OBVIOUS
    <3> HIDE DEF T
    <3> QED
      BY <1>2, <3>1, LeastElement
  <2>2. k \in T /\ \A y \in T : k <= y
    <3> HIDE DEF T
    <3> QED
      BY <2>1 DEF Lib!Min
  <2>3. result = m[a + k] - m[b + k]
    BY <1>2 DEF Lib!memcmp
  <2> HIDE DEF k, result
  <2> DEFINE u == m[a + k]
             w == m[b + k]
  <2>4. k \in 0..count-1 /\ u # w /\ u \in Int /\ w \in Int
    <3>1. k \in 0..count-1 /\ u # w
      BY <2>2
    <3>2. a + k \in Int /\ b + k \in Int
      BY <3>1
    <3>3. \A x \in Int : m[x] \in Int
      OBVIOUS
    <3>4. u \in Int /\ w \in Int
      BY <3>2, <3>3, Zenon
    <3> QED
      BY <3>1, <3>4
  <2>5. Same(k)
    <3> SUFFICES ASSUME NEW i \in 0..k-1 PROVE m[a + i] = m[b + i]
      OBVIOUS
    <3>1. i \in 0..count-1 /\ ~ (k <= i)
      BY <2>4
    <3> QED
      BY <2>2, <3>1
  <2>6. ASSUME NEW j \in 0..count-1, Same(j), m[a + j] # m[b + j] PROVE j = k
    <3>1. j \in T
      BY <2>6
    <3>2. k <= j
      BY <2>2, <3>1
    <3>3. ~ (k < j)
      BY <2>4, <2>6
    <3> QED
      BY <2>4, <3>2, <3>3
  <2>7. result # 0 /\ (result < 0 <=> u < w)
    <3> HIDE DEF T
    <3>1. result = u - w
      BY <2>3
    <3> HIDE DEF u, w
    <3> QED
      BY <2>4, <3>1
  <2>8. ~ Same(count)
    BY <2>4
  <2>9. ASSUME NEW j \in 0..count-1, Same(j), m[a + j] < m[b + j] PROVE u < w
    <3>1. m[a + j] # m[b + j]
      <4>1. a + j \in Int
        OBVIOUS
      <4>2. m[a + j] \in 0..255
        BY <4>1, Zenon
      <4> QED
        BY <2>9, <4>2
    <3>2. j = k
      BY <2>6, <2>9, <3>1
    <3> QED
      BY <2>9, <3>2
  <2>10. u < w => \E j \in 0..count-1 : Same(j) /\ m[a + j] < m[b + j]
    BY <2>4, <2>5
  <2>11. result = 0 <=> Same(count)
    BY <2>7, <2>8
  <2>12. result < 0 <=> \E j \in 0..count-1 : Same(j) /\ m[a + j] < m[b + j]
    BY <2>7, <2>9, <2>10
  <2> QED
    BY <2>11, <2>12 DEF result
<1> QED
  BY <1>1, <1>2

(* The n bytes from s on are not 0, and the next one is.                   *)
IsString(m, s, n) == m[s + n] = 0 /\ \A i \in 0..n-1 : m[s + i] # 0

(* string.c:37-41: strlen is the distance to the first zero byte.          *)
THEOREM StrlenCounts ==
  ASSUME NEW m, NEW s \in Int, NEW n \in Nat, IsString(m, s, n)
  PROVE  Lib!strlen(m, s) = n
<1> DEFINE go == {i \in Nat : m[s + i] # 0}
           out == [i \in Nat |-> i]
           Loop(f) == [i \in Nat |-> IF i \in go THEN f[i + 1] ELSE out[i]]
           Code(f) == [i \in Nat |-> IF m[s + i] # 0 THEN f[i + 1] ELSE i]
<1>1. \A f : Loop(f) = Code(f)
  OBVIOUS
<1>2. Lib!strlen(m, s) = (CHOOSE f : f = Code(f))[0]
  BY DEF Lib!strlen
<1>3. n \notin go /\ \A i \in 0..n-1 : i \in go
  BY DEF IsString
<1>4. out[n] = n
  OBVIOUS
<1> HIDE DEF go, out
<1>5. (CHOOSE f : f = Loop(f))[0] = out[n]
  BY <1>3, LoopReturns
<1> HIDE DEF Loop, Code
<1>6. (CHOOSE f : f = Loop(f)) = (CHOOSE f : f = Code(f))
  BY <1>1
<1> QED
  BY <1>2, <1>4, <1>5, <1>6

LEMMA StrcmpReturns ==
  ASSUME NEW m, NEW a \in Int, NEW b \in Int, NEW k \in Nat,
         m[a + k] = 0 \/ m[a + k] # m[b + k],
         \A i \in 0..k-1 : m[a + i] # 0 /\ m[a + i] = m[b + i]
  PROVE  Lib!strcmp(m, a, b) = m[a + k] - m[b + k]
<1> DEFINE go == {i \in Nat : m[a + i] # 0 /\ m[a + i] = m[b + i]}
           out == [i \in Nat |-> m[a + i] - m[b + i]]
           Loop(f) == [i \in Nat |-> IF i \in go THEN f[i + 1] ELSE out[i]]
           Code(f) == [i \in Nat |-> IF m[a + i] # 0 /\ m[a + i] = m[b + i]
                                     THEN f[i + 1] ELSE m[a + i] - m[b + i]]
<1>1. \A f : Loop(f) = Code(f)
  OBVIOUS
<1>2. Lib!strcmp(m, a, b) = (CHOOSE f : f = Code(f))[0]
  BY DEF Lib!strcmp
<1>3. k \notin go /\ \A i \in 0..k-1 : i \in go
  OBVIOUS
<1>4. out[k] = m[a + k] - m[b + k]
  OBVIOUS
<1> HIDE DEF go, out
<1>5. (CHOOSE f : f = Loop(f))[0] = out[k]
  BY ONLY k \in Nat, <1>3, LoopReturns
<1> HIDE DEF Loop, Code
<1>6. (CHOOSE f : f = Loop(f)) = (CHOOSE f : f = Code(f))
  BY <1>1
<1> QED
  BY <1>2, <1>4, <1>5, <1>6

(* string.c:43-46: strcmp is 0 exactly for equal strings, and negative     *)
(* exactly if the first is before the second in the order of a dictionary, *)
(* bytes being unsigned: also where one is the beginning of the other.     *)
THEOREM StrcmpOrders ==
  ASSUME NEW m, \A x \in Int : m[x] \in 0..255,
         NEW a \in Int, NEW b \in Int, NEW n \in Nat, NEW l \in Nat,
         IsString(m, a, n), IsString(m, b, l)
  PROVE  LET Same(k) == \A i \in 0..k-1 : m[a + i] = m[b + i]
             result == Lib!strcmp(m, a, b)
         IN  /\ result = 0 <=> n = l /\ Same(n)
             /\ result < 0 <=> \E k \in 0..n : Same(k) /\ m[a + k] < m[b + k]
<1> DEFINE Same(k) == \A i \in 0..k-1 : m[a + i] = m[b + i]
           T == {k \in Nat : m[a + k] = 0 \/ m[a + k] # m[b + k]}
           result == Lib!strcmp(m, a, b)
<1>1. /\ m[a + n] = 0 /\ \A i \in 0..n-1 : m[a + i] # 0
      /\ m[b + l] = 0 /\ \A i \in 0..l-1 : m[b + i] # 0
  BY DEF IsString
<1>2. PICK k \in T : \A j \in T : k <= j
  <2>1. n \in T /\ T \subseteq Nat
    BY <1>1
  <2> HIDE DEF T
  <2> QED
    BY <2>1, LeastElement
<1>3. k \in 0..n /\ k \in Nat
  <2>1. n \in T
    BY <1>1
  <2> QED
    BY <1>2, <2>1
<1>4. \A i \in 0..k-1 : m[a + i] # 0 /\ m[a + i] = m[b + i]
  <2> TAKE i \in 0..k-1
  <2>1. i \in Nat /\ ~ (k <= i)
    BY <1>3
  <2>2. i \notin T
    BY <1>2, <2>1
  <2> QED
    BY <2>1, <2>2
<1> DEFINE u == m[a + k]
           w == m[b + k]
<1>5. u = 0 \/ u # w
  BY <1>2
<1>6. (result = 0 <=> u = w) /\ (result < 0 <=> u < w)
  <2>1. a + k \in Int /\ b + k \in Int
    BY <1>3
  <2>2. u \in Int /\ w \in Int
    <3>1. \A x \in Int : m[x] \in Int
      OBVIOUS
    <3> QED
      BY <2>1, <3>1, Zenon
  <2>3. result = u - w
    <3> HIDE DEF T
    <3> QED
      BY <1>3, <1>4, <1>5, StrcmpReturns
  <2> HIDE DEF u, w, result
  <2> QED
    BY <2>2, <2>3
<1> HIDE DEF result
<1>7. ASSUME NEW j \in 0..n, Same(j), j \in T PROVE j = k
  <2>1. k <= j
    BY <1>2, <1>7
  <2>2. ASSUME k < j PROVE FALSE
    <3>1. m[a + k] = m[b + k] /\ m[a + k] # 0
      BY <1>1, <1>3, <1>7, <2>2
    <3> QED
      BY <1>2, <3>1
  <2> QED
    BY <1>3, <2>1, <2>2
<1>8. ASSUME n = l, Same(n) PROVE result = 0
  <2>1. n \in T /\ n \in 0..n
    BY <1>1
  <2>2. n = k
    BY <1>7, <1>8, <2>1
  <2> QED
    BY <1>1, <1>6, <1>8, <2>2
<1>9. ASSUME result = 0 PROVE n = l /\ Same(n)
  <2>1. m[a + k] = m[b + k]
    BY <1>6, <1>9
  <2>2. m[a + k] = 0
    BY <1>5, <2>1
  <2>3. k = n
    BY <1>1, <1>3, <2>2
  <2>4. \A i \in 0..n-1 : m[b + i] # 0
    BY <1>4, <2>3
  <2>5. n = l
    <3>1. ~ (l < n)
      BY <1>1, <2>4
    <3>2. ~ (n < l)
      <4>1. m[b + n] = 0
        BY <2>1, <2>2, <2>3
      <4>2. n < l => n \in 0..l-1
        OBVIOUS
      <4> QED
        BY <1>1, <4>1, <4>2
    <3> QED
      BY <3>1, <3>2
  <2> QED
    BY <1>4, <2>3, <2>5
<1>10. ASSUME result < 0 PROVE \E j \in 0..n : Same(j) /\ m[a + j] < m[b + j]
  <2>1. m[a + k] < m[b + k]
    BY <1>6, <1>10
  <2> QED
    BY <1>3, <1>4, <2>1
<1>11. ASSUME NEW j \in 0..n, Same(j), m[a + j] < m[b + j] PROVE result < 0
  <2>1. j \in T
    BY <1>11
  <2>2. j = k
    BY <1>7, <1>11, <2>1
  <2> QED
    BY <1>6, <1>11, <2>2
<1> QED
  BY <1>8, <1>9, <1>10, <1>11 DEF result

(* string.c:53-56: str_starts_with points behind the prefix exactly if     *)
(* the string begins with it, and never looks beyond the end of either.    *)
THEOREM PrefixIsFound ==
  ASSUME NEW m, NEW s \in Int, NEW prefix \in Int, NEW l \in Nat,
         IsString(m, prefix, l)
  PROVE  Lib!str_starts_with(m, s, prefix) =
           IF \A i \in 0..l-1 : m[s + i] = m[prefix + i] THEN s + l ELSE Lib!Null
<1> DEFINE go == {i \in Nat : m[prefix + i] # 0 /\ m[s + i] = m[prefix + i]}
           out == [i \in Nat |-> IF m[prefix + i] = 0 THEN s + i ELSE Lib!Null]
           Loop(f) == [i \in Nat |-> IF i \in go THEN f[i + 1] ELSE out[i]]
           Code(f) == [i \in Nat |-> IF m[prefix + i] = 0 THEN s + i
                                     ELSE IF m[s + i] # m[prefix + i] THEN Lib!Null
                                     ELSE f[i + 1]]
<1>1. \A f : Loop(f) = Code(f)
  OBVIOUS
<1>2. Lib!str_starts_with(m, s, prefix) = (CHOOSE f : f = Code(f))[0]
  BY DEF Lib!str_starts_with
<1>3. m[prefix + l] = 0 /\ \A i \in 0..l-1 : m[prefix + i] # 0
  BY DEF IsString
<1>4. PICK k \in Nat : k \notin go /\ \A i \in 0..k-1 : i \in go
  <2> DEFINE T == {i \in Nat : i \notin go}
  <2>1. l \in T /\ T \subseteq Nat
    BY <1>3
  <2> HIDE DEF T
  <2>2. PICK k \in T : \A j \in T : k <= j
    BY <2>1, LeastElement
  <2>3. k \in Nat /\ k \notin go
    BY DEF T
  <2>4. ASSUME NEW i \in 0..k-1 PROVE i \in go
    <3>1. i \in Nat /\ ~ (k <= i)
      BY <2>3
    <3>2. i \notin T
      BY <2>2, <3>1
    <3> HIDE DEF go
    <3> QED
      BY <3>1, <3>2 DEF T
  <2> QED
    BY <2>3, <2>4
<1>5. out[k] = IF \A i \in 0..l-1 : m[s + i] = m[prefix + i] THEN s + l ELSE Lib!Null
  <2>1. out[k] = IF m[prefix + k] = 0 THEN s + k ELSE Lib!Null
    OBVIOUS
  <2>2. k <= l
    BY <1>3, <1>4
  <2>3. CASE m[prefix + k] = 0
    <3>1. k = l
      BY <1>3, <2>2, <2>3
    <3> QED
      BY <1>4, <2>1, <2>3, <3>1
  <2>4. CASE m[prefix + k] # 0
    <3>1. k \in 0..l-1 /\ m[s + k] # m[prefix + k]
      BY <1>3, <1>4, <2>2, <2>4
    <3> QED
      BY <2>1, <2>4, <3>1
  <2> QED
    BY <2>3, <2>4
<1> HIDE DEF go, out
<1>6. (CHOOSE f : f = Loop(f))[0] = out[k]
  BY <1>4, LoopReturns
<1> HIDE DEF Loop, Code
<1>7. (CHOOSE f : f = Loop(f)) = (CHOOSE f : f = Code(f))
  BY <1>1
<1> QED
  BY <1>2, <1>5, <1>6, <1>7

(***************************************************************************)
(* krealloc's memcpy, byte by byte: for whatever the memory holds.         *)
(***************************************************************************)
Bytes(p) == p..p+blk[BlockOf(p)].size-1
ReallocCopies ==
  \A t \in Task : call[t].at = "copy" =>
    \A m \in [0..HeapTop -> 0..255] : \A ptr, np, size, after :
      /\ ptr = call[t].ptr /\ np = call[t].np /\ size = blk[BlockOf(ptr)].size
      /\ after = Lib!memcpy(m, np, ptr, size)
      => /\ \A i \in 0..size-1 : after[np + i] = m[ptr + i]
         /\ \A p \in DOMAIN owner \ {np} : \A x \in Bytes(p) : after[x] = m[x]

LEMMA ApartIsCopied ==
  ASSUME NEW top \in Nat, NEW m, m = [x \in 0..top |-> m[x]],
         NEW d \in Nat, NEW s \in Nat, NEW n \in Nat,
         d + n <= top, s + n <= top, d + n <= s \/ s + n <= d
  PROVE  Lib!memcpy(m, d, s, n) = Copied(0..top, m, d, s, n)
<1> DEFINE A == 0..top
<1>1. A \subseteq Int /\ m = [x \in A |-> m[x]]
  OBVIOUS
<1>2. d..d+n-1 \subseteq A /\ s..s+n-1 \subseteq A
  OBVIOUS
<1>3. d \in Int /\ s \in Int /\ (d <= s \/ s + n <= d)
  OBVIOUS
<1> HIDE DEF A
<1>4. Lib!memcpy(m, d, s, n) = Copied(A, m, d, s, n)
  BY <1>1, <1>2, <1>3, MemcpyCopies
<1> QED
  BY <1>4 DEF A

(* heap.c:153-156: when krealloc has its new block, which it took without  *)
(* holding a lock over both calls, memcpy moves every byte of the old      *)
(* block to it and changes no byte of any other block in use.              *)
THEOREM ReallocMovesTheBytes == Spec => []ReallocCopies
<1>1. IInv => ReallocCopies
  <2> SUFFICES ASSUME IInv PROVE ReallocCopies
    OBVIOUS
  <2>1. ASSUME NEW t \in Task, call[t].at = "copy"
        PROVE  \A m \in [0..HeapTop -> 0..255] : \A ptr, np, size, after :
                 /\ ptr = call[t].ptr /\ np = call[t].np /\ size = blk[BlockOf(ptr)].size
                 /\ after = Lib!memcpy(m, np, ptr, size)
                 => /\ \A i \in 0..size-1 : after[np + i] = m[ptr + i]
                    /\ \A p \in DOMAIN owner \ {np} : \A x \in Bytes(p) : after[x] = m[x]
    <3> TAKE m \in [0..HeapTop -> 0..255]
    <3> TAKE ptr, np, size, after
    <3> HAVE /\ ptr = call[t].ptr /\ np = call[t].np /\ size = blk[BlockOf(ptr)].size
             /\ after = Lib!memcpy(m, np, ptr, size)
    <3> DEFINE room == blk[BlockOf(np)].size
    <3>1. Copying(t)
      BY <2>1 DEF IInv, CallInv, Idle, Allocating
    <3>2. ptr \in DOMAIN owner /\ np \in DOMAIN owner /\ size < room
      BY <2>1, <3>1 DEF Copying, Held
    <3>3. Regions /\ HeapTop \in Nat
      BY <2>1, RegionsSound, HeapAssumption DEF HeapTop
    <3>4. ASSUME NEW p \in DOMAIN owner
          PROVE  /\ p \in Nat /\ blk[BlockOf(p)].size \in Nat
                 /\ p + blk[BlockOf(p)].size <= HeapTop
                 /\ \A q \in DOMAIN owner : q # p =>
                      \/ p + blk[BlockOf(p)].size <= q
                      \/ q + blk[BlockOf(q)].size <= p
      <4>1. \A q \in DOMAIN owner : Live[q].length = blk[BlockOf(q)].size
        BY DEF Live
      <4>2. Region(p)
        BY <3>3 DEF Regions
      <4>3. Live[p].length \in 0..HeapTop /\ p \in 0..HeapTop
        BY <4>2 DEF Region
      <4>4. p + Live[p].length <= HeapTop
        BY <4>2 DEF Region
      <4>5. \A q \in DOMAIN owner :
              q # p => p + Live[p].length <= q \/ q + Live[q].length <= p
        BY <4>2 DEF Region
      <4>6. blk[BlockOf(p)].size = Live[p].length
        BY <4>1
      <4>7. \A q \in DOMAIN owner : q # p =>
              \/ p + blk[BlockOf(p)].size <= q
              \/ q + blk[BlockOf(q)].size <= p
        <5> TAKE q \in DOMAIN owner
        <5>1. blk[BlockOf(q)].size = Live[q].length
          BY <4>1
        <5> QED
          BY <4>5, <4>6, <5>1
      <4>8. p \in Nat /\ Live[p].length \in Nat
        BY <3>3, <4>3
      <4> QED
        BY <4>4, <4>6, <4>7, <4>8
    <3>5. /\ ptr \in Nat /\ np \in Nat /\ size \in Nat /\ room \in Nat
          /\ ptr + size <= HeapTop /\ np + room <= HeapTop
      BY <2>1, <3>2, <3>4
    <3>6. ptr # np
      <4>1. size < room
        BY <3>2
      <4> SUFFICES ASSUME ptr = np PROVE FALSE
        OBVIOUS
      <4>2. size = room
        BY <2>1
      <4> QED
        BY <3>5, <4>1, <4>2
    <3>7. ptr + size <= np \/ np + room <= ptr
      BY <2>1, <3>2, <3>4, <3>6
    <3>8. ASSUME NEW p \in DOMAIN owner \ {np}, NEW x \in Bytes(p)
          PROVE  x \in 0..HeapTop /\ x \notin np..np+size-1
      <4>1. /\ p \in Nat /\ blk[BlockOf(p)].size \in Nat
            /\ p + blk[BlockOf(p)].size <= HeapTop
        BY <3>4
      <4>2. p + blk[BlockOf(p)].size <= np \/ np + room <= p
        BY <3>2, <3>4
      <4>3. size < room
        BY <3>2
      <4>4. x \in p..p+blk[BlockOf(p)].size-1
        BY DEF Bytes
      <4> HIDE DEF room
      <4> QED
        BY ONLY <3>3, <3>5, <4>1, <4>2, <4>3, <4>4
    <3>9. size < room
      BY <3>2
    <3> HIDE DEF room
    <3>10. /\ ptr + size <= HeapTop /\ np + size <= HeapTop
           /\ np + size <= ptr \/ ptr + size <= np
      BY <3>3, <3>5, <3>7, <3>9
    <3>11. HeapTop \in Nat /\ np \in Nat /\ ptr \in Nat /\ size \in Nat
      BY <3>3, <3>5
    <3>12. after = Copied(0..HeapTop, m, np, ptr, size)
      <4>1. Lib!memcpy(m, np, ptr, size) = Copied(0..HeapTop, m, np, ptr, size)
        <5>1. m = [x \in 0..HeapTop |-> m[x]]
          OBVIOUS
        <5> QED
          BY ONLY <3>10, <3>11, <5>1, ApartIsCopied
      <4> QED
        BY <4>1
    <3>13. /\ \A i \in 0..size-1 : after[np + i] = m[ptr + i]
           /\ \A x \in 0..HeapTop : x \notin np..np+size-1 => after[x] = m[x]
      <4>1. \A x \in 0..HeapTop :
              after[x] = IF x \in np..np+size-1 THEN m[x - np + ptr] ELSE m[x]
        BY ONLY <3>12 DEF Copied
      <4>2. \A i \in 0..size-1 : /\ np + i \in 0..HeapTop /\ np + i \in np..np+size-1
                                 /\ (np + i) - np + ptr = ptr + i
        BY ONLY <3>10, <3>11
      <4>3. \A i \in 0..size-1 : after[np + i] = m[ptr + i]
        BY ONLY <4>1, <4>2
      <4> QED
        BY ONLY <4>1, <4>3
    <3>14. \A p \in DOMAIN owner \ {np} : \A x \in Bytes(p) : after[x] = m[x]
      BY <3>8, <3>13
    <3> QED
      BY <3>13, <3>14
  <2> QED
    BY <2>1 DEF ReallocCopies
<1> QED
  BY <1>1, Invariance, PTL
=============================================================================
