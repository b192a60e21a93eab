-------------------------- MODULE PageTablesProofs --------------------------
(***************************************************************************)
(* vmm.c keeps its tables a tree of frames that nobody else holds, its     *)
(* callers an address space in which a call changes one page, and the TLB  *)
(* coherent with both: for every number of frames, indices and pages.      *)
(***************************************************************************)
EXTENDS PageTables, WellFoundedInduction, TLAPS

(***************************************************************************)
(* First fit: the least of the free frames is one of them.                 *)
(***************************************************************************)
LEMMA MinIsIn ==
  ASSUME NEW T, T \subseteq Nat, T # {}
  PROVE  Min(T) \in T
<1> DEFINE R == OpToRel(<, Nat)
<1>1. IsWellFoundedOn(R, Nat)
  BY NatLessThanWellFounded
<1>2. \A x, y \in Nat : x < y => <<x, y>> \in R
  BY DEF OpToRel
<1> HIDE DEF R
<1>3. PICK x \in T : \A y \in T : ~ (<<y, x>> \in R)
  BY <1>1, WFMin
<1>4. \A y \in T : ~ (y < x)
  BY <1>2, <1>3
<1>5. \A y \in T : x <= y
  BY <1>4
<1> QED
  BY <1>5 DEF Min

(***************************************************************************)
(* What a set of tables points to.                                         *)
(***************************************************************************)
LEMMA BelowIs ==
  ASSUME NEW m, NEW T
  PROVE  \A x : x \in Below(m, T) <=> /\ x # None
                                      /\ \E t \in T, i \in Index : m[t][i] = x
<1>1. ASSUME NEW t \in T, NEW i \in Index, m[t][i] # None
      PROVE  m[t][i] \in Below(m, T)
  <2>1. <<t, i>> \in Entries(m, T) /\ <<t, i>>[1] = t /\ <<t, i>>[2] = i
    BY <1>1 DEF Entries
  <2> QED
    BY <2>1 DEF Below
<1>2. ASSUME NEW x \in Below(m, T)
      PROVE  x # None /\ \E t \in T, i \in Index : m[t][i] = x
  BY DEF Below, Entries
<1> QED
  BY <1>1, <1>2

LEMMA PointApartIs ==
  ASSUME NEW m, NEW T
  PROVE  PointApart(m, T) <=>
           \A t, u \in T : \A i, j \in Index :
              m[t][i] # None /\ m[t][i] = m[u][j] => t = u /\ i = j
<1>1. ASSUME PointApart(m, T),
             NEW t \in T, NEW u \in T, NEW i \in Index, NEW j \in Index,
             m[t][i] # None, m[t][i] = m[u][j]
      PROVE  t = u /\ i = j
  <2>1. <<t, i>> \in Entries(m, T) /\ <<u, j>> \in Entries(m, T)
    BY <1>1 DEF Entries
  <2>2. <<t, i>> = <<u, j>>
    BY <1>1, <2>1 DEF PointApart
  <2> QED
    BY <2>2
<1>2. ASSUME \A t, u \in T : \A i, j \in Index :
                m[t][i] # None /\ m[t][i] = m[u][j] => t = u /\ i = j
      PROVE  PointApart(m, T)
  BY <1>2 DEF PointApart, Entries
<1> QED
  BY <1>1, <1>2

(***************************************************************************)
(* The four levels of tables, one by one.                                  *)
(***************************************************************************)
Level2(m, r) == Below(m, {r})
Level3(m, r) == Below(m, Level2(m, r))
Level4(m, r) == Below(m, Level3(m, r))

LEMMA LevelsOfTables ==
  ASSUME NEW m, NEW r
  PROVE  /\ Tables(m, r)[1] = {r} /\ Tables(m, r)[2] = Level2(m, r)
         /\ Tables(m, r)[3] = Level3(m, r) /\ Tables(m, r)[4] = Level4(m, r)
<1> DEFINE Body(g) == [k \in 1..4 |-> IF k = 1 THEN {r} ELSE Below(m, g[k - 1])]
           level == [k \in 1..4 |-> IF k = 1 THEN {r}
                                    ELSE IF k = 2 THEN Level2(m, r)
                                    ELSE IF k = 3 THEN Level3(m, r)
                                    ELSE Level4(m, r)]
<1>1. level = Body(level)
  BY DEF Level2, Level3, Level4
<1> HIDE DEF level
<1>2. Tables(m, r) = CHOOSE g : g = Body(g)
  BY DEF Tables
<1>3. Tables(m, r) = Body(Tables(m, r))
  BY <1>1, <1>2
<1> DEFINE g == Tables(m, r)
<1> HIDE DEF g
<1>4. g = Body(g)
  BY <1>3 DEF g
<1>5. g[1] = {r} /\ g[2] = Below(m, g[1]) /\ g[3] = Below(m, g[2]) /\ g[4] = Below(m, g[3])
  BY <1>4
<1> QED
  BY <1>5 DEF g, Level2, Level3, Level4

LEMMA TreeIs ==
  ASSUME NEW m, NEW r
  PROVE  IsATree(m, r) <=>
           /\ PointApart(m, {r})
           /\ PointApart(m, Level2(m, r)) /\ PointApart(m, Level3(m, r))
           /\ r \notin Level2(m, r) /\ r \notin Level3(m, r) /\ r \notin Level4(m, r)
           /\ Level2(m, r) \cap Level3(m, r) = {}
           /\ Level2(m, r) \cap Level4(m, r) = {}
           /\ Level3(m, r) \cap Level4(m, r) = {}
<1> DEFINE T == Tables(m, r)
<1>1. T[1] = {r} /\ T[2] = Level2(m, r) /\ T[3] = Level3(m, r) /\ T[4] = Level4(m, r)
  BY LevelsOfTables
<1>2. IsATree(m, r) <=> /\ \A k \in 1..3 : PointApart(m, T[k])
                        /\ \A j, k \in 1..4 : j # k => T[j] \cap T[k] = {}
  BY DEF IsATree
<1> HIDE DEF T
<1>3. (\A k \in 1..3 : PointApart(m, T[k])) <=>
        PointApart(m, T[1]) /\ PointApart(m, T[2]) /\ PointApart(m, T[3])
  <2>1. \A k \in 1..3 : k = 1 \/ k = 2 \/ k = 3
    OBVIOUS
  <2> QED
    BY <2>1
<1>4. (\A j, k \in 1..4 : j # k => T[j] \cap T[k] = {}) <=>
        /\ T[1] \cap T[2] = {} /\ T[1] \cap T[3] = {} /\ T[1] \cap T[4] = {}
        /\ T[2] \cap T[3] = {} /\ T[2] \cap T[4] = {} /\ T[3] \cap T[4] = {}
  <2>1. \A k \in 1..4 : k = 1 \/ k = 2 \/ k = 3 \/ k = 4
    OBVIOUS
  <2>2. \A A, B : A \cap B = B \cap A
    OBVIOUS
  <2> QED
    BY <2>1, <2>2
<1>5. \A A : {r} \cap A = {} <=> r \notin A
  OBVIOUS
<1> QED
  BY <1>1, <1>2, <1>3, <1>4, <1>5

(***************************************************************************)
(* A store to a frame that is not among the tables of T.                   *)
(***************************************************************************)
LEMMA StoreElsewhere ==
  ASSUME NEW m, NEW m2, NEW T, \A t \in T : m2[t] = m[t]
  PROVE  Below(m2, T) = Below(m, T) /\ (PointApart(m2, T) <=> PointApart(m, T))
<1>1. \A x : x \in Below(m2, T) <=> x \in Below(m, T)
  BY BelowIs
<1>2. PointApart(m2, T) <=> PointApart(m, T)
  BY PointApartIs
<1> QED
  BY <1>1, <1>2

(***************************************************************************)
(* A new table f, behind an entry that was not in use.                     *)
(***************************************************************************)
LEMMA StoreEntry ==
  ASSUME NEW m, NEW m2, NEW T, NEW t \in T, NEW i \in Index, NEW f, f # None,
         \A u \in T : u # t => m2[u] = m[u],
         \A j \in Index : j # i => m2[t][j] = m[t][j],
         m2[t][i] = f, m[t][i] = None, f \notin Below(m, T)
  PROVE  /\ Below(m2, T) = Below(m, T) \cup {f}
         /\ PointApart(m, T) => PointApart(m2, T)
<1>1. \A u \in T, j \in Index : m2[u][j] = IF u = t /\ j = i THEN f ELSE m[u][j]
  OBVIOUS
<1>2. \A x : x \in Below(m2, T) <=> x \in Below(m, T) \cup {f}
  <2>1. \A x : x \in Below(m2, T) => x \in Below(m, T) \cup {f}
    BY <1>1, BelowIs
  <2>2. \A x : x \in Below(m, T) => x \in Below(m2, T)
    <3>1. SUFFICES ASSUME NEW u \in T, NEW j \in Index, m[u][j] # None
                   PROVE  m[u][j] \in Below(m2, T)
      BY BelowIs
    <3>2. m2[u][j] = m[u][j]
      BY <1>1, <3>1
    <3> QED
      BY <3>1, <3>2, BelowIs
  <2>3. f \in Below(m2, T)
    BY BelowIs
  <2> QED
    BY <2>1, <2>2, <2>3
<1>3. ASSUME PointApart(m, T) PROVE PointApart(m2, T)
  <2>1. SUFFICES ASSUME NEW u \in T, NEW w \in T, NEW j \in Index, NEW k \in Index,
                        m2[u][j] # None, m2[u][j] = m2[w][k]
                 PROVE  u = w /\ j = k
    BY PointApartIs
  <2>2. \A v \in T, l \in Index : m[v][l] # f
    BY BelowIs
  <2>3. CASE (u = t /\ j = i) \/ (w = t /\ k = i)
    BY <1>1, <2>1, <2>2, <2>3
  <2>4. CASE ~ (u = t /\ j = i) /\ ~ (w = t /\ k = i)
    <3>1. m2[u][j] = m[u][j] /\ m2[w][k] = m[w][k]
      BY <1>1, <2>4
    <3>2. m[u][j] # None /\ m[u][j] = m[w][k]
      BY <2>1, <3>1
    <3>3. \A a, b \in T : \A c, d \in Index :
            m[a][c] # None /\ m[a][c] = m[b][d] => a = b /\ c = d
      BY <1>3, PointApartIs
    <3> QED
      BY <3>2, <3>3
  <2> QED
    BY <2>3, <2>4
<1> QED
  BY <1>2, <1>3

LEMMA EmptyTable ==
  ASSUME NEW m, NEW T, NEW f, \A j \in Index : m[f][j] = None
  PROVE  /\ Below(m, T \cup {f}) = Below(m, T)
         /\ PointApart(m, T) => PointApart(m, T \cup {f})
<1>1. \A x : x \in Below(m, T \cup {f}) <=> x \in Below(m, T)
  BY BelowIs
<1>2. ASSUME PointApart(m, T) PROVE PointApart(m, T \cup {f})
  <2>1. SUFFICES ASSUME NEW t \in T \cup {f}, NEW u \in T \cup {f},
                        NEW i \in Index, NEW j \in Index,
                        m[t][i] # None, m[t][i] = m[u][j]
                 PROVE  t = u /\ i = j
    BY PointApartIs
  <2>2. t \in T /\ u \in T
    BY <2>1
  <2> QED
    BY <1>2, <2>1, <2>2, PointApartIs
<1> QED
  BY <1>1, <1>2

(***************************************************************************)
(* The tables are sound: they form a tree, and none lies in S, the frames  *)
(* that are free or that callers hold.                                     *)
(***************************************************************************)
Memory == [Frame -> [Index -> Frame \cup {None}]]

AllTables(m, r) == {r} \cup Level2(m, r) \cup Level3(m, r) \cup Level4(m, r)

Sound(m, r, S) ==
  /\ m \in Memory /\ r \in Frame /\ S \subseteq Frame
  /\ IsATree(m, r)
  /\ AllTables(m, r) \cap S = {}

LEMMA TablesAreFrames ==
  ASSUME NEW m \in Memory, NEW r \in Frame
  PROVE  AllTables(m, r) \subseteq Frame
<1>1. \A T : T \subseteq Frame => Below(m, T) \subseteq Frame
  <2>1. \A t \in Frame, i \in Index : m[t][i] \in Frame \cup {None}
    BY DEF Memory
  <2> QED
    BY <2>1, BelowIs
<1>2. {r} \subseteq Frame /\ Level2(m, r) \subseteq Frame
  BY <1>1 DEF Level2
<1>3. Level3(m, r) \subseteq Frame /\ Level4(m, r) \subseteq Frame
  BY <1>1, <1>2 DEF Level3, Level4
<1> QED
  BY <1>2, <1>3 DEF AllTables

(* A store that leaves the tables of the first three levels alone. *)
LEMMA TreeStays ==
  ASSUME NEW m, NEW r, NEW S, Sound(m, r, S), NEW m2 \in Memory,
         \A t \in {r} \cup Level2(m, r) \cup Level3(m, r) : m2[t] = m[t]
  PROVE  /\ Sound(m2, r, S)
         /\ Level2(m2, r) = Level2(m, r) /\ Level3(m2, r) = Level3(m, r)
         /\ Level4(m2, r) = Level4(m, r)
<1>1. Level2(m2, r) = Level2(m, r) /\ (PointApart(m2, {r}) <=> PointApart(m, {r}))
  BY StoreElsewhere DEF Level2
<1>2. /\ Level3(m2, r) = Level3(m, r)
      /\ PointApart(m2, Level2(m2, r)) <=> PointApart(m, Level2(m, r))
  BY <1>1, StoreElsewhere DEF Level3
<1>3. /\ Level4(m2, r) = Level4(m, r)
      /\ PointApart(m2, Level3(m2, r)) <=> PointApart(m, Level3(m, r))
  BY <1>2, StoreElsewhere DEF Level4
<1>4. IsATree(m2, r)
  BY <1>1, <1>2, <1>3, TreeIs DEF Sound
<1> QED
  BY <1>1, <1>2, <1>3, <1>4 DEF Sound, AllTables

(* get_next_level links the frame f, which it has cleared. *)
Linked(m, t, i, f) == [m EXCEPT ![f] = Empty, ![t][i] = f]

LEMMA LinkedIs ==
  ASSUME NEW m \in Memory, NEW t \in Frame, NEW i \in Index, NEW f \in Frame, f # t,
         NEW m2, m2 = Linked(m, t, i, f)
  PROVE  /\ m2 \in Memory
         /\ \A u \in Frame : u # t /\ u # f => m2[u] = m[u]
         /\ \A j \in Index : m2[t][j] = IF j = i THEN f ELSE m[t][j]
         /\ \A j \in Index : m2[f][j] = None
BY DEF Memory, Linked, Empty

LEMMA NewTableKeepsSound ==
  ASSUME NEW m, NEW r, NEW S, Sound(m, r, S), NEW f \in S, f # None,
         NEW t \in {r} \cup Level2(m, r) \cup Level3(m, r),
         NEW i \in Index, m[t][i] = None,
         NEW m2 \in Memory,
         \A u \in Frame : u # t /\ u # f => m2[u] = m[u],
         \A j \in Index : m2[t][j] = IF j = i THEN f ELSE m[t][j],
         \A j \in Index : m2[f][j] = None
  PROVE  /\ Sound(m2, r, S \ {f})
         /\ t = r => f \in Level2(m2, r)
         /\ t \in Level2(m, r) => f \in Level3(m2, r)
         /\ t \in Level3(m, r) => f \in Level4(m2, r)
<1> DEFINE A == Level2(m, r)
           B == Level3(m, r)
           C == Level4(m, r)
<1>1. /\ m \in Memory /\ r \in Frame /\ f \in Frame /\ t \in Frame /\ f # t
      /\ f \notin {r} \cup A \cup B \cup C
      /\ {r} \cup A \cup B \cup C \subseteq Frame
  BY TablesAreFrames DEF Sound, AllTables
<1>2. /\ PointApart(m, {r}) /\ PointApart(m, A) /\ PointApart(m, B)
      /\ r \notin A \cup B \cup C /\ A \cap B = {} /\ A \cap C = {} /\ B \cap C = {}
  BY TreeIs DEF Sound
<1> HIDE DEF A, B, C
<1>3. /\ m2 \in Memory
      /\ \A u \in Frame : u # t /\ u # f => m2[u] = m[u]
      /\ \A j \in Index : m2[t][j] = IF j = i THEN f ELSE m[t][j]
      /\ \A j \in Index : m2[f][j] = None
  OBVIOUS
<1>4. S \ {f} \subseteq Frame /\ ({r} \cup A \cup B \cup C) \cap (S \ {f}) = {}
  BY DEF Sound, AllTables, A, B, C
<1>5. A = Below(m, {r}) /\ B = Below(m, A) /\ C = Below(m, B)
  BY DEF Level2, Level3, Level4, A, B, C
<1> DEFINE A2 == Level2(m2, r)
           B2 == Level3(m2, r)
           C2 == Level4(m2, r)
<1>6. A2 = Below(m2, {r}) /\ B2 = Below(m2, A2) /\ C2 = Below(m2, B2)
  BY DEF Level2, Level3, Level4
<1>7. \A T \in SUBSET Frame : t \notin T /\ f \notin T =>
        Below(m2, T) = Below(m, T) /\ (PointApart(m2, T) <=> PointApart(m, T))
  BY <1>3, StoreElsewhere
<1>8. \A T \in SUBSET Frame : t \in T /\ f \notin T /\ f \notin Below(m, T) =>
        /\ Below(m2, T) = Below(m, T) \cup {f}
        /\ PointApart(m, T) => PointApart(m2, T)
  <2>1. SUFFICES ASSUME NEW T \in SUBSET Frame,
                        t \in T, f \notin T, f \notin Below(m, T)
                 PROVE  /\ Below(m2, T) = Below(m, T) \cup {f}
                        /\ PointApart(m, T) => PointApart(m2, T)
    OBVIOUS
  <2>2. /\ \A u \in T : u # t => m2[u] = m[u]
        /\ \A j \in Index : j # i => m2[t][j] = m[t][j]
        /\ m2[t][i] = f
    BY <1>3, <2>1
  <2>3. m[t][i] = None /\ f # None
    OBVIOUS
  <2> QED
    BY <2>1, <2>2, <2>3, StoreEntry
<1>9. \A T : /\ Below(m2, T \cup {f}) = Below(m2, T)
             /\ PointApart(m2, T) => PointApart(m2, T \cup {f})
  BY <1>3, EmptyTable
<1> HIDE DEF A2, B2, C2
<1>f. /\ {r} \in SUBSET Frame /\ A \in SUBSET Frame /\ B \in SUBSET Frame
      /\ f \notin {r} /\ f \notin A /\ f \notin B /\ f \notin C
  BY <1>1
<1>10. /\ PointApart(m2, {r}) /\ PointApart(m2, A2) /\ PointApart(m2, B2)
       /\ \/ t = r /\ A2 = A \cup {f} /\ B2 = B /\ C2 = C
          \/ t \in A /\ A2 = A /\ B2 = B \cup {f} /\ C2 = C
          \/ t \in B /\ A2 = A /\ B2 = B /\ C2 = C \cup {f}
  <2>1. CASE t = r
    <3>1. A2 = A \cup {f} /\ PointApart(m2, {r})
      BY <1>f, <1>2, <1>5, <1>6, <1>8, <2>1
    <3>2. Below(m2, A) = B /\ PointApart(m2, A)
      BY <1>f, <1>2, <1>5, <1>7, <2>1
    <3>3. B2 = B /\ PointApart(m2, A2)
      BY <1>6, <1>9, <3>1, <3>2
    <3>4. C2 = C /\ PointApart(m2, B2)
      BY <1>f, <1>2, <1>5, <1>6, <1>7, <2>1, <3>3
    <3> QED
      BY <2>1, <3>1, <3>3, <3>4
  <2>2. CASE t \in A
    <3>1. A2 = A /\ PointApart(m2, {r})
      BY <1>f, <1>2, <1>5, <1>6, <1>7, <2>2
    <3>2. B2 = B \cup {f} /\ PointApart(m2, A2)
      BY <1>f, <1>2, <1>5, <1>6, <1>8, <2>2, <3>1
    <3>3. Below(m2, B) = C /\ PointApart(m2, B)
      BY <1>f, <1>2, <1>5, <1>7, <2>2
    <3>4. C2 = C /\ PointApart(m2, B2)
      BY <1>6, <1>9, <3>2, <3>3
    <3> QED
      BY <2>2, <3>1, <3>2, <3>4
  <2>3. CASE t \in B
    <3>1. A2 = A /\ PointApart(m2, {r})
      BY <1>f, <1>2, <1>5, <1>6, <1>7, <2>3
    <3>2. B2 = B /\ PointApart(m2, A2)
      BY <1>f, <1>2, <1>5, <1>6, <1>7, <2>3, <3>1
    <3>3. C2 = C \cup {f} /\ PointApart(m2, B2)
      BY <1>f, <1>2, <1>5, <1>6, <1>8, <2>3, <3>2
    <3> QED
      BY <2>3, <3>1, <3>2, <3>3
  <2> QED
    BY <2>1, <2>2, <2>3 DEF A, B
<1>11. /\ r \notin A2 \cup B2 \cup C2
       /\ A2 \cap B2 = {} /\ A2 \cap C2 = {} /\ B2 \cap C2 = {}
       /\ ({r} \cup A2 \cup B2 \cup C2) \cap (S \ {f}) = {}
  BY <1>1, <1>2, <1>4, <1>10
<1>12. Sound(m2, r, S \ {f})
  BY <1>1, <1>3, <1>4, <1>10, <1>11, TreeIs DEF Sound, AllTables, A2, B2, C2
<1>13. /\ t = r => f \in A2
       /\ t \in A => f \in B2
       /\ t \in B => f \in C2
  BY <1>2, <1>10
<1> QED
  BY <1>12, <1>13 DEF A, B, A2, B2, C2

LEMMA LinkKeepsSound ==
  ASSUME NEW m, NEW r, NEW S, Sound(m, r, S), NEW f \in S, f # None,
         NEW t \in {r} \cup Level2(m, r) \cup Level3(m, r),
         NEW i \in Index, m[t][i] = None,
         NEW m2, m2 = Linked(m, t, i, f)
  PROVE  /\ Sound(m2, r, S \ {f})
         /\ t = r => f \in Level2(m2, r)
         /\ t \in Level2(m, r) => f \in Level3(m2, r)
         /\ t \in Level3(m, r) => f \in Level4(m2, r)
<1>1. m \in Memory /\ t \in Frame /\ i \in Index /\ f \in Frame /\ f # t
  BY TablesAreFrames DEF Sound, AllTables
<1>2. /\ m2 \in Memory
      /\ \A u \in Frame : u # t /\ u # f => m2[u] = m[u]
      /\ \A j \in Index : m2[t][j] = IF j = i THEN f ELSE m[t][j]
      /\ \A j \in Index : m2[f][j] = None
  BY <1>1, LinkedIs
<1> QED
  BY <1>2, NewTableKeepsSound

(***************************************************************************)
(* The walk of a page, level by level.                                     *)
(***************************************************************************)
Path == [1..4 -> Index]

Step(m, t, i) == IF t = None THEN None ELSE m[t][i]
Walk2(m, r, v) == Step(m, r, v[1])
Walk3(m, r, v) == Step(m, Walk2(m, r, v), v[2])
Walk4(m, r, v) == Step(m, Walk3(m, r, v), v[3])
Walk5(m, r, v) == Step(m, Walk4(m, r, v), v[4])

LEMMA WalksMeetTables ==
  ASSUME NEW m, NEW r \in Frame, NEW v \in Path
  PROVE  /\ Walk2(m, r, v) \in Level2(m, r) \cup {None}
         /\ Walk3(m, r, v) \in Level3(m, r) \cup {None}
         /\ Walk4(m, r, v) \in Level4(m, r) \cup {None}
<1>1. v[1] \in Index /\ v[2] \in Index /\ v[3] \in Index
  BY DEF Path
<1>2. \A T, i, t : t \in T \cup {None} /\ i \in Index =>
        Step(m, t, i) \in Below(m, T) \cup {None}
  BY BelowIs DEF Step
<1>3. Walk2(m, r, v) \in Level2(m, r) \cup {None}
  BY <1>1, <1>2 DEF Walk2, Level2
<1>4. Walk3(m, r, v) \in Level3(m, r) \cup {None}
  BY <1>1, <1>2, <1>3 DEF Walk3, Level3
<1> QED
  BY <1>1, <1>2, <1>3, <1>4 DEF Walk4, Level4

(* Two pages that share a last table differ in the last index only. *)
LEMMA OnePathToATable ==
  ASSUME NEW m, NEW r, NEW S, Sound(m, r, S), NEW v \in Path, NEW w \in Path,
         Walk4(m, r, v) # None, Walk4(m, r, v) = Walk4(m, r, w)
  PROVE  v[1] = w[1] /\ v[2] = w[2] /\ v[3] = w[3]
<1>1. \A x \in Path : x[1] \in Index /\ x[2] \in Index /\ x[3] \in Index
  BY DEF Path
<1>2. \A T : PointApart(m, T) =>
        \A t, u \in T \cup {None} : \A i, j \in Index :
           Step(m, t, i) # None /\ Step(m, t, i) = Step(m, u, j) => t = u /\ i = j
  BY PointApartIs DEF Step
<1>3. PointApart(m, {r}) /\ PointApart(m, Level2(m, r)) /\ PointApart(m, Level3(m, r))
  BY TreeIs DEF Sound
<1>4. Walk3(m, r, v) = Walk3(m, r, w) /\ v[3] = w[3] /\ Walk3(m, r, v) # None
  BY <1>1, <1>2, <1>3, WalksMeetTables DEF Walk4, Step, Sound
<1>5. Walk2(m, r, v) = Walk2(m, r, w) /\ v[2] = w[2] /\ Walk2(m, r, v) # None
  BY <1>1, <1>2, <1>3, <1>4, WalksMeetTables DEF Walk3, Step, Sound
<1>6. v[1] = w[1]
  BY <1>1, <1>2, <1>3, <1>5 DEF Walk2, Step, Sound
<1> QED
  BY <1>4, <1>5, <1>6

(***************************************************************************)
(* Linking a new table changes no translation: it only makes a walk that   *)
(* ended early a table longer.                                             *)
(***************************************************************************)
LEMMA LinkKeepsWalks ==
  ASSUME NEW m, NEW r, NEW S, Sound(m, r, S), NEW f \in S, f # None,
         NEW t \in {r} \cup Level2(m, r) \cup Level3(m, r),
         NEW i \in Index, m[t][i] = None,
         NEW m2, m2 = Linked(m, t, i, f), NEW v \in Path
  PROVE  /\ Walk2(m, r, v) # None => Walk2(m2, r, v) = Walk2(m, r, v)
         /\ Walk3(m, r, v) # None => Walk3(m2, r, v) = Walk3(m, r, v)
         /\ Walk5(m2, r, v) = Walk5(m, r, v)
<1> DEFINE Grown(y, x) == y = x \/ (x = None /\ y = f)
           Known == AllTables(m, r) \cup {None}
<1>1. /\ m \in Memory /\ r \in Frame /\ f \in Frame /\ t \in Frame /\ f # t
      /\ f \notin Known /\ AllTables(m, r) \subseteq Frame
      /\ t \notin Level4(m, r)
  <2>1. AllTables(m, r) \subseteq Frame /\ m \in Memory /\ r \in Frame
    BY TablesAreFrames DEF Sound
  <2>2. f \notin AllTables(m, r) /\ f \in Frame /\ t \in AllTables(m, r)
    BY DEF Sound, AllTables
  <2>3. t \notin Level4(m, r)
    BY TreeIs DEF Sound
  <2> QED
    BY <2>1, <2>2, <2>3
<1>2. /\ \A u \in Frame : u # t /\ u # f => m2[u] = m[u]
      /\ \A j \in Index : m2[t][j] = IF j = i THEN f ELSE m[t][j]
      /\ \A j \in Index : m2[f][j] = None
  <2>1. m \in Memory /\ t \in Frame /\ i \in Index /\ f \in Frame /\ f # t
    BY <1>1
  <2> QED
    BY <2>1, LinkedIs
<1>3. \A x \in Known, j \in Index : \A y :
        Grown(y, x) => /\ Grown(Step(m2, y, j), Step(m, x, j))
                       /\ x # t => Step(m2, y, j) = Step(m, x, j)
  BY <1>1, <1>2 DEF Step
<1>4. v[1] \in Index /\ v[2] \in Index /\ v[3] \in Index /\ v[4] \in Index
  BY DEF Path
<1>5. /\ r \in Known /\ Walk2(m, r, v) \in Known /\ Walk3(m, r, v) \in Known
      /\ Walk4(m, r, v) \in Known /\ Walk4(m, r, v) # t
  BY <1>1, WalksMeetTables, PageTablesAssumption DEF AllTables
<1> HIDE DEF Known
<1>6. Grown(Walk2(m2, r, v), Walk2(m, r, v))
  BY <1>3, <1>4, <1>5 DEF Walk2
<1>7. Grown(Walk3(m2, r, v), Walk3(m, r, v))
  BY <1>3, <1>4, <1>5, <1>6 DEF Walk3
<1>8. Grown(Walk4(m2, r, v), Walk4(m, r, v))
  BY <1>3, <1>4, <1>5, <1>7 DEF Walk4
<1>9. Walk5(m2, r, v) = Walk5(m, r, v)
  BY <1>3, <1>4, <1>5, <1>8 DEF Walk5
<1> QED
  BY <1>6, <1>7, <1>9

(***************************************************************************)
(* A store to the entry i of a last table t, and one to a frame that is no *)
(* table.                                                                  *)
(***************************************************************************)
Stored(m, t, i, x) == [m EXCEPT ![t][i] = x]
Filled(m, f, x) == [m EXCEPT ![f] = x]

LEMMA StoreInLastTable ==
  ASSUME NEW m, NEW r, NEW S, Sound(m, r, S), NEW t \in Level4(m, r),
         NEW i \in Index, NEW x \in Frame \cup {None},
         NEW m2, m2 = Stored(m, t, i, x)
  PROVE  /\ Sound(m2, r, S)
         /\ \A v \in Path :
              Walk5(m2, r, v) = IF Walk4(m, r, v) = t /\ v[4] = i THEN x
                                ELSE Walk5(m, r, v)
<1>1. /\ m \in Memory /\ r \in Frame /\ AllTables(m, r) \subseteq Frame
      /\ t \in Frame /\ t \notin {r} \cup Level2(m, r) \cup Level3(m, r)
  BY TablesAreFrames, TreeIs DEF Sound, AllTables
<1>2. /\ m2 \in Memory
      /\ \A u \in Frame : u # t => m2[u] = m[u]
      /\ \A j \in Index : m2[t][j] = IF j = i THEN x ELSE m[t][j]
  BY <1>1 DEF Memory, Stored
<1>3. \A u \in {r} \cup Level2(m, r) \cup Level3(m, r) : m2[u] = m[u]
  BY <1>1, <1>2 DEF AllTables
<1>4. Sound(m2, r, S)
  BY <1>2, <1>3, TreeStays
<1>5. ASSUME NEW v \in Path
      PROVE  Walk5(m2, r, v) = IF Walk4(m, r, v) = t /\ v[4] = i THEN x
                               ELSE Walk5(m, r, v)
  <2>1. /\ Walk2(m, r, v) \in Level2(m, r) \cup {None}
        /\ Walk3(m, r, v) \in Level3(m, r) \cup {None}
        /\ Walk4(m, r, v) \in Level4(m, r) \cup {None}
    BY <1>1, WalksMeetTables
  <2>2. Walk2(m2, r, v) = Walk2(m, r, v)
    BY <1>3 DEF Walk2, Step
  <2>3. Walk3(m2, r, v) = Walk3(m, r, v)
    BY <1>3, <2>1, <2>2 DEF Walk3, Step
  <2>4. Walk4(m2, r, v) = Walk4(m, r, v)
    BY <1>3, <2>1, <2>3 DEF Walk4, Step
  <2>5. v[4] \in Index /\ t # None /\ Level4(m, r) \subseteq Frame
    BY <1>1, PageTablesAssumption DEF Path, AllTables
  <2> QED
    BY <1>2, <2>1, <2>4, <2>5 DEF Walk5, Step
<1> QED
  BY <1>4, <1>5

LEMMA StoreInData ==
  ASSUME NEW m, NEW r, NEW S, Sound(m, r, S), NEW f \in S,
         NEW x \in [Index -> Frame \cup {None}], NEW m2, m2 = Filled(m, f, x)
  PROVE  /\ Sound(m2, r, S)
         /\ \A v \in Path : Walk5(m2, r, v) = Walk5(m, r, v)
<1>1. /\ m \in Memory /\ r \in Frame /\ AllTables(m, r) \subseteq Frame
      /\ f \in Frame /\ f \notin AllTables(m, r)
  BY TablesAreFrames DEF Sound
<1>2. m2 \in Memory /\ \A u \in Frame : u # f => m2[u] = m[u]
  BY <1>1 DEF Memory, Filled
<1>3. \A u \in AllTables(m, r) : m2[u] = m[u]
  BY <1>1, <1>2
<1>4. Sound(m2, r, S)
  BY <1>2, <1>3, TreeStays DEF AllTables
<1>5. ASSUME NEW v \in Path PROVE Walk5(m2, r, v) = Walk5(m, r, v)
  <2>1. /\ r \in AllTables(m, r)
        /\ Walk2(m, r, v) \in AllTables(m, r) \cup {None}
        /\ Walk3(m, r, v) \in AllTables(m, r) \cup {None}
        /\ Walk4(m, r, v) \in AllTables(m, r) \cup {None}
    BY <1>1, WalksMeetTables DEF AllTables
  <2>2. \A u \in AllTables(m, r) \cup {None} : \A j : Step(m2, u, j) = Step(m, u, j)
    BY <1>3 DEF Step
  <2>3. Walk2(m2, r, v) = Walk2(m, r, v)
    BY <2>1, <2>2 DEF Walk2
  <2>4. Walk3(m2, r, v) = Walk3(m, r, v)
    BY <2>1, <2>2, <2>3 DEF Walk3
  <2>5. Walk4(m2, r, v) = Walk4(m, r, v)
    BY <2>1, <2>2, <2>4 DEF Walk4
  <2> QED
    BY <2>1, <2>2, <2>5 DEF Walk5
<1> QED
  BY <1>4, <1>5

(***************************************************************************)
(* vmm_init: the kernel's half of the root, in a frame that was no table.  *)
(***************************************************************************)
HalfOf(t) == [i \in Index |-> IF i \in KernelIndex THEN t[i] ELSE None]

LEMMA NewRootKeepsHalf ==
  ASSUME NEW m, NEW r, NEW S, Sound(m, r, S),
         NEW q \in Frame, q \notin AllTables(m, r),
         NEW m2, m2 = Filled(m, q, HalfOf(m[r]))
  PROVE  /\ Sound(m2, q, S \ {q})
         /\ \A v \in Path : Walk5(m2, q, v) = IF v[1] \in KernelIndex THEN Walk5(m, r, v)
                                              ELSE None
<1> DEFINE A == Level2(m, r)
           B == Level3(m, r)
           C == Level4(m, r)
           A2 == Level2(m2, q)
           B2 == Level3(m2, q)
           C2 == Level4(m2, q)
<1>1. /\ m \in Memory /\ r \in Frame /\ S \subseteq Frame
      /\ A \subseteq Frame /\ B \subseteq Frame /\ C \subseteq Frame
      /\ q # r /\ q \notin A /\ q \notin B /\ q \notin C
      /\ A \cap S = {} /\ B \cap S = {} /\ C \cap S = {}
  BY TablesAreFrames DEF Sound, AllTables
<1>2. /\ PointApart(m, {r}) /\ PointApart(m, A) /\ PointApart(m, B)
      /\ A \cap B = {} /\ A \cap C = {} /\ B \cap C = {}
  BY TreeIs DEF Sound
<1>3. /\ m2 \in Memory /\ \A u \in Frame : u # q => m2[u] = m[u]
      /\ m2[q] = HalfOf(m[r])
  BY <1>1 DEF Memory, Filled, HalfOf
<1>4. /\ A = Below(m, {r}) /\ B = Below(m, A) /\ C = Below(m, B)
      /\ A2 = Below(m2, {q}) /\ B2 = Below(m2, A2) /\ C2 = Below(m2, B2)
  BY DEF Level2, Level3, Level4
<1>5. \A i \in Index : m2[q][i] = IF i \in KernelIndex THEN m[r][i] ELSE None
  BY <1>3 DEF HalfOf
<1> HIDE DEF A, B, C, A2, B2, C2
<1>6. A2 \subseteq A /\ PointApart(m2, {q})
  <2>1. A2 \subseteq A
    BY <1>4, <1>5, BelowIs
  <2>2. \A i, j \in Index : m[r][i] # None /\ m[r][i] = m[r][j] => i = j
    BY <1>2, PointApartIs
  <2>3. PointApart(m2, {q})
    BY <1>5, <2>2, PointApartIs
  <2> QED
    BY <2>1, <2>3
<1>7. \A T, U : T \subseteq U /\ U \subseteq Frame /\ q \notin U =>
        /\ Below(m2, T) \subseteq Below(m, U)
        /\ PointApart(m, U) => PointApart(m2, T)
  <2>1. SUFFICES ASSUME NEW T, NEW U, T \subseteq U, U \subseteq Frame, q \notin U
                 PROVE  /\ Below(m2, T) \subseteq Below(m, U)
                        /\ PointApart(m, U) => PointApart(m2, T)
    OBVIOUS
  <2>2. \A u \in T : m2[u] = m[u] /\ u \in U
    BY <1>3, <2>1
  <2>3. Below(m2, T) \subseteq Below(m, U)
    BY <2>2, BelowIs
  <2>4. PointApart(m, U) => PointApart(m2, T)
    BY <2>2, PointApartIs
  <2> QED
    BY <2>3, <2>4
<1>8. B2 \subseteq B /\ PointApart(m2, A2)
  BY <1>1, <1>2, <1>4, <1>6, <1>7
<1>9. C2 \subseteq C /\ PointApart(m2, B2)
  BY <1>1, <1>2, <1>4, <1>7, <1>8
<1>10. IsATree(m2, q)
  BY <1>1, <1>2, <1>6, <1>8, <1>9, TreeIs DEF A2, B2, C2
<1>11. Sound(m2, q, S \ {q})
  <2>1. AllTables(m2, q) = {q} \cup A2 \cup B2 \cup C2
    BY DEF AllTables, A2, B2, C2
  <2>2. AllTables(m2, q) \cap (S \ {q}) = {}
    BY <1>1, <1>6, <1>8, <1>9, <2>1
  <2> QED
    BY <1>1, <1>3, <1>10, <2>2 DEF Sound
<1>12. ASSUME NEW v \in Path
       PROVE  Walk5(m2, q, v) = IF v[1] \in KernelIndex THEN Walk5(m, r, v) ELSE None
  <2>1. v[1] \in Index /\ None \notin Frame
    BY PageTablesAssumption DEF Path
  <2>2. CASE v[1] \in KernelIndex
    <3>1. Walk2(m2, q, v) = Walk2(m, r, v)
      BY <1>1, <1>5, <2>1, <2>2 DEF Walk2, Step
    <3>2. \A u \in A \cup B \cup C \cup {None} : \A j : Step(m2, u, j) = Step(m, u, j)
      BY <1>1, <1>3 DEF Step
    <3>3. /\ Walk2(m, r, v) \in A \cup {None} /\ Walk3(m, r, v) \in B \cup {None}
          /\ Walk4(m, r, v) \in C \cup {None}
      BY <1>1, WalksMeetTables DEF A, B, C
    <3> QED
      BY <2>2, <3>1, <3>2, <3>3 DEF Walk3, Walk4, Walk5
  <2>3. CASE v[1] \notin KernelIndex
    <3>1. Walk2(m2, q, v) = None
      BY <1>5, <2>1, <2>3 DEF Walk2, Step
    <3> QED
      BY <2>3, <3>1 DEF Walk3, Walk4, Walk5, Step
  <2> QED
    BY <2>2, <2>3
<1> QED
  BY <1>11, <1>12

(***************************************************************************)
(* The recursive functions of the model are these walks.                   *)
(***************************************************************************)
LEMMA WalkUnrolls ==
  ASSUME NEW m, NEW r, NEW v, NEW n \in {4, 5}
  PROVE  LET table[k \in 1..n] ==
               IF k = 1 THEN r
               ELSE IF table[k - 1] = None THEN None ELSE m[table[k - 1]][v[k - 1]]
         IN  /\ n = 4 => table[4] = Step(m, Step(m, Step(m, r, v[1]), v[2]), v[3])
             /\ n = 5 => table[5] = Walk5(m, r, v)
<1> DEFINE Body(g) == [k \in 1..n |->
                         IF k = 1 THEN r
                         ELSE IF g[k - 1] = None THEN None ELSE m[g[k - 1]][v[k - 1]]]
           walk == [k \in 1..n |-> IF k = 1 THEN r
                                   ELSE IF k = 2 THEN Walk2(m, r, v)
                                   ELSE IF k = 3 THEN Walk3(m, r, v)
                                   ELSE IF k = 4 THEN Walk4(m, r, v)
                                   ELSE Walk5(m, r, v)]
           h == CHOOSE g : g = Body(g)
<1>1. walk = Body(walk)
  <2>1. /\ walk[1] = r /\ walk[2] = Walk2(m, r, v) /\ walk[3] = Walk3(m, r, v)
        /\ walk[4] = Walk4(m, r, v)
        /\ n = 5 => walk[5] = Walk5(m, r, v)
    OBVIOUS
  <2>2. \A k \in 1..n : k # 1 =>
          walk[k] = IF walk[k - 1] = None THEN None ELSE m[walk[k - 1]][v[k - 1]]
    <3>1. SUFFICES ASSUME NEW k \in 1..n, k # 1
                   PROVE  walk[k] = Step(m, walk[k - 1], v[k - 1])
      BY DEF Step
    <3>2. k = 2 \/ k = 3 \/ k = 4 \/ (k = 5 /\ n = 5)
      BY <3>1
    <3> HIDE DEF walk
    <3>3. CASE k = 2
      BY <2>1, <3>3 DEF Walk2
    <3>4. CASE k = 3
      BY <2>1, <3>4 DEF Walk3
    <3>5. CASE k = 4
      BY <2>1, <3>5 DEF Walk4
    <3>6. CASE k = 5 /\ n = 5
      BY <2>1, <3>6 DEF Walk5
    <3> QED
      BY <3>2, <3>3, <3>4, <3>5, <3>6
  <2>3. \A k \in 1..n : walk[k] = Body(walk)[k]
    <3> HIDE DEF walk
    <3> QED
      BY <2>1, <2>2
  <2> QED
    BY <2>3
<1> HIDE DEF walk
<1>2. h = Body(h)
  BY <1>1
<1> HIDE DEF h
<1>3. /\ h[1] = r /\ h[2] = Step(m, h[1], v[1]) /\ h[3] = Step(m, h[2], v[2])
      /\ h[4] = Step(m, h[3], v[3])
      /\ n = 5 => h[5] = Step(m, h[4], v[4])
  BY <1>2 DEF Step
<1>4. /\ n = 4 => h[4] = Step(m, Step(m, Step(m, r, v[1]), v[2]), v[3])
      /\ n = 5 => h[5] = Walk5(m, r, v)
  BY <1>3 DEF Walk2, Walk3, Walk4, Walk5
<1> QED
  BY <1>4 DEF h

TranslateIsAWalk == \A v : Translate(v) = Walk5(mem, cr3, v)
LookupIsAWalk == \A v : Lookup(v) = Walk4(mem, kernel_pml4, v)

LEMMA Translation == TranslateIsAWalk
BY WalkUnrolls DEF TranslateIsAWalk, Translate

LEMMA Looking == LookupIsAWalk
BY WalkUnrolls DEF LookupIsAWalk, Lookup, Walk2, Walk3, Walk4

(***************************************************************************)
(* get_next_level: one level down, with a new table if there was none.     *)
(***************************************************************************)
WalkAt(m, r, v, k) == IF k = 1 THEN r ELSE IF k = 2 THEN Walk2(m, r, v)
                      ELSE IF k = 3 THEN Walk3(m, r, v) ELSE Walk4(m, r, v)

(* Where a descent for page v is at level k: it has moved no translation.  *)
Descended(s, m, r, fr, D, v, k) ==
  /\ s = [mem |-> s.mem, free |-> s.free, table |-> s.table]
  /\ s.free \subseteq fr
  /\ Sound(s.mem, r, s.free \cup D)
  /\ \A w \in Path : Walk5(s.mem, r, w) = Walk5(m, r, w)
  /\ s.table # None => s.table = WalkAt(s.mem, r, v, k)

LEMMA WalkAtStep ==
  ASSUME NEW m, NEW r \in Frame, NEW v \in Path, NEW k \in 1..3
  PROVE  /\ WalkAt(m, r, v, k + 1) = Step(m, WalkAt(m, r, v, k), v[k])
         /\ WalkAt(m, r, v, k) \in {r} \cup Level2(m, r) \cup Level3(m, r) \cup {None}
<1>1. k = 1 \/ k = 2 \/ k = 3
  OBVIOUS
<1>2. /\ Walk2(m, r, v) \in Level2(m, r) \cup {None}
      /\ Walk3(m, r, v) \in Level3(m, r) \cup {None}
  BY WalksMeetTables
<1> QED
  BY <1>1, <1>2 DEF WalkAt, Walk2, Walk3, Walk4

LEMMA NextLevelDescends ==
  ASSUME NEW m, NEW r, NEW fr, NEW D, fr \cap D = {}, fr \subseteq Frame,
         NEW v \in Path, NEW k \in 1..3,
         NEW s, Descended(s, m, r, fr, D, v, k)
  PROVE  Descended(NextLevel(s, v[k]), m, r, fr, D, v, k + 1)
<1> DEFINE n == s.mem
           t == s.table
           i == v[k]
           f == Min(s.free)
           n2 == Linked(n, t, i, f)
<1>1. /\ s = [mem |-> n, free |-> s.free, table |-> t] /\ s.free \subseteq fr
      /\ Sound(n, r, s.free \cup D)
      /\ \A w \in Path : Walk5(n, r, w) = Walk5(m, r, w)
      /\ t # None => t = WalkAt(n, r, v, k)
  BY DEF Descended
<1>2. i \in Index /\ r \in Frame /\ n \in Memory /\ None \notin Frame
  BY <1>1, PageTablesAssumption DEF Sound, Path
<1>3. /\ WalkAt(n, r, v, k + 1) = Step(n, WalkAt(n, r, v, k), i)
      /\ WalkAt(n, r, v, k) \in {r} \cup Level2(n, r) \cup Level3(n, r) \cup {None}
  BY <1>2, WalkAtStep
<1> HIDE DEF n, t, i, f
<1>4. CASE t = None
  <2>1. NextLevel(s, i) = s
    BY <1>4 DEF NextLevel, t
  <2> QED
    BY <1>1, <1>4, <2>1 DEF Descended, n, t, i
<1>5. CASE t # None /\ n[t][i] # None
  <2>1. NextLevel(s, i) = [mem |-> n, free |-> s.free, table |-> n[t][i]]
    <3> DEFINE y == n[t][i]
    <3>1. NextLevel(s, i) = [s EXCEPT !.table = y]
      BY <1>5 DEF NextLevel, n, t
    <3> HIDE DEF y
    <3>2. [[mem |-> n, free |-> s.free, table |-> t] EXCEPT !.table = y]
            = [mem |-> n, free |-> s.free, table |-> y]
      OBVIOUS
    <3> QED
      BY <1>1, <3>1, <3>2 DEF y
  <2>2. n[t][i] = WalkAt(n, r, v, k + 1)
    BY <1>1, <1>3, <1>5 DEF Step
  <2> QED
    BY <1>1, <2>1, <2>2 DEF Descended, i
<1>6. CASE t # None /\ n[t][i] = None /\ s.free = {}
  <2>1. NextLevel(s, i) = [mem |-> n, free |-> s.free, table |-> None]
    <3>1. NextLevel(s, i) = [s EXCEPT !.table = None]
      BY <1>6 DEF NextLevel, n, t
    <3>2. [[mem |-> n, free |-> s.free, table |-> t] EXCEPT !.table = None]
            = [mem |-> n, free |-> s.free, table |-> None]
      OBVIOUS
    <3> QED
      BY <1>1, <3>1, <3>2
  <2> QED
    BY <1>1, <2>1 DEF Descended, i
<1>7. CASE t # None /\ n[t][i] = None /\ s.free # {}
  <2>1. f \in s.free /\ f \in Frame /\ f # None
    BY <1>1, <1>2, <1>7, MinIsIn, PageTablesAssumption DEF f
  <2>2. NextLevel(s, i) = [mem |-> n2, free |-> s.free \ {f}, table |-> f]
    BY <1>7 DEF NextLevel, Linked, n, t, f
  <2>3. t \in {r} \cup Level2(n, r) \cup Level3(n, r)
    BY <1>1, <1>3, <1>7
  <2> HIDE DEF n2
  <2>4. Sound(n2, r, (s.free \cup D) \ {f})
    BY <1>1, <1>2, <1>7, <2>1, <2>3, LinkKeepsSound DEF n2
  <2>5. (s.free \cup D) \ {f} = (s.free \ {f}) \cup D
    BY <1>1, <2>1
  <2>6. \A w \in Path :
          /\ Walk2(n, r, w) # None => Walk2(n2, r, w) = Walk2(n, r, w)
          /\ Walk3(n, r, w) # None => Walk3(n2, r, w) = Walk3(n, r, w)
          /\ Walk5(n2, r, w) = Walk5(n, r, w)
    BY <1>1, <1>2, <1>7, <2>1, <2>3, LinkKeepsWalks DEF n2
  <2>7. WalkAt(n2, r, v, k) = t
    <3>1. k = 1 \/ k = 2 \/ k = 3
      OBVIOUS
    <3> QED
      BY <1>1, <1>7, <2>6, <3>1 DEF WalkAt
  <2>8. n2[t][i] = f
    <3>1. t \in Frame /\ f # t
      BY <1>1, <1>2, <2>1, <2>3, TablesAreFrames DEF Sound, AllTables
    <3> QED
      BY <1>2, <2>1, <3>1, LinkedIs DEF n2
  <2>9. WalkAt(n2, r, v, k + 1) = f
    BY <1>2, <1>7, <2>7, <2>8, WalkAtStep DEF Step, i
  <2> QED
    BY <1>1, <2>1, <2>2, <2>4, <2>5, <2>6, <2>9 DEF Descended, i
<1> QED
  BY <1>4, <1>5, <1>6, <1>7 DEF i

(***************************************************************************)
(* The inductive invariant.  Before vmm_init frame 0 is no table, so that  *)
(* the root vmm_init gets for NULL is a new one too.                       *)
(***************************************************************************)
IInv ==
  /\ TypeOK
  /\ Sound(mem, cr3, free \cup data)
  /\ free \cap data = {} /\ 0 \notin free \cup data
  /\ kernel_pml4 = None => 0 \notin AllTables(mem, cr3)
  /\ \A v \in DOMAIN tlb : tlb[v] = Walk5(mem, cr3, v)

LEMMA PagesArePaths == Page \subseteq Path
BY PageTablesAssumption DEF Path

LEMMA InvariantHolds == IInv => TablesAreSound /\ TlbIsCoherent
<1> SUFFICES ASSUME IInv PROVE TablesAreSound /\ TlbIsCoherent
  OBVIOUS
<1>1. \A k \in 1..4 : Tables(mem, cr3)[k] \subseteq AllTables(mem, cr3)
  <2>1. \A k \in 1..4 : k = 1 \/ k = 2 \/ k = 3 \/ k = 4
    OBVIOUS
  <2> QED
    BY <2>1, LevelsOfTables DEF AllTables
<1>2. TablesAreNobodysData
  BY <1>1 DEF IInv, Sound, TablesAreNobodysData
<1>3. TypeOK /\ TablesAreATree
  BY DEF IInv, Sound, TablesAreATree
<1>4. TlbIsCoherent
  BY Translation DEF IInv, TlbIsCoherent, TranslateIsAWalk
<1> QED
  BY <1>2, <1>3, <1>4 DEF TablesAreSound

(***************************************************************************)
(* What each action does to the tables and to the translations.            *)
(***************************************************************************)
LEMMA VmmInitMoves ==
  ASSUME IInv, VmmInit
  PROVE  /\ mem' \in Memory /\ cr3' \in Frame /\ kernel_pml4' = cr3'
         /\ free' \subseteq free /\ data' = data
         /\ Sound(mem', cr3', free' \cup data')
         /\ \A w \in Path : Walk5(mem', cr3', w) =
              IF w[1] \in KernelIndex THEN Walk5(mem, cr3, w) ELSE None
<1> DEFINE q == IF free = {} THEN 0 ELSE Min(free)
<1>1. /\ free' = free \ {q} /\ mem' = [mem EXCEPT ![q] = CopyHalf(cr3)]
      /\ kernel_pml4' = q /\ cr3' = q /\ data' = data
      /\ kernel_pml4 = None
  BY DEF VmmInit
<1>2. /\ free \subseteq Frame /\ data \subseteq Frame /\ Frame \subseteq Nat
      /\ 0 \in Frame /\ Sound(mem, cr3, free \cup data)
      /\ free \cap data = {} /\ 0 \notin free \cup data
      /\ 0 \notin AllTables(mem, cr3)
  BY <1>1, PageTablesAssumption DEF IInv, TypeOK
<1>3. q \in Frame /\ q \notin AllTables(mem, cr3) /\ q \notin data
  <2>1. CASE free = {}
    BY <1>2, <2>1
  <2>2. CASE free # {}
    <3>1. free \subseteq Nat
      BY <1>2
    <3>2. q \in free
      BY <2>2, <3>1, MinIsIn
    <3> QED
      BY <1>2, <3>2 DEF Sound
  <2> QED
    BY <2>1, <2>2
<1> HIDE DEF q
<1>4. mem' = Filled(mem, q, HalfOf(mem[cr3]))
  BY <1>1 DEF CopyHalf, HalfOf, Filled
<1>5. /\ Sound(mem', q, (free \cup data) \ {q})
      /\ \A w \in Path : Walk5(mem', q, w) =
           IF w[1] \in KernelIndex THEN Walk5(mem, cr3, w) ELSE None
  BY <1>2, <1>3, <1>4, NewRootKeepsHalf
<1>6. (free \cup data) \ {q} = free' \cup data'
  BY <1>1, <1>3
<1> QED
  BY <1>1, <1>3, <1>5, <1>6 DEF Sound

LEMMA DescendIs ==
  ASSUME IInv, kernel_pml4 # None, NEW v \in Page, NEW s, s = Descend(v)
  PROVE  Descended(s, mem, cr3, free, data, v, 4)
<1> DEFINE s1 == [mem |-> mem, free |-> free, table |-> kernel_pml4]
           s2 == NextLevel(s1, v[1])
           s3 == NextLevel(s2, v[2])
<1>1. s = NextLevel(s3, v[3])
  BY DEF Descend
<1>2. free \cap data = {} /\ free \subseteq Frame /\ v \in Path /\ kernel_pml4 = cr3
  BY PagesArePaths DEF IInv, TypeOK
<1>3. Descended(s1, mem, cr3, free, data, v, 1)
  BY <1>2 DEF IInv, Descended, WalkAt
<1> HIDE DEF s1
<1>4. Descended(s2, mem, cr3, free, data, v, 1 + 1)
  BY <1>2, <1>3, NextLevelDescends
<1> HIDE DEF s2
<1>5. Descended(s3, mem, cr3, free, data, v, 2 + 1)
  BY <1>2, <1>4, NextLevelDescends
<1> HIDE DEF s3
<1>6. Descended(s, mem, cr3, free, data, v, 3 + 1)
  BY <1>1, <1>2, <1>5, NextLevelDescends
<1> QED
  BY <1>6

LEMMA OnePage ==
  ASSUME NEW m, NEW r, NEW S, Sound(m, r, S), NEW v \in Page, NEW w \in Path,
         Walk4(m, r, v) # None
  PROVE  Walk4(m, r, w) = Walk4(m, r, v) /\ w[4] = v[4] <=> w = v
<1>1. v \in Path
  BY PagesArePaths
<1>2. ASSUME Walk4(m, r, w) = Walk4(m, r, v), w[4] = v[4] PROVE w = v
  <2>1. v[1] = w[1] /\ v[2] = w[2] /\ v[3] = w[3]
    BY <1>1, <1>2, OnePathToATable
  <2>2. \A k \in 1..4 : k = 1 \/ k = 2 \/ k = 3 \/ k = 4
    OBVIOUS
  <2>3. \A k \in 1..4 : v[k] = w[k]
    BY <1>2, <2>1, <2>2
  <2> QED
    BY <1>1, <2>3 DEF Path
<1> QED
  BY <1>2

LEMMA VmmMapMoves ==
  ASSUME IInv, kernel_pml4 # None, NEW v \in Page, NEW f \in data, VmmMap(v, f)
  PROVE  /\ mem' \in Memory /\ free' \subseteq free
         /\ Sound(mem', cr3', free' \cup data')
         /\ \A w \in Path : Walk5(mem', cr3', w) =
              IF w = v THEN f ELSE Walk5(mem, cr3, w)
<1> DEFINE s == Descend(v)
<1>1. /\ s.table # None /\ mem' = Stored(s.mem, s.table, v[4], f)
      /\ free' = s.free /\ data' = data /\ cr3' = cr3
  BY DEF VmmMap, Stored
<1>2. Descended(s, mem, cr3, free, data, v, 4)
  BY DescendIs
<1> HIDE DEF s
<1>3. /\ s.free \subseteq free /\ Sound(s.mem, cr3, s.free \cup data)
      /\ \A w \in Path : Walk5(s.mem, cr3, w) = Walk5(mem, cr3, w)
      /\ s.table = Walk4(s.mem, cr3, v)
  BY <1>1, <1>2 DEF Descended, WalkAt
<1>4. /\ s.table \in Level4(s.mem, cr3) /\ v[4] \in Index /\ f \in Frame
      /\ cr3 \in Frame
  BY <1>1, <1>3, PagesArePaths, WalksMeetTables DEF Sound, IInv, TypeOK, Path
<1>5. /\ Sound(mem', cr3, s.free \cup data)
      /\ \A w \in Path :
           Walk5(mem', cr3, w) = IF Walk4(s.mem, cr3, w) = s.table /\ w[4] = v[4] THEN f
                                 ELSE Walk5(s.mem, cr3, w)
  BY <1>1, <1>3, <1>4, StoreInLastTable
<1>6. \A w \in Path : Walk5(mem', cr3, w) = IF w = v THEN f ELSE Walk5(mem, cr3, w)
  BY <1>1, <1>3, <1>5, OnePage
<1> QED
  BY <1>1, <1>3, <1>5, <1>6 DEF Sound

LEMMA VmmMapFaultMoves ==
  ASSUME IInv, kernel_pml4 # None, NEW v \in Page, VmmMapFault(v)
  PROVE  /\ mem' \in Memory /\ free' \subseteq free
         /\ Sound(mem', cr3', free' \cup data')
         /\ \A w \in Path : Walk5(mem', cr3', w) = Walk5(mem, cr3, w)
<1> DEFINE s == Descend(v)
<1>1. mem' = s.mem /\ free' = s.free /\ data' = data /\ cr3' = cr3
  BY DEF VmmMapFault
<1>2. Descended(s, mem, cr3, free, data, v, 4)
  BY DescendIs
<1> HIDE DEF s
<1> QED
  BY <1>1, <1>2 DEF Descended, Sound

LEMMA VmmUnmapMoves ==
  ASSUME IInv, kernel_pml4 # None, NEW v \in Page, VmmUnmap(v)
  PROVE  /\ mem' \in Memory
         /\ Sound(mem', cr3', free' \cup data')
         /\ \A w \in Path : Walk5(mem', cr3', w) =
              IF w = v THEN None ELSE Walk5(mem, cr3, w)
<1> DEFINE t == Walk4(mem, cr3, v)
<1>1. /\ IF t = None THEN UNCHANGED <<mem, tlb>>
         ELSE mem' = Stored(mem, t, v[4], None) /\ Invlpg(v)
      /\ free' = free /\ data' = data /\ cr3' = cr3
  <2>1. kernel_pml4 = cr3
    BY DEF IInv, TypeOK
  <2>2. Lookup(v) = t
    BY <2>1, Looking DEF LookupIsAWalk
  <2> QED
    BY <2>2 DEF VmmUnmap, Stored
<1>2. Sound(mem, cr3, free \cup data) /\ cr3 \in Frame /\ v \in Path /\ v[4] \in Index
  BY PagesArePaths DEF IInv, TypeOK, Path
<1>3. CASE t = None
  <2>1. Walk5(mem, cr3, v) = None
    BY <1>3 DEF Walk5, Step
  <2> QED
    BY <1>1, <1>2, <1>3, <2>1 DEF Sound
<1>4. CASE t # None
  <2>1. t \in Level4(mem, cr3)
    BY <1>2, <1>4, WalksMeetTables
  <2> HIDE DEF t
  <2>2. /\ Sound(mem', cr3, free \cup data)
        /\ \A w \in Path :
             Walk5(mem', cr3, w) = IF Walk4(mem, cr3, w) = t /\ w[4] = v[4] THEN None
                                   ELSE Walk5(mem, cr3, w)
    BY <1>1, <1>2, <1>4, <2>1, StoreInLastTable
  <2>3. \A w \in Path :
          Walk5(mem', cr3, w) = IF w = v THEN None ELSE Walk5(mem, cr3, w)
    BY <1>2, <1>4, <2>2, OnePage DEF t
  <2> QED
    BY <1>1, <2>2, <2>3 DEF Sound
<1> QED
  BY <1>3, <1>4

LEMMA GiveBackMoves ==
  ASSUME IInv, NEW f \in data, GiveBack(f)
  PROVE  /\ mem' \in Memory
         /\ Sound(mem', cr3', free' \cup data')
         /\ \A w \in Path : Walk5(mem', cr3', w) = Walk5(mem, cr3, w)
<1>1. /\ mem' = [mem EXCEPT ![f] = Garbage] /\ cr3' = cr3
      /\ free' = free \cup {f} /\ data' = data \ {f}
  BY DEF GiveBack
<1>2. Garbage \in [Index -> Frame \cup {None}]
  BY PageTablesAssumption DEF Garbage
<1>3. /\ Sound(mem, cr3, free \cup data) /\ f \in free \cup data
      /\ mem' = Filled(mem, f, Garbage)
  BY <1>1 DEF IInv, Filled
<1>4. /\ Sound(mem', cr3, free \cup data)
      /\ \A w \in Path : Walk5(mem', cr3, w) = Walk5(mem, cr3, w)
  BY <1>2, <1>3, StoreInData
<1>5. free' \cup data' = free \cup data
  BY <1>1
<1> QED
  BY <1>1, <1>4, <1>5 DEF Sound

(***************************************************************************)
(* The invariant holds, in every state.                                    *)
(***************************************************************************)
LEMMA InitInvariant == Init => IInv
<1> SUFFICES ASSUME Init PROVE IInv
  OBVIOUS
<1> DEFINE L == LimineTables
           r == LimineRoot
<1>1. /\ free \in FreeFrames /\ data = {} /\ cr3 = r /\ kernel_pml4 = None
      /\ mem = [f \in Frame |-> IF f \in DOMAIN L THEN L[f] ELSE Garbage]
      /\ tlb = NoTranslation /\ halted = FALSE
  BY DEF Init
<1>2. /\ DOMAIN L \subseteq Frame \ {0} /\ r \in DOMAIN L
      /\ L \in [DOMAIN L -> [Index -> Frame \cup {None}]]
      /\ 0 \in Frame /\ free \subseteq Frame \ ({0} \cup DOMAIN L)
  BY <1>1, PageTablesAssumption
<1>3. mem \in Memory
  BY <1>1, <1>2 DEF Memory, Garbage
<1>4. Level2(L, r) \subseteq DOMAIN L /\ Level3(L, r) \subseteq DOMAIN L
      /\ Level4(L, r) \subseteq DOMAIN L
  BY LimineBuildsATree, LevelsOfTables
<1>5. \A T : T \subseteq DOMAIN L =>
        Below(mem, T) = Below(L, T) /\ (PointApart(mem, T) <=> PointApart(L, T))
  <2>1. \A f \in DOMAIN L : mem[f] = L[f]
    BY <1>1, <1>2
  <2> QED
    BY <2>1, StoreElsewhere
<1> HIDE DEF L, r
<1>6. /\ Level2(mem, r) = Level2(L, r)
      /\ PointApart(mem, {r}) <=> PointApart(L, {r})
  BY <1>2, <1>5 DEF Level2
<1>7. /\ Level3(mem, r) = Level3(L, r)
      /\ PointApart(mem, Level2(L, r)) <=> PointApart(L, Level2(L, r))
  BY <1>4, <1>5, <1>6 DEF Level3
<1>8. /\ Level4(mem, r) = Level4(L, r)
      /\ PointApart(mem, Level3(L, r)) <=> PointApart(L, Level3(L, r))
  BY <1>4, <1>5, <1>7 DEF Level4
<1>9. IsATree(mem, r)
  <2>1. IsATree(L, r)
    BY LimineBuildsATree DEF L, r
  <2> QED
    BY <2>1, <1>6, <1>7, <1>8, TreeIs
<1>10. AllTables(mem, r) \subseteq DOMAIN L
  BY <1>2, <1>4, <1>6, <1>7, <1>8 DEF AllTables
<1>11. Sound(mem, cr3, free \cup data)
  BY <1>1, <1>2, <1>3, <1>9, <1>10 DEF Sound
<1>12. DOMAIN tlb = {}
  BY <1>1 DEF NoTranslation
<1>13. TypeOK
  BY <1>1, <1>2, <1>3, <1>12 DEF TypeOK, Memory
<1> QED
  BY <1>1, <1>2, <1>10, <1>11, <1>12, <1>13 DEF IInv

LEMMA TranslationsAreFrames ==
  ASSUME NEW m \in Memory, NEW r \in Frame, NEW v \in Path
  PROVE  Walk5(m, r, v) \in Frame \cup {None}
<1>1. Walk4(m, r, v) \in Frame \cup {None} /\ v[4] \in Index
  BY WalksMeetTables, TablesAreFrames DEF AllTables, Path
<1> QED
  BY <1>1 DEF Walk5, Step, Memory

LEMMA NextKeepsInvariant == IInv /\ [Next]_vars => IInv'
<1> SUFFICES ASSUME IInv, [Next]_vars PROVE IInv'
  OBVIOUS
<1>0. /\ mem \in Memory /\ free \subseteq Frame /\ data \subseteq Frame
      /\ cr3 \in Frame /\ kernel_pml4 \in {cr3, None} /\ halted \in BOOLEAN
      /\ DOMAIN tlb \subseteq Page /\ \A v \in DOMAIN tlb : tlb[v] \in Frame
      /\ Sound(mem, cr3, free \cup data)
      /\ free \cap data = {} /\ 0 \notin free \cup data
      /\ kernel_pml4 = None => 0 \notin AllTables(mem, cr3)
      /\ \A v \in DOMAIN tlb : tlb[v] = Walk5(mem, cr3, v)
      /\ Page \subseteq Path /\ None \notin Frame /\ Frame \subseteq Nat
  BY PagesArePaths, PageTablesAssumption DEF IInv, TypeOK, Memory
<1>1. CASE VmmInit
  <2>1. /\ mem' \in Memory /\ cr3' \in Frame /\ kernel_pml4' = cr3'
        /\ free' \subseteq free /\ data' = data
        /\ Sound(mem', cr3', free' \cup data')
    BY <1>1, VmmInitMoves
  <2>2. DOMAIN tlb' = {} /\ halted' = halted
    BY <1>1 DEF VmmInit, NoTranslation
  <2> QED
    BY <1>0, <2>1, <2>2 DEF IInv, TypeOK, Memory
<1>2. CASE Running /\ TakeFrame
  <2>1. /\ free # {} /\ data' = data \cup {Min(free)} /\ free' = free \ {Min(free)}
        /\ UNCHANGED <<mem, cr3, kernel_pml4, tlb, halted>>
    BY <1>2 DEF TakeFrame
  <2>2. Min(free) \in free
    BY <1>0, <2>1, MinIsIn
  <2>3. free' \cup data' = free \cup data
    BY <2>1, <2>2
  <2> QED
    BY <1>0, <2>1, <2>2, <2>3 DEF IInv, TypeOK, Memory
<1>3. ASSUME Running, NEW f \in data, GiveBack(f) PROVE IInv'
  <2>1. /\ mem' \in Memory /\ Sound(mem', cr3', free' \cup data')
        /\ \A w \in Path : Walk5(mem', cr3', w) = Walk5(mem, cr3, w)
    BY <1>3, GiveBackMoves
  <2>2. /\ data' = data \ {f} /\ free' = free \cup {f}
        /\ UNCHANGED <<cr3, kernel_pml4, tlb, halted>>
    BY <1>3 DEF GiveBack
  <2>3. kernel_pml4' # None
    BY <1>3, <2>2 DEF Running
  <2> QED
    BY <1>0, <2>1, <2>2, <2>3 DEF IInv, TypeOK, Memory
<1>4. ASSUME Running, NEW v \in Page, VmmUnmap(v) PROVE IInv'
  <2>1. /\ mem' \in Memory /\ Sound(mem', cr3', free' \cup data')
        /\ \A w \in Path : Walk5(mem', cr3', w) = IF w = v THEN None
                                                  ELSE Walk5(mem, cr3, w)
    BY <1>4, VmmUnmapMoves DEF Running
  <2>2. UNCHANGED <<free, data, cr3, kernel_pml4, halted>> /\ kernel_pml4' # None
    BY <1>4 DEF VmmUnmap, Running
  <2>3. /\ DOMAIN tlb' \subseteq DOMAIN tlb /\ \A w \in DOMAIN tlb' : tlb'[w] = tlb[w]
        /\ \A w \in DOMAIN tlb' : Walk5(mem', cr3', w) = Walk5(mem, cr3, w)
    <3>1. CASE Lookup(v) = None
      BY <1>4, <2>2, <3>1 DEF VmmUnmap
    <3>2. CASE Lookup(v) # None
      <4>1. tlb' = [w \in DOMAIN tlb \ {v} |-> tlb[w]]
        BY <1>4, <3>2 DEF VmmUnmap, Invlpg
      <4> QED
        BY <1>0, <2>1, <4>1
    <3> QED
      BY <3>1, <3>2
  <2> QED
    BY <1>0, <2>1, <2>2, <2>3 DEF IInv, TypeOK, Memory
<1>5. ASSUME Running, NEW v \in Page, NEW f \in data, VmmMap(v, f) PROVE IInv'
  <2>1. /\ mem' \in Memory /\ free' \subseteq free
        /\ Sound(mem', cr3', free' \cup data')
        /\ \A w \in Path : Walk5(mem', cr3', w) = IF w = v THEN f
                                                  ELSE Walk5(mem, cr3, w)
    BY <1>5, VmmMapMoves DEF Running
  <2>2. UNCHANGED <<data, cr3, kernel_pml4, halted>> /\ kernel_pml4' # None
    BY <1>5 DEF VmmMap, Running
  <2>3. tlb' = [w \in DOMAIN tlb \ {v} |-> tlb[w]]
    BY <1>5 DEF VmmMap, Invlpg
  <2>4. /\ DOMAIN tlb' \subseteq DOMAIN tlb /\ \A w \in DOMAIN tlb' : tlb'[w] = tlb[w]
        /\ \A w \in DOMAIN tlb' : Walk5(mem', cr3', w) = Walk5(mem, cr3, w)
    BY <1>0, <2>1, <2>3
  <2> QED
    BY <1>0, <2>1, <2>2, <2>4 DEF IInv, TypeOK, Memory
<1>6. ASSUME Running, NEW v \in Page, VmmMapFault(v) PROVE IInv'
  <2>1. /\ mem' \in Memory /\ free' \subseteq free
        /\ Sound(mem', cr3', free' \cup data')
        /\ \A w \in Path : Walk5(mem', cr3', w) = Walk5(mem, cr3, w)
    BY <1>6, VmmMapFaultMoves DEF Running
  <2>2. UNCHANGED <<data, cr3, kernel_pml4, tlb>> /\ halted' = TRUE /\ kernel_pml4' # None
    BY <1>6 DEF VmmMapFault, Running
  <2> QED
    BY <1>0, <2>1, <2>2 DEF IInv, TypeOK, Memory
<1>7. ASSUME NEW v \in Page, Cache(v) PROVE IInv'
  <2>1. Translate(v) = Walk5(mem, cr3, v)
    BY Translation DEF TranslateIsAWalk
  <2>2. /\ Walk5(mem, cr3, v) # None
        /\ tlb' = [w \in DOMAIN tlb \cup {v} |-> IF w = v THEN Walk5(mem, cr3, v) ELSE tlb[w]]
        /\ UNCHANGED <<mem, free, data, cr3, kernel_pml4, halted>>
    BY <1>7, <2>1 DEF Cache
  <2>3. Walk5(mem, cr3, v) \in Frame
    BY <1>0, <2>2, TranslationsAreFrames
  <2>4. /\ DOMAIN tlb' \subseteq Page
        /\ \A w \in DOMAIN tlb' : tlb'[w] \in Frame /\ tlb'[w] = Walk5(mem, cr3, w)
    BY <1>0, <2>2, <2>3
  <2> QED
    BY <1>0, <2>2, <2>4 DEF IInv, TypeOK, Memory
<1>8. CASE UNCHANGED vars
  BY <1>8 DEF IInv, vars, TypeOK
<1> QED
  BY <1>1, <1>2, <1>3, <1>4, <1>5, <1>6, <1>7, <1>8 DEF Next

LEMMA Invariant == Spec => []IInv
BY InitInvariant, NextKeepsInvariant, PTL DEF Spec

(***************************************************************************)
(* The tables stay a tree, and none of them is free or a caller's frame,   *)
(* after every call of vmm.c, also one that ran out of frames.             *)
(***************************************************************************)
THEOREM TablesStaySound == Spec => []TablesAreSound
<1>1. IInv => TablesAreSound
  BY InvariantHolds
<1> QED
  BY <1>1, Invariant, PTL

(***************************************************************************)
(* The CPU never uses a translation that the tables no longer hold: the    *)
(* one invlpg in vmm_map and vmm_unmap is enough.                          *)
(***************************************************************************)
THEOREM TlbStaysCoherent == Spec => []TlbIsCoherent
<1>1. IInv => TlbIsCoherent
  BY InvariantHolds
<1> QED
  BY <1>1, Invariant, PTL

(***************************************************************************)
(* The tables implement an address space: every call of vmm.c changes one  *)
(* page, and vmm_init keeps the kernel's half.                             *)
(***************************************************************************)
Mapping == [v \in Page |-> Translate(v)]
KernelPages == {v \in Page : v[1] \in KernelIndex}

MappingIsWalk == Mapping = [v \in Page |-> Walk5(mem, cr3, v)]

LEMMA MappingOfWalks == MappingIsWalk
BY Translation DEF MappingIsWalk, Mapping, TranslateIsAWalk

LEMMA StepIsAbstract ==
  ASSUME IInv, [Next]_vars, MappingIsWalk, MappingIsWalk'
  PROVE  [Abstract!Next]_Mapping
<1>0. /\ Mapping = [v \in Page |-> Walk5(mem, cr3, v)]
      /\ Mapping' = [v \in Page |-> Walk5(mem', cr3', v)]
      /\ Page \subseteq Path /\ data \subseteq Frame
  BY PagesArePaths DEF MappingIsWalk, IInv, TypeOK
<1>1. CASE VmmInit
  <2>1. \A w \in Path : Walk5(mem', cr3', w) =
          IF w[1] \in KernelIndex THEN Walk5(mem, cr3, w) ELSE None
    BY <1>1, VmmInitMoves
  <2>2. Mapping' = [v \in Page |-> IF v \in KernelPages THEN Mapping[v] ELSE None]
    BY <1>0, <2>1 DEF KernelPages
  <2> QED
    BY <2>2 DEF Abstract!Next, Abstract!Enter, Mapping, KernelPages
<1>2. ASSUME Running, NEW v \in Page, NEW x \in data \cup {None},
             \A w \in Path : Walk5(mem', cr3', w) = IF w = v THEN x ELSE Walk5(mem, cr3, w)
      PROVE  Mapping' = [Mapping EXCEPT ![v] = x]
  BY <1>0, <1>2
<1>3. ASSUME Running, NEW v \in Page, VmmUnmap(v) PROVE Abstract!Next
  <2>1. Mapping' = [Mapping EXCEPT ![v] = None]
    BY <1>2, <1>3, VmmUnmapMoves DEF Running
  <2> QED
    BY <2>1 DEF Abstract!Next, Abstract!Unmap, Mapping
<1>4. ASSUME Running, NEW v \in Page, NEW f \in data, VmmMap(v, f) PROVE Abstract!Next
  <2>1. Mapping' = [Mapping EXCEPT ![v] = f]
    BY <1>2, <1>4, VmmMapMoves DEF Running
  <2>2. f \in Frame
    BY <1>0
  <2> QED
    BY <2>1, <2>2 DEF Abstract!Next, Abstract!Map, Mapping
<1>5. ASSUME \A w \in Path : Walk5(mem', cr3', w) = Walk5(mem, cr3, w)
      PROVE  Mapping' = Mapping
  BY <1>0, <1>5
<1>6. CASE Running /\ TakeFrame
  BY <1>5, <1>6 DEF TakeFrame
<1>7. ASSUME Running, NEW f \in data, GiveBack(f) PROVE Mapping' = Mapping
  BY <1>5, <1>7, GiveBackMoves
<1>8. ASSUME Running, NEW v \in Page, VmmMapFault(v) PROVE Mapping' = Mapping
  BY <1>5, <1>8, VmmMapFaultMoves DEF Running
<1>9. ASSUME NEW v \in Page, Cache(v) PROVE Mapping' = Mapping
  BY <1>5, <1>9 DEF Cache
<1>10. CASE UNCHANGED vars
  BY <1>5, <1>10 DEF vars
<1> QED
  BY <1>1, <1>3, <1>4, <1>6, <1>7, <1>8, <1>9, <1>10 DEF Next

THEOREM TablesImplementAddressSpace == Spec => ImplementsAddressSpace
<1>1. Init => Abstract!Init
  <2> SUFFICES ASSUME Init PROVE Abstract!Init
    OBVIOUS
  <2>1. IInv
    BY InitInvariant
  <2>2. \A v \in Page : Translate(v) \in Frame \cup {None}
    BY <2>1, Translation, TranslationsAreFrames, PagesArePaths
       DEF TranslateIsAWalk, IInv, TypeOK, Memory
  <2> QED
    BY <2>2 DEF Abstract!Init
<1>2. MappingIsWalk
  BY MappingOfWalks
<1>3. IInv /\ [Next]_vars /\ MappingIsWalk /\ MappingIsWalk' => [Abstract!Next]_Mapping
  BY StepIsAbstract
<1>4. Spec => Abstract!Init /\ [][Abstract!Next]_Mapping
  BY <1>1, <1>2, <1>3, Invariant, MappingOfWalks, PTL DEF Spec
<1> QED
  BY <1>4, PTL DEF ImplementsAddressSpace, Abstract!Spec, Mapping
=============================================================================
