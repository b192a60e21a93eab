---------------------------- MODULE FramesProofs ----------------------------
(***************************************************************************)
(* Proofs about Frames, for every memory map, every page size and every    *)
(* sequence of requests.                                                   *)
(***************************************************************************)
EXTENDS Frames, FiniteSetTheorems, TLAPS

(* Division as the bitmap uses it. *)
LEMMA Quotient ==
  ASSUME NEW n \in Nat, NEW d \in Nat \ {0}
  PROVE  n \div d \in Nat /\ (n \div d) * d <= n
PROOF OBVIOUS

(* A frame below total has its bit within the bitmap. *)
LEMMA BitHasByte ==
  ASSUME NEW total \in Nat, NEW f \in 0..(total - 1)
  PROVE  BitmapSize(total) \in Nat /\ f \div 8 < BitmapSize(total)
PROOF BY DEF BitmapSize

(* n pages that are not yet enough for a bitmap are fewer than the pages   *)
(* that are enough.                                                        *)
LEMMA FewerPages ==
  ASSUME NEW n \in Nat, NEW pages \in Nat, NEW size \in Nat,
         NEW d \in Nat \ {0}, n * d < size, size <= pages * d
  PROVE  n < pages
<1>1. SUFFICES ASSUME pages <= n PROVE FALSE
  OBVIOUS
<1>2. PICK k \in Nat : n = pages + k
  <2>1. n - pages \in Nat BY <1>1
  <2> QED BY <2>1
<1>3. n * d = pages * d + k * d
  BY <1>2
<1>4. k * d >= 0 /\ pages * d \in Nat /\ n * d \in Nat
  OBVIOUS
<1> QED BY <1>3, <1>4

(* Where pmm_init puts the bitmap, and what it finds. *)
LEMMA MapShape ==
  ASSUME NEW mm \in MemoryMaps, NEW total \in Nat, IsHighest(mm, total)
  PROVE  /\ \A i \in UsableEntries(mm) :
              /\ mm[i].base \in Nat /\ mm[i].pages \in Nat \ {0}
              /\ FramesOf(mm[i]) \subseteq Usable(mm)
         /\ Usable(mm) \subseteq 0..(total - 1)
         /\ total # 0
<1>1. \A i \in UsableEntries(mm) :
        mm[i] \in Region /\ mm[i].base \in Nat /\ mm[i].pages \in Nat \ {0}
  <2>1. mm \in Seq(Region)
    BY FramesAssumption
  <2>2. \A i \in DOMAIN mm : mm[i] \in Region
    BY <2>1
  <2> QED BY <2>2 DEF UsableEntries, Region
<1>2. \A i \in UsableEntries(mm) : FramesOf(mm[i]) \subseteq Usable(mm)
  BY DEF Usable
<1>3. \A i \in UsableEntries(mm) : mm[i].base + mm[i].pages <= total
  BY DEF IsHighest, Top
<1>4. Usable(mm) \subseteq 0..(total - 1)
  <2>1. SUFFICES ASSUME NEW i \in UsableEntries(mm), NEW f \in FramesOf(mm[i])
                 PROVE  f \in 0..(total - 1)
    BY DEF Usable
  <2> QED BY <2>1, <1>1, <1>3 DEF FramesOf
<1>5. total # 0
  BY <1>1, <1>3, FramesAssumption
<1> QED BY <1>1, <1>2, <1>4, <1>5

LEMMA HomeInRegion ==
  ASSUME NEW r, r.base \in Nat, r.pages \in Nat \ {0},
         NEW total \in Nat, Fits(r, total)
  PROVE  HomeFrames(r, total) \subseteq FramesOf(r)
<1>1. SUFFICES ASSUME NEW n \in 0..BitmapSize(total),
                      n * PAGE_SIZE < BitmapSize(total)
               PROVE  r.base + n \in FramesOf(r)
  BY DEF HomeFrames
<1>2. BitmapSize(total) \in Nat /\ PAGE_SIZE \in Nat \ {0}
  BY FramesAssumption DEF BitmapSize
<1>3. n < r.pages
  BY <1>1, <1>2, FewerPages DEF Fits
<1> QED BY <1>3, <1>1, <1>2 DEF FramesOf

-----------------------------------------------------------------------------
(* pmm_init. *)
LEMMA InitInv == Init => IInv
<1> SUFFICES ASSUME Init PROVE IInv
  OBVIOUS
<1>1. PICK mm \in MemoryMaps :
        /\ total_frames \in {Top(mm[i]) : i \in UsableEntries(mm)}
        /\ IsHighest(mm, total_frames)
        /\ \/ \E i \in UsableEntries(mm) :
                IsHome(mm, i, total_frames) /\ InitAt(mm, mm[i], total_frames)
           \/ InitFault(mm, total_frames)
  BY DEF Init
<1>2. total_frames \in Nat
  <2>1. PICK i \in UsableEntries(mm) : total_frames = Top(mm[i])
    BY <1>1
  <2>2. mm \in Seq(Region) /\ i \in DOMAIN mm
    BY FramesAssumption DEF UsableEntries
  <2>3. mm[i] \in Region
    BY <2>2
  <2> QED BY <2>1, <2>3 DEF Top, Region
<1>3. /\ \A i \in UsableEntries(mm) :
           /\ mm[i].base \in Nat /\ mm[i].pages \in Nat \ {0}
           /\ FramesOf(mm[i]) \subseteq Usable(mm)
      /\ Usable(mm) \subseteq Frame
      /\ total_frames # 0
  BY <1>1, <1>2, MapShape DEF Frame
<1>4. out = {} /\ result = NULL
  BY DEF Init
<1>5. CASE InitFault(mm, total_frames)
  BY <1>5, <1>2, <1>3, <1>4
     DEF InitFault, IInv, TypeOK, UsedFramesIsExact, BitsTellWhoHasIt, Frame
<1>6. CASE \E i \in UsableEntries(mm) :
             IsHome(mm, i, total_frames) /\ InitAt(mm, mm[i], total_frames)
  <2>1. PICK i \in UsableEntries(mm) :
          IsHome(mm, i, total_frames) /\ InitAt(mm, mm[i], total_frames)
    BY <1>6
  <2> DEFINE r == mm[i]
             own == HomeFrames(r, total_frames)
             U == Usable(mm)
  <2>2. /\ bitmap = [f \in Frame |-> f \notin U \/ f \in own]
        /\ home = r.base
        /\ used_frames = total_frames - Cardinality(U) + Cardinality(own)
        /\ halted = FALSE
        /\ pool = (U \ own) \ {0}
    BY <2>1 DEF InitAt, Frame
  <2>3. own \subseteq FramesOf(r) /\ own \subseteq U
    <3>1. r.base \in Nat /\ r.pages \in Nat \ {0} /\ FramesOf(r) \subseteq U
      BY <1>3
    <3>2. Fits(r, total_frames)
      BY <2>1 DEF IsHome
    <3>3. own \subseteq FramesOf(r)
      BY <3>1, <3>2, <1>2, HomeInRegion
    <3> QED BY <3>1, <3>3
  <2>4. IsFiniteSet(Frame) /\ Cardinality(Frame) = total_frames
    BY <1>2, <1>3, FS_Interval DEF Frame
  <2>5. /\ IsFiniteSet(U) /\ IsFiniteSet(own)
        /\ Cardinality(U) \in Nat /\ Cardinality(own) \in Nat
    BY <2>3, <2>4, <1>3, FS_Subset, FS_CardinalityType
  <2>6. Marked = (Frame \ U) \cup own
    BY <2>2, <2>3, <1>3 DEF Marked
  <2>7. /\ IsFiniteSet(Frame \ U)
        /\ Cardinality(Frame \ U) = total_frames - Cardinality(U)
    <3>1. Frame \cap U = U
      BY <1>3
    <3> QED BY <3>1, <2>4, <2>5, FS_Difference
  <2>8. Cardinality(Marked) = total_frames - Cardinality(U) + Cardinality(own)
    <3>1. (Frame \ U) \cap own = {}
      BY <2>3
    <3>2. Cardinality((Frame \ U) \cap own) = 0
      BY <3>1, FS_EmptySet
    <3>3. Cardinality(Marked) = Cardinality(Frame \ U) + Cardinality(own)
                                 - Cardinality((Frame \ U) \cap own)
      BY <2>5, <2>6, <2>7, FS_Union
    <3> QED BY <3>2, <3>3, <2>5, <2>7, <1>2
  <2>9. used_frames = Cardinality(Marked)
    BY <2>2, <2>8
  <2>10. Cardinality(Marked) \in 0..total_frames
    BY <2>4, <1>2, FS_Subset, FS_CardinalityType DEF Marked
  <2>11. home \in Frame
    BY <2>2, <1>3 DEF FramesOf, Frame
  <2>12. TypeOK
    BY <1>2, <1>3, <1>4, <2>2, <2>9, <2>10, <2>11 DEF TypeOK
  <2>13. BitsTellWhoHasIt
    BY <2>2, <1>4, <1>3 DEF BitsTellWhoHasIt
  <2>14. ASSUME NEW f \in Frame
         PROVE  home + (f \div 8) \div PAGE_SIZE \notin pool
    <3> DEFINE k == (f \div 8) \div PAGE_SIZE
    <3>1. /\ BitmapSize(total_frames) \in Nat
          /\ f \div 8 < BitmapSize(total_frames)
      BY <1>2, BitHasByte DEF Frame
    <3>2. f \div 8 \in Nat /\ PAGE_SIZE \in Nat \ {0}
      BY FramesAssumption DEF Frame
    <3>3. k \in Nat /\ k * PAGE_SIZE <= f \div 8
      BY <3>2, Quotient
    <3>4. k <= f \div 8
      <4>1. CASE f \div 8 < k
        <5>1. k <= k * PAGE_SIZE
          BY <3>2, <3>3
        <5> QED BY <5>1, <4>1, <3>2, <3>3
      <4> QED BY <4>1, <3>2, <3>3
    <3>5. k \in 0..BitmapSize(total_frames) /\ k * PAGE_SIZE < BitmapSize(total_frames)
      BY <3>1, <3>2, <3>3, <3>4
    <3>6. r.base + k \in own
      BY <3>5 DEF HomeFrames
    <3> QED BY <3>6, <2>2
  <2> QED BY <2>9, <2>12, <2>13, <2>14 DEF IInv, UsedFramesIsExact
<1> QED BY <1>1, <1>5, <1>6

-----------------------------------------------------------------------------
(* Setting the bit of a frame adds one to the number of bits that are set, *)
(* clearing it takes one away.                                             *)
LEMMA MarkedSet ==
  ASSUME IInv, NEW f \in Frame, ~ bitmap[f],
         bitmap' = [bitmap EXCEPT ![f] = TRUE], total_frames' = total_frames
  PROVE  /\ Cardinality(Marked') = Cardinality(Marked) + 1
         /\ Cardinality(Marked') \in 0..total_frames
<1>1. IsFiniteSet(Frame) /\ Cardinality(Frame) = total_frames
  BY FS_Interval DEF Frame, IInv, TypeOK
<1>2. Marked' = Marked \cup {f} /\ f \notin Marked
  BY DEF Marked, Frame, IInv, TypeOK
<1>3. IsFiniteSet(Marked) /\ IsFiniteSet(Marked')
  BY <1>1, <1>2, FS_Subset DEF Marked
<1>4. Cardinality(Marked') \in 0..total_frames
  <2>1. Marked' \subseteq Frame
    BY <1>2 DEF Marked
  <2> QED BY <1>1, <2>1, FS_Subset, FS_CardinalityType
<1> QED BY <1>2, <1>3, <1>4, FS_AddElement

LEMMA MarkedClear ==
  ASSUME IInv, NEW f \in Frame, bitmap[f],
         bitmap' = [bitmap EXCEPT ![f] = FALSE], total_frames' = total_frames
  PROVE  /\ Cardinality(Marked') = Cardinality(Marked) - 1
         /\ Cardinality(Marked') \in 0..total_frames
<1>1. IsFiniteSet(Frame) /\ Cardinality(Frame) = total_frames
  BY FS_Interval DEF Frame, IInv, TypeOK
<1>2. Marked' = Marked \ {f} /\ f \in Marked
  BY DEF Marked, Frame, IInv, TypeOK
<1>3. IsFiniteSet(Marked)
  BY <1>1, FS_Subset DEF Marked
<1>4. Cardinality(Marked') \in 0..total_frames
  <2>1. Marked' \subseteq Frame
    BY <1>2 DEF Marked
  <2> QED BY <1>1, <2>1, FS_Subset, FS_CardinalityType
<1> QED BY <1>2, <1>3, <1>4, FS_RemoveElement

LEMMA AllocKeeps == IInv /\ AllocFrame => IInv'
<1> SUFFICES ASSUME IInv, AllocFrame PROVE IInv'
  OBVIOUS
<1>1. PICK f \in Clear : /\ bitmap' = [bitmap EXCEPT ![f] = TRUE]
                         /\ result' = f /\ out' = out \cup {f}
  BY DEF AllocFrame
<1>2. /\ used_frames' = used_frames + 1 /\ ~ halted
      /\ UNCHANGED <<home, total_frames, halted, pool>>
  BY DEF AllocFrame
<1>3. f \in Frame \ {0} /\ ~ bitmap[f] /\ Frame' = Frame
  BY <1>2 DEF Clear, Frame, IInv, TypeOK
<1>4. f \in pool /\ f \notin out
  BY <1>2, <1>3 DEF IInv, BitsTellWhoHasIt
<1>5. /\ Cardinality(Marked') = Cardinality(Marked) + 1
      /\ Cardinality(Marked') \in 0..total_frames
  BY <1>1, <1>2, <1>3, MarkedSet
<1>6. UsedFramesIsExact'
  BY <1>2, <1>5 DEF UsedFramesIsExact, IInv
<1>7. TypeOK'
  BY <1>1, <1>2, <1>3, <1>5, <1>6 DEF IInv, TypeOK, UsedFramesIsExact
<1>8. BitsTellWhoHasIt'
  BY <1>1, <1>2, <1>3, <1>4 DEF IInv, TypeOK, BitsTellWhoHasIt
<1> QED BY <1>2, <1>3, <1>6, <1>7, <1>8 DEF IInv

LEMMA FreeKeeps ==
  ASSUME IInv, NEW f \in pool, FreeFrame(f)
  PROVE  IInv'
<1>1. /\ UNCHANGED <<home, total_frames, halted, pool, result>> /\ ~ halted
      /\ f \in Frame \ {0} /\ Frame' = Frame
  BY DEF FreeFrame, IInv, TypeOK, Frame
<1>2. CASE ~ bitmap[f]
  <2>1. UNCHANGED <<bitmap, used_frames, out>>
    BY <1>2 DEF FreeFrame
  <2> QED BY <1>1, <2>1
          DEF IInv, TypeOK, UsedFramesIsExact, BitsTellWhoHasIt, Marked, Frame
<1>3. CASE bitmap[f]
  <2>1. /\ bitmap' = [bitmap EXCEPT ![f] = FALSE]
        /\ used_frames' = used_frames - 1
        /\ out' = out \ {f}
    BY <1>3 DEF FreeFrame
  <2>2. /\ Cardinality(Marked') = Cardinality(Marked) - 1
        /\ Cardinality(Marked') \in 0..total_frames
    BY <1>1, <1>3, <2>1, MarkedClear
  <2>3. UsedFramesIsExact'
    BY <1>1, <2>1, <2>2 DEF UsedFramesIsExact, IInv
  <2>4. TypeOK'
    BY <1>1, <2>1, <2>2, <2>3 DEF IInv, TypeOK, UsedFramesIsExact
  <2>5. BitsTellWhoHasIt'
    BY <1>1, <2>1 DEF IInv, TypeOK, BitsTellWhoHasIt
  <2> QED BY <1>1, <2>3, <2>4, <2>5 DEF IInv
<1> QED BY <1>2, <1>3

LEMMA NextKeeps == IInv /\ [Next]_vars => IInv'
<1> SUFFICES ASSUME IInv, [Next]_vars PROVE IInv'
  OBVIOUS
<1>1. CASE AllocFrame
  BY <1>1, AllocKeeps
<1>2. CASE AllocNone
  BY <1>2 DEF AllocNone, IInv, TypeOK, UsedFramesIsExact, BitsTellWhoHasIt,
              Marked, Frame
<1>3. CASE \E f \in pool : FreeFrame(f)
  BY <1>3, FreeKeeps
<1>4. CASE UNCHANGED vars
  BY <1>4 DEF vars, IInv, TypeOK, UsedFramesIsExact, BitsTellWhoHasIt, Marked,
              Frame
<1> QED BY <1>1, <1>2, <1>3, <1>4 DEF Next, Halted

(* The inductive invariant holds on every machine that Limine may describe. *)
THEOREM Invariance == Spec => []IInv
<1> QED BY InitInv, NextKeeps, PTL DEF Spec

(* Every variable of pmm.c stays in its range.                             *)
THEOREM TypeCorrectness == Spec => []TypeOK
<1>1. IInv => TypeOK
  BY DEF IInv
<1> QED BY <1>1, Invariance, PTL

(* The used_frames that cmd_mem prints is the number of bits that are set. *)
THEOREM UsedFramesAreExact == Spec => []UsedFramesIsExact
<1>1. IInv => UsedFramesIsExact
  BY DEF IInv
<1> QED BY <1>1, Invariance, PTL

(* pmm_alloc_frame hands out each frame to one caller at a time.           *)
THEOREM BitsAreTruthful == Spec => []BitsTellWhoHasIt
<1>1. IInv => BitsTellWhoHasIt
  BY DEF IInv
<1> QED BY <1>1, Invariance, PTL

(* No caller is ever given the memory that the bitmap itself lies in.      *)
THEOREM BitmapIsSafe == Spec => []BitmapIsNotGivenAway
<1>1. IInv => BitmapIsNotGivenAway
  BY DEF IInv, BitmapIsNotGivenAway, BitsTellWhoHasIt
<1> QED BY <1>1, Invariance, PTL

(* pmm.c implements FramePool.                                             *)
THEOREM Refinement == Spec => ImplementsFramePool
<1>1. Init => Abstract!Init
  BY InitInv DEF Init, Abstract!Init, IInv, TypeOK, Frame
<1>2. IInv /\ [Next]_vars => [Abstract!Next]_(Abstract!vars)
  <2> SUFFICES ASSUME IInv, [Next]_vars PROVE [Abstract!Next]_(Abstract!vars)
    OBVIOUS
  <2>1. CASE AllocFrame
    <3>1. PICK f \in Clear : result' = f /\ out' = out \cup {f} /\ UNCHANGED pool
      BY <2>1 DEF AllocFrame
    <3>2. f \in pool \ out /\ f # NULL
      BY <2>1, FramesAssumption
         DEF Clear, Frame, IInv, TypeOK, BitsTellWhoHasIt, AllocFrame
    <3>3. Abstract!Alloc
      BY <3>1, <3>2 DEF Abstract!Alloc
    <3> QED BY <3>3 DEF Abstract!Next
  <2>2. CASE AllocNone
    <3>1. pool = out
      <4>1. ~ halted /\ Clear = {} /\ pool \subseteq Frame \ {0}
        BY <2>2 DEF AllocNone, IInv, TypeOK
      <4>2. out \subseteq pool
        BY <4>1 DEF IInv, BitsTellWhoHasIt
      <4>3. ASSUME NEW f \in pool PROVE f \in out
        <5>1. f \in Frame \ {0} /\ f \in 1..(total_frames - 1)
          BY <4>1 DEF Frame, IInv, TypeOK
        <5>2. bitmap[f]
          BY <4>1, <5>1 DEF Clear
        <5> QED BY <4>1, <5>1, <5>2 DEF IInv, BitsTellWhoHasIt
      <4> QED BY <4>2, <4>3
    <3>2. Abstract!Alloc
      BY <2>2, <3>1 DEF AllocNone, Abstract!Alloc
    <3> QED BY <3>2 DEF Abstract!Next
  <2>3. CASE \E f \in pool : FreeFrame(f)
    <3>1. PICK f \in pool : FreeFrame(f)
      BY <2>3
    <3>2. CASE bitmap[f]
      <4>1. f \in out
        BY <3>1, <3>2 DEF FreeFrame, Clear
      <4>2. Abstract!Free(f)
        BY <3>1, <3>2 DEF FreeFrame, Abstract!Free
      <4> QED BY <4>1, <4>2 DEF Abstract!Next
    <3>3. CASE ~ bitmap[f]
      BY <3>1, <3>3 DEF FreeFrame, Abstract!vars
    <3> QED BY <3>2, <3>3
  <2>4. CASE UNCHANGED vars
    BY <2>4 DEF vars, Abstract!vars
  <2> QED BY <2>1, <2>2, <2>3, <2>4 DEF Next, Halted
<1> QED BY <1>1, <1>2, Invariance, PTL DEF Spec, ImplementsFramePool, Abstract!Spec
=============================================================================
