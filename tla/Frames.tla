------------------------------- MODULE Frames -------------------------------
(***************************************************************************)
(* The physical frame allocator: src/mm/pmm.c.  A frame is its number, a   *)
(* region of Limine's memory map is counted in frames.  Every caller runs  *)
(* with interrupts off (kmalloc, or boot code before the sti of kmain), so *)
(* each call is one step.                                                  *)
(***************************************************************************)
EXTENDS Integers, FiniteSets, Sequences

CONSTANTS
  MemoryMaps,  \* the memory maps Limine may hand over
  PAGE_SIZE,   \* bytes in a frame
  NULL

Region == [base : Nat, pages : Nat \ {0}, usable : BOOLEAN]
FramesOf(r) == r.base..(r.base + r.pages - 1)
UsableEntries(mm) == {i \in DOMAIN mm : mm[i].usable}

(* Limine: some memory is usable, and usable entries do not overlap.       *)
ASSUME FramesAssumption ==
  /\ PAGE_SIZE \in Nat \ {0}
  /\ NULL \notin Nat
  /\ \A mm \in MemoryMaps :
       /\ mm \in Seq(Region)
       /\ UsableEntries(mm) # {}
       /\ \A i, j \in UsableEntries(mm) :
            i # j => FramesOf(mm[i]) \cap FramesOf(mm[j]) = {}

VARIABLES
  bitmap,        \* one bit for each frame below total_frames
  home,          \* the first frame of the memory that holds the bitmap
  total_frames, used_frames,
  halted,        \* no region could hold the bitmap: page_fault stops the CPU
  pool,          \* the frames pmm_init left clear, without frame 0 (history)
  out,           \* the frames that callers have (history)
  result         \* what pmm_alloc_frame returned

vars == <<bitmap, home, total_frames, used_frames, halted, pool, out, result>>

(***************************************************************************)
(* pmm_init.                                                               *)
(***************************************************************************)
Usable(mm) == UNION {FramesOf(mm[i]) : i \in UsableEntries(mm)}

Top(r) == r.base + r.pages
IsHighest(mm, top) ==
  /\ \E i \in UsableEntries(mm) : top = Top(mm[i])
  /\ \A i \in UsableEntries(mm) : Top(mm[i]) <= top

BitmapSize_RoundsDown(total) == total \div 8
BitmapSize(total) == (total + 7) \div 8

(* The first usable region that is long enough holds the bitmap. *)
Fits(r, total) == r.pages * PAGE_SIZE >= BitmapSize(total)
IsHome(mm, i, total) ==
  /\ i \in UsableEntries(mm) /\ Fits(mm[i], total)
  /\ \A j \in UsableEntries(mm) : Fits(mm[j], total) => i <= j

(* The frames that the bitmap takes up. *)
HomeFrames(r, total) ==
  {r.base + k : k \in {n \in 0..BitmapSize(total) : n * PAGE_SIZE < BitmapSize(total)}}

(* Every bit is set, the bits of usable frames are cleared, those of the   *)
(* bitmap are set again; used_frames goes along, one frame at a time.      *)
InitAt(mm, r, total) ==
  LET own == HomeFrames(r, total)
  IN  /\ bitmap = [f \in 0..(total - 1) |-> f \notin Usable(mm) \/ f \in own]
      /\ home = r.base
      /\ used_frames = total - Cardinality(Usable(mm)) + Cardinality(own)
      /\ halted = FALSE
      /\ pool = (Usable(mm) \ own) \ {0}

(* memset through NULL. *)
InitFault(mm, total) ==
  /\ \A i \in UsableEntries(mm) : ~ Fits(mm[i], total)
  /\ bitmap = [f \in 0..(total - 1) |-> TRUE]
  /\ home = 0
  /\ used_frames = 0
  /\ halted = TRUE
  /\ pool = {}

Init ==
  /\ \E mm \in MemoryMaps :
       /\ total_frames \in {Top(mm[i]) : i \in UsableEntries(mm)}
       /\ IsHighest(mm, total_frames)
       /\ \/ \E i \in UsableEntries(mm) :
               /\ IsHome(mm, i, total_frames)
               /\ InitAt(mm, mm[i], total_frames)
          \/ InitFault(mm, total_frames)
  /\ out = {}
  /\ result = NULL

(***************************************************************************)
(* pmm_alloc_frame: the first clear bit, from frame 1 on.                  *)
(***************************************************************************)
Clear_FromZero == {f \in 0..(total_frames - 1) : ~ bitmap[f]}
Clear == {f \in 1..(total_frames - 1) : ~ bitmap[f]}

AllocFrame ==
  /\ ~ halted
  /\ \E f \in Clear :
       /\ \A g \in Clear : f <= g
       /\ bitmap' = [bitmap EXCEPT ![f] = TRUE]
       /\ result' = f
       /\ out' = out \cup {f}
  /\ used_frames' = used_frames + 1
  /\ UNCHANGED <<home, total_frames, halted, pool>>

AllocNone ==
  /\ ~ halted
  /\ Clear = {}
  /\ result' = NULL
  /\ UNCHANGED <<bitmap, home, total_frames, used_frames, halted, pool, out>>

(***************************************************************************)
(* pmm_free_frame, of a frame that the caller has, or of one that it has   *)
(* given back before and no one has taken since.                           *)
(***************************************************************************)
FreeFrame_NoTest(f) ==
  /\ ~ halted
  /\ f \in out \cup (Clear \cap pool)
  /\ bitmap' = [bitmap EXCEPT ![f] = FALSE]
  /\ used_frames' = used_frames - 1
  /\ out' = out \ {f}
  /\ UNCHANGED <<home, total_frames, halted, pool, result>>
FreeFrame(f) ==
  /\ ~ halted
  /\ f \in out \cup (Clear \cap pool)
  /\ IF bitmap[f]
     THEN /\ bitmap' = [bitmap EXCEPT ![f] = FALSE]
          /\ used_frames' = used_frames - 1
          /\ out' = out \ {f}
     ELSE UNCHANGED <<bitmap, used_frames, out>>
  /\ UNCHANGED <<home, total_frames, halted, pool, result>>

Halted == halted /\ UNCHANGED vars

Next == AllocFrame \/ AllocNone \/ Halted \/ \E f \in pool : FreeFrame(f)

Spec == Init /\ [][Next]_vars

-----------------------------------------------------------------------------
Frame == 0..(total_frames - 1)
Marked == {f \in Frame : bitmap[f]}

(* Every variable holds a value of its C type.                             *)
TypeOK ==
  /\ total_frames \in Nat \ {0}
  /\ bitmap \in [Frame -> BOOLEAN]
  /\ home \in Frame
  /\ used_frames \in 0..total_frames
  /\ halted \in BOOLEAN
  /\ pool \subseteq Frame \ {0}
  /\ out \subseteq Frame
  /\ result \in Frame \cup {NULL}

(* The counter that cmd_mem prints is the number of bits that are set.     *)
UsedFramesIsExact == ~ halted => used_frames = Cardinality(Marked)

(* A frame of the pool has its bit set exactly while a caller has it; no   *)
(* other frame is ever handed out, and none of the others but frame 0 ever *)
(* has its bit cleared.                                                    *)
BitsTellWhoHasIt ==
  ~ halted =>
    /\ out \subseteq pool
    /\ \A f \in Frame \ {0} : bitmap[f] <=> f \in out \/ f \notin pool

(* The byte that holds the bit of a frame lies in no frame that a caller   *)
(* could write to.                                                         *)
BitmapIsNotGivenAway ==
  ~ halted => \A f \in Frame : home + (f \div 8) \div PAGE_SIZE \notin out

(* The inductive invariant behind the properties: the frames that hold the *)
(* bitmap were never part of the pool.                                     *)
IInv ==
  /\ TypeOK
  /\ UsedFramesIsExact
  /\ BitsTellWhoHasIt
  /\ ~ halted => \A f \in Frame : home + (f \div 8) \div PAGE_SIZE \notin pool

(* pmm.h: an allocator of frames, NULL only when none is left.             *)
Abstract == INSTANCE FramePool WITH Frame <- Nat
ImplementsFramePool == Abstract!Spec
=============================================================================
