----------------------------- MODULE PageTables -----------------------------
(***************************************************************************)
(* The page tables: src/mm/vmm.c, with the frames it takes from pmm.c and  *)
(* the TLB of the CPU.  vmm_init runs at boot and vmm_map under kmalloc's  *)
(* lock: each call is one step.                                            *)
(*                                                                         *)
(* A page is the sequence of its four indices.  An entry is the frame it   *)
(* points to, or None when PAGE_PRESENT is clear.  The frame allocator is  *)
(* the pool that Frames implements, first fit.                             *)
(***************************************************************************)
EXTENDS Integers, Sequences, FiniteSets, FiniteSetsExt

CONSTANTS
  Index,        \* the indices of a table: 0..511
  KernelIndex,  \* those vmm_init copies: 256..511
  Page,         \* the pages that are looked at
  Fixed,        \* the page that the kernel runs on
  Frame,        \* the physical frames
  None,         \* no frame
  LimineTables, \* the contents of the tables that Limine built
  LimineRoot,   \* and their root
  FreeFrames,   \* the frames that can be free when vmm_init runs
  MaxData       \* bound on the frames that callers hold

ASSUME PageTablesAssumption ==
  /\ KernelIndex \subseteq Index /\ Page \subseteq [1..4 -> Index]
  /\ Fixed \in Page /\ Fixed[1] \in KernelIndex
  /\ 0 \in Frame /\ Frame \subseteq Nat /\ None \notin Frame
  /\ LimineRoot \in DOMAIN LimineTables /\ DOMAIN LimineTables \subseteq Frame \ {0}
  /\ LimineTables \in [DOMAIN LimineTables -> [Index -> Frame \cup {None}]]
  /\ \A f \in FreeFrames : f \subseteq Frame \ ({0} \cup DOMAIN LimineTables)
  /\ MaxData \in Nat

(* The entries in use of a set T of tables, and the tables or pages that   *)
(* they point to.                                                          *)
Entries(m, T) == {e \in T \X Index : m[e[1]][e[2]] # None}
Below(m, T) == {m[e[1]][e[2]] : e \in Entries(m, T)}

(* The tables in memory m, level by level from the root.                   *)
Tables(m, root) ==
  LET level[k \in 1..4] == IF k = 1 THEN {root} ELSE Below(m, level[k - 1])
  IN  level

(* No two entries point to the same table, and no table is on two levels.  *)
PointApart(m, T) ==
  \A d, e \in Entries(m, T) : m[d[1]][d[2]] = m[e[1]][e[2]] => d = e
IsATree(m, root) ==
  LET tables == Tables(m, root)
  IN  /\ \A k \in 1..3 : PointApart(m, tables[k])
      /\ \A j, k \in 1..4 : j # k => tables[j] \cap tables[k] = {}

(* Limine takes a new frame for every table that it makes. *)
ASSUME LimineBuildsATree ==
  /\ IsATree(LimineTables, LimineRoot)
  /\ \A k \in 1..4 : Tables(LimineTables, LimineRoot)[k] \subseteq DOMAIN LimineTables

VARIABLES
  mem,          \* what each frame holds, read as a table
  free,         \* the free frames
  data,         \* the frames that callers hold
  cr3,          \* the table the CPU starts from
  kernel_pml4,  \* None until vmm_init
  tlb,          \* the translations the CPU has cached
  halted        \* a walk went through NULL: page_fault stops the CPU

vars == <<mem, free, data, cr3, kernel_pml4, tlb, halted>>

Empty == [i \in Index |-> None]

(* What a frame holds that was never cleared. *)
Garbage == [i \in Index |-> 0]

NoTranslation == [v \in {} |-> None]

(* Limine hands over its tables, with interrupts off and an empty TLB. *)
Init ==
  /\ free \in FreeFrames
  /\ mem = [f \in Frame |-> IF f \in DOMAIN LimineTables THEN LimineTables[f]
                            ELSE Garbage]
  /\ data = {}
  /\ cr3 = LimineRoot
  /\ kernel_pml4 = None
  /\ tlb = NoTranslation
  /\ halted = FALSE

(* The CPU's walk: the frame that page v is mapped to. *)
Translate(v) ==
  LET table[k \in 1..5] ==
        IF k = 1 THEN cr3
        ELSE IF table[k - 1] = None THEN None ELSE mem[table[k - 1]][v[k - 1]]
  IN  table[5]

(* The CPU caches a translation it has used, whenever it likes. *)
Cache(v) ==
  /\ Translate(v) # None
  /\ tlb' = [w \in DOMAIN tlb \cup {v} |-> IF w = v THEN Translate(v) ELSE tlb[w]]
  /\ UNCHANGED <<mem, free, data, cr3, kernel_pml4, halted>>

Invlpg_Forgotten(v) == UNCHANGED tlb
Invlpg(v) == tlb' = [w \in DOMAIN tlb \ {v} |-> tlb[w]]

(***************************************************************************)
(* vmm_init.  A frame it does not get is NULL, which is frame 0.           *)
(***************************************************************************)
CopyHalf_Nothing(from) == Empty
CopyHalf(from) == [i \in Index |-> IF i \in KernelIndex THEN mem[from][i] ELSE None]

VmmInit ==
  /\ kernel_pml4 = None
  /\ LET root == IF free = {} THEN 0 ELSE Min(free)
     IN  /\ free' = free \ {root}
         /\ mem' = [mem EXCEPT ![root] = CopyHalf(cr3)]
         /\ kernel_pml4' = root
         /\ cr3' = root
  /\ tlb' = NoTranslation
  /\ UNCHANGED <<data, halted>>

(***************************************************************************)
(* vmm_map.                                                                *)
(***************************************************************************)

(* get_next_level, allocating: s is the memory, the free frames and the    *)
(* table reached so far, which is None for NULL.                           *)
NextLevel_NoClear(s, i) ==
  IF s.table = None THEN s
  ELSE IF s.mem[s.table][i] # None THEN [s EXCEPT !.table = s.mem[s.table][i]]
  ELSE IF s.free = {} THEN [s EXCEPT !.table = None]
  ELSE LET f == Min(s.free)
       IN  [mem |-> [s.mem EXCEPT ![s.table][i] = f],
            free |-> s.free \ {f}, table |-> f]
NextLevel(s, i) ==
  IF s.table = None THEN s
  ELSE IF s.mem[s.table][i] # None THEN [s EXCEPT !.table = s.mem[s.table][i]]
  ELSE IF s.free = {} THEN [s EXCEPT !.table = None]
  ELSE LET f == Min(s.free)
       IN  [mem |-> [s.mem EXCEPT ![f] = Empty, ![s.table][i] = f],
            free |-> s.free \ {f}, table |-> f]

(* The table that holds the entry of page v, with what it took to get to   *)
(* it.  A walk that has come to NULL faults on its next access.            *)
Descend(v) ==
  NextLevel(NextLevel(NextLevel([mem |-> mem, free |-> free,
                                 table |-> kernel_pml4], v[1]), v[2]), v[3])

VmmMap(v, f) ==
  LET s == Descend(v)
  IN  /\ s.table # None
      /\ mem' = [s.mem EXCEPT ![s.table][v[4]] = f]
      /\ free' = s.free
      /\ Invlpg(v)
      /\ UNCHANGED <<data, cr3, kernel_pml4, halted>>

VmmMapFault(v) ==
  LET s == Descend(v)
  IN  /\ s.table = None
      /\ mem' = s.mem
      /\ free' = s.free
      /\ halted' = TRUE
      /\ UNCHANGED <<data, cr3, kernel_pml4, tlb>>

(***************************************************************************)
(* vmm_unmap: no table is made, and none is given back.                    *)
(***************************************************************************)
Lookup(v) ==
  LET table[k \in 1..4] ==
        IF k = 1 THEN kernel_pml4
        ELSE IF table[k - 1] = None THEN None ELSE mem[table[k - 1]][v[k - 1]]
  IN  table[4]

VmmUnmap(v) ==
  /\ IF Lookup(v) = None THEN UNCHANGED <<mem, tlb>>
     ELSE mem' = [mem EXCEPT ![Lookup(v)][v[4]] = None] /\ Invlpg(v)
  /\ UNCHANGED <<free, data, cr3, kernel_pml4, halted>>

(***************************************************************************)
(* The callers: they take frames, map and unmap them, write to them, and   *)
(* give back the ones that they have unmapped.                             *)
(***************************************************************************)
TakeFrame ==
  /\ free # {} /\ Cardinality(data) < MaxData
  /\ data' = data \cup {Min(free)}
  /\ free' = free \ {Min(free)}
  /\ UNCHANGED <<mem, cr3, kernel_pml4, tlb, halted>>

GiveBack(f) ==
  /\ f \in data /\ \A v \in Page : Translate(v) # f
  /\ data' = data \ {f}
  /\ free' = free \cup {f}
  /\ mem' = [mem EXCEPT ![f] = Garbage]
  /\ UNCHANGED <<cr3, kernel_pml4, tlb, halted>>

Running == kernel_pml4 # None /\ ~ halted

Next ==
  \/ VmmInit
  \/ /\ Running
     /\ \/ TakeFrame
        \/ \E f \in data : GiveBack(f)
        \/ \E v \in Page \ {Fixed} : VmmUnmap(v) \/ VmmMapFault(v)
                                     \/ \E f \in data : VmmMap(v, f)
  \/ ~ halted /\ \E v \in Page : Cache(v)
  \/ halted /\ UNCHANGED vars

Spec == Init /\ [][Next]_vars

-----------------------------------------------------------------------------
(* Every variable holds a value of its C type.                             *)
TypeOK ==
  /\ mem \in [Frame -> [Index -> Frame \cup {None}]]
  /\ free \subseteq Frame /\ data \subseteq Frame
  /\ cr3 \in Frame /\ kernel_pml4 \in {cr3, None}
  /\ DOMAIN tlb \subseteq Page /\ \A v \in DOMAIN tlb : tlb[v] \in Frame
  /\ halted \in BOOLEAN

(* The tables form a tree, so a store to one entry of a table changes one  *)
(* translation.                                                            *)
TablesAreATree == IsATree(mem, cr3)

(* No table lies in a frame that is free or that a caller may write to.    *)
TablesAreNobodysData ==
  LET tables == Tables(mem, cr3)
  IN  \A k \in 1..4 : tables[k] \cap (free \cup data) = {}

(* The tables are sound after any call, one that ran out of frames too.    *)
TablesAreSound == TypeOK /\ TablesAreATree /\ TablesAreNobodysData

(* The CPU never uses a translation that the tables no longer hold.        *)
TlbIsCoherent == \A v \in DOMAIN tlb : tlb[v] = Translate(v)

(* vmm.h: an address space of pages.                                       *)
Abstract == INSTANCE AddressSpace
              WITH mapping <- [v \in Page |-> Translate(v)],
                   KernelPage <- {v \in Page : v[1] \in KernelIndex}
ImplementsAddressSpace == Abstract!Spec
=============================================================================
