-------------------------------- MODULE Heap --------------------------------
(***************************************************************************)
(* The kernel heap: src/mm/heap.c, with the frames it takes from           *)
(* src/mm/pmm.c and the page-table frames vmm_map takes for it.            *)
(*                                                                         *)
(* kmalloc and kfree run between irq_save and irq_restore, so each is one  *)
(* step.  krealloc takes no lock of its own: it is taken apart, and the    *)
(* calls of other tasks come between its steps.                            *)
(*                                                                         *)
(* An address is an offset from HEAP_BASE.                                 *)
(***************************************************************************)
EXTENDS Integers, FiniteSetsExt

CONSTANTS
  Task,             \* the tasks that call the heap
  NULL,             \* the null pointer
  ALIGN,            \* the granularity of sizes
  HEADER,           \* sizeof(block_t)
  PAGE_SIZE,
  HEAP_INIT_PAGES,
  TABLE_PAGES,      \* pages that one page table maps
  FRAMES,           \* at most so many frames are free once heap_init is done
  Request           \* the sizes that are asked for

ASSUME HeapAssumption ==
  /\ ALIGN \in Nat \ {0}
  /\ HEADER \in Nat \ {0} /\ HEADER % ALIGN = 0
  /\ PAGE_SIZE \in Nat /\ PAGE_SIZE % ALIGN = 0 /\ PAGE_SIZE >= HEADER + ALIGN
  /\ HEAP_INIT_PAGES \in Nat \ {0}
  /\ TABLE_PAGES \in Nat \ {0}
  /\ FRAMES \in Nat
  /\ Request \subseteq Nat
  /\ NULL \notin Nat

VARIABLES
  blk,         \* the linked block_t headers: address -> header
  heap_end,
  used_bytes,
  frames,      \* free frames left in the PMM
  halted,      \* vmm_map wrote through NULL: page_fault has stopped the CPU
  owner,       \* the pointers callers hold, with whose and how long they are
  call         \* what each task is doing in krealloc

vars == <<blk, heap_end, used_bytes, frames, halted, owner, call>>

(* heap_init leaves one block, and the list starts at HEAP_BASE for good.  *)
head == 0

AlignUp(n, a) == ((n + a - 1) \div a) * a
Payload(b) == b + HEADER
BlockOf(ptr) == ptr - HEADER

Idle == [at |-> "idle"]

Init ==
  /\ blk = [b \in {head} |->
              [size |-> HEAP_INIT_PAGES * PAGE_SIZE - HEADER, free |-> TRUE,
               next |-> NULL, prev |-> NULL]]
  /\ heap_end = HEAP_INIT_PAGES * PAGE_SIZE
  /\ used_bytes = 0
  /\ frames \in 0..FRAMES
  /\ halted = FALSE
  /\ owner = [p \in {} |-> [task |-> NULL, asked |-> 0]]
  /\ call = [t \in Task |-> Idle]

(***************************************************************************)
(* Operations on the list.                                                 *)
(***************************************************************************)

(* Set a field of the header at b, if there is one. *)
SetPrev(B, b, p) == IF b = NULL THEN B ELSE [B EXCEPT ![b].prev = p]

(* The headers with one more, or one less. *)
With(B, b, h) == [x \in DOMAIN B \cup {b} |-> IF x = b THEN h ELSE B[x]]
Without(B, b) == [x \in DOMAIN B \ {b} |-> B[x]]

(* kmalloc's search: the first block from b on that is free and fits. *)
FirstFit_AnyFree(size) ==
  LET search[b \in DOMAIN blk \cup {NULL}] ==
        IF b = NULL \/ blk[b].free THEN b ELSE search[blk[b].next]
  IN  search[head]
FirstFit(size) ==
  LET search[b \in DOMAIN blk \cup {NULL}] ==
        IF b = NULL \/ (blk[b].free /\ blk[b].size >= size) THEN b
        ELSE search[blk[b].next]
  IN  search[head]

LastBlock ==
  LET walk[b \in DOMAIN blk] ==
        IF blk[b].next = NULL THEN b ELSE walk[blk[b].next]
  IN  walk[head]

(* split_block *)
SplitBlock_NoBackLink(B, b, size) ==
  LET remaining == B[b].size - size
      nb == Payload(b) + size
      rest == [size |-> remaining - HEADER, free |-> TRUE,
               next |-> B[b].next, prev |-> b]
  IN  IF remaining < HEADER + ALIGN THEN B
      ELSE With([B EXCEPT ![b].size = size, ![b].next = nb], nb, rest)
SplitBlock(B, b, size) ==
  LET remaining == B[b].size - size
      nb == Payload(b) + size
      rest == [size |-> remaining - HEADER, free |-> TRUE,
               next |-> B[b].next, prev |-> b]
  IN  IF remaining < HEADER + ALIGN THEN B
      ELSE With(SetPrev([B EXCEPT ![b].size = size, ![b].next = nb],
                        B[b].next, nb),
                nb, rest)

(* grow_pages: one frame for each page, and one for a page table whenever  *)
(* the page is the first that the table maps.                              *)
GrowPage(g) ==
  LET table == IF (g.end \div PAGE_SIZE) % TABLE_PAGES = 0 THEN 1 ELSE 0
  IN  CASE g.result # "ok" -> g
        [] g.result = "ok" /\ g.frames = 0 -> [g EXCEPT !.result = "full"]
        [] g.result = "ok" /\ g.frames > 0 /\ g.frames - 1 < table ->
             [end |-> g.end, frames |-> 0, result |-> "fault"]
        [] OTHER -> [end |-> g.end + PAGE_SIZE,
                     frames |-> g.frames - 1 - table, result |-> "ok"]
GrowPages(pages) ==
  LET grow[i \in 0..pages] ==
        IF i = 0 THEN [end |-> heap_end, frames |-> frames, result |-> "ok"]
        ELSE GrowPage(grow[i - 1])
  IN  grow[pages]

(* What extend_heap links once the pages are there, and the block it       *)
(* returns.                                                                *)
ExtendHeap(B, pages) ==
  LET last == LastBlock
      size == pages * PAGE_SIZE - HEADER
  IN  IF B[last].free THEN [B EXCEPT ![last].size = @ + HEADER + size]
      ELSE With([B EXCEPT ![last].next = heap_end], heap_end,
                [size |-> size, free |-> TRUE, next |-> NULL, prev |-> last])
Extension == IF blk[LastBlock].free THEN LastBlock ELSE heap_end

(***************************************************************************)
(* kmalloc and kfree, for a caller t.                                      *)
(***************************************************************************)

(* Hand block b of the headers B out to t, who asked for n bytes. *)
Take(B, b, size, t, n) ==
  LET S == SplitBlock(B, b, size)
  IN  /\ blk' = [S EXCEPT ![b].free = FALSE]
      /\ used_bytes' = used_bytes + S[b].size
      /\ owner' = With(owner, Payload(b), [task |-> t, asked |-> n])

KmallocFound(t, n) ==
  LET size == AlignUp(n, ALIGN)
  IN  /\ n > 0 /\ FirstFit(size) # NULL
      /\ Take(blk, FirstFit(size), size, t, n)
      /\ UNCHANGED <<heap_end, frames, halted>>

(* extend_heap's page count, and what comes of growing by as much.         *)
Pages(size) == AlignUp(size + HEADER, PAGE_SIZE) \div PAGE_SIZE
Growth(size) == GrowPages(Pages(size))

KmallocExtends(t, n) ==
  LET size == AlignUp(n, ALIGN)
  IN  /\ n > 0 /\ FirstFit(size) = NULL
      /\ Growth(size).result = "ok"
      /\ Take(ExtendHeap(blk, Pages(size)), Extension, size, t, n)
      /\ heap_end' = Growth(size).end
      /\ frames' = Growth(size).frames
      /\ UNCHANGED halted

(* The pages grow_pages mapped before it failed stay mapped, outside of    *)
(* every block.                                                            *)
KmallocFails(n) ==
  LET size == AlignUp(n, ALIGN)
  IN  /\ n > 0 /\ FirstFit(size) = NULL
      /\ Growth(size).result # "ok"
      /\ heap_end' = Growth(size).end
      /\ frames' = Growth(size).frames
      /\ halted' = (Growth(size).result = "fault")
      /\ UNCHANGED <<blk, used_bytes, owner>>

KmallocZero(n) ==
  /\ n = 0
  /\ UNCHANGED <<blk, heap_end, used_bytes, frames, halted, owner>>

Kmalloc(t, n) ==
  KmallocFound(t, n) \/ KmallocExtends(t, n) \/ KmallocFails(n) \/ KmallocZero(n)

(* The pointer that kmalloc returns. *)
KmallocReturns(n) ==
  LET size == AlignUp(n, ALIGN)
  IN  CASE n > 0 /\ FirstFit(size) # NULL -> Payload(FirstFit(size))
        [] n > 0 /\ FirstFit(size) = NULL /\ Growth(size).result = "ok" ->
             Payload(Extension)
        [] OTHER -> NULL

(* kfree's two merges. *)
MergeNext(B, b) ==
  LET nx == B[b].next
  IN  IF nx # NULL /\ B[nx].free
      THEN Without(SetPrev([B EXCEPT ![b].size = @ + HEADER + B[nx].size,
                                     ![b].next = B[nx].next],
                           B[nx].next, b), nx)
      ELSE B
MergePrev(B, b) ==
  LET pv == B[b].prev
  IN  IF pv # NULL /\ B[pv].free
      THEN Without(SetPrev([B EXCEPT ![pv].size = @ + HEADER + B[b].size,
                                     ![pv].next = B[b].next],
                           B[b].next, pv), b)
      ELSE B

(* The early returns, for NULL and for a block that is free, change        *)
(* nothing.                                                                *)
Kfree_AfterMerge(p) ==
  LET b == BlockOf(p)
      freed == MergeNext([blk EXCEPT ![b].free = TRUE], b)
  IN  /\ used_bytes' = used_bytes - freed[b].size
      /\ blk' = MergePrev(freed, b)
      /\ owner' = Without(owner, p)
      /\ UNCHANGED <<heap_end, frames, halted>>
Kfree(p) ==
  LET b == BlockOf(p)
  IN  /\ used_bytes' = used_bytes - blk[b].size
      /\ blk' = MergePrev(MergeNext([blk EXCEPT ![b].free = TRUE], b), b)
      /\ owner' = Without(owner, p)
      /\ UNCHANGED <<heap_end, frames, halted>>

(***************************************************************************)
(* The tasks.  krealloc of NULL is kmalloc, and krealloc to 0 bytes is     *)
(* kfree.                                                                  *)
(***************************************************************************)
Held(t) == {p \in DOMAIN owner : owner[p].task = t}

Malloc(t) ==
  /\ ~ halted /\ call[t] = Idle
  /\ \E n \in Request : Kmalloc(t, n)
  /\ UNCHANGED call

Free(t) ==
  /\ ~ halted /\ call[t] = Idle
  /\ \E p \in Held(t) : Kfree(p)
  /\ UNCHANGED call

(* krealloc of a block that has to move: the size test, ... *)
ReallocTest_Forgotten(t) ==
  /\ ~ halted /\ call[t] = Idle
  /\ \E p \in Held(t), n \in Request \ {0} :
       call' = [call EXCEPT ![t] = [at |-> "alloc", ptr |-> p, size |-> n]]
  /\ UNCHANGED <<blk, heap_end, used_bytes, frames, halted, owner>>
ReallocTest(t) ==
  /\ ~ halted /\ call[t] = Idle
  /\ \E p \in Held(t), n \in Request \ {0} :
       /\ blk[BlockOf(p)].size < AlignUp(n, ALIGN)
       /\ call' = [call EXCEPT ![t] = [at |-> "alloc", ptr |-> p, size |-> n]]
  /\ UNCHANGED <<blk, heap_end, used_bytes, frames, halted, owner>>

(* ... kmalloc, which leaves the old block alone if it fails, ... *)
ReallocAlloc(t) ==
  /\ ~ halted /\ call[t].at = "alloc"
  /\ Kmalloc(t, call[t].size)
  /\ LET np == KmallocReturns(call[t].size)
     IN  call' = [call EXCEPT ![t] =
                    IF np = NULL THEN Idle
                    ELSE [at |-> "copy", ptr |-> call[t].ptr, np |-> np]]

(* ... memcpy, and kfree of the old block. *)
ReallocFree(t) ==
  /\ ~ halted /\ call[t].at = "copy"
  /\ Kfree(call[t].ptr)
  /\ call' = [call EXCEPT ![t] = Idle]

Next == \E t \in Task : Malloc(t) \/ Free(t) \/ ReallocTest(t)
                         \/ ReallocAlloc(t) \/ ReallocFree(t)

Spec == Init /\ [][Next]_vars

-----------------------------------------------------------------------------
Header == [size : Nat, free : BOOLEAN, next : Nat \cup {NULL},
           prev : Nat \cup {NULL}]

(* Every variable holds a value of its C type, and a pointer that a caller *)
(* holds is the payload of a block.                                        *)
TypeOK ==
  /\ DOMAIN blk \subseteq Nat /\ head \in DOMAIN blk
  /\ \A b \in DOMAIN blk : blk[b] \in Header
  /\ heap_end \in Nat /\ frames \in 0..FRAMES /\ halted \in BOOLEAN
  /\ \A p \in DOMAIN owner : BlockOf(p) \in DOMAIN blk /\ owner[p].task \in Task
  /\ \A t \in Task : call[t].at \in {"idle", "alloc", "copy"}

End(b) == Payload(b) + blk[b].size

(* The blocks tile the heap from HEAP_BASE on, without a gap or an         *)
(* overlap, up to heap_end; prev is the inverse of next.  Only pages of a  *)
(* growth that ran out of frames may lie behind the last block.            *)
BlocksTileTheHeap ==
  /\ blk[head].prev = NULL
  /\ \A b \in DOMAIN blk :
       /\ blk[b].next # NULL =>
            /\ blk[b].next = End(b) /\ blk[b].next \in DOMAIN blk
            /\ blk[blk[b].next].prev = b
       /\ blk[b].next = NULL =>
            End(b) <= heap_end /\ (frames > 0 => End(b) = heap_end)
       /\ blk[b].prev # NULL => /\ blk[b].prev \in DOMAIN blk
                                /\ blk[blk[b].prev].next = b
       /\ blk[b].prev = NULL => b = head

(* kfree and extend_heap merge whatever they can: no two neighbours are    *)
(* both free.                                                              *)
NoAdjacentFree ==
  \A b \in DOMAIN blk :
    blk[b].free /\ blk[b].next # NULL => ~ blk[blk[b].next].free

(* A block is in use exactly while a caller holds its pointer.             *)
UsedBlocks == {b \in DOMAIN blk : ~ blk[b].free}
UsedBlocksAreHeld == UsedBlocks = {BlockOf(p) : p \in DOMAIN owner}

(* The block list is sound after any sequence of calls by any task.        *)
HeapIsSound == TypeOK /\ BlocksTileTheHeap /\ NoAdjacentFree /\ UsedBlocksAreHeld

(* What heap_used_bytes reports is what the callers' blocks hold, split or *)
(* not, however they were merged before.                                   *)
UsedBytesAreHeld ==
  used_bytes = MapThenSumSet(LAMBDA b : blk[b].size, UsedBlocks)

(* krealloc's memcpy, which reads the old header without a lock, copies no *)
(* more than the new block can hold, from a block that is still its own.   *)
CopyFits ==
  \A t \in Task : call[t].at = "copy" =>
    /\ {call[t].ptr, call[t].np} \subseteq Held(t)
    /\ blk[BlockOf(call[t].ptr)].size < blk[BlockOf(call[t].np)].size

(* Whatever other callers do, a block in use keeps its place and its size, *)
(* a new one is as large as was asked for, and none overlap.               *)
HeapTop == (HEAP_INIT_PAGES + FRAMES) * PAGE_SIZE
Live == [p \in DOMAIN owner |->
           [length |-> blk[BlockOf(p)].size, asked |-> owner[p].asked]]
Abstract == INSTANCE Allocator
              WITH live <- Live, Address <- 0..HeapTop, Length <- 0..HeapTop
ImplementsAllocator == Abstract!Spec

-----------------------------------------------------------------------------
(***************************************************************************)
(* The inductive invariant behind the block list, over headers B of which  *)
(* none lies beyond top.                                                   *)
(***************************************************************************)
Shape(B) ==
  /\ DOMAIN B \subseteq Nat /\ head \in DOMAIN B
  /\ \A b \in DOMAIN B : B[b] \in Header

EndIn(B, b) == Payload(b) + B[b].size

Linked(B) ==
  /\ B[head].prev = NULL
  /\ \A b \in DOMAIN B :
       /\ B[b].next # NULL => /\ B[b].next = EndIn(B, b) /\ B[b].next \in DOMAIN B
                              /\ B[B[b].next].prev = b
       /\ B[b].prev # NULL => B[b].prev \in DOMAIN B /\ B[B[b].prev].next = b
       /\ B[b].prev = NULL => b = head

Ordered(B, top) ==
  \A b \in DOMAIN B :
    /\ EndIn(B, b) <= top
    /\ \A d \in DOMAIN B : b < d => EndIn(B, b) <= d
    /\ B[b].next = NULL => \A d \in DOMAIN B : d <= b

Merged(B) ==
  \A b \in DOMAIN B : B[b].free /\ B[b].next # NULL => ~ B[B[b].next].free

EndsAt(B, top) == \A b \in DOMAIN B : B[b].next = NULL => EndIn(B, b) = top

ListInv ==
  /\ Shape(blk) /\ Linked(blk) /\ Ordered(blk, heap_end) /\ Merged(blk)
  /\ frames > 0 => EndsAt(blk, heap_end)

(* No page without a frame. *)
PagesInv ==
  /\ heap_end \in Nat /\ frames \in 0..FRAMES /\ halted \in BOOLEAN
  /\ heap_end + frames * PAGE_SIZE <= HeapTop

(* Callers hold the payloads of the used blocks, as long as they wanted.   *)
OwnerInv ==
  /\ UsedBlocksAreHeld
  /\ \A p \in DOMAIN owner :
       /\ p \in Nat /\ BlockOf(p) \in UsedBlocks
       /\ owner[p] \in [task : Task, asked : Nat \ {0}]
       /\ blk[BlockOf(p)].size >= owner[p].asked

(* What a call of krealloc has found out stays true.                       *)
Allocating(t) ==
  /\ call[t] \in [at : {"alloc"}, ptr : Nat, size : Nat \ {0}]
  /\ call[t].ptr \in Held(t)
  /\ blk[BlockOf(call[t].ptr)].size < AlignUp(call[t].size, ALIGN)
Copying(t) ==
  /\ call[t] \in [at : {"copy"}, ptr : Nat, np : Nat]
  /\ {call[t].ptr, call[t].np} \subseteq Held(t)
  /\ blk[BlockOf(call[t].ptr)].size < blk[BlockOf(call[t].np)].size
CallInv ==
  /\ DOMAIN call = Task
  /\ \A t \in Task : call[t] = Idle \/ Allocating(t) \/ Copying(t)

(* The conjunction: it holds initially and every step keeps it             *)
(* (HeapProofs).                                                           *)
IInv == ListInv /\ PagesInv /\ OwnerInv /\ CallInv
=============================================================================
