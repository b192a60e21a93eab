# A TLA+ model of ArcMonark

ArcMonark is a small 64-bit x86 kernel: one CPU, a preemptive round-robin
scheduler, PS/2 keyboard and mouse, a heap on paged memory, a framebuffer
console and a shell. This directory holds TLA+ modules that model its logic,
TLC configurations that check them on small instances, and proofs, checked by
TLAPS, of what matters most for every instance. `PROJECT.json` lists the
components, the runs, the theorems, and for each definition the source lines it
stands for.

To check a run: `tlc -config MCSched.cfg MCSched.tla`. To check the
proofs of a module: `tlapm SchedProofs.tla`.

## 1. The system

| part | source | state | operations | used by |
|---|---|---|---|---|
| scheduler | `src/sched/sched.c` | circular list of `task_t`, `current_task`, `zombie`, `next_tid` | `task_create`, `schedule`, `task_yield`, `task_exit`, `sched_tick`, `sched_task_count` | timer, shell |
| context switch | `src/cpu/switch.asm` | stack pointer, registers | `switch_context`, `task_trampoline` | `schedule` |
| timer | `src/cpu/timer.c` | `ticks` | `irq0_timer`, `sleep` | hardware, shell |
| critical sections | `include/irqlock.h` | RFLAGS.IF | `irq_save`, `irq_restore` | all of the above |
| event queue | `src/kernel/event.c` | ring `q`, `q_head`, `q_tail` | `event_push`, `event_poll`, `event_pending` | keyboard and mouse push, the shell polls |
| keyboard | `src/drivers/keyboard.c` | `shift_down`, `caps_lock`, ring `kbd_buf` | `keyboard_handler`, `keyboard_getchar`, `keyboard_haskey`, `read_line` | hardware, shell |
| mouse | `src/drivers/mouse.c` | pointer, buttons, `packet`, `cycle` | `mouse_irq`, `mouse_init` | hardware, shell |
| heap | `src/mm/heap.c` | doubly linked `block_t` headers, `heap_end`, `used_bytes` | `kmalloc`, `kfree`, `krealloc` | scheduler, graphics |
| frames | `src/mm/pmm.c` | `bitmap`, `total_frames`, `used_frames` | `pmm_init`, `pmm_alloc_frame`, `pmm_free_frame` | heap, page tables |
| page tables | `src/mm/vmm.c` | four levels of tables, CR3, the TLB | `vmm_init`, `vmm_map`, `vmm_unmap` | heap |
| interrupt set-up | `src/cpu/{idt,exceptions,panic,pic}.c` | gates, masks, lines in service | `idt_init`, `pic_remap`, `pic_send_eoi`, `page_fault`, `panic` | `kmain`, hardware |
| 8042 set-up | `src/drivers/{keyboard,mouse}.c` | the command byte, the buffers of the controller | `keyboard_init`, `mouse_init` | `kmain` |
| console, graphics | `src/drivers/fb.c`, `src/gui/gfx.c` | cursor, back buffer | `putchar`, `gfx_*` | shell, panic |
| serial port | `src/drivers/serial.c` | the UART | `serial_write` | workers |
| shell | `src/kernel/kernel.c` | the command line | `read_line` loop, `cmd_*` | |

The parts meet in three ways. Interrupts call into the scheduler, the event
queue and the key buffer at any point where the running task has interrupts on.
Calls go down from the shell to the drivers and from the scheduler to the heap,
the page tables and the frames. Everything that is shared with an interrupt
handler is either inside `irq_save`/`irq_restore`, or, in the key buffer,
lock-free with one writer and one reader.

What is hard here is not in any one function. A context switch happens inside
an interrupt handler or inside a critical section and resumes somewhere else;
a task frees the stack of another while an interrupt may switch away; a full
queue changes an index that belongs to the other side; a wake-up can come
between the test and the `hlt`; a lost byte shifts the frames of the mouse
protocol; memory runs out half way through an operation. `PROJECT.json` lists
these hazards one by one, at their lines, with the properties that cover them.

What makes each part correct:

- *scheduler*: the list is always one cycle through the boot task; the running
  task is the one on the CPU; nothing is used after it was freed; each task
  comes back with interrupts on; everyone who is ready runs; an exited task is
  freed.
- *event queue, key buffer*: queues, one dropping the oldest entry and one the
  newest, whatever comes between the steps of the reader.
- *shell*: no key is missed in `hlt`; keys that `events` took are not typed
  into the next command.
- *mouse*: a report that arrives whole is applied exactly; after a loss the
  handler finds the frame again; the events tell what happened.
- *heap*: the blocks tile the heap; callers' blocks never overlap, move or
  shrink.
- *boot*: what an interrupt or an exception runs is there before it can run;
  every interrupt line that is opened is served; a fault is shown.
- *8042 set-up*: it ends, with and without a mouse, and leaves the command byte
  that it means to.
- *threads demo, sleep*: every sleep ends, and the shell says that the workers
  are gone only when they are.
- *serial port*: no byte is lost when tasks share the port.
- *console, mouse demo*: the screen shows the end of the text; the cursor leaves
  nothing behind and finds the pointer.
- *strings*: each function does what its C name says, overlap included.
- *frames*: a frame goes to one caller at a time, and never one that holds the
  bitmap.
- *page tables*: a call changes the translation of its page and of no other,
  and the CPU never uses one that is gone.

## 2. The modules

Where a header promises a data type, a component has an abstract specification
of it, a detailed module translated from the code, and a refinement checked
between them.

| abstract | detailed | instance | proofs |
|---|---|---|---|
| `RoundRobin` | `Sched` (refinement mapping in `SchedRefinement`) | `MCSched` | `SchedProofs` |
| `DropOldestQueue` | `EventQueue` | `MCEventQueue` | `EventQueueProofs` |
| `DropNewestQueue` | `Keyboard` | `MCKeyboard` | `KeyboardProofs` |
| | `Mouse` | `MCMouse` | `MouseProofs` |
| `Allocator` | `Heap` | `MCHeap` | `HeapProofs` |
| `FramePool` | `Frames` | `MCFrames` | `FramesProofs` |
| `AddressSpace` | `PageTables` | `MCPageTables` | `PageTablesProofs` |
| | `Threads`, on `Sched` | itself | `SchedProofs` |
| | `Serial` | `MCSerial` | `DeviceProofs` |
| | `Boot`, on `Ps2Init` | `MCBoot` | `DeviceProofs` |
| | `Cursor`, on `Console`, on `Gfx` | `MCScreen` | `MouseProofs` |
| | `Strings` | `StringsTest`, in `MCHeap` | `HeapProofs` |

**The grain.** With one CPU, code that runs with interrupts off cannot be
interleaved. An action is therefore a stretch of code between two points where
the interrupt flag is on, or where the interrupt flag, the interrupt controller
or the stack changes. Code that touches shared memory with interrupts on
(`event_pending`, `keyboard_getchar`, `krealloc`, `task_create` before its
critical section) is taken apart at each access.

**Sched.** `current_task`, `state`, `next`, `stack_base`, `zombie` and
`next_tid` are the C variables and fields. `pc[t]` is the code position of a
task, which for a task off the CPU is the return address on its stack; `saved`
is what an interrupt frame or `irq_save` left there. `heap` is what `kmalloc`
has handed out, so that freeing and reuse of a struct or a stack can be seen.
`Schedule` is `schedule()` with its `reap` and its `switch_context`, in
one step for each of its three callers. `task_create` is four steps, as
interrupts are on between them; only the boot task calls it, as in
`cmd_threads`. A failing `kmalloc` ends in `CreateFault`: the code writes
through NULL and `page_fault` stops the machine. Registers other than the stack
pointer and the instruction pointer are left out.

**EventQueue.** Each access of `event_poll` and `event_pending` is a step;
`event_push` is one, enabled while interrupts are on. `flags` is what
`irq_save` returned. `pushed` is a history variable: it counts the pushes that
a running `event_pending` has not seen.

**Keyboard.** The handler is one step for each kind of key: a letter, Enter,
Esc, Caps Lock and two shifts, and the `0xE0` prefix. The boot task is in the read_line loop, in
`cmd_events`, or in the loop at its end that drains the key buffer; a completed
line may or may not be the command `events`. A press carries a number, so that
a character in the buffer and an event in the queue can be recognised as the
same press. The event queue is the atomic queue that EventQueue implements.

**Mouse.** The device and the wire are external: a report is cut into its three
bytes, and up to `MaxGlitches` bytes are lost, or a late acknowledgement is
prepended. The handler takes them one by one. Bytes are numbers and the nine-bit
arithmetic is done on them.

**Heap.** Headers are records at offsets from `HEAP_BASE`. `kmalloc` and `kfree`
are one step each; `krealloc`, which takes no lock, is three. Frames are a
count, from which a growth takes page-table frames too; a growth that runs out
half way leaves its pages behind the last block, or stops the machine if it was
`vmm_map` that got nothing.

**Frames.** `Init` is `pmm_init` on any of a set of memory maps. `pool` and
`out` are history: the frames there were to give, and who has one.

**PageTables.** `mem` holds the contents of every frame, so that a table may be
overwritten by a caller, and a frame that was not cleared may be followed.
Tables are made by `NextLevel`, which is `get_next_level`. The CPU walks the
tables and caches translations whenever it likes (`Cache`). Callers take frames,
map, unmap and give back what they have unmapped. No page contains address 0,
so an access through NULL faults.

**Threads.** Composes `sleep`, `cmd_threads` and `demo_worker` with the
scheduler: it EXTENDS `Sched`, whose tasks do anything in their own code, and
says what they do there. A tick is `Sched`'s `TimerIrq`, switch included, with
what it does to the sleepers. `ticks` itself only grows, so the state holds the
ticks that are left until each target instead. The two tests of a waiting loop
and its `hlt` are steps, so a tick may fall between them; a `hlt` also ends by an
interrupt of another device.

**Serial.** A task's `serial_putc` is a test, which may fail again and again,
and a write; between the two the other tasks run. The UART is external: a FIFO
that is reported empty only when it is.

**Boot.** `Kmain` lists `kmain`'s calls; a step is one of them with what it does
to the gates, the masks, the PIT and the interrupt flag. `Uses` says which parts
each part and each handler calls into. The two interrupt controllers and the
CPU's acceptance are external: masks, the lines in service that hold back less
urgent ones, and the cascade. An exception may come anywhere after `lidt`.
`panic` and `page_fault` stop the machine. `Boot` EXTENDS `Ps2Init`: `kmain`'s
calls of `keyboard_init` and `mouse_init` go through its script before they
set their gates and masks, and the command byte that comes out of it decides
which lines the 8042 raises later.

**Ps2Init.** `Script` is the list of the port accesses of `keyboard_init` and
`mouse_init`; each of its steps waits as the code's poll does. The controller has an
input buffer, an output buffer that three sources compete for, and a command byte
that can hold two of them back. A poll that gives up reads what the port
happens to hold.

**Gfx.** The drawing operations as operators on buffers, which are functions
from pixels to colours.

**Console.** `putchar` is cut at each operation on a buffer, as an exception may
come there and print its own text. `page` is history: what was printed since
the screen was last cleared.

**Cursor.** `cmd_mouse`: three reads and a redraw, with reports of the mouse
between them. The redraw is one step, as nothing that can interrupt it looks at
the buffers, except a panic, which clears them. The module EXTENDS `Console`: the
shell starts the demo on the console's buffers, a key gives them back, and an
exception ends the demo at any step.

**Strings, StringsTest.** The functions of string.c as operators on a memory, and
what they promise as assumptions over every small memory. There are no states
to explore, so no run of their own: `MCHeap` extends `StringsTest`, as the heap
copies with `memcpy`, and TLC evaluates the assumptions before it starts.

## 3. The runs

| run | question | bounds |
|---|---|---|
| `sched` | are the list, the interrupt flag and the reuse of memory right under every interleaving; does everyone run, is the zombie slot emptied; does the pointer list implement the circular queue? | the boot task and 3 more task structs, 2 stacks, 5 ids: a struct and a stack are reused, memory runs out, and two tasks exit in any order |
| `sched_leak` | is an exited task always within reach of `reap`? **No**: see section 5 | the same with 3 stacks, the structs and the stacks being interchangeable |
| `event_queue` | is the ring a queue, and what may `event_pending` answer? | a ring of 4, 3 events: full, empty and wrapped, with any number of interrupts between two steps |
| `heap` | does the allocator keep its list and its promises? | 2 tasks; requests of 0, less than a header, about half a page and more than a page; 0 to 3 free frames, so growth works, fails at once, fails half way, or fails in `vmm_map` |
| `keyboard` | is the unlocked buffer a queue; can shift stick; do taken keys leak; is a key that comes before the `hlt` taken? | a buffer of 3 (2 usable), 2 events, 3 presses: both queues overflow, and `events`, a key and Esc fit |
| `mouse` | framing, arithmetic, events | a 3x2 screen, movements -3, 1 and 9 (both clamps; a byte that has bit 3 set), two button sets, 2 glitches |
| `frames` | is the bitmap right from the start and after any calls? | six memory maps: with holes, without frame 0, too short a first region, a bitmap over two pages, no home for the bitmap; a page holds one byte of the bitmap |
| `page_tables` | one call, one page? stale translations? | 2 entries per table, 5 pages that share none to all of their tables, 0, 3 or 6 free frames |
| `threads` | does the command report at the right time, does every sleep end? | 3 workers with 2 lines each, structs and stacks for 2, sleeps of 2 and 1 ticks, 2 tries: ticks fall on every step, the third worker gets what an early one left or memory runs out, and the command may give up |
| `serial` | is a byte lost between test and write? | 3 tasks, a FIFO of 3: just as deep as there are tasks, where the code has 16 and 3; texts with line ends |
| `boot` | is everything there before it is used; does the set-up of the 8042 end, and well; does boot reach the shell; is every line served? | with and without a mouse, two command bytes, two key codes, a byte left from before, one press; the timer, the keyboard, the mouse and a line that is never opened, raised 3 times in any mixture; a page fault and a protection fault |
| `screen` | does the screen show the end of the text; does the cursor leave a trail; does it find the pointer? | 2x2 cells and a margin on two sides, with and without a back buffer, 5 characters between two clearings: a line too many; a 2x2 cursor with transparent pixels, two places for the pointer of which one is beyond the cursor's last column and row, two buttons with a box each in its way |

Identifiers and key presses are bounded because they only count; sizes are
scaled down so that every relation between them (smaller than a header, larger
than a page, full, wrapped) still occurs. In `heap` the machine stops for
good when `vmm_map` faults, so deadlock is not checked there; it is checked in
all other runs, where a stopped machine is a step of its own. The inductive
invariants (`IInv`, `ThreadsInv`, `MergeInv`, `BootInv`, `TrailInv`,
`TextInv`) and the parts of them that are no run's property (`TypeOK`, `OneRunning`,
`EoiBeforeSwitch`, `OnlyPushedEvents`, `BitsTellWhoHasIt`) are proved instead. `HeapIsSound`, `TablesAreSound` and `KeyboardIsSound` each gather
the type invariant and the structural invariants of their module.

**Fairness.** `Sched`'s `FairSpec` assumes that kernel code that can execute does
(`WF_vars(Kernel)`), and that the timer, if interrupts are on and IRQ 0 is not
in service again and again, interrupts again and again (`SF_vars(TimerIrq)`:
strong, because a task that creates tasks and yields closes and opens interrupts all the
time, and the interrupt controller keeps a tick pending until they are open). It
assumes nothing about what tasks do: no task ever has to yield or to exit. The
two liveness properties except the page fault of a `task_create` that is out of
memory, which stops the machine.
`Keyboard`'s assumes that the boot task executes its next instruction when it
can, and that the timer ticks; it does not assume that keys are pressed. Both
are what the hardware does: the PIT is programmed once, periodic, in
`pit_init(100)`.

`Threads`' `TSpec` has the same for the scheduler and the timer, and strong
fairness for what each task does in its own code: a slice is 10 ms, so a task that
gets the CPU again and again gets its next instruction done, though each time a
tick may come first. `Serial`'s `FairSpec` has weak fairness for the UART and strong
fairness for a task's `serial_putc`, as a round robin gives it slices whatever the
others do. `Boot`'s assumes that `kmain`, the handlers, the 8042 and the CPU's
acceptance go on; `Cursor`'s
that the demo's loop goes round. None assumes that a device raises a line, that
a key is pressed or that the mouse moves.

What the runs show is that these properties hold: the one that fails is the
first of section 5. Every property has a mutation of the code that breaks it, listed in
`PROJECT.json` under `mutants`; they are the operators of the modules whose name has
a suffix, such as `Trampoline_NoSti`.

## 4. The proofs

Proved with TLAPS for every value of the constants that meets the modules'
assumptions, with no further assumption.

`SchedProofs`: type correctness, the five safety invariants of the scheduler and
its two action properties, for any number of tasks, stacks and ids, from the inductive invariant `Sched!IInv`. The properties are not
inductive by themselves. That nothing is used after it was freed needs, first,
that every task has a stack of its own (`StackInv`), that the list is a cycle
of linked tasks only (`RingInv`, which names the cycle by a function from
`0..n-1`, so that an insertion and a removal can be given explicitly), and that
a task is dead and still on the CPU only between `task_exit`'s first
instruction and its `schedule` (`CpuInv`). `CreateInv` ties the half-made task
to the position in `task_create`. `IntInv` says that every saved flag is set, so that
every way back to a task opens interrupts. Each action has one lemma with one
step per conjunct that it can disturb.

The refinement of `RoundRobin` follows from the same invariant. The abstract
queue lists the tasks by the number of hops along `next` from the boot task, so
the insertion of `task_create` and the removal of `task_exit` become facts about
where each hop leads (`InsertedOrder`, `RemovedOrder`), and the successor in the
queue is `next` (`QueueFollows`). A step of `Sched` is then a `Create`, an
`Exit`, a `Rotate` or a stutter.

For `Threads` the steps of `Sched` keep `Sched!IInv` as before, and
`Threads!ThreadsInv` adds the account of the demo: each line that is not on the
serial port is owed by a worker that is alive or by one that is still to be
made. From this, and from the cycle of `RingInv`, a list of one task means that
no line is owed: `ReportsAfterTheLastLine`, for any number of workers and lines.

`EventQueueProofs`: `EventQueue!IInv` for every ring size, what `event_pending` may
answer, and the refinement of `DropOldestQueue`. The invariant has to say how far
`event_pending` lags behind `q_head`: as long as fewer than `EVQ_SIZE - 1`
events came in, `q_head` is that far ahead of the value it read. The modular
arithmetic of the ring is in lemmas about `Distance` and `Behind`.

`FramesProofs`: `Frames!IInv` for every memory map and page size, that the
counter of used frames is the number of set bits, that no caller gets the
bitmap's own frames, and the refinement of `FramePool`. The invariant adds that
the frames of the bitmap were never in the pool; that they cover it is the
arithmetic of the lemmas `BitHasByte`, `FewerPages` and `HomeInRegion`, with
`pmm_init`'s rounding up.

`KeyboardProofs`: `Keyboard!IInv`, the soundness of the key buffer and of shift,
that no key which `events` has taken is typed into a later command, and the
refinement of `DropNewestQueue`. `Keyboard!PositionInv` says what each position
of the reader knows about the indices, which only the reader's own steps can make
false; `PressInv` says that no press which waits in the buffer while a command
line is read was shown by `events` before, which holds because the drain ends on
an empty buffer and a later press has a number of its own.

`MouseProofs`: type correctness, the two properties of the framing and what the
events tell, for any movements and any screen. A report is in three bytes, some of them taken and some
on the wire. `Mouse!ReportInv` says how far the handler is when a
given number of bytes of a whole report is left: in step with it if it was
aligned when the report began, and otherwise so placed that a report with two
movement bytes that cannot pass for a first byte brings it back. That the
events tell everything (`EventsTellAll`) is a fact about the sequence of events
of one packet: a move first, then at most one for each of the three buttons,
each of which says what the pointer was then.

The same module proves `NoTrail` of `Cursor`, for any cursor, boxes and scene,
from `Cursor!TrailInv`: the pixels that were saved are the backdrop of the place
where the cursor is. `CursorAssumption` says what `cmd_mouse` relies on: the
cursor fits on the screen, its pixels lie in its rectangle, and the rectangle
that is presented holds every button's box (kernel.c:88-92 and 123).

And it proves `ScreenShowsTheText`, for any screen, cell size, font, themes and
text, from `Cursor!TextInv`: the buffer, and outside `cmd_mouse` the screen, is
a view of the page that the text makes, whose first row is `Top`. Each change of
the buffer is then a change of that view: a character that is drawn
(`CharIsShown`), one that is erased (`EraseIsShown`), a scroll (`ScrollIsShown`).
Nothing on the page lies below the row that is being written, which is why the
row that a scroll fills may be blank. `ConsoleAssumption` says that the control
characters have no glyph, and that cells are not empty.

`HeapProofs`: `Heap!IInv` for every page size, header size, alignment and request
and for any number of tasks and frames, and from it `HeapIsSound`, `CopyFits` and
the refinement of `Allocator`. The list is described by `Shape`, `Linked`,
`Ordered` and `Merged`, over any headers and not just over `blk`, so that each
operation on the list has a lemma of its own (`SplitKeeps`, `AbsorbKeeps`,
`FreedKeeps`, `ExtendKeeps`) and a call is a chain of them. `Ordered` is what makes it
inductive: next blocks lie beyond each other, so the walks of `kmalloc` and
`extend_heap` end, a new header never falls on an old one, and two blocks in use
are disjoint. `PagesInv` bounds `heap_end` by the frames there were: pages that a
growth left behind lie beyond the last block only once no frame is left, so no
later extension starts there. `OwnerInv` and `CallInv` say that what `krealloc`
has read without a lock still holds when it copies.

What the proofs need to know about a walk along a list and about a loop that is
counted, that the recursive function exists and where it ends, is in lemmas at
the head of the module. They do induction over a set of naturals, through the
least element of its complement. `UsedBytesAreHeld` needs the same for sums: the
sum over a set is a fold that picks its elements in an order of its own, so the
lemmas first say that the order does not matter, and then what the sum does
when an element is added, taken or changed.

The last part of the module is on `Strings`, for every memory and length. A
loop that counts is a recursive function on `0..count`, whose value after `i`
rounds is given outright and shown to satisfy the recursion. A loop that looks
for something is a recursive function on all of `Nat`: that one exists, and
what it returns when the search ends, are `LoopExists` and `LoopReturns`.
`ReallocMovesTheBytes` puts the two parts together. At the time of `krealloc`'s
copy the old and the new block are disjoint and both as large as is copied, by
`IInv`, so `memcpy` moves every byte the caller had and changes no block that
another caller holds.

`PageTablesProofs`: `TablesAreSound`, `TlbIsCoherent` and the refinement of
`AddressSpace`, for any number of entries per table, any pages and any frames.
`Entries`, `Below` and `Tables` of `PageTables` describe the tables below CR3,
level by level. The invariant `IInv` is that no two entries lead to one table
and no table is on two levels, that no table is a frame that is free or that a
caller has, and that each translation in the TLB is the one that a walk gives.
A store into an entry then disturbs the walks through this entry only
(`StoreElsewhere`, `OnePathToATable`). Frame 0 is never given out; as long as
`kernel_pml4` is not set it is no table either, so the root that `vmm_init` makes
when it gets NULL is a new one too. About what Limine leaves behind,
`PageTablesAssumption` says that its tables are frames other than 0 which the
frame allocator does not have, and `LimineBuildsATree` that it takes a new frame for
each table; `vmm_init` copies its upper half, and `get_next_level` follows it.

`DeviceProofs`, on the drivers and the boot. In `Serial` no byte is written to a full
FIFO, for any set of tasks and any texts, if the FIFO is as deep as there are
tasks. The invariant counts: the test finds the FIFO empty, so a passed test is
a ticket for one byte, and the bytes in the FIFO and the tickets together are no
more than the tasks. `LinesAreMerged` needs two facts more, which `MergeInv` adds:
what a task has left holds no `\r`, and a `\r` that was written belongs to the
`\n` that comes next. The rest are lemmas on `FlattenSeq`, which both sides of
the equation are made of: what it gives for a sequence with one element more at the
end, or one less at the front.

In `Boot`, `CodeFindsWhatItUses` and `UndisturbedSetupWorks` hold for any bytes,
keys and devices. `Boot!BootInv` says what `kmain`'s calls up to the present one
have left in the gates, the masks and the interrupt flag. `Ps2Init!DialogueInv` says
position by position what the 8042 and the device hold during the set-up, as
long as no key is pressed. `Ps2Assumption` says that the value that stands for
an empty buffer is no byte.

Only model-checked: liveness, as it needs fairness, which the prover does not
treat (`EveryReadyTaskRuns`, `ZombieIsReaped`, `TypedIsTaken`, `EventIsTaken`,
`CommandEnds`, `EveryTextIsWritten`, `EveryIrqIsServed`, `BootReachesTheShell`,
`CursorCatchesUp`), and `u64_to_dec`, for 0 to 1100: its recursion is on the
number's tenth.

## 5. Disagreements between the code and its comments

**An exited task may be lost** (run `sched_leak`). `task_exit` (sched.c:110)
stores the exiting task in the single slot `zombie` and then calls `schedule`,
which reaps the slot *before* it switches and skips it, as it is the current
task. The slot is emptied by the next `schedule` of someone else. If that
someone else is itself at the end of its life and calls `task_exit` first, with
no timer tick in between, it overwrites the slot: the first task's stack and
struct are lost for good. sched.h:20 says that the stack is taken back later,
and so does the comment of `demo_worker` (kernel.c:146).

The others are facts of the translation, which a run would only repeat.

**The end is reported too early** (`WaitTest` of `Threads`). `cmd_threads` waits
until one task is linked; kernel.c:169 says that it waits until the workers are
reaped. The last one's stack may still be in the zombie slot.

**A page fault shows nothing** (`idt_init` of `Boot`). exceptions.c:26 and
panic.c:32 provide for a panic screen with CR2; idt.c:36 then gives vector 14
to a handler that only halts.

**A key can become the command byte** (`Read` of `Ps2Init`). mouse.c:116 says that the
command byte is read, changed in two bits and written back. mouse.c:118 reads
whatever byte comes first, which is the code of a key that was pressed at that
moment: some codes stop the keyboard's clock.

Not claimed otherwise by any comment, and so in no run: `cmd_mouse` saves the
pixels under the cursor when the cursor moves, and a button's box that is repainted
under a resting cursor comes back in its old colour when the cursor leaves;
`read_line`'s backspace stops at the first cell of a row, so a command line that
has wrapped is not erased on the screen as it is in the buffer; vectors 0x27 and
0x2F have no gate, so a spurious interrupt of either controller would be taken
for exception 11.

## 6. What is not modelled, and the plan

Left out for good: `io.h`, the font, the messages and the language setting
(a table and an assignment), the commands that only print, the contents of a
panic's dump, `gfx_init`, functions without a caller (`timer_ticks`,
`irq_set_mask`, `serial_write_hex`, `gfx_rect`), Limine itself (its memory map and
tables are constants with assumptions), the build files. `irq_save` as an
optimisation barrier, and the missing `memory` clobber of `task_exit`'s `cli`,
are below the level of the model.

Every module of the plan is written. What would be next:

1. `Input`: keyboard and mouse handlers as the producers of one `EventQueue`.
2. The line that `read_line` edits, against what the console shows of it.
3. The proof that `u64_to_dec` writes the number in decimal.
