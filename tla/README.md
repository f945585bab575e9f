# KiOS in TLA+

KiOS is a small 64-bit operating system for one x86 CPU: a two-stage boot
loader, a kernel with preemptive tasks, physical and virtual memory managers, a
kernel heap, a keyboard driver, a text console and a shell. This directory
holds TLA+ models of its core, TLC configurations that check them on small
instances, and TLAPS proofs that extend the safety results of all its state
machines to every instance. Paths below are relative to the repository;
`kernel/` stands for `src/kernel/`, `boot/` for `src/bootloader/new/`.

## The system

| Component | State | Operations | Works with |
|---|---|---|---|
| Boot loader (`boot/*.asm`, `kernel/entry.asm`) | low memory, disk counters | read stage 2, A20, memory map, chunked kernel load, copy to 1 MB, long mode | BIOS; leaves the memory map to the PMM |
| Scheduler (`kernel/task.c`, `pit.c`, `isr.c`, `idt_asm.asm`) | task list, current task, saved frames, tick count | `task_init`, `task_create`, `task_switch` (IRQ 0), `task_sleep`, `task_exit` | heap for TCBs and stacks; the interrupt path swaps stacks for it |
| Keyboard IRQ buffer (`keyboard_irq.c`) | ring of 256 scancodes, two indices | IRQ 1 handler, `kb_getchar_irq` | shares port 0x60 with the polling driver |
| Polling keyboard (`keyboard.h`) | modifier flags | `kb_getchar`, `kb_scancode_to_ascii` | called by the shell |
| PMM (`mm/pmm.c`) | frame bitmap, counter | `pmm_init`, `pmm_alloc_page`, `pmm_free_page` | used by VMM, heap, commands |
| VMM (`mm/vmm.c`) | page tables | map, unmap, translate | takes table frames from the PMM |
| Heap (`mm/heap.c`) | bump pointer | `kmalloc` | maps its pages on demand |
| Console (`vga.h`) | text buffer, cursor | clear, scroll, put character, print | everyone prints |
| Shell (`shell.c`, `commands.c`) | line buffer, history ring | line editing, history, dispatch | keyboard, console, commands |
| Interrupts (`idt.c`, `isr.c`, `pic.c`) | IDT, handler table, PIC masks | dispatch, EOI, exception screens | all drivers |
| User mode (`syscall.c`, `syscall_asm.asm`, `usertest.c`, `tss.c`, `gdt.c`) | MSRs, GS, one kernel stack, `cpu_data`, TSS | system call entry and exit, `usertest` | VMM, PMM; interrupted and switched by the timer |
| String functions (`string.h`) | none | copying, comparing | everyone |
| Clock command (`commands/time.c`) | none; reads the CMOS clock | wait, read, decode, print | console |
| Other commands (`commands/`) | none of their own | information, tests, power | every component |

What is hard here: the timer interrupts a task between any two stores, and the
switch happens in the middle of the interrupt return; the IRQ 1 handler and the
reader share indices, and a port, without a lock; a system call can lose the
processor while GS is swapped and its return address lies on the one kernel
stack; the end-of-interrupt command names no line; the clock moves while it is
read; allocations fail half-way through an operation of several; memory survives a reboot; and several limits
(ring full, history ring, last row of the screen, load buffer, heap end) are
reached only after a long sequence of legal steps. `PROJECT.json` lists these
hazards at their lines.

## Modules

| Module | Models | Style |
|---|---|---|
| `Scheduler` | start-up, timer interrupt with `task_switch`, `task_sleep`, `task_exit` | state machine |
| `SchedulerProofs` | theorems about it | proofs |
| `ScancodeQueue` | abstract bounded FIFO queue that drops when full | abstract specification |
| `KeyboardRing` | IRQ 1 handler and `kb_getchar_irq` on the ring buffer | state machine, refines `ScancodeQueue` |
| `KeyboardInput` | controller, IRQ 1 handler and the polling shell at port 0x60, on top of `KeyboardRing` | composition |
| `KeyboardProofs` | theorems about `KeyboardRing`, the refinement included, and about `KeyboardInput` | proofs |
| `Memory` | PMM, VMM and heap together, with `vmtest`, `memtest` and `usertest` | state machine |
| `MemoryProofs` | theorems about it | proofs |
| `Console` | `vga.h` as functions on a screen | operators |
| `Shell` | key decoding, line editor, history, dispatch on a `Console` screen | state machine |
| `ShellProofs` | theorems about `Shell` and `Clock` | proofs |
| `BootLoader` | stage 1, stage 2, hand-over, running kernel, warm reboot | state machine |
| `BootLoaderProofs` | theorems about it | proofs |
| `Interrupts` | 8259 controllers, start-up order of `kernel_main`, dispatch, end of interrupt, exceptions | state machine |
| `InterruptsProofs` | theorems about it | proofs |
| `UserMode` | `usertest`'s way to ring 3, system calls, task switches in the middle of them | state machine |
| `UserModeProofs` | theorems about it | proofs |
| `Strings` | the nine functions of `string.h` against reference definitions | one call per behaviour |
| `StringsProofs` | theorems about it | proofs |
| `Clock`, `MCClock` | the `time` command and the CMOS clock | state machine; start times for TLC |
| `MCRoutines` | `Strings` and `Clock` side by side, for one run | TLC only |

Operators whose comment says "A bug", or whose comment describes a behaviour
the code does not have ("a save that forgets the frame"), are deliberate
misreadings of the operator below them. They are not used by any
specification; putting one in place of its neighbour must break the property
`PROJECT.json` pairs it with, which shows that the property depends on that
piece of code.

### Scheduler

Tasks are indices into `task_list`, contexts are named after the task whose
stack they run on. `regs[i]` is a frame record: where it lies, on whose stack,
and whether it is `live`, that is, still the point where that context stopped.
`Consumed` ends the life of a frame when its context is resumed; `Resume`
continues from a live frame, and from a dead one either starts the task over
(entry frame) or continues at an arbitrary point (the stack has been reused),
where one of the points is a fault: `isr_handler` then halts the machine and the
timer is not served any more (`Halted`).
One timer interrupt, push to `iretq`, is one step because interrupt gates clear
IF. A task's own calls are cut where the timer can come between them:
`task_sleep` stores the state and, one step later, the wake-up time. `pit_ticks`
and `sleep_until` are kept relative to now, which makes the state finite without
a bound on time. `slept`, `lost` and `waited` are history variables for the
properties. Task creation can fail from the first allocation on (`oom`), which
gives the runs without any task.

### Keyboard

`KeyboardRing` cuts the reader at each access to an index and between its test
and its `hlt`. Its refinement mapping reads the queue off the ring
(`Contents`). `KeyboardInput` extends it with the 8042 controller (external: one
data byte and a status bit, a byte is offered again only when the register is
free; the PIC latches one request) and with the shell that polls it: `irq1` is
`keyboard_irq_handler` with the byte at the port, `ring_task` the task that calls
`kb_getchar_irq`. No task of the tree does so, which is the case in which that
task has not run yet. The names are kept apart (`InputSpec` is the composition),
and so are those of `Shell` and `Clock`, so that one proof module can extend both.

### Memory

A virtual page is a region and a number. The walk allocates missing tables one
by one and each allocation can find the PMM empty. `kmalloc` and the two test
commands advance one allocation or page per step through `op`, so that their
early returns occur at every place. Sizes are in the allocator's 16-byte units.
`displaced` and `unmapped` record what `vmtest` does to the heap page it uses.
`usertest` maps two pages of low memory, which the loader has mapped with 2 MB
pages: `low` holds those entries of the page directory, `low_word` the first
word of the frames they point to, `Translated` what the processor makes of them.
The frame numbers 10 and 11 of the runs stand for the frames at 4 MB and 8 MB.
When so much has been allocated that these belong to somebody, `usertest`
destroys their contents, and the model follows that behaviour no further
(`damaged`).

### Console and Shell

A screen is a record of cells and cursor; `vga_putchar` is the composition the
code has: scroll, write, wrap, scroll. One action of `Shell` is one scancode with
everything the shell does before it reads the next, so a command runs to its end
and the next prompt is printed inside `enter`. Key tables, prompt, messages and
command names are cut to representatives; the tables keep a letter, a digit and
each key that is treated apart. Presses and releases occur in any order, as they
do when the IRQ 1 handler takes some of the bytes. Two history variables are for
the properties: `origin` is the cell where the line starts, and `stuck` whether a
backspace has found the cursor in the first column since the prompt, where the
console leaves the character it should erase on the row above.

### BootLoader

Memory is in cells of one sector. Video memory and ROM do not keep what is
written. `enable_a20` sets bit 1 of port 0x92 and looks no further: `fast_a20`
says whether this machine opens its gate by that. With the gate closed the copy
goes to address 0, and if it reaches stage 2 the processor is `lost`; the loader's
properties are stated for machines on which the gate is open or can be opened
(`A20Available`), all the others are in the model too. Every BIOS read can fail.
The kernel then dirties its data and `.bss` at will, and a reset starts again
with the memory as it is.

### Interrupts

A line is its number; the controllers are external: requests, masks, lines in
service, priority, cascade, and the non-specific end-of-interrupt command,
which ends whatever is first in service. `boot` walks through `kernel_main`
from the remapping to the idle loop, starting from any masks and pending
requests the BIOS may leave; `pic_clear_mask(0)`, called after `sti`, is two
steps. An interrupt is entered, handled, ended and returned from in four steps,
so that another could come between them if a gate allowed it. A keyboard
request can go away because the shell reads the port; if that happens while the
processor acknowledges it, the controller answers with line 7.

### UserMode

`ctx` is what each task is doing, `mem` the frames on each stack, `regs` where
a task's saved frame lies. `syscall_entry` is one action per instruction (the
pushes and pops of registers are one each). An interrupt pushes at `tss.rsp0`
when it comes in user mode and below the stack pointer otherwise, and whatever
lay beyond counts as overwritten. The model keeps `gs_base`,
`kernel_gs_base`, `cpu_data` and `tss.rsp0` global as they are: no switch saves
them. Which task is chosen is left open (module `Scheduler` says which).
Segments are read from the descriptor table by the distances `sysret` uses.
`SYS_WRITE` prints one character per step from a buffer of any length up to
`MaxLength` of which each character may be unreadable, as nobody checks the
program's pointer; there, and in the program itself, an `exception` ends in
`isr_handler`, which halts with interrupts disabled. The loop always ends: a length
beyond the memory that is mapped runs into such a character.

### Strings and Clock

A behaviour of `Strings` is one call on an arbitrary memory of `Size` cells with
arbitrary arguments a caller may pass (`Valid`); one round of the loop is one
step and an access outside of memory is an error of the run. The properties
compare the result with definitions that know nothing of loops. For `strncpy` the
caller provides n cells, and there is memory behind them. In `Clock` the
command reads one register per step; the clock announces an update, changes all
its registers at once, and may do so any number of times between two reads,
since other tasks run in between. A read while the update is announced gives
the old value. `since` is a history variable: whether the clock has moved, or
begun a new century, since the command found no update announced.

## Runs

| Run | Checks | Bounds |
|---|---|---|
| `sched` | `TypeOK`, `CurrentOwnsCpu`, `ReadyIsResumable`, `OnlySleepersLost`, `BoundedWait`, `OffCpuUndisturbed`, `ReadyRuns`, `SleeperWakes` | 3 list entries, slice 3, sleeps up to 5 ticks |
| `sched_sleep_context` | finding: `ContextKept` fails | as small as needed |
| `keyboard` | `TypeOK`, `CopyStaysCurrent`, `NoRepeats`, `NoByteVanishes`, `ImplementsQueue`, `ReaderNotStuck` | 4 slots, 5 bytes |
| `memory` | `TypeOK`, `CountMatches`, `NoFrameShared`, `NoSilentLeak`, `BlocksUsable`, `OnlyVmtestUnmaps` | 12 frames, 5 heap pages of 2 units |
| `memory_user_pages` | finding: `UserPagesMapped` fails | 12 frames, 3 heap pages |
| `shell` | `TypeOK`, `LineShown`, `BlankAhead`, `HistoryIsTail`, `EditKeepsOutput` | 4 x 3 screen, 4 characters per line, 2 history slots, 3 lines, 5 characters typed |
| `boot` | `KernelIntact`, `LoaderIntact`, `BootEnds` | chunks of 2, kernels of 1 to 5 sectors, load buffer of 5 |
| `interrupts` | `NothingInService`, `HandlersNeverNest`, `OnlyExpected`, `TimerServed` | timer, keyboard, two slave devices |
| `usermode` | `UserEnvironment`, `FramesIntact`, `ReturnsToCaller`, `CallReturns` | the user's task and two others, `exit`, `write`, `yield`, at most 2 characters to write |
| `routines` | `CopiesRight`, `ComparesRight`, `QuietIsRight`, `NeverBehind` | 5 cells of 3 byte values, every pointer and count; 1152 start times in four ways of counting, 2 seconds |
| `strncpy_nul` | finding: `StrncpyWithinN` fails | as `routines` |
| `clock_noon` | finding: `ShowsTheTime` fails | as `routines` |

Why the bounds are enough. Three list entries give kernel_idle and two tasks, or
(when the TCB of kernel_main could not be had) none; sleeps longer than a slice
let a task sleep through a scheduler call, shorter ones let it wake before; the
theorems remove the bound. Four slots let the ring wrap and fill, and
five bytes let it drop one or run round once. Twelve
frames are fewer than all operations together want, so every allocation of the
walk, of `kmalloc` and of `memtest` fails in some behaviour, while each
operation also succeeds; two units per page and two pages per table make blocks
share and straddle pages and need new tables. On the 4 x 3 screen with a prompt
of two characters a line wraps after two characters, so a line of up to four
reaches the next row, is shortened past the wrap, and scrolls; three lines
overwrite the first of two history slots. The boot sizes are one short chunk,
full chunks, a short last chunk and a full load buffer that reaches past the
stack. Of the devices only timer and keyboard are ever opened; the two of the
slave are there to be pending, and open, when the BIOS hands over, and never to
arrive; the theorems cover every set of devices. The theorems also remove the
bounds on bytes, frames, heap, layout, kernel size, tasks, memory cells, screen,
lines, history and start times from the safety properties of `keyboard`,
`memory`, `boot`, `usermode`, `routines` and `shell`: there the runs have to be large enough for liveness, and for the deliberate
misreadings to show. The user program makes any number of calls, from two places and two stack depths,
so that a return to the wrong one shows; two characters let `write` fault at once,
after some output, or not at all; `read` and unknown calls take the way of `yield`.
The kernels that would be copied over stage 2 with the gate closed are those of
more than one sector. Five cells let two areas of `memmove` overlap by every distance and
two strings of different length lie side by side; 200 tells signed from unsigned
bytes, and 257 is a value `memset` has to cut. The start times are before and at
every carry, in every hour; two seconds allow two updates during one command.

Fairness. `Scheduler` assumes the start-up code runs on and that timer
interrupts keep coming: the PIT is periodic and every context runs with IF set
until a fault halts the machine, which `ReadyRuns` and `SleeperWakes` except.
Nothing is assumed of tasks. `KeyboardRing` and `KeyboardInput` assume that each
reading task is scheduled again and again (what `ReadyRuns` shows), and the
timer or a latched interrupt is taken; nothing is assumed of the keyboard.
`BootLoader` assumes the processor executes the loader, with BIOS calls ending
either way. `Interrupts` assumes that the processor executes (`kernel_main`,
then the handlers) and takes a request that is deliverable while interrupts are
enabled; nothing is assumed of devices. `UserMode` assumes that the user's task
gets the processor again and again (`ReadyRuns` once more) and then executes some
of its instructions before the next timer interrupt: strong fairness, because
each switch disables the next instruction. `CallReturns` is about calls that
can return: not `exit`, and `write` only of memory that can be read. The other
modules check no liveness. Deadlock is not checked in `routines`, where a call
ends, and in `interrupts`, where an exception halts the system for good.

## Findings

With a run whose counterexample shows them:

* **A sleeping task loses its place** (`task.c:197`, run `sched_sleep_context`).
  Only a RUNNING task is saved. After `task_sleep` the task is SLEEPING, so its
  frame is not stored and it is later resumed from an old one.
  `OnlySleepersLost` shows that sleeping is the only way to get there.
* **usertest's pages are not the ones its program runs in** (`vmm.c:123`, run
  `memory_user_pages`). The walk takes the loader's 2 MB entry for a pointer to
  a page table, writes the new entry into the frame at 4 MB (8 MB), and the
  processor goes on using the 2 MB page, which now has the user bit: the program
  is copied to, and runs in, frames nobody allocated for it, with all of these
  2 MB open to it.
* **strncpy writes one byte too many** (`string.h:64`, run `strncpy_nul`). "Maximal
  n Zeichen kopieren", says the comment above it; but the NUL its first loop
  stores is not counted, and for a source shorter than n the second loop clears
  the cell behind the n of the destination. In `task_create` that is `state`,
  which is stored afterwards. `CopiesRight` says what is right about the n cells,
  and nothing of the one behind them.
* **Noon and midnight of a 12-hour clock** (`time.c:37`, run `clock_noon`). Under
  the heading "Current time (UTC)" noon is shown as 00, since 12 is added to the 12
  of 12 PM, and midnight as 12, since nothing is taken from the 12 of 12 AM.
  `QuietIsRight` shows that every other hour, and everything else, is right.

Met while modelling, without a run of their own:

* A ZOMBIE or sleeper goes on when nobody else can run (`task.c:240` sets the
  current task RUNNING without looking at its state); `task.h:97` says
  `task_exit` ends the task. In `Scheduler` this is `keep_current`.
* Keys the IRQ 1 handler reads never reach the shell (`shell.c:64`), since
  nothing reads its ring buffer; the README speaks of input without polling.
* `kmalloc` returns unmapped memory when `vmm_map_page` finds no frame for a
  table (`heap.c:62`; `heap.c:29` promises NULL). `BlocksUsable` excepts the
  pages an error was printed for.
* `.bss` is not cleared by the loader or `entry.asm` (`stage2.asm:309`): after a
  warm reboot variables such as `shell_history_count` keep their old values.
* A line that has wrapped cannot be erased past the wrap: `vga_putchar` stops a
  backspace at column 0 (`vga.h:167`), while `shell_readline` and
  `shell_clear_line` go on shortening the buffer. The erased characters stay on the
  row above, and the user no longer sees what Enter will execute. `LineShown` says
  exactly when this begins (`stuck`), and what of the line is right after it.
* `SYS_WRITE` dereferences the user program's pointer unchecked
  (`syscall.c:117`): one that leads to unmapped memory halts the whole system in
  `isr_handler`. `CallReturns` is stated for the readable ones.
* Stage 2 never tests whether the A20 gate is open after the write to port 0x92
  (`stage2.asm:152`); on a machine where it is not, the kernel is copied to address
  0, and one of more than 63 sectors over the loader that copies it. `A20Available`
  leaves these machines out of what is claimed.
* `memtest` and `usertest` return at the first failed allocation without giving
  back the frames they hold (`memtest.c:31`, `usertest.c:68`); `NoSilentLeak` is
  about the time before an error is printed.
* A time read across an update may be ahead of the clock (02:59:59 when 01:59:59
  turns into 02:00:00 after the minutes were read); `NeverBehind` shows it is never
  behind the start.
* `vmtest` maps over and unmaps the second heap page, which belongs to the shell
  task's stack (`OnlyVmtestUnmaps` names it as the only exception).
* The load buffer at 0x80000 has 128 KB up to video memory, where the comment
  in `stage2.asm:210` says about 448 KB, and no part of the build checks it
  (`SizesAssumption`).

## Proofs

`SchedulerProofs`, for every number of tasks, slice length, longest sleep and
choice of calls:

* `TypeCorrect`, `OneOwner`, `ReadyFrames`, `FairShare`: the invariants
  `TypeOK`, `CurrentOwnsCpu`, `ReadyIsResumable`, `BoundedWait`;
* `OffCpuTasks`: the action property `OffCpuUndisturbed`;
* `ContextSafe`: `OnlySleepersLost`.

The inductive invariant `IInv` adds to these what they need from each other:
`Started` (there is a current task exactly when the list is not empty, and
PIDs follow the positions in the list during start-up), `OneIdle` (PID 0 is only
ever the head of the list), `OwnFrames` (a task's frame is on its own stack, so a
switch hands over to the right context), and `TurnBound`: how often a runnable
task has been passed over plus its distance in the cyclic search behind the
current task is at most the length of the list. `BoundedWait` alone is not
inductive, because nothing in it says the search comes nearer. `ContextSafe`
rests on `SleepersSlept`: besides the property itself, every SLEEPING task has
called `task_sleep`. With `ReadyIsResumable` this leaves sleepers as the only
tasks that can be resumed from a frame that is not live.

`KeyboardProofs`, for every buffer size of at least 2 and every set of
scancodes: `RingTypes`, `CopySafe` and the refinement `RingIsQueue` (`Spec =>
Queue!Spec`). `RingInv` is `TypeOK` and `CopyStaysCurrent`; the latter is what
makes the reader's `advance` return the head of the queue. Each action is shown
to be a `Put`, `Drop`, `Get` or a stutter of the queue; `Contents` is a
sequence by the lemma `ContentsSeq`.

`KeyboardProofs` also, about `KeyboardInput` with any number of bytes and a ring
of every size: `PortFeedsQueue` (the same refinement under the composition),
`ReadersInOrder` (`NoRepeats`) and `EveryByteRead` (`NoByteVanishes`).
`InputIsRing` shows that every step of the composition is one of the ring buffer
or leaves it alone, so `RingInv` carries over, and the refinement lemmas say what
a step does to `Ringed`, the bytes returned so far and those still in the ring:
the handler appends to it, the reader only moves the boundary between the two
(`ConcatMove`). Both properties need `Pending`: a full register comes with a
latched interrupt, a latched interrupt's byte has not been through the ring, and a
byte the shell has seen announced is not one it has read. This is how the handler
can take the byte the shell is about to read without either of them getting one
twice.

`InterruptsProofs`, for every set of devices, every pair of BIOS vectors and any
masks and requests at the start: `ServiceEnds` (`NothingInService`), `NoNesting`
(`HandlersNeverNest`) and `NothingUnexpected` (`OnlyExpected`). None of the three
is inductive. `IInv` adds `Configured`, what the start-up has established at each
step (vectors, then gates, then handlers, and only lines with a handler open; the
mask read by `pic_clear_mask(0)` is still the mask when it is written back), and
`InProgress`, what the interrupt in progress has in service until it is ended:
its own line, or nothing for an exception or a spurious one. The lemma
`EoiEndsAll` then says that the non-specific command leaves nothing in service.

`MemoryProofs`, for every memory map, number of frames, heap, page and table
size and every order of the operations: `TypesHold`, `CounterRight`
(`CountMatches`), `FramesApart` (`NoFrameShared`), `NothingLost`
(`NoSilentLeak`), `BlocksStayUsable` (`BlocksUsable`) and the action property
`HeapFramesKept` (`OnlyVmtestUnmaps`). `NoFrameShared` speaks of tables and
pages only; in the middle of an operation a frame may be neither, so `IInv` adds
`Apart` (each used frame has exactly one purpose: a table, a page, held by the
command in progress, displaced, or never free; a held frame is behind a page only
while the command has mapped it there), `Locals` (how much the command holds at
each of its steps), `Reached` (no table above a mapped page is missing, so that
unmapping finds the entry), `Accounted` (the same as `NoSilentLeak` in the middle
of operations), and `Loop`, the invariant of `kmalloc`'s loop over pages: those
already passed are mapped, or `vmtest` has unmapped them. Most lemmas are about
the walk: a failing one has only added tables, each from a free frame, and the
counter has followed. `pmm_alloc_page` takes the least free frame, which exists by
the least-element principle (`Least`, from the well-foundedness of `<`);
`CountMatches` rests on the cardinality of finite sets, `BlocksUsable` on facts
about `\div`.

`BootLoaderProofs`, for every layout in which the regions of low memory follow
each other (`LayoutAssumption`), every chunk size, and every kernel that fits
between load buffer and video memory (`SizesAssumption`; see Findings), where the
A20 gate is open or can be opened:
`TypesHold` (the ranges of the counters: the segment never wraps),
`KernelArrives` (`KernelIntact`) and `LoaderSurvives` (`LoaderIntact`), after any
number of failed, completed and repeated boots. The two properties only look at
memory when a kernel starts, or at the loader in use. `Progress` says what is
there at each step: the three counters of `load_kernel_16` agree on how many
sectors have been read, these sectors are where the counters say, stage 2 and the
memory map are in place, and the address line is open before anything is copied
above 1 MB, if the machine can open it; of the others it says nothing from the copy
on.

`UserModeProofs`, for any number of tasks: `UserModeSound` (`UserEnvironment`),
`SavedFramesIntact` (`FramesIntact`) and the action property `CallsReturnRight`
(`ReturnsToCaller`). The invariant is a table over the instructions of
`syscall_entry` (`Table`): where interrupts are off (`Masking`), where GS is
swapped (`GsRegisters`), which stack the pointer is on (`StackPointer`), and where
the return address and the user's stack pointer are kept at that moment, in `rcx`
and `rsp`, in `cpu_data` or on the secure stack (`Kept`). `Workers` says that
kernel tasks never touch any of it, `Waiting` that the frame the user's task will
be resumed from is intact on one of its two stacks. The secure stack is entered at its
top by system calls and by interrupts from user mode; the table shows why these
never meet: while there is a call in progress the task is not in user mode. After
an exception nothing more is needed: interrupts stay off in `isr_handler`.
`StacksAssumption` says that the names of the three other memories are not names
of tasks.

`StringsProofs`, for memories of every size, all contents and all arguments
within `Valid`: `CopiesAlwaysRight` (`CopiesRight`) and `ComparesAlwaysRight`
(`ComparesRight`). Each loop has its invariant (`Loops`): the rounds so far have
brought the cells they passed to their final contents and no other (`Written`),
or found them equal. Beneath `CopiesRight` lies `StoresRight`, which says of every
cell, the one behind `strncpy`'s destination included, what the code leaves in it;
`CopiesRight` follows where the two references agree. `memmove`'s two directions have one each; theirs is the
place where the overlap matters: what is still to be read has not been written.
The reference definitions find the first NUL and the first difference as least
elements (`MinFacts`), so that no induction over data is needed.

`ShellProofs`, for a screen, a line buffer and a history of every size and any
number of keys and lines: `ShellTypes` (`TypeOK`), `LineOnScreen`
(`LineShown`), `NoRemains` (`BlankAhead`), `HistoryTail` (`HistoryIsTail`) and
the action property `EditingKeepsOutput` (`EditKeepsOutput`). The invariant has two
halves:

* `EditorInv`: the screen `Shows` the prompt and the line, that is, the cursor is
  on it, nothing stands from the cursor on, and the text stands before it: all of
  it that is on the screen, or, once a backspace was `stuck`, its end in the
  cursor's row. This is `TypeOK`, `BlankAhead` and `LineShown` at once; none of
  them is inductive alone, since where a character goes, and what a scroll moves,
  depends on where the cursor is. `Starts` ties the cursor to `origin`: it is as far
  behind it as the line is long, or, once stuck, in a row that begins at or behind
  it. This is why the backspaces of an edited line never reach the prompt or the
  output before it, and why clearing a line that was stuck does not either. It adds that the line, the history and the cells
  hold plain characters only, so that printing them moves the cursor one cell at
  a time.
* `HistoryInv`: `HistoryIsTail` together with `NewestKept`, that the slot the
  next line is compared with holds the last line that was not empty. Without it
  nothing would say that a line left out of the ring is a repetition.

What `vga_putchar` does is worked out once for a plain character, a newline and a
backspace (`PutPlain`, `PutNewline`, `PutBackspace`: where the cursor goes and
where each cell's contents come from, with and without a scroll). A printed text
is a recursive function of its length; what holds of every text follows by the
least length that could be wrong (`LeastElement`, `UpTo`, `Printed`), which takes
the place of the induction theorems of the library. `EraseAll` is the same for
the loop with which `shell_clear_line` takes the line off the screen. `RingAdd`, with
`SlotsDiffer`, says what one more line does to a ring of n slots: it takes the
place of the oldest and of no other.

`ShellProofs` also, about `Clock`, for every start time (`InstantsAssumption`)
and any number of updates between two reads: `QuietTimes` (`QuietIsRight`) and
`NoTimeTravel` (`NeverBehind`). The invariant is `Ahead`, that the fields read so
far together with those still in the clock make a time that is not before the
start (in the century the start is in), and `Still`, that they are the start as
long as the clock has not moved; `NeverBehind` itself speaks only of the time at
the end. `LaterFields` says which fields an update sets back and which
higher one it then advances; `DecodesBack` and `HourBack` say that decoding undoes
the clock's encoding.

The only assumptions are the named `ASSUME`s on constants, which every run
evaluates. Left to TLC:

* liveness, which is out of the prover's reach: `ReadyRuns`, `SleeperWakes`,
  `ReaderNotStuck`, `BootEnds`, `TimerServed`, `CallReturns`;
* the properties that fail, `ContextKept`, `UserPagesMapped`, `StrncpyWithinN` and
  `ShowsTheTime`.

## Not modelled

* Two user programs at once: `usertest` never returns to the shell, so a second
  one cannot be started; two allocating tasks: only the shell allocates once
  interrupts are enabled, and `task_create` is only called before.
* Non-maskable interrupts, and a real clock whose registers change one by one.
* Information commands: they print what the modelled components keep. Power
  commands: a port write and an endless `hlt`. Colours, the hardware cursor,
  `vga_print_hex`, message texts and the exception screen.
* Port wrappers, type names, build files. `task_wrapper`, `kb_try_getchar_irq`,
  `pic_disable`, `pic_send_eoi`, `irq_uninstall_handler` and `main.asm` are
  never used.
* Arithmetic near 2^64 in `kmalloc` and the signed comparison in
  `load_kernel_16`: out of the range the callers use. The length of
  `secure_kernel_stack`, and of every other stack.

## Plan

Done, in this order: scheduler, keyboard ring with its abstract queue, keyboard
input, memory, console and shell, boot loader; interrupts, user mode, `usertest`
in memory, strings, clock; proofs for scheduler, ring and interrupts, then for
keyboard input, memory, boot loader, user mode and strings, then for shell and
clock. Every safety property of a passing run now has its theorem.

What a continuation would take up: the information commands, if they come to
keep state; a second user program, once `usertest` can return to the shell; and a
shell that reads the IRQ 1 ring buffer instead of the port, which would compose
`KeyboardRing` with `Shell`.
