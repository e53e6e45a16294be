# Verification project for the ak kernel

ak is a small 32-bit x86 kernel: `arch/x86` holds the machine-dependent half
(boot, interrupts, paging, console), `kernel` the rest (tasks, scheduler,
system calls, file systems, ELF loader).  uClibc and the userspace programs in
the repository are vendored.  This directory holds TLA+ modules that model the
kernel's own code, TLC configurations that check them on small instances, and
TLAPS proofs of the results that matter most for every instance.

Conventions.  A definition that translates a C function has its name.  Pids,
frames, descriptors and pages are small integers; `NULL` is -1.  One CPU: system
calls enter through an interrupt gate, so a system call is one atomic action
unless it gives up the CPU or enables interrupts; `Intr` checks that this is so.
Operators whose name is
another operator's name with a suffix (`list_remove_prev_NoBridge`) are
deliberately wrong variants, used to check that the properties notice.

## 1. Inventory

| component | state | operations | interacts with |
|---|---|---|---|
| Task list and scheduler (`kernel/list.c`, `kernel/proc/{task,sched}.c`, `arch/x86/proc/task.c`, `context.S`) | circular doubly linked list of `task_t`, `CurrentTask`, `next_pid`, saved contexts | `task_fork`, `task_exit`, `task_get`, `kern_sched_yield`, `task_enter`, `sched_preempt` (timer) | timer interrupt, system calls, signals |
| Signals and wait (`kernel/syscall/signal.c`, `task_signal_*`) | `sigpend`, `sigwait`, `sigchldpid`, `sigchldexit`, `sigact` | `wait4`, `rt_sigsuspend`, `signal`, `rt_sigaction`, raise, exec | scheduler wake-ups, exit |
| Process ids and groups (`kernel/syscall/proc.c`) | `ppid`, `pgid`, `sid` | `getpid`, `getppid`, `getpgid`, `setpgid` | task list |
| Descriptor tables (`kernel/io/fdio.c`, `kernel/syscall/fdio.c`, `task_clone`) | per task `fdtbl`, `fdnext`, `fdcap`; shared `fdescr_t` with `refs` | `fd_open`, `fd_close`, `fd_dupfd`, `task_clone` | file systems, fork |
| Frame allocator (`arch/x86/mem/framealloc.c`) | `FrameBitmap`, `FrameCount`, preallocated frames | `frame_alloc`, `frame_set`, `frame_clear` and their ranges, `frame_alloc_init` | boot memory map, paging |
| Paging (`arch/x86/mem/mmu*.c`) | page directories and tables, `PAGE_LINK` bits | `pg_map`, `pg_alloc`, `pg_unmap`, `pg_clone_dir`, page-fault handler | frames, fork, brk |
| brk, mmap and the early heap (`brk.c`, `early_malloc.c`, `kernel/syscall/mem.c`) | `brk`, `mmapbrk` per task, `UserTask`, early stack | `task_brk`, `sys_brk`, `sys_mmap`, `enter_kernel`/`leave_kernel`, wrapped malloc/free | paging, tasks |
| Console and keyboard (`arch/x86/console.c`, `kbd.c`) | 256-byte ring `ConsoleReadBuf`, `RBufWrite`, `RBufRead` | `kbd_intr` (interrupt), `console_read`, `console_write` | readers that wait with interrupts on |
| VGA console (`arch/x86/vga_console.c`) | cursor, screen memory | `putc`, scroll, clear | console echo |
| VFS, tmpfs, cpiofs, devfs (`kernel/fs`) | node tree, per-device position | locate, link, open, read, write, lseek | descriptors, initrd |
| ELF loader, execve (`kernel/proc/elf`, `arch/x86/proc/exec.c`) | section and program tables | `elf_read`, `elf_load`, `arch_exec` | files, paging |
| Boot, modules, initrd (`arch/x86/boot`, `kernel/module.c`, `initrd.c`, `kmain.c`) | multiboot tags | tag walk, `arch_init`, `modules_init` | frames, brk |
| Interrupt plumbing (`arch/x86/intr`, `gdt.c`, `syscall.c`) | IDT, handler table, PIC masks, system call table | `idt_set_handler`, `pic_mask`, dispatch | everything |
| uname, uid stubs, tty (`uname.c`, `user.c`, `tty/console.c`) | none | constants | - |

### What is hard in this code

* **Interleaving.** One CPU, and most system calls run with interrupts off.  The
  exceptions are where it gets hard: `kern_sched_yield` takes the CPU from a
  task in the middle of `wait4` and `rt_sigsuspend`; `console_read` and the
  end of `sys_exit` enable interrupts; the keyboard interrupt writes the ring
  while readers take from it.
* **Shared structures.** The task list is changed by forks and unlinked by the
  scheduler's walk; page tables and descriptors are shared between tasks after
  a fork; the kernel's heap grows in one page directory and is used through
  others.
* **Stale state.** `wait4` reads the record of a dead child after sleeping;
  `UserTask` outlives the call that set it; the position of a file belongs to
  the file.
* **Boundaries.** Inclusive and exclusive ends of page ranges, the bitmap's last
  word, a full descriptor table, unsigned arithmetic on positions.
* **Liveness.** A walk that must end, tasks that must run, a `wait4` that must
  return, a page fault that must be resolved.
* Nothing is persistent and nothing is sent: there is no crash recovery and no
  unreliable message.

What makes each component correct: the task list stays one ring with every live
task; every ready or signalled task runs; `wait4` reports a dead child, once.
A frame is handed out once and never one of the kernel's.  A key typed is read
once and in order.  No task sees another's memory; all see the same kernel heap.
A descriptor lives exactly as long as a table refers to it.  Every node linked
into the file tree is found.

## 2. Modules

| module | models | state | actions |
|---|---|---|---|
| `Tasks` | task list, scheduler, fork, exit, signals, SIGCHLD handlers, wait | the fields of `task_t`, `CurrentTask`, the cursor `next_task` of the walk, `pc` (what a task executes), `context` (where it resumes), `handlers` (who set one), `calls` (what running handlers interrupted) | `Fork`, `Exit`, `Wait4`, `Wait4Return`, `RtSigsuspend`, `RtSigsuspendReturn`, `task_signal`, `HandlerReturn`, `Yield`, `Preempt`, and one iteration of `kern_sched_yield`: `WalkUnlink`, `WalkPast`, `WalkEnter` |
| `TasksWait` | `Tasks` with the history of reported deaths | `reported`, `latest` (at which depth of handlers a task called `wait4` last) | those of `Tasks` |
| `ProcLife` | abstract specification: what processes may rely on | status, parent, notified, running | `Spawn`, `Die`, `Block`, `Dispatch` |
| `TasksRefinement` | the refinement mapping `Tasks` -> `ProcLife` | | |
| `TasksProofs`, `TasksListProofs` | theorems about `Tasks`, `TasksWait` and `TasksRefinement` | | |
| `Frames`, `MCFrames` | frame allocator and the boot tags that feed it | `FrameBitmap`, `PreallocCount`, boot phase, `given` (history) | early allocation, initialization, the two tags, `arch_init`, allocation, exhaustion |
| `FramesProofs` | theorems about `Frames` | | |
| `Console` | keyboard interrupt, key ring, `console_read` | the ring and its two positions, per reader its program counter, loaded position, buffer | `kbd_intr`, `console_read`, `Test`, `Load`, `Store`, `Fetch` |
| `ConsoleProofs` | theorems about `Console` | | |
| `Vga`, `MCVga` | text memory and cursor, `console_write` and the echo of `console_read` | `buffer`, `x`, `y`; per task what is left of its call, the value it will store, the length of its line; the screen as a terminal would show it (history) | `console_write`, `echo`, and the operations of `vga_console_putc`: loads and stores of the cursor, `BUF_PUTC`, the three tests, `memmove` |
| `VgaProofs` | theorems about `Vga` | | |
| `Intr` | interrupt controllers, interrupt and system call entry and return, the interrupt flag | per task its stack of activations, the flag, the request, service and mask registers | `Request`, `Interrupt`, `idt_handler`, `iret`, `syscall_interrupt`, what calls do with the flag (`console_read`, `sys_exit`, `sys_fork`, `sys_execve`, `task_sigwait`), `kern_sched_yield`, `task_signal_exec`, `HandlerReturn`, `intr_enable`, `kmain` |
| `IntrProofs` | theorems about `Intr` | | |
| `Mmu`, `MCMmu` | page directories and tables, fork's clone, brk, mmap, execve's memory, kernel heap switch, page faults | `dir`, `tbl`, `data`, `brk`, `mmapbrk`, whose directory is in CR3, `UserTask`, `fault` | `sys_brk`, `sys_mmap`, `sys_execve`, `sys_fork`, `Switch`, `enter_kernel`, `leave_kernel`, `KernelBrk`, `Write`, `Fault`, `pg_fault_handler`, `pg_fault_panic` |
| `MmuProofs` | theorems about `Mmu` | | |
| `Vfs` | node tree and the calls of `kmain` that build it | `first_child`, `next_sibling`, boot phase | `fs_create_rootfs`, `cpiofs_unpack_file`, `initrd_mount`, `initrd_bad_magic`, `console_register` |
| `Files`, `MCFiles` | descriptor tables and files, composed with `Vfs` | `fdtbl`, `fdcap`, `fdnext` per task, `descr`, `pos` | `console_init`, `sys_open`, `sys_close`, `fd_dupfd`, `task_clone`, `sys_read`, `sys_lseek`, `UseFreed` |
| `FilesProofs` | theorems about `Vfs` and `Files` | | |

`Tasks`, `Mmu` and `Files` each model the part of fork they are about: the list
and the signal fields, the page directory, the descriptor table.  `task_clone`
and `task_fork_context` run with interrupts off, so the three parts do not
interfere.

**Correspondence.**  `PROJECT.json` names the lines behind every definition.
Choices worth knowing:

* The walk of `kern_sched_yield` is one step per iteration of its loop, although
  interrupts are off: so the loop's termination is a property and not an
  assumption.  While `next_task` is set, nothing else happens.
* A signal handler is a call that `task_signal_exec` makes at the end of the
  `kern_sched_yield` through which its task gets the CPU back: `RunHandler` pushes
  what the task was doing on `calls`, and `HandlerReturn` pops it.  In between the
  handler is program code with interrupts off and makes any call, `wait4` inside
  a `wait4` included.  A fork copies the stack: the clone of a handler has its own
  copy of the `wait4` that was interrupted (`wait4_copy`) and returns from it.
* `console_rbuf_getc` is four steps: the test, the load of `RBufRead`, its store,
  and the fetch from the ring.  The kernel is compiled without optimization, and
  `buf[RBufRead++ % LEN]` then stores the incremented position before it looks at
  the ring.
* For the same reason `x++` in `vga_console_putc` is a load and a store, and `Vga` makes them steps.  What a task has left to do is
  a sequence of such operations; a test puts the operations of its body in
  front of it.
* In `Intr` a task is its stack.  Programs run in ring 0, so an interrupt or a
  system call continues on the stack of the program; each activation remembers
  the flag its `iret` will restore.  Whom the scheduler picks and whether a
  signal is pending is left open: `Tasks` has that.
* In `Mmu` nothing else happens between `enter_kernel` and `leave_kernel`, where
  `CurrentTask` is not the task that runs: malloc and free are called with
  interrupts off, by `CallsAtomic` of `Intr`.
* Frames in `Mmu` are named by the task, the page and the generation they were
  allocated for, page tables by the task and the column of the directory.  That
  they are distinct is what `NoDoubleAlloc` of `Frames` says.  Memory contents
  are one bit: written to or not.
* Names in `Vfs` are numbers, `strcmp` is `<`.
* An access through a dangling pointer, outside a file or behind a descriptor
  table (`Files`) is not followed: the step sets `overrun` to its kind, and
  properties say when it can happen.  `malloc` may return the memory of a freed
  descriptor while slots still point to it.
* In `Frames` the bitmap has the bits that exist, and `spilled` records which
  others the code set or cleared: that no bit lies outside the bitmap is the
  model's representation, and what can be wrong is stated about `spilled`.

## 3. Runs

| run | states | shows |
|---|---|---|
| `tasks_safety` | 263,516 | with three processes beside the kernel task and handlers that make any call: the list is doubly linked and one ring with all live tasks; child counts are right; a task that runs has no signal pending; `wait4` reports a dead child of the caller with its exit code, and none twice unless a handler inside it waited itself; a `wait4(WNOHANG)` that sleeps has a live child or a signal |
| `tasks_liveness` | 65,118 | with three processes: the walk ends, ready tasks run, signalled sleepers wake, and `Tasks` implements `ProcLife` |
| `wait_lost` | violated | a child that dies before its parent's `wait4` is not reported by it: the call sleeps for ever, although one that is woken returns |
| `frames_alloc` | 523,356 | 336 combinations of memory map, initrd, kernel size and tag order: frames are handed out once, never the kernel's, the initrd is kept if its tag comes last, "out of memory" only when memory is used up; at most the one word behind the bitmap is changed if the map lies in memory |
| `frames_initrd` | violated | with the module tag first, the initrd's frames are handed out |
| `console_read` | 630,224 | a reader alone gets every key once and in order, a newline ends its read, unless a key was put over one not fetched; readers that race still edit their lines correctly, and two of them overshoot the ring by one at most |
| `vga_putc` | 2,297,275 | calls of `vga_console_putc` that do not overlap draw what a terminal draws, with wrapped lines, scrolling and erasing; echoes never erase in front of text memory unless lines fill the screen; after overlaps the cursor is in a column of the screen and at most two rows per overlap too low |
| `intr_flag` | 660,000 | system calls are atomic but for the three places that enable interrupts; every program can be preempted, handlers cannot; interrupts are acknowledged before their callback switches; every tick of an unmasked timer is taken |
| `mmu_user` | 14,806 | no frame of user memory is mapped twice; no step changes another task's memory, a clone starts with a copy; memory up to a page-aligned break is mapped |
| `mmu_heap` | 171,983 | every directory that maps a heap page that was never given back maps the kernel's frame; faults inside malloc and free end |
| `mmu_brk` | violated | lowering the break into a page unmaps the bytes below it |
| `files_calls` | 649,464 | every node linked is found, in every archive order; `refs` is the number of slots that hold a descriptor, unless `F_DUPFD` or fork failed to count it or slots of such a descriptor still point to its memory; open stores behind a table only after an over-read as long as the table; positions stay in the file unless sought out of it; freed descriptors are used and memory outside a file is read only after their causes |

Every property of a passing run has a deliberately wrong variant of a mapped
definition that violates it.

**Bounds, and why they are enough.**

* `Tasks`: `MaxPid` bounds the forks.  Three processes allow a parent with two
  children, which may die inside one of its `wait4` calls one after the other, so
  that handlers nest; two exited neighbours in the list during one walk; and an
  orphan.  The depth of handlers has no bound of its own: each needs the death of
  a child.  For the safety results the proofs remove the bound.
* `Frames`: words of 2 bits and 7 frames, so that the last word is incomplete;
  2 early frames.  The proofs remove these bounds too.
* `Console`: a ring of 2, three keys, two readers: the ring wraps and can be
  overrun, also between a store and its fetch, and every order of the steps of
  both readers occurs.  `MaxLine` only
  has to exceed what racing readers can store.
* `Vga`: two rows of two columns, so that five characters wrap, scroll and erase
  over the end of a row; two echoing tasks and a writer, two overlaps.  What a
  writer does is the same for all tasks: interrupts are off.
* `Intr`: two tasks, and stacks of six activations: a program, its call, the
  `sched_yield` within it, a handler, the handler's call and an interrupt on top.
  Without the bound a stack can grow by an interrupt behind every `intr_enable`
  of `kern_sched_yield`.  Three interrupts: the timer, the keyboard, which has a
  lower priority, and the first of the second controller, which nobody handles.
* `Mmu`: tables of two entries, so that a directory has several, two tasks
  beside the kernel task, so that a clone of a clone exists.  `PAGE_SIZE` is 1
  in the passing runs, meaning addresses on page boundaries, and 2 in `mmu_brk`.
  `Generations` bounds the frames of one page that are still mapped somewhere;
  mappings of mmap stay below the program.  The breaks a program sets are below
  the stack's page, and the kernel's leave a page below the temporary mappings:
  `task_brk` checks neither.  The kernel's break moves up and down
  between two values without end.
* `Files`: two tasks, tables of 2 growing to 4, one descriptor opened by
  `console_init` instead of three in tables of 16, two opens, one `F_DUPFD`,
  numbers of 3 bits, counts that end inside the file, behind it, and so far behind
  it that position plus count wraps.  Up to two words behind a full table of two
  are not zero (`Overread`), so that doubling it may or may not suffice; `F_DUPFD`
  searches from inside and from behind a table.  After a seek left a file, it is
  not sought again.  Descriptors are symmetric: nothing compares their addresses.

**Deadlock** is checked for `Tasks` and `Intr`.  In the other runs the machine may stop: a
panic, no more keys within the bound, or an access that is not followed.

**Fairness.**  `Tasks`: the CPU keeps executing the walk (`WF(Walk)`) and the
timer keeps ticking (`WF(Preempt)`: the timer is unmasked by
`task_unmask_preempt`, and every tick is taken, which is `TicksAreTaken` of
`Intr`), and a handler, which the timer cannot interrupt, returns
(`WF(HandlerReturn)`).  `WaitSpec` adds that a `wait4` that has been entered again
comes to its return (`SF(Wait4Return)`): a few instructions of the kernel, among
which the timer does not strike every time.  Otherwise no fairness is assumed of
programs.  `Intr`: the CPU executes the next
instruction of the kernel (`WF(Kernel)`), and signal handlers return (`SF`,
since a handler may be in a system call when it is looked at): they run with
interrupts off, so one that never returns does stop the machine.  `Console`: a reader that spins makes steps, which is
`ReadyRuns` of `Tasks`.  No fairness of the keyboard.  `Mmu`: the CPU runs the
fault handler after a fault.

## 4. Proofs

TLAPS checks the theorems below for every value of the constants; the assumptions
on the constants are named where they are declared, and TLC evaluates them in
every run.

`TasksProofs` (every `MaxPid` and set of exit codes):

* `TypeCorrect`, `ListIsLinked`, `RunnerHasNoSignal`: `TypeOK`, `LinksOK` and
  `RunningClean` are invariants; `WaitIsTruthful`: the action property
  `WaitReportsDeadChild` holds, for every `wait4` the task called itself.
* None is inductive.  The walk follows `next` pointers, so that its cursor is a
  task rests on `LinksOK`; that unlinking keeps the links rests on the kernel
  task never being unlinked (`KernelOK`) and on unborn tasks being untouched
  (`Unborn`).  That a running task has no signal rests on what a clone
  inherits (`CloneOK`), and on what ready tasks wait for
  (`ReadyWaitsForNothing`, `RunnerOK`).  That `wait4` is truthful rests on
  `ChildRecordOK`: the record of a dead child is set whenever a signal is
  pending, survives its delivery, and is set as long as a handler runs inside a
  `wait4` of its task.  That a handler returns to something other than
  a handler in the end is `HandlerOK`.  `IInv` is the conjunction; there is a lemma
  per action, and `Invariance` combines them.
* Assumed: `MaxPidAssumption` (at least one process) and
  `ExitCodesAssumption` (exit codes are integers).

`TasksListProofs` (the same constants):

* `ListIsOneRing`: `RingIsOneCycle` counts steps along `next`, which no action
  preserves step by step.  The proof carries `OneRing` instead: the only set of
  linked tasks that is closed under `next` is the whole list.  Inserting behind a
  task and unlinking one preserve that, and a pigeonhole argument on the walk
  (`Orbit`) turns it back into the walks of `RingIsOneCycle` and `task_get`.
* `ChildcountIsRight` needs the ring: an exit decrements the count of the parent
  `task_get` finds.  `NohangSleepIsJustified` needs the count, since `wait4`
  with `WNOHANG` tests it.
* `NothingReportedTwice` (of `TasksWait`) is about the `wait4` a task called last:
  a child that a pending `SIGCHLD`, or such a call about to return or interrupted
  by a handler, stands for has not been reported (`FreshOK`); the other calls that
  handlers have interrupted are older, and lie above those copied from the parent
  (`LatestOK`).  `WaitInv` is the conjunction.
* `RefinesProcLife`: the initial states and every step of `Tasks` are initial
  states and steps or stutters of `ProcLife`.  The delicate step is `Exit`: a
  live parent learns of the death only because `task_get` finds it in the ring.

`FramesProofs` (every word size, memory size and boot information):
`AllocIsExclusive`, `KernelIsKept`, `PanicOnlyWhenFull`, `InitrdIsKept`, the types
they need (`TypeCorrect`), and `SpillIsBounded`, which is inductive and rests on
`OneWordBehind`, arithmetic of the rounding.  The strengthening of the others says
that what was handed out keeps its bit (`GivenIsSet`), that the kernel's bits
are set once boot is over (`KernelIsSet`), that every bit of an available
frame is accounted for (`Accounted`), and that the initrd's bits are set from the
module tag on (`InitrdIsSet`).  Assumed: `FramesAssumption`, the types of
the constants.

`IntrProofs` (any number of tasks, stacks of any depth): `CallsAreAtomic`,
`ProgramsArePreemptible`, `AcknowledgedBeforeSwitch`.  The properties look at the
top of a stack or at one place in it; the invariant relates every activation to
the one above it (`Over`: what can be interrupted or called by what, and which
flag the return restores), so that popping any number of activations exposes a
state that is in order again.  `FlagOK` ties the CPU's flag to the activation on
top, `OffCPU` says what a task that does not run left on top.  Assumed:
`IntrAssumption`.

`ConsoleProofs` (a ring of any length, any number of readers and keys):

* `OvershootIsBounded` and `AloneReadsInOrder`.  `Alone` says what one reader's
  program counter and loaded position guarantee, `Racing` the same for each of
  two: both are past the test only for a key that is there, and while one of them
  holds an `RBufRead` without a key the other does not pass the test.  `RingHolds` says that the ring
  holds the last keys typed.  A reader between store and fetch has given up its
  slot but not looked at it: `lost` counts a key put there as overwriting, and as
  long as it is false the slot still holds the key of the loaded position.
* `LinesAreEdited`: the line in a reader's buffer is what the keys it took, edited
  by backspaces, come to; for any number of racing readers, as long as no line
  outgrows its buffer (`LineFits`, the model's bound `MaxLine`; the code has no
  such check).  The property folds over the keys; `FoldExists`, `FoldUnique` and
  `EditedAppend` show that the fold exists and grows by one key at a time.
* Assumed: `ConsoleAssumption`.

`FilesProofs` (any number of tasks, descriptors, files, table sizes; a `size_t` of
any width):

* `LinksAreFound`: `EveryLinkIsFound` follows `next_sibling` as far as it goes.
  The invariant `VfsInv` says that the children of each directory are a chain that
  meets each linked node exactly once; `LinkChains` shows that `fs_link_child`
  keeps it in each of its three cases.
* `RefsAreCounted`, `NothingIsAboveNext`, `SlotsAreInTable` are proved together
  (`TabInv`): `fd_alloc` stores inside a table only if `fdnext` is inside
  (`NextInTable`) and nothing is above `fdcap`; what a fork adds to `refs` is what
  its copy holds because the slots from `fdnext` on are uncounted; freed memory
  that a slot still points to was shared uncounted (`FreedIsUncounted`), so what is
  allocated there stays uncounted.
* `PositionsStayInFile`, `OverrunsHaveCause` (`PosInv`): the arithmetic of
  `cpiofs_read_file` modulo `SIZE`, and `RefsCountHolders` for the use of freed
  descriptors.
* Assumed: `VfsAssumption`, `FilesAssumption`: files are shorter than half the
  numbers of a `size_t`, and the first table has room for what `console_init`
  opens.  Nothing is assumed of the words behind a table.

`MmuProofs` (any number of tasks, page size, table size, program, breaks and
lengths within the assumption):

* `SpaceInvariance`, `UserMemoryIsPrivate`, `TasksAreIsolated`.  `UserMemoryPrivate`
  speaks of what directories map; what an operation does depends on which column
  of a directory it writes to.  The invariant `SpaceInv` therefore says of the
  columns below the kernel's half that they are nil or hold the task's own table
  (`Columns`), that their entries are not linked and those above are (`Links`, which
  is what `pg_clone_dir` and the fault handler go by), and that a frame of user
  memory is in one entry only (`FramesApart`).  All writes go through
  `pg_write_entry`, so one lemma (`WriteFacts`) says what a loop that writes entries
  for a set of pages leaves in the directory (`WroteDir`) and in the tables
  (`WroteTbl`), and brk, mmap, execve and the kernel's heap only differ in the set.
* `HeapStaysShared` needs `Owners` as well: a table that some directory holds is in
  the directory of the task it was allocated for, and a table that nobody holds is
  empty; so a fault that fills a slot of the kernel's half cannot bring back
  an old entry.
* `BreakIsAccessible`: the pages from the start of the program to the break are mapped
  (`ProgramMapped`).  It has a hypothesis that the code does not enforce: the breaks
  programs ask for are page-aligned.  The run `mmu_brk` shows that the
  theorem is false without it.  The start and the end of the program need not be
  aligned.
* Assumed: `MmuAssumption`: the kernel's half and the temporary mappings start at
  table boundaries (0xC0000000 and 0xFFC00000 do), the program ends below the
  stack's page, and the breaks are where the paragraph on bounds says.

`VgaProofs` (a screen of any size from two rows on, any number of echoing tasks, any
number of calls and overlaps):

* What is left of a call is one of 22 sequences (`Codes`); `Moves` and the lemmas
  after it turn the actions into moves between them.
* `CursorStaysNear`: a column beyond the edge, or a row beyond the screen, is
  always followed by a call that still has the test that repairs it in front of it
  (`ColumnInv`, `RowInv`).  The bound on the row is a count: each call that is about to
  add a row (`Rising`) and each that may come to wrap (`MayWrap`) uses up
  one of the `2 * overlaps` rows of room, and only if the column is, or is about to
  be, beyond the edge (`High`) all those that may wrap can do so; the row a call
  has loaded but not stored obeys the same bound.
* `ScreenStaysTerminal`: `ScreenInv` says for each of the 22 points what is in text
  memory and where the cursor is, as a function of the screen before the call and
  its character (`Stage`).  `PutShows` and `ScrollShows` relate text memory to the
  rows of the terminal; the row behind the screen stays blank.
* `EchoesStayOnScreen`: without overlaps the cursor is at least as far from the top left as
  the lines being typed have characters (`EraseInv`); a scroll breaks that only
  when they fill all rows but one (`LineInv`).
* Assumed: `VgaAssumption`: at least two rows and one column, finitely many echoing
  tasks, and letters other than backspace, newline and the blank.

The library's induction theorems have an operator parameter that the installed
provers cannot instantiate; where an induction over the natural numbers is needed
the proofs take the least counterexample (`LeastNatural`).

Only model-checked: everything under fairness (`WalkTerminates`, `ReadyRuns`,
`SignalWakes`, the liveness part of `ImplementsProcLife`, `NewlineEndsRead`,
`TicksAreTaken`, `HeapFaultEnds`), which is out of the prover's reach.  Every
invariant and every action property that a passing run checks is a theorem.

## 5. Findings and observations

The three violated properties are recorded under `findings` with the sentence of
the documentation they come from.  Further observations made while modelling,
which the models contain but no run claims the opposite of:

* `frame_clear_range` includes the page at `end`, so the page behind every
  available range is freed; the loop over the memory map reads one entry behind
  it.  `arch_init` claims the kernel's pages after that (`KernelKept`).
* `frame_alloc_after` reads on behind a full bitmap (`frame_alloc_beyond`).
* A reader gives up its slot of the ring before it looks at it: a key pressed in
  between overwrites the key being read when the other slots are in use, so
  the ring holds one key less than its length while a read is at that point.
* Two console readers can skip a newline or read a key twice.  A read stores its
  line whatever its count says.
* Two readers move `RBufRead` one beyond `RBufWrite` at most, but three do more:
  one that has overshot makes the test of the others true.  The attempt to prove
  the bound for any number of readers showed it; `OvershootBounded` says what
  holds.
* `wait4` with `WNOHANG` returns at once only if the caller has no live child;
  with one it sleeps like a plain `wait4` (`NohangSleepHasChild`: not for ever).
* Overlapping echoes can leave the cursor below the screen for good: only the
  next line that ends below scrolls, by one row.  A backspace at the top left,
  which only `console_write` passes on, writes in front of text memory.
* Signal handlers run with interrupts off (`ProgramsPreemptible`).  Handlers set
  by a program stay set after its `execve`.
* A SIGCHLD handler that runs inside a `wait4` and waits itself takes the record of
  the child that ended the outer call, or of a later one; the outer call then reports
  the same child again.  `NoDoubleReport` therefore speaks of the latest call only.
  If such a handler forks, the clone returns from its copy of the parent's `wait4`
  with a record that is its own and may be empty.
* `pic_eoi` compares with `>`: interrupt 8 is never acknowledged at the second
  controller.  Nothing handles it.
* `pit_init` shifts the divisor by 16 instead of 8, so the timer is faster than
  its 200 Hz; `getpgid` returns the pid; the keyboard's mask is the BIOS's.
* A fault on the kernel's heap outside malloc, while `UserTask` is another task,
  is taken for ever: the handler fills the other task's directory.
* When the kernel's heap shrinks, directories with tables of their own keep
  entries to the old frames.
* fork does not count the descriptor in slot `fdnext`, the last one opened, and
  `F_DUPFD` counts nothing: the first close frees what another slot still
  refers to (`RefsCountHolders`, `OverrunHasCause` say exactly when).  If `malloc`
  gives that memory out again, the stale slot is a second holder of a descriptor
  that was never duplicated.
* `fd_alloc` and `fd_dupfd` search on behind a full table.  `fd_alloc` then doubles
  the table once, which is enough unless as many words behind it are nonzero as it has
  slots (`SlotsInTable`); `fd_dupfd` does not grow the table and stores behind it.
* A read at a position outside its file copies more than was asked for; open
  does not reset the position.
* A read whose count is so large that position plus count is no `size_t` is not
  cut at the end of the file.  The position comes out inside the file again
  (`PosInFile`); the attempt to prove `OverrunHasCause` for every count showed
  this third cause.
* The list of children is not sorted, although `fs_link_child`'s comment says so;
  nothing depends on it.
* A comment in `sys_exit` says that the task has been removed from the queue; it
  is still linked, until a later walk passes it.

## 6. Not modelled

Port I/O, the descriptor tables of the CPU, the saved registers
(only where a task resumes), handlers that leave by `longjmp` and the stale ones
that `execve` keeps, process groups and sessions, `frame_alloc_4m` (no page it would copy exists), reserved pages
(nobody makes one), tmpfs files (nobody creates one), the text of ELF sections,
uname and user ids, the C library, userspace programs.  `PROJECT.json` gives the
reason for each component.

uClibc, busybox and dash are third-party code kept in the repository to build an
image; they are nearly all of its lines.  The kernel, which is what this
repository develops, is less than 5,000 lines in `arch/` and `kernel/`.

## 7. Plan

Done: `Tasks` with its abstract specification, `Frames`, `Console`, `Intr`, `Vfs`,
`Files`, `Mmu` and `Vga`, each with proofs of all its safety properties.  What
would come next:

1. A specification of private address spaces that `Mmu` implements; a
   specification of reference-counted descriptors that `Files` implements when
   nothing is uncounted.
2. Process groups; handlers across `execve`.
