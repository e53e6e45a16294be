-------------------------------- MODULE Mmu ---------------------------------
(***************************************************************************)
(* Address spaces of ak: page directories and tables (arch/x86/mem/mmu.c,  *)
(* mmu_clone_dir.c), the break (brk.c), anonymous mmap (syscall/mem.c),    *)
(* program loading (proc/elf/exec.c, arch_exec) and the switch to the      *)
(* kernel's heap around malloc and free (early_malloc.c).                  *)
(*                                                                         *)
(* A directory is named by its task, a table by the slot of the directory *)
(* it was allocated for, which is never cleared, and a frame by the task   *)
(* and the page it was allocated for, with a number to tell it from frames *)
(* of earlier allocations that are still mapped somewhere (Frames shows    *)
(* that a frame is handed out once).  The first 4M of the                  *)
(* kernel's half are one extended page that every directory links; the     *)
(* model starts behind it.  Nothing calls pg_reserve, so an entry is nil   *)
(* or present.  A system call runs with interrupts off: it is one action,  *)
(* except that it may fault on the kernel's heap, and the fault handler    *)
(* has its own.                                                            *)
(***************************************************************************)
EXTENDS Integers, FiniteSets

CONSTANTS
  MaxPid,          \* bound on the tasks; task 0 is KernelTask
  PAGE_SIZE,       \* addresses per page
  ENTRIES,         \* entries per table, 1024 in the code
  KZERO,           \* first kernel address the model looks at
  KTMPMEM,         \* end of the kernel's heap
  Segment,         \* <<base, limit>> of the program execve loads
  ElfLength,       \* length of its file
  Breaks,          \* the arguments programs pass to brk (bound: below the stack)
  KernelBreaks,    \* the breaks malloc and free set for the kernel's heap
  Lengths,         \* the arguments programs pass to mmap
  WritePages,      \* bound: the pages programs write to
  Generations      \* bound on the frames allocated for one page of one task
                   \* that are mapped at once

NULL == -1
KERNEL_PID == 0
Task == 0 .. MaxPid
Pages == 0 .. (KTMPMEM \div PAGE_SIZE) - 1
Pte == 0 .. ENTRIES - 1
Pde == 0 .. (KTMPMEM \div (PAGE_SIZE * ENTRIES)) - 1
TblOf(t, d) == <<t, d>>          \* the table allocated for slot d of t
Tbl == Task \X Pde
FrameOf(t, p, k) == <<t, p, k>>  \* the k-th frame allocated for page p of t
Frame == Task \X Pages \X (0 .. Generations - 1)

ASSUME MmuAssumption ==
  /\ {MaxPid, KZERO, KTMPMEM} \subseteq Nat
  /\ {PAGE_SIZE, ENTRIES, Generations} \subseteq Nat \ {0}
  /\ KZERO % (PAGE_SIZE * ENTRIES) = 0 /\ KTMPMEM % (PAGE_SIZE * ENTRIES) = 0
  /\ 0 < KZERO /\ KZERO < KTMPMEM
  /\ Segment \in Nat \X Nat /\ ElfLength \in Nat /\ Lengths \subseteq Nat
  /\ Segment[1] <= Segment[2] /\ Segment[2] <= KZERO - PAGE_SIZE
  /\ Breaks \subseteq 1 .. KZERO - PAGE_SIZE
  /\ KernelBreaks \subseteq KZERO .. KTMPMEM - PAGE_SIZE
  /\ WritePages \subseteq Pages

\* ADDR_PDE, ADDR_PTE and PGADDR, of a page number and of an address.
PDE(page) == page \div ENTRIES
PTE(page) == page % ENTRIES
PageOf(addr) == addr \div PAGE_SIZE

VARIABLES
  tasks,        \* the tasks that exist
  dir, tbl,     \* [Task -> [Pde -> Nil or entry]], [Tbl -> [Pte -> Nil or entry]]
  data,         \* what each mapped frame holds: 1 if a program wrote to it
  brk, mmapbrk,
  running,      \* whose directory is in CR3
  heap,         \* running is between enter_kernel and leave_kernel
  UserTask,
  fault,        \* the page whose access faulted, or NULL
  panic,
  trimmed       \* history: the pages the kernel's heap has given back

space == <<dir, tbl, data>>
vars == <<tasks, dir, tbl, data, brk, mmapbrk, running, heap,
          UserTask, fault, panic, trimmed>>

Nil == [to |-> <<>>, link |-> FALSE]
Entry(to, link) == [to |-> to, link |-> link]
StackPage == PageOf(KZERO) - 1

\* pg_init: the kernel's directory holds the stack, which is not linked.
Init ==
  /\ tasks = {KERNEL_PID}
  /\ dir = [t \in Task |-> [d \in Pde |->
             IF t = KERNEL_PID /\ d = PDE(StackPage)
             THEN Entry(TblOf(t, d), FALSE) ELSE Nil]]
  /\ tbl = [x \in Tbl |-> [i \in Pte |->
             IF x = TblOf(KERNEL_PID, PDE(StackPage)) /\ i = PTE(StackPage)
             THEN Entry(FrameOf(KERNEL_PID, StackPage, 0), FALSE) ELSE Nil]]
  /\ data = [f \in Frame |-> 0]
  /\ brk = [t \in Task |-> KZERO]
  /\ mmapbrk = [t \in Task |-> 0]
  /\ running = KERNEL_PID /\ heap = FALSE /\ UserTask = NULL
  /\ fault = NULL /\ panic = FALSE
  /\ trimmed = {}

-----------------------------------------------------------------------------
(* Reading and writing entries *)

\* pg_read_entry for a page whose table exists.
Lookup(t, page) ==
  IF dir[t][PDE(page)] = Nil THEN Nil ELSE tbl[dir[t][PDE(page)].to][PTE(page)]

pg_is_allocated(t, page) == Lookup(t, page) # Nil

CurrentTask == IF heap THEN KERNEL_PID ELSE running

\* Mutant: kernel mappings are not linked.
base_flags_User == FALSE

\* base_flags: what CurrentTask maps while it is KernelTask is linked.
base_flags == CurrentTask = KERNEL_PID

\* frame_alloc for page p of t: a frame no other entry of any table refers to.
Elsewhere(t, p) ==
  {tbl[e[1]][e[2]].to : e \in (Tbl \X Pte) \ {<<dir[t][PDE(p)].to, PTE(p)>>}}
Free(t, p) == {k \in 0 .. Generations - 1 : FrameOf(t, p, k) \notin Elsewhere(t, p)}
frame_alloc(t, pages) ==
  [p \in pages |-> FrameOf(t, p, CHOOSE k \in Free(t, p) : \A j \in Free(t, p) : k <= j)]

\* pg_write_entry for every page of a set; entry[p] is what is written.  A
\* missing table is allocated with base_flags.
pg_write_entry(t, entry) ==
  LET pages == DOMAIN entry
      newdir == [d \in Pde |->
        IF dir[t][d] = Nil /\ \E p \in pages : PDE(p) = d
        THEN Entry(TblOf(t, d), base_flags) ELSE dir[t][d]]
  IN  /\ dir' = [dir EXCEPT ![t] = newdir]
      /\ tbl' = [x \in Tbl |-> [i \in Pte |->
           IF \E p \in pages : newdir[PDE(p)].to = x /\ PTE(p) = i
           THEN entry[CHOOSE p \in pages : newdir[PDE(p)].to = x /\ PTE(p) = i]
           ELSE tbl[x][i]]]

\* pg_alloc for every page of a set, in t's directory.
pg_alloc(t, pages) ==
  LET frame == frame_alloc(t, pages) IN
  /\ \A p \in pages : Free(t, p) # {}
  /\ pg_write_entry(t, [p \in pages |-> Entry(frame[p], base_flags)])
  /\ data' = [f \in Frame |-> IF \E p \in pages : f = frame[p] THEN 0 ELSE data[f]]

\* pg_unmap for every page of a set.  (What the frames held does not matter.)
pg_unmap(t, pages) ==
  /\ pg_write_entry(t, [p \in pages |-> Nil])
  /\ data' = [f \in Frame |-> IF \E p \in pages : f = Lookup(t, p).to THEN 0 ELSE data[f]]

\* The pages pg_alloc_range visits: it steps by PAGE_SIZE from start, which need
\* not be aligned, while below end + PAGE_SIZE.
Steps(start, end) ==
  {PageOf(a) : a \in {b \in start .. end + PAGE_SIZE - 1 : (b - start) % PAGE_SIZE = 0}}

\* Mutant: growing starts behind the page of the old break.
task_brk_Behind(t, b) ==
  \/ /\ b > brk[t]
     /\ pg_alloc(t, {p \in Steps(brk[t] + PAGE_SIZE, b) : ~pg_is_allocated(t, p)})
  \/ /\ b < brk[t]
     /\ pg_unmap(t, PageOf(b) .. PageOf(brk[t]) - 1)
  \/ /\ b = brk[t]
     /\ UNCHANGED space

\* task_brk: growing maps what is not mapped up to the page of the new break;
\* shrinking unmaps from the page of the new break up to the page of the old.
task_brk(t, b) ==
  \/ /\ b > brk[t]
     /\ pg_alloc(t, {p \in Steps(brk[t], b) : ~pg_is_allocated(t, p)})
  \/ /\ b < brk[t]
     /\ pg_unmap(t, PageOf(b) .. PageOf(brk[t]) - 1)
  \/ /\ b = brk[t]
     /\ UNCHANGED space

-----------------------------------------------------------------------------
(* System calls of the running task *)

Calling == ~panic /\ fault = NULL /\ ~heap

\* A program runs from its execve on; before, the clone of kmain runs kernel code.
InProgram == Calling /\ running # KERNEL_PID /\ brk[running] < KZERO

\* (brk(0) only returns the break.)
sys_brk(b) ==
  /\ InProgram
  /\ task_brk(running, b)
  /\ brk' = [brk EXCEPT ![running] = b]
  /\ UNCHANGED <<tasks, mmapbrk, running, heap, UserTask, fault, panic, trimmed>>

\* The pages sys_mmap_pgoff maps for an anonymous mapping, and the next mmapbrk.
MmapPages(length) ==
  Steps(mmapbrk[running], mmapbrk[running] + length + PAGE_SIZE)
MmapEnd(length) == mmapbrk[running] + length + PAGE_SIZE

\* Bound: mappings stay below the program.
MmapFits(length) == \A p \in MmapPages(length) : p < PageOf(Segment[1])

sys_mmap(length) ==
  /\ InProgram /\ MmapFits(length)
  /\ pg_alloc(running, MmapPages(length))
  /\ mmapbrk' = [mmapbrk EXCEPT ![running] = MmapEnd(length)]
  /\ UNCHANGED <<tasks, brk, running, heap, UserTask, fault, panic, trimmed>>

\* What execve maps: memory for the file, the segment (the bound: one), page 0.
elf_read == MmapPages(ElfLength)
elf_load == Steps(Segment[1], Segment[2])
arch_exec == {0}

\* sys_execve sets the break behind the segment.  Nothing looks at what is mapped
\* already.  (A file that is missing or no executable is a panic in elf_read.)
sys_execve ==
  /\ Calling /\ running # KERNEL_PID /\ MmapFits(ElfLength)
  /\ pg_alloc(running, elf_read \union elf_load \union arch_exec)
  /\ mmapbrk' = [mmapbrk EXCEPT ![running] = MmapEnd(ElfLength)]
  /\ brk' = [brk EXCEPT ![running] = Segment[2]]
  /\ UNCHANGED <<tasks, running, heap, UserTask, fault, panic, trimmed>>

\* Slots of the running task's directory whose table fork does not share.
Own == {d \in Pde : dir[running][d] # Nil /\ ~dir[running][d].link}

\* Mutant: pg_clone_page keeps the frame of every page.
pg_clone_dir_Share(c) ==
  /\ dir' = [dir EXCEPT ![c] = [d \in Pde |->
       IF d \in Own THEN Entry(TblOf(c, d), FALSE) ELSE dir[running][d]]]
  /\ tbl' = [x \in Tbl |-> [i \in Pte |->
       IF x[1] = c /\ x[2] \in Own THEN Lookup(running, x[2] * ENTRIES + i) ELSE tbl[x][i]]]
  /\ UNCHANGED data

\* pg_clone_dir of the running task's directory: linked tables and linked pages
\* are shared, the others get a table or a frame of their own with a copy.
pg_clone_dir(c) ==
  LET copied == {p \in Pages : PDE(p) \in Own /\ Lookup(running, p) # Nil
                                /\ ~Lookup(running, p).link}
      frame == frame_alloc(c, copied)
      clone(p) == IF p \in copied THEN Entry(frame[p], FALSE) ELSE Lookup(running, p)
  IN  /\ \A p \in copied : Free(c, p) # {}
      /\ dir' = [dir EXCEPT ![c] = [d \in Pde |->
           IF d \in Own THEN Entry(TblOf(c, d), FALSE) ELSE dir[running][d]]]
      /\ tbl' = [x \in Tbl |-> [i \in Pte |->
           IF x[1] = c /\ x[2] \in Own THEN clone(x[2] * ENTRIES + i) ELSE tbl[x][i]]]
      /\ data' = [f \in Frame |->
           IF \E p \in copied : f = frame[p]
           THEN data[Lookup(running, CHOOSE p \in copied : f = frame[p]).to]
           ELSE data[f]]

\* sys_fork after the malloc calls of task_clone (see enter_kernel).
sys_fork(c) ==
  /\ Calling /\ c \notin tasks /\ \A t \in Task \ tasks : c <= t
  /\ pg_clone_dir(c)
  /\ tasks' = tasks \union {c}
  /\ brk' = [brk EXCEPT ![c] = brk[running]]
  /\ mmapbrk' = [mmapbrk EXCEPT ![c] = mmapbrk[running]]
  /\ UNCHANGED <<running, heap, UserTask, fault, panic, trimmed>>

\* task_enter loads CR3.  Nobody enters KernelTask to do anything but spin.
Switch(t) ==
  /\ Calling /\ t \in tasks \ {running, KERNEL_PID}
  /\ running' = t
  /\ UNCHANGED <<tasks, space, brk, mmapbrk, heap, UserTask, fault, panic, trimmed>>

-----------------------------------------------------------------------------
(* The kernel's heap *)

\* __wrap_malloc and __wrap_free: CurrentTask becomes KernelTask, CR3 stays.
enter_kernel ==
  /\ Calling /\ running # KERNEL_PID
  /\ heap' = TRUE /\ UserTask' = running
  /\ UNCHANGED <<tasks, space, brk, mmapbrk, running, fault, panic, trimmed>>

leave_kernel ==
  /\ ~panic /\ fault = NULL /\ heap
  /\ heap' = FALSE
  /\ UNCHANGED <<tasks, space, brk, mmapbrk, running, UserTask, fault, panic, trimmed>>

\* The C library's malloc and free move the kernel's break.  KernelTask itself
\* does so only before its fork; then it spins.
KernelBrk(b) ==
  /\ ~panic /\ fault = NULL /\ CurrentTask = KERNEL_PID
  /\ heap \/ tasks = {KERNEL_PID}
  /\ task_brk(KERNEL_PID, b)
  /\ brk' = [brk EXCEPT ![KERNEL_PID] = b]
  /\ trimmed' = trimmed \union PageOf(b) .. PageOf(brk[KERNEL_PID]) - 1
  /\ UNCHANGED <<tasks, mmapbrk, running, heap, UserTask, fault, panic>>

-----------------------------------------------------------------------------
(* Memory accesses and page faults *)

IsKernel(page) == page >= PageOf(KZERO)     \* pg_is_kernel

\* The program writes to one of its pages.
Write(page) ==
  /\ InProgram /\ page \in WritePages /\ pg_is_allocated(running, page)
  /\ data' = [data EXCEPT ![Lookup(running, page).to] = 1]
  /\ UNCHANGED <<tasks, dir, tbl, brk, mmapbrk, running, heap,
                 UserTask, fault, panic, trimmed>>

\* The kernel accesses its heap, or a program any address below KZERO, through a
\* directory that does not map it.
Fault(page) ==
  /\ ~panic /\ fault = NULL /\ ~pg_is_allocated(running, page)
  /\ \/ IsKernel(page) /\ pg_is_allocated(KERNEL_PID, page)
     \/ ~IsKernel(page) /\ InProgram
  /\ fault' = page
  /\ UNCHANGED <<tasks, space, brk, mmapbrk, running, heap, UserTask, panic, trimmed>>

\* Mutant: the mapping goes into the directory of CurrentTask.
pg_fault_handler_Current ==
  /\ ~panic /\ fault # NULL /\ UserTask # NULL /\ IsKernel(fault)
  /\ pg_write_entry(CurrentTask, [p \in {fault} |-> Lookup(KERNEL_PID, p)])
  /\ fault' = IF dir'[running][PDE(fault)] # Nil
                  /\ tbl'[dir'[running][PDE(fault)].to][PTE(fault)] # Nil
               THEN NULL ELSE fault
  /\ UNCHANGED <<tasks, data, brk, mmapbrk, running, heap, UserTask, panic, trimmed>>

\* pg_fault_handler copies the kernel's mapping into the directory of UserTask,
\* the last task that entered the heap, and returns; the access is tried again.
pg_fault_handler ==
  /\ ~panic /\ fault # NULL /\ UserTask # NULL /\ IsKernel(fault)
  /\ pg_write_entry(UserTask, [p \in {fault} |-> Lookup(KERNEL_PID, p)])
  /\ fault' = IF dir'[running][PDE(fault)] # Nil
                  /\ tbl'[dir'[running][PDE(fault)].to][PTE(fault)] # Nil
               THEN NULL ELSE fault
  /\ UNCHANGED <<tasks, data, brk, mmapbrk, running, heap, UserTask, panic, trimmed>>

\* "Page fault on unreserved page".
pg_fault_panic ==
  /\ ~panic /\ fault # NULL /\ (UserTask = NULL \/ ~IsKernel(fault))
  /\ panic' = TRUE
  /\ UNCHANGED <<tasks, space, brk, mmapbrk, running, heap, UserTask, fault, trimmed>>

Next ==
  \/ \E b \in Breaks : sys_brk(b)
  \/ \E length \in Lengths : sys_mmap(length)
  \/ sys_execve
  \/ \E c \in Task : sys_fork(c)
  \/ \E t \in Task : Switch(t)
  \/ enter_kernel
  \/ leave_kernel
  \/ \E b \in KernelBreaks : KernelBrk(b)
  \/ \E page \in WritePages : Write(page)
  \/ \E page \in Pages : Fault(page)
  \/ pg_fault_handler
  \/ pg_fault_panic

Spec == Init /\ [][Next]_vars

\* The CPU runs the fault handler.
FairSpec == Spec /\ WF_vars(pg_fault_handler)

-----------------------------------------------------------------------------

UserPages == {p \in Pages : ~IsKernel(p)}

\* No frame of user memory is mapped by two tasks, or by one task twice.
UserMemoryPrivate ==
  \A t, u \in tasks, p, q \in UserPages :
    Lookup(t, p) # Nil /\ Lookup(t, p).to = Lookup(u, q).to => t = u /\ p = q

\* What a program sees of its memory.
View(t) ==
  [p \in UserPages |-> IF Lookup(t, p) = Nil THEN NULL ELSE data[Lookup(t, p).to]]

\* Whatever a task does, no other task's memory changes, and a clone starts with
\* its parent's memory as it was at the fork.
StepIsIsolated ==
  \A t \in tasks' \ {running} :
    View(t)' = IF t \in tasks THEN View(t) ELSE View(running)
Isolation == [][StepIsIsolated]_vars

\* Every directory that maps a page of the kernel's heap maps it to the frame
\* KernelTask uses, however tables were shared, copied and filled by faults.  Only
\* pages that free gave back and malloc took again may differ: pg_unmap clears the
\* entries of KernelTask's directory, and those of tables others own stay.
HeapIsShared ==
  \A t \in tasks, p \in Pages \ trimmed :
    IsKernel(p) /\ Lookup(t, p) # Nil => Lookup(t, p) = Lookup(KERNEL_PID, p)

\* A fault taken inside malloc or free is resolved.  (One taken later, while
\* UserTask is another task, is not: the handler fills that task's directory.)
HeapFaultEnds == heap /\ fault # NULL ~> fault = NULL

\* unistd.h says of brk: "Set the end of accessible data space (aka "the break")
\* to ADDR."  So the memory from the start of a program to its break is mapped,
\* through any sequence of brk, fork and execve.  This holds for breaks on page
\* boundaries; lowering it into the middle of a page unmaps that page.
BreakEndsAccessible ==
  \A t \in tasks : brk[t] < KZERO =>
    \A a \in Segment[1] .. brk[t] - 1 : pg_is_allocated(t, PageOf(a))
=============================================================================
