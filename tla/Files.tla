------------------------------- MODULE Files --------------------------------
(***************************************************************************)
(* Descriptor tables (kernel/io/fdio.c), the system calls on them          *)
(* (kernel/syscall/fdio.c), their copy by fork (task_clone in              *)
(* kernel/proc/task.c) and the files of the initrd (kernel/fs/cpiofs.c).   *)
(*                                                                         *)
(* System calls run with interrupts off, so each is one action; the tasks  *)
(* take them in any order.  A task that exits closes nothing: it is one    *)
(* that makes no more calls.  The first access to memory that is not the   *)
(* object's own is recorded in overrun, by its kind, and what the machine  *)
(* does after it is not followed:                                          *)
(*   "freed"  a call follows a pointer to a freed descriptor;              *)
(*   "file"   a read copies more than was asked for or outside the file;   *)
(*   "alloc"  fd_open stores its descriptor behind the table;              *)
(*   "dup"    F_DUPFD stores its descriptor behind the table.              *)
(* Reads of the console are in Console.  Calls that jump through a null    *)
(* pointer (opening a directory, seeking on the console, writing to a file *)
(* of the initrd) are left out, and so are calls on a descriptor that is a *)
(* number outside the table.                                               *)
(***************************************************************************)
EXTENDS Vfs

CONSTANTS
  MaxPid,          \* bound on the tasks
  Stdio,           \* times console_init opens the console, 3 in the code
  FirstCap,        \* size of the first table, 16 in the code
  MaxCap,          \* bound on the size of a table
  Overread,        \* bound: words behind a full table that are not zero
                   \* (what lies there is not the table's; any number may be)
  Descr,           \* the memory descriptors are allocated from
  MaxDups,         \* bound on the calls with F_DUPFD
  MaxOpens,        \* bound on the calls of open
  Opened,          \* bound: the files that are opened
  Duplicates,      \* the numbers F_DUPFD is asked to search from
  Length,          \* length of every file
  Counts,          \* the counts passed to read
  Offsets,         \* the offsets passed to lseek
  SIZE             \* numbers a size_t holds, 2^32 in the code

Task == 0 .. MaxPid
Fd == 0 .. MaxCap - 1

ASSUME FilesAssumption ==
  /\ {MaxPid, MaxCap, Overread, SIZE, MaxDups, MaxOpens} \subseteq Nat
  /\ Length \in [Files -> 0 .. SIZE \div 2 - 1]
  /\ Stdio \in 1 .. FirstCap /\ FirstCap \in 2 .. MaxCap
  /\ IsFiniteSet(Descr) /\ Cardinality(Descr) >= Stdio /\ NULL \notin Descr
  /\ Opened \subseteq Files /\ Duplicates \subseteq Nat
  /\ Counts \subseteq 0 .. SIZE - 1 /\ Offsets \subseteq -(SIZE \div 2) .. SIZE \div 2 - 1

VARIABLES
  tasks,
  fdtbl, fdcap, fdnext,    \* per task
  descr,                   \* [Descr -> [dev, refs]]; refs is 0 when freed
  pos,                     \* per file: the device's position
  overrun,
  overread,     \* history: fd_alloc met as many nonzero words behind a full table
                \* as the table has slots
  uncounted,    \* history: descriptors in a table slot that refs does not count
  outside,      \* history: files whose position a seek put outside the file
  wrapped,      \* history: a read's end, position plus count, was not a size_t
  dups, opens   \* the calls with F_DUPFD and of open

tables == <<fdtbl, fdcap, fdnext>>
vars == <<vfs, tasks, tables, descr, pos, overrun, overread, uncounted, outside, wrapped, dups,
          opens>>

\* fdio_tbl_init; a clone's table is made by task_clone.
Init ==
  /\ VfsInit
  /\ tasks = {0}
  /\ fdtbl = [t \in Task |-> [fd \in Fd |-> NULL]]
  /\ fdcap = [t \in Task |-> FirstCap]
  /\ fdnext = [t \in Task |-> 0]
  /\ descr = [d \in Descr |-> [dev |-> NULL, refs |-> 0]]
  /\ pos = [f \in Files |-> 0]
  /\ overrun = "none" /\ overread = FALSE
  /\ uncounted = {} /\ outside = {} /\ wrapped = FALSE
  /\ dups = 0 /\ opens = 0

Holders(d) == {h \in tasks \X Fd : fdtbl[h[1]][h[2]] = d}

Boot ==
  /\ VfsNext
  /\ UNCHANGED <<tasks, tables, descr, pos, overrun, overread, uncounted, outside, wrapped, dups, opens>>

\* console_init opens the console for the first descriptors.
console_init ==
  /\ boot = "console_init"
  /\ \E std \in [0 .. Stdio - 1 -> Descr] :
       /\ IsInjective(std)
       /\ fdtbl' = [fdtbl EXCEPT ![0] =
            [fd \in Fd |-> IF fd < Stdio THEN std[fd] ELSE NULL]]
       /\ descr' = [d \in Descr |->
            IF d \in Range(std) THEN [dev |-> TTY, refs |-> 1] ELSE descr[d]]
  /\ fdnext' = [fdnext EXCEPT ![0] = Stdio - 1]
  /\ boot' = "run"
  /\ UNCHANGED <<first_child, next_sibling, linked, tasks, fdcap, pos, overrun,
                 overread, uncounted, outside, wrapped, dups, opens>>

Running(t) == boot = "run" /\ overrun = "none" /\ t \in tasks

\* Slot fd of t is used and its descriptor is allocated.
Valid(t, fd) == fdtbl[t][fd] # NULL /\ descr[fdtbl[t][fd]].refs # 0

-----------------------------------------------------------------------------
(* Descriptors *)

\* Mutant: the table grows one descriptor too late.
fd_alloc_Late(t, fd) ==
  LET free == {i \in Fd : i >= fdnext[t] /\ i <= fdcap[t] /\ fdtbl[t][i] = NULL} IN
  /\ \/ /\ free # {} /\ fd = Min(free)
        /\ UNCHANGED <<fdcap, overread>>
     \/ /\ free = {} /\ 2 * fdcap[t] <= MaxCap
        /\ fd \in fdcap[t] + 1 .. fdcap[t] + Overread
        /\ fdcap' = [fdcap EXCEPT ![t] = 2 * @]
        /\ overread' = (overread \/ fd - fdcap[t] >= fdcap[t])
  /\ fdnext' = [fdnext EXCEPT ![t] = fd]

\* fd_alloc: the first free slot from fdnext on.  When there is none, the loop
\* reads on behind the table until it meets a zero, and the table doubles, once.
fd_alloc(t, fd) ==
  LET free == {i \in Fd : i >= fdnext[t] /\ i < fdcap[t] /\ fdtbl[t][i] = NULL} IN
  /\ \/ /\ free # {} /\ fd = Min(free)
        /\ UNCHANGED <<fdcap, overread>>
     \/ /\ free = {} /\ 2 * fdcap[t] <= MaxCap
        /\ fd \in fdcap[t] .. fdcap[t] + Overread
        /\ fdcap' = [fdcap EXCEPT ![t] = 2 * @]
        /\ overread' = (overread \/ fd - fdcap[t] >= fdcap[t])
  /\ fdnext' = [fdnext EXCEPT ![t] = fd]

\* fd_open: malloc returns memory that is not allocated, also when a slot still
\* points to the descriptor it once was: refs is 1 then with two or more holders.
fd_open(t, dev) ==
  \E fd \in 0 .. MaxCap + Overread :
    /\ fd_alloc(t, fd)
    /\ \/ /\ fd < fdcap'[t]
          /\ \E d \in {x \in Descr : descr[x].refs = 0} :
               /\ fdtbl' = [fdtbl EXCEPT ![t][fd] = d]
               /\ descr' = [descr EXCEPT ![d] = [dev |-> dev, refs |-> 1]]
               /\ uncounted' = IF Holders(d) = {} THEN uncounted \ {d} ELSE uncounted
          /\ UNCHANGED overrun
       \/ /\ fd >= fdcap'[t]
          /\ overrun' = "alloc"
          /\ UNCHANGED <<fdtbl, descr, uncounted>>

\* sys_open of a path that fs_locate finds (otherwise it returns -1).
sys_open(t, path) ==
  /\ Running(t) /\ fs_locate(path) # NULL
  /\ opens < MaxOpens /\ opens' = opens + 1
  /\ fd_open(t, fs_locate(path))
  /\ UNCHANGED <<vfs, tasks, pos, outside, wrapped, dups>>

\* Mutant: the freed slot is where the next search starts.
fd_close_Lower(t, fd) ==
  /\ descr' = [descr EXCEPT ![fdtbl[t][fd]].refs = @ - 1]
  /\ fdtbl' = [fdtbl EXCEPT ![t][fd] = NULL]
  /\ fdnext' = [fdnext EXCEPT ![t] = IF fd < @ THEN fd ELSE @]
  /\ UNCHANGED fdcap

\* Mutant: the slot is not cleared.
fd_close_Keep(t, fd) ==
  /\ descr' = [descr EXCEPT ![fdtbl[t][fd]].refs = @ - 1]
  /\ UNCHANGED tables

\* fd_close; a descriptor whose refs become 0 is freed.
fd_close(t, fd) ==
  /\ descr' = [descr EXCEPT ![fdtbl[t][fd]].refs = @ - 1]
  /\ fdtbl' = [fdtbl EXCEPT ![t][fd] = NULL]
  /\ UNCHANGED <<fdcap, fdnext>>

\* sys_close; the devices' own close does nothing.
sys_close(t, fd) ==
  /\ Running(t) /\ Valid(t, fd)
  /\ fd_close(t, fd)
  /\ UNCHANGED <<vfs, tasks, pos, overrun, overread, uncounted, outside, wrapped, dups,
                 opens>>

\* Any call, fork included, that follows the pointer in a slot whose descriptor
\* was freed.
UseFreed(t, fd) ==
  /\ Running(t) /\ fdtbl[t][fd] # NULL /\ ~Valid(t, fd)
  /\ overrun' = "freed"
  /\ UNCHANGED <<vfs, tasks, tables, descr, pos, overread, uncounted, outside, wrapped, dups, opens>>

\* sys_fcntl with F_DUPFD: the loop of fd_dupfd does not stop at the end of the
\* table, so without a free slot from to on the store is behind it.
fd_dupfd(t, from, to) ==
  LET free == {i \in Fd : i >= to /\ i < fdcap[t] /\ fdtbl[t][i] = NULL} IN
  /\ Running(t) /\ fdtbl[t][from] # NULL
  /\ dups < MaxDups /\ dups' = dups + 1
  /\ \/ /\ free # {}
        /\ fdtbl' = [fdtbl EXCEPT ![t][Min(free)] = fdtbl[t][from]]
        /\ uncounted' = uncounted \union {fdtbl[t][from]}
        /\ UNCHANGED overrun
     \/ /\ free = {}
        /\ overrun' = "dup"
        /\ UNCHANGED <<fdtbl, uncounted>>
  /\ UNCHANGED <<vfs, tasks, fdcap, fdnext, descr, pos, overread, outside, wrapped, opens>>

\* Mutant: the clone shares descriptors without counting.
task_clone_NoRefs(t, c) ==
  /\ Running(t) /\ c \notin tasks
  /\ \A fd \in Fd : fd < fdnext[t] /\ fdtbl[t][fd] # NULL => Valid(t, fd)
  /\ tasks' = tasks \union {c}
  /\ fdtbl' = [fdtbl EXCEPT ![c] = fdtbl[t]]
  /\ fdcap' = [fdcap EXCEPT ![c] = fdcap[t]]
  /\ fdnext' = [fdnext EXCEPT ![c] = fdnext[t]]
  /\ uncounted' = uncounted \union
       {fdtbl[t][fd] : fd \in {i \in Fd : i >= fdnext[t] /\ fdtbl[t][i] # NULL}}
  /\ UNCHANGED <<vfs, descr, pos, overrun, overread, outside, wrapped, dups, opens>>

\* task_clone: the copy counts the descriptors in the slots below fdnext.
task_clone(t, c) ==
  /\ Running(t) /\ c \notin tasks
  /\ \A fd \in Fd : fd < fdnext[t] /\ fdtbl[t][fd] # NULL => Valid(t, fd)
  /\ tasks' = tasks \union {c}
  /\ fdtbl' = [fdtbl EXCEPT ![c] = fdtbl[t]]
  /\ fdcap' = [fdcap EXCEPT ![c] = fdcap[t]]
  /\ fdnext' = [fdnext EXCEPT ![c] = fdnext[t]]
  /\ descr' = [d \in Descr |-> [descr[d] EXCEPT !.refs =
       @ + Cardinality({fd \in Fd : fd < fdnext[t] /\ fdtbl[t][fd] = d})]]
  /\ uncounted' = uncounted \union
       {fdtbl[t][fd] : fd \in {i \in Fd : i >= fdnext[t] /\ fdtbl[t][i] # NULL}}
  /\ UNCHANGED <<vfs, pos, overrun, overread, outside, wrapped, dups, opens>>

-----------------------------------------------------------------------------
(* Files of the initrd *)

\* Mutant: a read is not cut at the end of the file.
cpiofs_read_file_Uncut(f, nbyte) == nbyte

\* cpiofs_read_file: the number of bytes it copies and moves the position by.
cpiofs_read_file(f, nbyte) ==
  IF (pos[f] + nbyte) % SIZE > Length[f] THEN (Length[f] - pos[f]) % SIZE ELSE nbyte

\* An off_t is signed.
Signed(n) == IF n % SIZE < SIZE \div 2 THEN n % SIZE ELSE (n % SIZE) - SIZE

sys_read(t, fd, nbyte) ==
  LET f == descr[fdtbl[t][fd]].dev
      n == cpiofs_read_file(f, nbyte)
  IN  /\ Running(t) /\ Valid(t, fd) /\ f \in Files
      /\ pos' = [pos EXCEPT ![f] = Signed(@ + n)]
      /\ overrun' = IF n > nbyte \/ ~ (pos[f] >= 0 /\ pos[f] + n <= Length[f])
                    THEN "file" ELSE overrun
      /\ wrapped' = (wrapped \/ pos[f] + nbyte >= SIZE)
      /\ UNCHANGED <<vfs, tasks, tables, descr, overread, uncounted, outside, dups, opens>>

\* cpiofs_seek_file for SEEK_SET, SEEK_CUR and SEEK_END.
cpiofs_seek_file(f, offset) == {offset, pos[f] + offset, Length[f] - offset}

\* (Bound: a file is not sought any more once its position is outside.)
sys_lseek(t, fd, offset) ==
  LET f == descr[fdtbl[t][fd]].dev IN
  /\ Running(t) /\ Valid(t, fd) /\ f \in Files \ outside
  /\ \E p \in cpiofs_seek_file(f, offset) :
       /\ pos' = [pos EXCEPT ![f] = Signed(p)]
       /\ outside' = IF p \in 0 .. Length[f] THEN outside ELSE outside \union {f}
  /\ UNCHANGED <<vfs, tasks, tables, descr, overrun, overread, uncounted, wrapped, dups,
                 opens>>

Paths == {<<DEV, TTY>>} \union {<<INITRD, f>> : f \in Opened}

Next ==
  \/ Boot
  \/ console_init
  \/ \E t \in Task :
       \/ \E path \in Paths : sys_open(t, path)
       \/ \E c \in Task : task_clone(t, c)
       \/ \E fd \in Fd :
            \/ sys_close(t, fd)
            \/ UseFreed(t, fd)
            \/ \E to \in Duplicates : fd_dupfd(t, fd, to)
            \/ \E n \in Counts : sys_read(t, fd, n)
            \/ \E offset \in Offsets : sys_lseek(t, fd, offset)

Spec == Init /\ [][Next]_vars

-----------------------------------------------------------------------------

\* refs is the number of slots, of all tasks, that hold the descriptor, unless
\* the descriptor was duplicated, was in a slot from fdnext on when its task
\* forked, or was allocated from freed memory that such a descriptor's slots
\* still point to: so no other descriptor is freed while a task can use it, and
\* each is freed by the last close.
RefsCountHolders ==
  \A d \in Descr \ uncounted : descr[d].refs = Cardinality(Holders(d))

\* Only F_DUPFD fills a slot above fdnext: without it, fork misses one
\* descriptor at most, the last one opened.
NothingAboveNext ==
  \A t \in tasks, fd \in Fd :
    fdtbl[t][fd] # NULL /\ fd > fdnext[t] => fdtbl[t][fd] \in uncounted

\* fork copies the whole of a table, also of one that grew.  open stores behind a
\* table only when the words behind a full one were not zero for as many words as
\* it has slots: doubling it once makes room for any shorter over-read.  (That
\* F_DUPFD stores behind a table needs no such accident.)
SlotsInTable ==
  /\ \A t \in tasks, fd \in Fd : fdtbl[t][fd] # NULL => fd < fdcap[t]
  /\ overrun = "alloc" => overread

\* The position of a file stays inside the file through all reads and seeks of
\* all tasks, as long as no seek leaves it.
PosInFile == \A f \in Files \ outside : pos[f] \in 0 .. Length[f]

\* A freed descriptor is used only after a descriptor was shared without being
\* counted, and a read copies memory outside the file only after a seek left its
\* file or a read asked for so much that position plus count wraps around.
OverrunHasCause ==
  /\ overrun = "freed" => uncounted # {}
  /\ overrun = "file" => outside # {} \/ wrapped
=============================================================================
