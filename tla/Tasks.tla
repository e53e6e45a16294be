------------------------------- MODULE Tasks -------------------------------
(***************************************************************************)
(* The task ring, the round-robin scheduler, fork, exit and the SIGCHLD    *)
(* based wait of the ak kernel: kernel/list.c, kernel/proc/{task,sched}.c, *)
(* kernel/syscall/{proc,signal}.c, arch/x86/proc/task.c and the part of    *)
(* kmain that becomes the kernel task.                                     *)
(*                                                                         *)
(* One CPU.  A system call enters through an interrupt gate, so it runs    *)
(* with interrupts off and is one action, except where it gives up the     *)
(* CPU: kern_sched_yield.  Its do-while loop is modelled one iteration per *)
(* step; while it runs (next_task # NULL, interrupts off) nothing else     *)
(* can.                                                                    *)
(*                                                                         *)
(* A SIGCHLD handler is called by task_signal_exec, at the end of the      *)
(* kern_sched_yield through which its task gets the CPU back, with         *)
(* interrupts off: it may find its task anywhere, inside wait4 too, and is *)
(* program code that may make every call a program makes.                  *)
(***************************************************************************)
EXTENDS Integers, FiniteSets, Sequences

CONSTANTS MaxPid,     \* bound on pids: fork is not called once next_pid > MaxPid
          ExitCodes   \* the values passed to sys_exit

ASSUME MaxPidAssumption == MaxPid \in Nat \ {0}
ASSUME ExitCodesAssumption == ExitCodes \subseteq Int

KERNEL_PID == 0
Pid == 0 .. MaxPid
NULL == -1            \* a null list pointer / a null task_t *

NoSig == 0
SIGTERM == 15
SIGCHLD == 17

VARIABLES
  next_pid,      \* static next_pid of task.c
  next, prev,    \* task_t.list.next / .prev
  state,         \* task_t.state
  ppid, childcount, exitcode,
  sigpend, sigwait, sigchldpid, sigchldexit,
  context,       \* which call saved task_t.arch: it is where the task resumes
  CurrentTask,
  next_task,     \* the cursor of kern_sched_yield, NULL outside it
  handlers,      \* the tasks with a handler in sigact[SIGCHLD]
  pc,            \* what the program of the task is executing
  calls          \* what its running handlers interrupted, the latest last

links   == <<next, prev>>
family  == <<next_pid, ppid, childcount, exitcode>>
signals == <<sigpend, sigwait, sigchldpid, sigchldexit>>
program == <<handlers, pc, calls>>
vars    == <<next_pid, next, prev, state, ppid, childcount, exitcode,
             sigpend, sigwait, sigchldpid, sigchldexit,
             context, CurrentTask, next_task, handlers, pc, calls>>

\* calloc leaves TaskInit (0) in a task_t that is not yet filled in.
TaskStates == {"TaskInit", "TaskReady", "TaskSigWait", "TaskQuit"}

\* "kmain": the kernel task before its fork; "spin": its while (1) after it.
\* "wait4" / "wait4_nohang": inside sys_wait4, past task_sigwait's yield;
\* "wait4_copy": the same, in a call the task did not make itself: a handler
\* running inside it forked, and the clone has a copy of its stack.
\* "exit": the while (1) of sys_exit.
PCs == {"kmain", "spin", "user", "handler", "wait4", "wait4_nohang",
        "wait4_copy", "sigsuspend", "exit"}

Init ==
  /\ next_pid = KERNEL_PID + 1
  /\ next  = [p \in Pid |-> IF p = KERNEL_PID THEN KERNEL_PID ELSE NULL]
  /\ prev  = [p \in Pid |-> IF p = KERNEL_PID THEN KERNEL_PID ELSE NULL]
  /\ state = [p \in Pid |-> IF p = KERNEL_PID THEN "TaskReady" ELSE "TaskInit"]
  /\ ppid       = [p \in Pid |-> KERNEL_PID]
  /\ childcount = [p \in Pid |-> 0]
  /\ exitcode   = [p \in Pid |-> 0]
  /\ sigpend    = [p \in Pid |-> NoSig]
  /\ sigwait    = [p \in Pid |-> NoSig]
  /\ sigchldpid  = [p \in Pid |-> 0]
  /\ sigchldexit = [p \in Pid |-> 0]
  /\ context = [p \in Pid |-> "store"]
  /\ CurrentTask = KERNEL_PID
  /\ next_task = NULL
  /\ handlers = {}
  /\ pc = [p \in Pid |-> IF p = KERNEL_PID THEN "kmain" ELSE "user"]
  /\ calls = [p \in Pid |-> <<>>]

-----------------------------------------------------------------------------
(* kernel/list.c *)

\* Mutant: the element becomes a ring of its own, as sched_init makes KernelTask.
list_insert_after_Alone(after, elem) ==
  /\ next' = [next EXCEPT ![elem] = elem]
  /\ prev' = [prev EXCEPT ![elem] = elem]

list_insert_after(after, elem) ==
  IF next[after] = NULL /\ prev[after] = NULL
  THEN /\ next' = [next EXCEPT ![after] = elem, ![elem] = after]
       /\ prev' = [prev EXCEPT ![after] = elem, ![elem] = after]
  ELSE /\ next' = [next EXCEPT ![after] = elem, ![elem] = next[after]]
       /\ prev' = [prev EXCEPT ![next[after]] = elem, ![elem] = after]

\* list_remove clears both pointers of the element before it bridges the gap.
list_remove_next(elem) == [next EXCEPT ![elem] = NULL, ![prev[elem]] = next[elem]]

\* Mutant: next->prev is not bridged.
list_remove_prev_NoBridge(elem) == [prev EXCEPT ![elem] = NULL]
list_remove_prev(elem) == [prev EXCEPT ![elem] = NULL, ![next[elem]] = prev[elem]]

-----------------------------------------------------------------------------
(* kernel/proc/task.c *)

\* The tasks the do-while loop of task_get looks at, in order: it starts after
\* CurrentTask and stops when it is back at it.
Visited ==
  LET at[k \in 0 .. MaxPid] ==
        IF k = 0 THEN next[CurrentTask]
        ELSE IF at[k - 1] = CurrentTask THEN CurrentTask ELSE next[at[k - 1]]
  IN  {at[k] : k \in 0 .. MaxPid}

task_get(pid) == IF pid \in Visited THEN pid ELSE NULL

Running(p) == CurrentTask = p /\ next_task = NULL

\* The task on the CPU is in its program or in a handler of it.
InProgram(p) == Running(p) /\ pc[p] \in {"user", "handler"}

\* Where a system call returns to.
Caller(p) == IF calls[p] = <<>> THEN "user" ELSE "handler"

\* sys_wait4 after the yield, and in a call the task made itself.
OwnWait == {"wait4", "wait4_nohang"}
InWait4(p) == pc[p] \in OwnWait \union {"wait4_copy"}

\* task_signal_raise stores one signal number over whatever was pending.
\* Mutant: stores the task instead.
task_signal_raise_Task(pend, task, signum) == [pend EXCEPT ![task] = task]
task_signal_raise(pend, task, signum) == [pend EXCEPT ![task] = signum]

\* task_clone: the fields the kernel's task list, signals and waits read.
\* Mutant: the parent's childcount is not incremented.
task_clone_NoCount(clone) ==
  /\ next_pid' = clone + 1
  /\ sigpend' = [sigpend EXCEPT ![clone] = sigpend[CurrentTask]]
  /\ sigwait' = [sigwait EXCEPT ![clone] = sigwait[CurrentTask]]
  /\ state' = [state EXCEPT ![clone] = "TaskReady"]
  /\ ppid' = [ppid EXCEPT ![clone] = CurrentTask]
  /\ childcount' = [childcount EXCEPT ![clone] = 0]

task_clone(clone) ==
  /\ next_pid' = clone + 1
  /\ sigpend' = [sigpend EXCEPT ![clone] = sigpend[CurrentTask]]
  /\ sigwait' = [sigwait EXCEPT ![clone] = sigwait[CurrentTask]]
  /\ state' = [state EXCEPT ![clone] = "TaskReady"]
  /\ ppid' = [ppid EXCEPT ![clone] = CurrentTask]
  /\ childcount' = [childcount EXCEPT ![clone] = 0, ![CurrentTask] = @ + 1]

\* task_fork_context: the clone runs on a copy of the caller's stack.
copied(stack) ==
  [i \in 1 .. Len(stack) |-> IF stack[i] \in OwnWait THEN "wait4_copy" ELSE stack[i]]

\* sys_fork -> task_fork -> task_clone, task_insert, task_fork_context.
\* kmain forks once and then spins; every other task may fork again.
Fork ==
  LET self == CurrentTask  clone == next_pid IN
  /\ Running(self) /\ pc[self] \in {"kmain", "user", "handler"}
  /\ next_pid <= MaxPid
  /\ task_clone(clone)
  /\ list_insert_after(self, clone)
  /\ context' = [context EXCEPT ![clone] = "fork"]
  /\ pc' = [pc EXCEPT ![self] = IF @ = "kmain" THEN "spin" ELSE @, ![clone] = Caller(self)]
  /\ calls' = [calls EXCEPT ![clone] = copied(calls[self])]
  /\ handlers' = handlers \union {p \in {clone} : self \in handlers}
  /\ UNCHANGED <<exitcode, sigchldpid, sigchldexit, CurrentTask, next_task>>

\* task_exit: the task signals itself SIGTERM and, if it is still listed, its
\* parent SIGCHLD.  sys_exit then enables interrupts and spins: it returns to
\* none of its callers.
Exit(status) ==
  LET self == CurrentTask  parent == task_get(ppid[self])
      termed == task_signal_raise(sigpend, self, SIGTERM) IN
  /\ InProgram(self)
  /\ state' = [state EXCEPT ![self] = "TaskQuit"]
  /\ exitcode' = [exitcode EXCEPT ![self] = status]
  /\ pc' = [pc EXCEPT ![self] = "exit"]
  /\ calls' = [calls EXCEPT ![self] = <<>>]
  /\ IF parent = NULL
     THEN /\ sigpend' = termed
          /\ UNCHANGED <<sigchldpid, sigchldexit, childcount>>
     ELSE /\ sigchldpid' = [sigchldpid EXCEPT ![parent] = self]
          /\ sigchldexit' = [sigchldexit EXCEPT ![parent] = status]
          /\ sigpend' = task_signal_raise(termed, parent, SIGCHLD)
          /\ childcount' = [childcount EXCEPT ![parent] = @ - 1]
  /\ UNCHANGED <<next_pid, next, prev, ppid, sigwait, context, CurrentTask, next_task,
                 handlers>>

\* sys_signal, sys_rt_sigaction: the program sets its handler, or takes it away.
task_signal(set) ==
  /\ InProgram(CurrentTask)
  /\ handlers' = IF set THEN handlers \union {CurrentTask} ELSE handlers \ {CurrentTask}
  /\ UNCHANGED <<family, signals, links, state, context, CurrentTask, next_task, pc, calls>>

-----------------------------------------------------------------------------
(* kernel/proc/sched.c and task_enter *)

\* Waiting for a signal, and the pending one is the one it waits for.
\* Mutants: the test of sigpend != 0 is dropped; the test sigwait == 0 is.
Wakeable_Unsignalled(p) ==
  state[p] = "TaskSigWait" /\ sigpend[p] \in {NoSig, sigwait[p]}

Wakeable_SameOnly(p) ==
  state[p] = "TaskSigWait" /\ sigpend[p] # NoSig /\ sigpend[p] = sigwait[p]

Wakeable(p) ==
  /\ state[p] = "TaskSigWait" /\ sigpend[p] # NoSig
  /\ sigpend[p] = sigwait[p] \/ sigwait[p] = NoSig

\* The call hndl(signum) of task_signal_exec, before whatever p was doing goes on.
RunHandler(p) ==
  IF sigpend[p] # NoSig /\ p \in handlers
  THEN /\ calls' = [calls EXCEPT ![p] = Append(@, pc[p])]
       /\ pc' = [pc EXCEPT ![p] = "handler"]
  ELSE UNCHANGED <<calls, pc>>

\* Only SIGCHLD is ever pending here: a task that signalled itself SIGTERM is
\* never entered again.
\* Mutant: sigpend is not reset.
task_signal_exec_Keep(p) ==
  /\ sigwait' = [sigwait EXCEPT ![p] = IF @ = sigpend[p] THEN NoSig ELSE @]
  /\ UNCHANGED sigpend
  /\ RunHandler(p)

task_signal_exec(p) ==
  /\ sigwait' = [sigwait EXCEPT ![p] = IF @ = sigpend[p] THEN NoSig ELSE @]
  /\ sigpend' = [sigpend EXCEPT ![p] = NoSig]
  /\ RunHandler(p)

\* task_enter(p): the outgoing task's registers are saved by task_store_context;
\* p resumes either there, and then takes its pending signal, or in task_fork,
\* which does not.
task_enter(p) ==
  LET saved == [context EXCEPT ![CurrentTask] = "store"] IN
  /\ CurrentTask' = p
  /\ next_task' = NULL
  /\ context' = [saved EXCEPT ![p] = "store"]
  /\ IF saved[p] = "fork" THEN UNCHANGED <<sigpend, sigwait, pc, calls>>
     ELSE task_signal_exec(p)

\* One iteration of the loop of kern_sched_yield, in its three outcomes.
WalkUnlink ==
  LET n == next[next_task] IN
  /\ next_task # NULL
  /\ state[n] = "TaskQuit"
  /\ next' = [list_remove_next(n) EXCEPT ![n] = next[n]]
  /\ prev' = list_remove_prev(n)
  /\ next_task' = n
  /\ UNCHANGED <<family, signals, state, context, CurrentTask, program>>

\* Mutant: the cursor does not advance.
WalkPast_NoAdvance ==
  LET n == next[next_task] IN
  /\ next_task # NULL
  /\ state[n] \notin {"TaskQuit", "TaskReady"} /\ ~Wakeable(n)
  /\ UNCHANGED vars

WalkPast ==
  LET n == next[next_task] IN
  /\ next_task # NULL
  /\ state[n] \notin {"TaskQuit", "TaskReady"} /\ ~Wakeable(n)
  /\ next_task' = n
  /\ UNCHANGED <<family, signals, links, state, context, CurrentTask, program>>

WalkEnter ==
  LET n == next[next_task] IN
  /\ next_task # NULL
  /\ state[n] = "TaskReady" \/ Wakeable(n)
  /\ state' = [state EXCEPT ![n] = "TaskReady"]
  /\ task_enter(n)
  /\ UNCHANGED <<family, links, sigchldpid, sigchldexit, handlers>>

Walk == WalkUnlink \/ WalkPast \/ WalkEnter

-----------------------------------------------------------------------------
(* The ways into kern_sched_yield *)

\* The timer interrupt: sched_preempt.  Interrupts are on in every program, in
\* both spin loops, and between the sti that ends kern_sched_yield and the iret
\* back into task_sigwait; a handler runs with interrupts off.
\* Mutant: every time slice starts over at KernelTask.
Preempt_FromKernel ==
  /\ next_task = NULL /\ pc[CurrentTask] # "handler"
  /\ next_task' = KERNEL_PID
  /\ UNCHANGED <<family, signals, links, state, context, CurrentTask, program>>

Preempt ==
  /\ next_task = NULL /\ pc[CurrentTask] # "handler"
  /\ next_task' = CurrentTask
  /\ UNCHANGED <<family, signals, links, state, context, CurrentTask, program>>

\* sys_sched_yield: same effect as Preempt, but only a program calls it.
Yield ==
  /\ InProgram(CurrentTask)
  /\ next_task' = CurrentTask
  /\ UNCHANGED <<family, signals, links, state, context, CurrentTask, program>>

\* task_sigwait, called at program point `at` of a system call.
task_sigwait(at) ==
  /\ state' = [state EXCEPT ![CurrentTask] = "TaskSigWait"]
  /\ next_task' = CurrentTask
  /\ pc' = [pc EXCEPT ![CurrentTask] = at]
  /\ UNCHANGED <<family, links, sigpend, sigchldpid, sigchldexit, context, CurrentTask,
                 handlers, calls>>

\* sys_wait4 up to its yield.  The call that returns 0 at once changes nothing.
Wait4(nohang) ==
  /\ InProgram(CurrentTask)
  /\ ~(nohang /\ childcount[CurrentTask] = 0)
  /\ sigwait' = [sigwait EXCEPT ![CurrentTask] = SIGCHLD]
  /\ task_sigwait(IF nohang THEN "wait4_nohang" ELSE "wait4")

\* sys_wait4 after the yield: it reports sigchldpid and sigchldexit.
Wait4Return ==
  /\ Running(CurrentTask) /\ InWait4(CurrentTask)
  /\ pc' = [pc EXCEPT ![CurrentTask] = Caller(CurrentTask)]
  /\ UNCHANGED <<family, signals, links, state, context, CurrentTask, next_task,
                 handlers, calls>>

RtSigsuspend ==
  /\ InProgram(CurrentTask)
  /\ UNCHANGED sigwait
  /\ task_sigwait("sigsuspend")

RtSigsuspendReturn ==
  /\ Running(CurrentTask) /\ pc[CurrentTask] = "sigsuspend"
  /\ pc' = [pc EXCEPT ![CurrentTask] = Caller(CurrentTask)]
  /\ UNCHANGED <<family, signals, links, state, context, CurrentTask, next_task,
                 handlers, calls>>

\* The handler returns into task_signal_exec, and that to what it interrupted.
HandlerReturn ==
  LET stack == calls[CurrentTask]  depth == Len(stack) IN
  /\ Running(CurrentTask) /\ pc[CurrentTask] = "handler"
  /\ pc' = [pc EXCEPT ![CurrentTask] = stack[depth]]
  /\ calls' = [calls EXCEPT ![CurrentTask] = SubSeq(stack, 1, depth - 1)]
  /\ UNCHANGED <<family, signals, links, state, context, CurrentTask, next_task, handlers>>

Next ==
  \/ Fork
  \/ \E status \in ExitCodes : Exit(status)
  \/ \E nohang \in BOOLEAN : Wait4(nohang)
  \/ Wait4Return
  \/ RtSigsuspend
  \/ RtSigsuspendReturn
  \/ \E set \in BOOLEAN : task_signal(set)
  \/ HandlerReturn
  \/ Yield
  \/ Preempt
  \/ WalkUnlink
  \/ WalkPast
  \/ WalkEnter

Spec == Init /\ [][Next]_vars

\* The CPU keeps executing the scheduler's loop, the timer keeps ticking, and a
\* handler, which the timer cannot interrupt, returns.
Fairness == WF_vars(Walk) /\ WF_vars(Preempt) /\ WF_vars(HandlerReturn)
FairSpec == Spec /\ Fairness

-----------------------------------------------------------------------------
(* Safety *)

Live(p) == state[p] \in {"TaskReady", "TaskSigWait"}
Linked(p) == prev[p] # NULL

FieldTypes ==
  /\ next_pid \in 1 .. MaxPid + 1
  /\ next \in [Pid -> Pid \union {NULL}]
  /\ prev \in [Pid -> Pid \union {NULL}]
  /\ state \in [Pid -> TaskStates]
  /\ ppid \in [Pid -> Pid]
  /\ childcount \in [Pid -> Int]
  /\ exitcode \in [Pid -> Int]
  /\ sigpend \in [Pid -> {NoSig, SIGTERM, SIGCHLD}]
  /\ sigwait \in [Pid -> {NoSig, SIGCHLD}]
  /\ sigchldpid \in [Pid -> Pid]
  /\ sigchldexit \in [Pid -> Int]
  /\ context \in [Pid -> {"store", "fork"}]
  /\ CurrentTask \in Pid
  /\ next_task \in Pid \union {NULL}
  /\ handlers \subseteq Pid
  /\ pc \in [Pid -> PCs]

StackTypes == calls \in [Pid -> Seq(PCs)]

\* The types of the fields of task_t, of the kernel's task variables and of what
\* the handlers of a task interrupted.
TypeOK == FieldTypes /\ StackTypes

\* The list of tasks stays doubly linked while list_insert_after adds clones
\* behind whoever runs and kern_sched_yield unlinks quit tasks in the middle of
\* its own traversal: both pointers agree, no live task is lost, and the
\* cursor, which may stand on a task just unlinked, always has a linked
\* successor.
LinksOK ==
  /\ Linked(KERNEL_PID)
  /\ \A p \in Pid : Linked(p) =>
       /\ next[p] \in Pid /\ prev[next[p]] = p
       /\ next[prev[p]] = p /\ Linked(prev[p])
  /\ \A p \in Pid : Live(p) => Linked(p)
  /\ next_task # NULL => next[next_task] \in Pid /\ Linked(next[next_task])
  /\ next_task = NULL => Linked(CurrentTask)

\* The linked tasks form one ring through KernelTask: the walk of task_get and
\* of kern_sched_yield can reach every one of them.
RingIsOneCycle ==
  LET at[k \in 0 .. MaxPid] == IF k = 0 THEN KERNEL_PID ELSE next[at[k - 1]]
  IN  {at[k] : k \in 0 .. MaxPid} = {p \in Pid : Linked(p)}

\* A task that executes its program has no signal pending and waits for none,
\* although exits of its children raise SIGCHLD at any time: task_enter takes
\* the signal.  So task_clone, which copies sigpend and sigwait, never hands a
\* child the parent's SIGCHLD or leaves it waiting for one.
RunningClean ==
  next_task = NULL /\ state[CurrentTask] # "TaskQuit" =>
    sigpend[CurrentTask] = NoSig /\ sigwait[CurrentTask] = NoSig

\* childcount, which decides whether wait4(WNOHANG) returns, is the number of
\* children that have not exited, for every parent task_get can still find.
ChildcountOK ==
  \A p \in Pid : Linked(p) =>
    childcount[p] = Cardinality({c \in Pid \ {KERNEL_PID} : ppid[c] = p /\ Live(c)})

\* wait4(WNOHANG) sleeps if childcount says a child is alive.  As long as it
\* sleeps without a signal one is, whose exit will wake it: so the count that
\* decided was right, and no exit of the last child is lost meanwhile.
NohangSleepHasChild ==
  \A p \in Pid : pc[p] = "wait4_nohang" /\ state[p] = "TaskSigWait" =>
    sigpend[p] = SIGCHLD \/ \E c \in Pid \ {KERNEL_PID} : ppid[c] = p /\ Live(c)

\* p's wait4 returns: only a handler that interrupts it leaves it otherwise.
Reports(p) == InWait4(p) /\ pc'[p] # pc[p] /\ calls'[p] = calls[p]

ReportsDeadChild ==
  \A p \in Pid : Reports(p) /\ pc[p] \in OwnWait =>
    LET c == sigchldpid[p] IN
    /\ c # KERNEL_PID /\ ppid[c] = p
    /\ state[c] = "TaskQuit" /\ exitcode[c] = sigchldexit[p]

\* What wait4 hands to its caller when it returns is a child of the caller that
\* has exited, with that child's exit code, even if further children exit
\* between the wake-up and the return, and handlers run there that fork, exit
\* or wait themselves.  The call must be the caller's own: the clone of a
\* handler that interrupted one returns from it too.
WaitReportsDeadChild == [][ReportsDeadChild]_vars

(* Liveness *)

\* kern_sched_yield runs with interrupts off: its loop must end.
WalkTerminates == next_task # NULL ~> next_task = NULL

\* Round robin: a ready task gets the CPU, whatever the others do.
ReadyRuns == \A p \in Pid : state[p] = "TaskReady" ~> CurrentTask = p

\* A sleeping parent that was sent SIGCHLD is made ready.
SignalWakes ==
  \A p \in Pid :
    state[p] = "TaskSigWait" /\ sigpend[p] = SIGCHLD ~> state[p] = "TaskReady"
=============================================================================
