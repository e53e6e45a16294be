---------------------------- MODULE TasksProofs -----------------------------
(***************************************************************************)
(* Theorems about Tasks for every number of processes and every set of     *)
(* exit codes.  None of TypeOK, LinksOK, RunningClean and                  *)
(* WaitReportsDeadChild is inductive: the cursor of kern_sched_yield can   *)
(* only be shown to stay inside the task list with LinksOK, and what wait4 *)
(* reports only with what the scheduler's wake-up guarantees.  IInv is the *)
(* conjunction that is.                                                    *)
(***************************************************************************)
EXTENDS Tasks, SequenceTheorems, TLAPS

\* KernelTask never blocks, waits or exits, is nobody's child but its own, and
\* has no handler.
KernelOK ==
  /\ state[KERNEL_PID] = "TaskReady" /\ pc[KERNEL_PID] \in {"kmain", "spin"}
  /\ ppid[KERNEL_PID] = KERNEL_PID
  /\ KERNEL_PID \notin handlers /\ calls[KERNEL_PID] = <<>>

\* task_t structures fork has not handed out yet are untouched.
Unborn ==
  /\ CurrentTask < next_pid
  /\ \A p \in Pid :
       /\ ppid[p] < next_pid
       /\ p >= next_pid => /\ state[p] = "TaskInit" /\ prev[p] = NULL
                           /\ context[p] = "store" /\ pc[p] = "user"
                           /\ calls[p] = <<>> /\ p \notin handlers

\* The task that has the CPU is ready or has exited, and is not a clone that
\* still has to return from fork.
RunnerOK ==
  /\ next_task = NULL => state[CurrentTask] \in {"TaskReady", "TaskQuit"}
  /\ \A p \in Pid : state[p] = "TaskQuit" => pc[p] = "exit"

\* A clone that has not run yet has no children, hence no signal, and inherited
\* neither a pending nor an awaited one.
CloneOK ==
  \A p \in Pid : context[p] = "fork" =>
    /\ state[p] = "TaskReady" /\ p # CurrentTask
    /\ sigpend[p] = NoSig
    /\ \A c \in Pid : ppid[c] # p

ReadyWaitsForNothing ==
  \A p \in Pid : state[p] = "TaskReady" => sigwait[p] = NoSig

\* sigchldpid and sigchldexit describe a dead child as soon as they are set,
\* they are set whenever a signal is pending, and stay set when it is taken:
\* so they are set when a handler runs inside a wait4 and when that returns.
ChildRecordOK ==
  \A p \in Pid :
    /\ sigchldpid[p] # KERNEL_PID =>
         /\ ppid[sigchldpid[p]] = p /\ state[sigchldpid[p]] = "TaskQuit"
         /\ exitcode[sigchldpid[p]] = sigchldexit[p]
    /\ state[p] # "TaskQuit" /\ sigpend[p] # NoSig => sigchldpid[p] # KERNEL_PID
    /\ pc[p] \in OwnWait /\ state[p] = "TaskReady" => sigchldpid[p] # KERNEL_PID
    /\ \A i \in 1 .. Len(calls[p]) :
         calls[p][i] \in OwnWait => sigchldpid[p] # KERNEL_PID

\* A handler has interrupted something, and what the first one interrupted was
\* not a handler.
HandlerOK ==
  \A p \in Pid :
    /\ pc[p] = "handler" => calls[p] # <<>>
    /\ calls[p] # <<>> => calls[p][1] # "handler"

IInv ==
  /\ TypeOK /\ LinksOK /\ RunningClean
  /\ KernelOK /\ Unborn /\ RunnerOK /\ CloneOK
  /\ ReadyWaitsForNothing /\ ChildRecordOK /\ HandlerOK
-----------------------------------------------------------------------------

\* What the proofs use of pids and of the null pointer.
LEMMA PidFacts ==
  /\ KERNEL_PID \in Pid /\ KERNEL_PID = 0
  /\ NULL \notin Pid /\ MaxPid \in Nat
  /\ \A p \in Pid : p \in Nat
  /\ \A k \in 1 .. MaxPid + 1 : k <= MaxPid => k \in Pid
BY MaxPidAssumption DEF KERNEL_PID, Pid, NULL

\* TypeOK without the stacks of interrupted calls.
LEMMA FieldTypesOK == TypeOK => FieldTypes
BY DEF TypeOK, FieldTypes

\* task_get finds the task of the pid it is asked for, or nothing.
LEMMA TaskGetResult ==
  ASSUME NEW pid \in Pid
  PROVE  task_get(pid) \in {pid, NULL}
BY DEF task_get

\* A handler's interruption is put on the stack of calls ...
LEMMA PushFacts ==
  ASSUME NEW s \in Seq(PCs), NEW x \in PCs
  PROVE  /\ Append(s, x) \in Seq(PCs) /\ Append(s, x) # <<>>
         /\ Len(Append(s, x)) = Len(s) + 1 /\ Len(s) \in Nat
         /\ Append(s, x)[Len(s) + 1] = x
         /\ \A i \in 1 .. Len(s) : Append(s, x)[i] = s[i]
OBVIOUS

\* ... and taken off it again.
LEMMA PopFacts ==
  ASSUME NEW s \in Seq(PCs), s # <<>>
  PROVE  /\ Len(s) \in Nat \ {0} /\ s[Len(s)] \in PCs
         /\ SubSeq(s, 1, Len(s) - 1) \in Seq(PCs)
         /\ Len(SubSeq(s, 1, Len(s) - 1)) = Len(s) - 1
         /\ \A i \in 1 .. Len(s) - 1 : SubSeq(s, 1, Len(s) - 1)[i] = s[i]
<1>1. Len(s) \in Nat \ {0} /\ s[Len(s)] \in PCs
  OBVIOUS
<1>2. \A i \in 1 .. Len(s) - 1 : s[i] \in PCs /\ 1 + i - 1 = i
  BY <1>1
<1>3. /\ SubSeq(s, 1, Len(s) - 1) \in Seq(PCs)
      /\ Len(SubSeq(s, 1, Len(s) - 1)) = Len(s) - 1
      /\ \A i \in 1 .. Len(s) - 1 : SubSeq(s, 1, Len(s) - 1)[i] = s[i]
  <2>1. PICK n \in Nat : n = Len(s) - 1
    BY <1>1
  <2>2. /\ SubSeq(s, 1, n) \in Seq(PCs)
        /\ Len(SubSeq(s, 1, n)) = IF 1 <= n THEN n - 1 + 1 ELSE 0
        /\ \A i \in 1 .. n - 1 + 1 : SubSeq(s, 1, n)[i] = s[1 + i - 1]
    BY <1>2, <2>1, SubSeqProperties
  <2> QED BY <1>2, <2>1, <2>2
<1> QED BY <1>1, <1>3

\* The clone's copy of the stack has no wait4 of its own in it.
LEMMA CopyFacts ==
  ASSUME NEW s \in Seq(PCs)
  PROVE  /\ copied(s) \in Seq(PCs) /\ Len(copied(s)) = Len(s)
         /\ copied(s) = <<>> <=> s = <<>>
         /\ \A i \in 1 .. Len(s) :
              copied(s)[i] = IF s[i] \in OwnWait THEN "wait4_copy" ELSE s[i]
<1>1. copied(s) \in [1 .. Len(s) -> PCs] /\ Len(s) \in Nat
  BY DEF copied, PCs, OwnWait
<1>2. copied(s) \in Seq(PCs) /\ Len(copied(s)) = Len(s)
  BY <1>1
<1>3. copied(s) = <<>> <=> s = <<>>
  BY <1>2
<1> QED BY <1>2, <1>3 DEF copied

\* The state sched_init leaves satisfies the inductive invariant.
LEMMA InitIInv == Init => IInv
BY MaxPidAssumption DEF Init, IInv, TypeOK, FieldTypes, StackTypes, LinksOK, RunningClean, KernelOK,
   Unborn, RunnerOK, CloneOK, ReadyWaitsForNothing, ChildRecordOK, Pid, NULL,
   KERNEL_PID, NoSig, SIGCHLD, SIGTERM, TaskStates, PCs, Live, Linked, InWait4, OwnWait, HandlerOK

\* fork links a clone that has neither a signal nor a child.
LEMMA ForkIInv ==
  ASSUME IInv, Fork
  PROVE  IInv'
<1> USE PidFacts DEF NoSig, SIGCHLD, SIGTERM, TaskStates, PCs, Live, Linked,
   InWait4, OwnWait
<1>0. TypeOK /\ LinksOK /\ RunningClean /\ KernelOK /\ Unborn /\ RunnerOK /\
      CloneOK /\ ReadyWaitsForNothing /\ ChildRecordOK /\ HandlerOK
  BY DEF IInv
<1>P. /\ CurrentTask \in Pid /\ next_pid \in Pid /\ next_pid # CurrentTask
      /\ calls[CurrentTask] \in Seq(PCs)
      /\ pc' = [pc EXCEPT ![CurrentTask] = IF @ = "kmain" THEN "spin" ELSE @,
                          ![next_pid] = Caller(CurrentTask)]
      /\ calls' = [calls EXCEPT ![next_pid] = copied(calls[CurrentTask])]
      /\ handlers' \subseteq handlers \union {next_pid}
      /\ CurrentTask \notin handlers => handlers' = handlers
      /\ Caller(CurrentTask) \in {"user", "handler"}
  <2>1. CurrentTask \in Pid /\ next_pid \in Pid /\ calls[CurrentTask] \in Seq(PCs)
    BY <1>0 DEF Fork, TypeOK, FieldTypes, StackTypes
  <2>2. next_pid # CurrentTask
    BY <1>0, <2>1 DEF Unborn
  <2>3. /\ handlers' \subseteq handlers \union {next_pid}
        /\ CurrentTask \notin handlers => handlers' = handlers
    BY DEF Fork
  <2> QED BY <2>1, <2>2, <2>3 DEF Fork, Caller
<1>C. /\ copied(calls[CurrentTask]) \in Seq(PCs)
      /\ Len(copied(calls[CurrentTask])) = Len(calls[CurrentTask])
      /\ copied(calls[CurrentTask]) = <<>> <=> calls[CurrentTask] = <<>>
      /\ \A i \in 1 .. Len(calls[CurrentTask]) : copied(calls[CurrentTask])[i]
            = IF calls[CurrentTask][i] \in OwnWait THEN "wait4_copy" ELSE calls[CurrentTask][i]
  BY <1>P, CopyFacts
<1>1. TypeOK'
  <2>1. pc' \in [Pid -> PCs] /\ calls' \in [Pid -> Seq(PCs)] /\ handlers' \subseteq Pid
    BY <1>0, <1>P, <1>C DEF TypeOK, FieldTypes, StackTypes
  <2>a. FieldTypes
    BY <1>0, FieldTypesOK
  <2>b. CurrentTask \in Pid /\ next_pid \in Pid
    BY <1>P
  <2>2. next' \in [Pid -> Pid \union {NULL}] /\ prev' \in [Pid -> Pid \union {NULL}]
    <3>1. next[CurrentTask] \in Pid
      BY <1>0, <1>P DEF Fork, Running, LinksOK
    <3>2. prev[CurrentTask] # NULL
      BY <1>0 DEF Fork, Running, LinksOK
    <3>3. /\ next' = [next EXCEPT ![CurrentTask] = next_pid, ![next_pid] = next[CurrentTask]]
          /\ prev' = [prev EXCEPT ![next[CurrentTask]] = next_pid, ![next_pid] = CurrentTask]
      BY <3>2 DEF Fork, list_insert_after
    <3> QED BY <2>a, <2>b, <3>1, <3>3 DEF FieldTypes
  <2>3. /\ next_pid' \in 1 .. MaxPid + 1
        /\ sigpend' \in [Pid -> {NoSig, SIGTERM, SIGCHLD}]
        /\ sigwait' \in [Pid -> {NoSig, SIGCHLD}]
        /\ state' \in [Pid -> TaskStates] /\ ppid' \in [Pid -> Pid]
        /\ childcount' \in [Pid -> Int] /\ context' \in [Pid -> {"store", "fork"}]
    <3>1. /\ next_pid' = next_pid + 1
          /\ sigpend' = [sigpend EXCEPT ![next_pid] = sigpend[CurrentTask]]
          /\ sigwait' = [sigwait EXCEPT ![next_pid] = sigwait[CurrentTask]]
          /\ state' = [state EXCEPT ![next_pid] = "TaskReady"]
          /\ ppid' = [ppid EXCEPT ![next_pid] = CurrentTask]
          /\ childcount' = [childcount EXCEPT ![next_pid] = 0, ![CurrentTask] = @ + 1]
          /\ context' = [context EXCEPT ![next_pid] = "fork"]
      BY DEF Fork, task_clone
    <3>2. next_pid' \in 1 .. MaxPid + 1
      BY <2>a, <2>b, <3>1 DEF FieldTypes, Pid
    <3>3. childcount' \in [Pid -> Int]
      BY <2>a, <2>b, <3>1 DEF FieldTypes
    <3> QED BY <2>a, <2>b, <3>1, <3>2, <3>3 DEF FieldTypes
  <2> QED BY <1>0, <2>1, <2>2, <2>3 DEF Fork, TypeOK, FieldTypes, StackTypes
<1>2. LinksOK'
  <2>1. /\ CurrentTask \in Pid /\ next_pid \in Pid /\ next[CurrentTask] \in Pid
        /\ prev[CurrentTask] # NULL /\ prev[next_pid] = NULL
        /\ prev[next[CurrentTask]] = CurrentTask
    BY <1>0 DEF Fork, Running, InProgram, Caller, TypeOK, FieldTypes, LinksOK, Unborn
  <2>2. /\ next' = [next EXCEPT ![CurrentTask] = next_pid,
                               ![next_pid] = next[CurrentTask]]
        /\ prev' = [prev EXCEPT ![next[CurrentTask]] = next_pid,
                               ![next_pid] = CurrentTask]
        /\ state' = [state EXCEPT ![next_pid] = "TaskReady"]
        /\ next_task' = NULL /\ CurrentTask' = CurrentTask
    BY <2>1 DEF Fork, Running, InProgram, Caller, task_clone, list_insert_after
  <2>3. \A p \in Pid : prev'[p] # NULL => prev[p] # NULL \/ p = next_pid
    BY <1>0, <2>1, <2>2 DEF TypeOK, FieldTypes
  <2>4. \A p \in Pid : prev'[p] # NULL =>
          /\ next'[p] \in Pid /\ prev'[next'[p]] = p
          /\ prev'[p] \in Pid /\ next'[prev'[p]] = p /\ prev'[prev'[p]] # NULL
    <3> SUFFICES ASSUME NEW p \in Pid, prev'[p] # NULL
                 PROVE  /\ next'[p] \in Pid /\ prev'[next'[p]] = p
                        /\ prev'[p] \in Pid /\ next'[prev'[p]] = p
                        /\ prev'[prev'[p]] # NULL
      OBVIOUS
    <3>1. CASE p = next_pid
      BY <1>0, <2>1, <2>2, <3>1 DEF TypeOK, FieldTypes, LinksOK
    <3>2. CASE p # next_pid
      <4>1. /\ prev[p] # NULL /\ next[p] \in Pid /\ prev[next[p]] = p
            /\ prev[p] \in Pid /\ next[prev[p]] = p /\ prev[prev[p]] # NULL
        BY <1>0, <2>3, <3>2 DEF TypeOK, FieldTypes, LinksOK
      <4>2. next'[p] \in Pid /\ prev'[next'[p]] = p
        BY <1>0, <2>1, <2>2, <3>2, <4>1 DEF TypeOK, FieldTypes
      <4>3. prev'[p] \in Pid /\ next'[prev'[p]] = p
        BY <1>0, <2>1, <2>2, <3>2, <4>1 DEF TypeOK, FieldTypes
      <4>4. prev'[prev'[p]] # NULL
        BY <1>0, <2>1, <2>2, <3>2, <4>1 DEF TypeOK, FieldTypes
      <4> QED BY <4>2, <4>3, <4>4
    <3> QED BY <3>1, <3>2
  <2>5. \A p \in Pid : prev[p] # NULL => prev'[p] # NULL
    BY <1>0, <2>1, <2>2 DEF TypeOK, FieldTypes
  <2>6. prev'[next_pid] # NULL
    BY <1>0, <2>1, <2>2 DEF TypeOK, FieldTypes
  <2>7. \A p \in Pid : Live(p)' => prev'[p] # NULL
    BY <1>0, <2>2, <2>5, <2>6 DEF TypeOK, FieldTypes, LinksOK
  <2>8. KERNEL_PID \in Pid /\ prev[KERNEL_PID] # NULL
    BY <1>0 DEF LinksOK
  <2>9. prev'[KERNEL_PID] # NULL
    BY <2>5, <2>8
  <2>10. prev'[CurrentTask'] # NULL
    BY <2>1, <2>2, <2>5
  <2> HIDE PidFacts
  <2> QED BY <2>2, <2>4, <2>7, <2>9, <2>10 DEF LinksOK
<1>3. RunningClean'
  BY <1>0 DEF Fork, task_clone, list_insert_after, Running, InProgram, Caller, TypeOK, FieldTypes,
     RunningClean, RunnerOK, CloneOK, ReadyWaitsForNothing, LinksOK
<1>4. KernelOK'
  BY <1>0 DEF Fork, task_clone, list_insert_after, Running, InProgram, Caller, TypeOK, FieldTypes, KernelOK
<1>5. Unborn'
  <2>1. next_pid' = next_pid + 1 /\ next_pid \in Pid /\ next_pid \in Nat
    BY <1>0 DEF Fork, task_clone, TypeOK, FieldTypes
  <2>2. CurrentTask' < next_pid'
    BY <1>0, <2>1 DEF Fork, Unborn, TypeOK, FieldTypes
  <2>3. ASSUME NEW p \in Pid PROVE ppid'[p] < next_pid'
    <3>1. ppid' = [ppid EXCEPT ![next_pid] = CurrentTask]
      BY DEF Fork, task_clone
    <3>2. ppid[p] < next_pid /\ CurrentTask < next_pid
      BY <1>0 DEF Unborn
    <3>3. ppid[p] \in Nat /\ CurrentTask \in Nat
      BY <1>0 DEF TypeOK, FieldTypes
    <3>4. ppid'[p] \in {ppid[p], CurrentTask}
      BY <1>0, <3>1 DEF TypeOK, FieldTypes
    <3> QED BY <2>1, <3>2, <3>3, <3>4
  <2>4. ASSUME NEW p \in Pid, p >= next_pid'
        PROVE  /\ state'[p] = "TaskInit" /\ prev'[p] = NULL
               /\ context'[p] = "store" /\ pc'[p] = "user"
               /\ calls'[p] = <<>> /\ p \notin handlers'
    <3>1. p # next_pid /\ p >= next_pid /\ p # CurrentTask /\ next_pid > 0
      <4>1. p \in Nat /\ CurrentTask \in Nat /\ CurrentTask < next_pid /\ next_pid > 0
        BY <1>0, <1>P DEF Unborn, TypeOK, FieldTypes
      <4> QED BY <2>1, <2>4, <4>1
    <3>2. p # next[CurrentTask]
      BY <1>0, <3>1 DEF Fork, Running, Unborn, LinksOK, TypeOK, FieldTypes
    <3>3. pc'[p] = pc[p] /\ calls'[p] = calls[p] /\ (p \in handlers' => p \in handlers)
      BY <1>0, <1>P, <3>1 DEF TypeOK, FieldTypes
    <3>4. state'[p] = state[p] /\ context'[p] = context[p]
      BY <1>0, <3>1 DEF Fork, task_clone, TypeOK, FieldTypes
    <3>5. prev'[p] = prev[p]
      BY <1>0, <3>1, <3>2 DEF Fork, Running, list_insert_after, LinksOK, TypeOK, FieldTypes
    <3> QED BY <1>0, <3>1, <3>3, <3>4, <3>5 DEF Unborn
  <2> QED BY <2>2, <2>3, <2>4 DEF Unborn
<1>6. RunnerOK'
  BY <1>0 DEF Fork, task_clone, list_insert_after, Running, InProgram, Caller, TypeOK, FieldTypes, RunnerOK,
     LinksOK
<1>7. CloneOK'
  <2>1. /\ context' = [context EXCEPT ![next_pid] = "fork"]
        /\ state' = [state EXCEPT ![next_pid] = "TaskReady"]
        /\ sigpend' = [sigpend EXCEPT ![next_pid] = NoSig]
        /\ ppid' = [ppid EXCEPT ![next_pid] = CurrentTask]
        /\ CurrentTask' = CurrentTask /\ context[CurrentTask] # "fork"
    BY <1>0, <1>P DEF Fork, Running, task_clone, RunningClean, RunnerOK, CloneOK
  <2>2. \A c \in Pid : ppid[c] # next_pid
    BY <1>0 DEF Unborn, TypeOK, FieldTypes
  <2>3. ASSUME NEW p \in Pid, context'[p] = "fork", p # next_pid
        PROVE  /\ state'[p] = "TaskReady" /\ p # CurrentTask /\ sigpend'[p] = NoSig
               /\ \A c \in Pid : ppid'[c] # p
    <3>1. context[p] = "fork"
      BY <1>0, <1>P, <2>1, <2>3 DEF TypeOK, FieldTypes
    <3>2. /\ state[p] = "TaskReady" /\ p # CurrentTask /\ sigpend[p] = NoSig
          /\ \A c \in Pid : ppid[c] # p
      BY <1>0, <3>1 DEF CloneOK
    <3> QED BY <1>0, <1>P, <2>1, <2>3, <3>2 DEF TypeOK, FieldTypes
  <2>4. /\ state'[next_pid] = "TaskReady" /\ sigpend'[next_pid] = NoSig
        /\ \A c \in Pid : ppid'[c] # next_pid
    BY <1>0, <1>P, <2>1, <2>2 DEF TypeOK, FieldTypes
  <2> QED BY <1>P, <2>1, <2>3, <2>4 DEF CloneOK
<1>8. ReadyWaitsForNothing'
  BY <1>0 DEF Fork, task_clone, list_insert_after, Running, InProgram, Caller, TypeOK, FieldTypes,
     ReadyWaitsForNothing, RunningClean, RunnerOK, LinksOK
<1>9. ChildRecordOK'
  <2>1. /\ state' = [state EXCEPT ![next_pid] = "TaskReady"]
        /\ sigpend' = [sigpend EXCEPT ![next_pid] = NoSig]
        /\ ppid' = [ppid EXCEPT ![next_pid] = CurrentTask]
        /\ UNCHANGED <<sigchldpid, sigchldexit, exitcode>>
    <3>1. sigpend[CurrentTask] = NoSig
      BY <1>0, <1>P DEF Fork, Running, RunningClean, RunnerOK
    <3> QED BY <3>1 DEF Fork, task_clone
  <2>2. state[next_pid] = "TaskInit" /\ state[CurrentTask] # "TaskQuit"
    BY <1>0, <1>P DEF Fork, Running, RunnerOK, Unborn
  <2>3. ASSUME NEW p \in Pid, p # next_pid
        PROVE  /\ pc'[p] \in OwnWait => pc[p] \in OwnWait
               /\ calls'[p] = calls[p] /\ state'[p] = state[p] /\ sigpend'[p] = sigpend[p]
    <3>1. state'[p] = state[p] /\ sigpend'[p] = sigpend[p]
      BY <1>0, <2>1, <2>3 DEF TypeOK, FieldTypes
    <3>2. pc'[p] \in OwnWait => pc[p] \in OwnWait
      BY <1>0, <1>P, <2>3 DEF TypeOK, FieldTypes
    <3>3. calls'[p] = calls[p]
      BY <1>0, <1>P, <2>3 DEF TypeOK, StackTypes
    <3> QED BY <3>1, <3>2, <3>3
  <2>4. /\ pc'[next_pid] \notin OwnWait
        /\ \A i \in 1 .. Len(calls'[next_pid]) : calls'[next_pid][i] \notin OwnWait
    BY <1>0, <1>P, <1>C DEF TypeOK, FieldTypes, StackTypes
  <2>5. ASSUME NEW p \in Pid, sigchldpid[p] # KERNEL_PID
        PROVE  /\ sigchldpid[p] # next_pid
               /\ ppid'[sigchldpid[p]] = p /\ state'[sigchldpid[p]] = "TaskQuit"
    BY <1>0, <2>1, <2>2, <2>5 DEF ChildRecordOK, TypeOK, FieldTypes
  <2>6. /\ sigchldpid'[next_pid] = sigchldpid[next_pid] /\ sigpend'[next_pid] = NoSig
        /\ \A p \in Pid : exitcode'[p] = exitcode[p] /\ sigchldexit'[p] = sigchldexit[p]
        /\ sigchldpid' = sigchldpid
    BY <1>0, <1>P, <2>1 DEF TypeOK, FieldTypes
  <2> HIDE DEF OwnWait
  <2>7. ASSUME NEW p \in Pid, p # next_pid
        PROVE  /\ state'[p] # "TaskQuit" /\ sigpend'[p] # NoSig => sigchldpid[p] # KERNEL_PID
               /\ pc'[p] \in OwnWait /\ state'[p] = "TaskReady" => sigchldpid[p] # KERNEL_PID
               /\ \A i \in 1 .. Len(calls'[p]) :
                    calls'[p][i] \in OwnWait => sigchldpid[p] # KERNEL_PID
    BY <1>0, <2>3, <2>7 DEF ChildRecordOK
  <2>8. ASSUME NEW p \in Pid, sigchldpid[p] # KERNEL_PID
        PROVE  exitcode[sigchldpid[p]] = sigchldexit[p] /\ sigchldpid[p] \in Pid
    BY <1>0, <2>8 DEF ChildRecordOK, TypeOK, FieldTypes
  <2> QED BY <2>4, <2>5, <2>6, <2>7, <2>8 DEF ChildRecordOK
<1>10. HandlerOK'
  <2>1. ASSUME NEW p \in Pid, p # next_pid
        PROVE  calls'[p] = calls[p] /\ (pc'[p] = "handler" => pc[p] = "handler")
    BY <1>0, <1>P, <2>1 DEF TypeOK, FieldTypes
  <2>2. pc'[next_pid] = Caller(CurrentTask) /\ calls'[next_pid] = copied(calls[CurrentTask])
    BY <1>0, <1>P DEF TypeOK, FieldTypes, StackTypes
  <2>3. pc'[next_pid] = "handler" => calls'[next_pid] # <<>>
    BY <1>C, <2>2 DEF Caller
  <2>4. calls'[next_pid] # <<>> => calls'[next_pid][1] # "handler"
    <3>1. calls[CurrentTask] # <<>> => calls[CurrentTask][1] # "handler"
      BY <1>0, <1>P DEF HandlerOK
    <3>2. calls[CurrentTask] # <<>> => 1 \in 1 .. Len(calls[CurrentTask])
      BY <1>P, PopFacts
    <3> QED BY <1>C, <2>2, <3>1, <3>2
  <2> QED BY <1>0, <2>1, <2>3, <2>4 DEF HandlerOK
<1> QED
  BY <1>1, <1>2, <1>3, <1>4, <1>5, <1>6, <1>7, <1>8, <1>9, <1>10 DEF IInv

\* exit signals the parent, if task_get finds it, and leaves the list alone.
LEMMA ExitIInv ==
  ASSUME NEW status \in ExitCodes, IInv, Exit(status)
  PROVE  IInv'
<1> USE PidFacts, ExitCodesAssumption DEF NoSig, SIGCHLD, SIGTERM, TaskStates,
   PCs, Live, Linked, InWait4, OwnWait, HandlerOK
<1>0. TypeOK /\ LinksOK /\ RunningClean /\ KernelOK /\ Unborn /\ RunnerOK /\
      CloneOK /\ ReadyWaitsForNothing /\ ChildRecordOK /\ HandlerOK
  BY DEF IInv
<1>P. /\ CurrentTask \in Pid /\ handlers' = handlers
      /\ pc' = [pc EXCEPT ![CurrentTask] = "exit"]
      /\ calls' = [calls EXCEPT ![CurrentTask] = <<>>]
  BY <1>0 DEF Exit, TypeOK, FieldTypes
<1>1. TypeOK'
  <2>1. pc' \in [Pid -> PCs] /\ calls' \in [Pid -> Seq(PCs)] /\ handlers' \subseteq Pid
    <3>1. "exit" \in PCs
      OBVIOUS
    <3> HIDE DEF PCs
    <3>2. pc' \in [Pid -> PCs] /\ handlers' \subseteq Pid
      BY <1>0, <1>P, <3>1 DEF TypeOK, FieldTypes
    <3>3. <<>> \in Seq(PCs)
      OBVIOUS
    <3>4. calls' \in [Pid -> Seq(PCs)]
      BY <1>0, <1>P, <3>3 DEF TypeOK, StackTypes
    <3> QED BY <3>2, <3>4
  <2>2. CurrentTask \in Pid /\ task_get(ppid[CurrentTask]) \in Pid \union {NULL}
    <3>1. CurrentTask \in Pid /\ ppid[CurrentTask] \in Pid
      BY <1>0 DEF TypeOK, FieldTypes
    <3> QED BY <3>1, TaskGetResult
  <2>3. /\ sigpend' \in [Pid -> {NoSig, SIGTERM, SIGCHLD}]
        /\ sigchldpid' \in [Pid -> Pid] /\ sigchldexit' \in [Pid -> Int]
        /\ childcount' \in [Pid -> Int]
    <3> DEFINE parent == task_get(ppid[CurrentTask])
    <3>0. status \in Int
      OBVIOUS
    <3>1. CASE parent = NULL
      <4>1. /\ sigpend' = [sigpend EXCEPT ![CurrentTask] = SIGTERM]
            /\ UNCHANGED <<sigchldpid, sigchldexit, childcount>>
        BY <3>1 DEF Exit, task_signal_raise
      <4> HIDE DEF parent
      <4> QED BY <1>0, <2>2, <4>1 DEF TypeOK, FieldTypes
    <3>2. CASE parent # NULL
      <4>1. /\ sigpend' = [[sigpend EXCEPT ![CurrentTask] = SIGTERM] EXCEPT ![parent] = SIGCHLD]
            /\ sigchldpid' = [sigchldpid EXCEPT ![parent] = CurrentTask]
            /\ sigchldexit' = [sigchldexit EXCEPT ![parent] = status]
            /\ childcount' = [childcount EXCEPT ![parent] = @ - 1]
        BY <3>2 DEF Exit, task_signal_raise
      <4>2. parent \in Pid
        BY <2>2, <3>2
      <4> HIDE DEF parent
      <4>3. FieldTypes
        BY <1>0, FieldTypesOK
      <4>4. sigpend' \in [Pid -> {NoSig, SIGTERM, SIGCHLD}]
        BY <2>2, <4>1, <4>2, <4>3 DEF FieldTypes
      <4>5. childcount' \in [Pid -> Int]
        BY <4>1, <4>2, <4>3 DEF FieldTypes
      <4> QED BY <2>2, <3>0, <4>1, <4>2, <4>3, <4>4, <4>5 DEF FieldTypes
    <3> QED BY <3>1, <3>2
  <2>4. state' \in [Pid -> TaskStates] /\ exitcode' \in [Pid -> Int]
    BY <1>0, <2>2 DEF Exit, TypeOK, FieldTypes
  <2> QED BY <1>0, <2>1, <2>3, <2>4 DEF Exit, TypeOK, FieldTypes, StackTypes
<1>2. LinksOK'
  BY <1>0, TaskGetResult DEF Exit, task_signal_raise, Running, InProgram, Caller, TypeOK, FieldTypes, LinksOK,
     KernelOK, Unborn
<1>3. RunningClean'
  BY <1>0, TaskGetResult DEF Exit, task_signal_raise, Running, InProgram, Caller, TypeOK, FieldTypes,
     RunningClean, RunnerOK, CloneOK, ReadyWaitsForNothing, LinksOK
<1>4. KernelOK'
  BY <1>0, TaskGetResult DEF Exit, task_signal_raise, Running, InProgram, Caller, TypeOK, FieldTypes, KernelOK
<1>5. Unborn'
  <2>1. /\ UNCHANGED <<next_pid, ppid, prev, context, handlers, CurrentTask>>
        /\ state' = [state EXCEPT ![CurrentTask] = "TaskQuit"]
    BY DEF Exit
  <2>2. \A p \in Pid : p >= next_pid => p # CurrentTask
    BY <1>0, <1>P DEF Unborn, TypeOK, FieldTypes
  <2>3. \A p \in Pid : p # CurrentTask =>
          state'[p] = state[p] /\ pc'[p] = pc[p] /\ calls'[p] = calls[p]
    BY <1>0, <1>P, <2>1 DEF TypeOK, FieldTypes, StackTypes
  <2> QED BY ONLY <1>0, <2>1, <2>2, <2>3 DEF Unborn
<1>6. RunnerOK'
  BY <1>0, TaskGetResult DEF Exit, task_signal_raise, Running, InProgram, Caller, TypeOK, FieldTypes,
     RunnerOK, LinksOK
<1>7. CloneOK'
  <2>1. CurrentTask \in Pid /\ ppid[CurrentTask] \in Pid
        /\ task_get(ppid[CurrentTask]) \in {ppid[CurrentTask], NULL}
    BY <1>0, TaskGetResult DEF TypeOK, FieldTypes
  <2>2. ASSUME NEW p \in Pid, p # CurrentTask, p # ppid[CurrentTask]
        PROVE  sigpend'[p] = sigpend[p]
    BY <1>0, <2>1, <2>2 DEF Exit, task_signal_raise, TypeOK, FieldTypes
  <2>3. ASSUME NEW p \in Pid, context[p] = "fork"
        PROVE  p # CurrentTask /\ p # ppid[CurrentTask] /\ state'[p] = state[p]
    BY <1>0, <2>1, <2>3 DEF Exit, CloneOK, TypeOK, FieldTypes
  <2>4. UNCHANGED <<context, ppid, CurrentTask>>
    BY DEF Exit
  <2> QED BY <1>0, <2>2, <2>3, <2>4 DEF CloneOK
<1>8. ReadyWaitsForNothing'
  BY <1>0, TaskGetResult DEF Exit, task_signal_raise, Running, InProgram, Caller, TypeOK, FieldTypes,
     ReadyWaitsForNothing, RunningClean, RunnerOK, LinksOK
<1>9. ChildRecordOK'
  <2> DEFINE self == CurrentTask
             parent == task_get(ppid[CurrentTask])
  <2>1. /\ self \in Pid /\ parent \in {ppid[self], NULL} /\ ppid[self] \in Pid
        /\ self # KERNEL_PID /\ state[self] # "TaskQuit"
    BY <1>0, TaskGetResult DEF Exit, Running, InProgram, Caller, TypeOK, FieldTypes, KernelOK, RunnerOK
  <2>2. /\ state' = [state EXCEPT ![self] = "TaskQuit"]
        /\ exitcode' = [exitcode EXCEPT ![self] = status]
        /\ ppid' = ppid
    BY DEF Exit
  <2>2a. \A p \in Pid : /\ pc'[p] \in OwnWait => pc[p] \in OwnWait
                        /\ calls'[p] \in {calls[p], <<>>}
    BY <1>0, <1>P DEF TypeOK, FieldTypes
  <2>2b. ASSUME NEW p \in Pid, NEW i \in 1 .. Len(calls'[p])
         PROVE  i \in 1 .. Len(calls[p]) /\ calls'[p][i] = calls[p][i]
    BY <2>2a
  <2>3. CASE parent = NULL
    <3>1. /\ sigpend' = [sigpend EXCEPT ![self] = SIGTERM]
          /\ sigchldpid' = sigchldpid /\ sigchldexit' = sigchldexit
      BY <2>3 DEF Exit, task_signal_raise
    <3>2. \A p \in Pid :
            /\ state'[p] # "TaskQuit" => p # self /\ state'[p] = state[p] /\ sigpend'[p] = sigpend[p]
            /\ sigchldpid[p] # KERNEL_PID =>
                 /\ ppid[sigchldpid[p]] = p /\ state'[sigchldpid[p]] = "TaskQuit"
                 /\ exitcode'[sigchldpid[p]] = sigchldexit[p]
      BY <1>0, <2>1, <2>2, <3>1 DEF ChildRecordOK, TypeOK, FieldTypes
    <3> HIDE DEF OwnWait
    <3>3. ASSUME NEW p \in Pid
          PROVE  /\ state'[p] # "TaskQuit" /\ sigpend'[p] # NoSig => sigchldpid[p] # KERNEL_PID
                 /\ pc'[p] \in OwnWait /\ state'[p] = "TaskReady" => sigchldpid[p] # KERNEL_PID
                 /\ \A i \in 1 .. Len(calls'[p]) :
                      calls'[p][i] \in OwnWait => sigchldpid[p] # KERNEL_PID
      <4>1. /\ state[p] # "TaskQuit" /\ sigpend[p] # NoSig => sigchldpid[p] # KERNEL_PID
            /\ pc[p] \in OwnWait /\ state[p] = "TaskReady" => sigchldpid[p] # KERNEL_PID
            /\ \A i \in 1 .. Len(calls[p]) :
                 calls[p][i] \in OwnWait => sigchldpid[p] # KERNEL_PID
        BY <1>0 DEF ChildRecordOK
      <4>2. state'[p] # "TaskQuit" => state'[p] = state[p] /\ sigpend'[p] = sigpend[p]
        BY <3>2
      <4>3. \A i \in 1 .. Len(calls'[p]) :
              calls'[p][i] \in OwnWait => sigchldpid[p] # KERNEL_PID
        BY <2>2b, <4>1
      <4> QED BY ONLY <2>2a, <4>1, <4>2, <4>3
    <3> QED BY <2>2, <3>1, <3>2, <3>3 DEF ChildRecordOK
  <2>4. CASE parent # NULL
    <3>1. /\ sigpend' = [sigpend EXCEPT ![self] = SIGTERM, ![ppid[self]] = SIGCHLD]
          /\ sigchldpid' = [sigchldpid EXCEPT ![ppid[self]] = self]
          /\ sigchldexit' = [sigchldexit EXCEPT ![ppid[self]] = status]
      BY <2>1, <2>4 DEF Exit, task_signal_raise
    <3>2. ASSUME NEW p \in Pid, p # ppid[self]
          PROVE  /\ sigchldpid'[p] = sigchldpid[p] /\ sigchldexit'[p] = sigchldexit[p]
                 /\ state'[p] # "TaskQuit" => state'[p] = state[p] /\ sigpend'[p] = sigpend[p]
                 /\ sigchldpid[p] # KERNEL_PID =>
                      /\ ppid[sigchldpid[p]] = p /\ state'[sigchldpid[p]] = "TaskQuit"
                      /\ exitcode'[sigchldpid[p]] = sigchldexit[p]
      <4> HIDE DEF self, parent
      <4>1. sigchldpid'[p] = sigchldpid[p] /\ sigchldexit'[p] = sigchldexit[p]
        BY <1>0, <2>1, <3>1, <3>2 DEF TypeOK, FieldTypes
      <4>2. state'[p] # "TaskQuit" => p # self /\ state'[p] = state[p]
        BY <1>0, <2>1, <2>2 DEF TypeOK, FieldTypes
      <4>3. p # self => sigpend'[p] = sigpend[p]
        BY <1>0, <2>1, <3>1, <3>2 DEF TypeOK, FieldTypes
      <4>4. ASSUME sigchldpid[p] # KERNEL_PID
            PROVE  /\ ppid[sigchldpid[p]] = p /\ state'[sigchldpid[p]] = "TaskQuit"
                   /\ exitcode'[sigchldpid[p]] = sigchldexit[p]
        <5>1. /\ sigchldpid[p] \in Pid /\ ppid[sigchldpid[p]] = p
              /\ state[sigchldpid[p]] = "TaskQuit" /\ exitcode[sigchldpid[p]] = sigchldexit[p]
          BY <1>0, <4>4 DEF ChildRecordOK, TypeOK, FieldTypes
        <5>2. sigchldpid[p] # self
          BY <2>1, <5>1
        <5> QED BY <1>0, <2>1, <2>2, <5>1, <5>2 DEF TypeOK, FieldTypes
      <4> QED BY <4>1, <4>2, <4>3, <4>4
    <3>3. /\ sigchldpid'[ppid[self]] = self /\ sigchldexit'[ppid[self]] = status
          /\ state'[self] = "TaskQuit" /\ exitcode'[self] = status
      BY <1>0, <2>1, <2>2, <3>1 DEF TypeOK, FieldTypes
    <3> HIDE DEF OwnWait, self, parent
    <3> SUFFICES ASSUME NEW p \in Pid
                 PROVE  /\ sigchldpid'[p] # KERNEL_PID =>
                             /\ ppid[sigchldpid'[p]] = p /\ state'[sigchldpid'[p]] = "TaskQuit"
                             /\ exitcode'[sigchldpid'[p]] = sigchldexit'[p]
                        /\ state'[p] # "TaskQuit" /\ sigpend'[p] # NoSig =>
                             sigchldpid'[p] # KERNEL_PID
                        /\ pc'[p] \in OwnWait /\ state'[p] = "TaskReady" =>
                             sigchldpid'[p] # KERNEL_PID
                        /\ \A i \in 1 .. Len(calls'[p]) :
                             calls'[p][i] \in OwnWait => sigchldpid'[p] # KERNEL_PID
      BY <2>2 DEF ChildRecordOK
    <3>4. CASE p = ppid[self]
      BY <2>1, <3>3, <3>4
    <3>5. CASE p # ppid[self]
      <4>1. /\ state[p] # "TaskQuit" /\ sigpend[p] # NoSig => sigchldpid[p] # KERNEL_PID
            /\ pc[p] \in OwnWait /\ state[p] = "TaskReady" => sigchldpid[p] # KERNEL_PID
            /\ \A i \in 1 .. Len(calls[p]) :
                 calls[p][i] \in OwnWait => sigchldpid[p] # KERNEL_PID
        BY <1>0 DEF ChildRecordOK
      <4>2. \A i \in 1 .. Len(calls'[p]) :
              calls'[p][i] \in OwnWait => sigchldpid[p] # KERNEL_PID
        BY <2>2b, <4>1
      <4> QED BY ONLY <2>2a, <3>2, <3>5, <4>1, <4>2
    <3> QED BY <3>4, <3>5
  <2> QED BY <2>3, <2>4
<1>10. HandlerOK'
  BY <1>0, <1>P DEF HandlerOK, TypeOK, FieldTypes
<1> QED
  BY <1>1, <1>2, <1>3, <1>4, <1>5, <1>6, <1>7, <1>8, <1>9, <1>10 DEF IInv

\* wait4 puts the caller to sleep.
LEMMA Wait4IInv ==
  ASSUME NEW nohang \in BOOLEAN, IInv, Wait4(nohang)
  PROVE  IInv'
<1> USE PidFacts DEF NoSig, SIGCHLD, SIGTERM, TaskStates, PCs, Live, Linked,
   InWait4, OwnWait
<1>0. TypeOK /\ LinksOK /\ RunningClean /\ KernelOK /\ Unborn /\ RunnerOK /\
      CloneOK /\ ReadyWaitsForNothing /\ ChildRecordOK /\ HandlerOK
  BY DEF IInv
<1>1. TypeOK'
  BY <1>0 DEF Wait4, task_sigwait, Running, InProgram, Caller, family, links, TypeOK, FieldTypes, StackTypes, LinksOK
<1>2. LinksOK'
  BY <1>0 DEF Wait4, task_sigwait, Running, InProgram, Caller, family, links, TypeOK, FieldTypes, LinksOK,
     KernelOK, Unborn
<1>3. RunningClean'
  BY <1>0 DEF Wait4, task_sigwait, Running, InProgram, Caller, family, links, TypeOK, FieldTypes,
     RunningClean, RunnerOK, CloneOK, ReadyWaitsForNothing, LinksOK
<1>4. KernelOK'
  BY <1>0 DEF Wait4, task_sigwait, Running, InProgram, Caller, family, links, TypeOK, FieldTypes, KernelOK
<1>5. Unborn'
  BY <1>0 DEF Wait4, task_sigwait, Running, InProgram, Caller, family, links, TypeOK, FieldTypes, Unborn,
     LinksOK
<1>6. RunnerOK'
  BY <1>0 DEF Wait4, task_sigwait, Running, InProgram, Caller, family, links, TypeOK, FieldTypes, RunnerOK,
     LinksOK
<1>7. CloneOK'
  BY <1>0 DEF Wait4, task_sigwait, Running, InProgram, Caller, family, links, TypeOK, FieldTypes, CloneOK,
     Unborn, RunningClean, RunnerOK, KernelOK, LinksOK
<1>8. ReadyWaitsForNothing'
  BY <1>0 DEF Wait4, task_sigwait, Running, InProgram, Caller, family, links, TypeOK, FieldTypes,
     ReadyWaitsForNothing, RunningClean, RunnerOK, LinksOK
<1>9. ChildRecordOK'
  BY <1>0 DEF Wait4, task_sigwait, Running, InProgram, Caller, family, links, TypeOK, FieldTypes,
     ChildRecordOK, RunnerOK, Unborn, RunningClean, LinksOK
<1>10. HandlerOK'
  BY <1>0 DEF Wait4, task_sigwait, InProgram, Running, TypeOK, FieldTypes, HandlerOK
<1> QED
  BY <1>1, <1>2, <1>3, <1>4, <1>5, <1>6, <1>7, <1>8, <1>9, <1>10 DEF IInv

\* The end of wait4 changes the program counter only.
LEMMA Wait4ReturnIInv ==
  ASSUME IInv, Wait4Return
  PROVE  IInv'
<1> USE PidFacts DEF NoSig, SIGCHLD, SIGTERM, TaskStates, PCs, Live, Linked,
   InWait4, OwnWait
<1>0. TypeOK /\ LinksOK /\ RunningClean /\ KernelOK /\ Unborn /\ RunnerOK /\
      CloneOK /\ ReadyWaitsForNothing /\ ChildRecordOK /\ HandlerOK
  BY DEF IInv
<1>1. (TypeOK /\ LinksOK)'
  BY <1>0 DEF Wait4Return, Running, InProgram, Caller, family, signals, program, links, TypeOK, FieldTypes, StackTypes, LinksOK,
     KernelOK, Unborn
<1>2. (RunningClean /\ KernelOK /\ Unborn /\ RunnerOK)'
  BY <1>0 DEF Wait4Return, Running, InProgram, Caller, family, signals, program, links, TypeOK, FieldTypes,
     RunningClean, KernelOK, Unborn, RunnerOK, CloneOK, ReadyWaitsForNothing,
     LinksOK
<1>3. (CloneOK /\ ReadyWaitsForNothing /\ ChildRecordOK)'
  BY <1>0 DEF Wait4Return, Running, InProgram, Caller, family, signals, program, links, TypeOK, FieldTypes, CloneOK,
     ReadyWaitsForNothing, ChildRecordOK, Unborn, RunningClean, RunnerOK,
     KernelOK, LinksOK
<1>4. HandlerOK'
  BY <1>0 DEF Wait4Return, Caller, TypeOK, FieldTypes, HandlerOK
<1> QED
  BY <1>1, <1>2, <1>3, <1>4 DEF IInv

\* rt_sigsuspend puts the caller to sleep.
LEMMA RtSigsuspendIInv ==
  ASSUME IInv, RtSigsuspend
  PROVE  IInv'
<1> USE PidFacts DEF NoSig, SIGCHLD, SIGTERM, TaskStates, PCs, Live, Linked,
   InWait4, OwnWait
<1>0. TypeOK /\ LinksOK /\ RunningClean /\ KernelOK /\ Unborn /\ RunnerOK /\
      CloneOK /\ ReadyWaitsForNothing /\ ChildRecordOK /\ HandlerOK
  BY DEF IInv
<1>1. TypeOK'
  BY <1>0 DEF RtSigsuspend, task_sigwait, Running, InProgram, Caller, family, links, TypeOK, FieldTypes, StackTypes,
     LinksOK
<1>2. LinksOK'
  BY <1>0 DEF RtSigsuspend, task_sigwait, Running, InProgram, Caller, family, links, TypeOK, FieldTypes,
     LinksOK, KernelOK, Unborn
<1>3. RunningClean'
  BY <1>0 DEF RtSigsuspend, task_sigwait, Running, InProgram, Caller, family, links, TypeOK, FieldTypes,
     RunningClean, RunnerOK, CloneOK, ReadyWaitsForNothing, LinksOK
<1>4. KernelOK'
  BY <1>0 DEF RtSigsuspend, task_sigwait, Running, InProgram, Caller, family, links, TypeOK, FieldTypes,
     KernelOK
<1>5. Unborn'
  BY <1>0 DEF RtSigsuspend, task_sigwait, Running, InProgram, Caller, family, links, TypeOK, FieldTypes,
     Unborn, LinksOK
<1>6. RunnerOK'
  BY <1>0 DEF RtSigsuspend, task_sigwait, Running, InProgram, Caller, family, links, TypeOK, FieldTypes,
     RunnerOK, LinksOK
<1>7. CloneOK'
  BY <1>0 DEF RtSigsuspend, task_sigwait, Running, InProgram, Caller, family, links, TypeOK, FieldTypes,
     CloneOK, Unborn, RunningClean, RunnerOK, KernelOK, LinksOK
<1>8. ReadyWaitsForNothing'
  BY <1>0 DEF RtSigsuspend, task_sigwait, Running, InProgram, Caller, family, links, TypeOK, FieldTypes,
     ReadyWaitsForNothing, RunningClean, RunnerOK, LinksOK
<1>9. ChildRecordOK'
  BY <1>0 DEF RtSigsuspend, task_sigwait, Running, InProgram, Caller, family, links, TypeOK, FieldTypes,
     ChildRecordOK, RunnerOK, Unborn, RunningClean, LinksOK
<1>10. HandlerOK'
  BY <1>0 DEF RtSigsuspend, task_sigwait, InProgram, Running, TypeOK, FieldTypes, HandlerOK
<1> QED
  BY <1>1, <1>2, <1>3, <1>4, <1>5, <1>6, <1>7, <1>8, <1>9, <1>10 DEF IInv

\* The end of rt_sigsuspend changes the program counter only.
LEMMA RtSigsuspendReturnIInv ==
  ASSUME IInv, RtSigsuspendReturn
  PROVE  IInv'
<1> USE PidFacts DEF NoSig, SIGCHLD, SIGTERM, TaskStates, PCs, Live, Linked,
   InWait4, OwnWait
<1>0. TypeOK /\ LinksOK /\ RunningClean /\ KernelOK /\ Unborn /\ RunnerOK /\
      CloneOK /\ ReadyWaitsForNothing /\ ChildRecordOK /\ HandlerOK
  BY DEF IInv
<1>1. (TypeOK /\ LinksOK)'
  BY <1>0 DEF RtSigsuspendReturn, Running, InProgram, Caller, family, signals, program, links, TypeOK, FieldTypes, StackTypes,
     LinksOK, KernelOK, Unborn
<1>2. (RunningClean /\ KernelOK /\ Unborn /\ RunnerOK)'
  BY <1>0 DEF RtSigsuspendReturn, Running, InProgram, Caller, family, signals, program, links, TypeOK, FieldTypes,
     RunningClean, KernelOK, Unborn, RunnerOK, CloneOK, ReadyWaitsForNothing,
     LinksOK
<1>3. (CloneOK /\ ReadyWaitsForNothing /\ ChildRecordOK)'
  BY <1>0 DEF RtSigsuspendReturn, Running, InProgram, Caller, family, signals, program, links, TypeOK, FieldTypes,
     CloneOK, ReadyWaitsForNothing, ChildRecordOK, Unborn, RunningClean,
     RunnerOK, KernelOK, LinksOK
<1>4. HandlerOK'
  BY <1>0 DEF RtSigsuspendReturn, Caller, TypeOK, FieldTypes, HandlerOK
<1> QED
  BY <1>1, <1>2, <1>3, <1>4 DEF IInv

\* sched_yield starts the scheduler's walk at the caller.
LEMMA YieldIInv ==
  ASSUME IInv, Yield
  PROVE  IInv'
<1> USE PidFacts DEF NoSig, SIGCHLD, SIGTERM, TaskStates, PCs, Live, Linked,
   InWait4, OwnWait
<1>0. TypeOK /\ LinksOK /\ RunningClean /\ KernelOK /\ Unborn /\ RunnerOK /\
      CloneOK /\ ReadyWaitsForNothing /\ ChildRecordOK /\ HandlerOK
  BY DEF IInv
<1>1. (TypeOK /\ LinksOK)'
  BY <1>0 DEF Yield, Running, InProgram, Caller, family, signals, program, links, TypeOK, FieldTypes, StackTypes, LinksOK,
     KernelOK, Unborn
<1>2. (RunningClean /\ KernelOK /\ Unborn /\ RunnerOK)'
  BY <1>0 DEF Yield, Running, InProgram, Caller, family, signals, program, links, TypeOK, FieldTypes, RunningClean,
     KernelOK, Unborn, RunnerOK, CloneOK, ReadyWaitsForNothing, LinksOK
<1>3. (CloneOK /\ ReadyWaitsForNothing /\ ChildRecordOK)'
  BY <1>0 DEF Yield, Running, InProgram, Caller, family, signals, program, links, TypeOK, FieldTypes, StackTypes, CloneOK,
     ReadyWaitsForNothing, ChildRecordOK, Unborn, RunningClean, RunnerOK,
     KernelOK, LinksOK
<1>4. HandlerOK'
  BY <1>0 DEF Yield, program, TypeOK, FieldTypes, HandlerOK
<1> QED
  BY <1>1, <1>2, <1>3, <1>4 DEF IInv

\* So does the timer.
LEMMA PreemptIInv ==
  ASSUME IInv, Preempt
  PROVE  IInv'
<1> USE PidFacts DEF NoSig, SIGCHLD, SIGTERM, TaskStates, PCs, Live, Linked,
   InWait4, OwnWait
<1>0. TypeOK /\ LinksOK /\ RunningClean /\ KernelOK /\ Unborn /\ RunnerOK /\
      CloneOK /\ ReadyWaitsForNothing /\ ChildRecordOK /\ HandlerOK
  BY DEF IInv
<1>1. (TypeOK /\ LinksOK)'
  BY <1>0 DEF Preempt, family, signals, program, links, TypeOK, FieldTypes, StackTypes, LinksOK, KernelOK,
     Unborn
<1>2. (RunningClean /\ KernelOK /\ Unborn /\ RunnerOK)'
  BY <1>0 DEF Preempt, family, signals, program, links, TypeOK, FieldTypes, RunningClean, KernelOK,
     Unborn, RunnerOK, CloneOK, ReadyWaitsForNothing, LinksOK
<1>3. (CloneOK /\ ReadyWaitsForNothing /\ ChildRecordOK)'
  BY <1>0 DEF Preempt, family, signals, program, links, TypeOK, FieldTypes, CloneOK,
     ReadyWaitsForNothing, ChildRecordOK, Unborn, RunningClean, RunnerOK,
     KernelOK, LinksOK
<1>4. HandlerOK'
  BY <1>0 DEF Preempt, program, TypeOK, FieldTypes, HandlerOK
<1> QED
  BY <1>1, <1>2, <1>3, <1>4 DEF IInv

\* Unlinking a quit task bridges the gap and leaves the cursor a way on.
LEMMA WalkUnlinkIInv ==
  ASSUME IInv, WalkUnlink
  PROVE  IInv'
<1> USE PidFacts DEF NoSig, SIGCHLD, SIGTERM, TaskStates, PCs, Live, Linked,
   InWait4, OwnWait
<1>0. TypeOK /\ LinksOK /\ RunningClean /\ KernelOK /\ Unborn /\ RunnerOK /\
      CloneOK /\ ReadyWaitsForNothing /\ ChildRecordOK /\ HandlerOK
  BY DEF IInv
<1>1. TypeOK'
  BY <1>0 DEF WalkUnlink, list_remove_next, list_remove_prev, family, signals, program,      TypeOK, FieldTypes, LinksOK
<1>2. LinksOK'
  BY <1>0 DEF WalkUnlink, list_remove_next, list_remove_prev, family, signals, program,      TypeOK, FieldTypes, LinksOK, KernelOK, Unborn
<1>3. RunningClean'
  <2>1. next_task' # NULL
    BY <1>0 DEF WalkUnlink, LinksOK
  <2> QED BY <2>1 DEF RunningClean
<1>4. KernelOK'
  BY <1>0 DEF WalkUnlink, list_remove_next, list_remove_prev, family, signals, program,      TypeOK, FieldTypes, KernelOK
<1>5. Unborn'
  BY <1>0 DEF WalkUnlink, list_remove_next, list_remove_prev, family, signals, program,      TypeOK, FieldTypes, Unborn, LinksOK
<1>6. RunnerOK'
  BY <1>0 DEF WalkUnlink, list_remove_next, list_remove_prev, family, signals, program,      TypeOK, FieldTypes, RunnerOK, LinksOK
<1>7. CloneOK'
  BY <1>0 DEF WalkUnlink, list_remove_next, list_remove_prev, family, signals, program,      TypeOK, FieldTypes, CloneOK, Unborn, RunningClean, RunnerOK, KernelOK, LinksOK
<1>8. ReadyWaitsForNothing'
  BY <1>0 DEF WalkUnlink, list_remove_next, list_remove_prev, family, signals, program,      TypeOK, FieldTypes, ReadyWaitsForNothing, RunningClean, RunnerOK, LinksOK
<1>9. ChildRecordOK'
  BY <1>0 DEF WalkUnlink, list_remove_next, list_remove_prev, family, signals, program,      TypeOK, FieldTypes, ChildRecordOK, RunnerOK, Unborn, RunningClean, LinksOK
<1>10. HandlerOK'
  BY <1>0 DEF WalkUnlink, program, TypeOK, FieldTypes, HandlerOK
<1> QED
  BY <1>1, <1>2, <1>3, <1>4, <1>5, <1>6, <1>7, <1>8, <1>9, <1>10 DEF IInv

\* Passing a sleeper moves the cursor to a linked successor.
LEMMA WalkPastIInv ==
  ASSUME IInv, WalkPast
  PROVE  IInv'
<1> USE PidFacts DEF NoSig, SIGCHLD, SIGTERM, TaskStates, PCs, Live, Linked,
   InWait4, OwnWait
<1>0. TypeOK /\ LinksOK /\ RunningClean /\ KernelOK /\ Unborn /\ RunnerOK /\
      CloneOK /\ ReadyWaitsForNothing /\ ChildRecordOK /\ HandlerOK
  BY DEF IInv
<1>1. (TypeOK /\ LinksOK)'
  BY <1>0 DEF WalkPast, family, signals, program, links, TypeOK, FieldTypes, StackTypes, LinksOK, KernelOK,
     Unborn
<1>2. (RunningClean /\ KernelOK /\ Unborn /\ RunnerOK)'
  BY <1>0 DEF WalkPast, family, signals, program, links, TypeOK, FieldTypes, RunningClean, KernelOK,
     Unborn, RunnerOK, CloneOK, ReadyWaitsForNothing, LinksOK
<1>3. (CloneOK /\ ReadyWaitsForNothing /\ ChildRecordOK)'
  BY <1>0 DEF WalkPast, family, signals, program, links, TypeOK, FieldTypes, CloneOK,
     ReadyWaitsForNothing, ChildRecordOK, Unborn, RunningClean, RunnerOK,
     KernelOK, LinksOK
<1>4. HandlerOK'
  BY <1>0 DEF WalkPast, program, TypeOK, FieldTypes, HandlerOK
<1> QED
  BY <1>1, <1>2, <1>3, <1>4 DEF IInv

\* The task entered is ready, took its signal, and if it was in wait4 has a record.
LEMMA WalkEnterIInv ==
  ASSUME IInv, WalkEnter
  PROVE  IInv'
<1> USE PidFacts DEF NoSig, SIGCHLD, SIGTERM, TaskStates, PCs, Live, Linked,
   InWait4, OwnWait
<1>0. TypeOK /\ LinksOK /\ RunningClean /\ KernelOK /\ Unborn /\ RunnerOK /\
      CloneOK /\ ReadyWaitsForNothing /\ ChildRecordOK /\ HandlerOK
  BY DEF IInv
<1>N. PICK n \in Pid : n = next[next_task] /\ Linked(n)
  BY <1>0 DEF WalkEnter, LinksOK
<1>E. /\ \/ state[n] = "TaskReady"
         \/ /\ state[n] = "TaskSigWait" /\ sigpend[n] # NoSig
            /\ sigpend[n] = sigwait[n] \/ sigwait[n] = NoSig
      /\ state' = [state EXCEPT ![n] = "TaskReady"]
      /\ CurrentTask' = n /\ next_task' = NULL
      /\ context' = [context EXCEPT ![CurrentTask] = "store", ![n] = "store"]
      /\ UNCHANGED <<next_pid, ppid, childcount, exitcode, next, prev,
                     sigchldpid, sigchldexit, handlers>>
  BY <1>N DEF WalkEnter, task_enter, Wakeable, family, links
<1>S. \/ /\ context[n] = "fork" /\ n # CurrentTask
         /\ UNCHANGED <<sigpend, sigwait, pc, calls>>
      \/ /\ sigwait' = [sigwait EXCEPT ![n] = IF @ = sigpend[n] THEN NoSig ELSE @]
         /\ sigpend' = [sigpend EXCEPT ![n] = NoSig]
         /\ RunHandler(n)
  BY <1>0, <1>N DEF WalkEnter, task_enter, task_signal_exec, TypeOK, FieldTypes
<1>H. \/ UNCHANGED <<pc, calls>>
      \/ /\ sigpend[n] # NoSig /\ n \in handlers
         /\ pc' = [pc EXCEPT ![n] = "handler"]
         /\ calls' = [calls EXCEPT ![n] = Append(calls[n], pc[n])]
  BY <1>0, <1>S DEF RunHandler, TypeOK, FieldTypes
<1>C. /\ Append(calls[n], pc[n]) \in Seq(PCs) /\ Append(calls[n], pc[n]) # <<>>
      /\ Len(Append(calls[n], pc[n])) = Len(calls[n]) + 1 /\ Len(calls[n]) \in Nat
      /\ Append(calls[n], pc[n])[Len(calls[n]) + 1] = pc[n]
      /\ \A i \in 1 .. Len(calls[n]) : Append(calls[n], pc[n])[i] = calls[n][i]
  <2>1. calls[n] \in Seq(PCs) /\ pc[n] \in PCs
    BY <1>0 DEF TypeOK, FieldTypes, StackTypes
  <2> QED BY <2>1, PushFacts
<1>W. sigpend'[n] = NoSig /\ sigwait'[n] = NoSig
  BY <1>0, <1>E, <1>S DEF TypeOK, FieldTypes, CloneOK, ReadyWaitsForNothing
<1>O. \A p \in Pid \ {n} : /\ sigpend'[p] = sigpend[p] /\ sigwait'[p] = sigwait[p]
                            /\ state'[p] = state[p] /\ pc'[p] = pc[p]
                            /\ calls'[p] = calls[p]
  <2>1. \A p \in Pid \ {n} : sigpend'[p] = sigpend[p] /\ sigwait'[p] = sigwait[p]
    BY <1>0, <1>S DEF TypeOK, FieldTypes
  <2>2. \A p \in Pid \ {n} : state'[p] = state[p]
    BY <1>0, <1>E DEF TypeOK, FieldTypes
  <2> HIDE DEF PCs
  <2>3. \A p \in Pid \ {n} : pc'[p] = pc[p]
    BY <1>0, <1>H DEF TypeOK, FieldTypes
  <2>4. \A p \in Pid \ {n} : calls'[p] = calls[p]
    BY <1>0, <1>H DEF TypeOK, StackTypes
  <2> QED BY <2>1, <2>2, <2>3, <2>4
<1>1. TypeOK'
  <2>1. pc' \in [Pid -> PCs]
    BY <1>0, <1>H DEF TypeOK, FieldTypes
  <2>1a. calls' \in [Pid -> Seq(PCs)]
    <3> HIDE DEF PCs
    <3>1. calls \in [Pid -> Seq(PCs)]
      BY <1>0 DEF TypeOK, FieldTypes, StackTypes
    <3>2. CASE calls' = calls
      BY <3>1, <3>2
    <3>3. CASE calls' = [calls EXCEPT ![n] = Append(calls[n], pc[n])]
      BY <1>C, <3>1, <3>3
    <3> QED BY <1>H, <3>2, <3>3
  <2>2. /\ sigpend' \in [Pid -> {NoSig, SIGTERM, SIGCHLD}]
        /\ sigwait' \in [Pid -> {NoSig, SIGCHLD}]
    BY <1>0, <1>S DEF TypeOK, FieldTypes
  <2> QED BY <1>0, <1>E, <2>1, <2>1a, <2>2 DEF TypeOK, FieldTypes, StackTypes
<1>2. LinksOK'
  BY <1>0, <1>N, <1>E DEF LinksOK, TypeOK, FieldTypes
<1>3. RunningClean'
  BY <1>E, <1>W DEF RunningClean
<1>4. KernelOK'
  BY <1>0, <1>E, <1>H DEF KernelOK, TypeOK, FieldTypes, StackTypes
<1>5. Unborn'
  <2>1. n < next_pid
    BY <1>0, <1>N DEF Unborn, TypeOK, FieldTypes, StackTypes
  <2>2. ASSUME NEW p \in Pid, p >= next_pid
        PROVE  p # n /\ context'[p] = "store"
    BY <1>0, <1>E, <2>1, <2>2 DEF Unborn, TypeOK, FieldTypes
  <2>3. UNCHANGED <<next_pid, ppid, prev, handlers>> /\ CurrentTask' = n
    BY <1>E
  <2> QED BY ONLY <1>0, <1>O, <2>1, <2>2, <2>3 DEF Unborn
<1>6. RunnerOK'
  BY <1>0, <1>E, <1>O DEF RunnerOK, TypeOK, FieldTypes
<1>7. CloneOK'
  <2>1. ASSUME NEW p \in Pid, context'[p] = "fork"
        PROVE  p # n /\ context[p] = "fork"
    BY <1>0, <1>E, <2>1 DEF TypeOK, FieldTypes
  <2>2. ppid' = ppid /\ CurrentTask' = n
    BY <1>E
  <2> QED BY ONLY <1>0, <1>O, <2>1, <2>2 DEF CloneOK
<1>8. ReadyWaitsForNothing'
  BY <1>0, <1>E, <1>W, <1>O DEF ReadyWaitsForNothing, TypeOK, FieldTypes
<1>9. ChildRecordOK'
  <2>1. \A p \in Pid : state'[p] = "TaskQuit" <=> state[p] = "TaskQuit"
    BY <1>0, <1>E DEF TypeOK, FieldTypes
  <2>2. \A p \in Pid : sigchldpid[p] # KERNEL_PID =>
          /\ ppid'[sigchldpid[p]] = p /\ state'[sigchldpid[p]] = "TaskQuit"
          /\ exitcode'[sigchldpid[p]] = sigchldexit[p]
    BY <1>0, <1>E, <2>1 DEF ChildRecordOK, TypeOK, FieldTypes
  <2>3. \A p \in Pid \ {n} :
          /\ state'[p] # "TaskQuit" /\ sigpend'[p] # NoSig => sigchldpid[p] # KERNEL_PID
          /\ pc'[p] \in OwnWait /\ state'[p] = "TaskReady" => sigchldpid[p] # KERNEL_PID
          /\ \A i \in 1 .. Len(calls'[p]) : calls'[p][i] \in OwnWait => sigchldpid[p] # KERNEL_PID
    BY <1>0, <1>O DEF ChildRecordOK
  <2>4. pc'[n] \in OwnWait => sigchldpid[n] # KERNEL_PID
    <3>1. pc'[n] \in OwnWait => pc[n] \in OwnWait
      BY <1>0, <1>H DEF TypeOK, FieldTypes
    <3>2. state[n] # "TaskQuit" /\ (state[n] = "TaskReady" \/ sigpend[n] # NoSig)
      BY <1>E
    <3> QED BY <1>0, <3>1, <3>2 DEF ChildRecordOK
  <2>5. ASSUME NEW i \in 1 .. Len(calls'[n]), calls'[n][i] \in OwnWait
        PROVE  sigchldpid[n] # KERNEL_PID
    <3>1. CASE UNCHANGED <<pc, calls>>
      BY <1>0, <2>5, <3>1 DEF ChildRecordOK
    <3>2. CASE sigpend[n] # NoSig
      BY <1>0, <1>E, <3>2 DEF ChildRecordOK
    <3> QED BY <1>H, <3>1, <3>2
  <2> HIDE DEF OwnWait
  <2> QED BY <1>E, <1>W, <2>2, <2>3, <2>4, <2>5 DEF ChildRecordOK
<1>10. HandlerOK'
  <2>1. CASE UNCHANGED <<pc, calls>>
    BY <1>0, <2>1 DEF HandlerOK
  <2>2. CASE calls' = [calls EXCEPT ![n] = Append(calls[n], pc[n])]
    <3>1. calls'[n] = Append(calls[n], pc[n])
      BY <1>0, <2>2 DEF TypeOK, FieldTypes, StackTypes
    <3>2. Append(calls[n], pc[n])[1] # "handler"
      <4>1. CASE Len(calls[n]) = 0
        <5>1. calls[n] = <<>>
          BY <1>0, <4>1 DEF TypeOK, FieldTypes
        <5> QED BY <1>0, <1>C, <4>1, <5>1 DEF HandlerOK
      <4>2. CASE Len(calls[n]) # 0
        BY <1>0, <1>C, <4>2 DEF HandlerOK
      <4> QED BY <4>1, <4>2
    <3> QED BY <1>0, <1>C, <1>O, <3>1, <3>2 DEF HandlerOK
  <2> QED BY <1>H, <2>1, <2>2
<1> QED
  BY <1>1, <1>2, <1>3, <1>4, <1>5, <1>6, <1>7, <1>8, <1>9, <1>10 DEF IInv

\* Setting a handler changes nothing else.
LEMMA SignalIInv ==
  ASSUME NEW set \in BOOLEAN, IInv, task_signal(set)
  PROVE  IInv'
<1> USE PidFacts DEF Live, Linked, InWait4
<1>0. TypeOK /\ LinksOK /\ RunningClean /\ KernelOK /\ Unborn /\ RunnerOK /\
      CloneOK /\ ReadyWaitsForNothing /\ ChildRecordOK /\ HandlerOK
  BY DEF IInv
<1>1. /\ UNCHANGED <<next_pid, ppid, childcount, exitcode, sigpend, sigwait, sigchldpid,
                     sigchldexit, next, prev, state, context, CurrentTask, next_task,
                     pc, calls>>
      /\ handlers' \subseteq handlers \union {CurrentTask}
      /\ CurrentTask \in Pid /\ pc[CurrentTask] \in {"user", "handler"}
  BY <1>0 DEF task_signal, InProgram, family, signals, links, TypeOK, FieldTypes
<1>2. (TypeOK /\ LinksOK /\ RunningClean)'
  BY <1>0, <1>1 DEF TypeOK, FieldTypes, StackTypes, LinksOK, RunningClean
<1>3. KernelOK'
  <2>1. CurrentTask # KERNEL_PID
    BY <1>0, <1>1 DEF KernelOK
  <2> QED BY <1>0, <1>1, <2>1 DEF KernelOK
<1>4. Unborn'
  <2>1. ASSUME NEW p \in Pid, p >= next_pid
        PROVE  p # CurrentTask
    BY <1>0, <2>1 DEF Unborn, TypeOK, FieldTypes
  <2> QED BY <1>0, <1>1, <2>1 DEF Unborn
<1>5. (RunnerOK /\ CloneOK /\ ReadyWaitsForNothing)'
  BY <1>0, <1>1 DEF RunnerOK, CloneOK, ReadyWaitsForNothing
<1>6. (ChildRecordOK /\ HandlerOK)'
  BY <1>0, <1>1 DEF ChildRecordOK, HandlerOK
<1> QED BY <1>2, <1>3, <1>4, <1>5, <1>6 DEF IInv

\* A handler returns to what it interrupted: if that was a wait4, the record is set.
LEMMA HandlerReturnIInv ==
  ASSUME IInv, HandlerReturn
  PROVE  IInv'
<1> USE PidFacts DEF PCs, Live, Linked, InWait4, OwnWait
<1>0. TypeOK /\ LinksOK /\ RunningClean /\ KernelOK /\ Unborn /\ RunnerOK /\
      CloneOK /\ ReadyWaitsForNothing /\ ChildRecordOK /\ HandlerOK
  BY DEF IInv
<1>N. PICK n \in Pid : n = CurrentTask
  BY <1>0 DEF TypeOK, FieldTypes
<1>1. PICK s \in Seq(PCs) : s = calls[n] /\ s # <<>>
  BY <1>0, <1>N DEF HandlerReturn, HandlerOK, TypeOK, FieldTypes, StackTypes
<1>2. /\ Running(n) /\ pc[n] = "handler"
      /\ UNCHANGED <<next_pid, ppid, childcount, exitcode, sigpend, sigwait, sigchldpid,
                     sigchldexit, next, prev, state, context, CurrentTask, next_task,
                     handlers>>
      /\ pc' = [pc EXCEPT ![n] = s[Len(s)]]
      /\ calls' = [calls EXCEPT ![n] = SubSeq(s, 1, Len(s) - 1)]
  BY <1>N, <1>1 DEF HandlerReturn, family, signals, links
<1>3. PICK r \in Seq(PCs) :
        /\ r = SubSeq(s, 1, Len(s) - 1) /\ Len(r) = Len(s) - 1
        /\ \A i \in 1 .. Len(s) - 1 : r[i] = s[i]
        /\ Len(s) \in Nat \ {0} /\ s[Len(s)] \in PCs
  BY <1>1, PopFacts
<1>4. /\ pc'[n] = s[Len(s)] /\ calls'[n] = r
      /\ \A p \in Pid \ {n} : pc'[p] = pc[p] /\ calls'[p] = calls[p]
      /\ pc' \in [Pid -> PCs] /\ calls' \in [Pid -> Seq(PCs)]
  BY <1>0, <1>2, <1>3 DEF TypeOK, FieldTypes, StackTypes
<1>5. n # KERNEL_PID /\ n < next_pid /\ state[n] # "TaskQuit"
  BY <1>0, <1>N, <1>2 DEF KernelOK, Unborn, RunnerOK
<1>6. (TypeOK /\ LinksOK /\ RunningClean)'
  BY <1>0, <1>2, <1>4 DEF TypeOK, FieldTypes, StackTypes, LinksOK, RunningClean
<1>7. (KernelOK /\ RunnerOK /\ CloneOK /\ ReadyWaitsForNothing)'
  BY <1>0, <1>2, <1>4, <1>5 DEF KernelOK, RunnerOK, CloneOK, ReadyWaitsForNothing
<1>8. Unborn'
  <2>1. \A p \in Pid : p >= next_pid => p # n
    BY <1>0, <1>5 DEF TypeOK, FieldTypes
  <2> QED BY <1>0, <1>2, <1>4, <2>1 DEF Unborn
<1>9. ChildRecordOK'
  <2>1. \A i \in 1 .. Len(s) : s[i] \in OwnWait => sigchldpid[n] # KERNEL_PID
    BY <1>0, <1>1 DEF ChildRecordOK
  <2>2. pc'[n] \in OwnWait => sigchldpid[n] # KERNEL_PID
    BY <1>3, <1>4, <2>1
  <2>3. \A i \in 1 .. Len(calls'[n]) : calls'[n][i] \in OwnWait => sigchldpid[n] # KERNEL_PID
    <3>1. \A i \in 1 .. Len(r) : i \in 1 .. Len(s) /\ r[i] = s[i]
      BY <1>3
    <3> QED BY <1>4, <2>1, <3>1
  <2>4. UNCHANGED <<sigchldpid, sigchldexit, sigpend, ppid, state, exitcode>>
    BY <1>2
  <2>5. \A p \in Pid \ {n} : pc'[p] = pc[p] /\ calls'[p] = calls[p]
    BY <1>4
  <2> HIDE DEF OwnWait
  <2> QED BY ONLY <1>0, <2>2, <2>3, <2>4, <2>5 DEF ChildRecordOK
<1>10. HandlerOK'
  <2>1. s[1] # "handler"
    BY <1>0, <1>1 DEF HandlerOK
  <2>2. pc'[n] = "handler" => calls'[n] # <<>>
    <3>1. r = <<>> => Len(s) = 1
      <4>1. r = <<>> => Len(r) = 0
        OBVIOUS
      <4> QED BY <1>3, <4>1
    <3> QED BY <1>4, <2>1, <3>1
  <2>3. calls'[n] # <<>> => calls'[n][1] # "handler"
    <3>1. r # <<>> => 1 \in 1 .. Len(s) - 1
      BY <1>3
    <3> QED BY <1>3, <1>4, <2>1, <3>1
  <2> QED BY <1>0, <1>4, <2>2, <2>3 DEF HandlerOK
<1> QED BY <1>6, <1>7, <1>8, <1>9, <1>10 DEF IInv

-----------------------------------------------------------------------------

\* Every step keeps IInv: one lemma per action of Next.
LEMMA StepIInv ==
  ASSUME IInv, [Next]_vars
  PROVE  IInv'
<1>1. CASE Next
  BY <1>1, ForkIInv, ExitIInv, Wait4IInv, Wait4ReturnIInv, RtSigsuspendIInv,
     RtSigsuspendReturnIInv, YieldIInv, PreemptIInv, WalkUnlinkIInv,
     WalkPastIInv, WalkEnterIInv, SignalIInv, HandlerReturnIInv DEF Next
<1>2. CASE UNCHANGED vars
  <2> USE <1>2 DEF vars, IInv, Live, Linked, InWait4
  <2>1. (TypeOK /\ LinksOK /\ RunningClean /\ KernelOK)'
    BY DEF TypeOK, FieldTypes, StackTypes, LinksOK, RunningClean, KernelOK
  <2>2. (Unborn /\ RunnerOK /\ CloneOK /\ ReadyWaitsForNothing)'
    BY DEF Unborn, RunnerOK, CloneOK, ReadyWaitsForNothing
  <2>3. (ChildRecordOK /\ HandlerOK)'
    BY DEF ChildRecordOK, HandlerOK
  <2> QED BY <2>1, <2>2, <2>3
<1> QED BY <1>1, <1>2

\* Only the return of wait4 reports, and it reports one child.
LEMMA WhoReports ==
  ASSUME IInv, Next, NEW p \in Pid, Reports(p)
  PROVE  Wait4Return /\ p = CurrentTask
<1> USE PidFacts DEF InWait4, OwnWait
<1>0. TypeOK /\ LinksOK /\ Unborn
  BY DEF IInv
<1>1. /\ pc[p] \in {"wait4", "wait4_nohang", "wait4_copy"}
      /\ pc'[p] # pc[p] /\ calls'[p] = calls[p]
  BY DEF Reports
<1>2. ~ Fork
  <2> SUFFICES ASSUME Fork PROVE FALSE
    OBVIOUS
  <2>1. /\ CurrentTask \in Pid /\ next_pid \in Pid /\ pc[next_pid] = "user"
        /\ pc[CurrentTask] \in {"kmain", "user", "handler"}
        /\ pc' = [pc EXCEPT ![CurrentTask] = IF @ = "kmain" THEN "spin" ELSE @,
                            ![next_pid] = Caller(CurrentTask)]
    BY <1>0 DEF Fork, TypeOK, FieldTypes, Unborn
  <2> QED BY <1>0, <1>1, <2>1 DEF TypeOK, FieldTypes
<1>3. ~ (\E status \in ExitCodes : Exit(status)) /\ ~ HandlerReturn
  BY <1>0, <1>1 DEF Exit, HandlerReturn, InProgram, TypeOK, FieldTypes
<1>4. ~ (\E nohang \in BOOLEAN : Wait4(nohang)) /\ ~ RtSigsuspend /\ ~ RtSigsuspendReturn
  BY <1>0, <1>1 DEF Wait4, RtSigsuspend, RtSigsuspendReturn, task_sigwait, InProgram, TypeOK, FieldTypes
<1>5. ~ Yield /\ ~ Preempt /\ ~ WalkUnlink /\ ~ WalkPast
      /\ ~ (\E set \in BOOLEAN : task_signal(set))
  BY <1>1 DEF Yield, Preempt, WalkUnlink, WalkPast, task_signal, program
<1>6. ~ WalkEnter
  <2> SUFFICES ASSUME WalkEnter PROVE FALSE
    OBVIOUS
  <2>1. PICK n \in Pid : n = next[next_task]
    BY <1>0 DEF WalkEnter, LinksOK
  <2>2. \/ UNCHANGED <<pc, calls>>
        \/ /\ pc' = [pc EXCEPT ![n] = "handler"]
           /\ calls' = [calls EXCEPT ![n] = Append(calls[n], pc[n])]
    BY <1>0, <2>1 DEF WalkEnter, task_enter, task_signal_exec, RunHandler, TypeOK, FieldTypes
  <2>3. calls[n] \in Seq(PCs) /\ pc[n] \in PCs
    BY <1>0 DEF TypeOK, FieldTypes, StackTypes
  <2>4. Append(calls[n], pc[n]) # calls[n]
    BY <2>3, PushFacts
  <2> QED BY <1>0, <1>1, <2>2, <2>4 DEF TypeOK, FieldTypes, StackTypes
<1>7. Wait4Return
  BY <1>2, <1>3, <1>4, <1>5, <1>6 DEF Next
<1> QED BY <1>0, <1>1, <1>7 DEF Wait4Return, TypeOK, FieldTypes

\* IInv is an inductive invariant.
THEOREM Invariance == Spec => []IInv
BY InitIInv, StepIInv, PTL DEF Spec

\* Every field of the task structures keeps its type: in particular the walk
\* never follows a null or dangling list pointer.
THEOREM TypeCorrect == Spec => []TypeOK
<1>1. IInv => TypeOK
  BY DEF IInv
<1> QED BY <1>1, Invariance, PTL

\* The task list stays doubly linked and contains every live task, whatever is
\* forked behind and unlinked under the scheduler's cursor.
THEOREM ListIsLinked == Spec => []LinksOK
<1>1. IInv => LinksOK
  BY DEF IInv
<1> QED BY <1>1, Invariance, PTL

\* The task on the CPU has no signal left to take: clones inherit none.
THEOREM RunnerHasNoSignal == Spec => []RunningClean
<1>1. IInv => RunningClean
  BY DEF IInv
<1> QED BY <1>1, Invariance, PTL

\* A wait4 that returns reports a dead child of the caller and its exit code.
THEOREM WaitIsTruthful == Spec => WaitReportsDeadChild
<1>1. IInv /\ [Next]_vars => [ReportsDeadChild]_vars
  <2> SUFFICES ASSUME IInv, Next, NEW p \in Pid, Reports(p), pc[p] \in OwnWait
               PROVE  LET c == sigchldpid[p] IN
                      /\ c # KERNEL_PID /\ ppid[c] = p
                      /\ state[c] = "TaskQuit" /\ exitcode[c] = sigchldexit[p]
    BY DEF ReportsDeadChild
  <2>1. Wait4Return /\ p = CurrentTask
    BY WhoReports
  <2>2. state[p] = "TaskReady"
    BY <2>1 DEF IInv, TypeOK, FieldTypes, RunnerOK, Wait4Return, Running, OwnWait
  <2> QED BY <2>2 DEF IInv, ChildRecordOK
<1> QED BY <1>1, Invariance, PTL DEF Spec, WaitReportsDeadChild
=============================================================================
