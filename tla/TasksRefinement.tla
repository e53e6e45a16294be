-------------------------- MODULE TasksRefinement ---------------------------
(***************************************************************************)
(* The refinement mapping from the task list and scheduler (Tasks) to the  *)
(* life of processes (ProcLife).                                           *)
(***************************************************************************)
EXTENDS Tasks

statusOf(p) ==
  CASE state[p] = "TaskInit"    -> "absent"
    [] state[p] = "TaskReady"   -> "runnable"
    [] state[p] = "TaskSigWait" -> "blocked"
    [] state[p] = "TaskQuit"    -> "dead"

PL == INSTANCE ProcLife WITH
        Proc     <- Pid,
        Root     <- KERNEL_PID,
        status   <- [p \in Pid |-> statusOf(p)],
        parent   <- ppid,
        notified <- {p \in Pid : Live(p) /\ sigpend[p] = SIGCHLD},
        running  <- CurrentTask

\* Fork, exit, wait4 and the walk of kern_sched_yield implement ProcLife: in
\* particular task_get, which walks the ring while quit tasks are being taken
\* out of it, finds every live parent, the walk never enters a quit task or a
\* sleeper no child has signalled, and it starves nobody.
ImplementsProcLife == PL!PLSpec
=============================================================================
