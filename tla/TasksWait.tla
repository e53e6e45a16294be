------------------------------ MODULE TasksWait -----------------------------
(***************************************************************************)
(* Tasks with two history variables: the children whose death wait4 has    *)
(* reported to their parent so far (the pair *status, return value of      *)
(* sys_wait4), and how deep in its handlers each task called wait4 last.   *)
(***************************************************************************)
EXTENDS Tasks

VARIABLES reported, latest

waitvars == <<vars, reported, latest>>

\* Tasks in the sleep of a wait4 they call in this step.
Calls(p) == pc[p] \in {"user", "handler"} /\ pc'[p] \in OwnWait /\ calls'[p] = calls[p]

WaitInit == Init /\ reported = {} /\ latest = [p \in Pid |-> 0]
WaitNext ==
  /\ Next
  /\ reported' = reported \union {sigchldpid[p] : p \in {q \in Pid : Reports(q)}}
  /\ latest' = [p \in Pid |-> IF Calls(p) THEN Len(calls[p]) ELSE latest[p]]

\* Once it is entered, sys_wait4 is a few instructions away from its return:
\* the timer cannot strike among them every time.
WaitFairness ==
  Fairness /\ \A p \in Pid : SF_vars(Wait4Return /\ CurrentTask = p)

WaitSpec == WaitInit /\ [][WaitNext]_waitvars /\ WaitFairness

\* No child is reported twice, whichever of its parent's wait4 calls its
\* SIGCHLD, the timer and the exits of its siblings interleave with, unless
\* a SIGCHLD handler that ran inside the wait4 called wait4 itself: sys_wait4
\* does not notice that the record it reads was read before.
NoDoubleReport ==
  [][\A p \in Pid :
       Reports(p) /\ pc[p] \in OwnWait /\ latest[p] = Len(calls[p]) =>
         sigchldpid[p] \notin reported]_waitvars

\* sys/wait.h says of wait: "Wait for a child to die.  When one does, put its
\* status in *STAT_LOC and return its process ID."  So a wait4 that a program,
\* not a handler, called while it has a dead child nobody was told of must
\* return.  The code waits for the next SIGCHLD instead: one that was raised
\* before the call has been consumed by task_signal_exec.
DeadChildEndsWait ==
  \A p, c \in Pid :
    /\ pc[p] \in OwnWait /\ calls[p] = <<>>
    /\ c # KERNEL_PID /\ ppid[c] = p /\ state[c] = "TaskQuit" /\ c \notin reported
    ~> ~InWait4(p)
=============================================================================
