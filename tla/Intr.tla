-------------------------------- MODULE Intr --------------------------------
(***************************************************************************)
(* Interrupts of ak: the two interrupt controllers and their masks         *)
(* (arch/x86/intr/pic.c), the common entry and exit of every interrupt     *)
(* (isr_root.S, idt_handler), system calls (arch/x86/syscall.c), the       *)
(* switch between tasks (kern_sched_yield, task_enter) and every place     *)
(* that changes the interrupt flag.  The other modules take for granted    *)
(* which steps nothing can interrupt; this one checks it.                  *)
(*                                                                         *)
(* Programs run in ring 0, so an interrupt continues on the stack of the   *)
(* task it interrupts.  A task is its stack of activations: its program,   *)
(* and the system calls, interrupts and signal handlers that are active    *)
(* above it.  Which task the scheduler picks, and whether a signal is      *)
(* pending for it, is left open: see Tasks.                                *)
(***************************************************************************)
EXTENDS Integers, Sequences

CONSTANTS MaxPid,     \* bound on the tasks; task 0 is KernelTask
          MaxDepth    \* bound on the depth of a stack

ASSUME IntrAssumption == MaxPid \in Nat /\ MaxDepth \in Nat /\ MaxDepth >= 4

Task == 0 .. MaxPid

PIT == 0      \* the timer
KBD == 1      \* the keyboard
RTC == 8      \* a device of the second controller nobody handles
IRQs == {PIT, KBD, RTC}
CASCADE == 2  \* the line of the first controller the second one is connected to
PIC1 == 0 .. 7

VARIABLES
  live,       \* tasks that have been forked and have not exited
  stack,      \* per task: its activations, the innermost last
  cur,        \* the task that has the CPU
  flag,       \* the interrupt flag of the CPU
  irr,        \* interrupts requested and not yet taken
  isr,        \* interrupts in service: taken and not yet acknowledged
  imr         \* interrupts masked

vars == <<live, stack, cur, flag, irr, isr, imr>>
pic == <<irr, isr, imr>>

(***************************************************************************)
(* An activation: what it is ("program", "handler" of a signal, "call", or *)
(* the number of an interrupt as "irq"), the interrupt flag its iret will  *)
(* restore, and where it is:                                               *)
(*   "boot", "unmasked"  kmain before its intr_enable                      *)
(*   "run"               a program or a handler                            *)
(*   "entry"             an interrupt, before pic_eoi                      *)
(*   "body"              a system call or an interrupt's callback          *)
(*   "yield"             the system call sched_yield                       *)
(*   "sigwait"           in task_sigwait, waiting for its sched_yield      *)
(*   "switched"          in task_enter, the registers are saved            *)
(*   "signalled"         in task_enter, in a handler or back from it       *)
(*   "tail"              behind the intr_enable of kern_sched_yield        *)
(*   "read", "exit"      in the loop of console_read or sys_exit           *)
(*   "ret"               nothing left to do but return                     *)
(***************************************************************************)
Activation(what, irq, saved, at) == [what |-> what, irq |-> irq, saved |-> saved, at |-> at]
Program(at) == Activation("program", PIT, TRUE, at)

Top(s) == s[Len(s)]
Below(s) == SubSeq(s, 1, Len(s) - 1)
At(s, place) == [s EXCEPT ![Len(s)].at = place]

top == Top(stack[cur])

\* kmain after sched_init: interrupts off, the timer masked by
\* task_enable_preempt, the other masks as pic_remap found them.
Init ==
  /\ live = {0}
  /\ stack = [t \in Task |-> <<Program(IF t = 0 THEN "boot" ELSE "run")>>]
  /\ cur = 0 /\ flag = FALSE
  /\ irr = {} /\ isr = {}
  /\ imr \in {{PIT} \union m : m \in SUBSET {KBD, RTC}}

-----------------------------------------------------------------------------
(* The devices and the controllers *)

\* A tick of the timer, a key, or a device of the second controller.
Request(irq) ==
  /\ irr' = irr \union {irq}
  /\ UNCHANGED <<live, stack, cur, flag, isr, imr>>

\* The line of the first controller an interrupt comes in on.  It is passed on
\* if nothing at least as important is in service.
Line(irq) == IF irq \in PIC1 THEN irq ELSE CASCADE
Deliverable(irq) ==
  /\ flag /\ Len(stack[cur]) < MaxDepth
  /\ irq \in irr \ imr /\ irq \notin isr
  /\ \A i \in isr \intersect PIC1 : Line(irq) < i

\* The CPU takes a deliverable interrupt before the next instruction.
Interrupted == \E irq \in IRQs : Deliverable(irq)

pic_unmask(irq) == imr' = imr \ {irq}

Highest(S) == {i \in S : \A j \in S : i <= j}

\* Mutant: one controller or the other is acknowledged.
pic_eoi_Either(irq) ==
  IF irq >= RTC THEN isr' = isr \ {RTC} ELSE isr' = isr \ Highest(isr \intersect PIC1)

\* An acknowledgement ends the most important interrupt in service.  The second
\* controller gets one only for interrupts above its first.
pic_eoi(irq) ==
  isr' = isr \ (Highest(isr \intersect PIC1)
                  \union IF irq > RTC THEN Highest(isr \ PIC1) ELSE {})

-----------------------------------------------------------------------------
(* Entering and leaving *)

\* Mutant: idt_encode_trap: the flag stays as it is.
gate_Trap == flag

\* idt_encode_interrupt: every gate clears the flag.
gate == FALSE

Enter(act) == stack' = [stack EXCEPT ![cur] = Append(@, act)]
Goto(place) == stack' = [stack EXCEPT ![cur] = At(@, place)]

\* idt_cb_common for an interrupt.
Interrupt(irq) ==
  /\ Deliverable(irq) /\ \A i \in IRQs : Deliverable(i) => irq <= i
  /\ Enter(Activation("irq", irq, flag, "entry"))
  /\ flag' = gate
  /\ irr' = irr \ {irq}
  /\ isr' = isr \union {irq, Line(irq)}
  /\ UNCHANGED <<live, cur, imr>>

\* Mutant: the callback is left to acknowledge, and sched_preempt does not.
idt_handler_NoEoi ==
  /\ ~Interrupted /\ top.at = "entry"
  /\ IF top.irq = PIT THEN UNCHANGED isr ELSE pic_eoi(top.irq)
  /\ Goto("body")
  /\ UNCHANGED <<live, cur, flag, irr, imr>>

\* idt_handler acknowledges before it calls the callback.
idt_handler ==
  /\ ~Interrupted /\ top.at = "entry"
  /\ pic_eoi(top.irq)
  /\ Goto("body")
  /\ UNCHANGED <<live, cur, flag, irr, imr>>

\* The bound on calls leaves room for what a call may nest.
HasRoom == Len(stack[cur]) + 2 < MaxDepth

\* int 0x80 in a program or in a handler, to any system call but sched_yield
\* ("body") or to sched_yield.
syscall_interrupt(place) ==
  /\ ~Interrupted /\ top.at = "run" /\ HasRoom
  /\ Enter(Activation("call", PIT, flag, place))
  /\ flag' = gate
  /\ UNCHANGED <<live, cur, pic>>

\* A callback other than the timer's, a system call that has nothing to do with
\* interrupts, and what is left of the others: the rest of idt_cb_common.  The
\* iret restores the flag.  task_sigwait goes on when its sched_yield returns.
Returns(act) ==
  act.at \in {"tail", "read", "ret"} \/ (act.at = "body" /\ ~(act.what = "irq" /\ act.irq = PIT))
iret ==
  LET s == Below(stack[cur]) IN
  /\ ~Interrupted /\ top.what \in {"call", "irq"} /\ Returns(top)
  /\ flag' = top.saved
  /\ stack' = [stack EXCEPT ![cur] = IF Top(s).at = "sigwait" THEN At(s, "ret") ELSE s]
  /\ UNCHANGED <<live, cur, pic>>

-----------------------------------------------------------------------------
(* What system calls do with the flag and with the CPU *)

InCall == ~Interrupted /\ top.what = "call" /\ top.at = "body"

\* console_read enables interrupts.
console_read ==
  /\ InCall
  /\ Goto("read")
  /\ flag' = TRUE
  /\ UNCHANGED <<live, cur, pic>>

\* sys_exit marks the task and enables interrupts.  KernelTask never exits.
sys_exit ==
  /\ InCall /\ cur # 0
  /\ live' = live \ {cur}
  /\ Goto("exit")
  /\ flag' = TRUE
  /\ UNCHANGED <<cur, pic>>

\* The clone gets a copy of the stack, and will return from this call.
sys_fork(c) ==
  /\ InCall /\ c \notin live /\ Len(stack[c]) = 1
  /\ live' = live \union {c}
  /\ stack' = [stack EXCEPT ![cur] = At(@, "ret"), ![c] = At(stack[cur], "ret")]
  /\ UNCHANGED <<cur, flag, pic>>

\* Mutant: no sti before the jump to the program.
sys_execve_NoSti ==
  /\ InCall
  /\ stack' = [stack EXCEPT ![cur] = <<Program("run")>>]
  /\ UNCHANGED <<live, cur, flag, pic>>

\* arch_exec enables interrupts and jumps to the program, never to return.
sys_execve ==
  /\ InCall
  /\ stack' = [stack EXCEPT ![cur] = <<Program("run")>>]
  /\ flag' = TRUE
  /\ UNCHANGED <<live, cur, pic>>

\* sys_wait4 and sys_rt_sigsuspend: task_sigwait calls the C library's
\* sched_yield, a system call within the system call.
task_sigwait ==
  /\ InCall
  /\ stack' = [stack EXCEPT ![cur] = Append(At(@, "sigwait"), Activation("call", PIT, flag, "yield"))]
  /\ flag' = gate
  /\ UNCHANGED <<live, cur, pic>>

\* kern_sched_yield and task_enter up to the switch, from sched_preempt and from
\* sys_sched_yield.
kern_sched_yield(t) ==
  /\ ~Interrupted /\ t \in live
  /\ top.at = "yield" \/ (top.what = "irq" /\ top.irq = PIT /\ top.at = "body")
  /\ Goto("switched")
  /\ cur' = t
  /\ flag' = FALSE
  /\ UNCHANGED <<live, pic>>

\* task_signal_exec calls a handler.
task_signal_exec ==
  /\ ~Interrupted /\ top.at = "switched" /\ HasRoom
  /\ stack' = [stack EXCEPT ![cur] =
                 Append(At(@, "signalled"), Activation("handler", PIT, flag, "run"))]
  /\ UNCHANGED <<live, cur, flag, pic>>

HandlerReturn(t) ==
  /\ ~Interrupted /\ cur = t /\ top.what = "handler"
  /\ stack' = [stack EXCEPT ![cur] = Below(@)]
  /\ UNCHANGED <<live, cur, flag, pic>>

\* The rest of task_enter and of kern_sched_yield.
intr_enable ==
  /\ ~Interrupted /\ top.at \in {"switched", "signalled"}
  /\ Goto("tail")
  /\ flag' = TRUE
  /\ UNCHANGED <<live, cur, pic>>

\* kmain: task_unmask_preempt, intr_enable, and then it is a program.
kmain ==
  \/ /\ top.at = "boot" /\ Goto("unmasked")
     /\ pic_unmask(PIT)
     /\ UNCHANGED <<live, cur, flag, irr, isr>>
  \/ /\ top.at = "unmasked" /\ Goto("run")
     /\ flag' = TRUE
     /\ UNCHANGED <<live, cur, pic>>

Kernel ==
  \/ \E irq \in IRQs : Interrupt(irq)
  \/ idt_handler
  \/ top.at # "read" /\ iret
  \/ \E t \in Task : kern_sched_yield(t)
  \/ intr_enable
  \/ kmain

Programs ==
  \/ \E place \in {"body", "yield"} : syscall_interrupt(place)
  \/ console_read
  \/ top.at = "read" /\ iret
  \/ sys_exit
  \/ \E c \in Task : sys_fork(c)
  \/ sys_execve
  \/ task_sigwait
  \/ task_signal_exec
  \/ \E t \in Task : HandlerReturn(t)

Next == (\E irq \in IRQs : Request(irq)) \/ Kernel \/ Programs

Spec == Init /\ [][Next]_vars

\* The CPU keeps executing the kernel, and signal handlers end.  Nothing is
\* assumed of programs or of the keyboard.
FairSpec == Spec /\ WF_vars(Kernel) /\ \A t \in Task : SF_vars(HandlerReturn(t))

-----------------------------------------------------------------------------

Kernelspace == {"entry", "body", "yield", "sigwait", "switched", "signalled", "ret"}

\* System calls and interrupts are atomic: no interrupt is taken in the middle of
\* one, of any task, however calls, switches and handlers nest, except in the
\* loops of console_read and sys_exit and behind the intr_enable of
\* kern_sched_yield.  This is what lets the other modules make a system call one
\* step.  It rests on task_sigwait yielding through a system call of its own,
\* whose iret takes back that intr_enable.
CallsAtomic ==
  /\ flag => top.at \notin Kernelspace
  /\ \A t \in Task : \A i \in 1 .. Len(stack[t]) - 1 :
       stack[t][i].at \in Kernelspace => stack[t][i + 1].what # "irq"

\* Every program can be preempted: also a clone, which returns from fork without
\* passing the intr_enable of kern_sched_yield, and a program started by execve
\* from within a handler.  Only signal handlers run with interrupts off.
ProgramsPreemptible ==
  /\ top.what = "program" /\ top.at = "run" => flag
  /\ top.what = "handler" => ~flag

\* An interrupt of the first controller is acknowledged before its callback can
\* switch to another task: so an interrupt is in service only in the first
\* moments of its activation, on the stack of the task that has the CPU.
AcknowledgedFirst ==
  \A i \in isr \intersect PIC1 : top.what = "irq" /\ top.at = "entry" /\ i = Line(top.irq)

\* A tick of the timer is always taken, whatever tasks do: this is the fairness of
\* Preempt that Tasks assumes.
TicksAreTaken == PIT \in irr /\ PIT \notin imr ~> PIT \notin irr
=============================================================================
