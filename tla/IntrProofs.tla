----------------------------- MODULE IntrProofs -----------------------------
(***************************************************************************)
(* Theorems about Intr for any number of tasks and any depth of stacks.    *)
(* The properties speak of the activation on top; what makes them hold     *)
(* when it returns is a relation between every activation of every stack   *)
(* and the one above it (Over), which is settled when the upper one is     *)
(* entered and which nothing that happens above can disturb.               *)
(***************************************************************************)
EXTENDS Intr, SequenceTheorems, TLAPS

\* Where an activation of each kind can be.
Places == [program |-> {"boot", "unmasked", "run"},
           handler |-> {"run"},
           call    |-> {"body", "yield", "sigwait", "switched", "signalled", "tail",
                        "read", "exit", "ret"},
           irq     |-> {"entry", "body", "switched", "signalled", "tail"}]
AllPlaces == {"boot", "unmasked", "run", "entry", "body", "yield", "sigwait", "switched",
              "signalled", "tail", "read", "exit", "ret"}

Act == {a \in [what: {"program", "handler", "call", "irq"}, irq: IRQs, saved: BOOLEAN,
               at: AllPlaces] : a.at \in Places[a.what]}

\* b was entered from a: interrupts only where they are enabled, so not in the
\* kernel, and with the flag saved; handlers only from task_enter; and the flag
\* that b will restore is the one a ran with.
Over(b, a) ==
  /\ b.what # "program"
  /\ b.what = "irq" => b.saved
  /\ b.what = "handler" => a.at = "signalled"
  /\ a.at \in Kernelspace => ~b.saved
  /\ a.what = "handler" => ~b.saved
  /\ a.what = "program" => b.saved

StackOK(s) ==
  /\ s \in Seq(Act) /\ Len(s) >= 1 /\ s[1].what = "program"
  /\ \A i \in 1 .. Len(s) - 1 : Over(s[i + 1], s[i])

TypeI ==
  /\ live \subseteq Task /\ cur \in Task /\ flag \in BOOLEAN
  /\ irr \subseteq IRQs /\ isr \subseteq IRQs \union {CASCADE} /\ imr \subseteq IRQs
  /\ stack \in [Task -> Seq(Act)]

StacksOK == \A t \in Task : StackOK(stack[t])

FlagOK == (flag => top.at \notin Kernelspace) /\ ProgramsPreemptible

\* A live task that does not have the CPU is in task_enter, or a clone on its way
\* out of fork.
OffCPU == \A t \in live \ {cur} : Top(stack[t]).at \in {"switched", "ret"}

IInv == TypeI /\ StacksOK /\ FlagOK /\ OffCPU /\ AcknowledgedFirst

-----------------------------------------------------------------------------
(* The three things that happen to a stack *)

\* What a stack that is in order has on top.
LEMMA TopFacts ==
  ASSUME NEW s, StackOK(s)
  PROVE  /\ s \in Seq(Act) /\ Len(s) \in Nat /\ Len(s) >= 1 /\ Top(s) \in Act
         /\ Top(s).what = "program" \/ Len(s) >= 2
         /\ Len(s) = 1 => Top(s).what = "program"
BY LenProperties, ElementOfSeq DEF StackOK, Top

\* The activation on top moves on.
LEMMA AtOK ==
  ASSUME NEW s, StackOK(s), NEW place \in AllPlaces, place \in Places[Top(s).what]
  PROVE  /\ StackOK(At(s, place)) /\ Len(At(s, place)) = Len(s)
         /\ Top(At(s, place)).at = place
         /\ Top(At(s, place)).what = Top(s).what
         /\ Top(At(s, place)).irq = Top(s).irq
         /\ Top(At(s, place)).saved = Top(s).saved
         /\ \A i \in 1 .. Len(s) - 1 : At(s, place)[i] = s[i]
<1> DEFINE a == [s[Len(s)] EXCEPT !.at = place]
           r == At(s, place)
<1>1. s \in Seq(Act) /\ Len(s) \in Nat /\ Len(s) >= 1 /\ s[Len(s)] \in Act
  BY TopFacts DEF Top
<1>2. /\ a \in Act /\ a.at = place /\ a.what = s[Len(s)].what
      /\ a.irq = s[Len(s)].irq /\ a.saved = s[Len(s)].saved
  BY <1>1 DEF Act, Top
<1>3. r = [s EXCEPT ![Len(s)] = a]
  BY <1>1, LenProperties DEF At
<1> HIDE DEF a, r
<1>4. /\ r \in Seq(Act) /\ Len(r) = Len(s)
      /\ \A j \in 1 .. Len(s) : r[j] = IF j = Len(s) THEN a ELSE s[j]
  BY <1>1, <1>2, <1>3, ExceptSeq
<1>5. r[1].what = "program"
  BY <1>1, <1>2, <1>4 DEF StackOK
<1>6. \A i \in 1 .. Len(s) - 1 : Over(r[i + 1], r[i])
  BY <1>1, <1>2, <1>4 DEF StackOK, Over
<1>7. StackOK(r)
  BY <1>1, <1>4, <1>5, <1>6 DEF StackOK
<1> QED BY <1>1, <1>2, <1>4, <1>7 DEF r, Top

\* An activation is entered.
LEMMA AppendOK ==
  ASSUME NEW s, StackOK(s), NEW a \in Act, Over(a, Top(s))
  PROVE  StackOK(Append(s, a)) /\ Top(Append(s, a)) = a /\ Len(Append(s, a)) = Len(s) + 1
<1> DEFINE r == Append(s, a)
<1>1. s \in Seq(Act) /\ Len(s) \in Nat /\ Len(s) >= 1
  BY TopFacts
<1>2. /\ r \in Seq(Act) /\ Len(r) = Len(s) + 1
      /\ \A i \in 1 .. Len(s) : r[i] = s[i]
      /\ r[Len(s) + 1] = a
  BY <1>1, AppendProperties
<1> HIDE DEF r
<1>3. \A i \in 1 .. Len(r) - 1 : Over(r[i + 1], r[i])
  BY <1>1, <1>2 DEF StackOK, Top
<1>4. StackOK(r) /\ Top(r) = a
  BY <1>1, <1>2, <1>3 DEF StackOK, Top
<1> QED BY <1>2, <1>4 DEF r

\* An activation is left.
LEMMA BelowOK ==
  ASSUME NEW s, StackOK(s), Top(s).what # "program"
  PROVE  StackOK(Below(s)) /\ Over(Top(s), Top(Below(s))) /\ Len(Below(s)) = Len(s) - 1
<1> DEFINE r == Below(s)
           n == Len(s) - 1
<1>1. s \in Seq(Act) /\ Len(s) \in Nat /\ Len(s) >= 2 /\ n \in Nat
  BY TopFacts
<1>2. \A i \in 1 .. n : s[i] \in Act
  BY <1>1, ElementOfSeq
<1>3. r \in Seq(Act) /\ Len(r) = n /\ \A i \in 1 .. n : r[i] = s[i]
  BY <1>1, <1>2, SubSeqProperties DEF Below
<1> HIDE DEF r
<1>4. StackOK(r)
  BY <1>1, <1>3 DEF StackOK
<1>5. Over(Top(s), Top(r))
  <2>1. n \in 1 .. Len(s) - 1 /\ n + 1 = Len(s)
    BY <1>1
  <2>2. Over(s[n + 1], s[n])
    BY <2>1 DEF StackOK
  <2> QED BY <1>1, <1>3, <2>1, <2>2 DEF Top
<1> QED BY <1>3, <1>4, <1>5 DEF r

\* One stack changes, to one that is in order.
LEMMA Update ==
  ASSUME TypeI, StacksOK, NEW s, StackOK(s), stack' = [stack EXCEPT ![cur] = s]
  PROVE  /\ StacksOK' /\ stack' \in [Task -> Seq(Act)]
         /\ stack'[cur] = s /\ \A t \in Task \ {cur} : stack'[t] = stack[t]
<1>1. s \in Seq(Act)
  BY DEF StackOK
<1> QED BY <1>1 DEF TypeI, StacksOK

\* The stack of the task that has the CPU.
LEMMA CurFacts ==
  ASSUME IInv
  PROVE  /\ cur \in Task /\ flag \in BOOLEAN
         /\ StackOK(stack[cur]) /\ top \in Act
         /\ top.at \in Kernelspace => ~flag
BY TopFacts DEF IInv, TypeI, StacksOK, FlagOK, top

-----------------------------------------------------------------------------

\* kmain starts with interrupts off.
LEMMA InitIInv == Init => IInv
<1> SUFFICES ASSUME Init
             PROVE  IInv
  OBVIOUS
<1>1. 0 \in Task
  BY IntrAssumption DEF Task
<1>2. \A t \in Task : StackOK(stack[t]) /\ stack[t] \in Seq(Act)
                      /\ Top(stack[t]) = stack[t][1] /\ Len(stack[t]) = 1
  BY DEF Init, StackOK, Program, Activation, Act, Places, AllPlaces, Top, IRQs, PIT
<1>3. TypeI
  BY <1>1, <1>2 DEF Init, TypeI, IRQs, PIT, KBD, RTC
<1>4. FlagOK
  BY <1>1, <1>2 DEF Init, FlagOK, ProgramsPreemptible, top, Program, Activation, Kernelspace
<1>5. OffCPU /\ AcknowledgedFirst
  BY DEF Init, OffCPU, AcknowledgedFirst
<1> QED BY <1>2, <1>3, <1>4, <1>5 DEF IInv, StacksOK

\* A device raises its line.
LEMMA RequestIInv ==
  ASSUME IInv, NEW irq \in IRQs, Request(irq)
  PROVE  IInv'
BY DEF IInv, Request, TypeI, StacksOK, FlagOK, ProgramsPreemptible, OffCPU, AcknowledgedFirst,
   top

\* An interrupt is taken only where the flag is set, so not in the kernel, and so
\* none is in service.
LEMMA InterruptIInv ==
  ASSUME IInv, NEW irq \in IRQs, Interrupt(irq)
  PROVE  IInv'
<1> DEFINE a == Activation("irq", irq, flag, "entry")
           s == Append(stack[cur], a)
<1>0. TypeI /\ StacksOK /\ FlagOK /\ OffCPU /\ AcknowledgedFirst
  BY DEF IInv
<1>1. /\ cur \in Task /\ StackOK(stack[cur]) /\ top \in Act
      /\ flag = TRUE /\ top.at \notin Kernelspace /\ top.what # "handler"
  BY <1>0, CurFacts DEF Interrupt, Deliverable, FlagOK, ProgramsPreemptible, TypeI
<1>2. a \in Act /\ Over(a, top)
  BY <1>1 DEF Activation, Act, Places, AllPlaces, Over
<1>3. StackOK(s) /\ Top(s) = a
  BY <1>1, <1>2, AppendOK DEF top
<1>4. /\ stack' = [stack EXCEPT ![cur] = s] /\ cur' = cur /\ live' = live
      /\ flag' = FALSE /\ imr' = imr /\ irr' = irr \ {irq}
      /\ isr' = isr \union {irq, Line(irq)}
  BY DEF Interrupt, Enter, gate
<1> HIDE DEF s
<1>5. /\ StacksOK' /\ stack' \in [Task -> Seq(Act)]
      /\ stack'[cur] = s /\ \A t \in Task \ {cur} : stack'[t] = stack[t]
  BY <1>0, <1>3, <1>4, Update
<1>6. top' = a
  BY <1>3, <1>4, <1>5 DEF top
<1>7. isr \intersect PIC1 = {}
  BY <1>0, <1>1 DEF AcknowledgedFirst, Kernelspace
<1>8. TypeI'
  BY <1>0, <1>4, <1>5 DEF TypeI, Line
<1>9. FlagOK'
  BY <1>4, <1>6 DEF FlagOK, ProgramsPreemptible, Activation
<1>10. OffCPU'
  BY <1>0, <1>4, <1>5 DEF OffCPU, TypeI
<1>11. AcknowledgedFirst'
  BY <1>4, <1>6, <1>7 DEF AcknowledgedFirst, Activation, Line, IRQs, PIT, KBD, RTC, PIC1
<1> QED BY <1>5, <1>8, <1>9, <1>10, <1>11 DEF IInv

\* A step of the task that has the CPU, on its own stack, with nothing in service
\* on the first controller.
LEMMA StayIInv ==
  ASSUME IInv, NEW s, StackOK(s),
         stack' = [stack EXCEPT ![cur] = s], cur' = cur, live' \subseteq live,
         flag' \in BOOLEAN, flag' => Top(s).at \notin Kernelspace,
         Top(s).what = "program" /\ Top(s).at = "run" => flag',
         Top(s).what = "handler" => ~flag',
         irr' = irr, isr' \subseteq isr, isr' \intersect PIC1 = {}, imr' \subseteq imr
  PROVE  IInv'
<1>0. TypeI /\ StacksOK /\ FlagOK /\ OffCPU /\ AcknowledgedFirst
  BY DEF IInv
<1>1. /\ StacksOK' /\ stack' \in [Task -> Seq(Act)]
      /\ stack'[cur] = s /\ \A t \in Task \ {cur} : stack'[t] = stack[t]
  BY <1>0, Update
<1>2. top' = Top(s)
  BY <1>1 DEF top
<1>3. TypeI'
  BY <1>0, <1>1 DEF TypeI
<1>4. FlagOK'
  BY <1>2 DEF FlagOK, ProgramsPreemptible
<1>5. OffCPU'
  BY <1>0, <1>1 DEF OffCPU, TypeI
<1>6. AcknowledgedFirst'
  BY DEF AcknowledgedFirst
<1> QED BY <1>1, <1>3, <1>4, <1>5, <1>6 DEF IInv

\* Past its first moments, an activation has nothing in service.
LEMMA NothingInService ==
  ASSUME IInv, top.at # "entry"
  PROVE  isr \intersect PIC1 = {}
BY DEF IInv, AcknowledgedFirst

\* The acknowledgement ends the one interrupt in service.
LEMMA HandlerIInv ==
  ASSUME IInv, idt_handler
  PROVE  IInv'
<1> DEFINE s == At(stack[cur], "body")
<1>1. StackOK(stack[cur]) /\ top \in Act /\ flag = FALSE /\ top.at = "entry" /\ top.what = "irq"
  BY CurFacts DEF idt_handler, Kernelspace, Act, Places
<1>2. StackOK(s) /\ Top(s).at = "body" /\ Top(s).what = "irq"
  BY <1>1, AtOK DEF top, Places, AllPlaces
<1>3. /\ stack' = [stack EXCEPT ![cur] = s] /\ cur' = cur /\ live' = live
      /\ flag' = flag /\ irr' = irr /\ imr' = imr /\ pic_eoi(top.irq)
  BY DEF idt_handler, Goto
<1>4. isr \intersect PIC1 \subseteq {Line(top.irq)}
  BY DEF IInv, AcknowledgedFirst
<1>5. Line(top.irq) \in Int
  BY <1>1 DEF Line, Act, IRQs, PIT, KBD, RTC, CASCADE
<1>6. isr' \subseteq isr /\ isr' \intersect PIC1 = {}
  BY <1>3, <1>4, <1>5 DEF pic_eoi, Highest
<1> HIDE DEF s
<1> QED BY <1>1, <1>2, <1>3, <1>6, StayIInv

\* A system call is entered from a program with interrupts on, or from a handler
\* with interrupts off.
LEMMA SyscallIInv ==
  ASSUME IInv, NEW place \in {"body", "yield"}, syscall_interrupt(place)
  PROVE  IInv'
<1> DEFINE a == Activation("call", PIT, flag, place)
           s == Append(stack[cur], a)
<1>1. /\ StackOK(stack[cur]) /\ top \in Act /\ flag \in BOOLEAN
      /\ top.at = "run" /\ top.what \in {"program", "handler"}
  BY CurFacts DEF syscall_interrupt, Act, Places
<1>2. a \in Act
  BY <1>1 DEF Activation, Act, Places, AllPlaces, IRQs
<1>3. (top.what = "program" => flag) /\ (top.what = "handler" => ~flag)
  BY <1>1 DEF IInv, FlagOK, ProgramsPreemptible
<1>4. Over(a, top)
  BY <1>1, <1>3 DEF Activation, Over, Kernelspace
<1>5. StackOK(s) /\ Top(s) = a
  BY <1>1, <1>2, <1>4, AppendOK DEF top
<1>6. /\ stack' = [stack EXCEPT ![cur] = s] /\ cur' = cur /\ live' = live
      /\ flag' = FALSE /\ irr' = irr /\ imr' = imr /\ isr' = isr
  BY DEF syscall_interrupt, Enter, gate, pic
<1>7. isr \intersect PIC1 = {}
  BY <1>1, NothingInService
<1>8. Top(s).what = "call"
  BY <1>5 DEF Activation
<1> HIDE DEF s, a
<1> QED BY <1>5, <1>6, <1>7, <1>8, StayIInv

\* The iret restores the flag that what is below ran with.
LEMMA IretIInv ==
  ASSUME IInv, iret
  PROVE  IInv'
<1> DEFINE b == Below(stack[cur])
           s == IF Top(b).at = "sigwait" THEN At(b, "ret") ELSE b
<1>1. /\ StackOK(stack[cur]) /\ top \in Act /\ top.at # "entry"
      /\ top.what \in {"call", "irq"} /\ top.saved \in BOOLEAN
  BY CurFacts DEF iret, Returns, Act
<1>2. StackOK(b) /\ Over(top, Top(b)) /\ Top(b) \in Act
  BY <1>1, BelowOK, TopFacts DEF top
<1>3. /\ stack' = [stack EXCEPT ![cur] = s] /\ cur' = cur /\ live' = live
      /\ flag' = top.saved /\ irr' = irr /\ imr' = imr /\ isr' = isr
  BY DEF iret, pic
<1>4. isr \intersect PIC1 = {}
  BY <1>1, NothingInService
<1> HIDE DEF b
<1>5. CASE Top(b).at = "sigwait"
  <2>1. Top(b).what = "call" /\ ~top.saved
    BY <1>2, <1>5 DEF Act, Places, Over, Kernelspace
  <2>2. StackOK(s) /\ Top(s).at = "ret" /\ Top(s).what = "call"
    BY <1>2, <1>5, <2>1, AtOK DEF Places, AllPlaces
  <2> HIDE DEF s
  <2> QED BY <1>1, <1>3, <1>4, <2>1, <2>2, StayIInv
<1>6. CASE Top(b).at # "sigwait"
  <2>1. s = b
    BY <1>6
  <2>2. /\ top.saved => Top(b).at \notin Kernelspace
        /\ Top(b).what = "program" => top.saved
        /\ Top(b).what = "handler" => ~top.saved
    BY <1>2 DEF Over
  <2> HIDE DEF s
  <2> QED BY <1>1, <1>2, <1>3, <1>4, <2>1, <2>2, StayIInv
<1> QED BY <1>5, <1>6

-----------------------------------------------------------------------------
(* System calls *)

\* Where a system call is, interrupts are off and nothing is in service.
LEMMA InCallFacts ==
  ASSUME IInv, InCall
  PROVE  /\ cur \in Task /\ StackOK(stack[cur]) /\ top.what = "call" /\ flag = FALSE
         /\ isr \intersect PIC1 = {} /\ Len(stack[cur]) >= 2
         /\ \A place \in Places["call"] :
              /\ StackOK(At(stack[cur], place))
              /\ Top(At(stack[cur], place)).at = place
              /\ Top(At(stack[cur], place)).what = "call"
<1>1. /\ cur \in Task /\ StackOK(stack[cur]) /\ top.what = "call" /\ flag = FALSE
      /\ top.at = "body"
  BY CurFacts DEF InCall, Kernelspace
<1>2. isr \intersect PIC1 = {} /\ Len(stack[cur]) >= 2
  BY <1>1, NothingInService, TopFacts DEF top
<1>3. ASSUME NEW place \in Places["call"]
      PROVE  /\ StackOK(At(stack[cur], place))
             /\ Top(At(stack[cur], place)).at = place
             /\ Top(At(stack[cur], place)).what = "call"
  <2>1. place \in AllPlaces
    BY DEF Places, AllPlaces
  <2> QED BY <1>1, <2>1, AtOK DEF top
<1> QED BY <1>1, <1>2, <1>3

\* The loops of console_read and sys_exit run with interrupts on, and are no
\* longer part of the kernel that is atomic.
LEMMA LoopIInv ==
  ASSUME IInv, console_read \/ sys_exit
  PROVE  IInv'
<1> PICK place \in {"read", "exit"} :
           /\ stack' = [stack EXCEPT ![cur] = At(stack[cur], place)]
           /\ live' \subseteq live
  BY DEF console_read, sys_exit, Goto
<1> DEFINE s == At(stack[cur], place)
<1>1. /\ cur' = cur /\ flag' = TRUE /\ irr' = irr /\ imr' = imr /\ isr' = isr /\ InCall
  BY DEF console_read, sys_exit, pic
<1>2. place \in Places["call"]
  BY DEF Places
<1>3. StackOK(s) /\ Top(s).at = place /\ Top(s).what = "call" /\ isr \intersect PIC1 = {}
  BY <1>1, <1>2, InCallFacts
<1>4. place \notin Kernelspace
  BY DEF Kernelspace
<1> HIDE DEF s
<1> QED BY <1>1, <1>3, <1>4, StayIInv DEF s

\* Both tasks will return from the call, with the flag it was made with.
LEMMA ForkIInv ==
  ASSUME IInv, NEW c \in Task, sys_fork(c)
  PROVE  IInv'
<1> DEFINE s == At(stack[cur], "ret")
<1>0. TypeI /\ StacksOK /\ FlagOK /\ OffCPU /\ AcknowledgedFirst
  BY DEF IInv
<1>1. /\ stack' = [stack EXCEPT ![cur] = s, ![c] = s] /\ live' = live \union {c}
      /\ cur' = cur /\ flag' = flag /\ irr' = irr /\ imr' = imr /\ isr' = isr
      /\ InCall /\ c \notin live /\ Len(stack[c]) = 1
  BY DEF sys_fork, pic
<1>2. "ret" \in Places["call"]
  BY DEF Places
<1>3. /\ StackOK(s) /\ Top(s).at = "ret" /\ Top(s).what = "call" /\ flag = FALSE
      /\ isr \intersect PIC1 = {} /\ cur \in Task
  BY <1>1, <1>2, InCallFacts
<1> HIDE DEF s
<1>4. s \in Seq(Act)
  BY <1>3 DEF StackOK
<1>5. /\ stack' \in [Task -> Seq(Act)]
      /\ \A t \in Task : stack'[t] = IF t \in {cur, c} THEN s ELSE stack[t]
  BY <1>0, <1>1, <1>3, <1>4 DEF TypeI
<1>6. TypeI' /\ StacksOK'
  BY <1>0, <1>1, <1>3, <1>5 DEF TypeI, StacksOK
<1>7. top' = Top(s)
  BY <1>1, <1>3, <1>5 DEF top
<1>8. FlagOK'
  BY <1>1, <1>3, <1>7 DEF FlagOK, ProgramsPreemptible
<1>9. OffCPU'
  <2> SUFFICES ASSUME NEW t \in live', t # cur
               PROVE  Top(stack'[t]).at \in {"switched", "ret"}
    BY <1>1 DEF OffCPU
  <2>1. t \in Task
    BY <1>6 DEF TypeI
  <2>2. CASE t = c
    BY <1>3, <1>5, <2>1, <2>2
  <2>3. CASE t # c
    BY <1>0, <1>1, <1>5, <2>1, <2>3 DEF OffCPU
  <2> QED BY <2>2, <2>3
<1>10. AcknowledgedFirst'
  BY <1>1, <1>3 DEF AcknowledgedFirst
<1> QED BY <1>6, <1>8, <1>9, <1>10 DEF IInv

\* A program that starts has the stack to itself.
LEMMA ExecveIInv ==
  ASSUME IInv, sys_execve
  PROVE  IInv'
<1> DEFINE s == <<Program("run")>>
<1>1. StackOK(s) /\ Top(s).at = "run" /\ Top(s).what = "program"
  BY DEF StackOK, Program, Activation, Act, Places, AllPlaces, Top, IRQs, PIT
<1>2. /\ stack' = [stack EXCEPT ![cur] = s] /\ cur' = cur /\ live' = live
      /\ flag' = TRUE /\ irr' = irr /\ imr' = imr /\ isr' = isr /\ InCall
  BY DEF sys_execve, pic
<1>3. isr \intersect PIC1 = {}
  BY <1>2, InCallFacts
<1>4. "run" \notin Kernelspace
  BY DEF Kernelspace
<1> HIDE DEF s
<1> QED BY <1>1, <1>2, <1>3, <1>4, StayIInv

\* The call within the call saves a flag that is off, so its iret takes back the
\* intr_enable of kern_sched_yield.
LEMMA SigwaitIInv ==
  ASSUME IInv, task_sigwait
  PROVE  IInv'
<1> DEFINE a == Activation("call", PIT, flag, "yield")
           r == At(stack[cur], "sigwait")
           s == Append(r, a)
<1>1. /\ stack' = [stack EXCEPT ![cur] = s] /\ cur' = cur /\ live' = live
      /\ flag' = FALSE /\ irr' = irr /\ imr' = imr /\ isr' = isr /\ InCall
  BY DEF task_sigwait, gate, pic
<1>2. "sigwait" \in Places["call"]
  BY DEF Places
<1>3. /\ StackOK(r) /\ Top(r).at = "sigwait" /\ Top(r).what = "call" /\ flag = FALSE
      /\ isr \intersect PIC1 = {}
  BY <1>1, <1>2, InCallFacts
<1>4. a \in Act /\ a.what = "call" /\ Over(a, Top(r))
  BY <1>3 DEF Activation, Act, Places, AllPlaces, IRQs, Over, Kernelspace
<1>5. StackOK(s) /\ Top(s) = a
  BY <1>3, <1>4, AppendOK
<1> HIDE DEF s, a
<1> QED BY <1>1, <1>3, <1>4, <1>5, StayIInv

-----------------------------------------------------------------------------
(* The switch and what follows it *)

\* The task that gets the CPU is in task_enter, or on its way out of fork.
LEMMA YieldIInv ==
  ASSUME IInv, NEW t \in Task, kern_sched_yield(t)
  PROVE  IInv'
<1> DEFINE s == At(stack[cur], "switched")
<1>0. TypeI /\ StacksOK /\ FlagOK /\ OffCPU /\ AcknowledgedFirst
  BY DEF IInv
<1>1. /\ stack' = [stack EXCEPT ![cur] = s] /\ cur' = t /\ live' = live /\ t \in live
      /\ flag' = FALSE /\ irr' = irr /\ imr' = imr /\ isr' = isr
  BY DEF kern_sched_yield, Goto, pic
<1>2. /\ cur \in Task /\ StackOK(stack[cur]) /\ top.what \in {"call", "irq"} /\ top.at # "entry"
  BY CurFacts DEF kern_sched_yield, Act, Places
<1>3. StackOK(s) /\ Top(s).at = "switched"
  BY <1>2, AtOK DEF top, Places, AllPlaces
<1>4. isr \intersect PIC1 = {}
  BY <1>2, NothingInService
<1> HIDE DEF s
<1>5. /\ StacksOK' /\ stack' \in [Task -> Seq(Act)]
      /\ stack'[cur] = s /\ \A u \in Task \ {cur} : stack'[u] = stack[u]
  BY <1>0, <1>1, <1>3, Update
<1>6. TypeI'
  BY <1>0, <1>1, <1>5 DEF TypeI
<1>7. \A u \in live : Top(stack'[u]).at \in {"switched", "ret"}
  BY <1>0, <1>3, <1>5 DEF OffCPU, TypeI
<1>8. top'.at \in {"switched", "ret"} /\ top' \in Act
  BY <1>1, <1>5, <1>7, TopFacts DEF top, StacksOK
<1>9. FlagOK'
  BY <1>1, <1>8 DEF FlagOK, ProgramsPreemptible
<1>10. OffCPU' /\ AcknowledgedFirst'
  BY <1>1, <1>4, <1>7 DEF OffCPU, AcknowledgedFirst
<1> QED BY <1>5, <1>6, <1>9, <1>10 DEF IInv

\* A handler is called from task_enter, with interrupts off.
LEMMA SignalIInv ==
  ASSUME IInv, task_signal_exec
  PROVE  IInv'
<1> DEFINE a == Activation("handler", PIT, flag, "run")
           r == At(stack[cur], "signalled")
           s == Append(r, a)
<1>1. /\ stack' = [stack EXCEPT ![cur] = s] /\ cur' = cur /\ live' = live
      /\ flag' = flag /\ irr' = irr /\ imr' = imr /\ isr' = isr /\ top.at = "switched"
  BY DEF task_signal_exec, pic
<1>2. StackOK(stack[cur]) /\ top.what \in {"call", "irq"} /\ flag = FALSE
  BY <1>1, CurFacts DEF Act, Places, Kernelspace
<1>3. StackOK(r) /\ Top(r).at = "signalled" /\ Top(r).what \in {"call", "irq"}
  BY <1>2, AtOK DEF top, Places, AllPlaces
<1>4. isr \intersect PIC1 = {}
  BY <1>1, NothingInService
<1>5. a \in Act /\ a.what = "handler" /\ Over(a, Top(r))
  BY <1>2, <1>3 DEF Activation, Act, Places, AllPlaces, IRQs, Over
<1>6. StackOK(s) /\ Top(s) = a
  BY <1>3, <1>5, AppendOK
<1> HIDE DEF s, a
<1> QED BY <1>1, <1>2, <1>4, <1>5, <1>6, StayIInv

\* A handler returns into task_enter.
LEMMA HandlerReturnIInv ==
  ASSUME IInv, NEW t \in Task, HandlerReturn(t)
  PROVE  IInv'
<1> DEFINE s == Below(stack[cur])
<1>1. /\ stack' = [stack EXCEPT ![cur] = s] /\ cur' = cur /\ live' = live
      /\ flag' = flag /\ irr' = irr /\ imr' = imr /\ isr' = isr /\ top.what = "handler"
  BY DEF HandlerReturn, pic
<1>2. StackOK(stack[cur]) /\ top.at = "run"
  BY <1>1, CurFacts DEF Act, Places
<1>3. flag = FALSE
  BY <1>1, CurFacts DEF IInv, FlagOK, ProgramsPreemptible
<1>4. StackOK(s) /\ Over(top, Top(s)) /\ Top(s) \in Act
  BY <1>1, <1>2, BelowOK, TopFacts DEF top
<1>5. Top(s).at = "signalled" /\ Top(s).what \in {"call", "irq"}
  BY <1>1, <1>4 DEF Over, Act, Places
<1>6. isr \intersect PIC1 = {}
  BY <1>2, NothingInService
<1> HIDE DEF s
<1> QED BY <1>1, <1>3, <1>4, <1>5, <1>6, StayIInv

\* Behind intr_enable a task may be interrupted again.
LEMMA EnableIInv ==
  ASSUME IInv, intr_enable
  PROVE  IInv'
<1> DEFINE s == At(stack[cur], "tail")
<1>1. /\ stack' = [stack EXCEPT ![cur] = s] /\ cur' = cur /\ live' = live
      /\ flag' = TRUE /\ irr' = irr /\ imr' = imr /\ isr' = isr
      /\ top.at \in {"switched", "signalled"}
  BY DEF intr_enable, Goto, pic
<1>2. StackOK(stack[cur]) /\ top.what \in {"call", "irq"}
  BY <1>1, CurFacts DEF Act, Places
<1>3. StackOK(s) /\ Top(s).at = "tail" /\ Top(s).what \in {"call", "irq"}
  BY <1>2, AtOK DEF top, Places, AllPlaces
<1>4. isr \intersect PIC1 = {} /\ "tail" \notin Kernelspace
  BY <1>1, NothingInService DEF Kernelspace
<1> HIDE DEF s
<1> QED BY <1>1, <1>3, <1>4, StayIInv

\* kmain unmasks the timer, and enables interrupts.
LEMMA KmainIInv ==
  ASSUME IInv, kmain
  PROVE  IInv'
<1>1. top.at \in {"boot", "unmasked"}
  BY DEF kmain
<1>2. StackOK(stack[cur]) /\ top.what = "program" /\ flag \in BOOLEAN
  BY <1>1, CurFacts DEF Act, Places
<1>3. \A place \in {"unmasked", "run"} :
        /\ StackOK(At(stack[cur], place))
        /\ Top(At(stack[cur], place)).at = place
        /\ Top(At(stack[cur], place)).what = "program"
  BY <1>2, AtOK DEF top, Places, AllPlaces
<1>4. isr \intersect PIC1 = {} /\ "unmasked" \notin Kernelspace /\ "run" \notin Kernelspace
  BY <1>1, NothingInService DEF Kernelspace
<1> DEFINE u == At(stack[cur], "unmasked")
           r == At(stack[cur], "run")
<1>5. CASE top.at = "boot"
  <2>1. /\ stack' = [stack EXCEPT ![cur] = u] /\ cur' = cur /\ live' = live
        /\ flag' = flag /\ irr' = irr /\ imr' \subseteq imr /\ isr' = isr
    BY <1>5 DEF kmain, Goto, pic_unmask
  <2>2. StackOK(u) /\ Top(u).at = "unmasked" /\ Top(u).what = "program"
    BY <1>3
  <2> HIDE DEF u
  <2> QED BY <1>2, <1>4, <2>1, <2>2, StayIInv
<1>6. CASE top.at = "unmasked"
  <2>1. /\ stack' = [stack EXCEPT ![cur] = r] /\ cur' = cur /\ live' = live
        /\ flag' = TRUE /\ irr' = irr /\ imr' = imr /\ isr' = isr
    BY <1>6 DEF kmain, Goto, pic
  <2>2. StackOK(r) /\ Top(r).at = "run" /\ Top(r).what = "program"
    BY <1>3
  <2> HIDE DEF r
  <2> QED BY <1>2, <1>4, <2>1, <2>2, StayIInv
<1> QED BY <1>1, <1>5, <1>6

-----------------------------------------------------------------------------

\* Every step keeps the invariant.
LEMMA StepIInv == IInv /\ [Next]_vars => IInv'
<1> SUFFICES ASSUME IInv, [Next]_vars
             PROVE  IInv'
  OBVIOUS
<1>1. CASE \E irq \in IRQs : Request(irq)
  BY <1>1, RequestIInv
<1>2. CASE Kernel
  BY <1>2, InterruptIInv, HandlerIInv, IretIInv, YieldIInv, EnableIInv, KmainIInv DEF Kernel
<1>3. CASE Programs
  BY <1>3, SyscallIInv, LoopIInv, IretIInv, ForkIInv, ExecveIInv, SigwaitIInv, SignalIInv,
     HandlerReturnIInv DEF Programs
<1>4. CASE UNCHANGED vars
  BY <1>4 DEF vars, IInv, TypeI, StacksOK, FlagOK, ProgramsPreemptible, OffCPU,
     AcknowledgedFirst, top
<1> QED BY <1>1, <1>2, <1>3, <1>4 DEF Next

\* The inductive invariant: every stack of activations is in order, the flag fits
\* the activation on top, and the interrupt in service is the one on top.
THEOREM Invariance == Spec => []IInv
<1> QED BY InitIInv, StepIInv, PTL DEF Spec

\* An activation above a part of the kernel is no interrupt: it would restore a
\* flag that is on, and the kernel runs with it off.
THEOREM CallsAreAtomic == Spec => []CallsAtomic
<1>1. IInv => CallsAtomic
  BY DEF IInv, StacksOK, StackOK, Over, FlagOK, CallsAtomic
<1> QED BY Invariance, <1>1, PTL

\* Every program runs with interrupts on, and every signal handler with them off:
\* after any nesting of calls, interrupts, switches, handlers, fork and execve.
THEOREM ProgramsArePreemptible == Spec => []ProgramsPreemptible
<1>1. IInv => ProgramsPreemptible
  BY DEF IInv, FlagOK
<1> QED BY Invariance, <1>1, PTL

\* Interrupts of the first controller are acknowledged before any task switch.
THEOREM AcknowledgedBeforeSwitch == Spec => []AcknowledgedFirst
<1>1. IInv => AcknowledgedFirst
  BY DEF IInv
<1> QED BY Invariance, <1>1, PTL
=============================================================================
