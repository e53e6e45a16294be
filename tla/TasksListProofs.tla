-------------------------- MODULE TasksListProofs ---------------------------
(***************************************************************************)
(* What the task list is for, for every number of processes: the linked    *)
(* tasks are one ring, so task_get finds every task that is linked; so     *)
(* childcount is right, a WNOHANG wait sleeps only while a child lives, no *)
(* child is reported twice, and every step of the kernel is a step of the  *)
(* life of processes (ProcLife).                                           *)
(*                                                                         *)
(* The ring is stated without counting steps: no set of linked tasks but   *)
(* the whole is closed under next.  list_insert_after and list_remove      *)
(* preserve this, and a pigeonhole argument turns it into the walks of     *)
(* RingIsOneCycle and Visited.  Inductions over the natural numbers take   *)
(* the least counterexample.                                               *)
(***************************************************************************)
EXTENDS TasksProofs, TasksRefinement, TasksWait, FiniteSetTheorems

\* Every set of natural numbers that is not empty has a least element.
LEMMA LeastNatural ==
  ASSUME NEW T \in SUBSET Nat, T # {}
  PROVE  \E x \in T : \A y \in T : x <= y
<1> DEFINE R == OpToRel(<, Nat)
<1>1. IsWellFoundedOn(R, Nat)
  BY NatLessThanWellFounded
<1>2. \A x, y \in Nat : x < y => <<x, y>> \in R
  BY DEF OpToRel
<1> HIDE DEF R
<1>3. PICK x \in T : \A y \in T : ~ (<<y, x>> \in R)
  BY <1>1, WFMin
<1>4. \A y \in T : ~ (y < x)
  BY <1>2, <1>3
<1> QED BY <1>4

\* g follows f for n steps, from a on.
Follows(g, f, a, n) == g[0] = a /\ \A k \in 1 .. n : g[k] = f[g[k - 1]]

\* A function of a set into itself can be followed for any number of steps.
LEMMA OrbitExists ==
  ASSUME NEW D, NEW f \in [D -> D], NEW a \in D, NEW N \in Nat
  PROVE  \E g \in [0 .. N -> D] : Follows(g, f, a, N)
<1> DEFINE T == {n \in Nat : ~ \E g \in [0 .. n -> D] : Follows(g, f, a, n)}
<1> SUFFICES ASSUME N \in T
             PROVE  FALSE
  OBVIOUS
<1>1. PICK m \in T : \A n \in T : m <= n
  BY LeastNatural
<1>2. m # 0
  <2>1. [k \in 0 .. 0 |-> a] \in [0 .. 0 -> D] /\ Follows([k \in 0 .. 0 |-> a], f, a, 0)
    BY DEF Follows
  <2> QED BY <2>1
<1>3. m - 1 \in Nat /\ m - 1 \notin T
  BY <1>1, <1>2
<1>4. PICK g \in [0 .. m - 1 -> D] : Follows(g, f, a, m - 1)
  BY <1>3
<1> DEFINE h == [k \in 0 .. m |-> IF k = m THEN f[g[m - 1]] ELSE g[k]]
<1>5. h \in [0 .. m -> D]
  BY <1>2, <1>3, <1>4
<1>6. Follows(h, f, a, m)
  BY <1>2, <1>3, <1>4 DEF Follows
<1> QED BY <1>1, <1>5, <1>6

\* Two walks along f from the same start agree.
Agree(g, h, n) == \A k \in 0 .. n : g[k] = h[k]

LEMMA OrbitUnique ==
  ASSUME NEW f, NEW a, NEW n \in Nat, NEW g, NEW h,
         Follows(g, f, a, n), Follows(h, f, a, n)
  PROVE  Agree(g, h, n)
<1> DEFINE T == {k \in 0 .. n : g[k] # h[k]}
<1> SUFFICES ASSUME T # {}
             PROVE  FALSE
  BY DEF Agree
<1>0. T \in SUBSET Nat
  OBVIOUS
<1>1. PICK m \in T : \A k \in T : m <= k
  BY <1>0, LeastNatural
<1>2. m # 0
  BY <1>1 DEF Follows
<1>3. m - 1 \in 0 .. n /\ m - 1 \notin T /\ m \in 1 .. n
  BY <1>1, <1>2
<1> QED BY <1>1, <1>3 DEF Follows

-----------------------------------------------------------------------------
(* The ring *)

List == {p \in Pid : Linked(p)}

\* A set of linked tasks from which next does not lead out.
Closed(S) == S # {} /\ \A p \in S : Linked(p) /\ next[p] \in S

OneRing == \A S \in SUBSET Pid : Closed(S) => List \subseteq S

\* Everything the proofs use of the links.
RingOK == TypeOK /\ LinksOK /\ OneRing

\* From every linked task, next leads through all of them, and no walk of more
\* than MaxPid + 1 steps is needed.
LEMMA Orbit ==
  ASSUME RingOK, NEW a \in List
  PROVE  \E h \in [0 .. MaxPid + 1 -> List] :
           /\ Follows(h, next, a, MaxPid + 1)
           /\ \A p \in List : \E k \in 0 .. MaxPid : h[k] = p
<1> USE PidFacts
<1> DEFINE f == [p \in List |-> next[p]]
           N == MaxPid + 1
<1>1. \A p \in List : next[p] \in List /\ prev[next[p]] = p
  BY DEF RingOK, LinksOK, List, Linked
<1>2. f \in [List -> List] /\ N \in Nat
  BY <1>1
<1>3. PICK h \in [0 .. N -> List] : Follows(h, f, a, N)
  <2> HIDE DEF f, N
  <2> QED BY <1>2, OrbitExists
<1>4. Follows(h, next, a, N)
  <2>1. \A k \in 1 .. N : f[h[k - 1]] = next[h[k - 1]]
    BY <1>2, <1>3
  <2> QED BY <1>3, <2>1 DEF Follows
<1>5. \E j \in 1 .. N : h[j] = h[0]
  <2>1. PICK x, y \in 0 .. N : x # y /\ h[x] = h[y]
    <3>1. IsFiniteSet(0 .. N) /\ Cardinality(0 .. N) = N + 1
      BY <1>2, FS_Interval
    <3>2. IsFiniteSet(Pid) /\ Cardinality(Pid) = N
      BY FS_Interval DEF Pid
    <3>3. h \in [0 .. N -> Pid]
      BY <1>3 DEF List
    <3> QED BY <1>2, <3>1, <3>2, <3>3, FS_PigeonHole
  <2> DEFINE T == {i \in 0 .. N : \E j \in 0 .. N : i < j /\ h[i] = h[j]}
  <2>2. T \in SUBSET Nat /\ T # {}
    BY <2>1
  <2>3. PICK m \in T : \A i \in T : m <= i
    BY <2>2, LeastNatural
  <2>4. PICK j \in 0 .. N : m < j /\ h[m] = h[j]
    BY <2>3
  <2>5. m = 0
    <3> SUFFICES ASSUME m # 0
                 PROVE  FALSE
      OBVIOUS
    <3>1. m \in 1 .. N /\ j \in 1 .. N /\ m - 1 \in 0 .. N /\ j - 1 \in 0 .. N
      BY <2>3, <2>4
    <3>2. next[h[m - 1]] = next[h[j - 1]]
      BY <1>4, <2>4, <3>1 DEF Follows
    <3>3. h[m - 1] = h[j - 1]
      BY <1>1, <1>3, <3>1, <3>2
    <3>4. m - 1 \in T
      BY <2>3, <2>4, <3>1, <3>3
    <3> QED BY <2>3, <3>1, <3>4
  <2> QED BY <2>4, <2>5
<1>6. PICK j \in 1 .. N : h[j] = h[0]
  BY <1>5
<1> DEFINE S == {h[k] : k \in 0 .. j - 1}
<1>7. S \in SUBSET Pid /\ \A p \in S : Linked(p)
  BY <1>3, <1>6 DEF List
<1>8. ASSUME NEW k \in 0 .. j - 1
      PROVE  next[h[k]] \in S
  <2>1. k + 1 \in 1 .. N /\ (k + 1) - 1 = k
    BY <1>6
  <2>2. h[k + 1] = next[h[k]]
    BY <1>4, <2>1 DEF Follows
  <2>3. CASE k = j - 1
    BY <1>6, <2>2, <2>3
  <2>4. CASE k # j - 1
    BY <2>2, <2>4
  <2> QED BY <2>3, <2>4
<1>9. Closed(S)
  <2>1. h[0] \in S
    BY <1>6
  <2> QED BY <1>7, <1>8, <2>1 DEF Closed
<1>10. List \subseteq S
  BY <1>7, <1>9 DEF RingOK, OneRing
<1>11. \A p \in List : \E k \in 0 .. MaxPid : h[k] = p
  BY <1>6, <1>10
<1> QED BY <1>3, <1>4, <1>11

\* RingIsOneCycle follows: the walk from KernelTask is such an orbit.
LEMMA RingFromClosed ==
  ASSUME RingOK
  PROVE  RingIsOneCycle
<1> USE PidFacts
<1> DEFINE W(g) == [k \in 0 .. MaxPid |-> IF k = 0 THEN KERNEL_PID ELSE next[g[k - 1]]]
           at == CHOOSE g : g = W(g)
<1>1. KERNEL_PID \in List
  BY DEF RingOK, LinksOK, List
<1>2. PICK h \in [0 .. MaxPid + 1 -> List] :
        /\ Follows(h, next, KERNEL_PID, MaxPid + 1)
        /\ \A p \in List : \E k \in 0 .. MaxPid : h[k] = p
  BY <1>1, Orbit
<1>3. at = W(at)
  <2> DEFINE g == [k \in 0 .. MaxPid |-> h[k]]
  <2>1. g = W(g)
    BY <1>2 DEF Follows
  <2> QED BY <2>1
<1> HIDE DEF at
<1>4. Follows(at, next, KERNEL_PID, MaxPid)
  BY <1>3 DEF Follows
<1>5. \A k \in 0 .. MaxPid : at[k] = h[k]
  <2>1. MaxPid \in Nat /\ Follows(h, next, KERNEL_PID, MaxPid)
    BY <1>2 DEF Follows
  <2>2. Agree(at, h, MaxPid)
    BY <1>4, <2>1, OrbitUnique
  <2> QED BY <2>2 DEF Agree
<1>6. {at[k] : k \in 0 .. MaxPid} = List
  BY <1>2, <1>5
<1> QED BY <1>6 DEF RingIsOneCycle, List, at
\* task_get, called by a task that is linked, finds every task that is linked:
\* its loop ends at CurrentTask, but not before it has seen all the others.
LEMMA VisitsAll ==
  ASSUME RingOK, Linked(CurrentTask)
  PROVE  Visited = List
<1> USE PidFacts
<1> DEFINE c == CurrentTask
           step(x) == IF x = c THEN c ELSE next[x]
           W(g) == [k \in 0 .. MaxPid |-> IF k = 0 THEN next[c] ELSE step(g[k - 1])]
           at == CHOOSE g : g = W(g)
<1>0. /\ c \in List /\ next[c] \in List
      /\ \A p \in List : next[p] \in List
  BY DEF RingOK, TypeOK, FieldTypes, LinksOK, List, Linked
<1>1. PICK h \in [0 .. MaxPid + 1 -> List] :
        /\ Follows(h, next, next[c], MaxPid + 1)
        /\ \A p \in List : \E k \in 0 .. MaxPid : h[k] = p
  BY <1>0, Orbit
<1>2. PICK m \in 0 .. MaxPid : h[m] = c /\ \A k \in 0 .. MaxPid : h[k] = c => m <= k
  <2> DEFINE T == {k \in 0 .. MaxPid : h[k] = c}
  <2>1. T \in SUBSET Nat /\ T # {}
    BY <1>0, <1>1
  <2>2. PICK m \in T : \A k \in T : m <= k
    BY <2>1, LeastNatural
  <2> QED BY <2>2
<1>3. at = W(at)
  <2> DEFINE g == [k \in 0 .. MaxPid |-> IF k <= m THEN h[k] ELSE c]
  <2>1. ASSUME NEW k \in 0 .. MaxPid
        PROVE  g[k] = W(g)[k]
    <3>1. CASE k = 0
      BY <1>1, <1>2, <3>1 DEF Follows
    <3>2. CASE k # 0 /\ k <= m
      <4>1. k \in 1 .. MaxPid + 1 /\ k - 1 \in 0 .. MaxPid /\ k - 1 < m
        BY <1>2, <3>2
      <4>2. h[k] = next[h[k - 1]] /\ h[k - 1] # c
        BY <1>1, <1>2, <4>1 DEF Follows
      <4> QED BY <3>2, <4>1, <4>2
    <3>3. CASE ~ (k <= m)
      <4>1. k \in 1 .. MaxPid /\ k - 1 \in 0 .. MaxPid /\ m <= k - 1
        BY <1>2, <3>3
      <4>2. g[k - 1] = c
        BY <1>2, <4>1
      <4> QED BY <3>3, <4>1, <4>2
    <3> QED BY <3>1, <3>2, <3>3
  <2>2. g = W(g)
    BY <2>1
  <2> HIDE DEF g
  <2> QED BY <2>2
<1> HIDE DEF at
<1>4. ASSUME NEW k \in 0 .. MaxPid
      PROVE  at[k] \in List /\ (k <= m => at[k] = h[k])
  <2> DEFINE T == {i \in 0 .. MaxPid : ~ (at[i] \in List /\ (i <= m => at[i] = h[i]))}
  <2> SUFFICES ASSUME T # {}
               PROVE  FALSE
    OBVIOUS
  <2>1. T \in SUBSET Nat
    OBVIOUS
  <2>2. PICK i \in T : \A j \in T : i <= j
    BY <2>1, LeastNatural
  <2>3. at[0] = next[c]
    BY <1>3
  <2>4. i # 0
    BY <1>0, <1>1, <2>2, <2>3 DEF Follows
  <2>5. i - 1 \in 0 .. MaxPid /\ i - 1 \notin T /\ i \in 1 .. MaxPid + 1 /\ i \in 0 .. MaxPid
    BY <2>2, <2>4
  <2>6. at[i - 1] \in List /\ (i - 1 <= m => at[i - 1] = h[i - 1])
    BY <2>5
  <2>7. at[i] = step(at[i - 1])
    BY <1>3, <2>4, <2>5
  <2>8. at[i] \in List
    BY <1>0, <2>6, <2>7
  <2>9. ASSUME i <= m
        PROVE  at[i] = h[i]
    <3>1. i - 1 < m /\ at[i - 1] = h[i - 1] /\ h[i] = next[h[i - 1]]
      <4>1. i - 1 < m /\ i - 1 <= m
        BY <1>2, <2>5, <2>9
      <4>2. h[i] = next[h[i - 1]]
        BY <1>1, <2>5 DEF Follows
      <4> QED BY <2>6, <4>1, <4>2
    <3>2. h[i - 1] # c
      BY <1>2, <2>5, <3>1
    <3> QED BY <2>7, <3>1, <3>2
  <2> QED BY <2>2, <2>8, <2>9
<1> DEFINE S == {at[k] : k \in 0 .. m}
<1>5. S \in SUBSET Pid /\ S # {} /\ \A p \in S : Linked(p)
  BY <1>2, <1>4 DEF List
<1>6. ASSUME NEW k \in 0 .. m
      PROVE  next[at[k]] \in S
  <2>0. k \in 0 .. MaxPid /\ 0 \in 0 .. m /\ 0 \in 0 .. MaxPid /\ 0 <= m /\ k <= m
    BY <1>2
  <2>1. CASE k = m
    <3>1. at[k] = c /\ at[0] = next[c]
      BY <1>1, <1>2, <1>4, <2>0, <2>1 DEF Follows
    <3> QED BY <2>0, <3>1
  <2>2. CASE k # m
    <3>1. k + 1 \in 0 .. m /\ k + 1 \in 1 .. MaxPid + 1 /\ k + 1 \in 0 .. MaxPid
          /\ (k + 1) - 1 = k /\ k + 1 <= m
      BY <1>2, <2>0, <2>2
    <3>2. at[k + 1] = h[k + 1] /\ at[k] = h[k]
      BY <1>4, <2>0, <3>1
    <3>3. h[k + 1] = next[h[k]]
      BY <1>1, <3>1 DEF Follows
    <3> QED BY <3>1, <3>2, <3>3
  <2> QED BY <2>1, <2>2
<1>7. List \subseteq S
  BY <1>5, <1>6 DEF RingOK, OneRing, Closed
<1>8. {at[k] : k \in 0 .. MaxPid} = List
  BY <1>2, <1>4, <1>7
<1> QED BY <1>8 DEF Visited, at
\* Linking a clone behind the task that runs keeps the ring one ring.
LEMMA ForkRing ==
  ASSUME IInv, OneRing, Fork
  PROVE  OneRing'
<1> USE PidFacts
<1> DEFINE self == CurrentTask
           clone == next_pid
<1>0. TypeOK /\ LinksOK /\ Unborn
  BY DEF IInv
<1>1. /\ self \in Pid /\ clone \in Pid /\ next[self] \in Pid /\ clone # self
      /\ prev[self] # NULL /\ prev[clone] = NULL
      /\ prev[next[self]] = self
  BY <1>0 DEF Fork, Running, TypeOK, FieldTypes, LinksOK, Unborn, Linked
<1>2. /\ next' = [next EXCEPT ![self] = clone, ![clone] = next[self]]
      /\ prev' = [prev EXCEPT ![next[self]] = clone, ![clone] = self]
  BY <1>1 DEF Fork, list_insert_after
<1>3. next[self] # clone
  BY <1>0, <1>1 DEF Linked, LinksOK
<1>4. \A p \in Pid : Linked(p)' => Linked(p) \/ p = clone
  BY <1>0, <1>1, <1>2 DEF Linked, TypeOK, FieldTypes
<1> SUFFICES ASSUME NEW S \in SUBSET Pid, Closed(S)'
             PROVE  List' \subseteq S
  BY DEF OneRing
<1>5. \A p \in S : next'[p] \in S
  BY DEF Closed
<1> DEFINE R == S \ {clone}
<1>6. R # {}
  <2>1. clone \in S => next[self] \in S
    BY <1>0, <1>1, <1>2, <1>5 DEF TypeOK, FieldTypes
  <2> QED BY <1>3, <2>1 DEF Closed
<1>7. \A p \in R : Linked(p)
  BY <1>4 DEF Closed
<1>8. \A p \in R : next[p] \in S
  <2> SUFFICES ASSUME NEW p \in R
               PROVE  next[p] \in S
    OBVIOUS
  <2>1. CASE p = self
    <3>1. clone \in S
      BY <1>0, <1>1, <1>2, <1>5, <2>1 DEF TypeOK, FieldTypes
    <3> QED BY <1>0, <1>1, <1>2, <1>5, <2>1, <3>1 DEF TypeOK, FieldTypes
  <2>2. CASE p # self
    BY <1>0, <1>1, <1>2, <1>5, <2>2 DEF TypeOK, FieldTypes
  <2> QED BY <2>1, <2>2
<1>9. \A p \in R : next[p] # clone
  BY <1>0, <1>1, <1>7 DEF LinksOK, Linked
<1>10. List \subseteq R
  BY <1>6, <1>7, <1>8, <1>9 DEF Closed, OneRing
<1>11. clone \in S
  <2>1. self \in R
    BY <1>1, <1>10 DEF List, Linked
  <2> QED BY <1>0, <1>1, <1>2, <1>5, <2>1 DEF TypeOK, FieldTypes
<1> QED BY <1>4, <1>10, <1>11 DEF List

\* Taking a quit task out of the list, too: it is not KernelTask, so it is not
\* alone in its ring.
LEMMA UnlinkRing ==
  ASSUME IInv, OneRing, WalkUnlink
  PROVE  OneRing'
<1> USE PidFacts
<1> DEFINE n == next[next_task]
           before == prev[n]
           after == next[n]
<1>0. TypeOK /\ LinksOK /\ KernelOK
  BY DEF IInv
<1>1. /\ n \in Pid /\ before \in Pid /\ after \in Pid
      /\ Linked(n) /\ Linked(before) /\ Linked(after)
      /\ next[before] = n /\ next[n] = after /\ prev[after] = n /\ n # KERNEL_PID
  <2>1. n \in Pid /\ Linked(n)
    BY <1>0 DEF WalkUnlink, LinksOK
  <2>2. n # KERNEL_PID
    BY <1>0 DEF WalkUnlink, KernelOK
  <2>3. after \in Pid /\ prev[after] = n /\ next[before] = n /\ Linked(before)
    BY <1>0, <2>1 DEF LinksOK
  <2>4. before \in Pid
    BY <1>0, <2>1 DEF TypeOK, FieldTypes, Linked
  <2>5. Linked(after)
    BY <2>1, <2>3 DEF Linked
  <2> QED BY <2>1, <2>2, <2>3, <2>4, <2>5
<1>2. after # n
  <2> SUFFICES ASSUME after = n
               PROVE  FALSE
    OBVIOUS
  <2>1. Closed({n})
    BY <1>1 DEF Closed
  <2>2. KERNEL_PID \in List
    BY <1>0 DEF LinksOK, List
  <2> QED BY <1>1, <2>1, <2>2 DEF OneRing
<1>3. before # n
  BY <1>0, <1>1, <1>2 DEF LinksOK
<1>4. next' = [next EXCEPT ![before] = after]
  BY <1>0, <1>1, <1>2, <1>3 DEF WalkUnlink, list_remove_next, TypeOK, FieldTypes
<1>5. prev' = [prev EXCEPT ![n] = NULL, ![after] = before]
  BY <1>1 DEF WalkUnlink, list_remove_prev
<1> HIDE DEF n, before, after
<1>6. \A p \in Pid : Linked(p)' <=> Linked(p) /\ p # n
  BY <1>0, <1>1, <1>2, <1>5 DEF Linked, TypeOK, FieldTypes
<1> SUFFICES ASSUME NEW S \in SUBSET Pid, Closed(S)'
             PROVE  List' \subseteq S
  BY DEF OneRing
<1>7. S # {} /\ \A p \in S : Linked(p) /\ p # n /\ next'[p] \in S
  BY <1>6 DEF Closed
<1>8. CASE before \in S
  <2>1. after \in S
    <3>1. next'[before] = after
      BY <1>0, <1>1, <1>4 DEF TypeOK, FieldTypes
    <3> QED BY <1>7, <1>8, <3>1
  <2>2. \A p \in S : next[p] \in S \union {n}
    BY <1>0, <1>1, <1>4, <1>7 DEF TypeOK, FieldTypes
  <2>3. Closed(S \union {n})
    BY <1>1, <1>7, <2>1, <2>2 DEF Closed
  <2>4. List \subseteq S \union {n}
    BY <1>1, <2>3 DEF OneRing
  <2> QED BY <1>6, <2>4 DEF List
<1>9. CASE before \notin S
  <2>1. \A p \in S : next[p] \in S
    BY <1>0, <1>1, <1>4, <1>7, <1>9 DEF TypeOK, FieldTypes
  <2>2. Closed(S)
    BY <1>7, <2>1 DEF Closed
  <2>3. List \subseteq S
    BY <2>2 DEF OneRing
  <2> QED BY <1>1, <1>7, <2>3 DEF List
<1> QED BY <1>8, <1>9
\* The other actions change no link.
LEMMA OtherRing ==
  ASSUME OneRing, UNCHANGED links
  PROVE  OneRing'
BY DEF OneRing, Closed, List, Linked, links

-----------------------------------------------------------------------------
(* Parents and children *)

Kids(p) == {c \in Pid \ {KERNEL_PID} : ppid[c] = p /\ Live(c)}

\* A parent is older than its children, and only a task that has quit is sent
\* SIGTERM.
FamilyOK ==
  /\ \A p \in Pid \ {KERNEL_PID} : ppid[p] < p
  /\ \A p \in Pid : state[p] # "TaskQuit" => sigpend[p] # SIGTERM

ListInv == OneRing /\ ChildcountOK /\ NohangSleepHasChild /\ FamilyOK

\* A task has finitely many children.
LEMMA KidsFinite ==
  ASSUME NEW p
  PROVE  IsFiniteSet(Kids(p)) /\ Cardinality(Kids(p)) \in Nat
<1>1. IsFiniteSet(Pid)
  BY FS_Interval, MaxPidAssumption DEF Pid
<1>2. Kids(p) \in SUBSET Pid
  BY DEF Kids
<1>3. IsFiniteSet(Kids(p))
  BY <1>1, <1>2, FS_Subset
<1> QED BY <1>3, FS_CardinalityType

\* A task that exits finds its parent if and only if the parent is linked.
LEMMA ExitFindsParent ==
  ASSUME IInv, OneRing, Running(CurrentTask)
  PROVE  task_get(ppid[CurrentTask]) =
           IF Linked(ppid[CurrentTask]) THEN ppid[CurrentTask] ELSE NULL
<1>1. RingOK /\ Linked(CurrentTask) /\ ppid[CurrentTask] \in Pid
  BY DEF IInv, RingOK, LinksOK, Running, TypeOK, FieldTypes
<1>2. Visited = List
  BY <1>1, VisitsAll
<1> QED BY <1>1, <1>2 DEF task_get, List

\* KernelTask starts without children.
LEMMA InitListInv == Init => ListInv
<1> SUFFICES ASSUME Init
             PROVE  ListInv
  OBVIOUS
<1> USE PidFacts
<1>1. OneRing
  <2>1. \A p \in Pid : Linked(p) <=> p = KERNEL_PID
    BY DEF Init, Linked
  <2>2. List = {KERNEL_PID}
    BY <2>1 DEF List
  <2>3. ASSUME NEW S \in SUBSET Pid, Closed(S)
        PROVE  List \subseteq S
    <3>1. PICK p \in S : Linked(p)
      BY <2>3 DEF Closed
    <3>2. p = KERNEL_PID
      BY <2>1, <3>1
    <3> QED BY <2>2, <3>2
  <2> QED BY <2>3 DEF OneRing
<1>2. \A p : Kids(p) = {}
  BY DEF Init, Kids, Live
<1>3. ChildcountOK
  BY <1>2, FS_EmptySet DEF Init, ChildcountOK, Kids
<1>4. NohangSleepHasChild
  BY DEF Init, NohangSleepHasChild
<1>5. FamilyOK
  BY DEF Init, FamilyOK, NoSig, SIGTERM, Pid, KERNEL_PID
<1> QED BY <1>1, <1>3, <1>4, <1>5 DEF ListInv

\* fork counts the clone as a child of its parent.
LEMMA ForkListInv ==
  ASSUME IInv, ListInv, Fork
  PROVE  ListInv'
<1> USE PidFacts
<1> DEFINE self == CurrentTask
           clone == next_pid
<1>0. TypeOK /\ LinksOK /\ RunningClean /\ Unborn /\ RunnerOK /\ ListInv
  BY DEF IInv
<1>1. /\ self \in Pid /\ clone \in Pid /\ clone \in Nat /\ self < clone
      /\ state[clone] = "TaskInit" /\ prev[clone] = NULL /\ pc[clone] = "user"
      /\ clone # KERNEL_PID /\ \A p \in Pid : ppid[p] # clone
  <2>1. self \in Pid /\ clone \in Pid /\ clone \in Nat
    BY <1>0 DEF Fork, TypeOK, FieldTypes
  <2>2. self < clone /\ \A p \in Pid : ppid[p] < clone
    BY <1>0 DEF Unborn
  <2>3. \A p \in Pid : p >= clone => state[p] = "TaskInit" /\ prev[p] = NULL /\ pc[p] = "user"
    BY <1>0 DEF Unborn
  <2>4. \A p \in Pid : ppid[p] \in Nat
    BY <1>0 DEF TypeOK, FieldTypes
  <2> HIDE DEF self, clone
  <2> QED BY <2>1, <2>2, <2>3, <2>4
<1>2. /\ state' = [state EXCEPT ![clone] = "TaskReady"]
      /\ ppid' = [ppid EXCEPT ![clone] = self]
      /\ childcount' = [childcount EXCEPT ![clone] = 0, ![self] = @ + 1]
      /\ sigpend' = [sigpend EXCEPT ![clone] = sigpend[self]]
      /\ pc' = [pc EXCEPT ![self] = IF @ = "kmain" THEN "spin" ELSE @, ![clone] = Caller(self)]
      /\ Caller(self) # "wait4_nohang"
  BY DEF Fork, task_clone, Caller
<1>3. OneRing'
  BY <1>0, ForkRing DEF ListInv
<1>4. \A p \in Pid : Linked(p)' => Linked(p) \/ p = clone
  BY <1>0, <1>1 DEF Fork, list_insert_after, Linked, TypeOK, FieldTypes, LinksOK, Running
<1>5. ChildcountOK'
  <2> SUFFICES ASSUME NEW p \in Pid, Linked(p)'
               PROVE  childcount'[p] = Cardinality(Kids(p)')
    BY DEF ChildcountOK, Kids
  <2>1. CASE p = clone
    <3>0. \A c \in Pid : ppid'[c] # clone
      BY <1>0, <1>1, <1>2 DEF TypeOK, FieldTypes
    <3>1. Kids(p)' = {}
      BY <2>1, <3>0 DEF Kids
    <3>2. childcount'[p] = 0
      BY <1>0, <1>1, <1>2, <2>1 DEF TypeOK, FieldTypes
    <3> QED BY <3>1, <3>2, FS_EmptySet
  <2>2. CASE p = self
    <3>1. Kids(p)' = Kids(p) \union {clone}
      BY <1>0, <1>1, <1>2, <2>2 DEF Kids, TypeOK, FieldTypes, Live
    <3>2. clone \notin Kids(p)
      BY <1>1 DEF Kids, Live
    <3>3. Cardinality(Kids(p)') = Cardinality(Kids(p)) + 1
      BY <3>1, <3>2, KidsFinite, FS_AddElement
    <3>4. childcount'[p] = childcount[p] + 1
      BY <1>0, <1>1, <1>2, <2>2 DEF TypeOK, FieldTypes
    <3>5. childcount[p] = Cardinality(Kids(p))
      BY <1>0, <1>1, <1>4, <2>2 DEF ListInv, ChildcountOK, Kids
    <3> QED BY <3>3, <3>4, <3>5
  <2>3. CASE p # clone /\ p # self
    <3>1. Kids(p)' = Kids(p)
      BY <1>0, <1>1, <1>2, <2>3 DEF Kids, TypeOK, FieldTypes, Live
    <3>2. childcount'[p] = childcount[p] /\ Linked(p)
      BY <1>0, <1>1, <1>2, <1>4, <2>3 DEF TypeOK, FieldTypes
    <3> QED BY <1>0, <3>1, <3>2 DEF ListInv, ChildcountOK, Kids
  <2> QED BY <2>1, <2>2, <2>3
<1>F. FieldTypes
  BY <1>0, FieldTypesOK
<1>6. NohangSleepHasChild'
  <2> SUFFICES ASSUME NEW p \in Pid, pc'[p] = "wait4_nohang", state'[p] = "TaskSigWait"
               PROVE  sigpend'[p] = SIGCHLD \/ Kids(p)' # {}
    BY DEF NohangSleepHasChild, Kids
  <2>1. p # clone /\ state[p] = "TaskSigWait" /\ sigpend'[p] = sigpend[p]
    BY <1>F, <1>1, <1>2 DEF FieldTypes
  <2>2. pc[p] = "wait4_nohang"
    BY <1>0, <1>1, <1>2, <2>1, FieldTypesOK DEF FieldTypes, TypeOK
  <2>3. sigpend[p] = SIGCHLD \/ Kids(p) # {}
    BY <1>0, <2>1, <2>2 DEF ListInv, NohangSleepHasChild, Kids
  <2>4. Kids(p) \subseteq Kids(p)'
    BY <1>F, <1>1, <1>2 DEF Kids, Live, FieldTypes
  <2> QED BY <2>1, <2>3, <2>4
<1>7. FamilyOK'
  <2>1. sigpend[self] = NoSig
    BY <1>0, <1>1 DEF Fork, Running, RunningClean, RunnerOK
  <2> QED BY <1>F, <1>0, <1>1, <1>2, <2>1 DEF ListInv, FamilyOK, FieldTypes, NoSig, SIGTERM
<1> QED BY <1>3, <1>5, <1>6, <1>7 DEF ListInv
\* exit takes the task out of its parent's count and signals the parent, if the
\* parent is still linked; every live parent is.
LEMMA ExitListInv ==
  ASSUME IInv, ListInv, NEW status \in ExitCodes, Exit(status)
  PROVE  ListInv'
<1> USE PidFacts
<1> DEFINE self == CurrentTask
           parent == ppid[self]
<1>0. TypeOK /\ LinksOK /\ KernelOK /\ RunnerOK /\ ListInv
  BY DEF IInv
<1>1. /\ self \in Pid /\ parent \in Pid /\ self # KERNEL_PID /\ parent # self
      /\ state[self] = "TaskReady" /\ Running(self)
  <2>1. self \in Pid /\ parent \in Pid /\ pc[self] \in {"user", "handler"} /\ Running(self)
    BY <1>0 DEF Exit, InProgram, TypeOK, FieldTypes
  <2>2. self # KERNEL_PID /\ state[self] = "TaskReady"
    BY <1>0, <2>1 DEF KernelOK, RunnerOK, Running
  <2> QED BY <1>0, <2>1, <2>2 DEF ListInv, FamilyOK
<1>2. /\ state' = [state EXCEPT ![self] = "TaskQuit"]
      /\ pc' = [pc EXCEPT ![self] = "exit"]
      /\ UNCHANGED <<next, prev, ppid>>
  BY DEF Exit
<1>3. IF Linked(parent)
      THEN /\ sigpend' = [sigpend EXCEPT ![self] = SIGTERM, ![parent] = SIGCHLD]
           /\ childcount' = [childcount EXCEPT ![parent] = @ - 1]
      ELSE sigpend' = [sigpend EXCEPT ![self] = SIGTERM] /\ UNCHANGED childcount
  <2>1. task_get(parent) = IF Linked(parent) THEN parent ELSE NULL
    BY <1>0, <1>1, ExitFindsParent DEF ListInv
  <2> QED BY <1>1, <2>1 DEF Exit, task_signal_raise
<1>4. OneRing'
  BY <1>0, <1>2, OtherRing DEF ListInv, links
<1>5. \A p \in Pid : Kids(p)' = Kids(p) \ {self}
  BY <1>0, <1>1, <1>2 DEF Kids, TypeOK, FieldTypes, Live
<1>6. ChildcountOK'
  <2> SUFFICES ASSUME NEW p \in Pid, Linked(p)
               PROVE  childcount'[p] = Cardinality(Kids(p)')
    BY <1>2 DEF ChildcountOK, Kids, Linked
  <2>0. childcount[p] = Cardinality(Kids(p))
    BY <1>0 DEF ListInv, ChildcountOK, Kids
  <2>1. CASE p = parent
    <3>1. self \in Kids(p)
      BY <1>1, <2>1 DEF Kids, Live
    <3>2. Cardinality(Kids(p)') = Cardinality(Kids(p)) - 1
      BY <1>5, <3>1, KidsFinite, FS_RemoveElement
    <3>3. childcount'[p] = childcount[p] - 1
      BY <1>0, <1>3, <2>1 DEF TypeOK, FieldTypes
    <3> QED BY <2>0, <3>2, <3>3
  <2>2. CASE p # parent
    <3>1. Kids(p)' = Kids(p)
      BY <1>5, <2>2 DEF Kids
    <3>2. childcount'[p] = childcount[p]
      BY <1>0, <1>1, <1>3, <2>2 DEF TypeOK, FieldTypes
    <3> QED BY <2>0, <3>1, <3>2
  <2> QED BY <2>1, <2>2
<1>7. NohangSleepHasChild'
  <2> SUFFICES ASSUME NEW p \in Pid, pc'[p] = "wait4_nohang", state'[p] = "TaskSigWait"
               PROVE  sigpend'[p] = SIGCHLD \/ Kids(p)' # {}
    BY DEF NohangSleepHasChild, Kids
  <2>1. p # self /\ pc[p] = "wait4_nohang" /\ state[p] = "TaskSigWait"
    BY <1>0, <1>1, <1>2 DEF TypeOK, FieldTypes
  <2>2. sigpend[p] = SIGCHLD \/ Kids(p) # {}
    BY <1>0, <2>1 DEF ListInv, NohangSleepHasChild, Kids
  <2>3. Linked(p)
    BY <1>0, <2>1 DEF LinksOK, Live
  <2>4. CASE p = parent
    BY <1>0, <1>1, <1>3, <2>1, <2>3, <2>4 DEF TypeOK, FieldTypes
  <2>5. CASE p # parent
    <3>1. Kids(p)' = Kids(p)
      BY <1>5, <2>5 DEF Kids
    <3>2. sigpend'[p] = sigpend[p]
      BY <1>0, <1>1, <1>3, <2>1, <2>5 DEF TypeOK, FieldTypes
    <3> QED BY <2>2, <3>1, <3>2
  <2> QED BY <2>4, <2>5
<1>8. FamilyOK'
  <2>1. \A p \in Pid : p # self => sigpend'[p] \in {sigpend[p], SIGCHLD}
    BY <1>0, <1>1, <1>3 DEF TypeOK, FieldTypes
  <2> QED BY <1>0, <1>1, <1>2, <2>1 DEF ListInv, FamilyOK, TypeOK, FieldTypes, SIGCHLD, SIGTERM
<1> QED BY <1>4, <1>6, <1>7, <1>8 DEF ListInv

\* wait4 and sigsuspend put a live task to sleep; with WNOHANG only if its count,
\* and so its set of children, is not zero.
LEMMA SleepListInv ==
  ASSUME IInv, ListInv, (\E nohang \in BOOLEAN : Wait4(nohang)) \/ RtSigsuspend
  PROVE  ListInv'
<1> USE PidFacts
<1> DEFINE self == CurrentTask
<1>0. TypeOK /\ LinksOK /\ RunnerOK /\ ListInv
  BY DEF IInv
<1>1. /\ self \in Pid /\ Linked(self) /\ Running(self)
      /\ state[self] = "TaskReady"
      /\ state' = [state EXCEPT ![self] = "TaskSigWait"]
      /\ UNCHANGED <<next, prev, ppid, childcount, sigpend>>
  <2>1. self \in Pid /\ Linked(self) /\ Running(self) /\ pc[self] \in {"user", "handler"}
    BY <1>0 DEF Wait4, RtSigsuspend, InProgram, Running, TypeOK, FieldTypes, LinksOK
  <2>2. state[self] = "TaskReady"
    BY <1>0, <2>1 DEF RunnerOK, Running
  <2> QED BY <2>1, <2>2 DEF Wait4, RtSigsuspend, task_sigwait, family, links
<1>2. \E at \in PCs : /\ pc' = [pc EXCEPT ![self] = at]
                      /\ at = "wait4_nohang" => childcount[self] # 0
  BY DEF Wait4, RtSigsuspend, task_sigwait, PCs
<1>3. OneRing'
  BY <1>0, <1>1, OtherRing DEF ListInv, links
<1>4. \A p \in Pid : Kids(p)' = Kids(p)
  BY <1>0, <1>1 DEF Kids, TypeOK, FieldTypes, Live
<1>5. ChildcountOK'
  BY <1>0, <1>1, <1>4 DEF ListInv, ChildcountOK, Kids, Linked
<1>6. NohangSleepHasChild'
  <2> SUFFICES ASSUME NEW p \in Pid, pc'[p] = "wait4_nohang", state'[p] = "TaskSigWait"
               PROVE  sigpend'[p] = SIGCHLD \/ Kids(p)' # {}
    BY DEF NohangSleepHasChild, Kids
  <2>1. CASE p = self
    <3>1. childcount[self] # 0
      BY <1>0, <1>1, <1>2, <2>1 DEF TypeOK, FieldTypes
    <3>2. childcount[self] = Cardinality(Kids(self))
      BY <1>0, <1>1 DEF ListInv, ChildcountOK, Kids
    <3> QED BY <1>4, <2>1, <3>1, <3>2, FS_EmptySet
  <2>2. CASE p # self
    <3>1. pc[p] = "wait4_nohang" /\ state[p] = "TaskSigWait"
      BY <1>0, <1>1, <1>2, <2>2 DEF TypeOK, FieldTypes
    <3>2. sigpend[p] = SIGCHLD \/ Kids(p) # {}
      BY <1>0, <3>1 DEF ListInv, NohangSleepHasChild, Kids
    <3> QED BY <1>1, <1>4, <3>2
  <2> QED BY <2>1, <2>2
<1>7. FamilyOK'
  BY <1>0, <1>1 DEF ListInv, FamilyOK, TypeOK, FieldTypes
<1> QED BY <1>3, <1>5, <1>6, <1>7 DEF ListInv
\* A step that leaves links, parents and counts alone, moves no task between the
\* living and the dead, and makes no sleeper that a signal has not left.
LEMMA QuietListInv ==
  ASSUME TypeOK, ListInv, UNCHANGED <<links, ppid, childcount>>,
         \A p \in Pid : Live(p)' = Live(p) /\ (state'[p] = "TaskQuit" <=> state[p] = "TaskQuit"),
         \A p \in Pid : state'[p] = "TaskSigWait" =>
           /\ state[p] = "TaskSigWait" /\ sigpend'[p] = sigpend[p] /\ pc'[p] = pc[p],
         \A p \in Pid : sigpend'[p] \in {sigpend[p], NoSig}
  PROVE  ListInv'
<1>1. OneRing'
  BY OtherRing DEF ListInv
<1>2. ppid' = ppid /\ childcount' = childcount /\ prev' = prev
  BY DEF links
<1>3. \A p \in Pid : Kids(p)' = Kids(p)
  BY <1>2 DEF Kids
<1>4. ChildcountOK'
  BY <1>2, <1>3 DEF ListInv, ChildcountOK, Kids, Linked
<1>5. NohangSleepHasChild'
  <2> SUFFICES ASSUME NEW p \in Pid, pc'[p] = "wait4_nohang", state'[p] = "TaskSigWait"
               PROVE  sigpend'[p] = SIGCHLD \/ Kids(p)' # {}
    BY DEF NohangSleepHasChild, Kids
  <2>1. pc[p] = "wait4_nohang" /\ state[p] = "TaskSigWait" /\ sigpend'[p] = sigpend[p]
    OBVIOUS
  <2>2. sigpend[p] = SIGCHLD \/ Kids(p) # {}
    BY <2>1 DEF ListInv, NohangSleepHasChild, Kids
  <2> QED BY <1>3, <2>1, <2>2
<1>6. FamilyOK'
  BY <1>2 DEF ListInv, FamilyOK, NoSig, SIGTERM
<1> QED BY <1>1, <1>4, <1>5, <1>6 DEF ListInv

\* Taking a quit task out of the list changes nobody's living children.
LEMMA UnlinkListInv ==
  ASSUME IInv, ListInv, WalkUnlink
  PROVE  ListInv'
<1> USE PidFacts
<1>0. TypeOK /\ LinksOK /\ ListInv
  BY DEF IInv
<1>1. OneRing'
  BY <1>0, UnlinkRing DEF ListInv
<1>2. UNCHANGED <<ppid, childcount, state, sigpend, pc>>
  BY DEF WalkUnlink, family, signals, program
<1>3. \A p \in Pid : Linked(p)' => Linked(p)
  BY <1>0, FieldTypesOK DEF WalkUnlink, list_remove_prev, LinksOK, Linked, FieldTypes
<1>4. \A p \in Pid : Kids(p)' = Kids(p)
  BY <1>2 DEF Kids, Live
<1>5. ChildcountOK'
  BY <1>0, <1>2, <1>3, <1>4 DEF ListInv, ChildcountOK, Kids
<1>6. NohangSleepHasChild' /\ FamilyOK'
  BY <1>0, <1>2 DEF ListInv, NohangSleepHasChild, FamilyOK, Live
<1> QED BY <1>1, <1>5, <1>6 DEF ListInv

\* Entering a task wakes it and takes its signal.
LEMMA EnterListInv ==
  ASSUME IInv, ListInv, WalkEnter
  PROVE  ListInv'
<1> USE PidFacts
<1> DEFINE n == next[next_task]
<1>0. TypeOK /\ LinksOK
  BY DEF IInv
<1>1. /\ n \in Pid /\ Live(n)
      /\ state' = [state EXCEPT ![n] = "TaskReady"]
      /\ UNCHANGED <<next, prev, ppid, childcount>>
  BY <1>0 DEF WalkEnter, LinksOK, Live, Wakeable, family, links
<1>2. /\ sigpend' \in {sigpend, [sigpend EXCEPT ![n] = NoSig]}
      /\ pc' \in {pc, [pc EXCEPT ![n] = "handler"]}
  BY DEF WalkEnter, task_enter, task_signal_exec, RunHandler
<1>3. \A p \in Pid : Live(p)' = Live(p) /\ (state'[p] = "TaskQuit" <=> state[p] = "TaskQuit")
  BY <1>0, <1>1, FieldTypesOK DEF Live, FieldTypes
<1>4. \A p \in Pid : state'[p] = "TaskSigWait" =>
        /\ state[p] = "TaskSigWait" /\ sigpend'[p] = sigpend[p] /\ pc'[p] = pc[p]
  BY <1>0, <1>1, <1>2 DEF TypeOK, FieldTypes
<1>5. \A p \in Pid : sigpend'[p] \in {sigpend[p], NoSig}
  BY <1>0, <1>1, <1>2 DEF TypeOK, FieldTypes
<1> HIDE DEF n
<1> QED BY <1>0, <1>1, <1>3, <1>4, <1>5, QuietListInv DEF links

\* Every step keeps ListInv.
LEMMA StepListInv ==
  ASSUME IInv, ListInv, [Next]_vars
  PROVE  ListInv'
<1>0. TypeOK
  BY DEF IInv
<1>1. ASSUME NEW status \in ExitCodes, Exit(status)
      PROVE  ListInv'
  BY <1>1, ExitListInv
<1>2. CASE Wait4Return \/ RtSigsuspendReturn \/ HandlerReturn
  <2>1. /\ UNCHANGED <<links, ppid, childcount, state, sigpend>>
        /\ \E at : pc' = [pc EXCEPT ![CurrentTask] = at]
        /\ Running(CurrentTask)
    BY <1>2 DEF Wait4Return, RtSigsuspendReturn, HandlerReturn, family, signals
  <2>2. \A p \in Pid : state'[p] = "TaskSigWait" => pc'[p] = pc[p]
    BY <1>0, <2>1 DEF IInv, RunnerOK, Running, TypeOK, FieldTypes
  <2> QED BY <1>0, <2>1, <2>2, QuietListInv DEF Live
<1>3. CASE \/ Yield \/ Preempt \/ WalkPast \/ UNCHANGED vars
           \/ \E set \in BOOLEAN : task_signal(set)
  <2>1. UNCHANGED <<links, ppid, childcount, state, sigpend, pc>>
    BY <1>3 DEF Yield, Preempt, WalkPast, task_signal, vars, links, family, signals, program
  <2> QED BY <1>0, <2>1, QuietListInv DEF Live
<1> QED BY <1>1, <1>2, <1>3, ForkListInv, SleepListInv, UnlinkListInv, EnterListInv
        DEF Next

\* Both invariants hold in every reachable state.
THEOREM ListInvariance == Spec => [](IInv /\ ListInv)
BY Invariance, InitListInv, StepListInv, PTL DEF Spec

\* The linked tasks always form one ring through KernelTask, however forks link
\* clones behind the task that runs and the scheduler unlinks quit tasks.
THEOREM ListIsOneRing == Spec => []RingIsOneCycle
<1>1. IInv /\ ListInv => RingIsOneCycle
  BY RingFromClosed DEF IInv, ListInv, RingOK
<1> QED BY <1>1, ListInvariance, PTL

\* childcount is the number of children that have not exited, for every parent
\* that is still linked.
THEOREM ChildcountIsRight == Spec => []ChildcountOK
<1>1. ListInv => ChildcountOK
  BY DEF ListInv
<1> QED BY <1>1, ListInvariance, PTL

\* A task sleeps in wait4(WNOHANG) only while a child of it lives or its exit has
\* been signalled.
THEOREM NohangSleepIsJustified == Spec => []NohangSleepHasChild
<1>1. ListInv => NohangSleepHasChild
  BY DEF ListInv
<1> QED BY <1>1, ListInvariance, PTL
-----------------------------------------------------------------------------
(* What wait4 reports *)

\* The calls of wait4 that a task has made itself and that handlers have
\* interrupted were made before its latest one, and lie on its stack above the
\* calls it has copied from its parent.
LatestOK(p) ==
  /\ latest[p] \in Nat
  /\ pc[p] \in OwnWait => Len(calls[p]) <= latest[p]
  /\ pc[p] = "wait4_copy" => \A i \in 1 .. Len(calls[p]) : calls[p][i] \notin OwnWait
  /\ \A i \in 1 .. Len(calls[p]) : calls[p][i] \in OwnWait => i - 1 <= latest[p]
  /\ \A j \in 1 .. Len(calls[p]) : calls[p][j] = "wait4_copy" =>
       \A i \in 1 .. j : calls[p][i] \notin OwnWait

\* A child that a pending SIGCHLD stands for, or the latest wait4 of its parent
\* once that was woken, even if a handler has interrupted it, is not reported.
FreshOK(p) ==
  \/ state[p] # "TaskQuit" /\ sigpend[p] # NoSig
  \/ pc[p] \in OwnWait /\ latest[p] = Len(calls[p]) /\ state[p] = "TaskReady"
  \/ \E i \in 1 .. Len(calls[p]) : calls[p][i] \in OwnWait /\ latest[p] = i - 1
  => sigchldpid[p] \notin reported

\* Reported children are dead; the copy of a wait4 may report pid 0.
DeadOK == \A c \in reported : c \in Pid /\ (c # KERNEL_PID => state[c] = "TaskQuit")

WaitInv ==
  IInv /\ ListInv /\ DeadOK /\ latest \in [Pid -> Nat]
    /\ \A p \in Pid : LatestOK(p) /\ FreshOK(p)

(* What one step does to the program of one task *)

Plain == PCs \ {"wait4", "wait4_nohang", "wait4_copy"}

Stays(p) == pc'[p] = pc[p] /\ calls'[p] = calls[p] /\ latest'[p] = latest[p]
Enters(p) == /\ pc'[p] \in OwnWait /\ calls'[p] = calls[p] /\ latest'[p] = Len(calls[p])
             /\ state'[p] = "TaskSigWait"
Leaves(p) == /\ pc'[p] \in Plain /\ latest'[p] = latest[p]
             /\ \/ calls'[p] = calls[p]
                \/ \A i \in 1 .. Len(calls'[p]) : calls'[p][i] \notin OwnWait
Pushes(p) == /\ pc'[p] = "handler" /\ calls'[p] = Append(calls[p], pc[p])
             /\ latest'[p] = latest[p] /\ state[p] # "TaskQuit" /\ sigpend[p] # NoSig
Pops(p) == /\ calls[p] # <<>> /\ pc'[p] = calls[p][Len(calls[p])]
           /\ calls'[p] = SubSeq(calls[p], 1, Len(calls[p]) - 1)
           /\ latest'[p] = latest[p]

\* Only wait4 raises latest.
LEMMA LatestKept ==
  ASSUME latest \in [Pid -> Nat], WaitNext, NEW p \in Pid
  PROVE  latest'[p] = IF Calls(p) THEN Len(calls[p]) ELSE latest[p]
BY DEF WaitNext

\* Each step does one of the five to each task.
LEMMA ProgramStep ==
  ASSUME IInv, latest \in [Pid -> Nat], WaitNext, NEW p \in Pid
  PROVE  Stays(p) \/ Enters(p) \/ Leaves(p) \/ Pushes(p) \/ Pops(p)
<1> USE PidFacts
<1>0. TypeOK /\ LinksOK /\ Unborn /\ HandlerOK
  BY DEF IInv
<1>T. pc \in [Pid -> PCs] /\ calls \in [Pid -> Seq(PCs)] /\ CurrentTask \in Pid
  BY <1>0 DEF TypeOK, FieldTypes, StackTypes
<1>L. latest'[p] = IF Calls(p) THEN Len(calls[p]) ELSE latest[p]
  BY LatestKept
<1>S. ASSUME pc'[p] = pc[p], calls'[p] = calls[p]
      PROVE  Stays(p)
  BY <1>L, <1>S DEF Stays, Calls, OwnWait
<1>P. ASSUME pc'[p] \in Plain, calls'[p] = calls[p]
      PROVE  Leaves(p)
  BY <1>L, <1>P DEF Leaves, Plain, Calls, OwnWait
<1>1. CASE Fork
  <2>1. /\ next_pid \in Pid /\ next_pid # CurrentTask
        /\ pc' = [pc EXCEPT ![CurrentTask] = IF @ = "kmain" THEN "spin" ELSE @,
                            ![next_pid] = Caller(CurrentTask)]
        /\ calls' = [calls EXCEPT ![next_pid] = copied(calls[CurrentTask])]
    BY <1>0, <1>1 DEF Fork, TypeOK, FieldTypes, Unborn
  <2>2. CASE p = next_pid
    <3>1. pc'[p] \in {"user", "handler"} /\ calls'[p] = copied(calls[CurrentTask])
      BY <1>T, <2>1, <2>2 DEF Caller
    <3>2. \A i \in 1 .. Len(calls'[p]) : calls'[p][i] \notin OwnWait
      <4>1. calls[CurrentTask] \in Seq(PCs)
        BY <1>T
      <4> QED BY <3>1, <4>1, CopyFacts DEF OwnWait
    <3> QED BY <1>L, <3>1, <3>2 DEF Leaves, Plain, PCs, Calls, OwnWait
  <2>3. CASE p # next_pid
    <3>1. calls'[p] = calls[p] /\ (pc'[p] = pc[p] \/ pc'[p] = "spin")
      BY <1>T, <2>1, <2>3
    <3> QED BY <1>S, <1>P, <3>1 DEF Plain, PCs
  <2> QED BY <2>2, <2>3
<1>2. CASE \E status \in ExitCodes : Exit(status)
  <2>1. /\ pc' = [pc EXCEPT ![CurrentTask] = "exit"]
        /\ calls' = [calls EXCEPT ![CurrentTask] = <<>>]
    BY <1>2 DEF Exit
  <2>2. CASE p = CurrentTask
    <3>1. pc'[p] = "exit" /\ calls'[p] = <<>>
      BY <1>T, <2>1, <2>2
    <3> QED BY <1>L, <3>1 DEF Leaves, Plain, PCs, Calls, OwnWait
  <2>3. CASE p # CurrentTask
    BY <1>S, <1>T, <2>1, <2>3
  <2> QED BY <2>2, <2>3
<1>3. CASE \E nohang \in BOOLEAN : Wait4(nohang)
  <2>1. /\ pc[CurrentTask] \in {"user", "handler"} /\ calls' = calls
        /\ \E at \in OwnWait : pc' = [pc EXCEPT ![CurrentTask] = at]
        /\ state' = [state EXCEPT ![CurrentTask] = "TaskSigWait"]
    BY <1>3 DEF Wait4, task_sigwait, InProgram, OwnWait
  <2>2. CASE p = CurrentTask
    <3>1. pc'[p] \in OwnWait /\ state'[p] = "TaskSigWait"
      BY <1>0, <1>T, <2>1, <2>2 DEF TypeOK, FieldTypes
    <3> QED BY <1>L, <2>1, <2>2, <3>1 DEF Enters, Calls
  <2>3. CASE p # CurrentTask
    BY <1>S, <1>T, <2>1, <2>3
  <2> QED BY <2>2, <2>3
<1>4. CASE RtSigsuspend \/ RtSigsuspendReturn \/ Wait4Return
  <2>1. /\ calls' = calls
        /\ \E at \in Plain : pc' = [pc EXCEPT ![CurrentTask] = at]
    BY <1>4 DEF RtSigsuspend, RtSigsuspendReturn, Wait4Return, task_sigwait, Caller, Plain, PCs
  <2> QED BY <1>S, <1>P, <1>T, <2>1
<1>5. CASE \/ Yield \/ Preempt \/ WalkUnlink \/ WalkPast
           \/ \E set \in BOOLEAN : task_signal(set)
  BY <1>S, <1>5 DEF Yield, Preempt, WalkUnlink, WalkPast, task_signal, program
<1>6. CASE WalkEnter
  <2>1. PICK n \in Pid : n = next[next_task]
    BY <1>0, <1>6 DEF WalkEnter, LinksOK
  <2>2. \/ UNCHANGED <<pc, calls>>
        \/ /\ sigpend[n] # NoSig /\ state[n] # "TaskQuit"
           /\ pc' = [pc EXCEPT ![n] = "handler"]
           /\ calls' = [calls EXCEPT ![n] = Append(calls[n], pc[n])]
    BY <1>6, <1>T, <2>1 DEF WalkEnter, task_enter, task_signal_exec, RunHandler, Wakeable
  <2>3. CASE p = n
    <3>1. \/ UNCHANGED <<pc, calls>>
          \/ /\ sigpend[p] # NoSig /\ state[p] # "TaskQuit" /\ pc'[p] = "handler"
             /\ calls'[p] = Append(calls[p], pc[p])
      BY <1>T, <2>2, <2>3
    <3> QED BY <1>S, <1>L, <3>1 DEF Pushes, Calls, OwnWait
  <2>4. CASE p # n
    BY <1>S, <1>T, <2>2, <2>4
  <2> QED BY <2>3, <2>4
<1>7. CASE HandlerReturn
  <2>1. PICK n \in Pid : n = CurrentTask
    BY <1>T
  <2>2. /\ pc[n] = "handler"
        /\ pc' = [pc EXCEPT ![n] = calls[n][Len(calls[n])]]
        /\ calls' = [calls EXCEPT ![n] = SubSeq(calls[n], 1, Len(calls[n]) - 1)]
    BY <1>7, <2>1 DEF HandlerReturn
  <2>3. calls[n] # <<>> /\ calls[n] \in Seq(PCs)
    BY <1>0, <1>T, <2>2 DEF HandlerOK
  <2>4. CASE p = n
    <3>1. /\ pc'[p] = calls[p][Len(calls[p])]
          /\ calls'[p] = SubSeq(calls[p], 1, Len(calls[p]) - 1)
      BY <1>T, <2>2, <2>4
    <3>2. Len(SubSeq(calls[n], 1, Len(calls[n]) - 1)) # Len(calls[n])
      BY <2>3, PopFacts
    <3>3. calls'[p] # calls[p]
      BY <2>4, <3>1, <3>2
    <3> QED BY <1>L, <2>3, <2>4, <3>1, <3>3 DEF Pops, Calls
  <2>5. CASE p # n
    BY <1>S, <1>T, <2>2, <2>5
  <2> QED BY <2>4, <2>5
<1> QED BY <1>1, <1>2, <1>3, <1>4, <1>5, <1>6, <1>7 DEF WaitNext, Next

\* So LatestOK is kept.
LEMMA LatestStep ==
  ASSUME NEW p \in Pid, LatestOK(p), pc[p] \in PCs, calls[p] \in Seq(PCs),
         Stays(p) \/ Enters(p) \/ Leaves(p) \/ Pushes(p) \/ Pops(p)
  PROVE  LatestOK(p)'
<1> USE DEF LatestOK
<1>1. CASE Stays(p)
  BY <1>1 DEF Stays
<1>2. CASE Enters(p)
  BY <1>2 DEF Enters, OwnWait
<1>3. CASE Leaves(p)
  BY <1>3 DEF Leaves, Plain, OwnWait
<1>4. CASE Pushes(p)
  <2>1. PICK s \in Seq(PCs) : s = calls[p]
    OBVIOUS
  <2>2. PICK r \in Seq(PCs) :
          /\ r = Append(s, pc[p]) /\ Len(r) = Len(s) + 1 /\ Len(s) \in Nat
          /\ r[Len(s) + 1] = pc[p] /\ \A i \in 1 .. Len(s) : r[i] = s[i]
    <3>1. PICK x \in PCs : x = pc[p]
      OBVIOUS
    <3>2. PICK r : r = Append(s, x)
      OBVIOUS
    <3>3. /\ r \in Seq(PCs) /\ Len(r) = Len(s) + 1 /\ Len(s) \in Nat
          /\ r[Len(s) + 1] = x /\ \A i \in 1 .. Len(s) : r[i] = s[i]
      BY ONLY <3>2, PushFacts
    <3> QED BY ONLY <3>1, <3>2, <3>3
  <2>3. \A i \in 1 .. Len(r) : i \in 1 .. Len(s) \/ i = Len(s) + 1
    BY ONLY <2>2
  <2>4. calls'[p] = r /\ pc'[p] = "handler" /\ latest'[p] = latest[p]
    BY <1>4, <2>1, <2>2 DEF Pushes
  <2>5. ASSUME NEW i \in 1 .. Len(r), r[i] \in OwnWait
        PROVE  i - 1 <= latest[p]
    <3>1. CASE i \in 1 .. Len(s)
      BY <2>1, <2>2, <2>5, <3>1
    <3>2. CASE i = Len(s) + 1
      <4>1. pc[p] \in OwnWait
        BY <2>2, <2>5, <3>2
      <4>2. Len(s) <= latest[p]
        BY <2>1, <4>1
      <4> QED BY <2>2, <3>2, <4>2
    <3> QED BY <2>3, <3>1, <3>2
  <2>6. ASSUME NEW j \in 1 .. Len(r), r[j] = "wait4_copy", NEW i \in 1 .. j
        PROVE  r[i] \notin OwnWait
    <3>1. CASE j \in 1 .. Len(s)
      <4>1. i \in 1 .. Len(s)
        BY <2>2, <3>1
      <4> QED BY <2>1, <2>2, <2>6, <3>1, <4>1
    <3>2. CASE j = Len(s) + 1
      <4>1. pc[p] = "wait4_copy" /\ (i \in 1 .. Len(s) \/ i = j)
        BY <2>2, <2>6, <3>2
      <4> QED BY <2>1, <2>2, <2>6, <4>1 DEF OwnWait
    <3> QED BY <2>3, <3>1, <3>2
  <2> QED BY <2>4, <2>5, <2>6 DEF OwnWait
<1>5. CASE Pops(p)
  <2>1. PICK s \in Seq(PCs) : s = calls[p] /\ s # <<>>
    BY <1>5 DEF Pops
  <2>2. PICK r \in Seq(PCs) :
          /\ r = SubSeq(s, 1, Len(s) - 1) /\ Len(r) = Len(s) - 1
          /\ \A i \in 1 .. Len(s) - 1 : r[i] = s[i]
          /\ Len(s) \in Nat \ {0} /\ s[Len(s)] \in PCs
    BY <2>1, PopFacts
  <2>3. calls'[p] = r /\ pc'[p] = s[Len(s)] /\ latest'[p] = latest[p]
    BY <1>5, <2>1, <2>2 DEF Pops
  <2>4. \A i \in 1 .. Len(r) : i \in 1 .. Len(s) /\ r[i] = s[i]
    BY <2>2
  <2>5. Len(s) \in 1 .. Len(s) /\ Len(s) - 1 = Len(r)
    BY <2>2
  <2>6. pc'[p] \in OwnWait => Len(r) <= latest[p]
    BY <2>1, <2>3, <2>5
  <2>7. pc'[p] = "wait4_copy" => \A i \in 1 .. Len(r) : r[i] \notin OwnWait
    BY <2>1, <2>3, <2>4, <2>5
  <2>8. \A i \in 1 .. Len(r) : r[i] \in OwnWait => i - 1 <= latest[p]
    BY <2>1, <2>4
  <2>9. ASSUME NEW j \in 1 .. Len(r), r[j] = "wait4_copy", NEW i \in 1 .. j
        PROVE  r[i] \notin OwnWait
    <3>1. i \in 1 .. Len(r)
      BY <2>2
    <3> QED BY <2>1, <2>4, <2>9, <3>1
  <2> QED BY <2>3, <2>6, <2>7, <2>8, <2>9
<1> QED BY <1>1, <1>2, <1>3, <1>4, <1>5

\* A step that neither reports nor gives p a record keeps FreshOK, if it raises no
\* signal for p and wakes it only for one.
LEMMA FreshStep ==
  ASSUME NEW p \in Pid, FreshOK(p), pc[p] \in PCs, calls[p] \in Seq(PCs),
         Stays(p) \/ Enters(p) \/ Leaves(p) \/ Pushes(p) \/ Pops(p),
         reported' = reported, sigchldpid'[p] = sigchldpid[p],
         state'[p] # "TaskQuit" /\ sigpend'[p] # NoSig =>
           state[p] # "TaskQuit" /\ sigpend[p] # NoSig,
         pc'[p] \in OwnWait /\ state'[p] = "TaskReady" =>
           state[p] = "TaskReady" \/ (state[p] # "TaskQuit" /\ sigpend[p] # NoSig)
  PROVE  FreshOK(p)'
<1> SUFFICES ASSUME ~ (state[p] # "TaskQuit" /\ sigpend[p] # NoSig),
                    \/ /\ pc'[p] \in OwnWait /\ latest'[p] = Len(calls'[p])
                       /\ state'[p] = "TaskReady"
                    \/ \E i \in 1 .. Len(calls'[p]) :
                         calls'[p][i] \in OwnWait /\ latest'[p] = i - 1
             PROVE  sigchldpid[p] \notin reported
  BY DEF FreshOK
<1>0. \/ pc[p] \in OwnWait /\ latest[p] = Len(calls[p]) /\ state[p] = "TaskReady"
      \/ \E i \in 1 .. Len(calls[p]) : calls[p][i] \in OwnWait /\ latest[p] = i - 1
  <2>1. CASE Stays(p)
    BY <2>1 DEF Stays
  <2>2. CASE Enters(p)
    <3>1. PICK i \in 1 .. Len(calls[p]) : Len(calls[p]) = i - 1
      BY <2>2 DEF Enters
    <3>2. Len(calls[p]) \in Nat
      OBVIOUS
    <3> QED BY <3>1, <3>2
  <2>3. CASE Leaves(p)
    BY <2>3 DEF Leaves, Plain, OwnWait
  <2>4. CASE Pushes(p)
    BY <2>4 DEF Pushes
  <2>5. CASE Pops(p)
    <3>1. PICK s \in Seq(PCs) : s = calls[p] /\ s # <<>>
      BY <2>5 DEF Pops
    <3>2. PICK r \in Seq(PCs) :
            /\ r = SubSeq(s, 1, Len(s) - 1) /\ Len(r) = Len(s) - 1
            /\ \A i \in 1 .. Len(s) - 1 : r[i] = s[i]
            /\ Len(s) \in Nat \ {0} /\ s[Len(s)] \in PCs
      BY <3>1, PopFacts
    <3>3. calls'[p] = r /\ pc'[p] = s[Len(s)] /\ latest'[p] = latest[p]
      BY <2>5, <3>1, <3>2 DEF Pops
    <3>4. \A i \in 1 .. Len(r) : i \in 1 .. Len(s) /\ r[i] = s[i]
      BY <3>2
    <3>5. Len(s) \in 1 .. Len(s) /\ Len(s) - 1 = Len(r)
      BY <3>2
    <3>6. CASE pc'[p] \in OwnWait /\ latest'[p] = Len(calls'[p])
      BY <3>1, <3>3, <3>5, <3>6
    <3>7. CASE \E i \in 1 .. Len(calls'[p]) : calls'[p][i] \in OwnWait /\ latest'[p] = i - 1
      BY <3>1, <3>3, <3>4, <3>7
    <3> QED BY <3>6, <3>7
  <2> QED BY <2>1, <2>2, <2>3, <2>4, <2>5
<1> QED BY <1>0 DEF FreshOK

\* Steps that report nothing.
LEMMA SilentReported ==
  ASSUME WaitInv, WaitNext, ~ Wait4Return, reported' = reported
  PROVE  DeadOK' /\ \A p \in Pid : FreshOK(p)'
<1> USE PidFacts
<1>0. /\ TypeOK /\ LinksOK /\ RunningClean /\ Unborn /\ RunnerOK /\ KernelOK
      /\ IInv /\ ListInv /\ DeadOK /\ latest \in [Pid -> Nat]
      /\ \A p \in Pid : FreshOK(p)
  BY DEF WaitInv, IInv
<1>T. \A p \in Pid : pc[p] \in PCs /\ calls[p] \in Seq(PCs)
  BY <1>0 DEF TypeOK, FieldTypes, StackTypes
<1>S. \A p \in Pid : Stays(p) \/ Enters(p) \/ Leaves(p) \/ Pushes(p) \/ Pops(p)
  BY <1>0, ProgramStep
<1>F. FieldTypes
  BY <1>0, FieldTypesOK
<1>1. CASE Fork
  <2>1. /\ CurrentTask \in Pid /\ next_pid \in Pid /\ state[next_pid] = "TaskInit"
        /\ sigpend[CurrentTask] = NoSig
        /\ Caller(CurrentTask) \notin OwnWait
    <3>1. CurrentTask \in Pid /\ next_pid \in Pid /\ Running(CurrentTask)
      BY <1>F, <1>1 DEF Fork, FieldTypes, Pid
    <3>2. state[next_pid] = "TaskInit"
      <4>1. next_pid >= next_pid
        BY <1>F DEF FieldTypes
      <4> QED BY <1>0, <3>1, <4>1 DEF Unborn
    <3>4. state[CurrentTask] # "TaskQuit"
      BY <1>0, <1>1, <3>1 DEF Fork, RunnerOK
    <3>5. sigpend[CurrentTask] = NoSig
      BY <1>0, <3>1, <3>4 DEF Running, RunningClean
    <3>3. Caller(CurrentTask) \notin OwnWait
      BY DEF Caller, OwnWait
    <3> QED BY <3>1, <3>2, <3>3, <3>5
  <2>2. /\ state' = [state EXCEPT ![next_pid] = "TaskReady"]
        /\ sigpend' = [sigpend EXCEPT ![next_pid] = NoSig]
        /\ pc' = [pc EXCEPT ![CurrentTask] = IF @ = "kmain" THEN "spin" ELSE @,
                            ![next_pid] = Caller(CurrentTask)]
        /\ UNCHANGED sigchldpid
    BY <1>1, <2>1 DEF Fork, task_clone
  <2>3. ASSUME NEW p \in Pid
        PROVE  FreshOK(p)'
    <3>1. state'[p] # "TaskQuit" /\ sigpend'[p] # NoSig =>
            state[p] # "TaskQuit" /\ sigpend[p] # NoSig
      BY <1>F, <2>1, <2>2 DEF FieldTypes
    <3>2. pc'[p] \in OwnWait /\ state'[p] = "TaskReady" => state[p] = "TaskReady"
      <4>1. CASE p = next_pid
        BY <1>0, <2>1, <2>2, <4>1 DEF TypeOK, FieldTypes
      <4>2. CASE p # next_pid
        BY <1>F, <2>1, <2>2, <4>2 DEF FieldTypes
      <4> QED BY <4>1, <4>2
    <3> QED BY <1>0, <1>T, <1>S, <2>2, <3>1, <3>2, FreshStep
  <2>4. DeadOK'
    BY <1>0, <1>F, <2>1, <2>2 DEF DeadOK, FieldTypes
  <2> QED BY <2>3, <2>4
<1>2. ASSUME NEW status \in ExitCodes, Exit(status)
      PROVE  DeadOK' /\ \A p \in Pid : FreshOK(p)'
  <2> DEFINE self == CurrentTask
             parent == ppid[self]
  <2>1. /\ self \in Pid /\ parent \in Pid /\ state[self] = "TaskReady"
        /\ state' = [state EXCEPT ![self] = "TaskQuit"]
        /\ pc' = [pc EXCEPT ![self] = "exit"]
        /\ calls' = [calls EXCEPT ![self] = <<>>]
    BY <1>0, <1>2 DEF Exit, InProgram, Running, TypeOK, FieldTypes, RunnerOK
  <2>1a. self \notin reported
    <3>1. self # KERNEL_PID
      BY <1>0, <1>2 DEF Exit, InProgram, KernelOK
    <3> QED BY <1>0, <2>1, <3>1 DEF DeadOK
  <2>2. \/ /\ sigpend' = [sigpend EXCEPT ![self] = SIGTERM]
           /\ UNCHANGED sigchldpid
        \/ /\ sigpend' = [sigpend EXCEPT ![self] = SIGTERM, ![parent] = SIGCHLD]
           /\ sigchldpid' = [sigchldpid EXCEPT ![parent] = self]
    BY <1>2, <2>1, TaskGetResult DEF Exit, task_signal_raise
  <2>3. \A p \in Pid \ {self} :
          \/ sigchldpid'[p] = self
          \/ sigchldpid'[p] = sigchldpid[p] /\ sigpend'[p] = sigpend[p]
    BY <1>F, <2>1, <2>2 DEF FieldTypes
  <2>4. \A p \in Pid \ {self} : state'[p] = state[p]
    BY <1>F, <2>1 DEF FieldTypes
  <2>5. state'[self] = "TaskQuit" /\ pc'[self] = "exit" /\ calls'[self] = <<>>
    BY <1>0, <2>1 DEF TypeOK, FieldTypes, StackTypes
  <2> HIDE DEF self, parent
  <2>6. ASSUME NEW p \in Pid
        PROVE  FreshOK(p)'
    <3>1. CASE p = self
      BY <2>5, <3>1 DEF FreshOK, OwnWait
    <3>2. CASE p # self /\ sigchldpid'[p] = self
      BY <2>1a, <3>2 DEF FreshOK
    <3>3. CASE p # self /\ sigchldpid'[p] = sigchldpid[p] /\ sigpend'[p] = sigpend[p]
      <4>1. state'[p] = state[p]
        BY <2>4, <3>3
      <4> QED BY <1>0, <1>T, <1>S, <3>3, <4>1, FreshStep
    <3> QED BY <2>3, <3>1, <3>2, <3>3
  <2>7. DeadOK'
    BY <1>0, <2>4, <2>5 DEF DeadOK
  <2> QED BY <2>6, <2>7
<1>3. CASE (\E nohang \in BOOLEAN : Wait4(nohang)) \/ RtSigsuspend
  <2>1. /\ CurrentTask \in Pid /\ state[CurrentTask] = "TaskReady"
        /\ state' = [state EXCEPT ![CurrentTask] = "TaskSigWait"]
        /\ UNCHANGED <<sigpend, sigchldpid>>
    BY <1>0, <1>3 DEF Wait4, RtSigsuspend, task_sigwait, InProgram, Running, TypeOK, FieldTypes, RunnerOK
  <2>2. \A p \in Pid : /\ state'[p] # "TaskQuit" => state[p] # "TaskQuit"
                       /\ state'[p] = "TaskReady" => state[p] = "TaskReady"
                       /\ state[p] = "TaskQuit" => state'[p] = "TaskQuit"
    BY <1>F, <2>1 DEF FieldTypes
  <2>3. ASSUME NEW p \in Pid
        PROVE  FreshOK(p)'
    BY <1>0, <1>T, <1>S, <2>1, <2>2, FreshStep
  <2> QED BY <1>0, <2>2, <2>3 DEF DeadOK
<1>4. CASE \/ RtSigsuspendReturn \/ HandlerReturn \/ Yield \/ Preempt \/ WalkPast
           \/ WalkUnlink \/ \E set \in BOOLEAN : task_signal(set)
  <2>1. UNCHANGED <<state, sigpend, sigchldpid>>
    BY <1>4 DEF RtSigsuspendReturn, HandlerReturn, Yield, Preempt, WalkPast, WalkUnlink,
       task_signal, signals
  <2>2. ASSUME NEW p \in Pid
        PROVE  FreshOK(p)'
    BY <1>0, <1>T, <1>S, <2>1, FreshStep
  <2> QED BY <1>0, <2>1, <2>2 DEF DeadOK
<1>5. CASE WalkEnter
  <2>1. PICK n \in Pid : n = next[next_task]
    BY <1>0, <1>5 DEF WalkEnter, LinksOK
  <2>2. /\ state[n] \in {"TaskReady", "TaskSigWait"}
        /\ state[n] # "TaskReady" => sigpend[n] # NoSig
        /\ state' = [state EXCEPT ![n] = "TaskReady"]
        /\ UNCHANGED sigchldpid
        /\ sigpend' \in {sigpend, [sigpend EXCEPT ![n] = NoSig]}
    BY <1>5, <2>1 DEF WalkEnter, task_enter, task_signal_exec, Wakeable
  <2>3. \A p \in Pid : /\ state'[p] # "TaskQuit" <=> state[p] # "TaskQuit"
                       /\ sigpend'[p] # NoSig => sigpend[p] # NoSig
                       /\ state'[p] = "TaskReady" => state[p] = "TaskReady" \/ sigpend[p] # NoSig
    BY <1>F, <2>1, <2>2 DEF FieldTypes
  <2>4. ASSUME NEW p \in Pid
        PROVE  FreshOK(p)'
    <3>1. pc'[p] \in OwnWait /\ state'[p] = "TaskReady" =>
            state[p] = "TaskReady" \/ (state[p] # "TaskQuit" /\ sigpend[p] # NoSig)
      BY <2>3
    <3> QED BY <1>0, <1>T, <1>S, <2>2, <2>3, <3>1, FreshStep
  <2> QED BY <1>0, <2>3, <2>4 DEF DeadOK
<1> QED BY <1>1, <1>2, <1>3, <1>4, <1>5 DEF WaitNext, Next

\* The record of what was reported stays right when wait4 returns: the child it
\* reports is no other task's child, its parent has no further signal, and the
\* calls of wait4 a handler interrupted further down are not the latest.
LEMMA StepWaitInv ==
  ASSUME WaitInv, [WaitNext]_waitvars
  PROVE  WaitInv'
<1> USE PidFacts
<1>0. /\ TypeOK /\ RunningClean /\ RunnerOK /\ ChildRecordOK /\ IInv /\ ListInv
      /\ DeadOK /\ latest \in [Pid -> Nat]
      /\ \A p \in Pid : LatestOK(p) /\ FreshOK(p)
  BY DEF WaitInv, IInv
<1>T. \A p \in Pid : pc[p] \in PCs /\ calls[p] \in Seq(PCs) /\ Len(calls[p]) \in Nat
  BY <1>0 DEF TypeOK, FieldTypes, StackTypes
<1>1. IInv' /\ ListInv'
  <2>1. [Next]_vars
    BY DEF WaitNext, waitvars
  <2> QED BY <1>0, <2>1, StepIInv, StepListInv
<1>2. CASE UNCHANGED waitvars
  <2>1. DeadOK' /\ latest' \in [Pid -> Nat]
    BY <1>0, <1>2 DEF waitvars, vars, DeadOK
  <2>2. \A p \in Pid : LatestOK(p)' /\ FreshOK(p)'
    BY <1>0, <1>2 DEF waitvars, vars, LatestOK, FreshOK
  <2> QED BY <1>1, <2>1, <2>2 DEF WaitInv
<1>3. ASSUME WaitNext
      PROVE  latest' \in [Pid -> Nat] /\ \A p \in Pid : LatestOK(p)'
  <2>1. latest' \in [Pid -> Nat]
    BY <1>0, <1>T, <1>3 DEF WaitNext
  <2>2. ASSUME NEW p \in Pid
        PROVE  LatestOK(p)'
    BY <1>0, <1>T, <1>3, ProgramStep, LatestStep
  <2> QED BY <2>1, <2>2
<1>4. CASE WaitNext /\ ~ Wait4Return
  <2>1. {sigchldpid[p] : p \in {q \in Pid : Reports(q)}} = {}
    BY <1>0, <1>4, WhoReports DEF WaitNext
  <2>2. reported' = reported
    BY <1>4, <2>1 DEF WaitNext
  <2>3. DeadOK' /\ \A p \in Pid : FreshOK(p)'
    BY <1>4, <2>2, SilentReported
  <2> QED BY <1>1, <1>3, <1>4, <2>3 DEF WaitInv
<1>5. CASE WaitNext /\ Wait4Return
  <2>1. PICK self \in Pid : self = CurrentTask
    BY <1>0 DEF TypeOK, FieldTypes
  <2>2. /\ InWait4(self) /\ state[self] = "TaskReady" /\ sigpend[self] = NoSig
        /\ pc' = [pc EXCEPT ![self] = Caller(self)] /\ Caller(self) \in {"user", "handler"}
        /\ UNCHANGED <<state, sigpend, sigchldpid, calls>>
    <3>1. next_task = NULL /\ InWait4(self)
      BY <1>5, <2>1 DEF Wait4Return, Running
    <3>2. state[self] = "TaskReady"
      BY <1>0, <2>1, <3>1 DEF RunnerOK, InWait4, OwnWait
    <3> QED BY <1>0, <1>5, <2>1, <3>1, <3>2 DEF Wait4Return, Caller, RunningClean, signals
  <2>3. \A p \in Pid : pc'[p] = IF p = self THEN Caller(self) ELSE pc[p]
    BY <1>0, <2>2 DEF TypeOK, FieldTypes
  <2>4. Reports(self)
    BY <2>2, <2>3 DEF Reports, InWait4, OwnWait
  <2>5. reported' = reported \union {sigchldpid[self]}
    <3>1. {q \in Pid : Reports(q)} = {self}
      BY <1>0, <1>5, <2>1, <2>4, WhoReports DEF WaitNext
    <3> QED BY <1>5, <3>1 DEF WaitNext
  <2>6. /\ sigchldpid[self] \in Pid
        /\ sigchldpid[self] # KERNEL_PID =>
             ppid[sigchldpid[self]] = self /\ state[sigchldpid[self]] = "TaskQuit"
    BY <1>0 DEF ChildRecordOK, TypeOK, FieldTypes
  <2>7. DeadOK'
    BY <1>0, <2>2, <2>5, <2>6 DEF DeadOK
  <2>8. \A p \in Pid : latest'[p] = latest[p]
    <3>1. \A p \in Pid : ~ Calls(p)
      BY <2>2, <2>3 DEF Calls, OwnWait
    <3> QED BY <1>0, <1>5, <3>1, LatestKept
  <2>9. ASSUME NEW p \in Pid
        PROVE  FreshOK(p)'
    <3>1. CASE p = self
      <4>1. \A i \in 1 .. Len(calls[self]) : calls[self][i] \in OwnWait => latest[self] # i - 1
        <5>1. CASE pc[self] = "wait4_copy"
          BY <1>0, <5>1 DEF LatestOK
        <5>2. CASE pc[self] \in OwnWait
          <6>1. Len(calls[self]) <= latest[self] /\ latest[self] \in Nat
            BY <1>0, <5>2 DEF LatestOK
          <6> QED BY <1>T, <6>1
        <5> QED BY <2>2, <5>1, <5>2 DEF InWait4
      <4>2. pc'[self] \notin OwnWait
        BY <2>2, <2>3 DEF OwnWait
      <4>3. sigpend'[self] = NoSig /\ calls'[self] = calls[self] /\ latest'[self] = latest[self]
        BY <2>2, <2>8
      <4> QED BY <3>1, <4>1, <4>2, <4>3 DEF FreshOK
    <3>2. CASE p # self
      <4>1. /\ pc'[p] = pc[p] /\ calls'[p] = calls[p] /\ latest'[p] = latest[p]
            /\ state'[p] = state[p] /\ sigpend'[p] = sigpend[p] /\ sigchldpid'[p] = sigchldpid[p]
        BY <2>2, <2>3, <2>8, <3>2
      <4>2. CASE sigchldpid[p] # sigchldpid[self]
        BY <1>0, <2>5, <4>1, <4>2 DEF FreshOK
      <4>3. CASE sigchldpid[p] = sigchldpid[self]
        <5>1. sigchldpid[p] = KERNEL_PID
          BY <1>0, <2>6, <3>2, <4>3 DEF ChildRecordOK
        <5>2. /\ ~ (state[p] # "TaskQuit" /\ sigpend[p] # NoSig)
              /\ ~ (pc[p] \in OwnWait /\ state[p] = "TaskReady")
              /\ \A i \in 1 .. Len(calls[p]) : calls[p][i] \notin OwnWait
          BY <1>0, <5>1 DEF ChildRecordOK
        <5> QED BY <4>1, <5>2 DEF FreshOK
      <4> QED BY <4>2, <4>3
    <3> QED BY <3>1, <3>2
  <2> QED BY <1>1, <1>3, <1>5, <2>7, <2>9 DEF WaitInv
<1> QED BY <1>2, <1>4, <1>5

\* No child is reported twice, whichever wait4 of its parent, timer ticks and exits
\* of its siblings its SIGCHLD interleaves with, unless a handler that runs inside
\* the wait4 calls wait4.
THEOREM NothingReportedTwice == WaitSpec => NoDoubleReport
<1> USE PidFacts
<1>1. WaitInit => WaitInv
  <2> SUFFICES ASSUME WaitInit PROVE WaitInv
    OBVIOUS
  <2>1. /\ IInv /\ ListInv /\ DeadOK /\ latest \in [Pid -> Nat]
    BY InitIInv, InitListInv DEF WaitInit, DeadOK
  <2>2. ASSUME NEW p \in Pid
        PROVE  /\ latest[p] = 0 /\ pc[p] \in {"kmain", "user"} /\ calls[p] = <<>>
               /\ sigpend[p] = NoSig
    BY DEF WaitInit, Init
  <2>3. ASSUME NEW p \in Pid
        PROVE  LatestOK(p) /\ FreshOK(p)
    BY <2>2 DEF LatestOK, FreshOK, OwnWait
  <2> QED BY <2>1, <2>3 DEF WaitInv
<1>2. ASSUME WaitInv, [WaitNext]_waitvars
      PROVE  [\A p \in Pid :
                Reports(p) /\ pc[p] \in OwnWait /\ latest[p] = Len(calls[p]) =>
                  sigchldpid[p] \notin reported]_waitvars
  <2> SUFFICES ASSUME WaitNext, NEW p \in Pid, Reports(p), pc[p] \in OwnWait,
                      latest[p] = Len(calls[p])
               PROVE  sigchldpid[p] \notin reported
    BY <1>2
  <2>1. Wait4Return /\ p = CurrentTask /\ Running(p)
    BY <1>2, WhoReports DEF WaitInv, WaitNext, Wait4Return
  <2>2. state[p] = "TaskReady"
    BY <1>2, <2>1 DEF WaitInv, IInv, RunnerOK, Running, OwnWait
  <2> QED BY <1>2, <2>2 DEF WaitInv, FreshOK
<1> QED BY <1>1, <1>2, StepWaitInv, PTL DEF WaitSpec, NoDoubleReport
-----------------------------------------------------------------------------
(* Refinement *)

Notified == {p \in Pid : Live(p) /\ sigpend[p] = SIGCHLD}
Status == [p \in Pid |-> statusOf(p)]

\* The four states of a task are the four of a process.
LEMMA StatusFacts ==
  ASSUME TypeOK, NEW p \in Pid
  PROVE  /\ Status[p] = "absent" <=> state[p] = "TaskInit"
         /\ Status[p] = "runnable" <=> state[p] = "TaskReady"
         /\ Status[p] = "blocked" <=> state[p] = "TaskSigWait"
         /\ Status[p] = "dead" <=> state[p] = "TaskQuit"
         /\ Status[p] \in {"runnable", "blocked"} <=> Live(p)
BY DEF TypeOK, FieldTypes, TaskStates, Status, statusOf, Live

\* Changing a task's state changes its process's status.
LEMMA StatusChange ==
  ASSUME TypeOK, NEW p \in Pid, NEW s \in TaskStates, NEW u,
         state' = [state EXCEPT ![p] = s],
         u = CASE s = "TaskInit" -> "absent" [] s = "TaskReady" -> "runnable"
               [] s = "TaskSigWait" -> "blocked" [] s = "TaskQuit" -> "dead"
  PROVE  Status' = [Status EXCEPT ![p] = u]
<1>1. \A q \in Pid : statusOf(q)' = IF q = p THEN u ELSE statusOf(q)
  BY DEF TypeOK, FieldTypes, statusOf, TaskStates
<1> QED BY <1>1 DEF Status

\* fork spawns a process.
LEMMA ForkSpawns ==
  ASSUME IInv, ListInv, Fork
  PROVE  PL!Spawn(next_pid)
<1> USE PidFacts
<1>0. TypeOK /\ RunningClean /\ RunnerOK /\ Unborn
  BY DEF IInv
<1>1. /\ CurrentTask \in Pid /\ next_pid \in Pid
      /\ state[CurrentTask] = "TaskReady" /\ state[next_pid] = "TaskInit"
      /\ sigpend[CurrentTask] = NoSig
  <2>1. CurrentTask \in Pid /\ next_pid \in Pid /\ next_pid \in Nat /\ Running(CurrentTask)
    BY <1>0 DEF Fork, TypeOK, FieldTypes
  <2>2. state[next_pid] = "TaskInit"
    BY <1>0, <2>1 DEF Unborn
  <2>3. state[CurrentTask] = "TaskReady"
    BY <1>0, <2>1 DEF Fork, Running, RunnerOK
  <2> QED BY <1>0, <2>1, <2>2, <2>3 DEF Running, RunningClean
<1>2. /\ state' = [state EXCEPT ![next_pid] = "TaskReady"]
      /\ sigpend' = [sigpend EXCEPT ![next_pid] = NoSig]
      /\ ppid' = [ppid EXCEPT ![next_pid] = CurrentTask]
      /\ CurrentTask' = CurrentTask
  BY <1>1 DEF Fork, task_clone
<1>3. Status' = [Status EXCEPT ![next_pid] = "runnable"]
  BY <1>0, <1>1, <1>2, StatusChange DEF TaskStates
<1>4. Notified' = Notified
  BY <1>0, <1>1, <1>2 DEF Notified, Live, TypeOK, FieldTypes, NoSig, SIGCHLD
<1>5. Status[CurrentTask] = "runnable" /\ Status[next_pid] = "absent"
  BY <1>0, <1>1, StatusFacts
<1> QED BY <1>2, <1>3, <1>4, <1>5 DEF PL!Spawn, Status, Notified

\* exit ends a process and tells its parent, if the parent is alive.
LEMMA ExitDies ==
  ASSUME IInv, ListInv, NEW status \in ExitCodes, Exit(status)
  PROVE  PL!Die
<1> USE PidFacts
<1> DEFINE self == CurrentTask
           parent == ppid[self]
<1>0. TypeOK /\ LinksOK /\ RunnerOK /\ KernelOK /\ FamilyOK /\ OneRing
  BY DEF IInv, ListInv
<1>1. /\ self \in Pid /\ parent \in Pid /\ self # KERNEL_PID /\ parent # self
      /\ state[self] = "TaskReady" /\ Running(self)
  <2>1. self \in Pid /\ parent \in Pid /\ pc[self] \in {"user", "handler"} /\ Running(self)
    BY <1>0 DEF Exit, InProgram, TypeOK, FieldTypes
  <2>2. self # KERNEL_PID /\ state[self] = "TaskReady"
    BY <1>0, <2>1 DEF KernelOK, RunnerOK, Running
  <2> QED BY <1>0, <2>1, <2>2 DEF FamilyOK
<1>2. /\ state' = [state EXCEPT ![self] = "TaskQuit"]
      /\ UNCHANGED <<ppid, CurrentTask>>
  BY DEF Exit
<1>3. IF Linked(parent)
      THEN sigpend' = [sigpend EXCEPT ![self] = SIGTERM, ![parent] = SIGCHLD]
      ELSE sigpend' = [sigpend EXCEPT ![self] = SIGTERM]
  <2>1. task_get(parent) = IF Linked(parent) THEN parent ELSE NULL
    BY <1>0, <1>1, ExitFindsParent
  <2> QED BY <1>1, <2>1 DEF Exit, task_signal_raise
<1>4. Status' = [Status EXCEPT ![self] = "dead"]
  BY <1>0, <1>1, <1>2, StatusChange DEF TaskStates
<1>5. Live(parent) => Linked(parent)
  BY <1>0, <1>1 DEF LinksOK
<1>6. Notified' = (Notified \ {self}) \union {p \in {parent} : Live(p)}
  <2>1. ASSUME NEW p \in Pid
        PROVE  Live(p)' <=> Live(p) /\ p # self
    BY <1>0, <1>1, <1>2 DEF Live, TypeOK, FieldTypes
  <2>2. ASSUME NEW p \in Pid, p # self
        PROVE  sigpend'[p] = IF p = parent /\ Linked(parent) THEN SIGCHLD ELSE sigpend[p]
    BY <1>0, <1>1, <1>3, <2>2 DEF TypeOK, FieldTypes
  <2> HIDE DEF self, parent
  <2> QED BY <1>1, <1>5, <2>1, <2>2 DEF Notified
<1>7. Status[self] = "runnable" /\ (Status[parent] \in {"runnable", "blocked"} <=> Live(parent))
  BY <1>0, <1>1, StatusFacts
<1>8. {p \in {parent} : Status[p] \in {"runnable", "blocked"}} = {p \in {parent} : Live(p)}
  BY <1>7
<1> QED BY <1>1, <1>2, <1>4, <1>6, <1>7, <1>8 DEF PL!Die, PL!Alive, Status, Notified

\* wait4 and sigsuspend block a process.
LEMMA SleepBlocks ==
  ASSUME IInv, ListInv, (\E nohang \in BOOLEAN : Wait4(nohang)) \/ RtSigsuspend
  PROVE  PL!Block
<1> USE PidFacts
<1>0. TypeOK /\ RunnerOK /\ KernelOK
  BY DEF IInv
<1>1. CurrentTask \in Pid /\ pc[CurrentTask] \in {"user", "handler"} /\ Running(CurrentTask)
  BY <1>0 DEF Wait4, RtSigsuspend, InProgram, TypeOK, FieldTypes
<1>2. CurrentTask # KERNEL_PID /\ state[CurrentTask] = "TaskReady"
  BY <1>0, <1>1 DEF KernelOK, RunnerOK, Running
<1>3. /\ state' = [state EXCEPT ![CurrentTask] = "TaskSigWait"]
      /\ UNCHANGED <<ppid, sigpend, CurrentTask>>
  BY DEF Wait4, RtSigsuspend, task_sigwait, family
<1>4. Status' = [Status EXCEPT ![CurrentTask] = "blocked"]
  BY <1>0, <1>1, <1>3, StatusChange DEF TaskStates
<1>5. Notified' = Notified
  BY <1>0, <1>1, <1>2, <1>3 DEF Notified, Live, TypeOK, FieldTypes
<1>6. Status[CurrentTask] = "runnable"
  BY <1>0, <1>1, <1>2, StatusFacts
<1> QED BY <1>2, <1>3, <1>4, <1>5, <1>6 DEF PL!Block, Status, Notified

\* The end of the walk dispatches a process that is runnable or was notified.
LEMMA EnterDispatches ==
  ASSUME IInv, ListInv, WalkEnter
  PROVE  \E p \in Pid : PL!Dispatch(p)
<1> USE PidFacts
<1>0. TypeOK /\ LinksOK /\ CloneOK /\ FamilyOK
  BY DEF IInv, ListInv
<1>1. PICK n \in Pid : n = next[next_task]
  BY <1>0 DEF WalkEnter, LinksOK
<1>2. /\ Live(n)
      /\ state[n] = "TaskReady" \/ (state[n] = "TaskSigWait" /\ sigpend[n] # NoSig)
      /\ state' = [state EXCEPT ![n] = "TaskReady"]
      /\ CurrentTask' = n /\ UNCHANGED ppid
  BY <1>0, <1>1 DEF WalkEnter, task_enter, Live, Wakeable, family
<1>3. \/ sigpend' = [sigpend EXCEPT ![n] = NoSig]
      \/ sigpend' = sigpend /\ context[n] = "fork"
  BY <1>0, <1>1, <1>2 DEF WalkEnter, task_enter, task_signal_exec, TypeOK, FieldTypes
<1>4. /\ \A p \in Pid \ {n} : sigpend'[p] = sigpend[p]
      /\ sigpend'[n] = NoSig
  BY <1>0, <1>2, <1>3 DEF TypeOK, FieldTypes, CloneOK
<1>5. state[n] = "TaskSigWait" => n \in Notified
  BY <1>0, <1>2 DEF Notified, FamilyOK, TypeOK, FieldTypes
<1>6. Status' = [Status EXCEPT ![n] = "runnable"]
  BY <1>0, <1>2, StatusChange DEF TaskStates
<1>7. Notified' = Notified \ {n}
  <2>1. \A p \in Pid \ {n} : state'[p] = state[p] /\ sigpend'[p] = sigpend[p]
    BY <1>0, <1>2, <1>4 DEF TypeOK, FieldTypes
  <2>2. n \notin Notified'
    BY <1>4 DEF Notified, NoSig, SIGCHLD
  <2>3. \A p \in Pid \ {n} : p \in Notified' <=> p \in Notified
    BY <2>1 DEF Notified, Live
  <2> QED BY <2>2, <2>3 DEF Notified
<1>8. /\ Status[n] = "runnable" <=> state[n] = "TaskReady"
      /\ Status[n] = "blocked" <=> state[n] = "TaskSigWait"
  BY <1>0, <1>2, StatusFacts
<1>9. PL!Dispatch(n)
  BY <1>2, <1>5, <1>6, <1>7, <1>8 DEF PL!Dispatch, Status, Notified
<1> QED BY <1>9

\* Every step of the kernel is a step of ProcLife or changes nothing it sees.
LEMMA StepRefines ==
  ASSUME IInv, ListInv, [Next]_vars
  PROVE  [PL!PLNext]_(PL!plvars)
<1> USE PidFacts
<1>1. CASE Fork
  <2>1. next_pid \in Pid
    BY <1>1 DEF IInv, Fork, TypeOK, FieldTypes
  <2> QED BY <1>1, <2>1, ForkSpawns DEF PL!PLNext
<1>2. ASSUME NEW status \in ExitCodes, Exit(status)
      PROVE  PL!PLNext
  BY <1>2, ExitDies DEF PL!PLNext
<1>3. CASE (\E nohang \in BOOLEAN : Wait4(nohang)) \/ RtSigsuspend
  BY <1>3, SleepBlocks DEF PL!PLNext
<1>4. CASE WalkEnter
  BY <1>4, EnterDispatches DEF PL!PLNext
<1>5. CASE \/ Wait4Return \/ RtSigsuspendReturn \/ HandlerReturn \/ Yield \/ Preempt
           \/ WalkUnlink \/ WalkPast \/ UNCHANGED vars
           \/ \E set \in BOOLEAN : task_signal(set)
  <2>1. UNCHANGED <<state, ppid, sigpend, CurrentTask>>
    BY <1>5 DEF Wait4Return, RtSigsuspendReturn, HandlerReturn, Yield, Preempt,
       WalkUnlink, WalkPast, task_signal, vars, family, signals
  <2>2. Status' = Status /\ Notified' = Notified
    BY <2>1 DEF Status, statusOf, Notified, Live
  <2> QED BY <2>1, <2>2 DEF PL!plvars, Status, Notified
<1> QED BY <1>1, <1>2, <1>3, <1>4, <1>5 DEF Next

\* The task list, the scheduler, fork, exit and the SIGCHLD based wait implement
\* the life of processes, for every number of processes: the dead are never
\* dispatched, the blocked only after a child died, and a live parent learns of
\* every death, which is where task_get must find it in the ring.
THEOREM RefinesProcLife == Spec => PL!PLSafe
<1>1. Init => PL!PLInit
  BY PidFacts DEF Init, PL!PLInit, statusOf, Live, NoSig, SIGCHLD
<1> QED BY <1>1, ListInvariance, StepRefines, PTL DEF Spec, PL!PLSafe
=============================================================================
