----------------------------- MODULE FilesProofs ----------------------------
(***************************************************************************)
(* Theorems about Vfs and Files, for any archive, any number of tasks, any *)
(* table sizes and any width of numbers.                                   *)
(*                                                                         *)
(* The children of a directory are stated without counting steps: no set   *)
(* of linked nodes but all of them has the first child and is closed under *)
(* next_sibling.  Every way of linking a node preserves this, and it says  *)
(* that the walk of fs_child_iter meets them all.                          *)
(***************************************************************************)
EXTENDS Files, FiniteSetTheorems, NaturalsInduction, TLAPS

\* Every set of natural numbers that is not empty has a least element.
LEMMA LeastNatural ==
  ASSUME NEW T \in SUBSET Nat, T # {}
  PROVE  \E x \in T : \A y \in T : x <= y
<1> DEFINE R == OpToRel(<, Nat)
<1>1. IsWellFoundedOn(R, Nat)
  BY NatLessThanWellFounded
<1>2. \A x, y \in Nat : x < y => <<x, y>> \in R
  BY DEF OpToRel
<1> HIDE DEF R
<1>3. PICK x \in T : \A y \in T : ~ (<<y, x>> \in R)
  BY <1>1, WFMin
<1>4. \A y \in T : ~ (y < x)
  BY <1>2, <1>3
<1> QED BY <1>4

\* The minimum of a set of natural numbers.
LEMMA MinNatural ==
  ASSUME NEW S \in SUBSET Nat, S # {}
  PROVE  Min(S) \in S /\ \A y \in S : Min(S) <= y
BY LeastNatural DEF Min

-----------------------------------------------------------------------------
(* The walk along the siblings *)

N == Cardinality(Node)

LEMMA NodeFacts ==
  /\ IsFiniteSet(Node) /\ N \in Nat
  /\ NULL \notin Node /\ Dirs \subseteq Node /\ TTY \in Node /\ Files \subseteq Node
  /\ TTY \notin Dirs /\ TTY \notin Files /\ Dirs \intersect Files = {}
<1>1. IsFiniteSet(((Files \union {ROOT}) \union {DEV}) \union {INITRD} \union {TTY})
  <2>1. IsFiniteSet(Files \union {ROOT})
    BY VfsAssumption, FS_AddElement
  <2>2. IsFiniteSet((Files \union {ROOT}) \union {DEV})
    BY <2>1, FS_AddElement
  <2>3. IsFiniteSet(((Files \union {ROOT}) \union {DEV}) \union {INITRD})
    BY <2>2, FS_AddElement
  <2> QED BY <2>3, FS_AddElement
<1>2. Node = ((Files \union {ROOT}) \union {DEV}) \union {INITRD} \union {TTY}
  BY DEF Node, Dirs
<1>3. IsFiniteSet(Node) /\ N \in Nat
  BY <1>1, <1>2, FS_CardinalityType DEF N
<1>4. /\ NULL \notin Node /\ Dirs \subseteq Node /\ TTY \in Node /\ Files \subseteq Node
      /\ TTY \notin Dirs /\ TTY \notin Files /\ Dirs \intersect Files = {}
  BY VfsAssumption DEF Node, Dirs, NULL, ROOT, DEV, INITRD, TTY
<1> QED BY <1>3, <1>4

\* g walks from a along f for n steps, and stays at NULL.
IsWalk(g, f, a, n) ==
  g = [k \in 0 .. n |-> IF k = 0 THEN a ELSE IF g[k - 1] = NULL THEN NULL ELSE f[g[k - 1]]]

LEMMA WalkExists ==
  ASSUME NEW f, NEW a, NEW M \in Nat
  PROVE  \E g : IsWalk(g, f, a, M)
<1> DEFINE T == {n \in Nat : ~ \E g : IsWalk(g, f, a, n)}
<1> SUFFICES ASSUME M \in T
             PROVE  FALSE
  OBVIOUS
<1>1. PICK m \in T : \A n \in T : m <= n
  BY LeastNatural
<1>2. m # 0
  <2> DEFINE g == [k \in 0 .. 0 |-> a]
  <2>1. IsWalk(g, f, a, 0)
    BY DEF IsWalk
  <2> QED BY <2>1
<1>3. m - 1 \in Nat /\ m - 1 \notin T
  BY <1>1, <1>2
<1>4. PICK g : IsWalk(g, f, a, m - 1)
  BY <1>3
<1> DEFINE h == [k \in 0 .. m |->
                   IF k = m THEN (IF g[m - 1] = NULL THEN NULL ELSE f[g[m - 1]]) ELSE g[k]]
<1>5. ASSUME NEW k \in 0 .. m
      PROVE  h[k] = IF k = 0 THEN a ELSE IF h[k - 1] = NULL THEN NULL ELSE f[h[k - 1]]
  <2>1. CASE k = m
    BY <1>2, <1>3, <2>1
  <2>2. CASE k # m
    <3>1. k \in 0 .. m - 1 /\ (k # 0 => k - 1 \in 0 .. m /\ k - 1 # m)
      BY <1>1, <2>2
    <3>2. g[k] = IF k = 0 THEN a ELSE IF g[k - 1] = NULL THEN NULL ELSE f[g[k - 1]]
      BY <1>4, <3>1 DEF IsWalk
    <3> QED BY <2>2, <3>1, <3>2
  <2> QED BY <2>1, <2>2
<1>6. IsWalk(h, f, a, m)
  <2> HIDE DEF h
  <2>1. h = [k \in 0 .. m |-> h[k]]
    BY DEF h
  <2> QED BY <1>5, <2>1 DEF IsWalk
<1> QED BY <1>1, <1>6

\* What fs_child_iter computes.
LEMMA ChildIter ==
  ASSUME NEW d, NEW at, at = fs_child_iter(d)
  PROVE  /\ DOMAIN at = 0 .. N
         /\ at[0] = first_child[d]
         /\ \A k \in 1 .. N : at[k] = IF at[k - 1] = NULL THEN NULL ELSE next_sibling[at[k - 1]]
<1>1. at = CHOOSE g : IsWalk(g, next_sibling, first_child[d], N)
  BY DEF fs_child_iter, IsWalk, N
<1>2. IsWalk(at, next_sibling, first_child[d], N) /\ N \in Nat
  BY <1>1, WalkExists, NodeFacts
<1>3. \A k \in 0 .. N : at[k] = IF k = 0 THEN first_child[d]
                                ELSE IF at[k - 1] = NULL THEN NULL ELSE next_sibling[at[k - 1]]
  BY <1>2 DEF IsWalk
<1>4. DOMAIN at = 0 .. N
  BY <1>2 DEF IsWalk
<1> QED BY <1>2, <1>3, <1>4

-----------------------------------------------------------------------------
(* The children of a directory *)

Linked(d) == {n \in Node : <<d, n>> \in linked}

\* The siblings of d are one chain, from the first child to NULL.
ChainOK(d) ==
  /\ first_child[d] \in Linked(d) \union {NULL}
  /\ first_child[d] = NULL => Linked(d) = {}
  /\ \A n \in Linked(d) : next_sibling[n] \in Linked(d) \union {NULL}
  /\ \A S \in SUBSET Linked(d) :
       first_child[d] \in S /\ (\A n \in S : next_sibling[n] \in S \union {NULL})
         => S = Linked(d)

\* The links kmain makes, and which of them it has made before each of its calls.
Archive == {INITRD} \X Files
Tree == {<<ROOT, DEV>>, <<ROOT, INITRD>>, <<DEV, TTY>>} \union Archive
Boots == {"fs_create_rootfs", "initrd_mount", "modules_init", "console_init", "run"}

BootOK ==
  /\ boot \in Boots /\ linked \subseteq Tree
  /\ boot = "fs_create_rootfs" => linked = {}
  /\ boot = "initrd_mount" => linked \subseteq {<<ROOT, DEV>>} \union Archive
  /\ boot = "modules_init" => <<DEV, TTY>> \notin linked

VfsType ==
  /\ first_child \in [Dirs -> Node \union {NULL}]
  /\ next_sibling \in [Node -> Node \union {NULL}]

\* A node that was not linked has no sibling.
FreshOK == \A n \in Node : (\A d \in Dirs : <<d, n>> \notin linked) => next_sibling[n] = NULL

ChainsOK == \A d \in Dirs : ChainOK(d)

VfsInv == VfsType /\ BootOK /\ FreshOK /\ ChainsOK

\* A node has one parent.
LEMMA OneParent ==
  ASSUME NEW d, NEW e, NEW n, <<d, n>> \in Tree, <<e, n>> \in Tree
  PROVE  d = e
BY VfsAssumption DEF Tree, Archive, Dirs, ROOT, DEV, INITRD, TTY

\* The walk stays among the linked nodes.
LEMMA WalkStays ==
  ASSUME VfsInv, NEW d \in Dirs, NEW at, at = fs_child_iter(d), NEW k \in 0 .. N
  PROVE  at[k] \in Linked(d) \union {NULL}
<1> DEFINE T == {j \in 0 .. N : at[j] \notin Linked(d) \union {NULL}}
<1> SUFFICES ASSUME T # {}
             PROVE  FALSE
  OBVIOUS
<1>0. T \in SUBSET Nat
  BY NodeFacts
<1>1. PICK m \in T : \A j \in T : m <= j
  BY <1>0, LeastNatural
<1>2. at[0] = first_child[d]
      /\ \A j \in 1 .. N : at[j] = IF at[j - 1] = NULL THEN NULL ELSE next_sibling[at[j - 1]]
  BY ChildIter
<1>3. ChainOK(d) /\ N \in Nat
  BY NodeFacts DEF VfsInv, ChainsOK
<1>4. m # 0
  BY <1>1, <1>2, <1>3 DEF ChainOK
<1>5. m - 1 \in 0 .. N /\ m - 1 \notin T /\ m \in 1 .. N
  <2>1. m - 1 \in 0 .. N /\ m \in 1 .. N /\ ~ (m <= m - 1)
    BY <1>1, <1>3, <1>4
  <2> HIDE DEF T
  <2> QED BY <1>1, <2>1
<1>6. at[m - 1] \in Linked(d) \union {NULL}
  BY <1>5
<1>7. at[m] \in Linked(d) \union {NULL}
  BY <1>2, <1>3, <1>5, <1>6 DEF ChainOK
<1> QED BY <1>1, <1>7

\* The walk meets exactly the linked nodes: it reaches NULL, or by the pigeonhole
\* principle comes back to where it was, and what it met until then is closed.
LEMMA ChildrenAreLinked ==
  ASSUME VfsInv, NEW d \in Dirs
  PROVE  Children(d) = Linked(d)
<1> PICK at : at = fs_child_iter(d)
  OBVIOUS
<1>1. /\ at[0] = first_child[d]
      /\ \A j \in 1 .. N : at[j] = IF at[j - 1] = NULL THEN NULL ELSE next_sibling[at[j - 1]]
  BY ChildIter
<1>2. ChainOK(d) /\ N \in Nat /\ NULL \notin Node /\ IsFiniteSet(Node)
  BY NodeFacts DEF VfsInv, ChainsOK
<1>3. \A k \in 0 .. N : at[k] \in Linked(d) \union {NULL}
  BY WalkStays
<1>4. Children(d) = {at[k] : k \in 0 .. N} \ {NULL}
  BY DEF Children, N
<1>5. Children(d) \subseteq Linked(d)
  BY <1>3, <1>4
<1>6. CASE first_child[d] = NULL
  BY <1>2, <1>5, <1>6 DEF ChainOK
<1>7. CASE first_child[d] # NULL
  <2>1. \E y \in 1 .. N : at[y] = NULL \/ \E x \in 0 .. y - 1 : at[x] = at[y]
    <3>1. CASE \E y \in 0 .. N : at[y] = NULL
      <4> PICK y \in 0 .. N : at[y] = NULL
        BY <3>1
      <4>1. y # 0
        BY <1>1, <1>7
      <4>2. y \in 1 .. N
        BY <1>2, <4>1
      <4> QED BY <4>2
    <3>2. CASE \A y \in 0 .. N : at[y] # NULL
      <4>1. \A y \in 0 .. N : at[y] \in Node
        BY <1>3, <3>2 DEF Linked
      <4> DEFINE f == [k \in 0 .. N |-> at[k]]
      <4>2. f \in [0 .. N -> Node]
        BY <4>1
      <4>3. IsFiniteSet(0 .. N) /\ Cardinality(0 .. N) = N + 1 /\ Cardinality(Node) = N
        BY <1>2, FS_Interval DEF N
      <4>4. Cardinality(Node) < Cardinality(0 .. N)
        BY <1>2, <4>3
      <4> HIDE DEF f
      <4>5. PICK x, y \in 0 .. N : x # y /\ f[x] = f[y]
        BY <1>2, <4>2, <4>3, <4>4, FS_PigeonHole
      <4>6. at[x] = at[y] /\ x \in Nat /\ y \in Nat
        BY <1>2, <4>5 DEF f
      <4>7. CASE x < y
        <5>1. y \in 1 .. N /\ x \in 0 .. y - 1
          BY <1>2, <4>6, <4>7
        <5> QED BY <4>6, <5>1
      <4>8. CASE y < x
        <5>1. x \in 1 .. N /\ y \in 0 .. x - 1
          BY <1>2, <4>6, <4>8
        <5> QED BY <4>6, <5>1
      <4> QED BY <4>5, <4>6, <4>7, <4>8
    <3> QED BY <3>1, <3>2
  <2>2. PICK y \in 1 .. N : at[y] = NULL \/ \E x \in 0 .. y - 1 : at[x] = at[y]
    BY <2>1
  <2> DEFINE S == {at[k] : k \in 0 .. y - 1} \ {NULL}
  <2>3. /\ y \in Nat /\ 0 \in 0 .. y - 1
        /\ \A k \in 0 .. y - 1 : k \in 0 .. N /\ k + 1 \in 1 .. N
                                 /\ (k + 1 \in 0 .. y - 1 \/ k + 1 = y)
    BY <1>2
  <2>4. S \in SUBSET Linked(d) /\ S \subseteq Children(d)
    BY <1>3, <1>4, <2>3
  <2>5. first_child[d] \in S
    BY <1>1, <1>7, <2>3
  <2>6. ASSUME NEW n \in S
        PROVE  next_sibling[n] \in S \union {NULL}
    <3>1. PICK k \in 0 .. y - 1 : n = at[k] /\ n # NULL
      OBVIOUS
    <3>2. k + 1 \in 1 .. N /\ (k + 1) - 1 = k
      BY <2>3
    <3>3. at[k + 1] = next_sibling[n]
      <4>1. at[k + 1] = IF at[(k + 1) - 1] = NULL THEN NULL ELSE next_sibling[at[(k + 1) - 1]]
        BY <1>1, <3>2
      <4> QED BY <3>1, <3>2, <4>1
    <3>4. CASE k + 1 \in 0 .. y - 1
      BY <3>3, <3>4
    <3>5. CASE k + 1 = y
      BY <2>2, <3>3, <3>5
    <3> QED BY <2>3, <3>4, <3>5
  <2> HIDE DEF S
  <2>7. S = Linked(d)
    BY <1>2, <2>4, <2>5, <2>6 DEF ChainOK
  <2> QED BY <1>5, <2>4, <2>7
<1> QED BY <1>6, <1>7

\* A directory whose links and siblings stay as they are keeps its chain.
LEMMA ChainStays ==
  ASSUME NEW d, ChainOK(d), first_child'[d] = first_child[d], Linked(d)' = Linked(d),
         \A n \in Linked(d) : next_sibling'[n] = next_sibling[n]
  PROVE  ChainOK(d)'
BY DEF ChainOK

\* fs_link_child puts the new node in front of all siblings or behind one of them.
LEMMA LinkCases ==
  ASSUME VfsInv, NEW d \in Dirs, NEW child \in Node, fs_link_child(d, child)
  PROVE  /\ linked' = linked \union {<<d, child>>}
         /\ \/ /\ first_child[d] = NULL
               /\ first_child' = [first_child EXCEPT ![d] = child]
               /\ next_sibling' = next_sibling
            \/ /\ first_child[d] # NULL
               /\ first_child' = [first_child EXCEPT ![d] = child]
               /\ next_sibling' = [next_sibling EXCEPT ![child] = first_child[d]]
            \/ \E i \in Linked(d) :
               /\ first_child' = first_child
               /\ next_sibling' = [next_sibling EXCEPT ![child] = next_sibling[i], ![i] = child]
<1> PICK at : at = fs_child_iter(d)
  OBVIOUS
<1> DEFINE later == {k \in DOMAIN at : at[k] # NULL /\ at[k] >= child}
<1>1. DOMAIN at = 0 .. N /\ N \in Nat
  BY ChildIter, NodeFacts
<1>2. later # {} => at[Min(later)] \in Linked(d)
  <2> SUFFICES ASSUME later # {}
               PROVE  at[Min(later)] \in Linked(d)
    OBVIOUS
  <2>1. later \in SUBSET Nat
    BY <1>1
  <2>2. PICK k \in later : k = Min(later)
    BY <2>1, MinNatural
  <2>3. k \in 0 .. N /\ at[k] # NULL
    BY <1>1, <2>2
  <2> QED BY <2>2, <2>3, WalkStays
<1>3. /\ linked' = linked \union {<<d, child>>}
      /\ \/ /\ first_child[d] = NULL
            /\ first_child' = [first_child EXCEPT ![d] = child]
            /\ next_sibling' = next_sibling
         \/ /\ first_child[d] # NULL /\ later = {}
            /\ first_child' = [first_child EXCEPT ![d] = child]
            /\ next_sibling' = [next_sibling EXCEPT ![child] = first_child[d]]
         \/ /\ later # {}
            /\ next_sibling' = [next_sibling EXCEPT ![child] = next_sibling[at[Min(later)]],
                                                    ![at[Min(later)]] = child]
            /\ first_child' = first_child
  BY DEF fs_link_child
<1> HIDE DEF later
<1> QED BY <1>2, <1>3

\* Linking a node that has no parent keeps every chain.
LEMMA LinkChains ==
  ASSUME VfsInv, NEW d \in Dirs, NEW child \in Node, fs_link_child(d, child),
         <<d, child>> \in Tree, <<d, child>> \notin linked
  PROVE  VfsType' /\ FreshOK' /\ ChainsOK'
<1>0. /\ first_child \in [Dirs -> Node \union {NULL}] /\ linked \subseteq Tree
      /\ next_sibling \in [Node -> Node \union {NULL}] /\ NULL \notin Node
  BY NodeFacts DEF VfsInv, VfsType, BootOK
<1>1. \A e : <<e, child>> \notin linked
  BY <1>0, OneParent
<1>2. /\ linked' = linked \union {<<d, child>>} /\ Linked(d)' = Linked(d) \union {child}
      /\ \A e : e # d => Linked(e)' = Linked(e)
      /\ \A e : child \notin Linked(e)
  BY <1>1, LinkCases DEF Linked
<1>3. ASSUME NEW e, e # d
      PROVE  Linked(e) \intersect Linked(d) = {}
  BY <1>0, <1>3, OneParent DEF Linked
<1>4. ChainOK(d) /\ next_sibling[child] = NULL
  BY <1>1 DEF VfsInv, ChainsOK, FreshOK
<1>5. CASE /\ first_child[d] = NULL
           /\ first_child' = [first_child EXCEPT ![d] = child]
           /\ next_sibling' = next_sibling
  <2>1. VfsType'
    BY <1>0, <1>5 DEF VfsType
  <2>2. FreshOK'
    BY <1>2, <1>5 DEF VfsInv, FreshOK
  <2>3. Linked(d)' = {child} /\ first_child'[d] = child /\ next_sibling'[child] = NULL
    BY <1>0, <1>2, <1>4, <1>5 DEF ChainOK
  <2>4. ChainOK(d)'
    BY <1>0, <2>3 DEF ChainOK
  <2>5. ASSUME NEW e \in Dirs, e # d
        PROVE  ChainOK(e)'
    <3>1. first_child'[e] = first_child[e] /\ ChainOK(e)
      BY <1>0, <1>5, <2>5 DEF VfsInv, ChainsOK
    <3> QED BY <1>2, <1>5, <2>5, <3>1, ChainStays
  <2> QED BY <2>1, <2>2, <2>4, <2>5 DEF ChainsOK
<1>6. CASE /\ first_child[d] # NULL
           /\ first_child' = [first_child EXCEPT ![d] = child]
           /\ next_sibling' = [next_sibling EXCEPT ![child] = first_child[d]]
  <2>1. /\ first_child[d] \in Linked(d) /\ first_child'[d] = child
        /\ next_sibling'[child] = first_child[d]
        /\ \A n \in Node : n # child => next_sibling'[n] = next_sibling[n]
    BY <1>0, <1>4, <1>6 DEF ChainOK
  <2>2. VfsType'
    BY <1>0, <1>6 DEF VfsType
  <2>3. FreshOK'
    BY <1>2, <2>1 DEF VfsInv, FreshOK
  <2>4. \A n \in Linked(d) : next_sibling'[n] = next_sibling[n] /\ n \in Node
    BY <1>2, <2>1 DEF Linked
  <2>5. ASSUME NEW S \in SUBSET (Linked(d) \union {child}), child \in S,
               \A n \in S : next_sibling'[n] \in S \union {NULL}
        PROVE  S = Linked(d) \union {child}
    <3> DEFINE R == S \ {child}
    <3>1. R \in SUBSET Linked(d)
      OBVIOUS
    <3>2. first_child[d] \in R
      BY <1>2, <1>6, <2>1, <2>5
    <3>3. \A n \in R : next_sibling[n] \in R \union {NULL}
      BY <1>0, <1>2, <1>4, <2>4, <2>5, <3>1 DEF ChainOK
    <3>4. R = Linked(d)
      BY <1>4, <3>1, <3>2, <3>3 DEF ChainOK
    <3> QED BY <2>5, <3>4
  <2>6. ChainOK(d)'
    <3>1. \A n \in Linked(d)' : next_sibling'[n] \in Linked(d)' \union {NULL}
      BY <1>2, <1>4, <2>1, <2>4 DEF ChainOK
    <3>2. first_child'[d] \in Linked(d)' /\ first_child'[d] # NULL
      BY <1>0, <1>2, <2>1
    <3> QED BY <1>2, <2>1, <2>5, <3>1, <3>2 DEF ChainOK
  <2>7. ASSUME NEW e \in Dirs, e # d
        PROVE  ChainOK(e)'
    <3>1. first_child'[e] = first_child[e] /\ ChainOK(e)
      BY <1>0, <1>6, <2>7 DEF VfsInv, ChainsOK
    <3>2. \A n \in Linked(e) : next_sibling'[n] = next_sibling[n]
      BY <1>2, <2>1 DEF Linked
    <3> QED BY <1>2, <2>7, <3>1, <3>2, ChainStays
  <2> QED BY <2>2, <2>3, <2>6, <2>7 DEF ChainsOK
<1>7. CASE \E i \in Linked(d) :
           /\ first_child' = first_child
           /\ next_sibling' = [next_sibling EXCEPT ![child] = next_sibling[i], ![i] = child]
  <2>0. PICK i \in Linked(d) :
           /\ first_child' = first_child
           /\ next_sibling' = [next_sibling EXCEPT ![child] = next_sibling[i], ![i] = child]
    BY <1>7
  <2>1. /\ i \in Node /\ i # child /\ next_sibling'[child] = next_sibling[i]
        /\ next_sibling'[i] = child
        /\ \A n \in Node : n \notin {i, child} => next_sibling'[n] = next_sibling[n]
        /\ next_sibling[i] \in Node \union {NULL}
    BY <1>0, <1>2, <2>0 DEF Linked
  <2>2. VfsType'
    BY <1>0, <2>0, <2>1 DEF VfsType
  <2>3. FreshOK'
    <3> SUFFICES ASSUME NEW n \in Node, \A e \in Dirs : <<e, n>> \notin linked'
                 PROVE  next_sibling'[n] = NULL
      BY DEF FreshOK
    <3>1. n # child /\ n # i /\ \A e \in Dirs : <<e, n>> \notin linked
      BY <1>2 DEF Linked
    <3> QED BY <2>1, <3>1 DEF VfsInv, FreshOK
  <2>4. first_child[d] \in Linked(d)
    BY <1>4 DEF ChainOK
  <2>5. ASSUME NEW S \in SUBSET (Linked(d) \union {child}), first_child[d] \in S,
               \A n \in S : next_sibling'[n] \in S \union {NULL}
        PROVE  S = Linked(d) \union {child}
    <3> DEFINE R == S \ {child}
    <3>1. R \in SUBSET Linked(d) /\ first_child[d] \in R
      BY <1>2, <2>4, <2>5
    <3>2. ASSUME NEW n \in R
          PROVE  next_sibling[n] \in R \union {NULL}
      <4>1. n \in Linked(d) /\ n \in Node /\ n # child /\ n \in S
        BY <3>1 DEF Linked
      <4>2. next_sibling[n] \in Linked(d) \union {NULL} /\ next_sibling[n] # child
        BY <1>0, <1>2, <1>4, <4>1 DEF ChainOK
      <4>3. CASE n # i
        <5>1. next_sibling'[n] = next_sibling[n]
          BY <2>1, <4>1, <4>3
        <5> QED BY <2>5, <4>1, <4>2, <5>1
      <4>4. CASE n = i
        <5>1. child \in S
          BY <1>0, <2>1, <2>5, <4>1, <4>4
        <5>2. next_sibling[n] \in S \union {NULL}
          BY <2>1, <2>5, <4>4, <5>1
        <5> QED BY <4>2, <5>2
      <4> QED BY <4>3, <4>4
    <3> HIDE DEF R
    <3>3. R = Linked(d)
      BY <1>4, <3>1, <3>2 DEF ChainOK
    <3>4. i \in S
      BY <2>0, <3>3 DEF R
    <3>5. child \in S
      BY <1>0, <2>1, <2>5, <3>4
    <3> QED BY <2>5, <3>3, <3>5 DEF R
  <2>6. ChainOK(d)'
    <3>1. ASSUME NEW n \in Linked(d)'
          PROVE  next_sibling'[n] \in Linked(d)' \union {NULL}
      <4>1. CASE n = child
        BY <1>2, <1>4, <2>0, <2>1, <4>1 DEF ChainOK
      <4>2. CASE n = i
        BY <1>2, <2>1, <4>2
      <4>3. CASE n \notin {i, child}
        <5>1. n \in Linked(d) /\ n \in Node
          BY <1>2, <4>3 DEF Linked
        <5>2. next_sibling'[n] = next_sibling[n]
          BY <2>1, <4>3, <5>1
        <5> QED BY <1>2, <1>4, <5>1, <5>2 DEF ChainOK
      <4> QED BY <4>1, <4>2, <4>3
    <3>2. first_child'[d] \in Linked(d)' /\ first_child'[d] # NULL
      BY <1>0, <1>2, <2>0, <2>4 DEF Linked
    <3>3. first_child'[d] = first_child[d]
      BY <2>0
    <3> QED BY <1>2, <2>5, <3>1, <3>2, <3>3 DEF ChainOK
  <2>7. ASSUME NEW e \in Dirs, e # d
        PROVE  ChainOK(e)'
    <3>1. first_child'[e] = first_child[e] /\ ChainOK(e)
      BY <2>0 DEF VfsInv, ChainsOK
    <3>2. \A n \in Linked(e) : n \notin {i, child} /\ n \in Node
      BY <1>2, <1>3, <2>0, <2>7 DEF Linked
    <3>3. \A n \in Linked(e) : next_sibling'[n] = next_sibling[n]
      BY <2>1, <3>2
    <3> QED BY <1>2, <2>7, <3>1, <3>3, ChainStays
  <2> QED BY <2>2, <2>3, <2>6, <2>7 DEF ChainsOK
<1> QED BY <1>5, <1>6, <1>7, LinkCases

\* An empty tree.
LEMMA InitVfsInv == VfsInit => VfsInv
<1> SUFFICES ASSUME VfsInit
             PROVE  VfsInv
  OBVIOUS
<1>1. VfsType /\ BootOK /\ FreshOK
  BY DEF VfsInit, VfsType, BootOK, Boots, FreshOK
<1>2. ASSUME NEW d \in Dirs
      PROVE  ChainOK(d)
  <2>1. Linked(d) = {} /\ first_child[d] = NULL
    BY DEF VfsInit, Linked
  <2> QED BY <2>1 DEF ChainOK
<1> QED BY <1>1, <1>2 DEF VfsInv, ChainsOK

\* The archive is given up half way.
LEMMA BadMagicVfsInv ==
  ASSUME VfsInv, initrd_bad_magic
  PROVE  VfsInv'
<1>0. /\ first_child \in [Dirs -> Node \union {NULL}] /\ linked \subseteq Tree
      /\ next_sibling \in [Node -> Node \union {NULL}]
  BY DEF VfsInv, VfsType, BootOK
<1>1. /\ boot = "initrd_mount" /\ boot' = "modules_init"
      /\ first_child' = [first_child EXCEPT ![INITRD] = NULL]
      /\ next_sibling' = [n \in Node |-> IF n \in Files THEN NULL ELSE next_sibling[n]]
      /\ linked' = linked \ Archive
  BY DEF initrd_bad_magic, Archive
<1>2. linked \subseteq {<<ROOT, DEV>>} \union Archive
  BY <1>1 DEF VfsInv, BootOK
<1>3. VfsType'
  BY <1>0, <1>1 DEF VfsType
<1>4. BootOK'
  BY <1>0, <1>1, <1>2 DEF BootOK, Boots, Archive, DEV, ROOT
<1>5. FreshOK'
  <2> SUFFICES ASSUME NEW n \in Node, \A d \in Dirs : <<d, n>> \notin linked', n \notin Files
               PROVE  next_sibling[n] = NULL
    BY <1>1 DEF FreshOK
  <2>1. \A d \in Dirs : <<d, n>> \notin linked
    BY <1>1 DEF Archive
  <2> QED BY <2>1 DEF VfsInv, FreshOK
<1>6. ASSUME NEW d \in Dirs
      PROVE  ChainOK(d)'
  <2>1. CASE d = INITRD
    <3>1. Linked(d)' = {} /\ first_child'[d] = NULL
      BY <1>0, <1>1, <1>2, <2>1 DEF Linked, Archive, INITRD, ROOT
    <3> QED BY <3>1 DEF ChainOK
  <2>2. CASE d # INITRD
    <3>1. Linked(d)' = Linked(d) /\ first_child'[d] = first_child[d]
      BY <1>0, <1>1, <2>2 DEF Linked, Archive
    <3>2. \A n \in Linked(d) : n = DEV /\ n \in Node
      BY <1>2, <2>2 DEF Linked, Archive
    <3>3. DEV \notin Files
      BY NodeFacts DEF Dirs
    <3>4. \A n \in Linked(d) : next_sibling'[n] = next_sibling[n]
      BY <1>1, <3>2, <3>3
    <3>5. ChainOK(d)
      BY DEF VfsInv, ChainsOK
    <3> QED BY <3>1, <3>4, <3>5, ChainStays
  <2> QED BY <2>1, <2>2
<1> QED BY <1>3, <1>4, <1>5, <1>6 DEF VfsInv, ChainsOK

\* Every step of kmain keeps the chains.
LEMMA StepVfsInv ==
  ASSUME VfsInv, VfsNext
  PROVE  VfsInv'
<1>0. BootOK /\ {ROOT, DEV, INITRD} \subseteq Node /\ TTY \in Node /\ Files \subseteq Node
      /\ {ROOT, DEV, INITRD} = Dirs
  BY NodeFacts DEF VfsInv, Dirs
<1>1. CASE fs_create_rootfs
  <2>1. fs_link_child(ROOT, DEV) /\ boot' = "initrd_mount" /\ linked = {}
    BY <1>0, <1>1 DEF fs_create_rootfs, BootOK
  <2>2. <<ROOT, DEV>> \in Tree
    BY DEF Tree
  <2>3. VfsType' /\ FreshOK' /\ ChainsOK'
    BY <1>0, <2>1, <2>2, LinkChains
  <2>4. linked' = linked \union {<<ROOT, DEV>>}
    BY <1>0, <2>1, LinkCases
  <2>5. BootOK'
    BY <2>1, <2>2, <2>4 DEF BootOK, Boots
  <2> QED BY <2>3, <2>5 DEF VfsInv
<1>2. CASE \E f \in Files : cpiofs_unpack_file(f)
  <2>0. PICK f \in Files : cpiofs_unpack_file(f)
    BY <1>2
  <2>1. /\ fs_link_child(INITRD, f) /\ boot' = boot /\ boot = "initrd_mount"
        /\ <<INITRD, f>> \notin linked
    BY <2>0 DEF cpiofs_unpack_file
  <2>2. <<INITRD, f>> \in Tree /\ <<INITRD, f>> \in Archive
    BY DEF Tree, Archive
  <2>3. VfsType' /\ FreshOK' /\ ChainsOK'
    BY <1>0, <2>1, <2>2, LinkChains
  <2>4. linked' = linked \union {<<INITRD, f>>}
    BY <1>0, <2>1, LinkCases
  <2>5. BootOK'
    BY <1>0, <2>1, <2>2, <2>4 DEF BootOK, Boots
  <2> QED BY <2>3, <2>5 DEF VfsInv
<1>3. CASE initrd_mount
  <2>1. /\ fs_link_child(ROOT, INITRD) /\ boot' = "modules_init" /\ boot = "initrd_mount"
    BY <1>3 DEF initrd_mount
  <2>2. linked \subseteq {<<ROOT, DEV>>} \union Archive
    BY <1>0, <2>1 DEF BootOK
  <2>3. <<ROOT, INITRD>> \in Tree /\ <<ROOT, INITRD>> \notin linked /\ <<DEV, TTY>> \notin linked
        /\ <<ROOT, INITRD>> # <<DEV, TTY>>
    BY <2>2 DEF Tree, Archive, ROOT, DEV, INITRD, TTY
  <2>4. VfsType' /\ FreshOK' /\ ChainsOK'
    BY <1>0, <2>1, <2>3, LinkChains
  <2>5. linked' = linked \union {<<ROOT, INITRD>>}
    BY <1>0, <2>1, LinkCases
  <2>6. BootOK'
    BY <1>0, <2>1, <2>3, <2>5 DEF BootOK, Boots
  <2> QED BY <2>4, <2>6 DEF VfsInv
<1>4. CASE initrd_bad_magic
  BY <1>4, BadMagicVfsInv
<1>5. CASE console_register
  <2>1. /\ fs_link_child(DEV, TTY) /\ boot' = "console_init" /\ <<DEV, TTY>> \notin linked
    BY <1>0, <1>5 DEF console_register, BootOK
  <2>2. <<DEV, TTY>> \in Tree
    BY DEF Tree
  <2>3. VfsType' /\ FreshOK' /\ ChainsOK'
    BY <1>0, <2>1, <2>2, LinkChains
  <2>4. linked' = linked \union {<<DEV, TTY>>}
    BY <1>0, <2>1, LinkCases
  <2>5. BootOK'
    BY <1>0, <2>1, <2>2, <2>4 DEF BootOK, Boots
  <2> QED BY <2>3, <2>5 DEF VfsInv
<1> QED BY <1>1, <1>2, <1>3, <1>4, <1>5 DEF VfsNext

\* System calls leave the tree alone, and so does the last call of kmain.
LEMMA QuietVfsInv ==
  ASSUME VfsInv, UNCHANGED <<first_child, next_sibling, linked>>,
         boot' = boot \/ boot' = "run"
  PROVE  VfsInv'
<1>1. VfsType' /\ FreshOK'
  BY DEF VfsInv, VfsType, FreshOK
<1>2. BootOK'
  BY DEF VfsInv, BootOK, Boots
<1>3. ChainsOK'
  BY DEF VfsInv, ChainsOK, ChainOK, Linked
<1> QED BY <1>1, <1>2, <1>3 DEF VfsInv

\* What the steps of Files do to the tree.
LEMMA VfsSteps == VfsInv /\ [Next]_vars => VfsInv'
<1> SUFFICES ASSUME VfsInv, [Next]_vars
             PROVE  VfsInv'
  OBVIOUS
<1>1. CASE Boot
  BY <1>1, StepVfsInv DEF Boot
<1>2. CASE console_init
  BY <1>2, QuietVfsInv DEF console_init
<1>3. CASE \E t \in Task :
             \/ \E path \in Paths : sys_open(t, path)
             \/ \E c \in Task : task_clone(t, c)
             \/ \E fd \in Fd :
                  \/ sys_close(t, fd)
                  \/ UseFreed(t, fd)
                  \/ \E to \in Duplicates : fd_dupfd(t, fd, to)
                  \/ \E n \in Counts : sys_read(t, fd, n)
                  \/ \E offset \in Offsets : sys_lseek(t, fd, offset)
  <2>1. UNCHANGED vfs
    <3>1. ASSUME NEW t, NEW path, sys_open(t, path)
          PROVE  UNCHANGED vfs
      BY <3>1 DEF sys_open
    <3>2. ASSUME NEW t, NEW c, task_clone(t, c)
          PROVE  UNCHANGED vfs
      BY <3>2 DEF task_clone
    <3>3. ASSUME NEW t, NEW fd, sys_close(t, fd) \/ UseFreed(t, fd)
          PROVE  UNCHANGED vfs
      BY <3>3 DEF sys_close, UseFreed
    <3>4. ASSUME NEW t, NEW fd, NEW to, fd_dupfd(t, fd, to)
          PROVE  UNCHANGED vfs
      BY <3>4 DEF fd_dupfd
    <3>5. ASSUME NEW t, NEW fd, NEW n, sys_read(t, fd, n) \/ sys_lseek(t, fd, n)
          PROVE  UNCHANGED vfs
      BY <3>5 DEF sys_read, sys_lseek
    <3> QED BY <1>3, <3>1, <3>2, <3>3, <3>4, <3>5
  <2> QED BY <2>1, QuietVfsInv DEF vfs
<1>4. CASE UNCHANGED vars
  BY <1>4, QuietVfsInv DEF vars, vfs
<1> QED BY <1>1, <1>2, <1>3, <1>4 DEF Next

\* In whatever order the archive names its files, walking the siblings of a
\* directory meets exactly the nodes that were linked to it.
THEOREM LinksAreFound == Spec => []EveryLinkIsFound
<1>1. Init => VfsInv
  BY InitVfsInv DEF Init
<1>2. VfsInv => EveryLinkIsFound
  BY ChildrenAreLinked DEF EveryLinkIsFound, Linked
<1> QED BY <1>1, <1>2, VfsSteps, PTL DEF Spec

-----------------------------------------------------------------------------
(* Descriptor tables *)

TypeT ==
  /\ tasks \subseteq Task /\ uncounted \subseteq Descr
  /\ fdtbl \in [Task -> [Fd -> Descr \union {NULL}]]
  /\ fdcap \in [Task -> FirstCap .. MaxCap] /\ fdnext \in [Task -> Nat]
  /\ \E D : descr \in [Descr -> [dev : D, refs : Nat]]

\* Nothing is open before console_init.
BeforeRun ==
  boot # "run" => /\ tasks = {0}
                  /\ \A t \in Task, fd \in Fd : fdtbl[t][fd] = NULL
                  /\ \A d \in Descr : descr[d].refs = 0

\* The search starts inside the table, as long as nothing was stored behind it.
NextInTable == overrun = "none" => \A t \in tasks : fdnext[t] < fdcap[t]

TabInv == TypeT /\ BeforeRun /\ NextInTable /\ SlotsInTable /\ NothingAboveNext /\ RefsCountHolders

\* The constants.
LEMMA Bounds ==
  /\ MaxPid \in Nat /\ 0 \in Task /\ Task \subseteq Nat /\ IsFiniteSet(Task)
  /\ MaxCap \in Nat /\ FirstCap \in Nat /\ Stdio \in Nat /\ Overread \in Nat
  /\ FirstCap <= MaxCap /\ Stdio <= FirstCap /\ Stdio >= 1 /\ FirstCap >= 2
  /\ Fd \subseteq Nat /\ IsFiniteSet(Fd) /\ NULL \notin Descr
<1>1. /\ MaxPid \in Nat /\ MaxCap \in Nat /\ FirstCap \in Nat /\ Stdio \in Nat /\ Overread \in Nat
      /\ FirstCap <= MaxCap /\ Stdio <= FirstCap /\ Stdio >= 1 /\ FirstCap >= 2
      /\ NULL \notin Descr
  BY FilesAssumption
<1>2. IsFiniteSet(Task) /\ IsFiniteSet(Fd)
  BY <1>1, FS_Interval DEF Task, Fd
<1> QED BY <1>1, <1>2 DEF Task, Fd

\* The slots that hold a descriptor can be counted.
LEMMA HoldersFinite ==
  ASSUME TypeT, NEW d
  PROVE  IsFiniteSet(Holders(d)) /\ Cardinality(Holders(d)) \in Nat
<1>1. IsFiniteSet(tasks)
  BY Bounds, FS_Subset DEF TypeT
<1>2. IsFiniteSet(tasks \X Fd)
  BY <1>1, Bounds, FS_Product
<1>3. Holders(d) \in SUBSET (tasks \X Fd)
  BY DEF Holders
<1> QED BY <1>2, <1>3, FS_Subset, FS_CardinalityType

\* A slot holds its descriptor.
LEMMA HolderIff ==
  ASSUME NEW d, NEW t \in tasks, NEW fd \in Fd
  PROVE  <<t, fd>> \in Holders(d) <=> fdtbl[t][fd] = d
BY DEF Holders

\* fd_alloc finds a free slot of the table, which may have grown, or a word behind
\* the grown one after an over-read as long as the old one.
LEMMA AllocFacts ==
  ASSUME TabInv, overrun = "none", NEW t \in tasks, NEW fd \in Nat, fd_alloc(t, fd)
  PROVE  /\ fd >= fdnext[t] /\ fdcap'[t] >= fdcap[t]
         /\ fdcap' \in [Task -> FirstCap .. MaxCap]
         /\ \A u \in Task \ {t} : fdcap'[u] = fdcap[u]
         /\ fdnext' = [fdnext EXCEPT ![t] = fd]
         /\ fd < fdcap'[t] => fd \in Fd /\ fdtbl[t][fd] = NULL
         /\ fd >= fdcap'[t] => overread'
<1> DEFINE free == {i \in Fd : i >= fdnext[t] /\ i < fdcap[t] /\ fdtbl[t][i] = NULL}
<1>1. /\ t \in Task /\ fdcap \in [Task -> FirstCap .. MaxCap] /\ fdnext[t] \in Nat
      /\ fdcap[t] \in Nat /\ fdcap[t] >= FirstCap /\ fdnext[t] < fdcap[t]
  BY Bounds DEF TabInv, TypeT, NextInTable
<1>2. fdnext' = [fdnext EXCEPT ![t] = fd]
  BY DEF fd_alloc
<1>3. CASE free # {} /\ fd = Min(free) /\ fdcap' = fdcap
  <2>1. free \in SUBSET Nat
    BY Bounds
  <2>2. fd \in free
    BY <1>3, <2>1, MinNatural
  <2>3. fd \in Fd /\ fd < fdcap[t] /\ fd >= fdnext[t] /\ fdtbl[t][fd] = NULL
    BY <2>2
  <2> HIDE DEF free
  <2> QED BY <1>1, <1>2, <1>3, <2>3
<1>4. CASE /\ free = {} /\ 2 * fdcap[t] <= MaxCap
           /\ fd \in fdcap[t] .. fdcap[t] + Overread
           /\ fdcap' = [fdcap EXCEPT ![t] = 2 * @]
           /\ overread' = (overread \/ fd - fdcap[t] >= fdcap[t])
  <2>1. fd >= fdcap[t] /\ 2 * fdcap[t] \in FirstCap .. MaxCap
    BY <1>1, <1>4, Bounds
  <2>2. fdcap'[t] = 2 * fdcap[t] /\ fdcap' \in [Task -> FirstCap .. MaxCap]
        /\ \A u \in Task \ {t} : fdcap'[u] = fdcap[u]
    BY <1>1, <1>4, <2>1
  <2>3. ASSUME fd < fdcap'[t]
        PROVE  fd \in Fd /\ fdtbl[t][fd] = NULL
    <3>1. ~ (fd < fdcap[t])
      BY <1>1, <2>1
    <3>2. fd \in 0 .. MaxCap - 1
      BY <1>1, <1>4, <2>2, <2>3, Bounds
    <3> QED BY <3>1, <3>2 DEF TabInv, SlotsInTable, Fd
  <2>4. fd >= fdnext[t] /\ 2 * fdcap[t] >= fdcap[t]
    BY <1>1, <2>1, Bounds
  <2>5. fd >= fdcap'[t] => overread'
    <3>1. fd >= 2 * fdcap[t] => fd - fdcap[t] >= fdcap[t]
      BY <1>1
    <3> QED BY <1>4, <2>2, <3>1
  <2> QED BY <1>2, <2>2, <2>3, <2>4, <2>5
<1> QED BY <1>3, <1>4 DEF fd_alloc

\* One slot of a table is filled or emptied.
Put(tbl, t, fd, x) == [tbl EXCEPT ![t][fd] = x]

LEMMA SlotFacts ==
  ASSUME TypeT, NEW t \in Task, NEW fd \in Fd, NEW x \in Descr \union {NULL},
         fdtbl' = Put(fdtbl, t, fd, x)
  PROVE  /\ fdtbl' \in [Task -> [Fd -> Descr \union {NULL}]]
         /\ fdtbl'[t][fd] = x
         /\ \A u \in Task, i \in Fd : u # t \/ i # fd => fdtbl'[u][i] = fdtbl[u][i]
<1>1. fdtbl \in [Task -> [Fd -> Descr \union {NULL}]]
  BY DEF TypeT
<1>2. fdtbl' \in [Task -> [Fd -> Descr \union {NULL}]] /\ fdtbl'[t][fd] = x
  BY <1>1 DEF Put
<1>3. ASSUME NEW u \in Task, NEW i \in Fd, u # t \/ i # fd
      PROVE  fdtbl'[u][i] = fdtbl[u][i]
  BY <1>1, <1>3 DEF Put
<1> QED BY <1>2, <1>3

\* A slot that points to freed memory holds a descriptor that was shared uncounted.
LEMMA FreedIsUncounted ==
  ASSUME TabInv, NEW d \in Descr, descr[d].refs = 0, Holders(d) # {}
  PROVE  d \in uncounted
<1>1. IsFiniteSet(Holders(d)) /\ Cardinality(Holders(d)) # 0
  BY HoldersFinite, FS_EmptySet DEF TabInv
<1> QED BY <1>1 DEF TabInv, RefsCountHolders

\* A descriptor is stored behind the table: nothing else changes but its size.
LEMMA OpenBehindTabInv ==
  ASSUME TabInv, overrun = "none", NEW t \in tasks, boot = "run", boot' = boot, tasks' = tasks,
         NEW fd \in Nat, fd_alloc(t, fd), fd >= fdcap'[t],
         overrun' = "alloc", UNCHANGED <<fdtbl, descr, uncounted>>
  PROVE  TabInv'
<1>1. /\ TypeT /\ tasks \subseteq Task /\ t \in Task /\ Fd \subseteq Nat
      /\ fdnext \in [Task -> Nat] /\ fdcap \in [Task -> FirstCap .. MaxCap]
      /\ FirstCap \in Nat /\ MaxCap \in Nat
  BY Bounds DEF TabInv, TypeT
<1>2. /\ fd >= fdnext[t] /\ fdcap'[t] >= fdcap[t]
      /\ fdcap' \in [Task -> FirstCap .. MaxCap]
      /\ \A u \in Task \ {t} : fdcap'[u] = fdcap[u]
      /\ fdnext' = [fdnext EXCEPT ![t] = fd]
      /\ overread'
  BY AllocFacts
<1>3. fdnext' \in [Task -> Nat] /\ \A u \in Task : fdnext'[u] >= fdnext[u]
  BY <1>1, <1>2
<1>4. TypeT'
  BY <1>1, <1>2, <1>3 DEF TypeT
<1>5. BeforeRun' /\ NextInTable'
  BY DEF BeforeRun, NextInTable
<1>6. SlotsInTable'
  <2> SUFFICES ASSUME NEW u \in tasks, NEW i \in Fd, fdtbl[u][i] # NULL
               PROVE  i < fdcap'[u]
    BY <1>2 DEF SlotsInTable
  <2>1. i < fdcap[u]
    BY DEF TabInv, SlotsInTable
  <2>2. i \in Nat /\ fdcap[u] \in Nat /\ fdcap'[u] \in Nat /\ fdcap'[u] >= fdcap[u]
    BY <1>1, <1>2
  <2> QED BY <2>1, <2>2
<1>7. NothingAboveNext'
  <2> SUFFICES ASSUME NEW u \in tasks, NEW i \in Fd, fdtbl[u][i] # NULL, i > fdnext'[u]
               PROVE  fdtbl[u][i] \in uncounted
    BY DEF NothingAboveNext
  <2>1. i \in Nat /\ fdnext[u] \in Nat /\ fdnext'[u] \in Nat /\ fdnext'[u] >= fdnext[u]
    BY <1>1, <1>3
  <2>2. i > fdnext[u]
    BY <2>1
  <2> QED BY <2>2 DEF TabInv, NothingAboveNext
<1>8. ASSUME NEW d
      PROVE  Holders(d)' = Holders(d)
  BY DEF Holders
<1>9. RefsCountHolders'
  BY <1>8 DEF TabInv, RefsCountHolders
<1> QED BY <1>4, <1>5, <1>6, <1>7, <1>9 DEF TabInv

\* fd_open stores descriptor d in slot fd of the table.
OpenInside(t, dev, fd, d) ==
  /\ fd_alloc(t, fd) /\ fd < fdcap'[t] /\ descr[d].refs = 0
  /\ fdtbl' = [fdtbl EXCEPT ![t][fd] = d]
  /\ descr' = [descr EXCEPT ![d] = [dev |-> dev, refs |-> 1]]
  /\ uncounted' = IF Holders(d) = {} THEN uncounted \ {d} ELSE uncounted
  /\ overrun' = overrun

LEMMA OpenInsideTabInv ==
  ASSUME TabInv, overrun = "none", NEW t \in tasks, boot = "run", boot' = boot, tasks' = tasks,
         NEW dev, NEW fd \in Nat, NEW d \in Descr, OpenInside(t, dev, fd, d)
  PROVE  TabInv'
<1>a. /\ fd_alloc(t, fd) /\ fd < fdcap'[t] /\ descr[d].refs = 0 /\ overrun' = overrun
      /\ uncounted' = IF Holders(d) = {} THEN uncounted \ {d} ELSE uncounted
  BY DEF OpenInside
<1>0. /\ fd \in Fd
      /\ fdtbl' = [fdtbl EXCEPT ![t][fd] = d]
      /\ descr' = [descr EXCEPT ![d] = [dev |-> dev, refs |-> 1]]
      /\ uncounted' \subseteq uncounted
      /\ Holders(d) # {} => d \in uncounted'
      /\ \A e \in Descr : e # d /\ e \in uncounted => e \in uncounted'
  <2>1. fd \in Fd
    BY <1>a, AllocFacts
  <2>2. Holders(d) # {} => d \in uncounted
    BY <1>a, FreedIsUncounted
  <2> QED BY <1>a, <2>1, <2>2 DEF OpenInside
<1>1. TypeT /\ tasks \subseteq Task /\ t \in Task /\ Fd \subseteq Nat /\ NULL \notin Descr
  BY Bounds DEF TabInv, TypeT
<1>2. /\ fdtbl' \in [Task -> [Fd -> Descr \union {NULL}]] /\ fdtbl'[t][fd] = d
      /\ \A u \in Task, i \in Fd : u # t \/ i # fd => fdtbl'[u][i] = fdtbl[u][i]
  <2>1. d \in Descr \union {NULL} /\ fdtbl' = Put(fdtbl, t, fd, d)
    BY <1>0 DEF Put
  <2>2. TypeT /\ t \in Task /\ fd \in Fd
    BY <1>0, <1>1
  <2> QED BY ONLY <2>1, <2>2, SlotFacts, d \in Descr
<1>3. /\ fdtbl[t][fd] = NULL /\ fd >= fdnext[t] /\ fd < fdcap'[t] /\ fdcap'[t] >= fdcap[t]
      /\ fdcap' \in [Task -> FirstCap .. MaxCap]
      /\ \A u \in Task \ {t} : fdcap'[u] = fdcap[u]
      /\ fdnext' = [fdnext EXCEPT ![t] = fd]
  BY <1>a, AllocFacts
<1>4. /\ fdnext \in [Task -> Nat] /\ fdnext' \in [Task -> Nat] /\ fdnext'[t] = fd
      /\ \A u \in Task \ {t} : fdnext'[u] = fdnext[u]
  BY <1>1, <1>3 DEF TypeT
<1>5. /\ descr'[d].refs = 1 /\ \A e \in Descr \ {d} : descr'[e] = descr[e]
      /\ \E D : descr' \in [Descr -> [dev : D, refs : Nat]]
  <2> PICK D : descr \in [Descr -> [dev : D, refs : Nat]]
    BY <1>1 DEF TypeT
  <2>1. descr \in [Descr -> [dev : D \union {dev}, refs : Nat]]
    OBVIOUS
  <2>2. [dev |-> dev, refs |-> 1] \in [dev : D \union {dev}, refs : Nat]
    OBVIOUS
  <2>3. descr' \in [Descr -> [dev : D \union {dev}, refs : Nat]]
    BY <1>0, <2>1, <2>2
  <2> QED BY <1>0, <2>1, <2>3
<1>6. TypeT'
  BY <1>0, <1>1, <1>2, <1>3, <1>4, <1>5 DEF TypeT
<1>7. BeforeRun' /\ NextInTable'
  BY <1>1, <1>3, <1>4, <1>a DEF BeforeRun, NextInTable, TabInv
<1>8. SlotsInTable'
  <2> SUFFICES ASSUME NEW u \in tasks, NEW i \in Fd, fdtbl'[u][i] # NULL
               PROVE  i < fdcap'[u]
    BY <1>a DEF SlotsInTable, TabInv
  <2>1. CASE u = t /\ i = fd
    BY <1>3, <2>1
  <2>2. CASE u # t \/ i # fd
    <3>1. fdtbl[u][i] # NULL
      BY <1>1, <1>2, <2>2
    <3>2. i < fdcap[u]
      BY <3>1 DEF TabInv, SlotsInTable
    <3>3. /\ i \in Nat /\ fdcap[u] \in Nat /\ fdcap'[u] \in Nat
          /\ fdcap'[u] >= fdcap[u]
      BY <1>1, <1>3, Bounds DEF TypeT
    <3> QED BY <3>2, <3>3
  <2> QED BY <2>1, <2>2
<1>9. NothingAboveNext'
  <2> SUFFICES ASSUME NEW u \in tasks, NEW i \in Fd, fdtbl'[u][i] # NULL, i > fdnext'[u]
               PROVE  fdtbl'[u][i] \in uncounted'
    BY DEF NothingAboveNext
  <2>1. u # t \/ i # fd
    BY <1>1, <1>4
  <2>2. fdtbl'[u][i] = fdtbl[u][i] /\ fdtbl[u][i] # NULL
    BY <1>1, <1>2, <2>1
  <2>3. i > fdnext[u]
    <3>1. i \in Nat /\ fd \in Nat /\ fdnext[u] \in Nat
      BY <1>1, <1>4
    <3> QED BY <1>1, <1>3, <1>4, <3>1
  <2>4. fdtbl[u][i] \in uncounted
    BY <2>2, <2>3 DEF TabInv, NothingAboveNext
  <2>5. fdtbl[u][i] = d => Holders(d) # {}
    BY HolderIff
  <2>6. fdtbl[u][i] \in Descr
    BY <1>1, <2>4 DEF TypeT
  <2> QED BY <1>0, <2>2, <2>4, <2>5, <2>6
<1>10. ASSUME NEW e \in Descr \ uncounted'
       PROVE  descr'[e].refs = Cardinality(Holders(e)')
  <2>1. CASE e = d
    <3>0. Holders(d) = {}
      BY <1>0, <2>1
    <3>1. Holders(e)' = {<<t, fd>>}
      <4>1. ASSUME NEW u \in tasks, NEW i \in Fd
            PROVE  fdtbl'[u][i] = d <=> u = t /\ i = fd
        <5>1. fdtbl[u][i] # d
          BY <3>0, HolderIff
        <5> QED BY <1>1, <1>2, <5>1
      <4>2. \A h \in tasks \X Fd : fdtbl'[h[1]][h[2]] = d <=> h = <<t, fd>>
        BY <4>1
      <4>3. <<t, fd>> \in tasks \X Fd
        BY <1>0
      <4> QED BY <2>1, <4>2, <4>3 DEF Holders
    <3> QED BY <1>5, <2>1, <3>1, FS_Singleton
  <2>2. CASE e # d
    <3>1. Holders(e)' = Holders(e)
      <4>1. ASSUME NEW u \in tasks, NEW i \in Fd
            PROVE  fdtbl'[u][i] = e <=> fdtbl[u][i] = e
        BY <1>1, <1>2, <1>3, <2>2
      <4> QED BY <4>1 DEF Holders
    <3>2. e \notin uncounted
      BY <1>0, <2>2
    <3> QED BY <1>5, <2>2, <3>1, <3>2 DEF TabInv, RefsCountHolders
  <2> QED BY <2>1, <2>2
<1> QED BY <1>6, <1>7, <1>8, <1>9, <1>10 DEF TabInv, RefsCountHolders

LEMMA OpenTabInv ==
  ASSUME TabInv, overrun = "none", NEW t \in tasks, boot = "run", boot' = boot, tasks' = tasks,
         NEW dev, fd_open(t, dev)
  PROVE  TabInv'
<1>1. 0 .. MaxCap + Overread \subseteq Nat
  BY Bounds
<1>2. PICK fd \in 0 .. MaxCap + Overread :
        /\ fd_alloc(t, fd)
        /\ \/ /\ fd < fdcap'[t]
              /\ \E d \in {x \in Descr : descr[x].refs = 0} :
                   /\ fdtbl' = [fdtbl EXCEPT ![t][fd] = d]
                   /\ descr' = [descr EXCEPT ![d] = [dev |-> dev, refs |-> 1]]
                   /\ uncounted' = IF Holders(d) = {} THEN uncounted \ {d} ELSE uncounted
              /\ UNCHANGED overrun
           \/ /\ fd >= fdcap'[t]
              /\ overrun' = "alloc"
              /\ UNCHANGED <<fdtbl, descr, uncounted>>
  BY DEF fd_open
<1>3. fd \in Nat
  BY <1>1
<1>4. CASE fd >= fdcap'[t] /\ overrun' = "alloc" /\ UNCHANGED <<fdtbl, descr, uncounted>>
  BY <1>2, <1>3, <1>4, OpenBehindTabInv
<1>5. CASE /\ fd < fdcap'[t]
           /\ \E d \in {x \in Descr : descr[x].refs = 0} :
                /\ fdtbl' = [fdtbl EXCEPT ![t][fd] = d]
                /\ descr' = [descr EXCEPT ![d] = [dev |-> dev, refs |-> 1]]
                /\ uncounted' = IF Holders(d) = {} THEN uncounted \ {d} ELSE uncounted
           /\ UNCHANGED overrun
  <2>1. PICK d \in Descr :
          /\ descr[d].refs = 0
          /\ fdtbl' = [fdtbl EXCEPT ![t][fd] = d]
          /\ descr' = [descr EXCEPT ![d] = [dev |-> dev, refs |-> 1]]
          /\ uncounted' = IF Holders(d) = {} THEN uncounted \ {d} ELSE uncounted
    BY <1>5
  <2>2. OpenInside(t, dev, fd, d)
    BY <1>2, <1>5, <2>1 DEF OpenInside
  <2> QED BY <1>3, <2>2, OpenInsideTabInv
<1> QED BY <1>2, <1>4, <1>5

\* The console is opened for the first descriptors.
LEMMA ConsoleTabInv ==
  ASSUME TabInv, console_init
  PROVE  TabInv'
<1>0. PICK std \in [0 .. Stdio - 1 -> Descr] :
        /\ IsInjective(std)
        /\ fdtbl' = [fdtbl EXCEPT ![0] = [fd \in Fd |-> IF fd < Stdio THEN std[fd] ELSE NULL]]
        /\ descr' = [d \in Descr |->
             IF d \in Range(std) THEN [dev |-> TTY, refs |-> 1] ELSE descr[d]]
  BY DEF console_init
<1>1. /\ boot = "console_init" /\ boot' = "run" /\ tasks' = tasks /\ fdcap' = fdcap
      /\ fdnext' = [fdnext EXCEPT ![0] = Stdio - 1] /\ uncounted' = uncounted
      /\ overrun' = overrun /\ overread' = overread
  BY DEF console_init
<1>2. /\ tasks = {0} /\ (\A t \in Task, fd \in Fd : fdtbl[t][fd] = NULL)
      /\ \A d \in Descr : descr[d].refs = 0
  BY <1>1 DEF TabInv, BeforeRun
<1>3. TypeT /\ Fd \subseteq Nat /\ NULL \notin Descr /\ 0 \in Task /\ Stdio \in Nat /\ Stdio >= 1
      /\ \A fd \in Fd : fd < Stdio => fd \in 0 .. Stdio - 1
  BY Bounds DEF TabInv
<1>4. ASSUME NEW fd \in Fd
      PROVE  fdtbl'[0][fd] = IF fd < Stdio THEN std[fd] ELSE NULL
  BY <1>0, <1>3 DEF TypeT
<1>5. TypeT'
  <2>1. [fd \in Fd |-> IF fd < Stdio THEN std[fd] ELSE NULL] \in [Fd -> Descr \union {NULL}]
    BY <1>0, <1>3
  <2>2. fdtbl' \in [Task -> [Fd -> Descr \union {NULL}]]
    BY <1>0, <1>3, <2>1 DEF TypeT
  <2>3. fdnext' \in [Task -> Nat]
    BY <1>1, <1>3 DEF TypeT
  <2> PICK D : descr \in [Descr -> [dev : D, refs : Nat]]
    BY <1>3 DEF TypeT
  <2>4. descr' \in [Descr -> [dev : D \union {TTY}, refs : Nat]]
    BY <1>0
  <2> QED BY <1>1, <1>3, <2>2, <2>3, <2>4 DEF TypeT
<1>6. BeforeRun'
  BY <1>1 DEF BeforeRun
<1>7. fdnext'[0] = Stdio - 1 /\ fdcap[0] \in Nat /\ fdcap[0] >= Stdio
  BY <1>1, <1>3, Bounds DEF TypeT
<1>8. NextInTable'
  BY <1>1, <1>2, <1>3, <1>7 DEF NextInTable
<1>9. SlotsInTable' /\ NothingAboveNext'
  <2> SUFFICES ASSUME NEW fd \in Fd, fdtbl'[0][fd] # NULL
               PROVE  fd < fdcap[0] /\ ~ (fd > fdnext'[0])
    BY <1>1, <1>2 DEF SlotsInTable, NothingAboveNext, TabInv
  <2>1. fd < Stdio /\ fd \in Nat
    BY <1>3, <1>4
  <2> QED BY <1>3, <1>7, <2>1
<1>10. ASSUME NEW d \in Descr
       PROVE  descr'[d].refs = Cardinality(Holders(d)')
  <2>1. CASE d \in Range(std)
    <3>1. PICK x \in 0 .. Stdio - 1 : std[x] = d
      BY <2>1 DEF Range
    <3>2. x \in Fd /\ x < Stdio /\ x \in Nat
      BY <1>3, Bounds DEF Fd
    <3>3. \A y \in 0 .. Stdio - 1 : std[y] = d => y = x
      BY <1>0, <3>1 DEF IsInjective
    <3>4. ASSUME NEW fd \in Fd
          PROVE  fdtbl'[0][fd] = d <=> fd = x
      BY <1>3, <1>4, <3>1, <3>2, <3>3
    <3>5. Holders(d)' = {<<0, x>>}
      <4>1. Holders(d)' = {h \in {0} \X Fd : fdtbl'[h[1]][h[2]] = d}
        BY <1>1, <1>2 DEF Holders
      <4>2. ASSUME NEW h \in {0} \X Fd
            PROVE  fdtbl'[h[1]][h[2]] = d <=> h = <<0, x>>
        <5>1. PICK fd \in Fd : h = <<0, fd>>
          OBVIOUS
        <5>2. h[1] = 0 /\ h[2] = fd
          BY <5>1
        <5>3. h = <<0, x>> <=> fd = x
          BY <5>1
        <5> QED BY <3>4, <5>2, <5>3
      <4>3. <<0, x>> \in {0} \X Fd
        BY <3>2
      <4> QED BY <4>1, <4>2, <4>3
    <3>6. descr'[d].refs = 1
      BY <1>0, <2>1
    <3> QED BY <3>5, <3>6, FS_Singleton
  <2>2. CASE d \notin Range(std)
    <3>1. ASSUME NEW fd \in Fd
          PROVE  fdtbl'[0][fd] # d
      BY <1>3, <1>4, <2>2 DEF Range
    <3>2. Holders(d)' = {}
      BY <1>1, <1>2, <3>1 DEF Holders
    <3>3. descr'[d].refs = 0
      BY <1>0, <1>2, <2>2
    <3> QED BY <3>2, <3>3, FS_EmptySet
  <2> QED BY <2>1, <2>2
<1> QED BY <1>5, <1>6, <1>8, <1>9, <1>10 DEF TabInv, RefsCountHolders

\* A descriptor is closed.
LEMMA CloseTabInv ==
  ASSUME TabInv, NEW t \in Task, NEW fd \in Fd, sys_close(t, fd)
  PROVE  TabInv'
<1> DEFINE d == fdtbl[t][fd]
<1>0. /\ t \in tasks /\ boot = "run" /\ d # NULL /\ descr[d].refs # 0
      /\ descr' = [descr EXCEPT ![d].refs = @ - 1]
      /\ fdtbl' = Put(fdtbl, t, fd, NULL)
      /\ fdcap' = fdcap /\ fdnext' = fdnext /\ boot' = boot /\ tasks' = tasks
      /\ uncounted' = uncounted /\ overrun' = overrun /\ overread' = overread
  BY DEF sys_close, Running, Valid, fd_close, vfs, Put
<1>1. TypeT /\ tasks \subseteq Task /\ Fd \subseteq Nat /\ NULL \notin Descr /\ d \in Descr
  <2>1. TypeT /\ tasks \subseteq Task /\ fdtbl \in [Task -> [Fd -> Descr \union {NULL}]]
    BY DEF TabInv, TypeT
  <2>2. d \in Descr \union {NULL}
    BY <2>1
  <2> QED BY <1>0, <2>1, <2>2, Bounds
<1>2. /\ fdtbl' \in [Task -> [Fd -> Descr \union {NULL}]] /\ fdtbl'[t][fd] = NULL
      /\ \A u \in Task, i \in Fd : u # t \/ i # fd => fdtbl'[u][i] = fdtbl[u][i]
  BY <1>0, <1>1, SlotFacts
<1> HIDE DEF d
<1>3. /\ descr'[d].refs = descr[d].refs - 1 /\ \A e \in Descr \ {d} : descr'[e] = descr[e]
      /\ \E D : descr' \in [Descr -> [dev : D, refs : Nat]]
  <2> PICK D : descr \in [Descr -> [dev : D, refs : Nat]]
    BY <1>1 DEF TypeT
  <2>1. descr[d].refs - 1 \in Nat /\ descr[d] \in [dev : D, refs : Nat]
    BY <1>0, <1>1
  <2>2. [descr[d] EXCEPT !.refs = descr[d].refs - 1] \in [dev : D, refs : Nat]
    BY <2>1
  <2>3. descr' \in [Descr -> [dev : D, refs : Nat]]
    BY <1>0, <1>1, <2>2
  <2> QED BY <1>0, <1>1, <2>3
<1>4. TypeT'
  BY <1>0, <1>1, <1>2, <1>3 DEF TypeT
<1>5. BeforeRun' /\ NextInTable'
  BY <1>0 DEF BeforeRun, NextInTable, TabInv
<1>6. \A u \in tasks, i \in Fd : fdtbl'[u][i] # NULL => fdtbl'[u][i] = fdtbl[u][i]
  BY <1>1, <1>2
<1>7. SlotsInTable'
  BY <1>0, <1>6 DEF SlotsInTable, TabInv
<1>8. NothingAboveNext'
  BY <1>0, <1>6 DEF NothingAboveNext, TabInv
<1>9. ASSUME NEW e \in Descr \ uncounted
      PROVE  descr'[e].refs = Cardinality(Holders(e)')
  <2>0. descr[e].refs = Cardinality(Holders(e))
    BY DEF TabInv, RefsCountHolders
  <2>1. CASE e = d
    <3>1. <<t, fd>> \in Holders(e)
      BY <1>0, <2>1, HolderIff DEF d
    <3>2. Holders(e)' = Holders(e) \ {<<t, fd>>}
      <4>1. ASSUME NEW u \in tasks, NEW i \in Fd
            PROVE  fdtbl'[u][i] = e <=> fdtbl[u][i] = e /\ <<u, i>> # <<t, fd>>
        BY <1>1, <1>2, <2>1
      <4> QED BY <1>0, <4>1 DEF Holders
    <3>3. IsFiniteSet(Holders(e))
      BY <1>1, HoldersFinite
    <3>4. Cardinality(Holders(e)') = Cardinality(Holders(e)) - 1
      BY <3>1, <3>2, <3>3, FS_RemoveElement
    <3> QED BY <1>3, <2>0, <2>1, <3>4
  <2>2. CASE e # d
    <3>1. Holders(e)' = Holders(e)
      <4>1. ASSUME NEW u \in tasks, NEW i \in Fd
            PROVE  fdtbl'[u][i] = e <=> fdtbl[u][i] = e
        BY <1>1, <1>2, <2>2 DEF d
      <4> QED BY <1>0, <4>1 DEF Holders
    <3> QED BY <1>3, <2>0, <2>2, <3>1
  <2> QED BY <2>1, <2>2
<1> QED BY <1>0, <1>4, <1>5, <1>7, <1>8, <1>9 DEF TabInv, RefsCountHolders

\* A descriptor is copied to a free slot of the table, uncounted.
LEMMA DupTabInv ==
  ASSUME TabInv, NEW t \in Task, NEW from \in Fd, NEW to, fd_dupfd(t, from, to),
         overrun' # "dup"
  PROVE  TabInv'
<1> DEFINE free == {i \in Fd : i >= to /\ i < fdcap[t] /\ fdtbl[t][i] = NULL}
           d == fdtbl[t][from]
<1>0. /\ t \in tasks /\ boot = "run" /\ d # NULL /\ free # {}
      /\ fdtbl' = Put(fdtbl, t, Min(free), d)
      /\ fdcap' = fdcap /\ fdnext' = fdnext /\ boot' = boot /\ tasks' = tasks
      /\ uncounted' = uncounted \union {d} /\ descr' = descr
      /\ overrun' = overrun /\ overread' = overread
  BY DEF fd_dupfd, Running, vfs, Put
<1>1. TypeT /\ tasks \subseteq Task /\ Fd \subseteq Nat /\ NULL \notin Descr /\ d \in Descr
  <2>1. TypeT /\ tasks \subseteq Task /\ fdtbl \in [Task -> [Fd -> Descr \union {NULL}]]
    BY DEF TabInv, TypeT
  <2>2. d \in Descr \union {NULL}
    BY <2>1
  <2> QED BY <1>0, <2>1, <2>2, Bounds
<1>2. PICK fd \in Fd : fd = Min(free) /\ fd < fdcap[t] /\ fdtbl[t][fd] = NULL
  <2>1. free \in SUBSET Nat
    BY <1>1
  <2>2. Min(free) \in free
    BY <1>0, <2>1, MinNatural
  <2> QED BY <2>2
<1> HIDE DEF free, d
<1>3. /\ fdtbl' \in [Task -> [Fd -> Descr \union {NULL}]] /\ fdtbl'[t][fd] = d
      /\ \A u \in Task, i \in Fd : u # t \/ i # fd => fdtbl'[u][i] = fdtbl[u][i]
  <2>1. fdtbl' = Put(fdtbl, t, fd, d)
    BY <1>0, <1>2
  <2> QED BY <1>1, <2>1, SlotFacts
<1>4. TypeT'
  BY <1>0, <1>1, <1>3 DEF TypeT
<1>5. BeforeRun' /\ NextInTable'
  BY <1>0 DEF BeforeRun, NextInTable, TabInv
<1>6. SlotsInTable'
  BY <1>0, <1>1, <1>2, <1>3 DEF SlotsInTable, TabInv
<1>7. NothingAboveNext'
  BY <1>0, <1>1, <1>3 DEF NothingAboveNext, TabInv
<1>8. ASSUME NEW e \in Descr \ uncounted'
      PROVE  descr'[e].refs = Cardinality(Holders(e)')
  <2>1. e # d /\ e \notin uncounted
    BY <1>0
  <2>2. Holders(e)' = Holders(e)
    <3>1. ASSUME NEW u \in tasks, NEW i \in Fd
          PROVE  fdtbl'[u][i] = e <=> fdtbl[u][i] = e
      BY <1>1, <1>2, <1>3, <2>1
    <3> QED BY <1>0, <3>1 DEF Holders
  <2> QED BY <1>0, <2>1, <2>2 DEF TabInv, RefsCountHolders
<1> QED BY <1>4, <1>5, <1>6, <1>7, <1>8 DEF TabInv, RefsCountHolders

\* The clone's table is a copy, of which fork counts the slots below fdnext.
LEMMA CloneTabInv ==
  ASSUME TabInv, NEW t \in Task, NEW c \in Task, task_clone(t, c)
  PROVE  TabInv'
<1> DEFINE K(d) == {fd \in Fd : fd < fdnext[t] /\ fdtbl[t][fd] = d}
<1>0. /\ t \in tasks /\ boot = "run" /\ c \notin tasks
      /\ tasks' = tasks \union {c}
      /\ fdtbl' = [fdtbl EXCEPT ![c] = fdtbl[t]]
      /\ fdcap' = [fdcap EXCEPT ![c] = fdcap[t]]
      /\ fdnext' = [fdnext EXCEPT ![c] = fdnext[t]]
      /\ descr' = [d \in Descr |-> [descr[d] EXCEPT !.refs = @ + Cardinality(K(d))]]
      /\ uncounted' = uncounted \union
           {fdtbl[t][fd] : fd \in {i \in Fd : i >= fdnext[t] /\ fdtbl[t][i] # NULL}}
      /\ boot' = boot /\ overrun' = overrun /\ overread' = overread
  BY DEF task_clone, Running, vfs
<1>1. TypeT /\ tasks \subseteq Task /\ Fd \subseteq Nat /\ NULL \notin Descr
  BY Bounds DEF TabInv, TypeT
<1>2. /\ fdtbl' \in [Task -> [Fd -> Descr \union {NULL}]] /\ fdtbl'[c] = fdtbl[t]
      /\ fdcap' \in [Task -> FirstCap .. MaxCap] /\ fdcap'[c] = fdcap[t]
      /\ fdnext' \in [Task -> Nat] /\ fdnext'[c] = fdnext[t]
      /\ \A u \in tasks : fdtbl'[u] = fdtbl[u] /\ fdcap'[u] = fdcap[u] /\ fdnext'[u] = fdnext[u]
  BY <1>0, <1>1 DEF TypeT
<1>3. ASSUME NEW d
      PROVE  IsFiniteSet(K(d)) /\ Cardinality(K(d)) \in Nat
  <2>1. K(d) \in SUBSET Fd
    OBVIOUS
  <2> HIDE DEF K
  <2> QED BY <2>1, Bounds, FS_Subset, FS_CardinalityType
<1> HIDE DEF K
<1>4. /\ \A d \in Descr : descr'[d].refs = descr[d].refs + Cardinality(K(d))
      /\ \E D : descr' \in [Descr -> [dev : D, refs : Nat]]
  <2> PICK D : descr \in [Descr -> [dev : D, refs : Nat]]
    BY <1>1 DEF TypeT
  <2>1. ASSUME NEW d \in Descr
        PROVE  /\ descr'[d].refs = descr[d].refs + Cardinality(K(d))
               /\ descr'[d] \in [dev : D, refs : Nat]
    <3>1. descr[d] \in [dev : D, refs : Nat] /\ descr[d].refs + Cardinality(K(d)) \in Nat
      BY <1>3
    <3> QED BY <1>0, <3>1
  <2>2. descr' \in [Descr -> [dev : D, refs : Nat]]
    BY <1>0, <2>1
  <2> QED BY <2>1, <2>2
<1>5. uncounted' \subseteq Descr
  BY <1>0, <1>1 DEF TypeT
<1>6. TypeT'
  BY <1>0, <1>1, <1>2, <1>4, <1>5 DEF TypeT
<1>7. BeforeRun' /\ NextInTable' /\ SlotsInTable'
  BY <1>0, <1>2 DEF BeforeRun, NextInTable, SlotsInTable, TabInv
<1>8. NothingAboveNext'
  BY <1>0, <1>2 DEF NothingAboveNext, TabInv
<1>9. ASSUME NEW e \in Descr \ uncounted'
      PROVE  descr'[e].refs = Cardinality(Holders(e)')
  <2>0. descr[e].refs = Cardinality(Holders(e)) /\ e # NULL
    BY <1>0, <1>1 DEF TabInv, RefsCountHolders
  <2>1. K(e) = {fd \in Fd : fdtbl[t][fd] = e}
    <3>1. ASSUME NEW fd \in Fd, fdtbl[t][fd] = e
          PROVE  fd < fdnext[t]
      <4>1. ~ (fd >= fdnext[t])
        BY <1>0, <2>0, <3>1
      <4> QED BY <1>1, <4>1 DEF TypeT
    <3> QED BY <3>1 DEF K
  <2>2. Holders(e)' = Holders(e) \union ({c} \X K(e))
    <3>1. ASSUME NEW u \in tasks, NEW i \in Fd
          PROVE  fdtbl'[u][i] = e <=> fdtbl[u][i] = e
      BY <1>2
    <3>2. ASSUME NEW i \in Fd
          PROVE  fdtbl'[c][i] = e <=> i \in K(e)
      BY <1>2, <2>1
    <3> QED BY <1>0, <2>1, <3>1, <3>2 DEF Holders
  <2>3. Holders(e) \intersect ({c} \X K(e)) = {}
    BY <1>0 DEF Holders
  <2>4. /\ IsFiniteSet(Holders(e)) /\ IsFiniteSet({c} \X K(e))
        /\ Cardinality({c} \X K(e)) = Cardinality(K(e))
        /\ Cardinality(Holders(e)) \in Nat
    <3>1. IsFiniteSet({c}) /\ Cardinality({c}) = 1
      BY FS_Singleton
    <3>2. IsFiniteSet({c} \X K(e)) /\ Cardinality({c} \X K(e)) = 1 * Cardinality(K(e))
      BY <1>3, <3>1, FS_Product
    <3> QED BY <1>1, <1>3, <3>2, HoldersFinite
  <2>5. Cardinality(Holders(e)') = Cardinality(Holders(e)) + Cardinality(K(e))
    <3>1. Cardinality(Holders(e) \union ({c} \X K(e))) =
            Cardinality(Holders(e)) + Cardinality({c} \X K(e))
              - Cardinality(Holders(e) \intersect ({c} \X K(e)))
      BY <2>4, FS_Union
    <3>2. Cardinality(Holders(e) \intersect ({c} \X K(e))) = 0
      BY <2>3, FS_EmptySet
    <3>3. Cardinality(Holders(e)') = Cardinality(Holders(e)) + Cardinality(K(e)) - 0
      BY <2>2, <2>4, <3>1, <3>2
    <3> QED BY <1>3, <2>4, <3>3
  <2> QED BY <1>4, <2>0, <2>5
<1> QED BY <1>6, <1>7, <1>8, <1>9 DEF TabInv, RefsCountHolders

\* Reads and seeks, stores behind the table, and the boot steps in front of
\* console_init, leave the tables alone.
LEMMA QuietTabInv ==
  ASSUME TabInv, UNCHANGED <<tasks, tables, descr, overread, uncounted>>,
         overrun' = overrun \/ overrun' \in {"freed", "file", "dup"},
         boot' = boot \/ boot # "run"
  PROVE  TabInv'
<1>1. /\ tasks' = tasks /\ fdtbl' = fdtbl /\ fdcap' = fdcap /\ fdnext' = fdnext
      /\ descr' = descr /\ uncounted' = uncounted
  BY DEF tables
<1>2. TypeT' /\ NextInTable' /\ SlotsInTable' /\ NothingAboveNext'
  BY <1>1 DEF TabInv, TypeT, NextInTable, SlotsInTable, NothingAboveNext
<1>3. BeforeRun'
  BY <1>1 DEF TabInv, BeforeRun
<1>4. ASSUME NEW d
      PROVE  Holders(d)' = Holders(d)
  BY <1>1 DEF Holders
<1>5. RefsCountHolders'
  BY <1>1, <1>4 DEF TabInv, RefsCountHolders
<1> QED BY <1>2, <1>3, <1>5 DEF TabInv

LEMMA InitTabInv == Init => TabInv
<1> SUFFICES ASSUME Init PROVE TabInv
  OBVIOUS
<1>1. /\ tasks = {0} /\ uncounted = {} /\ overrun = "none"
      /\ fdtbl = [t \in Task |-> [fd \in Fd |-> NULL]]
      /\ fdcap = [t \in Task |-> FirstCap] /\ fdnext = [t \in Task |-> 0]
      /\ descr = [d \in Descr |-> [dev |-> NULL, refs |-> 0]]
  BY DEF Init
<1>2. FirstCap \in FirstCap .. MaxCap /\ 0 < FirstCap
  BY Bounds
<1>3. TypeT
  <2>1. descr \in [Descr -> [dev : {NULL}, refs : Nat]]
    BY <1>1
  <2> QED BY <1>1, <1>2, <2>1, Bounds DEF TypeT
<1>4. \A t \in Task, fd \in Fd : fdtbl[t][fd] = NULL
  BY <1>1
<1>5. BeforeRun /\ NextInTable /\ SlotsInTable /\ NothingAboveNext
  BY <1>1, <1>2, <1>4, Bounds DEF BeforeRun, NextInTable, SlotsInTable, NothingAboveNext
<1>6. ASSUME NEW d \in Descr
      PROVE  descr[d].refs = Cardinality(Holders(d))
  <2>1. Holders(d) = {}
    BY <1>1, <1>4, Bounds DEF Holders
  <2> QED BY <1>1, <2>1, FS_EmptySet
<1> QED BY <1>3, <1>5, <1>6 DEF TabInv, RefsCountHolders

\* Every step keeps the tables in order.
LEMMA TabSteps == TabInv /\ [Next]_vars => TabInv'
<1> SUFFICES ASSUME TabInv, [Next]_vars PROVE TabInv'
  OBVIOUS
<1>1. CASE Boot
  <2>1. boot # "run"
    BY <1>1 DEF Boot, VfsNext, fs_create_rootfs, cpiofs_unpack_file, initrd_mount,
                initrd_bad_magic, console_register
  <2>2. UNCHANGED <<tasks, tables, descr, overrun, overread, uncounted>> /\ boot' # "run"
    BY <1>1, <2>1 DEF Boot, VfsNext, fs_create_rootfs, cpiofs_unpack_file, initrd_mount,
                      initrd_bad_magic, console_register
  <2> QED BY <2>1, <2>2, QuietTabInv
<1>2. CASE console_init
  BY <1>2, ConsoleTabInv
<1>3. ASSUME NEW t \in Task, NEW path \in Paths, sys_open(t, path)
      PROVE  TabInv'
  <2>1. /\ t \in tasks /\ boot = "run" /\ boot' = boot /\ tasks' = tasks
        /\ overrun = "none" /\ fd_open(t, fs_locate(path))
    BY <1>3 DEF sys_open, Running, vfs
  <2> QED BY <2>1, OpenTabInv
<1>4. ASSUME NEW t \in Task, NEW c \in Task, task_clone(t, c)
      PROVE  TabInv'
  BY <1>4, CloneTabInv
<1>5. ASSUME NEW t \in Task, NEW fd \in Fd, sys_close(t, fd)
      PROVE  TabInv'
  BY <1>5, CloseTabInv
<1>6. ASSUME NEW t \in Task, NEW fd \in Fd, NEW to, fd_dupfd(t, fd, to)
      PROVE  TabInv'
  <2>1. CASE overrun' = "dup"
    <3>1. UNCHANGED <<vfs, tasks, tables, descr, overread, uncounted>>
      BY <1>6, <2>1 DEF fd_dupfd, Running, tables
    <3> QED BY <2>1, <3>1, QuietTabInv DEF vfs
  <2>2. CASE overrun' # "dup"
    BY <1>6, <2>2, DupTabInv
  <2> QED BY <2>1, <2>2
<1>7. ASSUME NEW t, NEW fd, NEW n, UseFreed(t, fd) \/ sys_read(t, fd, n) \/ sys_lseek(t, fd, n)
      PROVE  TabInv'
  <2>1. /\ UNCHANGED <<vfs, tasks, tables, descr, overread, uncounted>>
        /\ overrun' = overrun \/ overrun' \in {"freed", "file"}
    BY <1>7 DEF UseFreed, sys_read, sys_lseek
  <2> QED BY <2>1, QuietTabInv DEF vfs
<1>8. CASE UNCHANGED vars
  BY <1>8, QuietTabInv DEF vars, vfs
<1> QED BY <1>1, <1>2, <1>3, <1>4, <1>5, <1>6, <1>7, <1>8 DEF Next

LEMMA TablesInvariance == Spec => []TabInv
BY InitTabInv, TabSteps, PTL DEF Spec

\* However tasks open, close, duplicate and fork, and whichever freed memory malloc
\* gives out again, refs is the number of slots that hold a descriptor, of all
\* tasks, for each descriptor the two gaps of the code (F_DUPFD, and the slot at
\* fdnext when a task forks) did not touch, and whose memory no slot of such a
\* descriptor still points to.
THEOREM RefsAreCounted == Spec => []RefsCountHolders
BY TablesInvariance, PTL DEF TabInv

\* Only F_DUPFD fills slots above fdnext, so a fork without it misses one
\* descriptor at most.
THEOREM NothingIsAboveNext == Spec => []NothingAboveNext
BY TablesInvariance, PTL DEF TabInv

\* However often tables grow and are copied, fork copies all of a table, and open
\* stores behind one only after fd_alloc met as many nonzero words behind the full
\* table as it has slots.
THEOREM SlotsAreInTable == Spec => []SlotsInTable
BY TablesInvariance, PTL DEF TabInv

-----------------------------------------------------------------------------
(* Positions *)

TypeP ==
  /\ pos \in [Files -> Int] /\ outside \subseteq Files
  /\ overrun \in {"none", "freed", "file", "alloc", "dup"} /\ wrapped \in BOOLEAN

PosInv == TypeP /\ PosInFile /\ OverrunHasCause

\* The length of a file is a positive off_t, and the numbers have room for two.
LEMMA LengthFacts ==
  ASSUME NEW f \in Files
  PROVE  /\ SIZE \in Nat /\ SIZE >= 2 /\ Length[f] \in Nat
         /\ SIZE \div 2 \in Nat /\ Length[f] < SIZE \div 2
         /\ 2 * (SIZE \div 2) <= SIZE
<1>1. SIZE \in Nat /\ Length[f] \in 0 .. SIZE \div 2 - 1
  BY FilesAssumption
<1>2. SIZE \div 2 \in Int /\ 2 * (SIZE \div 2) <= SIZE
  BY <1>1
<1> QED BY <1>1, <1>2

\* Arithmetic of a size_t on the numbers the calls meet.
LEMMA SmallMod ==
  ASSUME NEW n \in Nat, n > 0, NEW x \in Nat, x < n
  PROVE  x % n = x
OBVIOUS

LEMMA WrapMod ==
  ASSUME NEW n \in Nat, n > 0, NEW x \in Nat, x >= n, x < 2 * n
  PROVE  x % n = x - n
OBVIOUS

LEMMA ModType ==
  ASSUME NEW n \in Nat, n > 0, NEW x \in Int
  PROVE  x % n \in 0 .. n - 1
OBVIOUS

\* A number inside a file is the off_t it is stored as.
LEMMA SignedInFile ==
  ASSUME NEW f \in Files, NEW p \in 0 .. Length[f]
  PROVE  Signed(p) = p
<1>1. p \in Nat /\ p < SIZE \div 2 /\ p < SIZE /\ SIZE \in Nat /\ SIZE > 0
  BY LengthFacts
<1>2. p % SIZE = p
  BY <1>1, SmallMod
<1> QED BY <1>1, <1>2 DEF Signed

LEMMA SignedType ==
  ASSUME NEW f \in Files, NEW p \in Int
  PROVE  Signed(p) \in Int
<1>1. SIZE \in Nat /\ SIZE > 0
  BY LengthFacts
<1>2. p % SIZE \in Int
  BY <1>1, ModType
<1> QED BY <1>1, <1>2 DEF Signed

\* A read of a file whose position is inside: the position stays inside, and
\* nothing outside is copied unless position plus count wraps around.
LEMMA ReadInFile ==
  ASSUME NEW f \in Files, pos[f] \in 0 .. Length[f], NEW nbyte \in 0 .. SIZE - 1,
         NEW n, n = cpiofs_read_file(f, nbyte)
  PROVE  /\ Signed(pos[f] + n) \in 0 .. Length[f]
         /\ pos[f] + nbyte < SIZE => n <= nbyte /\ pos[f] + n <= Length[f]
<1>1. /\ SIZE \in Nat /\ SIZE > 0 /\ Length[f] \in Nat /\ Length[f] < SIZE
      /\ pos[f] \in Nat /\ pos[f] <= Length[f] /\ nbyte \in Nat /\ nbyte < SIZE
  BY LengthFacts
<1>2. CASE pos[f] + nbyte < SIZE
  <2>1. (pos[f] + nbyte) % SIZE = pos[f] + nbyte
    BY <1>1, <1>2, SmallMod
  <2>2. (Length[f] - pos[f]) % SIZE = Length[f] - pos[f]
    BY <1>1, SmallMod
  <2>3. n <= nbyte /\ pos[f] + n \in 0 .. Length[f]
    <3>1. CASE pos[f] + nbyte > Length[f]
      <4>1. n = Length[f] - pos[f]
        BY <2>1, <2>2, <3>1 DEF cpiofs_read_file
      <4> QED BY <1>1, <3>1, <4>1
    <3>2. CASE ~ (pos[f] + nbyte > Length[f])
      <4>1. n = nbyte
        BY <2>1, <3>2 DEF cpiofs_read_file
      <4> QED BY <1>1, <3>2, <4>1
    <3> QED BY <3>1, <3>2
  <2> QED BY <1>1, <2>3, SignedInFile
<1>3. CASE ~ (pos[f] + nbyte < SIZE)
  <2> DEFINE w == pos[f] + nbyte - SIZE
  <2>0. pos[f] + nbyte \in Nat /\ pos[f] + nbyte >= SIZE /\ pos[f] + nbyte < 2 * SIZE
    BY <1>1, <1>3
  <2>1. (pos[f] + nbyte) % SIZE = w
    BY <1>1, <2>0, WrapMod
  <2>2. w \in 0 .. Length[f]
    BY <1>1, <2>0
  <2>3. n = nbyte
    <3>1. ~ (w > Length[f])
      BY <1>1, <2>2
    <3> QED BY <2>1, <3>1 DEF cpiofs_read_file
  <2>4. w % SIZE = w /\ w < SIZE \div 2
    <3>1. w \in Nat /\ w < SIZE
      BY <1>1, <2>2
    <3>2. w < SIZE \div 2
      BY <2>2, LengthFacts
    <3> QED BY <1>1, <3>1, <3>2, SmallMod
  <2>5. Signed(pos[f] + n) = w
    BY <2>1, <2>3, <2>4 DEF Signed
  <2> QED BY <1>3, <2>2, <2>5
<1> QED BY <1>2, <1>3

\* What is read and moved is a number, wherever the position is.
LEMMA ReadType ==
  ASSUME NEW f \in Files, pos[f] \in Int, NEW nbyte \in 0 .. SIZE - 1
  PROVE  cpiofs_read_file(f, nbyte) \in Int
<1>1. SIZE \in Nat /\ SIZE > 0 /\ Length[f] - pos[f] \in Int
  BY LengthFacts
<1>2. (Length[f] - pos[f]) % SIZE \in Int
  BY <1>1, ModType
<1> QED BY <1>1, <1>2 DEF cpiofs_read_file

LEMMA ReadPosInv ==
  ASSUME PosInv, NEW t, NEW fd, NEW nbyte \in Counts, sys_read(t, fd, nbyte)
  PROVE  PosInv'
<1> DEFINE f == descr[fdtbl[t][fd]].dev
           n == cpiofs_read_file(f, nbyte)
<1>0. /\ f \in Files /\ overrun = "none" /\ outside' = outside /\ uncounted' = uncounted
      /\ pos' = [pos EXCEPT ![f] = Signed(pos[f] + n)]
      /\ overrun' = IF n > nbyte \/ ~ (pos[f] >= 0 /\ pos[f] + n <= Length[f])
                    THEN "file" ELSE overrun
      /\ wrapped' = (wrapped \/ pos[f] + nbyte >= SIZE)
  BY DEF sys_read, Running
<1>1. nbyte \in 0 .. SIZE - 1
  BY FilesAssumption
<1> HIDE DEF f
<1>2. pos \in [Files -> Int] /\ pos[f] \in Int /\ n \in Int
  BY <1>0, <1>1, ReadType DEF PosInv, TypeP
<1>3. Signed(pos[f] + n) \in Int
  BY <1>0, <1>2, SignedType
<1>4. f \notin outside =>
        /\ pos[f] \in 0 .. Length[f]
        /\ Signed(pos[f] + n) \in 0 .. Length[f]
        /\ pos[f] + nbyte < SIZE => n <= nbyte /\ pos[f] + n <= Length[f]
  BY <1>0, <1>1, ReadInFile DEF PosInv, PosInFile
<1> HIDE DEF n
<1>5. TypeP'
  BY <1>0, <1>2, <1>3 DEF PosInv, TypeP
<1>6. PosInFile'
  <2> SUFFICES ASSUME NEW g \in Files \ outside
               PROVE  pos'[g] \in 0 .. Length[g]
    BY <1>0 DEF PosInFile
  <2>1. CASE g = f
    BY <1>0, <1>2, <1>4, <2>1
  <2>2. CASE g # f
    BY <1>0, <1>2, <2>2 DEF PosInv, PosInFile
  <2> QED BY <2>1, <2>2
<1>7. OverrunHasCause'
  <2> SUFFICES ASSUME f \notin outside, ~ (pos[f] + nbyte >= SIZE)
               PROVE  overrun' = "none"
    BY <1>0 DEF OverrunHasCause
  <2>1. SIZE \in Nat /\ nbyte \in Nat /\ Length[f] \in Nat
    BY <1>0, <1>1, LengthFacts
  <2>2. pos[f] + nbyte < SIZE /\ pos[f] >= 0
    BY <1>2, <1>4, <2>1
  <2>3. ~ (n > nbyte) /\ pos[f] + n <= Length[f]
    BY <1>2, <1>4, <2>1, <2>2
  <2> QED BY <1>0, <2>2, <2>3
<1> QED BY <1>5, <1>6, <1>7 DEF PosInv

LEMMA SeekPosInv ==
  ASSUME PosInv, NEW t, NEW fd, NEW offset \in Offsets, sys_lseek(t, fd, offset)
  PROVE  PosInv'
<1> DEFINE f == descr[fdtbl[t][fd]].dev
<1>0. PICK p \in cpiofs_seek_file(f, offset) :
        /\ pos' = [pos EXCEPT ![f] = Signed(p)]
        /\ outside' = IF p \in 0 .. Length[f] THEN outside ELSE outside \union {f}
  BY DEF sys_lseek
<1>1. f \in Files /\ overrun = "none" /\ overrun' = "none" /\ wrapped' = wrapped
  BY DEF sys_lseek, Running
<1> HIDE DEF f
<1>2. pos \in [Files -> Int] /\ pos[f] \in Int /\ Length[f] \in Int /\ offset \in Int
  <2>1. SIZE \in Nat /\ SIZE \div 2 \in Nat /\ Length[f] \in Nat
    BY <1>1, LengthFacts
  <2>2. offset \in -(SIZE \div 2) .. SIZE \div 2 - 1
    BY FilesAssumption
  <2> QED BY <1>1, <2>1, <2>2 DEF PosInv, TypeP
<1>3. p \in Int
  BY <1>0, <1>2 DEF cpiofs_seek_file
<1>4. TypeP'
  BY <1>0, <1>1, <1>2, <1>3, SignedType DEF PosInv, TypeP
<1>5. PosInFile'
  <2> SUFFICES ASSUME NEW g \in Files \ outside'
               PROVE  pos'[g] \in 0 .. Length[g]
    BY DEF PosInFile
  <2>1. CASE g = f
    <3>1. p \in 0 .. Length[f]
      BY <1>0, <2>1
    <3> QED BY <1>0, <1>1, <1>2, <2>1, <3>1, SignedInFile
  <2>2. CASE g # f
    <3>1. g \notin outside /\ pos'[g] = pos[g]
      BY <1>0, <1>2, <2>2
    <3> QED BY <3>1 DEF PosInv, PosInFile
  <2> QED BY <2>1, <2>2
<1> QED BY <1>1, <1>4, <1>5 DEF PosInv, OverrunHasCause

\* A slot whose descriptor is freed holds one that was shared uncounted.
LEMMA FreedPosInv ==
  ASSUME TabInv, PosInv, NEW t \in Task, NEW fd \in Fd, UseFreed(t, fd)
  PROVE  PosInv'
<1> DEFINE d == fdtbl[t][fd]
<1>0. /\ t \in tasks /\ d # NULL /\ descr[d].refs = 0 /\ overrun' = "freed"
      /\ pos' = pos /\ uncounted' = uncounted /\ outside' = outside /\ wrapped' = wrapped
  BY DEF UseFreed, Running, Valid
<1>1. TypeT /\ fdtbl \in [Task -> [Fd -> Descr \union {NULL}]]
  BY DEF TabInv, TypeT
<1>2. d \in Descr
  BY <1>0, <1>1
<1>3. <<t, fd>> \in Holders(d)
  BY <1>0, HolderIff
<1> HIDE DEF d
<1>5. d \in uncounted
  BY <1>0, <1>2, <1>3, FreedIsUncounted
<1> QED BY <1>0, <1>5 DEF PosInv, TypeP, PosInFile, OverrunHasCause

LEMMA PosSteps == TabInv /\ PosInv /\ [Next]_vars => PosInv'
<1> SUFFICES ASSUME TabInv, PosInv, [Next]_vars PROVE PosInv'
  OBVIOUS
<1>0. ASSUME UNCHANGED <<pos, outside, wrapped>>,
             \/ overrun' \in {"none", "alloc", "dup"}
             \/ overrun' = overrun /\ uncounted' = uncounted
      PROVE  PosInv'
  BY <1>0 DEF PosInv, TypeP, PosInFile, OverrunHasCause
<1>1. CASE Boot \/ console_init
  BY <1>0, <1>1 DEF Boot, console_init
<1>2. ASSUME NEW t, NEW path, sys_open(t, path)
      PROVE  PosInv'
  BY <1>0, <1>2 DEF sys_open, fd_open, Running
<1>3. ASSUME NEW t, NEW c, task_clone(t, c)
      PROVE  PosInv'
  BY <1>0, <1>3 DEF task_clone, Running
<1>4. ASSUME NEW t, NEW fd, sys_close(t, fd)
      PROVE  PosInv'
  BY <1>0, <1>4 DEF sys_close, Running
<1>5. ASSUME NEW t, NEW fd, NEW to, fd_dupfd(t, fd, to)
      PROVE  PosInv'
  BY <1>0, <1>5 DEF fd_dupfd, Running
<1>6. ASSUME NEW t \in Task, NEW fd \in Fd, UseFreed(t, fd)
      PROVE  PosInv'
  BY <1>6, FreedPosInv
<1>7. ASSUME NEW t, NEW fd, NEW n \in Counts, sys_read(t, fd, n)
      PROVE  PosInv'
  BY <1>7, ReadPosInv
<1>8. ASSUME NEW t, NEW fd, NEW offset \in Offsets, sys_lseek(t, fd, offset)
      PROVE  PosInv'
  BY <1>8, SeekPosInv
<1>9. CASE UNCHANGED vars
  BY <1>0, <1>9 DEF vars
<1> QED BY <1>1, <1>2, <1>3, <1>4, <1>5, <1>6, <1>7, <1>8, <1>9 DEF Next

LEMMA PositionsInvariance == Spec => []PosInv
<1>1. Init => PosInv
  <2> SUFFICES ASSUME Init PROVE PosInv
    OBVIOUS
  <2>1. pos = [f \in Files |-> 0] /\ overrun = "none" /\ outside = {} /\ wrapped = FALSE
    BY DEF Init
  <2>2. \A f \in Files : 0 \in 0 .. Length[f]
    BY LengthFacts
  <2>3. TypeP
    <3>1. pos \in [Files -> Int]
      BY <2>1
    <3> QED BY <2>1, <3>1, Zenon DEF TypeP
  <2>4. PosInFile
    BY <2>1, <2>2 DEF PosInFile
  <2> QED BY <2>1, <2>3, <2>4 DEF PosInv, OverrunHasCause
<1> QED BY <1>1, PosSteps, TablesInvariance, PTL DEF Spec

\* No sequence of reads and of seeks to places inside a file moves the position
\* out of it, for a size_t of any size, counts that wrap around included.
THEOREM PositionsStayInFile == Spec => []PosInFile
BY PositionsInvariance, PTL DEF PosInv

\* A freed descriptor is used only after a descriptor was shared without being
\* counted, and memory outside a file is copied only after a seek out of a file or
\* a count that wraps around.
THEOREM OverrunsHaveCause == Spec => []OverrunHasCause
BY PositionsInvariance, PTL DEF PosInv
=============================================================================
