--------------------------- MODULE ConsoleProofs ----------------------------
(***************************************************************************)
(* Theorems about Console for a ring of any length and any set of readers. *)
(* What the ring promises depends on how many readers have used it: what   *)
(* holds for one that is alone (Alone) and for two that race (Racing) are  *)
(* invariants of their own, about every reader and every pair of readers,  *)
(* under the condition that nobody else has called console_read.           *)
(***************************************************************************)
EXTENDS Console, FiniteSetTheorems, SequenceTheorems, NaturalsInduction, TLAPS

TypeC ==
  /\ ConsoleReadBuf \in [0 .. CONS_RBUF_LEN - 1 -> Keys]
  /\ RBufRead \in Nat /\ RBufWrite \in Nat
  /\ pc \in [Readers -> {"idle", "test", "load", "store", "fetch"}]
  /\ loaded \in [Readers -> Nat]
  /\ typed \in Seq(Keys) /\ RBufWrite = Len(typed)
  /\ taken \in Seq(Keys) /\ lost \in BOOLEAN
  /\ users \subseteq Readers /\ IsFiniteSet(users)
  /\ \A r \in Readers : pc[r] # "idle" => r \in users
  /\ users = {} => RBufRead = 0 /\ taken = <<>>

\* The ring holds the last keys pressed.
RingHolds ==
  \A i \in 0 .. RBufWrite - 1 :
    RBufWrite - i <= CONS_RBUF_LEN => ConsoleReadBuf[i % CONS_RBUF_LEN] = typed[i + 1]

\* A reader that is alone: between its test and its fetch nobody moves RBufRead,
\* and until the fetch the ring still holds the key.
AloneOK(r) ==
  /\ RBufRead <= RBufWrite
  /\ pc[r] = "load" => RBufRead < RBufWrite
  /\ pc[r] = "store" => loaded[r] = RBufRead /\ RBufRead < RBufWrite
  /\ pc[r] = "fetch" => loaded[r] + 1 = RBufRead
  /\ ~lost => /\ RBufWrite - RBufRead <= CONS_RBUF_LEN
              /\ pc[r] = "fetch" =>
                   RBufWrite - loaded[r] <= CONS_RBUF_LEN /\ loaded[r] = Len(taken)
              /\ pc[r] # "fetch" => RBufRead = Len(taken)
              /\ \A i \in 1 .. Len(taken) : taken[i] = typed[i]

\* Reader r while o is the only other one.  Both are past the test only for a key
\* that is there; one of them alone may come to hold an RBufRead without a key,
\* and then the other does not pass the test.
RacingOK(r, o) ==
  /\ RBufRead <= RBufWrite + 1
  /\ pc[r] = "load" =>
       RBufRead <= RBufWrite /\ (pc[o] \in {"load", "store"} => RBufRead < RBufWrite)
  /\ pc[r] = "store" =>
       /\ loaded[r] <= RBufWrite
       /\ pc[o] \in {"load", "store"} => loaded[r] < RBufWrite
       /\ loaded[r] = RBufWrite => RBufRead >= RBufWrite

Alone == \A r \in Readers : users \subseteq {r} => AloneOK(r)
Racing == \A r, o \in Readers : r # o /\ users \subseteq {r, o} => RacingOK(r, o)

IInv == TypeC /\ RingHolds /\ Alone /\ Racing

-----------------------------------------------------------------------------

\* Positions less than the length of the ring apart are different slots.
LEMMA DifferentSlots ==
  ASSUME NEW n \in Nat \ {0}, NEW i \in Nat, NEW j \in Nat, i < j, j - i < n
  PROVE  i % n # j % n
<1> SUFFICES ASSUME i % n = j % n
             PROVE  FALSE
  OBVIOUS
<1> DEFINE k == (j \div n) - (i \div n)
<1>1. i = n * (i \div n) + (i % n) /\ j = n * (j \div n) + (j % n) /\ k \in Int
  OBVIOUS
<1>2. j - i = n * k
  BY <1>1
<1>3. k <= 0 \/ k >= 1
  BY <1>1
<1> HIDE DEF k
<1>4. CASE k <= 0
  BY <1>1, <1>2, <1>4
<1>5. CASE k >= 1
  BY <1>1, <1>2, <1>5
<1> QED BY <1>3, <1>4, <1>5

\* A slot of the ring.
LEMMA SlotInRing ==
  ASSUME NEW n \in Nat \ {0}, NEW i \in Nat
  PROVE  i % n \in 0 .. n - 1
OBVIOUS

\* The ring is empty.
LEMMA InitIInv == Init => IInv
<1> SUFFICES ASSUME Init
             PROVE  IInv
  OBVIOUS
<1>1. /\ CONS_RBUF_LEN \in Nat \ {0} /\ NUL \in Keys
      /\ Len(<<>>) = 0 /\ <<>> \in Seq(Keys) /\ IsFiniteSet({})
  BY ConsoleAssumption, FS_EmptySet
<1>2. TypeC
  BY <1>1 DEF Init, TypeC
<1>3. RingHolds /\ Alone /\ Racing
  BY <1>1 DEF Init, RingHolds, Alone, AloneOK, Racing, RacingOK
<1> QED BY <1>2, <1>3 DEF IInv

\* A key is pressed.
LEMMA KbdIInv ==
  ASSUME IInv, NEW key \in Keys, kbd_intr(key)
  PROVE  IInv'
<1> USE ConsoleAssumption
<1>0. TypeC /\ RingHolds /\ Alone /\ Racing
  BY DEF IInv
<1>1. /\ ConsoleReadBuf' = [ConsoleReadBuf EXCEPT ![RBufWrite % CONS_RBUF_LEN] = key]
      /\ RBufWrite' = RBufWrite + 1 /\ typed' = Append(typed, key)
      /\ lost' = (lost \/ Unfetched(RBufWrite - CONS_RBUF_LEN))
      /\ RBufRead' = RBufRead /\ pc' = pc /\ loaded' = loaded /\ taken' = taken /\ users' = users
  BY DEF kbd_intr, console_rbuf_putc
<1>2. /\ RBufWrite \in Nat /\ typed \in Seq(Keys) /\ RBufWrite = Len(typed)
      /\ RBufWrite % CONS_RBUF_LEN \in 0 .. CONS_RBUF_LEN - 1
  BY <1>0, SlotInRing DEF TypeC
<1>3. /\ typed' \in Seq(Keys) /\ Len(typed') = Len(typed) + 1
      /\ \A i \in 1 .. Len(typed) : typed'[i] = typed[i]
      /\ typed'[Len(typed) + 1] = key
  BY <1>1, <1>2, AppendProperties
<1>4. TypeC'
  BY <1>0, <1>1, <1>2, <1>3 DEF TypeC
<1>5. ASSUME NEW j \in 0 .. CONS_RBUF_LEN - 1
      PROVE  ConsoleReadBuf'[j] = IF j = RBufWrite % CONS_RBUF_LEN THEN key ELSE ConsoleReadBuf[j]
  BY <1>0, <1>1 DEF TypeC
<1>6. RingHolds'
  <2> SUFFICES ASSUME NEW i \in 0 .. RBufWrite, RBufWrite + 1 - i <= CONS_RBUF_LEN
               PROVE  ConsoleReadBuf'[i % CONS_RBUF_LEN] = typed'[i + 1]
    BY <1>1, <1>2 DEF RingHolds
  <2>1. CASE i = RBufWrite
    BY <1>2, <1>3, <1>5, <2>1
  <2>2. CASE i < RBufWrite
    <3>0. /\ i \in Nat /\ i \in 0 .. RBufWrite - 1 /\ CONS_RBUF_LEN \in Nat \ {0}
          /\ RBufWrite - i < CONS_RBUF_LEN
      BY <1>2, <2>2
    <3>1. i % CONS_RBUF_LEN # RBufWrite % CONS_RBUF_LEN
      BY <1>2, <2>2, <3>0, DifferentSlots
    <3>2. i % CONS_RBUF_LEN \in 0 .. CONS_RBUF_LEN - 1
      BY SlotInRing
    <3>3. ConsoleReadBuf'[i % CONS_RBUF_LEN] = ConsoleReadBuf[i % CONS_RBUF_LEN]
      BY <1>5, <3>1, <3>2
    <3>4. ConsoleReadBuf[i % CONS_RBUF_LEN] = typed[i + 1]
      <4>1. RBufWrite - i <= CONS_RBUF_LEN
        BY <1>2, <3>0
      <4> QED BY <1>0, <3>0, <4>1 DEF RingHolds
    <3> QED BY <1>2, <1>3, <2>2, <3>3, <3>4
  <2> QED BY <1>2, <2>1, <2>2
<1>7. Alone'
  <2> SUFFICES ASSUME NEW r \in Readers, users \subseteq {r}
               PROVE  AloneOK(r)'
    BY <1>1 DEF Alone
  <2>1. AloneOK(r) /\ Len(taken) \in Nat /\ lost \in BOOLEAN
    BY <1>0, LenProperties DEF Alone, TypeC
  <2>2. ~lost => Len(taken) <= Len(typed)
    BY <1>2, <2>1 DEF AloneOK
  <2>3. ~lost => \A i \in 1 .. Len(taken) : taken[i] = typed'[i]
    BY <1>2, <1>3, <2>1, <2>2 DEF AloneOK
  <2>4. RBufRead \in Nat /\ loaded[r] \in Nat /\ CONS_RBUF_LEN \in Nat
    BY <1>0 DEF TypeC
  <2>5. CASE lost'
    BY <1>1, <1>2, <2>1, <2>4, <2>5 DEF AloneOK
  <2>6. CASE ~lost'
    <3>1. /\ ~lost /\ ~(RBufWrite - CONS_RBUF_LEN >= RBufRead)
          /\ pc[r] = "fetch" => loaded[r] # RBufWrite - CONS_RBUF_LEN
      BY <1>1, <2>6 DEF Unfetched
    <3>2. RBufWrite + 1 - RBufRead <= CONS_RBUF_LEN
      BY <1>2, <2>4, <3>1
    <3>3. ASSUME pc[r] = "fetch"
          PROVE  RBufWrite + 1 - loaded[r] <= CONS_RBUF_LEN /\ loaded[r] = Len(taken)
      <4>1. RBufWrite - loaded[r] <= CONS_RBUF_LEN /\ loaded[r] = Len(taken)
        BY <2>1, <3>1, <3>3 DEF AloneOK
      <4> QED BY <1>2, <2>4, <3>1, <3>3, <4>1
    <3>4. /\ RBufRead <= RBufWrite + 1
          /\ pc[r] = "load" => RBufRead < RBufWrite + 1
          /\ pc[r] = "store" => loaded[r] = RBufRead /\ RBufRead < RBufWrite + 1
          /\ pc[r] = "fetch" => loaded[r] + 1 = RBufRead
      BY <1>2, <2>1, <2>4 DEF AloneOK
    <3>5. pc[r] # "fetch" => RBufRead = Len(taken)
      BY <2>1, <3>1 DEF AloneOK
    <3>6. /\ pc' = pc /\ loaded' = loaded /\ taken' = taken
          /\ RBufRead' = RBufRead /\ RBufWrite' = RBufWrite + 1
      BY <1>1
    <3>7. \A i \in 1 .. Len(taken) : taken[i] = typed'[i]
      BY <2>3, <3>1
    <3>8. /\ RBufRead' <= RBufWrite'
          /\ pc'[r] = "load" => RBufRead' < RBufWrite'
          /\ pc'[r] = "store" => loaded'[r] = RBufRead' /\ RBufRead' < RBufWrite'
          /\ pc'[r] = "fetch" => loaded'[r] + 1 = RBufRead'
      BY <3>4, <3>6
    <3>9. /\ RBufWrite' - RBufRead' <= CONS_RBUF_LEN
          /\ pc'[r] = "fetch" => RBufWrite' - loaded'[r] <= CONS_RBUF_LEN /\ loaded'[r] = Len(taken')
          /\ pc'[r] # "fetch" => RBufRead' = Len(taken')
          /\ \A i \in 1 .. Len(taken') : taken'[i] = typed'[i]
      <4>1. RBufWrite' - RBufRead' <= CONS_RBUF_LEN
        BY <1>2, <2>4, <3>2, <3>6
      <4>2. pc'[r] = "fetch" => RBufWrite' - loaded'[r] <= CONS_RBUF_LEN /\ loaded'[r] = Len(taken')
        BY <1>2, <2>4, <3>3, <3>6
      <4>3. pc'[r] # "fetch" => RBufRead' = Len(taken')
        BY ONLY <3>5, <3>6
      <4>4. \A i \in 1 .. Len(taken') : taken'[i] = typed'[i]
        BY ONLY <3>6, <3>7
      <4> QED BY ONLY <4>1, <4>2, <4>3, <4>4
    <3> QED BY <3>8, <3>9, Zenon DEF AloneOK
  <2> QED BY <2>5, <2>6
<1>8. Racing'
  BY <1>0, <1>1, <1>2 DEF Racing, RacingOK, TypeC
<1> QED BY <1>4, <1>6, <1>7, <1>8 DEF IInv

\* A read begins.
LEMMA ReadIInv ==
  ASSUME IInv, NEW x \in Readers, console_read(x)
  PROVE  IInv'
<1>0. TypeC /\ RingHolds /\ Alone /\ Racing
  BY DEF IInv
<1>1. /\ pc[x] = "idle" /\ pc' = [pc EXCEPT ![x] = "test"] /\ users' = users \union {x}
      /\ ConsoleReadBuf' = ConsoleReadBuf /\ RBufRead' = RBufRead /\ RBufWrite' = RBufWrite
      /\ loaded' = loaded /\ typed' = typed /\ taken' = taken /\ lost' = lost
  BY DEF console_read, ring
<1>2. IsFiniteSet(users')
  BY <1>0, <1>1, FS_AddElement DEF TypeC
<1>3. TypeC' /\ RingHolds'
  BY <1>0, <1>1, <1>2 DEF TypeC, RingHolds
<1>4. pc \in [Readers -> {"idle", "test", "load", "store", "fetch"}]
  BY <1>0 DEF TypeC
<1>5. Alone'
  BY <1>0, <1>1, <1>4 DEF Alone, AloneOK
<1>6. Racing'
  BY <1>0, <1>1, <1>4 DEF Racing, RacingOK
<1> QED BY <1>3, <1>5, <1>6 DEF IInv

\* A reader sees a key in the ring.
LEMMA TestIInv ==
  ASSUME IInv, NEW x \in Readers, Test(x)
  PROVE  IInv'
<1>0. TypeC /\ RingHolds /\ Alone /\ Racing
  BY DEF IInv
<1>1. /\ pc' = [pc EXCEPT ![x] = "load"] /\ users' = users /\ RBufRead < RBufWrite
      /\ pc[x] = "test"
      /\ ConsoleReadBuf' = ConsoleReadBuf /\ RBufRead' = RBufRead /\ RBufWrite' = RBufWrite
      /\ loaded' = loaded /\ typed' = typed /\ taken' = taken /\ lost' = lost
  BY DEF Test, ring
<1>2. TypeC' /\ RingHolds'
  BY <1>0, <1>1 DEF TypeC, RingHolds
<1>3. /\ pc \in [Readers -> {"idle", "test", "load", "store", "fetch"}]
      /\ RBufRead \in Nat /\ RBufWrite \in Nat /\ loaded \in [Readers -> Nat]
  BY <1>0 DEF TypeC
<1>4. Alone'
  BY <1>0, <1>1, <1>3 DEF Alone, AloneOK
<1>5. Racing'
  <2> SUFFICES ASSUME NEW r \in Readers, NEW o \in Readers, r # o, users \subseteq {r, o}
               PROVE  RacingOK(r, o)'
    BY <1>1 DEF Racing
  <2>1. RacingOK(r, o) /\ RacingOK(o, r)
    BY <1>0 DEF Racing
  <2> QED BY <1>1, <1>3, <2>1 DEF RacingOK
<1> QED BY <1>2, <1>4, <1>5 DEF IInv

\* A reader loads RBufRead.
LEMMA LoadIInv ==
  ASSUME IInv, NEW x \in Readers, Load(x)
  PROVE  IInv'
<1>0. TypeC /\ RingHolds /\ Alone /\ Racing
  BY DEF IInv
<1>1. /\ pc' = [pc EXCEPT ![x] = "store"] /\ users' = users /\ pc[x] = "load"
      /\ loaded' = [loaded EXCEPT ![x] = RBufRead]
      /\ ConsoleReadBuf' = ConsoleReadBuf /\ RBufRead' = RBufRead /\ RBufWrite' = RBufWrite
      /\ typed' = typed /\ taken' = taken /\ lost' = lost
  BY DEF Load, ring
<1>2. TypeC' /\ RingHolds'
  BY <1>0, <1>1 DEF TypeC, RingHolds
<1>3. /\ pc \in [Readers -> {"idle", "test", "load", "store", "fetch"}]
      /\ RBufRead \in Nat /\ RBufWrite \in Nat /\ loaded \in [Readers -> Nat]
  BY <1>0 DEF TypeC
<1>4. Alone'
  BY <1>0, <1>1, <1>3 DEF Alone, AloneOK, TypeC
<1>5. Racing'
  <2> SUFFICES ASSUME NEW r \in Readers, NEW o \in Readers, r # o, users \subseteq {r, o}
               PROVE  RacingOK(r, o)'
    BY <1>1 DEF Racing
  <2>1. RacingOK(r, o) /\ RacingOK(o, r) /\ x \in {r, o}
    BY <1>0, <1>1 DEF Racing, TypeC
  <2> QED BY <1>1, <1>3, <2>1 DEF RacingOK
<1> QED BY <1>2, <1>4, <1>5 DEF IInv

\* What the loop does with a character leaves the ring alone.
LEMMA EditStep ==
  ASSUME TypeC, NEW x \in Readers, NEW ch, edit(x, ch)
  PROVE  \E place \in {"idle", "test"} : pc' = [pc EXCEPT ![x] = place]
BY DEF edit

\* A reader stores RBufRead.
LEMMA StoreIInv ==
  ASSUME IInv, NEW x \in Readers, Store(x)
  PROVE  IInv'
<1>0. TypeC /\ RingHolds /\ Alone /\ Racing
  BY DEF IInv
<1>1. /\ users' = users /\ pc[x] = "store" /\ RBufRead' = loaded[x] + 1
      /\ pc' = [pc EXCEPT ![x] = "fetch"]
      /\ ConsoleReadBuf' = ConsoleReadBuf /\ RBufWrite' = RBufWrite
      /\ loaded' = loaded /\ typed' = typed /\ taken' = taken /\ lost' = lost
  BY DEF Store
<1>2. /\ pc \in [Readers -> {"idle", "test", "load", "store", "fetch"}]
      /\ RBufRead \in Nat /\ RBufWrite \in Nat /\ loaded \in [Readers -> Nat]
      /\ taken \in Seq(Keys) /\ x \in users /\ CONS_RBUF_LEN \in Nat
  BY <1>0, <1>1, ConsoleAssumption DEF TypeC
<1>3. TypeC' /\ RingHolds'
  BY <1>0, <1>1, <1>2 DEF TypeC, RingHolds
<1>4. Alone'
  <2> SUFFICES ASSUME NEW r \in Readers, users \subseteq {r}
               PROVE  AloneOK(r)'
    BY <1>1 DEF Alone
  <2>1. AloneOK(x) /\ r = x
    BY <1>0, <1>2 DEF Alone
  <2>2. loaded[x] = RBufRead /\ RBufRead < RBufWrite /\ pc'[x] = "fetch"
    BY <1>1, <1>2, <2>1 DEF AloneOK
  <2> QED BY <1>1, <1>2, <2>1, <2>2 DEF AloneOK
<1>5. Racing'
  <2> SUFFICES ASSUME NEW r \in Readers, NEW o \in Readers, r # o, users \subseteq {r, o}
               PROVE  RacingOK(r, o)'
    BY <1>1 DEF Racing
  <2>1. RacingOK(r, o) /\ RacingOK(o, r) /\ x \in {r, o}
    BY <1>0, <1>2 DEF Racing
  <2> QED BY <1>1, <1>2, <2>1 DEF RacingOK
<1> QED BY <1>3, <1>4, <1>5 DEF IInv

\* A reader takes a character.
LEMMA FetchIInv ==
  ASSUME IInv, NEW x \in Readers, Fetch(x)
  PROVE  IInv'
<1> USE ConsoleAssumption
<1> DEFINE ch == ConsoleReadBuf[loaded[x] % CONS_RBUF_LEN]
<1>0. TypeC /\ RingHolds /\ Alone /\ Racing
  BY DEF IInv
<1> PICK place \in {"idle", "test"} : pc' = [pc EXCEPT ![x] = place]
  BY <1>0, EditStep DEF Fetch
<1>1. /\ users' = users /\ pc[x] = "fetch" /\ RBufRead' = RBufRead
      /\ taken' = Append(taken, ch)
      /\ ConsoleReadBuf' = ConsoleReadBuf /\ RBufWrite' = RBufWrite
      /\ loaded' = loaded /\ typed' = typed /\ lost' = lost
  BY DEF Fetch, ring
<1>2. /\ pc \in [Readers -> {"idle", "test", "load", "store", "fetch"}]
      /\ RBufRead \in Nat /\ RBufWrite \in Nat /\ loaded \in [Readers -> Nat]
      /\ taken \in Seq(Keys) /\ RBufWrite = Len(typed) /\ x \in users
      /\ CONS_RBUF_LEN \in Nat \ {0}
  BY <1>0, <1>1 DEF TypeC
<1>3. ch \in Keys
  <2>1. loaded[x] % CONS_RBUF_LEN \in 0 .. CONS_RBUF_LEN - 1
    BY <1>2, SlotInRing
  <2> QED BY <1>0, <2>1 DEF TypeC
<1> HIDE DEF ch
<1>4. /\ taken' \in Seq(Keys) /\ Len(taken') = Len(taken) + 1 /\ Len(taken) \in Nat
      /\ \A i \in 1 .. Len(taken) : taken'[i] = taken[i]
      /\ taken'[Len(taken) + 1] = ch
  BY <1>1, <1>2, <1>3, AppendProperties, LenProperties
<1>5. TypeC' /\ RingHolds'
  BY <1>0, <1>1, <1>2, <1>4 DEF TypeC, RingHolds
<1>6. Alone'
  <2> SUFFICES ASSUME NEW r \in Readers, users \subseteq {r}
               PROVE  AloneOK(r)'
    BY <1>1 DEF Alone
  <2>1. AloneOK(x) /\ r = x
    BY <1>0, <1>2 DEF Alone
  <2>2. loaded[x] + 1 = RBufRead /\ RBufRead <= RBufWrite
    BY <1>1, <2>1 DEF AloneOK
  <2>3. ASSUME ~lost
        PROVE  /\ RBufWrite - RBufRead <= CONS_RBUF_LEN
               /\ RBufRead = Len(taken')
               /\ \A i \in 1 .. Len(taken') : taken'[i] = typed[i]
    <3>1. /\ RBufWrite - RBufRead <= CONS_RBUF_LEN /\ loaded[x] = Len(taken)
          /\ RBufWrite - loaded[x] <= CONS_RBUF_LEN
          /\ \A i \in 1 .. Len(taken) : taken[i] = typed[i]
      BY <1>1, <2>1, <2>3 DEF AloneOK
    <3>2. loaded[x] \in 0 .. RBufWrite - 1
      BY <1>2, <2>2
    <3>3. ch = typed[loaded[x] + 1]
      BY <1>0, <3>1, <3>2 DEF ch, RingHolds
    <3> QED BY <1>1, <1>2, <1>4, <2>2, <3>1, <3>3
  <2>4. pc'[x] \notin {"load", "store", "fetch"}
    BY <1>1, <1>2
  <2> QED BY <1>1, <2>1, <2>2, <2>3, <2>4 DEF AloneOK
<1>7. Racing'
  <2> SUFFICES ASSUME NEW r \in Readers, NEW o \in Readers, r # o, users \subseteq {r, o}
               PROVE  RacingOK(r, o)'
    BY <1>1 DEF Racing
  <2>1. RacingOK(r, o) /\ RacingOK(o, r) /\ x \in {r, o}
    BY <1>0, <1>2 DEF Racing
  <2> QED BY <1>1, <1>2, <2>1 DEF RacingOK
<1> QED BY <1>5, <1>6, <1>7 DEF IInv

-----------------------------------------------------------------------------

\* Every step keeps the invariant.
LEMMA StepIInv == IInv /\ [Next]_vars => IInv'
<1> SUFFICES ASSUME IInv, [Next]_vars
             PROVE  IInv'
  OBVIOUS
<1>1. CASE Next
  BY <1>1, KbdIInv, ReadIInv, TestIInv, LoadIInv, StoreIInv, FetchIInv DEF Next
<1>2. CASE UNCHANGED vars
  BY <1>2 DEF vars, IInv, TypeC, RingHolds, Alone, AloneOK, Racing, RacingOK
<1> QED BY <1>1, <1>2

\* The inductive invariant: the ring holds the last keys, and what one reader or
\* two readers can rely on.
THEOREM Invariance == Spec => []IInv
<1> QED BY InitIInv, StepIInv, PTL DEF Spec

\* At most one reader.
LEMMA OneUser ==
  ASSUME TypeC, Cardinality(users) <= 1, users # {}
  PROVE  \E r \in Readers : users \subseteq {r}
<1> PICK r \in users : TRUE
  OBVIOUS
<1>1. /\ IsFiniteSet(users \ {r}) /\ Cardinality(users \ {r}) = Cardinality(users) - 1
  BY FS_RemoveElement DEF TypeC
<1>2. Cardinality(users \ {r}) = 0
  BY <1>1, FS_CardinalityType DEF TypeC
<1>3. users \ {r} = {}
  BY <1>1, <1>2, FS_EmptySet
<1> QED BY <1>3 DEF TypeC

\* At most two.
LEMMA TwoUsers ==
  ASSUME TypeC, Cardinality(users) <= 2, users # {}
  PROVE  \E r, o \in Readers : users \subseteq {r, o}
<1> PICK r \in users : TRUE
  OBVIOUS
<1>1. /\ IsFiniteSet(users \ {r}) /\ Cardinality(users \ {r}) = Cardinality(users) - 1
  BY FS_RemoveElement DEF TypeC
<1>2. CASE users \ {r} = {}
  BY <1>2 DEF TypeC
<1>3. CASE users \ {r} # {}
  <2> PICK o \in users \ {r} : TRUE
    BY <1>3
  <2>1. /\ IsFiniteSet((users \ {r}) \ {o})
        /\ Cardinality((users \ {r}) \ {o}) = Cardinality(users \ {r}) - 1
    BY <1>1, FS_RemoveElement
  <2>2. Cardinality((users \ {r}) \ {o}) = 0
    BY <1>1, <2>1, FS_CardinalityType DEF TypeC
  <2>3. (users \ {r}) \ {o} = {}
    BY <2>1, <2>2, FS_EmptySet
  <2> QED BY <2>3 DEF TypeC
<1> QED BY <1>2, <1>3

\* RBufRead passes RBufWrite by one at most while two tasks read the console, and
\* not at all while one does.
THEOREM OvershootIsBounded == Spec => []OvershootBounded
<1>1. ASSUME IInv
      PROVE  OvershootBounded
  <2>0. TypeC /\ Alone /\ Racing /\ RBufRead \in Nat /\ RBufWrite \in Nat
    BY <1>1 DEF IInv, TypeC
  <2>1. CASE users = {}
    BY <2>0, <2>1 DEF TypeC, OvershootBounded
  <2>2. CASE users # {}
    <3>1. ASSUME Cardinality(users) <= 1
          PROVE  RBufRead <= RBufWrite
      BY <2>0, <2>2, <3>1, OneUser DEF Alone, AloneOK
    <3>2. ASSUME Cardinality(users) <= 2
          PROVE  RBufRead <= RBufWrite + 1
      <4> PICK r \in Readers, o \in Readers : users \subseteq {r, o}
        BY <2>0, <2>2, <3>2, TwoUsers
      <4>1. CASE r = o
        <5>1. users \subseteq {r}
          BY <4>1
        <5> QED BY <2>0, <5>1 DEF Alone, AloneOK
      <4>2. CASE r # o
        BY <2>0, <4>2 DEF Racing, RacingOK
      <4> QED BY <4>1, <4>2
    <3> QED BY <3>1, <3>2 DEF OvershootBounded
  <2> QED BY <2>1, <2>2
<1> QED BY Invariance, <1>1, PTL

\* A reader that is alone gets every key once and in the order of the typing,
\* for a ring of any length that was not overrun.
THEOREM AloneReadsInOrder == Spec => []InOrder
<1>1. ASSUME IInv
      PROVE  InOrder
  <2> DEFINE fetching == {r \in Readers : pc[r] = "fetch"}
  <2> SUFFICES ASSUME Cardinality(users) <= 1, ~lost
               PROVE  /\ taken = SubSeq(typed, 1, Len(taken))
                      /\ RBufRead = Len(taken) + Cardinality(fetching)
    BY DEF InOrder
  <2>0. /\ TypeC /\ Alone /\ RBufRead \in Nat /\ RBufWrite \in Nat
        /\ typed \in Seq(Keys) /\ RBufWrite = Len(typed) /\ taken \in Seq(Keys)
        /\ Len(taken) \in Nat
    BY <1>1, LenProperties DEF IInv, TypeC
  <2>1. /\ RBufRead = Len(taken) + Cardinality(fetching) /\ Len(taken) <= Len(typed)
        /\ \A i \in 1 .. Len(taken) : taken[i] = typed[i]
    <3>1. CASE users = {}
      <4>1. fetching = {}
        BY <2>0, <3>1 DEF TypeC
      <4>2. Cardinality(fetching) = 0
        BY <4>1, FS_EmptySet
      <4> QED BY <2>0, <3>1, <4>2 DEF TypeC
    <3>2. CASE users # {}
      <4> PICK r \in Readers : users \subseteq {r}
        BY <2>0, <3>2, OneUser
      <4>1. AloneOK(r)
        BY <2>0 DEF Alone
      <4>2. CASE pc[r] = "fetch"
        <5>1. fetching = {r}
          BY <2>0, <4>2 DEF TypeC
        <5>2. Cardinality(fetching) = 1
          BY <5>1, FS_Singleton
        <5> HIDE DEF fetching
        <5>3. loaded[r] \in Nat
          BY <2>0 DEF TypeC
        <5> QED BY <2>0, <4>1, <4>2, <5>2, <5>3 DEF AloneOK
      <4>3. CASE pc[r] # "fetch"
        <5>1. fetching = {}
          BY <2>0, <4>3 DEF TypeC
        <5>2. Cardinality(fetching) = 0
          BY <5>1, FS_EmptySet
        <5> HIDE DEF fetching
        <5> QED BY <2>0, <4>1, <4>3, <5>2 DEF AloneOK
      <4> QED BY <4>2, <4>3
    <3> QED BY <3>1, <3>2
  <2> DEFINE s == SubSeq(typed, 1, Len(taken))
  <2>2. \A i \in 1 .. Len(taken) : typed[i] \in Keys
    BY <2>0, <2>1, ElementOfSeq
  <2>3. s \in Seq(Keys) /\ Len(s) = Len(taken) /\ \A i \in 1 .. Len(taken) : s[i] = typed[i]
    BY <2>0, <2>2, SubSeqProperties
  <2> HIDE DEF s
  <2>4. taken = s
    BY <2>0, <2>1, <2>3, SeqEqual
  <2> QED BY <2>1, <2>4 DEF s
<1> QED BY Invariance, <1>1, PTL

-----------------------------------------------------------------------------
(* What Edited computes.  FoldLeft is a recursion over the subsets of the   *)
(* indices; g is a solution of its equation for the first n characters.     *)

IsFold(g, s, n) ==
  g = [S \in SUBSET (1 .. n) |->
         IF S = {} THEN <<>> ELSE Typing(g[S \ {Max(S)}], s[Max(S)])]

LEMMA EditedIsFold ==
  ASSUME NEW s, DOMAIN s = 1 .. Len(s)
  PROVE  Edited(s) = (CHOOSE g : IsFold(g, s, Len(s)))[1 .. Len(s)]
BY DEF Edited, FoldLeft, MapThenFoldSet, IsFold

\* Every set of natural numbers that is not empty has a least element.
LEMMA LeastNatural ==
  ASSUME NEW T \in SUBSET Nat, T # {}
  PROVE  \E x \in T : \A y \in T : x <= y
<1> DEFINE R == OpToRel(<, Nat)
<1>1. IsWellFoundedOn(R, Nat)
  BY NatLessThanWellFounded
<1>2. \A x, y \in Nat : x < y => <<x, y>> \in R
  BY DEF OpToRel
<1> HIDE DEF R
<1>3. PICK x \in T : \A y \in T : ~ (<<y, x>> \in R)
  BY <1>1, WFMin
<1>4. \A y \in T : ~ (y < x)
  BY <1>2, <1>3
<1> QED BY <1>4

\* The maximum of a set of indices.
LEMMA MaxIndex ==
  ASSUME NEW n \in Nat, NEW S \in SUBSET (1 .. n), S # {}
  PROVE  Max(S) \in S /\ \A y \in S : y <= Max(S)
<1> DEFINE T == {n - x : x \in S}
<1>0. \A x \in S : x \in Nat /\ x <= n /\ n - x \in Nat /\ n - x \in T
  OBVIOUS
<1>1. T \in SUBSET Nat /\ T # {}
  BY <1>0
<1>2. PICK m \in T : \A y \in T : m <= y
  BY <1>1, LeastNatural
<1>3. PICK x \in S : m = n - x
  BY <1>2
<1>4. \A y \in S : n - x <= n - y
  BY <1>0, <1>2, <1>3
<1>5. \A y \in S : x >= y
  BY <1>0, <1>4
<1> QED BY <1>3, <1>5 DEF Max

\* The equation has a solution ...
LEMMA FoldExists ==
  ASSUME NEW s, NEW N \in Nat
  PROVE  \E g : IsFold(g, s, N)
<1> DEFINE T == {n \in Nat : ~ \E g : IsFold(g, s, n)}
<1> SUFFICES ASSUME N \in T
             PROVE  FALSE
  OBVIOUS
<1>1. PICK m \in T : \A n \in T : m <= n
  BY LeastNatural
<1>2. m # 0
  <2> DEFINE g == [S \in SUBSET (1 .. 0) |-> <<>>]
  <2>1. IsFold(g, s, 0)
    BY DEF IsFold
  <2> QED BY <2>1
<1>3. m - 1 \in Nat /\ m - 1 \notin T
  BY <1>1, <1>2
<1>4. PICK g : IsFold(g, s, m - 1)
  BY <1>3
<1> DEFINE h == [S \in SUBSET (1 .. m) |->
                   IF m \in S THEN Typing(g[S \ {m}], s[m]) ELSE g[S]]
<1>5. ASSUME NEW S \in SUBSET (1 .. m)
      PROVE  h[S] = IF S = {} THEN <<>> ELSE Typing(h[S \ {Max(S)}], s[Max(S)])
  <2>1. CASE m \in S
    <3>1. Max(S) = m
      <4>1. m \in Nat /\ S # {} /\ \A y \in S : y \in Nat /\ y <= m
        BY <1>1, <2>1
      <4>2. PICK q \in S : q = Max(S) /\ m <= q
        BY <2>1, <4>1, MaxIndex
      <4>3. q \in Nat /\ q <= m
        BY <4>1
      <4> QED BY <4>1, <4>2, <4>3
    <3>2. S \ {m} \in SUBSET (1 .. m) /\ m \notin S \ {m}
      OBVIOUS
    <3> QED BY <2>1, <3>1, <3>2
  <2>2. CASE m \notin S
    <3>1. S \in SUBSET (1 .. m - 1)
      BY <1>1, <2>2
    <3>2. g[S] = IF S = {} THEN <<>> ELSE Typing(g[S \ {Max(S)}], s[Max(S)])
      BY <1>4, <3>1 DEF IsFold
    <3>3. S \ {Max(S)} \in SUBSET (1 .. m) /\ m \notin S \ {Max(S)}
      BY <2>2
    <3> QED BY <2>2, <3>2, <3>3
  <2> QED BY <2>1, <2>2
<1>6. IsFold(h, s, m)
  BY <1>5 DEF IsFold
<1> QED BY <1>1, <1>6

\* ... and on the characters two sequences share, only one.
Shared(s, r, n) == \A i \in 1 .. n : s[i] = r[i]

Unfolds(g, s, n) ==
  \A S \in SUBSET (1 .. n) :
    g[S] = IF S = {} THEN <<>> ELSE Typing(g[S \ {Max(S)}], s[Max(S)])

LEMMA FoldUnique ==
  ASSUME NEW s, NEW r, NEW n \in Nat, Shared(s, r, n),
         NEW g, NEW h, Unfolds(g, s, n), Unfolds(h, r, n)
  PROVE  g[1 .. n] = h[1 .. n]
<1> DEFINE T == {k \in 0 .. n : \E S \in SUBSET (1 .. k) : g[S] # h[S]}
<1> SUFFICES ASSUME T # {}
             PROVE  FALSE
  <2>1. n \in 0 .. n /\ 1 .. n \in SUBSET (1 .. n)
    OBVIOUS
  <2> QED BY <2>1
<1>0. T \in SUBSET Nat
  OBVIOUS
<1>1. PICK k \in T : \A j \in T : k <= j
  BY <1>0, LeastNatural
<1>2. PICK S \in SUBSET (1 .. k) : g[S] # h[S]
  BY <1>1
<1>3. S \in SUBSET (1 .. n) /\ k \in Nat
  BY <1>1
<1>4. /\ g[S] = IF S = {} THEN <<>> ELSE Typing(g[S \ {Max(S)}], s[Max(S)])
      /\ h[S] = IF S = {} THEN <<>> ELSE Typing(h[S \ {Max(S)}], r[Max(S)])
  BY <1>3 DEF Unfolds
<1>5. S # {}
  BY <1>2, <1>4
<1>6. PICK q \in S : q = Max(S) /\ \A y \in S : y <= q
  BY <1>3, <1>5, MaxIndex
<1>7. q \in 1 .. k /\ k <= n /\ \A y \in S : y \in Nat /\ y >= 1
  BY <1>1, <1>2
<1>8. q - 1 \in 0 .. n /\ q - 1 \notin T
  <2>1. q - 1 \in 0 .. n /\ ~ (k <= q - 1)
    BY <1>3, <1>7
  <2> HIDE DEF T
  <2> QED BY <1>1, <2>1
<1>9. S \ {q} \in SUBSET (1 .. q - 1)
  <2>1. ASSUME NEW y \in S, y # q
        PROVE  y \in 1 .. q - 1
    <3>1. y \in Nat /\ q \in Nat /\ y >= 1 /\ y <= q
      BY <1>6, <1>7
    <3> QED BY <2>1, <3>1
  <2> QED BY <2>1
<1>10. g[S \ {q}] = h[S \ {q}]
  BY <1>8, <1>9
<1>11. s[q] = r[q]
  BY <1>3 DEF Shared
<1> QED BY <1>2, <1>4, <1>6, <1>10, <1>11

\* An empty line.
LEMMA EditedEmpty == Edited(<<>>) = <<>>
<1>1. DOMAIN <<>> = 1 .. Len(<<>>) /\ Len(<<>>) = 0
  OBVIOUS
<1>2. PICK g : g = CHOOSE f : IsFold(f, <<>>, 0)
  OBVIOUS
<1>3. IsFold(g, <<>>, 0)
  BY <1>2, FoldExists
<1>4. g[1 .. 0] = <<>>
  <2>1. 1 .. 0 = {}
    OBVIOUS
  <2>2. g[{}] = <<>>
    BY <1>3 DEF IsFold
  <2> QED BY <2>1, <2>2
<1> QED BY <1>1, <1>2, <1>4, EditedIsFold

\* One more character.
LEMMA EditedAppend ==
  ASSUME NEW s \in Seq(Keys), NEW ch \in Keys
  PROVE  Edited(Append(s, ch)) = Typing(Edited(s), ch)
<1> DEFINE r == Append(s, ch)
           n == Len(s)
<1>1. /\ n \in Nat /\ DOMAIN s = 1 .. n /\ r \in Seq(Keys) /\ Len(r) = n + 1
      /\ DOMAIN r = 1 .. Len(r)
      /\ r[n + 1] = ch /\ \A i \in 1 .. n : s[i] = r[i]
  BY AppendProperties, LenProperties
<1> HIDE DEF r, n
<1>2. PICK g : g = CHOOSE f : IsFold(f, s, n)
  OBVIOUS
<1>3. PICK h : h = CHOOSE f : IsFold(f, r, n + 1)
  OBVIOUS
<1>4. IsFold(g, s, n) /\ IsFold(h, r, n + 1)
  <2>1. IsFold(g, s, n)
    BY <1>1, <1>2, FoldExists
  <2>2. IsFold(h, r, n + 1)
    BY <1>1, <1>3, FoldExists
  <2> QED BY <2>1, <2>2
<1>5. Edited(s) = g[1 .. n] /\ Edited(r) = h[1 .. n + 1]
  BY <1>1, <1>2, <1>3, EditedIsFold DEF n
<1>6. g[1 .. n] = h[1 .. n]
  <2>1. n \in Nat /\ Shared(s, r, n)
    BY <1>1 DEF Shared
  <2>2. \A S \in SUBSET (1 .. n) : S \in SUBSET (1 .. n + 1)
    BY <1>1
  <2>3. Unfolds(g, s, n)
    BY <1>4 DEF IsFold, Unfolds
  <2>4. Unfolds(h, r, n)
    <3> SUFFICES ASSUME NEW S \in SUBSET (1 .. n)
                 PROVE  h[S] = IF S = {} THEN <<>> ELSE Typing(h[S \ {Max(S)}], r[Max(S)])
      BY DEF Unfolds
    <3>1. S \in SUBSET (1 .. n + 1)
      BY <2>2
    <3> QED BY <1>4, <3>1 DEF IsFold
  <2> QED BY <2>1, <2>3, <2>4, FoldUnique
<1>7. Max(1 .. n + 1) = n + 1
  <2>1. 1 .. n + 1 \in SUBSET (1 .. n + 1) /\ n + 1 \in 1 .. n + 1
    BY <1>1
  <2>2. PICK I : I = 1 .. n + 1
    OBVIOUS
  <2>3. I \in SUBSET (1 .. n + 1) /\ I # {} /\ n + 1 \in I /\ n + 1 \in Nat
    <3>1. I \in SUBSET (1 .. n + 1) /\ n + 1 \in I
      BY ONLY <2>1, <2>2
    <3> QED BY <1>1, <3>1
  <2>4. PICK q \in I : q = Max(I) /\ n + 1 <= q
    BY <2>3, MaxIndex
  <2>5. q \in Nat /\ q <= n + 1
    BY <1>1, <2>2
  <2> QED BY <2>2, <2>3, <2>4, <2>5
<1>8. (1 .. n + 1) \ {n + 1} = 1 .. n /\ 1 .. n + 1 # {}
  <2>1. ASSUME NEW i
        PROVE  i \in (1 .. n + 1) \ {n + 1} <=> i \in 1 .. n
    BY ONLY <1>1
  <2>2. n + 1 \in 1 .. n + 1
    BY ONLY <1>1
  <2> QED BY ONLY <2>1, <2>2
<1>9. h[1 .. n + 1] = Typing(h[1 .. n], r[n + 1])
  <2>1. PICK I : I = 1 .. n + 1
    OBVIOUS
  <2>2. h[I] = Typing(h[I \ {Max(I)}], r[Max(I)])
    BY <1>4, <1>8, <2>1 DEF IsFold
  <2> QED BY <1>7, <1>8, <2>1, <2>2
<1> QED BY <1>1, <1>5, <1>6, <1>9 DEF r

-----------------------------------------------------------------------------
(* The caller's buffer *)

\* No line is longer than the model's buffer.
LineFits == \A r \in Readers : c[r] <= MaxLine

TypeE ==
  /\ c \in [Readers -> Nat]
  /\ cbuf \in [Readers -> [0 .. MaxLine -> Keys]]
  /\ fetched \in [Readers -> Seq(Keys)]

EInv == TypeE /\ LineIsEdited

\* The first n characters of a buffer.
Chars(b, n) == [i \in 1 .. n |-> b[i - 1]]

\* A prefix of the buffer is a sequence.
LEMMA BufferedSeq ==
  ASSUME NEW b \in [0 .. MaxLine -> Keys], NEW n \in Nat, n <= MaxLine + 1
  PROVE  /\ Chars(b, n) \in Seq(Keys)
         /\ Len(Chars(b, n)) = n
<1>1. Chars(b, n) \in [1 .. n -> Keys]
  BY ConsoleAssumption DEF Chars
<1> QED BY <1>1

\* A character is put at the end of the line.
LEMMA BufferedAppend ==
  ASSUME NEW b \in [0 .. MaxLine -> Keys], NEW n \in 0 .. MaxLine, NEW ch \in Keys
  PROVE  Chars([b EXCEPT ![n] = ch], n + 1)
           = Append(Chars(b, n), ch)
<1> DEFINE d == [b EXCEPT ![n] = ch]
           s == Chars(b, n)
           r == Chars(d, n + 1)
<1>0. MaxLine \in Nat /\ n \in Nat /\ n + 1 \in Nat /\ n <= MaxLine /\ n + 1 <= MaxLine + 1
  BY ConsoleAssumption
<1>1. /\ d \in [0 .. MaxLine -> Keys]
      /\ \A i \in 0 .. MaxLine : d[i] = IF i = n THEN ch ELSE b[i]
  OBVIOUS
<1>2. s \in Seq(Keys) /\ Len(s) = n /\ \A i \in 1 .. n : s[i] = b[i - 1]
  BY <1>0, BufferedSeq DEF Chars
<1>3. r \in Seq(Keys) /\ Len(r) = n + 1
  <2> HIDE DEF d
  <2> QED BY <1>0, <1>1, BufferedSeq
<1>4. \A i \in 1 .. n + 1 : r[i] = IF i = n + 1 THEN ch ELSE b[i - 1]
  <2> HIDE DEF d
  <2> QED BY <1>0, <1>1 DEF Chars
<1> HIDE DEF r, s
<1>5. /\ Append(s, ch) \in Seq(Keys) /\ Len(Append(s, ch)) = n + 1
      /\ \A i \in 1 .. n : Append(s, ch)[i] = s[i]
      /\ Append(s, ch)[n + 1] = ch
  BY <1>2, AppendProperties
<1>6. \A i \in 1 .. n + 1 : r[i] = Append(s, ch)[i]
  BY <1>0, <1>2, <1>4, <1>5
<1>7. r = Append(s, ch)
  BY <1>3, <1>5, <1>6, SeqEqual
<1> QED BY <1>7 DEF r, s

\* The last character of the line is given up, whatever its place holds then.
LEMMA BufferedFront ==
  ASSUME NEW b \in [0 .. MaxLine -> Keys], NEW n \in 1 .. MaxLine, NEW ch \in Keys,
         NEW d, d = [b EXCEPT ![n] = ch]
  PROVE  /\ Chars(d, n - 1) = Front(Chars(b, n))
         /\ Chars(b, n) # <<>>
<1> DEFINE s == Chars(b, n)
           r == Chars(d, n - 1)
<1>0. MaxLine \in Nat /\ n \in Nat /\ n - 1 \in Nat /\ n <= MaxLine /\ n - 1 <= MaxLine + 1
  BY ConsoleAssumption
<1>1. /\ d \in [0 .. MaxLine -> Keys]
      /\ \A i \in 0 .. MaxLine : d[i] = IF i = n THEN ch ELSE b[i]
  OBVIOUS
<1>2. s \in Seq(Keys) /\ Len(s) = n /\ \A i \in 1 .. n : s[i] = b[i - 1]
  BY <1>0, BufferedSeq DEF Chars
<1>3. r \in Seq(Keys) /\ Len(r) = n - 1
  BY <1>0, <1>1, BufferedSeq
<1>4. \A i \in 1 .. n - 1 : r[i] = b[i - 1]
  BY <1>0, <1>1 DEF Chars
<1> HIDE DEF r, s
<1>5. \A i \in 1 .. n - 1 : s[i] \in Keys
  BY <1>0, <1>2, ElementOfSeq
<1>6. /\ Front(s) \in Seq(Keys) /\ Len(Front(s)) = n - 1
      /\ \A i \in 1 .. n - 1 : Front(s)[i] = s[i]
  BY <1>0, <1>2, <1>5, SubSeqProperties DEF Front
<1>7. r = Front(s)
  <2>1. \A i \in 1 .. n - 1 : r[i] = Front(s)[i]
    BY <1>0, <1>2, <1>4, <1>6
  <2> QED BY <1>3, <1>6, <2>1, SeqEqual
<1>8. s # <<>>
  BY <1>0, <1>2
<1> QED BY <1>7, <1>8 DEF r, s

\* The line of one reader.
LineOK(r) ==
  Buffered(r, IF pc[r] = "idle" /\ fetched[r] # <<>> THEN c[r] + 1 ELSE c[r])
    = Edited(fetched[r])

LEMMA InitEInv == Init => EInv
<1> SUFFICES ASSUME Init
             PROVE  EInv
  OBVIOUS
<1>1. TypeE
  BY ConsoleAssumption DEF Init, TypeE
<1>2. ASSUME NEW r \in Readers
      PROVE  LineOK(r)
  <2>1. c[r] = 0 /\ fetched[r] = <<>>
    BY DEF Init
  <2>2. Buffered(r, 0) = <<>>
    BY DEF Buffered
  <2> QED BY <2>1, <2>2, EditedEmpty DEF LineOK
<1> QED BY <1>1, <1>2 DEF EInv, LineIsEdited, LineOK

\* A read begins with an empty line.
LEMMA ReadEInv ==
  ASSUME IInv, EInv, NEW x \in Readers, console_read(x)
  PROVE  EInv'
<1>1. /\ c' = [c EXCEPT ![x] = 0] /\ fetched' = [fetched EXCEPT ![x] = <<>>]
      /\ cbuf' = cbuf /\ pc' = [pc EXCEPT ![x] = "test"]
  BY DEF console_read
<1>2. /\ c \in [Readers -> Nat] /\ fetched \in [Readers -> Seq(Keys)]
      /\ pc \in [Readers -> {"idle", "test", "load", "store", "fetch"}]
  BY DEF EInv, TypeE, IInv, TypeC
<1>3. TypeE'
  BY <1>1 DEF EInv, TypeE
<1>4. ASSUME NEW r \in Readers
      PROVE  LineOK(r)'
  <2>1. CASE r = x
    <3>1. c'[r] = 0 /\ fetched'[r] = <<>>
      BY <1>1, <1>2, <2>1
    <3>2. Buffered(r, 0)' = <<>>
      BY DEF Buffered
    <3> QED BY <3>1, <3>2, EditedEmpty DEF LineOK, Buffered
  <2>2. CASE r # x
    <3>1. c'[r] = c[r] /\ fetched'[r] = fetched[r] /\ pc'[r] = pc[r] /\ cbuf'[r] = cbuf[r]
      BY <1>1, <1>2, <2>2
    <3>2. LineOK(r)
      BY DEF EInv, LineIsEdited, LineOK
    <3> QED BY <3>1, <3>2 DEF LineOK, Buffered
  <2> QED BY <2>1, <2>2
<1> QED BY <1>3, <1>4 DEF EInv, LineIsEdited, LineOK

\* The editing of one character, in place.
LEMMA FetchEInv ==
  ASSUME IInv, EInv, LineFits, NEW x \in Readers, Fetch(x)
  PROVE  EInv'
<1> DEFINE ch == ConsoleReadBuf[loaded[x] % CONS_RBUF_LEN]
           b == cbuf[x]
           n == c[x]
<1>1. /\ edit(x, ch) /\ fetched' = [fetched EXCEPT ![x] = Append(@, ch)] /\ pc[x] = "fetch"
  BY DEF Fetch
<1>2. /\ c \in [Readers -> Nat] /\ fetched \in [Readers -> Seq(Keys)]
      /\ cbuf \in [Readers -> [0 .. MaxLine -> Keys]]
      /\ pc \in [Readers -> {"idle", "test", "load", "store", "fetch"}]
  BY DEF EInv, TypeE, IInv, TypeC
<1>3. ch \in Keys
  <2>1. loaded[x] \in Nat /\ CONS_RBUF_LEN \in Nat \ {0}
    BY ConsoleAssumption DEF IInv, TypeC
  <2>2. loaded[x] % CONS_RBUF_LEN \in 0 .. CONS_RBUF_LEN - 1
    BY <2>1, SlotInRing
  <2> QED BY <2>2 DEF IInv, TypeC
<1>4. n \in Nat /\ n <= MaxLine /\ n \in 0 .. MaxLine /\ b \in [0 .. MaxLine -> Keys] /\ MaxLine \in Nat
  BY <1>2, ConsoleAssumption DEF LineFits
<1>5. Buffered(x, n) = Edited(fetched[x]) /\ fetched[x] \in Seq(Keys)
  BY <1>1, <1>2 DEF EInv, LineIsEdited
<1>6. Chars(b, n) = Edited(fetched[x])
  BY <1>5 DEF Buffered, Chars
<1> DEFINE f == Append(fetched[x], ch)
<1>7. Edited(f) = Typing(Edited(fetched[x]), ch) /\ f # <<>> /\ f \in Seq(Keys)
  BY <1>3, <1>5, EditedAppend, AppendProperties
<1>8. fetched' \in [Readers -> Seq(Keys)] /\ fetched'[x] = f
      /\ \A r \in Readers : r # x => fetched'[r] = fetched[r]
  BY <1>1, <1>2, <1>7
<1>9. NUL \in Keys /\ BACKSPACE \in Keys
  BY ConsoleAssumption
<1> DEFINE put == IF ch = BACKSPACE /\ n > 0 THEN NUL ELSE ch
           d == [b EXCEPT ![n] = put]
           m == IF ch = BACKSPACE THEN (IF n > 0 THEN n - 1 ELSE n)
                ELSE IF ch \in {NEWLINE, NUL} THEN n ELSE n + 1
           p == IF ch \in {NEWLINE, NUL} THEN "idle" ELSE "test"
<1>10. ch \in {NEWLINE, NUL} => ch # BACKSPACE
  BY DEF NEWLINE, NUL, BACKSPACE
<1> HIDE DEF ch
<1>11. cbuf' = [cbuf EXCEPT ![x] = d] /\ c' = [c EXCEPT ![x] = m] /\ pc' = [pc EXCEPT ![x] = p]
  <2>1. CASE ch = BACKSPACE
    <3>1. cbuf' = [cbuf EXCEPT ![x] = d]
      BY <1>1, <1>2, <2>1 DEF edit
    <3>2. c' = [c EXCEPT ![x] = m]
      BY <1>1, <1>2, <2>1 DEF edit
    <3>3. pc' = [pc EXCEPT ![x] = p]
      BY <1>1, <1>10, <2>1 DEF edit
    <3> QED BY <3>1, <3>2, <3>3
  <2>2. CASE ch # BACKSPACE
    <3>1. cbuf' = [cbuf EXCEPT ![x] = d]
      BY <1>1, <1>2, <2>2 DEF edit
    <3>2. c' = [c EXCEPT ![x] = m]
      BY <1>1, <1>2, <2>2 DEF edit
    <3>3. pc' = [pc EXCEPT ![x] = p]
      BY <1>1, <2>2 DEF edit
    <3> QED BY <3>1, <3>2, <3>3
  <2> QED BY <2>1, <2>2
<1>12. put \in Keys /\ m \in Nat
  BY <1>3, <1>4, <1>9
<1>13. d \in [0 .. MaxLine -> Keys]
  <2> HIDE DEF put
  <2> QED BY <1>4, <1>12
<1>14. Chars(d, IF p = "idle" THEN m + 1 ELSE m) = Edited(f)
  <2>1. CASE ch # BACKSPACE
    <3>1. Chars(d, n + 1) = Append(Chars(b, n), ch)
      BY <1>3, <1>4, <2>1, BufferedAppend
    <3>2. (IF p = "idle" THEN m + 1 ELSE m) = n + 1
      BY <2>1
    <3>3. Edited(f) = Append(Edited(fetched[x]), ch)
      BY <1>7, <2>1 DEF Typing
    <3> HIDE DEF d, p, m, f
    <3> QED BY <1>6, <3>1, <3>2, <3>3
  <2>2. CASE ch = BACKSPACE /\ n > 0
    <3>0. n \in 1 .. MaxLine
      BY <1>4, <2>2
    <3>1. /\ Chars(d, n - 1) = Front(Chars(b, n))
          /\ Chars(b, n) # <<>>
      <4>1. d = [b EXCEPT ![n] = NUL]
        BY <2>2
      <4> HIDE DEF d, n, b
      <4> QED BY <1>4, <1>9, <3>0, <4>1, BufferedFront
    <3>2. (IF p = "idle" THEN m + 1 ELSE m) = n - 1
      BY <1>10, <2>2
    <3>3. Edited(f) = Front(Edited(fetched[x]))
      BY <1>6, <1>7, <2>2, <3>1 DEF Typing
    <3> HIDE DEF d, p, m, f
    <3> QED BY <1>6, <3>1, <3>2, <3>3
  <2>3. CASE ch = BACKSPACE /\ ~(n > 0)
    <3>0. n = 0
      BY <1>4, <2>3
    <3>1. Chars(d, 0) = <<>> /\ Chars(b, n) = <<>>
      BY <3>0 DEF Chars
    <3>2. (IF p = "idle" THEN m + 1 ELSE m) = 0
      BY <1>10, <2>3, <3>0
    <3>3. Edited(f) = <<>>
      BY <1>6, <1>7, <2>3, <3>1 DEF Typing
    <3> HIDE DEF d, p, m, f
    <3> QED BY <3>1, <3>2, <3>3
  <2> QED BY <2>1, <2>2, <2>3
<1> HIDE DEF d, p, m, f, b, n, put
<1>15. TypeE'
  BY <1>2, <1>8, <1>11, <1>12, <1>13 DEF TypeE
<1>16. ASSUME NEW r \in Readers
       PROVE  LineOK(r)'
  <2>1. CASE r = x
    <3>1. c'[r] = m /\ fetched'[r] = f /\ pc'[r] = p /\ cbuf'[r] = d
      BY <1>2, <1>8, <1>11, <2>1
    <3> QED BY <1>7, <1>14, <3>1 DEF LineOK, Buffered, Chars
  <2>2. CASE r # x
    <3>1. c'[r] = c[r] /\ fetched'[r] = fetched[r] /\ pc'[r] = pc[r] /\ cbuf'[r] = cbuf[r]
      BY <1>2, <1>8, <1>11, <2>2
    <3>2. LineOK(r)
      BY DEF EInv, LineIsEdited, LineOK
    <3> QED BY <3>1, <3>2 DEF LineOK, Buffered
  <2> QED BY <2>1, <2>2
<1> QED BY <1>15, <1>16 DEF EInv, LineIsEdited, LineOK

\* The other steps leave the lines alone.
LEMMA QuietEInv ==
  ASSUME IInv, EInv, UNCHANGED <<c, cbuf, fetched>>,
         \A r \in Readers : pc'[r] = "idle" <=> pc[r] = "idle"
  PROVE  EInv'
BY DEF EInv, TypeE, LineIsEdited, Buffered

\* Every step keeps the lines edited.
LEMMA StepEInv == IInv /\ EInv /\ LineFits /\ [Next]_vars => EInv'
<1> SUFFICES ASSUME IInv, EInv, LineFits, [Next]_vars
             PROVE  EInv'
  OBVIOUS
<1>0. pc \in [Readers -> {"idle", "test", "load", "store", "fetch"}]
  BY DEF IInv, TypeC
<1>1. CASE \E key \in Keys : kbd_intr(key)
  BY <1>1, QuietEInv DEF kbd_intr
<1>2. CASE \E r \in Readers : console_read(r)
  BY <1>2, ReadEInv
<1>3. CASE \E r \in Readers : Test(r)
  BY <1>0, <1>3, QuietEInv DEF Test
<1>4. CASE \E r \in Readers : Load(r)
  BY <1>0, <1>4, QuietEInv DEF Load
<1>5. CASE \E r \in Readers : Store(r)
  BY <1>0, <1>5, QuietEInv DEF Store
<1>6. CASE \E r \in Readers : Fetch(r)
  BY <1>6, FetchEInv
<1>7. CASE UNCHANGED vars
  BY <1>7, QuietEInv DEF vars
<1> QED BY <1>1, <1>2, <1>3, <1>4, <1>5, <1>6, <1>7 DEF Next

\* As long as no line is longer than its caller's buffer, the buffer of every
\* reader holds the line as it was typed and edited, however readers race.
THEOREM LinesAreEdited == Spec /\ []LineFits => []LineIsEdited
<1>1. EInv => LineIsEdited
  BY DEF EInv
<1>2. Spec /\ []LineFits => []EInv
  BY InitEInv, StepEInv, Invariance, PTL DEF Spec
<1> QED BY <1>1, <1>2, PTL
=============================================================================
