---------------------------- MODULE FramesProofs ----------------------------
(***************************************************************************)
(* Theorems about Frames for every word size, memory size and boot loader. *)
(* What they rest on: a frame that was handed out keeps its bit, so the    *)
(* search cannot find it again, and after boot the bits that are set are   *)
(* accounted for.                                                          *)
(***************************************************************************)
EXTENDS Frames, TLAPS

IsAvailable(f) == \E r \in boot.available : r[1] <= f /\ f < r[2]
IsInitrd(f) == boot.initrd[1] <= f /\ f <= boot.initrd[2]

\* Nothing is handed out before boot is over; what is handed out has its bit set.
GivenIsSet ==
  /\ pc \notin {"up", "panic"} => \A f \in Frame : given[f] = 0
  /\ \A f \in InBitmap : given[f] > 0 => f \in FrameBitmap /\ given[f] = 1

\* Once arch_init is through, the kernel's frames have their bits set.
KernelIsSet == pc \in {"up", "panic"} =>
  /\ \A f \in InBitmap : f <= boot.kernel_end => given[f] = 0
  /\ pc = "up" => \A f \in InBitmap : f <= boot.kernel_end => f \in FrameBitmap

\* The memory map has been applied: nothing but the initrd, the kernel and what
\* was handed out keeps an available page's bit set.
Accounted ==
  /\ (pc = "arch_init" \/ (pc = "module" /\ boot.tags[2] = "module")) =>
       \A f \in FrameBitmap : IsAvailable(f) => IsInitrd(f)
  /\ pc \in {"up", "panic"} =>
       \A f \in FrameBitmap : IsAvailable(f) =>
         IsInitrd(f) \/ f <= boot.kernel_end \/ given[f] = 1
  /\ pc = "early" => FrameBitmap = {}
  /\ pc = "panic" => FrameBitmap = {} \/ InBitmap \subseteq FrameBitmap

IInv == TypeOK /\ GivenIsSet /\ KernelIsSet /\ Accounted

-----------------------------------------------------------------------------

\* Frames of the bitmap are frames, and all are natural numbers.
LEMMA FrameFacts ==
  /\ Room \in Nat /\ InBitmap \subseteq Frame
  /\ \A f \in Frame : f \in Nat
  /\ \A f \in InBitmap : f \in Nat
  /\ \A b \in BootInfos :
       /\ b.kernel_end \in Nat /\ b.initrd[1] \in Nat /\ b.initrd[2] \in Nat
       /\ b.tags[1] \in {"mmap", "module"} /\ b.tags[2] \in {"mmap", "module"}
       /\ b.tags[1] # b.tags[2]
       /\ \A r \in b.available \union b.after_mmap : r[1] \in Nat /\ r[2] \in Nat
<1>1. FrameCount \div BITS_PER_ENTRY \in Nat
  BY FramesAssumption
<1>2. (FrameCount \div BITS_PER_ENTRY) <= FrameCount
  BY FramesAssumption
<1>3. Room \in Nat /\ Room <= FrameCount * BITS_PER_ENTRY
  BY <1>1, <1>2, FramesAssumption DEF Room
<1>4. FrameCount * BITS_PER_ENTRY \in Nat
  BY FramesAssumption
<1>5. InBitmap \subseteq Frame /\ \A f \in Frame : f \in Nat
  BY <1>3, <1>4 DEF InBitmap, Frame
<1>6. ASSUME NEW b \in BootInfos
      PROVE  /\ b.kernel_end \in Nat /\ b.initrd[1] \in Nat /\ b.initrd[2] \in Nat
             /\ b.tags[1] \in {"mmap", "module"} /\ b.tags[2] \in {"mmap", "module"}
             /\ b.tags[1] # b.tags[2]
             /\ \A r \in b.available \union b.after_mmap : r[1] \in Nat /\ r[2] \in Nat
  BY FramesAssumption
<1> QED BY <1>3, <1>5, <1>6

\* At power on nothing has been handed out.
LEMMA InitIInv == Init => IInv
BY FrameFacts, FramesAssumption
   DEF Init, IInv, TypeOK, GivenIsSet, KernelIsSet, Accounted

\* Every step keeps the invariant.
LEMMA StepIInv ==
  ASSUME IInv, [Next]_vars
  PROVE  IInv'
<1> USE FrameFacts
<1>0. TypeOK /\ GivenIsSet /\ KernelIsSet /\ Accounted
  BY DEF IInv
<1>1. CASE EarlyAlloc
  <2>1. TypeOK'
    BY <1>0, <1>1, FramesAssumption DEF EarlyAlloc, TypeOK
  <2>2. (GivenIsSet /\ KernelIsSet /\ Accounted)'
    BY <1>0, <1>1 DEF EarlyAlloc, TypeOK, GivenIsSet, KernelIsSet, Accounted
  <2> QED BY <2>1, <2>2 DEF IInv
<1>2. CASE frame_alloc_init
  BY <1>0, <1>2 DEF frame_alloc_init, IInv, TypeOK, GivenIsSet, KernelIsSet,
     Accounted
<1>3. CASE mmap_tag
  BY <1>0, <1>3 DEF mmap_tag, frame_clear, NextTag, IInv, TypeOK, GivenIsSet,
     KernelIsSet, Accounted, range, IsAvailable
<1>4. CASE module_tag
  BY <1>0, <1>4 DEF module_tag, frame_set, NextTag, range, IInv, TypeOK,
     GivenIsSet, KernelIsSet, Accounted, IsInitrd, IsAvailable
<1>5. CASE arch_init
  BY <1>0, <1>5 DEF arch_init, frame_set, range, IInv, TypeOK, GivenIsSet,
     KernelIsSet, Accounted, IsInitrd, IsAvailable
<1>6. CASE frame_alloc
  BY <1>0, <1>6 DEF frame_alloc, FirstFree, frame_set, IInv, TypeOK,
     GivenIsSet, KernelIsSet, Accounted, IsInitrd, IsAvailable
<1>7. CASE frame_alloc_beyond
  BY <1>0, <1>7 DEF frame_alloc_beyond, frame_set, IInv, TypeOK, GivenIsSet,
     KernelIsSet, Accounted, IsInitrd, IsAvailable
<1>8. CASE out_of_memory
  BY <1>0, <1>8 DEF out_of_memory, BitmapFull, IInv, TypeOK, GivenIsSet,
     KernelIsSet, Accounted, IsInitrd, IsAvailable
<1>9. CASE UNCHANGED vars
  BY <1>0, <1>9 DEF vars, IInv, TypeOK, GivenIsSet, KernelIsSet, Accounted,
     IsInitrd, IsAvailable
<1> QED BY <1>1, <1>2, <1>3, <1>4, <1>5, <1>6, <1>7, <1>8, <1>9 DEF Next

\* The invariant holds in every reachable state.
THEOREM Invariance == Spec => []IInv
BY InitIInv, StepIInv, PTL DEF Spec

\* No frame the bitmap describes is ever handed out twice.
THEOREM AllocIsExclusive == Spec => []NoDoubleAlloc
<1>1. IInv => NoDoubleAlloc
  BY FrameFacts DEF IInv, TypeOK, GivenIsSet, NoDoubleAlloc
<1> QED BY <1>1, Invariance, PTL

\* The kernel's own frames are never handed out, whatever the boot loader says.
THEOREM KernelIsKept == Spec => []KernelKept
<1>1. IInv => KernelKept
  BY FrameFacts DEF IInv, TypeOK, GivenIsSet, KernelIsSet, KernelKept
<1> QED BY <1>1, Invariance, PTL

\* The allocator panics only when every available page is accounted for.
THEOREM PanicOnlyWhenFull == Spec => []NoFrameWasted
<1>1. IInv => NoFrameWasted
  BY FrameFacts DEF IInv, TypeOK, Accounted, IsAvailable, IsInitrd,
     NoFrameWasted
<1> QED BY <1>1, Invariance, PTL

-----------------------------------------------------------------------------

\* Rounding down to a multiple of b loses less than b.
LEMMA DivRounds ==
  ASSUME NEW a \in Nat, NEW b \in Nat, b > 0
  PROVE  a < (a \div b) * b + b
BY SMTT(30)

\* A frame of memory without a bit, and the page at the end of memory, are in the
\* word behind the bitmap.
LEMMA OneWordBehind ==
  /\ Room \in Nat /\ FrameCount < Room + BITS_PER_ENTRY
  /\ \A f \in Nat \ InBitmap : f <= FrameCount => f \in Room .. Room + BITS_PER_ENTRY - 1
<1>2. FrameCount < Room + BITS_PER_ENTRY
  BY DivRounds, FramesAssumption DEF Room
<1> QED BY <1>2, FrameFacts, FramesAssumption DEF InBitmap

InMemoryAll ==
  /\ \A r \in boot.available \union boot.after_mmap \union {boot.initrd} : InMemory(r)
  /\ boot.kernel_end <= FrameCount

\* Setting or clearing the bits of ranges that lie in memory spills one word.
LEMMA SpillStep ==
  ASSUME IInv, SpillIsOneWord, [Next]_vars
  PROVE  SpillIsOneWord'
<1> DEFINE word == Room .. Room + BITS_PER_ENTRY - 1
<1>0. boot \in BootInfos /\ TypeOK
  BY DEF IInv, TypeOK
<1>1. CASE UNCHANGED <<boot, given, spilled>>
  BY <1>1 DEF SpillIsOneWord, InMemory
<1>2. ASSUME NEW S \in SUBSET Nat, spilled' = spilled \union (S \ InBitmap),
             InMemoryAll => \A f \in S : f <= FrameCount, UNCHANGED <<boot, given>>
      PROVE  SpillIsOneWord'
  BY <1>2, OneWordBehind DEF SpillIsOneWord, InMemoryAll, InMemory
<1>3. CASE mmap_tag
  <2> DEFINE S == UNION {range(r[1], r[2]) : r \in boot.available \union boot.after_mmap}
  <2>1. S \in SUBSET Nat
    BY <1>0, FrameFacts DEF range
  <2>2. InMemoryAll => \A f \in S : f <= FrameCount
    BY <1>0, FrameFacts, FramesAssumption DEF InMemoryAll, InMemory, range
  <2>3. spilled' = spilled \union (S \ InBitmap) /\ UNCHANGED <<boot, given>>
    BY <1>3 DEF mmap_tag, frame_clear
  <2> HIDE DEF S
  <2> QED BY <1>2, <2>1, <2>2, <2>3
<1>4. CASE module_tag
  <2> DEFINE S == range(boot.initrd[1], boot.initrd[2])
  <2>1. S \in SUBSET Nat /\ (InMemoryAll => \A f \in S : f <= FrameCount)
    BY <1>0, FrameFacts, FramesAssumption DEF InMemoryAll, InMemory, range
  <2>2. spilled' = spilled \union (S \ InBitmap) /\ UNCHANGED <<boot, given>>
    BY <1>4 DEF module_tag, frame_set
  <2> HIDE DEF S
  <2> QED BY <1>2, <2>1, <2>2
<1>5. CASE arch_init
  <2> DEFINE S == range(0, boot.kernel_end)
  <2>1. S \in SUBSET Nat /\ (InMemoryAll => \A f \in S : f <= FrameCount)
    BY <1>0, FrameFacts, FramesAssumption DEF InMemoryAll, InMemory, range
  <2>2. spilled' = spilled \union (S \ InBitmap) /\ UNCHANGED <<boot, given>>
    BY <1>5 DEF arch_init, frame_set
  <2> HIDE DEF S
  <2> QED BY <1>2, <2>1, <2>2
<1>6. CASE frame_alloc
  BY <1>0, <1>6, FrameFacts DEF frame_alloc, frame_set, SpillIsOneWord, InMemory, TypeOK
<1>7. CASE frame_alloc_beyond
  BY <1>0, <1>7, FrameFacts DEF frame_alloc_beyond, SpillIsOneWord, TypeOK
<1>8. CASE EarlyAlloc \/ frame_alloc_init \/ out_of_memory \/ UNCHANGED vars
  BY <1>1, <1>8 DEF EarlyAlloc, frame_alloc_init, out_of_memory, vars
<1> QED BY <1>3, <1>4, <1>5, <1>6, <1>7, <1>8 DEF Next

\* For every word and memory size, boot loader and sequence of allocations, what
\* lies more than one word behind the bitmap is not changed before it is exhausted.
THEOREM SpillIsBounded == Spec => []SpillIsOneWord
<1>1. Init => SpillIsOneWord
  BY DEF Init, SpillIsOneWord
<1> QED BY <1>1, Invariance, SpillStep, PTL DEF Spec

-----------------------------------------------------------------------------

\* The fields of the boot record, the counters and the bitmap keep their types:
\* in particular the early allocations of frame_alloc never exceed the
\* preallocated pages.
THEOREM TypeCorrect == Spec => []TypeOK
<1>1. IInv => TypeOK
  BY DEF IInv
<1> QED BY <1>1, Invariance, PTL

\* Once the module tag has been handled behind the memory map, the bits of the
\* initrd stay set, so its frames are not found by the search.
InitrdIsSet == boot.tags[1] = "mmap" =>
  \A f \in InBitmap : IsInitrd(f) =>
    /\ given[f] = 0
    /\ pc \in {"arch_init", "up"} => f \in FrameBitmap

\* No step clears a bit of the initrd once multiboot_mmap is through.
LEMMA InitrdStep ==
  ASSUME IInv, InitrdIsSet, [Next]_vars
  PROVE  InitrdIsSet'
<1> USE FrameFacts
<1>0. TypeOK /\ GivenIsSet
  BY DEF IInv
<1>1. CASE EarlyAlloc \/ out_of_memory \/ UNCHANGED vars
  BY <1>0, <1>1 DEF EarlyAlloc, out_of_memory, vars, TypeOK, InitrdIsSet, IsInitrd
<1>2. CASE frame_alloc_init
  BY <1>0, <1>2 DEF frame_alloc_init, TypeOK, InitrdIsSet, IsInitrd
<1>3. CASE mmap_tag
  BY <1>0, <1>3 DEF mmap_tag, frame_clear, NextTag, TypeOK, InitrdIsSet, IsInitrd
<1>4. CASE module_tag
  BY <1>0, <1>4 DEF module_tag, frame_set, range, NextTag, TypeOK, InitrdIsSet, IsInitrd
<1>5. CASE arch_init
  BY <1>0, <1>5 DEF arch_init, frame_set, TypeOK, InitrdIsSet, IsInitrd
<1>6. CASE frame_alloc
  BY <1>0, <1>6 DEF frame_alloc, FirstFree, frame_set, TypeOK, InitrdIsSet, IsInitrd
<1>7. CASE frame_alloc_beyond
  BY <1>0, <1>7 DEF frame_alloc_beyond, frame_set, TypeOK, InitrdIsSet, IsInitrd
<1> QED BY <1>1, <1>2, <1>3, <1>4, <1>5, <1>6, <1>7 DEF Next

\* With a boot loader that passes the memory map before the module, no page of
\* the initrd is handed out, whatever the map says about those pages.
THEOREM InitrdIsKept == Spec => []InitrdKeptAfterMmap
<1>1. Init => InitrdIsSet
  BY FrameFacts DEF Init, InitrdIsSet
<1>2. IInv /\ InitrdIsSet => InitrdKeptAfterMmap
  BY FrameFacts DEF IInv, TypeOK, InitrdIsSet, IsInitrd, InitrdKeptAfterMmap
<1> QED BY <1>1, <1>2, Invariance, InitrdStep, PTL DEF Spec
=============================================================================
