------------------------------- MODULE Frames -------------------------------
(***************************************************************************)
(* The physical frame allocator of ak (arch/x86/mem/framealloc.c) and the  *)
(* boot code that fills it from the multiboot tags (multibootimpl.c,       *)
(* arch_init).  Addresses are counted in pages.  FrameBitmap is the set of *)
(* frames whose bit is set; it has room for Room frames, since             *)
(* frame_alloc_init rounds FrameCount down to whole words.  Everything     *)
(* here runs before interrupts are enabled or inside a system call, so     *)
(* each operation is one action.                                           *)
(***************************************************************************)
EXTENDS Integers

CONSTANTS
  BITS_PER_ENTRY,     \* bits of a bitmap word, 32 in the code
  FrameCount,         \* frames below mem_max
  PreallocMaxCount,   \* 8 in the code
  BootInfos           \* what a boot loader may pass: records with
                      \*   available   the memory map, a set of <<addr, addr + len>>
                      \*   after_mmap  at most one range: the bytes after the
                      \*               map, if they read as an available entry
                      \*   initrd      <<mod_start, mod_end>>
                      \*   tags        the order of the mmap and the module tag
                      \*   kernel_end  KBSSTOPHYS(brk) once the tags are mapped

ASSUME FramesAssumption ==
  /\ BITS_PER_ENTRY \in Nat \ {0} /\ FrameCount \in Nat
  /\ PreallocMaxCount \in Nat
  /\ BootInfos \subseteq [available: SUBSET (Nat \X Nat), after_mmap: SUBSET (Nat \X Nat),
                          initrd: Nat \X Nat,
                          tags: {<<"mmap", "module">>, <<"module", "mmap">>},
                          kernel_end: Nat]

VARIABLES
  pc,             \* "early", the tag being handled, "arch_init", "up", "panic"
  boot,           \* what the boot loader passed
  PreallocCount,
  FrameBitmap,
  given,          \* how often each frame was handed out (history)
  spilled         \* frames without a bit that were set or cleared (history)

vars == <<pc, boot, PreallocCount, FrameBitmap, given, spilled>>

Room == (FrameCount \div BITS_PER_ENTRY) * BITS_PER_ENTRY
InBitmap == 0 .. Room - 1

\* What a walk that takes word indices up to FrameCount can return.
Frame == 0 .. FrameCount * BITS_PER_ENTRY - 1

Init ==
  /\ pc = "early" /\ boot \in BootInfos
  /\ PreallocCount = 0
  /\ FrameBitmap = {}
  /\ given = [f \in Frame |-> 0]
  /\ spilled = {}

\* Mutants: the end of the range is rounded up to a page again; it is exclusive, so the last page is missed.
range_RoundUp(begin, end) == begin .. end + 1
range_Exclusive(begin, end) == begin .. end - 1

\* The loops of frame_clear_range and frame_set_range run while i < end + 1 page.
range(begin, end) == begin .. end

\* frame_clear / frame_set on every page of a set of frames.  A page without a
\* bit in the bitmap (see range) changes memory after it.
frame_clear(frames) ==
  /\ FrameBitmap' = FrameBitmap \ frames
  /\ spilled' = spilled \union (frames \ InBitmap)
frame_set(frames) ==
  /\ FrameBitmap' = FrameBitmap \union (frames \intersect InBitmap)
  /\ spilled' = spilled \union (frames \ InBitmap)

\* Mutant: one allocation too many.
EarlyAlloc_OffByOne ==
  /\ pc = "early"
  /\ IF PreallocCount > PreallocMaxCount
     THEN pc' = "panic" /\ UNCHANGED PreallocCount
     ELSE PreallocCount' = PreallocCount + 1 /\ UNCHANGED pc
  /\ UNCHANGED <<boot, FrameBitmap, given, spilled>>

\* frame_alloc before frame_alloc_init: a page of the kernel's own bss.
EarlyAlloc ==
  /\ pc = "early"
  /\ IF PreallocCount = PreallocMaxCount
     THEN pc' = "panic" /\ UNCHANGED PreallocCount
     ELSE PreallocCount' = PreallocCount + 1 /\ UNCHANGED pc
  /\ UNCHANGED <<boot, FrameBitmap, given, spilled>>

\* All memory is taken until multiboot_mmap says otherwise.
frame_alloc_init ==
  /\ pc = "early"
  /\ pc' = boot.tags[1]
  /\ FrameBitmap' = InBitmap
  /\ UNCHANGED <<boot, PreallocCount, given, spilled>>

NextTag == IF pc = boot.tags[1] THEN boot.tags[2] ELSE "arch_init"

\* Mutant: the entry pointer is not advanced over the memory map.
mmap_tag_OneEntry ==
  /\ pc = "mmap"
  /\ frame_clear(UNION {range(r[1], r[2]) : r \in {q \in boot.available : q[1] = 0}})
  /\ pc' = NextTag
  /\ UNCHANGED <<boot, PreallocCount, given>>

\* The two tags the second loop of multiboot_mmap looks at.  The loop over the
\* memory map counts up to the size of the whole tag, header included, so it
\* also looks at one entry behind the map.
mmap_tag ==
  /\ pc = "mmap"
  /\ frame_clear(UNION {range(r[1], r[2]) :
                          r \in boot.available \union boot.after_mmap})
  /\ pc' = NextTag
  /\ UNCHANGED <<boot, PreallocCount, given>>

\* Mutant: only the first page of the initrd is claimed.
module_tag_OnePage ==
  /\ pc = "module"
  /\ frame_set({boot.initrd[1]})
  /\ pc' = NextTag
  /\ UNCHANGED <<boot, PreallocCount, given>>

module_tag ==
  /\ pc = "module"
  /\ frame_set(range(boot.initrd[1], boot.initrd[2]))
  /\ pc' = NextTag
  /\ UNCHANGED <<boot, PreallocCount, given>>

\* arch_init after multiboot_mmap.
arch_init ==
  /\ pc = "arch_init"
  /\ frame_set(range(0, boot.kernel_end))
  /\ pc' = "up"
  /\ UNCHANGED <<boot, PreallocCount, given>>

\* frame_alloc_after(0) finds the first clear bit of the first word that is not
\* full.
FirstFree(f) ==
  /\ f \in InBitmap \ FrameBitmap
  /\ \A g \in InBitmap \ FrameBitmap : f <= g

\* Mutant: the caller forgets frame_set.
frame_alloc_Unset ==
  /\ pc = "up"
  /\ \E f \in InBitmap : FirstFree(f) /\ given' = [given EXCEPT ![f] = @ + 1]
  /\ UNCHANGED <<pc, boot, PreallocCount, FrameBitmap, spilled>>

\* frame_alloc; frame_set, the pair every caller makes.
frame_alloc ==
  /\ pc = "up"
  /\ \E f \in InBitmap :
       /\ FirstFree(f)
       /\ frame_set({f})
       /\ given' = [given EXCEPT ![f] = @ + 1]
  /\ UNCHANGED <<pc, boot, PreallocCount>>

BitmapFull == InBitmap \subseteq FrameBitmap

\* The loop bound is FrameCount words, not Room / BITS_PER_ENTRY: after the last
\* word of the bitmap it reads the memory that follows.  What is there is
\* arbitrary: a word with a clear bit yields a frame, or there is none.  (Bound:
\* each of those frames at most once.)
frame_alloc_beyond ==
  /\ pc = "up" /\ BitmapFull
  /\ \E f \in Frame \ InBitmap :
       /\ given[f] = 0
       /\ frame_set({f})
       /\ given' = [given EXCEPT ![f] = @ + 1]
  /\ UNCHANGED <<pc, boot, PreallocCount>>

out_of_memory ==
  /\ pc = "up" /\ BitmapFull
  /\ pc' = "panic"
  /\ UNCHANGED <<boot, PreallocCount, FrameBitmap, given, spilled>>

Next ==
  \/ EarlyAlloc
  \/ frame_alloc_init
  \/ mmap_tag
  \/ module_tag
  \/ arch_init
  \/ frame_alloc
  \/ frame_alloc_beyond
  \/ out_of_memory

Spec == Init /\ [][Next]_vars

-----------------------------------------------------------------------------

\* The types; in particular the early allocations of frame_alloc never exceed the
\* preallocated pages.  (FrameBitmap holds the bits that exist; what the code does
\* to words behind them is in spilled.)
TypeOK ==
  /\ pc \in {"early", "mmap", "module", "arch_init", "up", "panic"}
  /\ boot \in BootInfos
  /\ PreallocCount \in 0 .. PreallocMaxCount
  /\ FrameBitmap \subseteq InBitmap
  /\ given \in [Frame -> Nat]

\* No frame the bitmap describes is handed out twice.
NoDoubleAlloc == \A f \in InBitmap : given[f] <= 1

\* The kernel image, its page tables and its early heap are never handed out,
\* whatever the boot loader's memory map and tag order.
KernelKept == \A f \in InBitmap : f <= boot.kernel_end => given[f] = 0

\* When frame_alloc runs out, every page of available RAM the bitmap describes
\* is in use: by the kernel, by the initrd or by whoever it was given to.
NoFrameWasted ==
  pc = "panic" /\ FrameBitmap # {} =>
    \A r \in boot.available : \A f \in InBitmap :
      r[1] <= f /\ f < r[2] =>
        f <= boot.kernel_end \/ (boot.initrd[1] <= f /\ f <= boot.initrd[2]) \/ given[f] = 1

InMemory(r) == r[2] <= FrameCount

\* The bitmap has no bits for the last FrameCount % BITS_PER_ENTRY frames nor for
\* the page at the end of memory, which every range that ends there includes.
\* All of these are in the one word behind the bitmap: until it is exhausted,
\* nothing else behind it is changed if the boot loader's ranges lie in memory.
SpillIsOneWord ==
  /\ \A r \in boot.available \union boot.after_mmap \union {boot.initrd} : InMemory(r)
  /\ boot.kernel_end <= FrameCount
  /\ \A f \in Frame \ InBitmap : given[f] = 0
  => spilled \subseteq Room .. Room + BITS_PER_ENTRY - 1

\* If the memory map tag comes first, no page of the initrd is handed out.
InitrdKeptAfterMmap ==
  boot.tags[1] = "mmap" =>
    \A f \in InBitmap : boot.initrd[1] <= f /\ f < boot.initrd[2] => given[f] = 0

\* multibootimpl.c says of the initrd that it takes care "to ensure malloc can't
\* access it".
InitrdKept == \A f \in InBitmap : boot.initrd[1] <= f /\ f < boot.initrd[2] => given[f] = 0
=============================================================================
