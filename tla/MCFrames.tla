------------------------------ MODULE MCFrames ------------------------------
(***************************************************************************)
(* Boot loaders for Frames on a machine of FrameCount pages: free RAM is   *)
(* one range, or two with a reserved hole, or goes on beyond FrameCount;   *)
(* the kernel occupies the lowest pages of it and the initrd lies above    *)
(* the kernel; the bytes after the memory map may or may not read as a     *)
(* free range over the kernel.                                             *)
(***************************************************************************)
EXTENDS Frames

TagOrders == {<<"mmap", "module">>, <<"module", "mmap">>}

Maps == {{<<0, m>>} : m \in 4 .. FrameCount}
          \union {{<<0, m>>, <<m + 2, FrameCount>>} : m \in 3 .. FrameCount - 3}
          \union {{<<0, FrameCount - 1>>, <<FrameCount + 1, FrameCount + 2>>}}

MCBootInfos ==
  [available: Maps, after_mmap: {{}, {<<0, 2>>}}, tags: TagOrders, kernel_end: {0, 1},
   initrd: {<<a, b>> \in (2 .. 4) \X (3 .. 5) : a < b}]
=============================================================================
