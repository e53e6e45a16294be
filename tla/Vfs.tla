-------------------------------- MODULE Vfs ---------------------------------
(***************************************************************************)
(* The tree of file system nodes (kernel/fs/node.c) and the order in which *)
(* kmain fills it: the root file system with /dev, the initrd's archive    *)
(* unpacked file by file (cpiofs.c, initrd.c), and the console's device    *)
(* (devfs.c, arch/x86/console.c).                                          *)
(*                                                                         *)
(* A node is a number, and its name is the same number: strcmp is <.  The  *)
(* siblings of a directory have different names.                           *)
(***************************************************************************)
EXTENDS Integers, FiniteSets, FiniteSetsExt, SequencesExt

CONSTANT Files      \* the names of the files in the archive

NULL == -1
ROOT == 0
DEV == 1
INITRD == 2
TTY == 3
Dirs == {ROOT, DEV, INITRD}
Node == Dirs \union {TTY} \union Files

ASSUME VfsAssumption == Files \subseteq Nat \ (Dirs \union {TTY}) /\ IsFiniteSet(Files)

VARIABLES
  first_child, next_sibling,
  boot,         \* the call of kmain that comes next, or "run"
  linked        \* history: the pairs fs_link_child was called with

vfs == <<first_child, next_sibling, boot, linked>>

VfsInit ==
  /\ first_child = [d \in Dirs |-> NULL]
  /\ next_sibling = [n \in Node |-> NULL]
  /\ boot = "fs_create_rootfs"
  /\ linked = {}

\* fs_child_iter from NULL on: the k-th child of d, NULL behind the last.
fs_child_iter(d) ==
  LET at[k \in 0 .. Cardinality(Node)] ==
        IF k = 0 THEN first_child[d]
        ELSE IF at[k - 1] = NULL THEN NULL ELSE next_sibling[at[k - 1]]
  IN  at

Children(d) == {fs_child_iter(d)[k] : k \in 0 .. Cardinality(Node)} \ {NULL}

\* fs_locate from the root; a path is a sequence of names.
fs_locate(path) ==
  FoldLeft(LAMBDA cur, tok : IF cur \in Dirs /\ tok \in Children(cur) THEN tok ELSE NULL,
           ROOT, path)

\* Mutant: the sibling in front of the new one is not linked to it.
fs_link_child_Lost(parent, child) ==
  LET at == fs_child_iter(parent)
      later == {k \in DOMAIN at : at[k] # NULL /\ at[k] >= child}
  IN  /\ \/ /\ later = {}
            /\ first_child' = [first_child EXCEPT ![parent] = child]
            /\ next_sibling' = [next_sibling EXCEPT ![child] = first_child[parent]]
         \/ /\ later # {}
            /\ next_sibling' = [next_sibling EXCEPT ![child] = next_sibling[at[Min(later)]]]
            /\ UNCHANGED first_child
      /\ linked' = linked \union {<<parent, child>>}

\* fs_link_child: behind the first sibling whose name is not smaller, or in
\* front of all of them.
fs_link_child(parent, child) ==
  LET at == fs_child_iter(parent)
      later == {k \in DOMAIN at : at[k] # NULL /\ at[k] >= child}
      i == at[Min(later)]
  IN  /\ \/ /\ first_child[parent] = NULL
            /\ first_child' = [first_child EXCEPT ![parent] = child]
            /\ UNCHANGED next_sibling
         \/ /\ first_child[parent] # NULL /\ later = {}
            /\ first_child' = [first_child EXCEPT ![parent] = child]
            /\ next_sibling' = [next_sibling EXCEPT ![child] = first_child[parent]]
         \/ /\ later # {}
            /\ next_sibling' = [next_sibling EXCEPT ![child] = next_sibling[i],
                                                    ![i] = child]
            /\ UNCHANGED first_child
      /\ linked' = linked \union {<<parent, child>>}

fs_create_rootfs ==
  /\ boot = "fs_create_rootfs"
  /\ fs_link_child(ROOT, DEV)
  /\ boot' = "initrd_mount"

\* The next header of the archive names file f.  (The order is the archive's.)
cpiofs_unpack_file(f) ==
  /\ boot = "initrd_mount" /\ <<INITRD, f>> \notin linked
  /\ fs_link_child(INITRD, f)
  /\ UNCHANGED boot

\* cpiofs_mount meets the trailer and initrd_mount links the directory.
initrd_mount ==
  /\ boot = "initrd_mount" /\ {INITRD} \X Files \subseteq linked
  /\ fs_link_child(ROOT, INITRD)
  /\ boot' = "modules_init"

\* cpiofs_unpack_file meets a bad magic number: "Unable to mount initrd".  The
\* nodes made so far belong to a directory nobody can reach.
initrd_bad_magic ==
  /\ boot = "initrd_mount"
  /\ boot' = "modules_init"
  /\ first_child' = [first_child EXCEPT ![INITRD] = NULL]
  /\ next_sibling' = [n \in Node |-> IF n \in Files THEN NULL ELSE next_sibling[n]]
  /\ linked' = linked \ ({INITRD} \X Files)

\* console_register calls devfs_register_device.
console_register ==
  /\ boot = "modules_init"
  /\ fs_link_child(DEV, TTY)
  /\ boot' = "console_init"

VfsNext ==
  \/ fs_create_rootfs
  \/ \E f \in Files : cpiofs_unpack_file(f)
  \/ initrd_mount
  \/ initrd_bad_magic
  \/ console_register

-----------------------------------------------------------------------------

\* In whatever order nodes were linked, walking the siblings of a directory
\* meets exactly the nodes linked to it: fs_locate finds them all, and a name
\* that was not linked is not found.
EveryLinkIsFound ==
  \A d \in Dirs : Children(d) = {c \in Node : <<d, c>> \in linked}
=============================================================================
