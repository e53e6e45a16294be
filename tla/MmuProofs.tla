------------------------------ MODULE MmuProofs -----------------------------
(***************************************************************************)
(* Theorems about Mmu, for any number of tasks, any page and table sizes   *)
(* and any program.                                                        *)
(*                                                                         *)
(* All writes go through pg_write_entry, of which one lemma says what it   *)
(* writes (WriteFacts).  The rest is which columns of a directory an       *)
(* operation writes to: below KCol a slot is nil or holds the task's own   *)
(* table, and no frame is in two entries; from KCol on tables and frames   *)
(* are shared.                                                             *)
(***************************************************************************)
EXTENDS Mmu, NaturalsInduction, WellFoundedInduction, TLAPS

-----------------------------------------------------------------------------
(* The inductive invariant *)

KCol == PDE(PageOf(KZERO))      \* the first column of the kernel's half

DirEntry == {Nil} \union [to : Tbl, link : BOOLEAN]
TblEntry == {Nil} \union [to : Frame, link : BOOLEAN]

\* The values of the variables.
TypeOK ==
  /\ tasks \subseteq Task /\ KERNEL_PID \in tasks /\ running \in tasks
  /\ UserTask \in (tasks \ {KERNEL_PID}) \union {NULL}
  /\ fault \in Pages \union {NULL}
  /\ heap \in BOOLEAN /\ panic \in BOOLEAN
  /\ dir \in [Task -> [Pde -> DirEntry]]
  /\ tbl \in [Tbl -> [Pte -> TblEntry]]
  /\ data \in [Frame -> {0, 1}]
  /\ brk \in [Task -> Nat] /\ mmapbrk \in [Task -> Nat]

\* The kernel's break stays in its heap, a program's below the stack.
BreaksOK ==
  /\ brk[KERNEL_PID] \in KZERO .. KTMPMEM - PAGE_SIZE
  /\ \A t \in Task : brk[t] < KZERO => brk[t] <= KZERO - PAGE_SIZE

\* The tables in a directory were allocated for the same column, by a task
\* that exists; a user column holds the task's own.
Columns ==
  \A t \in Task, d \in Pde : dir[t][d] # Nil =>
    /\ t \in tasks
    /\ dir[t][d].to[1] \in tasks /\ dir[t][d].to[2] = d
    /\ d < KCol => dir[t][d] = Entry(TblOf(t, d), FALSE)

\* Entries of user memory are not linked, entries of kernel memory are.
Links ==
  \A x \in Tbl, i \in Pte : tbl[x][i] # Nil =>
    /\ x[2] < KCol => tbl[x][i].link = FALSE
    /\ x[2] >= KCol => tbl[x][i].link = TRUE

\* The frame of an entry of user memory is in no other entry.
FramesApart ==
  \A x, y \in Tbl, i, j \in Pte :
    x[2] < KCol /\ tbl[x][i] # Nil /\ tbl[x][i].to = tbl[y][j].to => x = y /\ i = j

SpaceInv == TypeOK /\ BreaksOK /\ Columns /\ Links /\ FramesApart

\* A table that some directory holds is in the directory it was allocated for,
\* and the others are empty.
Owners ==
  /\ \A t \in Task, d \in Pde : dir[t][d] # Nil => dir[dir[t][d].to[1]][d] # Nil
  /\ \A t \in Task, d \in Pde : dir[t][d] = Nil =>
       \A i \in Pte : tbl[TblOf(t, d)][i] = Nil

HeapInv == SpaceInv /\ Owners /\ HeapIsShared

\* The pages from the start of the program up to the break are mapped.
ProgramMapped ==
  \A t \in tasks : brk[t] < KZERO =>
    \A p \in Pages : ~IsKernel(p) /\ PageOf(Segment[1]) <= p /\ p * PAGE_SIZE < brk[t] =>
      Lookup(t, p) # Nil

-----------------------------------------------------------------------------
(* Pages and columns *)

\* Products keep the order of their factors.
LEMMA ProductOrder ==
  ASSUME NEW a \in Nat, NEW b \in Nat, NEW n \in Nat \ {0}
  PROVE  /\ a < b => a * n + n <= b * n
         /\ a * n \in Nat /\ a <= a * n
<1>1. ASSUME a < b PROVE a * n + n <= b * n
  <2>1. PICK k \in Nat : b = a + 1 + k
    <3>1. b - (a + 1) \in Nat /\ b = a + 1 + (b - (a + 1))
      BY <1>1
    <3> QED BY <3>1
  <2>2. b * n = a * n + n + k * n /\ k * n \in Nat /\ a * n \in Nat
    BY <2>1
  <2> QED BY <2>2
<1>2. PICK m \in Nat : n = m + 1
  <2>1. n - 1 \in Nat /\ n = (n - 1) + 1
    OBVIOUS
  <2> QED BY <2>1
<1>3. a * n = a * m + a /\ a * m \in Nat
  BY <1>2
<1>4. a * n \in Nat /\ a <= a * n
  BY <1>3
<1> QED BY <1>1, <1>4

\* Division with remainder, and that it is unique.
LEMMA Division ==
  ASSUME NEW a \in Nat, NEW n \in Nat \ {0}
  PROVE  /\ a \div n \in Nat /\ a % n \in 0 .. n - 1
         /\ a = (a \div n) * n + (a % n)
<1> DEFINE q == a \div n
           r == a % n
<1>1. q \in Nat /\ r \in 0 .. n - 1
  OBVIOUS
<1>2. r = a - n * q
  OBVIOUS
<1> HIDE DEF q, r
<1>3. a = q * n + r
  BY <1>1, <1>2
<1> QED BY <1>1, <1>3, Zenon DEF q, r

LEMMA UniqueDivision ==
  ASSUME NEW a \in Nat, NEW b \in Nat, NEW n \in Nat \ {0},
         NEW i \in 0 .. n - 1, NEW j \in 0 .. n - 1, a * n + i = b * n + j
  PROVE  a = b /\ i = j
<1>1. ~ (a < b)
  <2> SUFFICES ASSUME a < b PROVE FALSE
    OBVIOUS
  <2>1. a * n + n <= b * n /\ a * n \in Nat /\ b * n \in Nat
    BY ProductOrder
  <2> QED BY <2>1
<1>2. ~ (b < a)
  <2> SUFFICES ASSUME b < a PROVE FALSE
    OBVIOUS
  <2>1. b * n + n <= a * n /\ a * n \in Nat /\ b * n \in Nat
    BY ProductOrder
  <2> QED BY <2>1
<1>3. a = b
  BY <1>1, <1>2
<1> QED BY <1>3

\* The quotient and the remainder of d * n + i.
LEMMA DivideSum ==
  ASSUME NEW d \in Nat, NEW n \in Nat \ {0}, NEW i \in 0 .. n - 1
  PROVE  (d * n + i) \div n = d /\ (d * n + i) % n = i
<1> DEFINE a == d * n + i
<1>1. a \in Nat
  BY ProductOrder
<1>2. a = d * n + i
  OBVIOUS
<1> HIDE DEF a
<1>3. a \div n \in Nat /\ a % n \in 0 .. n - 1 /\ a = (a \div n) * n + (a % n)
  BY <1>1, Division
<1>4. a \div n = d /\ a % n = i
  BY <1>2, <1>3, UniqueDivision
<1> QED BY <1>4 DEF a

\* Division keeps the order.
LEMMA DivideOrder ==
  ASSUME NEW a \in Nat, NEW b \in Nat, NEW n \in Nat \ {0}, NEW m \in Nat
  PROVE  /\ a <= b => a \div n <= b \div n
         /\ a < m * n <=> a \div n < m
<1>1. /\ a \div n \in Nat /\ a % n \in 0 .. n - 1 /\ a = (a \div n) * n + (a % n)
      /\ b \div n \in Nat /\ b % n \in 0 .. n - 1 /\ b = (b \div n) * n + (b % n)
  BY Division
<1>2. ASSUME NEW c \in Nat, NEW d \in Nat, NEW r \in 0 .. n - 1, c = d * n + r
      PROVE  /\ d < m => c < m * n
             /\ m <= d => m * n <= c
  <2>1. d * n \in Nat /\ m * n \in Nat
    BY ProductOrder
  <2>2. d < m => d * n + n <= m * n
    BY ProductOrder
  <2>3. m < d => m * n + n <= d * n
    BY ProductOrder
  <2>4. d < m => c < m * n
    BY <1>2, <2>1, <2>2
  <2>5. m = d => m * n <= c
    BY <1>2, <2>1
  <2>6. m < d => m * n <= c
    BY <1>2, <2>1, <2>3
  <2> QED BY <2>4, <2>5, <2>6
<1>3. a < m * n <=> a \div n < m
  BY <1>1, <1>2, ProductOrder
<1>4. ASSUME b \div n < a \div n PROVE b < a
  <2>1. (b \div n) * n + n <= (a \div n) * n
    BY <1>1, <1>4, ProductOrder
  <2>2. (b \div n) * n \in Nat /\ (a \div n) * n \in Nat
    BY <1>1, ProductOrder
  <2> QED BY <1>1, <2>1, <2>2
<1> QED BY <1>1, <1>3, <1>4

\* What the assumptions on the constants say of single constants.
LEMMA Sizes ==
  /\ PAGE_SIZE \in Nat \ {0} /\ ENTRIES \in Nat \ {0} /\ Generations \in Nat \ {0}
  /\ MaxPid \in Nat /\ KZERO \in Nat \ {0} /\ KTMPMEM \in Nat
  /\ Segment[1] \in Nat /\ Segment[2] \in Nat /\ ElfLength \in Nat
BY MmuAssumption

\* A multiple of the size of a table's memory.
LEMMA TableMultiple ==
  ASSUME NEW a \in Nat, a % (PAGE_SIZE * ENTRIES) = 0,
         NEW k, k = a \div (PAGE_SIZE * ENTRIES)
  PROVE  /\ k \in Nat /\ k * ENTRIES \in Nat
         /\ a = (k * ENTRIES) * PAGE_SIZE /\ a \div PAGE_SIZE = k * ENTRIES
         /\ (k * ENTRIES) \div ENTRIES = k
<1>1. PAGE_SIZE \in Nat \ {0} /\ ENTRIES \in Nat \ {0}
  BY Sizes
<1> DEFINE n == PAGE_SIZE * ENTRIES
<1>2. n \in Nat \ {0}
  BY <1>1, ProductOrder
<1>3. n = PAGE_SIZE * ENTRIES
  OBVIOUS
<1>4. a % n = 0 /\ k = a \div n
  OBVIOUS
<1> HIDE DEF n
<1>5. k \in Nat /\ a = k * n
  <2>1. a \div n \in Nat /\ a = (a \div n) * n + (a % n)
    BY <1>2, Division
  <2>2. k \in Nat /\ k * n \in Nat
    BY <1>2, <1>4, <2>1, ProductOrder
  <2> QED BY <1>4, <2>1, <2>2
<1>6. k * ENTRIES \in Nat
  BY <1>1, <1>5, ProductOrder
<1>7. a = (k * ENTRIES) * PAGE_SIZE
  BY <1>1, <1>3, <1>5
<1>8. ASSUME NEW d \in Nat, NEW e \in Nat \ {0} PROVE (d * e) \div e = d
  <2>1. (d * e + 0) \div e = d
    BY DivideSum
  <2>2. d * e + 0 = d * e
    BY ProductOrder
  <2> QED BY <2>1, <2>2
<1>9. a \div PAGE_SIZE = k * ENTRIES
  BY <1>1, <1>6, <1>7, <1>8
<1> QED BY <1>1, <1>5, <1>6, <1>7, <1>8, <1>9

\* The kernel's half and the end of memory start a column.
LEMMA Layout ==
  \E n \in Nat :
    /\ KCol \in Nat \ {0} /\ KCol < n
    /\ PageOf(KZERO) = KCol * ENTRIES /\ KZERO = (KCol * ENTRIES) * PAGE_SIZE
    /\ KCol * ENTRIES \in Nat
    /\ n * ENTRIES \in Nat /\ KTMPMEM = (n * ENTRIES) * PAGE_SIZE
    /\ Pages = 0 .. n * ENTRIES - 1 /\ Pde = 0 .. n - 1
<1>1. PAGE_SIZE \in Nat \ {0} /\ ENTRIES \in Nat \ {0}
  BY Sizes
<1> DEFINE k == KZERO \div (PAGE_SIZE * ENTRIES)
           n == KTMPMEM \div (PAGE_SIZE * ENTRIES)
<1>2. /\ k \in Nat /\ k * ENTRIES \in Nat
      /\ KZERO = (k * ENTRIES) * PAGE_SIZE /\ KZERO \div PAGE_SIZE = k * ENTRIES
      /\ (k * ENTRIES) \div ENTRIES = k
  BY MmuAssumption, TableMultiple
<1>3. /\ n \in Nat /\ n * ENTRIES \in Nat
      /\ KTMPMEM = (n * ENTRIES) * PAGE_SIZE /\ KTMPMEM \div PAGE_SIZE = n * ENTRIES
  BY MmuAssumption, TableMultiple
<1>4. Pde = 0 .. n - 1 /\ Pages = 0 .. n * ENTRIES - 1
  BY <1>3 DEF Pde, Pages
<1> HIDE DEF k, n
<1>5. PageOf(KZERO) = k * ENTRIES /\ KCol = k
  BY <1>2 DEF PageOf, PDE, KCol
<1>6. 0 < KZERO /\ KZERO < KTMPMEM
  BY MmuAssumption
<1>7. k # 0
  BY <1>1, <1>2, <1>6
<1>8. k < n
  <2>1. k * ENTRIES < n * ENTRIES
    <3>1. (n * ENTRIES) * PAGE_SIZE <= (k * ENTRIES) * PAGE_SIZE \/ k * ENTRIES < n * ENTRIES
      BY <1>1, <1>2, <1>3, ProductOrder
    <3> QED BY <1>2, <1>3, <1>6, <3>1
  <2>2. n * ENTRIES <= k * ENTRIES \/ k < n
    BY <1>1, <1>2, <1>3, ProductOrder
  <2> QED BY <1>2, <1>3, <2>1, <2>2
<1> QED BY <1>2, <1>3, <1>4, <1>5, <1>7, <1>8

\* A page has a column and a place in its table, and they determine it.
LEMMA PagePlace ==
  ASSUME NEW p \in Pages
  PROVE  /\ PDE(p) \in Pde /\ PTE(p) \in Pte /\ p = PDE(p) * ENTRIES + PTE(p)
         /\ IsKernel(p) <=> PDE(p) >= KCol
<1>1. ENTRIES \in Nat \ {0}
  BY Sizes
<1>2. PICK n \in Nat : /\ n * ENTRIES \in Nat /\ KCol * ENTRIES \in Nat /\ KCol \in Nat
                       /\ Pages = 0 .. n * ENTRIES - 1 /\ Pde = 0 .. n - 1
                       /\ PageOf(KZERO) = KCol * ENTRIES
  BY Layout
<1>3. p \in Nat /\ p < n * ENTRIES
  BY <1>2
<1>4. /\ PDE(p) \in Nat /\ PTE(p) \in 0 .. ENTRIES - 1
      /\ p = PDE(p) * ENTRIES + PTE(p)
  BY <1>1, <1>3, Division DEF PDE, PTE
<1>5. PDE(p) < n
  BY <1>1, <1>2, <1>3, DivideOrder DEF PDE
<1>6. p < KCol * ENTRIES <=> PDE(p) < KCol
  BY <1>1, <1>2, <1>3, DivideOrder DEF PDE
<1>7. IsKernel(p) <=> ~ (p < KCol * ENTRIES)
  BY <1>2, <1>3 DEF IsKernel
<1> QED BY <1>2, <1>4, <1>5, <1>6, <1>7 DEF Pte

LEMMA PageDetermined ==
  ASSUME NEW p \in Pages, NEW q \in Pages, PDE(p) = PDE(q), PTE(p) = PTE(q)
  PROVE  p = q
BY PagePlace

\* The page of a place of a column.
LEMMA PlacePage ==
  ASSUME NEW d \in Pde, NEW i \in Pte
  PROVE  /\ d * ENTRIES + i \in Pages
         /\ PDE(d * ENTRIES + i) = d /\ PTE(d * ENTRIES + i) = i
<1>1. ENTRIES \in Nat \ {0}
  BY Sizes
<1>2. PICK n \in Nat : /\ n * ENTRIES \in Nat
                       /\ Pages = 0 .. n * ENTRIES - 1 /\ Pde = 0 .. n - 1
  BY Layout
<1>3. d \in Nat /\ d < n /\ i \in 0 .. ENTRIES - 1
  BY <1>2 DEF Pte
<1>4. d * ENTRIES \in Nat /\ d * ENTRIES + ENTRIES <= n * ENTRIES
  BY <1>1, <1>3, ProductOrder
<1>5. d * ENTRIES + i \in 0 .. n * ENTRIES - 1
  BY <1>1, <1>2, <1>3, <1>4
<1> QED BY <1>1, <1>2, <1>3, <1>5, DivideSum DEF PDE, PTE

\* The columns of user memory and the stack's page.
LEMMA UserPlace ==
  /\ KCol \in Nat /\ \A d \in Pde : d \in Nat
  /\ StackPage \in Pages /\ PDE(StackPage) < KCol /\ PageOf(KZERO) \in Nat
  /\ 0 \in Pages /\ ~IsKernel(0)
  /\ \A p \in Nat : p < PageOf(KZERO) => p \in Pages /\ ~IsKernel(p)
<1>1. ENTRIES \in Nat \ {0}
  BY Sizes
<1>2. PICK n \in Nat : /\ n * ENTRIES \in Nat /\ KCol * ENTRIES \in Nat /\ KCol \in Nat \ {0}
                       /\ Pages = 0 .. n * ENTRIES - 1 /\ KCol < n /\ Pde = 0 .. n - 1
                       /\ PageOf(KZERO) = KCol * ENTRIES
  BY Layout
<1>3. KCol * ENTRIES + ENTRIES <= n * ENTRIES /\ KCol <= KCol * ENTRIES
  BY <1>1, <1>2, ProductOrder
<1>4. \A p \in Nat : p < PageOf(KZERO) => p \in Pages /\ ~IsKernel(p)
  BY <1>1, <1>2, <1>3 DEF IsKernel
<1>5. StackPage \in Nat /\ StackPage < PageOf(KZERO) /\ 0 < PageOf(KZERO)
  BY <1>2, <1>3 DEF StackPage
<1>6. StackPage \in Pages /\ ~IsKernel(StackPage)
  BY <1>4, <1>5
<1>7. PDE(StackPage) < KCol
  BY <1>2, <1>6, PagePlace
<1> QED BY <1>2, <1>4, <1>5, <1>6, <1>7

\* Pages and addresses.
LEMMA PageAddress ==
  ASSUME NEW a \in Nat
  PROVE  /\ PageOf(a) \in Nat /\ PageOf(a) * PAGE_SIZE <= a
         /\ a < PageOf(a) * PAGE_SIZE + PAGE_SIZE
         /\ \A b \in Nat : a <= b => PageOf(a) <= PageOf(b)
         /\ \A m \in Nat : a < m * PAGE_SIZE <=> PageOf(a) < m
<1>1. PAGE_SIZE \in Nat \ {0}
  BY Sizes
<1>2. /\ PageOf(a) \in Nat /\ a % PAGE_SIZE \in 0 .. PAGE_SIZE - 1
      /\ a = PageOf(a) * PAGE_SIZE + (a % PAGE_SIZE)
  BY <1>1, Division DEF PageOf
<1>3. PageOf(a) * PAGE_SIZE \in Nat
  BY <1>1, <1>2, ProductOrder
<1>4. \A b \in Nat : a <= b => PageOf(a) <= PageOf(b)
  BY <1>1, DivideOrder DEF PageOf
<1>5. \A m \in Nat : a < m * PAGE_SIZE <=> PageOf(a) < m
  BY <1>1, DivideOrder DEF PageOf
<1>6. PageOf(a) * PAGE_SIZE <= a /\ a < PageOf(a) * PAGE_SIZE + PAGE_SIZE
  BY <1>1, <1>2, <1>3
<1> QED BY <1>2, <1>4, <1>5, <1>6

\* pg_alloc_range visits only pages of the range and the page behind it.
LEMMA StepsBounds ==
  ASSUME NEW start \in Nat, NEW end \in Nat, NEW m \in Nat, end + PAGE_SIZE <= m * PAGE_SIZE,
         NEW p \in Steps(start, end)
  PROVE  p \in Nat /\ PageOf(start) <= p /\ p < m
<1>1. PAGE_SIZE \in Nat \ {0}
  BY Sizes
<1>2. PICK a \in start .. end + PAGE_SIZE - 1 : p = PageOf(a)
  BY DEF Steps
<1>3. a \in Nat /\ start <= a
  BY <1>1, <1>2
<1>4. m * PAGE_SIZE \in Nat
  BY <1>1, ProductOrder
<1>5. a < m * PAGE_SIZE
  BY <1>1, <1>2, <1>3, <1>4
<1> QED BY <1>2, <1>3, <1>5, PageAddress

\* It visits every page of the range, from the page of its start on.
LEMMA StepsCover ==
  ASSUME NEW start \in Nat, NEW end \in Nat, NEW p \in Nat,
         PageOf(start) <= p, p * PAGE_SIZE < end
  PROVE  p \in Steps(start, end)
<1> DEFINE r == start % PAGE_SIZE
           k == p - PageOf(start)
           a == p * PAGE_SIZE + r
<1>1. PAGE_SIZE \in Nat \ {0}
  BY Sizes
<1>2. /\ PageOf(start) \in Nat /\ r \in 0 .. PAGE_SIZE - 1
      /\ start = PageOf(start) * PAGE_SIZE + r
  BY <1>1, Division DEF PageOf
<1>3. k \in Nat /\ p = PageOf(start) + k
  BY <1>2
<1>4. PageOf(a) = p
  BY <1>1, <1>2, DivideSum DEF PageOf
<1>5. a = p * PAGE_SIZE + r
  OBVIOUS
<1> HIDE DEF r, k, a
<1>6. k * PAGE_SIZE \in Nat /\ p * PAGE_SIZE \in Nat /\ PageOf(start) * PAGE_SIZE \in Nat
  BY <1>1, <1>2, <1>3, ProductOrder
<1>7. p * PAGE_SIZE = PageOf(start) * PAGE_SIZE + k * PAGE_SIZE
  BY <1>1, <1>2, <1>3
<1>8. a - start = k * PAGE_SIZE + 0
  BY <1>2, <1>5, <1>6, <1>7
<1>9. (a - start) % PAGE_SIZE = 0
  <2>1. (k * PAGE_SIZE + 0) % PAGE_SIZE = 0
    BY <1>1, <1>3, DivideSum
  <2> QED BY <1>8, <2>1
<1>10. a \in start .. end + PAGE_SIZE - 1
  BY <1>1, <1>2, <1>5, <1>6, <1>7
<1> QED BY <1>4, <1>9, <1>10 DEF Steps

-----------------------------------------------------------------------------
(* Entries *)

DirType == dir \in [Task -> [Pde -> DirEntry]]
TblType == tbl \in [Tbl -> [Pte -> TblEntry]]

\* Tables and frames are tuples, and the nil entry refers to neither.
LEMMA Names ==
  /\ \A t \in Task, d \in Pde :
       TblOf(t, d) \in Tbl /\ TblOf(t, d)[1] = t /\ TblOf(t, d)[2] = d
  /\ \A x \in Tbl : x[1] \in Task /\ x[2] \in Pde /\ x = TblOf(x[1], x[2])
  /\ \A t \in Task, p \in Pages, k \in 0 .. Generations - 1 :
       FrameOf(t, p, k) \in Frame /\ FrameOf(t, p, k)[2] = p
  /\ <<>> \notin Tbl /\ <<>> \notin Frame /\ Nil.to = <<>>
<1>1. \A t, d : <<>> # <<t, d>>
  BY Zenon
<1>2. \A t, p, k : <<>> # <<t, p, k>>
  BY Zenon
<1>3. \A t \in Task, d \in Pde :
        TblOf(t, d) \in Tbl /\ TblOf(t, d)[1] = t /\ TblOf(t, d)[2] = d
  BY DEF TblOf, Tbl
<1>4. \A x \in Tbl : x[1] \in Task /\ x[2] \in Pde /\ x = TblOf(x[1], x[2])
  BY DEF TblOf, Tbl
<1>5. \A t \in Task, p \in Pages, k \in 0 .. Generations - 1 :
        FrameOf(t, p, k) \in Frame /\ FrameOf(t, p, k)[2] = p
  BY DEF FrameOf, Frame
<1>6. <<>> \notin Tbl
  BY <1>1 DEF Tbl
<1>7. <<>> \notin Frame
  BY <1>2 DEF Frame
<1> QED BY <1>3, <1>4, <1>5, <1>6, <1>7 DEF Nil

LEMMA Entries ==
  /\ \A to \in Tbl, link \in BOOLEAN :
       /\ Entry(to, link) \in DirEntry /\ Entry(to, link) # Nil
       /\ Entry(to, link).to = to /\ Entry(to, link).link = link
  /\ \A to \in Frame, link \in BOOLEAN :
       /\ Entry(to, link) \in TblEntry /\ Entry(to, link) # Nil
       /\ Entry(to, link).to = to /\ Entry(to, link).link = link
  /\ \A e \in DirEntry : e # Nil => e.to \in Tbl /\ e.link \in BOOLEAN
  /\ \A e \in TblEntry : e # Nil => e.to \in Frame /\ e.link \in BOOLEAN
  /\ Nil \in DirEntry /\ Nil \in TblEntry
<1>1. /\ \A to, link : Entry(to, link).to = to /\ Entry(to, link).link = link
      /\ Nil.to = <<>>
  BY DEF Entry, Nil
<1>2. \A to \in Tbl, link \in BOOLEAN : Entry(to, link) \in DirEntry /\ Entry(to, link) # Nil
  BY <1>1, Names DEF DirEntry, Entry
<1>3. \A to \in Frame, link \in BOOLEAN : Entry(to, link) \in TblEntry /\ Entry(to, link) # Nil
  BY <1>1, Names DEF TblEntry, Entry
<1>4. /\ \A e \in DirEntry : e # Nil => e.to \in Tbl /\ e.link \in BOOLEAN
      /\ \A e \in TblEntry : e # Nil => e.to \in Frame /\ e.link \in BOOLEAN
      /\ Nil \in DirEntry /\ Nil \in TblEntry
  BY DEF DirEntry, TblEntry
<1> QED BY <1>1, <1>2, <1>3, <1>4

\* What pg_write_entry does to the directories and the tables.
WroteDir(t, pages) ==
  /\ \A u \in Task : u # t => dir'[u] = dir[u]
  /\ \A d \in Pde : dir[t][d] # Nil => dir'[t][d] = dir[t][d]
  /\ \A d \in Pde : dir[t][d] = Nil /\ dir'[t][d] # Nil =>
       /\ dir'[t][d] = Entry(TblOf(t, d), base_flags)
       /\ \E p \in pages : PDE(p) = d
WroteTbl(t, pages, entry) ==
  /\ \A p \in pages : /\ dir'[t][PDE(p)] # Nil /\ dir'[t][PDE(p)].to[2] = PDE(p)
                      /\ dir'[t][PDE(p)].to \in Tbl
                      /\ tbl'[dir'[t][PDE(p)].to][PTE(p)] = entry[p]
  /\ \A x \in Tbl, i \in Pte : tbl'[x][i] # tbl[x][i] =>
       \E p \in pages : dir'[t][PDE(p)].to = x /\ PTE(p) = i

LEMMA WriteFacts ==
  ASSUME DirType, TblType, Columns, NEW t \in Task, NEW pages \in SUBSET Pages,
         NEW entry \in [pages -> TblEntry], pg_write_entry(t, entry)
  PROVE  /\ DirType' /\ TblType'
         /\ WroteDir(t, pages) /\ WroteTbl(t, pages, entry)
<1> DEFINE newdir == [d \in Pde |->
             IF dir[t][d] = Nil /\ \E p \in pages : PDE(p) = d
             THEN Entry(TblOf(t, d), base_flags) ELSE dir[t][d]]
           At(x, i, p) == newdir[PDE(p)].to = x /\ PTE(p) = i
<1>1. /\ dir' = [dir EXCEPT ![t] = newdir]
      /\ tbl' = [x \in Tbl |-> [i \in Pte |->
           IF \E p \in pages : At(x, i, p) THEN entry[CHOOSE p \in pages : At(x, i, p)]
           ELSE tbl[x][i]]]
  <2>1. DOMAIN entry = pages
    OBVIOUS
  <2> QED BY <2>1 DEF pg_write_entry
<1>2. base_flags \in BOOLEAN
  BY DEF base_flags
<1>3. newdir \in [Pde -> DirEntry]
  BY <1>2, Entries, Names DEF DirType
<1>4. \A d \in Pde : newdir[d] # Nil => newdir[d].to \in Tbl /\ newdir[d].to[2] = d
  <2> SUFFICES ASSUME NEW d \in Pde, newdir[d] # Nil
               PROVE  newdir[d].to \in Tbl /\ newdir[d].to[2] = d
    OBVIOUS
  <2>1. CASE newdir[d] = Entry(TblOf(t, d), base_flags)
    BY <1>2, <2>1, Entries, Names
  <2>2. CASE newdir[d] = dir[t][d]
    <3>1. dir[t][d] \in DirEntry /\ dir[t][d] # Nil
      BY <2>2 DEF DirType
    <3>2. dir[t][d].to[2] = d
      BY <3>1 DEF Columns
    <3>3. dir[t][d].to \in Tbl
      BY <3>1, Entries
    <3> QED BY <2>2, <3>2, <3>3
  <2> QED BY <2>1, <2>2
<1>5. \A p \in pages : PDE(p) \in Pde /\ PTE(p) \in Pte
  BY PagePlace
<1>6. \A p \in pages : newdir[PDE(p)] # Nil
  <2> SUFFICES ASSUME NEW p \in pages PROVE newdir[PDE(p)] # Nil
    OBVIOUS
  <2>1. PDE(p) \in Pde
    BY <1>5
  <2>2. newdir[PDE(p)] = Entry(TblOf(t, PDE(p)), base_flags) \/ newdir[PDE(p)] # Nil
    BY <2>1
  <2> QED BY <1>2, <2>1, <2>2, Entries, Names
<1>7. ASSUME NEW d \in Pde
      PROVE  /\ dir[t][d] # Nil => newdir[d] = dir[t][d]
             /\ dir[t][d] = Nil /\ newdir[d] # Nil =>
                  newdir[d] = Entry(TblOf(t, d), base_flags) /\ \E p \in pages : PDE(p) = d
  BY Zenon
<1> HIDE DEF newdir
<1>8. dir'[t] = newdir /\ \A u \in Task : u # t => dir'[u] = dir[u]
  BY <1>1 DEF DirType
<1>9. DirType'
  BY <1>1, <1>3 DEF DirType
<1>10. WroteDir(t, pages)
  BY <1>7, <1>8, Zenon DEF WroteDir
<1>11. \A p, q \in pages : \A x, i : At(x, i, p) /\ At(x, i, q) => p = q
  BY <1>4, <1>5, <1>6, PageDetermined
<1>12. ASSUME NEW x \in Tbl, NEW i \in Pte
       PROVE  /\ \A p \in pages : At(x, i, p) => tbl'[x][i] = entry[p]
              /\ tbl'[x][i] # tbl[x][i] => \E p \in pages : At(x, i, p)
              /\ tbl'[x][i] \in TblEntry
  <2> DEFINE c == CHOOSE p \in pages : At(x, i, p)
  <2>1. tbl'[x][i] = IF \E p \in pages : At(x, i, p) THEN entry[c] ELSE tbl[x][i]
    BY <1>1
  <2>2. ASSUME NEW p \in pages, At(x, i, p) PROVE c = p
    <3>1. c \in pages /\ At(x, i, c)
      BY <2>2, Zenon
    <3> QED BY <1>11, <2>2, <3>1
  <2>3. tbl[x][i] \in TblEntry
    BY DEF TblType
  <2> HIDE DEF c, At
  <2> QED BY <2>1, <2>2, <2>3
<1>13. TblType'
  <2>1. tbl' = [x \in Tbl |-> [i \in Pte |-> tbl'[x][i]]]
    BY <1>1
  <2> QED BY <1>12, <2>1 DEF TblType
<1>14. ASSUME NEW p \in pages
       PROVE  /\ newdir[PDE(p)] # Nil /\ newdir[PDE(p)].to[2] = PDE(p)
              /\ newdir[PDE(p)].to \in Tbl
              /\ tbl'[newdir[PDE(p)].to][PTE(p)] = entry[p]
  BY <1>4, <1>5, <1>6, <1>12
<1>15. WroteTbl(t, pages, entry)
  <2>1. \A x \in Tbl, i \in Pte : tbl'[x][i] # tbl[x][i] =>
          \E p \in pages : dir'[t][PDE(p)].to = x /\ PTE(p) = i
    BY <1>8, <1>12
  <2>2. \A p \in pages : /\ dir'[t][PDE(p)] # Nil /\ dir'[t][PDE(p)].to[2] = PDE(p)
                         /\ dir'[t][PDE(p)].to \in Tbl
                         /\ tbl'[dir'[t][PDE(p)].to][PTE(p)] = entry[p]
    BY <1>8, <1>14
  <2> QED BY <2>1, <2>2, Zenon DEF WroteTbl
<1> QED BY <1>9, <1>10, <1>13, <1>15

\* What is written may refer to a frame that other entries refer to only in
\* the kernel's half.
Fits(t, pages, entry) ==
  \A p \in pages : entry[p] # Nil =>
    /\ ~IsKernel(p) => entry[p].link = FALSE
    /\ IsKernel(p) => entry[p].link = TRUE
    /\ \A y \in Tbl, j \in Pte : entry[p].to = tbl[y][j].to =>
         \/ y = dir'[t][PDE(p)].to /\ j = PTE(p)
         \/ IsKernel(p) /\ y[2] >= KCol
    /\ \A q \in pages : entry[p].to = entry[q].to => p = q

LEMMA WriteSpace ==
  ASSUME DirType, TblType, Columns, Links, FramesApart, tasks \subseteq Task,
         NEW t \in tasks, NEW pages \in SUBSET Pages, NEW entry \in [pages -> TblEntry],
         DirType', TblType', WroteDir(t, pages), WroteTbl(t, pages, entry),
         Fits(t, pages, entry), (\E p \in pages : ~IsKernel(p)) => base_flags = FALSE,
         tasks' = tasks
  PROVE  Columns' /\ Links' /\ FramesApart'
<1>0. t \in Task /\ \A p \in pages : PDE(p) \in Pde /\ PTE(p) \in Pte
                                      /\ (IsKernel(p) <=> PDE(p) >= KCol)
  BY PagePlace
<1>1. KCol \in Nat /\ \A d \in Pde : d \in Nat
  BY UserPlace
<1>2. Columns'
  <2> SUFFICES ASSUME NEW u \in Task, NEW d \in Pde, dir'[u][d] # Nil
               PROVE  /\ u \in tasks
                      /\ dir'[u][d].to[1] \in tasks /\ dir'[u][d].to[2] = d
                      /\ d < KCol => dir'[u][d] = Entry(TblOf(u, d), FALSE)
    BY DEF Columns, KCol, PDE, PageOf
  <2>1. CASE dir'[u][d] = dir[u][d]
    <3>1. /\ u \in tasks
          /\ dir[u][d].to[1] \in tasks /\ dir[u][d].to[2] = d
          /\ d < KCol => dir[u][d] = Entry(TblOf(u, d), FALSE)
      BY <2>1, Zenon DEF Columns
    <3> QED BY <2>1, <3>1, Zenon
  <2>2. CASE dir'[u][d] # dir[u][d]
    <3>1. u = t
      BY <2>2 DEF WroteDir
    <3>2. dir'[t][d] = Entry(TblOf(t, d), base_flags) /\ \E p \in pages : PDE(p) = d
      BY <2>2, <3>1 DEF WroteDir
    <3>3. d < KCol => base_flags = FALSE
      BY <1>0, <1>1, <3>2
    <3>4. base_flags \in BOOLEAN
      BY DEF base_flags
    <3>5. dir'[t][d].to = TblOf(t, d)
      BY <1>0, <3>2, <3>4, Entries, Names
    <3>6. dir'[t][d].to[1] = t /\ dir'[t][d].to[2] = d
      BY <1>0, <3>5, Names
    <3> QED BY <3>1, <3>2, <3>3, <3>6
  <2> QED BY <2>1, <2>2
<1>3. Links'
  <2> SUFFICES ASSUME NEW x \in Tbl, NEW i \in Pte, tbl'[x][i] # Nil
               PROVE  /\ x[2] < KCol => tbl'[x][i].link = FALSE
                      /\ x[2] >= KCol => tbl'[x][i].link = TRUE
    BY DEF Links, KCol, PDE, PageOf
  <2>1. CASE tbl'[x][i] = tbl[x][i]
    BY <2>1 DEF Links
  <2>2. CASE tbl'[x][i] # tbl[x][i]
    <3>1. PICK p \in pages : dir'[t][PDE(p)].to = x /\ PTE(p) = i
      BY <2>2 DEF WroteTbl
    <3>2. x[2] = PDE(p) /\ tbl'[x][i] = entry[p]
      BY <3>1 DEF WroteTbl
    <3>3. /\ ~IsKernel(p) => entry[p].link = FALSE
          /\ IsKernel(p) => entry[p].link = TRUE
      BY <3>2 DEF Fits
    <3>4. IsKernel(p) <=> x[2] >= KCol
      BY <1>0, <3>2
    <3>5. x[2] < KCol => ~(x[2] >= KCol)
      BY <1>0, <1>1, <3>2
    <3> QED BY <3>2, <3>3, <3>4, <3>5
  <2> QED BY <2>1, <2>2
<1>4. FramesApart'
  <2> SUFFICES ASSUME NEW x \in Tbl, NEW y \in Tbl, NEW i \in Pte, NEW j \in Pte,
                      x[2] < KCol, tbl'[x][i] # Nil, tbl'[x][i].to = tbl'[y][j].to
               PROVE  x = y /\ i = j
    BY DEF FramesApart, KCol, PDE, PageOf
  <2>0. x[2] \in Nat /\ ~(x[2] >= KCol)
    BY <1>1, Names
  <2>1. ASSUME NEW z \in Tbl, NEW k \in Pte, tbl'[z][k] # tbl[z][k]
        PROVE  \E p \in pages : /\ dir'[t][PDE(p)].to = z /\ PTE(p) = k /\ z[2] = PDE(p)
                                /\ tbl'[z][k] = entry[p]
    BY <2>1 DEF WroteTbl
  <2>2. CASE tbl'[x][i] = tbl[x][i] /\ tbl'[y][j] = tbl[y][j]
    BY <2>2 DEF FramesApart
  <2>3. CASE tbl'[x][i] # tbl[x][i] /\ tbl'[y][j] = tbl[y][j]
    <3>1. PICK p \in pages : /\ dir'[t][PDE(p)].to = x /\ PTE(p) = i /\ x[2] = PDE(p)
                             /\ tbl'[x][i] = entry[p]
      BY <2>1, <2>3
    <3>2. ~IsKernel(p)
      BY <1>0, <2>0, <3>1
    <3> QED BY <2>3, <3>1, <3>2 DEF Fits
  <2>4. CASE tbl'[x][i] = tbl[x][i] /\ tbl'[y][j] # tbl[y][j]
    <3>1. PICK p \in pages : /\ dir'[t][PDE(p)].to = y /\ PTE(p) = j /\ y[2] = PDE(p)
                             /\ tbl'[y][j] = entry[p]
      BY <2>1, <2>4
    <3>2. entry[p] # Nil
      <4>1. tbl'[x][i].to \in Frame
        BY Entries DEF TblType
      <4> QED BY <3>1, <4>1, Names
    <3> QED BY <2>0, <2>4, <3>1, <3>2 DEF Fits
  <2>5. CASE tbl'[x][i] # tbl[x][i] /\ tbl'[y][j] # tbl[y][j]
    <3>1. PICK p \in pages : dir'[t][PDE(p)].to = x /\ PTE(p) = i /\ tbl'[x][i] = entry[p]
      BY <2>1, <2>5
    <3>2. PICK q \in pages : dir'[t][PDE(q)].to = y /\ PTE(q) = j /\ tbl'[y][j] = entry[q]
      BY <2>1, <2>5
    <3>3. p = q
      BY <3>1, <3>2 DEF Fits
    <3> QED BY <3>1, <3>2, <3>3
  <2> QED BY <2>2, <2>3, <2>4, <2>5
<1> QED BY <1>2, <1>3, <1>4

-----------------------------------------------------------------------------
(* Allocation and unmapping *)

Space == DirType /\ TblType /\ Columns /\ Links /\ FramesApart

\* Every set of natural numbers that is not empty has a least element.
LEMMA LeastNumber ==
  ASSUME NEW T \in SUBSET Nat, T # {}
  PROVE  \E n \in T : \A m \in T : n <= m
<1> DEFINE Less == OpToRel(<, Nat)
<1>1. IsWellFoundedOn(Less, Nat)
  BY NatLessThanWellFounded
<1>2. \A n, m \in Nat : n < m => <<n, m>> \in Less
  BY DEF OpToRel
<1> HIDE DEF Less
<1>3. PICK n \in T : \A m \in T : ~ (<<m, n>> \in Less)
  BY <1>1, WFMin
<1>4. \A m \in T : ~ (m < n)
  BY <1>2, <1>3
<1> QED BY <1>4

\* frame_alloc takes, for each page, a frame no other entry refers to.
LEMMA FrameAllocFacts ==
  ASSUME NEW t \in Task, NEW pages \in SUBSET Pages, \A p \in pages : Free(t, p) # {},
         NEW p \in pages
  PROVE  /\ frame_alloc(t, pages)[p] \in Frame /\ frame_alloc(t, pages)[p][2] = p
         /\ frame_alloc(t, pages)[p] \notin Elsewhere(t, p)
<1> DEFINE k == CHOOSE n \in Free(t, p) : \A j \in Free(t, p) : n <= j
<1>1. Free(t, p) \in SUBSET Nat /\ Free(t, p) # {}
  BY Sizes DEF Free
<1>2. k \in Free(t, p)
  BY <1>1, LeastNumber
<1>3. frame_alloc(t, pages)[p] = FrameOf(t, p, k)
  BY DEF frame_alloc
<1> HIDE DEF k
<1>4. k \in 0 .. Generations - 1 /\ FrameOf(t, p, k) \notin Elsewhere(t, p)
  BY <1>2 DEF Free
<1> QED BY <1>3, <1>4, Names

LEMMA ElsewhereFact ==
  ASSUME NEW t \in Task, NEW p \in Pages, NEW y \in Tbl, NEW j \in Pte,
         tbl[y][j].to \notin Elsewhere(t, p)
  PROVE  y = dir[t][PDE(p)].to /\ j = PTE(p)
<1>1. <<y, j>> \in Tbl \X Pte /\ <<y, j>>[1] = y /\ <<y, j>>[2] = j
  OBVIOUS
<1>2. <<y, j>> \in {<<dir[t][PDE(p)].to, PTE(p)>>}
  BY <1>1, Zenon DEF Elsewhere
<1> QED BY <1>2

\* What pg_alloc does: the entries it writes and the frames it clears.
Allocated(t, pages, entry) ==
  /\ WroteDir(t, pages) /\ WroteTbl(t, pages, entry)
  /\ \A p \in pages :
       /\ entry[p] # Nil /\ entry[p].link = base_flags
       /\ entry[p].to \notin Elsewhere(t, p) /\ entry[p].to[2] = p
  /\ data' = [f \in Frame |-> IF \E p \in pages : f = entry[p].to THEN 0 ELSE data[f]]

LEMMA AllocFacts ==
  ASSUME DirType, TblType, Columns, NEW t \in Task, NEW pages \in SUBSET Pages,
         pg_alloc(t, pages)
  PROVE  /\ DirType' /\ TblType'
         /\ \E entry \in [pages -> TblEntry] : Allocated(t, pages, entry)
<1> DEFINE frame == frame_alloc(t, pages)
           entry == [p \in pages |-> Entry(frame[p], base_flags)]
<1>0. base_flags \in BOOLEAN
  BY DEF base_flags
<1>1. /\ \A p \in pages : Free(t, p) # {}
      /\ pg_write_entry(t, entry)
      /\ data' = [f \in Frame |-> IF \E p \in pages : f = frame[p] THEN 0 ELSE data[f]]
  BY Zenon DEF pg_alloc
<1>2. \A p \in pages : /\ frame[p] \in Frame /\ frame[p][2] = p
                       /\ frame[p] \notin Elsewhere(t, p)
  BY <1>1, FrameAllocFacts
<1> HIDE DEF frame
<1>3. \A p \in pages : /\ entry[p] \in TblEntry /\ entry[p] # Nil
                       /\ entry[p].link = base_flags /\ entry[p].to = frame[p]
  BY <1>0, <1>2, Entries, Zenon
<1>4. entry \in [pages -> TblEntry]
  BY <1>3
<1> HIDE DEF entry
<1>5. DirType' /\ TblType' /\ WroteDir(t, pages) /\ WroteTbl(t, pages, entry)
  BY <1>1, <1>4, WriteFacts
<1>6. data' = [f \in Frame |-> IF \E p \in pages : f = entry[p].to THEN 0 ELSE data[f]]
  BY <1>1, <1>3
<1>7. \A p \in pages :
        /\ entry[p] # Nil /\ entry[p].link = base_flags
        /\ entry[p].to \notin Elsewhere(t, p) /\ entry[p].to[2] = p
  BY <1>2, <1>3
<1>8. Allocated(t, pages, entry)
  BY <1>5, <1>6, <1>7, Zenon DEF Allocated
<1> QED BY <1>4, <1>5, <1>8

\* What a user page maps to is in the task's own table, and nowhere else.
LEMMA OwnTable ==
  ASSUME DirType, TblType, Columns, NEW u \in Task, NEW q \in Pages, ~IsKernel(q),
         Lookup(u, q) # Nil
  PROVE  /\ dir[u][PDE(q)] # Nil /\ dir[u][PDE(q)].to = TblOf(u, PDE(q))
         /\ Lookup(u, q) = tbl[TblOf(u, PDE(q))][PTE(q)]
         /\ TblOf(u, PDE(q)) \in Tbl /\ PTE(q) \in Pte /\ PDE(q) < KCol /\ PDE(q) \in Pde
         /\ Lookup(u, q) \in TblEntry /\ Lookup(u, q).to \in Frame
<1>1. PDE(q) \in Pde /\ PTE(q) \in Pte /\ PDE(q) < KCol
  BY PagePlace, UserPlace
<1>2. dir[u][PDE(q)] # Nil /\ Lookup(u, q) = tbl[dir[u][PDE(q)].to][PTE(q)]
  BY DEF Lookup
<1>3. dir[u][PDE(q)] = Entry(TblOf(u, PDE(q)), FALSE)
  BY <1>1, <1>2, Zenon DEF Columns
<1>4. TblOf(u, PDE(q)) \in Tbl
  BY <1>1, Names
<1>5. dir[u][PDE(q)].to = TblOf(u, PDE(q))
  BY <1>3, <1>4, Entries
<1>6. Lookup(u, q) \in TblEntry
  BY <1>1, <1>2, <1>4, <1>5 DEF TblType
<1> QED BY <1>1, <1>2, <1>4, <1>5, <1>6, Entries

\* The cell of any page that is mapped.
LEMMA LookupCell ==
  ASSUME DirType, TblType, Columns, NEW u \in Task, NEW q \in Pages
  PROVE  /\ Lookup(u, q) \in TblEntry
         /\ dir[u][PDE(q)] # Nil =>
              /\ dir[u][PDE(q)].to \in Tbl /\ dir[u][PDE(q)].to[2] = PDE(q)
              /\ dir[u][PDE(q)].to[1] \in tasks /\ u \in tasks
              /\ Lookup(u, q) = tbl[dir[u][PDE(q)].to][PTE(q)]
         /\ dir[u][PDE(q)] = Nil => Lookup(u, q) = Nil
<1>1. PDE(q) \in Pde /\ PTE(q) \in Pte
  BY PagePlace
<1>2. CASE dir[u][PDE(q)] = Nil
  BY <1>2, Entries DEF Lookup
<1>3. CASE dir[u][PDE(q)] # Nil
  <2>1. dir[u][PDE(q)].to[2] = PDE(q) /\ dir[u][PDE(q)].to[1] \in tasks /\ u \in tasks
    BY <1>1, <1>3, Zenon DEF Columns
  <2>2. dir[u][PDE(q)].to \in Tbl
    BY <1>1, <1>3, Entries DEF DirType
  <2>3. Lookup(u, q) = tbl[dir[u][PDE(q)].to][PTE(q)]
    BY <1>3 DEF Lookup
  <2> QED BY <1>1, <1>3, <2>1, <2>2, <2>3 DEF TblType
<1> QED BY <1>2, <1>3

LEMMA OneMapping ==
  ASSUME DirType, TblType, Columns, FramesApart, NEW t \in Task, NEW u \in Task,
         NEW p \in Pages, NEW q \in Pages, ~IsKernel(q), Lookup(u, q) # Nil,
         Lookup(u, q).to = Lookup(t, p).to
  PROVE  t = u /\ p = q
<1>1. /\ Lookup(u, q) = tbl[TblOf(u, PDE(q))][PTE(q)]
      /\ TblOf(u, PDE(q)) \in Tbl /\ PTE(q) \in Pte /\ PDE(q) < KCol /\ PDE(q) \in Pde
      /\ Lookup(u, q).to \in Frame
  BY OwnTable
<1>2. PDE(p) \in Pde /\ PTE(p) \in Pte
  BY PagePlace
<1>3. dir[t][PDE(p)] # Nil
  BY <1>1, LookupCell, Names
<1>4. /\ dir[t][PDE(p)].to \in Tbl /\ dir[t][PDE(p)].to[2] = PDE(p)
      /\ Lookup(t, p) = tbl[dir[t][PDE(p)].to][PTE(p)]
  BY <1>3, LookupCell
<1>5. TblOf(u, PDE(q))[2] = PDE(q)
  BY <1>1, Names
<1>6. TblOf(u, PDE(q)) = dir[t][PDE(p)].to /\ PTE(q) = PTE(p)
  BY <1>1, <1>2, <1>4, <1>5 DEF FramesApart
<1>7. PDE(p) = PDE(q)
  BY <1>4, <1>5, <1>6
<1>8. p = q
  BY <1>6, <1>7, PageDetermined
<1>9. dir[t][PDE(p)] = Entry(TblOf(t, PDE(p)), FALSE)
  BY <1>1, <1>3, <1>7, Zenon DEF Columns
<1>10. TblOf(u, PDE(q)) = TblOf(t, PDE(q))
  BY <1>1, <1>6, <1>7, <1>9, Entries, Names
<1> QED BY <1>1, <1>8, <1>10, Names

\* Task u sees the same user memory after a step.
SeesSame(u) ==
  \A q \in Pages : ~IsKernel(q) =>
    /\ Lookup(u, q)' = Lookup(u, q)
    /\ Lookup(u, q) # Nil => data'[Lookup(u, q).to] = data[Lookup(u, q).to]

\* Writing to the directory of t changes the user memory of no other task, and
\* of none if the pages are the kernel's.
LEMMA WriteView ==
  ASSUME DirType, TblType, Columns, DirType', TblType', Columns', NEW t \in Task,
         NEW pages \in SUBSET Pages, NEW entry \in [pages -> TblEntry],
         WroteDir(t, pages), WroteTbl(t, pages, entry),
         NEW u \in Task, u # t \/ \A p \in pages : IsKernel(p),
         NEW q \in Pages, ~IsKernel(q)
  PROVE  Lookup(u, q)' = Lookup(u, q)
<1>1. PDE(q) \in Pde /\ PTE(q) \in Pte /\ PDE(q) < KCol /\ KCol \in Nat /\ PDE(q) \in Nat
  BY PagePlace, UserPlace
<1>2. \A p \in pages : PDE(p) \in Pde /\ (IsKernel(p) <=> PDE(p) >= KCol)
  BY PagePlace
<1>3. dir'[u][PDE(q)] = dir[u][PDE(q)]
  BY <1>1, <1>2 DEF WroteDir
<1>4. CASE dir[u][PDE(q)] = Nil
  BY <1>3, <1>4 DEF Lookup, PDE
<1>5. CASE dir[u][PDE(q)] # Nil
  <2>1. dir[u][PDE(q)] = Entry(TblOf(u, PDE(q)), FALSE)
    BY <1>1, <1>5, Zenon DEF Columns
  <2>2. TblOf(u, PDE(q)) \in Tbl /\ TblOf(u, PDE(q))[2] = PDE(q) /\ TblOf(u, PDE(q))[1] = u
    BY <1>1, Names
  <2>3. dir[u][PDE(q)].to = TblOf(u, PDE(q))
    BY <2>1, <2>2, Entries
  <2>4. tbl'[TblOf(u, PDE(q))][PTE(q)] = tbl[TblOf(u, PDE(q))][PTE(q)]
    <3> SUFFICES ASSUME NEW p \in pages, dir'[t][PDE(p)].to = TblOf(u, PDE(q))
                 PROVE  FALSE
      BY <1>1, <2>2 DEF WroteTbl
    <3>1. PDE(p) = PDE(q) /\ dir'[t][PDE(p)] # Nil
      BY <2>2 DEF WroteTbl
    <3>2. u # t
      BY <1>1, <1>2, <3>1
    <3>3. dir'[t][PDE(q)] = Entry(TblOf(t, PDE(q)), FALSE)
      <4>1. Columns' <=> \A v \in Task, d \in Pde : dir'[v][d] # Nil =>
              /\ v \in tasks'
              /\ dir'[v][d].to[1] \in tasks' /\ dir'[v][d].to[2] = d
              /\ d < KCol => dir'[v][d] = Entry(TblOf(v, d), FALSE)
        BY DEF Columns, KCol, PDE, PageOf
      <4> QED BY <1>1, <3>1, <4>1, Zenon
    <3>4. TblOf(t, PDE(q)) \in Tbl /\ TblOf(t, PDE(q))[1] = t
      BY <1>1, Names
    <3>5. dir'[t][PDE(q)].to = TblOf(t, PDE(q))
      BY <3>3, <3>4, Entries
    <3> QED BY <2>2, <3>1, <3>2, <3>4, <3>5
  <2> QED BY <1>3, <1>5, <2>3, <2>4 DEF Lookup, PDE, PTE
<1> QED BY <1>4, <1>5

\* pg_alloc for pages of one half.
LEMMA AllocStep ==
  ASSUME Space, tasks \subseteq Task, data \in [Frame -> {0, 1}],
         NEW t \in tasks, NEW pages \in SUBSET Pages, pg_alloc(t, pages), tasks' = tasks,
         \/ base_flags = FALSE /\ \A p \in pages : ~IsKernel(p)
         \/ base_flags = TRUE /\ \A p \in pages : IsKernel(p)
  PROVE  /\ Space' /\ data' \in [Frame -> {0, 1}]
         /\ \A u \in Task : (u # t \/ \A p \in pages : IsKernel(p)) => SeesSame(u)
<1> USE DEF Space
<1>1. DirType' /\ TblType'
  BY AllocFacts
<1>2. PICK entry \in [pages -> TblEntry] : Allocated(t, pages, entry)
  BY AllocFacts
<1>3. /\ WroteDir(t, pages) /\ WroteTbl(t, pages, entry)
      /\ \A p \in pages : /\ entry[p] # Nil /\ entry[p].link = base_flags
                          /\ entry[p].to \notin Elsewhere(t, p) /\ entry[p].to[2] = p
      /\ data' = [f \in Frame |-> IF \E p \in pages : f = entry[p].to THEN 0 ELSE data[f]]
  BY <1>2, Zenon DEF Allocated
<1>4. ASSUME NEW p \in pages, NEW y \in Tbl, NEW j \in Pte, entry[p].to = tbl[y][j].to
      PROVE  y = dir'[t][PDE(p)].to /\ j = PTE(p)
  <2>1. y = dir[t][PDE(p)].to /\ j = PTE(p)
    BY <1>3, <1>4, ElsewhereFact
  <2>2. PDE(p) \in Pde
    BY PagePlace
  <2>3. dir[t][PDE(p)] # Nil
    BY <2>1, Names
  <2> QED BY <1>3, <2>1, <2>2, <2>3 DEF WroteDir
<1>5. Fits(t, pages, entry)
  <2> SUFFICES ASSUME NEW p \in pages
               PROVE  /\ ~IsKernel(p) => entry[p].link = FALSE
                      /\ IsKernel(p) => entry[p].link = TRUE
                      /\ \A y \in Tbl, j \in Pte : entry[p].to = tbl[y][j].to =>
                           \/ y = dir'[t][PDE(p)].to /\ j = PTE(p)
                           \/ IsKernel(p) /\ y[2] >= KCol
                      /\ \A q \in pages : entry[p].to = entry[q].to => p = q
    BY Zenon DEF Fits
  <2>1. \A q \in pages : entry[p].to = entry[q].to => p = q
    BY <1>3
  <2>2. /\ ~IsKernel(p) => entry[p].link = FALSE
        /\ IsKernel(p) => entry[p].link = TRUE
    BY <1>3
  <2> QED BY <1>4, <2>1, <2>2
<1>6. (\E p \in pages : ~IsKernel(p)) => base_flags = FALSE
  OBVIOUS
<1>7. Columns' /\ Links' /\ FramesApart'
  BY <1>1, <1>3, <1>5, <1>6, WriteSpace
<1>8. data' \in [Frame -> {0, 1}]
  BY <1>3
<1>9. ASSUME NEW u \in Task, u # t \/ \A p \in pages : IsKernel(p),
             NEW q \in Pages, ~IsKernel(q)
      PROVE  /\ Lookup(u, q)' = Lookup(u, q)
             /\ Lookup(u, q) # Nil => data'[Lookup(u, q).to] = data[Lookup(u, q).to]
  <2>1. Lookup(u, q)' = Lookup(u, q)
    BY <1>1, <1>3, <1>7, <1>9, WriteView
  <2>2. ASSUME Lookup(u, q) # Nil, NEW p \in pages, Lookup(u, q).to = entry[p].to
        PROVE  FALSE
    <3>1. /\ Lookup(u, q) = tbl[TblOf(u, PDE(q))][PTE(q)]
          /\ TblOf(u, PDE(q)) \in Tbl /\ PTE(q) \in Pte /\ PDE(q) < KCol /\ PDE(q) \in Pde
      BY <1>9, <2>2, OwnTable
    <3>2. TblOf(u, PDE(q)) = dir'[t][PDE(p)].to
      BY <1>4, <2>2, <3>1
    <3>3. PDE(p) = PDE(q)
      BY <1>3, <3>1, <3>2, Names DEF WroteTbl
    <3>4. u # t
      BY <1>9, <3>1, <3>3, PagePlace, UserPlace
    <3>5. /\ dir[t][PDE(p)] # Nil => dir'[t][PDE(p)] = dir[t][PDE(p)]
          /\ dir[t][PDE(p)] = Nil => dir'[t][PDE(p)] = Entry(TblOf(t, PDE(p)), base_flags)
      BY <1>3, <3>1, <3>3 DEF WroteDir, WroteTbl
    <3>6. dir[t][PDE(p)] # Nil => dir[t][PDE(p)] = Entry(TblOf(t, PDE(p)), FALSE)
      <4>1. PDE(p) \in Pde /\ PDE(p) < KCol /\ t \in Task
        BY <3>1, <3>3
      <4> QED BY <4>1, Zenon DEF Columns
    <3>7. base_flags \in BOOLEAN /\ t \in Task
      BY DEF base_flags
    <3>8. dir'[t][PDE(p)].to = TblOf(t, PDE(p))
      <4>1. TblOf(t, PDE(p)) \in Tbl
        BY <3>1, <3>3, <3>7, Names
      <4>2. /\ Entry(TblOf(t, PDE(p)), base_flags).to = TblOf(t, PDE(p))
            /\ Entry(TblOf(t, PDE(p)), FALSE).to = TblOf(t, PDE(p))
        BY <3>7, <4>1, Entries
      <4> QED BY <3>5, <3>6, <4>2
    <3> QED BY <3>1, <3>2, <3>3, <3>4, <3>7, <3>8, Names
  <2>3. Lookup(u, q) # Nil => Lookup(u, q).to \in Frame
    BY <1>9, OwnTable
  <2> QED BY <1>3, <2>1, <2>2, <2>3
<1>10. \A u \in Task : (u # t \/ \A p \in pages : IsKernel(p)) => SeesSame(u)
  BY <1>9 DEF SeesSame
<1> QED BY <1>1, <1>7, <1>8, <1>10

\* pg_unmap for any pages.
LEMMA UnmapStep ==
  ASSUME Space, tasks \subseteq Task, data \in [Frame -> {0, 1}],
         NEW t \in tasks, NEW pages \in SUBSET Pages, pg_unmap(t, pages), tasks' = tasks,
         base_flags = FALSE \/ \A p \in pages : IsKernel(p)
  PROVE  /\ Space' /\ data' \in [Frame -> {0, 1}]
         /\ WroteDir(t, pages) /\ WroteTbl(t, pages, [p \in pages |-> Nil])
         /\ \A u \in Task : (u # t \/ \A p \in pages : IsKernel(p)) => SeesSame(u)
<1> USE DEF Space
<1> DEFINE entry == [p \in pages |-> Nil]
<1>0. entry \in [pages -> TblEntry] /\ \A p \in pages : entry[p] = Nil
  BY Entries
<1>1. /\ pg_write_entry(t, entry)
      /\ data' = [f \in Frame |->
           IF \E p \in pages : f = Lookup(t, p).to THEN 0 ELSE data[f]]
  BY DEF pg_unmap
<1> HIDE DEF entry
<1>2. DirType' /\ TblType' /\ WroteDir(t, pages) /\ WroteTbl(t, pages, entry)
  BY <1>0, <1>1, WriteFacts
<1>3. Fits(t, pages, entry)
  BY <1>0 DEF Fits
<1>4. (\E p \in pages : ~IsKernel(p)) => base_flags = FALSE
  OBVIOUS
<1>5. Columns' /\ Links' /\ FramesApart'
  BY <1>0, <1>2, <1>3, <1>4, WriteSpace
<1>6. ASSUME NEW u \in Task, u # t \/ \A p \in pages : IsKernel(p),
             NEW q \in Pages, ~IsKernel(q)
      PROVE  /\ Lookup(u, q)' = Lookup(u, q)
             /\ Lookup(u, q) # Nil => data'[Lookup(u, q).to] = data[Lookup(u, q).to]
  <2>1. Lookup(u, q)' = Lookup(u, q)
    BY <1>0, <1>2, <1>5, <1>6, WriteView
  <2>2. ASSUME Lookup(u, q) # Nil, NEW p \in pages, Lookup(u, q).to = Lookup(t, p).to
        PROVE  FALSE
    BY <1>6, <2>2, OneMapping
  <2>3. Lookup(u, q) # Nil => Lookup(u, q).to \in Frame
    BY <1>6, OwnTable
  <2> QED BY <1>1, <2>1, <2>2, <2>3
<1>7. \A u \in Task : (u # t \/ \A p \in pages : IsKernel(p)) => SeesSame(u)
  BY <1>6 DEF SeesSame
<1>8. data' \in [Frame -> {0, 1}]
  BY <1>1
<1> QED BY <1>2, <1>5, <1>7, <1>8 DEF entry

-----------------------------------------------------------------------------
(* Fork *)

\* The clone sees what the running task sees, in frames of its own.
SeesCopy(c) ==
  \A q \in Pages : ~IsKernel(q) =>
    /\ Lookup(c, q)' = Nil <=> Lookup(running, q) = Nil
    /\ Lookup(running, q) # Nil =>
         data'[tbl'[dir'[c][PDE(q)].to][PTE(q)].to] = data[Lookup(running, q).to]

\* The pages pg_clone_dir copies: the pages of user memory.
Copied == {p \in Pages : PDE(p) \in Own /\ Lookup(running, p) # Nil /\ ~Lookup(running, p).link}

LEMMA CopiedFacts ==
  ASSUME Space, running \in Task, NEW p \in Pages, PDE(p) \in Own \/ ~IsKernel(p)
  PROVE  IF IsKernel(p) THEN p \notin Copied
         ELSE (p \in Copied <=> Lookup(running, p) # Nil)
<1> USE DEF Space
<1>1. PDE(p) \in Pde /\ PTE(p) \in Pte /\ (IsKernel(p) <=> PDE(p) >= KCol)
  BY PagePlace
<1>2. KCol \in Nat /\ PDE(p) \in Nat
  BY <1>1, UserPlace
<1>3. ASSUME Lookup(running, p) # Nil
      PROVE  /\ dir[running][PDE(p)] # Nil /\ dir[running][PDE(p)].to \in Tbl
             /\ dir[running][PDE(p)].to[2] = PDE(p)
             /\ Lookup(running, p) = tbl[dir[running][PDE(p)].to][PTE(p)]
  BY <1>3, LookupCell
<1>4. ASSUME Lookup(running, p) # Nil
      PROVE  /\ ~IsKernel(p) => Lookup(running, p).link = FALSE
             /\ IsKernel(p) => Lookup(running, p).link = TRUE
  BY <1>1, <1>2, <1>3, <1>4 DEF Links
<1>5. ASSUME Lookup(running, p) # Nil, ~IsKernel(p)
      PROVE  PDE(p) \in Own
  <2>1. dir[running][PDE(p)] = Entry(TblOf(running, PDE(p)), FALSE)
    <3>1. PDE(p) < KCol
      BY <1>1, <1>2, <1>5
    <3> QED BY <1>1, <1>3, <1>5, <3>1, Zenon DEF Columns
  <2>2. dir[running][PDE(p)].link = FALSE
    BY <2>1 DEF Entry
  <2> QED BY <1>1, <1>3, <1>5, <2>2 DEF Own
<1>6. CASE IsKernel(p)
  BY <1>4, <1>6 DEF Copied
<1>7. CASE ~IsKernel(p)
  BY <1>4, <1>5, <1>7 DEF Copied
<1> QED BY <1>6, <1>7

\* What pg_clone_dir does to a directory, to the tables and to the frames.
ClonedTo(c, frame) ==
  /\ \A u \in Task : u # c => dir'[u] = dir[u]
  /\ \A d \in Pde : dir'[c][d] = IF d \in Own THEN Entry(TblOf(c, d), FALSE) ELSE dir[running][d]
  /\ \A x \in Tbl, i \in Pte : ~ (x[1] = c /\ x[2] \in Own) => tbl'[x][i] = tbl[x][i]
  /\ \A p \in Pages : PDE(p) \in Own =>
       tbl'[TblOf(c, PDE(p))][PTE(p)] =
         IF p \in Copied THEN Entry(frame[p], FALSE) ELSE Lookup(running, p)
  /\ \A p \in Copied :
       /\ frame[p] \in Frame /\ frame[p][2] = p
       /\ data'[frame[p]] = data[Lookup(running, p).to]
       /\ \A y \in Tbl, j \in Pte : frame[p] # tbl[y][j].to
  /\ \A f \in Frame : (\A p \in Copied : f # frame[p]) => data'[f] = data[f]

LEMMA CloneFacts ==
  ASSUME Space, tasks \subseteq Task, running \in tasks, data \in [Frame -> {0, 1}],
         NEW c \in Task \ tasks, pg_clone_dir(c)
  PROVE  /\ DirType' /\ TblType' /\ data' \in [Frame -> {0, 1}]
         /\ \E frame : ClonedTo(c, frame)
<1> USE DEF Space
<1> DEFINE frame == frame_alloc(c, Copied)
           clone(p) == IF p \in Copied THEN Entry(frame[p], FALSE) ELSE Lookup(running, p)
<1>1. /\ \A p \in Copied : Free(c, p) # {}
      /\ dir' = [dir EXCEPT ![c] = [d \in Pde |->
           IF d \in Own THEN Entry(TblOf(c, d), FALSE) ELSE dir[running][d]]]
      /\ tbl' = [x \in Tbl |-> [i \in Pte |->
           IF x[1] = c /\ x[2] \in Own THEN clone(x[2] * ENTRIES + i) ELSE tbl[x][i]]]
      /\ data' = [f \in Frame |->
           IF \E p \in Copied : f = frame[p]
           THEN data[Lookup(running, CHOOSE p \in Copied : f = frame[p]).to]
           ELSE data[f]]
  BY Zenon DEF pg_clone_dir, Copied
<1>2. c \in Task /\ running \in Task /\ Copied \in SUBSET Pages
  BY DEF Copied
<1>3. \A d \in Pde : dir[c][d] = Nil
  BY <1>2 DEF Columns
<1>4. ASSUME NEW p \in Copied
      PROVE  /\ frame[p] \in Frame /\ frame[p][2] = p
             /\ frame[p] \notin Elsewhere(c, p)
  BY <1>1, <1>2, FrameAllocFacts
<1> HIDE DEF frame
<1>5. ASSUME NEW p \in Copied, NEW y \in Tbl, NEW j \in Pte
      PROVE  frame[p] # tbl[y][j].to
  <2> SUFFICES ASSUME frame[p] = tbl[y][j].to PROVE FALSE
    OBVIOUS
  <2>1. p \in Pages /\ PDE(p) \in Pde
    BY <1>2, PagePlace
  <2>2. y = dir[c][PDE(p)].to
    BY <1>2, <1>4, <2>1, ElsewhereFact
  <2> QED BY <1>3, <2>1, <2>2, Names
<1>6. \A p \in Pages : Lookup(running, p) \in TblEntry
  BY <1>2, LookupCell
<1>7. \A p \in Pages : clone(p) \in TblEntry
  BY <1>4, <1>6, Entries
<1>8. \A d \in Pde, i \in Pte : d * ENTRIES + i \in Pages
  BY PlacePage
<1>9. DirType'
  <2>1. \A d \in Pde : Entry(TblOf(c, d), FALSE) \in DirEntry /\ dir[running][d] \in DirEntry
    <3>1. \A d \in Pde : TblOf(c, d) \in Tbl
      BY <1>2, Names
    <3>2. \A d \in Pde : Entry(TblOf(c, d), FALSE) \in DirEntry
      BY <3>1 DEF DirEntry, Entry
    <3> QED BY <1>2, <3>2 DEF DirType
  <2> QED BY <1>1, <1>2, <2>1 DEF DirType
<1> HIDE DEF clone
<1>10. TblType'
  <2>1. \A x \in Tbl : x[2] \in Pde
    BY Names
  <2>2. \A x \in Tbl, i \in Pte : clone(x[2] * ENTRIES + i) \in TblEntry /\ tbl[x][i] \in TblEntry
    BY <1>7, <1>8, <2>1 DEF TblType
  <2> QED BY <1>1, <2>2 DEF TblType
<1>11. \A u \in Task : u # c => dir'[u] = dir[u]
  BY <1>1, <1>2 DEF DirType
<1>12. \A d \in Pde : dir'[c][d] =
          IF d \in Own THEN Entry(TblOf(c, d), FALSE) ELSE dir[running][d]
  BY <1>1, <1>2 DEF DirType
<1>13. \A x \in Tbl, i \in Pte : ~ (x[1] = c /\ x[2] \in Own) => tbl'[x][i] = tbl[x][i]
  BY <1>1
<1>14. ASSUME NEW p \in Pages, PDE(p) \in Own
       PROVE  tbl'[TblOf(c, PDE(p))][PTE(p)] =
                IF p \in Copied THEN Entry(frame[p], FALSE) ELSE Lookup(running, p)
  <2>1. PDE(p) \in Pde /\ PTE(p) \in Pte /\ p = PDE(p) * ENTRIES + PTE(p)
    BY PagePlace
  <2>2. /\ TblOf(c, PDE(p)) \in Tbl /\ TblOf(c, PDE(p))[1] = c
        /\ TblOf(c, PDE(p))[2] = PDE(p)
    BY <1>2, <2>1, Names
  <2>3. tbl'[TblOf(c, PDE(p))][PTE(p)] = clone(p)
    BY <1>1, <1>14, <2>1, <2>2
  <2> QED BY <2>3 DEF clone
<1>15. ASSUME NEW p \in Copied PROVE data'[frame[p]] = data[Lookup(running, p).to]
  <2> DEFINE q == CHOOSE q \in Copied : frame[p] = frame[q]
  <2>1. q \in Copied /\ frame[p] = frame[q]
    BY Zenon
  <2>2. q = p
    BY <1>4, <2>1
  <2>3. data'[frame[p]] = data[Lookup(running, q).to]
    BY <1>1, <1>4
  <2> HIDE DEF q
  <2> QED BY <2>2, <2>3
<1>16. \A f \in Frame : (\A p \in Copied : f # frame[p]) => data'[f] = data[f]
  BY <1>1
<1>17. data' \in [Frame -> {0, 1}]
  <2>1. \A p \in Copied : data[Lookup(running, p).to] \in {0, 1}
    <3>1. \A p \in Copied : Lookup(running, p) # Nil /\ p \in Pages
      BY DEF Copied
    <3> QED BY <1>6, <3>1, Entries
  <2>2. \A f \in Frame : data'[f] \in {0, 1}
    BY <1>15, <1>16, <2>1
  <2> QED BY <1>1, <2>2
<1>18. ClonedTo(c, frame)
  <2>1. \A p \in Copied :
       /\ frame[p] \in Frame /\ frame[p][2] = p
       /\ data'[frame[p]] = data[Lookup(running, p).to]
       /\ \A y \in Tbl, j \in Pte : frame[p] # tbl[y][j].to
    BY <1>4, <1>5, <1>15
  <2> QED BY <1>11, <1>12, <1>13, <1>14, <1>16, <2>1, Zenon DEF ClonedTo
<1> QED BY <1>9, <1>10, <1>17, <1>18

LEMMA CloneLookups ==
  ASSUME Space, tasks \subseteq Task, running \in tasks, NEW c \in Task \ tasks,
         NEW frame, ClonedTo(c, frame)
  PROVE  /\ \A u \in tasks, q \in Pages : Lookup(u, q)' = Lookup(u, q)
         /\ \A q \in Pages : Lookup(c, q)' =
              IF PDE(q) \in Own /\ q \in Copied THEN Entry(frame[q], FALSE)
              ELSE Lookup(running, q)
<1> USE DEF Space
<1>1. running \in Task /\ c \in Task
  OBVIOUS
<1>2. ASSUME NEW u \in tasks, NEW q \in Pages, dir[u][PDE(q)] # Nil
      PROVE  tbl'[dir[u][PDE(q)].to][PTE(q)] = tbl[dir[u][PDE(q)].to][PTE(q)]
  <2>1. /\ dir[u][PDE(q)].to \in Tbl /\ dir[u][PDE(q)].to[1] \in tasks
        /\ PTE(q) \in Pte
    BY <1>2, LookupCell, PagePlace
  <2> QED BY <2>1 DEF ClonedTo
<1>3. ASSUME NEW u \in tasks, NEW q \in Pages PROVE Lookup(u, q)' = Lookup(u, q)
  <2>1. dir'[u][PDE(q)] = dir[u][PDE(q)]
    BY DEF ClonedTo
  <2>2. Lookup(u, q)' = IF dir'[u][PDE(q)] = Nil THEN Nil
                        ELSE tbl'[dir'[u][PDE(q)].to][PTE(q)]
    BY DEF Lookup, PDE, PTE
  <2> QED BY <1>2, <2>1, <2>2 DEF Lookup
<1>4. ASSUME NEW q \in Pages
      PROVE  Lookup(c, q)' = IF PDE(q) \in Own /\ q \in Copied THEN Entry(frame[q], FALSE)
                             ELSE Lookup(running, q)
  <2>1. PDE(q) \in Pde
    BY PagePlace
  <2>2. Lookup(c, q)' = IF dir'[c][PDE(q)] = Nil THEN Nil
                        ELSE tbl'[dir'[c][PDE(q)].to][PTE(q)]
    BY DEF Lookup, PDE, PTE
  <2>3. CASE PDE(q) \in Own
    <3>1. dir'[c][PDE(q)] = Entry(TblOf(c, PDE(q)), FALSE) /\ TblOf(c, PDE(q)) \in Tbl
      BY <1>1, <2>1, <2>3, Names DEF ClonedTo
    <3>2. dir'[c][PDE(q)] # Nil /\ dir'[c][PDE(q)].to = TblOf(c, PDE(q))
      BY <3>1, Names DEF Entry
    <3>3. tbl'[TblOf(c, PDE(q))][PTE(q)] =
            IF q \in Copied THEN Entry(frame[q], FALSE) ELSE Lookup(running, q)
      BY <2>3, Zenon DEF ClonedTo
    <3>4. Lookup(c, q)' = tbl'[TblOf(c, PDE(q))][PTE(q)]
      BY <2>2, <3>2
    <3> QED BY <2>3, <3>3, <3>4, Zenon
  <2>4. CASE PDE(q) \notin Own
    <3>1. dir'[c][PDE(q)] = dir[running][PDE(q)]
      BY <2>1, <2>4 DEF ClonedTo
    <3> QED BY <1>2, <2>2, <2>4, <3>1 DEF Lookup
  <2> QED BY <2>3, <2>4
<1> QED BY <1>3, <1>4

\* Where the value of an entry comes from.
FromOld(x, i) ==
  \E z \in Tbl, k \in Pte :
    /\ tbl'[x][i] = tbl[z][k]
    /\ (z = x /\ k = i) \/ (x[2] >= KCol /\ z[2] >= KCol)
FromCopy(c, frame, x, i) ==
  \E p \in Copied : /\ tbl'[x][i].to = frame[p] /\ tbl'[x][i].link = FALSE
                    /\ x = TblOf(c, PDE(p)) /\ i = PTE(p) /\ x[2] < KCol

LEMMA CloneCells ==
  ASSUME Space, tasks \subseteq Task, running \in tasks, NEW c \in Task \ tasks,
         NEW frame, ClonedTo(c, frame), NEW x \in Tbl, NEW i \in Pte, tbl'[x][i] # Nil
  PROVE  FromOld(x, i) \/ FromCopy(c, frame, x, i)
<1> USE DEF Space
<1>1. CASE ~ (x[1] = c /\ x[2] \in Own)
  BY <1>1 DEF ClonedTo, FromOld
<1>2. CASE x[1] = c /\ x[2] \in Own
  <2> DEFINE p == x[2] * ENTRIES + i
  <2>1. p \in Pages /\ PDE(p) = x[2] /\ PTE(p) = i /\ x = TblOf(c, PDE(p)) /\ x[2] \in Pde
    BY <1>2, Names, PlacePage
  <2> HIDE DEF p
  <2>2. tbl'[x][i] = IF p \in Copied THEN Entry(frame[p], FALSE) ELSE Lookup(running, p)
    <3>1. \A r \in Pages : PDE(r) \in Own =>
            tbl'[TblOf(c, PDE(r))][PTE(r)] =
              IF r \in Copied THEN Entry(frame[r], FALSE) ELSE Lookup(running, r)
      BY Zenon DEF ClonedTo
    <3>2. p \in Pages /\ PDE(p) \in Own
      BY <1>2, <2>1
    <3>3. tbl'[TblOf(c, PDE(p))][PTE(p)] =
            IF p \in Copied THEN Entry(frame[p], FALSE) ELSE Lookup(running, p)
      BY <3>1, <3>2, Zenon
    <3> QED BY <2>1, <3>3
  <2>3. /\ IsKernel(p) <=> PDE(p) >= KCol
        /\ KCol \in Nat /\ x[2] \in Nat
    BY <2>1, PagePlace, UserPlace
  <2>4. CASE p \in Copied
    <3>1. ~IsKernel(p)
      BY <1>2, <2>1, <2>4, CopiedFacts
    <3>2. x[2] < KCol
      BY <2>1, <2>3, <3>1
    <3>3. tbl'[x][i].to = frame[p] /\ tbl'[x][i].link = FALSE
      BY <2>2, <2>4 DEF Entry
    <3> QED BY <2>1, <2>4, <3>2, <3>3 DEF FromCopy
  <2>5. CASE p \notin Copied
    <3>1. Lookup(running, p) # Nil /\ tbl'[x][i] = Lookup(running, p)
      BY <2>2, <2>5
    <3>2. IsKernel(p)
      BY <1>2, <2>1, <2>5, <3>1, CopiedFacts
    <3>3. /\ dir[running][PDE(p)].to \in Tbl /\ dir[running][PDE(p)].to[2] = PDE(p)
          /\ Lookup(running, p) = tbl[dir[running][PDE(p)].to][PTE(p)]
      BY <2>1, <3>1, LookupCell
    <3>4. x[2] >= KCol /\ dir[running][PDE(p)].to[2] >= KCol
      BY <2>1, <2>3, <3>2, <3>3
    <3> QED BY <2>1, <3>1, <3>3, <3>4 DEF FromOld
  <2> QED BY <2>4, <2>5
<1> QED BY <1>1, <1>2

LEMMA CloneStep ==
  ASSUME Space, tasks \subseteq Task, running \in tasks, data \in [Frame -> {0, 1}],
         NEW c \in Task \ tasks, pg_clone_dir(c), tasks' = tasks \union {c}
  PROVE  /\ Space' /\ data' \in [Frame -> {0, 1}]
         /\ \A u \in tasks : SeesSame(u)
         /\ SeesCopy(c)
         /\ \A u \in tasks, q \in Pages : Lookup(u, q)' = Lookup(u, q)
         /\ \A q \in Pages : IsKernel(q) => Lookup(c, q)' = Lookup(running, q)
<1> USE DEF Space
<1>0. running \in Task /\ c \in Task /\ KCol \in Nat /\ \A d \in Pde : d \in Nat
  BY UserPlace
<1>1. DirType' /\ TblType' /\ data' \in [Frame -> {0, 1}]
  BY CloneFacts
<1>2. PICK frame : ClonedTo(c, frame)
  BY CloneFacts
<1>3. /\ \A u \in tasks, q \in Pages : Lookup(u, q)' = Lookup(u, q)
      /\ \A q \in Pages : Lookup(c, q)' =
           IF PDE(q) \in Own /\ q \in Copied THEN Entry(frame[q], FALSE)
           ELSE Lookup(running, q)
  BY <1>2, CloneLookups
<1>4. ASSUME NEW p \in Copied
      PROVE  /\ frame[p] \in Frame /\ frame[p][2] = p /\ p \in Pages /\ PDE(p) \in Own
             /\ data'[frame[p]] = data[Lookup(running, p).to]
             /\ \A y \in Tbl, j \in Pte : frame[p] # tbl[y][j].to
  BY <1>2 DEF ClonedTo, Copied
<1>5. Columns'
  <2> SUFFICES ASSUME NEW u \in Task, NEW d \in Pde, dir'[u][d] # Nil
               PROVE  /\ u \in tasks'
                      /\ dir'[u][d].to[1] \in tasks' /\ dir'[u][d].to[2] = d
                      /\ d < KCol => dir'[u][d] = Entry(TblOf(u, d), FALSE)
    BY DEF Columns, KCol, PDE, PageOf
  <2>1. ASSUME NEW v \in Task, dir'[u][d] = dir[v][d]
        PROVE  /\ v \in tasks /\ dir'[u][d].to[1] \in tasks' /\ dir'[u][d].to[2] = d
               /\ d < KCol => dir'[u][d] = Entry(TblOf(v, d), FALSE)
    <3>1. /\ v \in tasks /\ dir[v][d].to[1] \in tasks /\ dir[v][d].to[2] = d
          /\ d < KCol => dir[v][d] = Entry(TblOf(v, d), FALSE)
      BY <2>1, Zenon DEF Columns
    <3> QED BY <2>1, <3>1
  <2>2. CASE u # c
    BY <1>2, <2>1, <2>2 DEF ClonedTo
  <2>3. CASE u = c /\ d \in Own
    <3>1. dir'[u][d] = Entry(TblOf(u, d), FALSE)
      BY <1>2, <2>3 DEF ClonedTo
    <3>2. dir'[u][d].to = TblOf(u, d)
      BY <3>1 DEF Entry
    <3>3. dir'[u][d].to[1] = u /\ dir'[u][d].to[2] = d
      BY <3>2, Names
    <3> QED BY <2>3, <3>1, <3>3
  <2>4. CASE u = c /\ d \notin Own
    <3>1. dir'[u][d] = dir[running][d]
      BY <1>2, <2>4 DEF ClonedTo
    <3>2. ~ (d < KCol)
      <4> SUFFICES ASSUME d < KCol PROVE FALSE
        OBVIOUS
      <4>1. dir[running][d] = Entry(TblOf(running, d), FALSE)
        BY <1>0, <2>1, <3>1
      <4>2. dir[running][d].link = FALSE
        BY <4>1 DEF Entry
      <4> QED BY <2>4, <3>1, <4>2 DEF Own
    <3> QED BY <1>0, <2>1, <2>4, <3>1, <3>2
  <2> QED BY <2>2, <2>3, <2>4
<1>6. ASSUME NEW x \in Tbl, NEW i \in Pte, tbl'[x][i] # Nil
      PROVE  FromOld(x, i) \/ FromCopy(c, frame, x, i)
  BY <1>2, <1>6, CloneCells
<1>7. Links'
  <2> SUFFICES ASSUME NEW x \in Tbl, NEW i \in Pte, tbl'[x][i] # Nil
               PROVE  /\ x[2] < KCol => tbl'[x][i].link = FALSE
                      /\ x[2] >= KCol => tbl'[x][i].link = TRUE
    BY DEF Links, KCol, PDE, PageOf
  <2>0. x[2] \in Nat /\ x[2] < KCol => ~ (x[2] >= KCol)
    BY <1>0, Names
  <2>1. CASE FromOld(x, i)
    BY <1>0, <2>0, <2>1, Names DEF FromOld, Links
  <2>2. CASE FromCopy(c, frame, x, i)
    BY <1>0, <1>4, <2>0, <2>2, Names DEF FromCopy
  <2> QED BY <1>6, <2>1, <2>2
<1>8. FramesApart'
  <2> SUFFICES ASSUME NEW x \in Tbl, NEW y \in Tbl, NEW i \in Pte, NEW j \in Pte,
                      x[2] < KCol, tbl'[x][i] # Nil, tbl'[x][i].to = tbl'[y][j].to
               PROVE  x = y /\ i = j
    BY DEF FramesApart, KCol, PDE, PageOf
  <2>0. x[2] \in Nat /\ ~(x[2] >= KCol)
    BY <1>0, Names
  <2>1. tbl'[y][j] # Nil
    <3>1. tbl'[x][i].to \in Frame
      BY <1>1, Entries DEF TblType
    <3> QED BY <3>1, Names
  <2>2. CASE FromOld(x, i) /\ FromOld(y, j)
    <3>1. tbl'[x][i] = tbl[x][i]
      BY <2>0, <2>2 DEF FromOld
    <3>2. PICK z \in Tbl, k \in Pte : /\ tbl'[y][j] = tbl[z][k]
                                      /\ (z = y /\ k = j) \/ (y[2] >= KCol /\ z[2] >= KCol)
      BY <2>2 DEF FromOld
    <3>3. z = x /\ k = i
      BY <3>1, <3>2 DEF FramesApart
    <3> QED BY <2>0, <3>2, <3>3
  <2>3. CASE FromOld(x, i) /\ FromCopy(c, frame, y, j)
    BY <1>4, <2>3 DEF FromOld, FromCopy
  <2>4. CASE FromCopy(c, frame, x, i) /\ FromOld(y, j)
    <3>1. PICK p \in Copied : tbl'[x][i].to = frame[p]
      BY <2>4 DEF FromCopy
    <3>2. PICK z \in Tbl, k \in Pte : tbl'[y][j] = tbl[z][k]
      BY <2>4 DEF FromOld
    <3>3. frame[p] # tbl[z][k].to
      BY <1>4
    <3> QED BY <3>1, <3>2, <3>3
  <2>5. CASE FromCopy(c, frame, x, i) /\ FromCopy(c, frame, y, j)
    <3>1. PICK p \in Copied :
            tbl'[x][i].to = frame[p] /\ x = TblOf(c, PDE(p)) /\ i = PTE(p)
      BY <2>5 DEF FromCopy
    <3>2. PICK q \in Copied :
            tbl'[y][j].to = frame[q] /\ y = TblOf(c, PDE(q)) /\ j = PTE(q)
      BY <2>5 DEF FromCopy
    <3>3. frame[p][2] = p /\ frame[q][2] = q
      BY <1>4
    <3>4. p = q
      BY <3>1, <3>2, <3>3
    <3> QED BY <3>1, <3>2, <3>4
  <2> QED BY <1>6, <2>1, <2>2, <2>3, <2>4, <2>5
<1>9. ASSUME NEW u \in tasks, NEW q \in Pages, ~IsKernel(q), Lookup(u, q) # Nil
      PROVE  data'[Lookup(u, q).to] = data[Lookup(u, q).to]
  <2>1. /\ Lookup(u, q) = tbl[TblOf(u, PDE(q))][PTE(q)]
        /\ TblOf(u, PDE(q)) \in Tbl /\ PTE(q) \in Pte /\ Lookup(u, q).to \in Frame
    BY <1>9, OwnTable
  <2>2. \A p \in Copied : Lookup(u, q).to # frame[p]
    BY <1>4, <2>1
  <2> QED BY <1>2, <2>1, <2>2 DEF ClonedTo
<1>10. \A u \in tasks : SeesSame(u)
  BY <1>3, <1>9 DEF SeesSame
<1>11. \A q \in Pages : IsKernel(q) => Lookup(c, q)' = Lookup(running, q)
  BY <1>0, <1>3, CopiedFacts
<1>12. ASSUME NEW q \in Pages, ~IsKernel(q)
       PROVE  /\ Lookup(c, q)' = Nil <=> Lookup(running, q) = Nil
              /\ Lookup(running, q) # Nil =>
                   data'[tbl'[dir'[c][PDE(q)].to][PTE(q)].to] = data[Lookup(running, q).to]
  <2>1. q \in Copied <=> Lookup(running, q) # Nil
    BY <1>0, <1>12, CopiedFacts
  <2>2. CASE q \notin Copied
    BY <1>3, <2>1, <2>2
  <2>3. CASE q \in Copied
    <3>1. Lookup(c, q)' = Entry(frame[q], FALSE)
      BY <1>3, <1>4, <2>3
    <3>2. Lookup(c, q)' # Nil /\ Lookup(c, q)'.to = frame[q]
      <4>1. frame[q] \in Frame
        BY <1>4, <2>3
      <4>2. Lookup(c, q)'.to = frame[q]
        BY <3>1 DEF Entry
      <4> QED BY <4>1, <4>2, Names
    <3>3. Lookup(c, q)' = tbl'[dir'[c][PDE(q)].to][PTE(q)]
      BY <3>2 DEF Lookup, PDE, PTE
    <3> QED BY <1>4, <2>1, <2>3, <3>2, <3>3
  <2> QED BY <2>2, <2>3
<1>13. SeesCopy(c)
  BY <1>12 DEF SeesCopy
<1> QED BY <1>1, <1>3, <1>5, <1>7, <1>8, <1>10, <1>11, <1>13

-----------------------------------------------------------------------------
(* The fault handler, and steps that write no entry *)

LEMMA FaultStep ==
  ASSUME Space, tasks \subseteq Task, KERNEL_PID \in tasks, NEW u \in tasks,
         NEW page \in Pages, IsKernel(page), tasks' = tasks, data' = data,
         pg_write_entry(u, [p \in {page} |-> Lookup(KERNEL_PID, p)])
  PROVE  /\ Space' /\ \A v \in Task : SeesSame(v)
         /\ WroteDir(u, {page})
         /\ WroteTbl(u, {page}, [p \in {page} |-> Lookup(KERNEL_PID, p)])
<1> USE DEF Space
<1> DEFINE entry == [p \in {page} |-> Lookup(KERNEL_PID, p)]
           e == Lookup(KERNEL_PID, page)
<1>0. KERNEL_PID \in Task /\ u \in Task
  OBVIOUS
<1>1. entry \in [{page} -> TblEntry] /\ entry[page] = e /\ {page} \in SUBSET Pages
  BY <1>0, LookupCell
<1>2. ASSUME e # Nil
      PROVE  \E z \in Tbl, k \in Pte : e = tbl[z][k] /\ z[2] >= KCol
  <2>1. /\ dir[KERNEL_PID][PDE(page)].to \in Tbl
        /\ dir[KERNEL_PID][PDE(page)].to[2] = PDE(page)
        /\ e = tbl[dir[KERNEL_PID][PDE(page)].to][PTE(page)]
    BY <1>0, <1>2, LookupCell
  <2>2. PDE(page) >= KCol /\ PTE(page) \in Pte
    BY PagePlace
  <2> QED BY <2>1, <2>2
<1> HIDE DEF entry, e
<1>3. DirType' /\ TblType' /\ WroteDir(u, {page}) /\ WroteTbl(u, {page}, entry)
  BY <1>0, <1>1, WriteFacts DEF entry
<1>4. Fits(u, {page}, entry)
  <2> SUFFICES ASSUME e # Nil
               PROVE  /\ e.link = TRUE
                      /\ \A y \in Tbl, j \in Pte : e.to = tbl[y][j].to => y[2] >= KCol
    BY <1>1 DEF Fits
  <2>1. PICK z \in Tbl, k \in Pte : e = tbl[z][k] /\ z[2] >= KCol
    BY <1>2
  <2>2. e.link = TRUE
    BY <2>1 DEF Links
  <2>3. ASSUME NEW y \in Tbl, NEW j \in Pte, e.to = tbl[y][j].to, ~ (y[2] >= KCol)
        PROVE  FALSE
    <3>1. y[2] < KCol /\ ~ (z[2] < KCol)
      BY <2>1, <2>3, Names, UserPlace
    <3>2. tbl[y][j] # Nil
      <4>1. e.to \in Frame
        BY <2>1, Entries DEF TblType
      <4> QED BY <2>3, <4>1, Names
    <3> QED BY <2>1, <2>3, <3>1, <3>2 DEF FramesApart
  <2> QED BY <2>2, <2>3
<1>5. Columns' /\ Links' /\ FramesApart'
  BY <1>1, <1>3, <1>4, WriteSpace
<1>6. ASSUME NEW v \in Task, NEW q \in Pages, ~IsKernel(q)
      PROVE  Lookup(v, q)' = Lookup(v, q)
  BY <1>0, <1>1, <1>3, <1>5, <1>6, WriteView
<1>7. \A v \in Task : SeesSame(v)
  BY <1>6 DEF SeesSame
<1> QED BY <1>3, <1>5, <1>7 DEF entry

LEMMA SameSpace ==
  ASSUME Space, dir' = dir, tbl' = tbl, tasks' = tasks
  PROVE  Space' /\ \A u, q : Lookup(u, q)' = Lookup(u, q)
<1>1. DirType' /\ TblType'
  BY DEF Space, DirType, TblType
<1>2. Columns' /\ Links' /\ FramesApart'
  <2>1. Columns'
    BY Zenon DEF Space, Columns, KCol, PDE, PageOf
  <2>2. Links'
    BY Zenon DEF Space, Links, KCol, PDE, PageOf
  <2>3. FramesApart'
    BY DEF Space, FramesApart, KCol, PDE, PageOf
  <2> QED BY <2>1, <2>2, <2>3
<1>3. \A u, q : Lookup(u, q)' = Lookup(u, q)
  BY DEF Lookup, PDE, PTE
<1> QED BY <1>1, <1>2, <1>3 DEF Space

\* A program's write to one of its pages.
LEMMA StoreStep ==
  ASSUME Space, tasks \subseteq Task, running \in tasks, data \in [Frame -> {0, 1}],
         NEW page \in Pages, Lookup(running, page) # Nil, dir' = dir, tbl' = tbl,
         tasks' = tasks, data' = [data EXCEPT ![Lookup(running, page).to] = 1]
  PROVE  /\ Space' /\ data' \in [Frame -> {0, 1}]
         /\ \A u \in Task : u # running => SeesSame(u)
<1> USE DEF Space
<1>1. data' \in [Frame -> {0, 1}]
  OBVIOUS
<1>2. ASSUME NEW u \in Task, u # running, NEW q \in Pages, ~IsKernel(q), Lookup(u, q) # Nil
      PROVE  data'[Lookup(u, q).to] = data[Lookup(u, q).to]
  <2>1. Lookup(u, q).to # Lookup(running, page).to
    BY <1>2, OneMapping
  <2>2. Lookup(u, q).to \in Frame
    BY <1>2, OwnTable
  <2> QED BY <2>1, <2>2
<1>3. Space' /\ \A u, q : Lookup(u, q)' = Lookup(u, q)
  BY SameSpace
<1> QED BY <1>1, <1>2, <1>3 DEF SeesSame

-----------------------------------------------------------------------------
(* The pages of the operations *)

LEMMA StepsNat ==
  ASSUME NEW start \in Nat, NEW end \in Nat, NEW p \in Steps(start, end)
  PROVE  p \in Nat
<1>1. PICK a \in start .. end + PAGE_SIZE - 1 : p = PageOf(a)
  BY DEF Steps
<1>2. a \in Nat
  BY <1>1, Sizes
<1> QED BY <1>1, <1>2, PageAddress

LEMMA KernelStart ==
  /\ PageOf(KZERO) \in Nat /\ KZERO = PageOf(KZERO) * PAGE_SIZE
  /\ KZERO \in Nat /\ PAGE_SIZE \in Nat \ {0}
<1>1. PageOf(KZERO) = KCol * ENTRIES /\ KZERO = (KCol * ENTRIES) * PAGE_SIZE
  BY Layout
<1> QED BY <1>1, UserPlace, Sizes

\* Ranges that end a page before the kernel's half are user memory.
LEMMA UserRange ==
  ASSUME NEW start \in Nat, NEW end \in Nat, end <= KZERO - PAGE_SIZE
  PROVE  /\ \A p \in Steps(start, end) : p \in Pages /\ ~IsKernel(p)
         /\ \A p \in PageOf(start) .. PageOf(end) - 1 : p \in Pages /\ ~IsKernel(p)
<1>1. end + PAGE_SIZE <= PageOf(KZERO) * PAGE_SIZE
  BY KernelStart
<1>2. \A p \in Steps(start, end) : p \in Nat /\ p < PageOf(KZERO)
  BY <1>1, KernelStart, StepsBounds
<1>3. PageOf(start) \in Nat /\ PageOf(end) \in Nat /\ PageOf(end) <= PageOf(KZERO)
  <2>1. end <= KZERO
    BY KernelStart
  <2> QED BY <2>1, KernelStart, PageAddress
<1>4. \A p \in PageOf(start) .. PageOf(end) - 1 : p \in Nat /\ p < PageOf(KZERO)
  BY <1>3, KernelStart
<1> QED BY <1>2, <1>4, UserPlace

\* Ranges of the kernel's heap are kernel memory.
LEMMA KernelRange ==
  ASSUME NEW start \in KZERO .. KTMPMEM - PAGE_SIZE, NEW end \in KZERO .. KTMPMEM - PAGE_SIZE
  PROVE  /\ start \in Nat /\ end \in Nat
         /\ \A p \in Steps(start, end) : p \in Pages /\ IsKernel(p)
         /\ \A p \in PageOf(start) .. PageOf(end) - 1 : p \in Pages /\ IsKernel(p)
<1>1. PICK n \in Nat : /\ n * ENTRIES \in Nat /\ KTMPMEM = (n * ENTRIES) * PAGE_SIZE
                       /\ Pages = 0 .. n * ENTRIES - 1
  BY Layout
<1>2. start \in Nat /\ end \in Nat /\ KZERO <= start /\ end < KTMPMEM
  BY KernelStart, Sizes
<1>3. end + PAGE_SIZE <= (n * ENTRIES) * PAGE_SIZE
  BY <1>1, <1>2, Sizes
<1>4. \A p \in Steps(start, end) : p \in Nat /\ PageOf(start) <= p /\ p < n * ENTRIES
  BY <1>1, <1>2, <1>3, StepsBounds
<1>5. PageOf(KZERO) <= PageOf(start) /\ PageOf(start) \in Nat
  BY <1>2, KernelStart, PageAddress
<1>6. PageOf(end) < n * ENTRIES /\ PageOf(end) \in Nat
  BY <1>1, <1>2, PageAddress
<1>7. \A p \in Steps(start, end) : p \in Pages /\ p >= PageOf(KZERO)
  <2>1. PageOf(KZERO) \in Nat
    BY KernelStart
  <2>2. ASSUME NEW p \in Steps(start, end) PROVE p \in Pages /\ p >= PageOf(KZERO)
    <3>1. p \in Nat /\ PageOf(start) <= p /\ p < n * ENTRIES
      BY <1>4
    <3>2. p \in 0 .. n * ENTRIES - 1
      BY <1>1, <3>1
    <3> QED BY <1>1, <1>5, <2>1, <3>1, <3>2
  <2> QED BY <2>2
<1>8. \A p \in PageOf(start) .. PageOf(end) - 1 : p \in Pages /\ p >= PageOf(KZERO)
  <2> SUFFICES ASSUME NEW p \in PageOf(start) .. PageOf(end) - 1
               PROVE  p \in Pages /\ p >= PageOf(KZERO)
    OBVIOUS
  <2>1. p \in Nat /\ PageOf(start) <= p /\ p < PageOf(end)
    BY <1>5, <1>6
  <2>2. p >= PageOf(KZERO)
    BY <1>5, <2>1, KernelStart
  <2>3. ASSUME NEW m \in Nat, PageOf(end) < m PROVE p < m
    BY <1>6, <2>1, <2>3
  <2>4. p < n * ENTRIES
    BY <1>1, <1>6, <2>3, Zenon
  <2> QED BY <1>1, <2>1, <2>2, <2>4
<1> QED BY <1>2, <1>7, <1>8 DEF IsKernel

\* What mmap and execve map is user memory.
LEMMA ProgramPages ==
  ASSUME mmapbrk[running] \in Nat, NEW length \in Nat, MmapFits(length)
  PROVE  /\ MmapEnd(length) \in Nat
         /\ \A p \in MmapPages(length) : p \in Pages /\ ~IsKernel(p)
         /\ \A p \in elf_load \union arch_exec : p \in Pages /\ ~IsKernel(p)
<1>1. MmapEnd(length) \in Nat
  BY Sizes DEF MmapEnd
<1>2. /\ Segment[1] \in Nat /\ Segment[2] \in Nat /\ Segment[2] <= KZERO - PAGE_SIZE
      /\ Segment[1] <= Segment[2]
  BY MmuAssumption
<1>3. PageOf(Segment[1]) \in Nat /\ PageOf(Segment[1]) <= PageOf(KZERO)
  <2>1. Segment[1] <= KZERO
    BY <1>2, KernelStart
  <2> QED BY <1>2, <2>1, KernelStart, PageAddress
<1>4. MmapPages(length) = Steps(mmapbrk[running], MmapEnd(length))
  BY DEF MmapPages, MmapEnd
<1>5. \A p \in MmapPages(length) : p \in Nat /\ p < PageOf(KZERO)
  BY <1>1, <1>3, <1>4, KernelStart, StepsNat DEF MmapFits
<1>6. \A p \in elf_load : p \in Pages /\ ~IsKernel(p)
  BY <1>2, UserRange DEF elf_load
<1> QED BY <1>1, <1>5, <1>6, UserPlace DEF arch_exec

-----------------------------------------------------------------------------
(* Isolation *)

\* The values of the variables that are no memory.
Rest ==
  /\ tasks \subseteq Task /\ KERNEL_PID \in tasks /\ running \in tasks
  /\ UserTask \in (tasks \ {KERNEL_PID}) \union {NULL}
  /\ fault \in Pages \union {NULL}
  /\ heap \in BOOLEAN /\ panic \in BOOLEAN
  /\ brk \in [Task -> Nat] /\ mmapbrk \in [Task -> Nat]

LEMMA Parts == SpaceInv <=> Rest /\ BreaksOK /\ Space /\ data \in [Frame -> {0, 1}]
BY Zenon DEF SpaceInv, Space, TypeOK, DirType, TblType, Rest

LEMMA PartsNext ==
  ASSUME Rest', BreaksOK', Space', data' \in [Frame -> {0, 1}]
  PROVE  SpaceInv'
BY Zenon DEF SpaceInv, Space, TypeOK, DirType, TblType, Rest

LEMMA InitSpace == Init => SpaceInv
<1> SUFFICES ASSUME Init PROVE SpaceInv
  OBVIOUS
<1> DEFINE d0 == PDE(StackPage)
           x0 == TblOf(KERNEL_PID, d0)
           f0 == FrameOf(KERNEL_PID, StackPage, 0)
<1>1. KERNEL_PID \in Task /\ 0 \in 0 .. Generations - 1
  BY Sizes DEF KERNEL_PID, Task
<1>2. d0 \in Pde /\ PTE(StackPage) \in Pte /\ StackPage \in Pages /\ d0 < KCol
  BY UserPlace, PagePlace
<1>3. x0 \in Tbl /\ x0[1] = KERNEL_PID /\ x0[2] = d0 /\ f0 \in Frame
  BY <1>1, <1>2, Names
<1>4. /\ Entry(x0, FALSE) \in DirEntry /\ Entry(x0, FALSE) # Nil /\ Entry(x0, FALSE).to = x0
      /\ Entry(f0, FALSE) \in TblEntry /\ Entry(f0, FALSE) # Nil /\ Entry(f0, FALSE).to = f0
      /\ Entry(f0, FALSE).link = FALSE
  <2>1. Entry(x0, FALSE).to = x0 /\ Entry(f0, FALSE).to = f0 /\ Entry(f0, FALSE).link = FALSE
    BY DEF Entry
  <2>2. Entry(x0, FALSE) \in DirEntry /\ Entry(f0, FALSE) \in TblEntry
    BY <1>3 DEF Entry, DirEntry, TblEntry
  <2>3. x0 # Nil.to /\ f0 # Nil.to
    BY <1>3, Names
  <2>4. Entry(x0, FALSE) # Nil /\ Entry(f0, FALSE) # Nil
    BY <2>1, <2>3, Zenon
  <2> QED BY <2>1, <2>2, <2>4
<1>5. ASSUME NEW t \in Task, NEW d \in Pde
      PROVE  /\ dir[t][d] = Nil \/ (dir[t][d] = Entry(x0, FALSE) /\ t = KERNEL_PID /\ d = d0)
             /\ dir[t][d] \in DirEntry
  <2>1. dir[t][d] = IF t = KERNEL_PID /\ d = d0 THEN Entry(TblOf(t, d), FALSE) ELSE Nil
    BY DEF Init
  <2>2. Nil \in DirEntry /\ Nil \in TblEntry
    BY Entries
  <2> QED BY <1>4, <2>1, <2>2
<1>6. ASSUME NEW x \in Tbl, NEW i \in Pte
      PROVE  /\ tbl[x][i] = Nil \/ (tbl[x][i] = Entry(f0, FALSE) /\ x = x0 /\ i = PTE(StackPage))
             /\ tbl[x][i] \in TblEntry
  <2>1. tbl[x][i] = IF x = x0 /\ i = PTE(StackPage) THEN Entry(f0, FALSE) ELSE Nil
    BY DEF Init
  <2>2. Nil \in DirEntry /\ Nil \in TblEntry
    BY Entries
  <2> QED BY <1>4, <2>1, <2>2
<1>7. DirType
  <2>1. dir = [t \in Task |-> [d \in Pde |-> dir[t][d]]]
    BY DEF Init
  <2> QED BY <1>5, <2>1 DEF DirType
<1>8. TblType
  <2>1. tbl = [x \in Tbl |-> [i \in Pte |-> tbl[x][i]]]
    BY DEF Init
  <2> QED BY <1>6, <2>1 DEF TblType
<1> HIDE DEF d0, x0, f0
<1>9. Columns
  <2> SUFFICES ASSUME NEW t \in Task, NEW d \in Pde, dir[t][d] # Nil
               PROVE  /\ t \in tasks
                      /\ dir[t][d].to[1] \in tasks /\ dir[t][d].to[2] = d
                      /\ d < KCol => dir[t][d] = Entry(TblOf(t, d), FALSE)
    BY DEF Columns
  <2>1. dir[t][d] = Entry(x0, FALSE) /\ t = KERNEL_PID /\ d = d0
    BY <1>5
  <2>2. tasks = {KERNEL_PID}
    BY DEF Init
  <2>3. dir[t][d].to[1] \in tasks /\ dir[t][d].to[2] = d
    BY <1>3, <1>4, <2>1, <2>2
  <2> QED BY <2>1, <2>2, <2>3 DEF x0
<1>10. Links
  <2>1. ~ (d0 >= KCol)
    BY <1>2, UserPlace
  <2> QED BY <1>3, <1>4, <1>6, <2>1 DEF Links
<1>11. FramesApart
  <2>1. ASSUME NEW x \in Tbl, NEW i \in Pte, tbl[x][i].to \in Frame
        PROVE  x = x0 /\ i = PTE(StackPage)
    BY <1>6, <2>1, Names
  <2>2. \A x \in Tbl, i \in Pte : tbl[x][i] # Nil => tbl[x][i].to \in Frame
    BY <1>6, Entries
  <2> QED BY <2>1, <2>2 DEF FramesApart
<1>12. Rest /\ data \in [Frame -> {0, 1}]
  <2>1. tasks \subseteq Task /\ KERNEL_PID \in tasks /\ running \in tasks
    BY <1>1 DEF Init
  <2>2. UserTask = NULL /\ fault = NULL /\ heap = FALSE /\ panic = FALSE
    BY DEF Init
  <2>3. /\ data \in [Frame -> {0, 1}] /\ brk \in [Task -> Nat] /\ mmapbrk \in [Task -> Nat]
    BY Sizes DEF Init
  <2> QED BY <2>1, <2>2, <2>3 DEF Rest
<1>13. BreaksOK
  <2>1. KZERO <= KTMPMEM - PAGE_SIZE
    <3>1. PICK n \in Nat : /\ KCol * ENTRIES \in Nat /\ KZERO = (KCol * ENTRIES) * PAGE_SIZE
                           /\ n * ENTRIES \in Nat /\ KTMPMEM = (n * ENTRIES) * PAGE_SIZE
                           /\ KCol \in Nat /\ KCol < n
      BY Layout
    <3>2. KCol * ENTRIES + ENTRIES <= n * ENTRIES
      BY <3>1, Sizes, ProductOrder
    <3>3. KCol * ENTRIES < n * ENTRIES
      BY <3>1, <3>2, Sizes
    <3>4. (KCol * ENTRIES) * PAGE_SIZE + PAGE_SIZE <= (n * ENTRIES) * PAGE_SIZE
      BY <3>1, <3>3, Sizes, ProductOrder
    <3>5. KZERO + PAGE_SIZE <= KTMPMEM
      BY <3>1, <3>4
    <3> QED BY <3>5, Sizes
  <2>2. \A t \in Task : brk[t] = KZERO
    BY DEF Init
  <2> QED BY <1>1, <2>1, <2>2, Sizes DEF BreaksOK
<1> QED BY <1>7, <1>8, <1>9, <1>10, <1>11, <1>12, <1>13, Parts DEF Space

\* A task's memory as StepIsIsolated speaks of it.
LEMMA Views ==
  /\ \A u : SeesSame(u) => View(u)' = View(u)
  /\ \A c : SeesCopy(c) => View(c)' = View(running)
<1>1. \A u : View(u)' = [p \in UserPages |->
                IF Lookup(u, p)' = Nil THEN NULL ELSE data'[Lookup(u, p)'.to]]
  BY Zenon DEF View, UserPages, Pages, IsKernel, PageOf, NULL, Nil
<1>2. ASSUME NEW u, SeesSame(u) PROVE View(u)' = View(u)
  BY <1>1, <1>2 DEF SeesSame, View, UserPages
<1>3. ASSUME NEW c, SeesCopy(c) PROVE View(c)' = View(running)
  <2>1. \A q : Lookup(c, q)' # Nil => Lookup(c, q)' = tbl'[dir'[c][PDE(q)].to][PTE(q)]
    BY DEF Lookup, PDE, PTE
  <2> QED BY <1>1, <1>3, <2>1 DEF SeesCopy, View, UserPages
<1> QED BY <1>2, <1>3

LEMMA IsolatedFrom ==
  ASSUME tasks \subseteq Task, tasks' = tasks, \A u \in Task : u # running => SeesSame(u)
  PROVE  StepIsIsolated
BY Views DEF StepIsIsolated

LEMMA SeesSameIfUnchanged ==
  ASSUME UNCHANGED space
  PROVE  \A u : SeesSame(u)
BY DEF SeesSame, space, Lookup, PDE, PTE

\* Steps that leave memory alone.
LEMMA QuietStep ==
  ASSUME SpaceInv, UNCHANGED <<tasks, space, brk, mmapbrk>>,
         running' \in tasks, UserTask' \in (tasks \ {KERNEL_PID}) \union {NULL},
         fault' \in Pages \union {NULL}, heap' \in BOOLEAN, panic' \in BOOLEAN
  PROVE  SpaceInv' /\ StepIsIsolated
<1>1. Rest /\ BreaksOK /\ Space /\ data \in [Frame -> {0, 1}]
  BY Parts
<1>2. dir' = dir /\ tbl' = tbl /\ data' = data /\ tasks' = tasks
      /\ brk' = brk /\ mmapbrk' = mmapbrk
  BY DEF space
<1>3. Space'
  BY <1>1, <1>2, SameSpace
<1>4. Rest' /\ BreaksOK'
  BY <1>1, <1>2 DEF Rest, BreaksOK
<1>5. StepIsIsolated
  BY <1>1, <1>2, SeesSameIfUnchanged, IsolatedFrom DEF Rest
<1> QED BY <1>1, <1>2, <1>3, <1>4, <1>5, PartsNext

\* Steps in which the running program maps or unmaps pages of user memory.
LEMMA ProgramStep ==
  ASSUME SpaceInv, Calling, running # KERNEL_PID,
         NEW pages \in SUBSET Pages, \A p \in pages : ~IsKernel(p),
         pg_alloc(running, pages) \/ pg_unmap(running, pages) \/ UNCHANGED space,
         tasks' = tasks
  PROVE  /\ Space' /\ data' \in [Frame -> {0, 1}] /\ StepIsIsolated
         /\ \A u \in Task : u # running => SeesSame(u)
<1>1. Rest /\ BreaksOK /\ Space /\ data \in [Frame -> {0, 1}]
  BY Parts
<1>2. tasks \subseteq Task /\ running \in tasks
  BY <1>1 DEF Rest
<1>3. base_flags = FALSE
  BY DEF Calling, base_flags, CurrentTask
<1>4. CASE pg_alloc(running, pages)
  <2>1. Space' /\ data' \in [Frame -> {0, 1}] /\ \A u \in Task : u # running => SeesSame(u)
    BY <1>1, <1>2, <1>3, <1>4, AllocStep
  <2> QED BY <1>2, <2>1, IsolatedFrom
<1>5. CASE pg_unmap(running, pages)
  <2>1. Space' /\ data' \in [Frame -> {0, 1}] /\ \A u \in Task : u # running => SeesSame(u)
    BY <1>1, <1>2, <1>3, <1>5, UnmapStep
  <2> QED BY <1>2, <2>1, IsolatedFrom
<1>6. CASE UNCHANGED space
  <2>1. Space' /\ data' \in [Frame -> {0, 1}]
    BY <1>1, <1>6, SameSpace DEF space
  <2>2. \A u \in Task : u # running => SeesSame(u)
    BY <1>6, SeesSameIfUnchanged
  <2> QED BY <1>2, <2>1, <2>2, IsolatedFrom
<1> QED BY <1>4, <1>5, <1>6

\* The pages task_brk maps or unmaps for a program and for the kernel.
BrkPages(t, b) ==
  IF b > brk[t] THEN {p \in Steps(brk[t], b) : ~pg_is_allocated(t, p)}
  ELSE PageOf(b) .. PageOf(brk[t]) - 1

LEMMA UserBrkPages ==
  ASSUME SpaceInv, NEW t \in Task, brk[t] < KZERO, NEW b \in Breaks
  PROVE  /\ \A p \in BrkPages(t, b) : p \in Pages /\ ~IsKernel(p)
         /\ b \in Nat /\ b <= KZERO - PAGE_SIZE /\ b < KZERO
<1>1. b \in Nat /\ b <= KZERO - PAGE_SIZE
  BY MmuAssumption
<1>2. brk[t] \in Nat /\ brk[t] <= KZERO - PAGE_SIZE
  BY Parts DEF Rest, BreaksOK
<1>3. \A p \in Steps(brk[t], b) : p \in Pages /\ ~IsKernel(p)
  BY <1>1, <1>2, UserRange
<1>4. \A p \in PageOf(b) .. PageOf(brk[t]) - 1 : p \in Pages /\ ~IsKernel(p)
  BY <1>1, <1>2, UserRange
<1>5. b < KZERO
  BY <1>1, KernelStart
<1> QED BY <1>1, <1>3, <1>4, <1>5 DEF BrkPages

LEMMA KernelBrkPages ==
  ASSUME SpaceInv, NEW b \in KernelBreaks
  PROVE  /\ \A p \in BrkPages(KERNEL_PID, b) : p \in Pages /\ IsKernel(p)
         /\ b \in Nat /\ b \in KZERO .. KTMPMEM - PAGE_SIZE /\ brk[KERNEL_PID] \in Nat
<1>1. b \in KZERO .. KTMPMEM - PAGE_SIZE
  BY MmuAssumption
<1>2. brk[KERNEL_PID] \in KZERO .. KTMPMEM - PAGE_SIZE
  BY Parts DEF BreaksOK
<1>3. \A p \in Steps(brk[KERNEL_PID], b) : p \in Pages /\ IsKernel(p)
  BY <1>1, <1>2, KernelRange
<1>4. \A p \in PageOf(b) .. PageOf(brk[KERNEL_PID]) - 1 : p \in Pages /\ IsKernel(p)
  BY <1>1, <1>2, KernelRange
<1>5. b \in Nat /\ brk[KERNEL_PID] \in Nat
  BY <1>1, <1>2, KernelRange
<1> QED BY <1>1, <1>3, <1>4, <1>5 DEF BrkPages

LEMMA TaskBrk ==
  ASSUME NEW t \in Task, NEW b \in Nat, brk[t] \in Nat, task_brk(t, b)
  PROVE  \/ b > brk[t] /\ pg_alloc(t, BrkPages(t, b))
         \/ b < brk[t] /\ pg_unmap(t, BrkPages(t, b))
         \/ b = brk[t] /\ UNCHANGED space
<1>1. CASE b > brk[t]
  <2>1. BrkPages(t, b) = {p \in Steps(brk[t], b) : ~pg_is_allocated(t, p)}
    BY <1>1 DEF BrkPages
  <2>2. ~ (b < brk[t]) /\ ~ (b = brk[t])
    BY <1>1
  <2> QED BY <1>1, <2>1, <2>2, Zenon DEF task_brk
<1>2. CASE b < brk[t]
  <2>1. ~ (b > brk[t]) /\ ~ (b = brk[t])
    BY <1>2
  <2>2. BrkPages(t, b) = PageOf(b) .. PageOf(brk[t]) - 1
    BY <2>1 DEF BrkPages
  <2> QED BY <1>2, <2>1, <2>2, Zenon DEF task_brk
<1>3. CASE b = brk[t]
  <2>1. ~ (b > brk[t]) /\ ~ (b < brk[t])
    BY <1>3
  <2> QED BY <1>3, <2>1, Zenon DEF task_brk
<1> QED BY <1>1, <1>2, <1>3

\* The calls of programs.
LEMMA SysBrkStep ==
  ASSUME SpaceInv, NEW b \in Breaks, sys_brk(b)
  PROVE  SpaceInv' /\ StepIsIsolated
<1>1. Rest /\ BreaksOK /\ Calling /\ running # KERNEL_PID /\ brk[running] < KZERO
  BY Parts DEF sys_brk, InProgram
<1>2. running \in Task /\ brk[running] \in Nat /\ tasks' = tasks
  BY <1>1 DEF Rest, sys_brk
<1>3. /\ \A p \in BrkPages(running, b) : p \in Pages /\ ~IsKernel(p)
      /\ b \in Nat /\ b <= KZERO - PAGE_SIZE
  BY <1>1, <1>2, UserBrkPages
<1>4. \/ pg_alloc(running, BrkPages(running, b)) \/ pg_unmap(running, BrkPages(running, b))
      \/ UNCHANGED space
  BY <1>2, <1>3, TaskBrk DEF sys_brk
<1>5. Space' /\ data' \in [Frame -> {0, 1}] /\ StepIsIsolated
  BY <1>1, <1>2, <1>3, <1>4, ProgramStep
<1>6. Rest' /\ BreaksOK'
  BY <1>1, <1>2, <1>3 DEF sys_brk, Rest, BreaksOK
<1> QED BY <1>5, <1>6, PartsNext

LEMMA SysMmapStep ==
  ASSUME SpaceInv, NEW length \in Lengths, sys_mmap(length)
  PROVE  SpaceInv' /\ StepIsIsolated
<1>1. Rest /\ BreaksOK /\ Calling /\ running # KERNEL_PID /\ MmapFits(length)
  BY Parts DEF sys_mmap, InProgram
<1>2. running \in Task /\ mmapbrk[running] \in Nat /\ length \in Nat /\ tasks' = tasks
  BY <1>1, MmuAssumption DEF Rest, sys_mmap
<1>3. MmapEnd(length) \in Nat /\ \A p \in MmapPages(length) : p \in Pages /\ ~IsKernel(p)
  BY <1>1, <1>2, ProgramPages
<1>4. pg_alloc(running, MmapPages(length))
  BY DEF sys_mmap
<1>5. Space' /\ data' \in [Frame -> {0, 1}] /\ StepIsIsolated
  BY <1>1, <1>2, <1>3, <1>4, ProgramStep
<1>6. Rest' /\ BreaksOK'
  BY <1>1, <1>2, <1>3 DEF sys_mmap, Rest, BreaksOK
<1> QED BY <1>5, <1>6, PartsNext

LEMMA SysExecveStep ==
  ASSUME SpaceInv, sys_execve
  PROVE  SpaceInv' /\ StepIsIsolated
<1> DEFINE pages == elf_read \union elf_load \union arch_exec
<1>1. Rest /\ BreaksOK /\ Calling /\ running # KERNEL_PID /\ MmapFits(ElfLength)
  BY Parts DEF sys_execve
<1>2. running \in Task /\ mmapbrk[running] \in Nat /\ ElfLength \in Nat /\ tasks' = tasks
  BY <1>1, Sizes DEF Rest, sys_execve
<1>3. MmapEnd(ElfLength) \in Nat /\ \A p \in pages : p \in Pages /\ ~IsKernel(p)
  BY <1>1, <1>2, ProgramPages DEF elf_read
<1>4. pg_alloc(running, pages)
  BY Zenon DEF sys_execve
<1> HIDE DEF pages
<1>5. Space' /\ data' \in [Frame -> {0, 1}] /\ StepIsIsolated
  BY <1>1, <1>2, <1>3, <1>4, ProgramStep
<1>6. Segment[2] \in Nat /\ Segment[2] <= KZERO - PAGE_SIZE
  BY MmuAssumption
<1>7. Rest' /\ BreaksOK'
  BY <1>1, <1>2, <1>3, <1>6 DEF sys_execve, Rest, BreaksOK
<1> QED BY <1>5, <1>7, PartsNext

LEMMA SysForkStep ==
  ASSUME SpaceInv, NEW c \in Task, sys_fork(c)
  PROVE  SpaceInv' /\ StepIsIsolated
<1>1. Rest /\ BreaksOK /\ Space /\ data \in [Frame -> {0, 1}]
  BY Parts
<1>2. /\ c \notin tasks /\ pg_clone_dir(c) /\ tasks' = tasks \union {c}
      /\ brk' = [brk EXCEPT ![c] = brk[running]]
      /\ mmapbrk' = [mmapbrk EXCEPT ![c] = mmapbrk[running]]
      /\ running' = running /\ heap' = heap /\ UserTask' = UserTask /\ fault' = fault
      /\ panic' = panic
  BY DEF sys_fork
<1>3. tasks \subseteq Task /\ running \in tasks
  BY <1>1 DEF Rest
<1>4. /\ Space' /\ data' \in [Frame -> {0, 1}]
      /\ \A u \in tasks : SeesSame(u)
      /\ SeesCopy(c)
  BY <1>1, <1>2, <1>3, CloneStep
<1>5. StepIsIsolated
  BY <1>2, <1>3, <1>4, Views DEF StepIsIsolated
<1>6. Rest' /\ BreaksOK'
  BY <1>1, <1>2, <1>3 DEF Rest, BreaksOK
<1> QED BY <1>4, <1>5, <1>6, PartsNext

\* The kernel's heap.
LEMMA KernelBrkStep ==
  ASSUME SpaceInv, NEW b \in KernelBreaks, KernelBrk(b)
  PROVE  SpaceInv' /\ StepIsIsolated
<1>1. Rest /\ BreaksOK /\ Space /\ data \in [Frame -> {0, 1}]
  BY Parts
<1>2. /\ task_brk(KERNEL_PID, b) /\ brk' = [brk EXCEPT ![KERNEL_PID] = b] /\ tasks' = tasks
      /\ mmapbrk' = mmapbrk /\ running' = running /\ heap' = heap /\ UserTask' = UserTask
      /\ fault' = fault /\ panic' = panic
  BY DEF KernelBrk
<1>3. tasks \subseteq Task /\ KERNEL_PID \in tasks /\ KERNEL_PID \in Task
  BY <1>1 DEF Rest
<1>4. base_flags = TRUE
  BY DEF KernelBrk, base_flags
<1>5. /\ \A p \in BrkPages(KERNEL_PID, b) : p \in Pages /\ IsKernel(p)
      /\ b \in Nat /\ b \in KZERO .. KTMPMEM - PAGE_SIZE /\ brk[KERNEL_PID] \in Nat
  BY KernelBrkPages
<1>6. Space' /\ data' \in [Frame -> {0, 1}] /\ \A u \in Task : SeesSame(u)
  <2>1. \/ pg_alloc(KERNEL_PID, BrkPages(KERNEL_PID, b))
        \/ pg_unmap(KERNEL_PID, BrkPages(KERNEL_PID, b))
        \/ UNCHANGED space
    BY <1>2, <1>3, <1>5, TaskBrk
  <2>2. CASE pg_alloc(KERNEL_PID, BrkPages(KERNEL_PID, b))
    BY <1>1, <1>2, <1>3, <1>4, <1>5, <2>2, AllocStep
  <2>3. CASE pg_unmap(KERNEL_PID, BrkPages(KERNEL_PID, b))
    BY <1>1, <1>2, <1>3, <1>5, <2>3, UnmapStep
  <2>4. CASE UNCHANGED space
    BY <1>1, <1>2, <2>4, SameSpace, SeesSameIfUnchanged DEF space
  <2> QED BY <2>1, <2>2, <2>3, <2>4
<1>7. StepIsIsolated
  BY <1>2, <1>3, <1>6, IsolatedFrom
<1>8. BreaksOK'
  BY <1>1, <1>2, <1>3, <1>5, KernelStart DEF Rest, BreaksOK
<1>9. Rest'
  BY <1>1, <1>2, <1>5 DEF Rest
<1> QED BY <1>6, <1>7, <1>8, <1>9, PartsNext

LEMMA WriteStep ==
  ASSUME SpaceInv, NEW page \in WritePages, Write(page)
  PROVE  SpaceInv' /\ StepIsIsolated
<1>1. Rest /\ BreaksOK /\ Space /\ data \in [Frame -> {0, 1}]
  BY Parts
<1>2. page \in Pages /\ Lookup(running, page) # Nil
  BY MmuAssumption DEF Write, pg_is_allocated
<1>3. /\ data' = [data EXCEPT ![Lookup(running, page).to] = 1]
      /\ dir' = dir /\ tbl' = tbl /\ tasks' = tasks
      /\ brk' = brk /\ mmapbrk' = mmapbrk /\ running' = running /\ heap' = heap
      /\ UserTask' = UserTask /\ fault' = fault /\ panic' = panic
  BY DEF Write
<1>4. tasks \subseteq Task /\ running \in tasks
  BY <1>1 DEF Rest
<1>5. /\ Space' /\ data' \in [Frame -> {0, 1}]
      /\ \A u \in Task : u # running => SeesSame(u)
  BY <1>1, <1>2, <1>3, <1>4, StoreStep
<1>6. StepIsIsolated
  BY <1>3, <1>4, <1>5, IsolatedFrom
<1>7. Rest' /\ BreaksOK'
  BY <1>1, <1>3 DEF Rest, BreaksOK
<1> QED BY <1>5, <1>6, <1>7, PartsNext

LEMMA FaultHandlerStep ==
  ASSUME SpaceInv, pg_fault_handler
  PROVE  SpaceInv' /\ StepIsIsolated
<1>1. Rest /\ BreaksOK /\ Space /\ data \in [Frame -> {0, 1}]
  BY Parts
<1>2. /\ fault # NULL /\ UserTask # NULL /\ IsKernel(fault)
      /\ pg_write_entry(UserTask, [p \in {fault} |-> Lookup(KERNEL_PID, p)])
      /\ fault' \in {fault, NULL}
      /\ data' = data /\ tasks' = tasks
      /\ brk' = brk /\ mmapbrk' = mmapbrk /\ running' = running /\ heap' = heap
      /\ UserTask' = UserTask /\ panic' = panic
  BY DEF pg_fault_handler
<1>3. tasks \subseteq Task /\ KERNEL_PID \in tasks /\ UserTask \in tasks /\ fault \in Pages
  BY <1>1, <1>2 DEF Rest
<1>4. Space' /\ \A v \in Task : SeesSame(v)
  BY <1>1, <1>2, <1>3, FaultStep
<1>5. StepIsIsolated
  BY <1>2, <1>3, <1>4, IsolatedFrom
<1>6. Rest' /\ BreaksOK'
  BY <1>1, <1>2 DEF Rest, BreaksOK
<1> QED BY <1>1, <1>2, <1>4, <1>5, <1>6, PartsNext

\* Every step keeps the invariant and leaves other tasks' memory alone.
LEMMA SpaceStep ==
  ASSUME SpaceInv, [Next]_vars
  PROVE  SpaceInv' /\ [StepIsIsolated]_vars
<1>0. Rest
  BY Parts
<1>1. ASSUME NEW t \in Task, Switch(t) PROVE SpaceInv' /\ StepIsIsolated
  <2>1. /\ UNCHANGED <<tasks, space, brk, mmapbrk>>
        /\ running' \in tasks /\ UserTask' = UserTask /\ fault' = fault
        /\ heap' = heap /\ panic' = panic
    BY <1>1 DEF Switch
  <2> QED BY <1>0, <2>1, QuietStep DEF Rest
<1>2. CASE enter_kernel
  <2>1. /\ UNCHANGED <<tasks, space, brk, mmapbrk>>
        /\ running' = running /\ running # KERNEL_PID /\ UserTask' = running
        /\ fault' = fault /\ heap' = TRUE /\ panic' = panic
    BY <1>2 DEF enter_kernel
  <2> QED BY <1>0, <2>1, QuietStep DEF Rest
<1>3. CASE leave_kernel
  <2>1. /\ UNCHANGED <<tasks, space, brk, mmapbrk>>
        /\ running' = running /\ UserTask' = UserTask
        /\ fault' = fault /\ heap' = FALSE /\ panic' = panic
    BY <1>3 DEF leave_kernel
  <2> QED BY <1>0, <2>1, QuietStep DEF Rest
<1>4. ASSUME NEW page \in Pages, Fault(page) PROVE SpaceInv' /\ StepIsIsolated
  <2>1. /\ UNCHANGED <<tasks, space, brk, mmapbrk>>
        /\ running' = running /\ UserTask' = UserTask
        /\ fault' = page /\ heap' = heap /\ panic' = panic
    BY <1>4 DEF Fault
  <2> QED BY <1>0, <2>1, QuietStep DEF Rest
<1>5. CASE pg_fault_panic
  <2>1. /\ UNCHANGED <<tasks, space, brk, mmapbrk>>
        /\ running' = running /\ UserTask' = UserTask
        /\ fault' = fault /\ heap' = heap /\ panic' = TRUE
    BY <1>5 DEF pg_fault_panic
  <2> QED BY <1>0, <2>1, QuietStep DEF Rest
<1>6. CASE UNCHANGED vars
  <2>1. /\ UNCHANGED <<tasks, space, brk, mmapbrk>>
        /\ running' = running /\ UserTask' = UserTask
        /\ fault' = fault /\ heap' = heap /\ panic' = panic
    BY <1>6 DEF vars, space
  <2> QED BY <1>0, <2>1, QuietStep DEF Rest
<1> QED BY <1>1, <1>2, <1>3, <1>4, <1>5, <1>6, SysBrkStep, SysMmapStep, SysExecveStep,
          SysForkStep, KernelBrkStep, WriteStep, FaultHandlerStep DEF Next

\* The invariant of address spaces holds in every reachable state.
THEOREM SpaceInvariance == Spec => []SpaceInv
BY InitSpace, SpaceStep, PTL DEF Spec

\* No frame of user memory is mapped by two tasks or twice, through any sequence
\* of brk, mmap, execve, fork and page faults.
THEOREM UserMemoryIsPrivate == Spec => []UserMemoryPrivate
<1>1. SpaceInv => UserMemoryPrivate
  <2> SUFFICES ASSUME SpaceInv, NEW t \in tasks, NEW u \in tasks,
                      NEW p \in UserPages, NEW q \in UserPages,
                      Lookup(t, p) # Nil, Lookup(t, p).to = Lookup(u, q).to
               PROVE  t = u /\ p = q
    BY DEF UserMemoryPrivate
  <2>1. Space /\ t \in Task /\ u \in Task
    BY Parts DEF Rest
  <2> QED BY <2>1, OneMapping DEF Space, UserPages
<1> QED BY <1>1, SpaceInvariance, PTL

\* No step of a task changes the memory of another, and a clone starts with a
\* copy of its parent's.
THEOREM TasksAreIsolated == Spec => Isolation
BY SpaceInvariance, SpaceStep, PTL DEF Spec, Isolation

-----------------------------------------------------------------------------
(* The kernel's heap *)

\* Writing entries keeps the tables with their owners.
LEMMA WriteOwners ==
  ASSUME Space, Owners, NEW t \in Task, NEW pages \in SUBSET Pages,
         NEW entry, WroteDir(t, pages), WroteTbl(t, pages, entry)
  PROVE  Owners'
<1> USE DEF Space
<1>1. \A u \in Task, d \in Pde : dir[u][d] # Nil => dir'[u][d] = dir[u][d]
  BY DEF WroteDir
<1>2. ASSUME NEW u \in Task, NEW d \in Pde, dir'[u][d] # dir[u][d]
      PROVE  u = t /\ dir'[t][d] # Nil /\ dir'[t][d].to = TblOf(t, d)
  <2>1. u = t /\ dir[t][d] = Nil /\ dir'[t][d] # Nil
    BY <1>2 DEF WroteDir
  <2>2. dir'[t][d] = Entry(TblOf(t, d), base_flags)
    BY <2>1 DEF WroteDir
  <2> QED BY <2>1, <2>2 DEF Entry
<1>3. ASSUME NEW u \in Task, NEW d \in Pde, dir'[u][d] # Nil
      PROVE  dir'[dir'[u][d].to[1]][d] # Nil
  <2>1. CASE dir'[u][d] = dir[u][d]
    <3>1. dir[dir[u][d].to[1]][d] # Nil
      BY <1>3, <2>1 DEF Owners
    <3>2. dir[u][d].to[1] \in Task
      BY <1>3, <2>1, Entries, Names DEF DirType
    <3> QED BY <1>1, <2>1, <3>1, <3>2
  <2>2. CASE dir'[u][d] # dir[u][d]
    <3>1. u = t /\ dir'[t][d] # Nil /\ dir'[u][d].to[1] = t
      BY <1>2, <2>2, Names
    <3> QED BY <3>1
  <2> QED BY <2>1, <2>2
<1>4. ASSUME NEW u \in Task, NEW d \in Pde, dir'[u][d] = Nil, NEW i \in Pte
      PROVE  tbl'[TblOf(u, d)][i] = Nil
  <2>1. tbl[TblOf(u, d)][i] = Nil
    BY <1>1, <1>4 DEF Owners
  <2>2. TblOf(u, d) \in Tbl /\ TblOf(u, d)[1] = u /\ TblOf(u, d)[2] = d
    BY Names
  <2>3. ASSUME NEW p \in pages, dir'[t][PDE(p)].to = TblOf(u, d) PROVE FALSE
    <3>1. dir'[t][PDE(p)] # Nil /\ PDE(p) = d
      BY <2>2, <2>3 DEF WroteTbl
    <3>2. dir'[dir'[t][d].to[1]][d] # Nil
      BY <1>3, <3>1
    <3> QED BY <1>4, <2>2, <2>3, <3>1, <3>2
  <2> QED BY <2>1, <2>2, <2>3 DEF WroteTbl
<1> QED BY <1>3, <1>4 DEF Owners

\* Writing pages of user memory changes no mapping of the kernel's half.
LEMMA UserWriteHeap ==
  ASSUME Space, NEW t \in Task, NEW pages \in SUBSET Pages, \A p \in pages : ~IsKernel(p),
         NEW entry, WroteDir(t, pages), WroteTbl(t, pages, entry),
         NEW u \in Task, NEW q \in Pages, IsKernel(q)
  PROVE  Lookup(u, q)' = Lookup(u, q)
<1> USE DEF Space
<1>1. PDE(q) \in Pde /\ PTE(q) \in Pte /\ PDE(q) >= KCol
  BY PagePlace
<1>2. \A p \in pages : PDE(p) # PDE(q)
  BY <1>1, PagePlace
<1>3. dir'[u][PDE(q)] = dir[u][PDE(q)]
  BY <1>1, <1>2 DEF WroteDir
<1>4. Lookup(u, q)' = IF dir'[u][PDE(q)] = Nil THEN Nil
                      ELSE tbl'[dir'[u][PDE(q)].to][PTE(q)]
  BY DEF Lookup, PDE, PTE
<1>5. ASSUME dir[u][PDE(q)] # Nil
      PROVE  tbl'[dir[u][PDE(q)].to][PTE(q)] = tbl[dir[u][PDE(q)].to][PTE(q)]
  <2>1. dir[u][PDE(q)].to \in Tbl /\ dir[u][PDE(q)].to[2] = PDE(q)
    BY <1>5, LookupCell
  <2>2. \A p \in pages : dir'[t][PDE(p)].to # dir[u][PDE(q)].to
    BY <1>2, <2>1 DEF WroteTbl
  <2> QED BY <1>1, <2>1, <2>2 DEF WroteTbl
<1> QED BY <1>3, <1>4, <1>5 DEF Lookup

\* Which mappings of u writing the entries of a set of pages of t changes.
LEMMA WriteLookup ==
  ASSUME Space, NEW t \in Task, NEW pages \in SUBSET Pages,
         NEW entry, WroteDir(t, pages), WroteTbl(t, pages, entry),
         NEW u \in Task, NEW q \in Pages, dir[u][PDE(q)] # Nil
  PROVE  /\ dir'[u][PDE(q)] = dir[u][PDE(q)]
         /\ Lookup(u, q)' = tbl'[dir[u][PDE(q)].to][PTE(q)]
         /\ Lookup(u, q)' # Lookup(u, q) =>
              /\ q \in pages /\ Lookup(u, q)' = entry[q]
              /\ dir[u][PDE(q)].to = dir'[t][PDE(q)].to
<1> USE DEF Space
<1>1. PDE(q) \in Pde /\ PTE(q) \in Pte
  BY PagePlace
<1>2. dir'[u][PDE(q)] = dir[u][PDE(q)]
  BY <1>1 DEF WroteDir
<1>3. Lookup(u, q)' = tbl'[dir[u][PDE(q)].to][PTE(q)]
  BY <1>2 DEF Lookup, PDE, PTE
<1>4. /\ dir[u][PDE(q)].to \in Tbl /\ dir[u][PDE(q)].to[2] = PDE(q)
      /\ Lookup(u, q) = tbl[dir[u][PDE(q)].to][PTE(q)]
  BY LookupCell
<1>5. ASSUME Lookup(u, q)' # Lookup(u, q)
      PROVE  /\ q \in pages /\ Lookup(u, q)' = entry[q]
             /\ dir[u][PDE(q)].to = dir'[t][PDE(q)].to
  <2>1. PICK p \in pages : dir'[t][PDE(p)].to = dir[u][PDE(q)].to /\ PTE(p) = PTE(q)
    BY <1>1, <1>3, <1>4, <1>5 DEF WroteTbl
  <2>2. PDE(p) = PDE(q)
    BY <1>4, <2>1 DEF WroteTbl
  <2>3. p = q
    BY <2>1, <2>2, PageDetermined
  <2> QED BY <1>3, <2>1, <2>2, <2>3 DEF WroteTbl
<1> QED BY <1>2, <1>3, <1>5

\* The kernel maps pages it did not map, or gives pages back.
LEMMA KernelWriteHeap ==
  ASSUME Space, HeapIsShared, tasks \subseteq Task, KERNEL_PID \in tasks, tasks' = tasks,
         NEW pages \in SUBSET Pages, NEW entry,
         WroteDir(KERNEL_PID, pages), WroteTbl(KERNEL_PID, pages, entry),
         trimmed \subseteq trimmed',
         \A p \in pages : Lookup(KERNEL_PID, p) = Nil \/ p \in trimmed'
  PROVE  HeapIsShared'
<1> SUFFICES ASSUME NEW t \in tasks, t # KERNEL_PID, NEW q \in Pages, q \notin trimmed',
                    IsKernel(q), Lookup(t, q)' # Nil
             PROVE  Lookup(t, q)' = Lookup(KERNEL_PID, q)'
  BY DEF HeapIsShared, IsKernel, PageOf, Pages
<1>1. KERNEL_PID \in Task /\ t \in Task /\ PDE(q) \in Pde
  BY PagePlace
<1>2. dir[t][PDE(q)] # Nil
  <2>1. dir'[t][PDE(q)] = dir[t][PDE(q)]
    BY <1>1 DEF WroteDir
  <2>2. Lookup(t, q)' = IF dir'[t][PDE(q)] = Nil THEN Nil
                        ELSE tbl'[dir'[t][PDE(q)].to][PTE(q)]
    BY DEF Lookup, PDE, PTE
  <2> QED BY <2>1, <2>2
<1>3. CASE Lookup(t, q)' # Lookup(t, q)
  <2>1. q \in pages /\ Lookup(t, q)' = entry[q]
    BY <1>1, <1>2, <1>3, WriteLookup
  <2>2. /\ dir'[KERNEL_PID][PDE(q)] # Nil
        /\ tbl'[dir'[KERNEL_PID][PDE(q)].to][PTE(q)] = entry[q]
    BY <2>1 DEF WroteTbl
  <2>3. Lookup(KERNEL_PID, q)' = tbl'[dir'[KERNEL_PID][PDE(q)].to][PTE(q)]
    BY <2>2 DEF Lookup, PDE, PTE
  <2> QED BY <2>1, <2>2, <2>3
<1>4. CASE Lookup(t, q)' = Lookup(t, q)
  <2>1. Lookup(t, q) = Lookup(KERNEL_PID, q) /\ Lookup(KERNEL_PID, q) # Nil
    BY <1>4 DEF HeapIsShared
  <2>2. dir[KERNEL_PID][PDE(q)] # Nil /\ q \notin pages
    BY <2>1 DEF Lookup
  <2>3. Lookup(KERNEL_PID, q)' = Lookup(KERNEL_PID, q)
    BY <1>1, <2>2, WriteLookup
  <2> QED BY <1>4, <2>1, <2>3
<1> QED BY <1>3, <1>4

\* The fault handler fills in an entry of UserTask's directory.
LEMMA FaultHeap ==
  ASSUME Space, Owners, HeapIsShared, tasks \subseteq Task, KERNEL_PID \in tasks,
         tasks' = tasks, trimmed' = trimmed,
         NEW u \in tasks, u # KERNEL_PID, NEW page \in Pages, NEW entry,
         WroteDir(u, {page}), WroteTbl(u, {page}, entry),
         entry[page] = Lookup(KERNEL_PID, page)
  PROVE  HeapIsShared'
<1>0. KERNEL_PID \in Task /\ u \in Task /\ {page} \in SUBSET Pages
  OBVIOUS
<1>1. \A v, q : Lookup(v, q)' = IF dir'[v][PDE(q)] = Nil THEN Nil
                                ELSE tbl'[dir'[v][PDE(q)].to][PTE(q)]
  BY DEF Lookup, PDE, PTE
<1>2. ASSUME NEW q \in Pages PROVE Lookup(KERNEL_PID, q)' = Lookup(KERNEL_PID, q)
  <2>1. CASE dir[KERNEL_PID][PDE(q)] = Nil
    <3>1. dir'[KERNEL_PID] = dir[KERNEL_PID]
      BY <1>0 DEF WroteDir
    <3> QED BY <1>1, <2>1, <3>1 DEF Lookup
  <2>2. CASE dir[KERNEL_PID][PDE(q)] # Nil
    <3>1. Lookup(KERNEL_PID, q)' # Lookup(KERNEL_PID, q) =>
            q \in {page} /\ Lookup(KERNEL_PID, q)' = entry[q]
      BY <1>0, <2>2, WriteLookup
    <3> QED BY <3>1
  <2> QED BY <2>1, <2>2
<1>3. ASSUME NEW t \in tasks, NEW q \in Pages, Lookup(t, q)' # Nil
      PROVE  Lookup(t, q)' = Lookup(t, q) \/ Lookup(t, q)' = Lookup(KERNEL_PID, q)
  <2>1. CASE dir[t][PDE(q)] # Nil
    <3>1. Lookup(t, q)' # Lookup(t, q) => q \in {page} /\ Lookup(t, q)' = entry[q]
      BY <1>0, <2>1, WriteLookup
    <3> QED BY <3>1
  <2>2. CASE dir[t][PDE(q)] = Nil
    <3>1. PDE(q) \in Pde /\ PTE(q) \in Pte /\ t \in Task
      BY PagePlace
    <3>2. /\ dir'[t][PDE(q)] # Nil
          /\ Lookup(t, q)' = tbl'[dir'[t][PDE(q)].to][PTE(q)]
      BY <1>1, <1>3
    <3>3. t = u /\ dir'[t][PDE(q)] = Entry(TblOf(t, PDE(q)), base_flags)
      BY <2>2, <3>1, <3>2 DEF WroteDir
    <3>4. dir'[t][PDE(q)].to = TblOf(t, PDE(q))
      BY <3>3 DEF Entry
    <3>5. /\ TblOf(t, PDE(q)) \in Tbl /\ TblOf(t, PDE(q))[2] = PDE(q)
          /\ tbl[TblOf(t, PDE(q))][PTE(q)] = Nil
      BY <2>2, <3>1, Names DEF Owners
    <3>6. tbl'[TblOf(t, PDE(q))][PTE(q)] # tbl[TblOf(t, PDE(q))][PTE(q)]
      BY <1>3, <3>2, <3>4, <3>5
    <3>7. dir'[u][PDE(page)].to = TblOf(t, PDE(q)) /\ PTE(page) = PTE(q)
      BY <3>1, <3>5, <3>6 DEF WroteTbl
    <3>8. PDE(page) = PDE(q)
      BY <3>5, <3>7 DEF WroteTbl
    <3>9. page = q
      BY <3>7, <3>8, PageDetermined
    <3>10. tbl'[dir'[u][PDE(page)].to][PTE(page)] = entry[page]
      BY DEF WroteTbl
    <3> QED BY <3>2, <3>3, <3>9, <3>10
  <2> QED BY <2>1, <2>2
<1> SUFFICES ASSUME NEW t \in tasks, NEW q \in Pages, q \notin trimmed, IsKernel(q),
                    Lookup(t, q)' # Nil
             PROVE  Lookup(t, q)' = Lookup(KERNEL_PID, q)'
  BY DEF HeapIsShared, IsKernel, PageOf, Pages
<1> QED BY <1>2, <1>3 DEF HeapIsShared

\* Fork keeps the tables with their owners.
LEMMA CloneOwners ==
  ASSUME Space, Owners, tasks \subseteq Task, running \in tasks, NEW c \in Task \ tasks,
         NEW frame, ClonedTo(c, frame)
  PROVE  Owners'
<1> USE DEF Space
<1>1. \A d \in Pde : dir[c][d] = Nil
  BY DEF Columns
<1>2. ASSUME NEW v \in Task, NEW d \in Pde, dir[v][d] # Nil
      PROVE  dir'[dir[v][d].to[1]][d] # Nil
  <2>1. dir[v][d].to[1] \in tasks
    BY <1>2, Zenon DEF Columns
  <2>2. dir[dir[v][d].to[1]][d] # Nil
    BY <1>2 DEF Owners
  <2> QED BY <2>1, <2>2 DEF ClonedTo
<1>3. ASSUME NEW u \in Task, NEW d \in Pde, dir'[u][d] # Nil
      PROVE  dir'[dir'[u][d].to[1]][d] # Nil
  <2>1. CASE u # c
    BY <1>2, <1>3, <2>1 DEF ClonedTo
  <2>2. CASE u = c /\ d \in Own
    <3>1. dir'[u][d] = Entry(TblOf(u, d), FALSE)
      BY <2>2 DEF ClonedTo
    <3>2. dir'[u][d].to = TblOf(u, d)
      BY <3>1 DEF Entry
    <3>3. dir'[u][d].to[1] = u
      BY <3>2, Names
    <3> QED BY <1>3, <3>3
  <2>3. CASE u = c /\ d \notin Own
    <3>1. dir'[u][d] = dir[running][d] /\ running \in Task
      BY <2>3 DEF ClonedTo
    <3> QED BY <1>2, <1>3, <3>1
  <2> QED BY <2>1, <2>2, <2>3
<1>4. ASSUME NEW u \in Task, NEW d \in Pde, dir'[u][d] = Nil, NEW i \in Pte
      PROVE  tbl'[TblOf(u, d)][i] = Nil
  <2>1. TblOf(u, d) \in Tbl /\ TblOf(u, d)[1] = u /\ TblOf(u, d)[2] = d
    BY Names
  <2>2. dir[u][d] = Nil
    BY <1>1, <1>4 DEF ClonedTo
  <2>3. u = c => d \notin Own
    <3> SUFFICES ASSUME u = c, d \in Own PROVE FALSE
      OBVIOUS
    <3>1. dir'[u][d] = Entry(TblOf(u, d), FALSE)
      BY DEF ClonedTo
    <3>2. dir'[u][d].to = TblOf(u, d)
      BY <3>1 DEF Entry
    <3> QED BY <1>4, <2>1, <3>2, Names
  <2>4. tbl'[TblOf(u, d)][i] = tbl[TblOf(u, d)][i]
    BY <2>1, <2>3 DEF ClonedTo
  <2> QED BY <2>2, <2>4 DEF Owners
<1> QED BY <1>3, <1>4 DEF Owners

\* Both operations write entries.
LEMMA AllocOrUnmap ==
  ASSUME Space, NEW t \in Task, NEW pages \in SUBSET Pages,
         pg_alloc(t, pages) \/ pg_unmap(t, pages)
  PROVE  \E entry \in [pages -> TblEntry] :
           /\ WroteDir(t, pages) /\ WroteTbl(t, pages, entry)
           /\ pg_alloc(t, pages) => \A p \in pages : entry[p] # Nil
<1>1. CASE pg_alloc(t, pages)
  <2>1. PICK entry \in [pages -> TblEntry] : Allocated(t, pages, entry)
    BY <1>1, AllocFacts DEF Space
  <2>2. /\ WroteDir(t, pages) /\ WroteTbl(t, pages, entry)
        /\ \A p \in pages : entry[p] # Nil
    BY <2>1, Zenon DEF Allocated
  <2> QED BY <2>2
<1>2. CASE pg_unmap(t, pages) /\ ~pg_alloc(t, pages)
  <2> DEFINE entry == [p \in pages |-> Nil]
  <2>1. entry \in [pages -> TblEntry]
    BY Entries
  <2>2. pg_write_entry(t, entry)
    BY <1>2 DEF pg_unmap
  <2> HIDE DEF entry
  <2>3. WroteDir(t, pages) /\ WroteTbl(t, pages, entry)
    BY <2>1, <2>2, WriteFacts DEF Space
  <2> QED BY <1>2, <2>1, <2>3
<1> QED BY <1>1, <1>2

LEMMA SameHeap ==
  ASSUME HeapIsShared, tasks' = tasks, trimmed' = trimmed, KERNEL_PID \in tasks,
         \A u \in tasks, q \in Pages : IsKernel(q) => Lookup(u, q)' = Lookup(u, q)
  PROVE  HeapIsShared'
<1> SUFFICES ASSUME NEW t \in tasks, NEW q \in Pages, q \notin trimmed, IsKernel(q),
                    Lookup(t, q)' # Nil
             PROVE  Lookup(t, q)' = Lookup(KERNEL_PID, q)'
  BY DEF HeapIsShared, IsKernel, PageOf, Pages
<1> QED BY DEF HeapIsShared

\* Steps that write no entry.
LEMMA SameEntries ==
  ASSUME HeapInv, dir' = dir, tbl' = tbl, tasks' = tasks, trimmed' = trimmed
  PROVE  Owners' /\ HeapIsShared'
<1>1. Owners /\ HeapIsShared /\ Rest /\ Space
  BY Parts DEF HeapInv
<1>2. \A u, q : Lookup(u, q)' = Lookup(u, q)
  BY <1>1, SameSpace
<1>3. Owners'
  BY <1>1 DEF Owners
<1> QED BY <1>1, <1>2, <1>3, SameHeap DEF Rest

\* Steps of the running program.
LEMMA ProgramHeap ==
  ASSUME HeapInv, NEW pages \in SUBSET Pages, \A p \in pages : ~IsKernel(p),
         pg_alloc(running, pages) \/ pg_unmap(running, pages) \/ UNCHANGED space,
         tasks' = tasks, trimmed' = trimmed
  PROVE  Owners' /\ HeapIsShared'
<1>1. Owners /\ HeapIsShared /\ Rest /\ Space
  BY Parts DEF HeapInv
<1>2. running \in Task /\ tasks \subseteq Task /\ KERNEL_PID \in tasks
  BY <1>1 DEF Rest
<1>3. CASE UNCHANGED space
  BY <1>3, SameEntries DEF space
<1>4. CASE pg_alloc(running, pages) \/ pg_unmap(running, pages)
  <2>1. PICK entry : WroteDir(running, pages) /\ WroteTbl(running, pages, entry)
    BY <1>1, <1>2, <1>4, AllocOrUnmap
  <2>2. Owners'
    BY <1>1, <1>2, <2>1, WriteOwners
  <2>3. \A u \in tasks, q \in Pages : IsKernel(q) => Lookup(u, q)' = Lookup(u, q)
    BY <1>1, <1>2, <2>1, UserWriteHeap
  <2> QED BY <1>1, <1>2, <2>2, <2>3, SameHeap
<1> QED BY <1>3, <1>4

LEMMA KernelBrkHeap ==
  ASSUME HeapInv, NEW b \in KernelBreaks, KernelBrk(b)
  PROVE  Owners' /\ HeapIsShared'
<1> DEFINE pages == BrkPages(KERNEL_PID, b)
<1>1. Owners /\ HeapIsShared /\ Rest /\ Space /\ SpaceInv
  BY Parts DEF HeapInv
<1>2. tasks \subseteq Task /\ KERNEL_PID \in tasks /\ KERNEL_PID \in Task
  BY <1>1 DEF Rest
<1>3. /\ task_brk(KERNEL_PID, b) /\ tasks' = tasks
      /\ trimmed' = trimmed \union PageOf(b) .. PageOf(brk[KERNEL_PID]) - 1
  BY DEF KernelBrk
<1>4. pages \in SUBSET Pages /\ b \in Nat /\ brk[KERNEL_PID] \in Nat
  BY <1>1, KernelBrkPages
<1>5. \/ b > brk[KERNEL_PID] /\ pg_alloc(KERNEL_PID, pages)
      \/ b < brk[KERNEL_PID] /\ pg_unmap(KERNEL_PID, pages)
      \/ b = brk[KERNEL_PID] /\ UNCHANGED space
  BY <1>2, <1>3, <1>4, TaskBrk
<1>6. \A p \in pages : Lookup(KERNEL_PID, p) = Nil \/ p \in trimmed'
  <2>1. CASE b > brk[KERNEL_PID]
    BY <2>1 DEF BrkPages, pg_is_allocated
  <2>2. CASE ~ (b > brk[KERNEL_PID])
    BY <1>3, <2>2 DEF BrkPages
  <2> QED BY <2>1, <2>2
<1>7. trimmed \subseteq trimmed'
  BY <1>3
<1> HIDE DEF pages
<1>8. CASE pg_alloc(KERNEL_PID, pages) \/ pg_unmap(KERNEL_PID, pages)
  <2>1. PICK entry : WroteDir(KERNEL_PID, pages) /\ WroteTbl(KERNEL_PID, pages, entry)
    BY <1>1, <1>2, <1>4, <1>8, AllocOrUnmap
  <2>2. Owners'
    BY <1>1, <1>2, <1>4, <2>1, WriteOwners
  <2> QED BY <1>1, <1>2, <1>3, <1>4, <1>6, <1>7, <2>1, <2>2, KernelWriteHeap
<1>9. CASE b = brk[KERNEL_PID] /\ UNCHANGED space
  <2>1. PageOf(b) .. PageOf(brk[KERNEL_PID]) - 1 = {}
    BY <1>4, <1>9, PageAddress
  <2> QED BY <1>3, <1>9, <2>1, SameEntries DEF space
<1> QED BY <1>5, <1>8, <1>9

LEMMA FaultHandlerHeap ==
  ASSUME HeapInv, pg_fault_handler
  PROVE  Owners' /\ HeapIsShared'
<1> DEFINE entry == [p \in {fault} |-> Lookup(KERNEL_PID, p)]
<1>1. Owners /\ HeapIsShared /\ Rest /\ Space
  BY Parts DEF HeapInv
<1>2. /\ fault # NULL /\ UserTask # NULL /\ IsKernel(fault) /\ pg_write_entry(UserTask, entry)
      /\ data' = data /\ tasks' = tasks /\ trimmed' = trimmed
  BY DEF pg_fault_handler
<1>3. /\ tasks \subseteq Task /\ KERNEL_PID \in tasks /\ fault \in Pages
      /\ UserTask \in tasks /\ UserTask # KERNEL_PID /\ UserTask \in Task
  BY <1>1, <1>2 DEF Rest
<1>4. entry[fault] = Lookup(KERNEL_PID, fault)
  OBVIOUS
<1>5. WroteDir(UserTask, {fault}) /\ WroteTbl(UserTask, {fault}, entry)
  BY <1>1, <1>2, <1>3, FaultStep
<1> HIDE DEF entry
<1>6. Owners'
  BY <1>1, <1>3, <1>5, WriteOwners
<1>7. HeapIsShared'
  BY <1>1, <1>2, <1>3, <1>4, <1>5, FaultHeap
<1> QED BY <1>6, <1>7

LEMMA SysForkHeap ==
  ASSUME HeapInv, NEW c \in Task, sys_fork(c)
  PROVE  Owners' /\ HeapIsShared'
<1>1. Owners /\ HeapIsShared /\ Rest /\ Space /\ data \in [Frame -> {0, 1}]
  BY Parts DEF HeapInv
<1>2. c \notin tasks /\ pg_clone_dir(c) /\ tasks' = tasks \union {c} /\ trimmed' = trimmed
  BY DEF sys_fork
<1>3. tasks \subseteq Task /\ running \in tasks /\ KERNEL_PID \in tasks
  BY <1>1 DEF Rest
<1>4. PICK frame : ClonedTo(c, frame)
  BY <1>1, <1>2, <1>3, CloneFacts
<1>5. Owners'
  BY <1>1, <1>2, <1>3, <1>4, CloneOwners
<1>6. /\ \A u \in tasks, q \in Pages : Lookup(u, q)' = Lookup(u, q)
      /\ \A q \in Pages : IsKernel(q) => Lookup(c, q)' = Lookup(running, q)
  BY <1>1, <1>2, <1>3, CloneStep
<1>7. HeapIsShared'
  <2> SUFFICES ASSUME NEW t \in tasks', NEW q \in Pages, q \notin trimmed, IsKernel(q),
                      Lookup(t, q)' # Nil
               PROVE  Lookup(t, q)' = Lookup(KERNEL_PID, q)'
    BY <1>2 DEF HeapIsShared, IsKernel, PageOf, Pages
  <2>1. PICK u \in tasks : Lookup(t, q)' = Lookup(u, q)
    BY <1>2, <1>3, <1>6
  <2> QED BY <1>1, <1>3, <1>6, <2>1 DEF HeapIsShared
<1> QED BY <1>5, <1>7

LEMMA InitHeap == Init => HeapInv
<1> SUFFICES ASSUME Init PROVE HeapInv
  OBVIOUS
<1>1. SpaceInv
  BY InitSpace
<1>2. tasks = {KERNEL_PID} /\ KERNEL_PID \in Task
  BY <1>1, Parts DEF Init, Rest
<1>3. HeapIsShared
  BY <1>2 DEF HeapIsShared
<1>4. ASSUME NEW t \in Task, NEW d \in Pde, dir[t][d] # Nil
      PROVE  dir[dir[t][d].to[1]][d] # Nil
  <2>1. t \in tasks /\ dir[t][d].to[1] \in tasks
    BY <1>1, <1>4, Parts, Zenon DEF Space, Columns
  <2> QED BY <1>2, <1>4, <2>1
<1>5. ASSUME NEW t \in Task, NEW d \in Pde, dir[t][d] = Nil, NEW i \in Pte
      PROVE  tbl[TblOf(t, d)][i] = Nil
  <2>1. TblOf(t, d) \in Tbl
    BY Names
  <2>2. PDE(StackPage) \in Pde
    BY UserPlace, PagePlace
  <2>3. TblOf(t, d) # TblOf(KERNEL_PID, PDE(StackPage))
    <3> SUFFICES ASSUME TblOf(t, d) = TblOf(KERNEL_PID, PDE(StackPage)) PROVE FALSE
      OBVIOUS
    <3>1. t = KERNEL_PID /\ d = PDE(StackPage)
      BY <1>2, <2>2, Names
    <3>2. dir[t][d] = Entry(TblOf(t, d), FALSE)
      BY <3>1 DEF Init
    <3>3. dir[t][d].to = TblOf(t, d)
      BY <3>2 DEF Entry
    <3> QED BY <1>5, <2>1, <3>3, Names
  <2> QED BY <2>1, <2>3 DEF Init
<1> QED BY <1>1, <1>3, <1>4, <1>5 DEF HeapInv, Owners

\* Every step keeps the kernel's heap shared.
LEMMA HeapStep ==
  ASSUME HeapInv, [Next]_vars
  PROVE  HeapInv'
<1>0. SpaceInv /\ Rest /\ SpaceInv'
  BY Parts, SpaceStep DEF HeapInv
<1> SUFFICES Owners' /\ HeapIsShared'
  BY <1>0 DEF HeapInv
<1>1. ASSUME NEW b \in Breaks, sys_brk(b) PROVE Owners' /\ HeapIsShared'
  <2>1. /\ running \in Task /\ brk[running] < KZERO /\ brk[running] \in Nat
        /\ tasks' = tasks /\ trimmed' = trimmed
    BY <1>0, <1>1 DEF sys_brk, InProgram, Rest
  <2>2. \A p \in BrkPages(running, b) : p \in Pages /\ ~IsKernel(p)
    BY <1>0, <2>1, UserBrkPages
  <2>3. b \in Nat
    BY MmuAssumption
  <2>4. \/ pg_alloc(running, BrkPages(running, b)) \/ pg_unmap(running, BrkPages(running, b))
        \/ UNCHANGED space
    BY <1>1, <2>1, <2>3, TaskBrk DEF sys_brk
  <2> QED BY <2>1, <2>2, <2>4, ProgramHeap
<1>2. ASSUME NEW length \in Lengths, sys_mmap(length) PROVE Owners' /\ HeapIsShared'
  <2>1. /\ mmapbrk[running] \in Nat /\ length \in Nat /\ MmapFits(length)
        /\ tasks' = tasks /\ trimmed' = trimmed /\ pg_alloc(running, MmapPages(length))
    BY <1>0, <1>2, MmuAssumption DEF sys_mmap, Rest
  <2>2. \A p \in MmapPages(length) : p \in Pages /\ ~IsKernel(p)
    BY <2>1, ProgramPages
  <2> QED BY <2>1, <2>2, ProgramHeap
<1>3. CASE sys_execve
  <2> DEFINE pages == elf_read \union elf_load \union arch_exec
  <2>1. /\ mmapbrk[running] \in Nat /\ ElfLength \in Nat /\ MmapFits(ElfLength)
        /\ tasks' = tasks /\ trimmed' = trimmed /\ pg_alloc(running, pages)
    BY <1>0, <1>3, Sizes DEF sys_execve, Rest
  <2>2. \A p \in pages : p \in Pages /\ ~IsKernel(p)
    BY <2>1, ProgramPages DEF elf_read
  <2> HIDE DEF pages
  <2> QED BY <2>1, <2>2, ProgramHeap
<1>4. CASE UNCHANGED <<dir, tbl, tasks, trimmed>>
  BY <1>4, SameEntries
<1>5. ASSUME NEW t \in Task, Switch(t) PROVE UNCHANGED <<dir, tbl, tasks, trimmed>>
  BY <1>5 DEF Switch, space
<1>6. CASE enter_kernel
  BY <1>4, <1>6 DEF enter_kernel, space
<1>7. CASE leave_kernel
  BY <1>4, <1>7 DEF leave_kernel, space
<1>8. ASSUME NEW page \in WritePages, Write(page) PROVE UNCHANGED <<dir, tbl, tasks, trimmed>>
  BY <1>8 DEF Write
<1>9. ASSUME NEW page \in Pages, Fault(page) PROVE UNCHANGED <<dir, tbl, tasks, trimmed>>
  BY <1>9 DEF Fault, space
<1>10. CASE pg_fault_panic
  BY <1>4, <1>10 DEF pg_fault_panic, space
<1>11. CASE UNCHANGED vars
  BY <1>4, <1>11 DEF vars
<1> QED
  BY <1>1, <1>2, <1>3, <1>4, <1>5, <1>6, <1>7, <1>8, <1>9, <1>10, <1>11,
     SysForkHeap, KernelBrkHeap, FaultHandlerHeap DEF Next

\* Every directory that maps a page of the kernel's heap maps it to the frame
\* the kernel uses, except for pages the heap has given back, however fork
\* shared the tables and faults filled them.
THEOREM HeapStaysShared == Spec => []HeapIsShared
<1>1. Spec => []HeapInv
  BY InitHeap, HeapStep, PTL DEF Spec
<1>2. HeapInv => HeapIsShared
  BY DEF HeapInv
<1> QED BY <1>1, <1>2, PTL

-----------------------------------------------------------------------------
(* The break *)

BreakInv == SpaceInv /\ ProgramMapped

\* A page is in a task's view if and only if it is mapped.
LEMMA ViewMapped ==
  ASSUME Space, data \in [Frame -> {0, 1}], NEW t \in Task, NEW p \in Pages, ~IsKernel(p)
  PROVE  View(t)[p] = NULL <=> Lookup(t, p) = Nil
<1>1. Lookup(t, p) # Nil => Lookup(t, p).to \in Frame
  BY OwnTable DEF Space
<1>2. \A f \in Frame : data[f] # NULL
  BY DEF NULL
<1> QED BY <1>1, <1>2 DEF View, UserPages

LEMMA ViewMappedNext ==
  ASSUME Space', data' \in [Frame -> {0, 1}], NEW t \in Task, NEW p \in Pages, ~IsKernel(p)
  PROVE  View(t)'[p] = NULL <=> Lookup(t, p)' = Nil
<1>1. Lookup(t, p)' # Nil => Lookup(t, p)'.to \in Frame
  <2>1. DirType' /\ TblType' /\ Columns'
    BY DEF Space
  <2>2. PDE(p) \in Pde /\ PTE(p) \in Pte
    BY PagePlace
  <2>3. ASSUME Lookup(t, p)' # Nil PROVE Lookup(t, p)'.to \in Frame
    <3>1. dir'[t][PDE(p)] # Nil /\ Lookup(t, p)' = tbl'[dir'[t][PDE(p)].to][PTE(p)]
      BY <2>3 DEF Lookup, PDE, PTE
    <3>2. dir'[t][PDE(p)].to \in Tbl
      BY <2>1, <2>2, <3>1, Entries DEF DirType
    <3>3. Lookup(t, p)' \in TblEntry
      BY <2>1, <2>2, <3>1, <3>2 DEF TblType
    <3> QED BY <2>3, <3>3, Entries
  <2> QED BY <2>3
<1>2. \A f \in Frame : data'[f] # NULL
  BY DEF NULL
<1>3. View(t)' = [q \in UserPages |->
                IF Lookup(t, q)' = Nil THEN NULL ELSE data'[Lookup(t, q)'.to]]
  BY Zenon DEF View, UserPages, Pages, IsKernel, PageOf, NULL, Nil
<1> QED BY <1>1, <1>2, <1>3 DEF UserPages

\* Allocation maps its pages and unmaps none; unmapping unmaps only its pages.
LEMMA StaysMapped ==
  ASSUME Space, NEW t \in Task, NEW pages \in SUBSET Pages,
         pg_alloc(t, pages) \/ pg_unmap(t, pages), NEW p \in Pages,
         \/ pg_alloc(t, pages) /\ p \in pages
         \/ pg_alloc(t, pages) /\ Lookup(t, p) # Nil
         \/ p \notin pages /\ Lookup(t, p) # Nil
  PROVE  Lookup(t, p)' # Nil
<1>1. PICK entry \in [pages -> TblEntry] :
        /\ WroteDir(t, pages) /\ WroteTbl(t, pages, entry)
        /\ pg_alloc(t, pages) => \A q \in pages : entry[q] # Nil
  BY AllocOrUnmap
<1>2. CASE pg_alloc(t, pages) /\ p \in pages
  <2>1. dir'[t][PDE(p)] # Nil /\ tbl'[dir'[t][PDE(p)].to][PTE(p)] = entry[p]
    BY <1>1, <1>2 DEF WroteTbl
  <2>2. Lookup(t, p)' = tbl'[dir'[t][PDE(p)].to][PTE(p)]
    BY <2>1 DEF Lookup, PDE, PTE
  <2> QED BY <1>1, <1>2, <2>1, <2>2
<1>3. CASE Lookup(t, p) # Nil /\ p \notin pages
  <2>1. dir[t][PDE(p)] # Nil
    BY <1>3 DEF Lookup
  <2>2. Lookup(t, p)' # Lookup(t, p) => p \in pages
    BY <1>1, <2>1, WriteLookup
  <2> QED BY <1>3, <2>2
<1> QED BY <1>2, <1>3

\* Moving the break: what is below the new one is mapped afterwards.
LEMMA BrkMaps ==
  ASSUME \A c \in Breaks : c % PAGE_SIZE = 0, BreakInv, NEW b \in Breaks, sys_brk(b), NEW r, r = running,
         NEW p \in Pages, ~IsKernel(p), PageOf(Segment[1]) <= p, p * PAGE_SIZE < b
  PROVE  Lookup(r, p)' # Nil
<1> DEFINE pages == BrkPages(r, b)
<1>1. SpaceInv /\ Space /\ Rest /\ r \in tasks /\ r \in Task /\ brk[r] < KZERO
  BY Parts DEF BreakInv, Rest, sys_brk, InProgram
<1>2. b \in Nat /\ brk[r] \in Nat /\ p \in Nat /\ PAGE_SIZE \in Nat \ {0}
  BY <1>1, MmuAssumption, Sizes DEF Rest, Pages
<1>3. pages \in SUBSET Pages
  BY <1>1, UserBrkPages
<1>4. \/ b > brk[r] /\ pg_alloc(r, pages)
      \/ b < brk[r] /\ pg_unmap(r, pages)
      \/ b = brk[r] /\ UNCHANGED space
  BY <1>1, <1>2, TaskBrk DEF sys_brk
<1>5. p * PAGE_SIZE \in Nat
  BY <1>2, ProductOrder
<1>6. p * PAGE_SIZE < brk[r] => Lookup(r, p) # Nil
  BY <1>1 DEF BreakInv, ProgramMapped
<1>7. CASE b > brk[r] /\ pg_alloc(r, pages)
  <2>1. pages = {q \in Steps(brk[r], b) : Lookup(r, q) = Nil}
    BY <1>7 DEF BrkPages, pg_is_allocated
  <2>2. PageOf(brk[r]) \in Nat /\ PageOf(brk[r]) * PAGE_SIZE <= brk[r]
    BY <1>2, PageAddress
  <2>3. CASE PageOf(brk[r]) <= p
    <3>1. p \in Steps(brk[r], b)
      BY <1>2, <2>3, StepsCover
    <3> HIDE DEF pages
    <3>2. p \in pages \/ Lookup(r, p) # Nil
      BY <2>1, <3>1
    <3> QED BY <1>1, <1>3, <1>7, <3>2, StaysMapped
  <2>4. CASE p < PageOf(brk[r])
    <3>1. /\ p * PAGE_SIZE + PAGE_SIZE <= PageOf(brk[r]) * PAGE_SIZE
          /\ PageOf(brk[r]) * PAGE_SIZE \in Nat
      BY <1>2, <2>2, <2>4, ProductOrder
    <3>2. p * PAGE_SIZE < brk[r]
      BY <1>2, <1>5, <2>2, <3>1
    <3> HIDE DEF pages
    <3> QED BY <1>1, <1>3, <1>6, <1>7, <3>2, StaysMapped
  <2> QED BY <1>2, <2>2, <2>3, <2>4
<1>8. CASE b < brk[r] /\ pg_unmap(r, pages)
  <2>1. Lookup(r, p) # Nil
    BY <1>2, <1>5, <1>6, <1>8
  <2>2. b = PageOf(b) * PAGE_SIZE /\ PageOf(b) \in Nat
    <3>1. b = (b \div PAGE_SIZE) * PAGE_SIZE + (b % PAGE_SIZE) /\ b \div PAGE_SIZE \in Nat
      BY <1>2, Division
    <3>2. b % PAGE_SIZE = 0 /\ PageOf(b) * PAGE_SIZE \in Nat
      BY <1>2, <3>1, ProductOrder DEF PageOf
    <3> QED BY <3>1, <3>2 DEF PageOf
  <2>3. p < PageOf(b)
    <3>1. PageOf(b) < p => PageOf(b) * PAGE_SIZE + PAGE_SIZE <= p * PAGE_SIZE
      BY <1>2, <2>2, ProductOrder
    <3>2. ~ (PageOf(b) < p)
      BY <1>2, <1>5, <2>2, <3>1
    <3>3. PageOf(b) # p
      BY <1>2, <1>5, <2>2
    <3> QED BY <1>2, <2>2, <3>2, <3>3
  <2>4. p \notin pages
    <3>1. pages = PageOf(b) .. PageOf(brk[r]) - 1
      BY <1>2, <1>8 DEF BrkPages
    <3>2. PageOf(brk[r]) \in Nat
      BY <1>2, PageAddress
    <3> HIDE DEF pages
    <3> QED BY <1>2, <2>2, <2>3, <3>1, <3>2
  <2> HIDE DEF pages
  <2> QED BY <1>1, <1>3, <1>8, <2>1, <2>4, StaysMapped
<1>9. CASE b = brk[r] /\ UNCHANGED space
  <2>1. Lookup(r, p)' = Lookup(r, p)
    BY <1>9 DEF space, Lookup, PDE, PTE
  <2> QED BY <1>6, <1>9, <2>1
<1> QED BY <1>4, <1>7, <1>8, <1>9

\* Loading a program maps it up to its break.
LEMMA ExecveMaps ==
  ASSUME BreakInv, sys_execve, NEW r, r = running, NEW p \in Pages, PageOf(Segment[1]) <= p,
         p * PAGE_SIZE < Segment[2]
  PROVE  Lookup(r, p)' # Nil
<1> DEFINE pages == elf_read \union elf_load \union arch_exec
<1>1. Space /\ Rest /\ r \in Task
  BY Parts DEF BreakInv, Rest
<1>2. pg_alloc(r, pages) /\ MmapFits(ElfLength) /\ mmapbrk[r] \in Nat
  BY <1>1 DEF sys_execve, Rest
<1>3. pages \in SUBSET Pages
  BY <1>2, ProgramPages, Sizes DEF elf_read
<1>4. p \in Steps(Segment[1], Segment[2])
  BY Sizes, StepsCover DEF Pages
<1>5. p \in pages
  BY <1>4 DEF elf_load
<1> HIDE DEF pages
<1> QED BY <1>1, <1>2, <1>3, <1>5, StaysMapped

\* What a step does to the breaks of tasks other than the running one.
OtherBreaks ==
  \A t \in tasks' : t # running =>
    \/ t \in tasks /\ brk'[t] = brk[t]
    \/ t \notin tasks /\ brk'[t] = brk[running]
    \/ ~ (brk'[t] < KZERO)

\* What a step does to the pages of the running task below its break.
RunningMapped ==
  \A r \in tasks : r = running /\ brk'[r] < KZERO =>
    \A p \in Pages : ~IsKernel(p) /\ PageOf(Segment[1]) <= p /\ p * PAGE_SIZE < brk'[r] =>
      Lookup(r, p)' # Nil

LEMMA KeepsMapped ==
  ASSUME BreakInv, SpaceInv', StepIsIsolated, OtherBreaks, RunningMapped
  PROVE  ProgramMapped'
<1>1. Rest /\ Space /\ data \in [Frame -> {0, 1}] /\ ProgramMapped
  BY Parts DEF BreakInv
<1>2. Rest' /\ Space' /\ data' \in [Frame -> {0, 1}]
  BY Parts DEF SpaceInv, Rest, Space, TypeOK, DirType, TblType
<1> SUFFICES ASSUME NEW t \in tasks', brk'[t] < KZERO, NEW p \in Pages, ~IsKernel(p),
                    PageOf(Segment[1]) <= p, p * PAGE_SIZE < brk'[t]
             PROVE  Lookup(t, p)' # Nil
  BY DEF ProgramMapped, IsKernel, PageOf, Pages
<1>3. t \in Task /\ running \in tasks /\ running \in Task
  BY <1>1, <1>2 DEF Rest, Task
<1>4. CASE t = running
  BY <1>3, <1>4 DEF RunningMapped
<1>5. CASE t # running
  <2>1. PICK u \in tasks : brk'[t] = brk[u] /\ View(t)' = View(u)
    BY <1>3, <1>5 DEF OtherBreaks, StepIsIsolated
  <2>2. u \in Task
    BY <1>1 DEF Rest
  <2>3. Lookup(u, p) # Nil
    BY <1>1, <2>1 DEF ProgramMapped
  <2>4. View(u)[p] # NULL
    BY <1>1, <2>2, <2>3, ViewMapped
  <2>5. View(t)'[p] # NULL
    BY <2>1, <2>4
  <2> QED BY <1>2, <1>3, <2>5, ViewMappedNext
<1> QED BY <1>4, <1>5

\* A step that unmaps nothing of the running task and leaves its break alone.
LEMMA RunningKeeps ==
  ASSUME BreakInv, \A r \in tasks : r = running => brk'[r] = brk[r],
         \A r \in tasks, p \in Pages : r = running /\ ~IsKernel(p) /\ Lookup(r, p) # Nil =>
           Lookup(r, p)' # Nil
  PROVE  RunningMapped
BY DEF BreakInv, ProgramMapped, RunningMapped

LEMMA RunningSees ==
  ASSUME BreakInv, \A r \in tasks : r = running => brk'[r] = brk[r],
         \A r \in tasks : r = running => SeesSame(r)
  PROVE  RunningMapped
<1>1. \A r \in tasks, p \in Pages : r = running /\ ~IsKernel(p) /\ Lookup(r, p) # Nil =>
        Lookup(r, p)' # Nil
  BY DEF SeesSame
<1> QED BY <1>1, RunningKeeps

LEMMA QuietBreaks ==
  ASSUME BreakInv, dir' = dir, tbl' = tbl, brk' = brk, tasks' = tasks
  PROVE  OtherBreaks /\ RunningMapped
<1>1. Space
  BY Parts DEF BreakInv
<1>2. \A u, q : Lookup(u, q)' = Lookup(u, q)
  BY <1>1, SameSpace
<1> QED BY <1>2, RunningKeeps DEF OtherBreaks

\* Steps preserve that programs are mapped, if breaks are on page boundaries.
LEMMA BreakStep ==
  ASSUME \A b \in Breaks : b % PAGE_SIZE = 0, BreakInv, [Next]_vars
  PROVE  BreakInv'
<1>0. SpaceInv /\ Rest /\ Space /\ data \in [Frame -> {0, 1}] /\ SpaceInv'
  BY Parts, SpaceStep DEF BreakInv
<1>1. tasks \subseteq Task /\ running \in tasks /\ running \in Task /\ KERNEL_PID \in tasks
  BY <1>0 DEF Rest
<1>2. CASE UNCHANGED vars
  <2>1. brk' = brk /\ dir' = dir /\ tbl' = tbl /\ tasks' = tasks
    BY <1>2 DEF vars
  <2>2. \A u, q : Lookup(u, q)' = Lookup(u, q)
    BY <1>0, <2>1, SameSpace
  <2>3. ProgramMapped'
    <3> SUFFICES ASSUME NEW t \in tasks, brk[t] < KZERO, NEW p \in Pages, ~IsKernel(p),
                        PageOf(Segment[1]) <= p, p * PAGE_SIZE < brk[t]
                 PROVE  Lookup(t, p)' # Nil
      BY <2>1 DEF ProgramMapped, IsKernel, PageOf, Pages
    <3> QED BY <2>2 DEF BreakInv, ProgramMapped
  <2> QED BY <1>0, <2>3 DEF BreakInv
<1>3. CASE Next /\ ~UNCHANGED vars
  <2>1. StepIsIsolated
    BY <1>0, <1>3, SpaceStep
  <2> SUFFICES OtherBreaks /\ RunningMapped
    BY <1>0, <2>1, KeepsMapped DEF BreakInv
  <2>2. ASSUME NEW b \in Breaks, sys_brk(b) PROVE OtherBreaks /\ RunningMapped
    <3>1. brk' = [brk EXCEPT ![running] = b] /\ tasks' = tasks
      BY <2>2 DEF sys_brk
    <3>2. OtherBreaks
      BY <1>0, <1>1, <3>1 DEF OtherBreaks, Rest
    <3>3. brk'[running] = b
      BY <1>0, <1>1, <3>1 DEF Rest
    <3>4. RunningMapped
      BY <2>2, <3>3, BrkMaps DEF RunningMapped
    <3> QED BY <3>2, <3>4
  <2>3. CASE sys_execve
    <3>1. brk' = [brk EXCEPT ![running] = Segment[2]] /\ tasks' = tasks
      BY <2>3 DEF sys_execve
    <3>2. OtherBreaks
      BY <1>0, <1>1, <3>1 DEF OtherBreaks, Rest
    <3>3. brk'[running] = Segment[2]
      BY <1>0, <1>1, <3>1 DEF Rest
    <3>4. RunningMapped
      BY <2>3, <3>3, ExecveMaps DEF RunningMapped
    <3> QED BY <3>2, <3>4
  <2>4. ASSUME NEW length \in Lengths, sys_mmap(length) PROVE OtherBreaks /\ RunningMapped
    <3>1. /\ brk' = brk /\ tasks' = tasks /\ pg_alloc(running, MmapPages(length))
          /\ length \in Nat /\ mmapbrk[running] \in Nat /\ MmapFits(length)
      BY <1>0, <1>1, <2>4, MmuAssumption DEF sys_mmap, Rest
    <3>2. MmapPages(length) \in SUBSET Pages
      BY <3>1, ProgramPages
    <3>3. \A r \in tasks, p \in Pages : r = running /\ ~IsKernel(p) /\ Lookup(r, p) # Nil =>
            Lookup(r, p)' # Nil
      BY <1>0, <1>1, <3>1, <3>2, StaysMapped
    <3> QED BY <3>1, <3>3, RunningKeeps DEF OtherBreaks
  <2>5. ASSUME NEW c \in Task, sys_fork(c) PROVE OtherBreaks /\ RunningMapped
    <3>1. /\ c \notin tasks /\ pg_clone_dir(c) /\ tasks' = tasks \union {c}
          /\ brk' = [brk EXCEPT ![c] = brk[running]]
      BY <2>5 DEF sys_fork
    <3>2. \A u \in tasks : SeesSame(u)
      BY <1>0, <1>1, <3>1, CloneStep
    <3>3. brk'[c] = brk[running] /\ \A r \in tasks : brk'[r] = brk[r]
      BY <1>0, <1>1, <3>1 DEF Rest
    <3>4. OtherBreaks
      BY <3>1, <3>3 DEF OtherBreaks
    <3> QED BY <3>2, <3>3, <3>4, RunningSees
  <2>6. ASSUME NEW b \in KernelBreaks, KernelBrk(b) PROVE OtherBreaks /\ RunningMapped
    <3>1. /\ brk' = [brk EXCEPT ![KERNEL_PID] = b] /\ tasks' = tasks
          /\ task_brk(KERNEL_PID, b) /\ CurrentTask = KERNEL_PID
      BY <2>6 DEF KernelBrk
    <3>2. /\ \A p \in BrkPages(KERNEL_PID, b) : p \in Pages /\ IsKernel(p)
          /\ b \in Nat /\ b \in KZERO .. KTMPMEM - PAGE_SIZE /\ brk[KERNEL_PID] \in Nat
      BY <1>0, KernelBrkPages
    <3>3. ~ (b < KZERO) /\ brk'[KERNEL_PID] = b
          /\ \A r \in tasks : r # KERNEL_PID => brk'[r] = brk[r]
      BY <1>0, <1>1, <3>1, <3>2, Sizes DEF Rest
    <3>4. OtherBreaks
      BY <3>1, <3>3 DEF OtherBreaks
    <3>5. CASE running = KERNEL_PID
      BY <3>3, <3>4, <3>5 DEF RunningMapped
    <3>6. CASE running # KERNEL_PID
      <4>1. \/ pg_alloc(KERNEL_PID, BrkPages(KERNEL_PID, b))
            \/ pg_unmap(KERNEL_PID, BrkPages(KERNEL_PID, b))
            \/ UNCHANGED space
        BY <1>1, <3>1, <3>2, TaskBrk
      <4>2. base_flags = TRUE
        BY <3>1 DEF base_flags
      <4>3. \A r \in tasks : r = running => SeesSame(r)
        <5>1. CASE pg_alloc(KERNEL_PID, BrkPages(KERNEL_PID, b))
          BY <1>0, <1>1, <3>1, <3>2, <4>2, <5>1, AllocStep
        <5>2. CASE pg_unmap(KERNEL_PID, BrkPages(KERNEL_PID, b))
          BY <1>0, <1>1, <3>1, <3>2, <5>2, UnmapStep
        <5>3. CASE UNCHANGED space
          BY <5>3, SeesSameIfUnchanged
        <5> QED BY <4>1, <5>1, <5>2, <5>3
      <4> QED BY <3>3, <3>4, <3>6, <4>3, RunningSees
    <3> QED BY <3>5, <3>6
  <2>7. CASE pg_fault_handler
    <3>1. /\ fault # NULL /\ UserTask # NULL /\ IsKernel(fault)
          /\ pg_write_entry(UserTask, [p \in {fault} |-> Lookup(KERNEL_PID, p)])
          /\ data' = data /\ tasks' = tasks /\ brk' = brk
      BY <2>7 DEF pg_fault_handler
    <3>2. UserTask \in tasks /\ fault \in Pages
      BY <1>0, <3>1 DEF Rest
    <3>3. \A v \in Task : SeesSame(v)
      BY <1>0, <1>1, <3>1, <3>2, FaultStep
    <3> QED BY <1>1, <3>1, <3>3, RunningSees DEF OtherBreaks
  <2>8. ASSUME NEW t \in Task, Switch(t) PROVE OtherBreaks /\ RunningMapped
    BY <2>8, QuietBreaks DEF Switch, space
  <2>9. CASE enter_kernel
    BY <2>9, QuietBreaks DEF enter_kernel, space
  <2>10. CASE leave_kernel
    BY <2>10, QuietBreaks DEF leave_kernel, space
  <2>11. ASSUME NEW page \in WritePages, Write(page) PROVE OtherBreaks /\ RunningMapped
    BY <2>11, QuietBreaks DEF Write
  <2>12. ASSUME NEW page \in Pages, Fault(page) PROVE OtherBreaks /\ RunningMapped
    BY <2>12, QuietBreaks DEF Fault, space
  <2>13. CASE pg_fault_panic
    BY <2>13, QuietBreaks DEF pg_fault_panic, space
  <2> QED BY <1>3, <2>2, <2>3, <2>4, <2>5, <2>6, <2>7, <2>8, <2>9, <2>10, <2>11, <2>12,
             <2>13 DEF Next
<1> QED BY <1>2, <1>3

\* The memory of a program up to its break is mapped, through any sequence of
\* brk, mmap, execve, fork and page faults, if programs set breaks on page
\* boundaries; the start and the end of the program need not be on one.
THEOREM BreakIsAccessible ==
  ASSUME \A b \in Breaks : b % PAGE_SIZE = 0
  PROVE  Spec => []BreakEndsAccessible
<1>1. Init => BreakInv
  <2> SUFFICES ASSUME Init PROVE BreakInv
    OBVIOUS
  <2>1. SpaceInv
    BY InitSpace
  <2>2. \A t \in tasks : ~ (brk[t] < KZERO)
    BY <2>1, Parts, Sizes DEF Init, Rest
  <2> QED BY <2>1, <2>2 DEF BreakInv, ProgramMapped
<1>2. BreakInv /\ [Next]_vars => BreakInv'
  BY BreakStep
<1>3. BreakInv => BreakEndsAccessible
  <2> SUFFICES ASSUME BreakInv, NEW t \in tasks, brk[t] < KZERO,
                      NEW a \in Segment[1] .. brk[t] - 1
               PROVE  Lookup(t, PageOf(a)) # Nil
    BY DEF BreakEndsAccessible, pg_is_allocated
  <2>1. Segment[1] \in Nat /\ brk[t] \in Nat /\ KZERO \in Nat
    BY Parts, Sizes DEF BreakInv, Rest
  <2>2. a \in Nat /\ Segment[1] <= a /\ a < brk[t] /\ a < KZERO
    BY <2>1
  <2>3. /\ PageOf(a) \in Nat /\ PageOf(a) * PAGE_SIZE <= a
        /\ PageOf(Segment[1]) <= PageOf(a) /\ PageOf(a) < PageOf(KZERO)
    BY <2>1, <2>2, PageAddress, KernelStart
  <2>4. PageOf(a) * PAGE_SIZE < brk[t]
    <3>1. PageOf(a) * PAGE_SIZE \in Nat
      BY <2>3, Sizes, ProductOrder
    <3> QED BY <2>1, <2>2, <2>3, <3>1
  <2>5. PageOf(a) \in Pages /\ ~IsKernel(PageOf(a))
    BY <2>3, UserPlace
  <2> QED BY <2>3, <2>4, <2>5 DEF BreakInv, ProgramMapped
<1> QED BY <1>1, <1>2, <1>3, PTL DEF Spec
=============================================================================
