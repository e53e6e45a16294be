------------------------------ MODULE Console -------------------------------
(***************************************************************************)
(* The console's input side: the keyboard interrupt (arch/x86/kbd.c) fills *)
(* a ring, and console_read (arch/x86/console.c) takes characters out of   *)
(* it, edits the line and returns it.  console_read enables interrupts, so *)
(* unlike other system calls it is interleaved with the keyboard interrupt *)
(* and, through the timer, with other readers: the test, the load of       *)
(* RBufRead, its store and the fetch from the ring in console_rbuf_getc    *)
(* are steps of their own, in the order of the unoptimised code.           *)
(* What a reader does with a character touches only its own buffer, apart  *)
(* from the echo, which Vga models.                                        *)
(***************************************************************************)
EXTENDS Integers, Sequences, FiniteSets, SequencesExt

CONSTANTS CONS_RBUF_LEN,   \* 256 in the code
          Readers,         \* tasks that read /dev/tty
          Keys,            \* the characters Keymap produces
          MaxKeys,         \* bound on the number of keys pressed
          MaxLine          \* last index of a caller's buffer in the model;
                           \* racing readers can take a key more than once,
                           \* so it may have to exceed MaxKeys

BACKSPACE == "bs"
NEWLINE == "nl"
NUL == "nul"               \* what Keymap has for shift, control and alt

ASSUME ConsoleAssumption ==
  /\ CONS_RBUF_LEN \in Nat \ {0} /\ MaxKeys \in Nat /\ MaxLine \in Nat
  /\ {BACKSPACE, NEWLINE, NUL} \subseteq Keys

VARIABLES
  ConsoleReadBuf, RBufRead, RBufWrite,
  pc,          \* per reader: "idle", or the next step of console_rbuf_getc
  loaded,      \* per reader: the value of RBufRead it loaded
  cbuf, c,     \* per reader: the caller's buffer and the position in it
  typed,       \* history: every key pressed
  fetched,     \* history, per reader: the characters this read has taken
  taken,       \* history: every character any reader has taken
  users,       \* history: the readers that have called console_read
  lost         \* history: a key was put over one that nobody had fetched

ring == <<ConsoleReadBuf, RBufRead, RBufWrite>>
vars == <<ConsoleReadBuf, RBufRead, RBufWrite, pc, loaded, cbuf, c,
          typed, fetched, taken, users, lost>>

Init ==
  /\ ConsoleReadBuf = [i \in 0 .. CONS_RBUF_LEN - 1 |-> NUL]
  /\ RBufRead = 0 /\ RBufWrite = 0
  /\ pc = [r \in Readers |-> "idle"]
  /\ loaded = [r \in Readers |-> 0]
  /\ cbuf = [r \in Readers |-> [i \in 0 .. MaxLine |-> NUL]]
  /\ c = [r \in Readers |-> 0]
  /\ typed = <<>>
  /\ fetched = [r \in Readers |-> <<>>]
  /\ taken = <<>>
  /\ users = {}
  /\ lost = FALSE

\* Mutant: the write position is reduced, the read position is not.
console_rbuf_putc_Wrapped(key) ==
  /\ ConsoleReadBuf' = [ConsoleReadBuf EXCEPT ![RBufWrite] = key]
  /\ RBufWrite' = (RBufWrite + 1) % CONS_RBUF_LEN

console_rbuf_putc(key) ==
  /\ ConsoleReadBuf' = [ConsoleReadBuf EXCEPT ![RBufWrite % CONS_RBUF_LEN] = key]
  /\ RBufWrite' = RBufWrite + 1

\* The key at position i has not been fetched: RBufRead is not beyond it, or it
\* is, and the reader that stored it has yet to look.
Unfetched(i) ==
  i >= RBufRead \/ \E r \in Readers : pc[r] = "fetch" /\ loaded[r] = i

\* kbd_intr for one key going down (a key going up changes nothing).
kbd_intr(key) ==
  /\ Len(typed) < MaxKeys
  /\ console_rbuf_putc(key)
  /\ typed' = Append(typed, key)
  /\ lost' = (lost \/ Unfetched(RBufWrite - CONS_RBUF_LEN))
  /\ UNCHANGED <<RBufRead, pc, loaded, cbuf, c, fetched, taken, users>>

\* console_read up to its loop.  It does not look at its count.
console_read(r) ==
  /\ pc[r] = "idle"
  /\ pc' = [pc EXCEPT ![r] = "test"]
  /\ c' = [c EXCEPT ![r] = 0]
  /\ fetched' = [fetched EXCEPT ![r] = <<>>]
  /\ users' = users \union {r}
  /\ UNCHANGED <<ring, loaded, cbuf, typed, taken, lost>>

\* Mutant: the boundary is off by one.
Test_OffByOne(r) ==
  /\ pc[r] = "test" /\ RBufRead <= RBufWrite
  /\ pc' = [pc EXCEPT ![r] = "load"]
  /\ UNCHANGED <<ring, loaded, cbuf, c, typed, fetched, taken, users, lost>>

\* if (RBufRead < RBufWrite); otherwise the loop tests again.
Test(r) ==
  /\ pc[r] = "test" /\ RBufRead < RBufWrite
  /\ pc' = [pc EXCEPT ![r] = "load"]
  /\ UNCHANGED <<ring, loaded, cbuf, c, typed, fetched, taken, users, lost>>

\* RBufRead++: the load ...
Load(r) ==
  /\ pc[r] = "load"
  /\ loaded' = [loaded EXCEPT ![r] = RBufRead]
  /\ pc' = [pc EXCEPT ![r] = "store"]
  /\ UNCHANGED <<ring, cbuf, c, typed, fetched, taken, users, lost>>

\* ... and the store, before the ring is looked at.
Store(r) ==
  /\ pc[r] = "store"
  /\ RBufRead' = loaded[r] + 1
  /\ pc' = [pc EXCEPT ![r] = "fetch"]
  /\ UNCHANGED <<ConsoleReadBuf, RBufWrite, loaded, cbuf, c, typed, fetched, taken,
                 users, lost>>

\* Mutant: the guard c > 0 of the backspace is missing.
edit_Underflow(r, ch) ==
  IF ch = BACKSPACE
  THEN /\ cbuf' = [cbuf EXCEPT ![r][c[r]] = NUL]
       /\ c' = [c EXCEPT ![r] = @ - 1]
       /\ pc' = [pc EXCEPT ![r] = "test"]
  ELSE /\ cbuf' = [cbuf EXCEPT ![r][c[r]] = ch]
       /\ IF ch \in {NEWLINE, NUL}
          THEN pc' = [pc EXCEPT ![r] = "idle"] /\ UNCHANGED c
          ELSE pc' = [pc EXCEPT ![r] = "test"] /\ c' = [c EXCEPT ![r] = @ + 1]

\* Mutant: only NUL ends a line.
edit_NoNewline(r, ch) ==
  IF ch = BACKSPACE
  THEN /\ cbuf' = [cbuf EXCEPT ![r][c[r]] = IF c[r] > 0 THEN NUL ELSE ch]
       /\ c' = [c EXCEPT ![r] = IF @ > 0 THEN @ - 1 ELSE @]
       /\ pc' = [pc EXCEPT ![r] = "test"]
  ELSE /\ cbuf' = [cbuf EXCEPT ![r][c[r]] = ch]
       /\ IF ch = NUL
          THEN pc' = [pc EXCEPT ![r] = "idle"] /\ UNCHANGED c
          ELSE pc' = [pc EXCEPT ![r] = "test"] /\ c' = [c EXCEPT ![r] = @ + 1]

\* The body of the loop of console_read for the character ch.
edit(r, ch) ==
  IF ch = BACKSPACE
  THEN /\ cbuf' = [cbuf EXCEPT ![r][c[r]] = IF c[r] > 0 THEN NUL ELSE ch]
       /\ c' = [c EXCEPT ![r] = IF @ > 0 THEN @ - 1 ELSE @]
       /\ pc' = [pc EXCEPT ![r] = "test"]
  ELSE /\ cbuf' = [cbuf EXCEPT ![r][c[r]] = ch]
       /\ IF ch \in {NEWLINE, NUL}
          THEN pc' = [pc EXCEPT ![r] = "idle"] /\ UNCHANGED c
          ELSE pc' = [pc EXCEPT ![r] = "test"] /\ c' = [c EXCEPT ![r] = @ + 1]

\* The fetch into cbuf[c], and what the loop does with it.
\* A read that ends returns c + 1 characters.
Fetch(r) ==
  LET ch == ConsoleReadBuf[loaded[r] % CONS_RBUF_LEN] IN
  /\ pc[r] = "fetch"
  /\ edit(r, ch)
  /\ fetched' = [fetched EXCEPT ![r] = Append(@, ch)]
  /\ taken' = Append(taken, ch)
  /\ UNCHANGED <<ring, loaded, typed, users, lost>>

Step(r) == Test(r) \/ Load(r) \/ Store(r) \/ Fetch(r)

Next ==
  \/ \E key \in Keys : kbd_intr(key)
  \/ \E r \in Readers : console_read(r)
  \/ \E r \in Readers : Test(r)
  \/ \E r \in Readers : Load(r)
  \/ \E r \in Readers : Store(r)
  \/ \E r \in Readers : Fetch(r)

Spec == Init /\ [][Next]_vars

\* The scheduler runs every ready task (ReadyRuns of Tasks), so a reader that
\* spins in console_read makes progress.
FairSpec == Spec /\ \A r \in Readers : WF_vars(Step(r))

-----------------------------------------------------------------------------

\* The line as its typist sees it: a backspace removes the last character of
\* the line, if there is one.
Typing(line, ch) ==
  IF ch # BACKSPACE THEN Append(line, ch) ELSE IF line = <<>> THEN line ELSE Front(line)
Edited(chars) == FoldLeft(Typing, <<>>, chars)

Buffered(r, n) == [i \in 1 .. n |-> cbuf[r][i - 1]]

\* console_read edits in place, in the caller's buffer, before it knows what a
\* character is: at every point of a read the buffer holds the edited line, and
\* when it returns, the c + 1 characters it reports are that line with its
\* terminator.  Holds for every reader even while readers race for the ring.
LineIsEdited ==
  \A r \in Readers :
    Buffered(r, IF pc[r] = "idle" /\ fetched[r] # <<>> THEN c[r] + 1 ELSE c[r])
      = Edited(fetched[r])

\* A reader that is alone takes every key pressed exactly once and in order,
\* whatever the interrupt interleaves with, as long as no key was put over one
\* it had not fetched: a key does that to a full ring, and already to one with a
\* free slot by its positions while the reader is between store and fetch.
InOrder ==
  Cardinality(users) <= 1 /\ ~lost =>
    /\ taken = SubSeq(typed, 1, Len(taken))
    /\ RBufRead = Len(taken) + Cardinality({r \in Readers : pc[r] = "fetch"})

Unread(ch) ==
  \E i \in 0 .. RBufWrite - 1 : Unfetched(i) /\ ConsoleReadBuf[i % CONS_RBUF_LEN] = ch

\* A newline in the ring ends the read of a reader that is alone.  (Two readers
\* can skip it: a store of a stale RBufRead by one of them makes the newline
\* unread again and the next store jumps over it.)
NewlineEndsRead ==
  \A r \in Readers :
    users = {r} /\ pc[r] # "idle" /\ Unread(NEWLINE)
      ~> pc[r] = "idle" \/ lost \/ users # {r}

\* Two readers that pass the test of console_rbuf_getc together for the last key
\* push RBufRead beyond RBufWrite by one, and the key pressed next is never read.
\* A reader that is alone never does.  (Three readers are not bounded like this:
\* one of them can hold back a stale RBufRead, whose store lets the others pass
\* the test again while a third is about to store a value beyond RBufWrite.)
OvershootBounded ==
  /\ Cardinality(users) <= 1 => RBufRead <= RBufWrite
  /\ Cardinality(users) <= 2 => RBufRead <= RBufWrite + 1
=============================================================================
