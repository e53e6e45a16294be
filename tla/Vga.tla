-------------------------------- MODULE Vga ---------------------------------
(***************************************************************************)
(* The text screen (arch/x86/vga_console.c) and the two ways to it in      *)
(* arch/x86/console.c: console_write runs with interrupts off, while the   *)
(* echo of console_read runs with interrupts on, so the timer may switch   *)
(* between echoing tasks, and to a writer, at any point of                 *)
(* vga_console_putc.  The kernel is compiled without optimization: every   *)
(* ++ and -- of the cursor is a load and a store.  What a task has left to *)
(* do of vga_console_putc is a sequence of such operations.  Carriage      *)
(* returns, which do nothing, and the hardware's cursor are left out.      *)
(***************************************************************************)
EXTENDS Integers, Sequences, FiniteSets

CONSTANTS ROWS, COLS,   \* 25 and 80 in the code
          Echoers,      \* tasks in console_read
          Writer,       \* stands for all tasks in console_write
          Letters,      \* characters that are printed
          MaxPuts,      \* bound on the calls of vga_console_putc
          MaxOverlaps   \* bound on those that begin while another runs

BACKSPACE == "bs"
NEWLINE == "nl"
BLANK == "blank"

Tasks == Echoers \union {Writer}
Chars == Letters \union {BACKSPACE, NEWLINE}
Memory == 0 .. ROWS * COLS * 2 - 1        \* what vga_console_clear blanks

ASSUME VgaAssumption ==
  /\ ROWS \in Nat \ {0, 1} /\ COLS \in Nat \ {0}
  /\ MaxPuts \in Nat /\ MaxOverlaps \in Nat
  /\ IsFiniteSet(Echoers) /\ Writer \notin Echoers
  /\ Letters \intersect {BACKSPACE, NEWLINE, BLANK} = {}

VARIABLES
  buffer, x, y,
  code,     \* per task: what is left of its call of vga_console_putc
  reg,      \* per task: the value its next store writes
  char,     \* per task: the argument of its call
  len,      \* per echoing task: c of console_read, the length of its line
  puts,     \* calls so far
  overlaps, \* how many of them began while another ran
  screen,   \* history: what the calls that ended should have drawn, or Unknown
  stray,    \* history: something was written outside Memory
  erased,   \* history: a writer sent a backspace
  long      \* history: the lines being typed filled all rows but one

vars == <<buffer, x, y, code, reg, char, len, puts, overlaps, screen, stray, erased, long>>
history == <<puts, overlaps, screen, stray, erased, long>>

-----------------------------------------------------------------------------
(* The screen as a terminal's user understands it: rows of characters and a *)
(* position; a line that is full or ended goes on in the next row, and the  *)
(* last row makes room for a blank one.                                     *)

Row == 0 .. ROWS - 1
Col == 0 .. COLS - 1
BlankRow == [i \in Col |-> BLANK]
Unknown == [rows |-> <<>>, at |-> <<0, 0>>]

NextRow(s, rows) ==
  IF s.at[1] < ROWS - 1 THEN [rows |-> rows, at |-> <<s.at[1] + 1, 0>>]
  ELSE [rows |-> [r \in Row |-> IF r = ROWS - 1 THEN BlankRow ELSE rows[r + 1]],
        at |-> <<s.at[1], 0>>]

Show(s, ch) ==
  LET rows == [s.rows EXCEPT ![s.at[1]][s.at[2]] = ch] IN
  IF s.at[2] = COLS - 1 THEN NextRow(s, rows)
  ELSE [rows |-> rows, at |-> <<s.at[1], s.at[2] + 1>>]

\* Erasing in the first column goes on at the end of the row above, and there
\* is no way to say what erasing at the top left should show.
Erase(s) ==
  LET at == IF s.at[2] > 0 THEN <<s.at[1], s.at[2] - 1>> ELSE <<s.at[1] - 1, COLS - 1>> IN
  IF s.at = <<0, 0>> THEN Unknown
  ELSE [rows |-> [s.rows EXCEPT ![at[1]][at[2]] = BLANK], at |-> at]

Draw(s, ch) ==
  IF s = Unknown THEN Unknown
  ELSE CASE ch = NEWLINE -> NextRow(s, s.rows)
         [] ch = BACKSPACE -> Erase(s)
         [] OTHER -> Show(s, ch)

-----------------------------------------------------------------------------

\* Mutant: only the screen is cleared, and not what scrolls into it.
vga_console_clear_Half ==
  buffer = [i \in Memory |-> IF i < ROWS * COLS THEN BLANK ELSE CHOOSE l \in Letters : TRUE]

\* Blanks twice as many cells as the screen has.
vga_console_clear == buffer = [i \in Memory |-> BLANK]

\* vga_console_init.
Init ==
  /\ vga_console_clear
  /\ x = 0 /\ y = 0
  /\ code = [t \in Tasks |-> <<>>]
  /\ reg = [t \in Tasks |-> 0]
  /\ char = [t \in Tasks |-> NEWLINE]
  /\ len = [t \in Echoers |-> 0]
  /\ puts = 0 /\ overlaps = 0
  /\ screen = [rows |-> [r \in Row |-> BlankRow], at |-> <<0, 0>>]
  /\ stray = FALSE /\ erased = FALSE /\ long = FALSE

\* vga_console_putc: what it does for each kind of character, and for all.
Edges == <<"cols", "left", "rows", "done">>
Putc(ch) ==
  (CASE ch = NEWLINE -> <<"zero_x", "load_y_inc", "store_y">>
     [] ch = BACKSPACE -> <<"load_x_dec", "store_x", "put">>
     [] OTHER -> <<"put", "load_x_inc", "store_x">>) \o Edges

\* Interrupts are off while the writer is in vga_console_putc.
Idle(t) == code[t] = <<>>
MayRun(t) == t = Writer \/ Idle(Writer)
Alone(t) == \A u \in Tasks \ {t} : Idle(u)

vga_console_putc(t, ch) ==
  /\ puts < MaxPuts /\ Idle(t) /\ MayRun(t)
  /\ Alone(t) \/ overlaps < MaxOverlaps
  /\ code' = [code EXCEPT ![t] = Putc(ch)]
  /\ char' = [char EXCEPT ![t] = ch]
  /\ puts' = puts + 1
  /\ overlaps' = IF Alone(t) THEN overlaps ELSE overlaps + 1
  /\ screen' = IF Alone(t) THEN screen ELSE Unknown
  /\ UNCHANGED <<buffer, x, y, reg, stray>>

\* console_write, one character of it.  (In the code no echo comes between the
\* characters of one write; here it may.)
console_write(ch) ==
  /\ vga_console_putc(Writer, ch)
  /\ erased' = (erased \/ ch = BACKSPACE)
  /\ UNCHANGED <<len, long>>

\* The length of the line after ch.  A NUL, which shift and control produce, is
\* printed like a letter and ends the line.
LengthAfter(n, ch) ==
  CASE ch = NEWLINE -> {0}
    [] ch = BACKSPACE -> {IF n > 0 THEN n - 1 ELSE n}
    [] OTHER -> {n + 1, 0}

\* The characters of the lines being typed.
Typing == UNION {{u} \X (1 .. len[u]) : u \in Echoers}

\* The line changes; do the lines being typed fill all rows but one?
Typed(t, ch) ==
  /\ \E n \in LengthAfter(len[t], ch) : len' = [len EXCEPT ![t] = n]
  /\ long' = (long \/ Cardinality(Typing') > (ROWS - 1) * COLS)
  /\ UNCHANGED erased

\* Mutant: a backspace is echoed on an empty line, too.
echo_Unguarded(t, ch) == vga_console_putc(t, ch) /\ Typed(t, ch)

\* The echo of console_read: a backspace only if the line has a character.
echo(t, ch) ==
  /\ ch = BACKSPACE => len[t] > 0
  /\ vga_console_putc(t, ch)
  /\ Typed(t, ch)

\* Task t executes op and goes on with then and the rest of its call.
Does(t, op, then) ==
  /\ ~Idle(t) /\ MayRun(t) /\ Head(code[t]) = op
  /\ code' = [code EXCEPT ![t] = then \o Tail(@)]
  /\ UNCHANGED len

Load(t, op, value) ==
  /\ Does(t, op, <<>>)
  /\ reg' = [reg EXCEPT ![t] = value]
  /\ UNCHANGED <<buffer, x, y, char, history>>

StoreX(t, op, value) ==
  /\ Does(t, op, <<>>)
  /\ x' = value
  /\ reg' = [reg EXCEPT ![t] = 0]
  /\ UNCHANGED <<buffer, y, char, history>>

StoreY(t) ==
  /\ Does(t, "store_y", <<>>)
  /\ y' = reg[t]
  /\ reg' = [reg EXCEPT ![t] = 0]
  /\ UNCHANGED <<buffer, x, char, history>>

\* VGA_TEXT_ADDR and BUF_PUTC.
VGA_TEXT_ADDR == y * COLS + x
BUF_PUTC(t) ==
  LET ch == IF char[t] = BACKSPACE THEN BLANK ELSE char[t] IN
  /\ Does(t, "put", <<>>)
  /\ buffer' = [i \in Memory |-> IF i = VGA_TEXT_ADDR THEN ch ELSE buffer[i]]
  /\ stray' = (stray \/ VGA_TEXT_ADDR \notin Memory)
  /\ UNCHANGED <<x, y, reg, char, puts, overlaps, screen, erased, long>>

\* An if: the operations of its body come next, or not.
Test(t, op, cond, body) ==
  /\ Does(t, op, IF cond THEN body ELSE <<>>)
  /\ UNCHANGED <<buffer, x, y, reg, char, history>>

\* Mutant: a full screen is noticed one row late.
rows_Late(t) == Test(t, "rows", y > ROWS, <<"memmove", "load_y_dec", "store_y">>)

cols(t) == Test(t, "cols", x >= COLS, <<"zero_x", "load_y_inc", "store_y">>)
left(t) == Test(t, "left", x < 0, <<"load_y_dec", "store_y", "last_x">>)
rows(t) == Test(t, "rows", y >= ROWS, <<"memmove", "load_y_dec", "store_y">>)

\* vga_console_scroll: ROWS rows from the second on move up, the one behind the
\* screen included.
memmove(t) ==
  /\ Does(t, "memmove", <<>>)
  /\ buffer' = [i \in Memory |-> IF i < ROWS * COLS THEN buffer[i + COLS] ELSE buffer[i]]
  /\ UNCHANGED <<x, y, reg, char, history>>

done(t) ==
  /\ Does(t, "done", <<>>)
  /\ screen' = Draw(screen, char[t])
  /\ char' = [char EXCEPT ![t] = NEWLINE]
  /\ UNCHANGED <<buffer, x, y, reg, puts, overlaps, stray, erased, long>>

Next ==
  \/ \E ch \in Chars : console_write(ch)
  \/ \E t \in Echoers, ch \in Chars : echo(t, ch)
  \/ \E t \in Tasks :
       \/ Load(t, "load_x_inc", x + 1) \/ Load(t, "load_x_dec", x - 1)
       \/ Load(t, "load_y_inc", y + 1) \/ Load(t, "load_y_dec", y - 1)
       \/ StoreX(t, "store_x", reg[t]) \/ StoreX(t, "zero_x", 0)
       \/ StoreX(t, "last_x", COLS - 1)
       \/ StoreY(t)
       \/ BUF_PUTC(t)
       \/ cols(t) \/ left(t) \/ rows(t)
       \/ memmove(t)
       \/ done(t)

Spec == Init /\ [][Next]_vars

-----------------------------------------------------------------------------

Quiet == \A t \in Tasks : Idle(t)

\* As long as no two calls of vga_console_putc overlapped and nothing was erased
\* before the top left, the text memory shows what a terminal shows.  In
\* particular a scroll leaves a blank last row, although vga_console_scroll
\* blanks nothing: it moves up the row behind the screen, which
\* vga_console_clear blanked and nobody writes to.
ScreenIsTerminal ==
  Quiet /\ screen # Unknown =>
    /\ <<y, x>> = screen.at
    /\ \A r \in Row, i \in Col : buffer[r * COLS + i] = screen.rows[r][i]

\* Calls that overlap lose updates of the cursor, and the losses add up: the row
\* can stay behind the screen when all calls have ended.  But it is at most one
\* row too far for each of the two calls of an overlap, and the column is
\* always on the screen in the end.
CursorNearScreen == Quiet => x \in Col /\ y < ROWS + 2 * overlaps

\* Echoes never erase in front of text memory, whatever is written to the
\* console in between, thanks to the test for an empty line in console_read;
\* unless the lines being typed fill all rows but one.
EraseStaysOnScreen == stray => erased \/ long \/ overlaps > 0
=============================================================================
