------------------------------ MODULE VgaProofs ------------------------------
(***************************************************************************)
(* Theorems about Vga, for screens of any size and any number of echoing   *)
(* tasks.  Calls that overlap may lose updates of the cursor, so the bound *)
(* on its row counts the calls that can still raise it (RowInv).  Calls    *)
(* that do not overlap are followed point by point (Stage).                *)
(***************************************************************************)
EXTENDS Vga, FiniteSetTheorems, SequenceTheorems, TLAPS

-----------------------------------------------------------------------------
(* What is left of a call of vga_console_putc is one of these.  The letter  *)
(* names the part of the function: a newline, a letter, a backspace, the    *)
(* tests at the end (edges), and the bodies of these: the wrap at the end   *)
(* of a row, the way back to the row above, and vga_console_scroll.         *)

E0 == <<"cols", "left", "rows", "done">>
E1 == <<"left", "rows", "done">>
E2 == <<"rows", "done">>
E3 == <<"done">>
N0 == <<"zero_x", "load_y_inc", "store_y", "cols", "left", "rows", "done">>
N1 == <<"load_y_inc", "store_y", "cols", "left", "rows", "done">>
N2 == <<"store_y", "cols", "left", "rows", "done">>
L0 == <<"put", "load_x_inc", "store_x", "cols", "left", "rows", "done">>
L1 == <<"load_x_inc", "store_x", "cols", "left", "rows", "done">>
L2 == <<"store_x", "cols", "left", "rows", "done">>
B0 == <<"load_x_dec", "store_x", "put", "cols", "left", "rows", "done">>
B1 == <<"store_x", "put", "cols", "left", "rows", "done">>
B2 == <<"put", "cols", "left", "rows", "done">>
W0 == <<"zero_x", "load_y_inc", "store_y", "left", "rows", "done">>
W1 == <<"load_y_inc", "store_y", "left", "rows", "done">>
W2 == <<"store_y", "left", "rows", "done">>
U0 == <<"load_y_dec", "store_y", "last_x", "rows", "done">>
U1 == <<"store_y", "last_x", "rows", "done">>
U2 == <<"last_x", "rows", "done">>
S0 == <<"memmove", "load_y_dec", "store_y", "done">>
S1 == <<"load_y_dec", "store_y", "done">>
S2 == <<"store_y", "done">>

Newline == {N0, N1, N2}
Letter == {L0, L1, L2}
Back == {B0, B1, B2}
Wrap == {W0, W1, W2}
Up == {U0, U1, U2}
Scroll == {S0, S1, S2}
Codes == Newline \union Letter \union Back \union Wrap \union Up \union Scroll
           \union {E0, E1, E2, E3, <<>>}

Ops == {"cols", "left", "rows", "done", "zero_x", "load_y_inc", "store_y", "put", "load_x_inc",
        "store_x", "load_x_dec", "load_y_dec", "last_x", "memmove"}

-----------------------------------------------------------------------------
(* Sequences of operations.                                                 *)

LEMMA PutInFront ==
  ASSUME NEW S, NEW s \in Seq(S), NEW t \in Seq(S), NEW u \in Seq(S),
         Len(s) = 3, Len(u) = Len(t) + 3,
         u[1] = s[1] /\ u[2] = s[2] /\ u[3] = s[3],
         \A i \in 1 .. Len(t) : u[i + 3] = t[i]
  PROVE  s \o t = u
<1>1. /\ s \o t \in Seq(S) /\ Len(s \o t) = Len(s) + Len(t)
      /\ \A i \in 1 .. Len(s) + Len(t) :
           (s \o t)[i] = IF i <= Len(s) THEN s[i] ELSE t[i - Len(s)]
  BY ConcatProperties, Zenon
<1>2. Len(t) \in Nat
  OBVIOUS
<1>3. s \o t \in Seq(S) /\ Len(s \o t) = 3 + Len(t)
  BY <1>1
<1>4. \A i \in 1 .. 3 + Len(t) : (s \o t)[i] = IF i <= 3 THEN s[i] ELSE t[i - 3]
  BY <1>1
<1>5. ASSUME NEW i \in 1 .. 3 + Len(t) PROVE (s \o t)[i] = u[i]
  <2>1. CASE i <= 3
    <3>1. i = 1 \/ i = 2 \/ i = 3
      BY <1>2, <2>1
    <3> QED BY <1>4, <2>1, <3>1
  <2>2. CASE ~ (i <= 3)
    <3>1. i - 3 \in 1 .. Len(t) /\ (i - 3) + 3 = i
      BY <1>2, <2>2
    <3> QED BY <1>4, <2>2, <3>1
  <2> QED BY <2>1, <2>2
<1> QED BY <1>2, <1>3, <1>5, SeqEqual

LEMMA ThreeAndFour ==
  ASSUME NEW S, NEW a \in S, NEW b \in S, NEW c \in S, NEW d \in S, NEW e \in S, NEW f \in S,
         NEW g \in S
  PROVE  <<a, b, c>> \o <<d, e, f, g>> = <<a, b, c, d, e, f, g>>
<1>1. /\ <<a, b, c>> \in Seq(S) /\ <<d, e, f, g>> \in Seq(S)
      /\ <<a, b, c, d, e, f, g>> \in Seq(S)
      /\ Len(<<a, b, c>>) = 3 /\ Len(<<d, e, f, g>>) = 4 /\ Len(<<a, b, c, d, e, f, g>>) = 7
  OBVIOUS
<1>2. \A i \in 1 .. 4 : <<a, b, c, d, e, f, g>>[i + 3] = <<d, e, f, g>>[i]
  OBVIOUS
<1>3. ASSUME NEW s \in Seq(S), NEW t \in Seq(S), NEW u \in Seq(S),
             Len(s) = 3, Len(t) = 4, Len(u) = 7,
             u[1] = s[1], u[2] = s[2], u[3] = s[3], \A i \in 1 .. 4 : u[i + 3] = t[i]
      PROVE  s \o t = u
  <2>1. Len(u) = Len(t) + 3 /\ \A i \in 1 .. Len(t) : u[i + 3] = t[i]
    BY <1>3
  <2> QED BY <1>3, <2>1, PutInFront, Zenon
<1> QED BY <1>1, <1>2, <1>3

LEMMA ThreeAndThree ==
  ASSUME NEW S, NEW a \in S, NEW b \in S, NEW c \in S, NEW d \in S, NEW e \in S, NEW f \in S
  PROVE  <<a, b, c>> \o <<d, e, f>> = <<a, b, c, d, e, f>>
<1>1. /\ <<a, b, c>> \in Seq(S) /\ <<d, e, f>> \in Seq(S) /\ <<a, b, c, d, e, f>> \in Seq(S)
      /\ Len(<<a, b, c>>) = 3 /\ Len(<<d, e, f>>) = 3 /\ Len(<<a, b, c, d, e, f>>) = 6
  OBVIOUS
<1>2. \A i \in 1 .. 3 : <<a, b, c, d, e, f>>[i + 3] = <<d, e, f>>[i]
  OBVIOUS
<1>3. ASSUME NEW s \in Seq(S), NEW t \in Seq(S), NEW u \in Seq(S),
             Len(s) = 3, Len(t) = 3, Len(u) = 6,
             u[1] = s[1], u[2] = s[2], u[3] = s[3], \A i \in 1 .. 3 : u[i + 3] = t[i]
      PROVE  s \o t = u
  <2>1. Len(u) = Len(t) + 3 /\ \A i \in 1 .. Len(t) : u[i + 3] = t[i]
    BY <1>3
  <2> QED BY <1>3, <2>1, PutInFront, Zenon
<1> QED BY <1>1, <1>2, <1>3

LEMMA ThreeAndTwo ==
  ASSUME NEW S, NEW a \in S, NEW b \in S, NEW c \in S, NEW d \in S, NEW e \in S
  PROVE  <<a, b, c>> \o <<d, e>> = <<a, b, c, d, e>>
<1>1. /\ <<a, b, c>> \in Seq(S) /\ <<d, e>> \in Seq(S) /\ <<a, b, c, d, e>> \in Seq(S)
      /\ Len(<<a, b, c>>) = 3 /\ Len(<<d, e>>) = 2 /\ Len(<<a, b, c, d, e>>) = 5
  OBVIOUS
<1>2. \A i \in 1 .. 2 : <<a, b, c, d, e>>[i + 3] = <<d, e>>[i]
  OBVIOUS
<1>3. ASSUME NEW s \in Seq(S), NEW t \in Seq(S), NEW u \in Seq(S),
             Len(s) = 3, Len(t) = 2, Len(u) = 5,
             u[1] = s[1], u[2] = s[2], u[3] = s[3], \A i \in 1 .. 2 : u[i + 3] = t[i]
      PROVE  s \o t = u
  <2>1. Len(u) = Len(t) + 3 /\ \A i \in 1 .. Len(t) : u[i + 3] = t[i]
    BY <1>3
  <2> QED BY <1>3, <2>1, PutInFront, Zenon
<1> QED BY <1>1, <1>2, <1>3

LEMMA ThreeAndOne ==
  ASSUME NEW S, NEW a \in S, NEW b \in S, NEW c \in S, NEW d \in S
  PROVE  <<a, b, c>> \o <<d>> = <<a, b, c, d>>
<1>1. /\ <<a, b, c>> \in Seq(S) /\ <<d>> \in Seq(S) /\ <<a, b, c, d>> \in Seq(S)
      /\ Len(<<a, b, c>>) = 3 /\ Len(<<d>>) = 1 /\ Len(<<a, b, c, d>>) = 4
  OBVIOUS
<1>2. \A i \in 1 .. 1 : <<a, b, c, d>>[i + 3] = <<d>>[i]
  OBVIOUS
<1>3. ASSUME NEW s \in Seq(S), NEW t \in Seq(S), NEW u \in Seq(S),
             Len(s) = 3, Len(t) = 1, Len(u) = 4,
             u[1] = s[1], u[2] = s[2], u[3] = s[3], \A i \in 1 .. 1 : u[i + 3] = t[i]
      PROVE  s \o t = u
  <2>1. Len(u) = Len(t) + 3 /\ \A i \in 1 .. Len(t) : u[i + 3] = t[i]
    BY <1>3
  <2> QED BY <1>3, <2>1, PutInFront, Zenon
<1> QED BY <1>1, <1>2, <1>3

\* What follows each point of a call.
LEMMA Tails ==
  /\ Tail(E0) = E1 /\ Tail(E1) = E2 /\ Tail(E2) = E3 /\ Tail(E3) = <<>>
  /\ Tail(N0) = N1 /\ Tail(N1) = N2 /\ Tail(N2) = E0
  /\ Tail(L0) = L1 /\ Tail(L1) = L2 /\ Tail(L2) = E0
  /\ Tail(B0) = B1 /\ Tail(B1) = B2 /\ Tail(B2) = E0
  /\ Tail(W0) = W1 /\ Tail(W1) = W2 /\ Tail(W2) = E1
  /\ Tail(U0) = U1 /\ Tail(U1) = U2 /\ Tail(U2) = E2
  /\ Tail(S0) = S1 /\ Tail(S1) = S2 /\ Tail(S2) = E3
<1>1. /\ Tail(E0) = E1 /\ Tail(E1) = E2 /\ Tail(E2) = E3 /\ Tail(E3) = <<>>
  BY DEF E0, E1, E2, E3
<1>2. Tail(N0) = N1 /\ Tail(N1) = N2 /\ Tail(N2) = E0
  BY DEF N0, N1, N2, E0
<1>3. Tail(L0) = L1 /\ Tail(L1) = L2 /\ Tail(L2) = E0
  BY DEF L0, L1, L2, E0
<1>4. Tail(B0) = B1 /\ Tail(B1) = B2 /\ Tail(B2) = E0
  BY DEF B0, B1, B2, E0
<1>5. Tail(W0) = W1 /\ Tail(W1) = W2 /\ Tail(W2) = E1
  BY DEF W0, W1, W2, E1
<1>6. Tail(U0) = U1 /\ Tail(U1) = U2 /\ Tail(U2) = E2
  BY DEF U0, U1, U2, E2
<1>7. Tail(S0) = S1 /\ Tail(S1) = S2 /\ Tail(S2) = E3
  BY DEF S0, S1, S2, E3
<1> QED BY <1>1, <1>2, <1>3, <1>4, <1>5, <1>6, <1>7, Zenon

\* What tells them apart.
LEMMA Shapes ==
  /\ Len(E0) = 4 /\ Len(E1) = 3 /\ Len(E2) = 2 /\ Len(E3) = 1
  /\ Len(N0) = 7 /\ Len(N1) = 6 /\ Len(N2) = 5 /\ Len(L0) = 7 /\ Len(L1) = 6 /\ Len(L2) = 5
  /\ Len(B0) = 7 /\ Len(B1) = 6 /\ Len(B2) = 5 /\ Len(W0) = 6 /\ Len(W1) = 5 /\ Len(W2) = 4
  /\ Len(U0) = 5 /\ Len(U1) = 4 /\ Len(U2) = 3 /\ Len(S0) = 4 /\ Len(S1) = 3 /\ Len(S2) = 2
  /\ Head(E0) = "cols" /\ Head(E1) = "left" /\ Head(E2) = "rows" /\ Head(E3) = "done"
  /\ Head(N0) = "zero_x" /\ Head(N1) = "load_y_inc" /\ Head(N2) = "store_y"
  /\ Head(L0) = "put" /\ Head(L1) = "load_x_inc" /\ Head(L2) = "store_x"
  /\ Head(B0) = "load_x_dec" /\ Head(B1) = "store_x" /\ Head(B2) = "put"
  /\ Head(W0) = "zero_x" /\ Head(W1) = "load_y_inc" /\ Head(W2) = "store_y"
  /\ Head(U0) = "load_y_dec" /\ Head(U1) = "store_y" /\ Head(U2) = "last_x"
  /\ Head(S0) = "memmove" /\ Head(S1) = "load_y_dec" /\ Head(S2) = "store_y"
  /\ W2 # U1
<1>1. /\ Len(E0) = 4 /\ Len(E1) = 3 /\ Len(E2) = 2 /\ Len(E3) = 1
      /\ Head(E0) = "cols" /\ Head(E1) = "left" /\ Head(E2) = "rows" /\ Head(E3) = "done"
  BY DEF E0, E1, E2, E3
<1>2. /\ Len(N0) = 7 /\ Len(N1) = 6 /\ Len(N2) = 5
      /\ Head(N0) = "zero_x" /\ Head(N1) = "load_y_inc" /\ Head(N2) = "store_y"
  BY DEF N0, N1, N2
<1>3. /\ Len(L0) = 7 /\ Len(L1) = 6 /\ Len(L2) = 5
      /\ Head(L0) = "put" /\ Head(L1) = "load_x_inc" /\ Head(L2) = "store_x"
  BY DEF L0, L1, L2
<1>4. /\ Len(B0) = 7 /\ Len(B1) = 6 /\ Len(B2) = 5
      /\ Head(B0) = "load_x_dec" /\ Head(B1) = "store_x" /\ Head(B2) = "put"
  BY DEF B0, B1, B2
<1>5. /\ Len(W0) = 6 /\ Len(W1) = 5 /\ Len(W2) = 4
      /\ Head(W0) = "zero_x" /\ Head(W1) = "load_y_inc" /\ Head(W2) = "store_y"
  BY DEF W0, W1, W2
<1>6. /\ Len(U0) = 5 /\ Len(U1) = 4 /\ Len(U2) = 3
      /\ Head(U0) = "load_y_dec" /\ Head(U1) = "store_y" /\ Head(U2) = "last_x"
  BY DEF U0, U1, U2
<1>7. /\ Len(S0) = 4 /\ Len(S1) = 3 /\ Len(S2) = 2
      /\ Head(S0) = "memmove" /\ Head(S1) = "load_y_dec" /\ Head(S2) = "store_y"
  BY DEF S0, S1, S2
<1>8. W2 # U1
  BY DEF W2, U1
<1> QED BY <1>1, <1>2, <1>3, <1>4, <1>5, <1>6, <1>7, <1>8, Zenon

LEMMA Apart ==
  /\ N0 \notin {N1, N2, L0, L1, L2, B0, B1, B2, E0, W0}
  /\ N0 \notin {W1, W2, E1, U0, U1, U2, E2, S0, S1, S2, E3}
  /\ N1 \notin {N2, L0, L1, L2, B0, B1, B2, E0, W0, W1}
  /\ N1 \notin {W2, E1, U0, U1, U2, E2, S0, S1, S2, E3}
  /\ N2 \notin {L0, L1, L2, B0, B1, B2, E0, W0, W1}
  /\ N2 \notin {W2, E1, U0, U1, U2, E2, S0, S1, S2, E3}
  /\ L0 \notin {L1, L2, B0, B1, B2, E0, W0, W1, W2}
  /\ L0 \notin {E1, U0, U1, U2, E2, S0, S1, S2, E3}
  /\ L1 \notin {L2, B0, B1, B2, E0, W0, W1, W2}
  /\ L1 \notin {E1, U0, U1, U2, E2, S0, S1, S2, E3}
  /\ L2 \notin {B0, B1, B2, E0, W0, W1, W2, E1}
  /\ L2 \notin {U0, U1, U2, E2, S0, S1, S2, E3}
  /\ B0 \notin {B1, B2, E0, W0, W1, W2, E1}
  /\ B0 \notin {U0, U1, U2, E2, S0, S1, S2, E3}
  /\ B1 \notin {B2, E0, W0, W1, W2, E1, U0}
  /\ B1 \notin {U1, U2, E2, S0, S1, S2, E3}
  /\ B2 \notin {E0, W0, W1, W2, E1, U0}
  /\ B2 \notin {U1, U2, E2, S0, S1, S2, E3}
  /\ E0 \notin {W0, W1, W2, E1, U0, U1}
  /\ E0 \notin {U2, E2, S0, S1, S2, E3}
  /\ W0 \notin {W1, W2, E1, U0, U1, U2, E2, S0, S1, S2, E3}
  /\ W1 \notin {W2, E1, U0, U1, U2, E2, S0, S1, S2, E3}
  /\ W2 \notin {E1, U0, U1, U2, E2, S0, S1, S2, E3}
  /\ E1 \notin {U0, U1, U2, E2, S0, S1, S2, E3}
  /\ U0 \notin {U1, U2, E2, S0, S1, S2, E3}
  /\ U1 \notin {U2, E2, S0, S1, S2, E3}
  /\ U2 \notin {E2, S0, S1, S2, E3}
  /\ E2 \notin {S0, S1, S2, E3}
  /\ S0 \notin {S1, S2, E3}
  /\ S1 \notin {S2, E3}
  /\ S2 \notin {E3}
<1>0. /\ 7 \notin {1, 2, 3, 4, 5, 6} /\ 6 \notin {1, 2, 3, 4, 5} /\ 5 \notin {1, 2, 3, 4}
      /\ 4 \notin {1, 2, 3} /\ 3 \notin {1, 2} /\ 2 # 1
  OBVIOUS
<1>1. /\ Len(E0) = 4 /\ Len(E1) = 3 /\ Len(E2) = 2 /\ Len(E3) = 1
      /\ Len(N0) = 7 /\ Len(N1) = 6 /\ Len(N2) = 5 /\ Len(L0) = 7 /\ Len(L1) = 6 /\ Len(L2) = 5
      /\ Len(B0) = 7 /\ Len(B1) = 6 /\ Len(B2) = 5 /\ Len(W0) = 6 /\ Len(W1) = 5 /\ Len(W2) = 4
      /\ Len(U0) = 5 /\ Len(U1) = 4 /\ Len(U2) = 3 /\ Len(S0) = 4 /\ Len(S1) = 3 /\ Len(S2) = 2
  BY Shapes, Zenon
<1>2. N0 # L0 /\ N0 # B0 /\ L0 # B0
  BY DEF N0, L0, B0
<1>3. N1 # L1 /\ N1 # B1 /\ N1 # W0 /\ L1 # B1 /\ L1 # W0 /\ B1 # W0
  BY DEF N1, L1, B1, W0
<1>4. /\ N2 # L2 /\ N2 # B2 /\ N2 # W1 /\ N2 # U0 /\ L2 # B2 /\ L2 # W1 /\ L2 # U0
      /\ B2 # W1 /\ B2 # U0 /\ W1 # U0
  BY DEF N2, L2, B2, W1, U0
<1>5. E0 # W2 /\ E0 # U1 /\ E0 # S0 /\ W2 # U1 /\ W2 # S0 /\ U1 # S0
  BY DEF E0, W2, U1, S0
<1>6. E1 # U2 /\ E1 # S1 /\ U2 # S1 /\ E2 # S2
  BY DEF E1, E2, U2, S1, S2
<1>7. N0 \notin {N1, N2, L0, L1, L2, B0, B1, B2, E0, W0}
  BY <1>0, <1>1, <1>2, <1>3, <1>4, <1>5, <1>6, Zenon
<1>8. N0 \notin {W1, W2, E1, U0, U1, U2, E2, S0, S1, S2, E3}
  BY <1>0, <1>1, <1>2, <1>3, <1>4, <1>5, <1>6, Zenon
<1>9. N1 \notin {N2, L0, L1, L2, B0, B1, B2, E0, W0, W1}
  BY <1>0, <1>1, <1>2, <1>3, <1>4, <1>5, <1>6, Zenon
<1>10. N1 \notin {W2, E1, U0, U1, U2, E2, S0, S1, S2, E3}
  BY <1>0, <1>1, <1>2, <1>3, <1>4, <1>5, <1>6, Zenon
<1>11. N2 \notin {L0, L1, L2, B0, B1, B2, E0, W0, W1}
  BY <1>0, <1>1, <1>2, <1>3, <1>4, <1>5, <1>6, Zenon
<1>12. N2 \notin {W2, E1, U0, U1, U2, E2, S0, S1, S2, E3}
  BY <1>0, <1>1, <1>2, <1>3, <1>4, <1>5, <1>6, Zenon
<1>13. L0 \notin {L1, L2, B0, B1, B2, E0, W0, W1, W2}
  BY <1>0, <1>1, <1>2, <1>3, <1>4, <1>5, <1>6, Zenon
<1>14. L0 \notin {E1, U0, U1, U2, E2, S0, S1, S2, E3}
  BY <1>0, <1>1, <1>2, <1>3, <1>4, <1>5, <1>6, Zenon
<1>15. L1 \notin {L2, B0, B1, B2, E0, W0, W1, W2}
  BY <1>0, <1>1, <1>2, <1>3, <1>4, <1>5, <1>6, Zenon
<1>16. L1 \notin {E1, U0, U1, U2, E2, S0, S1, S2, E3}
  BY <1>0, <1>1, <1>2, <1>3, <1>4, <1>5, <1>6, Zenon
<1>17. L2 \notin {B0, B1, B2, E0, W0, W1, W2, E1}
  BY <1>0, <1>1, <1>2, <1>3, <1>4, <1>5, <1>6, Zenon
<1>18. L2 \notin {U0, U1, U2, E2, S0, S1, S2, E3}
  BY <1>0, <1>1, <1>2, <1>3, <1>4, <1>5, <1>6, Zenon
<1>19. B0 \notin {B1, B2, E0, W0, W1, W2, E1}
  BY <1>0, <1>1, <1>2, <1>3, <1>4, <1>5, <1>6, Zenon
<1>20. B0 \notin {U0, U1, U2, E2, S0, S1, S2, E3}
  BY <1>0, <1>1, <1>2, <1>3, <1>4, <1>5, <1>6, Zenon
<1>21. B1 \notin {B2, E0, W0, W1, W2, E1, U0}
  BY <1>0, <1>1, <1>2, <1>3, <1>4, <1>5, <1>6, Zenon
<1>22. B1 \notin {U1, U2, E2, S0, S1, S2, E3}
  BY <1>0, <1>1, <1>2, <1>3, <1>4, <1>5, <1>6, Zenon
<1>23. B2 \notin {E0, W0, W1, W2, E1, U0}
  BY <1>0, <1>1, <1>2, <1>3, <1>4, <1>5, <1>6, Zenon
<1>24. B2 \notin {U1, U2, E2, S0, S1, S2, E3}
  BY <1>0, <1>1, <1>2, <1>3, <1>4, <1>5, <1>6, Zenon
<1>25. E0 \notin {W0, W1, W2, E1, U0, U1}
  BY <1>0, <1>1, <1>2, <1>3, <1>4, <1>5, <1>6, Zenon
<1>26. E0 \notin {U2, E2, S0, S1, S2, E3}
  BY <1>0, <1>1, <1>2, <1>3, <1>4, <1>5, <1>6, Zenon
<1>27. W0 \notin {W1, W2, E1, U0, U1, U2, E2, S0, S1, S2, E3}
  BY <1>0, <1>1, <1>2, <1>3, <1>4, <1>5, <1>6, Zenon
<1>28. W1 \notin {W2, E1, U0, U1, U2, E2, S0, S1, S2, E3}
  BY <1>0, <1>1, <1>2, <1>3, <1>4, <1>5, <1>6, Zenon
<1>29. W2 \notin {E1, U0, U1, U2, E2, S0, S1, S2, E3}
  BY <1>0, <1>1, <1>2, <1>3, <1>4, <1>5, <1>6, Zenon
<1>30. E1 \notin {U0, U1, U2, E2, S0, S1, S2, E3}
  BY <1>0, <1>1, <1>2, <1>3, <1>4, <1>5, <1>6, Zenon
<1>31. U0 \notin {U1, U2, E2, S0, S1, S2, E3}
  BY <1>0, <1>1, <1>2, <1>3, <1>4, <1>5, <1>6, Zenon
<1>32. U1 \notin {U2, E2, S0, S1, S2, E3}
  BY <1>0, <1>1, <1>2, <1>3, <1>4, <1>5, <1>6, Zenon
<1>33. U2 \notin {E2, S0, S1, S2, E3}
  BY <1>0, <1>1, <1>2, <1>3, <1>4, <1>5, <1>6, Zenon
<1>34. E2 \notin {S0, S1, S2, E3}
  BY <1>0, <1>1, <1>2, <1>3, <1>4, <1>5, <1>6, Zenon
<1>35. S0 \notin {S1, S2, E3}
  BY <1>0, <1>1, <1>2, <1>3, <1>4, <1>5, <1>6, Zenon
<1>36. S1 \notin {S2, E3}
  BY <1>0, <1>1, <1>2, <1>3, <1>4, <1>5, <1>6, Zenon
<1>37. S2 \notin {E3}
  BY <1>0, <1>1, <1>2, <1>3, <1>4, <1>5, <1>6, Zenon
<1> QED
  BY <1>7, <1>8, <1>9, <1>10, <1>11, <1>12, <1>13, <1>14, <1>15, <1>16, <1>17, <1>18, <1>19,
     <1>20, <1>21, <1>22, <1>23, <1>24, <1>25, <1>26, <1>27, <1>28, <1>29, <1>30, <1>31, <1>32,
     <1>33, <1>34, <1>35, <1>36, <1>37, Zenon

LEMMA Nonempty ==
  /\ E0 # <<>> /\ E1 # <<>> /\ E2 # <<>> /\ E3 # <<>> /\ N0 # <<>> /\ N1 # <<>> /\ N2 # <<>>
  /\ L0 # <<>> /\ L1 # <<>> /\ L2 # <<>> /\ B0 # <<>> /\ B1 # <<>> /\ B2 # <<>>
  /\ W0 # <<>> /\ W1 # <<>> /\ W2 # <<>> /\ U0 # <<>> /\ U1 # <<>> /\ U2 # <<>>
  /\ S0 # <<>> /\ S1 # <<>> /\ S2 # <<>>
  BY DEF E0, E1, E2, E3, N0, N1, N2, L0, L1, L2, B0, B1, B2, W0, W1, W2, U0, U1, U2, S0, S1, S2

\* What a test that holds puts in front, and where a call begins.
LEMMA Bodies ==
  /\ <<"zero_x", "load_y_inc", "store_y">> \o E1 = W0
  /\ <<"load_y_dec", "store_y", "last_x">> \o E2 = U0
  /\ <<"memmove", "load_y_dec", "store_y">> \o E3 = S0
  /\ <<"zero_x", "load_y_inc", "store_y">> \o Edges = N0
  /\ <<"load_x_dec", "store_x", "put">> \o Edges = B0
  /\ <<"put", "load_x_inc", "store_x">> \o Edges = L0
<1>1. /\ "cols" \in Ops /\ "left" \in Ops /\ "rows" \in Ops /\ "done" \in Ops
      /\ "zero_x" \in Ops /\ "load_y_inc" \in Ops /\ "store_y" \in Ops /\ "put" \in Ops
      /\ "load_x_inc" \in Ops /\ "store_x" \in Ops /\ "load_x_dec" \in Ops
      /\ "load_y_dec" \in Ops /\ "last_x" \in Ops /\ "memmove" \in Ops
  BY DEF Ops
<1>2. <<"zero_x", "load_y_inc", "store_y">> \o E1 = W0
  BY <1>1, ThreeAndThree DEF E1, W0
<1>3. <<"load_y_dec", "store_y", "last_x">> \o E2 = U0
  BY <1>1, ThreeAndTwo DEF E2, U0
<1>4. <<"memmove", "load_y_dec", "store_y">> \o E3 = S0
  BY <1>1, ThreeAndOne DEF E3, S0
<1>5. <<"zero_x", "load_y_inc", "store_y">> \o Edges = N0
  BY <1>1, ThreeAndFour DEF Edges, N0
<1>6. <<"load_x_dec", "store_x", "put">> \o Edges = B0
  BY <1>1, ThreeAndFour DEF Edges, B0
<1>7. <<"put", "load_x_inc", "store_x">> \o Edges = L0
  BY <1>1, ThreeAndFour DEF Edges, L0
<1> QED BY <1>2, <1>3, <1>4, <1>5, <1>6, <1>7, Zenon

LEMMA Starting ==
  ASSUME NEW ch \in Chars
  PROVE  Putc(ch) = IF ch = NEWLINE THEN N0 ELSE IF ch = BACKSPACE THEN B0 ELSE L0
  BY Bodies DEF Putc, NEWLINE, BACKSPACE

LEMMA Nothing ==
  /\ <<>> \o <<>> = <<>>
  /\ <<>> \o E0 = E0 /\ <<>> \o E1 = E1 /\ <<>> \o E2 = E2 /\ <<>> \o E3 = E3
  /\ <<>> \o N1 = N1 /\ <<>> \o N2 = N2 /\ <<>> \o L1 = L1 /\ <<>> \o L2 = L2
  /\ <<>> \o B1 = B1 /\ <<>> \o B2 = B2 /\ <<>> \o W1 = W1 /\ <<>> \o W2 = W2
  /\ <<>> \o U1 = U1 /\ <<>> \o U2 = U2 /\ <<>> \o S1 = S1 /\ <<>> \o S2 = S2
<1>1. /\ <<>> \o <<>> = <<>>
      /\ <<>> \o E0 = E0 /\ <<>> \o E1 = E1 /\ <<>> \o E2 = E2 /\ <<>> \o E3 = E3
  BY DEF E0, E1, E2, E3
<1>2. /\ <<>> \o N1 = N1 /\ <<>> \o N2 = N2 /\ <<>> \o L1 = L1 /\ <<>> \o L2 = L2
  BY DEF N1, N2, L1, L2
<1>3. /\ <<>> \o B1 = B1 /\ <<>> \o B2 = B2 /\ <<>> \o W1 = W1 /\ <<>> \o W2 = W2
  BY DEF B1, B2, W1, W2
<1>4. /\ <<>> \o U1 = U1 /\ <<>> \o U2 = U2 /\ <<>> \o S1 = S1 /\ <<>> \o S2 = S2
  BY DEF U1, U2, S1, S2
<1> QED BY <1>1, <1>2, <1>3, <1>4, Zenon

-----------------------------------------------------------------------------
(* The invariants.                                                          *)

\* What is left of a call is always one of the sequences above.
TypeOK ==
  /\ x \in Int /\ y \in Int /\ overlaps \in Nat
  /\ code \in [Tasks -> Codes] /\ reg \in [Tasks -> Int] /\ char \in [Tasks -> Chars]
  /\ len \in [Echoers -> Nat]

\* The calls that have a test, or the body of one that held, in front of them.
AheadCols == Newline \union Letter \union Back \union {E0}
AheadLeft == AheadCols \union Wrap \union {E1}
AheadRows == AheadLeft \union Up \union {E2}

\* A column off the screen is noticed by a call that has yet to look.
ColumnInv ==
  /\ x >= COLS => \E t \in Tasks : code[t] \in AheadCols \union {W0}
  /\ x < 0 => \E t \in Tasks : code[t] \in AheadLeft \union Up

\* The calls that are going to add a row, and those that may.
RisingCodes == {N0, N1, W0, W1}
Rising == {t \in Tasks : code[t] \in RisingCodes}
MayWrap == {t \in Tasks : code[t] \in AheadCols}

\* Only a letter takes the column beyond the end of the row.
High ==
  \/ x >= COLS
  \/ \E t \in Tasks : \/ code[t] \in {L0, L1}
                      \/ code[t] \in {L2, B1} /\ reg[t] >= COLS

\* What the row v can still become.
Room(v) ==
  /\ v + Cardinality(Rising) <= ROWS + 2 * overlaps
  /\ v + Cardinality(Rising) + Cardinality(MayWrap) <=
       ROWS + 2 * overlaps + IF High THEN 0 ELSE 1

\* The row, and a row that is loaded but not yet stored, have room; a row below
\* the screen is noticed by a call that has yet to look.
RowInv ==
  /\ Room(y)
  /\ \A t \in Tasks : code[t] \in {N2, W2, U1, S2} => Room(reg[t])
  /\ \A t \in Tasks : code[t] = S2 => reg[t] < ROWS + 2 * overlaps
  /\ y < ROWS + 2 * overlaps \/ \E t \in Tasks : code[t] \in AheadRows \union Scroll

-----------------------------------------------------------------------------

\* Text memory shows the rows rs, and what is behind the screen is blank.
Shows(rs) ==
  /\ \A r \in Row, i \in Col : buffer[r * COLS + i] = rs[r][i]
  /\ \A i \in Memory : i >= ROWS * COLS => buffer[i] = BLANK

IsScreen(s) ==
  /\ s.at = <<s.at[1], s.at[2]>> /\ s.at[1] \in Row /\ s.at[2] \in Col
  /\ s.rows \in [Row -> [Col -> Letters \union {BLANK}]]

At(p) == y = p[1] /\ x = p[2]

\* The rows of s when ch is drawn, and what a scroll makes of them.
Drawn(s, ch) ==
  IF ch = NEWLINE THEN s.rows
  ELSE IF ch = BACKSPACE THEN Erase(s).rows
  ELSE [s.rows EXCEPT ![s.at[1]][s.at[2]] = ch]
Scrolled(rs) == [r \in Row |-> IF r = ROWS - 1 THEN BlankRow ELSE rs[r + 1]]

Ends(s, ch) == ch \in Letters /\ s.at[2] = COLS - 1     \* the row is full
Starts(s, ch) == ch = BACKSPACE /\ s.at[2] = 0          \* the row is empty

\* The cursor before the test for the end of the row, the test for its start,
\* and the test for the end of the screen.
First(s, ch) ==
  IF ch = NEWLINE THEN <<s.at[1] + 1, 0>>
  ELSE IF ch = BACKSPACE THEN <<s.at[1], s.at[2] - 1>>
  ELSE <<s.at[1], s.at[2] + 1>>
Second(s, ch) == IF Ends(s, ch) THEN <<s.at[1] + 1, 0>> ELSE First(s, ch)
Third(s, ch) == IF Starts(s, ch) THEN <<s.at[1] - 1, COLS - 1>> ELSE Second(s, ch)

\* The state in which a call for ch that began with the screen s has c left to do
\* and v in its register.
Stage(c, v, s, ch) ==
  LET r == s.at[1]  new == Drawn(s, ch)  last == Draw(s, ch).rows IN
  /\ c = N0 => ch = NEWLINE /\ At(s.at) /\ Shows(s.rows)
  /\ c = N1 => ch = NEWLINE /\ At(<<r, 0>>) /\ Shows(s.rows)
  /\ c = N2 => ch = NEWLINE /\ x = 0 /\ v = r + 1 /\ Shows(s.rows)
  /\ c = L0 => ch \in Letters /\ At(s.at) /\ Shows(s.rows)
  /\ c = L1 => ch \in Letters /\ At(s.at) /\ Shows(new)
  /\ c = L2 => ch \in Letters /\ y = r /\ v = s.at[2] + 1 /\ Shows(new)
  /\ c = B0 => ch = BACKSPACE /\ At(s.at) /\ Shows(s.rows)
  /\ c = B1 => ch = BACKSPACE /\ y = r /\ v = s.at[2] - 1 /\ Shows(s.rows)
  /\ c = B2 => ch = BACKSPACE /\ At(<<r, s.at[2] - 1>>) /\ Shows(s.rows)
  /\ c = E0 => At(First(s, ch)) /\ Shows(new)
  /\ c = W0 => Ends(s, ch) /\ y = r /\ Shows(new)
  /\ c = W1 => Ends(s, ch) /\ At(<<r, 0>>) /\ Shows(new)
  /\ c = W2 => Ends(s, ch) /\ x = 0 /\ v = r + 1 /\ Shows(new)
  /\ c = E1 => At(Second(s, ch)) /\ Shows(new)
  /\ c = U0 => Starts(s, ch) /\ y = r /\ Shows(new)
  /\ c = U1 => Starts(s, ch) /\ v = r - 1 /\ Shows(new)
  /\ c = U2 => Starts(s, ch) /\ y = r - 1 /\ Shows(new)
  /\ c = E2 => At(Third(s, ch)) /\ Shows(new)
  /\ c = S0 => Third(s, ch)[1] = ROWS /\ At(Third(s, ch)) /\ Shows(new)
  /\ c = S1 => Third(s, ch)[1] = ROWS /\ At(Third(s, ch)) /\ Shows(last)
  /\ c = S2 => Third(s, ch)[1] = ROWS /\ x = Third(s, ch)[2] /\ v = ROWS - 1 /\ Shows(last)
  /\ c = E3 => At(Draw(s, ch).at) /\ Shows(last)

\* The screen is known as long as calls do not overlap; then a call is at one of
\* these stages, unless it erases in front of the top left.
ScreenInv ==
  screen # Unknown =>
    /\ IsScreen(screen)
    /\ \A t, u \in Tasks : code[t] # <<>> /\ code[u] # <<>> => t = u
    /\ Quiet => At(screen.at) /\ Shows(screen.rows)
    /\ \A t \in Tasks : code[t] # <<>> =>
         Draw(screen, char[t]) = Unknown \/ Stage(code[t], reg[t], screen, char[t])

\* How many characters are in front of the cursor.
Offset(s) == s.at[1] * COLS + s.at[2]

\* The lines being typed leave a row free, until long says otherwise.
LineInv ==
  /\ IsFiniteSet(Typing)
  /\ ~long => Cardinality(Typing) <= (ROWS - 1) * COLS

\* Without overlaps and written backspaces, there is a character on the screen
\* for each one that an echo may still erase.
EraseInv ==
  overlaps = 0 /\ ~erased /\ ~long =>
    /\ ~stray /\ screen # Unknown
    /\ Quiet => Cardinality(Typing) <= Offset(screen)
    /\ \A t \in Tasks : code[t] # <<>> =>
         /\ Draw(screen, char[t]) # Unknown
         /\ Cardinality(Typing) <= Offset(Draw(screen, char[t]))

-----------------------------------------------------------------------------
(* The steps of a call.                                                     *)

\* Task t has c left to do.
Becomes(t, c) == code' = [code EXCEPT ![t] = c]

After(c) == <<>> \o Tail(c)

LEMMA Afters ==
  /\ After(E0) = E1 /\ After(E1) = E2 /\ After(E2) = E3 /\ After(E3) = <<>>
  /\ After(N0) = N1 /\ After(N1) = N2 /\ After(N2) = E0
  /\ After(L0) = L1 /\ After(L1) = L2 /\ After(L2) = E0
  /\ After(B0) = B1 /\ After(B1) = B2 /\ After(B2) = E0
  /\ After(W0) = W1 /\ After(W1) = W2 /\ After(W2) = E1
  /\ After(U0) = U1 /\ After(U1) = U2 /\ After(U2) = E2
  /\ After(S0) = S1 /\ After(S1) = S2 /\ After(S2) = E3
  BY Tails, Nothing, Zenon DEF After

LEMMA Moves ==
  ASSUME TypeOK, NEW t \in Tasks, NEW op, Does(t, op, <<>>)
  PROVE  /\ code[t] # <<>> /\ len' = len
         /\ op = "put" => \/ code[t] = L0 /\ Becomes(t, L1)
                          \/ code[t] = B2 /\ Becomes(t, E0)
         /\ op = "load_x_inc" => code[t] = L1 /\ Becomes(t, L2)
         /\ op = "load_x_dec" => code[t] = B0 /\ Becomes(t, B1)
         /\ op = "store_x" => \/ code[t] = L2 /\ Becomes(t, E0)
                              \/ code[t] = B1 /\ Becomes(t, B2)
         /\ op = "zero_x" => \/ code[t] = N0 /\ Becomes(t, N1)
                             \/ code[t] = W0 /\ Becomes(t, W1)
         /\ op = "last_x" => code[t] = U2 /\ Becomes(t, E2)
         /\ op = "load_y_inc" => \/ code[t] = N1 /\ Becomes(t, N2)
                                 \/ code[t] = W1 /\ Becomes(t, W2)
         /\ op = "load_y_dec" => \/ code[t] = U0 /\ Becomes(t, U1)
                                 \/ code[t] = S1 /\ Becomes(t, S2)
         /\ op = "store_y" => \/ code[t] = N2 /\ Becomes(t, E0)
                              \/ code[t] = W2 /\ Becomes(t, E1)
                              \/ code[t] = U1 /\ Becomes(t, U2)
                              \/ code[t] = S2 /\ Becomes(t, E3)
         /\ op = "cols" => code[t] = E0 /\ Becomes(t, E1)
         /\ op = "left" => code[t] = E1 /\ Becomes(t, E2)
         /\ op = "rows" => code[t] = E2 /\ Becomes(t, E3)
         /\ op = "memmove" => code[t] = S0 /\ Becomes(t, S1)
         /\ op = "done" => code[t] = E3 /\ Becomes(t, <<>>)
<1>1. code[t] \in Codes /\ code[t] # <<>> /\ Head(code[t]) = op /\ len' = len
  BY DEF TypeOK, Does, Idle
<1>2. Becomes(t, After(code[t]))
  BY DEF TypeOK, Does, Becomes, After
<1>3. CASE code[t] \in Newline \union Letter \union Back
  BY <1>1, <1>2, <1>3, Shapes, Afters DEF Newline, Letter, Back
<1>4. CASE code[t] \in Wrap \union Up \union Scroll
  BY <1>1, <1>2, <1>4, Shapes, Afters DEF Wrap, Up, Scroll
<1>5. CASE code[t] \in {E0, E1, E2, E3}
  BY <1>1, <1>2, <1>5, Shapes, Afters
<1> QED BY <1>1, <1>3, <1>4, <1>5 DEF Codes

LEMMA BodyMoves ==
  ASSUME TypeOK, NEW t \in Tasks, NEW op, NEW body, Does(t, op, body)
  PROVE  /\ code[t] # <<>> /\ len' = len
         /\ op = "cols" /\ body = <<"zero_x", "load_y_inc", "store_y">> =>
              code[t] = E0 /\ Becomes(t, W0)
         /\ op = "left" /\ body = <<"load_y_dec", "store_y", "last_x">> =>
              code[t] = E1 /\ Becomes(t, U0)
         /\ op = "rows" /\ body = <<"memmove", "load_y_dec", "store_y">> =>
              code[t] = E2 /\ Becomes(t, S0)
<1>1. code[t] \in Codes /\ code[t] # <<>> /\ Head(code[t]) = op /\ len' = len
  BY DEF TypeOK, Does, Idle
<1>2. Becomes(t, body \o Tail(code[t]))
  BY DEF TypeOK, Does, Becomes
<1>3. /\ op = "cols" => code[t] = E0
      /\ op = "left" => code[t] = E1
      /\ op = "rows" => code[t] = E2
  <2>1. CASE code[t] \in Newline \union Letter \union Back
    BY <1>1, <2>1, Shapes DEF Newline, Letter, Back
  <2>2. CASE code[t] \in Wrap \union Up \union Scroll
    BY <1>1, <2>2, Shapes DEF Wrap, Up, Scroll
  <2>3. CASE code[t] \in {E0, E1, E2, E3}
    BY <1>1, <2>3, Shapes
  <2> QED BY <1>1, <2>1, <2>2, <2>3 DEF Codes
<1> QED BY <1>1, <1>2, <1>3, Tails, Bodies, Zenon

LEMMA ColsMove ==
  ASSUME TypeOK, NEW t \in Tasks, cols(t)
  PROVE  /\ code[t] = E0
         /\ \/ x >= COLS /\ Becomes(t, W0)
            \/ ~ (x >= COLS) /\ Becomes(t, E1)
         /\ UNCHANGED <<buffer, x, y, reg, char, len, history>>
<1>1. CASE x >= COLS
  BY <1>1, BodyMoves DEF cols, Test
<1>2. CASE ~ (x >= COLS)
  BY <1>2, Moves DEF cols, Test
<1> QED BY <1>1, <1>2

LEMMA LeftMove ==
  ASSUME TypeOK, NEW t \in Tasks, left(t)
  PROVE  /\ code[t] = E1
         /\ \/ x < 0 /\ Becomes(t, U0)
            \/ ~ (x < 0) /\ Becomes(t, E2)
         /\ UNCHANGED <<buffer, x, y, reg, char, len, history>>
<1>1. CASE x < 0
  BY <1>1, BodyMoves DEF left, Test
<1>2. CASE ~ (x < 0)
  BY <1>2, Moves DEF left, Test
<1> QED BY <1>1, <1>2

LEMMA RowsMove ==
  ASSUME TypeOK, NEW t \in Tasks, rows(t)
  PROVE  /\ code[t] = E2
         /\ \/ y >= ROWS /\ Becomes(t, S0)
            \/ ~ (y >= ROWS) /\ Becomes(t, E3)
         /\ UNCHANGED <<buffer, x, y, reg, char, len, history>>
<1>1. CASE y >= ROWS
  BY <1>1, BodyMoves DEF rows, Test
<1>2. CASE ~ (y >= ROWS)
  BY <1>2, Moves DEF rows, Test
<1> QED BY <1>1, <1>2

LEMMA CodeNames ==
  /\ {E0, E1, E2, E3, <<>>} \subseteq Codes
  /\ {N0, N1, N2, L0, L1, L2, B0, B1, B2} \subseteq Codes
  /\ {W0, W1, W2, U0, U1, U2, S0, S1, S2} \subseteq Codes
  BY DEF Codes, Newline, Letter, Back, Wrap, Up, Scroll

\* All else the steps do.
Begins(t, ch) ==
  /\ code[t] = <<>> /\ ch \in Chars
  /\ Becomes(t, Putc(ch))
  /\ char' = [char EXCEPT ![t] = ch]
  /\ UNCHANGED <<buffer, x, y, reg, stray>>
  /\ \/ Alone(t) /\ overlaps' = overlaps /\ screen' = screen
     \/ ~Alone(t) /\ overlaps' = overlaps + 1 /\ screen' = Unknown

LEMMA Beginning ==
  ASSUME NEW t \in Tasks, NEW ch \in Chars, vga_console_putc(t, ch)
  PROVE  Begins(t, ch)
  BY DEF vga_console_putc, Begins, Idle, Becomes

LEMMA InitTypes == Init => TypeOK
  BY CodeNames DEF Init, TypeOK, Chars

LEMMA Sizes == ROWS \in Nat /\ ROWS >= 2 /\ COLS \in Nat /\ COLS >= 1
  BY VgaAssumption

LEMMA TypeStep ==
  ASSUME TypeOK, [Next]_vars
  PROVE  TypeOK'
<1> USE DEF TypeOK
<1>0. ASSUME NEW t \in Tasks, NEW c \in Codes, Becomes(t, c)
      PROVE  code' \in [Tasks -> Codes]
  BY <1>0 DEF Becomes
<1>1. CASE UNCHANGED vars
  BY <1>1 DEF vars
<1>2. ASSUME NEW t \in Tasks, NEW ch \in Chars, vga_console_putc(t, ch)
      PROVE  /\ x' \in Int /\ y' \in Int /\ overlaps' \in Nat
             /\ code' \in [Tasks -> Codes] /\ reg' \in [Tasks -> Int] /\ char' \in [Tasks -> Chars]
  <2>1. Begins(t, ch) /\ Putc(ch) \in Codes
    BY <1>2, Beginning, Starting, CodeNames
  <2>2. code' \in [Tasks -> Codes]
    BY <1>0, <2>1 DEF Begins
  <2>3. /\ x' = x /\ y' = y /\ reg' = reg /\ char' = [char EXCEPT ![t] = ch]
        /\ overlaps' = overlaps \/ overlaps' = overlaps + 1
    BY <2>1 DEF Begins
  <2>4. char' \in [Tasks -> Chars] /\ overlaps' \in Nat
    BY <2>3
  <2> QED BY <2>2, <2>3, <2>4
<1>3. ASSUME NEW ch \in Chars, console_write(ch) PROVE TypeOK'
  BY <1>2, <1>3 DEF console_write, Tasks
<1>4. ASSUME NEW t \in Echoers, NEW ch \in Chars, echo(t, ch) PROVE TypeOK'
  <2>1. \A n \in LengthAfter(len[t], ch) : n \in Nat
    BY DEF LengthAfter
  <2>2. len' \in [Echoers -> Nat]
    BY <1>4, <2>1 DEF echo, Typed
  <2> QED BY <1>2, <1>4, <2>2 DEF echo, Tasks
<1>5. ASSUME NEW t \in Tasks, NEW op, NEW v \in Int, Load(t, op, v),
             op \in {"load_x_inc", "load_x_dec", "load_y_inc", "load_y_dec"}
      PROVE  TypeOK'
  <2>1. code' \in [Tasks -> Codes] /\ len' = len
    BY <1>0, <1>5, Moves, CodeNames DEF Load
  <2> QED BY <1>5, <2>1 DEF Load, history
<1>6. ASSUME NEW t \in Tasks, NEW op, NEW v \in Int, StoreX(t, op, v),
             op \in {"store_x", "zero_x", "last_x"}
      PROVE  TypeOK'
  <2>1. code' \in [Tasks -> Codes] /\ len' = len
    BY <1>0, <1>6, Moves, CodeNames DEF StoreX
  <2>2. x' = v /\ y' = y /\ char' = char /\ overlaps' = overlaps /\ reg' = [reg EXCEPT ![t] = 0]
    BY <1>6 DEF StoreX, history
  <2>3. reg' \in [Tasks -> Int]
    BY <2>2
  <2> QED BY <2>1, <2>2, <2>3
<1>7. ASSUME NEW t \in Tasks, StoreY(t) PROVE TypeOK'
  <2>1. code' \in [Tasks -> Codes] /\ len' = len
    BY <1>0, <1>7, Moves, CodeNames DEF StoreY
  <2>2. /\ x' = x /\ y' = reg[t] /\ char' = char /\ overlaps' = overlaps
        /\ reg' = [reg EXCEPT ![t] = 0]
    BY <1>7 DEF StoreY, history
  <2>3. reg' \in [Tasks -> Int] /\ reg[t] \in Int
    BY <2>2
  <2> QED BY <2>1, <2>2, <2>3
<1>8. ASSUME NEW t \in Tasks, BUF_PUTC(t) PROVE TypeOK'
  <2>1. code' \in [Tasks -> Codes] /\ len' = len
    BY <1>0, <1>8, Moves, CodeNames DEF BUF_PUTC
  <2> QED BY <1>8, <2>1 DEF BUF_PUTC
<1>9. ASSUME NEW t \in Tasks, cols(t) \/ left(t) \/ rows(t) PROVE TypeOK'
  <2>1. code' \in [Tasks -> Codes]
    BY <1>0, <1>9, ColsMove, LeftMove, RowsMove, CodeNames
  <2>2. UNCHANGED <<buffer, x, y, reg, char, len, history>>
    BY <1>9, ColsMove, LeftMove, RowsMove
  <2> QED BY <2>1, <2>2 DEF history
<1>10. ASSUME NEW t \in Tasks, memmove(t) PROVE TypeOK'
  <2>1. code' \in [Tasks -> Codes] /\ len' = len
    BY <1>0, <1>10, Moves, CodeNames DEF memmove
  <2> QED BY <1>10, <2>1 DEF memmove, history
<1>11. ASSUME NEW t \in Tasks, done(t) PROVE TypeOK'
  <2>1. code' \in [Tasks -> Codes] /\ len' = len
    BY <1>0, <1>11, Moves, CodeNames DEF done
  <2> QED BY <1>11, <2>1 DEF done, Chars
<1>12. COLS - 1 \in Int /\ \A t \in Tasks : reg[t] \in Int
  BY Sizes
<1> QED BY <1>1, <1>3, <1>4, <1>5, <1>6, <1>7, <1>8, <1>9, <1>10, <1>11, <1>12 DEF Next

-----------------------------------------------------------------------------
(* What the steps do to the cursor.                                         *)

Cursor(t, c, nx, ny, v) ==
  /\ Becomes(t, c) /\ x' = nx /\ y' = ny /\ overlaps' = overlaps
  /\ reg' = [reg EXCEPT ![t] = v]

PutMoves(t) ==
  \/ code[t] = L0 /\ Cursor(t, L1, x, y, reg[t])
  \/ code[t] = B2 /\ Cursor(t, E0, x, y, reg[t])

XMoves(t) ==
  \/ code[t] = L1 /\ Cursor(t, L2, x, y, x + 1)
  \/ code[t] = L2 /\ Cursor(t, E0, reg[t], y, 0)
  \/ code[t] = B0 /\ Cursor(t, B1, x, y, x - 1)
  \/ code[t] = B1 /\ Cursor(t, B2, reg[t], y, 0)
  \/ code[t] = N0 /\ Cursor(t, N1, 0, y, 0)
  \/ code[t] = W0 /\ Cursor(t, W1, 0, y, 0)
  \/ code[t] = U2 /\ Cursor(t, E2, COLS - 1, y, 0)

YMoves(t) ==
  \/ code[t] = N1 /\ Cursor(t, N2, x, y, y + 1)
  \/ code[t] = W1 /\ Cursor(t, W2, x, y, y + 1)
  \/ code[t] = U0 /\ Cursor(t, U1, x, y, y - 1)
  \/ code[t] = S1 /\ Cursor(t, S2, x, y, y - 1)
  \/ code[t] = N2 /\ Cursor(t, E0, x, reg[t], 0)
  \/ code[t] = W2 /\ Cursor(t, E1, x, reg[t], 0)
  \/ code[t] = U1 /\ Cursor(t, U2, x, reg[t], 0)
  \/ code[t] = S2 /\ Cursor(t, E3, x, reg[t], 0)

TestMoves(t) ==
  \/ code[t] = E0 /\ x >= COLS /\ Cursor(t, W0, x, y, reg[t])
  \/ code[t] = E0 /\ ~ (x >= COLS) /\ Cursor(t, E1, x, y, reg[t])
  \/ code[t] = E1 /\ x < 0 /\ Cursor(t, U0, x, y, reg[t])
  \/ code[t] = E1 /\ ~ (x < 0) /\ Cursor(t, E2, x, y, reg[t])
  \/ code[t] = E2 /\ y >= ROWS /\ Cursor(t, S0, x, y, reg[t])
  \/ code[t] = E2 /\ ~ (y >= ROWS) /\ Cursor(t, E3, x, y, reg[t])

ScrollMoves(t) == code[t] = S0 /\ Cursor(t, S1, x, y, reg[t])
DoneMoves(t) == code[t] = E3 /\ Cursor(t, <<>>, x, y, reg[t])

XAction(t) ==
  \/ Load(t, "load_x_inc", x + 1) \/ Load(t, "load_x_dec", x - 1)
  \/ StoreX(t, "store_x", reg[t]) \/ StoreX(t, "zero_x", 0) \/ StoreX(t, "last_x", COLS - 1)
YAction(t) == Load(t, "load_y_inc", y + 1) \/ Load(t, "load_y_dec", y - 1) \/ StoreY(t)
TestAction(t) == cols(t) \/ left(t) \/ rows(t)

\* Those leave all but the cursor alone.
LEMMA CursorActions ==
  ASSUME TypeOK, NEW t \in Tasks, XAction(t) \/ YAction(t) \/ TestAction(t)
  PROVE  UNCHANGED <<buffer, char, len, history>>
<1>1. CASE XAction(t)
  BY <1>1 DEF XAction, Load, StoreX, Does
<1>2. CASE YAction(t)
  BY <1>2 DEF YAction, Load, StoreY, Does
<1>3. CASE TestAction(t)
  BY <1>3 DEF TestAction, cols, left, rows, Test, Does
<1> QED BY <1>1, <1>2, <1>3

LEMMA SameReg == ASSUME TypeOK, NEW t \in Tasks, reg' = reg PROVE reg' = [reg EXCEPT ![t] = reg[t]]
  BY DEF TypeOK

LEMMA XActionMoves == ASSUME TypeOK, NEW t \in Tasks, XAction(t) PROVE XMoves(t)
<1>1. CASE Load(t, "load_x_inc", x + 1)
  BY <1>1, Moves DEF Load, XMoves, Cursor, history
<1>2. CASE Load(t, "load_x_dec", x - 1)
  BY <1>2, Moves DEF Load, XMoves, Cursor, history
<1>3. CASE StoreX(t, "store_x", reg[t])
  BY <1>3, Moves DEF StoreX, XMoves, Cursor, history
<1>4. CASE StoreX(t, "zero_x", 0)
  BY <1>4, Moves DEF StoreX, XMoves, Cursor, history
<1>5. CASE StoreX(t, "last_x", COLS - 1)
  BY <1>5, Moves DEF StoreX, XMoves, Cursor, history
<1> QED BY <1>1, <1>2, <1>3, <1>4, <1>5 DEF XAction

LEMMA YActionMoves == ASSUME TypeOK, NEW t \in Tasks, YAction(t) PROVE YMoves(t)
<1>1. CASE Load(t, "load_y_inc", y + 1)
  BY <1>1, Moves DEF Load, YMoves, Cursor, history
<1>2. CASE Load(t, "load_y_dec", y - 1)
  BY <1>2, Moves DEF Load, YMoves, Cursor, history
<1>3. CASE StoreY(t)
  BY <1>3, Moves DEF StoreY, YMoves, Cursor, history
<1> QED BY <1>1, <1>2, <1>3 DEF YAction

LEMMA TestActionMoves == ASSUME TypeOK, NEW t \in Tasks, TestAction(t) PROVE TestMoves(t)
<1>1. CASE cols(t)
  BY <1>1, SameReg, ColsMove DEF TestMoves, Cursor, history
<1>2. CASE left(t)
  BY <1>2, SameReg, LeftMove DEF TestMoves, Cursor, history
<1>3. CASE rows(t)
  BY <1>3, SameReg, RowsMove DEF TestMoves, Cursor, history
<1> QED BY <1>1, <1>2, <1>3 DEF TestAction

LEMMA PutActionMoves == ASSUME TypeOK, NEW t \in Tasks, BUF_PUTC(t) PROVE PutMoves(t)
<1>1. Does(t, "put", <<>>) /\ reg' = reg /\ UNCHANGED <<x, y, overlaps>>
  BY DEF BUF_PUTC
<1> QED BY <1>1, SameReg, Moves DEF PutMoves, Cursor

LEMMA ScrollActionMoves == ASSUME TypeOK, NEW t \in Tasks, memmove(t) PROVE ScrollMoves(t)
  BY SameReg, Moves DEF memmove, ScrollMoves, Cursor, history

LEMMA DoneActionMoves == ASSUME TypeOK, NEW t \in Tasks, done(t) PROVE DoneMoves(t)
  BY SameReg, Moves DEF done, DoneMoves, Cursor

LEMMA NextCases ==
  ASSUME [Next]_vars
  PROVE  \/ UNCHANGED vars
         \/ \E ch \in Chars : console_write(ch)
         \/ \E t \in Echoers, ch \in Chars : echo(t, ch)
         \/ \E t \in Tasks : \/ XAction(t) \/ YAction(t) \/ TestAction(t)
                             \/ BUF_PUTC(t) \/ memmove(t) \/ done(t)
  BY DEF Next, XAction, YAction, TestAction

LEMMA CursorStep ==
  ASSUME TypeOK, [Next]_vars
  PROVE  \/ UNCHANGED <<code, x, y, reg, overlaps>>
         \/ \E t \in Tasks : \/ PutMoves(t) \/ XMoves(t) \/ YMoves(t) \/ TestMoves(t)
                             \/ ScrollMoves(t) \/ DoneMoves(t)
                             \/ \E ch \in Chars : Begins(t, ch)
<1>1. CASE UNCHANGED vars
  BY <1>1 DEF vars
<1>2. ASSUME NEW ch \in Chars, console_write(ch)
      PROVE  \E t \in Tasks : Begins(t, ch)
  BY <1>2, Beginning DEF console_write, Tasks
<1>3. ASSUME NEW t \in Echoers, NEW ch \in Chars, echo(t, ch)
      PROVE  t \in Tasks /\ Begins(t, ch)
  BY <1>3, Beginning DEF echo, Tasks
<1> QED BY <1>1, <1>2, <1>3, NextCases, XActionMoves, YActionMoves, TestActionMoves,
           PutActionMoves, ScrollActionMoves, DoneActionMoves

\* The codes of the other tasks stay.
LEMMA CodeAfter ==
  ASSUME TypeOK, NEW t \in Tasks, NEW c, Becomes(t, c)
  PROVE  code'[t] = c /\ \A u \in Tasks : u # t => code'[u] = code[u]
  BY DEF TypeOK, Becomes

LEMMA RegAfter ==
  ASSUME TypeOK, NEW t \in Tasks, NEW v, reg' = [reg EXCEPT ![t] = v]
  PROVE  reg'[t] = v /\ \A u \in Tasks : u # t => reg'[u] = reg[u]
  BY DEF TypeOK

\* The groups each code belongs to.
LEMMA Groups ==
  /\ N0 \in AheadCols /\ N1 \in AheadCols /\ N2 \in AheadCols
  /\ L0 \in AheadCols /\ L1 \in AheadCols /\ L2 \in AheadCols
  /\ B0 \in AheadCols /\ B1 \in AheadCols /\ B2 \in AheadCols /\ E0 \in AheadCols
  /\ AheadCols \subseteq AheadLeft /\ AheadLeft \subseteq AheadRows
  /\ W0 \in AheadLeft /\ W1 \in AheadLeft /\ W2 \in AheadLeft /\ E1 \in AheadLeft
  /\ U0 \in AheadRows /\ U1 \in AheadRows /\ U2 \in AheadRows /\ E2 \in AheadRows
  /\ U0 \in Up /\ U1 \in Up /\ U2 \in Up /\ S0 \in Scroll /\ S1 \in Scroll /\ S2 \in Scroll
  BY DEF AheadCols, AheadLeft, AheadRows, Newline, Letter, Back, Wrap, Up, Scroll

LEMMA NotGroups ==
  /\ E1 \notin AheadCols /\ E2 \notin AheadCols /\ E3 \notin AheadCols /\ <<>> \notin AheadCols
  /\ \A c \in {W0, W1, W2, U0, U1, U2, S0, S1, S2} : c \notin AheadCols
  /\ \A c \in {E2, E3, U0, U1, U2, S0, S1, S2, <<>>} : c \notin AheadLeft
  /\ \A c \in {E3, S0, S1, S2, <<>>} : c \notin AheadRows
<1>1. ASSUME NEW c \in AheadCols
      PROVE  /\ c \notin {E1, E2, E3, <<>>}
             /\ c \notin {W0, W1, W2}
             /\ c \notin {U0, U1, U2}
             /\ c \notin {S0, S1, S2}
  <2>1. \/ Len(c) = 7
        \/ Len(c) = 6 /\ Head(c) \in {"load_y_inc", "load_x_inc", "store_x"}
        \/ Len(c) = 5 /\ Head(c) \in {"store_y", "store_x", "put"}
        \/ Len(c) = 4 /\ Head(c) = "cols"
    BY Shapes DEF AheadCols, Newline, Letter, Back
  <2>2. c # <<>>
    BY Nonempty DEF AheadCols, Newline, Letter, Back
  <2>3. c \notin {E1, E2, E3} /\ c \notin {W0, W1, W2}
    BY <2>1, Shapes
  <2>4. c \notin {U0, U1, U2} /\ c \notin {S0, S1, S2}
    BY <2>1, Shapes
  <2> QED BY <2>2, <2>3, <2>4
<1>2. ASSUME NEW c \in Wrap \union {E1}
      PROVE  c \notin {E2, E3, <<>>} /\ c \notin {U0, U1, U2} /\ c \notin {S0, S1, S2}
  <2>1. c # <<>>
    BY Nonempty DEF Wrap
  <2>2. c \notin {E2, E3} /\ c \notin {U0, U1, U2} /\ c \notin {S0, S1, S2}
    BY Shapes DEF Wrap
  <2> QED BY <2>1, <2>2
<1>3. ASSUME NEW c \in Up \union {E2}
      PROVE  c \notin {E3, <<>>} /\ c \notin {S0, S1, S2}
  <2>1. c # <<>>
    BY Nonempty DEF Up
  <2>2. c # E3 /\ c \notin {S0, S1, S2}
    BY Shapes DEF Up
  <2> QED BY <2>1, <2>2
<1>4. \A c \in {E1, E2, E3, <<>>, W0, W1, W2, U0, U1, U2, S0, S1, S2} : c \notin AheadCols
  BY <1>1
<1>5. \A c \in {E2, E3, U0, U1, U2, S0, S1, S2, <<>>} : c \notin AheadLeft
  BY <1>2, <1>4 DEF AheadLeft
<1>6. \A c \in {E3, S0, S1, S2, <<>>} : c \notin AheadRows
  BY <1>3, <1>5 DEF AheadRows
<1> QED BY <1>4, <1>5, <1>6

LEMMA ColumnStep ==
  ASSUME TypeOK, ColumnInv, [Next]_vars
  PROVE  ColumnInv'
<1>1. CASE UNCHANGED <<code, x, y, reg, overlaps>>
  BY <1>1 DEF ColumnInv
\* The task that moves takes over from one that it passes by.
<1>2. ASSUME NEW t \in Tasks, NEW c, Becomes(t, c), x' \in Int,
             x' >= COLS => c \in AheadCols \union {W0} \/ (x' = x /\ code[t] \notin AheadCols \union {W0}),
             x' < 0 => c \in AheadLeft \union Up \/ (x' = x /\ code[t] \notin AheadLeft \union Up)
      PROVE  ColumnInv'
  <2>1. code'[t] = c /\ \A u \in Tasks : u # t => code'[u] = code[u]
    BY <1>2, CodeAfter
  <2> QED BY <1>2, <2>1 DEF ColumnInv
<1>3. \A t \in Tasks : reg[t] \in Int
  BY DEF TypeOK
<1>4. ASSUME NEW t \in Tasks, PutMoves(t) \/ XMoves(t) PROVE ColumnInv'
  BY <1>2, <1>3, <1>4, Groups, Sizes DEF PutMoves, XMoves, Cursor, TypeOK
<1>5. ASSUME NEW t \in Tasks, YMoves(t) PROVE ColumnInv'
  BY <1>2, <1>3, <1>5, Groups, NotGroups, Shapes DEF YMoves, Cursor, TypeOK, Up
<1>6. ASSUME NEW t \in Tasks, TestMoves(t) \/ ScrollMoves(t) \/ DoneMoves(t) PROVE ColumnInv'
  <2>1. CASE TestMoves(t)
    BY <1>2, <1>3, <2>1, Groups, NotGroups, Shapes DEF TestMoves, Cursor, TypeOK, Up
  <2>2. CASE ScrollMoves(t)
    BY <1>2, <1>3, <2>2, Groups, NotGroups, Shapes DEF ScrollMoves, Cursor, TypeOK, Up
  <2>3. CASE DoneMoves(t)
    BY <1>2, <1>3, <2>3, Groups, NotGroups, Shapes DEF DoneMoves, Cursor, TypeOK, Up
  <2> QED BY <1>6, <2>1, <2>2, <2>3
<1>7. ASSUME NEW t \in Tasks, NEW ch \in Chars, Begins(t, ch) PROVE ColumnInv'
  BY <1>2, <1>7, Groups, Starting DEF Begins, TypeOK
<1> QED BY <1>1, <1>4, <1>5, <1>6, <1>7, CursorStep

-----------------------------------------------------------------------------
(* The row.                                                                 *)

Having(G) == {u \in Tasks : code[u] \in G}

LEMMA CountChange ==
  ASSUME TypeOK, NEW t \in Tasks, NEW c, Becomes(t, c), NEW G
  PROVE  /\ Cardinality(Having(G)) \in Nat /\ Cardinality(Having(G)') \in Nat
         /\ Cardinality(Having(G)') + (IF code[t] \in G THEN 1 ELSE 0)
              = Cardinality(Having(G)) + (IF c \in G THEN 1 ELSE 0)
<1> DEFINE R == {u \in Tasks : u # t /\ code[u] \in G}
<1>1. IsFiniteSet(Tasks)
  BY VgaAssumption, FS_AddElement DEF Tasks
<1>2. IsFiniteSet(R)
  BY <1>1, FS_Subset
<1>3. Cardinality(R) \in Nat /\ Cardinality(R \union {t}) = Cardinality(R) + 1
  BY <1>2, FS_CardinalityType, FS_AddElement
<1>4. code'[t] = c /\ \A u \in Tasks : u # t => code'[u] = code[u]
  BY CodeAfter
<1>5. Having(G) = IF code[t] \in G THEN R \union {t} ELSE R
  BY DEF Having
<1>6. Having(G)' = IF c \in G THEN R \union {t} ELSE R
  BY <1>4 DEF Having
<1> DEFINE k == Cardinality(R)
<1>7. /\ k \in Nat
      /\ Cardinality(Having(G)) = IF code[t] \in G THEN k + 1 ELSE k
  BY <1>3, <1>5, Zenon
<1>8. Cardinality(Having(G)') = IF c \in G THEN k + 1 ELSE k
  BY <1>3, <1>6, Zenon
<1> HIDE DEF k
<1> QED BY <1>7, <1>8

LEMMA Counts ==
  ASSUME TypeOK, NEW t \in Tasks, NEW c, Becomes(t, c)
  PROVE  /\ Cardinality(Rising) \in Nat /\ Cardinality(MayWrap) \in Nat
         /\ Cardinality(Rising)' \in Nat /\ Cardinality(MayWrap)' \in Nat
         /\ Cardinality(Rising)' + (IF code[t] \in RisingCodes THEN 1 ELSE 0)
              = Cardinality(Rising) + (IF c \in RisingCodes THEN 1 ELSE 0)
         /\ Cardinality(MayWrap)' + (IF code[t] \in AheadCols THEN 1 ELSE 0)
              = Cardinality(MayWrap) + (IF c \in AheadCols THEN 1 ELSE 0)
<1>1. /\ Cardinality(Rising) \in Nat /\ Cardinality(Rising)' \in Nat
      /\ Cardinality(Rising)' + (IF code[t] \in RisingCodes THEN 1 ELSE 0)
           = Cardinality(Rising) + (IF c \in RisingCodes THEN 1 ELSE 0)
  <2>1. /\ Cardinality(Having(RisingCodes)) \in Nat /\ Cardinality(Having(RisingCodes)') \in Nat
        /\ Cardinality(Having(RisingCodes)') + (IF code[t] \in RisingCodes THEN 1 ELSE 0)
             = Cardinality(Having(RisingCodes)) + (IF c \in RisingCodes THEN 1 ELSE 0)
    BY CountChange, Zenon
  <2>2. Rising = Having(RisingCodes) /\ Rising' = Having(RisingCodes)'
    BY DEF Rising, Having
  <2> QED BY <2>1, <2>2
<1>2. /\ Cardinality(MayWrap) \in Nat /\ Cardinality(MayWrap)' \in Nat
      /\ Cardinality(MayWrap)' + (IF code[t] \in AheadCols THEN 1 ELSE 0)
           = Cardinality(MayWrap) + (IF c \in AheadCols THEN 1 ELSE 0)
  <2>1. /\ Cardinality(Having(AheadCols)) \in Nat /\ Cardinality(Having(AheadCols)') \in Nat
        /\ Cardinality(Having(AheadCols)') + (IF code[t] \in AheadCols THEN 1 ELSE 0)
             = Cardinality(Having(AheadCols)) + (IF c \in AheadCols THEN 1 ELSE 0)
    BY CountChange, Zenon
  <2>2. MayWrap = Having(AheadCols) /\ MayWrap' = Having(AheadCols)'
    BY DEF MayWrap, Having
  <2> QED BY <2>1, <2>2
<1> QED BY <1>1, <1>2

LEMMA RisingFacts ==
  /\ N0 \in RisingCodes /\ N1 \in RisingCodes /\ W0 \in RisingCodes /\ W1 \in RisingCodes
  /\ N2 \notin RisingCodes /\ W2 \notin RisingCodes
  /\ L0 \notin RisingCodes /\ L1 \notin RisingCodes /\ L2 \notin RisingCodes
  /\ B0 \notin RisingCodes /\ B1 \notin RisingCodes /\ B2 \notin RisingCodes
  /\ U0 \notin RisingCodes /\ U1 \notin RisingCodes /\ U2 \notin RisingCodes
  /\ S0 \notin RisingCodes /\ S1 \notin RisingCodes /\ S2 \notin RisingCodes
  /\ E0 \notin RisingCodes /\ E1 \notin RisingCodes /\ E2 \notin RisingCodes
  /\ E3 \notin RisingCodes /\ <<>> \notin RisingCodes
<1>1. <<>> \notin RisingCodes
  BY Nonempty DEF RisingCodes
<1>2. /\ N0 \in RisingCodes /\ N1 \in RisingCodes /\ W0 \in RisingCodes /\ W1 \in RisingCodes
      /\ N2 \notin RisingCodes /\ W2 \notin RisingCodes
      /\ L0 \notin RisingCodes /\ L1 \notin RisingCodes /\ L2 \notin RisingCodes
      /\ B0 \notin RisingCodes /\ B1 \notin RisingCodes /\ B2 \notin RisingCodes
  BY Shapes DEF RisingCodes
<1>3. /\ U0 \notin RisingCodes /\ U1 \notin RisingCodes /\ U2 \notin RisingCodes
      /\ S0 \notin RisingCodes /\ S1 \notin RisingCodes /\ S2 \notin RisingCodes
      /\ E0 \notin RisingCodes /\ E1 \notin RisingCodes /\ E2 \notin RisingCodes
      /\ E3 \notin RisingCodes
  BY Shapes DEF RisingCodes
<1> QED BY <1>1, <1>2, <1>3

\* A step takes the column beyond the end only if the column, a register or a
\* letter already did.
LEMMA HighKept ==
  ASSUME TypeOK, NEW t \in Tasks, NEW c, Becomes(t, c), NEW v, reg' = [reg EXCEPT ![t] = v],
         x' >= COLS => High, c \in {L0, L1} => High, c \in {L2, B1} /\ v >= COLS => High
  PROVE  High' => High
<1>1. code'[t] = c /\ \A u \in Tasks : u # t => code'[u] = code[u]
  BY CodeAfter
<1>2. reg'[t] = v /\ \A u \in Tasks : u # t => reg'[u] = reg[u]
  BY RegAfter
<1>3. ASSUME NEW u \in Tasks,
             code'[u] \in {L0, L1} \/ (code'[u] \in {L2, B1} /\ reg'[u] >= COLS)
      PROVE  High
  <2>1. CASE u = t
    BY <1>1, <1>2, <1>3, <2>1
  <2>2. CASE u # t
    BY <1>1, <1>2, <1>3, <2>2 DEF High
  <2> QED BY <2>1, <2>2
<1> QED BY <1>3 DEF High

RoomKept == \A w \in Int : Room(w) => Room(w)'

LEMMA RoomIfFewer ==
  ASSUME TypeOK, NEW t \in Tasks, NEW c, Becomes(t, c), overlaps' = overlaps,
         \/ (c \in RisingCodes => code[t] \in RisingCodes) /\ (c \in AheadCols => code[t] \in AheadCols)
         \/ High /\ code[t] \in AheadCols /\ c \notin AheadCols,
         High' => High
  PROVE  RoomKept
<1> SUFFICES ASSUME NEW w \in Int, Room(w) PROVE Room(w)'
  BY DEF RoomKept
<1>1. PICK n \in Nat, m \in Nat, n1 \in Nat, m1 \in Nat :
        /\ n = Cardinality(Rising) /\ m = Cardinality(MayWrap)
        /\ n1 = Cardinality(Rising)' /\ m1 = Cardinality(MayWrap)'
        /\ n1 + (IF code[t] \in RisingCodes THEN 1 ELSE 0)
             = n + (IF c \in RisingCodes THEN 1 ELSE 0)
        /\ m1 + (IF code[t] \in AheadCols THEN 1 ELSE 0)
             = m + (IF c \in AheadCols THEN 1 ELSE 0)
  BY Counts
<1>2. /\ w + n <= ROWS + 2 * overlaps
      /\ w + n + m <= ROWS + 2 * overlaps + IF High THEN 0 ELSE 1
  BY <1>1 DEF Room
<1>3. ROWS \in Nat /\ overlaps \in Nat
  BY Sizes DEF TypeOK
<1>4. n1 + m1 <= n + m /\ (n1 <= n \/ High)
  BY <1>1
<1>5. CASE High
  <2>1. w + n1 + m1 <= ROWS + 2 * overlaps
    BY <1>1, <1>2, <1>3, <1>4, <1>5
  <2>2. w + n1 <= ROWS + 2 * overlaps
    BY <1>1, <1>3, <2>1
  <2>3. w + n1 + m1 <= ROWS + 2 * overlaps + 1
    BY <1>1, <1>3, <2>1
  <2> QED BY <2>1, <2>2, <2>3, <1>1, <1>3 DEF Room
<1>6. CASE ~High
  <2>1. w + n1 + m1 <= ROWS + 2 * overlaps + 1 /\ ~High'
    BY <1>1, <1>2, <1>3, <1>4, <1>6
  <2>2. w + n1 <= ROWS + 2 * overlaps
    BY <1>1, <1>2, <1>3, <1>4, <1>6
  <2> QED BY <2>1, <2>2, <1>1, <1>3 DEF Room
<1> QED BY <1>5, <1>6

LEMMA RoomFacts ==
  ASSUME TypeOK, NEW w \in Int, Room(w)
  PROVE  w <= ROWS + 2 * overlaps /\ Room(w - 1)
<1>1. IsFiniteSet(Tasks)
  BY VgaAssumption, FS_AddElement DEF Tasks
<1>2. IsFiniteSet(Rising) /\ IsFiniteSet(MayWrap)
  BY <1>1, FS_Subset DEF Rising, MayWrap
<1>3. PICK n \in Nat, m \in Nat : n = Cardinality(Rising) /\ m = Cardinality(MayWrap)
  BY <1>2, FS_CardinalityType
<1>4. /\ w + n <= ROWS + 2 * overlaps
      /\ w + n + m <= ROWS + 2 * overlaps + IF High THEN 0 ELSE 1
  BY <1>3 DEF Room
<1>5. ROWS \in Nat /\ overlaps \in Nat
  BY Sizes DEF TypeOK
<1>6. /\ (w - 1) + n <= ROWS + 2 * overlaps
      /\ (w - 1) + n + m <= ROWS + 2 * overlaps + IF High THEN 0 ELSE 1
  BY <1>3, <1>4, <1>5
<1>7. w <= ROWS + 2 * overlaps
  BY <1>3, <1>4, <1>5
<1> QED BY <1>3, <1>6, <1>7 DEF Room

\* Adding a row uses up a call that was going to.
LEMMA RoomRaised ==
  ASSUME TypeOK, NEW t \in Tasks, NEW c, Becomes(t, c), overlaps' = overlaps, High' => High,
         code[t] \in RisingCodes, c \notin RisingCodes, c \in AheadCols => code[t] \in AheadCols,
         NEW w \in Int, Room(w)
  PROVE  Room(w + 1)'
<1>1. PICK n \in Nat, m \in Nat, n1 \in Nat, m1 \in Nat :
        /\ n = Cardinality(Rising) /\ m = Cardinality(MayWrap)
        /\ n1 = Cardinality(Rising)' /\ m1 = Cardinality(MayWrap)'
        /\ n1 + (IF code[t] \in RisingCodes THEN 1 ELSE 0)
             = n + (IF c \in RisingCodes THEN 1 ELSE 0)
        /\ m1 + (IF code[t] \in AheadCols THEN 1 ELSE 0)
             = m + (IF c \in AheadCols THEN 1 ELSE 0)
  BY Counts
<1>2. n1 + 1 = n /\ m1 <= m
  BY <1>1
<1>3. ROWS \in Nat /\ overlaps \in Nat
  BY Sizes DEF TypeOK
<1>4. /\ w + n <= ROWS + 2 * overlaps
      /\ w + n + m <= ROWS + 2 * overlaps + IF High THEN 0 ELSE 1
  BY <1>1 DEF Room
<1>5. (w + 1) + n1 <= ROWS + 2 * overlaps
  BY <1>2, <1>3, <1>4
<1>6. CASE High
  <2>1. (w + 1) + n1 + m1 <= ROWS + 2 * overlaps
    BY <1>2, <1>3, <1>4, <1>6
  <2>2. (w + 1) + n1 + m1 <= ROWS + 2 * overlaps + 1
    BY <1>3, <2>1
  <2> QED BY <1>1, <1>3, <1>5, <2>1, <2>2 DEF Room
<1>7. CASE ~High
  <2>1. (w + 1) + n1 + m1 <= ROWS + 2 * overlaps + 1
    BY <1>2, <1>3, <1>4, <1>7
  <2> QED BY <1>1, <1>3, <1>5, <1>7, <2>1 DEF Room
<1> QED BY <1>6, <1>7

LEMMA RowAfter ==
  ASSUME TypeOK, RowInv, NEW t \in Tasks, NEW c, NEW nx, NEW ny \in Int, NEW v,
         Cursor(t, c, nx, ny, v), RoomKept, Room(ny),
         c \in {N2, W2, U1, S2} => Room(v)',
         c = S2 => v < ROWS + 2 * overlaps,
         \/ ny < ROWS + 2 * overlaps
         \/ c \in AheadRows \union Scroll
         \/ ny = y /\ code[t] \notin AheadRows \union Scroll
  PROVE  RowInv'
<1>1. code'[t] = c /\ \A u \in Tasks : u # t => code'[u] = code[u]
  BY CodeAfter DEF Cursor
<1>2. reg'[t] = v /\ \A u \in Tasks : u # t => reg'[u] = reg[u]
  BY RegAfter DEF Cursor
<1>3. y' = ny /\ overlaps' = overlaps
  BY DEF Cursor
<1>4. Room(ny)'
  BY DEF RoomKept
<1>5. Room(y)'
  BY <1>3, <1>4 DEF Room
<1>6. ASSUME NEW u \in Tasks, code'[u] \in {N2, W2, U1, S2} PROVE Room(reg[u])'
  <2>1. CASE u = t
    <3>1. Room(v)' /\ reg'[u] = v
      BY <1>1, <1>2, <1>6, <2>1
    <3> QED BY <3>1 DEF Room
  <2>2. CASE u # t
    <3>1. reg[u] \in Int /\ Room(reg[u])
      BY <1>1, <1>6, <2>2 DEF TypeOK, RowInv
    <3>2. ASSUME NEW z \in Int, z = reg[u] PROVE Room(reg[u])'
      <4>1. Room(z)
        BY <3>1, <3>2
      <4>2. Room(z)' /\ reg'[u] = z
        BY <1>2, <2>2, <3>2, <4>1 DEF RoomKept
      <4> QED BY <4>2 DEF Room
    <3> QED BY <3>1, <3>2
  <2> QED BY <2>1, <2>2
<1>7. \A u \in Tasks : code'[u] = S2 => reg'[u] < ROWS + 2 * overlaps'
  BY <1>1, <1>2, <1>3 DEF RowInv
<1>8. y' < ROWS + 2 * overlaps' \/ \E u \in Tasks : code'[u] \in AheadRows \union Scroll
  BY <1>1, <1>3 DEF RowInv
<1> QED BY <1>5, <1>6, <1>7, <1>8 DEF RowInv

LEMMA StoringFacts ==
  /\ \A c \in {L0, L1, L2, B0, B1, B2, N0, N1, W0, W1, U0, U2} : c \notin {N2, W2, U1, S2}
  /\ \A c \in {S0, S1, E0, E1, E2, E3} : c \notin {N2, W2, U1, S2}
  /\ <<>> \notin {N2, W2, U1, S2}
  /\ \A c \in {N0, N1, N2, W0, W1, W2, U0, U1, U2, S0, S1, S2, E0, E1, E2, E3} :
       c \notin {L0, L1} /\ c \notin {L2, B1}
  /\ \A c \in {B0, B2} : c \notin {L0, L1} /\ c \notin {L2, B1}
  /\ <<>> \notin {L0, L1} /\ <<>> \notin {L2, B1}
  /\ N2 # S2 /\ W2 # S2 /\ U1 # S2
<1>1. \A c \in {L0, L1, L2, B0, B1, B2, N0, N1, W0, W1, U0, U2} : c \notin {N2, W2, U1, S2}
  BY Shapes
<1>2. \A c \in {S0, S1, E0, E1, E2, E3} : c \notin {N2, W2, U1, S2}
  BY Shapes
<1>3. <<>> \notin {N2, W2, U1, S2} /\ <<>> \notin {L0, L1} /\ <<>> \notin {L2, B1}
  BY Nonempty
<1>4. \A c \in {N0, N1, N2, W0, W1, W2, U0, U1, U2, S0, S1, S2, E0, E1, E2, E3} :
        c \notin {L0, L1} /\ c \notin {L2, B1}
  BY Shapes
<1>5. \A c \in {B0, B2} : c \notin {L0, L1} /\ c \notin {L2, B1}
  BY Shapes
<1>6. N2 # S2 /\ W2 # S2 /\ U1 # S2
  BY Shapes
<1> QED BY <1>1, <1>2, <1>3, <1>4, <1>5, <1>6

\* A step that leaves the row alone.
LEMMA RowStays ==
  ASSUME TypeOK, RowInv, NEW t \in Tasks, NEW c, NEW nx, NEW v, Cursor(t, c, nx, y, v),
         nx >= COLS => High, c \in {L0, L1} => High, c \in {L2, B1} /\ v >= COLS => High,
         \/ (c \in RisingCodes => code[t] \in RisingCodes) /\ (c \in AheadCols => code[t] \in AheadCols)
         \/ High /\ code[t] \in AheadCols /\ c \notin AheadCols,
         c \notin {N2, W2, U1, S2},
         \/ y < ROWS + 2 * overlaps
         \/ c \in AheadRows \union Scroll
         \/ code[t] \notin AheadRows \union Scroll
  PROVE  RowInv'
<1>1. /\ Becomes(t, c) /\ overlaps' = overlaps /\ x' = nx /\ reg' = [reg EXCEPT ![t] = v]
  BY DEF Cursor
<1>2. High' => High
  BY <1>1, HighKept
<1>3. RoomKept
  BY <1>1, <1>2, RoomIfFewer
<1>4. y \in Int /\ Room(y) /\ c # S2
  BY DEF TypeOK, RowInv
<1>5. ASSUME NEW ny \in Int, ny = y PROVE RowInv'
  <2>1. Cursor(t, c, nx, ny, v) /\ Room(ny)
    BY <1>4, <1>5
  <2> QED BY <1>3, <1>4, <1>5, <2>1, RowAfter
<1> QED BY <1>4, <1>5

LEMMA RowXMoves ==
  ASSUME TypeOK, RowInv, NEW t \in Tasks, PutMoves(t) \/ XMoves(t)
  PROVE  RowInv'
<1>0. reg[t] \in Int /\ x \in Int
  BY DEF TypeOK
<1>1. CASE code[t] = L0 /\ Cursor(t, L1, x, y, reg[t])
  <2>1. High
    BY <1>1 DEF High
  <2> QED BY <1>1, <2>1, RowStays, Groups, StoringFacts, RisingFacts
<1>2. CASE code[t] = L1 /\ Cursor(t, L2, x, y, x + 1)
  <2>1. High
    BY <1>2 DEF High
  <2> QED BY <1>2, <2>1, RowStays, Groups, StoringFacts, RisingFacts
<1>3. CASE code[t] = L2 /\ Cursor(t, E0, reg[t], y, 0)
  <2>1. reg[t] >= COLS => High
    BY <1>3 DEF High
  <2> QED BY <1>3, <2>1, RowStays, Groups, StoringFacts, RisingFacts
<1>4. CASE code[t] = B0 /\ Cursor(t, B1, x, y, x - 1)
  <2>1. (x >= COLS => High) /\ (x - 1 >= COLS => High) /\ B1 \notin {L0, L1}
    BY <1>0, Sizes, Shapes DEF High
  <2> QED BY <1>4, <2>1, RowStays, Groups, StoringFacts, RisingFacts
<1>5. CASE code[t] = B1 /\ Cursor(t, B2, reg[t], y, 0)
  <2>1. reg[t] >= COLS => High
    BY <1>5 DEF High
  <2> QED BY <1>5, <2>1, RowStays, Groups, StoringFacts, RisingFacts
<1>6. CASE code[t] = B2 /\ Cursor(t, E0, x, y, reg[t])
  <2>1. x >= COLS => High
    BY DEF High
  <2> QED BY <1>6, <2>1, RowStays, Groups, StoringFacts, RisingFacts
<1>7. 0 < COLS /\ COLS - 1 < COLS /\ COLS \in Nat
  BY Sizes
<1>8. CASE code[t] = N0 /\ Cursor(t, N1, 0, y, 0)
  BY <1>7, <1>8, RowStays, Groups, StoringFacts, RisingFacts
<1>9. CASE code[t] = W0 /\ Cursor(t, W1, 0, y, 0)
  BY <1>7, <1>9, RowStays, Groups, NotGroups, StoringFacts, RisingFacts
<1>10. CASE code[t] = U2 /\ Cursor(t, E2, COLS - 1, y, 0)
  BY <1>7, <1>10, RowStays, Groups, NotGroups, StoringFacts, RisingFacts
<1> QED BY <1>1, <1>2, <1>3, <1>4, <1>5, <1>6, <1>8, <1>9, <1>10 DEF PutMoves, XMoves

LEMMA RowTests ==
  ASSUME TypeOK, RowInv, NEW t \in Tasks, TestMoves(t) \/ ScrollMoves(t) \/ DoneMoves(t)
  PROVE  RowInv'
<1>0. /\ x \in Int /\ y \in Int /\ ROWS \in Nat /\ overlaps \in Nat
      /\ x >= COLS => High
  BY Sizes DEF TypeOK, High
<1>1. CASE code[t] = E0 /\ x >= COLS /\ Cursor(t, W0, x, y, reg[t])
  BY <1>0, <1>1, RowStays, Groups, NotGroups, StoringFacts
<1>2. CASE code[t] = E0 /\ ~ (x >= COLS) /\ Cursor(t, E1, x, y, reg[t])
  BY <1>0, <1>2, RowStays, Groups, NotGroups, StoringFacts, RisingFacts
<1>3. CASE code[t] = E1 /\ x < 0 /\ Cursor(t, U0, x, y, reg[t])
  BY <1>0, <1>3, RowStays, Groups, NotGroups, StoringFacts, RisingFacts
<1>4. CASE code[t] = E1 /\ ~ (x < 0) /\ Cursor(t, E2, x, y, reg[t])
  BY <1>0, <1>4, RowStays, Groups, NotGroups, StoringFacts, RisingFacts
<1>5. CASE code[t] = E2 /\ y >= ROWS /\ Cursor(t, S0, x, y, reg[t])
  BY <1>0, <1>5, RowStays, Groups, NotGroups, StoringFacts, RisingFacts
<1>6. CASE code[t] = E2 /\ ~ (y >= ROWS) /\ Cursor(t, E3, x, y, reg[t])
  <2>1. y < ROWS + 2 * overlaps
    BY <1>0, <1>6
  <2> QED BY <1>0, <1>6, <2>1, RowStays, NotGroups, StoringFacts, RisingFacts
<1>7. CASE code[t] = S0 /\ Cursor(t, S1, x, y, reg[t])
  BY <1>0, <1>7, RowStays, Groups, NotGroups, StoringFacts, RisingFacts
<1>8. CASE code[t] = E3 /\ Cursor(t, <<>>, x, y, reg[t])
  <2>1. E3 \notin AheadRows \union Scroll
    BY NotGroups, Shapes DEF Scroll
  <2> QED BY <1>0, <1>8, <2>1, RowStays, NotGroups, StoringFacts, RisingFacts
<1> QED BY <1>1, <1>2, <1>3, <1>4, <1>5, <1>6, <1>7, <1>8 DEF TestMoves, ScrollMoves, DoneMoves

\* A step of t that neither loads nor stores the column, from a code that is not
\* going to.
LEMMA SameHigh ==
  ASSUME TypeOK, NEW t \in Tasks, NEW c, NEW ny, NEW v, Cursor(t, c, x, ny, v),
         c \notin {L0, L1}, c \notin {L2, B1}
  PROVE  High' => High
<1>1. /\ Becomes(t, c) /\ x' = x /\ reg' = [reg EXCEPT ![t] = v]
  BY DEF Cursor
<1>2. x' >= COLS => High
  BY <1>1 DEF High
<1> QED BY <1>1, <1>2, HighKept

LEMMA RowLoads ==
  ASSUME TypeOK, RowInv, NEW t \in Tasks, NEW c, NEW v \in Int, Cursor(t, c, x, y, v),
         \/ code[t] = N1 /\ c = N2 /\ v = y + 1
         \/ code[t] = W1 /\ c = W2 /\ v = y + 1
         \/ code[t] = U0 /\ c = U1 /\ v = y - 1
         \/ code[t] = S1 /\ c = S2 /\ v = y - 1
  PROVE  RowInv'
<1>1. Becomes(t, c) /\ overlaps' = overlaps /\ y \in Int /\ Room(y)
  BY DEF Cursor, TypeOK, RowInv
<1>2. High' => High
  BY SameHigh, StoringFacts
<1>3. RoomKept
  BY <1>1, <1>2, RoomIfFewer, Groups, NotGroups, RisingFacts
<1>4. y <= ROWS + 2 * overlaps /\ Room(y - 1)
  BY <1>1, RoomFacts
<1>5. Room(v)'
  <2>1. CASE v = y - 1
    <3>1. Room(v)
      BY <1>4, <2>1
    <3> QED BY <1>3, <3>1 DEF RoomKept
  <2>2. CASE v = y + 1 /\ code[t] = N1 /\ c = N2
    <3>1. ASSUME NEW w \in Int, w = y PROVE Room(v)'
      <4>1. Room(w + 1)'
        BY <1>1, <1>2, <2>2, <3>1, RoomRaised, Groups, RisingFacts
      <4> QED BY <2>2, <3>1, <4>1
    <3> QED BY <1>1, <3>1
  <2>3. CASE v = y + 1 /\ code[t] = W1 /\ c = W2
    <3>1. ASSUME NEW w \in Int, w = y PROVE Room(v)'
      <4>1. Room(w + 1)'
        BY <1>1, <1>2, <2>3, <3>1, RoomRaised, NotGroups, RisingFacts
      <4> QED BY <2>3, <3>1, <4>1
    <3> QED BY <1>1, <3>1
  <2> QED BY <2>1, <2>2, <2>3
<1>6. c = S2 => v < ROWS + 2 * overlaps
  <2>1. ROWS \in Nat /\ overlaps \in Nat
    BY Sizes DEF TypeOK
  <2> QED BY <1>1, <1>4, <2>1, StoringFacts
<1>7. c \in AheadRows \union Scroll
  BY Groups
<1>8. ASSUME NEW ny \in Int, ny = y PROVE RowInv'
  <2>1. Cursor(t, c, x, ny, v) /\ Room(ny)
    BY <1>1, <1>8
  <2> QED BY <1>3, <1>5, <1>6, <1>7, <2>1, RowAfter
<1> QED BY <1>1, <1>8

LEMMA RowStores ==
  ASSUME TypeOK, RowInv, NEW t \in Tasks, NEW c, NEW ny \in Int, ny = reg[t],
         Cursor(t, c, x, ny, 0),
         \/ code[t] = N2 /\ c = E0
         \/ code[t] = W2 /\ c = E1
         \/ code[t] = U1 /\ c = U2
         \/ code[t] = S2 /\ c = E3
  PROVE  RowInv'
<1>1. Becomes(t, c) /\ overlaps' = overlaps
  BY DEF Cursor
<1>2. High' => High
  BY SameHigh, StoringFacts
<1>3. RoomKept
  BY <1>1, <1>2, RoomIfFewer, Groups, NotGroups, RisingFacts
<1>4. Room(ny) /\ (code[t] = S2 => ny < ROWS + 2 * overlaps)
  BY DEF RowInv
<1>5. ny < ROWS + 2 * overlaps \/ c \in AheadRows \union Scroll
  BY <1>4, Groups
<1>6. c \notin {N2, W2, U1, S2}
  BY StoringFacts
<1> QED BY <1>3, <1>4, <1>5, <1>6, RowAfter

LEMMA RowYMoves ==
  ASSUME TypeOK, RowInv, NEW t \in Tasks, YMoves(t)
  PROVE  RowInv'
<1>1. y + 1 \in Int /\ y - 1 \in Int /\ reg[t] \in Int
  BY DEF TypeOK
<1>2. CASE code[t] = N1 /\ Cursor(t, N2, x, y, y + 1)
  BY <1>1, <1>2, RowLoads
<1>3. CASE code[t] = W1 /\ Cursor(t, W2, x, y, y + 1)
  BY <1>1, <1>3, RowLoads
<1>4. CASE code[t] = U0 /\ Cursor(t, U1, x, y, y - 1)
  BY <1>1, <1>4, RowLoads
<1>5. CASE code[t] = S1 /\ Cursor(t, S2, x, y, y - 1)
  BY <1>1, <1>5, RowLoads
<1>6. CASE code[t] = N2 /\ Cursor(t, E0, x, reg[t], 0)
  BY <1>1, <1>6, RowStores
<1>7. CASE code[t] = W2 /\ Cursor(t, E1, x, reg[t], 0)
  BY <1>1, <1>7, RowStores
<1>8. CASE code[t] = U1 /\ Cursor(t, U2, x, reg[t], 0)
  BY <1>1, <1>8, RowStores
<1>9. CASE code[t] = S2 /\ Cursor(t, E3, x, reg[t], 0)
  BY <1>1, <1>9, RowStores
<1> QED BY <1>2, <1>3, <1>4, <1>5, <1>6, <1>7, <1>8, <1>9 DEF YMoves

\* With all calls ended the cursor is where it should be, or near.
LEMMA QuietCursor ==
  ASSUME TypeOK, ColumnInv, RowInv, Quiet
  PROVE  /\ x \in Col /\ y < ROWS + 2 * overlaps
         /\ Rising = {} /\ MayWrap = {} /\ ~High
<1>1. \A t \in Tasks : code[t] = <<>>
  BY DEF Quiet, Idle
<1>2. <<>> \notin AheadCols /\ <<>> \notin AheadLeft /\ <<>> \notin AheadRows
  BY NotGroups
<1>3. <<>> \notin Up /\ <<>> \notin Scroll /\ <<>> # W0
  BY Nonempty DEF Up, Scroll
<1>4. ~ (x >= COLS) /\ ~ (x < 0) /\ y < ROWS + 2 * overlaps
  BY <1>1, <1>2, <1>3 DEF ColumnInv, RowInv
<1>5. x \in Col
  BY <1>4, Sizes DEF TypeOK, Col
<1>6. Rising = {} /\ MayWrap = {}
  BY <1>1, <1>2, RisingFacts DEF Rising, MayWrap
<1>7. ~High
  BY <1>1, <1>4, StoringFacts DEF High
<1> QED BY <1>4, <1>5, <1>6, <1>7

LEMMA RowBegins ==
  ASSUME TypeOK, ColumnInv, RowInv, NEW t \in Tasks, NEW ch \in Chars, Begins(t, ch)
  PROVE  RowInv'
<1> DEFINE c == Putc(ch)
<1>1. \/ c = N0 /\ ch = NEWLINE
      \/ c = B0
      \/ c = L0
  BY Starting
<1>2. /\ Becomes(t, c) /\ x' = x /\ y' = y /\ reg' = reg /\ code[t] = <<>>
  BY DEF Begins
<1>3. c \in AheadCols /\ c \in AheadRows /\ c \notin {N2, W2, U1, S2}
  BY <1>1, Groups, StoringFacts
<1> HIDE DEF c
<1>4. code'[t] = c /\ \A u \in Tasks : u # t => code'[u] = code[u]
  BY <1>2, CodeAfter
<1>5. c # L0 => (High' => High)
  <2>1. reg' = [reg EXCEPT ![t] = reg[t]]
    BY <1>2 DEF TypeOK
  <2>2. x' >= COLS => High
    BY <1>2 DEF High
  <2>3. c # L0 => c \notin {L0, L1} /\ c \notin {L2, B1}
    BY <1>1, StoringFacts
  <2> QED BY <1>2, <2>1, <2>2, <2>3, HighKept
<1>6. PICK n \in Nat, m \in Nat, n1 \in Nat, m1 \in Nat :
        /\ n = Cardinality(Rising) /\ m = Cardinality(MayWrap)
        /\ n1 = Cardinality(Rising)' /\ m1 = Cardinality(MayWrap)'
        /\ n1 = n + (IF c = N0 THEN 1 ELSE 0) /\ m1 = m + 1
  <2>1. /\ code[t] \notin RisingCodes /\ code[t] \notin AheadCols
        /\ c \in RisingCodes <=> c = N0
    BY <1>1, <1>2, NotGroups, RisingFacts
  <2>2. /\ Cardinality(Rising) \in Nat /\ Cardinality(MayWrap) \in Nat
        /\ Cardinality(Rising)' \in Nat /\ Cardinality(MayWrap)' \in Nat
        /\ Cardinality(Rising)' + (IF code[t] \in RisingCodes THEN 1 ELSE 0)
             = Cardinality(Rising) + (IF c \in RisingCodes THEN 1 ELSE 0)
        /\ Cardinality(MayWrap)' + (IF code[t] \in AheadCols THEN 1 ELSE 0)
             = Cardinality(MayWrap) + (IF c \in AheadCols THEN 1 ELSE 0)
    BY <1>2, Counts
  <2> QED BY <1>3, <2>1, <2>2
<1>7. ROWS \in Nat /\ overlaps \in Nat /\ y \in Int /\ N0 # L0
  BY Sizes, Shapes DEF TypeOK
\* A call that overlaps brings room for two rows.
<1>8. CASE overlaps' = overlaps + 1
  <2>1. ASSUME NEW w \in Int, Room(w) PROVE Room(w)'
    <3>1. /\ w + n <= ROWS + 2 * overlaps
          /\ w + n + m <= ROWS + 2 * overlaps + IF High THEN 0 ELSE 1
      BY <1>6, <2>1 DEF Room
    <3>2. w + n1 <= ROWS + 2 * (overlaps + 1)
      BY <1>6, <1>7, <3>1
    <3>3. CASE c = L0
      <4>1. w + n1 + m1 <= ROWS + 2 * (overlaps + 1)
        BY <1>6, <1>7, <3>1, <3>3
      <4>2. w + n1 + m1 <= ROWS + 2 * (overlaps + 1) + 1
        BY <1>7, <4>1
      <4> QED BY <1>6, <1>7, <1>8, <3>2, <4>1, <4>2 DEF Room
    <3>4. CASE c # L0
      <4>1. w + n1 + m1 <= ROWS + 2 * (overlaps + 1) + 1
        BY <1>6, <1>7, <3>1
      <4>2. High => w + n1 + m1 <= ROWS + 2 * (overlaps + 1)
        BY <1>6, <1>7, <3>1
      <4> QED BY <1>5, <1>6, <1>7, <1>8, <3>2, <3>4, <4>1, <4>2 DEF Room
    <3> QED BY <3>3, <3>4
  <2>2. Room(y)'
    <3>1. ASSUME NEW w \in Int, w = y PROVE Room(y)'
      <4>1. Room(w)
        BY <3>1 DEF RowInv
      <4>2. Room(w)' /\ y' = w
        BY <1>2, <2>1, <3>1, <4>1
      <4> QED BY <4>2 DEF Room
    <3> QED BY <1>7, <3>1
  <2>3. ASSUME NEW u \in Tasks, code'[u] \in {N2, W2, U1, S2} PROVE Room(reg[u])'
    <3>1. u # t /\ code'[u] = code[u]
      BY <1>3, <1>4, <2>3
    <3>2. ASSUME NEW w \in Int, w = reg[u] PROVE Room(reg[u])'
      <4>1. Room(w)
        BY <2>3, <3>1, <3>2 DEF RowInv
      <4>2. Room(w)' /\ reg'[u] = w
        BY <1>2, <2>1, <3>2, <4>1
      <4> QED BY <4>2 DEF Room
    <3> QED BY <3>2 DEF TypeOK
  <2>4. ASSUME NEW u \in Tasks, code'[u] = S2 PROVE reg'[u] < ROWS + 2 * overlaps'
    <3>1. u # t /\ code[u] = S2 /\ reg'[u] = reg[u] /\ reg[u] \in Int
      BY <1>2, <1>3, <1>4, <2>4 DEF TypeOK
    <3>2. reg[u] < ROWS + 2 * overlaps
      BY <3>1 DEF RowInv
    <3> QED BY <1>7, <1>8, <3>1, <3>2
  <2> QED BY <1>3, <1>4, <2>2, <2>3, <2>4 DEF RowInv
\* The call is the only one.
<1>9. CASE Alone(t) /\ overlaps' = overlaps
  <2>1. Quiet /\ \A u \in Tasks : code[u] = <<>>
    BY <1>2, <1>9 DEF Quiet, Alone, Idle
  <2>2. /\ y < ROWS + 2 * overlaps /\ ~High
        /\ Rising = {} /\ MayWrap = {}
    BY <2>1, QuietCursor
  <2>3. n = 0 /\ m = 0
    BY <1>6, <2>2, FS_EmptySet
  <2>4. y + n1 <= ROWS + 2 * overlaps
    BY <1>6, <1>7, <2>2, <2>3
  <2>5. Room(y)'
    <3>1. CASE c = N0
      <4>1. y + n1 + m1 <= ROWS + 2 * overlaps + 1 /\ ~High'
        BY <1>5, <1>6, <1>7, <2>2, <2>3, <3>1
      <4> QED BY <1>2, <1>6, <1>9, <2>4, <4>1 DEF Room
    <3>2. CASE c # N0
      <4>1. y + n1 + m1 <= ROWS + 2 * overlaps
        BY <1>6, <1>7, <2>2, <2>3, <3>2
      <4>2. y + n1 + m1 <= ROWS + 2 * overlaps + 1
        BY <1>7, <4>1
      <4>3. y + n1 + m1 <= ROWS + 2 * overlaps + IF High' THEN 0 ELSE 1
        <5>1. CASE High'
          BY <1>7, <4>1, <5>1
        <5>2. CASE ~High'
          BY <4>2, <5>2
        <5> QED BY <5>1, <5>2
      <4> QED BY <1>2, <1>6, <1>9, <2>4, <4>3 DEF Room
    <3> QED BY <3>1, <3>2
  <2>6. \A u \in Tasks : code'[u] \notin {N2, W2, U1, S2}
    BY <1>3, <1>4, <2>1, StoringFacts
  <2>7. \A u \in Tasks : code'[u] # S2
    BY <2>6
  <2> QED BY <1>3, <1>4, <2>5, <2>6, <2>7 DEF RowInv
<1> QED BY <1>8, <1>9 DEF Begins

LEMMA RowStep ==
  ASSUME TypeOK, ColumnInv, RowInv, [Next]_vars
  PROVE  RowInv'
<1>1. CASE UNCHANGED <<code, x, y, reg, overlaps>>
  BY <1>1 DEF RowInv, Room, Rising, MayWrap, High
<1> QED BY <1>1, CursorStep, RowXMoves, RowYMoves, RowTests, RowBegins

CursorInv == TypeOK /\ ColumnInv /\ RowInv

LEMMA InitCursor == Init => CursorInv
<1> SUFFICES ASSUME Init PROVE CursorInv
  OBVIOUS
<1>1. TypeOK
  BY InitTypes
<1>2. x = 0 /\ y = 0 /\ overlaps = 0 /\ \A t \in Tasks : code[t] = <<>>
  BY DEF Init
<1>3. <<>> \notin AheadCols
  BY NotGroups
<1>4. Rising = {} /\ MayWrap = {}
  BY <1>2, <1>3, RisingFacts DEF Rising, MayWrap
<1>5. Cardinality(Rising) = 0 /\ Cardinality(MayWrap) = 0
  BY <1>4, FS_EmptySet
<1>6. Room(y)
  BY <1>2, <1>5, Sizes DEF Room
<1>7. \A t \in Tasks : code[t] \notin {N2, W2, U1, S2}
  BY <1>2, StoringFacts
<1>8. \A t \in Tasks : code[t] # S2
  BY <1>7
<1>9. RowInv
  BY <1>2, <1>6, <1>7, <1>8, Sizes DEF RowInv
<1> QED BY <1>1, <1>2, <1>9, Sizes DEF CursorInv, ColumnInv

\* However many calls of vga_console_putc overlap, and wherever the timer cuts
\* them: when all have ended the column is on the screen, and the row is at most
\* two rows too far for each call that began while another ran.
THEOREM CursorStaysNear == Spec => []CursorNearScreen
<1>1. Init => CursorInv
  BY InitCursor
<1>2. CursorInv /\ [Next]_vars => CursorInv'
  BY TypeStep, ColumnStep, RowStep DEF CursorInv
<1>3. CursorInv => CursorNearScreen
  BY QuietCursor DEF CursorInv, CursorNearScreen
<1> QED BY <1>1, <1>2, <1>3, PTL DEF Spec

-----------------------------------------------------------------------------
(* The cells of text memory.                                                *)

LEMMA CellBelow ==
  ASSUME NEW r \in Nat, NEW k \in Nat, NEW n \in Nat, r < k
  PROVE  r * n + n <= k * n /\ r * n \in Nat /\ k * n \in Nat
<1>1. PICK d \in Nat : k = r + 1 + d
  BY (k - r) - 1 \in Nat
<1>2. k * n = r * n + n + d * n
  BY <1>1
<1>3. r * n \in Nat /\ d * n \in Nat /\ k * n \in Nat
  BY <1>1
<1> QED BY <1>2, <1>3

LEMMA Cells ==
  ASSUME NEW r \in Row, NEW i \in Col
  PROVE  /\ r * COLS + i \in Nat /\ r * COLS + i < ROWS * COLS
         /\ r * COLS + i \in Memory
         /\ ROWS * COLS \in Nat
<1>1. r \in Nat /\ i \in Nat /\ r < ROWS /\ i < COLS
  BY Sizes DEF Row, Col
<1>2. r * COLS + COLS <= ROWS * COLS /\ r * COLS \in Nat /\ ROWS * COLS \in Nat
  BY <1>1, Sizes, CellBelow
<1>3. ASSUME NEW a \in Nat, NEW b \in Nat, a + COLS <= b
      PROVE  a + i < b /\ a + i \in Nat /\ a + i \in 0 .. b * 2 - 1
  BY <1>1, <1>3, Sizes
<1> QED BY <1>2, <1>3 DEF Memory

LEMMA CellsApart ==
  ASSUME NEW r \in Row, NEW i \in Col, NEW q \in Row, NEW j \in Col,
         r * COLS + i = q * COLS + j
  PROVE  r = q /\ i = j
<1>1. r \in Nat /\ i \in Nat /\ q \in Nat /\ j \in Nat /\ i < COLS /\ j < COLS
  BY Sizes DEF Row, Col
<1>2. r * COLS \in Nat /\ q * COLS \in Nat
  BY <1>1, Sizes
<1>3. CASE r < q
  <2>1. r * COLS + COLS <= q * COLS
    BY <1>1, <1>3, Sizes, CellBelow
  <2>2. ASSUME NEW a \in Nat, NEW b \in Nat, a + COLS <= b, a + i = b + j PROVE FALSE
    BY <1>1, <2>2, Sizes
  <2> QED BY <1>2, <2>1, <2>2
<1>4. CASE q < r
  <2>1. q * COLS + COLS <= r * COLS
    BY <1>1, <1>4, Sizes, CellBelow
  <2>2. ASSUME NEW a \in Nat, NEW b \in Nat, b + COLS <= a, a + i = b + j PROVE FALSE
    BY <1>1, <2>2, Sizes
  <2> QED BY <1>2, <2>1, <2>2
<1>5. CASE r = q
  <2>1. ASSUME NEW a \in Nat, a + i = a + j PROVE i = j
    BY <1>1, <2>1
  <2> QED BY <1>2, <1>5, <2>1
<1> QED BY <1>1, <1>3, <1>4, <1>5

\* Writing one cell.
LEMMA PutShows ==
  ASSUME NEW V, NEW rs \in [Row -> [Col -> V]], Shows(rs), NEW r \in Row, NEW i \in Col, NEW v,
         buffer' = [k \in Memory |-> IF k = r * COLS + i THEN v ELSE buffer[k]]
  PROVE  Shows([rs EXCEPT ![r][i] = v])'
<1> DEFINE new == [rs EXCEPT ![r][i] = v]
<1>1. ASSUME NEW q \in Row, NEW j \in Col PROVE buffer'[q * COLS + j] = new[q][j]
  <2>1. q * COLS + j \in Memory /\ buffer[q * COLS + j] = rs[q][j]
    BY Cells DEF Shows
  <2>2. CASE q = r /\ j = i
    BY <2>1, <2>2
  <2>3. CASE ~ (q = r /\ j = i)
    <3>1. q * COLS + j # r * COLS + i
      BY <2>3, CellsApart
    <3>2. new[q][j] = rs[q][j]
      BY <2>3
    <3> QED BY <2>1, <3>1, <3>2
  <2> QED BY <2>2, <2>3
<1>2. ASSUME NEW k \in Memory, k >= ROWS * COLS PROVE buffer'[k] = BLANK
  <2>1. r * COLS + i \in Nat /\ r * COLS + i < ROWS * COLS /\ ROWS * COLS \in Nat
    BY Cells
  <2>2. k \in Nat
    BY <2>1 DEF Memory
  <2>3. ASSUME NEW a \in Nat, NEW b \in Nat, a < b, k >= b PROVE k # a
    BY <2>2, <2>3
  <2>4. k # r * COLS + i
    BY <1>2, <2>1, <2>3
  <2> QED BY <1>2, <2>4 DEF Shows
<1> HIDE DEF new
<1>3. Shows(new)'
  BY <1>1, <1>2 DEF Shows
<1> QED BY <1>3 DEF new

\* Moving ROWS rows up, the blank one behind the screen included.
LEMMA ScrollShows ==
  ASSUME NEW rs, Shows(rs),
         buffer' = [k \in Memory |-> IF k < ROWS * COLS THEN buffer[k + COLS] ELSE buffer[k]]
  PROVE  Shows(Scrolled(rs))'
<1>1. ASSUME NEW r \in Row, NEW i \in Col PROVE buffer'[r * COLS + i] = Scrolled(rs)[r][i]
  <2>1. r * COLS + i \in Memory /\ r * COLS + i < ROWS * COLS /\ r * COLS + i \in Nat
    BY Cells
  <2>2. buffer'[r * COLS + i] = buffer[(r * COLS + i) + COLS]
    BY <2>1
  <2>3. r \in Nat /\ i \in Nat /\ r <= ROWS - 1 /\ COLS \in Nat /\ r * COLS \in Nat
    BY Sizes DEF Row, Col
  <2>4. (r * COLS + i) + COLS = (r + 1) * COLS + i
    <3>1. (r + 1) * COLS = r * COLS + COLS
      BY <2>3
    <3>2. ASSUME NEW a \in Nat PROVE (a + i) + COLS = (a + COLS) + i
      BY <2>3
    <3> QED BY <2>3, <3>1, <3>2
  <2>5. CASE r < ROWS - 1
    <3>1. r + 1 \in Row /\ Scrolled(rs)[r] = rs[r + 1]
      BY <2>3, <2>5, Sizes DEF Row, Scrolled
    <3>2. buffer[(r + 1) * COLS + i] = rs[r + 1][i]
      BY <3>1 DEF Shows
    <3> QED BY <2>2, <2>4, <3>1, <3>2
  <2>6. CASE r = ROWS - 1
    <3>1. Scrolled(rs)[r] = BlankRow /\ BlankRow[i] = BLANK
      BY <2>6 DEF Scrolled, BlankRow
    <3>2. r + 1 = ROWS
      BY <2>6, Sizes
    <3>3. ROWS * COLS \in Nat /\ ROWS * COLS + COLS <= (ROWS * COLS) * 2
      <4>1. 0 * COLS + COLS <= ROWS * COLS /\ ROWS * COLS \in Nat
        BY Sizes, CellBelow
      <4>2. ASSUME NEW b \in Nat, COLS <= b PROVE b + COLS <= b * 2
        BY <2>3, <4>2
      <4> QED BY <2>3, <4>1, <4>2
    <3>4. ASSUME NEW b \in Nat, b + COLS <= b * 2
          PROVE  b + i >= b /\ b + i \in 0 .. b * 2 - 1
      BY <2>3, <3>4 DEF Col
    <3>5. ROWS * COLS + i \in Memory /\ ROWS * COLS + i >= ROWS * COLS
      BY <3>3, <3>4 DEF Memory
    <3>6. buffer[ROWS * COLS + i] = BLANK
      BY <3>5 DEF Shows
    <3> QED BY <2>2, <2>4, <3>1, <3>2, <3>6
  <2> QED BY <2>3, <2>5, <2>6, Sizes
<1>2. ASSUME NEW k \in Memory, k >= ROWS * COLS PROVE buffer'[k] = BLANK
  <2>1. ROWS * COLS \in Nat
    BY Sizes
  <2>2. k \in Nat
    BY <2>1 DEF Memory
  <2>3. ~ (k < ROWS * COLS)
    BY <1>2, <2>1, <2>2
  <2> QED BY <1>2, <2>3 DEF Shows
<1> QED BY <1>1, <1>2 DEF Shows

LEMMA SameShows ==
  ASSUME NEW rs, buffer' = buffer, Shows(rs)
  PROVE  Shows(rs)'
  BY DEF Shows

-----------------------------------------------------------------------------
(* Where a terminal's cursor goes.                                          *)

LEMMA CharFacts ==
  /\ NEWLINE # BACKSPACE
  /\ \A ch \in Chars : ch = NEWLINE \/ ch = BACKSPACE \/ ch \in Letters
  /\ \A ch \in Letters : ch # NEWLINE /\ ch # BACKSPACE /\ ch # BLANK
  BY VgaAssumption DEF Chars, NEWLINE, BACKSPACE

LEMMA DrawCases ==
  ASSUME NEW s, s # Unknown
  PROVE  /\ Draw(s, NEWLINE) = NextRow(s, s.rows)
         /\ Draw(s, BACKSPACE) = Erase(s)
         /\ \A ch \in Letters : Draw(s, ch) = Show(s, ch)
<1>1. Draw(s, NEWLINE) = NextRow(s, s.rows)
  BY CharFacts DEF Draw
<1>2. Draw(s, BACKSPACE) = Erase(s)
  BY CharFacts DEF Draw
<1>3. ASSUME NEW ch \in Letters PROVE Draw(s, ch) = Show(s, ch)
  BY CharFacts DEF Draw
<1> QED BY <1>1, <1>2, <1>3

LEMMA ScreenNumbers ==
  ASSUME NEW s, IsScreen(s)
  PROVE  /\ s.at[1] \in Nat /\ s.at[2] \in Nat /\ s.at[1] <= ROWS - 1 /\ s.at[2] <= COLS - 1
         /\ ROWS \in Nat /\ COLS \in Nat /\ ROWS >= 2 /\ COLS >= 1
  BY Sizes DEF IsScreen, Row, Col

\* What Draw shows, in terms of the tests of vga_console_putc.
LEMMA NewlineDraw ==
  ASSUME NEW s, s # Unknown, IsScreen(s), NEW ch, ch = NEWLINE
  PROVE  /\ Third(s, ch) = <<s.at[1] + 1, 0>>
         /\ Drawn(s, ch) = s.rows
         /\ Draw(s, ch).rows = IF Third(s, ch)[1] >= ROWS THEN Scrolled(s.rows) ELSE s.rows
         /\ Draw(s, ch).at = IF Third(s, ch)[1] >= ROWS THEN <<ROWS - 1, 0>> ELSE Third(s, ch)
<1>0. s.at[1] \in Nat /\ s.at[1] <= ROWS - 1 /\ ROWS \in Nat
  BY ScreenNumbers
<1>1. ~Ends(s, ch) /\ ~Starts(s, ch)
  BY CharFacts DEF Ends, Starts
<1>2. Third(s, ch) = <<s.at[1] + 1, 0>>
  BY <1>1 DEF Third, Second, First
<1>3. Drawn(s, ch) = s.rows
  BY DEF Drawn
<1>4. Draw(s, ch) = NextRow(s, s.rows)
  BY DrawCases
<1>5. CASE s.at[1] < ROWS - 1
  <2>1. ~ (Third(s, ch)[1] >= ROWS)
    BY <1>0, <1>2, <1>5
  <2>2. NextRow(s, s.rows) = [rows |-> s.rows, at |-> <<s.at[1] + 1, 0>>]
    BY <1>5 DEF NextRow
  <2> QED BY <1>2, <1>3, <1>4, <2>1, <2>2
<1>6. CASE s.at[1] = ROWS - 1
  <2>1. Third(s, ch)[1] >= ROWS
    BY <1>0, <1>2, <1>6
  <2>2. NextRow(s, s.rows) = [rows |-> Scrolled(s.rows), at |-> <<ROWS - 1, 0>>]
    BY <1>0, <1>6 DEF NextRow, Scrolled
  <2> QED BY <1>2, <1>3, <1>4, <2>1, <2>2
<1> QED BY <1>0, <1>5, <1>6

LEMMA LetterDraw ==
  ASSUME NEW s, s # Unknown, IsScreen(s), NEW ch \in Letters
  PROVE  /\ Third(s, ch) = IF s.at[2] = COLS - 1 THEN <<s.at[1] + 1, 0>>
                           ELSE <<s.at[1], s.at[2] + 1>>
         /\ Draw(s, ch).rows =
              IF Third(s, ch)[1] >= ROWS THEN Scrolled(Drawn(s, ch)) ELSE Drawn(s, ch)
         /\ Draw(s, ch).at = IF Third(s, ch)[1] >= ROWS THEN <<ROWS - 1, 0>> ELSE Third(s, ch)
         /\ Third(s, ch)[1] >= ROWS => Third(s, ch)[2] = 0
<1>0. s.at[1] \in Nat /\ s.at[1] <= ROWS - 1 /\ ROWS \in Nat
  BY ScreenNumbers
<1>1. ~Starts(s, ch) /\ (Ends(s, ch) <=> s.at[2] = COLS - 1) /\ ch # NEWLINE /\ ch # BACKSPACE
  BY CharFacts DEF Ends, Starts
<1>2. Third(s, ch) = IF s.at[2] = COLS - 1 THEN <<s.at[1] + 1, 0>>
                     ELSE <<s.at[1], s.at[2] + 1>>
  BY <1>1 DEF Third, Second, First
<1>3. Drawn(s, ch) = [s.rows EXCEPT ![s.at[1]][s.at[2]] = ch]
  BY <1>1 DEF Drawn
<1> DEFINE new == Drawn(s, ch)
<1>4. Draw(s, ch) = IF s.at[2] = COLS - 1 THEN NextRow(s, new)
                    ELSE [rows |-> new, at |-> <<s.at[1], s.at[2] + 1>>]
  BY <1>3, DrawCases DEF Show
<1> HIDE DEF new
<1>5. CASE s.at[2] # COLS - 1
  <2>1. ~ (Third(s, ch)[1] >= ROWS) /\ Third(s, ch) = <<s.at[1], s.at[2] + 1>>
    BY <1>0, <1>2, <1>5
  <2>2. Draw(s, ch) = [rows |-> new, at |-> <<s.at[1], s.at[2] + 1>>]
    BY <1>4, <1>5
  <2> QED BY <1>2, <2>1, <2>2 DEF new
<1>6. CASE s.at[2] = COLS - 1 /\ s.at[1] < ROWS - 1
  <2>1. ~ (Third(s, ch)[1] >= ROWS) /\ Third(s, ch) = <<s.at[1] + 1, 0>>
    BY <1>0, <1>2, <1>6
  <2>2. Draw(s, ch) = [rows |-> new, at |-> <<s.at[1] + 1, 0>>]
    BY <1>4, <1>6 DEF NextRow
  <2> QED BY <1>2, <2>1, <2>2 DEF new
<1>7. CASE s.at[2] = COLS - 1 /\ s.at[1] = ROWS - 1
  <2>1. Third(s, ch)[1] >= ROWS /\ Third(s, ch)[2] = 0
    BY <1>0, <1>2, <1>7
  <2>2. NextRow(s, new) = [rows |-> Scrolled(new), at |-> <<ROWS - 1, 0>>]
    BY <1>0, <1>7 DEF NextRow, Scrolled
  <2>3. Draw(s, ch) = [rows |-> Scrolled(new), at |-> <<ROWS - 1, 0>>]
    BY <1>4, <1>7, <2>2
  <2> QED BY <1>2, <2>1, <2>3 DEF new
<1> QED BY <1>0, <1>5, <1>6, <1>7

\* The cell in front of the cursor.
Before(s) == IF s.at[2] > 0 THEN <<s.at[1], s.at[2] - 1>> ELSE <<s.at[1] - 1, COLS - 1>>

LEMMA BackDraw ==
  ASSUME NEW s, s # Unknown, IsScreen(s), NEW ch, ch = BACKSPACE, Draw(s, ch) # Unknown
  PROVE  /\ Third(s, ch) = Before(s)
         /\ Before(s)[1] \in Row /\ Before(s)[2] \in Col
         /\ Drawn(s, ch) = [s.rows EXCEPT ![Before(s)[1]][Before(s)[2]] = BLANK]
         /\ Draw(s, ch).rows = Drawn(s, ch) /\ Draw(s, ch).at = Before(s)
         /\ s.at[1] * COLS + (s.at[2] - 1) = Before(s)[1] * COLS + Before(s)[2]
         /\ s.at # <<0, 0>>
<1>0. /\ s.at[1] \in Nat /\ s.at[2] \in Nat /\ s.at[1] <= ROWS - 1 /\ s.at[2] <= COLS - 1
      /\ ROWS \in Nat /\ COLS \in Nat /\ ROWS >= 2 /\ COLS >= 1
  BY ScreenNumbers
<1>1. /\ ~Ends(s, ch) /\ (Starts(s, ch) <=> s.at[2] = 0) /\ ch # NEWLINE
  BY CharFacts DEF Ends, Starts
<1>2. Draw(s, ch) = Erase(s)
  BY DrawCases
<1>3. s.at # <<0, 0>>
  BY <1>2 DEF Erase
<1>4. s.at[1] # 0 \/ s.at[2] # 0
  BY <1>3 DEF IsScreen
<1>5. Third(s, ch) = Before(s)
  <2>1. CASE s.at[2] = 0
    BY <1>1, <2>1 DEF Third, Before
  <2>2. CASE s.at[2] # 0
    <3>1. s.at[2] > 0
      BY <1>0, <2>2
    <3>2. Second(s, ch) = <<s.at[1], s.at[2] - 1>>
      BY <1>1 DEF Second, First
    <3> QED BY <1>1, <2>2, <3>1, <3>2 DEF Third, Before
  <2> QED BY <2>1, <2>2
<1>6. Erase(s) = [rows |-> [s.rows EXCEPT ![Before(s)[1]][Before(s)[2]] = BLANK], at |-> Before(s)]
  BY <1>3 DEF Erase, Before
<1>7. Drawn(s, ch) = [s.rows EXCEPT ![Before(s)[1]][Before(s)[2]] = BLANK]
  BY <1>1, <1>6 DEF Drawn
<1>8. Before(s)[1] \in Row /\ Before(s)[2] \in Col
  <2>1. CASE s.at[2] > 0
    BY <1>0, <2>1 DEF Before, Row, Col
  <2>2. CASE ~ (s.at[2] > 0)
    BY <1>0, <1>4, <2>2 DEF Before, Row, Col
  <2> QED BY <2>1, <2>2
<1>9. s.at[1] * COLS + (s.at[2] - 1) = Before(s)[1] * COLS + Before(s)[2]
  <2>1. CASE s.at[2] > 0
    BY <1>0, <2>1 DEF Before
  <2>2. CASE ~ (s.at[2] > 0)
    <3>1. s.at[2] = 0 /\ Before(s)[1] = s.at[1] - 1 /\ Before(s)[2] = COLS - 1
      BY <1>0, <2>2 DEF Before
    <3>2. (s.at[1] - 1) * COLS = s.at[1] * COLS - COLS /\ s.at[1] * COLS \in Int
      BY <1>0
    <3>3. ASSUME NEW a \in Int PROVE a + (0 - 1) = (a - COLS) + (COLS - 1)
      BY <1>0
    <3> QED BY <3>1, <3>2, <3>3
  <2> QED BY <2>1, <2>2
<1> QED BY <1>2, <1>3, <1>5, <1>6, <1>7, <1>8, <1>9

\* The three tests, one after the other.
LEMMA Positions ==
  ASSUME NEW s, s # Unknown, IsScreen(s), NEW ch \in Chars, Draw(s, ch) # Unknown
  PROVE  /\ First(s, ch)[2] >= COLS => Ends(s, ch) /\ First(s, ch)[1] = s.at[1]
         /\ ~ (First(s, ch)[2] >= COLS) => Second(s, ch) = First(s, ch)
         /\ Second(s, ch)[2] < 0 => Starts(s, ch) /\ Second(s, ch)[1] = s.at[1]
         /\ ~ (Second(s, ch)[2] < 0) => Third(s, ch) = Second(s, ch)
         /\ Third(s, ch)[1] >= ROWS =>
              /\ Third(s, ch)[1] = ROWS
              /\ Draw(s, ch).at = <<ROWS - 1, Third(s, ch)[2]>>
              /\ Draw(s, ch).rows = Scrolled(Drawn(s, ch))
         /\ ~ (Third(s, ch)[1] >= ROWS) =>
              Draw(s, ch).at = Third(s, ch) /\ Draw(s, ch).rows = Drawn(s, ch)
<1>0. /\ s.at[1] \in Nat /\ s.at[2] \in Nat /\ s.at[1] <= ROWS - 1 /\ s.at[2] <= COLS - 1
      /\ ROWS \in Nat /\ COLS \in Nat /\ ROWS >= 2 /\ COLS >= 1
  BY ScreenNumbers
<1>1. CASE ch = NEWLINE
  <2>1. First(s, ch) = <<s.at[1] + 1, 0>> /\ ~Ends(s, ch) /\ ~Starts(s, ch)
    BY <1>1, CharFacts DEF First, Ends, Starts
  <2>2. Second(s, ch) = First(s, ch) /\ Third(s, ch) = First(s, ch)
    BY <2>1 DEF Second, Third
  <2>3. /\ Drawn(s, ch) = s.rows
        /\ Draw(s, ch).rows = IF Third(s, ch)[1] >= ROWS THEN Scrolled(s.rows) ELSE s.rows
        /\ Draw(s, ch).at = IF Third(s, ch)[1] >= ROWS THEN <<ROWS - 1, 0>> ELSE Third(s, ch)
    BY <1>1, NewlineDraw
  <2>4. Third(s, ch)[1] >= ROWS => Third(s, ch)[1] = ROWS /\ Third(s, ch)[2] = 0
    BY <1>0, <2>1, <2>2
  <2>5. ~ (First(s, ch)[2] >= COLS) /\ ~ (Second(s, ch)[2] < 0)
    BY <1>0, <2>1, <2>2
  <2> QED BY <2>2, <2>3, <2>4, <2>5
<1>2. CASE ch = BACKSPACE
  <2>1. First(s, ch) = <<s.at[1], s.at[2] - 1>> /\ ~Ends(s, ch) /\ (Starts(s, ch) <=> s.at[2] = 0)
    BY <1>2, CharFacts DEF First, Ends, Starts
  <2>2. Second(s, ch) = First(s, ch)
    BY <2>1 DEF Second
  <2>3. /\ Third(s, ch) = Before(s) /\ Before(s)[1] \in Row
        /\ Draw(s, ch).rows = Drawn(s, ch) /\ Draw(s, ch).at = Before(s)
    BY <1>2, BackDraw
  <2>4. ~ (Third(s, ch)[1] >= ROWS)
    BY <1>0, <2>3 DEF Row
  <2>5. ~ (First(s, ch)[2] >= COLS) /\ (Second(s, ch)[2] < 0 => s.at[2] = 0)
    BY <1>0, <2>1, <2>2
  <2>6. ~ (Second(s, ch)[2] < 0) => ~Starts(s, ch)
    BY <1>0, <2>1, <2>2
  <2>7. ~ (Second(s, ch)[2] < 0) => Third(s, ch) = Second(s, ch)
    BY <2>6 DEF Third
  <2> QED BY <2>1, <2>2, <2>3, <2>4, <2>5, <2>7
<1>3. CASE ch \in Letters
  <2>1. First(s, ch) = <<s.at[1], s.at[2] + 1>> /\ ~Starts(s, ch)
        /\ (Ends(s, ch) <=> s.at[2] = COLS - 1)
    BY <1>3, CharFacts DEF First, Ends, Starts
  <2>2. Third(s, ch) = Second(s, ch)
    BY <2>1 DEF Third
  <2>3. /\ Third(s, ch) = IF s.at[2] = COLS - 1 THEN <<s.at[1] + 1, 0>>
                          ELSE <<s.at[1], s.at[2] + 1>>
        /\ Draw(s, ch).rows =
             IF Third(s, ch)[1] >= ROWS THEN Scrolled(Drawn(s, ch)) ELSE Drawn(s, ch)
        /\ Draw(s, ch).at = IF Third(s, ch)[1] >= ROWS THEN <<ROWS - 1, 0>> ELSE Third(s, ch)
        /\ Third(s, ch)[1] >= ROWS => Third(s, ch)[2] = 0
    BY <1>3, LetterDraw
  <2>4. Third(s, ch)[1] >= ROWS => Third(s, ch)[1] = ROWS
    BY <1>0, <2>3
  <2>5. First(s, ch)[2] >= COLS <=> s.at[2] = COLS - 1
    BY <1>0, <2>1
  <2>6. ~ (First(s, ch)[2] >= COLS) => Second(s, ch) = First(s, ch)
    BY <2>1, <2>5 DEF Second
  <2>7. ~ (Second(s, ch)[2] < 0)
    <3>1. CASE s.at[2] = COLS - 1
      BY <1>0, <2>2, <2>3, <3>1
    <3>2. CASE s.at[2] # COLS - 1
      BY <1>0, <2>2, <2>3, <3>2
    <3> QED BY <3>1, <3>2
  <2> QED BY <2>1, <2>2, <2>3, <2>4, <2>5, <2>6, <2>7
<1> QED BY <1>1, <1>2, <1>3, CharFacts

LEMMA DrawnRows ==
  ASSUME NEW s, s # Unknown, IsScreen(s), NEW ch \in Chars, Draw(s, ch) # Unknown
  PROVE  /\ Drawn(s, ch) \in [Row -> [Col -> Letters \union {BLANK}]]
         /\ IsScreen(Draw(s, ch))
<1> DEFINE V == Letters \union {BLANK}
<1>0. /\ s.at[1] \in Row /\ s.at[2] \in Col /\ s.rows \in [Row -> [Col -> V]]
  BY DEF IsScreen
<1>1. ASSUME NEW r \in Row, NEW i \in Col, NEW v \in V
      PROVE  [s.rows EXCEPT ![r][i] = v] \in [Row -> [Col -> V]]
  BY <1>0, <1>1
<1>2. Drawn(s, ch) \in [Row -> [Col -> V]]
  <2>1. CASE ch = NEWLINE
    BY <1>0, <2>1 DEF Drawn
  <2>2. CASE ch = BACKSPACE
    <3>1. /\ Before(s)[1] \in Row /\ Before(s)[2] \in Col
          /\ Drawn(s, ch) = [s.rows EXCEPT ![Before(s)[1]][Before(s)[2]] = BLANK]
      BY <2>2, BackDraw
    <3> QED BY <1>1, <3>1
  <2>3. CASE ch \in Letters
    BY <1>0, <1>1, <2>3, CharFacts DEF Drawn
  <2> QED BY <2>1, <2>2, <2>3, CharFacts
<1>3. Scrolled(Drawn(s, ch)) \in [Row -> [Col -> V]]
  <2>1. BlankRow \in [Col -> V]
    BY DEF BlankRow
  <2>2. ASSUME NEW r \in Row, r # ROWS - 1 PROVE Drawn(s, ch)[r + 1] \in [Col -> V]
    <3>1. r + 1 \in Row
      BY <2>2, Sizes DEF Row
    <3> QED BY <1>2, <3>1
  <2> QED BY <2>1, <2>2 DEF Scrolled
<1>4. Draw(s, ch).rows \in [Row -> [Col -> V]]
  BY <1>2, <1>3, Positions
<1>5. /\ Draw(s, ch).at = <<Draw(s, ch).at[1], Draw(s, ch).at[2]>>
      /\ Draw(s, ch).at[1] \in Row /\ Draw(s, ch).at[2] \in Col
  <2>0. /\ s.at[1] \in Nat /\ s.at[2] \in Nat /\ s.at[1] <= ROWS - 1 /\ s.at[2] <= COLS - 1
        /\ ROWS \in Nat /\ COLS \in Nat /\ ROWS >= 2 /\ COLS >= 1
    BY ScreenNumbers
  <2>1. ASSUME NEW r \in Row, NEW i \in Col, Draw(s, ch).at = <<r, i>>
        PROVE  /\ Draw(s, ch).at = <<Draw(s, ch).at[1], Draw(s, ch).at[2]>>
               /\ Draw(s, ch).at[1] \in Row /\ Draw(s, ch).at[2] \in Col
    BY <2>1
  <2>2. ROWS - 1 \in Row /\ 0 \in Col
    BY <2>0 DEF Row, Col
  <2>3. CASE ch = NEWLINE
    <3>1. /\ Third(s, ch) = <<s.at[1] + 1, 0>>
          /\ Draw(s, ch).at = IF Third(s, ch)[1] >= ROWS THEN <<ROWS - 1, 0>> ELSE Third(s, ch)
      BY <2>3, NewlineDraw
    <3>2. CASE Third(s, ch)[1] >= ROWS
      BY <2>1, <2>2, <3>1, <3>2
    <3>3. CASE ~ (Third(s, ch)[1] >= ROWS)
      <4>1. s.at[1] + 1 \in Row
        BY <2>0, <3>1, <3>3 DEF Row
      <4> QED BY <2>1, <2>2, <3>1, <3>3, <4>1
    <3> QED BY <3>2, <3>3
  <2>4. CASE ch = BACKSPACE
    <3>1. Before(s)[1] \in Row /\ Before(s)[2] \in Col /\ Draw(s, ch).at = Before(s)
      BY <2>4, BackDraw
    <3>2. Before(s) = <<Before(s)[1], Before(s)[2]>>
      BY DEF Before
    <3> QED BY <2>1, <3>1, <3>2
  <2>5. CASE ch \in Letters
    <3>1. /\ Third(s, ch) = IF s.at[2] = COLS - 1 THEN <<s.at[1] + 1, 0>>
                            ELSE <<s.at[1], s.at[2] + 1>>
          /\ Draw(s, ch).at = IF Third(s, ch)[1] >= ROWS THEN <<ROWS - 1, 0>> ELSE Third(s, ch)
      BY <2>5, LetterDraw
    <3>2. CASE Third(s, ch)[1] >= ROWS
      BY <2>1, <2>2, <3>1, <3>2
    <3>3. CASE ~ (Third(s, ch)[1] >= ROWS) /\ s.at[2] = COLS - 1
      <4>1. s.at[1] + 1 \in Row
        BY <2>0, <3>1, <3>3 DEF Row
      <4> QED BY <2>1, <2>2, <3>1, <3>3, <4>1
    <3>4. CASE ~ (Third(s, ch)[1] >= ROWS) /\ s.at[2] # COLS - 1
      <4>1. s.at[1] \in Row /\ s.at[2] + 1 \in Col
        BY <2>0, <3>4 DEF Row, Col
      <4> QED BY <2>1, <3>1, <3>4, <4>1
    <3> QED BY <3>2, <3>3, <3>4
  <2> QED BY <2>3, <2>4, <2>5, CharFacts
<1> QED BY <1>2, <1>4, <1>5 DEF IsScreen

-----------------------------------------------------------------------------
(* One call at a time draws what a terminal shows.                          *)

\* How far the call for ch of task t is, with s on the screen when it began.
Goes(t, s, ch) ==
  /\ s # Unknown /\ IsScreen(s) /\ ch \in Chars /\ Draw(s, ch) # Unknown
  /\ Stage(code[t], reg[t], s, ch)

LEMMA CursorAfter ==
  ASSUME TypeOK, NEW t \in Tasks, NEW c, NEW nx, NEW ny, NEW v, Cursor(t, c, nx, ny, v)
  PROVE  code'[t] = c /\ reg'[t] = v /\ x' = nx /\ y' = ny
  BY CodeAfter, RegAfter DEF Cursor

LEMMA StageXMoves ==
  ASSUME TypeOK, NEW t \in Tasks, NEW s, NEW ch, Goes(t, s, ch), XMoves(t), buffer' = buffer
  PROVE  Stage(code[t], reg[t], s, ch)'
<1>1. ASSUME NEW c, NEW nx, NEW ny, NEW v, Cursor(t, c, nx, ny, v)
      PROVE  code'[t] = c /\ reg'[t] = v /\ x' = nx /\ y' = ny
  BY <1>1, CursorAfter
<1>2. \A rs : Shows(rs) => Shows(rs)'
  BY SameShows
<1>3. ch = NEWLINE \/ ch = BACKSPACE \/ ch \in Letters
  BY CharFacts DEF Goes
<1>4. CASE code[t] = L1 /\ Cursor(t, L2, x, y, x + 1)
  <2>1. ch \in Letters /\ At(s.at) /\ Shows(Drawn(s, ch))
    BY <1>4, Zenon DEF Goes, Stage
  <2>2. code'[t] = L2 /\ reg'[t] = s.at[2] + 1 /\ y' = s.at[1]
    BY <1>1, <1>4, <2>1 DEF At
  <2> QED BY <1>2, <2>1, <2>2, Apart DEF Stage
<1>5. CASE code[t] = L2 /\ Cursor(t, E0, reg[t], y, 0)
  <2>1. ch \in Letters /\ y = s.at[1] /\ reg[t] = s.at[2] + 1 /\ Shows(Drawn(s, ch))
    BY <1>5, Zenon DEF Goes, Stage
  <2>2. code'[t] = E0 /\ At(First(s, ch))'
    BY <1>1, <1>5, <2>1, CharFacts DEF At, First
  <2> QED BY <1>2, <2>1, <2>2, Apart DEF Stage
<1>6. CASE code[t] = B0 /\ Cursor(t, B1, x, y, x - 1)
  <2>1. ch = BACKSPACE /\ At(s.at) /\ Shows(s.rows)
    BY <1>6, Zenon DEF Goes, Stage
  <2>2. code'[t] = B1 /\ reg'[t] = s.at[2] - 1 /\ y' = s.at[1]
    BY <1>1, <1>6, <2>1 DEF At
  <2> QED BY <1>2, <2>1, <2>2, Apart DEF Stage
<1>7. CASE code[t] = B1 /\ Cursor(t, B2, reg[t], y, 0)
  <2>1. ch = BACKSPACE /\ y = s.at[1] /\ reg[t] = s.at[2] - 1 /\ Shows(s.rows)
    BY <1>7, Zenon DEF Goes, Stage
  <2>2. code'[t] = B2 /\ At(<<s.at[1], s.at[2] - 1>>)'
    BY <1>1, <1>7, <2>1 DEF At
  <2> QED BY <1>2, <2>1, <2>2, Apart DEF Stage
<1>8. CASE code[t] = N0 /\ Cursor(t, N1, 0, y, 0)
  <2>1. ch = NEWLINE /\ At(s.at) /\ Shows(s.rows)
    BY <1>8, Zenon DEF Goes, Stage
  <2>2. code'[t] = N1 /\ At(<<s.at[1], 0>>)'
    BY <1>1, <1>8, <2>1 DEF At
  <2> QED BY <1>2, <2>1, <2>2, Apart DEF Stage
<1>9. CASE code[t] = W0 /\ Cursor(t, W1, 0, y, 0)
  <2>1. Ends(s, ch) /\ y = s.at[1] /\ Shows(Drawn(s, ch))
    BY <1>9, Zenon DEF Goes, Stage
  <2>2. code'[t] = W1 /\ At(<<s.at[1], 0>>)'
    BY <1>1, <1>9, <2>1 DEF At
  <2> QED BY <1>2, <2>1, <2>2, Apart DEF Stage
<1>10. CASE code[t] = U2 /\ Cursor(t, E2, COLS - 1, y, 0)
  <2>1. Starts(s, ch) /\ y = s.at[1] - 1 /\ Shows(Drawn(s, ch))
    BY <1>10, Zenon DEF Goes, Stage
  <2>2. code'[t] = E2 /\ At(Third(s, ch))'
    BY <1>1, <1>10, <2>1 DEF At, Third
  <2> QED BY <1>2, <2>1, <2>2, Apart DEF Stage
<1> QED BY <1>4, <1>5, <1>6, <1>7, <1>8, <1>9, <1>10 DEF XMoves

LEMMA StageYMoves ==
  ASSUME TypeOK, NEW t \in Tasks, NEW s, NEW ch, Goes(t, s, ch), YMoves(t), buffer' = buffer
  PROVE  Stage(code[t], reg[t], s, ch)'
<1>1. ASSUME NEW c, NEW nx, NEW ny, NEW v, Cursor(t, c, nx, ny, v)
      PROVE  code'[t] = c /\ reg'[t] = v /\ x' = nx /\ y' = ny
  BY <1>1, CursorAfter
<1>2. \A rs : Shows(rs) => Shows(rs)'
  BY SameShows
<1>3. /\ Third(s, ch)[1] = ROWS => Draw(s, ch).at = <<ROWS - 1, Third(s, ch)[2]>>
      /\ ROWS \in Nat
  BY Positions, Sizes DEF Goes
<1>4. CASE code[t] = N1 /\ Cursor(t, N2, x, y, y + 1)
  <2>1. ch = NEWLINE /\ At(<<s.at[1], 0>>) /\ Shows(s.rows)
    BY <1>4, Zenon DEF Goes, Stage
  <2>2. code'[t] = N2 /\ x' = 0 /\ reg'[t] = s.at[1] + 1
    BY <1>1, <1>4, <2>1 DEF At
  <2> QED BY <1>2, <2>1, <2>2, Apart DEF Stage
<1>5. CASE code[t] = W1 /\ Cursor(t, W2, x, y, y + 1)
  <2>1. Ends(s, ch) /\ At(<<s.at[1], 0>>) /\ Shows(Drawn(s, ch))
    BY <1>5, Zenon DEF Goes, Stage
  <2>2. code'[t] = W2 /\ x' = 0 /\ reg'[t] = s.at[1] + 1
    BY <1>1, <1>5, <2>1 DEF At
  <2> QED BY <1>2, <2>1, <2>2, Apart DEF Stage
<1>6. CASE code[t] = U0 /\ Cursor(t, U1, x, y, y - 1)
  <2>1. Starts(s, ch) /\ y = s.at[1] /\ Shows(Drawn(s, ch))
    BY <1>6, Zenon DEF Goes, Stage
  <2>2. code'[t] = U1 /\ reg'[t] = s.at[1] - 1
    BY <1>1, <1>6, <2>1
  <2> QED BY <1>2, <2>1, <2>2, Apart DEF Stage
<1>7. CASE code[t] = S1 /\ Cursor(t, S2, x, y, y - 1)
  <2>1. Third(s, ch)[1] = ROWS /\ At(Third(s, ch)) /\ Shows(Draw(s, ch).rows)
    BY <1>7, Zenon DEF Goes, Stage
  <2>2. code'[t] = S2 /\ x' = Third(s, ch)[2] /\ reg'[t] = ROWS - 1
    BY <1>1, <1>7, <2>1 DEF At
  <2> QED BY <1>2, <2>1, <2>2, Apart DEF Stage
<1>8. CASE code[t] = N2 /\ Cursor(t, E0, x, reg[t], 0)
  <2>1. ch = NEWLINE /\ x = 0 /\ reg[t] = s.at[1] + 1 /\ Shows(s.rows)
    BY <1>8, Zenon DEF Goes, Stage
  <2>2. code'[t] = E0 /\ At(First(s, ch))' /\ Drawn(s, ch) = s.rows
    BY <1>1, <1>8, <2>1 DEF At, First, Drawn
  <2> QED BY <1>2, <2>1, <2>2, Apart DEF Stage
<1>9. CASE code[t] = W2 /\ Cursor(t, E1, x, reg[t], 0)
  <2>1. Ends(s, ch) /\ x = 0 /\ reg[t] = s.at[1] + 1 /\ Shows(Drawn(s, ch))
    BY <1>9, Zenon DEF Goes, Stage
  <2>2. code'[t] = E1 /\ At(Second(s, ch))'
    BY <1>1, <1>9, <2>1 DEF At, Second
  <2> QED BY <1>2, <2>1, <2>2, Apart DEF Stage
<1>10. CASE code[t] = U1 /\ Cursor(t, U2, x, reg[t], 0)
  <2>1. Starts(s, ch) /\ reg[t] = s.at[1] - 1 /\ Shows(Drawn(s, ch))
    BY <1>10, Zenon DEF Goes, Stage
  <2>2. code'[t] = U2 /\ y' = s.at[1] - 1
    BY <1>1, <1>10, <2>1
  <2> QED BY <1>2, <2>1, <2>2, Apart DEF Stage
<1>11. CASE code[t] = S2 /\ Cursor(t, E3, x, reg[t], 0)
  <2>1. /\ Third(s, ch)[1] = ROWS /\ x = Third(s, ch)[2] /\ reg[t] = ROWS - 1
        /\ Shows(Draw(s, ch).rows)
    BY <1>11, Zenon DEF Goes, Stage
  <2>2. code'[t] = E3 /\ At(Draw(s, ch).at)'
    BY <1>1, <1>11, <2>1, <1>3 DEF At
  <2> QED BY <1>2, <2>1, <2>2, Apart DEF Stage
<1> QED BY <1>4, <1>5, <1>6, <1>7, <1>8, <1>9, <1>10, <1>11 DEF YMoves

LEMMA StageTests ==
  ASSUME TypeOK, NEW t \in Tasks, NEW s, NEW ch, Goes(t, s, ch), TestMoves(t), buffer' = buffer
  PROVE  Stage(code[t], reg[t], s, ch)'
<1>1. ASSUME NEW c, NEW nx, NEW ny, NEW v, Cursor(t, c, nx, ny, v)
      PROVE  code'[t] = c /\ reg'[t] = v /\ x' = nx /\ y' = ny
  BY <1>1, CursorAfter
<1>2. \A rs : Shows(rs) => Shows(rs)'
  BY SameShows
<1>3. /\ First(s, ch)[2] >= COLS => Ends(s, ch) /\ First(s, ch)[1] = s.at[1]
      /\ ~ (First(s, ch)[2] >= COLS) => Second(s, ch) = First(s, ch)
      /\ Second(s, ch)[2] < 0 => Starts(s, ch) /\ Second(s, ch)[1] = s.at[1]
      /\ ~ (Second(s, ch)[2] < 0) => Third(s, ch) = Second(s, ch)
      /\ Third(s, ch)[1] >= ROWS => Third(s, ch)[1] = ROWS
      /\ ~ (Third(s, ch)[1] >= ROWS) =>
           Draw(s, ch).at = Third(s, ch) /\ Draw(s, ch).rows = Drawn(s, ch)
  BY Positions DEF Goes
<1>4. CASE code[t] = E0 /\ x >= COLS /\ Cursor(t, W0, x, y, reg[t])
  <2>1. At(First(s, ch)) /\ Shows(Drawn(s, ch))
    BY <1>4, Zenon DEF Goes, Stage
  <2>2. code'[t] = W0 /\ Ends(s, ch) /\ y' = s.at[1]
    BY <1>1, <1>3, <1>4, <2>1 DEF At
  <2> QED BY <1>2, <2>1, <2>2, Apart DEF Stage
<1>5. CASE code[t] = E0 /\ ~ (x >= COLS) /\ Cursor(t, E1, x, y, reg[t])
  <2>1. At(First(s, ch)) /\ Shows(Drawn(s, ch))
    BY <1>5, Zenon DEF Goes, Stage
  <2>2. code'[t] = E1 /\ At(Second(s, ch))'
    BY <1>1, <1>3, <1>5, <2>1 DEF At
  <2> QED BY <1>2, <2>1, <2>2, Apart DEF Stage
<1>6. CASE code[t] = E1 /\ x < 0 /\ Cursor(t, U0, x, y, reg[t])
  <2>1. At(Second(s, ch)) /\ Shows(Drawn(s, ch))
    BY <1>6, Zenon DEF Goes, Stage
  <2>2. code'[t] = U0 /\ Starts(s, ch) /\ y' = s.at[1]
    BY <1>1, <1>3, <1>6, <2>1 DEF At
  <2> QED BY <1>2, <2>1, <2>2, Apart DEF Stage
<1>7. CASE code[t] = E1 /\ ~ (x < 0) /\ Cursor(t, E2, x, y, reg[t])
  <2>1. At(Second(s, ch)) /\ Shows(Drawn(s, ch))
    BY <1>7, Zenon DEF Goes, Stage
  <2>2. code'[t] = E2 /\ At(Third(s, ch))'
    BY <1>1, <1>3, <1>7, <2>1 DEF At
  <2> QED BY <1>2, <2>1, <2>2, Apart DEF Stage
<1>8. CASE code[t] = E2 /\ y >= ROWS /\ Cursor(t, S0, x, y, reg[t])
  <2>1. At(Third(s, ch)) /\ Shows(Drawn(s, ch))
    BY <1>8, Zenon DEF Goes, Stage
  <2>2. code'[t] = S0 /\ Third(s, ch)[1] = ROWS /\ At(Third(s, ch))'
    BY <1>1, <1>3, <1>8, <2>1 DEF At
  <2> QED BY <1>2, <2>1, <2>2, Apart DEF Stage
<1>9. CASE code[t] = E2 /\ ~ (y >= ROWS) /\ Cursor(t, E3, x, y, reg[t])
  <2>1. At(Third(s, ch)) /\ Shows(Drawn(s, ch))
    BY <1>9, Zenon DEF Goes, Stage
  <2>2. code'[t] = E3 /\ At(Draw(s, ch).at)' /\ Draw(s, ch).rows = Drawn(s, ch)
    BY <1>1, <1>3, <1>9, <2>1 DEF At
  <2> QED BY <1>2, <2>1, <2>2, Apart DEF Stage
<1> QED BY <1>4, <1>5, <1>6, <1>7, <1>8, <1>9 DEF TestMoves

LEMMA StageScroll ==
  ASSUME TypeOK, NEW t \in Tasks, NEW s, NEW ch, Goes(t, s, ch), memmove(t)
  PROVE  Stage(code[t], reg[t], s, ch)'
<1>1. code[t] = S0 /\ Cursor(t, S1, x, y, reg[t])
  BY ScrollActionMoves DEF ScrollMoves
<1>2. code'[t] = S1 /\ x' = x /\ y' = y
  BY <1>1, CursorAfter
<1>3. Third(s, ch)[1] = ROWS /\ At(Third(s, ch)) /\ Shows(Drawn(s, ch))
  BY <1>1, Zenon DEF Goes, Stage
<1>4. Draw(s, ch).rows = Scrolled(Drawn(s, ch))
  <2>1. Third(s, ch)[1] >= ROWS
    BY <1>3, Sizes
  <2> QED BY <2>1, Positions DEF Goes
<1>5. Shows(Scrolled(Drawn(s, ch)))'
  BY <1>3, ScrollShows DEF memmove
<1>6. Shows(Draw(s, ch).rows)' /\ At(Third(s, ch))'
  BY <1>2, <1>3, <1>4, <1>5 DEF At
<1> QED BY <1>2, <1>3, <1>6, Apart DEF Stage

LEMMA StagePut ==
  ASSUME TypeOK, NEW t \in Tasks, NEW s, NEW ch, ch = char[t], Goes(t, s, ch), BUF_PUTC(t)
  PROVE  Stage(code[t], reg[t], s, ch)' /\ VGA_TEXT_ADDR \in Memory
<1>1. s # Unknown /\ IsScreen(s) /\ ch \in Chars /\ Draw(s, ch) # Unknown
  BY DEF Goes
<1>2. /\ s.at[1] \in Row /\ s.at[2] \in Col
      /\ s.rows \in [Row -> [Col -> Letters \union {BLANK}]]
  BY <1>1 DEF IsScreen
<1>3. CASE code[t] = L0 /\ Cursor(t, L1, x, y, reg[t])
  <2>1. ch \in Letters /\ At(s.at) /\ Shows(s.rows)
    BY <1>3, Zenon DEF Goes, Stage
  <2>2. code'[t] = L1 /\ At(s.at)'
    BY <1>3, <2>1, CursorAfter DEF At
  <2>3. VGA_TEXT_ADDR = s.at[1] * COLS + s.at[2]
    BY <2>1 DEF At, VGA_TEXT_ADDR
  <2>4. ch # BACKSPACE /\ Drawn(s, ch) = [s.rows EXCEPT ![s.at[1]][s.at[2]] = ch]
    BY <2>1, CharFacts DEF Drawn
  <2>5. buffer' = [k \in Memory |-> IF k = s.at[1] * COLS + s.at[2] THEN ch ELSE buffer[k]]
    BY <2>3, <2>4 DEF BUF_PUTC
  <2>6. Shows(Drawn(s, ch))'
    <3>1. Shows([s.rows EXCEPT ![s.at[1]][s.at[2]] = ch])'
      BY <1>2, <2>1, <2>5, PutShows, Zenon
    <3> QED BY <2>4, <3>1, Zenon
  <2>7. VGA_TEXT_ADDR \in Memory
    BY <1>2, <2>3, Cells
  <2> QED BY <2>1, <2>2, <2>6, <2>7, Apart DEF Stage
<1>4. CASE code[t] = B2 /\ Cursor(t, E0, x, y, reg[t])
  <2>1. ch = BACKSPACE /\ At(<<s.at[1], s.at[2] - 1>>) /\ Shows(s.rows)
    BY <1>4, Zenon DEF Goes, Stage
  <2>2. code'[t] = E0 /\ At(First(s, ch))'
    BY <1>4, <2>1, CursorAfter, CharFacts DEF At, First
  <2>3. /\ Before(s)[1] \in Row /\ Before(s)[2] \in Col
        /\ Drawn(s, ch) = [s.rows EXCEPT ![Before(s)[1]][Before(s)[2]] = BLANK]
        /\ s.at[1] * COLS + (s.at[2] - 1) = Before(s)[1] * COLS + Before(s)[2]
    BY <1>1, <2>1, BackDraw
  <2>4. VGA_TEXT_ADDR = Before(s)[1] * COLS + Before(s)[2]
    BY <2>1, <2>3 DEF At, VGA_TEXT_ADDR
  <2>5. buffer' = [k \in Memory |->
                     IF k = Before(s)[1] * COLS + Before(s)[2] THEN BLANK ELSE buffer[k]]
    BY <2>1, <2>4 DEF BUF_PUTC
  <2>6. Shows(Drawn(s, ch))'
    <3>1. Shows([s.rows EXCEPT ![Before(s)[1]][Before(s)[2]] = BLANK])'
      BY <1>2, <2>1, <2>3, <2>5, PutShows, Zenon
    <3> QED BY <2>3, <3>1, Zenon
  <2>7. VGA_TEXT_ADDR \in Memory
    BY <2>3, <2>4, Cells
  <2> QED BY <2>2, <2>6, <2>7, Apart DEF Stage
<1> QED BY <1>3, <1>4, PutActionMoves DEF PutMoves

\* A step of a call that does not end.
LEMMA StageStep ==
  ASSUME TypeOK, NEW t \in Tasks, NEW s, NEW ch, ch = char[t], Goes(t, s, ch),
         XAction(t) \/ YAction(t) \/ TestAction(t) \/ BUF_PUTC(t) \/ memmove(t)
  PROVE  Stage(code[t], reg[t], s, ch)'
<1>1. CASE XAction(t) \/ YAction(t) \/ TestAction(t)
  <2>1. buffer' = buffer
    BY <1>1, CursorActions
  <2> QED BY <1>1, <2>1, XActionMoves, YActionMoves, TestActionMoves, StageXMoves, StageYMoves,
             StageTests
<1>2. CASE BUF_PUTC(t)
  BY <1>2, StagePut
<1>3. CASE memmove(t)
  BY <1>3, StageScroll
<1> QED BY <1>1, <1>2, <1>3

\* Such a step is one of a task that has more to do.
LEMMA StillBusy ==
  ASSUME TypeOK, NEW t \in Tasks,
         XAction(t) \/ YAction(t) \/ TestAction(t) \/ BUF_PUTC(t) \/ memmove(t)
  PROVE  /\ code[t] # <<>> /\ code'[t] # <<>> /\ \A u \in Tasks : u # t => code'[u] = code[u]
         /\ char' = char /\ screen' = screen
<1>1. CASE XAction(t)
  <2>1. XMoves(t) /\ UNCHANGED <<buffer, char, len, history>>
    BY <1>1, XActionMoves, CursorActions
  <2> QED BY <2>1, CodeAfter, Nonempty DEF XMoves, Cursor, history
<1>2. CASE YAction(t)
  <2>1. YMoves(t) /\ UNCHANGED <<buffer, char, len, history>>
    BY <1>2, YActionMoves, CursorActions
  <2> QED BY <2>1, CodeAfter, Nonempty DEF YMoves, Cursor, history
<1>3. CASE TestAction(t)
  <2>1. TestMoves(t) /\ UNCHANGED <<buffer, char, len, history>>
    BY <1>3, TestActionMoves, CursorActions
  <2> QED BY <2>1, CodeAfter, Nonempty DEF TestMoves, Cursor, history
<1>4. CASE BUF_PUTC(t)
  <2>1. PutMoves(t) /\ char' = char /\ screen' = screen
    BY <1>4, PutActionMoves DEF BUF_PUTC
  <2> QED BY <2>1, CodeAfter, Nonempty DEF PutMoves, Cursor
<1>5. CASE memmove(t)
  <2>1. ScrollMoves(t) /\ char' = char /\ screen' = screen
    BY <1>5, ScrollActionMoves DEF memmove, history
  <2> QED BY <2>1, CodeAfter, Nonempty DEF ScrollMoves, Cursor
<1> QED BY <1>1, <1>2, <1>3, <1>4, <1>5

LEMMA ScreenWork ==
  ASSUME TypeOK, ScreenInv, NEW t \in Tasks,
         XAction(t) \/ YAction(t) \/ TestAction(t) \/ BUF_PUTC(t) \/ memmove(t)
  PROVE  ScreenInv'
<1> SUFFICES ASSUME screen' # Unknown
             PROVE  /\ IsScreen(screen)'
                    /\ (\A v, u \in Tasks : code[v] # <<>> /\ code[u] # <<>> => v = u)'
                    /\ (Quiet => At(screen.at) /\ Shows(screen.rows))'
                    /\ (\A u \in Tasks : code[u] # <<>> =>
                          Draw(screen, char[u]) = Unknown
                            \/ Stage(code[u], reg[u], screen, char[u]))'
  BY DEF ScreenInv
<1>1. /\ code[t] # <<>> /\ code'[t] # <<>> /\ \A u \in Tasks : u # t => code'[u] = code[u]
      /\ char' = char /\ screen' = screen
  BY StillBusy
<1>2. /\ screen # Unknown /\ IsScreen(screen)
      /\ \A v, u \in Tasks : code[v] # <<>> /\ code[u] # <<>> => v = u
      /\ Draw(screen, char[t]) = Unknown \/ Stage(code[t], reg[t], screen, char[t])
  BY <1>1 DEF ScreenInv
<1>3. \A u \in Tasks : u # t => code'[u] = <<>>
  BY <1>1, <1>2
<1>4. ~Quiet'
  BY <1>1 DEF Quiet, Idle
<1>5. ASSUME NEW s, s = screen, NEW ch, ch = char[t]
      PROVE  (Draw(screen, char[t]) = Unknown \/ Stage(code[t], reg[t], screen, char[t]))'
  <2>1. CASE Draw(s, ch) = Unknown
    BY <1>1, <1>5, <2>1
  <2>2. CASE Draw(s, ch) # Unknown
    <3>1. Goes(t, s, ch)
      BY <1>2, <1>5, <2>2 DEF Goes, TypeOK
    <3>2. Stage(code[t], reg[t], s, ch)'
      BY <1>5, <3>1, StageStep
    <3> QED BY <1>1, <1>5, <3>2
  <2> QED BY <2>1, <2>2
<1>6. IsScreen(screen)'
  BY <1>1, <1>2 DEF IsScreen
<1> QED BY <1>3, <1>4, <1>5, <1>6

LEMMA ScreenDone ==
  ASSUME TypeOK, ScreenInv, NEW t \in Tasks, done(t)
  PROVE  ScreenInv'
<1> SUFFICES ASSUME screen' # Unknown
             PROVE  /\ IsScreen(screen)'
                    /\ (\A v, u \in Tasks : code[v] # <<>> /\ code[u] # <<>> => v = u)'
                    /\ (Quiet => At(screen.at) /\ Shows(screen.rows))'
                    /\ (\A u \in Tasks : code[u] # <<>> =>
                          Draw(screen, char[u]) = Unknown
                            \/ Stage(code[u], reg[u], screen, char[u]))'
  BY DEF ScreenInv
<1>1. /\ code[t] = E3 /\ Cursor(t, <<>>, x, y, reg[t])
  BY DoneActionMoves DEF DoneMoves
<1>2. /\ code'[t] = <<>> /\ \A u \in Tasks : u # t => code'[u] = code[u]
      /\ x' = x /\ y' = y /\ buffer' = buffer /\ screen' = Draw(screen, char[t])
  BY <1>1, CodeAfter DEF Cursor, done
<1>3. screen # Unknown
  BY <1>2 DEF Draw
<1>4. /\ IsScreen(screen) /\ code[t] # <<>>
      /\ \A v, u \in Tasks : code[v] # <<>> /\ code[u] # <<>> => v = u
      /\ Draw(screen, char[t]) = Unknown \/ Stage(code[t], reg[t], screen, char[t])
  BY <1>1, <1>3, Nonempty DEF ScreenInv
<1>5. \A u \in Tasks : code'[u] = <<>>
  BY <1>2, <1>4
<1>6. ASSUME NEW s, s = screen, NEW ch, ch = char[t], NEW d, d = Draw(s, ch)
      PROVE  IsScreen(screen)' /\ At(screen.at)' /\ Shows(screen.rows)'
  <2>1. ch \in Chars /\ d # Unknown /\ screen' = d
    BY <1>2, <1>6 DEF TypeOK
  <2>2. IsScreen(d)
    BY <1>3, <1>4, <1>6, <2>1, DrawnRows
  <2>3. At(d.at) /\ Shows(d.rows)
    <3>1. Stage(E3, reg[t], s, ch)
      BY <1>1, <1>4, <1>6, <2>1
    <3>2. At(Draw(s, ch).at) /\ Shows(Draw(s, ch).rows)
      BY <3>1, Zenon DEF Stage
    <3> QED BY <1>6, <3>2
  <2>4. At(d.at)' /\ Shows(d.rows)'
    BY <1>2, <2>3 DEF At, Shows
  <2> QED BY <2>1, <2>2, <2>4 DEF IsScreen, At, Shows
<1> QED BY <1>5, <1>6

LEMMA ScreenBegins ==
  ASSUME TypeOK, ScreenInv, NEW t \in Tasks, NEW ch \in Chars, Begins(t, ch)
  PROVE  ScreenInv'
<1> SUFFICES ASSUME screen' # Unknown
             PROVE  /\ IsScreen(screen)'
                    /\ (\A v, u \in Tasks : code[v] # <<>> /\ code[u] # <<>> => v = u)'
                    /\ (Quiet => At(screen.at) /\ Shows(screen.rows))'
                    /\ (\A u \in Tasks : code[u] # <<>> =>
                          Draw(screen, char[u]) = Unknown
                            \/ Stage(code[u], reg[u], screen, char[u]))'
  BY DEF ScreenInv
<1>1. /\ code[t] = <<>> /\ Alone(t) /\ screen' = screen /\ Becomes(t, Putc(ch))
      /\ char' = [char EXCEPT ![t] = ch]
      /\ UNCHANGED <<buffer, x, y, reg>>
  BY DEF Begins
<1>2. Quiet /\ \A u \in Tasks : code[u] = <<>>
  BY <1>1 DEF Quiet, Alone, Idle
<1>3. IsScreen(screen) /\ At(screen.at) /\ Shows(screen.rows)
  BY <1>1, <1>2 DEF ScreenInv
<1>4. /\ code'[t] = Putc(ch) /\ char'[t] = ch
      /\ \A u \in Tasks : u # t => code'[u] = <<>>
  BY <1>1, <1>2, CodeAfter DEF TypeOK
<1>5. code'[t] # <<>>
  BY <1>4, Starting, Nonempty
<1>6. ASSUME NEW s, s = screen PROVE (Stage(code[t], reg[t], screen, char[t]))'
  <2>1. At(s.at)' /\ Shows(s.rows)'
    BY <1>1, <1>3, <1>6 DEF At, Shows
  <2>2. CASE ch = NEWLINE
    <3>1. code'[t] = N0
      BY <1>4, <2>2, Starting
    <3>2. Stage(code[t], reg[t], s, ch)'
      BY <2>1, <2>2, <3>1, Apart DEF Stage
    <3> QED BY <1>1, <1>4, <1>6, <3>2
  <2>3. CASE ch = BACKSPACE
    <3>1. code'[t] = B0
      BY <1>4, <2>3, Starting, CharFacts
    <3>2. Stage(code[t], reg[t], s, ch)'
      BY <2>1, <2>3, <3>1, Apart DEF Stage
    <3> QED BY <1>1, <1>4, <1>6, <3>2
  <2>4. CASE ch \in Letters
    <3>1. code'[t] = L0
      BY <1>4, <2>4, Starting, CharFacts
    <3>2. Stage(code[t], reg[t], s, ch)'
      BY <2>1, <2>4, <3>1, Apart DEF Stage
    <3> QED BY <1>1, <1>4, <1>6, <3>2
  <2> QED BY <2>2, <2>3, <2>4, CharFacts
<1>7. IsScreen(screen)'
  BY <1>1, <1>3 DEF IsScreen
<1>8. ~Quiet'
  BY <1>5 DEF Quiet, Idle
<1> QED BY <1>4, <1>6, <1>7, <1>8

LEMMA ScreenStep ==
  ASSUME TypeOK, ScreenInv, [Next]_vars
  PROVE  ScreenInv'
<1>1. CASE UNCHANGED vars
  <2> SUFFICES ASSUME screen # Unknown
               PROVE  /\ IsScreen(screen)'
                      /\ (\A t, u \in Tasks : code[t] # <<>> /\ code[u] # <<>> => t = u)'
                      /\ (Quiet => At(screen.at) /\ Shows(screen.rows))'
                      /\ (\A t \in Tasks : code[t] # <<>> =>
                            Draw(screen, char[t]) = Unknown
                              \/ Stage(code[t], reg[t], screen, char[t]))'
    BY <1>1 DEF vars, ScreenInv
  <2>1. /\ IsScreen(screen)'
        /\ (\A t, u \in Tasks : code[t] # <<>> /\ code[u] # <<>> => t = u)'
        /\ (Quiet => At(screen.at) /\ Shows(screen.rows))'
    BY <1>1 DEF vars, ScreenInv, IsScreen, Quiet, Idle, At, Shows
  <2>2. ASSUME NEW t \in Tasks, code[t] # <<>>
        PROVE  (Draw(screen, char[t]) = Unknown \/ Stage(code[t], reg[t], screen, char[t]))'
    <3>1. ASSUME NEW c, NEW v, NEW s, NEW ch, Stage(c, v, s, ch) PROVE Stage(c, v, s, ch)'
      <4>1. \A p : At(p)' <=> At(p)
        BY <1>1 DEF vars, At
      <4>2. \A rs : Shows(rs)' <=> Shows(rs)
        BY <1>1 DEF vars, Shows
      <4>3. x' = x /\ y' = y
        BY <1>1 DEF vars
      <4> QED BY <3>1, <4>1, <4>2, <4>3 DEF Stage
    <3>2. Draw(screen, char[t]) = Unknown \/ Stage(code[t], reg[t], screen, char[t])
      BY <2>2 DEF ScreenInv
    <3>3. screen' = screen /\ code' = code /\ reg' = reg /\ char' = char
      BY <1>1 DEF vars
    <3> QED BY <3>1, <3>2, <3>3
  <2> QED BY <1>1, <2>1, <2>2 DEF vars
<1>2. ASSUME NEW ch \in Chars, console_write(ch) PROVE ScreenInv'
  BY <1>2, Beginning, ScreenBegins DEF console_write, Tasks
<1>3. ASSUME NEW t \in Echoers, NEW ch \in Chars, echo(t, ch) PROVE ScreenInv'
  BY <1>3, Beginning, ScreenBegins DEF echo, Tasks
<1> QED BY <1>1, <1>2, <1>3, NextCases, ScreenWork, ScreenDone

LEMMA InitScreen == Init => ScreenInv
<1> SUFFICES ASSUME Init PROVE ScreenInv
  OBVIOUS
<1>1. /\ screen = [rows |-> [r \in Row |-> BlankRow], at |-> <<0, 0>>] /\ x = 0 /\ y = 0
      /\ \A t \in Tasks : code[t] = <<>>
      /\ buffer = [i \in Memory |-> BLANK]
  BY DEF Init, vga_console_clear
<1>2. 0 \in Row /\ 0 \in Col
  BY Sizes DEF Row, Col
<1>3. IsScreen(screen)
  BY <1>1, <1>2 DEF IsScreen, BlankRow
<1>4. At(screen.at)
  BY <1>1 DEF At
<1>5. Shows(screen.rows)
  BY <1>1, Cells DEF Shows, BlankRow
<1> QED BY <1>1, <1>3, <1>4, <1>5 DEF ScreenInv

\* As long as no two calls of vga_console_putc overlap, whatever newlines,
\* letters and backspaces they are for, the text memory shows what a terminal of
\* that size shows, although vga_console_scroll blanks nothing.
THEOREM ScreenStaysTerminal == Spec => []ScreenIsTerminal
<1>1. Init => TypeOK /\ ScreenInv
  BY InitTypes, InitScreen
<1>2. TypeOK /\ ScreenInv /\ [Next]_vars => (TypeOK /\ ScreenInv)'
  BY TypeStep, ScreenStep
<1>3. TypeOK /\ ScreenInv => ScreenIsTerminal
  BY DEF ScreenInv, ScreenIsTerminal, IsScreen, At, Shows
<1> QED BY <1>1, <1>2, <1>3, PTL DEF Spec

-----------------------------------------------------------------------------
(* Erasing.                                                                 *)

LEMMA TypingMembers ==
  \A p : p \in Typing <=> \E u \in Echoers : \E k \in 1 .. len[u] : p = <<u, k>>
  BY DEF Typing

LEMMA TypingMembersAfter ==
  \A p : p \in Typing' <=> \E u \in Echoers : \E k \in 1 .. len'[u] : p = <<u, k>>
  BY DEF Typing

\* A line that grows or shrinks by one character or ends.
LEMMA TypingChange ==
  ASSUME TypeOK, IsFiniteSet(Typing), NEW t \in Echoers, NEW n \in Nat,
         len' = [len EXCEPT ![t] = n],
         n = len[t] + 1 \/ n = len[t] - 1 \/ n = 0
  PROVE  /\ IsFiniteSet(Typing') /\ Cardinality(Typing) \in Nat /\ Cardinality(Typing') \in Nat
         /\ Cardinality(Typing') <= Cardinality(Typing) + 1
         /\ n = len[t] - 1 => Cardinality(Typing') = Cardinality(Typing) - 1
         /\ n = 0 => Cardinality(Typing') <= Cardinality(Typing)
<1> SUFFICES ASSUME NEW S, S = Typing, NEW T, T = Typing'
             PROVE  /\ IsFiniteSet(T) /\ Cardinality(S) \in Nat /\ Cardinality(T) \in Nat
                    /\ Cardinality(T) <= Cardinality(S) + 1
                    /\ n = len[t] - 1 => Cardinality(T) = Cardinality(S) - 1
                    /\ n = 0 => Cardinality(T) <= Cardinality(S)
  OBVIOUS
<1>1. /\ len[t] \in Nat /\ len'[t] = n
      /\ \A u \in Echoers : u # t => len'[u] = len[u]
  BY DEF TypeOK
<1>2. \A p : p \in S <=> \E u \in Echoers : \E k \in 1 .. len[u] : p = <<u, k>>
  BY TypingMembers
<1>3. \A p : p \in T <=> \E u \in Echoers : \E k \in 1 .. len'[u] : p = <<u, k>>
  BY TypingMembersAfter
<1>4. IsFiniteSet(S) /\ Cardinality(S) \in Nat
  BY FS_CardinalityType
<1>5. CASE n = len[t] + 1
  <2>1. T = S \union {<<t, n>>}
    BY <1>1, <1>2, <1>3, <1>5
  <2>2. IsFiniteSet(T) /\ Cardinality(T) <= Cardinality(S) + 1
    <3>1. /\ IsFiniteSet(S \union {<<t, n>>})
          /\ Cardinality(S \union {<<t, n>>})
               = IF <<t, n>> \in S THEN Cardinality(S) ELSE Cardinality(S) + 1
      BY <1>4, FS_AddElement, Zenon
    <3>2. Cardinality(T) = Cardinality(S) \/ Cardinality(T) = Cardinality(S) + 1
      BY <2>1, <3>1
    <3> QED BY <1>4, <2>1, <3>1, <3>2
  <2> QED BY <1>1, <1>4, <1>5, <2>2, FS_CardinalityType
<1>6. CASE n = len[t] - 1
  <2>1. T = S \ {<<t, len[t]>>} /\ <<t, len[t]>> \in S
    BY <1>1, <1>2, <1>3, <1>6
  <2>2. IsFiniteSet(T) /\ Cardinality(T) = Cardinality(S) - 1
    <3>1. /\ IsFiniteSet(S \ {<<t, len[t]>>})
          /\ Cardinality(S \ {<<t, len[t]>>})
               = IF <<t, len[t]>> \in S THEN Cardinality(S) - 1 ELSE Cardinality(S)
      BY <1>4, FS_RemoveElement, Zenon
    <3> QED BY <2>1, <3>1
  <2> QED BY <1>4, <2>2, FS_CardinalityType
<1>7. CASE n = 0 /\ n # len[t] - 1
  <2>1. T \subseteq S
    BY <1>1, <1>2, <1>3, <1>7
  <2>2. IsFiniteSet(T) /\ Cardinality(T) <= Cardinality(S)
    BY <1>4, <2>1, FS_Subset
  <2> QED BY <1>4, <1>7, <2>2, FS_CardinalityType
<1> QED BY <1>5, <1>6, <1>7

\* The line after an echo.
LEMMA TypedLine ==
  ASSUME TypeOK, IsFiniteSet(Typing), NEW t \in Echoers, NEW ch \in Chars, echo(t, ch)
  PROVE  /\ IsFiniteSet(Typing') /\ Cardinality(Typing) \in Nat /\ Cardinality(Typing') \in Nat
         /\ ch = NEWLINE => Cardinality(Typing') <= Cardinality(Typing)
         /\ ch = BACKSPACE => Cardinality(Typing') = Cardinality(Typing) - 1
         /\ Cardinality(Typing') <= Cardinality(Typing) + 1
<1>1. PICK n \in LengthAfter(len[t], ch) : len' = [len EXCEPT ![t] = n]
  BY DEF echo, Typed
<1>2. len[t] \in Nat /\ (ch = BACKSPACE => len[t] > 0)
  BY DEF TypeOK, echo
<1>3. /\ ch = NEWLINE => n = 0
      /\ ch = BACKSPACE => n = len[t] - 1
      /\ ch \in Letters => n = len[t] + 1 \/ n = 0
  <2>1. CASE ch = NEWLINE
    <3>1. n \in {0}
      BY <1>1, <2>1, CharFacts DEF LengthAfter
    <3> QED BY <2>1, <3>1, CharFacts
  <2>2. CASE ch = BACKSPACE
    <3>1. n \in {IF len[t] > 0 THEN len[t] - 1 ELSE len[t]}
      BY <1>1, <2>2, CharFacts DEF LengthAfter
    <3> QED BY <1>2, <2>2, <3>1, CharFacts
  <2>3. CASE ch \in Letters
    <3>1. n \in {len[t] + 1, 0}
      BY <1>1, <2>3, CharFacts DEF LengthAfter
    <3> QED BY <2>3, <3>1, CharFacts
  <2> QED BY <2>1, <2>2, <2>3, CharFacts
<1>4. n \in Nat /\ (n = len[t] + 1 \/ n = len[t] - 1 \/ n = 0)
  BY <1>2, <1>3, CharFacts
<1>5. /\ IsFiniteSet(Typing') /\ Cardinality(Typing) \in Nat /\ Cardinality(Typing') \in Nat
      /\ Cardinality(Typing') <= Cardinality(Typing) + 1
      /\ n = len[t] - 1 => Cardinality(Typing') = Cardinality(Typing) - 1
      /\ n = 0 => Cardinality(Typing') <= Cardinality(Typing)
  BY <1>1, <1>4, TypingChange
<1> QED BY <1>3, <1>5

LEMMA SameTyping == ASSUME len' = len PROVE Typing' = Typing
  BY DEF Typing

LEMMA LineStep ==
  ASSUME TypeOK, LineInv, [Next]_vars
  PROVE  LineInv'
<1>1. CASE UNCHANGED <<len, long>>
  <2>1. Typing' = Typing
    BY <1>1, SameTyping
  <2> QED BY <1>1, <2>1 DEF LineInv
<1>2. ASSUME NEW t \in Echoers, NEW ch \in Chars, echo(t, ch) PROVE LineInv'
  <2>1. IsFiniteSet(Typing') /\ Cardinality(Typing') \in Nat
    BY <1>2, TypedLine DEF LineInv
  <2>2. long' = (long \/ Cardinality(Typing') > (ROWS - 1) * COLS)
    BY <1>2 DEF echo, Typed
  <2>3. (ROWS - 1) * COLS \in Int
    BY Sizes
  <2>4. ASSUME NEW a \in Nat, NEW b \in Int, ~ (a > b) PROVE a <= b
    BY <2>4
  <2> QED BY <2>1, <2>2, <2>3, <2>4 DEF LineInv
<1>3. ASSUME NEW ch \in Chars, console_write(ch) PROVE UNCHANGED <<len, long>>
  BY <1>3 DEF console_write
<1>4. ASSUME NEW t \in Tasks, XAction(t) \/ YAction(t) \/ TestAction(t)
      PROVE  UNCHANGED <<len, long>>
  BY <1>4, CursorActions DEF history
<1>5. ASSUME NEW t \in Tasks, BUF_PUTC(t) \/ memmove(t) \/ done(t) PROVE UNCHANGED <<len, long>>
  BY <1>5 DEF BUF_PUTC, memmove, done, Does, history
<1>6. CASE UNCHANGED vars
  BY <1>1, <1>6 DEF vars
<1> QED BY <1>1, <1>2, <1>3, <1>4, <1>5, <1>6, NextCases

\* A screen with rows is known.
LEMMA Known == ASSUME NEW s, NEW V, s.rows \in [Row -> V] PROVE s # Unknown
<1>1. DOMAIN s.rows = Row /\ 0 \in Row
  BY Sizes DEF Row
<1>2. DOMAIN <<>> = {}
  OBVIOUS
<1>3. s = Unknown => s.rows = <<>>
  BY DEF Unknown
<1> QED BY <1>1, <1>2, <1>3, Zenon

\* How far the cursor goes.
LEMMA OffsetAfter ==
  ASSUME NEW s, s # Unknown, IsScreen(s), NEW ch \in Chars
  PROVE  /\ Offset(s) \in Nat
         /\ ch = NEWLINE => /\ Draw(s, ch) # Unknown
                            /\ Offset(Draw(s, ch)) \in Nat
                            /\ \/ Offset(Draw(s, ch)) >= Offset(s)
                               \/ Offset(Draw(s, ch)) = (ROWS - 1) * COLS
         /\ ch \in Letters => /\ Draw(s, ch) # Unknown
                              /\ Offset(Draw(s, ch)) \in Nat
                              /\ \/ Offset(Draw(s, ch)) = Offset(s) + 1
                                 \/ Offset(Draw(s, ch)) = (ROWS - 1) * COLS
         /\ ch = BACKSPACE /\ Offset(s) > 0 => /\ Draw(s, ch) # Unknown
                                               /\ Offset(Draw(s, ch)) = Offset(s) - 1
<1>0. /\ s.at[1] \in Nat /\ s.at[2] \in Nat /\ s.at[1] <= ROWS - 1 /\ s.at[2] <= COLS - 1
      /\ ROWS \in Nat /\ COLS \in Nat /\ ROWS >= 2 /\ COLS >= 1
  BY ScreenNumbers
<1> DEFINE a == s.at[1]  c == s.at[2]
<1>1. a * COLS \in Nat /\ (a + 1) * COLS = a * COLS + COLS
  BY <1>0
<1>2. Offset(s) = a * COLS + c /\ Offset(s) \in Nat
  BY <1>0, <1>1 DEF Offset
<1>3. (ROWS - 1) * COLS \in Nat
  BY <1>0
<1>r. s.rows \in [Row -> [Col -> Letters \union {BLANK}]]
  BY DEF IsScreen
<1>4. CASE ch = NEWLINE
  <2>1. /\ Draw(s, ch).at = IF a + 1 >= ROWS THEN <<ROWS - 1, 0>> ELSE <<a + 1, 0>>
    BY <1>4, NewlineDraw
  <2>2. Draw(s, ch).rows \in [Row -> [Col -> Letters \union {BLANK}]]
    <3>1. Scrolled(s.rows) \in [Row -> [Col -> Letters \union {BLANK}]]
      BY <1>r, <1>0 DEF Scrolled, BlankRow, Row
    <3> QED BY <3>1, <1>4, <1>r, NewlineDraw
  <2>3. Draw(s, ch) # Unknown
    BY <2>2, Known
  <2>4. CASE a + 1 >= ROWS
    <3>1. Offset(Draw(s, ch)) = (ROWS - 1) * COLS + 0
      BY <2>1, <2>4 DEF Offset
    <3> QED BY <1>2, <1>3, <1>4, <2>3, <3>1, CharFacts
  <2>5. CASE ~ (a + 1 >= ROWS)
    <3>1. Offset(Draw(s, ch)) = a * COLS + COLS + 0
      BY <1>1, <2>1, <2>5 DEF Offset
    <3> QED BY <1>0, <1>1, <1>2, <1>4, <2>3, <3>1, CharFacts
  <2> QED BY <2>4, <2>5
<1>5. CASE ch \in Letters
  <2>1. /\ Draw(s, ch).at = IF c = COLS - 1
                            THEN IF a + 1 >= ROWS THEN <<ROWS - 1, 0>> ELSE <<a + 1, 0>>
                            ELSE <<a, c + 1>>
    BY <1>0, <1>5, LetterDraw
  <2>2. Draw(s, ch) # Unknown
    <3>1. Drawn(s, ch) = [s.rows EXCEPT ![a][c] = ch]
      BY <1>5, CharFacts DEF Drawn
    <3>2. Drawn(s, ch) \in [Row -> [Col -> Letters \union {BLANK}]]
      BY <1>5, <1>r, <3>1 DEF IsScreen
    <3>3. Scrolled(Drawn(s, ch)) \in [Row -> [Col -> Letters \union {BLANK}]]
      BY <1>0, <3>2 DEF Scrolled, BlankRow, Row
    <3>4. Draw(s, ch).rows = Scrolled(Drawn(s, ch)) \/ Draw(s, ch).rows = Drawn(s, ch)
      BY <1>5, LetterDraw
    <3> QED BY <3>2, <3>3, <3>4, Known
  <2>3. CASE c # COLS - 1
    <3>1. Offset(Draw(s, ch)) = a * COLS + (c + 1)
      BY <2>1, <2>3 DEF Offset
    <3> QED BY <1>0, <1>1, <1>2, <1>5, <2>2, <3>1, CharFacts
  <2>4. CASE c = COLS - 1 /\ a + 1 >= ROWS
    <3>1. Offset(Draw(s, ch)) = (ROWS - 1) * COLS + 0
      BY <2>1, <2>4 DEF Offset
    <3> QED BY <1>2, <1>3, <1>5, <2>2, <3>1, CharFacts
  <2>5. CASE c = COLS - 1 /\ ~ (a + 1 >= ROWS)
    <3>1. Offset(Draw(s, ch)) = a * COLS + COLS + 0
      BY <1>1, <2>1, <2>5 DEF Offset
    <3> QED BY <1>0, <1>1, <1>2, <1>5, <2>2, <2>5, <3>1, CharFacts
  <2> QED BY <2>3, <2>4, <2>5
<1>6. CASE ch = BACKSPACE /\ Offset(s) > 0
  <2>1. s.at # <<0, 0>>
    BY <1>0, <1>6 DEF Offset
  <2>2. Draw(s, ch) = Erase(s) /\ Erase(s).rows = [s.rows EXCEPT ![Before(s)[1]][Before(s)[2]] = BLANK]
    BY <1>6, <2>1, DrawCases DEF Erase, Before
  <2>3. DOMAIN Draw(s, ch).rows = Row
    BY <1>r, <2>2
  <2>4. Draw(s, ch) # Unknown
    <3>1. 0 \in Row /\ DOMAIN <<>> = {}
      BY <1>0 DEF Row
    <3>2. Draw(s, ch) = Unknown => Draw(s, ch).rows = <<>>
      BY DEF Unknown
    <3> QED BY <2>3, <3>1, <3>2, Zenon
  <2>5. Draw(s, ch).at = Before(s) /\ a * COLS + (c - 1) = Before(s)[1] * COLS + Before(s)[2]
    BY <1>6, <2>4, BackDraw
  <2>6. Offset(Draw(s, ch)) = a * COLS + (c - 1)
    BY <2>5 DEF Offset
  <2> QED BY <1>0, <1>1, <1>2, <1>6, <2>4, <2>6, CharFacts
<1> QED BY <1>2, <1>4, <1>5, <1>6, CharFacts

LEMMA EraseBegins ==
  ASSUME TypeOK, ScreenInv, LineInv, LineInv', EraseInv, NEW t \in Tasks, NEW ch \in Chars,
         Begins(t, ch), erased' \in BOOLEAN,
         overlaps' = 0 /\ ~erased' /\ ~long' => ~erased /\ ~long,
         \/ t = Writer /\ (~erased' => ch # BACKSPACE) /\ UNCHANGED <<len, long>>
         \/ t \in Echoers /\ echo(t, ch)
  PROVE  EraseInv'
<1> SUFFICES ASSUME overlaps' = 0, ~erased', ~long'
             PROVE  /\ ~stray' /\ screen' # Unknown
                    /\ ~Quiet'
                    /\ \A u \in Tasks : code'[u] # <<>> =>
                         /\ Draw(screen', char'[u]) # Unknown
                         /\ Cardinality(Typing') <= Offset(Draw(screen', char'[u]))
  BY DEF EraseInv
<1>1. /\ code[t] = <<>> /\ Alone(t) /\ overlaps = 0 /\ screen' = screen
      /\ Becomes(t, Putc(ch)) /\ char' = [char EXCEPT ![t] = ch] /\ stray' = stray
  BY DEF Begins, TypeOK
<1>2. Quiet /\ \A u \in Tasks : code[u] = <<>>
  BY <1>1 DEF Quiet, Alone, Idle
<1>3. ~stray /\ screen # Unknown /\ IsScreen(screen) /\ Cardinality(Typing) <= Offset(screen)
  BY <1>1, <1>2 DEF EraseInv, ScreenInv
<1>4. /\ code'[t] = Putc(ch) /\ char'[t] = ch
      /\ \A u \in Tasks : u # t => code'[u] = <<>>
  BY <1>1, <1>2, CodeAfter DEF TypeOK
<1>5. ~Quiet'
  BY <1>4, Starting, Nonempty DEF Quiet, Idle
<1>6. /\ Cardinality(Typing) \in Nat /\ Cardinality(Typing') \in Nat
      /\ ch = NEWLINE => Cardinality(Typing') <= Cardinality(Typing)
      /\ ch = BACKSPACE => Cardinality(Typing') = Cardinality(Typing) - 1
      /\ Cardinality(Typing') <= Cardinality(Typing) + 1
  <2>1. CASE t = Writer /\ (~erased' => ch # BACKSPACE) /\ UNCHANGED <<len, long>>
    <3>1. Typing' = Typing /\ Cardinality(Typing) \in Nat
      BY <2>1, SameTyping, FS_CardinalityType DEF LineInv
    <3> QED BY <2>1, <3>1
  <2>2. CASE t \in Echoers /\ echo(t, ch)
    BY <2>2, TypedLine DEF LineInv
  <2> QED BY <2>1, <2>2
<1>7. Cardinality(Typing') <= (ROWS - 1) * COLS
  BY DEF LineInv
<1>8. ASSUME NEW s, s = screen
      PROVE  Draw(s, ch) # Unknown /\ Cardinality(Typing') <= Offset(Draw(s, ch))
  <2>1. s # Unknown /\ IsScreen(s) /\ Cardinality(Typing) <= Offset(s)
    BY <1>3, <1>8
  <2>2. Offset(s) \in Nat
    BY <2>1, OffsetAfter
  <2>3. CASE ch = NEWLINE
    <3>1. /\ Draw(s, ch) # Unknown /\ Offset(Draw(s, ch)) \in Nat
          /\ \/ Offset(Draw(s, ch)) >= Offset(s)
             \/ Offset(Draw(s, ch)) = (ROWS - 1) * COLS
      BY <2>1, <2>3, OffsetAfter
    <3> QED BY <1>6, <1>7, <2>1, <2>2, <2>3, <3>1
  <2>4. CASE ch \in Letters
    <3>1. /\ Draw(s, ch) # Unknown /\ Offset(Draw(s, ch)) \in Nat
          /\ \/ Offset(Draw(s, ch)) = Offset(s) + 1
             \/ Offset(Draw(s, ch)) = (ROWS - 1) * COLS
      BY <2>1, <2>4, OffsetAfter
    <3> QED BY <1>6, <1>7, <2>1, <2>2, <3>1
  <2>5. CASE ch = BACKSPACE
    <3>1. Offset(s) > 0
      BY <1>6, <2>1, <2>2, <2>5
    <3>2. Draw(s, ch) # Unknown /\ Offset(Draw(s, ch)) = Offset(s) - 1
      BY <2>1, <2>5, <3>1, OffsetAfter
    <3> QED BY <1>6, <2>1, <2>2, <2>5, <3>2
  <2> QED BY <2>3, <2>4, <2>5, CharFacts
<1> QED BY <1>1, <1>3, <1>4, <1>5, <1>8

LEMMA EraseWork ==
  ASSUME TypeOK, ScreenInv, EraseInv, NEW t \in Tasks,
         XAction(t) \/ YAction(t) \/ TestAction(t) \/ BUF_PUTC(t) \/ memmove(t)
  PROVE  EraseInv'
<1>1. /\ code[t] # <<>> /\ code'[t] # <<>> /\ \A u \in Tasks : u # t => code'[u] = code[u]
      /\ char' = char /\ screen' = screen
  BY StillBusy
<1>2. UNCHANGED <<len, overlaps, erased, long>>
  BY CursorActions DEF BUF_PUTC, memmove, Does, history
<1>3. Typing' = Typing
  BY <1>2, SameTyping
<1> SUFFICES ASSUME overlaps = 0, ~erased, ~long PROVE ~stray'
  BY <1>1, <1>2, <1>3 DEF EraseInv, Quiet, Idle
<1>4. ~stray /\ screen # Unknown /\ Draw(screen, char[t]) # Unknown
  BY <1>1 DEF EraseInv
<1>5. CASE BUF_PUTC(t)
  <2>1. PICK s, ch : s = screen /\ ch = char[t]
    OBVIOUS
  <2>2. Goes(t, s, ch)
    BY <1>1, <1>4, <2>1 DEF Goes, ScreenInv, TypeOK
  <2>3. VGA_TEXT_ADDR \in Memory
    BY <1>5, <2>1, <2>2, StagePut
  <2> QED BY <1>4, <1>5, <2>3 DEF BUF_PUTC
<1>6. CASE XAction(t) \/ YAction(t) \/ TestAction(t) \/ memmove(t)
  BY <1>4, <1>6, CursorActions DEF memmove, history
<1> QED BY <1>5, <1>6

LEMMA EraseDone ==
  ASSUME TypeOK, ScreenInv, EraseInv, NEW t \in Tasks, done(t)
  PROVE  EraseInv'
<1>1. code[t] = E3 /\ Becomes(t, <<>>)
  BY DoneActionMoves DEF DoneMoves, Cursor
<1>2. /\ screen' = Draw(screen, char[t])
      /\ UNCHANGED <<len, overlaps, stray, erased, long>>
  BY DEF done, Does
<1>3. Typing' = Typing
  BY <1>2, SameTyping
<1> SUFFICES ASSUME overlaps = 0, ~erased, ~long
             PROVE  /\ ~stray' /\ screen' # Unknown
                    /\ Cardinality(Typing') <= Offset(screen')
                    /\ \A u \in Tasks : code'[u] = <<>>
  BY <1>2 DEF EraseInv, Offset
<1>4. /\ ~stray /\ screen # Unknown /\ code[t] # <<>>
      /\ Draw(screen, char[t]) # Unknown
      /\ Cardinality(Typing) <= Offset(Draw(screen, char[t]))
  BY <1>1, Nonempty DEF EraseInv
<1>5. \A u \in Tasks : u # t => code[u] = <<>>
  BY <1>4 DEF ScreenInv
<1>6. \A u \in Tasks : code'[u] = <<>>
  BY <1>1, <1>5, CodeAfter
<1> QED BY <1>2, <1>3, <1>4, <1>6

LEMMA EraseStep ==
  ASSUME TypeOK, ScreenInv, LineInv, LineInv', EraseInv, erased \in BOOLEAN, [Next]_vars
  PROVE  EraseInv'
<1>1. CASE UNCHANGED vars
  <2>1. Typing' = Typing
    BY <1>1, SameTyping DEF vars
  <2> QED BY <1>1, <2>1 DEF vars, EraseInv, Quiet, Idle
<1>2. ASSUME NEW ch \in Chars, console_write(ch) PROVE EraseInv'
  <2>1. Begins(Writer, ch) /\ Writer \in Tasks
    BY <1>2, Beginning DEF console_write, Tasks
  <2>2. erased' = (erased \/ ch = BACKSPACE) /\ UNCHANGED <<len, long>>
    BY <1>2 DEF console_write
  <2> QED BY <2>1, <2>2, EraseBegins
<1>3. ASSUME NEW t \in Echoers, NEW ch \in Chars, echo(t, ch) PROVE EraseInv'
  <2>1. Begins(t, ch) /\ t \in Tasks
    BY <1>3, Beginning DEF echo, Tasks
  <2>2. erased' = erased /\ (~long' => ~long)
    BY <1>3 DEF echo, Typed
  <2> QED BY <1>3, <2>1, <2>2, EraseBegins
<1> QED BY <1>1, <1>2, <1>3, NextCases, EraseWork, EraseDone

LEMMA InitErase == Init => LineInv /\ EraseInv
<1> SUFFICES ASSUME Init PROVE LineInv /\ EraseInv
  OBVIOUS
<1>1. /\ screen = [rows |-> [r \in Row |-> BlankRow], at |-> <<0, 0>>]
      /\ \A t \in Tasks : code[t] = <<>>
      /\ \A t \in Echoers : len[t] = 0
      /\ ~stray
  BY DEF Init
<1>2. Typing = {}
  BY <1>1, TypingMembers
<1>3. IsFiniteSet(Typing) /\ Cardinality(Typing) = 0
  BY <1>2, FS_EmptySet
<1>4. 0 <= (ROWS - 1) * COLS
  BY Sizes
<1>5. screen # Unknown
  BY <1>1, Known
<1>6. Offset(screen) = 0
  BY <1>1, Sizes DEF Offset
<1> QED BY <1>1, <1>3, <1>4, <1>5, <1>6 DEF LineInv, EraseInv

\* Without overlapping calls, and without a backspace in what is written, no
\* echo is ever drawn in front of text memory: the cursor is at least as far
\* from the top left as the lines being typed are long, so the test for an empty
\* line in console_read is enough, until those lines fill all rows but one.
THEOREM EchoesStayOnScreen == Spec => []EraseStaysOnScreen
<1> DEFINE Inv == TypeOK /\ ScreenInv /\ LineInv /\ EraseInv /\ erased \in BOOLEAN
<1>1. Init => Inv
  BY InitTypes, InitScreen, InitErase DEF Init
<1>2. Inv /\ [Next]_vars => Inv'
  <2> SUFFICES ASSUME Inv, [Next]_vars PROVE Inv'
    OBVIOUS
  <2>1. erased' \in BOOLEAN
    BY NextCases, CursorActions
       DEF vars, console_write, echo, Typed, BUF_PUTC, memmove, done, history
  <2> QED BY <2>1, TypeStep, ScreenStep, LineStep, EraseStep
<1>3. Inv => EraseStaysOnScreen
  BY DEF EraseInv, EraseStaysOnScreen, TypeOK
<1> QED BY <1>1, <1>2, <1>3, PTL DEF Spec
=============================================================================
