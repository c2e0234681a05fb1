-------------------------- MODULE CliLineEditProofs --------------------------
(***************************************************************************)
(* The line editor of the command shell, for a buffer, a history and lines *)
(* of any length: the bytes of cmd are the line and nothing else, the      *)
(* terminal shows that line, and at a password prompt it shows nothing.    *)
(***************************************************************************)
EXTENDS CliLineEdit, WellFoundedInduction, TLAPS

LEMMA Least ==
  ASSUME NEW T, T \subseteq Nat, T # {}
  PROVE  \E x \in T : \A y \in T : x <= y
<1>1. IsWellFoundedOn(OpToRel(<, Nat), Nat)
  BY NatLessThanWellFounded
<1>2. PICK x \in T : \A y \in T : ~(<<y, x>> \in OpToRel(<, Nat))
  BY <1>1, WFMin
<1>3. \A y \in T : ~(y < x)
  BY <1>2 DEF OpToRel
<1> QED
  BY <1>3

-----------------------------------------------------------------------------
(* The cells of a row *)

(* The row goes on with blanks; it is kept without them.                   *)
Cell(s, i) == IF i <= Len(s) THEN s[i] ELSE Blank
Trimmed(s) == Len(s) > 0 => s[Len(s)] # Blank
Columns == Nat \ {0}

LEMMA TrimFacts ==
  ASSUME NEW S, NEW s \in Seq(S)
  PROVE  /\ Trim(s) \in Seq(S) /\ Trimmed(Trim(s))
         /\ \A i \in Columns : Cell(Trim(s), i) = Cell(s, i)
<1> DEFINE T == {n \in 0..Len(s) : \A i \in n + 1..Len(s) : s[i] = Blank}
           Ends(n) == (\A i \in n + 1..Len(s) : s[i] = Blank) /\ (n > 0 => s[n] # Blank)
<1>1. Len(s) \in Nat /\ Len(s) \in T /\ T \subseteq Nat
  OBVIOUS
<1>2. PICK n \in T : \A y \in T : n <= y
  <2> HIDE DEF T
  <2> QED
    BY <1>1, Least
<1>3. n \in 0..Len(s) /\ Ends(n)
  <2>1. n \in 0..Len(s) /\ \A i \in n + 1..Len(s) : s[i] = Blank
    BY <1>2
  <2>2. ASSUME n > 0, s[n] = Blank PROVE FALSE
    <3>1. n - 1 \in 0..Len(s) /\ \A i \in (n - 1) + 1..Len(s) : s[i] = Blank
      BY <1>1, <2>1, <2>2
    <3>2. n - 1 \in T
      BY <3>1
    <3> QED
      BY <1>2, <2>1, <3>2
  <2> QED
    BY <2>1, <2>2
<1> DEFINE k == CHOOSE j \in 0..Len(s) : Ends(j)
<1>4. k \in 0..Len(s) /\ Ends(k)
  <2> HIDE DEF Ends
  <2> QED
    BY <1>3
<1>5. Trim(s) = SubSeq(s, 1, k)
  BY DEF Trim
<1> HIDE DEF k
<1>6. /\ SubSeq(s, 1, k) \in Seq(S) /\ Len(SubSeq(s, 1, k)) = k
      /\ \A i \in 1..k : SubSeq(s, 1, k)[i] = s[i]
  BY <1>1, <1>4
<1>7. Trimmed(SubSeq(s, 1, k))
  BY <1>1, <1>4, <1>6 DEF Trimmed
<1>8. \A i \in Columns : Cell(SubSeq(s, 1, k), i) = Cell(s, i)
  <2> SUFFICES ASSUME NEW i \in Columns PROVE Cell(SubSeq(s, 1, k), i) = Cell(s, i)
    OBVIOUS
  <2>1. CASE i <= k
    BY <1>1, <1>4, <1>6, <2>1 DEF Cell, Columns
  <2>2. CASE i > k /\ i <= Len(s)
    BY <1>1, <1>4, <1>6, <2>2 DEF Cell, Columns
  <2>3. CASE i > Len(s)
    BY <1>1, <1>4, <1>6, <2>3 DEF Cell, Columns
  <2> QED
    BY <1>1, <1>4, <2>1, <2>2, <2>3 DEF Columns
<1> QED
  BY <1>5, <1>6, <1>7, <1>8

(* Without blanks at their end, rows that look alike are the same.         *)
LEMMA CellsDecide ==
  ASSUME NEW S, NEW s \in Seq(S), NEW t \in Seq(S), Trimmed(s), Trimmed(t),
         \A i \in Columns : Cell(s, i) = Cell(t, i)
  PROVE  s = t
<1>1. Len(s) \in Nat /\ Len(t) \in Nat
  OBVIOUS
<1>2. ~(Len(s) < Len(t))
  <2> SUFFICES ASSUME Len(s) < Len(t) PROVE FALSE
    OBVIOUS
  <2>1. Len(t) \in Columns /\ Cell(s, Len(t)) = Cell(t, Len(t))
    BY <1>1 DEF Columns
  <2> QED
    BY <1>1, <2>1 DEF Cell, Trimmed
<1>3. ~(Len(t) < Len(s))
  <2> SUFFICES ASSUME Len(t) < Len(s) PROVE FALSE
    OBVIOUS
  <2>1. Len(s) \in Columns /\ Cell(s, Len(s)) = Cell(t, Len(s))
    BY <1>1 DEF Columns
  <2> QED
    BY <1>1, <2>1 DEF Cell, Trimmed
<1>4. Len(s) = Len(t)
  <2>1. \A a, b \in Nat : ~(a < b) /\ ~(b < a) => a = b
    OBVIOUS
  <2> QED
    BY <1>1, <1>2, <1>3, <2>1, Zenon
<1>5. \A i \in 1..Len(s) : s[i] = t[i]
  <2> SUFFICES ASSUME NEW i \in 1..Len(s) PROVE s[i] = t[i]
    OBVIOUS
  <2>1. i \in Columns /\ i <= Len(s) /\ i <= Len(t)
    BY <1>1, <1>4 DEF Columns
  <2> QED
    BY <2>1 DEF Cell
<1> QED
  BY <1>4, <1>5

LEMMA OverFacts ==
  ASSUME NEW S, Blank \in S, NEW s \in Seq(S), NEW t \in Seq(S), NEW at \in Nat
  PROVE  /\ Over(s, at, t) \in Seq(S) /\ Trimmed(Over(s, at, t))
         /\ \A i \in Columns :
              Cell(Over(s, at, t), i) =
                IF i > at /\ i <= at + Len(t) THEN t[i - at] ELSE Cell(s, i)
<1>1. Len(s) \in Nat /\ Len(t) \in Nat
  OBVIOUS
<1> DEFINE n == IF Len(s) > at + Len(t) THEN Len(s) ELSE at + Len(t)
           c(i) == IF i > at /\ i <= at + Len(t) THEN t[i - at]
                   ELSE IF i <= Len(s) THEN s[i] ELSE Blank
           u == [i \in 1..n |-> c(i)]
<1>2. n \in Nat /\ n >= Len(s) /\ n >= at + Len(t)
  BY <1>1
<1>3. \A i \in 1..n : c(i) \in S
  <2> SUFFICES ASSUME NEW i \in 1..n PROVE c(i) \in S
    OBVIOUS
  <2>1. CASE i > at /\ i <= at + Len(t)
    <3>1. i - at \in 1..Len(t)
      BY <1>1, <2>1
    <3> QED
      BY <2>1, <3>1
  <2>2. CASE ~(i > at /\ i <= at + Len(t)) /\ i <= Len(s)
    <3>1. i \in 1..Len(s)
      BY <1>1, <2>2
    <3> QED
      BY <2>2, <3>1
  <2>3. CASE ~(i > at /\ i <= at + Len(t)) /\ ~(i <= Len(s))
    BY <2>3
  <2> QED
    BY <2>1, <2>2, <2>3
<1>4. Over(s, at, t) = Trim(u)
  BY DEF Over
<1> HIDE DEF n
<1>5. u \in Seq(S) /\ Len(u) = n /\ \A i \in 1..n : u[i] = c(i)
  <2>1. u \in [1..n -> S]
    BY <1>3
  <2> QED
    BY <1>2, <2>1
<1>6. \A i \in Columns : Cell(u, i) =
         IF i > at /\ i <= at + Len(t) THEN t[i - at] ELSE Cell(s, i)
  <2> HIDE DEF u
  <2> SUFFICES ASSUME NEW i \in Columns
               PROVE  Cell(u, i) = c(i)
    BY DEF Cell
  <2>1. CASE i <= n
    <3>1. i \in 1..n
      BY <1>2, <2>1 DEF Columns
    <3>2. u[i] = c(i)
      BY <1>5, <3>1
    <3> QED
      BY <1>5, <2>1, <3>2 DEF Cell
  <2>2. CASE ~(i <= n)
    <3>1. ~(i <= at + Len(t)) /\ ~(i <= Len(s))
      BY <1>1, <1>2, <2>2 DEF Columns
    <3>2. Cell(u, i) = Blank
      BY <1>5, <2>2 DEF Cell
    <3> QED
      BY <3>1, <3>2
  <2> QED
    BY <2>1, <2>2
<1> HIDE DEF u
<1> QED
  BY <1>4, <1>5, <1>6, TrimFacts

-----------------------------------------------------------------------------
(* The terminal *)

Shown == Chars \cup {"P"}
Screens == [cells: Seq(Shown), col: Nat, indent: BOOLEAN]

LEMMA ScreenFields ==
  ASSUME NEW s \in Screens
  PROVE  s.cells \in Seq(Shown) /\ s.col \in Nat /\ s.indent \in BOOLEAN
  BY DEF Screens

LEMMA Alphabet ==
  /\ Blank \in Shown /\ "P" \in Shown /\ Seq(Chars) \subseteq Seq(Shown)
  /\ Blank \in Chars /\ Nul \notin Chars /\ Help \in Chars /\ Ordinary \in Chars /\ Blank # "P"
<1>1. {Blank, Help, Ordinary} \subseteq Chars /\ Nul \notin Chars /\ Blank # "P"
  BY EditorAssumption
<1>2. Seq(Chars) \subseteq Seq(Shown)
  BY DEF Shown
<1> QED
  BY <1>1, <1>2 DEF Shown

LEMMA Update ==
  ASSUME NEW A, NEW B, NEW s \in [cells: A, col: Nat, indent: B], NEW o \in A, NEW n \in Nat
  PROVE  /\ [s EXCEPT !.cells = o, !.col = n] \in [cells: A, col: Nat, indent: B]
         /\ [s EXCEPT !.cells = o, !.col = n].cells = o
         /\ [s EXCEPT !.cells = o, !.col = n].col = n
  OBVIOUS

LEMMA PromptCell == <<"P">> \in Seq(Shown) /\ Len(<<"P">>) = 1 /\ <<"P">>[1] = "P"
<1>1. "P" \in Shown
  BY DEF Shown
<1> HIDE DEF Shown
<1> QED
  BY <1>1

LEMMA WriteFacts ==
  ASSUME NEW s \in Screens, NEW t \in Seq(Chars)
  PROVE  /\ Write(s, t) \in Screens /\ Write(s, t).col = s.col + Len(t)
         /\ Trimmed(Write(s, t).cells)
         /\ \A i \in Columns :
              Cell(Write(s, t).cells, i) =
                IF i > s.col /\ i <= s.col + Len(t) THEN t[i - s.col] ELSE Cell(s.cells, i)
<1> DEFINE o == Over(s.cells, s.col, t)
<1>1. s.cells \in Seq(Shown) /\ s.col \in Nat /\ t \in Seq(Shown) /\ Len(t) \in Nat
  BY ScreenFields, Alphabet
<1>2. /\ o \in Seq(Shown) /\ Trimmed(o)
      /\ \A i \in Columns :
           Cell(o, i) = IF i > s.col /\ i <= s.col + Len(t) THEN t[i - s.col] ELSE Cell(s.cells, i)
  BY <1>1, Alphabet, OverFacts
<1> HIDE DEF o
<1>3. Write(s, t) = [s EXCEPT !.cells = o, !.col = s.col + Len(t)]
  BY DEF Write, o
<1>4. /\ Write(s, t) \in Screens /\ Write(s, t).cells = o
      /\ Write(s, t).col = s.col + Len(t)
  <2>1. s \in [cells: Seq(Shown), col: Nat, indent: BOOLEAN] /\ s.col + Len(t) \in Nat
    BY <1>1 DEF Screens
  <2> QED
    BY <1>2, <1>3, <2>1, Update, ZenonT(30) DEF Screens
<1> QED
  BY <1>2, <1>4

LEMMA BackFacts ==
  ASSUME NEW s \in Screens, NEW n \in Nat
  PROVE  /\ Back(s, n) \in Screens /\ Back(s, n).cells = s.cells
         /\ n < s.col => Back(s, n).col = s.col - n
  BY DEF Back, Screens

LEMMA BlanksFacts ==
  ASSUME NEW n \in Nat
  PROVE  /\ Blanks(n) \in Seq(Chars) /\ Len(Blanks(n)) = n
         /\ \A i \in 1..n : Blanks(n)[i] = Blank
  BY Alphabet DEF Blanks

(* The row shows the prompt and a text, with the terminal's cursor in it.  *)
Face(t, i) == IF i = 1 THEN "P" ELSE Cell(t, i - 1)
Shows(s, t, cur) ==
  /\ s \in Screens /\ Trimmed(s.cells) /\ s.col = 1 + cur
  /\ \A i \in Columns : Cell(s.cells, i) = Face(t, i)

(* A text u written at the cursor turns t into r, as far as one can see.   *)
LEMMA WriteShows ==
  ASSUME NEW s, NEW t \in Seq(Chars), NEW cur \in Nat, Shows(s, t, cur),
         NEW u \in Seq(Chars), NEW r \in Seq(Chars),
         \A i \in Columns :
           Cell(r, i) = IF i > cur /\ i <= cur + Len(u) THEN u[i - cur] ELSE Cell(t, i)
  PROVE  Shows(Write(s, u), r, cur + Len(u))
<1>1. s \in Screens /\ s.col = 1 + cur /\ \A i \in Columns : Cell(s.cells, i) = Face(t, i)
  BY DEF Shows
<1>2. /\ Write(s, u) \in Screens /\ Write(s, u).col = s.col + Len(u)
      /\ Trimmed(Write(s, u).cells)
      /\ \A i \in Columns :
           Cell(Write(s, u).cells, i) =
             IF i > s.col /\ i <= s.col + Len(u) THEN u[i - s.col] ELSE Cell(s.cells, i)
  BY <1>1, WriteFacts
<1>3. Len(u) \in Nat
  OBVIOUS
<1>4. ASSUME NEW i \in Columns PROVE Cell(Write(s, u).cells, i) = Face(r, i)
  <2>1. CASE i = 1
    <3>1. ~(i > s.col)
      BY <1>1, <2>1
    <3> QED
      BY <1>1, <1>2, <2>1, <3>1 DEF Face
  <2>2. CASE i # 1
    <3>1. i - 1 \in Columns
      BY <2>2 DEF Columns
    <3>2. Cell(r, i - 1) =
            IF i - 1 > cur /\ i - 1 <= cur + Len(u) THEN u[(i - 1) - cur] ELSE Cell(t, i - 1)
      BY <3>1
    <3>3. /\ (i > s.col /\ i <= s.col + Len(u)) <=> (i - 1 > cur /\ i - 1 <= cur + Len(u))
          /\ i - s.col = (i - 1) - cur
      BY <1>1, <1>3 DEF Columns
    <3> QED
      BY <1>1, <1>2, <2>2, <3>2, <3>3 DEF Face
  <2> QED
    BY <2>1, <2>2
<1> QED
  BY <1>1, <1>2, <1>3, <1>4 DEF Shows

LEMMA BackShows ==
  ASSUME NEW s, NEW t, NEW cur \in Nat, Shows(s, t, cur), NEW n \in 0..cur
  PROVE  Shows(Back(s, n), t, cur - n)
<1>1. s \in Screens /\ s.col = 1 + cur /\ n < s.col /\ n \in Nat
  BY DEF Shows
<1>2. Back(s, n) \in Screens /\ Back(s, n).cells = s.cells /\ Back(s, n).col = s.col - n
  BY <1>1, BackFacts
<1> QED
  BY <1>1, <1>2 DEF Shows

(* The prompt on a row of which nothing is left behind the cursor.         *)
LEMMA PromptShows ==
  ASSUME NEW s \in Screens, Len(s.cells) <= s.col, NEW t \in Seq(Chars), NEW back \in 0..Len(t)
  PROVE  Shows(Prompted(s, t, back), t, Len(t) - back)
<1> DEFINE rest == SubSeq(s.cells, s.col + 1, Len(s.cells))
           p == [cells |-> Over(rest, 0, <<"P">>), col |-> 1, indent |-> s.indent \/ s.col > 0]
<1>1. s.cells \in Seq(Shown) /\ s.col \in Nat /\ Len(s.cells) \in Nat /\ s.indent \in BOOLEAN
  BY ScreenFields
<1>2. rest = <<>>
  BY <1>1
<1> HIDE DEF rest
<1>3. rest \in Seq(Shown) /\ Len(rest) = 0 /\ <<"P">> \in Seq(Shown) /\ Len(<<"P">>) = 1
  BY <1>2, PromptCell
<1> DEFINE o == Over(rest, 0, <<"P">>)
<1>4. /\ o \in Seq(Shown) /\ Trimmed(o)
      /\ \A i \in Columns :
           Cell(o, i) = IF i > 0 /\ i <= 0 + Len(<<"P">>) THEN <<"P">>[i - 0] ELSE Cell(rest, i)
  <2>1. Blank \in Shown /\ 0 \in Nat
    BY Alphabet
  <2> QED
    BY <1>3, <2>1, OverFacts
<1> HIDE DEF o
<1>5. \A i \in Columns : Cell(o, i) = Face(<<>>, i)
  BY <1>3, <1>4 DEF Cell, Face, Columns
<1>6. p \in Screens /\ p.cells = o /\ p.col = 1
  <2>1. (s.indent \/ s.col > 0) \in BOOLEAN
    BY <1>1, Zenon
  <2> QED
    BY <1>4, <2>1 DEF Screens, o
<1>7. Shows(p, <<>>, 0)
  BY <1>4, <1>5, <1>6 DEF Shows
<1>8. Prompted(s, t, back) = Back(Write(p, t), back)
  BY DEF Prompted, rest
<1> HIDE DEF p
<1>9. Len(t) \in Nat /\ <<>> \in Seq(Chars)
  OBVIOUS
<1>10. \A i \in Columns :
         Cell(t, i) = IF i > 0 /\ i <= 0 + Len(t) THEN t[i - 0] ELSE Cell(<<>>, i)
  BY <1>9 DEF Cell, Columns
<1>11. Shows(Write(p, t), t, 0 + Len(t))
  BY <1>7, <1>9, <1>10, WriteShows
<1>12. Shows(Write(p, t), t, Len(t))
  BY <1>9, <1>11
<1> QED
  BY <1>8, <1>9, <1>12, BackShows

LEMMA PromptType ==
  ASSUME NEW s \in Screens, NEW t \in Seq(Chars), NEW back \in Nat
  PROVE  Prompted(s, t, back) \in Screens
<1> DEFINE rest == SubSeq(s.cells, s.col + 1, Len(s.cells))
           p == [cells |-> Over(rest, 0, <<"P">>), col |-> 1, indent |-> s.indent \/ s.col > 0]
<1>1. s.cells \in Seq(Shown) /\ s.col \in Nat /\ Len(s.cells) \in Nat /\ s.indent \in BOOLEAN
  BY ScreenFields
<1>2. rest \in Seq(Shown) /\ <<"P">> \in Seq(Shown)
  BY <1>1, Alphabet
<1> HIDE DEF rest
<1>3. Over(rest, 0, <<"P">>) \in Seq(Shown)
  BY <1>2, Alphabet, OverFacts
<1>4. p \in Screens
  <2>1. (s.indent \/ s.col > 0) \in BOOLEAN
    BY <1>1, Zenon
  <2> QED
    BY <1>3, <2>1 DEF Screens
<1>5. Prompted(s, t, back) = Back(Write(p, t), back)
  BY DEF Prompted, rest
<1> HIDE DEF p
<1> QED
  BY <1>4, <1>5, WriteFacts, BackFacts

LEMMA NewRowFacts == NewRow \in Screens /\ NewRow.cells = <<>> /\ NewRow.col = 0
  BY DEF NewRow, Screens

(* What the row shows is what the property speaks of.                      *)
LEMMA ShownIsTrimmed ==
  ASSUME NEW s, NEW t \in Seq(Chars), NEW cur \in Nat, Shows(s, t, cur)
  PROVE  s.cells = Trim(<<"P">> \o t) /\ s.col = 1 + cur
<1> DEFINE u == <<"P">> \o t
<1>1. <<"P">> \in Seq(Shown) /\ t \in Seq(Shown) /\ Len(t) \in Nat
  BY Alphabet
<1>2. /\ u \in Seq(Shown) /\ Len(u) = 1 + Len(t) /\ u[1] = "P"
      /\ \A i \in 1..Len(t) : u[1 + i] = t[i]
  BY <1>1
<1> HIDE DEF u
<1>3. ASSUME NEW i \in Columns PROVE Face(t, i) = Cell(u, i)
  <2>1. CASE i = 1
    BY <1>1, <1>2, <2>1 DEF Face, Cell
  <2>2. CASE i # 1 /\ i - 1 <= Len(t)
    <3>1. i - 1 \in 1..Len(t) /\ 1 + (i - 1) = i /\ i <= 1 + Len(t)
      BY <1>1, <2>2 DEF Columns
    <3>2. u[i] = t[i - 1]
      BY <1>2, <3>1
    <3> QED
      BY <1>2, <2>2, <3>1, <3>2 DEF Face, Cell
  <2>3. CASE i # 1 /\ ~(i - 1 <= Len(t))
    <3>1. ~(i <= 1 + Len(t))
      BY <1>1, <2>3 DEF Columns
    <3> QED
      BY <1>2, <2>3, <3>1 DEF Face, Cell
  <2> QED
    BY <2>1, <2>2, <2>3
<1>4. Trim(u) \in Seq(Shown) /\ Trimmed(Trim(u)) /\ \A i \in Columns : Cell(Trim(u), i) = Cell(u, i)
  BY <1>2, TrimFacts
<1>5. s.cells \in Seq(Shown) /\ Trimmed(s.cells) /\ s.col = 1 + cur
      /\ \A i \in Columns : Cell(s.cells, i) = Face(t, i)
  BY ScreenFields DEF Shows
<1>6. s.cells = Trim(u)
  <2>1. \A i \in Columns : Cell(s.cells, i) = Cell(Trim(u), i)
    BY <1>3, <1>4, <1>5
  <2> QED
    BY <1>4, <1>5, <2>1, CellsDecide
<1> QED
  BY <1>5, <1>6 DEF u

-----------------------------------------------------------------------------
(* The buffer *)

Buffers == [Bytes -> Chars \cup {Nul}]
(* The bytes of a line of length n, and nothing else, are set.             *)
IsLine(b, n) == \A i \in Bytes : (b[i] # Nul) <=> (i < n)
Line(b, n) == [i \in 1..n |-> b[i - 1]]

LEMMA SizeFacts == Size \in Nat /\ Size >= 1 /\ Bytes = 0..Size - 1
<1>1. QuitText \in Text /\ Size \in Nat
  BY EditorAssumption
<1>2. PICK n \in 0..Size - 1 : QuitText \in [1..n -> Chars]
  BY <1>1 DEF Text
<1> QED
  BY <1>1, <1>2 DEF Bytes

LEMMA TextFacts ==
  ASSUME NEW t
  PROVE  t \in Text <=> t \in Seq(Chars) /\ Len(t) \in 0..Size - 1
<1>1. ASSUME t \in Text PROVE t \in Seq(Chars) /\ Len(t) \in 0..Size - 1
  <2>1. PICK n \in 0..Size - 1 : t \in [1..n -> Chars]
    BY <1>1 DEF Text
  <2>2. n \in Nat
    BY SizeFacts
  <2> QED
    BY <2>1, <2>2
<1>2. ASSUME t \in Seq(Chars), Len(t) \in 0..Size - 1 PROVE t \in Text
  <2>1. t \in [1..Len(t) -> Chars]
    BY <1>2
  <2> QED
    BY <1>2, <2>1 DEF Text
<1> QED
  BY <1>1, <1>2

LEMMA LineFacts ==
  ASSUME NEW b \in Buffers, NEW n \in 0..Size, \A i \in 0..n - 1 : b[i] # Nul
  PROVE  /\ Line(b, n) \in Seq(Chars) /\ Len(Line(b, n)) = n
         /\ \A i \in 1..n : Line(b, n)[i] = b[i - 1]
         /\ \A i \in Columns : Cell(Line(b, n), i) = IF i <= n THEN b[i - 1] ELSE Blank
<1>1. n \in Nat /\ \A i \in 1..n : i - 1 \in Bytes /\ i - 1 \in 0..n - 1
  BY SizeFacts
<1>2. \A i \in 1..n : b[i - 1] \in Chars
  BY <1>1 DEF Buffers
<1>3. /\ Line(b, n) \in Seq(Chars) /\ Len(Line(b, n)) = n
      /\ \A i \in 1..n : Line(b, n)[i] = b[i - 1]
  <2>1. Line(b, n) \in [1..n -> Chars]
    BY <1>2 DEF Line
  <2> QED
    BY <1>1, <2>1 DEF Line
<1>4. ASSUME NEW i \in Columns
      PROVE  Cell(Line(b, n), i) = IF i <= n THEN b[i - 1] ELSE Blank
  <2>1. i <= n => i \in 1..n
    BY <1>1 DEF Columns
  <2> QED
    BY <1>3, <2>1 DEF Cell
<1> QED
  BY <1>3, <1>4

(* The line itself, and every part of it.                                  *)
LEMMA WholeLine ==
  ASSUME NEW b \in Buffers, NEW n \in 0..Size - 1, IsLine(b, n), NEW k \in 0..n
  PROVE  /\ Line(b, k) \in Seq(Chars) /\ Len(Line(b, k)) = k
         /\ \A i \in 1..k : Line(b, k)[i] = b[i - 1]
         /\ \A i \in Columns : Cell(Line(b, k), i) = IF i <= k THEN b[i - 1] ELSE Blank
<1>1. k \in 0..Size /\ \A i \in 0..k - 1 : i \in Bytes /\ i < n
  BY SizeFacts
<1>2. \A i \in 0..k - 1 : b[i] # Nul
  BY <1>1 DEF IsLine
<1> QED
  BY <1>1, <1>2, LineFacts

LEMMA RestFacts ==
  ASSUME NEW b \in Buffers, NEW n \in 0..Size - 1, IsLine(b, n), NEW to \in 0..n,
         NEW from \in 0..to
  PROVE  /\ Rest(b, from, to) \in Seq(Chars) /\ Len(Rest(b, from, to)) = to - from
         /\ \A i \in 1..to - from : Rest(b, from, to)[i] = b[from + i - 1]
<1>1. to - from \in Nat /\ \A i \in 1..to - from : from + i - 1 \in Bytes /\ from + i - 1 < n
  BY SizeFacts
<1>2. \A i \in 1..to - from : b[from + i - 1] \in Chars
  BY <1>1 DEF Buffers, IsLine
<1>3. Rest(b, from, to) \in [1..to - from -> Chars]
  BY <1>2 DEF Rest
<1> QED
  BY <1>1, <1>3 DEF Rest

LEMMA EmptyFacts == Empty \in Buffers /\ IsLine(Empty, 0)
  BY SizeFacts DEF Empty, Buffers, IsLine

LEMMA ZeroedFacts ==
  ASSUME NEW b \in Buffers, NEW from \in Nat, NEW to \in Nat
  PROVE  /\ Zeroed(b, from, to) \in Buffers
         /\ \A i \in Bytes : i < from => Zeroed(b, from, to)[i] = b[i]
         /\ \A n \in Nat : IsLine(b, n) /\ from <= n /\ n <= to => IsLine(Zeroed(b, from, to), from)
<1>1. Zeroed(b, from, to) \in Buffers
  BY DEF Zeroed, Buffers
<1>2. \A i \in Bytes : Zeroed(b, from, to)[i] = IF i >= from /\ i < to THEN Nul ELSE b[i]
  BY DEF Zeroed
<1>3. \A i \in Bytes : i < from => Zeroed(b, from, to)[i] = b[i]
  BY <1>2, SizeFacts
<1>4. ASSUME NEW n \in Nat, IsLine(b, n), from <= n, n <= to
      PROVE  IsLine(Zeroed(b, from, to), from)
  BY <1>2, <1>4, SizeFacts DEF IsLine
<1> QED
  BY <1>1, <1>3, <1>4

LEMMA StrcpyFacts ==
  ASSUME NEW b \in Buffers, NEW t \in Seq(Chars), NEW at \in Nat, at + Len(t) < Size
  PROVE  /\ Strcpy(b, at, t) \in Buffers
         /\ \A i \in Bytes : i < at => Strcpy(b, at, t)[i] = b[i]
         /\ \A i \in 1..Len(t) : Strcpy(b, at, t)[at + i - 1] = t[i]
         /\ \A n \in Nat : IsLine(b, n) /\ at <= n /\ n <= at + Len(t) + 1 =>
              IsLine(Strcpy(b, at, t), at + Len(t))
<1>1. Len(t) \in Nat /\ \A i \in 1..Len(t) : t[i] \in Chars
  OBVIOUS
<1>2. \A i \in Bytes : Strcpy(b, at, t)[i] =
        IF i >= at /\ i < at + Len(t) THEN t[i - at + 1]
        ELSE IF i = at + Len(t) THEN Nul ELSE b[i]
  BY DEF Strcpy
<1>3. \A i \in Bytes : i >= at /\ i < at + Len(t) => t[i - at + 1] \in Chars
  <2> SUFFICES ASSUME NEW i \in Bytes, i >= at, i < at + Len(t) PROVE t[i - at + 1] \in Chars
    OBVIOUS
  <2>1. i - at + 1 \in 1..Len(t)
    BY <1>1, SizeFacts
  <2> QED
    BY <1>1, <2>1
<1>4. Strcpy(b, at, t) \in Buffers
  <2>1. \A i \in Bytes : b[i] \in Chars \cup {Nul}
    BY DEF Buffers
  <2>2. \A i \in Bytes : Strcpy(b, at, t)[i] \in Chars \cup {Nul}
    BY <1>2, <1>3, <2>1
  <2> QED
    BY <2>2 DEF Strcpy, Buffers
<1>5. \A i \in Bytes : i < at => Strcpy(b, at, t)[i] = b[i]
  BY <1>1, <1>2, SizeFacts
<1>6. ASSUME NEW i \in 1..Len(t) PROVE Strcpy(b, at, t)[at + i - 1] = t[i]
  <2>1. /\ at + i - 1 \in Bytes /\ at + i - 1 >= at /\ at + i - 1 < at + Len(t)
        /\ (at + i - 1) - at + 1 = i
    BY <1>1, SizeFacts
  <2> QED
    BY <1>2, <2>1
<1>7. ASSUME NEW n \in Nat, IsLine(b, n), at <= n, n <= at + Len(t) + 1
      PROVE  IsLine(Strcpy(b, at, t), at + Len(t))
  <2> SUFFICES ASSUME NEW i \in Bytes
               PROVE  (Strcpy(b, at, t)[i] # Nul) <=> (i < at + Len(t))
    BY DEF IsLine
  <2>1. (b[i] # Nul) <=> (i < n)
    BY <1>7 DEF IsLine
  <2>2. i \in Nat
    BY SizeFacts
  <2>3. CASE i < at
    BY <1>1, <1>5, <1>7, <2>1, <2>2, <2>3
  <2>4. CASE i >= at /\ i < at + Len(t)
    BY <1>2, <1>3, <2>4, Alphabet
  <2>5. CASE i = at + Len(t)
    BY <1>1, <1>2, <2>2, <2>5
  <2>6. CASE i > at + Len(t)
    <3>1. ~(i >= at /\ i < at + Len(t)) /\ i # at + Len(t) /\ ~(i < n)
      BY <1>1, <1>7, <2>2, <2>6
    <3> QED
      BY <1>2, <2>1, <2>6, <3>1, <2>2, <1>1
  <2> QED
    BY <1>1, <2>2, <2>3, <2>4, <2>5, <2>6
<1> QED
  BY <1>4, <1>5, <1>6, <1>7

(* It ends with its terminator, and the bytes beyond stay as they are.     *)
LEMMA StrcpyBeyond ==
  ASSUME NEW b \in Buffers, NEW t \in Seq(Chars), NEW at \in Nat, at + Len(t) < Size
  PROVE  /\ Strcpy(b, at, t)[at + Len(t)] = Nul
         /\ \A i \in Bytes : i > at + Len(t) => Strcpy(b, at, t)[i] = b[i]
<1>1. Len(t) \in Nat /\ at + Len(t) \in Bytes
  BY SizeFacts
<1>2. \A i \in Bytes : Strcpy(b, at, t)[i] =
        IF i >= at /\ i < at + Len(t) THEN t[i - at + 1]
        ELSE IF i = at + Len(t) THEN Nul ELSE b[i]
  BY DEF Strcpy
<1> QED
  BY <1>1, <1>2, SizeFacts

(* The string that strcasecmp and cli_add_history see.                     *)
LEMMA StringText ==
  ASSUME NEW b \in Buffers, Terminated(b)
  PROVE  String(b) \in Text
<1> DEFINE T == {n \in Bytes : b[n] = Nul}
           Ends(n) == b[n] = Nul /\ \A i \in 0..n - 1 : b[i] # Nul
           n == CHOOSE j \in Bytes : Ends(j)
<1>1. T # {} /\ T \subseteq Nat
  BY SizeFacts DEF Terminated
<1>2. PICK k \in T : \A y \in T : k <= y
  <2> HIDE DEF T
  <2> QED
    BY <1>1, Least
<1>3. k \in Bytes /\ Ends(k)
  <2>1. k \in Bytes /\ b[k] = Nul
    BY <1>2
  <2>2. ASSUME NEW i \in 0..k - 1 PROVE b[i] # Nul
    <3>1. i \in Bytes /\ ~(k <= i)
      BY <2>1, SizeFacts
    <3> QED
      BY <1>2, <3>1
  <2> QED
    BY <2>1, <2>2
<1>4. n \in Bytes /\ Ends(n)
  <2> HIDE DEF Ends
  <2> QED
    BY <1>3
<1>5. String(b) = Line(b, n)
  BY DEF String, Line
<1> HIDE DEF n
<1>6. n \in 0..Size /\ n \in 0..Size - 1 /\ \A i \in 0..n - 1 : b[i] # Nul
  BY <1>4, SizeFacts
<1> QED
  BY <1>5, <1>6, LineFacts, TextFacts

LEMMA StringIsLine ==
  ASSUME NEW b \in Buffers, NEW n \in 0..Size - 1, IsLine(b, n)
  PROVE  Terminated(b) /\ String(b) = Line(b, n)
<1> DEFINE Ends(j) == b[j] = Nul /\ \A i \in 0..j - 1 : b[i] # Nul
           k == CHOOSE j \in Bytes : Ends(j)
<1>1. n \in Bytes /\ b[n] = Nul
  BY SizeFacts DEF IsLine
<1>2. Ends(n)
  BY <1>1, SizeFacts DEF IsLine
<1>3. k \in Bytes /\ Ends(k)
  <2> HIDE DEF Ends
  <2> QED
    BY <1>1, <1>2
<1>4. String(b) = Line(b, k)
  BY DEF String, Line
<1> HIDE DEF k
<1>5. k = n
  BY <1>1, <1>3, SizeFacts DEF IsLine
<1> QED
  BY <1>1, <1>4, <1>5 DEF Terminated

-----------------------------------------------------------------------------
(* The invariant *)

EditType ==
  /\ pc \in {"read", "done", "undefined"}
  /\ cmd \in Buffers /\ l \in 0..Size - 1 /\ cursor \in 0..l
  /\ state \in {"login", "normal"} \cup Passwords
  /\ history \in [Slots -> Text \cup {None}]
  /\ screen \in Screens /\ spoilt \subseteq {"line", "screen"}

(* In normal state the row shows the line, at a password prompt nothing.   *)
ScreenInv ==
  pc = "read" /\ spoilt = {} =>
    /\ state = "normal" => Shows(screen, Contents, cursor)
    /\ state \in Passwords => Shows(screen, <<>>, 0)

EditInv == EditType /\ BufferIsLine /\ ScreenInv

(* What an edit must leave, and a prompt.                                  *)
Sound(b, n, cur, s, sp) ==
  /\ b \in Buffers /\ n \in 0..Size - 1 /\ cur \in 0..n /\ sp \subseteq {"line", "screen"}
  /\ "line" \notin sp => IsLine(b, n)
  /\ sp = {} => /\ s \in Screens
                /\ state = "normal" => Shows(s, Line(b, n), cur)
                /\ state \in Passwords => Shows(s, <<>>, 0)

LEMMA Now ==
  ASSUME EditInv, pc = "read"
  PROVE  /\ cmd \in Buffers /\ l \in Nat /\ l <= Size - 1 /\ l \in 0..Size - 1 /\ l \in 0..l
         /\ cursor \in Nat /\ cursor <= l /\ cursor \in 0..l
         /\ screen \in Screens /\ spoilt \subseteq {"line", "screen"}
         /\ "line" \notin spoilt => IsLine(cmd, l)
         /\ spoilt = {} => /\ state = "normal" => Shows(screen, Line(cmd, l), cursor)
                           /\ state \in Passwords => Shows(screen, <<>>, 0)
         /\ Contents = Line(cmd, l)
<1>1. cmd \in Buffers /\ l \in 0..Size - 1 /\ cursor \in 0..l /\ screen \in Screens
      /\ spoilt \subseteq {"line", "screen"}
  BY DEF EditInv, EditType
<1>2. Contents = Line(cmd, l)
  BY DEF Contents, Line
<1>3. "line" \notin spoilt => IsLine(cmd, l)
  BY DEF EditInv, BufferIsLine, IsLine
<1> QED
  BY <1>1, <1>2, <1>3, SizeFacts DEF EditInv, ScreenInv

LEMMA GoneKeeps ==
  ASSUME NEW how \in {"done", "undefined"}, Gone(how)
  PROVE  EditInv'
<1>1. pc' = how /\ cmd' = Empty /\ l' = 0 /\ cursor' = 0 /\ state' = "login"
      /\ history' = [i \in Slots |-> None] /\ screen' = NewRow /\ spoilt' = {}
  BY DEF Gone
<1>2. EditType'
  <2>1. 0 \in 0..Size - 1 /\ 0 \in 0..0
    BY SizeFacts
  <2>2. history' \in [Slots -> Text \cup {None}]
    BY <1>1
  <2> QED
    BY <1>1, <2>1, <2>2, EmptyFacts, NewRowFacts DEF EditType, Buffers, Screens, Shown, Passwords
<1> QED
  BY <1>1, <1>2 DEF EditInv, BufferIsLine, ScreenInv

(* A step that leaves the session alone.                                   *)
LEMMA SoundKeeps ==
  ASSUME EditInv, pc = "read", NEW b, NEW n, NEW cur, NEW s, NEW sp, Sound(b, n, cur, s, sp),
         cmd' = b, l' = n, cursor' = cur, Show(s, sp), UNCHANGED <<pc, state, history>>
  PROVE  EditInv'
<1>1. spoilt' = sp /\ screen' = IF sp = {} THEN s ELSE NewRow
  BY DEF Show
<1>2. screen' \in Screens
  BY <1>1, NewRowFacts DEF Sound
<1>3. EditType'
  <2>1. /\ cmd' \in Buffers /\ l' \in 0..Size - 1 /\ cursor' \in 0..l'
        /\ spoilt' \subseteq {"line", "screen"}
    BY <1>1 DEF Sound
  <2>2. pc' = pc /\ state' = state /\ history' = history
    OBVIOUS
  <2> QED
    BY <1>2, <2>1, <2>2 DEF EditInv, EditType, Buffers, Screens, Shown, Passwords
<1>4. BufferIsLine'
  <2>1. "line" \notin sp => IsLine(b, n)
    BY DEF Sound
  <2> QED
    BY <1>1, <2>1 DEF BufferIsLine, IsLine
<1>5. ScreenInv'
  <2> SUFFICES ASSUME sp = {}
               PROVE  /\ state = "normal" => Shows(s, Line(b, n), cur)
                      /\ state \in Passwords => Shows(s, <<>>, 0)
    <3>1. Contents' = Line(b, n)
      BY DEF Contents, Line
    <3> QED
      BY <1>1, <3>1 DEF ScreenInv, Passwords, Shows, Screens, Shown, Trimmed, Face, Cell, Columns
  <2> QED
    BY DEF Sound
<1> QED
  BY <1>3, <1>4, <1>5 DEF EditInv

LEMMA EditKeeps ==
  ASSUME EditInv, pc = "read", NEW b, NEW n, NEW cur, NEW s, NEW sp, Sound(b, n, cur, s, sp),
         Edit(b, n, cur, s, sp)
  PROVE  EditInv'
  BY SoundKeeps DEF Edit, session

LEMMA IgnoredKeeps == ASSUME EditInv, pc = "read", Ignored PROVE EditInv'
<1>1. Sound(cmd, l, cursor, screen, spoilt)
  BY Now DEF Sound
<1> QED
  BY <1>1, EditKeeps DEF Ignored

-----------------------------------------------------------------------------
(* The end of a line *)

LEMMA AddHistoryType ==
  ASSUME EditInv, NEW t \in Text
  PROVE  AddHistory(t) \in [Slots -> Text \cup {None}]
<1>1. history \in [Slots -> Text \cup {None}] /\ MaxHistory \in Nat \ {0}
  BY EditorAssumption DEF EditInv, EditType
<1>2. \A i \in Slots : i < MaxHistory - 1 => i + 1 \in Slots
  BY <1>1 DEF Slots
<1>3. \A i \in Slots : history[i] \in Text \cup {None}
  BY <1>1
<1>4. \A i \in Slots : (IF i < MaxHistory - 1 THEN history[i + 1] ELSE t) \in Text \cup {None}
  BY <1>2, <1>3
<1>5. \A j : [history EXCEPT ![j] = t] \in [Slots -> Text \cup {None}]
  BY <1>1
<1>6. [i \in Slots |-> IF i < MaxHistory - 1 THEN history[i + 1] ELSE t]
        \in [Slots -> Text \cup {None}]
  BY <1>4
<1> QED
  BY <1>5, <1>6 DEF AddHistory

LEMMA OutcomeState ==
  ASSUME NEW n, state \in {"login", "normal"} \cup Passwords, NEW o \in Outcomes(n)
  PROVE  o.state \in {"login", "normal"} \cup Passwords
<1>1. CASE state = "login"
  BY <1>1 DEF Outcomes, Passwords
<1>2. CASE state = "password"
  BY <1>2 DEF Outcomes, Passwords
<1>3. CASE state = "enable_password"
  BY <1>3 DEF Outcomes, Passwords
<1>4. CASE state = "normal"
  BY <1>4 DEF Outcomes, Passwords
<1> QED
  BY <1>1, <1>2, <1>3, <1>4 DEF Passwords

LEMMA PromptSound ==
  ASSUME NEW st \in {"login", "normal"} \cup Passwords, NEW row \in Screens,
         Len(row.cells) <= row.col, NEW t \in Seq(Chars), NEW cur \in 0..Len(t)
  PROVE  /\ ShowPrompt(row, st, t, cur) \in Screens
         /\ st = "normal" => Shows(ShowPrompt(row, st, t, cur), t, cur)
         /\ st \in Passwords => Shows(ShowPrompt(row, st, t, cur), <<>>, 0)
<1>1. Len(t) \in Nat /\ Len(t) - cur \in 0..Len(t) /\ Len(t) - (Len(t) - cur) = cur
  OBVIOUS
<1>2. Shows(Prompted(row, t, Len(t) - cur), t, cur)
  <2>1. Shows(Prompted(row, t, Len(t) - cur), t, Len(t) - (Len(t) - cur))
    BY <1>1, PromptShows
  <2> QED
    BY <1>1, <2>1
<1>3. Shows(Prompted(row, <<>>, 0), <<>>, 0)
  <2>1. <<>> \in Seq(Chars) /\ Len(<<>>) = 0 /\ 0 \in 0..Len(<<>>) /\ 0 - 0 = 0
    OBVIOUS
  <2>2. Shows(Prompted(row, <<>>, 0), <<>>, Len(<<>>) - 0)
    BY <2>1, PromptShows
  <2> QED
    BY <2>1, <2>2
<1> QED
  BY <1>2, <1>3 DEF ShowPrompt, Shows, Passwords

(* A line entered, or asked help on (again).                               *)
LEMMA EndLineKeeps ==
  ASSUME EditInv, pc = "read", NEW b \in Buffers, NEW n \in 0..Size - 1, NEW s \in Screens,
         NEW sp \in SUBSET {"line", "screen"}, NEW again \in BOOLEAN,
         again => n >= 1 /\ ("line" \notin sp => IsLine(b, n)),
         EndLine(b, n, s, sp, again)
  PROVE  EditInv'
<1>1. CASE Gone("undefined")
  BY <1>1, GoneKeeps
<1>2. CASE Gone("done")
  BY <1>2, GoneKeeps
<1>3. CASE ~Gone("undefined") /\ ~Gone("done")
  <2>1. Terminated(b)
    BY <1>3 DEF EndLine, Undefined
  <2>2. PICK o \in Outcomes(n) :
          LET row == IF o.prints THEN NewRow ELSE s IN
          /\ state' = o.state
          /\ l' = IF again THEN n - 1 ELSE 0
          /\ cmd' = IF again THEN [b EXCEPT ![n - 1] = Nul] ELSE Empty
          /\ cursor' = l'
          /\ Show(ShowPrompt(row, o.state, [i \in 1..l' |-> cmd'[i - 1]], l'),
                  (IF again THEN sp \cap {"line"} ELSE {})
                  \cup IF Len(row.cells) > row.col THEN {"screen"} ELSE {})
    BY <1>3 DEF EndLine, Undefined
  <2>3. /\ history' = history \/ history' = AddHistory(String(b))
        /\ UNCHANGED pc
    BY <1>3 DEF EndLine, Undefined
  <2> DEFINE row == IF o.prints THEN NewRow ELSE s
             t == Line(cmd', l')
             new == ShowPrompt(row, o.state, t, l')
  <2>4. row \in Screens
    BY NewRowFacts
  <2>5. state' \in {"login", "normal"} \cup Passwords
    BY <2>2, OutcomeState DEF EditInv, EditType
  <2>6. history' \in [Slots -> Text \cup {None}]
    <3>1. String(b) \in Text
      BY <2>1, StringText
    <3> QED
      BY <2>3, <3>1, AddHistoryType DEF EditInv, EditType
  <2>7. /\ screen' = IF spoilt' = {} THEN new ELSE NewRow
        /\ spoilt' = (IF again THEN sp \cap {"line"} ELSE {})
                      \cup (IF Len(row.cells) > row.col THEN {"screen"} ELSE {})
    BY <2>2 DEF Show, Line
  <2> HIDE DEF row
  <2>8. l' \in 0..Size - 1 /\ cursor' = l' /\ l' \in Nat
    BY <2>2, SizeFacts
  <2>9. cmd' \in Buffers
    <3>1. [b EXCEPT ![n - 1] = Nul] \in Buffers
      BY DEF Buffers
    <3> QED
      BY <2>2, <3>1, EmptyFacts
  <2>10. "line" \notin spoilt' => IsLine(cmd', l')
    <3>1. CASE ~again
      BY <2>2, <3>1, EmptyFacts
    <3>2. CASE again
      <4> SUFFICES ASSUME "line" \notin spoilt' PROVE IsLine([b EXCEPT ![n - 1] = Nul], n - 1)
        BY <2>2, <3>2
      <4>1. IsLine(b, n) /\ n >= 1
        BY <2>7, <3>2
      <4>2. \A i \in Bytes : [b EXCEPT ![n - 1] = Nul][i] = IF i = n - 1 THEN Nul ELSE b[i]
        BY DEF Buffers
      <4> QED
        BY <4>1, <4>2, SizeFacts DEF IsLine
    <3> QED
      BY <3>1, <3>2
  <2>11. spoilt' = {} => /\ new \in Screens
                         /\ state' = "normal" => Shows(new, t, l')
                         /\ state' \in Passwords => Shows(new, <<>>, 0)
    <3> SUFFICES ASSUME spoilt' = {}
                 PROVE  /\ new \in Screens
                        /\ state' = "normal" => Shows(new, t, l')
                        /\ state' \in Passwords => Shows(new, <<>>, 0)
      OBVIOUS
    <3>1. Len(row.cells) <= row.col
      <4>1. ~(Len(row.cells) > row.col)
        BY <2>7
      <4>2. Len(row.cells) \in Nat /\ row.col \in Nat
        BY <2>4, ScreenFields
      <4> QED
        BY <4>1, <4>2
    <3>2. t \in Seq(Chars) /\ Len(t) = l'
      BY <2>8, <2>9, <2>10, WholeLine
    <3>3. l' \in 0..Len(t)
      BY <2>8, <3>2
    <3>4. o.state = state'
      BY <2>2
    <3> HIDE DEF t
    <3> QED
      BY <2>4, <2>5, <3>1, <3>2, <3>3, <3>4, PromptSound
  <2>12. screen' \in Screens
    BY <2>7, <2>11, NewRowFacts
  <2>13. EditType'
    <3>1. spoilt' \subseteq {"line", "screen"}
      BY <2>7
    <3>2. cursor' \in 0..l' /\ pc' = "read"
      BY <2>3, <2>8
    <3> QED
      BY <2>5, <2>6, <2>8, <2>9, <2>12, <3>1, <3>2
      DEF EditType, Buffers, Screens, Shown, Passwords
  <2>14. BufferIsLine'
    BY <2>10 DEF BufferIsLine, IsLine
  <2>15. ScreenInv'
    <3>1. Contents' = Line(cmd', l')
      BY DEF Contents, Line
    <3> QED
      BY <2>7, <2>8, <2>11, <3>1
      DEF ScreenInv, Passwords, Shows, Screens, Shown, Trimmed, Face, Cell, Columns
  <2> QED
    BY <2>13, <2>14, <2>15 DEF EditInv
<1> QED
  BY <1>1, <1>2, <1>3

LEMMA NewlineKeeps == ASSUME EditInv, pc = "read", Newline PROVE EditInv'
<1>1. (IF Echo THEN NewRow ELSE screen) \in Screens
  BY Now, NewRowFacts
<1> QED
  BY <1>1, Now, EndLineKeeps DEF Newline

LEMMA CallbackFailsKeeps == ASSUME EditInv, pc = "read", CallbackFails PROVE EditInv'
  BY Now, EndLineKeeps DEF CallbackFails

LEMMA EotKeeps == ASSUME EditInv, pc = "read", Eot PROVE EditInv'
<1>1. CASE ~Echo /\ EndLine(cmd, l, screen, spoilt, FALSE)
  BY <1>1, Now, EndLineKeeps
<1>2. CASE Echo /\ l = 0 /\ EndLine(Strcpy(cmd, 0, QuitText), Len(QuitText), NewRow, spoilt, FALSE)
  <2>1. QuitText \in Seq(Chars) /\ Len(QuitText) \in 0..Size - 1
    BY EditorAssumption, TextFacts
  <2>2. 0 + Len(QuitText) < Size
    BY <2>1, SizeFacts
  <2>3. Strcpy(cmd, 0, QuitText) \in Buffers
    BY <2>1, <2>2, Now, StrcpyFacts
  <2> QED
    BY <1>2, <2>1, <2>3, Now, NewRowFacts, EndLineKeeps
<1>3. CASE Edit(cmd, l, cursor, screen, spoilt)
  BY <1>3, IgnoredKeeps DEF Ignored
<1> QED
  BY <1>1, <1>2, <1>3 DEF Eot

-----------------------------------------------------------------------------
(* The keys that erase *)

LEMMA Rubbing ==
  ASSUME EditInv, pc = "read", NEW n \in 1..cursor, l = cursor
  PROVE  Sound(Zeroed(cmd, cursor - n, cursor), l - n, cursor - n,
               IF Echo THEN Back(Write(Back(screen, n), Blanks(n)), n) ELSE screen, spoilt)
<1> DEFINE b == Zeroed(cmd, cursor - n, cursor)
           s == Back(Write(Back(screen, n), Blanks(n)), n)
<1>1. n \in Nat /\ cursor - n \in Nat /\ l - n \in 0..Size - 1 /\ l - n = cursor - n
      /\ n \in 0..cursor /\ l - n <= l
  BY Now, SizeFacts
<1>2. b \in Buffers /\ \A i \in Bytes : i < cursor - n => b[i] = cmd[i]
  <2>1. cmd \in Buffers /\ cursor \in Nat
    BY Now
  <2> QED
    BY <1>1, <2>1, ZeroedFacts
<1>3. "line" \notin spoilt => IsLine(b, l - n)
  BY <1>1, Now, ZeroedFacts
<1>4. s \in Screens
  BY <1>1, Now, BackFacts, WriteFacts, BlanksFacts
<1> HIDE DEF b
<1>5. ASSUME spoilt = {}, state = "normal" PROVE Shows(s, Line(b, l - n), cursor - n)
  <2>1. IsLine(cmd, l) /\ IsLine(b, l - n) /\ Shows(screen, Line(cmd, l), cursor)
    BY <1>3, <1>5, Now
  <2> DEFINE t == Line(cmd, l)
             r == Line(b, l - n)
             u == Blanks(n)
  <2>2. t \in Seq(Chars) /\ \A i \in Columns : Cell(t, i) = IF i <= l THEN cmd[i - 1] ELSE Blank
    BY <2>1, Now, WholeLine
  <2>3. r \in Seq(Chars) /\ \A i \in Columns : Cell(r, i) = IF i <= l - n THEN b[i - 1] ELSE Blank
    BY <1>1, <1>2, <2>1, WholeLine
  <2>4. u \in Seq(Chars) /\ Len(u) = n /\ \A i \in 1..n : u[i] = Blank
    BY <1>1, BlanksFacts
  <2>5. Shows(Back(screen, n), t, cursor - n)
    BY <1>1, <2>1, Now, BackShows
  <2> HIDE DEF t, r, u
  <2>6. ASSUME NEW i \in Columns
        PROVE  Cell(r, i) = IF i > cursor - n /\ i <= (cursor - n) + Len(u)
                            THEN u[i - (cursor - n)] ELSE Cell(t, i)
    <3>1. CASE i <= l - n
      <4>1. i - 1 \in Bytes /\ i - 1 < cursor - n /\ i <= l /\ ~(i > cursor - n)
        BY <1>1, <3>1, Now, SizeFacts DEF Columns
      <4> QED
        BY <1>2, <2>2, <2>3, <3>1, <4>1
    <3>2. CASE ~(i <= l - n) /\ i <= l
      <4>1. i > cursor - n /\ i <= (cursor - n) + Len(u) /\ i - (cursor - n) \in 1..n
        BY <1>1, <2>4, <3>2, Now DEF Columns
      <4> QED
        BY <2>3, <2>4, <3>2, <4>1
    <3>3. CASE ~(i <= l)
      <4>1. ~(i <= l - n) /\ ~(i <= (cursor - n) + Len(u))
        BY <1>1, <2>4, <3>3, Now DEF Columns
      <4> QED
        BY <2>2, <2>3, <3>3, <4>1
    <3> QED
      BY <3>1, <3>2, <3>3
  <2>7. Shows(Write(Back(screen, n), u), r, (cursor - n) + Len(u))
    BY <1>1, <2>2, <2>3, <2>4, <2>5, <2>6, WriteShows
  <2>8. (cursor - n) + Len(u) = cursor
    BY <1>1, <2>4, Now
  <2>9. Shows(Back(Write(Back(screen, n), u), n), r, cursor - n)
    BY <1>1, <2>7, <2>8, Now, BackShows
  <2> QED
    BY <2>9 DEF r, u
<1>6. cursor - n \in 0..l - n
  BY <1>1
<1> QED
  BY <1>1, <1>2, <1>3, <1>4, <1>5, <1>6, Now DEF Sound, Echo, Passwords, b

(* The bytes that a shift over n of them leaves.                           *)
LEMMA ShiftedFacts ==
  ASSUME EditInv, pc = "read", NEW n \in 1..cursor, l # cursor, NEW g \in Chars \cup {Nul}
  PROVE  /\ Shifted(n, g) \in Buffers
         /\ \A i \in Bytes : i < cursor - n => Shifted(n, g)[i] = cmd[i]
         /\ \A i \in Bytes : cursor - n <= i /\ i < l - n => Shifted(n, g)[i] = cmd[i + n]
         /\ "line" \notin spoilt /\ l # Size - 1 => IsLine(Shifted(n, g), l - n)
<1> DEFINE At(i) == IF i < Size THEN cmd[i] ELSE g
           j(i) == IF i + n <= l + 1 THEN i + n ELSE l + 1
           b == Shifted(n, g)
<1>1. n \in Nat /\ cursor - n \in Nat /\ l < Size /\ cursor < l
  BY Now, SizeFacts
<1>2. b = [i \in Bytes |-> IF i \in cursor - n..l THEN At(j(i)) ELSE cmd[i]]
  BY DEF Shifted
<1>3. \A i \in Bytes : b[i] = IF i \in cursor - n..l THEN At(j(i)) ELSE cmd[i]
  BY <1>2
<1>4. \A i \in Bytes : i \in cursor - n..l => j(i) \in Nat
  BY <1>1, Now, SizeFacts
<1>5. \A i \in Nat : At(i) \in Chars \cup {Nul}
  BY Now, SizeFacts DEF Buffers
<1>6. b \in Buffers
  <2>1. \A i \in Bytes : cmd[i] \in Chars \cup {Nul}
    BY Now DEF Buffers
  <2> HIDE DEF At, j
  <2>2. \A i \in Bytes : (IF i \in cursor - n..l THEN At(j(i)) ELSE cmd[i]) \in Chars \cup {Nul}
    BY <1>4, <1>5, <2>1
  <2> QED
    BY <1>2, <2>2 DEF Buffers
<1> HIDE DEF b
<1>7. \A i \in Bytes : i < cursor - n => b[i] = cmd[i]
  BY <1>1, <1>3, SizeFacts
<1>8. ASSUME NEW i \in Bytes, cursor - n <= i, i < l - n PROVE b[i] = cmd[i + n]
  <2>1. i \in cursor - n..l /\ i + n <= l + 1 /\ i + n < Size
    BY <1>1, <1>8, Now, SizeFacts
  <2> QED
    BY <1>3, <2>1
<1>9. ASSUME "line" \notin spoilt, l # Size - 1 PROVE IsLine(b, l - n)
  <2>1. IsLine(cmd, l)
    BY <1>9, Now
  <2> SUFFICES ASSUME NEW i \in Bytes PROVE (b[i] # Nul) <=> (i < l - n)
    BY DEF IsLine
  <2>2. i \in Nat
    BY SizeFacts
  <2>3. CASE i < cursor - n
    BY <1>1, <1>7, <2>1, <2>2, <2>3, Now DEF IsLine
  <2>4. CASE cursor - n <= i /\ i < l - n
    <3>1. i + n \in Bytes /\ i + n < l
      BY <1>1, <2>2, <2>4, Now, SizeFacts
    <3> QED
      BY <1>8, <2>1, <2>4, <3>1 DEF IsLine
  <2>5. CASE l - n <= i /\ i <= l
    <3>1. i \in cursor - n..l /\ j(i) \in Bytes /\ j(i) < Size /\ ~(j(i) < l)
      BY <1>1, <1>9, <2>2, <2>5, Now, SizeFacts
    <3>2. b[i] = cmd[j(i)]
      BY <1>3, <3>1
    <3>3. ~(i < l - n)
      BY <1>1, <2>2, <2>5, Now
    <3> HIDE DEF j
    <3> QED
      BY <2>1, <3>1, <3>2, <3>3 DEF IsLine
  <2>6. CASE i > l
    <3>1. ~(i \in cursor - n..l) /\ ~(i < l) /\ ~(i < l - n)
      BY <1>1, <2>2, <2>6, Now
    <3> QED
      BY <1>3, <2>1, <3>1 DEF IsLine
  <2> QED
    BY <1>1, <2>2, <2>3, <2>4, <2>5, <2>6, Now
<1> QED
  BY <1>6, <1>7, <1>8, <1>9 DEF b

LEMMA RubbingInside ==
  ASSUME EditInv, pc = "read", NEW n \in 1..cursor, l # cursor, Echo,
         NEW g \in IF l = Size - 1 THEN Chars \cup {Nul} ELSE {Nul}
  PROVE  Sound(Shifted(n, g), l - n, cursor - n,
               Back(Write(Back(screen, n), Rest(cmd, cursor, l) \o Blanks(n)), l - cursor + n),
               IF l = Size - 1 THEN spoilt \cup {"line"} ELSE spoilt)
<1> DEFINE b == Shifted(n, g)
           sp == IF l = Size - 1 THEN spoilt \cup {"line"} ELSE spoilt
           u == Rest(cmd, cursor, l) \o Blanks(n)
           s == Back(Write(Back(screen, n), u), l - cursor + n)
<1>1. n \in Nat /\ cursor - n \in Nat /\ l - n \in 0..Size - 1 /\ cursor - n \in 0..l - n
      /\ n \in 0..cursor /\ l - n <= l /\ cursor < l /\ l - cursor + n \in Nat
  BY Now, SizeFacts
<1>2. g \in Chars \cup {Nul}
  OBVIOUS
<1>3. /\ b \in Buffers
      /\ \A i \in Bytes : i < cursor - n => b[i] = cmd[i]
      /\ \A i \in Bytes : cursor - n <= i /\ i < l - n => b[i] = cmd[i + n]
      /\ "line" \notin spoilt /\ l # Size - 1 => IsLine(b, l - n)
  BY <1>2, ShiftedFacts
<1> HIDE DEF b
<1>4. sp \subseteq {"line", "screen"} /\ ("line" \notin sp => IsLine(b, l - n))
  BY <1>3, Now
<1>5. ASSUME sp = {}
      PROVE  s \in Screens /\ (state = "normal" => Shows(s, Line(b, l - n), cursor - n))
  <2>1. spoilt = {} /\ IsLine(cmd, l) /\ IsLine(b, l - n)
    BY <1>4, <1>5, Now
  <2> DEFINE rest == Rest(cmd, cursor, l)
  <2>2. /\ rest \in Seq(Chars) /\ Len(rest) = l - cursor
        /\ \A i \in 1..l - cursor : rest[i] = cmd[cursor + i - 1]
    <3>1. l \in 0..l
      BY Now
    <3> QED
      BY <2>1, <3>1, Now, RestFacts
  <2>3. Blanks(n) \in Seq(Chars) /\ Len(Blanks(n)) = n /\ \A i \in 1..n : Blanks(n)[i] = Blank
    BY <1>1, BlanksFacts
  <2> HIDE DEF rest
  <2>4. /\ u \in Seq(Chars) /\ Len(u) = l - cursor + n
        /\ \A i \in 1..l - cursor : u[i] = cmd[cursor + i - 1]
        /\ \A i \in l - cursor + 1..l - cursor + n : u[i] = Blank
    <3>1. u = rest \o Blanks(n)
      BY DEF rest
    <3>2. u \in Seq(Chars) /\ Len(u) = Len(rest) + Len(Blanks(n))
      BY <2>2, <2>3, <3>1
    <3>3. \A i \in 1..Len(rest) : u[i] = rest[i]
      BY <2>2, <2>3, <3>1
    <3>4. \A i \in Len(rest) + 1..Len(rest) + Len(Blanks(n)) : u[i] = Blanks(n)[i - Len(rest)]
      BY <2>2, <2>3, <3>1
    <3>5. \A i \in l - cursor + 1..l - cursor + n :
            i \in Len(rest) + 1..Len(rest) + Len(Blanks(n)) /\ i - Len(rest) \in 1..n
      BY <1>1, <2>2, <2>3, Now, SMTT(30)
    <3>6. \A i \in l - cursor + 1..l - cursor + n : u[i] = Blank
      BY <2>3, <3>4, <3>5
    <3> QED
      BY <2>2, <2>3, <3>2, <3>3, <3>6
  <2> HIDE DEF u
  <2>5. s \in Screens
    BY <1>1, <2>4, Now, BackFacts, WriteFacts
  <2>6. ASSUME state = "normal" PROVE Shows(s, Line(b, l - n), cursor - n)
    <3> DEFINE t == Line(cmd, l)
               r == Line(b, l - n)
    <3>0. l \in Nat /\ cursor \in Nat /\ l <= Size - 1 /\ Size \in Nat /\ cursor < l
          /\ Len(u) = l - cursor + n /\ cursor - n \in Nat /\ n \in Nat /\ l - n >= cursor - n
      BY <1>1, <2>4, Now, SizeFacts
    <3>1. Shows(screen, t, cursor)
      BY <2>1, <2>6, Now
    <3>2. t \in Seq(Chars) /\ \A i \in Columns : Cell(t, i) = IF i <= l THEN cmd[i - 1] ELSE Blank
      <4>1. cmd \in Buffers /\ l \in 0..Size - 1 /\ l \in 0..l
        BY Now
      <4> QED
        BY <2>1, <4>1, WholeLine
    <3>3. r \in Seq(Chars) /\ \A i \in Columns : Cell(r, i) = IF i <= l - n THEN b[i - 1] ELSE Blank
      BY <1>1, <1>3, <2>1, WholeLine
    <3>4. Shows(Back(screen, n), t, cursor - n)
      BY <1>1, <3>1, Now, BackShows
    <3> HIDE DEF t, r
    <3>5. ASSUME NEW i \in Columns
          PROVE  Cell(r, i) = IF i > cursor - n /\ i <= (cursor - n) + Len(u)
                              THEN u[i - (cursor - n)] ELSE Cell(t, i)
      <4>1. CASE i <= cursor - n
        <5>1. i - 1 \in Bytes /\ i - 1 < cursor - n /\ i <= l /\ i <= l - n /\ ~(i > cursor - n)
          BY <1>1, <4>1, Now, SizeFacts DEF Columns
        <5> QED
          BY <1>3, <3>2, <3>3, <5>1
      <4>2. CASE i > cursor - n /\ i <= l - n
        <5>1. /\ i - 1 \in Bytes /\ cursor - n <= i - 1 /\ i - 1 < l - n
              /\ i - (cursor - n) \in 1..l - cursor /\ i <= (cursor - n) + Len(u)
              /\ cursor + (i - (cursor - n)) - 1 = (i - 1) + n
          BY <3>0, <4>2, SizeFacts DEF Columns
        <5>2. b[i - 1] = cmd[(i - 1) + n]
          BY <1>3, <5>1
        <5>3. u[i - (cursor - n)] = cmd[(i - 1) + n]
          BY <2>4, <5>1
        <5> QED
          BY <3>3, <4>2, <5>1, <5>2, <5>3
      <4>3. CASE i > l - n /\ i <= l
        <5>1. /\ i - (cursor - n) \in l - cursor + 1..l - cursor + n /\ ~(i <= l - n)
              /\ i > cursor - n /\ i <= (cursor - n) + Len(u)
          BY <3>0, <4>3 DEF Columns
        <5> QED
          BY <2>4, <3>3, <5>1
      <4>4. CASE i > l
        <5>1. ~(i <= l - n) /\ ~(i <= l) /\ ~(i <= (cursor - n) + Len(u))
          BY <1>1, <2>4, <4>4, Now DEF Columns
        <5> QED
          BY <3>2, <3>3, <5>1
      <4> QED
        BY <1>1, <4>1, <4>2, <4>3, <4>4, Now DEF Columns
    <3>6. Shows(Write(Back(screen, n), u), r, (cursor - n) + Len(u))
      BY <1>1, <2>4, <3>2, <3>3, <3>4, <3>5, WriteShows
    <3>7. (cursor - n) + Len(u) = l /\ l - cursor + n \in 0..l /\ l - (l - cursor + n) = cursor - n
      BY <1>1, <2>4, Now
    <3>8. Shows(Write(Back(screen, n), u), r, l)
      BY <3>6, <3>7
    <3>9. Shows(Back(Write(Back(screen, n), u), l - cursor + n), r, l - (l - cursor + n))
      BY <3>7, <3>8, Now, BackShows
    <3> QED
      BY <3>7, <3>9 DEF r
  <2> QED
    BY <2>5, <2>6
<1>6. state \notin Passwords
  BY DEF Echo
<1> QED
  BY <1>1, <1>3, <1>4, <1>5, <1>6 DEF Sound, b, u

LEMMA RubbedKeeps ==
  ASSUME EditInv, pc = "read", NEW n \in 1..cursor, Rubbed(n) PROVE EditInv'
<1>1. CASE /\ l = cursor
           /\ Edit(Zeroed(cmd, cursor - n, cursor), l - n, cursor - n,
                   IF Echo THEN Back(Write(Back(screen, n), Blanks(n)), n) ELSE screen, spoilt)
  BY <1>1, Rubbing, EditKeeps
<1>2. ASSUME l # cursor, Echo, NEW g \in IF l = Size - 1 THEN Chars \cup {Nul} ELSE {Nul},
             Edit(Shifted(n, g), l - n, cursor - n,
               Back(Write(Back(screen, n), Rest(cmd, cursor, l) \o Blanks(n)), l - cursor + n),
               IF l = Size - 1 THEN spoilt \cup {"line"} ELSE spoilt)
      PROVE  EditInv'
  BY <1>2, RubbingInside, EditKeeps
<1>3. CASE l # cursor /\ ~Echo /\ Edit(cmd, l - n, cursor - n, screen, spoilt \cup {"line"})
  <2>1. l - n \in 0..Size - 1 /\ cursor - n \in 0..l - n
    BY Now, SizeFacts
  <2>2. Sound(cmd, l - n, cursor - n, screen, spoilt \cup {"line"})
    BY <2>1, Now DEF Sound
  <2> QED
    BY <1>3, <2>2, EditKeeps
<1> QED
  BY <1>1, <1>2, <1>3 DEF Rubbed

LEMMA BackspaceKeeps == ASSUME EditInv, pc = "read", Backspace PROVE EditInv'
<1>1. CASE cursor = 0
  BY <1>1, IgnoredKeeps DEF Backspace
<1>2. CASE cursor # 0
  <2>1. 1 \in 1..cursor
    BY <1>2, Now
  <2> QED
    BY <1>2, <2>1, RubbedKeeps DEF Backspace
<1> QED
  BY <1>1, <1>2

(* Going back from a place as long as the bytes satisfy P ends somewhere.  *)
LEMMA RunStart ==
  ASSUME NEW P, NEW c \in Nat
  PROVE  \E n \in 0..c : (\A i \in n..c - 1 : i \in P) /\ (n > 0 => n - 1 \notin P)
<1> DEFINE T == {n \in 0..c : \A i \in n..c - 1 : i \in P}
<1>1. c \in T /\ T \subseteq Nat
  OBVIOUS
<1>2. PICK n \in T : \A y \in T : n <= y
  <2> HIDE DEF T
  <2> QED
    BY <1>1, Least
<1>3. n \in 0..c /\ \A i \in n..c - 1 : i \in P
  BY <1>2
<1>4. n > 0 => n - 1 \notin P
  <2> SUFFICES ASSUME n > 0, n - 1 \in P PROVE FALSE
    OBVIOUS
  <2>1. n - 1 \in 0..c /\ \A i \in n - 1..c - 1 : i \in P
    BY <1>3
  <2>2. n - 1 \in T
    BY <2>1
  <2> QED
    BY <1>2, <1>3, <2>2
<1> QED
  BY <1>3, <1>4

LEMMA WordStartFacts ==
  ASSUME EditInv, pc = "read", cursor # 0
  PROVE  /\ WordStart \in 0..cursor - 1
         /\ \E nb \in WordStart..cursor :
              /\ \A i \in nb..cursor - 1 : cmd[i] = Blank
              /\ \A i \in WordStart..nb - 1 : cmd[i] # Blank
              /\ WordStart > 0 => cmd[WordStart - 1] = Blank /\ WordStart < nb
<1> DEFINE B(n) == (\A i \in n..cursor - 1 : cmd[i] = Blank) /\ (n > 0 => cmd[n - 1] # Blank)
           nb == CHOOSE n \in 0..cursor : B(n)
           W(n) == (\A i \in n..nb - 1 : cmd[i] # Blank) /\ (n > 0 => cmd[n - 1] = Blank)
           w == CHOOSE n \in 0..nb : W(n)
<1>1. cursor \in Nat
  BY Now
<1>2. \E n \in 0..cursor : B(n)
  <2> DEFINE P == {i \in 0..cursor - 1 : cmd[i] = Blank}
  <2>1. PICK n \in 0..cursor : (\A i \in n..cursor - 1 : i \in P) /\ (n > 0 => n - 1 \notin P)
    <3> HIDE DEF P
    <3> QED
      BY <1>1, RunStart
  <2>2. n > 0 => n - 1 \in 0..cursor - 1
    BY <1>1
  <2> QED
    BY <2>1, <2>2
<1>3. nb \in 0..cursor /\ B(nb)
  <2> HIDE DEF B
  <2> QED
    BY <1>2
<1>4. nb \in Nat
  BY <1>1, <1>3
<1> HIDE DEF nb
<1>5. \E n \in 0..nb : W(n)
  <2> DEFINE P == {i \in 0..nb - 1 : cmd[i] # Blank}
  <2>1. PICK n \in 0..nb : (\A i \in n..nb - 1 : i \in P) /\ (n > 0 => n - 1 \notin P)
    <3> HIDE DEF P
    <3> QED
      BY <1>4, RunStart
  <2>2. n > 0 => n - 1 \in 0..nb - 1
    BY <1>4
  <2> QED
    BY <2>1, <2>2
<1>6. w \in 0..nb /\ W(w)
  <2> HIDE DEF W
  <2> QED
    BY <1>5
<1>7. WordStart = w
  BY DEF WordStart, nb
<1> HIDE DEF w
<1>8. w # cursor
  <2> SUFFICES ASSUME w = cursor PROVE FALSE
    OBVIOUS
  <2>1. nb = cursor
    BY <1>1, <1>3, <1>6
  <2> QED
    BY <1>1, <1>3, <1>6, <2>1
<1>9. w > 0 => w < nb
  <2> SUFFICES ASSUME w > 0, w = nb PROVE FALSE
    BY <1>4, <1>6
  <2> QED
    BY <1>3, <1>6
<1>10. WordStart \in 0..cursor - 1 /\ nb \in WordStart..cursor
  BY <1>1, <1>3, <1>6, <1>7, <1>8
<1> QED
  BY <1>3, <1>6, <1>7, <1>9, <1>10

LEMMA EraseWordKeeps == ASSUME EditInv, pc = "read", EraseWord PROVE EditInv'
<1>1. CASE cursor = 0
  BY <1>1, IgnoredKeeps DEF EraseWord
<1>2. CASE cursor # 0
  <2>1. cursor - WordStart \in 1..cursor
    BY <1>2, Now, WordStartFacts
  <2> QED
    BY <1>2, <2>1, RubbedKeeps DEF EraseWord
<1> QED
  BY <1>1, <1>2

(* The whole line is blanked out, and the cursor is back at the prompt.    *)
LEMMA WipedShows ==
  ASSUME EditInv, pc = "read"
  PROVE  /\ Wiped(screen) \in Screens
         /\ spoilt = {} /\ state = "normal" => Shows(Wiped(screen), <<>>, 0)
         /\ spoilt = {} /\ state \in Passwords /\ l = 0 => Shows(Wiped(screen), <<>>, 0)
<1> DEFINE u == Blanks(l - cursor)
           v == Blanks(l)
           s1 == Write(screen, u)
           s2 == Write(Back(s1, l), v)
<1>1. l \in Nat /\ cursor \in Nat /\ l - cursor \in Nat /\ screen \in Screens
  BY Now
<1>2. /\ u \in Seq(Chars) /\ Len(u) = l - cursor /\ \A i \in 1..l - cursor : u[i] = Blank
      /\ v \in Seq(Chars) /\ Len(v) = l /\ \A i \in 1..l : v[i] = Blank
  BY <1>1, BlanksFacts
<1>3. Wiped(screen) = Back(s2, l)
  BY DEF Wiped
<1> HIDE DEF u, v
<1>4. Wiped(screen) \in Screens
  BY <1>1, <1>2, <1>3, WriteFacts, BackFacts, SMTT(30)
<1>5. ASSUME NEW t \in Seq(Chars), NEW cur \in Nat, cur + (l - cursor) = l,
             Shows(screen, t, cur), \A i \in Columns : i > l => Cell(t, i) = Blank
      PROVE  Shows(Wiped(screen), <<>>, 0)
  <2> DEFINE r == [i \in 1..cur |-> Cell(t, i)]
  <2>1. r \in Seq(Chars) /\ Len(r) = cur /\ \A i \in 1..cur : r[i] = Cell(t, i)
    <3>1. \A i \in 1..cur : Cell(t, i) \in Chars
      BY Alphabet DEF Cell
    <3>2. r \in [1..cur -> Chars]
      BY <3>1
    <3> QED
      BY <3>2
  <2> HIDE DEF r
  <2>2. ASSUME NEW i \in Columns
        PROVE  Cell(r, i) = IF i > cur /\ i <= cur + Len(u) THEN u[i - cur] ELSE Cell(t, i)
    <3>1. CASE i <= cur
      <4>1. i \in 1..cur /\ ~(i > cur)
        BY <3>1 DEF Columns
      <4> QED
        BY <2>1, <4>1 DEF Cell
    <3>2. CASE i > cur /\ i <= l
      <4>1. i - cur \in 1..l - cursor /\ i <= cur + Len(u) /\ ~(i <= cur)
        BY <1>1, <1>2, <1>5, <3>2 DEF Columns
      <4>2. Cell(r, i) = Blank
        BY <2>1, <4>1 DEF Cell
      <4> QED
        BY <1>2, <3>2, <4>1, <4>2
    <3>3. CASE i > cur /\ i > l
      <4>1. ~(i <= cur + Len(u)) /\ ~(i <= cur)
        BY <1>1, <1>2, <1>5, <3>3 DEF Columns
      <4>2. Cell(r, i) = Blank
        BY <2>1, <4>1 DEF Cell
      <4> QED
        BY <1>5, <3>3, <4>1, <4>2
    <3> QED
      BY <1>1, <3>1, <3>2, <3>3 DEF Columns
  <2>3. Shows(s1, r, cur + Len(u))
    BY <1>2, <1>5, <2>1, <2>2, WriteShows
  <2>4. Shows(s1, r, l)
    BY <1>2, <1>5, <2>3
  <2>5. Shows(Back(s1, l), r, 0)
    <3>1. Shows(Back(s1, l), r, l - l)
      <4>1. l \in 0..l
        BY <1>1
      <4> QED
        BY <1>1, <2>4, <4>1, BackShows
    <3> QED
      BY <1>1, <3>1
  <2>6. <<>> \in Seq(Chars)
    OBVIOUS
  <2>7. ASSUME NEW i \in Columns
        PROVE  Cell(<<>>, i) = IF i > 0 /\ i <= 0 + Len(v) THEN v[i - 0] ELSE Cell(r, i)
    <3>1. Cell(<<>>, i) = Blank
      BY DEF Cell, Columns
    <3>2. CASE i <= l
      BY <1>1, <1>2, <3>1, <3>2 DEF Columns
    <3>3. CASE ~(i <= l)
      <4>1. ~(i <= cur)
        BY <1>1, <1>5, <3>3 DEF Columns
      <4>2. Cell(r, i) = Blank
        BY <2>1, <4>1 DEF Cell
      <4> QED
        BY <1>1, <1>2, <3>1, <3>3, <4>2 DEF Columns
    <3> QED
      BY <3>2, <3>3
  <2>8. Shows(s2, <<>>, 0 + Len(v))
    BY <1>2, <2>1, <2>5, <2>6, <2>7, WriteShows
  <2>9. Shows(s2, <<>>, l)
    BY <1>1, <1>2, <2>8
  <2>10. Shows(Back(s2, l), <<>>, l - l)
    <3>1. l \in 0..l
      BY <1>1
    <3> QED
      BY <1>1, <2>9, <3>1, BackShows
  <2> QED
    BY <1>1, <1>3, <2>10
<1>6. ASSUME spoilt = {}, state = "normal" PROVE Shows(Wiped(screen), <<>>, 0)
  <2>1. IsLine(cmd, l) /\ Shows(screen, Line(cmd, l), cursor)
    BY <1>6, Now
  <2>2. Line(cmd, l) \in Seq(Chars)
        /\ \A i \in Columns : Cell(Line(cmd, l), i) = IF i <= l THEN cmd[i - 1] ELSE Blank
    BY <2>1, Now, WholeLine
  <2>3. \A i \in Columns : i > l => Cell(Line(cmd, l), i) = Blank
    BY <1>1, <2>2 DEF Columns
  <2>4. cursor + (l - cursor) = l
    BY <1>1
  <2> QED
    BY <1>1, <1>5, <2>1, <2>2, <2>3, <2>4
<1>7. ASSUME spoilt = {}, state \in Passwords, l = 0 PROVE Shows(Wiped(screen), <<>>, 0)
  <2>1. Shows(screen, <<>>, 0)
    BY <1>7, Now
  <2>2. <<>> \in Seq(Chars) /\ 0 + (l - cursor) = l
        /\ \A i \in Columns : i > l => Cell(<<>>, i) = Blank
    BY <1>7, Now DEF Cell, Columns
  <2> QED
    BY <1>5, <2>1, <2>2
<1> QED
  BY <1>4, <1>6, <1>7

LEMMA ClearLineKeeps == ASSUME EditInv, pc = "read", ClearLine PROVE EditInv'
<1>0. l \in Nat /\ 3 * l \in Nat /\ l <= 3 * l /\ 0 \in 0..Size - 1 /\ 0 \in 0..0 /\ 0 \in Nat /\ 0 <= l
  BY Now, SizeFacts
<1>1. CASE Undefined
  BY <1>1, GoneKeeps DEF Undefined
<1>2. ASSUME NEW to \in Nat, l <= to
      PROVE  Zeroed(cmd, 0, to) \in Buffers /\ ("line" \notin spoilt => IsLine(Zeroed(cmd, 0, to), 0))
  BY <1>0, <1>2, Now, ZeroedFacts
<1>3. ASSUME NEW b PROVE Line(b, 0) = <<>>
  BY DEF Line
<1>4. CASE Echo /\ Edit(Zeroed(cmd, 0, 3 * l), 0, 0, Wiped(screen), spoilt)
  <2> DEFINE b == Zeroed(cmd, 0, 3 * l)
  <2>1. b \in Buffers /\ ("line" \notin spoilt => IsLine(b, 0)) /\ Line(b, 0) = <<>>
    BY <1>0, <1>2, <1>3
  <2> HIDE DEF b
  <2>2. Sound(b, 0, 0, Wiped(screen), spoilt)
    BY <1>0, <1>4, <2>1, Now, WipedShows DEF Sound, Echo
  <2> QED
    BY <1>4, <2>2, EditKeeps DEF b
<1>5. CASE ~Echo /\ Edit(Zeroed(cmd, 0, l), 0, 0, screen, spoilt)
  <2> DEFINE b == Zeroed(cmd, 0, l)
  <2>1. b \in Buffers /\ ("line" \notin spoilt => IsLine(b, 0)) /\ state # "normal"
    BY <1>0, <1>2, <1>5 DEF Echo, Passwords
  <2> HIDE DEF b
  <2>2. Sound(b, 0, 0, screen, spoilt)
    BY <1>0, <1>5, <2>1, Now DEF Sound
  <2> QED
    BY <1>5, <2>2, EditKeeps DEF b
<1> QED
  BY <1>1, <1>4, <1>5 DEF ClearLine

LEMMA KillKeeps == ASSUME EditInv, pc = "read", Kill PROVE EditInv'
<1>1. CASE cursor = l
  BY <1>1, IgnoredKeeps DEF Kill
<1>2. CASE cursor # l
  <2> DEFINE b == Zeroed(cmd, cursor, l)
             u == Blanks(l - cursor)
             s == IF Echo THEN Back(Write(screen, u), l - cursor) ELSE screen
  <2>1. l \in Nat /\ cursor \in Nat /\ cursor <= l /\ l - cursor \in Nat /\ cursor \in 0..cursor
        /\ cursor \in 0..Size - 1
    BY Now, SizeFacts
  <2>2. /\ b \in Buffers /\ ("line" \notin spoilt => IsLine(b, cursor))
        /\ \A i \in Bytes : i < cursor => b[i] = cmd[i]
    BY <2>1, Now, ZeroedFacts
  <2>3. u \in Seq(Chars) /\ Len(u) = l - cursor /\ \A i \in 1..l - cursor : u[i] = Blank
    BY <2>1, BlanksFacts
  <2>4. Edit(b, cursor, cursor, s, spoilt)
    BY <1>2 DEF Kill
  <2> HIDE DEF b, u
  <2>5. s \in Screens
    BY <2>1, <2>3, Now, WriteFacts, BackFacts
  <2>6. ASSUME spoilt = {}, state = "normal" PROVE Shows(s, Line(b, cursor), cursor)
    <3> DEFINE t == Line(cmd, l)
               r == Line(b, cursor)
    <3>1. IsLine(cmd, l) /\ IsLine(b, cursor) /\ Shows(screen, t, cursor)
      BY <2>2, <2>6, Now
    <3>2. t \in Seq(Chars) /\ \A i \in Columns : Cell(t, i) = IF i <= l THEN cmd[i - 1] ELSE Blank
      BY <3>1, Now, WholeLine
    <3>3. r \in Seq(Chars)
          /\ \A i \in Columns : Cell(r, i) = IF i <= cursor THEN b[i - 1] ELSE Blank
      BY <2>1, <2>2, <3>1, WholeLine
    <3> HIDE DEF t, r
    <3>4. ASSUME NEW i \in Columns
          PROVE  Cell(r, i) = IF i > cursor /\ i <= cursor + Len(u) THEN u[i - cursor] ELSE Cell(t, i)
      <4>1. CASE i <= cursor
        <5>1. i - 1 \in Bytes /\ i - 1 < cursor /\ i <= l /\ ~(i > cursor)
          BY <2>1, <4>1, SizeFacts DEF Columns
        <5> QED
          BY <2>2, <3>2, <3>3, <4>1, <5>1
      <4>2. CASE i > cursor /\ i <= l
        <5>1. i - cursor \in 1..l - cursor /\ i <= cursor + Len(u) /\ ~(i <= cursor)
          BY <2>1, <2>3, <4>2 DEF Columns
        <5> QED
          BY <2>3, <3>3, <4>2, <5>1
      <4>3. CASE i > cursor /\ i > l
        <5>1. ~(i <= cursor) /\ ~(i <= l) /\ ~(i <= cursor + Len(u))
          BY <2>1, <2>3, <4>3 DEF Columns
        <5> QED
          BY <3>2, <3>3, <5>1
      <4> QED
        BY <2>1, <4>1, <4>2, <4>3 DEF Columns
    <3>5. Shows(Write(screen, u), r, cursor + Len(u))
      BY <2>1, <2>3, <3>1, <3>2, <3>3, <3>4, WriteShows
    <3>6. cursor + Len(u) = l /\ l - cursor \in 0..l /\ l - (l - cursor) = cursor
      BY <2>1, <2>3
    <3>7. Shows(Back(Write(screen, u), l - cursor), r, l - (l - cursor))
      BY <2>1, <3>5, <3>6, BackShows
    <3> QED
      BY <2>6, <3>6, <3>7 DEF Echo, Passwords, r
  <2>7. Sound(b, cursor, cursor, s, spoilt)
    BY <2>1, <2>2, <2>5, <2>6, Now DEF Sound, Echo
  <2> QED
    BY <2>4, <2>7, EditKeeps
<1> QED
  BY <1>1, <1>2

-----------------------------------------------------------------------------
(* The keys that show the prompt again *)

LEMMA RedrawKeeps == ASSUME EditInv, pc = "read", Redraw PROVE EditInv'
<1>1. CASE ~Echo
  BY <1>1, IgnoredKeeps DEF Redraw
<1>2. CASE Echo
  <2> DEFINE s == Prompted(NewRow, Contents, l - cursor)
             sp == spoilt \ {"screen"}
  <2>1. l \in Nat /\ cursor \in Nat /\ l - cursor \in 0..l /\ l - (l - cursor) = cursor
    BY Now
  <2>2. NewRow \in Screens /\ Len(NewRow.cells) <= NewRow.col
    BY NewRowFacts
  <2>3. ASSUME sp = {} PROVE s \in Screens /\ Shows(s, Line(cmd, l), cursor)
    <3>1. "line" \notin spoilt
      BY <2>3
    <3>2. Contents = Line(cmd, l) /\ Line(cmd, l) \in Seq(Chars) /\ Len(Line(cmd, l)) = l
      BY <3>1, Now, WholeLine
    <3>3. Shows(Prompted(NewRow, Contents, l - cursor), Line(cmd, l), l - (l - cursor))
      BY <2>1, <2>2, <3>2, PromptShows
    <3> QED
      BY <2>1, <3>3 DEF Shows
  <2>4. Sound(cmd, l, cursor, s, sp)
    BY <1>2, <2>3, Now DEF Sound, Echo
  <2> QED
    BY <1>2, <2>4, EditKeeps DEF Redraw
<1> QED
  BY <1>1, <1>2

(* On a row with nothing behind the cursor the line is shown in full.      *)
LEMMA ShownAgain ==
  ASSUME EditInv, pc = "read", NEW row \in Screens, Len(row.cells) <= row.col,
         Edit(cmd, l, cursor, ShowPrompt(row, state, Contents, cursor), Reshown)
  PROVE  EditInv'
<1> DEFINE s == ShowPrompt(row, state, Contents, cursor)
           sp == Reshown
<1>0. sp \subseteq spoilt \cup {"screen"} /\ ("line" \in spoilt => "line" \in sp)
  BY DEF Reshown
<1> HIDE DEF sp
<1>1. ASSUME sp = {}
      PROVE  /\ s \in Screens
             /\ state = "normal" => Shows(s, Line(cmd, l), cursor)
             /\ state \in Passwords => Shows(s, <<>>, 0)
  <2>1. "line" \notin spoilt
    BY <1>0, <1>1
  <2>2. Contents = Line(cmd, l) /\ Line(cmd, l) \in Seq(Chars) /\ Len(Line(cmd, l)) = l
    BY <2>1, Now, WholeLine
  <2>3. state \in {"login", "normal"} \cup Passwords
    BY DEF EditInv, EditType
  <2>4. Contents \in Seq(Chars) /\ cursor \in 0..Len(Contents)
    BY <2>2, Now
  <2> QED
    BY <2>2, <2>3, <2>4, PromptSound
<1>2. Sound(cmd, l, cursor, s, sp)
  BY <1>0, <1>1, Now DEF Sound
<1> QED
  BY <1>2, EditKeeps DEF sp

LEMMA CallbackPrintsKeeps == ASSUME EditInv, pc = "read", CallbackPrints PROVE EditInv'
<1>1. NewRow \in Screens /\ Len(NewRow.cells) <= NewRow.col
  BY NewRowFacts
<1> QED
  BY <1>1, ShownAgain DEF CallbackPrints

LEMMA ListAllKeeps ==
  ASSUME EditInv, pc = "read", NEW n, ListAll(n) PROVE EditInv'
<1> DEFINE row == [NewRow EXCEPT !.col = IF n % 4 = 3 THEN 1 ELSE 0]
<1>1. row \in Screens /\ Len(row.cells) <= row.col
  <2>1. NewRow.cells = <<>> /\ NewRow \in Screens
    BY NewRowFacts
  <2>2. \A k \in Nat : [NewRow EXCEPT !.col = k] \in Screens
                       /\ [NewRow EXCEPT !.col = k].cells = <<>>
                       /\ [NewRow EXCEPT !.col = k].col = k
    BY <2>1 DEF Screens
  <2>3. (IF n % 4 = 3 THEN 1 ELSE 0) \in Nat
    OBVIOUS
  <2> HIDE DEF row
  <2>4. row \in Screens /\ row.cells = <<>> /\ row.col \in Nat
    BY <2>2, <2>3 DEF row
  <2> QED
    BY <2>4
<1> HIDE DEF row
<1> QED
  BY <1>1, ShownAgain DEF ListAll, row

LEMMA BareRow ==
  ASSUME NEW s, Shows(s, <<>>, 0) PROVE s \in Screens /\ Len(s.cells) <= s.col
<1>1. s \in Screens /\ Trimmed(s.cells) /\ s.col = 1 + 0
      /\ \A i \in Columns : Cell(s.cells, i) = Face(<<>>, i)
  BY DEF Shows
<1>2. Len(s.cells) \in Nat
  BY <1>1, ScreenFields
<1>3. ~(Len(s.cells) > 1)
  <2> SUFFICES ASSUME Len(s.cells) > 1 PROVE FALSE
    OBVIOUS
  <2>1. Len(s.cells) \in Columns /\ Len(s.cells) # 1 /\ Len(s.cells) > 0
        /\ ~(Len(s.cells) - 1 <= 0)
    <3>1. \A n \in Nat : n > 1 => n \in Columns /\ n # 1 /\ n > 0 /\ ~(n - 1 <= 0)
      BY DEF Columns
    <3> QED
      BY <1>2, <3>1, Zenon
  <2>2. Face(<<>>, Len(s.cells)) = Blank
    <3>1. Len(<<>>) = 0
      OBVIOUS
    <3> QED
      BY <2>1, <3>1, Zenon DEF Face, Cell
  <2>3. Cell(s.cells, Len(s.cells)) = s.cells[Len(s.cells)]
    BY <1>2 DEF Cell
  <2> QED
    BY <1>1, <2>1, <2>2, <2>3 DEF Trimmed
<1> QED
  BY <1>1, <1>2, <1>3

LEMMA CtrlZKeeps == ASSUME EditInv, pc = "read", CtrlZ PROVE EditInv'
<1>1. CASE Ignored
  BY <1>1, IgnoredKeeps
<1>2. CASE Undefined
  BY <1>2, GoneKeeps DEF Undefined
<1>3. CASE ~Ignored /\ ~Undefined
  <2> DEFINE b == Zeroed(cmd, 0, 3 * l)
             s == ShowPrompt(Wiped(screen), state, <<>>, 0)
             sp == IF l > 0 THEN {"line", "screen"} ELSE spoilt
  <2>1. cmd' = b /\ Show(s, sp) /\ UNCHANGED <<pc, l, cursor, state, history>>
    BY <1>3 DEF CtrlZ
  <2>2. l \in Nat /\ 3 * l \in Nat /\ cmd \in Buffers /\ l \in 0..Size - 1 /\ cursor \in 0..l
        /\ 0 \in Nat /\ spoilt \subseteq {"line", "screen"}
    BY Now
  <2>3. b \in Buffers
    BY <2>2, ZeroedFacts
  <2>4. Sound(b, l, cursor, s, sp)
    <3>1. CASE l > 0
      BY <2>2, <2>3, <3>1 DEF Sound
    <3>2. CASE ~(l > 0)
      <4>1. l = 0 /\ cursor = 0 /\ 0 <= l /\ l <= 3 * l /\ sp = spoilt
        BY <2>2, <3>2
      <4>2. "line" \notin spoilt => IsLine(b, l)
        <5>1. "line" \notin spoilt => IsLine(b, 0)
          BY <2>2, <4>1, Now, ZeroedFacts
        <5> QED
          BY <4>1, <5>1
      <4> HIDE DEF b
      <4>3. Line(b, l) = <<>> /\ <<>> \in Seq(Chars) /\ 0 \in 0..Len(<<>>)
        BY <4>1 DEF Line
      <4>4. ASSUME spoilt = {}
            PROVE  /\ s \in Screens
                   /\ state = "normal" => Shows(s, <<>>, 0)
                   /\ state \in Passwords => Shows(s, <<>>, 0)
        <5>1. CASE state = "login"
          <6>1. s = Prompted(Wiped(screen), <<>>, 0)
            BY <5>1 DEF ShowPrompt
          <6>2. Wiped(screen) \in Screens
            BY WipedShows
          <6> QED
            BY <4>3, <5>1, <6>1, <6>2, PromptType DEF Passwords
        <5>2. CASE state \in {"normal"} \cup Passwords
          <6>1. Shows(Wiped(screen), <<>>, 0)
            BY <4>1, <4>4, <5>2, WipedShows
          <6>2. Wiped(screen) \in Screens /\ Len(Wiped(screen).cells) <= Wiped(screen).col
            BY <6>1, BareRow
          <6> QED
            BY <4>3, <5>2, <6>2, PromptSound
        <5> QED
          BY <5>1, <5>2 DEF EditInv, EditType
      <4> HIDE DEF s
      <4> QED
        BY <2>2, <2>3, <4>1, <4>2, <4>3, <4>4 DEF Sound
    <3> QED
      BY <3>1, <3>2
  <2> HIDE DEF b, s, sp
  <2> QED
    BY <2>1, <2>4, SoundKeeps
<1> QED
  BY <1>1, <1>2, <1>3

-----------------------------------------------------------------------------
(* The keys that move the cursor *)

(* A text that is there already is written over itself.                    *)
LEMMA RestShown ==
  ASSUME EditInv, pc = "read", spoilt = {}, state = "normal", NEW to \in cursor..l
  PROVE  /\ Rest(cmd, cursor, to) \in Seq(Chars)
         /\ Shows(Write(screen, Rest(cmd, cursor, to)), Line(cmd, l), to)
<1> DEFINE t == Line(cmd, l)
           u == Rest(cmd, cursor, to)
<1>1. IsLine(cmd, l) /\ Shows(screen, t, cursor) /\ cursor \in Nat /\ l \in Nat /\ l <= Size - 1
  BY Now
<1>2. to \in 0..l /\ cursor \in 0..to /\ to \in Nat /\ cursor + (to - cursor) = to
  BY <1>1
<1>3. /\ u \in Seq(Chars) /\ Len(u) = to - cursor
      /\ \A i \in 1..to - cursor : u[i] = cmd[cursor + i - 1]
  BY <1>1, <1>2, Now, RestFacts
<1>4. t \in Seq(Chars) /\ \A i \in Columns : Cell(t, i) = IF i <= l THEN cmd[i - 1] ELSE Blank
  BY <1>1, Now, WholeLine
<1> HIDE DEF t, u
<1>5. ASSUME NEW i \in Columns
      PROVE  Cell(t, i) = IF i > cursor /\ i <= cursor + Len(u) THEN u[i - cursor] ELSE Cell(t, i)
  <2> SUFFICES ASSUME i > cursor, i <= cursor + Len(u) PROVE Cell(t, i) = u[i - cursor]
    OBVIOUS
  <2>1. i - cursor \in 1..to - cursor /\ cursor + (i - cursor) - 1 = i - 1 /\ i <= l
    BY <1>1, <1>2, <1>3 DEF Columns
  <2>2. u[i - cursor] = cmd[i - 1]
    BY <1>3, <2>1
  <2> QED
    BY <1>4, <2>1, <2>2
<1>6. Shows(Write(screen, u), t, cursor + Len(u))
  BY <1>1, <1>3, <1>4, <1>5, WriteShows
<1> QED
  BY <1>2, <1>3, <1>6 DEF t, u

(* A move of the cursor is sound if the screen follows it.                 *)
LEMMA MoveKeeps ==
  ASSUME EditInv, pc = "read", NEW cur \in 0..l, NEW s, NEW sp \in SUBSET {"line", "screen"},
         "line" \notin sp => "line" \notin spoilt,
         sp = {} /\ Echo => s \in Screens,
         sp = {} => spoilt = {},
         sp = {} /\ state = "normal" => Shows(s, Line(cmd, l), cur),
         Edit(cmd, l, cur, IF Echo THEN s ELSE screen, sp)
  PROVE  EditInv'
<1> DEFINE w == IF Echo THEN s ELSE screen
<1>1. /\ cmd \in Buffers /\ l \in 0..Size - 1 /\ screen \in Screens
      /\ "line" \notin spoilt => IsLine(cmd, l)
  BY Now
<1>2. ASSUME sp = {}
      PROVE  /\ w \in Screens
             /\ state = "normal" => Shows(w, Line(cmd, l), cur)
             /\ state \in Passwords => Shows(w, <<>>, 0)
  <2>1. CASE Echo
    BY <1>2, <2>1 DEF Echo
  <2>2. CASE ~Echo
    BY <1>2, <2>2, Now DEF Echo, Passwords
  <2> QED
    BY <2>1, <2>2
<1>3. Sound(cmd, l, cur, w, sp)
  BY <1>1, <1>2 DEF Sound
<1> QED
  BY <1>3, EditKeeps

LEMMA LeftKeeps == ASSUME EditInv, pc = "read", Left PROVE EditInv'
<1>1. CASE cursor = 0
  BY <1>1, IgnoredKeeps DEF Left
<1>2. CASE cursor # 0
  <2>1. cursor - 1 \in 0..l /\ 1 \in 0..cursor /\ cursor \in Nat
    BY <1>2, Now
  <2>2. Back(screen, 1) \in Screens
    BY Now, BackFacts
  <2>3. spoilt = {} /\ state = "normal" => Shows(Back(screen, 1), Line(cmd, l), cursor - 1)
    BY <2>1, Now, BackShows
  <2>4. Edit(cmd, l, cursor - 1, IF Echo THEN Back(screen, 1) ELSE screen, spoilt)
    BY <1>2 DEF Left
  <2> QED
    BY <2>1, <2>2, <2>3, <2>4, Now, MoveKeeps
<1> QED
  BY <1>1, <1>2

LEMMA RightKeeps == ASSUME EditInv, pc = "read", Right PROVE EditInv'
<1>1. CASE cursor = l
  BY <1>1, IgnoredKeeps DEF Right
<1>2. CASE cursor # l
  <2> DEFINE s == Write(screen, <<cmd[cursor]>>)
  <2>1. cursor \in Nat /\ l \in Nat /\ cursor + 1 \in 0..l /\ cursor + 1 \in cursor..l
        /\ cursor \in Bytes /\ cursor < l
    BY <1>2, Now, SizeFacts
  <2>2. Rest(cmd, cursor, cursor + 1) = <<cmd[cursor]>>
    BY <2>1 DEF Rest
  <2>3. spoilt = {} /\ state = "normal" => Shows(s, Line(cmd, l), cursor + 1)
    <3>1. spoilt = {} /\ state = "normal" =>
            Shows(Write(screen, Rest(cmd, cursor, cursor + 1)), Line(cmd, l), cursor + 1)
      BY <2>1, RestShown
    <3> QED
      BY <2>2, <3>1
  <2>4. spoilt = {} => s \in Screens
    <3> SUFFICES ASSUME spoilt = {} PROVE s \in Screens
      OBVIOUS
    <3>1. cmd[cursor] \in Chars
      BY <2>1, Now DEF IsLine, Buffers
    <3>2. <<cmd[cursor]>> \in Seq(Chars)
      BY <3>1
    <3> QED
      BY <3>2, Now, WriteFacts
  <2>5. Edit(cmd, l, cursor + 1, IF Echo THEN s ELSE screen, spoilt)
    BY <1>2 DEF Right
  <2> HIDE DEF s
  <2> QED
    BY <2>1, <2>3, <2>4, <2>5, Now, MoveKeeps
<1> QED
  BY <1>1, <1>2

LEMMA EndKeeps == ASSUME EditInv, pc = "read", End PROVE EditInv'
<1>1. CASE cursor = l
  BY <1>1, IgnoredKeeps DEF End
<1>2. CASE cursor # l
  <2> DEFINE s == Write(screen, Rest(cmd, cursor, l))
  <2>1. cursor \in Nat /\ l \in Nat /\ l \in 0..l /\ l \in cursor..l
    BY Now
  <2>2. spoilt = {} /\ state = "normal" => Shows(s, Line(cmd, l), l)
    BY <2>1, RestShown
  <2>3. spoilt = {} => s \in Screens
    BY <2>1, Now, RestFacts, WriteFacts
  <2>4. Edit(cmd, l, l, IF Echo THEN s ELSE screen, spoilt)
    BY <1>2 DEF End
  <2> HIDE DEF s
  <2> QED
    BY <2>1, <2>2, <2>3, <2>4, Now, MoveKeeps
<1> QED
  BY <1>1, <1>2

(* Behind a prompt that is not at the start of its row the cursor is lost; *)
(* elsewhere it is back where the row of the prompt begins.                *)
LEMMA HomeKeeps == ASSUME EditInv, pc = "read", Home PROVE EditInv'
<1>1. CASE cursor = 0
  BY <1>1, IgnoredKeeps DEF Home
<1>2. CASE cursor # 0
  <2> DEFINE s == [screen EXCEPT !.col = 1]
             sp == IF Echo /\ screen.indent THEN spoilt \cup {"screen"} ELSE spoilt
  <2>1. 0 \in 0..l /\ sp \in SUBSET {"line", "screen"} /\ (sp = {} => spoilt = {})
        /\ ("line" \notin sp => "line" \notin spoilt)
    BY Now
  <2>2. s \in Screens /\ s.cells = screen.cells /\ s.col = 1
    <3>1. screen \in Screens
      BY Now
    <3> QED
      BY <3>1 DEF Screens
  <2>3. Edit(cmd, l, 0, IF Echo THEN s ELSE screen, sp)
    BY <1>2 DEF Home
  <2> HIDE DEF s
  <2>4. spoilt = {} /\ state = "normal" => Shows(s, Line(cmd, l), 0)
    <3> SUFFICES ASSUME spoilt = {}, state = "normal" PROVE Shows(s, Line(cmd, l), 0)
      OBVIOUS
    <3>1. Shows(screen, Line(cmd, l), cursor)
      BY Now
    <3> QED
      BY <2>2, <3>1 DEF Shows
  <2> HIDE DEF sp
  <2> QED
    BY <2>1, <2>2, <2>3, <2>4, MoveKeeps
<1> QED
  BY <1>1, <1>2

-----------------------------------------------------------------------------
(* Recall and completion *)

LEMMA UnchangedKeeps ==
  ASSUME EditInv, UNCHANGED <<pc, cmd, l, cursor, state, history, screen, spoilt>>
  PROVE  EditInv'
<1>1. EditType'
  BY DEF EditInv, EditType, Buffers, Screens, Shown, Passwords
<1>2. BufferIsLine'
  BY DEF EditInv, BufferIsLine
<1>3. ScreenInv'
  BY DEF EditInv, ScreenInv, Passwords, Contents, Shows, Screens, Shown, Trimmed, Face, Cell, Columns
<1> QED
  BY <1>1, <1>2, <1>3 DEF EditInv

LEMMA RecallKeeps ==
  ASSUME EditInv, pc = "read", Echo, NEW i, Recall(i) PROVE EditInv'
<1>1. CASE Undefined
  BY <1>1, GoneKeeps DEF Undefined
<1>2. CASE UNCHANGED <<pc, line, lastchar, session, screen, spoilt>>
  BY <1>2, UnchangedKeeps DEF line, session
<1>3. CASE ~Undefined /\ ~(UNCHANGED <<pc, line, lastchar, session, screen, spoilt>>)
  <2> DEFINE t == history[i]
             b == Strcpy(Empty, 0, t)
             s == Write(Wiped(screen), t)
             sp == IF spoilt = {} THEN {} ELSE {"screen"}
  <2>1. /\ i \in Held /\ cmd' = b /\ l' = Len(t) /\ cursor' = l' /\ Show(s, sp)
        /\ UNCHANGED <<pc, state, history>>
    BY <1>3 DEF Recall, session
  <2>2. t \in Text
    <3>1. i \in Slots /\ history[i] # None
      BY <2>1 DEF Held
    <3> QED
      BY <3>1 DEF EditInv, EditType
  <2> HIDE DEF t
  <2>3. t \in Seq(Chars) /\ Len(t) \in 0..Size - 1 /\ Len(t) \in Nat
    BY <2>2, TextFacts, SizeFacts
  <2>4. /\ b \in Buffers /\ IsLine(b, Len(t))
        /\ \A j \in 1..Len(t) : b[0 + j - 1] = t[j]
    <3>1. 0 \in Nat /\ 0 + Len(t) < Size /\ 0 <= 0 /\ 0 <= 0 + Len(t) + 1 /\ 0 + Len(t) = Len(t)
      BY <2>3, SizeFacts
    <3>2. /\ b \in Buffers
          /\ \A j \in 1..Len(t) : b[0 + j - 1] = t[j]
          /\ IsLine(b, 0 + Len(t))
      BY <2>3, <3>1, EmptyFacts, StrcpyFacts
    <3> QED
      BY <3>1, <3>2
  <2> HIDE DEF b
  <2>5. s \in Screens
    BY <2>3, WipedShows, WriteFacts
  <2>6. ASSUME spoilt = {}, state = "normal" PROVE Shows(s, Line(b, Len(t)), Len(t))
    <3> DEFINE r == Line(b, Len(t))
    <3>1. Shows(Wiped(screen), <<>>, 0) /\ <<>> \in Seq(Chars) /\ 0 \in Nat
      BY <2>6, WipedShows
    <3>2. r \in Seq(Chars) /\ \A j \in Columns : Cell(r, j) = IF j <= Len(t) THEN b[j - 1] ELSE Blank
      <4>1. Len(t) \in 0..Len(t)
        BY <2>3
      <4> QED
        BY <2>3, <2>4, <4>1, WholeLine
    <3> HIDE DEF r
    <3>3. ASSUME NEW j \in Columns
          PROVE  Cell(r, j) = IF j > 0 /\ j <= 0 + Len(t) THEN t[j - 0] ELSE Cell(<<>>, j)
      <4>1. CASE j <= Len(t)
        <5>1. j \in 1..Len(t) /\ 0 + j - 1 = j - 1 /\ j > 0 /\ j <= 0 + Len(t) /\ j - 0 = j
          BY <2>3, <4>1 DEF Columns
        <5> QED
          BY <2>4, <3>2, <4>1, <5>1
      <4>2. CASE ~(j <= Len(t))
        <5>1. ~(j <= 0 + Len(t)) /\ Cell(<<>>, j) = Blank
          BY <2>3, <4>2 DEF Columns, Cell
        <5> QED
          BY <3>2, <4>2, <5>1
      <4> QED
        BY <4>1, <4>2
    <3>4. Shows(s, r, 0 + Len(t))
      BY <2>3, <3>1, <3>2, <3>3, WriteShows
    <3>5. 0 + Len(t) = Len(t)
      BY <2>3
    <3> QED
      BY <3>4, <3>5 DEF r
  <2> HIDE DEF s
  <2>7. Sound(b, Len(t), Len(t), s, sp)
    <3>1. Len(t) \in 0..Len(t) /\ state \notin Passwords
      BY <2>3 DEF Echo
    <3> QED
      BY <2>3, <2>4, <2>5, <2>6, <3>1 DEF Sound
  <2> HIDE DEF sp
  <2> QED
    BY <2>1, <2>7, SoundKeeps
<1> QED
  BY <1>1, <1>2, <1>3

LEMMA UpKeeps == ASSUME EditInv, pc = "read", Up PROVE EditInv'
  BY IgnoredKeeps, RecallKeeps DEF Up

LEMMA DownKeeps == ASSUME EditInv, pc = "read", Down PROVE EditInv'
<1>1. CASE UNCHANGED <<pc, line, lastchar, session, screen, spoilt>>
  BY <1>1, UnchangedKeeps DEF line, session
<1> QED
  BY <1>1, IgnoredKeeps, RecallKeeps DEF Down

LEMMA LastBlankFacts ==
  ASSUME EditInv, pc = "read"
  PROVE  /\ LastBlank \in 0..l /\ (LastBlank > 0 => cmd[LastBlank] = Blank)
         /\ \A j \in LastBlank + 1..l : cmd[j] # Blank
<1> DEFINE B(i) == (i > 0 => cmd[i] = Blank) /\ (\A j \in i + 1..l : cmd[j] # Blank)
           P == {i \in 0..l : cmd[i] # Blank}
<1>1. l \in Nat /\ l + 1 \in Nat
  BY Now
<1>2. PICK n \in 0..l + 1 : (\A i \in n..(l + 1) - 1 : i \in P) /\ (n > 0 => n - 1 \notin P)
  <2> HIDE DEF P
  <2> QED
    BY <1>1, RunStart
<1>3. \A j \in n..l : cmd[j] # Blank
  BY <1>1, <1>2
<1>4. \E i \in 0..l : B(i)
  <2>1. CASE n = 0
    <3>1. 0 \in 0..l /\ B(0)
      BY <1>1, <1>3, <2>1
    <3> QED
      BY <3>1
  <2>2. CASE n # 0
    <3>1. n - 1 \in 0..l /\ n > 0 /\ (n - 1) + 1 = n
      BY <1>1, <2>2
    <3>2. B(n - 1)
      BY <1>2, <1>3, <3>1
    <3> QED
      BY <3>1, <3>2
  <2> QED
    BY <2>1, <2>2
<1>5. (CHOOSE i \in 0..l : B(i)) \in 0..l /\ B(CHOOSE i \in 0..l : B(i))
  <2> HIDE DEF B
  <2> QED
    BY <1>4
<1>6. LastBlank = CHOOSE i \in 0..l : B(i)
  BY DEF LastBlank
<1> QED
  BY <1>5, <1>6

LEMMA CompleteOneKeeps ==
  ASSUME EditInv, pc = "read", Echo, cursor = l, NEW name \in Names, CompleteOne(name)
  PROVE  EditInv'
<1> DEFINE lb == LastBlank
           at == IF LastBlank > 0 THEN LastBlank + 1 ELSE 0
           end == at + Len(name)
           blank == Blanks(at - LastBlank)
           w == blank \o name
           b1 == Strcpy(cmd, lb, w)
           b == Strcpy(b1, end, <<Blank>>)
           u == w \o <<Blank>>
           s == Write(Back(screen, l - lb), u)
           sp == spoilt \cup (IF l > end + 1 THEN {"screen"} ELSE {})
                        \cup (IF l > end + 2 THEN {"line"} ELSE {})
<1>1. CASE Undefined
  BY <1>1, GoneKeeps DEF Undefined
<1>2. CASE end + 1 < Size /\ Edit(b, end + 1, end + 1, s, sp)
  <2>1. lb \in Nat /\ lb <= l /\ l \in Nat /\ l <= Size - 1 /\ Size \in Nat /\ lb \in 0..l
    BY Now, LastBlankFacts, SizeFacts
  <2>2. at \in Nat /\ at - lb \in Nat
    BY <2>1
  <2>3. name \in Seq(Chars) /\ Len(name) \in Nat /\ end \in Nat
    BY <2>2, CompletesAssumption
  <2>4. blank \in Seq(Chars) /\ Len(blank) = at - lb
    BY <2>2, BlanksFacts
  <2>5. /\ "line" \notin sp => "line" \notin spoilt /\ l <= end + 2
        /\ sp = {} => spoilt = {} /\ l <= end + 1
        /\ sp \subseteq {"line", "screen"}
    BY <2>1, <2>3, Now
  <2> HIDE DEF lb, at, blank, sp
  <2>6. w \in Seq(Chars) /\ Len(w) = end - lb /\ lb + Len(w) = end /\ Len(w) \in Nat
    <3>1. w \in Seq(Chars) /\ Len(w) = Len(blank) + Len(name)
      BY <2>3, <2>4
    <3> HIDE DEF w
    <3> QED
      BY <2>1, <2>2, <2>3, <2>4, <3>1
  <2> HIDE DEF w, end
  <2>7. <<Blank>> \in Seq(Chars) /\ Len(<<Blank>>) = 1 /\ <<Blank>>[1] = Blank
    BY Alphabet
  <2>8. /\ u \in Seq(Chars) /\ Len(u) = Len(w) + 1 /\ u[Len(w) + 1] = Blank
        /\ \A i \in 1..Len(w) : u[i] = w[i]
    BY <2>6, <2>7
  <2> HIDE DEF u
  <2>9. /\ b1 \in Buffers
        /\ \A i \in Bytes : i < lb => b1[i] = cmd[i]
        /\ \A i \in 1..Len(w) : b1[lb + i - 1] = w[i]
        /\ \A i \in Bytes : i > end => b1[i] = cmd[i]
    <3>1. lb + Len(w) < Size /\ cmd \in Buffers
      BY <1>2, <2>3, <2>6, Now, SizeFacts
    <3> QED
      BY <2>1, <2>6, <3>1, StrcpyFacts, StrcpyBeyond
  <2> HIDE DEF b1
  <2>10. /\ b \in Buffers
         /\ \A i \in Bytes : i < end => b[i] = b1[i]
         /\ b[end] = Blank
         /\ "line" \notin sp => IsLine(b, end + 1)
    <3>1. end + Len(<<Blank>>) < Size /\ end + Len(<<Blank>>) = end + 1
          /\ 1 \in 1..Len(<<Blank>>) /\ end + 1 - 1 = end
      BY <1>2, <2>3, <2>7
    <3>2. /\ b \in Buffers
          /\ \A i \in Bytes : i < end => b[i] = b1[i]
          /\ \A i \in 1..Len(<<Blank>>) : b[end + i - 1] = <<Blank>>[i]
          /\ b[end + Len(<<Blank>>)] = Nul
          /\ \A i \in Bytes : i > end + Len(<<Blank>>) => b[i] = b1[i]
      BY <2>3, <2>7, <2>9, <3>1, StrcpyFacts, StrcpyBeyond
    <3>3. b[end] = Blank
      BY <2>7, <3>1, <3>2
    <3> HIDE DEF b
    <3>4. ASSUME "line" \notin sp, NEW i \in Bytes PROVE (b[i] # Nul) <=> (i < end + 1)
      <4>1. IsLine(cmd, l) /\ l <= end + 2 /\ i \in Nat
        BY <2>5, <3>4, Now, SizeFacts
      <4>2. (cmd[i] # Nul) <=> (i < l)
        BY <4>1 DEF IsLine
      <4>3. CASE i < lb
        <5>1. i < end /\ i < l /\ i < end + 1
          BY <2>1, <2>3, <2>6, <4>1, <4>3
        <5> QED
          BY <2>9, <3>2, <4>2, <4>3, <5>1
      <4>4. CASE lb <= i /\ i < end
        <5>1. i - lb + 1 \in 1..Len(w) /\ lb + (i - lb + 1) - 1 = i /\ i < end + 1
          BY <2>1, <2>3, <2>6, <4>1, <4>4
        <5>2. b[i] = w[i - lb + 1]
          BY <2>9, <3>2, <4>4, <5>1
        <5>3. w[i - lb + 1] \in Chars
          BY <2>6, <5>1
        <5> QED
          BY <5>1, <5>2, <5>3, Alphabet
      <4>5. CASE i = end
        BY <2>3, <3>3, <4>5, Alphabet
      <4>6. CASE i = end + 1
        BY <2>3, <3>1, <3>2, <4>6
      <4>7. CASE i > end + 1
        <5>1. i > end /\ i > end + Len(<<Blank>>) /\ ~(i < l) /\ ~(i < end + 1)
          BY <2>1, <2>3, <3>1, <4>1, <4>7
        <5> QED
          BY <2>9, <3>2, <4>2, <5>1
      <4> QED
        BY <2>1, <2>3, <4>1, <4>3, <4>4, <4>5, <4>6, <4>7
    <3> QED
      BY <3>2, <3>3, <3>4 DEF IsLine
  <2> HIDE DEF b
  <2>11. s \in Screens
    <3>1. l - lb \in Nat
      BY <2>1
    <3> QED
      BY <2>8, <3>1, Now, BackFacts, WriteFacts
  <2>12. ASSUME sp = {}, state = "normal" PROVE Shows(s, Line(b, end + 1), end + 1)
    <3> DEFINE t == Line(cmd, l)
               r == Line(b, end + 1)
    <3>1. IsLine(cmd, l) /\ IsLine(b, end + 1) /\ l <= end + 1 /\ Shows(screen, t, l)
      BY <2>5, <2>10, <2>12, Now
    <3>2. t \in Seq(Chars) /\ \A i \in Columns : Cell(t, i) = IF i <= l THEN cmd[i - 1] ELSE Blank
      BY <3>1, Now, WholeLine
    <3>3. r \in Seq(Chars) /\ \A i \in Columns : Cell(r, i) = IF i <= end + 1 THEN b[i - 1] ELSE Blank
      <4>1. end + 1 \in 0..Size - 1 /\ end + 1 \in 0..end + 1
        BY <1>2, <2>1, <2>3
      <4> QED
        BY <2>10, <3>1, <4>1, WholeLine
    <3>4. Shows(Back(screen, l - lb), t, lb)
      <4>1. l - lb \in 0..l /\ l - (l - lb) = lb
        BY <2>1
      <4>2. Shows(Back(screen, l - lb), t, l - (l - lb))
        BY <2>1, <3>1, <4>1, BackShows
      <4> QED
        BY <4>1, <4>2
    <3> HIDE DEF t, r
    <3>5. ASSUME NEW i \in Columns
          PROVE  Cell(r, i) = IF i > lb /\ i <= lb + Len(u) THEN u[i - lb] ELSE Cell(t, i)
      <4>0. lb + Len(u) = end + 1 /\ end \in Nat /\ lb <= end /\ end + 1 < Size
        BY <1>2, <2>1, <2>3, <2>6, <2>8, SMTT(30)
      <4>1. CASE i <= lb
        <5>1. i - 1 \in Bytes /\ i - 1 < lb /\ i - 1 < end /\ i <= l /\ i <= end + 1 /\ ~(i > lb)
          BY <2>1, <4>0, <4>1, SizeFacts DEF Columns
        <5>2. b[i - 1] = cmd[i - 1]
          BY <2>9, <2>10, <5>1
        <5> QED
          BY <3>2, <3>3, <5>1, <5>2
      <4>2. CASE i > lb /\ i <= end
        <5>1. i - 1 \in Bytes /\ i - 1 < end /\ i <= end + 1 /\ i - lb \in 1..Len(w)
              /\ lb + (i - lb) - 1 = i - 1 /\ i <= lb + Len(u)
          BY <2>1, <2>6, <4>0, <4>2, SizeFacts DEF Columns
        <5>2. b[i - 1] = w[i - lb]
          BY <2>9, <2>10, <5>1
        <5> QED
          BY <2>8, <3>3, <4>2, <5>1, <5>2
      <4>3. CASE i = end + 1
        <5>1. i - 1 = end /\ i - lb = Len(w) + 1 /\ i > lb /\ i <= lb + Len(u) /\ i <= end + 1
          BY <2>1, <2>6, <4>0, <4>3
        <5> QED
          BY <2>8, <2>10, <3>3, <5>1
      <4>4. CASE i > end + 1
        <5>1. ~(i <= end + 1) /\ ~(i <= lb + Len(u)) /\ ~(i <= l)
          BY <2>1, <3>1, <4>0, <4>4 DEF Columns
        <5> QED
          BY <3>2, <3>3, <5>1
      <4>5. i \in Nat
        BY DEF Columns
      <4> QED
        BY <2>1, <4>0, <4>1, <4>2, <4>3, <4>4, <4>5
    <3>6. Shows(s, r, lb + Len(u))
      BY <2>1, <2>8, <3>2, <3>3, <3>4, <3>5, WriteShows
    <3>7. lb + Len(u) = end + 1
      BY <2>1, <2>3, <2>6, <2>8
    <3> QED
      BY <3>6, <3>7 DEF r
  <2> HIDE DEF s
  <2>13. Sound(b, end + 1, end + 1, s, sp)
    <3>1. end + 1 \in 0..Size - 1 /\ end + 1 \in 0..end + 1 /\ state \notin Passwords
      BY <1>2, <2>1, <2>3 DEF Echo
    <3> QED
      BY <2>5, <2>10, <2>11, <2>12, <3>1, Now DEF Sound
  <2> QED
    BY <1>2, <2>13, EditKeeps
<1> QED
  <2>1. end \in Nat /\ Size \in Nat
    <3>1. Len(name) \in Nat /\ LastBlank \in Nat
      BY LastBlankFacts, CompletesAssumption, Now
    <3> QED
      BY <3>1, SizeFacts
  <2>2. Undefined \/ (~(end + 1 >= Size) /\ Edit(b, end + 1, end + 1, s, sp))
    BY DEF CompleteOne
  <2> HIDE DEF end, b, s, sp
  <2>3. ~(end + 1 >= Size) => end + 1 < Size
    BY <2>1
  <2> QED
    BY <1>1, <1>2, <2>2, <2>3

LEMMA TabKeeps == ASSUME EditInv, pc = "read", Tab PROVE EditInv'
<1> DEFINE comps == {name \in Names : <<String(cmd), name>> \in Completes}
<1>1. CASE Ignored
  BY <1>1, IgnoredKeeps
<1>2. CASE Undefined
  BY <1>2, GoneKeeps DEF Undefined
<1>3. ASSUME Echo, cursor = l, NEW name \in comps, CompleteOne(name) PROVE EditInv'
  BY <1>3, CompleteOneKeeps
<1>4. CASE ListAll(Cardinality(comps))
  BY <1>4, ListAllKeeps
<1>5. CASE UNCHANGED <<pc, line, in_history, session, screen, spoilt>>
  BY <1>5, UnchangedKeeps DEF line, session
<1> QED
  BY <1>1, <1>2, <1>3, <1>4, <1>5 DEF Tab

-----------------------------------------------------------------------------
(* The characters *)

LEMMA PutKeeps ==
  ASSUME EditInv, pc = "read", NEW c \in Chars, NEW b \in Buffers, NEW n \in 0..Size - 1, NEW s,
         NEW sp \in SUBSET {"line", "screen"}, cursor + 1 \in 0..n,
         "line" \notin sp => IsLine(b, n),
         sp = {} /\ Echo => s \in Screens,
         sp = {} /\ state = "normal" => Shows(Write(s, <<c>>), Line(b, n), cursor + 1),
         sp = {} /\ ~Echo => s = screen /\ spoilt = {},
         Put(c, b, n, s, sp)
  PROVE  EditInv'
<1>1. CASE EndLine(b, n, NewRow, sp, TRUE)
  <2>1. n >= 1
    BY Now
  <2> QED
    BY <1>1, <2>1, NewRowFacts, EndLineKeeps
<1>2. CASE ~EndLine(b, n, NewRow, sp, TRUE)
  <2> DEFINE w == IF Echo THEN Write(s, <<c>>) ELSE s
  <2>1. /\ cmd' = b /\ l' = n /\ cursor' = cursor + 1 /\ Show(w, sp)
        /\ UNCHANGED <<pc, state, history>>
    BY <1>2 DEF Put, session
  <2>2. <<c>> \in Seq(Chars)
    OBVIOUS
  <2>3. ASSUME sp = {}
        PROVE  /\ w \in Screens
               /\ state = "normal" => Shows(w, Line(b, n), cursor + 1)
               /\ state \in Passwords => Shows(w, <<>>, 0)
    <3>1. CASE Echo
      BY <2>2, <2>3, <3>1, WriteFacts DEF Echo
    <3>2. CASE ~Echo
      BY <2>3, <3>2, Now DEF Echo, Passwords
    <3> QED
      BY <3>1, <3>2
  <2> HIDE DEF w
  <2>4. Sound(b, n, cursor + 1, w, sp)
    BY <2>3 DEF Sound
  <2> QED
    BY <2>1, <2>4, SoundKeeps
<1> QED
  BY <1>1, <1>2

LEMMA AppendCharKeeps ==
  ASSUME EditInv, pc = "read", NEW c \in Chars, AppendChar(c) PROVE EditInv'
<1> DEFINE b == [cmd EXCEPT ![l] = c]
<1>0. cursor = l /\ l \in Nat /\ l \in Bytes /\ cmd \in Buffers /\ l <= Size - 1 /\ Size \in Nat
  BY Now, SizeFacts DEF AppendChar
<1>1. b \in Buffers /\ \A i \in Bytes : b[i] = IF i = l THEN c ELSE cmd[i]
  BY <1>0 DEF Buffers
<1>2. CASE l < Size - 1 /\ Put(c, b, l + 1, screen, spoilt)
  <2> HIDE DEF b
  <2>1. l + 1 \in 0..Size - 1 /\ cursor + 1 \in 0..l + 1 /\ l + 1 \in 0..l + 1
    BY <1>0, <1>2
  <2>2. "line" \notin spoilt => IsLine(b, l + 1)
    <3> SUFFICES ASSUME IsLine(cmd, l) PROVE IsLine(b, l + 1)
      BY Now
    <3>1. \A i \in Bytes : i \in Nat
      BY SizeFacts
    <3> QED
      BY <1>0, <1>1, <3>1, Alphabet DEF IsLine
  <2>3. ASSUME spoilt = {}, state = "normal"
        PROVE  Shows(Write(screen, <<c>>), Line(b, l + 1), cursor + 1)
    <3> DEFINE t == Line(cmd, l)
               r == Line(b, l + 1)
               u == <<c>>
    <3>1. IsLine(cmd, l) /\ IsLine(b, l + 1) /\ Shows(screen, t, l)
      BY <1>0, <2>2, <2>3, Now
    <3>2. t \in Seq(Chars) /\ \A i \in Columns : Cell(t, i) = IF i <= l THEN cmd[i - 1] ELSE Blank
      BY <3>1, Now, WholeLine
    <3>3. r \in Seq(Chars) /\ \A i \in Columns : Cell(r, i) = IF i <= l + 1 THEN b[i - 1] ELSE Blank
      BY <1>1, <2>1, <3>1, WholeLine
    <3>4. u \in Seq(Chars) /\ Len(u) = 1 /\ u[1] = c
      OBVIOUS
    <3> HIDE DEF t, r, u
    <3>5. ASSUME NEW i \in Columns
          PROVE  Cell(r, i) = IF i > l /\ i <= l + Len(u) THEN u[i - l] ELSE Cell(t, i)
      <4>1. CASE i <= l
        <5>1. i - 1 \in Bytes /\ i - 1 # l /\ i <= l + 1 /\ ~(i > l)
          BY <1>0, <4>1, SizeFacts DEF Columns
        <5> QED
          BY <1>1, <3>2, <3>3, <4>1, <5>1
      <4>2. CASE i = l + 1
        <5>1. i - 1 = l /\ i - l = 1 /\ i > l /\ i <= l + 1
          BY <1>0, <4>2
        <5> QED
          BY <1>0, <1>1, <3>3, <3>4, <5>1
      <4>3. CASE i > l + 1
        <5>1. ~(i <= l + 1) /\ ~(i <= l)
          BY <1>0, <4>3 DEF Columns
        <5> QED
          BY <3>2, <3>3, <3>4, <5>1
      <4>4. i \in Nat
        BY DEF Columns
      <4> QED
        BY <1>0, <4>1, <4>2, <4>3, <4>4
    <3>6. Shows(Write(screen, u), r, l + Len(u))
      BY <1>0, <3>1, <3>2, <3>3, <3>4, <3>5, WriteShows
    <3> QED
      BY <1>0, <3>4, <3>6 DEF r, u
  <2> QED
    BY <1>1, <1>2, <2>1, <2>2, <2>3, Now, PutKeeps
<1>3. CASE Edit(b, l, cursor, screen, spoilt \cup {"line"})
  <2>1. Sound(b, l, cursor, screen, spoilt \cup {"line"})
    BY <1>1, Now DEF Sound
  <2> QED
    BY <1>3, <2>1, EditKeeps
<1> QED
  BY <1>2, <1>3 DEF AppendChar

(* The line with a character in it, and the screen before that character   *)
(* is written: the rest of the line is there already, one column on.       *)
LEMMA InsertCharKeeps ==
  ASSUME EditInv, pc = "read", NEW c \in Chars, InsertChar(c) PROVE EditInv'
<1> DEFINE n == IF l >= Size - 2 THEN l - 1 ELSE l
           v(i) == IF i = cursor THEN c ELSE IF i > cursor /\ i <= n + 1 THEN cmd[i - 1] ELSE cmd[i]
           b == [i \in Bytes |-> v(i)]
           u == Rest(b, cursor, n + 1)
           s == Back(Write(screen, u), n - cursor + 1)
           sp == spoilt \cup (IF n < l THEN {"line"} ELSE {}) \cup (IF Echo THEN {} ELSE {"screen"})
<1>0. /\ cursor \in Nat /\ l \in Nat /\ cursor < l /\ cmd \in Buffers /\ l <= Size - 1 /\ Size \in Nat
      /\ spoilt \subseteq {"line", "screen"}
  BY Now, SizeFacts DEF InsertChar
<1>1. Put(c, b, n + 1, s, sp)
  BY DEF InsertChar
<1>2. n \in Nat /\ n + 1 \in 0..Size - 1 /\ cursor + 1 \in 0..n + 1 /\ n <= l
  BY <1>0
<1>3. b \in Buffers /\ \A i \in Bytes : b[i] = v(i)
  <2>1. ASSUME NEW i \in Bytes PROVE v(i) \in Chars \cup {Nul}
    <3>1. i > cursor => i - 1 \in Bytes
      BY <1>0, SizeFacts
    <3> QED
      BY <1>0, <3>1 DEF Buffers
  <2> HIDE DEF v
  <2> QED
    BY <2>1 DEF Buffers
<1> HIDE DEF b
<1>4. sp \in SUBSET {"line", "screen"}
  BY <1>0
<1>5. "line" \notin sp => n = l /\ "line" \notin spoilt
  BY <1>0
<1>6. sp = {} => spoilt = {} /\ Echo
  OBVIOUS
<1> HIDE DEF n, sp
<1>7. ASSUME "line" \notin sp PROVE IsLine(b, n + 1)
  <2>1. n = l /\ IsLine(cmd, l)
    BY <1>5, <1>7, Now
  <2> SUFFICES ASSUME NEW i \in Bytes PROVE (b[i] # Nul) <=> (i < n + 1)
    BY DEF IsLine
  <2>2. i \in Nat /\ b[i] = v(i) /\ ((cmd[i] # Nul) <=> (i < l))
    BY <1>3, <2>1, SizeFacts DEF IsLine
  <2>3. CASE i = cursor
    BY <1>0, <2>1, <2>2, <2>3, Alphabet
  <2>4. CASE i > cursor /\ i <= n + 1
    <3>1. i - 1 \in Bytes /\ i # cursor
      BY <1>0, <2>2, <2>4, SizeFacts
    <3>2. (cmd[i - 1] # Nul) <=> (i - 1 < l)
      BY <2>1, <3>1 DEF IsLine
    <3> QED
      BY <1>0, <2>1, <2>2, <2>4, <3>1, <3>2
  <2>5. CASE i > n + 1 \/ i < cursor
    BY <1>0, <2>1, <2>2, <2>5
  <2> QED
    BY <1>0, <1>2, <2>2, <2>3, <2>4, <2>5
<1>8. ASSUME sp = {}
      PROVE  /\ s \in Screens
             /\ state = "normal" => Shows(Write(s, <<c>>), Line(b, n + 1), cursor + 1)
  <2>1. n = l /\ spoilt = {} /\ IsLine(b, n + 1) /\ IsLine(cmd, l)
    BY <1>5, <1>6, <1>7, <1>8, Now
  <2>2. /\ u \in Seq(Chars) /\ Len(u) = n + 1 - cursor
        /\ \A i \in 1..n + 1 - cursor : u[i] = b[cursor + i - 1]
    <3>1. n + 1 \in 0..n + 1 /\ cursor \in 0..n + 1
      BY <1>0, <1>2
    <3>2. ASSUME NEW m \in 0..Size - 1, IsLine(b, m), m \in 0..m, cursor \in 0..m
          PROVE  /\ Rest(b, cursor, m) \in Seq(Chars) /\ Len(Rest(b, cursor, m)) = m - cursor
                 /\ \A i \in 1..m - cursor : Rest(b, cursor, m)[i] = b[cursor + i - 1]
      BY <1>3, <3>2, RestFacts
    <3> QED
      BY <1>2, <2>1, <3>1, <3>2
  <2> HIDE DEF u
  <2>3. s \in Screens
    <3>1. n - cursor + 1 \in Nat
      BY <1>0, <2>1
    <3> QED
      BY <2>2, <3>1, Now, WriteFacts, BackFacts
  <2>4. ASSUME state = "normal" PROVE Shows(Write(s, <<c>>), Line(b, n + 1), cursor + 1)
    <3> DEFINE t == Line(cmd, l)
               r == Line(b, n + 1)
               e == <<c>>
    <3>1. Shows(screen, t, cursor)
      BY <2>1, <2>4, Now
    <3>2. t \in Seq(Chars) /\ \A i \in Columns : Cell(t, i) = IF i <= l THEN cmd[i - 1] ELSE Blank
      BY <2>1, Now, WholeLine
    <3>3. r \in Seq(Chars) /\ \A i \in Columns : Cell(r, i) = IF i <= n + 1 THEN b[i - 1] ELSE Blank
      <4>1. n + 1 \in 0..n + 1
        BY <1>2
      <4> QED
        BY <1>2, <1>3, <2>1, <4>1, WholeLine
    <3>4. e \in Seq(Chars) /\ Len(e) = 1 /\ e[1] = c
      OBVIOUS
    <3> HIDE DEF t, r, e
    <3>5. ASSUME NEW i \in Columns
          PROVE  Cell(r, i) = IF i > cursor /\ i <= cursor + Len(u) THEN u[i - cursor] ELSE Cell(t, i)
      <4>0. cursor + Len(u) = n + 1 /\ i \in Nat /\ i >= 1
        <5>1. \A x, y, z \in Nat : z = (y + 1) - x => x + z = y + 1
          OBVIOUS
        <5>2. Len(u) \in Nat
          BY <2>2
        <5> QED
          BY <1>0, <1>2, <2>2, <5>1, <5>2 DEF Columns
      <4>1. CASE i <= cursor
        <5>1. /\ i - 1 \in Bytes /\ i - 1 # cursor /\ ~(i - 1 > cursor) /\ i <= l /\ i <= n + 1
              /\ ~(i > cursor)
          BY <1>0, <2>1, <4>0, <4>1, SizeFacts
        <5>2. b[i - 1] = cmd[i - 1]
          BY <1>3, <5>1
        <5> QED
          BY <3>2, <3>3, <5>1, <5>2
      <4>2. CASE i > cursor /\ i <= n + 1
        <5>1. i - cursor \in 1..n + 1 - cursor /\ cursor + (i - cursor) - 1 = i - 1
          BY <1>0, <1>2, <4>0, <4>2
        <5>2. u[i - cursor] = b[i - 1]
          BY <2>2, <5>1
        <5> QED
          BY <3>3, <4>0, <4>2, <5>2
      <4>3. CASE i > n + 1
        <5>1. ~(i <= n + 1) /\ ~(i <= l)
          BY <1>0, <2>1, <4>0, <4>3
        <5> QED
          BY <3>2, <3>3, <4>0, <5>1
      <4> QED
        BY <1>0, <1>2, <4>0, <4>1, <4>2, <4>3
    <3>6. Shows(Write(screen, u), r, cursor + Len(u))
      BY <1>0, <2>2, <3>1, <3>2, <3>3, <3>5, WriteShows
    <3>7. /\ cursor + Len(u) = n + 1 /\ n + 1 \in Nat /\ n - cursor + 1 \in 0..n + 1
          /\ (n + 1) - (n - cursor + 1) = cursor
      BY <1>0, <1>2, <2>1, <2>2
    <3>8. Shows(s, r, cursor)
      <4>1. Shows(Back(Write(screen, u), n - cursor + 1), r, (n + 1) - (n - cursor + 1))
        BY <3>6, <3>7, BackShows
      <4> QED
        BY <3>7, <4>1
    <3> HIDE DEF s
    <3>9. ASSUME NEW i \in Columns
          PROVE  Cell(r, i) = IF i > cursor /\ i <= cursor + Len(e) THEN e[i - cursor] ELSE Cell(r, i)
      <4> SUFFICES ASSUME i > cursor, i <= cursor + Len(e) PROVE Cell(r, i) = e[i - cursor]
        OBVIOUS
      <4>1. i - cursor = 1 /\ i - 1 = cursor /\ i <= n + 1 /\ cursor \in Bytes
        BY <1>0, <1>2, <3>4, SizeFacts DEF Columns
      <4>2. b[cursor] = c
        BY <1>3, <4>1
      <4> QED
        BY <3>3, <3>4, <4>1, <4>2
    <3>10. Shows(Write(s, e), r, cursor + Len(e))
      BY <1>0, <3>3, <3>4, <3>8, <3>9, WriteShows
    <3> QED
      BY <3>4, <3>10 DEF r, e
  <2> QED
    BY <2>3, <2>4
<1> HIDE DEF s
<1> QED
  BY <1>1, <1>2, <1>3, <1>4, <1>6, <1>7, <1>8, PutKeeps

-----------------------------------------------------------------------------
(* The theorems *)

LEMMA EditInit == Init => EditInv
<1> SUFFICES ASSUME Init PROVE EditInv
  OBVIOUS
<1>1. /\ pc = "read" /\ cmd = Empty /\ l = 0 /\ cursor = 0 /\ spoilt = {}
      /\ history \in Histories /\ screen = ShowPrompt(NewRow, state, <<>>, 0)
      /\ state \in {"login", "normal"}
  BY DEF Init
<1>2. <<>> \in Seq(Chars) /\ 0 \in 0..Len(<<>>) /\ 0 \in 0..Size - 1 /\ 0 \in 0..0
  BY SizeFacts
<1>3. NewRow \in Screens /\ Len(NewRow.cells) <= NewRow.col
  BY NewRowFacts
<1>4. /\ screen \in Screens /\ (state = "normal" => Shows(screen, <<>>, 0))
      /\ (state \in Passwords => Shows(screen, <<>>, 0))
  BY <1>1, <1>2, <1>3, PromptSound
<1>5. Contents = <<>>
  BY <1>1 DEF Contents
<1>6. history \in [Slots -> Text \cup {None}]
  BY <1>1, EditorAssumption
<1>7. EditType
  BY <1>1, <1>2, <1>4, <1>6, EmptyFacts DEF EditType
<1>8. BufferIsLine
  BY <1>1, EmptyFacts DEF BufferIsLine, IsLine
<1>9. ScreenInv
  BY <1>1, <1>4, <1>5 DEF ScreenInv
<1> QED
  BY <1>7, <1>8, <1>9 DEF EditInv

LEMMA PressKeeps == ASSUME EditInv, pc = "read", NEW k, Press(k) PROVE EditInv'
<1>1. CASE Ignored \/ Newline \/ Eot
  BY <1>1, IgnoredKeeps, NewlineKeeps, EotKeeps
<1>2. CASE Backspace \/ EraseWord \/ ClearLine \/ Kill
  BY <1>2, BackspaceKeeps, EraseWordKeeps, ClearLineKeeps, KillKeeps
<1>3. CASE Redraw \/ CtrlZ \/ Tab \/ Up \/ Down
  BY <1>3, RedrawKeeps, CtrlZKeeps, TabKeeps, UpKeeps, DownKeeps
<1>4. CASE Left \/ Right \/ Home \/ End
  BY <1>4, LeftKeeps, RightKeeps, HomeKeeps, EndKeeps
<1>5. CASE k \in Chars /\ (AppendChar(k) \/ InsertChar(k))
  BY <1>5, AppendCharKeeps, InsertCharKeeps
<1> QED
  BY <1>1, <1>2, <1>3, <1>4, <1>5 DEF Press

LEMMA EditNext == EditInv /\ [Next]_vars => EditInv'
<1> SUFFICES ASSUME EditInv, [Next]_vars PROVE EditInv'
  OBVIOUS
<1>1. CASE UNCHANGED vars
  BY <1>1, UnchangedKeeps DEF vars, line, session
<1>2. CASE pc = "read" /\ CallbackFails
  BY <1>2, CallbackFailsKeeps
<1>3. CASE pc = "read" /\ CallbackPrints
  BY <1>3, CallbackPrintsKeeps
<1>4. CASE pc = "read" /\ Disconnect
  BY <1>4, GoneKeeps DEF Disconnect
<1>5. ASSUME pc = "read", NEW b \in Input, Read(b) PROVE EditInv'
  <2>1. CASE Option(b)
    BY <2>1, UnchangedKeeps DEF Option, line, session
  <2>2. CASE Escape(b)
    BY <2>2, UnchangedKeeps DEF Escape, line, session
  <2>3. CASE Press(IF esc = 2 THEN Arrow(b) ELSE IF b = Iac THEN Ordinary ELSE b)
    BY <1>5, <2>3, PressKeeps
  <2> QED
    BY <1>5, <2>1, <2>2, <2>3 DEF Read
<1> QED
  BY <1>1, <1>2, <1>3, <1>4, <1>5 DEF Next

LEMMA EditAlways == Spec => []EditInv
  BY EditInit, EditNext, PTL DEF Spec

(* The bytes of cmd are the characters of the line and zeros, whatever     *)
(* keys were pressed: every editing key of cli_loop leaves the terminator  *)
(* where the strings of cmd are read (libcli.c, cli_loop).                 *)
THEOREM BufferAlwaysLine == Spec => []BufferIsLine
<1>1. EditInv => BufferIsLine
  BY DEF EditInv
<1> QED
  BY <1>1, EditAlways, PTL

(* What the keys write, blank out and back over adds up to the prompt and  *)
(* the line of cmd, with the terminal's cursor at the editor's.            *)
THEOREM ScreenAlwaysShowsLine == Spec => []ScreenShowsLine
<1>1. EditInv => ScreenShowsLine
  <2> SUFFICES ASSUME EditInv, pc = "read", state = "normal", spoilt = {}
               PROVE  screen.cells = Trim(<<"P">> \o Contents) /\ screen.col = 1 + cursor
    BY DEF ScreenShowsLine
  <2>1. Shows(screen, Contents, cursor) /\ cursor \in Nat
    BY Now DEF EditInv, ScreenInv
  <2>2. Contents \in Seq(Chars)
    BY Now, WholeLine
  <2> QED
    BY <2>1, <2>2, ShownIsTrimmed
<1> QED
  BY <1>1, EditAlways, PTL

(* At a password prompt the row holds the prompt and nothing else, but for *)
(* the insertion the code is known to show.                                *)
THEOREM PasswordNeverShown == Spec => []PasswordNotShown
<1>1. EditInv => PasswordNotShown
  <2> SUFFICES ASSUME EditInv, pc = "read", state \in Passwords, spoilt = {}
               PROVE  screen.cells = <<"P">>
    BY DEF PasswordNotShown, Echo
  <2>1. /\ screen \in Screens /\ Trimmed(screen.cells)
        /\ \A i \in Columns : Cell(screen.cells, i) = Face(<<>>, i)
    BY DEF EditInv, ScreenInv, Shows
  <2>2. screen.cells \in Seq(Shown)
    BY <2>1, ScreenFields
  <2> DEFINE p == <<"P">>
  <2>3. p \in Seq(Shown) /\ Len(p) = 1 /\ p[1] = "P"
    BY PromptCell
  <2>4. Trimmed(p)
    BY <2>3, Alphabet DEF Trimmed
  <2> HIDE DEF p
  <2>5. \A i \in Columns : Cell(p, i) = Face(<<>>, i)
    BY <2>3 DEF Cell, Face, Columns
  <2>6. \A i \in Columns : Cell(screen.cells, i) = Cell(p, i)
    BY <2>1, <2>5
  <2> QED
    BY <2>1, <2>2, <2>3, <2>4, <2>6, CellsDecide DEF p
<1> QED
  BY <1>1, EditAlways, PTL

-----------------------------------------------------------------------------
(* The editor of sequences *)

Kept == {history[i] : i \in Held}
TextNow == IF Lost THEN <<>> ELSE Contents
PointNow == IF Lost THEN 0 ELSE cursor
Simulated == [Editor!Next]_<<TextNow, PointNow, Lost, Kept>>

(* Nothing is lost on either side of a step: the two lines are those of    *)
(* cmd.                                                                    *)
LEMMA NotLost ==
  ASSUME EditInv, pc = "read", "line" \notin spoilt
  PROVE  /\ ~Lost /\ Contents = Line(cmd, l) /\ IsLine(cmd, l)
         /\ Contents \in Seq(Chars) /\ Len(Contents) = l
         /\ \A i \in 1..l : Contents[i] = cmd[i - 1]
<1>1. IsLine(cmd, l) /\ Contents = Line(cmd, l) /\ cmd \in Buffers /\ l \in 0..Size - 1 /\ l \in 0..l
  BY Now
<1>2. /\ Line(cmd, l) \in Seq(Chars) /\ Len(Line(cmd, l)) = l
      /\ \A i \in 1..l : Line(cmd, l)[i] = cmd[i - 1]
  BY <1>1, WholeLine
<1> QED
  BY <1>1, <1>2 DEF Lost

(* A step that does not touch the line.                                    *)
LEMMA Stutters ==
  ASSUME UNCHANGED <<pc, cmd, l, cursor, history>>, "line" \in spoilt' <=> "line" \in spoilt
  PROVE  Simulated
<1>1. Lost' = Lost
  BY DEF Lost
<1>2. Contents' = Contents /\ Kept' = Kept
  BY DEF Contents, Kept, Held
<1> QED
  BY <1>1, <1>2 DEF Simulated, TextNow, PointNow

(* A step adds at most one line to the history.                            *)
LEMMA HistoryFew ==
  ASSUME EditInv, NEW t \in Text,
         history' = history \/ history' = AddHistory(t) \/ history' = [i \in Slots |-> None]
  PROVE  Editor!KeepsOne
<1>1. history \in [Slots -> Text \cup {None}] /\ MaxHistory \in Nat \ {0}
  BY EditorAssumption DEF EditInv, EditType
<1>2. CASE history' = history
  <2>1. Kept' = Kept
    BY <1>2 DEF Kept, Held
  <2>2. Kept' \ Kept \subseteq {t}
    BY <2>1
  <2> QED
    BY <2>2 DEF Editor!KeepsOne, Kept
<1>3. CASE history' = [i \in Slots |-> None]
  <2>1. Kept' \ Kept \subseteq {t}
    BY <1>3 DEF Kept, Held
  <2> QED
    BY <2>1 DEF Editor!KeepsOne, Kept
<1>4. CASE history' = AddHistory(t)
  <2>1. ASSUME NEW i \in Slots PROVE history'[i] = t \/ \E j \in Slots : history'[i] = history[j]
    <3>1. \A j \in Slots : j < MaxHistory - 1 => j + 1 \in Slots
      BY <1>1 DEF Slots
    <3>2. \A k : [history EXCEPT ![k] = t][i] = t \/ [history EXCEPT ![k] = t][i] = history[i]
      BY <1>1
    <3>3. CASE {j \in Slots : history[j] = None} # {}
      BY <1>4, <3>2, <3>3 DEF AddHistory
    <3>4. CASE {j \in Slots : history[j] = None} = {}
      BY <1>4, <3>1, <3>4 DEF AddHistory
    <3> QED
      BY <3>3, <3>4
  <2>2. Kept' \ Kept \subseteq {t}
    BY <2>1 DEF Kept, Held
  <2> QED
    BY <2>2 DEF Editor!KeepsOne, Kept
<1> QED
  BY <1>2, <1>3, <1>4

(* A line that is lost, or goes on being lost, or is submitted then.       *)
LEMMA LosingSimulated ==
  ASSUME Editor!KeepsOne,
         Lost' \/ (Lost /\ Contents' \in Seq(Chars) /\ cursor' = Len(Contents'))
  PROVE  Simulated
<1>1. CASE Lost'
  BY <1>1 DEF Simulated, Editor!Next, Editor!Lose, Kept
<1>2. CASE ~Lost'
  BY <1>2 DEF Simulated, Editor!Next, Editor!Submit, Kept
<1> QED
  BY <1>1, <1>2

LEMMA EditSimulated ==
  ASSUME ~Lost, ~Lost', history' = history,
         \/ \E c \in Chars : Editor!Insert(c)
         \/ Editor!Erase(1)
         \/ \E p \in 0..Len(Contents) : Editor!Move(p)
         \/ \E name \in Names : Editor!Complete(name)
         \/ Editor!EraseWord \/ Editor!KillRest \/ Editor!Clear \/ Editor!Recall
  PROVE  Simulated
<1>1. Kept' = Kept
  BY DEF Kept, Held
<1> QED
  BY <1>1 DEF Simulated, Editor!Next, Editor!Edit, Kept

LEMMA Joined ==
  ASSUME NEW S, NEW a \in Seq(S), NEW b \in Seq(S), NEW r \in Seq(S), Len(r) = Len(a) + Len(b),
         \A i \in 1..Len(a) : r[i] = a[i], \A i \in 1..Len(b) : r[Len(a) + i] = b[i]
  PROVE  r = a \o b
<1> DEFINE c == a \o b
<1>1. Len(a) \in Nat /\ Len(b) \in Nat
  OBVIOUS
<1>2. c \in Seq(S) /\ Len(c) = Len(a) + Len(b)
  OBVIOUS
<1>3. \A i \in 1..Len(a) : c[i] = a[i]
  OBVIOUS
<1>4. \A i \in Len(a) + 1..Len(a) + Len(b) : c[i] = b[i - Len(a)]
  OBVIOUS
<1> HIDE DEF c
<1>5. ASSUME NEW i \in 1..Len(r) PROVE r[i] = c[i]
  <2>1. CASE i <= Len(a)
    BY <1>1, <1>3, <2>1
  <2>2. CASE ~(i <= Len(a))
    <3>1. i - Len(a) \in 1..Len(b) /\ Len(a) + (i - Len(a)) = i /\ i \in Len(a) + 1..Len(a) + Len(b)
      BY <1>1, <2>2
    <3>2. r[i] = b[i - Len(a)]
      BY <3>1
    <3> QED
      BY <1>4, <3>1, <3>2
  <2> QED
    BY <2>1, <2>2
<1>6. r = c
  BY <1>2, <1>5
<1> QED
  BY <1>6 DEF c

LEMMA Parts ==
  ASSUME NEW S, NEW t \in Seq(S), NEW p \in 0..Len(t)
  PROVE  /\ SubSeq(t, 1, p) \in Seq(S) /\ Len(SubSeq(t, 1, p)) = p
         /\ \A i \in 1..p : SubSeq(t, 1, p)[i] = t[i]
         /\ SubSeq(t, p + 1, Len(t)) \in Seq(S) /\ Len(SubSeq(t, p + 1, Len(t))) = Len(t) - p
         /\ \A i \in 1..Len(t) - p : SubSeq(t, p + 1, Len(t))[i] = t[p + i]
<1>1. Len(t) \in Nat /\ p \in Nat /\ p <= Len(t) /\ Len(t) - p \in Nat
  OBVIOUS
<1>2. /\ SubSeq(t, 1, p) \in Seq(S) /\ Len(SubSeq(t, 1, p)) = p
      /\ \A i \in 1..p : SubSeq(t, 1, p)[i] = t[i]
  BY <1>1
<1>3. ASSUME NEW k \in 1..Len(t) + 1
      PROVE  SubSeq(t, k, Len(t)) \in Seq(S) /\ Len(SubSeq(t, k, Len(t))) = Len(t) - k + 1
  BY <1>1
<1>4. ASSUME NEW k \in 1..Len(t) + 1, NEW i \in 1..Len(t) - k + 1
      PROVE  SubSeq(t, k, Len(t))[i] = t[k + i - 1]
  BY <1>1
<1>5. p + 1 \in 1..Len(t) + 1 /\ Len(t) - (p + 1) + 1 = Len(t) - p
      /\ \A i \in 1..Len(t) - p : (p + 1) + i - 1 = p + i
  BY <1>1
<1>6. SubSeq(t, p + 1, Len(t)) \in Seq(S) /\ Len(SubSeq(t, p + 1, Len(t))) = Len(t) - p
  BY <1>3, <1>5
<1>7. \A i \in 1..Len(t) - p : SubSeq(t, p + 1, Len(t))[i] = t[p + i]
  BY <1>4, <1>5
<1> QED
  BY <1>2, <1>6, <1>7

(* What is left when the characters from p + 1 to q go.                    *)
LEMMA CutOut ==
  ASSUME NEW S, NEW t \in Seq(S), NEW q \in 0..Len(t), NEW p \in 0..q,
         NEW r \in Seq(S), Len(r) = p + (Len(t) - q),
         \A i \in 1..p : r[i] = t[i], \A i \in 1..Len(t) - q : r[p + i] = t[q + i]
  PROVE  r = SubSeq(t, 1, p) \o SubSeq(t, q + 1, Len(t))
<1> DEFINE a == SubSeq(t, 1, p)
           b == SubSeq(t, q + 1, Len(t))
<1>1. p \in 0..Len(t)
  OBVIOUS
<1>2. a \in Seq(S) /\ Len(a) = p /\ \A i \in 1..p : a[i] = t[i]
  BY <1>1, Parts
<1>3. b \in Seq(S) /\ Len(b) = Len(t) - q /\ \A i \in 1..Len(t) - q : b[i] = t[q + i]
  BY Parts
<1> HIDE DEF a, b
<1>4. Len(r) = Len(a) + Len(b) /\ \A i \in 1..Len(a) : r[i] = a[i]
  BY <1>2, <1>3
<1>5. \A i \in 1..Len(b) : r[Len(a) + i] = b[i]
  BY <1>2, <1>3
<1>6. r = a \o b
  BY <1>2, <1>3, <1>4, <1>5, Joined
<1> QED
  BY <1>6 DEF a, b

(* A character put in behind p.                                            *)
LEMMA PutIn ==
  ASSUME NEW S, NEW t \in Seq(S), NEW p \in 0..Len(t), NEW c \in S,
         NEW r \in Seq(S), Len(r) = Len(t) + 1,
         \A i \in 1..p : r[i] = t[i], r[p + 1] = c, \A i \in 1..Len(t) - p : r[p + 1 + i] = t[p + i]
  PROVE  r = SubSeq(t, 1, p) \o <<c>> \o SubSeq(t, p + 1, Len(t))
<1> DEFINE a == SubSeq(t, 1, p)
           b == SubSeq(t, p + 1, Len(t))
           m == a \o <<c>>
<1>1. a \in Seq(S) /\ Len(a) = p /\ \A i \in 1..p : a[i] = t[i]
  BY Parts
<1>2. b \in Seq(S) /\ Len(b) = Len(t) - p /\ \A i \in 1..Len(t) - p : b[i] = t[p + i]
  BY Parts
<1> HIDE DEF a, b
<1>3. p \in Nat /\ Len(t) \in Nat
  OBVIOUS
<1>4. m \in Seq(S) /\ Len(m) = p + 1 /\ m[p + 1] = c /\ \A i \in 1..p : m[i] = a[i]
  BY <1>1, <1>3
<1> HIDE DEF m
<1>5. \A i \in 1..Len(m) : r[i] = m[i]
  <2> SUFFICES ASSUME NEW i \in 1..p + 1 PROVE r[i] = m[i]
    BY <1>4
  <2>1. i \in 1..p \/ i = p + 1
    BY <1>3
  <2> QED
    BY <1>1, <1>4, <2>1
<1>6. Len(r) = Len(m) + Len(b) /\ \A i \in 1..Len(b) : r[Len(m) + i] = b[i]
  BY <1>2, <1>3, <1>4
<1>7. r = m \o b
  BY <1>2, <1>4, <1>5, <1>6, Joined
<1> QED
  BY <1>7 DEF m, a, b

LEMMA NotLostNext ==
  ASSUME EditInv', pc' = "read", "line" \notin spoilt'
  PROVE  /\ ~Lost' /\ Contents' = Line(cmd', l') /\ IsLine(cmd', l')
         /\ Contents' \in Seq(Chars) /\ Len(Contents') = l'
         /\ \A i \in 1..l' : Contents'[i] = cmd'[i - 1]
<1>1. cmd' \in Buffers /\ l' \in 0..Size - 1
  BY DEF EditInv, EditType, Buffers
<1>2. IsLine(cmd', l')
  BY DEF EditInv, BufferIsLine, IsLine
<1>3. Contents' = Line(cmd', l') /\ l' \in 0..l'
  BY <1>1, SizeFacts DEF Contents, Line
<1>4. /\ Line(cmd', l') \in Seq(Chars) /\ Len(Line(cmd', l')) = l'
      /\ \A i \in 1..l' : Line(cmd', l')[i] = cmd'[i - 1]
  BY <1>1, <1>2, <1>3, WholeLine
<1> QED
  BY <1>2, <1>3, <1>4 DEF Lost

(* The characters before the cursor go, the ones behind it move up.        *)
LEMMA RubbedErases ==
  ASSUME EditInv, EditInv', pc = "read", "line" \notin spoilt, NEW n \in 1..cursor, Rubbed(n),
         "line" \notin spoilt'
  PROVE  /\ pc' = "read" /\ history' = history /\ Editor!Erase(n)
<1>1. pc' = "read" /\ history' = history
  BY DEF Rubbed, Edit, session
<1>2. l \in Nat /\ cursor \in Nat /\ cursor <= l /\ l <= Size - 1 /\ Size \in Nat /\ n \in Nat /\ cursor - n \in Nat
  BY Now, SizeFacts
<1>3. l' = l - n /\ cursor' = cursor - n
  BY DEF Rubbed, Edit
<1>4. /\ \A i \in Bytes : i < cursor - n => cmd'[i] = cmd[i]
      /\ \A i \in Bytes : cursor - n <= i /\ i < l - n => cmd'[i] = cmd[i + n]
  <2>1. CASE l = cursor /\ cmd' = Zeroed(cmd, cursor - n, cursor)
    <3>1. \A i \in Bytes : i < cursor - n => cmd'[i] = cmd[i]
      <4>1. cmd \in Buffers /\ cursor \in Nat /\ cursor - n \in Nat
        BY <1>2, Now
      <4>2. \A i \in Bytes : i < cursor - n => Zeroed(cmd, cursor - n, cursor)[i] = cmd[i]
        BY <4>1, ZeroedFacts
      <4> QED
        BY <2>1, <4>2
    <3>2. \A i \in Bytes : ~(cursor - n <= i /\ i < l - n)
      BY <1>2, <2>1, SizeFacts
    <3> QED
      BY <3>1, <3>2
  <2>2. ASSUME l # cursor, NEW g \in Chars \cup {Nul}, cmd' = Shifted(n, g)
        PROVE  /\ \A i \in Bytes : i < cursor - n => cmd'[i] = cmd[i]
               /\ \A i \in Bytes : cursor - n <= i /\ i < l - n => cmd'[i] = cmd[i + n]
    BY <2>2, ShiftedFacts
  <2>3. ~(spoilt' = spoilt \cup {"line"})
    OBVIOUS
  <2>4. \/ l = cursor /\ cmd' = Zeroed(cmd, cursor - n, cursor)
        \/ l # cursor /\ \E g \in Chars \cup {Nul} : cmd' = Shifted(n, g)
    BY <2>3 DEF Rubbed, Edit, Show
  <2> QED
    BY <2>1, <2>2, <2>4
<1>5. /\ ~Lost /\ Contents \in Seq(Chars) /\ Len(Contents) = l
      /\ \A i \in 1..l : Contents[i] = cmd[i - 1]
  BY NotLost
<1>6. /\ ~Lost' /\ Contents' \in Seq(Chars) /\ Len(Contents') = l'
      /\ \A i \in 1..l' : Contents'[i] = cmd'[i - 1]
  BY <1>1, NotLostNext
<1>7. \A i \in 1..cursor - n : Contents'[i] = Contents[i]
  <2> SUFFICES ASSUME NEW i \in 1..cursor - n PROVE Contents'[i] = Contents[i]
    OBVIOUS
  <2>1. i \in 1..l /\ i \in 1..l' /\ i - 1 \in Bytes /\ i - 1 < cursor - n
    BY <1>2, <1>3, SizeFacts
  <2> QED
    BY <1>4, <1>5, <1>6, <2>1
<1>8. \A i \in 1..Len(Contents) - cursor : Contents'[(cursor - n) + i] = Contents[cursor + i]
  <2> SUFFICES ASSUME NEW i \in 1..l - cursor PROVE Contents'[(cursor - n) + i] = Contents[cursor + i]
    BY <1>5
  <2> DEFINE k == (cursor - n) + i
  <2>1. k \in 1..l' /\ k - 1 \in Bytes /\ cursor - n <= k - 1 /\ k - 1 < l - n
        /\ cursor + i \in 1..l /\ (cursor + i) - 1 = (k - 1) + n
    BY <1>2, <1>3, SizeFacts
  <2>2. cmd'[k - 1] = cmd[(k - 1) + n] /\ Contents'[k] = cmd'[k - 1]
    BY <1>4, <1>6, <2>1
  <2> QED
    BY <1>5, <2>1, <2>2
<1>9. Contents' = SubSeq(Contents, 1, cursor - n) \o SubSeq(Contents, cursor + 1, Len(Contents))
  <2>1. cursor \in 0..Len(Contents) /\ cursor - n \in 0..cursor
        /\ Len(Contents') = (cursor - n) + (Len(Contents) - cursor)
    BY <1>2, <1>3, <1>5, <1>6
  <2> QED
    BY <1>5, <1>6, <1>7, <1>8, <2>1, CutOut
<1> QED
  BY <1>1, <1>3, <1>5, <1>6, <1>9 DEF Editor!Erase, Editor!After

LEMMA BackspaceErases ==
  ASSUME EditInv, EditInv', pc = "read", "line" \notin spoilt, Backspace, "line" \notin spoilt'
  PROVE  Simulated
<1>1. CASE cursor = 0
  BY <1>1, Stutters DEF Backspace, Ignored, Edit, Show, session
<1>2. CASE cursor # 0
  <2>1. 1 \in 1..cursor
    BY <1>2, Now
  <2>2. pc' = "read" /\ history' = history /\ Editor!Erase(1)
    BY <1>2, <2>1, RubbedErases DEF Backspace
  <2> QED
    BY <2>2, NotLost, NotLostNext, EditSimulated
<1> QED
  BY <1>1, <1>2

LEMMA EraseWordErases ==
  ASSUME EditInv, EditInv', pc = "read", "line" \notin spoilt, EraseWord, "line" \notin spoilt'
  PROVE  Simulated
<1>1. CASE cursor = 0
  BY <1>1, Stutters DEF EraseWord, Ignored, Edit, Show, session
<1>2. CASE cursor # 0
  <2> DEFINE w == WordStart
             n == cursor - w
  <2>1. PICK nb \in w..cursor : /\ \A i \in nb..cursor - 1 : cmd[i] = Blank
                                /\ \A i \in w..nb - 1 : cmd[i] # Blank
                                /\ w > 0 => cmd[w - 1] = Blank /\ w < nb
    BY <1>2, WordStartFacts
  <2>2. w \in 0..cursor - 1
    BY <1>2, WordStartFacts
  <2> HIDE DEF w
  <2>3. cursor \in Nat /\ l \in Nat /\ cursor <= l /\ w \in Nat /\ w < cursor /\ n \in 1..cursor
        /\ nb \in Nat /\ nb <= cursor /\ w <= nb /\ cursor - n = w
    BY <2>1, <2>2, Now
  <2>4. pc' = "read" /\ history' = history /\ Editor!Erase(n)
    BY <1>2, <2>3, RubbedErases DEF EraseWord, w
  <2>5. ~Lost /\ Len(Contents) = l /\ \A i \in 1..l : Contents[i] = cmd[i - 1]
    BY NotLost
  <2> HIDE DEF n
  <2>6. Editor!IsWord(n)
    <3> SUFFICES ASSUME NEW i \in w + 1..cursor, NEW j \in w + 1..cursor, i < j, Contents[i] = Blank
                 PROVE  Contents[j] = Blank
      BY <2>3, <2>5 DEF Editor!IsWord
    <3>1. /\ i \in 1..l /\ j \in 1..l /\ i - 1 \in Nat /\ j - 1 \in Nat /\ w <= i - 1
          /\ i - 1 < j - 1 /\ j - 1 <= cursor - 1
      BY <2>3
    <3>2. cmd[i - 1] = Blank
      BY <2>5, <3>1
    <3>3. ~(i - 1 < nb)
      BY <2>1, <2>3, <3>1, <3>2
    <3>4. j - 1 \in nb..cursor - 1
      BY <2>3, <3>1, <3>3
    <3> QED
      BY <2>1, <2>5, <3>1, <3>4
  <2>7. ASSUME NEW m \in n + 1..cursor PROVE ~Editor!IsWord(m)
    <3>1. w > 0
      BY <2>3
    <3>2. /\ w \in (cursor - m) + 1..cursor /\ nb \in (cursor - m) + 1..cursor /\ w < nb
          /\ w \in 1..l /\ nb \in 1..l /\ nb - 1 \in w..nb - 1
      BY <2>1, <2>3, <3>1
    <3>3. Contents[w] = Blank /\ Contents[nb] # Blank
      BY <2>1, <2>5, <3>1, <3>2
    <3> QED
      BY <2>5, <3>2, <3>3 DEF Editor!IsWord
  <2>8. Editor!EraseWord
    BY <2>3, <2>4, <2>5, <2>6, <2>7 DEF Editor!EraseWord
  <2> QED
    BY <2>4, <2>8, NotLost, NotLostNext, EditSimulated
<1> QED
  BY <1>1, <1>2

LEMMA ClearLineClears ==
  ASSUME EditInv, EditInv', pc = "read", pc' = "read", "line" \notin spoilt, ClearLine, "line" \notin spoilt'
  PROVE  Simulated
<1>1. ~Undefined
  BY DEF Undefined, Gone
<1>2. l' = 0 /\ cursor' = 0 /\ history' = history
  BY <1>1 DEF ClearLine, Edit, session
<1>3. Contents' = <<>>
  BY <1>2 DEF Contents
<1>4. ~Lost /\ ~Lost'
  BY NotLost, NotLostNext
<1>5. Editor!Clear
  BY <1>2, <1>3, <1>4 DEF Editor!Clear
<1> QED
  BY <1>2, <1>4, <1>5, EditSimulated

LEMMA KillKills ==
  ASSUME EditInv, EditInv', pc = "read", "line" \notin spoilt, Kill, "line" \notin spoilt'
  PROVE  Simulated
<1>1. CASE cursor = l
  BY <1>1, Stutters DEF Kill, Ignored, Edit, Show, session
<1>2. CASE cursor # l
  <2>1. pc' = "read" /\ history' = history /\ cmd' = Zeroed(cmd, cursor, l) /\ l' = cursor /\ cursor' = cursor
    BY <1>2 DEF Kill, Edit, session
  <2>2. l \in Nat /\ cursor \in Nat /\ cursor <= l /\ cursor \in 0..l /\ l <= Size - 1 /\ cmd \in Buffers
    BY Now
  <2>3. \A i \in Bytes : i < cursor => cmd'[i] = cmd[i]
    <3>1. \A i \in Bytes : i < cursor => Zeroed(cmd, cursor, l)[i] = cmd[i]
      BY <2>2, ZeroedFacts
    <3> QED
      BY <2>1, <3>1
  <2>4. /\ ~Lost /\ Contents \in Seq(Chars) /\ Len(Contents) = l
        /\ \A i \in 1..l : Contents[i] = cmd[i - 1]
    BY NotLost
  <2>5. /\ ~Lost' /\ Contents' \in Seq(Chars) /\ Len(Contents') = cursor
        /\ \A i \in 1..cursor : Contents'[i] = cmd'[i - 1]
    BY <2>1, NotLostNext
  <2>6. ASSUME NEW i \in 1..cursor PROVE Contents'[i] = Contents[i]
    <3>1. i \in 1..l /\ i - 1 \in Bytes /\ i - 1 < cursor
      BY <2>2, SizeFacts
    <3> QED
      BY <2>3, <2>4, <2>5, <3>1
  <2> DEFINE r == SubSeq(Contents, 1, cursor)
  <2>7. r \in Seq(Chars) /\ Len(r) = cursor /\ \A i \in 1..cursor : r[i] = Contents[i]
    BY <2>2, <2>4, Parts
  <2> HIDE DEF r
  <2>8. Contents' = r
    BY <2>5, <2>6, <2>7
  <2>9. Editor!KillRest
    BY <2>1, <2>4, <2>5, <2>8 DEF Editor!KillRest, Editor!Before, r
  <2> QED
    BY <2>1, <2>4, <2>5, <2>9, EditSimulated
<1> QED
  BY <1>1, <1>2

LEMMA CtrlZStays ==
  ASSUME EditInv, EditInv', pc = "read", pc' = "read", "line" \notin spoilt, CtrlZ, "line" \notin spoilt'
  PROVE  Simulated
<1>1. CASE Ignored
  BY <1>1, Stutters DEF Ignored, Edit, Show, session
<1>2. CASE ~Ignored
  <2>1. ~Undefined
    BY DEF Undefined, Gone
  <2>2. /\ UNCHANGED <<pc, l, cursor, history>>
        /\ spoilt' = IF l > 0 THEN {"line", "screen"} ELSE spoilt
    BY <1>2, <2>1 DEF CtrlZ, Show
  <2>3. l = 0
    BY <2>2, Now
  <2>4. Contents = <<>> /\ Contents' = <<>>
    BY <2>2, <2>3 DEF Contents
  <2>5. Lost' = Lost /\ Kept' = Kept
    BY <2>2 DEF Lost, Kept, Held
  <2> QED
    BY <2>2, <2>4, <2>5 DEF Simulated, TextNow, PointNow
<1> QED
  BY <1>1, <1>2

(* The cursor may move, the line does not change.                          *)
LEMMA MoveSimulated ==
  ASSUME EditInv, EditInv', pc = "read", UNCHANGED <<pc, cmd, l, history>>,
         "line" \notin spoilt, "line" \notin spoilt'
  PROVE  Simulated
<1>1. ~Lost /\ ~Lost' /\ Len(Contents) = l
  BY NotLost, NotLostNext
<1>2. Contents' = Contents
  BY DEF Contents
<1>3. cursor' \in 0..Len(Contents)
  BY <1>1 DEF EditInv, EditType
<1>4. Editor!Move(cursor')
  BY <1>1, <1>2, <1>3 DEF Editor!Move
<1> QED
  BY <1>1, <1>3, <1>4, EditSimulated

LEMMA RedrawStays ==
  ASSUME EditInv, EditInv', pc = "read", "line" \notin spoilt, "line" \notin spoilt',
         Ignored \/ Redraw \/ Left \/ Right \/ Home \/ End \/ CallbackPrints
  PROVE  Simulated
<1>1. UNCHANGED <<pc, cmd, l, history>>
  <2>1. ASSUME NEW cur, NEW s, NEW sp, Edit(cmd, l, cur, s, sp)
        PROVE  UNCHANGED <<pc, cmd, l, history>>
    BY <2>1 DEF Edit, session
  <2> QED
    BY <2>1 DEF Ignored, Redraw, Left, Right, Home, End, CallbackPrints
<1> QED
  BY <1>1, MoveSimulated

(* A line that is entered.                                                 *)
LEMMA EndLineOutcome ==
  ASSUME NEW b, NEW n, NEW s, NEW sp, NEW again \in BOOLEAN, EndLine(b, n, s, sp, again)
  PROVE  \/ Gone("undefined") \/ Gone("done")
         \/ /\ Terminated(b) /\ pc' = pc /\ cursor' = l' /\ l' = IF again THEN n - 1 ELSE 0
            /\ cmd' = IF again THEN [b EXCEPT ![n - 1] = Nul] ELSE Empty
            /\ again /\ "line" \in sp => "line" \in spoilt'
            /\ history' = history \/ history' = AddHistory(String(b))
<1> SUFFICES ASSUME ~Gone("undefined"), ~Gone("done")
             PROVE  /\ Terminated(b) /\ pc' = pc /\ cursor' = l' /\ l' = IF again THEN n - 1 ELSE 0
                    /\ cmd' = IF again THEN [b EXCEPT ![n - 1] = Nul] ELSE Empty
                    /\ again /\ "line" \in sp => "line" \in spoilt'
                    /\ history' = history \/ history' = AddHistory(String(b))
  OBVIOUS
<1>1. Terminated(b)
  BY DEF EndLine, Undefined
<1>2. PICK o \in Outcomes(n) :
        /\ l' = IF again THEN n - 1 ELSE 0
        /\ cmd' = IF again THEN [b EXCEPT ![n - 1] = Nul] ELSE Empty
        /\ cursor' = l'
        /\ \E x, y : Show(x, (IF again THEN sp \cap {"line"} ELSE {}) \cup y)
  BY DEF EndLine, Undefined
<1>3. pc' = pc /\ (history' = history \/ history' = AddHistory(String(b)))
  BY DEF EndLine, Undefined
<1>4. again /\ "line" \in sp => "line" \in spoilt'
  BY <1>2 DEF Show
<1> QED
  BY <1>1, <1>2, <1>3, <1>4

LEMMA EndLineFew ==
  ASSUME EditInv, NEW b \in Buffers, NEW n, NEW s, NEW sp, NEW again \in BOOLEAN,
         EndLine(b, n, s, sp, again)
  PROVE  Editor!KeepsOne
<1>1. CASE Gone("undefined") \/ Gone("done")
  BY <1>1, EditorAssumption, HistoryFew DEF Gone
<1>2. CASE Terminated(b) /\ (history' = history \/ history' = AddHistory(String(b)))
  BY <1>2, StringText, HistoryFew
<1> QED
  BY <1>1, <1>2, EndLineOutcome

LEMMA QuietFew ==
  ASSUME EditInv, history' = history \/ history' = [i \in Slots |-> None]
  PROVE  Editor!KeepsOne
  BY EditorAssumption, HistoryFew

LEMMA SubmitSimulated ==
  ASSUME EditInv, EditInv', pc = "read", "line" \notin spoilt, pc' = "read", "line" \notin spoilt',
         NEW b \in Buffers, NEW n, NEW s, NEW sp, EndLine(b, n, s, sp, FALSE)
  PROVE  Simulated
<1>1. l' = 0 /\ cursor' = 0
  BY EndLineOutcome DEF Gone
<1>2. Contents' = <<>>
  BY <1>1 DEF Contents
<1>3. ~Lost'
  BY NotLostNext
<1> QED
  BY <1>1, <1>2, <1>3, EndLineFew DEF Simulated, Editor!Next, Editor!Submit, Kept

LEMMA StrcpyQuit == ASSUME cmd \in Buffers PROVE Strcpy(cmd, 0, QuitText) \in Buffers
<1>1. QuitText \in Seq(Chars) /\ Len(QuitText) \in 0..Size - 1
  BY EditorAssumption, TextFacts
<1>2. 0 \in Nat /\ 0 + Len(QuitText) < Size
  BY <1>1, SizeFacts
<1> QED
  BY <1>1, <1>2, StrcpyFacts

LEMMA EnterSimulated ==
  ASSUME EditInv, EditInv', pc = "read", "line" \notin spoilt, pc' = "read", "line" \notin spoilt',
         Newline \/ Eot \/ CallbackFails
  PROVE  Simulated
<1>1. cmd \in Buffers /\ Strcpy(cmd, 0, QuitText) \in Buffers
  BY Now, StrcpyQuit
<1>2. CASE Newline \/ CallbackFails
  BY <1>1, <1>2, SubmitSimulated DEF Newline, CallbackFails
<1>3. CASE Eot
  <2>1. CASE Edit(cmd, l, cursor, screen, spoilt)
    BY <2>1, RedrawStays DEF Ignored
  <2>2. CASE ~Edit(cmd, l, cursor, screen, spoilt)
    BY <1>1, <1>3, <2>2, SubmitSimulated DEF Eot
  <2> QED
    BY <2>1, <2>2
<1> QED
  BY <1>2, <1>3

(* A line of the history takes the place of the line.                      *)
LEMMA RecallRecalls ==
  ASSUME EditInv, EditInv', pc = "read", "line" \notin spoilt, pc' = "read", "line" \notin spoilt',
         NEW i, Recall(i)
  PROVE  Simulated
<1>1. CASE UNCHANGED <<pc, line, lastchar, session, screen, spoilt>>
  BY <1>1, MoveSimulated DEF line, session
<1>2. CASE ~(UNCHANGED <<pc, line, lastchar, session, screen, spoilt>>)
  <2> DEFINE t == history[i]
  <2>1. ~Undefined
    BY DEF Undefined, Gone
  <2>2. i \in Held /\ cmd' = Strcpy(Empty, 0, t) /\ l' = Len(t) /\ cursor' = l' /\ history' = history
    BY <1>2, <2>1 DEF Recall, session
  <2>3. t \in Text /\ t \in Kept
    <3>1. i \in Slots /\ history[i] # None
      BY <2>2 DEF Held
    <3> QED
      BY <2>2, <3>1 DEF EditInv, EditType, Kept
  <2> HIDE DEF t
  <2>4. t \in Seq(Chars) /\ Len(t) \in 0..Size - 1 /\ Len(t) \in Nat
    BY <2>3, TextFacts, SizeFacts
  <2>5. \A j \in 1..Len(t) : cmd'[j - 1] = t[j]
    <3>1. 0 \in Nat /\ 0 + Len(t) < Size /\ \A j \in 1..Len(t) : 0 + j - 1 = j - 1
      BY <2>4, SizeFacts
    <3>2. \A j \in 1..Len(t) : Strcpy(Empty, 0, t)[0 + j - 1] = t[j]
      BY <2>4, <3>1, EmptyFacts, StrcpyFacts
    <3> QED
      BY <2>2, <3>1, <3>2
  <2>6. /\ ~Lost' /\ Contents' \in Seq(Chars) /\ Len(Contents') = l'
        /\ \A j \in 1..l' : Contents'[j] = cmd'[j - 1]
    BY NotLostNext
  <2>7. Contents' = t
    <3>1. \A j \in 1..Len(t) : Contents'[j] = t[j]
      BY <2>2, <2>5, <2>6
    <3>2. Len(Contents') = Len(t)
      BY <2>2, <2>6
    <3> QED
      BY <2>4, <2>6, <3>1, <3>2
  <2>8. ~Lost
    BY NotLost
  <2>9. Editor!Recall
    BY <2>2, <2>3, <2>6, <2>7 DEF Editor!Recall, Kept
  <2> QED
    BY <2>2, <2>6, <2>8, <2>9, EditSimulated
<1> QED
  BY <1>1, <1>2

LEMMA HistorySimulated ==
  ASSUME EditInv, EditInv', pc = "read", "line" \notin spoilt, pc' = "read", "line" \notin spoilt',
         Up \/ Down
  PROVE  Simulated
<1>1. CASE Ignored
  BY <1>1, RedrawStays
<1>2. CASE \E i : Recall(i)
  BY <1>2, RecallRecalls
<1>3. CASE UNCHANGED <<pc, line, lastchar, session, screen, spoilt>>
  BY <1>3, MoveSimulated DEF line, session
<1> QED
  BY <1>1, <1>2, <1>3 DEF Up, Down

(* A character at the end of the line, or the question mark that asks for  *)
(* help on it.                                                             *)
LEMMA AppendInserts ==
  ASSUME EditInv, EditInv', pc = "read", "line" \notin spoilt, pc' = "read", "line" \notin spoilt',
         NEW c \in Chars, AppendChar(c)
  PROVE  Simulated
<1> DEFINE b == [cmd EXCEPT ![l] = c]
<1>0. cursor = l /\ l \in Nat /\ l \in Bytes /\ cmd \in Buffers /\ l <= Size - 1 /\ Size \in Nat
  BY Now, SizeFacts DEF AppendChar
<1>1. b \in Buffers /\ \A i \in Bytes : b[i] = IF i = l THEN c ELSE cmd[i]
  BY <1>0 DEF Buffers
<1>2. Put(c, b, l + 1, screen, spoilt)
  BY DEF AppendChar, Edit, Show
<1> HIDE DEF b
<1>3. /\ ~Lost /\ Contents \in Seq(Chars) /\ Len(Contents) = l
      /\ \A i \in 1..l : Contents[i] = cmd[i - 1]
  BY NotLost
<1>4. /\ ~Lost' /\ Contents' \in Seq(Chars) /\ Len(Contents') = l'
      /\ \A i \in 1..l' : Contents'[i] = cmd'[i - 1]
  BY NotLostNext
<1>5. CASE EndLine(b, l + 1, NewRow, spoilt, TRUE)
  <2>1. cursor' = l' /\ l' = (l + 1) - 1 /\ cmd' = [b EXCEPT ![(l + 1) - 1] = Nul]
    BY <1>5, EndLineOutcome DEF Gone
  <2>2. cursor' = l /\ l' = l /\ cmd' = [b EXCEPT ![l] = Nul]
    <3>1. (l + 1) - 1 = l
      BY <1>0
    <3> QED
      BY <2>1, <3>1
  <2>3. ASSUME NEW i \in 1..l PROVE Contents'[i] = Contents[i]
    <3>1. i - 1 \in Bytes /\ i - 1 # l
      BY <1>0, SizeFacts
    <3>2. cmd'[i - 1] = cmd[i - 1]
      BY <1>1, <2>2, <3>1 DEF Buffers
    <3> QED
      BY <1>3, <1>4, <2>2, <3>2
  <2>4. Contents' = Contents
    BY <1>3, <1>4, <2>2, <2>3
  <2>5. Editor!KeepsOne
    BY <1>1, <1>5, EndLineFew
  <2> QED
    BY <1>3, <1>4, <2>2, <2>4, <2>5 DEF Simulated, Editor!Next, Editor!Submit, Kept
<1>6. CASE ~EndLine(b, l + 1, NewRow, spoilt, TRUE)
  <2>1. cmd' = b /\ l' = l + 1 /\ cursor' = cursor + 1 /\ history' = history
    BY <1>2, <1>6 DEF Put, session
  <2>2. ASSUME NEW i \in 1..cursor PROVE Contents'[i] = Contents[i]
    <3>1. i \in 1..l /\ i \in 1..l' /\ i - 1 \in Bytes /\ i - 1 # l
      BY <1>0, <2>1, SizeFacts
    <3> QED
      BY <1>1, <1>3, <1>4, <2>1, <3>1
  <2>3. Contents'[cursor + 1] = c
    <3>1. cursor + 1 \in 1..l' /\ (cursor + 1) - 1 = l
      BY <1>0, <2>1
    <3> QED
      BY <1>0, <1>1, <1>4, <2>1, <3>1
  <2>4. /\ cursor \in 0..Len(Contents) /\ Len(Contents') = Len(Contents) + 1
        /\ \A i \in 1..Len(Contents) - cursor : Contents'[cursor + 1 + i] = Contents[cursor + i]
    BY <1>0, <1>3, <1>4, <2>1
  <2>5. Contents' = SubSeq(Contents, 1, cursor) \o <<c>> \o SubSeq(Contents, cursor + 1, Len(Contents))
    BY <1>3, <1>4, <2>2, <2>3, <2>4, PutIn
  <2>6. Editor!Insert(c)
    BY <1>3, <1>4, <2>1, <2>5 DEF Editor!Insert, Editor!Before, Editor!After
  <2> QED
    BY <1>3, <1>4, <2>1, <2>6, EditSimulated
<1> QED
  BY <1>5, <1>6

(* A character in the line.                                                *)
LEMMA InsertInserts ==
  ASSUME EditInv, EditInv', pc = "read", "line" \notin spoilt, pc' = "read", "line" \notin spoilt',
         NEW c \in Chars, InsertChar(c)
  PROVE  Simulated
<1> DEFINE n == IF l >= Size - 2 THEN l - 1 ELSE l
           v(i) == IF i = cursor THEN c ELSE IF i > cursor /\ i <= n + 1 THEN cmd[i - 1] ELSE cmd[i]
           b == [i \in Bytes |-> v(i)]
           s == Back(Write(screen, Rest(b, cursor, n + 1)), n - cursor + 1)
           sp == spoilt \cup (IF n < l THEN {"line"} ELSE {}) \cup (IF Echo THEN {} ELSE {"screen"})
<1>0. cursor \in Nat /\ l \in Nat /\ cursor < l /\ l <= Size - 1 /\ Size \in Nat
  BY Now, SizeFacts DEF InsertChar
<1>1. Put(c, b, n + 1, s, sp)
  BY DEF InsertChar
<1>2. n = l \/ (n = l - 1 /\ "line" \in sp)
  BY <1>0
<1>3. \A i \in Bytes : b[i] = v(i)
  <2> HIDE DEF v
  <2> QED
    OBVIOUS
<1> HIDE DEF b, s, sp, n
<1>4. ~EndLine(b, n + 1, NewRow, sp, TRUE) \/ n = l
  BY <1>2, EndLineOutcome DEF Gone
<1>5. n = l /\ cmd' = b /\ l' = n + 1 /\ cursor' = cursor + 1 /\ history' = history
  <2>1. CASE ~(cursor + 1 = n + 1)
    BY <1>1, <1>2, <2>1 DEF Put, Show, session
  <2>2. CASE cursor + 1 = n + 1
    <3>1. n # l
      BY <1>0, <2>2
    <3> QED
      BY <1>1, <1>2, <1>4, <3>1 DEF Put, Show
  <2> QED
    BY <2>1, <2>2
<1>6. /\ ~Lost /\ Contents \in Seq(Chars) /\ Len(Contents) = l
      /\ \A i \in 1..l : Contents[i] = cmd[i - 1]
  BY NotLost
<1>7. /\ ~Lost' /\ Contents' \in Seq(Chars) /\ Len(Contents') = l'
      /\ \A i \in 1..l' : Contents'[i] = cmd'[i - 1]
  BY NotLostNext
<1>8. l + 1 <= Size - 1
  BY <1>5, SizeFacts DEF EditInv, EditType
<1>9. ASSUME NEW i \in 1..cursor PROVE Contents'[i] = Contents[i]
  <2>1. i \in 1..l /\ i \in 1..l' /\ i - 1 \in Bytes /\ i - 1 < cursor /\ i - 1 # cursor /\ ~(i - 1 > cursor)
    BY <1>0, <1>5, <1>8, SizeFacts
  <2> QED
    BY <1>3, <1>5, <1>6, <1>7, <2>1
<1>10. Contents'[cursor + 1] = c
  <2>1. cursor + 1 \in 1..l' /\ (cursor + 1) - 1 = cursor /\ cursor \in Bytes
    BY <1>0, <1>5, <1>8, SizeFacts
  <2> QED
    BY <1>3, <1>5, <1>7, <2>1
<1>11. ASSUME NEW i \in 1..Len(Contents) - cursor PROVE Contents'[cursor + 1 + i] = Contents[cursor + i]
  <2>1. /\ cursor + 1 + i \in 1..l' /\ (cursor + 1 + i) - 1 = cursor + i /\ cursor + i \in Bytes
        /\ cursor + i # cursor /\ cursor + i > cursor /\ cursor + i <= n + 1 /\ cursor + i \in 1..l
    BY <1>0, <1>5, <1>6, <1>8, SizeFacts
  <2>2. b[cursor + i] = cmd[(cursor + i) - 1]
    BY <1>3, <2>1
  <2> QED
    BY <1>5, <1>6, <1>7, <2>1, <2>2
<1>12. cursor \in 0..Len(Contents) /\ Len(Contents') = Len(Contents) + 1
  BY <1>0, <1>5, <1>6, <1>7
<1>13. Contents' = SubSeq(Contents, 1, cursor) \o <<c>> \o SubSeq(Contents, cursor + 1, Len(Contents))
  BY <1>6, <1>7, <1>9, <1>10, <1>11, <1>12, PutIn
<1>14. Editor!Insert(c)
  BY <1>5, <1>6, <1>7, <1>13 DEF Editor!Insert, Editor!Before, Editor!After
<1> QED
  BY <1>5, <1>6, <1>7, <1>14, EditSimulated

(* A part of the line, a name and a blank.                                 *)
LEMMA JoinedThree ==
  ASSUME NEW S, NEW a \in Seq(S), NEW m \in Seq(S), NEW c \in S, NEW r \in Seq(S),
         Len(r) = Len(a) + Len(m) + 1, \A i \in 1..Len(a) : r[i] = a[i],
         \A i \in 1..Len(m) : r[Len(a) + i] = m[i], r[Len(a) + Len(m) + 1] = c
  PROVE  r = a \o m \o <<c>>
<1> DEFINE x == a \o m
           y == <<c>>
<1>1. Len(a) \in Nat /\ Len(m) \in Nat
  OBVIOUS
<1>2. x \in Seq(S) /\ Len(x) = Len(a) + Len(m) /\ \A i \in 1..Len(a) : x[i] = a[i]
  OBVIOUS
<1>3. \A i \in Len(a) + 1..Len(a) + Len(m) : x[i] = m[i - Len(a)]
  OBVIOUS
<1>4. y \in Seq(S) /\ Len(y) = 1 /\ y[1] = c
  OBVIOUS
<1> HIDE DEF x, y
<1>5. ASSUME NEW i \in 1..Len(x) PROVE r[i] = x[i]
  <2>1. CASE i <= Len(a)
    BY <1>1, <1>2, <2>1
  <2>2. CASE ~(i <= Len(a))
    <3>1. /\ i - Len(a) \in 1..Len(m) /\ Len(a) + (i - Len(a)) = i
          /\ i \in Len(a) + 1..Len(a) + Len(m)
      BY <1>1, <1>2, <2>2
    <3>2. r[i] = m[i - Len(a)]
      BY <3>1
    <3> QED
      BY <1>3, <3>1, <3>2
  <2> QED
    BY <2>1, <2>2
<1>6. Len(r) = Len(x) + Len(y)
  BY <1>2, <1>4
<1>7. ASSUME NEW i \in 1..Len(y) PROVE r[Len(x) + i] = y[i]
  <2>1. i = 1
    BY <1>4
  <2> QED
    BY <1>2, <1>4, <2>1
<1>8. r = x \o y
  BY <1>2, <1>4, <1>5, <1>6, <1>7, Joined
<1> QED
  BY <1>8 DEF x, y

(* Where the name of a completion goes and ends, the string that is        *)
(* copied, and the buffer after strcpy and with the blank.                 *)
At == IF LastBlank > 0 THEN LastBlank + 1 ELSE 0
EndAt(name) == At + Len(name)
Word(name) == Blanks(At - LastBlank) \o name
Copied(name) == Strcpy(cmd, LastBlank, Word(name))
Completed(name) == Strcpy(Copied(name), EndAt(name), <<Blank>>)

LEMMA CompletedBytes ==
  ASSUME EditInv, pc = "read", NEW name \in Seq(Chars), EndAt(name) + 1 < Size
  PROVE  /\ \A i \in Bytes : i < LastBlank => Completed(name)[i] = cmd[i]
         /\ LastBlank > 0 => Completed(name)[LastBlank] = Blank
         /\ \A i \in 1..Len(name) : Completed(name)[At + i - 1] = name[i]
         /\ Completed(name)[EndAt(name)] = Blank
<1> DEFINE lb == LastBlank
           at == At
           g == At - LastBlank
           end == EndAt(name)
           w == Word(name)
           b1 == Copied(name)
           b == Completed(name)
<1>1. lb \in Nat /\ Size \in Nat /\ cmd \in Buffers /\ Len(name) \in Nat
  BY Now, LastBlankFacts, SizeFacts
<1>2. at \in Nat /\ g \in Nat /\ at = lb + g /\ (lb > 0 => g = 1)
  BY <1>1 DEF At
<1>3. end = at + Len(name) /\ end \in Nat /\ end + 1 < Size
  BY <1>1, <1>2 DEF EndAt
<1>4. Blanks(g) \in Seq(Chars) /\ Len(Blanks(g)) = g /\ \A i \in 1..g : Blanks(g)[i] = Blank
  BY <1>2, BlanksFacts
<1> HIDE DEF lb, at, g, end, w, b1, b
<1> DEFINE a == Blanks(g)
<1>5. w = a \o name
  BY DEF w, g, Word
<1> HIDE DEF a
<1>6. w \in Seq(Chars) /\ Len(w) = g + Len(name) /\ \A i \in 1..g : w[i] = Blank
  <2>1. a \in Seq(Chars) /\ Len(a) = g /\ \A i \in 1..g : a[i] = Blank
    BY <1>4 DEF a
  <2>2. \A i \in 1..Len(a) : (a \o name)[i] = a[i]
    BY <2>1
  <2>3. (a \o name) \in Seq(Chars) /\ Len(a \o name) = Len(a) + Len(name)
    BY <2>1
  <2> QED
    BY <1>5, <2>1, <2>2, <2>3
<1>7. \A i \in 1..Len(name) : w[g + i] = name[i]
  <2>1. a \in Seq(Chars) /\ Len(a) = g
    BY <1>4 DEF a
  <2>2. \A i \in Len(a) + 1..Len(a) + Len(name) : (a \o name)[i] = name[i - Len(a)]
    BY <2>1
  <2>3. \A i \in 1..Len(name) : g + i \in g + 1..g + Len(name) /\ (g + i) - g = i
    BY <1>1, <1>2
  <2> QED
    BY <1>5, <2>1, <2>2, <2>3
<1>8. lb + Len(w) = end /\ lb + Len(w) < Size
  BY <1>1, <1>2, <1>3, <1>6
<1>9. /\ b1 \in Buffers
      /\ \A i \in Bytes : i < lb => b1[i] = cmd[i]
      /\ \A i \in 1..Len(w) : b1[lb + i - 1] = w[i]
  <2>1. b1 = Strcpy(cmd, lb, w)
    BY DEF b1, lb, w, Copied
  <2> QED
    BY <1>1, <1>6, <1>8, <2>1, StrcpyFacts, ZenonT(30)
<1>10. <<Blank>> \in Seq(Chars) /\ Len(<<Blank>>) = 1 /\ <<Blank>>[1] = Blank
  BY Alphabet
<1>11. (\A i \in Bytes : i < end => b[i] = b1[i]) /\ b[end] = Blank
  <2>1. end + Len(<<Blank>>) < Size /\ 1 \in 1..Len(<<Blank>>) /\ end + 1 - 1 = end
    BY <1>1, <1>3, <1>10
  <2>2. b = Strcpy(b1, end, <<Blank>>)
    BY DEF b, b1, end, Completed
  <2>3. /\ \A i \in Bytes : i < end => b[i] = b1[i]
        /\ \A i \in 1..Len(<<Blank>>) : b[end + i - 1] = <<Blank>>[i]
    BY <1>3, <1>9, <1>10, <2>1, <2>2, StrcpyFacts, ZenonT(30)
  <2> QED
    BY <1>10, <2>1, <2>3
<1>12. ASSUME NEW i \in Bytes, i < lb PROVE b[i] = cmd[i]
  <2>1. i < end
    BY <1>1, <1>2, <1>3, <1>12, SizeFacts
  <2> QED
    BY <1>9, <1>11, <1>12, <2>1
<1>13. ASSUME lb > 0 PROVE b[lb] = Blank
  <2>1. lb \in Bytes /\ lb < end /\ 1 \in 1..Len(w) /\ lb + 1 - 1 = lb /\ 1 \in 1..g
    BY <1>1, <1>2, <1>3, <1>6, <1>13, SizeFacts
  <2> QED
    BY <1>6, <1>9, <1>11, <2>1
<1>14. ASSUME NEW i \in 1..Len(name) PROVE b[at + i - 1] = name[i]
  <2>1. /\ g + i \in 1..Len(w) /\ lb + (g + i) - 1 = at + i - 1
        /\ at + i - 1 \in Bytes /\ at + i - 1 < end
    BY <1>1, <1>2, <1>3, <1>6, SizeFacts
  <2>2. b1[at + i - 1] = w[g + i]
    BY <1>9, <2>1
  <2> QED
    BY <1>7, <1>11, <2>1, <2>2
<1> QED
  BY <1>11, <1>12, <1>13, <1>14 DEF lb, at, end, b

(* The one completion takes the place of the last word.                    *)
LEMMA CompleteCompletes ==
  ASSUME EditInv, EditInv', pc = "read", "line" \notin spoilt, pc' = "read", "line" \notin spoilt',
         cursor = l, NEW name \in Names, CompleteOne(name)
  PROVE  Simulated
<1> DEFINE lb == LastBlank
           at == At
           end == EndAt(name)
           b == Completed(name)
<1>1. ~Undefined
  BY DEF Undefined, Gone
<1>2. ~(end + 1 >= Size) /\ cmd' = b /\ l' = end + 1 /\ cursor' = end + 1 /\ history' = history
  BY <1>1 DEF CompleteOne, Edit, session, At, EndAt, Word, Copied, Completed
<1>3. name \in Seq(Chars) /\ Len(name) \in Nat
  BY CompletesAssumption
<1>4. /\ lb \in Nat /\ lb <= l /\ l \in Nat /\ l <= Size - 1 /\ Size \in Nat
      /\ (lb > 0 => cmd[lb] = Blank) /\ \A j \in lb + 1..l : cmd[j] # Blank
  BY Now, LastBlankFacts, SizeFacts
<1>5. at \in Nat /\ end \in Nat /\ end + 1 < Size
  <2>1. at \in Nat
    BY <1>4 DEF At
  <2>2. end \in Nat
    BY <1>3, <2>1 DEF EndAt
  <2> HIDE DEF at, end
  <2> QED
    BY <1>2, <1>4, <2>1, <2>2
<1>6. /\ \A i \in Bytes : i < lb => b[i] = cmd[i]
      /\ lb > 0 => b[lb] = Blank
      /\ \A i \in 1..Len(name) : b[at + i - 1] = name[i]
      /\ b[end] = Blank
  BY <1>3, <1>5, CompletedBytes
<1>7. /\ ~Lost /\ Contents \in Seq(Chars) /\ Len(Contents) = l
      /\ \A i \in 1..l : Contents[i] = cmd[i - 1]
  BY NotLost
<1>8. /\ ~Lost' /\ Contents' \in Seq(Chars) /\ Len(Contents') = l'
      /\ \A i \in 1..l' : Contents'[i] = cmd'[i - 1]
  BY NotLostNext
<1>9. \A i \in Bytes : cmd[i] = Blank => i < l
  <2>1. IsLine(cmd, l)
    BY NotLost
  <2> QED
    BY <2>1, Alphabet DEF IsLine
<1>11. at = IF lb > 0 THEN lb + 1 ELSE 0
  BY DEF At
<1>12. end = at + Len(name)
  BY DEF EndAt
<1> HIDE DEF lb, at, end, b
<1>13. \A i \in 1..Len(name) : Contents'[at + i] = name[i]
  <2> SUFFICES ASSUME NEW i \in 1..Len(name) PROVE Contents'[at + i] = name[i]
    OBVIOUS
  <2>1. at + i \in 1..l' /\ (at + i) - 1 = at + i - 1
    BY <1>2, <1>3, <1>5, <1>12
  <2> QED
    BY <1>2, <1>6, <1>8, <2>1
<1>14. Contents'[end + 1] = Blank
  <2>1. end + 1 \in 1..l' /\ (end + 1) - 1 = end
    BY <1>2, <1>5
  <2> QED
    BY <1>2, <1>6, <1>8, <2>1
<1>15. cursor' = Len(Contents') /\ cursor = Len(Contents) /\ Len(Contents') = at + Len(name) + 1
  BY <1>2, <1>7, <1>8, <1>12
<1>16. CASE lb > 0
  <2> DEFINE a == SubSeq(Contents, 1, at)
  <2>1. at = lb + 1 /\ lb \in Bytes /\ lb < l /\ at \in 0..l /\ at \in 0..Len(Contents)
    <3>1. lb \in Bytes /\ at = lb + 1
      BY <1>4, <1>11, <1>16, SizeFacts
    <3>2. lb < l
      BY <1>4, <1>9, <1>16, <3>1
    <3> QED
      BY <1>4, <1>7, <3>1, <3>2
  <2>2. a \in Seq(Chars) /\ Len(a) = at /\ \A i \in 1..at : a[i] = Contents[i]
    BY <1>7, <2>1, Parts
  <2> HIDE DEF a
  <2>3. ASSUME NEW i \in 1..at PROVE Contents'[i] = a[i]
    <3>1. i \in 1..l /\ i \in 1..l' /\ i - 1 \in Bytes /\ (i - 1 < lb \/ i - 1 = lb)
      BY <1>2, <1>3, <1>4, <1>5, <1>12, <2>1, SizeFacts
    <3>2. b[i - 1] = cmd[i - 1]
      BY <1>4, <1>6, <1>16, <3>1
    <3> QED
      BY <1>2, <1>7, <1>8, <2>2, <3>1, <3>2
  <2>4. Contents' = a \o name \o <<Blank>>
    <3>1. Len(Contents') = Len(a) + Len(name) + 1
      BY <1>15, <2>2
    <3>2. \A i \in 1..Len(a) : Contents'[i] = a[i]
      BY <2>2, <2>3
    <3>3. \A i \in 1..Len(name) : Contents'[Len(a) + i] = name[i]
      BY <1>13, <2>2
    <3>4. Contents'[Len(a) + Len(name) + 1] = Blank /\ Blank \in Chars
      BY <1>12, <1>14, <2>2, Alphabet
    <3> QED
      BY <1>3, <1>8, <2>2, <3>1, <3>2, <3>3, <3>4, JoinedThree
  <2>5. ASSUME NEW i \in at + 1..Len(Contents) PROVE Contents[i] # Blank
    <3>1. i \in 1..l /\ i - 1 \in lb + 1..l
      BY <1>4, <1>7, <2>1
    <3> QED
      BY <1>4, <1>7, <3>1
  <2>7. Editor!Complete(name)
    BY <1>7, <1>8, <1>15, <2>1, <2>4, <2>5 DEF Editor!Complete, a
  <2> QED
    BY <1>2, <1>7, <1>8, <2>7, EditSimulated
<1>17. CASE ~(lb > 0)
  <2> DEFINE k == IF cmd[0] = Blank THEN 1 ELSE 0
  <2>1. lb = 0 /\ at = 0 /\ 0 \in Bytes
    BY <1>4, <1>11, <1>17, SizeFacts
  <2>2. cmd[0] = Blank => 0 < l
    BY <1>9, <2>1
  <2>3. k \in 0..Len(Contents) /\ k \in Nat
    BY <1>4, <1>7, <2>2
  <2>4. ASSUME NEW i \in k + 1..Len(Contents) PROVE Contents[i] # Blank
    <3>1. i \in 1..l /\ i - 1 \in 0..l /\ (i - 1 = 0 \/ i - 1 \in lb + 1..l)
      BY <1>4, <1>7, <2>1, <2>3
    <3>2. Contents[i] = cmd[i - 1]
      BY <1>7, <3>1
    <3>3. i - 1 = 0 => cmd[0] # Blank
      BY <1>4, <1>7
    <3> QED
      BY <1>4, <3>1, <3>2, <3>3
  <2>5. ASSUME NEW i \in 1..k PROVE Contents[i] = Blank
    <3>1. i = 1 /\ cmd[0] = Blank
      OBVIOUS
    <3>2. 1 \in 1..l /\ 1 - 1 = 0
      BY <1>4, <2>2, <3>1
    <3> QED
      BY <1>7, <3>1, <3>2
  <2> HIDE DEF k
  <2>7. Contents' = name \o <<Blank>>
    <3> DEFINE y == <<Blank>>
    <3>1. y \in Seq(Chars) /\ Len(y) = 1 /\ y[1] = Blank
      BY Alphabet
    <3> HIDE DEF y
    <3>2. Len(Contents') = Len(name) + Len(y)
      BY <1>3, <1>15, <2>1, <3>1
    <3>3. ASSUME NEW i \in 1..Len(name) PROVE Contents'[i] = name[i]
      <4>1. at + i = i
        BY <1>3, <2>1
      <4> QED
        BY <1>13, <4>1
    <3>4. ASSUME NEW i \in 1..Len(y) PROVE Contents'[Len(name) + i] = y[i]
      <4>1. i = 1 /\ end + 1 = Len(name) + 1
        BY <1>3, <1>12, <2>1, <3>1
      <4> QED
        BY <1>14, <3>1, <4>1
    <3>5. Contents' = name \o y
      BY <1>3, <1>8, <3>1, <3>2, <3>3, <3>4, Joined
    <3> QED
      BY <3>5 DEF y
  <2>8. Editor!Complete(name)
    BY <1>7, <1>8, <1>15, <2>3, <2>4, <2>5, <2>7 DEF Editor!Complete
  <2> QED
    BY <1>2, <1>7, <1>8, <2>8, EditSimulated
<1> QED
  BY <1>16, <1>17

LEMMA TabSimulated ==
  ASSUME EditInv, EditInv', pc = "read", "line" \notin spoilt, pc' = "read", "line" \notin spoilt', Tab
  PROVE  Simulated
<1> DEFINE comps == {name \in Names : <<String(cmd), name>> \in Completes}
<1>1. ~Undefined
  BY DEF Undefined, Gone
<1>2. CASE Ignored
  BY <1>2, RedrawStays
<1>3. ASSUME cursor = l, NEW name \in comps, CompleteOne(name) PROVE Simulated
  BY <1>3, CompleteCompletes
<1>4. CASE ListAll(Cardinality(comps))
  BY <1>4, MoveSimulated DEF ListAll, Edit, session
<1>5. CASE UNCHANGED <<pc, line, in_history, session, screen, spoilt>>
  BY <1>5, MoveSimulated DEF line, session
<1> QED
  BY <1>1, <1>2, <1>3, <1>4, <1>5 DEF Tab

(* No key adds more than one line to the history.                          *)
LEMMA KeyFew == ASSUME EditInv, pc = "read", NEW k, Press(k) PROVE Editor!KeepsOne
<1>0. ASSUME NEW b, NEW n, NEW cur, NEW s, NEW sp, Edit(b, n, cur, s, sp) PROVE history' = history
  BY <1>0 DEF Edit, session
<1>1. Undefined => history' = [i \in Slots |-> None]
  BY DEF Undefined, Gone
<1>2. CASE Ignored \/ Backspace \/ EraseWord \/ Redraw \/ ClearLine \/ Kill \/ Left \/ Right \/ Home \/ End
  <2>1. history' = history \/ history' = [i \in Slots |-> None]
    BY <1>0, <1>1, <1>2
    DEF Ignored, Backspace, EraseWord, Rubbed, Redraw, ClearLine, Kill, Left, Right, Home, End
  <2> QED
    BY <2>1, QuietFew
<1>3. CASE CtrlZ \/ Tab \/ Up \/ Down
  <2>1. ASSUME NEW i, Recall(i) PROVE history' = history \/ history' = [j \in Slots |-> None]
    BY <1>1, <2>1 DEF Recall, session
  <2>2. Ignored => history' = history
    BY <1>0 DEF Ignored
  <2>3. CtrlZ \/ Up \/ Down => history' = history \/ history' = [i \in Slots |-> None]
    BY <1>1, <2>1, <2>2 DEF CtrlZ, Up, Down, session
  <2>4. ASSUME NEW name, CompleteOne(name) PROVE history' = history \/ history' = [i \in Slots |-> None]
    BY <1>0, <1>1, <2>4 DEF CompleteOne
  <2>5. ASSUME NEW n, ListAll(n) PROVE history' = history
    BY <1>0, <2>5 DEF ListAll
  <2>6. Tab => history' = history \/ history' = [i \in Slots |-> None]
    BY <1>1, <2>2, <2>4, <2>5 DEF Tab, session
  <2> QED
    BY <1>3, <2>3, <2>6, QuietFew
<1>4. CASE Newline \/ Eot
  <2>1. cmd \in Buffers /\ Strcpy(cmd, 0, QuitText) \in Buffers
    BY Now, StrcpyQuit
  <2>2. CASE Edit(cmd, l, cursor, screen, spoilt)
    BY <1>0, <2>2, QuietFew
  <2>3. CASE ~Edit(cmd, l, cursor, screen, spoilt)
    BY <1>4, <2>1, <2>3, EndLineFew DEF Newline, Eot
  <2> QED
    BY <2>2, <2>3
<1>5. ASSUME k \in Chars, AppendChar(k) \/ InsertChar(k) PROVE Editor!KeepsOne
  <2>1. ASSUME NEW b \in Buffers, NEW n, NEW s, NEW sp, Put(k, b, n, s, sp) PROVE Editor!KeepsOne
    <3>1. CASE EndLine(b, n, NewRow, sp, TRUE)
      BY <3>1, EndLineFew
    <3>2. CASE ~EndLine(b, n, NewRow, sp, TRUE)
      <4>1. history' = history
        BY <2>1, <3>2 DEF Put, session
      <4> QED
        BY <4>1, QuietFew
    <3> QED
      BY <3>1, <3>2
  <2>2. l \in Nat /\ cursor \in Nat /\ cmd \in Buffers
    BY Now
  <2>3. CASE AppendChar(k)
    <3>1. [cmd EXCEPT ![l] = k] \in Buffers
      BY <1>5, <2>2 DEF Buffers
    <3>2. CASE \E b, n, cur, s, sp : Edit(b, n, cur, s, sp)
      BY <1>0, <3>2, QuietFew
    <3>3. CASE Put(k, [cmd EXCEPT ![l] = k], l + 1, screen, spoilt)
      BY <2>1, <3>1, <3>3
    <3> QED
      BY <2>3, <3>2, <3>3 DEF AppendChar
  <2>4. CASE InsertChar(k)
    <3> DEFINE n == IF l >= Size - 2 THEN l - 1 ELSE l
               v(i) == IF i = cursor THEN k ELSE IF i > cursor /\ i <= n + 1 THEN cmd[i - 1] ELSE cmd[i]
               b == [i \in Bytes |-> v(i)]
    <3>1. \E m, s, sp : Put(k, b, m, s, sp)
      BY <2>4 DEF InsertChar
    <3>2. ASSUME NEW i \in Bytes PROVE v(i) \in Chars \cup {Nul}
      <4>1. i > cursor => i - 1 \in Bytes
        BY <2>2, SizeFacts
      <4> QED
        BY <1>5, <2>2, <4>1 DEF Buffers
    <3> HIDE DEF v
    <3>3. b \in Buffers
      BY <3>2 DEF Buffers
    <3> HIDE DEF b
    <3> QED
      BY <2>1, <3>1, <3>3
  <2> QED
    BY <1>5, <2>3, <2>4
<1> QED
  BY <1>2, <1>3, <1>4, <1>5 DEF Press

(* A line out of step is found again only at its end: entered, or recalled *)
(* over.                                                                   *)
LEMMA FoundAtEnd ==
  ASSUME EditInv, pc = "read", "line" \in spoilt, pc' = "read", "line" \notin spoilt', NEW k, Press(k)
  PROVE  cursor' = l'
<1>1. ASSUME NEW b, NEW n, NEW s, NEW sp, NEW again \in BOOLEAN, EndLine(b, n, s, sp, again)
      PROVE  cursor' = l'
  BY <1>1, EndLineOutcome DEF Gone
<1>2. ~Undefined
  BY DEF Undefined, Gone
<1>3. ASSUME NEW b, NEW n, NEW cur, NEW s, NEW sp, Edit(b, n, cur, s, sp) PROVE spoilt' = sp
  BY <1>3 DEF Edit, Show
<1>4. CASE Ignored \/ Backspace \/ EraseWord \/ Redraw \/ ClearLine \/ Kill \/ Left \/ Right \/ Home \/ End
  <2>1. "line" \in spoilt'
    BY <1>2, <1>3, <1>4
    DEF Ignored, Backspace, EraseWord, Rubbed, Redraw, ClearLine, Kill, Left, Right, Home, End
  <2> QED
    BY <2>1
<1>5. CASE CtrlZ \/ Tab
  <2>1. Ignored => "line" \in spoilt'
    BY <1>3 DEF Ignored
  <2>2. CtrlZ => "line" \in spoilt'
    BY <1>2, <2>1 DEF CtrlZ, Show
  <2>3. ASSUME NEW name, CompleteOne(name) PROVE "line" \in spoilt'
    BY <1>2, <1>3, <2>3 DEF CompleteOne
  <2>4. ASSUME NEW n, ListAll(n) PROVE "line" \in spoilt'
    BY <1>3, <2>4 DEF ListAll, Reshown
  <2>5. Tab => "line" \in spoilt'
    BY <1>2, <2>1, <2>3, <2>4 DEF Tab
  <2> QED
    BY <1>5, <2>2, <2>5
<1>6. CASE Up \/ Down
  <2>1. ASSUME NEW i, Recall(i) PROVE cursor' = l' \/ spoilt' = spoilt
    BY <1>2, <2>1 DEF Recall
  <2>2. Ignored => spoilt' = spoilt
    BY <1>3 DEF Ignored
  <2> QED
    BY <1>6, <2>1, <2>2 DEF Up, Down
<1>7. CASE Newline \/ Eot
  <2>1. CASE Edit(cmd, l, cursor, screen, spoilt)
    BY <1>3, <2>1
  <2>2. CASE ~Edit(cmd, l, cursor, screen, spoilt)
    BY <1>1, <1>7, <2>2 DEF Newline, Eot
  <2> QED
    BY <2>1, <2>2
<1>8. CASE AppendChar(k) \/ InsertChar(k)
  <2>1. ASSUME NEW b, NEW n, NEW s, NEW sp, "line" \in sp, Put(k, b, n, s, sp) PROVE cursor' = l'
    <3>1. CASE EndLine(b, n, NewRow, sp, TRUE)
      BY <1>1, <3>1
    <3>2. CASE ~EndLine(b, n, NewRow, sp, TRUE)
      BY <2>1, <3>2 DEF Put, Show
    <3> QED
      BY <3>1, <3>2
  <2>2. CASE AppendChar(k)
    BY <1>3, <2>1, <2>2 DEF AppendChar
  <2>3. CASE InsertChar(k)
    <3>1. \E b, n, s, sp : "line" \in sp /\ Put(k, b, n, s, sp)
      BY <2>3 DEF InsertChar
    <3> QED
      BY <2>1, <3>1
  <2> QED
    BY <1>8, <2>2, <2>3
<1> QED
  BY <1>4, <1>5, <1>6, <1>7, <1>8 DEF Press

LEMMA PressSimulated ==
  ASSUME EditInv, EditInv', pc = "read", NEW k, Press(k) PROVE Simulated
<1>1. Editor!KeepsOne
  BY KeyFew
<1>2. CASE Lost'
  BY <1>1, <1>2, LosingSimulated
<1>3. CASE ~Lost' /\ Lost
  <2>1. "line" \in spoilt /\ pc' = "read" /\ "line" \notin spoilt'
    BY <1>3 DEF Lost
  <2>2. Contents' \in Seq(Chars) /\ Len(Contents') = l' /\ cursor' = l'
    BY <2>1, NotLostNext, FoundAtEnd
  <2> QED
    BY <1>1, <1>3, <2>2, LosingSimulated
<1>4. CASE ~Lost' /\ ~Lost
  <2>1. "line" \notin spoilt /\ pc' = "read" /\ "line" \notin spoilt'
    BY <1>4 DEF Lost
  <2>2. CASE Ignored \/ Redraw \/ Left \/ Right \/ Home \/ End
    BY <2>1, <2>2, RedrawStays
  <2>3. CASE Newline \/ Eot \/ Up \/ Down \/ Tab
    BY <2>1, <2>3, EnterSimulated, HistorySimulated, TabSimulated
  <2>4. CASE Backspace \/ EraseWord \/ ClearLine \/ Kill \/ CtrlZ
    BY <2>1, <2>4, BackspaceErases, EraseWordErases, ClearLineClears, KillKills, CtrlZStays
  <2>5. CASE k \in Chars /\ (AppendChar(k) \/ InsertChar(k))
    BY <2>1, <2>5, AppendInserts, InsertInserts
  <2> QED
    BY <2>2, <2>3, <2>4, <2>5 DEF Press
<1> QED
  BY <1>2, <1>3, <1>4

LEMMA StepSimulated == EditInv /\ EditInv' /\ [Next]_vars => Simulated
<1> SUFFICES ASSUME EditInv, EditInv', [Next]_vars PROVE Simulated
  OBVIOUS
<1>1. ASSUME UNCHANGED <<pc, line, history, spoilt>> PROVE Simulated
  BY <1>1, Stutters DEF line
<1>2. CASE UNCHANGED vars
  BY <1>1, <1>2 DEF vars, session
<1>3. CASE pc = "read" /\ CallbackFails
  <2>1. EndLine(cmd, l, screen, spoilt, FALSE) /\ cmd \in Buffers
    BY <1>3, Now DEF CallbackFails
  <2>2. Editor!KeepsOne
    BY <2>1, EndLineFew
  <2>3. CASE Lost'
    BY <2>2, <2>3, LosingSimulated
  <2>4. CASE ~Lost'
    <3>1. pc' = "read" /\ "line" \notin spoilt'
      BY <2>4 DEF Lost
    <3>2. cursor' = l'
      BY <2>1, <3>1, EndLineOutcome DEF Gone
    <3>3. CASE "line" \in spoilt
      <4>1. Lost /\ Contents' \in Seq(Chars) /\ cursor' = Len(Contents')
        BY <3>1, <3>2, <3>3, NotLostNext DEF Lost
      <4> QED
        BY <2>2, <4>1, LosingSimulated
    <3>4. CASE "line" \notin spoilt
      BY <1>3, <3>1, <3>4, EnterSimulated
    <3> QED
      BY <3>3, <3>4
  <2> QED
    BY <2>3, <2>4
<1>4. CASE pc = "read" /\ CallbackPrints
  BY <1>4, Stutters DEF CallbackPrints, Reshown, Edit, Show, session
<1>5. CASE pc = "read" /\ Disconnect
  <2>1. Lost' /\ history' = [i \in Slots |-> None]
    BY <1>5 DEF Disconnect, Gone, Lost
  <2> QED
    BY <2>1, QuietFew, LosingSimulated
<1>6. ASSUME pc = "read", NEW b \in Input, Read(b) PROVE Simulated
  <2>1. CASE Option(b) \/ Escape(b)
    BY <1>1, <2>1 DEF Option, Escape, session
  <2>2. CASE Press(IF esc = 2 THEN Arrow(b) ELSE IF b = Iac THEN Ordinary ELSE b)
    BY <1>6, <2>2, PressSimulated
  <2> QED
    BY <1>6, <2>1, <2>2 DEF Read
<1> QED
  BY <1>2, <1>3, <1>4, <1>5, <1>6 DEF Next

(* The inner loop of cli_loop implements an editor of a sequence of        *)
(* characters: on every line that is not lost, each key changes the bytes, *)
(* the length and the cursor as it would change the sequence and its       *)
(* point, for every size of cmd, every history and every set of names.     *)
THEOREM EditorRefined == Spec => EditorPromise
<1>1. Init => Editor!Init
  <2> SUFFICES ASSUME Init PROVE Editor!Init
    OBVIOUS
  <2>1. ~Lost /\ Contents = <<>> /\ cursor = 0
    BY DEF Init, Lost, Contents
  <2>2. history \in [Slots -> Text \cup {None}]
    BY EditorAssumption DEF Init
  <2>3. {history[i] : i \in Held} \subseteq Seq(Chars)
    BY <2>2, TextFacts DEF Held
  <2> QED
    BY <2>1, <2>3 DEF Editor!Init
<1>2. EditInv /\ EditInv' /\ [Next]_vars => [Editor!Next]_Editor!vars
  BY StepSimulated DEF Simulated, TextNow, PointNow, Kept, Editor!vars
<1> QED
  BY <1>1, <1>2, EditAlways, PTL DEF Spec, EditorPromise, Editor!Spec
==============================================================================
