-------------------------- MODULE VgaTerminalProofs --------------------------
(***************************************************************************)
(* Proofs about VgaTerminal: the screen shows the text accepted, for every *)
(* size of the screen and whatever is printed.  A print is a loop over its *)
(* characters, here a fold; what its loop has done after each character is *)
(* what the proofs speak of.                                               *)
(***************************************************************************)
EXTENDS VgaTerminal, WellFoundedInduction, TLAPS

USE VgaAssumption

-----------------------------------------------------------------------------
(* Folds.  FoldLeft is a recursive function on sets of positions.  That    *)
(* there is one is shown by a least counterexample, for the four loops of  *)
(* the model at once.                                                      *)
Loop(kind, a, x) ==
  CASE kind = "put"       -> Terminal_Putch(a, x)
    [] kind = "accept"    -> Accept(a, x)
    [] kind = "directive" -> Directive(a, x)
    [] kind = "lines"     -> AcceptAll(a, x.text)

IsFoldTo(g, n, kind, a, word) ==
  g = [w \in SUBSET (1..n) |->
         IF w = {} THEN a ELSE LET x == Max(w) IN Loop(kind, g[w \ {x}], word[x])]

(* What the loop has made of a after each of the elements of word.         *)
Rounds(c, kind, a, word) ==
  c[0] = a /\ \A i \in 1..Len(word) : c[i] = Loop(kind, c[i-1], word[i])

LessThan == {e \in Nat \X Nat : e[1] < e[2]}

LEMMA LessThanWellFounded == IsWellFoundedOn(LessThan, Nat)
BY NatLessThanWellFounded, Zenon DEF OpToRel, LessThan

(* Induction: what holds of 0 and fails somewhere first fails after it.    *)
LEMMA FirstFailure ==
  ASSUME NEW A, A \subseteq Nat, A # {}, 0 \notin A
  PROVE  \E x \in Nat : x \notin A /\ x + 1 \in A
<1>1. \E x \in A : \A y \in A : ~ (<<y, x>> \in LessThan)
  BY LessThanWellFounded, WFMin
<1>2. \A x, y \in A : ~ (<<y, x>> \in LessThan) => x <= y
  BY DEF LessThan
<1>3. PICK y \in A : \A z \in A : y <= z
  BY <1>1, <1>2
<1>4. y \in Nat /\ y # 0
  BY <1>3
<1>5. y - 1 \in Nat /\ (y - 1) + 1 = y /\ ~ (y <= y - 1)
  BY <1>4
<1> QED BY <1>3, <1>5

LEMMA MaxIs ==
  ASSUME NEW A, A \subseteq Int, NEW x \in A, \A y \in A : y <= x
  PROVE  Max(A) = x
<1>1. \A z \in A : (\A y \in A : z >= y) => z = x
  OBVIOUS
<1> QED BY <1>1 DEF Max

LEMMA FoldGrows ==
  ASSUME NEW a, NEW word, NEW kind, NEW n \in Nat,
         NEW g, IsFoldTo(g, n, kind, a, word)
  PROVE  \E h : IsFoldTo(h, n + 1, kind, a, word)
<1> DEFINE h == [w \in SUBSET (1..n+1) |->
                   IF n + 1 \in w THEN Loop(kind, g[w \ {n + 1}], word[n + 1]) ELSE g[w]]
           Body(w) == IF w = {} THEN a
                      ELSE LET x == Max(w) IN Loop(kind, h[w \ {x}], word[x])
<1>1. ASSUME NEW w \in SUBSET (1..n+1)
      PROVE  h[w] = Body(w)
  <2>1. CASE n + 1 \in w
    <3>1. Max(w) = n + 1
      <4>1. w \subseteq Int /\ \A y \in w : y <= n + 1
        OBVIOUS
      <4> QED BY <2>1, <4>1, MaxIs
    <3>2. w \ {n + 1} \in SUBSET (1..n)
      OBVIOUS
    <3>3. h[w \ {n + 1}] = g[w \ {n + 1}]
      BY <3>2
    <3>4. h[w] = Loop(kind, g[w \ {n + 1}], word[n + 1])
      BY <2>1
    <3> HIDE DEF h
    <3> QED BY <2>1, <3>1, <3>3, <3>4
  <2>2. CASE n + 1 \notin w
    <3>1. w \in SUBSET (1..n)
      BY <2>2
    <3>2. h[w] = g[w]
      BY <2>2
    <3>3. g[w] = IF w = {} THEN a ELSE LET x == Max(w) IN Loop(kind, g[w \ {x}], word[x])
      BY <3>1 DEF IsFoldTo
    <3>4. h[w \ {Max(w)}] = g[w \ {Max(w)}]
      <4> DEFINE v == w \ {Max(w)}
      <4>1. v \in SUBSET (1..n+1) /\ n + 1 \notin v
        BY <2>2
      <4> HIDE DEF v
      <4>2. h[v] = g[v]
        BY <4>1
      <4> QED BY <4>2 DEF v
    <3> HIDE DEF h
    <3> QED BY <3>2, <3>3, <3>4
  <2> QED BY <2>1, <2>2
<1>2. h = [w \in SUBSET (1..n+1) |-> h[w]]
  OBVIOUS
<1> HIDE DEF h
<1>3. IsFoldTo(h, n + 1, kind, a, word)
  BY <1>1, <1>2 DEF IsFoldTo
<1> QED BY <1>3

LEMMA FoldExists ==
  ASSUME NEW a, NEW word, NEW kind, NEW n \in Nat
  PROVE  \E g : IsFoldTo(g, n, kind, a, word)
<1> DEFINE A == {i \in Nat : ~ \E g : IsFoldTo(g, i, kind, a, word)}
<1> SUFFICES ASSUME A # {} PROVE FALSE
  OBVIOUS
<1>1. 0 \notin A
  <2> DEFINE g == [w \in SUBSET (1..0) |-> a]
  <2>1. \A w \in SUBSET (1..0) : w = {}
    OBVIOUS
  <2>2. IsFoldTo(g, 0, kind, a, word)
    BY <2>1 DEF IsFoldTo
  <2> QED BY <2>2
<1>2. A \subseteq Nat
  OBVIOUS
<1>3. PICK x \in Nat : x \notin A /\ x + 1 \in A
  <2> HIDE DEF A
  <2> QED BY <1>1, <1>2, FirstFailure
<1>4. PICK g : IsFoldTo(g, x, kind, a, word)
  BY <1>3
<1>5. \E h : IsFoldTo(h, x + 1, kind, a, word)
  BY <1>4, FoldGrows
<1> QED BY <1>3, <1>5

(* The fold takes the positions one by one, the first first.               *)
LEMMA FoldGoesRound ==
  ASSUME NEW a, NEW kind, NEW word, NEW n \in Nat, Len(word) = n,
         NEW g, IsFoldTo(g, n, kind, a, word)
  PROVE  \E c : Rounds(c, kind, a, word) /\ c[n] = g[1..n]
<1>1. g[{}] = a
  BY DEF IsFoldTo
<1>2. ASSUME NEW i \in 1..n
      PROVE  g[1..i] = Loop(kind, g[1..i-1], word[i])
  <2>1. 1..i \in SUBSET (1..n) /\ 1..i # {} /\ (1..i) \ {i} = 1..i-1
    <3>1. i \in 1..i /\ \A y \in 1..i : y \in 1..n
      OBVIOUS
    <3>2. (1..i) \ {i} = 1..i-1
      OBVIOUS
    <3> QED BY <3>1, <3>2
  <2>2. Max(1..i) = i
    <3>1. 1..i \subseteq Int /\ i \in 1..i /\ \A y \in 1..i : y <= i
      OBVIOUS
    <3> QED BY <3>1, MaxIs
  <2>3. g[1..i] = IF 1..i = {} THEN a
                  ELSE LET x == Max(1..i) IN Loop(kind, g[(1..i) \ {x}], word[x])
    BY <2>1 DEF IsFoldTo
  <2> QED BY <2>1, <2>2, <2>3
<1> DEFINE c == [i \in 0..n |-> g[1..i]]
<1>3. c[0] = a /\ c[n] = g[1..n]
  <2>1. 1..0 = {} /\ 0 \in 0..n /\ n \in 0..n
    OBVIOUS
  <2> QED BY <1>1, <2>1
<1>4. \A i \in 1..n : c[i] = Loop(kind, c[i-1], word[i])
  <2> SUFFICES ASSUME NEW i \in 1..n PROVE c[i] = Loop(kind, c[i-1], word[i])
    OBVIOUS
  <2>1. i \in 0..n /\ i - 1 \in 0..n
    OBVIOUS
  <2> QED BY <1>2, <2>1
<1> HIDE DEF c
<1>5. Rounds(c, kind, a, word)
  BY <1>3, <1>4 DEF Rounds
<1> QED BY <1>3, <1>5

(* The four loops.                                                         *)
LEMMA PutsGoRound ==
  ASSUME NEW s, NEW word, NEW n \in Nat, Len(word) = n, DOMAIN word = 1..n
  PROVE  \E c : Rounds(c, "put", s, word) /\ c[n] = PutAll(s, word)
<1> DEFINE P(g) == g = [w \in SUBSET (1..n) |->
                         IF w = {} THEN s
                         ELSE LET x == Max(w) IN Terminal_Putch(g[w \ {x}], word[x])]
           G == CHOOSE g : P(g)
<1>1. PutAll(s, word) = G[1..n]
  BY DEF PutAll, FoldLeft, MapThenFoldSet
<1>2. ASSUME NEW g
      PROVE  IsFoldTo(g, n, "put", s, word) <=> P(g)
  BY DEF IsFoldTo, Loop
<1> HIDE DEF P
<1>3. PICK g : P(g)
  BY <1>2, FoldExists
<1>4. P(G)
  BY <1>3
<1>5. IsFoldTo(G, n, "put", s, word)
  BY <1>2, <1>4
<1> HIDE DEF G
<1> QED BY <1>1, <1>5, FoldGoesRound

LEMMA AcceptsGoRound ==
  ASSUME NEW s, NEW word, NEW n \in Nat, Len(word) = n, DOMAIN word = 1..n
  PROVE  \E c : Rounds(c, "accept", s, word) /\ c[n] = AcceptAll(s, word)
<1> DEFINE P(g) == g = [w \in SUBSET (1..n) |->
                         IF w = {} THEN s
                         ELSE LET x == Max(w) IN Accept(g[w \ {x}], word[x])]
           G == CHOOSE g : P(g)
<1>1. AcceptAll(s, word) = G[1..n]
  BY DEF AcceptAll, FoldLeft, MapThenFoldSet
<1>2. ASSUME NEW g
      PROVE  IsFoldTo(g, n, "accept", s, word) <=> P(g)
  BY DEF IsFoldTo, Loop
<1> HIDE DEF P
<1>3. PICK g : P(g)
  BY <1>2, FoldExists
<1>4. P(G)
  BY <1>3
<1>5. IsFoldTo(G, n, "accept", s, word)
  BY <1>2, <1>4
<1> HIDE DEF G
<1> QED BY <1>1, <1>5, FoldGoesRound

LEMMA DirectivesGoRound ==
  ASSUME NEW s, NEW word, NEW n \in Nat, Len(word) = n, DOMAIN word = 1..n
  PROVE  \E c : Rounds(c, "directive", s, word) /\ c[n] = FoldLeft(Directive, s, word)
<1> DEFINE P(g) == g = [w \in SUBSET (1..n) |->
                         IF w = {} THEN s
                         ELSE LET x == Max(w) IN Directive(g[w \ {x}], word[x])]
           G == CHOOSE g : P(g)
<1>1. FoldLeft(Directive, s, word) = G[1..n]
  BY DEF FoldLeft, MapThenFoldSet
<1>2. ASSUME NEW g
      PROVE  IsFoldTo(g, n, "directive", s, word) <=> P(g)
  BY DEF IsFoldTo, Loop
<1> HIDE DEF P
<1>3. PICK g : P(g)
  BY <1>2, FoldExists
<1>4. P(G)
  BY <1>3
<1>5. IsFoldTo(G, n, "directive", s, word)
  BY <1>2, <1>4
<1> HIDE DEF G
<1> QED BY <1>1, <1>5, FoldGoesRound

LEMMA LinesGoRound ==
  ASSUME NEW s, NEW word, NEW n \in Nat, Len(word) = n, DOMAIN word = 1..n
  PROVE  \E c : Rounds(c, "lines", s, word) /\ c[n] = AcceptFormat(s, word)
<1> DEFINE P(g) == g = [w \in SUBSET (1..n) |->
                         IF w = {} THEN s
                         ELSE LET x == Max(w) IN AcceptAll(g[w \ {x}], word[x].text)]
           G == CHOOSE g : P(g)
<1>1. AcceptFormat(s, word) = G[1..n]
  BY DEF AcceptFormat, FoldLeft, MapThenFoldSet
<1>2. ASSUME NEW g
      PROVE  IsFoldTo(g, n, "lines", s, word) <=> P(g)
  BY DEF IsFoldTo, Loop
<1> HIDE DEF P
<1>3. PICK g : P(g)
  BY <1>2, FoldExists
<1>4. P(G)
  BY <1>3
<1>5. IsFoldTo(G, n, "lines", s, word)
  BY <1>2, <1>4
<1> HIDE DEF G
<1> QED BY <1>1, <1>5, FoldGoesRound

-----------------------------------------------------------------------------
(* One character.  A screen shows lines when its position is the end of    *)
(* the last one and, until the screen is full, each character of each line *)
(* stands in its cell.                                                     *)
Shape(s) ==
  /\ DOMAIN s = {"row", "column", "color", "cursor", "cells"}
  /\ DOMAIN s.cells = Cells
  /\ s.cursor \in 0..UintSize-1

Cell(r, x) == (r * Width) + x

Stand(s, ls) ==
  \A r \in 1..Len(ls) : \A x \in 1..Len(ls[r]) :
    s.cells[Cell(r - 1, x - 1)][1] = ls[r][x]

Shows(s, ls) ==
  /\ Shape(s)
  /\ ls \in Seq(Seq(Printed)) /\ Len(ls) > 0
  /\ \A r \in 1..Len(ls) : Len(ls[r]) <= Width
  /\ s.row = Len(ls) - 1 /\ s.column = Len(ls[Len(ls)])
  /\ s.row < Height => Stand(s, ls)

(* Until the screen is full, only its visible part is written.             *)
Kept(s, t) ==
  t.row < Height => \A i \in Cells : i >= Width * Height => t.cells[i] = s.cells[i]

(* The cells a screen would have used, with one more in each row for the   *)
(* character the margin swallows.                                          *)
Used(s) == (s.row * (Width + 1)) + s.column

LEMMA Sizes ==
  /\ Width \in Nat /\ Width > 0 /\ Height \in Nat /\ Height > 0 /\ Rows \in Nat
  /\ UintSize \in Nat /\ UintSize > 0 /\ Width * Height \in Nat
  /\ (Height + 1) * Width <= Rows * Width /\ Rows * Width \in Nat
  /\ Rows * Width < UintSize
<1>1. /\ Width \in Nat /\ Width > 0 /\ Height \in Nat /\ Height > 0 /\ Rows \in Nat
      /\ UintSize \in Nat /\ UintSize > 0 /\ Height + 1 <= Rows
  OBVIOUS
<1>2. ASSUME NEW a \in Nat, NEW b \in Nat, NEW c \in Nat, a <= b
      PROVE  a * c \in Nat /\ a * c <= b * c
  BY <1>2
<1>3. (Height + 1) * Width <= Rows * Width /\ Rows * Width \in Nat
  BY <1>1, <1>2
<1>4. Width * Height \in Nat
  BY <1>1
<1> QED BY <1>1, <1>3, <1>4

(* Two places of a screen are two cells.                                   *)
LEMMA CellFacts ==
  ASSUME NEW r \in Nat, NEW x \in 0..Width-1
  PROVE  /\ Cell(r, x) \in Nat
         /\ r < Height => Cell(r, x) < Width * Height
         /\ \A q \in Nat : \A y \in 0..Width-1 : Cell(q, y) = Cell(r, x) => q = r /\ y = x
<1>1. Width \in Nat /\ Height \in Nat
  OBVIOUS
<1>2. ASSUME NEW a \in Nat, NEW b \in Nat, a < b
      PROVE  (a * Width) + Width <= b * Width
  <2>1. b - (a + 1) \in Nat
    BY <1>2
  <2>2. (b - (a + 1)) * Width >= 0
    BY <1>1, <2>1
  <2> QED BY <1>1, <2>1, <2>2
<1>3. r * Width \in Nat
  BY <1>1
<1>4. Cell(r, x) \in Nat
  BY <1>3 DEF Cell
<1>5. r < Height => Cell(r, x) < Width * Height
  BY <1>1, <1>2, <1>3 DEF Cell
<1>6. ASSUME NEW q \in Nat, NEW y \in 0..Width-1, Cell(q, y) = Cell(r, x)
      PROVE  q = r /\ y = x
  <2>1. q * Width \in Nat
    BY <1>1
  <2>2. ~ (q < r) /\ ~ (r < q)
    BY <1>2, <1>3, <1>6, <2>1 DEF Cell
  <2> QED BY <1>3, <1>6, <2>2 DEF Cell
<1> QED BY <1>4, <1>5, <1>6

LEMMA ScrollFacts ==
  ASSUME NEW s, Shape(s)
  PROVE  LET t == Terminal_Scroll(s)
         IN  Shape(t) /\ t.row = s.row /\ t.column = s.column
BY DEF Shape, Terminal_Scroll

LEMMA PutatFacts ==
  ASSUME NEW s, NEW c, NEW x, NEW y, Shape(s)
  PROVE  LET t == Terminal_Putat(s, x, y, c)
         IN  /\ Shape(t) /\ t.row = s.row /\ t.column = s.column
             /\ \A i \in Cells : i # Uint((y * Width) + x) => t.cells[i] = s.cells[i]
             /\ \A i \in Cells : i = Uint((y * Width) + x) => t.cells[i][1] = c
BY DEF Shape, Terminal_Putat

LEMMA AdvanceFacts ==
  ASSUME NEW s, NEW n, Shape(s)
  PROVE  LET t == Advance(s, n)
         IN  /\ Shape(t) /\ t.row = s.row /\ t.column = Uint(s.column + n)
             /\ t.cells = s.cells
BY DEF Shape, Advance

LEMMA NewRowFacts ==
  ASSUME NEW s, Shape(s)
  PROVE  LET t == NewRow(s)
         IN  /\ Shape(t) /\ t.row = Uint(s.row + 1) /\ t.column = 0
             /\ t.cells = s.cells
BY DEF Shape, NewRow

LEMMA UintFacts == \A n \in Nat : n < UintSize => Uint(n) = n
BY Sizes DEF Uint

LEMMA EmitFacts ==
  ASSUME NEW s, NEW c, Shape(s), s.row \in Nat, s.column \in 0..Width-1
  PROVE  LET t == Emit(s, c)
         IN  /\ Shape(t) /\ t.row = s.row /\ t.column = s.column + 1
             /\ s.row < Height =>
                  /\ \A i \in Cells : i # Cell(s.row, s.column) => t.cells[i] = s.cells[i]
                  /\ Cell(s.row, s.column) \in Cells
                  /\ t.cells[Cell(s.row, s.column)][1] = c
<1> DEFINE a == IF s.row >= Height THEN Terminal_Scroll(s) ELSE s
           b == Terminal_Putat(a, a.column, a.row, c)
           t == Advance(b, 1)
<1>1. Shape(a) /\ a.row = s.row /\ a.column = s.column
  BY ScrollFacts
<1>2. s.row < Height => a = s
  BY Sizes
<1>3. t = Emit(s, c)
  BY DEF Emit
<1> HIDE DEF a
<1>4. /\ Shape(b) /\ b.row = s.row /\ b.column = s.column
      /\ \A i \in Cells : i # Uint((s.row * Width) + s.column) => b.cells[i] = a.cells[i]
      /\ \A i \in Cells : i = Uint((s.row * Width) + s.column) => b.cells[i][1] = c
  BY <1>1, PutatFacts
<1> HIDE DEF b
<1>5. Shape(t) /\ t.row = s.row /\ t.column = Uint(s.column + 1) /\ t.cells = b.cells
  BY <1>4, AdvanceFacts
<1> HIDE DEF t
<1>6. Uint(s.column + 1) = s.column + 1
  <2>1. Width <= Rows * Width
    BY Sizes
  <2>2. s.column + 1 \in Nat /\ s.column + 1 < UintSize
    BY <2>1, Sizes
  <2> QED BY <2>2, UintFacts
<1>7. ASSUME s.row < Height
      PROVE  Cell(s.row, s.column) \in Cells
             /\ Uint((s.row * Width) + s.column) = Cell(s.row, s.column)
  <2>1. Cell(s.row, s.column) \in Nat /\ Cell(s.row, s.column) < Width * Height
    BY <1>7, CellFacts
  <2>2. Width * Height < Rows * Width
    BY Sizes
  <2>3. Cell(s.row, s.column) \in Cells /\ Cell(s.row, s.column) < UintSize
    BY <2>1, <2>2, Sizes DEF Cells
  <2>4. Uint(Cell(s.row, s.column)) = Cell(s.row, s.column)
    BY <2>1, <2>3, UintFacts
  <2> QED BY <2>3, <2>4 DEF Cell
<1> QED BY <1>2, <1>3, <1>4, <1>5, <1>6, <1>7

(* What a character does to the lines.                                     *)
LEMMA AcceptFacts ==
  ASSUME NEW ls \in Seq(Seq(Printed)), Len(ls) > 0, NEW c \in Printed,
         \A r \in 1..Len(ls) : Len(ls[r]) <= Width
  PROVE  LET n  == Len(ls)
             ms == Accept(ls, c)
         IN  /\ ms \in Seq(Seq(Printed))
             /\ c = "LF" \/ Len(ls[n]) = Width =>
                  /\ Len(ms) = n + 1 /\ ms[n + 1] = <<>>
                  /\ \A r \in 1..n : ms[r] = ls[r]
             /\ ~ (c = "LF" \/ Len(ls[n]) = Width) =>
                  /\ Len(ms) = n /\ ms[n] = Append(ls[n], c)
                  /\ \A r \in 1..n : r # n => ms[r] = ls[r]
<1> DEFINE n  == Len(ls)
           ms == Accept(ls, c)
<1>1. n \in Nat /\ n \in 1..n /\ ls[n] \in Seq(Printed) /\ Current(ls) = ls[n]
  BY DEF Current
<1>2. CASE c = "LF" \/ Len(ls[n]) = Width
  <2>1. ms = Append(ls, <<>>)
    BY <1>1, <1>2 DEF Accept
  <2>2. <<>> \in Seq(Printed)
    OBVIOUS
  <2> QED BY <1>1, <1>2, <2>1, <2>2
<1>3. CASE ~ (c = "LF" \/ Len(ls[n]) = Width)
  <2>1. ms = [ls EXCEPT ![n] = Append(ls[n], c)]
    BY <1>1, <1>3 DEF Accept
  <2>2. Append(ls[n], c) \in Seq(Printed)
    BY <1>1
  <2> DEFINE line == Append(ls[n], c)
  <2> HIDE DEF line
  <2>3. ms = [ls EXCEPT ![n] = line] /\ line \in Seq(Printed)
    BY <2>1, <2>2 DEF line
  <2>4. ms \in Seq(Seq(Printed)) /\ Len(ms) = n /\ ms[n] = line
        /\ \A r \in 1..n : r # n => ms[r] = ls[r]
    BY <1>1, <2>3
  <2> QED BY <1>3, <2>4 DEF line
<1> QED BY <1>2, <1>3

(* What is printed.                                                        *)
LEMMA NewlineIsPrinted == "LF" \in Printed
BY CharactersAssumption, Zenon

LEMMA BlankIsPrinted == " " \in Printed
BY CharactersAssumption, Zenon

LEMMA NoControls == Printed \cap {"TAB", "BS", "CR"} = {}
BY CharactersAssumption, Zenon

LEMMA PutchIs ==
  ASSUME NEW s, NEW c \in Printed
  PROVE  Terminal_Putch(s, c) = IF c = "LF" \/ s.column = Width THEN NewRow(s) ELSE Emit(s, c)
<1>1. c \notin {"TAB", "BS", "CR"}
  BY NoControls
<1> QED BY <1>1 DEF Terminal_Putch, PutPrinting, AtMargin

Goes(s, t, ms, n) ==
  /\ Shows(t, ms)
  /\ s.row <= t.row /\ t.row <= s.row + n
  /\ Kept(s, t)

LEMMA PutchShows ==
  ASSUME NEW s, NEW ls, NEW c \in Printed, Shows(s, ls), s.row + 1 < UintSize
  PROVE  /\ Goes(s, Terminal_Putch(s, c), Accept(ls, c), 1)
         /\ c # "LF" => Used(Terminal_Putch(s, c)) = Used(s) + 1
<1> DEFINE n  == Len(ls)
           t  == Terminal_Putch(s, c)
           ms == Accept(ls, c)
<1>1. /\ Shape(s) /\ ls \in Seq(Seq(Printed)) /\ n > 0 /\ n \in Nat
      /\ \A r \in 1..n : Len(ls[r]) <= Width
      /\ s.row = n - 1 /\ s.column = Len(ls[n])
      /\ s.row < Height => Stand(s, ls)
  BY DEF Shows
<1>2. n \in 1..n /\ ls[n] \in Seq(Printed) /\ Len(ls[n]) \in Nat /\ Len(ls[n]) <= Width
  BY <1>1
<1>3. CASE c = "LF" \/ s.column = Width
  <2>1. t = NewRow(s)
    BY <1>3, PutchIs
  <2>2. /\ ms \in Seq(Seq(Printed)) /\ Len(ms) = n + 1 /\ ms[n + 1] = <<>>
        /\ \A r \in 1..n : ms[r] = ls[r]
    BY <1>1, <1>3, AcceptFacts
  <2>3. Shape(t) /\ t.row = Uint(s.row + 1) /\ t.column = 0 /\ t.cells = s.cells
    BY <1>1, <2>1, NewRowFacts
  <2> HIDE DEF t, ms, n
  <2>4. t.row = s.row + 1
    BY <1>1, <2>3, UintFacts
  <2>5. \A r \in 1..n+1 : r = n + 1 \/ r \in 1..n
    BY <1>1
  <2>6. Len(<<>>) = 0
    OBVIOUS
  <2>7. t.row < Height => Stand(t, ms)
    <3> SUFFICES ASSUME t.row < Height, NEW r \in 1..Len(ms), NEW x \in 1..Len(ms[r])
                 PROVE  t.cells[Cell(r - 1, x - 1)][1] = ms[r][x]
      BY DEF Stand
    <3>1. r \in 1..n
      <4>1. r # n + 1
        BY <2>2, <2>6
      <4> QED BY <2>2, <2>5, <4>1
    <3>2. ms[r] = ls[r]
      BY <2>2, <3>1
    <3>3. s.row < Height
      <4>1. s.row \in Int
        BY <1>1
      <4> QED BY <2>4, <4>1, Sizes
    <3>4. Stand(s, ls)
      BY <1>1, <3>3
    <3> QED BY <2>3, <3>1, <3>2, <3>4 DEF Stand, n
  <2>8. ASSUME NEW r \in 1..Len(ms)
        PROVE  Len(ms[r]) <= Width
    <3>1. r = n + 1 \/ r \in 1..n
      BY <2>2, <2>5
    <3>2. CASE r = n + 1
      BY <2>2, <2>6, <3>2, Sizes
    <3>3. CASE r \in 1..n
      BY <1>1, <2>2, <3>3 DEF n
    <3> QED BY <3>1, <3>2, <3>3
  <2>9. Shows(t, ms)
    BY <1>1, <2>2, <2>3, <2>4, <2>6, <2>7, <2>8 DEF Shows
  <2>10. Kept(s, t)
    BY <2>3 DEF Kept
  <2>11. c # "LF" => Used(t) = Used(s) + 1
    <3>1. c # "LF" => s.column = Width
      BY <1>3
    <3>2. ((s.row + 1) * (Width + 1)) + 0 = ((s.row * (Width + 1)) + Width) + 1
      BY <1>1, Sizes
    <3> QED BY <2>3, <2>4, <3>1, <3>2 DEF Used
  <2> QED BY <1>1, <2>4, <2>9, <2>10, <2>11 DEF Goes, t, ms
<1>4. CASE ~ (c = "LF" \/ s.column = Width)
  <2>1. t = Emit(s, c)
    BY <1>4, PutchIs
  <2>2. /\ ms \in Seq(Seq(Printed)) /\ Len(ms) = n /\ ms[n] = Append(ls[n], c)
        /\ \A r \in 1..n : r # n => ms[r] = ls[r]
    BY <1>1, <1>4, AcceptFacts
  <2>3. s.row \in Nat /\ s.column \in 0..Width-1
    BY <1>1, <1>2, <1>4, Sizes
  <2> HIDE DEF t
  <2>4. /\ Shape(t) /\ t.row = s.row /\ t.column = s.column + 1
        /\ s.row < Height =>
             /\ \A i \in Cells : i # Cell(s.row, s.column) => t.cells[i] = s.cells[i]
             /\ Cell(s.row, s.column) \in Cells
             /\ t.cells[Cell(s.row, s.column)][1] = c
    <3>1. Shape(s)
      BY <1>1
    <3> QED BY <2>1, <2>3, <3>1, EmitFacts
  <2> DEFINE line == ls[n]
  <2>5. /\ Len(Append(line, c)) = Len(line) + 1 /\ Append(line, c)[Len(line) + 1] = c
        /\ \A x \in 1..Len(line) : Append(line, c)[x] = line[x]
    BY <1>2
  <2> HIDE DEF t, ms, n
  <2>6. ASSUME NEW r \in 1..Len(ms)
        PROVE  Len(ms[r]) <= Width
    <3>1. r \in 1..n
      BY <2>2
    <3>2. CASE r = n
      <4>1. Len(line) \in Nat /\ Len(line) <= Width /\ Len(line) # Width
        BY <1>1, <1>2, <1>4 DEF line, n
      <4> QED BY <2>2, <2>5, <3>2, <4>1, Sizes DEF line
    <3>3. CASE r # n
      BY <1>1, <2>2, <3>1, <3>3 DEF n
    <3> QED BY <3>2, <3>3
  <2>7. ASSUME s.row < Height
        PROVE  Stand(t, ms)
    <3> SUFFICES ASSUME NEW r \in 1..Len(ms), NEW x \in 1..Len(ms[r])
                 PROVE  t.cells[Cell(r - 1, x - 1)][1] = ms[r][x]
      BY DEF Stand
    <3>1. r \in 1..n /\ r - 1 \in Nat /\ r - 1 < Height /\ x - 1 \in 0..Width-1
      <4>1. Len(ms[r]) <= Width /\ r \in 1..n
        BY <2>2, <2>6
      <4> QED BY <1>1, <2>7, <4>1, Sizes
    <3>2. Cell(r - 1, x - 1) \in Cells
      <4>1. Cell(r - 1, x - 1) \in Nat /\ Cell(r - 1, x - 1) < Width * Height
        BY <3>1, CellFacts
      <4> QED BY <4>1, Sizes DEF Cells
    <3>3. CASE r = n /\ x = Len(line) + 1
      BY <1>1, <2>2, <2>4, <2>5, <2>7, <3>3 DEF line
    <3>4. CASE ~ (r = n /\ x = Len(line) + 1)
      <4>1. x \in 1..Len(ls[r]) /\ ms[r][x] = ls[r][x]
        <5>1. CASE r = n
          <6>1. ms[r] = Append(line, c) /\ ls[r] = line /\ Len(line) \in Nat
            BY <1>2, <2>2, <5>1 DEF line, n
          <6>2. x \in 1..Len(line)
            BY <2>5, <3>4, <5>1, <6>1
          <6> QED BY <2>5, <6>1, <6>2
        <5>2. CASE r # n
          BY <2>2, <3>1, <5>2
        <5> QED BY <5>1, <5>2
      <4>2. Cell(r - 1, x - 1) # Cell(s.row, s.column)
        <5>1. ~ (r - 1 = s.row /\ x - 1 = s.column)
          BY <1>1, <3>1, <3>4 DEF line
        <5>2. \A q \in Nat : \A y \in 0..Width-1 :
                Cell(q, y) = Cell(s.row, s.column) => q = s.row /\ y = s.column
          BY <2>3, CellFacts
        <5> QED BY <3>1, <5>1, <5>2
      <4>3. Stand(s, ls) /\ r \in 1..Len(ls)
        BY <1>1, <2>7, <3>1 DEF n
      <4>4. s.cells[Cell(r - 1, x - 1)][1] = ls[r][x]
        BY <4>1, <4>3 DEF Stand
      <4> QED BY <2>4, <2>7, <3>2, <4>1, <4>2, <4>4
    <3> QED BY <3>3, <3>4
  <2>8. Shows(t, ms)
    BY <1>1, <2>2, <2>4, <2>5, <2>6, <2>7 DEF Shows, line
  <2>9. Kept(s, t)
    <3>1. s.row < Height => Cell(s.row, s.column) < Width * Height
      BY <2>3, CellFacts
    <3>2. Cell(s.row, s.column) \in Int /\ Width * Height \in Int
      BY <2>3, CellFacts, Sizes
    <3> QED BY <2>4, <3>1, <3>2 DEF Kept, Cells
  <2>10. Used(t) = Used(s) + 1
    <3>1. s.row * (Width + 1) \in Nat
      BY <2>3, Sizes
    <3> QED BY <2>3, <2>4, <3>1 DEF Used
  <2> QED BY <2>3, <2>4, <2>8, <2>9, <2>10 DEF Goes, t, ms
<1> QED BY <1>3, <1>4

-----------------------------------------------------------------------------
(* Texts and formats.                                                      *)
LEMMA RowIsNatural ==
  ASSUME NEW s, NEW ls, Shows(s, ls)
  PROVE  s.row \in Nat /\ s.column \in 0..Width
<1>1. Len(ls) \in Nat /\ Len(ls) > 0 /\ s.row = Len(ls) - 1
  BY DEF Shows
<1>2. ls[Len(ls)] \in Seq(Printed) /\ s.column = Len(ls[Len(ls)]) /\ Len(ls[Len(ls)]) <= Width
  BY <1>1 DEF Shows
<1> QED BY <1>1, <1>2, Sizes

LEMMA StandsStill ==
  ASSUME NEW s, NEW ls, Shows(s, ls)
  PROVE  Goes(s, s, ls, 0)
BY RowIsNatural DEF Goes, Kept

LEMMA GoesOn ==
  ASSUME NEW s, NEW t, NEW u, NEW ms, NEW os, NEW m \in Nat, NEW n \in Nat, NEW k \in Nat,
         s.row \in Nat, Goes(s, t, ms, m), Goes(t, u, os, k), m + k <= n
  PROVE  Goes(s, u, os, n)
<1>1. t.row \in Nat /\ u.row \in Nat
  BY RowIsNatural DEF Goes
<1>2. s.row <= t.row /\ t.row <= u.row /\ t.row <= s.row + m /\ u.row <= t.row + k
  BY DEF Goes
<1>3. s.row <= u.row /\ u.row <= s.row + n
  BY <1>1, <1>2
<1>4. Kept(s, u)
  <2>1. u.row < Height => t.row < Height
    BY <1>1, <1>2, Sizes
  <2>2. Kept(s, t) /\ Kept(t, u)
    BY DEF Goes
  <2> QED BY <2>1, <2>2 DEF Kept
<1> QED BY <1>3, <1>4 DEF Goes

LEMMA TextShows ==
  ASSUME NEW s, NEW ls, NEW word \in Seq(Printed), Shows(s, ls),
         s.row + Len(word) < UintSize
  PROVE  /\ Goes(s, PutAll(s, word), AcceptAll(ls, word), Len(word))
         /\ (\A i \in 1..Len(word) : word[i] # "LF") =>
               Used(PutAll(s, word)) = Used(s) + Len(word)
<1> DEFINE n == Len(word)
           Lineless == \A i \in 1..Len(word) : word[i] # "LF"
<1>1. n \in Nat /\ DOMAIN word = 1..n /\ \A i \in 1..n : word[i] \in Printed
  OBVIOUS
<1>2. PICK c : Rounds(c, "put", s, word) /\ c[n] = PutAll(s, word)
  BY <1>1, PutsGoRound
<1>3. PICK l : Rounds(l, "accept", ls, word) /\ l[n] = AcceptAll(ls, word)
  BY <1>1, AcceptsGoRound
<1>4. c[0] = s /\ l[0] = ls
  BY <1>2, <1>3 DEF Rounds
<1>5. \A i \in 1..n : c[i] = Terminal_Putch(c[i-1], word[i]) /\ l[i] = Accept(l[i-1], word[i])
  BY <1>2, <1>3 DEF Rounds, Loop
<1>6. s.row \in Nat /\ Used(s) \in Int
  BY RowIsNatural, Sizes DEF Used
<1> DEFINE Fine(i) == Goes(s, c[i], l[i], i) /\ (Lineless => Used(c[i]) = Used(s) + i)
           A == {i \in 0..n : ~ Fine(i)}
<1>7. Fine(0)
  BY <1>4, <1>6, StandsStill
<1>8. ASSUME NEW x \in Nat, x + 1 \in 0..n, Fine(x)
      PROVE  Fine(x + 1)
  <2> HIDE DEF Lineless
  <2>1. Shows(c[x], l[x]) /\ c[x].row <= s.row + x /\ c[x].row \in Nat
    BY <1>8, RowIsNatural DEF Goes
  <2>2. x + 1 \in 1..n /\ (x + 1) - 1 = x
    BY <1>1, <1>8
  <2>3. c[x].row + 1 < UintSize
    <3>1. s.row + n < UintSize /\ x + 1 <= n
      BY <1>1, <2>2
    <3> HIDE DEF n
    <3> QED BY <1>1, <1>6, <2>1, <3>1, Sizes
  <2> DEFINE p == word[x + 1]
             t == c[x]
             ms == l[x]
  <2>4. /\ p \in Printed /\ Shows(t, ms) /\ t.row + 1 < UintSize
        /\ c[x + 1] = Terminal_Putch(t, p) /\ l[x + 1] = Accept(ms, p)
    BY <1>1, <1>5, <2>1, <2>2, <2>3
  <2>5. Lineless => p # "LF"
    BY <2>2 DEF Lineless
  <2> HIDE DEF p, t, ms
  <2>6. Goes(t, c[x + 1], l[x + 1], 1) /\ (p # "LF" => Used(c[x + 1]) = Used(t) + 1)
    BY <2>4, PutchShows
  <2>7. Goes(s, t, ms, x)
    BY <1>8 DEF t, ms
  <2>8. Goes(s, c[x + 1], l[x + 1], x + 1)
    <3> DEFINE y == x + 1
    <3>1. y \in Nat /\ x + 1 <= y /\ 1 \in Nat
      OBVIOUS
    <3> HIDE DEF y
    <3>2. Goes(s, c[x + 1], l[x + 1], y)
      BY <1>6, <2>6, <2>7, <3>1, GoesOn
    <3> QED BY <3>2 DEF y
  <2>9. Lineless => Used(c[x + 1]) = Used(s) + (x + 1)
    BY <1>6, <1>8, <2>5, <2>6 DEF t
  <2> QED BY <2>8, <2>9
<1>9. A = {}
  <2> SUFFICES ASSUME A # {} PROVE FALSE
    OBVIOUS
  <2> HIDE DEF Fine
  <2>1. A \subseteq Nat /\ 0 \notin A
    BY <1>1, <1>7
  <2>2. PICK x \in Nat : x \notin A /\ x + 1 \in A
    <3> HIDE DEF A
    <3> QED BY <2>1, FirstFailure
  <2>3. x + 1 \in 0..n /\ x \in 0..n /\ ~ Fine(x + 1) /\ Fine(x)
    BY <1>1, <2>2
  <2> QED BY <1>8, <2>3
<1>10. Fine(n)
  BY <1>1, <1>9
<1> QED BY <1>2, <1>3, <1>10

LEMMA NothingAccepted ==
  ASSUME NEW ls
  PROVE  AcceptAll(ls, <<>>) = ls
<1> DEFINE word == <<>>
<1>1. Len(word) = 0 /\ DOMAIN word = 1..0
  OBVIOUS
<1> HIDE DEF word
<1>2. PICK c : Rounds(c, "accept", ls, word) /\ c[0] = AcceptAll(ls, word)
  BY <1>1, AcceptsGoRound
<1> QED BY <1>2 DEF Rounds, word

LEMMA CursorMoves ==
  ASSUME NEW s, NEW t, NEW ms, NEW n, Goes(s, t, ms, n)
  PROVE  Goes(s, Terminal_Update_Cursor(t), ms, n)
<1> DEFINE u == Terminal_Update_Cursor(t)
<1>1. t.row \in Nat /\ t.column \in Nat /\ Shape(t)
  BY RowIsNatural DEF Goes, Shows
<1>2. Uint((t.row * Width) + t.column) \in 0..UintSize-1
  <2>1. (t.row * Width) + t.column \in Int
    BY <1>1, Sizes
  <2> QED BY <2>1, Sizes DEF Uint
<1>3. Shape(u) /\ u.row = t.row /\ u.column = t.column /\ u.cells = t.cells
  BY <1>1, <1>2 DEF Shape, Terminal_Update_Cursor
<1> HIDE DEF u
<1> QED BY <1>3 DEF Goes, Shows, Stand, Kept, u

LEMMA DirectiveShows ==
  ASSUME NEW s, NEW ls, NEW d \in Directives, Shows(s, ls), s.row + Len(d.text) < UintSize
  PROVE  Goes(s, Directive(s, d), AcceptAll(ls, d.text), Len(d.text))
<1>1. \/ d.conv \in {"plain", "string", "char"} /\ d.text \in Seq(Printed)
      \/ d.conv = "end" /\ d.text = <<>>
  BY DEF Directives
<1>2. CASE d.conv \in {"plain", "string", "char"} /\ d.text \in Seq(Printed)
  <2>1. Goes(s, PutAll(s, d.text), AcceptAll(ls, d.text), Len(d.text))
    BY <1>2, TextShows
  <2>2. CASE d.conv \in {"plain", "char"}
    BY <2>1, <2>2 DEF Directive
  <2>3. CASE d.conv = "string"
    BY <2>1, <2>3, CursorMoves DEF Directive, Terminal_Print
  <2> QED BY <1>2, <2>2, <2>3
<1>3. CASE d.conv = "end" /\ d.text = <<>>
  <2>1. Directive(s, d) = s /\ AcceptAll(ls, d.text) = ls
    BY <1>3, NothingAccepted DEF Directive
  <2>2. Len(d.text) = 0
    BY <1>3
  <2> QED BY <2>1, <2>2, StandsStill
<1> QED BY <1>1, <1>2, <1>3

LEMMA LongestIs ==
  /\ Longest \in Nat /\ Longest >= 1
  /\ \A i \in 0..Longest : i * Longest \in Nat /\ i * Longest <= Longest * Longest
  /\ \A i \in 0..Longest : (i + 1) * Longest = (i * Longest) + Longest
  /\ Longest + 1 <= (Longest * Longest) + Longest
  /\ Rows + ((Longest * Longest) + Longest) < UintSize
<1>1. Longest \in Nat /\ Longest >= 1 /\ Rows + (Longest * (Longest + 1)) < UintSize
  BY PrintedAssumption
<1>2. ASSUME NEW i \in 0..Longest
      PROVE  i * Longest \in Nat /\ i * Longest <= Longest * Longest
  <2>1. (Longest - i) * Longest >= 0 /\ Longest - i \in Nat
    BY <1>1
  <2> QED BY <1>1, <2>1
<1>3. \A i \in 0..Longest : (i + 1) * Longest = (i * Longest) + Longest
  BY <1>1
<1>4. Longest + 1 <= (Longest * Longest) + Longest
  BY <1>1, <1>2
<1>5. Longest * (Longest + 1) = (Longest * Longest) + Longest
  BY <1>1
<1> QED BY <1>1, <1>2, <1>3, <1>4, <1>5

LEMMA FormatShows ==
  ASSUME NEW s, NEW ls, NEW format \in Formats, Shows(s, ls), s.row < Rows
  PROVE  Goes(s, FoldLeft(Directive, s, format), AcceptFormat(ls, format), Longest * Longest)
<1> DEFINE n == Len(format)
<1>1. /\ n \in Nat /\ n <= Longest /\ DOMAIN format = 1..n
      /\ \A i \in 1..n : /\ format[i] \in Directives
                         /\ Len(format[i].text) \in Nat /\ Len(format[i].text) <= Longest
  <2>1. format \in Seq(Directives) /\ n <= Longest
        /\ \A i \in 1..n : Len(format[i].text) <= Longest
    BY PrintedAssumption
  <2>2. \A i \in 1..n : format[i] \in Directives
    BY <2>1
  <2>3. \A d \in Directives : Len(d.text) \in Nat
    BY DEF Directives
  <2> QED BY <2>1, <2>2, <2>3
<1>2. PICK c : Rounds(c, "directive", s, format) /\ c[n] = FoldLeft(Directive, s, format)
  BY <1>1, DirectivesGoRound
<1>3. PICK l : Rounds(l, "lines", ls, format) /\ l[n] = AcceptFormat(ls, format)
  BY <1>1, LinesGoRound
<1>4. c[0] = s /\ l[0] = ls
  BY <1>2, <1>3 DEF Rounds
<1>5. \A i \in 1..n : /\ c[i] = Directive(c[i-1], format[i])
                      /\ l[i] = AcceptAll(l[i-1], format[i].text)
  BY <1>2, <1>3 DEF Rounds, Loop
<1>6. s.row \in Nat
  BY RowIsNatural
<1> HIDE DEF n
<1> DEFINE Fine(i) == Goes(s, c[i], l[i], i * Longest)
           A == {i \in 0..n : ~ Fine(i)}
<1>7. Fine(0)
  <2>1. 0 * Longest = 0
    BY LongestIs
  <2> QED BY <1>4, <2>1, StandsStill
<1>8. ASSUME NEW x \in Nat, x + 1 \in 0..n, Fine(x)
      PROVE  Fine(x + 1)
  <2>1. x + 1 \in 1..n /\ (x + 1) - 1 = x /\ x \in 0..Longest
    BY <1>1, <1>8, LongestIs
  <2>2. /\ x * Longest \in Nat /\ x * Longest <= Longest * Longest
        /\ (x + 1) * Longest = (x * Longest) + Longest
    BY <2>1, LongestIs
  <2>3. Shows(c[x], l[x]) /\ c[x].row <= s.row + (x * Longest) /\ c[x].row \in Nat
    BY <1>8, RowIsNatural DEF Goes
  <2> DEFINE d  == format[x + 1]
             k  == Len(format[x + 1].text)
             t  == c[x]
             ms == l[x]
             m  == x * Longest
             y  == (x + 1) * Longest
             q  == Longest * Longest
  <2>4. k \in Nat /\ k <= Longest /\ d \in Directives /\ k = Len(d.text)
    BY <1>1, <2>1
  <2>5. c[x + 1] = Directive(t, d) /\ l[x + 1] = AcceptAll(ms, d.text)
    BY <1>5, <2>1
  <2>6. Goes(s, t, ms, m) /\ Shows(t, ms) /\ t.row \in Nat
    BY <1>8, <2>3
  <2>7. /\ m \in Nat /\ m <= q /\ y = m + Longest /\ q \in Nat /\ t.row <= s.row + m
        /\ Rows + (q + Longest) < UintSize
    <3>1. q \in Nat
      BY LongestIs
    <3> QED BY <2>2, <2>3, <3>1, LongestIs
  <2> HIDE DEF d, k, t, ms, m, y, q
  <2>8. t.row + k < UintSize
    BY <1>6, <2>4, <2>6, <2>7, LongestIs, Sizes
  <2>9. Goes(t, c[x + 1], l[x + 1], k)
    BY <2>4, <2>5, <2>6, <2>8, DirectiveShows
  <2>10. y \in Nat /\ m + k <= y
    BY <2>4, <2>7, LongestIs
  <2>11. Goes(s, c[x + 1], l[x + 1], y)
    BY <1>6, <2>4, <2>6, <2>7, <2>9, <2>10, GoesOn
  <2> QED BY <2>11 DEF y
<1>9. A = {}
  <2> SUFFICES ASSUME A # {} PROVE FALSE
    OBVIOUS
  <2> HIDE DEF Fine
  <2>1. A \subseteq Nat /\ 0 \notin A
    BY <1>1, <1>7
  <2>2. PICK x \in Nat : x \notin A /\ x + 1 \in A
    <3> HIDE DEF A
    <3> QED BY <2>1, FirstFailure
  <2>3. x + 1 \in 0..n /\ x \in 0..n /\ ~ Fine(x + 1) /\ Fine(x)
    BY <1>1, <2>2
  <2> QED BY <1>8, <2>3
<1>10. Goes(s, c[n], l[n], n * Longest)
  <2>1. Fine(n)
    <3> HIDE DEF Fine
    <3> QED BY <1>1, <1>9
  <2> QED BY <2>1
<1>11. n * Longest \in Nat /\ n * Longest <= Longest * Longest /\ Longest * Longest \in Nat
  BY <1>1, LongestIs
<1>12. Goes(c[n], c[n], l[n], 0)
  BY <1>10, StandsStill DEF Goes
<1>13. Goes(s, c[n], l[n], Longest * Longest)
  <2> DEFINE m == n * Longest
             q == Longest * Longest
  <2>1. m \in Nat /\ q \in Nat /\ 0 \in Nat /\ m + 0 <= q /\ Goes(s, c[n], l[n], m)
    BY <1>10, <1>11
  <2> HIDE DEF m, q
  <2>2. Goes(s, c[n], l[n], q)
    BY <1>6, <1>12, <2>1, GoesOn
  <2> QED BY <2>2 DEF q
<1> QED BY <1>2, <1>3, <1>13

-----------------------------------------------------------------------------
(* The operations.                                                         *)
ScreenInv == Shows(screen, lines) /\ screen.row < Rows

LEMMA InitShows ==
  ASSUME Init
  PROVE  ScreenInv
<1>1. /\ screen.row = 0 /\ screen.column = 0 /\ screen.cursor = 0
      /\ DOMAIN screen = {"row", "column", "color", "cursor", "cells"}
      /\ DOMAIN screen.cells = Cells
  BY DEF Init, Initialize_Terminal, Terminal_Set_Color, Home
<1>2. lines = << <<>> >>
  BY DEF Init
<1>3. lines \in Seq(Seq(Printed)) /\ Len(lines) = 1 /\ lines[1] = <<>> /\ Len(lines[1]) = 0
  BY <1>2
<1> QED BY <1>1, <1>3, Sizes DEF ScreenInv, Shows, Shape, Stand

LEMMA KprintfShows ==
  ASSUME ScreenInv, NEW format \in Formats, CallKprintf(format)
  PROVE  ScreenInv' /\ Kept(screen, screen')
<1> DEFINE t == FoldLeft(Directive, screen, format)
           u == AcceptFormat(lines, format)
           q == Longest * Longest
<1>1. Goes(screen, t, u, q)
  BY FormatShows DEF ScreenInv
<1>2. screen' \in {t, Terminal_Update_Cursor(t)} /\ lines' = u /\ screen'.row < Rows
  BY DEF CallKprintf, Kprintf, Room
<1> HIDE DEF t, u, q
<1>3. Goes(screen, screen', u, q)
  BY <1>1, <1>2, CursorMoves
<1> QED BY <1>2, <1>3 DEF Goes, ScreenInv

LEMMA PrintlnShows ==
  ASSUME ScreenInv, NEW word \in Texts, CallPrintln(word)
  PROVE  ScreenInv' /\ Kept(screen, screen')
<1> DEFINE k  == Len(word)
           a  == PutAll(screen, word)
           t  == Terminal_Print(screen, word)
           ms == AcceptAll(lines, word)
           u  == Accept(ms, "LF")
<1>1. word \in Seq(Printed) /\ k \in Nat /\ k <= Longest
  BY PrintedAssumption
<1>2. Shows(screen, lines) /\ screen.row \in Nat /\ screen.row < Rows
  BY RowIsNatural DEF ScreenInv
<1>3. screen.row + (k + 1) < UintSize
  <2> HIDE DEF k
  <2> QED BY <1>1, <1>2, LongestIs, Sizes
<1>4. screen.row + k < UintSize
  BY <1>1, <1>2, <1>3, Sizes
<1>5. Goes(screen, a, ms, k)
  BY <1>1, <1>2, <1>4, TextShows
<1>6. t = Terminal_Update_Cursor(a)
  BY DEF Terminal_Print
<1> HIDE DEF k, a, ms, t
<1>7. Goes(screen, t, ms, k)
  BY <1>5, <1>6, CursorMoves
<1>8. Shows(t, ms) /\ t.row \in Nat /\ t.row <= screen.row + k
  BY <1>7, RowIsNatural DEF Goes
<1>9. "LF" \in Printed /\ t.row + 1 < UintSize
  BY <1>1, <1>2, <1>3, <1>8, NewlineIsPrinted, Sizes
<1>10. Goes(t, Terminal_Putch(t, "LF"), u, 1)
  BY <1>8, <1>9, PutchShows
<1>11. screen' = Terminal_Putch(t, "LF") /\ lines' = u /\ screen'.row < Rows
  BY DEF CallPrintln, Terminal_Println, Room, t, ms
<1> HIDE DEF u
<1>12. Goes(screen, screen', u, k + 1)
  <2> DEFINE j == k + 1
  <2>1. j \in Nat /\ k + 1 <= j /\ 1 \in Nat
    BY <1>1
  <2> HIDE DEF j
  <2>2. Goes(screen, screen', u, j)
    BY <1>1, <1>2, <1>7, <1>10, <1>11, <2>1, GoesOn
  <2> QED BY <2>2 DEF j
<1> QED BY <1>11, <1>12 DEF Goes, ScreenInv

LEMMA NewlineShows ==
  ASSUME ScreenInv, CallNewline
  PROVE  ScreenInv' /\ Kept(screen, screen')
<1>1. Shows(screen, lines) /\ screen.row \in Nat /\ screen.row < Rows
  BY RowIsNatural DEF ScreenInv
<1>2. "LF" \in Printed /\ screen.row + 1 < UintSize
  <2> DEFINE q == Longest * Longest
  <2>1. q \in Nat /\ Rows + (q + Longest) < UintSize /\ Longest >= 1 /\ Longest \in Nat
    BY LongestIs
  <2> HIDE DEF q
  <2> QED BY <1>1, <2>1, NewlineIsPrinted, Sizes
<1>3. Goes(screen, Terminal_Putch(screen, "LF"), Accept(lines, "LF"), 1)
  BY <1>1, <1>2, PutchShows
<1>4. screen' = Terminal_Putch(screen, "LF") /\ lines' = Accept(lines, "LF") /\ screen'.row < Rows
  BY DEF CallNewline, Terminal_Newline, Room
<1> QED BY <1>3, <1>4 DEF Goes, ScreenInv

(* One column to the left is UintSize - 1 to the right.                    *)
LEMMA ColumnBack ==
  ASSUME NEW i \in 1..Width
  PROVE  Uint(i + (UintSize - 1)) = i - 1
<1>1. Width <= Rows * Width
  BY Sizes
<1>2. i - 1 \in 0..UintSize-1 /\ UintSize \in Nat /\ UintSize > 0
  BY <1>1, Sizes
<1>3. ASSUME NEW j \in Nat, NEW d \in Nat, j < d
      PROVE  (j + d) % d = j
  BY <1>3
<1>4. ((i - 1) + UintSize) % UintSize = i - 1
  <2> DEFINE j == i - 1
             d == UintSize
  <2>1. j \in Nat /\ d \in Nat /\ j < d
    BY <1>2
  <2> HIDE DEF j, d
  <2>2. (j + d) % d = j
    BY <1>3, <2>1
  <2> QED BY <2>2 DEF j, d
<1>5. (i - 1) + UintSize = i + (UintSize - 1)
  BY <1>2
<1> QED BY <1>4, <1>5 DEF Uint

LEMMA BackspaceFacts ==
  ASSUME NEW s, Shape(s), s.row \in Nat, s.column \in 1..Width
  PROVE  LET t == Terminal_Backspace(s)
         IN  /\ Shape(t) /\ t.row = s.row /\ t.column = s.column - 1
             /\ s.row < Height =>
                  \A i \in Cells : i # Cell(s.row, s.column - 1) => t.cells[i] = s.cells[i]
<1> DEFINE a == Advance(s, UintSize - 1)
           c == " "
           b == Emit(a, c)
           t == Advance(b, UintSize - 1)
<1>1. /\ Shape(a) /\ a.row = s.row /\ a.column = s.column - 1 /\ a.cells = s.cells
  BY AdvanceFacts, ColumnBack
<1>2. a.column \in 0..Width-1 /\ a.row \in Nat
  BY <1>1, Sizes
<1>3. Terminal_Backspace(s) = t
  <2>1. ~ AtMargin(a)
    BY <1>2, Sizes DEF AtMargin
  <2>2. PutPrinting(a, " ") = b
    BY <2>1, Zenon DEF PutPrinting
  <2>3. s.column > 0
    BY Sizes
  <2> HIDE DEF a, b
  <2> QED BY <2>2, <2>3 DEF Terminal_Backspace, a
<1> HIDE DEF a
<1> HIDE DEF c
<1>b. b = Emit(a, c)
  OBVIOUS
<1> HIDE DEF b
<1>4. /\ Shape(b) /\ b.row = a.row /\ b.column = a.column + 1
      /\ a.row < Height =>
           \A i \in Cells : i # Cell(a.row, a.column) => b.cells[i] = a.cells[i]
  BY <1>1, <1>2, <1>b, EmitFacts
<1>5. b.column = s.column
  BY <1>1, <1>4, Sizes
<1>6. Shape(t) /\ t.row = b.row /\ t.column = s.column - 1 /\ t.cells = b.cells
  BY <1>4, <1>5, AdvanceFacts, ColumnBack
<1> HIDE DEF t
<1> QED BY <1>1, <1>3, <1>4, <1>6

LEMMA BackspaceShows ==
  ASSUME ScreenInv, CallBackspace
  PROVE  ScreenInv' /\ Kept(screen, screen')
<1> DEFINE n    == Len(lines)
           line == lines[n]
<1>1. /\ Shape(screen) /\ lines \in Seq(Seq(Printed)) /\ n > 0 /\ n \in Nat
      /\ \A r \in 1..n : Len(lines[r]) <= Width
      /\ screen.row = n - 1 /\ screen.column = Len(line)
      /\ screen.row < Height => Stand(screen, lines)
      /\ screen.row < Rows
  BY DEF ScreenInv, Shows
<1>2. n \in 1..n /\ line \in Seq(Printed) /\ Len(line) \in Nat /\ Len(line) <= Width
  BY <1>1
<1>3. /\ screen' = Terminal_Backspace(screen)
      /\ lines' = [lines EXCEPT ![n] = IF line = <<>> THEN line ELSE Front(line)]
  BY DEF CallBackspace
<1>4. CASE line = <<>>
  <2>1. screen' = screen
    <3>1. ~ (screen.column > 0)
      BY <1>1, <1>4
    <3> QED BY <1>3, <3>1 DEF Terminal_Backspace
  <2>2. lines' = lines
    BY <1>1, <1>2, <1>3, <1>4
  <2> QED BY <2>1, <2>2 DEF ScreenInv, Kept
<1>5. CASE line # <<>>
  <2>1. Len(line) \in 1..Width
    BY <1>2, <1>5
  <2> DEFINE short == SubSeq(line, 1, Len(line) - 1)
  <2>2. /\ short \in Seq(Printed) /\ Len(short) = Len(line) - 1
        /\ \A x \in 1..Len(line)-1 : short[x] = line[x]
    BY <1>2, <2>1
  <2>3. lines' = [lines EXCEPT ![n] = short]
    BY <1>3, <1>5 DEF Front
  <2> HIDE DEF short
  <2>4. /\ lines' \in Seq(Seq(Printed)) /\ Len(lines') = n /\ lines'[n] = short
        /\ \A r \in 1..n : r # n => lines'[r] = lines[r]
    BY <1>1, <1>2, <2>2, <2>3
  <2> DEFINE s == screen
             t == screen'
  <2>5. Shape(s) /\ s.row \in Nat /\ s.column \in 1..Width
    BY <1>1, <2>1
  <2>6. /\ Shape(t) /\ t.row = s.row /\ t.column = s.column - 1
        /\ s.row < Height =>
             \A i \in Cells : i # Cell(s.row, s.column - 1) => t.cells[i] = s.cells[i]
    BY <1>3, <2>5, BackspaceFacts
  <2> HIDE DEF n, line
  <2>7. ASSUME NEW r \in 1..n
        PROVE  Len(lines'[r]) <= Width /\ Len(lines'[r]) <= Len(lines[r])
    <3>1. CASE r = n
      BY <1>2, <2>2, <2>4, <3>1, Sizes DEF line
    <3>2. CASE r # n
      <4>1. Len(lines[r]) \in Nat
        BY <1>1 DEF n
      <4> QED BY <1>1, <2>4, <3>2, <4>1
    <3> QED BY <3>1, <3>2
  <2>8. ASSUME s.row < Height
        PROVE  Stand(screen', lines')
    <3> SUFFICES ASSUME NEW r \in 1..Len(lines'), NEW x \in 1..Len(lines'[r])
                 PROVE  t.cells[Cell(r - 1, x - 1)][1] = lines'[r][x]
      BY DEF Stand
    <3>1. r \in 1..n /\ r - 1 \in Nat /\ r - 1 < Height /\ x - 1 \in 0..Width-1
      <4>1. r \in 1..n /\ Len(lines'[r]) <= Width
        BY <2>4, <2>7
      <4> QED BY <1>1, <2>8, <4>1, Sizes
    <3>2. Cell(r - 1, x - 1) \in Cells
      <4>1. Cell(r - 1, x - 1) \in Nat /\ Cell(r - 1, x - 1) < Width * Height
        BY <3>1, CellFacts
      <4> QED BY <4>1, Sizes DEF Cells
    <3>3. x \in 1..Len(lines[r]) /\ lines'[r][x] = lines[r][x]
      <4>1. CASE r = n
        BY <1>2, <2>2, <2>4, <4>1 DEF line
      <4>2. CASE r # n
        BY <2>4, <3>1, <4>2
      <4> QED BY <4>1, <4>2
    <3>4. Cell(r - 1, x - 1) # Cell(s.row, s.column - 1)
      <4>1. ~ (r - 1 = s.row /\ x - 1 = s.column - 1)
        <5>1. r = n => x <= Len(line) - 1
          BY <1>2, <2>2, <2>4
        <5> QED BY <1>1, <1>2, <3>1, <5>1
      <4>2. s.column - 1 \in 0..Width-1
        BY <2>5, Sizes
      <4>3. \A q \in Nat : \A y \in 0..Width-1 :
              Cell(q, y) = Cell(s.row, s.column - 1) => q = s.row /\ y = s.column - 1
        <5> DEFINE z == s.column - 1
        <5>1. z \in 0..Width-1 /\ s.row \in Nat
          BY <2>5, <4>2
        <5> HIDE DEF z
        <5>2. \A q \in Nat : \A y \in 0..Width-1 : Cell(q, y) = Cell(s.row, z) => q = s.row /\ y = z
          BY <5>1, CellFacts
        <5> QED BY <5>2 DEF z
      <4> QED BY <3>1, <4>1, <4>3
    <3>5. s.cells[Cell(r - 1, x - 1)][1] = lines[r][x]
      BY <1>1, <2>8, <3>1, <3>3 DEF Stand, n
    <3> QED BY <2>6, <2>8, <3>2, <3>3, <3>4, <3>5
  <2>9. Shows(screen', lines')
    <3>1. Len(lines') > 0 /\ \A r \in 1..Len(lines') : Len(lines'[r]) <= Width
      BY <1>1, <2>4, <2>7
    <3>2. t.row = Len(lines') - 1 /\ t.column = Len(lines'[Len(lines')])
      BY <1>1, <2>2, <2>4, <2>6
    <3> QED BY <2>4, <2>6, <2>8, <3>1, <3>2 DEF Shows
  <2>10. Kept(screen, screen')
    <3>1. s.column - 1 \in 0..Width-1
      BY <2>5, Sizes
    <3>2. Cell(s.row, s.column - 1) \in Nat
          /\ (s.row < Height => Cell(s.row, s.column - 1) < Width * Height)
      BY <2>5, <3>1, CellFacts
    <3> QED BY <2>6, <3>2, Sizes DEF Kept, Cells
  <2> QED BY <1>1, <2>6, <2>9, <2>10 DEF ScreenInv
<1> QED BY <1>4, <1>5

LEMMA HomeFacts ==
  ASSUME NEW s, Shape(s)
  PROVE  /\ Shape(Home(s)) /\ Home(s).row = 0 /\ Home(s).column = 0
         /\ Home(s).cells = s.cells
BY DEF Shape, Home

LEMMA NothingShown ==
  ASSUME NEW s, Shape(s), s.row = 0, s.column = 0
  PROVE  Shows(s, << <<>> >>)
<1> DEFINE ls == << <<>> >>
<1>1. ls \in Seq(Seq(Printed)) /\ Len(ls) = 1 /\ ls[1] = <<>> /\ Len(ls[1]) = 0
  OBVIOUS
<1> HIDE DEF ls
<1>2. Stand(s, ls)
  BY <1>1 DEF Stand
<1>3. Shows(s, ls)
  BY <1>1, <1>2, Sizes DEF Shows
<1> QED BY <1>3 DEF ls

(* The blanks that clear the screen never fill its last row: the margin    *)
(* swallows one for every row.                                             *)
LEMMA ClearStays ==
  ASSUME NEW row \in Nat, NEW column \in Nat,
         (row * (Width + 1)) + column = Width * Height
  PROVE  row < Height
<1> SUFFICES ASSUME row >= Height PROVE FALSE
  BY Sizes
<1>1. row - Height \in Nat
  BY Sizes
<1>2. (row - Height) * (Width + 1) >= 0
  BY <1>1, Sizes
<1>3. row * (Width + 1) = ((row - Height) * (Width + 1)) + ((Width * Height) + Height)
  BY <1>1, Sizes
<1>4. row * (Width + 1) \in Nat /\ Height > 0 /\ Width * Height \in Nat
      /\ (row - Height) * (Width + 1) \in Nat
  BY <1>1, Sizes
<1> QED BY <1>2, <1>3, <1>4, Sizes

LEMMA ClearShows ==
  ASSUME ScreenInv, CallClear
  PROVE  ScreenInv' /\ Kept(screen, screen')
<1> DEFINE n     == Width * Height
           blank == " "
           word  == [i \in 1..n |-> blank]
           s     == Home(screen)
           t     == PutAll(s, word)
           ls    == << <<>> >>
           ms    == AcceptAll(ls, word)
<1>1. n \in Nat /\ n < UintSize
  BY Sizes
<1>2. blank \in Printed /\ blank # "LF"
  BY BlankIsPrinted, Zenon
<1>3. screen' = Home(t) /\ lines' = ls
  BY Zenon DEF CallClear, Terminal_Clear
<1> HIDE DEF n, blank
<1>4. word \in Seq(Printed) /\ Len(word) = n /\ \A i \in 1..Len(word) : word[i] # "LF"
  BY <1>1, <1>2
<1> HIDE DEF word
<1>5. Shape(screen)
  BY DEF ScreenInv, Shows
<1>6. Shape(s) /\ s.row = 0 /\ s.column = 0 /\ s.cells = screen.cells
  BY <1>5, HomeFacts
<1>7. Shows(s, ls)
  BY <1>6, NothingShown
<1> HIDE DEF s, t, ls, ms
<1>8. s.row + Len(word) < UintSize
  BY <1>1, <1>4, <1>6
<1>9. Goes(s, t, ms, Len(word)) /\ Used(t) = Used(s) + Len(word)
  BY <1>4, <1>7, <1>8, TextShows DEF t, ms
<1>10. Shows(t, ms) /\ Shape(t) /\ t.row \in Nat /\ t.column \in Nat /\ Kept(s, t)
  BY <1>9, RowIsNatural DEF Goes, Shows
<1>11. Used(s) = 0
  BY <1>6, Sizes DEF Used
<1>12. t.row < Height
  <2>1. (t.row * (Width + 1)) + t.column = n
    BY <1>1, <1>4, <1>9, <1>11 DEF Used
  <2> QED BY <1>10, <2>1, ClearStays DEF n
<1>13. /\ Shape(screen') /\ screen'.row = 0 /\ screen'.column = 0
       /\ screen'.cells = t.cells
  BY <1>3, <1>10, HomeFacts
<1>14. Kept(screen, screen')
  BY <1>6, <1>10, <1>12, <1>13 DEF Kept
<1>15. Shows(screen', ls)
  BY <1>13, NothingShown DEF ls
<1> QED BY <1>3, <1>13, <1>14, <1>15, Sizes DEF ScreenInv

LEMMA ColorShows ==
  ASSUME ScreenInv, NEW color, CallSetColor(color)
  PROVE  ScreenInv' /\ Kept(screen, screen')
<1>1. /\ Shape(screen') /\ screen'.row = screen.row /\ screen'.column = screen.column
      /\ screen'.cells = screen.cells /\ lines' = lines
  BY DEF CallSetColor, Terminal_Set_Color, ScreenInv, Shows, Shape
<1> QED BY <1>1 DEF ScreenInv, Shows, Stand, Kept

LEMMA NextShows ==
  ASSUME ScreenInv, Next
  PROVE  ScreenInv' /\ Kept(screen, screen')
<1>1. ASSUME NEW format \in Formats, CallKprintf(format)
      PROVE  ScreenInv' /\ Kept(screen, screen')
  BY <1>1, KprintfShows
<1>2. ASSUME NEW word \in Texts, CallPrintln(word)
      PROVE  ScreenInv' /\ Kept(screen, screen')
  BY <1>2, PrintlnShows
<1>3. ASSUME NEW color \in Colors, CallSetColor(color)
      PROVE  ScreenInv' /\ Kept(screen, screen')
  BY <1>3, ColorShows
<1> QED
  BY <1>1, <1>2, <1>3, NewlineShows, BackspaceShows, ClearShows DEF Next

LEMMA Invariance == Spec => []ScreenInv
<1>1. Init => ScreenInv
  BY InitShows
<1>2. ScreenInv /\ [Next]_vars => ScreenInv'
  <2>1. ScreenInv /\ Next => ScreenInv'
    BY NextShows
  <2>2. ScreenInv /\ UNCHANGED vars => ScreenInv'
    BY DEF ScreenInv, vars
  <2> QED BY <2>1, <2>2
<1> QED BY <1>1, <1>2, PTL DEF Spec

-----------------------------------------------------------------------------
(* The position stays on the screen and within the memory                  *)
(* (vga.c:27-28, 86-157).                                                  *)
THEOREM TypeCorrect == Spec => []TypeOK
<1>1. ScreenInv => TypeOK
  <2> SUFFICES ASSUME ScreenInv PROVE TypeOK
    OBVIOUS
  <2>1. screen.row \in Nat /\ screen.column \in 0..Width
    BY RowIsNatural DEF ScreenInv
  <2> QED BY <2>1, Sizes DEF ScreenInv, Shows, Shape, TypeOK
<1> QED BY <1>1, Invariance, PTL

(* Until the screen is full it shows the lines accepted, character by      *)
(* character, whatever has been printed, erased and cleared before, for    *)
(* every size of screen and all texts and formats (vga.c:86-157).          *)
THEOREM TextIsShown == Spec => []ScreenShowsText
<1>1. ScreenInv => ScreenShowsText
  <2> SUFFICES ASSUME ScreenInv, screen.row < Height
               PROVE  /\ screen.row = Len(lines) - 1
                      /\ screen.column = Len(Current(lines))
                      /\ \A r \in DOMAIN lines : \A x \in DOMAIN lines[r] :
                           screen.cells[(r - 1) * Width + (x - 1)][1] = lines[r][x]
    BY DEF ScreenShowsText
  <2>1. /\ lines \in Seq(Seq(Printed)) /\ Stand(screen, lines)
        /\ screen.row = Len(lines) - 1 /\ screen.column = Len(lines[Len(lines)])
    BY DEF ScreenInv, Shows
  <2>2. DOMAIN lines = 1..Len(lines) /\ \A r \in 1..Len(lines) : DOMAIN lines[r] = 1..Len(lines[r])
    BY <2>1
  <2> QED BY <2>1, <2>2 DEF Stand, Cell, Current
<1> QED BY <1>1, Invariance, PTL

(* While the screen is not full, no operation writes behind its visible    *)
(* part: not even clearing it, whose blanks run into the margin            *)
(* (vga.c:78-175).                                                         *)
THEOREM MemoryBehindIsKept == Spec => RestOfMemoryIsKept
<1>1. ScreenInv /\ [Next]_vars =>
        [screen'.row < Height =>
           \A i \in Cells : i >= Width * Height => screen'.cells[i] = screen.cells[i]]_vars
  BY NextShows DEF Kept
<1> QED BY <1>1, Invariance, PTL DEF Spec, RestOfMemoryIsKept
=============================================================================
