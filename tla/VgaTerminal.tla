----------------------------- MODULE VgaTerminal -----------------------------
(***************************************************************************)
(* The text screen driver (kernel/x86/video/vga.c): the position, the text *)
(* memory, and the operations that print, scroll, erase and clear.  Only   *)
(* one context prints at a time, so an operation is one action; a screen   *)
(* is a record and the operations are functions on it.                     *)
(*                                                                         *)
(* The text memory is longer than the visible part.  Characters are        *)
(* strings: LF, TAB, BS and CR are the control characters, "high" is one   *)
(* above 127, whose sign extension fills the attribute byte.               *)
(***************************************************************************)
EXTENDS Naturals, Sequences, SequencesExt

CONSTANTS
  Width, Height,  \* 80 and 25
  TabStop,        \* 8
  UintSize,       \* the values of a uint32_t
  Rows,           \* bound: the rows of the text memory
  Colors,         \* the colors text is printed in
  Printed,        \* the characters printed
  Texts,          \* the strings printed
  Formats,        \* the formats printed, with their arguments
  Longest,        \* bound: characters of a text, directives of a format
  LastRow         \* bound: the last row a print begins in

ASSUME VgaAssumption ==
  /\ Width \in Nat \ {0} /\ Height \in Nat \ {0}
  /\ TabStop \in Nat \ {0}
  /\ Rows \in Nat /\ Rows > Height
  /\ UintSize \in Nat /\ UintSize > Rows * Width

(* What the kernel prints: no control characters but newlines, and not so  *)
(* much at a time that a row number could wrap around.                     *)
ASSUME CharactersAssumption ==
  {"LF", " "} \subseteq Printed /\ Printed \cap {"TAB", "BS", "CR"} = {}

Directives == [conv : {"plain", "string", "char"}, text : Seq(Printed)]
              \cup [conv : {"end"}, text : {<<>>}]

ASSUME PrintedAssumption ==
  /\ Longest \in Nat \ {0} /\ Rows + Longest * (Longest + 1) < UintSize
  /\ \A text \in Texts : text \in Seq(Printed) /\ Len(text) <= Longest
  /\ \A format \in Formats :
       /\ format \in Seq(Directives) /\ Len(format) <= Longest
       /\ \A i \in 1..Len(format) : Len(format[i].text) <= Longest

VARIABLES
  screen,         \* position, color and memory; see Blank
  lines           \* history: the text accepted so far, a sequence of lines

vars == <<screen, lines>>

Cells == 0 .. Rows * Width - 1

Uint(n) == n % UintSize

-----------------------------------------------------------------------------
(* The operations of vga.c.  All arithmetic is unsigned.                   *)
(* Mutant: rows are counted from one.                                      *)
PutatFromOne(s, x, y, c) ==
  [s EXCEPT !.cells = [i \in Cells |->
     IF i = Uint((y + 1) * Width + x) THEN <<c, s.color>> ELSE @[i]]]

Terminal_Putat(s, x, y, c) ==
  LET attribute == IF c = "high" THEN "all bits" ELSE s.color
      index     == Uint(y * Width + x)
  IN  [s EXCEPT !.cells = [i \in Cells |->
                             IF i = index THEN <<c, attribute>> ELSE @[i]]]

Terminal_Scroll(s) ==
  [s EXCEPT !.cells = [i \in Cells |->
                         IF i < Height * Width THEN @[i + Width] ELSE @[i]]]

NewRow(s) == [s EXCEPT !.column = 0, !.row = Uint(@ + 1)]

Advance(s, n) == [s EXCEPT !.column = Uint(@ + n)]

(* The tail of Terminal_Putch, for every character that gets that far.     *)
Emit(s, c) ==
  LET t == IF s.row >= Height THEN Terminal_Scroll(s) ELSE s
  IN  Advance(Terminal_Putat(t, t.column, t.row, c), 1)

(* Mutant: the margin is noticed one character late.                       *)
AtMarginLate(s) == s.column > Width

AtMargin(s) == s.column = Width

PutPrinting(s, c) == IF AtMargin(s) THEN NewRow(s) ELSE Emit(s, c)

(* Mutant: erasing leaves the position behind the blank.                   *)
BackspaceStays(s) ==
  IF s.column > 0 THEN PutPrinting(Advance(s, UintSize - 1), " ") ELSE s

Terminal_Backspace(s) ==
  IF s.column > 0
    THEN Advance(PutPrinting(Advance(s, UintSize - 1), " "), UintSize - 1)
    ELSE s

Tabbed(s) ==
  [s EXCEPT !.column = Uint(((@ + TabStop) \div TabStop) * TabStop)]

Terminal_Putch(s, c) ==
  CASE c = "LF" \/ AtMargin(s) -> NewRow(s)
    [] ~AtMargin(s) /\ c = "TAB" -> Emit(Tabbed(s), c)
    [] ~AtMargin(s) /\ c = "BS" -> Emit(Terminal_Backspace(s), c)
    [] ~AtMargin(s) /\ c = "CR" -> Emit([s EXCEPT !.row = 0], c)
    [] OTHER -> PutPrinting(s, c)

PutAll(s, text) == FoldLeft(Terminal_Putch, s, text)

Terminal_Update_Cursor(s) == [s EXCEPT !.cursor = Uint(s.row * Width + s.column)]

Terminal_Print(s, text) == Terminal_Update_Cursor(PutAll(s, text))

Terminal_Println(s, text) == Terminal_Putch(Terminal_Print(s, text), "LF")

Terminal_Set_Color(s, color) == [s EXCEPT !.color = color]

Terminal_Newline(s) == Terminal_Putch(s, "LF")

Home(s) == [s EXCEPT !.row = 0, !.column = 0]

Terminal_Clear(s) ==
  Home(PutAll(Home(s), [i \in 1 .. Width * Height |-> " "]))

Initialize_Terminal(s) ==
  [Terminal_Set_Color(Home(s), "light grey") EXCEPT
     !.cells = [i \in Cells |->
                  IF i < Width * Height THEN <<" ", "light grey">> ELSE @[i]]]

-----------------------------------------------------------------------------
(* kprintf.  A format is a sequence of directives: plain text, a string or *)
(* a number (%s, %d, %u, %x) with the text it turns into, a character from *)
(* the arguments (any other letter), and a % at the end of the format.     *)
Directive(s, d) ==
  CASE d.conv = "plain"  -> PutAll(s, d.text)
    [] d.conv = "string" -> Terminal_Print(s, d.text)
    [] d.conv = "char"   -> PutAll(s, d.text)
    [] d.conv = "end"    -> s

Kprintf(s, format) ==
  LET t == FoldLeft(Directive, s, format)
  IN  IF \E i \in DOMAIN format : format[i].conv = "end"
        THEN t ELSE Terminal_Update_Cursor(t)

-----------------------------------------------------------------------------
(* The text a reader of the screen expects: the driver breaks a line at a  *)
(* newline and at the right margin.  The character that meets the margin   *)
(* is dropped by the driver.                                               *)
Current(ls) == ls[Len(ls)]

Accept(ls, c) ==
  IF c = "LF" \/ Len(Current(ls)) = Width
    THEN Append(ls, <<>>)
    ELSE [ls EXCEPT ![Len(ls)] = Append(@, c)]

AcceptAll(ls, text) == FoldLeft(Accept, ls, text)

AcceptFormat(ls, format) == FoldLeft(LAMBDA l, d : AcceptAll(l, d.text), ls, format)

-----------------------------------------------------------------------------
(* The actions.  The text memory starts with what the firmware left.       *)
Init ==
  /\ screen = Initialize_Terminal(
                [row |-> 0, column |-> 0, color |-> "light grey", cursor |-> 0,
                 cells |-> [i \in Cells |-> <<"firmware", "light grey">>]])
  /\ lines = << <<>> >>

(* Bound: a text ends within the memory.                                   *)
Room == screen.row <= LastRow /\ screen'.row < Rows

CallKprintf(format) ==
  /\ screen' = Kprintf(screen, format)
  /\ Room
  /\ lines' = AcceptFormat(lines, format)

CallPrintln(text) ==
  /\ screen' = Terminal_Println(screen, text)
  /\ Room
  /\ lines' = Accept(AcceptAll(lines, text), "LF")

CallNewline ==
  /\ screen' = Terminal_Newline(screen)
  /\ Room
  /\ lines' = Accept(lines, "LF")

CallBackspace ==
  /\ screen' = Terminal_Backspace(screen)
  /\ lines' = [lines EXCEPT ![Len(lines)] = IF @ = <<>> THEN @ ELSE Front(@)]

CallClear ==
  /\ screen' = Terminal_Clear(screen)
  /\ lines' = << <<>> >>

CallSetColor(color) ==
  /\ screen' = Terminal_Set_Color(screen, color)
  /\ UNCHANGED lines

Next ==
  \/ \E format \in Formats : CallKprintf(format)
  \/ \E text \in Texts : CallPrintln(text)
  \/ CallNewline
  \/ CallBackspace
  \/ CallClear
  \/ \E color \in Colors : CallSetColor(color)

Spec == Init /\ [][Next]_vars

-----------------------------------------------------------------------------
(* Properties.                                                             *)
TypeOK ==
  /\ screen.row \in 0..Rows-1
  /\ screen.column \in 0..Width
  /\ screen.cursor \in 0..UintSize-1
  /\ DOMAIN screen.cells = Cells

(* While the text still fits on the screen, every line accepted since the  *)
(* last clear stands on its row, character by character, whatever mixture  *)
(* of prints, newlines, erasures and line breaks at the margin put it      *)
(* there (vga.c:86-157).                                                   *)
ScreenShowsText ==
  screen.row < Height =>
    /\ screen.row = Len(lines) - 1
    /\ screen.column = Len(Current(lines))
    /\ \A r \in DOMAIN lines : \A x \in DOMAIN lines[r] :
         screen.cells[(r - 1) * Width + (x - 1)][1] = lines[r][x]

(* Printing, erasing and clearing write to the visible memory only, until  *)
(* the screen has to scroll (vga.c:78-175).                                *)
RestOfMemoryIsKept ==
  [][screen'.row < Height =>
       \A i \in Cells : i >= Width * Height => screen'.cells[i] = screen.cells[i]]_vars

(* "Working Features: VGA Terminal Driver" (README:10): the line being      *)
(* printed can be seen on the screen, also once the screen is full.        *)
NewestLineIsVisible ==
  Current(lines) # <<>> =>
    \E r \in 0..Height-1 : \A x \in DOMAIN Current(lines) :
      screen.cells[r * Width + (x - 1)][1] = Current(lines)[x]
=============================================================================
