------------------------------ MODULE Console ------------------------------
(* The console of GEMDOS (bdos/console.c): keys are typed ahead while a    *)
(* program prints, ^S and ^Q stop and continue it, and Cconrs edits a line *)
(* on the screen, where it works out from the line and from the column it  *)
(* began at how much there is to erase.                                    *)
EXTENDS Integers, Sequences

CONSTANTS
  KBBUFSZ,   \* the keys that can be typed ahead
  Tab,       \* distance of tabs: 8 in the code
  MaxLine,   \* bounds the length asked of Cconrs
  MaxStart,  \* bounds the column in which a program prints,
  MaxBegin,  \* and that in which a line begins
  Width      \* columns of the screen that are looked at

\* the columns one key takes at most
Widest == IF Tab > 2 THEN Tab ELSE 2

ConsoleAssumption ==
  /\ {KBBUFSZ, Tab, MaxLine} \subseteq Nat \ {0} /\ {MaxStart, MaxBegin, Width} \subseteq Nat
  \* every line can be looked at as a whole
  /\ MaxBegin + MaxLine * Widest <= Width

\* A letter, a tab, another control character, and the keys of conbrk and cgets
Keys == {"a", "tab", "^A", "bs", "^X", "^U", "^R", "^S", "^Q", "cr"}

VARIABLES
  ahead,       \* the keys typed ahead: glbkbchar, from buptr on
  stop,        \* ^S has been typed
  doing,       \* what is called, with the variables of cgets, where on the
               \* screen it began, and whether it ends when all is printed
  out,         \* what is to be printed
  glbcolumn,
  row, cursor  \* the line of the screen the cursor is in

screen == <<glbcolumn, row, cursor>>
consolevars == <<ahead, stop, doing, out, screen>>

Columns == 0..Width - 1
blank == [c \in Columns |-> " "]
NoCall == [op |-> "none", maxlen |-> 0, stcol |-> 0, buf |-> <<>>, origin |-> 0, last |-> FALSE]

ConsoleInit ==
  /\ ahead = <<>> /\ stop = FALSE /\ doing = NoCall /\ out = <<>>
  /\ glbcolumn = 0 /\ row = blank /\ cursor = 0

-----------------------------------------------------------------------------
(* What is printed for what, and the columns it takes *)

Spaces(n) == [i \in 1..n |-> " "]
tabout(ch, col) == IF ch = "tab" THEN Spaces(Tab - (col % Tab)) ELSE <<ch>>
cookdout(ch, col) == IF ch = "^A" THEN <<"^", "A">> ELSE tabout(ch, col)
Cooked(line, col) ==
  LET shown[n \in 0..Len(line)] ==
        IF n = 0 THEN <<>>
        ELSE shown[n - 1] \o cookdout(line[n], col + Len(shown[n - 1]))
  IN  shown[Len(line)]
newline(col) == <<"#", "cr", "lf">> \o Spaces(col)

\* mutant of After: a control character takes one column
After_one(ch, col) == IF ch = "tab" THEN Tab * (col \div Tab + 1) ELSE col + 1
\* backsp: the column after a character, and after a line
After(ch, col) ==
  CASE ch = "tab" -> Tab * (col \div Tab + 1)
    [] ch = "^A" -> col + 2
    [] OTHER -> col + 1
column(line, start) ==
  LET col[n \in 0..Len(line)] ==
        IF n = 0 THEN start ELSE After(line[n], col[n - 1])
  IN  col[Len(line)]
Rubout(n) == [i \in 1..3 * n |-> IF i % 3 = 2 THEN " " ELSE "bs"]
backsp(rest) == Rubout(glbcolumn - column(rest, doing.stcol))

-----------------------------------------------------------------------------

conadd(keys, ch) == IF Len(keys) < KBBUFSZ THEN Append(keys, ch) ELSE keys

\* conbrk: a key is read while a program waits for one or prints; whether one
\* has been typed is up to the user
conbrk(ch) ==
  /\ doing # NoCall
  /\ stop' = (ch = "^S" \/ (stop /\ ch # "^Q"))
  /\ ahead' = CASE ch \in {"^S", "^Q"} -> ahead
                [] ch = "^X" -> <<"^X">>
                [] OTHER -> conadd(ahead, ch)
  /\ UNCHANGED <<doing, out, screen>>

\* ^C: the program ends
warmboot ==
  /\ doing # NoCall /\ ahead' = <<>> /\ stop' = FALSE /\ doing' = NoCall /\ out' = <<>>
  /\ UNCHANGED screen

\* c goes on when a text has been printed
Puts(c, text) == out' = text /\ doing' = IF text = <<>> /\ c.last THEN NoCall ELSE c

\* what moves neither the cursor nor glbcolumn to the right
Silent == {"lf"} \cup (Keys \ {"a", "tab", "bs", "cr"})
\* what Bconout does on the screen
Shown(ch) ==
  /\ row' = CASE ch = "lf" -> blank
              [] ch \in Keys \ {"a"} -> row
              [] OTHER -> [row EXCEPT ![cursor] = ch]
  /\ cursor' = CASE ch = "cr" -> 0
                 [] ch = "bs" -> IF cursor = 0 THEN 0 ELSE cursor - 1
                 [] ch = "tab" -> Tab * (cursor \div Tab + 1)
                 [] ch \in Silent -> cursor
                 [] OTHER -> cursor + 1

conout ==
  LET ch == Head(out) IN
  /\ out # <<>> /\ ~stop /\ Shown(ch)
  /\ glbcolumn' = CASE ch = "cr" -> 0
                    [] ch = "bs" -> glbcolumn - 1
                    [] ch \in Silent \cup {"tab"} -> glbcolumn
                    [] OTHER -> glbcolumn + 1
  /\ Puts(IF ch = "lf" THEN [doing EXCEPT !.origin = doing.stcol] ELSE doing, Tail(out))
  /\ UNCHANGED <<ahead, stop>>

\* getch, after conbrk has seen to it that there is a key
getch(op, ch) ==
  /\ doing.op = op /\ out = <<>> /\ ~stop
  /\ ahead # <<>> /\ ch = Head(ahead) /\ ahead' = Tail(ahead)
  /\ UNCHANGED <<stop, screen>>

Line(buf) == [doing EXCEPT !.buf = buf]
Return == getch("Cconrs", "cr") /\ Puts([doing EXCEPT !.last = TRUE], <<"cr">>)
Backspace ==
  LET rest == IF doing.buf = <<>> THEN <<>> ELSE SubSeq(doing.buf, 1, Len(doing.buf) - 1) IN
  getch("Cconrs", "bs") /\ Puts(Line(rest), backsp(rest))
Erase == getch("Cconrs", "^X") /\ Puts(Line(<<>>), backsp(<<>>))
Discard == getch("Cconrs", "^U") /\ Puts(Line(<<>>), newline(doing.stcol))
Retype ==
  /\ getch("Cconrs", "^R")
  /\ Puts(doing, newline(doing.stcol) \o Cooked(doing.buf, doing.stcol))
TypeIn(ch) ==
  LET more == Line(Append(doing.buf, ch)) IN
  /\ getch("Cconrs", ch)
  /\ Puts([more EXCEPT !.last = Len(more.buf) = doing.maxlen], cookdout(ch, glbcolumn))
conin(ch) == getch("Cconin", ch) /\ Puts(doing, <<ch>>)
x8in(ch) == getch("Cnecin", ch) /\ Puts(doing, <<>>)

-----------------------------------------------------------------------------
(* What a program calls *)

\* It asks for a line where nothing is on the right, and nobody has printed a
\* backspace at the left edge.
Cconrs(n) ==
  /\ doing = NoCall /\ glbcolumn \in 0..MaxBegin /\ cursor <= MaxBegin
  /\ \A c \in Columns : c >= cursor => row[c] = " "
  /\ doing' = [NoCall EXCEPT !.op = "Cconrs", !.maxlen = n, !.stcol = glbcolumn, !.origin = cursor]
  /\ UNCHANGED <<ahead, stop, out, screen>>
InColumns == glbcolumn \in 0..MaxStart /\ cursor <= MaxStart
Ask(op) ==
  /\ doing = NoCall /\ InColumns /\ doing' = [NoCall EXCEPT !.op = op, !.last = TRUE]
  /\ UNCHANGED <<ahead, stop, out, screen>>
Cconws(ch) ==
  /\ doing = NoCall /\ (InColumns \/ ch = "nl")
  /\ Puts([NoCall EXCEPT !.op = "Cconws", !.last = TRUE],
          IF ch = "nl" THEN <<"cr", "lf">> ELSE tabout(ch, glbcolumn))
  /\ UNCHANGED <<ahead, stop, screen>>
\* Crawcin, which takes any key, and Crawio
x7in ==
  /\ doing = NoCall /\ ahead # <<>> /\ ahead' = Tail(ahead)
  /\ UNCHANGED <<stop, doing, out, screen>>

ConsoleNext ==
  \/ \E ch \in Keys : conbrk(ch)
  \/ warmboot \/ conout
  \/ Return \/ Backspace \/ Erase \/ Discard \/ Retype
  \/ \E ch \in {"a", "tab", "^A"} : TypeIn(ch)
  \/ \E ch \in Keys : conin(ch) \/ x8in(ch)
  \/ (\E n \in 1..MaxLine : Cconrs(n)) \/ Ask("Cconin") \/ Ask("Cnecin")
  \/ (\E ch \in {"a", "nl"} : Cconws(ch)) \/ x7in

ConsoleSpec == ConsoleInit /\ [][ConsoleNext]_consolevars
-----------------------------------------------------------------------------
\* Whenever Cconrs waits for a key the screen shows the line as it is in the
\* buffer, from where it began on: no more is erased than what was typed, and
\* nothing of it is left.
LineShown ==
  doing.op = "Cconrs" /\ out = <<>> =>
    LET text == Cooked(doing.buf, doing.stcol) IN
    /\ cursor = doing.origin + Len(text)
    /\ \A i \in DOMAIN text : row[doing.origin + i - 1] = text[i]
    /\ \A c \in Columns : c >= cursor => row[c] = " "
=============================================================================
