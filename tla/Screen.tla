------------------------------ MODULE Screen -------------------------------
(***************************************************************************)
(* What the display of a terminal does, without addresses: a picture of    *)
(* LINES x COLS cells, a cursor and a scrolling region.  Console.tla is    *)
(* shown to implement it.  An operator of two screens s and t says that s  *)
(* may become t.                                                           *)
(***************************************************************************)
EXTENDS Integers

CONSTANTS COLS, LINES, Erase
VARIABLE screen   \* [text, x, y, region]

Ys == 0 .. LINES - 1
Xs == 0 .. COLS - 1

\* The lines top..bottom-1 of a text move up by n; those freed are erased.
Up(text, top, bottom, n) ==
  [l \in Ys, k \in Xs |-> IF l \notin top .. bottom - 1 THEN text[l, k]
                          ELSE IF l + n < bottom THEN text[l + n, k] ELSE Erase]

\* The lines top..bottom-1 of a text move down by n.
Down(text, top, bottom, n) ==
  [l \in Ys, k \in Xs |-> IF l \notin top .. bottom - 1 THEN text[l, k]
                          ELSE IF l - n >= top THEN text[l - n, k] ELSE Erase]

\* After a line feed: the cursor has gone down, or the region up.
Fed(s) ==
  IF s.y + 1 < s.region[2] THEN [s EXCEPT !.y = @ + 1]
  ELSE [s EXCEPT !.text = Up(@, s.region[1], s.region[2], 1)]

\* The cells before the cursor, in reading order.
Before(s) == {p \in Ys \X Xs : p[1] < s.y \/ (p[1] = s.y /\ p[2] < s.x)}
Erased(s, cells) ==
  [s EXCEPT !.text = [l \in Ys, k \in Xs |-> IF <<l, k>> \in cells THEN Erase ELSE @[l, k]]]

\* Any move of the cursor leaves the picture alone.
Place(s, t) ==
  t.x \in 0 .. COLS /\ t.y \in Ys /\ t = [s EXCEPT !.x = t.x, !.y = t.y]

\* A glyph goes to the cursor's cell, or past the last column to the start of
\* the next line.
PutGlyph(s, t) ==
  LET w == IF s.x < COLS THEN s ELSE [Fed(s) EXCEPT !.x = 0]
  IN \E a \in {7, 15, 112} :
       t = [w EXCEPT !.text[w.y, w.x] = <<"glyph", a>>, !.x = @ + 1]

Feed(s, t) ==
  /\ t = [Fed(s) EXCEPT !.x = t.x]
  /\ t.x = s.x \/ (s.x = COLS /\ t.x \in Xs)

ReverseFeed(s, t) ==
  t = IF s.y > s.region[1] THEN [s EXCEPT !.y = @ - 1]
      ELSE [s EXCEPT !.text = Down(@, s.region[1], s.region[2], 1)]

Rubout(s, t) ==
  s.x > 0 /\ t = [s EXCEPT !.x = @ - 1, !.text[s.y, s.x - 1] = Erase]

EraseSome(s, t) ==
  \E cells \in {Before(s), (Ys \X Xs) \ Before(s), Ys \X Xs} :
    t \in {Erased(s, cells), Erased(s, {p \in cells : p[1] = s.y})}

\* Cells of the cursor's line move right or left from the cursor on.
ShiftLine(s, t) ==
  LET From(d) == [l \in Ys, k \in Xs |->
                    IF l # s.y \/ k < s.x THEN s.text[l, k]
                    ELSE IF k - d \in s.x .. COLS - 1 THEN s.text[l, k - d] ELSE Erase]
  IN \E n \in 1 .. COLS, d \in {-1, 1} : t = [s EXCEPT !.text = From(d * n)]

\* Lines are inserted or deleted at the cursor's line.
ShiftLines(s, t) ==
  \E n \in 1 .. LINES :
    t \in {[s EXCEPT !.text = Up(@, s.y, LINES, n)], [s EXCEPT !.text = Down(@, s.y, LINES, n)]}

SetRegion(s, t) ==
  /\ t.region \in {r \in Ys \X (1 .. LINES) : r[1] < r[2]}
  /\ t = [s EXCEPT !.region = t.region]

Step(s, t) ==
  \/ Place(s, t) \/ PutGlyph(s, t) \/ Feed(s, t) \/ ReverseFeed(s, t) \/ Rubout(s, t)
  \/ EraseSome(s, t) \/ ShiftLine(s, t) \/ ShiftLines(s, t) \/ SetRegion(s, t)

Init ==
  /\ screen.x \in Xs /\ screen.y \in Ys /\ screen.region = <<0, LINES>>
  /\ DOMAIN screen.text = Ys \X Xs

Spec == Init /\ [][Step(screen, screen')]_screen
=============================================================================
