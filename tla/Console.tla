------------------------------ MODULE Console ------------------------------
(***************************************************************************)
(* kernel/chr_drv/console.c: the screen as con_write keeps it in video     *)
(* memory: the escape sequence automaton, the cursor, the scrolling region *)
(* and the stores into video memory.  An EGA scrolls by moving origin, the *)
(* address its first line is shown from, and copies the screen back to the *)
(* start of video memory when it runs off its end; other adapters move the *)
(* text.                                                                   *)
(*                                                                         *)
(* What con_write does with a character is a program: a sequence of        *)
(* assignments, string instructions and calls, whose tests are made when   *)
(* they are reached.  con_write runs with interrupts on, and the echo of a *)
(* key enters it again (tty_io.c:243), so that the program of one          *)
(* character may be carried out in the middle of another one's.            *)
(*                                                                         *)
(* Addresses count cells (two bytes in the code) from video_mem_start.     *)
(* mem has a few cells on either side of video memory, which belong to     *)
(* somebody else.  A cell holds what was stored last: the erase character, *)
(* a glyph with its attribute, or the text found at boot.                  *)
(***************************************************************************)
EXTENDS Integers, Sequences, SequencesExt

CONSTANTS
  COLS,       \* video_num_columns
  LINES,      \* video_num_lines
  PAGE,       \* lines of video memory: (video_mem_end - video_mem_start) / row
  TAB,        \* distance of tab stops (8)
  NPAR,       \* parameters of a control sequence (16)
  WORKLOADS,  \* sets of characters that are written to one console
  DIGITS,     \* digits that appear in control sequences
  ECHOED,     \* characters an echo may write ...
  CUT,        \* ... and characters it may come in the middle of
  MAXPAR,     \* bound: no parameter is typed above it
  SEVEN,      \* the codes of '7' and '8', which line 507 and 509
  EIGHT,      \*   compare with the column
  BEEP        \* HZ / 8, ticks a beep lasts

ASSUME ConsoleAssumption ==
  /\ {COLS, LINES, PAGE, TAB, BEEP} \subseteq Nat \ {0} /\ NPAR \in Nat \ {0, 1}
  /\ PAGE >= LINES /\ COLS % TAB = 0
  /\ DIGITS \subseteq {"0", "1", "2", "3", "4", "5", "6", "7", "8", "9"}

VARIABLES
  con,        \* the variables of console.c, video memory and the CRT controller
  writing,    \* a con_write is between two characters
  keys,       \* the characters that are written
  nested      \* an echo has entered con_write in the middle of a character

vars == <<con, writing, keys, nested>>

START    == 0                       \* video_mem_start
END      == PAGE * COLS             \* video_mem_end
Cells    == -COLS .. END + COLS - 1 \* video memory and its neighbours
Erase    == <<"erase", 7>>          \* video_erase_char
EGA      == "EGA"
Controls == {"ESC", "LF", "CR", "DEL", "BS", "TAB", "BEL"}
Finals   == {"[", "?", ";", "G", "A", "B", "C", "D", "E", "F", "d", "H", "J",
             "K", "L", "M", "P", "@", "m", "r", "s", "u", "Z"}
Value(d) ==
  SelectInSeq(<<"0", "1", "2", "3", "4", "5", "6", "7", "8", "9">>, LAMBDA e : e = d) - 1
Chars    == Controls \cup Finals \cup DIGITS

-----------------------------------------------------------------------------
(* Instructions.  Operands are read when the instruction is issued, as the *)
(* code loads them into registers, except by a Do.                         *)

Inc(f, n)     == <<"inc", f, n>>       \* f += n
Set(f, n)     == <<"set", f, n>>       \* f = n
Fill(a, n)    == <<"fill", a, n>>      \* rep stosw: erase n cells from a on
Copy(d, s, n) == <<"copy", d, s, n>>   \* rep movsl: n cells from s on to d on
Do(f)         == <<"do", f>>
Call(f, c)    == <<"call", f, c>>      \* a function, or what follows a test

\* movsl moves upwards (cld) when d < s and downwards (std) when d > s, so no
\* cell is overwritten before it is read.
Store(v, a, n, what) ==
  [v EXCEPT !.mem = [i \in Cells |-> IF i \in a .. a + n - 1 THEN what ELSE @[i]]]
Move(v, d, s, n) ==
  [v EXCEPT !.mem = [i \in Cells |-> IF i \in d .. d + n - 1 THEN @[s + i - d] ELSE @[i]]]

\* The CRT controller shows the screen from its start register on.
set_origin(v) == [v EXCEPT !.crt.origin = v.origin - START]
set_cursor(v) == [v EXCEPT !.crt.cursor = v.pos - START]

Assign(v, f) ==
  CASE f = "set_origin"        -> set_origin(v)
    [] f = "pos"               -> [v EXCEPT !.pos = v.origin + v.y * COLS + v.x]
    [] f = "pos -= x"          -> [v EXCEPT !.pos = @ - v.x]
    [] f = "pos -= origin"     -> [v EXCEPT !.pos = @ - (v.origin - START)]
    [] f = "scr_end -= origin" -> [v EXCEPT !.scr_end = @ - (v.origin - START)]
    [] f = "rubout"            -> Store(v, v.pos, 1, Erase)
    [] f = "glyph"             -> Store(v, v.pos, 1, <<"glyph", v.attr>>)
    [] f = "par = 0"           -> [v EXCEPT !.par = [k \in 0 .. NPAR - 1 |-> 0]]
    [] f \in DIGITS            -> [v EXCEPT !.par[v.npar] = 10 * @ + Value(f)]

Exec(v, i) ==
  CASE i[1] = "inc"  -> [v EXCEPT ![i[2]] = @ + i[3]]
    [] i[1] = "set"  -> [v EXCEPT ![i[2]] = i[3]]
    [] i[1] = "fill" -> Store(v, i[2], i[3], Erase)
    [] i[1] = "copy" -> Move(v, i[2], i[3], i[4])
    [] i[1] = "do"   -> Assign(v, i[2])

-----------------------------------------------------------------------------
(* The functions of console.c, as the programs they are in state v.        *)

\* gotoxy takes unsigned numbers: one below zero is a huge one, out of range
\* like any other.
gotoxy(v, nx, ny) ==
  IF nx \in 0 .. COLS /\ ny \in 0 .. LINES - 1
  THEN <<Set("x", nx), Set("y", ny), Do("pos")>> ELSE << >>

\* The region moves up by one line; its last line is cleared.
RegionUp(v) ==
  <<Copy(v.origin + v.top * COLS, v.origin + (v.top + 1) * COLS, (v.bottom - v.top - 1) * COLS),
    Fill(v.origin + (v.bottom - 1) * COLS, COLS)>>

\* Mutant: the copy back leaves the last line as it is in memory.
ScrollBackDirty(v) ==
  <<Copy(START, v.origin, (LINES - 1) * COLS),
    Do("scr_end -= origin"), Do("pos -= origin"), Set("origin", START)>>

\* The screen has run off video memory: it is copied to its start.
ScrollBack(v) ==
  <<Copy(START, v.origin, (LINES - 1) * COLS), Fill(START + (LINES - 1) * COLS, COLS),
    Do("scr_end -= origin"), Do("pos -= origin"), Set("origin", START)>>

OriginMoved(v) ==
  (IF v.scr_end > END THEN ScrollBack(v) ELSE <<Fill(v.scr_end - COLS, COLS)>>)
  \o <<Do("set_origin")>>

scrup(v) ==
  IF v.video_type = EGA /\ v.top = 0 /\ v.bottom = LINES
  THEN <<Inc("origin", COLS), Inc("pos", COLS), Inc("scr_end", COLS), Call("origin moved", "")>>
  ELSE RegionUp(v)

scrdown(v) ==
  <<Copy(v.origin + (v.top + 1) * COLS, v.origin + v.top * COLS, (v.bottom - v.top - 1) * COLS),
    Fill(v.origin + v.top * COLS, COLS)>>

lf(v) == IF v.y + 1 < v.bottom THEN <<Inc("y", 1), Inc("pos", COLS)>> ELSE scrup(v)

ri(v) == IF v.y > v.top THEN <<Inc("y", -1), Inc("pos", -COLS)>> ELSE scrdown(v)

cr == <<Do("pos -= x"), Set("x", 0)>>

del(v) == IF v.x = 0 THEN << >> ELSE <<Inc("pos", -1), Inc("x", -1), Do("rubout")>>

csi_J(v, p) ==
  CASE p = 0 -> <<Fill(v.pos, v.scr_end - v.pos)>>
    [] p = 1 -> <<Fill(v.origin, v.pos - v.origin)>>
    [] p = 2 -> <<Fill(v.origin, COLS * LINES)>>
    [] OTHER -> << >>

csi_K(v, p) ==
  CASE p = 0 /\ v.x < COLS -> <<Fill(v.pos, COLS - v.x)>>
    [] p = 1 -> <<Fill(v.pos - v.x, IF v.x < COLS THEN v.x ELSE COLS)>>
    [] p = 2 -> <<Fill(v.pos - v.x, COLS)>>
    [] OTHER -> << >>

\* The parameters 0..npar in turn; one that names no attribute is skipped.
csi_m(v) ==
  LET Attr == [n \in {0, 1, 4, 7, 27} |->
                 CASE n \in {0, 27} -> 7 [] n \in {1, 4} -> 15 [] n = 7 -> 112]
      given == [k \in 1 .. v.npar + 1 |-> v.par[k - 1]]
      known == SelectSeq(given, LAMBDA n : n \in DOMAIN Attr)
  IN [k \in DOMAIN known |-> Set("attr", Attr[known[k]])]

insert_char(v) ==
  <<Copy(v.pos + 1, v.pos, COLS - v.x - 1), Fill(v.pos, IF v.x < COLS THEN 1 ELSE 0)>>

\* Mutant: the test for a cursor behind the last column is missing.
DeleteCharAnywhere(v) ==
  IF v.x >= COLS THEN <<Fill(v.pos, 1)>>
  ELSE <<Copy(v.pos, v.pos + 1, COLS - v.x - 1), Fill(v.pos + COLS - v.x - 1, 1)>>

delete_char(v) ==
  IF v.x >= COLS THEN << >>
  ELSE <<Copy(v.pos, v.pos + 1, COLS - v.x - 1), Fill(v.pos + COLS - v.x - 1, 1)>>

\* insert_line and delete_line scroll the lines from the cursor down to the
\* last one of the screen, whatever the region is.
FromCursor(v, scroll) ==
  <<Set("top", v.y), Set("bottom", LINES), Call(scroll, ""), Set("top", v.top), Set("bottom", v.bottom)>>
insert_line(v) == FromCursor(v, "scrdown")
delete_line(v) == FromCursor(v, "scrup")

\* csi_at, csi_L, csi_P and csi_M: nr is cut to the size of the screen, none
\* is one, and the function is called as often.
Repeat(f, nr, max) ==
  [i \in 1 .. (CASE nr > max -> max [] nr = 0 -> 1 [] OTHER -> nr) |-> Call(f, "")]

save_cur(v)    == <<Set("saved_x", v.x), Set("saved_y", v.y)>>
restore_cur(v) == gotoxy(v, v.saved_x, v.saved_y)
sysbeep        == <<Set("speaker", TRUE), Set("beepcount", BEEP)>>

-----------------------------------------------------------------------------
(* The automaton of con_write.                                             *)

\* Cursor past the last column: on to the next line.
NextLine == <<Inc("x", -COLS), Inc("pos", -COLS), Call("lf", "")>>

\* A printing character takes the attribute of the moment with it.
Glyph(v) ==
  (IF v.x >= COLS THEN NextLine ELSE << >>) \o <<Do("glyph"), Inc("pos", 1), Inc("x", 1)>>

Tabulate(v) ==
  LET n == TAB - (v.x % TAB) IN <<Inc("x", n), Inc("pos", n), Call("tabulated", "")>>
Tabulated(v) == IF v.x > COLS THEN NextLine ELSE << >>

\* state 0
Normal(v, c) ==
  CASE c = "ESC" -> <<Set("state", 1)>>
    [] c = "LF"  -> lf(v)
    [] c = "CR"  -> cr
    [] c = "DEL" -> del(v)
    [] c = "BS"  -> IF v.x = 0 THEN << >> ELSE <<Inc("x", -1), Inc("pos", -1)>>
    [] c = "TAB" -> Tabulate(v)
    [] c = "BEL" -> sysbeep
    [] OTHER     -> Glyph(v)

\* state 1.  respond's answer goes to the read queue (Tty.tla), not here.
\* Lines 507 and 509 test the column x where c is meant.
Escape(v, c) ==
  CASE c = "[" -> <<Set("state", 2)>>
    [] c = "E" -> gotoxy(v, 0, v.y + 1)
    [] c = "M" -> ri(v)
    [] c = "D" -> lf(v)
    [] c = "Z" -> << >>
    [] v.x = SEVEN /\ c \notin {"[", "E", "M", "D", "Z"} -> save_cur(v)
    [] v.x = EIGHT /\ c \notin {"[", "E", "M", "D", "Z"} -> restore_cur(v)
    [] OTHER   -> << >>

\* Lines 589-595: a region is taken only if it is one.
SetRegion(first, last) ==
  LET b == IF last = 0 THEN LINES ELSE last
  IN IF first < b /\ b <= LINES THEN <<Set("top", first), Set("bottom", b)>> ELSE << >>

\* state 4: the end of a control sequence.  par[0] and par[1] count from one
\* where they name a line or a column (At), and none means one where they name
\* a distance (By).  The code counts par[0] and par[1] themselves up or down;
\* nothing reads them again.
Control(v, c) ==
  LET p0 == v.par[0]
      p1 == v.par[1]
      At(p) == IF p > 0 THEN p - 1 ELSE 0
      By == IF p0 = 0 THEN 1 ELSE p0
  IN CASE c = "G" -> gotoxy(v, At(p0), v.y)
       [] c = "A" -> gotoxy(v, v.x, v.y - By)
       [] c = "B" -> gotoxy(v, v.x, v.y + By)
       [] c = "C" -> gotoxy(v, v.x + By, v.y)
       [] c = "D" -> gotoxy(v, v.x - By, v.y)
       [] c = "E" -> gotoxy(v, 0, v.y + By)
       [] c = "F" -> gotoxy(v, 0, v.y - By)
       [] c = "d" -> gotoxy(v, v.x, At(p0))
       [] c = "H" -> gotoxy(v, At(p1), At(p0))
       [] c = "J" -> csi_J(v, p0)
       [] c = "K" -> csi_K(v, p0)
       [] c = "L" -> Repeat("insert_line", p0, LINES)
       [] c = "M" -> Repeat("delete_line", p0, LINES)
       [] c = "P" -> Repeat("delete_char", p0, COLS)
       [] c = "@" -> Repeat("insert_char", p0, COLS)
       [] c = "m" -> csi_m(v)
       [] c = "r" -> SetRegion(At(p0), p1)
       [] c = "s" -> save_cur(v)
       [] c = "u" -> restore_cur(v)
       [] OTHER   -> << >>

\* state 3
Parameter(v, c) ==
  CASE c = ";" /\ v.npar < NPAR - 1 -> <<Inc("npar", 1)>>
    [] c \in DIGITS -> <<Do(c)>>
    [] OTHER -> <<Set("state", 4), Set("state", 0), Call("control", c)>>

\* What con_write does with the character c.  ques is set and never read.
Program(v, c) ==
  CASE v.state = 0 -> Normal(v, c)
    [] v.state = 1 -> <<Set("state", 0), Call("escape", c)>>
    [] v.state = 2 -> <<Do("par = 0"), Set("npar", 0), Set("state", 3)>>
                      \o (IF c = "?" THEN << >> ELSE <<Call("parameter", c)>>)
    [] v.state = 3 -> Parameter(v, c)
    [] v.state = 4 -> <<Set("state", 0), Call("control", c)>>

Body(v, f, c) ==
  CASE f = "lf"           -> lf(v)
    [] f = "scrup"        -> scrup(v)
    [] f = "scrdown"      -> scrdown(v)
    [] f = "origin moved" -> OriginMoved(v)
    [] f = "tabulated"    -> Tabulated(v)
    [] f = "insert_line"  -> insert_line(v)
    [] f = "delete_line"  -> delete_line(v)
    [] f = "insert_char"  -> insert_char(v)
    [] f = "delete_char"  -> delete_char(v)
    [] f = "escape"       -> Escape(v, c)
    [] f = "parameter"    -> Parameter(v, c)
    [] f = "control"      -> Control(v, c)

-----------------------------------------------------------------------------
(* Carrying programs out.  A run is the console and what is left to do.    *)

Start(v, c) == [con |-> v, todo |-> Program(v, c)]

\* One instruction.
Advance(r) ==
  LET i == Head(r.todo)
  IN IF i[1] = "call"
     THEN [r EXCEPT !.todo = Body(r.con, i[2], i[3]) \o Tail(@)]
     ELSE [con |-> Exec(r.con, i), todo |-> Tail(r.todo)]

RECURSIVE Finish(_)
Finish(r) == IF r.todo = << >> THEN r.con ELSE Finish(Advance(r))

\* The run at the points where an interrupt may come.
RECURSIVE Points(_)
Points(r) == IF r.todo = << >> THEN {} ELSE {r} \cup Points(Advance(r))

\* The console after the character c.
Written(v, c) == Finish(Start(v, c))

\* The bound MAXPAR keeps parameters small.
Typed(v, c) == c \in DIGITS /\ v.state = 3 => 10 * v.par[v.npar] + Value(c) <= MAXPAR

\* con_write takes the character c from the queue.
con_write(c) ==
  /\ Typed(con, c)
  /\ con' = Written(con, c) /\ writing' = TRUE
  /\ UNCHANGED <<keys, nested>>

\* It has taken as many as there were when it was entered.
ConReturns ==
  /\ writing
  /\ con' = set_cursor(con) /\ writing' = FALSE
  /\ UNCHANGED <<keys, nested>>

\* copy_to_cooked echoes c and calls con_write: from a keyboard interrupt while
\* another con_write is between two characters, or while there is none.
Echoed(v, c) == set_cursor(Written(v, c))
Echo(c) ==
  /\ Typed(con, c)
  /\ con' = Echoed(con, c)
  /\ UNCHANGED <<writing, keys, nested>>

\* The interrupt comes while con_write is at the character c.
EchoInside(c, e) ==
  /\ Typed(con, c)
  /\ \E r \in Points(Start(con, c)) :
       Typed(r.con, e) /\ con' = Finish([r EXCEPT !.con = Echoed(@, e)])
  /\ writing' = TRUE /\ nested' = TRUE
  /\ UNCHANGED keys

\* The part of do_timer that ends a beep.  It may come in sysbeep, between the
\* port and beepcount; with the rest of con_write it shares nothing.
Ticked(v) == [v EXCEPT !.beepcount = @ - 1, !.speaker = @ /\ v.beepcount > 1]
BeepTick ==
  /\ con.beepcount > 0
  /\ con' = Ticked(con)
  /\ UNCHANGED <<writing, keys, nested>>
TickInside ==
  /\ con.beepcount > 0 /\ con.state = 0
  /\ \E r \in Points(Start(con, "BEL")) : con' = Finish([r EXCEPT !.con = Ticked(@)])
  /\ writing' = TRUE
  /\ UNCHANGED <<keys, nested>>

\* con_init: the text found in memory stays; the cursor is where setup.s found
\* it, and the CRT controller knows it.
Boot(i) == <<"boot", i>>
con_init(type, ox, oy) ==
  LET v == [video_type |-> type, mem |-> [i \in Cells |-> Boot(i)],
            origin |-> START, scr_end |-> START + LINES * COLS,
            pos |-> 0, x |-> 0, y |-> 0, top |-> 0, bottom |-> LINES,
            state |-> 0, par |-> [k \in 0 .. NPAR - 1 |-> 0], npar |-> 0, attr |-> 7,
            saved_x |-> 0, saved_y |-> 0, beepcount |-> 0, speaker |-> FALSE,
            crt |-> [origin |-> 0, cursor |-> 0]]
  IN set_cursor(Finish([con |-> v, todo |-> gotoxy(v, ox, oy)]))

Init ==
  /\ \E type \in {EGA, "CGA"}, ox \in 0 .. COLS - 1, oy \in 0 .. LINES - 1 :
       con = con_init(type, ox, oy)
  /\ writing = FALSE /\ keys \in WORKLOADS /\ nested = FALSE

Next ==
  \/ BeepTick \/ TickInside \/ ConReturns
  \/ \E c \in keys : con_write(c)
  \/ \E e \in ECHOED : Echo(e)
  \/ \E c \in keys \cap CUT, e \in ECHOED : EchoInside(c, e)

Spec == Init /\ [][Next]_vars
-----------------------------------------------------------------------------
(* What console.c promises.                                                *)

\* The screen as the adapter shows it, from the CRT controller's registers.
Shown(v) ==
  [text   |-> [l \in 0 .. LINES - 1, k \in 0 .. COLS - 1 |->
                 v.mem[v.crt.origin + l * COLS + k]],
   x      |-> v.x,
   y      |-> v.y,
   region |-> <<v.top, v.bottom>>]

S == INSTANCE Screen WITH screen <- Shown(con)

\* Console with a text in which no two cells are alike: no step looks at the
\* text, so this one stands for all.
AnyText == [con EXCEPT !.mem = [i \in Cells |-> Boot(i)]]

\* Whatever text is on the display, a character that con_write is not
\* interrupted at makes of it what the functions of a terminal make of it,
\* although origin moves and memory is copied when the screen runs off its end:
\* no line is lost, doubled or shown with old text, and lines outside the
\* scrolling region stay.  (With the initial states, this is that every such
\* step implements one of Screen.)  After an echo has come in the middle of a
\* character (nested), nothing is promised.
ScreenShown ==
  nested \/ \A t \in {Shown(Written(AnyText, c)) : c \in {d \in Chars : Typed(con, d)}} :
              t = Shown(AnyText) \/ S!Step(Shown(AnyText), t)

NeighboursIntact == \A i \in Cells \ (START .. END - 1) : con.mem[i] = Boot(i)

\* pos is the cell of column x and line y.
CursorPlaced == con.pos = con.origin + con.y * COLS + con.x

\* The three descriptions of the cursor agree (x and y, pos, and, when
\* con_write has returned, the register the adapter blinks at), the screen lies
\* inside video memory, no store ever leaves it (neighbouring memory keeps its
\* contents), and a beep will end.  The column may be one past the last
\* ("gotoxy thinks x==video_num_columns is ok", line 88).  It holds while
\* echoes enter con_write between two characters, and not after one has done so
\* in the middle of a character (nested): in cr, for one, pos is then moved and
\* x is not.
VideoSound ==
  nested \/
    /\ CursorPlaced
    /\ con.crt.origin = con.origin - START
    /\ ~writing => con.crt.cursor = con.pos - START
    /\ con.x \in 0 .. COLS /\ con.y \in 0 .. LINES - 1
    /\ con.scr_end = con.origin + LINES * COLS
    /\ START <= con.origin /\ con.scr_end <= END
    /\ NeighboursIntact
    /\ con.speaker => con.beepcount > 0
=============================================================================
