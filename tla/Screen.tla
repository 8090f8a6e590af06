------------------------------- MODULE Screen -------------------------------
(***************************************************************************)
(* The two screen drivers of libc/posix/termios/ttyscrn.c as operators on  *)
(* the cells of the text screen: the one that writes the video buffer two  *)
(* cells (four bytes) at a time, and the one that calls the video BIOS.    *)
(* A cell is its number on the screen, row after row; colours of cells are *)
(* left out.  What is written behind the last row is not on the screen.    *)
(***************************************************************************)
EXTENDS Integers, Sequences, FiniteSets

CONSTANTS MaxCol, MaxRow        \* __tty_screen.max_col and max_row

ASSUME ScreenAssumption ==      \* text modes have an even number of columns
    MaxCol \in Nat /\ MaxRow \in Nat /\ MaxCol % 2 = 1

RowLength == MaxCol + 1
Cells == 0 .. RowLength * (MaxRow + 1) - 1
Blank == -1
Outside == -2                   \* what memory behind the screen holds
Screens == [Cells -> Int]

get_video_offset(col, row) == row * RowLength + col
RowOf(p) == p \div RowLength
ColOf(p) == p % RowLength

Peek(scr, p) == IF p \in Cells THEN scr[p] ELSE Outside
\* A store of one word, or of a pair of words as one long.
Poke(scr, p, v) == IF p \in Cells THEN [scr EXCEPT ![p] = v] ELSE scr
Poke2(scr, p, v, w) == Poke(Poke(scr, p, v), p + 1, w)
Copy(scr, d, s) == Poke(scr, d, Peek(scr, s))
Copy2(scr, d, s) == Poke2(scr, d, Peek(scr, s), Peek(scr, s + 1))
Odd(p) == p % 2 = 1
----------------------------------------------------------------------------
\* The direct driver.

FillPairs(scr, p, end) ==       \* clear p..end, p even
    LET fill[s \in Screens, q \in Nat] ==
          IF q < end THEN fill[Poke2(s, q, Blank, Blank), q + 2]
          ELSE IF q = end THEN Poke(s, q, Blank) ELSE s
    IN  fill[scr, p]

direct_clear(scr, x1, y1, x2, y2) ==
    LET p == get_video_offset(x1, y1)
        e == get_video_offset(x2, y2)
    IN  IF Odd(p) THEN FillPairs(Poke(scr, p, Blank), p + 1, e) ELSE FillPairs(scr, p, e)

\* Copy towards the start of the screen: the cells from d to end take the
\* ones from s on, in pairs, and the last one once more if a pair ended there.
CopyUp(scr, d, s, end) ==
    LET copy[t \in Screens, to \in Nat, from \in Nat] ==
          IF to <= end THEN copy[Copy2(t, to, from), to + 2, from + 2]
          ELSE IF to = end + 1 THEN Copy(t, end, from - 1) ELSE t
    IN  copy[scr, d, s]

direct_scroll_backward(scr, x1, y1, x2, y2, xdst, ydst) ==
    LET d == get_video_offset(xdst, ydst)
        s == get_video_offset(x1, y1)
        e == get_video_offset(xdst + x2 - x1, ydst + y2 - y1)
        t == get_video_offset(x2, y2)
        moved == IF Odd(d) /\ Odd(s) THEN CopyUp(Copy(scr, d, s), d + 1, s + 1, e)
                 ELSE CopyUp(scr, d, s, e)
    IN  IF e + 1 = t THEN Poke(moved, t, Blank)
        ELSE IF Odd(e + 1) THEN FillPairs(Poke(moved, e + 1, Blank), e + 2, t)
        ELSE FillPairs(moved, e + 1, t)

\* Copy towards the end of the screen, from the last cell down.
CopyDown(scr, d, s, end, first) ==
    LET copy[t \in Screens, to \in Int, from \in Int] ==
          IF to >= end THEN copy[Copy2(t, to, from), to - 2, from - 2]
          ELSE IF end - to = 1 THEN Copy(t, end, first) ELSE t
    IN  copy[scr, d, s]

FillDown(scr, p, end) ==
    LET fill[s \in Screens, q \in Int] ==
          IF q >= end THEN fill[Poke2(s, q, Blank, Blank), q - 2]
          ELSE IF end - q = 1 THEN Poke(s, end, Blank) ELSE s
    IN  fill[scr, p]

direct_scroll_forward(scr, x1, y1, x2, y2, xdst, ydst) ==
    LET d == get_video_offset(xdst + x2 - x1, ydst + y2 - y1)
        s == get_video_offset(x2, y2)
        e == get_video_offset(xdst, ydst)
        f == get_video_offset(x1, y1)
        moved == IF Odd(d) /\ Odd(s) THEN CopyDown(Copy(scr, d, s), d - 1, s - 1, e, f)
                 ELSE CopyDown(scr, d, s, e, f)
    IN  IF e - 1 = f THEN Poke(moved, f, Blank) ELSE FillDown(moved, e - 2, f)
----------------------------------------------------------------------------
\* The video BIOS (external): services 6 and 7 scroll a window by n lines, or
\* clear it when n is 0 or more than its height; services 8 and 9 read and
\* write the cell at the cursor.

Window(p, x1, y1, x2, y2) == RowOf(p) \in y1 .. y2 /\ ColOf(p) \in x1 .. x2
BiosScroll(scr, n, x1, y1, x2, y2) ==    \* n > 0 is up, n < 0 is down
    [p \in Cells |->
       IF ~ Window(p, x1, y1, x2, y2) THEN scr[p]
       ELSE IF n = 0 \/ ~ (RowOf(p) + n \in y1 .. y2) THEN Blank
       ELSE scr[p + n * RowLength]]

vbios_clear(scr, x1, y1, x2, y2) ==
    LET first == x1 > 0 \/ y1 = y2
        s1 == IF first THEN BiosScroll(scr, 0, x1, y1, IF y1 = y2 THEN x2 ELSE MaxCol, y1)
              ELSE scr
        top == IF first THEN y1 + 1 ELSE y1
        bot == IF x2 # 0 THEN y2 - 1 ELSE y2
        s2 == IF top < bot THEN BiosScroll(s1, 0, 0, top, MaxCol, bot) ELSE s1
    IN  IF top > y2 THEN s1
        ELSE IF x2 # 0 \/ top = bot THEN BiosScroll(s2, 0, 0, top, x2, bot + 1)
        ELSE s2

vbios_scroll_up(scr, y1, y2, ydst) == BiosScroll(scr, y1, 0, ydst, MaxCol, y2)
vbios_scroll_down(scr, y1, y2, ydst) == BiosScroll(scr, - ydst, 0, y1, MaxCol, y2)

\* Cell by cell from the right end of the row, then blanks from x1.
vbios_scroll_right(scr, y, x1, x2, xdst) ==
    [p \in Cells |->
       IF RowOf(p) # y \/ ColOf(p) < x1 THEN scr[p]
       ELSE IF ColOf(p) >= xdst THEN scr[p - (xdst - x1)]
       ELSE Blank]

vbios_scroll_left(scr, y, x1, x2, xdst) ==
    [p \in Cells |->
       IF RowOf(p) # y \/ ~ (ColOf(p) \in xdst .. x2) THEN scr[p]
       ELSE IF ColOf(p) + (x1 - xdst) <= x2 THEN scr[p + (x1 - xdst)]
       ELSE Blank]
=============================================================================
