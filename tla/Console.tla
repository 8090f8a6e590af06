------------------------------ MODULE Console ------------------------------
(***************************************************************************)
(* The console output of libc/posix/termios/tmwrite.c: the write hook, the *)
(* parser of ECMA-48 commands, whose state outlives a write, and what each *)
(* command does to the screen, through either driver of module Screen.     *)
(*                                                                         *)
(* The program sends one piece of output after the other: a character, a   *)
(* command or a broken command.  A piece reaches write in one call or cut  *)
(* in two anywhere.  con is the console: the parser (state, args, argc,   *)
(* ign), the cursor, the screen, the colours (fg, bg), blinking as the     *)
(* library and as the adapter has it (cur_blink, blink) and the cursor     *)
(* shape.                                                                  *)
(***************************************************************************)
EXTENDS Screen, SequencesExt

CONSTANTS Drivers,      \* which of "direct" and "vbios" may be in use
          Commands,     \* the commands sent: records [cmd, ps]
          Uses,         \* the legal uses known to go wrong that are tried
          MaxPieces     \* bound: pieces of output in a behaviour

NPAR == 16
VARIABLES con, driver, oflag,
          unwritten,    \* the part of the current piece not yet written
          goal,         \* what the console should show once it is
          pieces        \* pieces sent (for the bound)
console_vars == <<con, driver, oflag, unwritten, goal, pieces>>

Digits == <<"0", "1", "2", "3", "4", "5", "6", "7", "8", "9">>
Value(d) == CHOOSE n \in 0 .. 9 : d = Digits[n + 1]
is_command_char(b) == b \in {"A", "B", "C", "D", "E", "F", "G", "H", "I", "J", "K", "L",
                             "M", "P", "S", "T", "X", "Z", "@",
                             "a", "d", "e", "f", "j", "k", "m", "v"}

ASSUME CommandsAssumption ==
    \A k \in Commands : is_command_char(k.cmd) /\ k.ps \in Seq(0 .. 99) /\ Len(k.ps) <= NPAR

\* The character that "x" writes: any number that no cell starts with.
Ink == -3
Clip(n, max) == IF n < 0 THEN 0 ELSE IF n > max THEN max ELSE n
----------------------------------------------------------------------------
\* The cursor.

set_cursor(s, col, row) == [s EXCEPT !.col = Clip(col, MaxCol), !.row = Clip(row, MaxRow)]

\* The clipped coordinate still gets the distance added, as a byte.
move_cursor(s, dx, dy) ==
    LET At(at, by, max) == (IF at + by < 0 \/ at + by > max
                            THEN Clip(at + by, max) + by ELSE at + by) % 256
    IN  [s EXCEPT !.col = At(s.col, dx, MaxCol), !.row = At(s.row, dy, MaxRow)]
----------------------------------------------------------------------------
\* The driver in use.

clear(s, x1, y1, x2, y2) ==
    [s EXCEPT !.scr = IF driver = "direct" THEN direct_clear(@, x1, y1, x2, y2)
                      ELSE vbios_clear(@, x1, y1, x2, y2)]
scroll_up(s, y1, y2, y) ==
    [s EXCEPT !.scr = IF driver = "direct" THEN direct_scroll_backward(@, 0, y1, MaxCol, y2, 0, y)
                      ELSE vbios_scroll_up(@, y1, y2, y)]
scroll_down(s, y1, y2, y) ==
    [s EXCEPT !.scr = IF driver = "direct" THEN direct_scroll_forward(@, 0, y1, MaxCol, y2, 0, y)
                      ELSE vbios_scroll_down(@, y1, y2, y)]
scroll_left(s, y, x1, x2, x) ==
    [s EXCEPT !.scr = IF driver = "direct" THEN direct_scroll_backward(@, x1, y, x2, y, x, y)
                      ELSE vbios_scroll_left(@, y, x1, x2, x)]
scroll_right(s, y, x1, x2, x) ==
    [s EXCEPT !.scr = IF driver = "direct" THEN direct_scroll_forward(@, x1, y, x2, y, x, y)
                      ELSE vbios_scroll_right(@, y, x1, x2, x)]

\* The wrap at the right edge and the scroll at the bottom.
Wrap(s) == IF s.col > MaxCol THEN [s EXCEPT !.col = 0, !.row = @ + 1] ELSE s
ScrollAtBottom(s) ==
    IF s.row > MaxRow
    THEN [s EXCEPT !.scr = direct_scroll_backward(@, 0, 1, MaxCol, MaxRow, 0, 0), !.row = @ - 1]
    ELSE s

\* A character as direct_write_ch writes it, and the BIOS does.
Teletype(s, b) ==
    ScrollAtBottom(Wrap(
      CASE b = "nl" -> [s EXCEPT !.row = @ + 1]
        [] b = "cr" -> [s EXCEPT !.col = 0]
        [] b = "bs" /\ s.col > 0 -> [s EXCEPT !.col = @ - 1]
        [] b = "bs" /\ s.col = 0 /\ s.row > 0 -> [s EXCEPT !.row = @ - 1, !.col = MaxCol]
        [] b = "bs" /\ s.col = 0 /\ s.row = 0 -> s
        [] OTHER -> [s EXCEPT !.scr = Poke(@, get_video_offset(s.col, s.row),
                                           IF b = "x" THEN Ink ELSE Blank),
                              !.col = @ + 1]))

\* vbios_write_ch in a colour: the wrap of the last column sets the pointer
\* col to 0 and reads through it.
vbios_write_ch(s, b) ==
    LET changed == s.changed \/ <<s.fg, s.bg>> # <<7, 0>>
        t == [s EXCEPT !.changed = changed]
    IN  IF ~ changed \/ b \in {"nl", "cr", "bs"} THEN Teletype(t, b)
        ELSE IF s.col = MaxCol THEN [t EXCEPT !.fault = TRUE]
        ELSE [t EXCEPT !.scr = Poke(@, get_video_offset(s.col, s.row),
                                    IF b = "x" THEN Ink ELSE Blank),
                       !.col = @ + 1]
write_ch(s, b) == IF driver = "direct" THEN Teletype(s, b) ELSE vbios_write_ch(s, b)
----------------------------------------------------------------------------
\* Commands.

\* Mutant: the library does not note what it tells the adapter.
set_blink_attrib_unnoted(s, on) == [s EXCEPT !.blink = on]

set_blink_attrib(s, on) == [s EXCEPT !.blink = on, !.cur_blink = on]
Bright(n) == 8 + (n % 8)
Dim(n) == n % 8
screen_color == <<0, 4, 2, 6, 1, 5, 3, 7>>

\* The colours change places.
Reversed(s) ==
    LET b == IF s.bg >= 8 THEN Bright(s.fg) ELSE s.fg
        t == [s EXCEPT !.fg = s.bg, !.bg = b]
    IN  IF s.fg >= 8 /\ s.cur_blink # 0 THEN set_blink_attrib(t, 0) ELSE t

\* One parameter of SGR; "intensity off" runs on into "underline on".
Rendition(s, n) ==
    CASE n = 0 -> [s EXCEPT !.fg = 7, !.bg = 0]
      [] n \in {1, 2, 4} -> [s EXCEPT !.fg = Bright(@)]
      [] n = 5 -> [set_blink_attrib(s, 1) EXCEPT !.bg = Bright(@)]
      [] n = 7 -> Reversed(s)
      [] n = 8 -> [s EXCEPT !.fg = Bright(s.bg)]
      [] n = 25 -> [set_blink_attrib(s, 0) EXCEPT !.bg = Dim(@)]
      [] n \in 30 .. 37 -> [s EXCEPT !.fg = (@ \div 8) * 8 + screen_color[n - 29]]
      [] n \in 40 .. 47 -> [s EXCEPT !.bg = (@ \div 8) * 8 + screen_color[n - 39]]
      [] OTHER -> s
\* Mutant: any colours are taken.
NotInvisible_never(s) == s

NotInvisible(s) == IF s.fg = Dim(s.bg) THEN [s EXCEPT !.fg = Bright(@)] ELSE s

Renditions(s) ==
    LET after[i \in 0 .. s.argc] ==
          IF i = 0 THEN s ELSE Rendition(after[i - 1], s.args[i - 1])
    IN  after[s.argc]
set_graphic_rendition(s) ==
    IF s.argc = 0 THEN [s EXCEPT !.fg = 7, !.bg = 0] ELSE NotInvisible(Renditions(s))

set_cursor_shape(s, n) == [s EXCEPT !.shape = <<"normal", "invisible", "enhanced">>[n + 1]]

\* J and K: which part is erased.
erase(s, n, top, bot) ==
    CASE n = 0 -> clear(s, s.col, s.row, MaxCol, bot)
      [] n = 1 -> clear(s, 0, top, s.col, s.row)
      [] n = 2 -> clear(s, 0, top, MaxCol, bot)
      [] OTHER -> s

execute_console_command(s, b) ==
    LET Arg(i, default) == IF s.argc > i THEN s.args[i] ELSE default
        n == Arg(0, 1)
    IN
    CASE b \in {"A", "k"} -> move_cursor(s, 0, - n)
      [] b \in {"B", "e"} -> move_cursor(s, 0, n)
      [] b \in {"C", "a"} -> move_cursor(s, n, 0)
      [] b \in {"D", "j"} -> move_cursor(s, - n, 0)
      [] b = "E" -> set_cursor(s, 0, s.row + n)
      [] b = "F" -> set_cursor(s, 0, s.row - n)
      [] b = "G" -> set_cursor(s, n - 1, s.row)
      [] b \in {"H", "f"} -> set_cursor(s, Arg(1, 1) - 1, n - 1)
      [] b = "d" -> set_cursor(s, s.col, n - 1)
      [] b = "I" -> set_cursor(s, (s.col \div 8) * 8 + n * 8, s.row)
      [] b = "Z" -> IF s.col > 0 /\ n > 0
                    THEN set_cursor(s, ((s.col - 1) \div 8) * 8 - (n - 1) * 8, s.row) ELSE s
      [] b = "J" -> erase(s, Arg(0, 0), 0, MaxRow)
      [] b = "K" -> erase(s, Arg(0, 0), s.row, s.row)
      [] b = "L" -> IF s.row + n <= MaxRow THEN scroll_down(s, s.row, MaxRow, s.row + n)
                    ELSE clear(s, 0, s.row, MaxCol, MaxRow)
      [] b = "M" -> IF n <= MaxRow THEN scroll_up(s, n, MaxRow, s.row) ELSE s
      [] b = "S" -> IF n <= MaxRow THEN scroll_up(s, n, MaxRow, 0)
                    ELSE clear(s, 0, 0, MaxCol, MaxRow)
      [] b = "T" -> IF n <= MaxRow THEN scroll_down(s, 0, MaxRow, n)
                    ELSE clear(s, 0, 0, MaxCol, MaxRow)
      [] b = "@" -> IF s.col + n <= MaxCol THEN scroll_right(s, s.row, s.col, MaxCol, s.col + n)
                    ELSE clear(s, s.col, s.row, MaxCol, s.row)
      [] b = "P" -> IF s.col + n <= MaxCol THEN scroll_left(s, s.row, s.col + n, MaxCol, s.col)
                    ELSE clear(s, s.col, s.row, MaxCol, s.row)
      [] b = "X" -> clear(s, s.col, s.row, Clip(s.col + n, MaxCol), s.row)
      [] b = "m" -> set_graphic_rendition(s)
      [] b = "v" -> IF Arg(0, 0) <= 2 THEN set_cursor_shape(s, Arg(0, 0)) ELSE s
      [] OTHER -> s
----------------------------------------------------------------------------
\* The parser, with the byte b of a command.

\* Mutant: a function key makes the next command ignored too.
parse_cmd_keeps_ign(s, b) ==
    [IF is_command_char(b) /\ ~ s.ign THEN execute_console_command(s, b) ELSE s
     EXCEPT !.state = "need_esc"]

parse_cmd(s, b) ==
    [IF is_command_char(b) /\ ~ s.ign THEN execute_console_command(s, b) ELSE s
     EXCEPT !.state = "need_esc", !.ign = FALSE]

\* What is neither digit nor separator ends the last argument and is the command.
parse_console_command(s, b) ==
    LET t == IF s.state = "have_lbracket" THEN [s EXCEPT !.argc = 0, !.args[0] = 0] ELSE s IN
    CASE s.state = "need_esc" -> [s EXCEPT !.state = "have_esc"]
      [] s.state = "have_esc" -> [s EXCEPT !.state = "have_lbracket"]
      [] s.state = "have_lbracket" /\ b = "[" -> [t EXCEPT !.ign = TRUE]
      [] s.state \in {"have_lbracket", "have_arg"} /\ b \in Range(Digits) ->
           [t EXCEPT !.state = "have_arg", !.args[t.argc] = @ * 10 + Value(b)]
      [] s.state = "have_arg" /\ b = ";" ->
           [s EXCEPT !.argc = @ + 1,
                     !.args = IF s.argc + 1 < NPAR THEN [@ EXCEPT ![s.argc + 1] = 0] ELSE @]
      [] OTHER -> parse_cmd(IF s.state = "have_arg" THEN [t EXCEPT !.argc = @ + 1] ELSE t, b)

\* A character that is no part of a command; TAB is blanks up to a tab stop.
TabStop(s) == s.fault \/ s.col % 8 = 0
BlankTo(s, i) == IF i > 1 /\ TabStop(s) THEN s ELSE write_ch(s, "sp")
WriteTab(s) ==
    LET after[i \in 0 .. 8] == IF i = 0 THEN s ELSE BlankTo(after[i - 1], i)
    IN  after[8]
WritePlain(s, b) ==
    IF b = "tab" THEN WriteTab(s)
    ELSE write_ch(IF b = "nl" /\ "ONLCR" \in oflag THEN write_ch(s, "cr") ELSE s,
                  IF b = "cr" /\ "OCRNL" \in oflag THEN "nl" ELSE b)

\* The loop over the buffer of one write.  An escape that no bracket follows is
\* dropped, and the byte after it written or taken for the next escape.
WriteByte(s, b) ==
    LET t == IF b = "esc" THEN set_cursor(s, s.col, s.row) ELSE s
        u == IF s.state = "have_esc" /\ b # "[" THEN [t EXCEPT !.state = "need_esc"] ELSE t
    IN  IF b = "esc" \/ u.state # "need_esc" THEN parse_console_command(u, b)
        ELSE WritePlain(u, b)
WriteBytes(s, bytes) ==
    LET after[i \in 0 .. Len(bytes)] ==
          IF i = 0 THEN s ELSE WriteByte(after[i - 1], bytes[i])
    IN  after[Len(bytes)]
Placed(s) == set_cursor(s, s.col, s.row)
write_tty(s, bytes) == Placed(WriteBytes(s, bytes))

\* At exit, what the program changed of blinking and cursor goes back.
restore_video_state(s) ==
    [s EXCEPT !.state = "exited",
              !.blink = IF s.cur_blink # 1 THEN 1 ELSE @,
              !.shape = "initial"]
----------------------------------------------------------------------------
\* What a piece of output should do, by the names of the commands (ECMA-48).

Put(scr, S) == [p \in Cells |-> IF p \in S THEN Blank ELSE scr[p]]
ShiftRows(scr, top, n) ==       \* from row top on, n rows down (up if n < 0)
    [p \in Cells |-> IF RowOf(p) < top THEN scr[p]
                     ELSE IF RowOf(p) - n \in top .. MaxRow THEN scr[p - n * RowLength]
                     ELSE Blank]
ShiftCells(s, n) ==             \* in the cursor's row, n cells right (left if n < 0)
    [p \in Cells |-> IF RowOf(p) # s.row \/ ColOf(p) < s.col THEN s.scr[p]
                     ELSE IF ColOf(p) - n \in s.col .. MaxCol THEN s.scr[p - n]
                     ELSE Blank]
View(col, row, scr) == <<Clip(col, MaxCol), Clip(row, MaxRow), scr>>

MeantCommand(s, cmd, ps) ==
    LET n == IF ps = <<>> THEN 1 ELSE ps[1]
        m == IF ps = <<>> THEN 0 ELSE ps[1]
        here == get_video_offset(s.col, s.row)
        row == {p \in Cells : RowOf(p) = s.row}
        Part(S) == CASE m = 0 -> {p \in S : p >= here} [] m = 1 -> {p \in S : p <= here}
                     [] OTHER -> S
        Move(dx, dy) == View(s.col + dx, s.row + dy, s.scr)
        Show(scr) == <<s.col, s.row, scr>>
    IN
    CASE cmd = "A" -> Move(0, - n) [] cmd = "B" -> Move(0, n)
      [] cmd = "C" -> Move(n, 0)   [] cmd = "D" -> Move(- n, 0)
      [] cmd = "E" -> Move(- s.col, n) [] cmd = "F" -> Move(- s.col, - n)
      [] cmd = "G" -> View(n - 1, s.row, s.scr)
      [] cmd = "d" -> View(s.col, n - 1, s.scr)
      [] cmd = "H" -> View(IF Len(ps) > 1 THEN ps[2] - 1 ELSE 0, n - 1, s.scr)
      [] cmd = "I" -> IF n = 0 THEN View(8 * (s.col \div 8), s.row, s.scr)
                      ELSE View(8 * (s.col \div 8 + n), s.row, s.scr)
      [] cmd = "Z" -> IF n = 0 THEN Show(s.scr) ELSE View(0, s.row, s.scr)
      [] cmd = "J" -> Show(Put(s.scr, Part(Cells)))
      [] cmd = "K" -> Show(Put(s.scr, Part(row)))
      [] cmd = "L" -> Show(ShiftRows(s.scr, s.row, n))
      [] cmd = "M" -> Show(ShiftRows(s.scr, s.row, - n))
      [] cmd = "S" -> Show(ShiftRows(s.scr, 0, - n))
      [] cmd = "T" -> Show(ShiftRows(s.scr, 0, n))
      [] cmd = "@" -> Show(ShiftCells(s, n))
      [] cmd = "P" -> Show(ShiftCells(s, - n))
      [] cmd = "X" -> Show(Put(s.scr, {p \in row : p \in here .. here + n - 1}))
      [] OTHER -> Show(s.scr)

\* A plain character: the cursor goes on to the next cell, or the screen up.
MeantCharacter(s, b) ==
    LET here == get_video_offset(s.col, s.row)
        down == b = "nl" \/ (b = "cr" /\ "OCRNL" \in oflag)
        next == CASE down -> here + RowLength - IF b = "nl" /\ "ONLCR" \in oflag THEN s.col ELSE 0
                  [] b = "cr" /\ ~ down -> here - s.col
                  [] b = "bs" -> IF here = 0 THEN 0 ELSE here - 1
                  [] b = "tab" -> IF 8 * (s.col \div 8 + 1) > MaxCol THEN here - s.col + RowLength
                                  ELSE here - s.col + 8 * (s.col \div 8 + 1)
                  [] b = "x" -> here + 1
        inked == [p \in Cells |-> CASE b = "x" /\ p = here -> Ink
                                    [] b = "tab" /\ p \in here .. next - 1 -> Blank
                                    [] OTHER -> s.scr[p]]
    IN  IF next \in Cells THEN <<ColOf(next), RowOf(next), inked>>
        ELSE <<ColOf(next), MaxRow, ShiftRows(inked, 0, -1)>>
----------------------------------------------------------------------------
Characters == {"x", "nl", "cr", "bs", "tab"}
Broken == {<<"esc", "[", "[", "A">>, <<"esc", "[", "1", "nl">>, <<"esc", "[", ";">>}

Number(n) == IF n < 10 THEN <<Digits[n + 1]>> ELSE <<Digits[(n \div 10) + 1], Digits[(n % 10) + 1]>>
\* The bytes from parameter j + 1 on, and the whole command.
BytesFrom(k) ==
    LET from[j \in 0 .. Len(k.ps)] ==
          IF j = Len(k.ps) THEN <<k.cmd>>
          ELSE (IF j = 0 THEN <<>> ELSE <<";">>) \o (Number(k.ps[j + 1]) \o from[j + 1])
    IN  from
Bytes(k) == <<"esc", "[">> \o BytesFrom(k)[0]

\* The uses the code gets wrong, by name, of which a command is one.
Wrong(k) ==
    LET n == IF k.ps = <<>> THEN 1 ELSE k.ps[1] IN
    {u \in {"edge", "insert_line", "insert_char", "delete_line", "erase_char", "erase_above",
            "reverse"} :
       CASE u = "edge" -> <<k.cmd, TRUE>> \in {<<"A", n > con.row>>, <<"B", n > MaxRow - con.row>>,
                                                <<"D", n > con.col>>, <<"C", n > MaxCol - con.col>>}
         [] u = "insert_line" -> k.cmd = "L" /\ driver = "vbios" /\ con.row > 0
         [] u = "insert_char" -> k.cmd = "@" /\ driver = "direct"
         [] u = "delete_line" -> k.cmd = "M" /\ (n > MaxRow \/ (driver = "direct" /\ con.row > 0))
         [] u = "erase_char" -> k.cmd = "X"
         [] u = "erase_above" -> k.cmd = "J" /\ k.ps = <<1>> /\ driver = "vbios" /\ con.row > 0
         [] u = "reverse" -> k.cmd = "m" /\ Contains(k.ps, 7)}

\* A character in colour in the last column, through the BIOS.
ColourEdge(b) == /\ driver = "vbios" /\ (con.changed \/ <<con.fg, con.bg>> # <<7, 0>>)
                 /\ \/ b = "x" /\ con.col = MaxCol
                    \/ b = "tab" /\ MaxCol < 8 * (con.col \div 8 + 1)

ConsoleInit ==
    /\ driver \in Drivers /\ oflag \in {{}, {"ONLCR", "OCRNL"}}
    /\ \E col \in 0 .. MaxCol, row \in 0 .. MaxRow :
         con = [state |-> "need_esc", args |-> [i \in 0 .. NPAR - 1 |-> 0], argc |-> 0, ign |-> FALSE,
              col |-> col, row |-> row, scr |-> [p \in Cells |-> p], fg |-> 7, bg |-> 0,
              cur_blink |-> 1, blink |-> 1, shape |-> "initial", changed |-> FALSE, fault |-> FALSE]
    /\ unwritten = <<>> /\ pieces = 0
    /\ goal = <<con.col, con.row, con.scr>>

\* The program runs, and the last piece is written.
Ready == unwritten = <<>> /\ con.state # "exited" /\ ~ con.fault

\* A piece is sent with the first write, whole or cut after byte n.
Send(bytes, meant) ==
    /\ pieces < MaxPieces
    /\ pieces' = pieces + 1 /\ goal' = meant
    /\ \E n \in 1 .. Len(bytes) :
         /\ con' = write_tty(con, SubSeq(bytes, 1, n))
         /\ unwritten' = SubSeq(bytes, n + 1, Len(bytes))
    /\ UNCHANGED <<driver, oflag>>

SendCommand == Ready /\ \E k \in Commands :
    Wrong(k) \subseteq Uses /\ Send(Bytes(k), MeantCommand(con, k.cmd, k.ps))
SendCharacter == Ready /\ \E b \in Characters :
    (ColourEdge(b) => "colour_edge" \in Uses) /\ Send(<<b>>, MeantCharacter(con, b))
SendBroken == Ready /\ \E b \in Broken : Send(b, <<con.col, con.row, con.scr>>)

\* The rest of the piece is written.
WriteRest ==
    /\ unwritten # <<>> /\ unwritten' = <<>>
    /\ con' = write_tty(con, unwritten)
    /\ UNCHANGED <<driver, oflag, goal, pieces>>

Exit ==
    /\ Ready
    /\ con' = restore_video_state(con)
    /\ UNCHANGED <<driver, oflag, unwritten, goal, pieces>>

ConsoleNext == SendCommand \/ SendCharacter \/ SendBroken \/ WriteRest \/ Exit
ConsoleSpec == ConsoleInit /\ [][ConsoleNext]_console_vars
----------------------------------------------------------------------------
ConsoleTypeOK == /\ con.state \in {"need_esc", "have_esc", "have_lbracket", "have_arg", "exited"}
          /\ con.args \in [0 .. NPAR - 1 -> Nat] /\ con.argc \in 0 .. NPAR
          /\ {con.fg, con.bg} \subseteq 0 .. 15 /\ {con.blink, con.cur_blink} \subseteq {0, 1}
          /\ DOMAIN con.scr = Cells

(* Output does what its commands are named for, with either driver, however
   writes cut it: the parser's state carries a cut command over and a broken
   one leaves nothing behind (tmwrite.c:248, 358, ttyscrn.c).  Parameters and
   colours stay in range (ConsoleTypeOK). *)
WritesAsMeant ==
    /\ ConsoleTypeOK /\ ~ con.fault
    /\ unwritten = <<>> => /\ <<con.col, con.row, con.scr>> = goal
                      /\ con.state \in {"need_esc", "exited"} /\ ~ con.ign

(* No sequence of colour commands leaves the text in the colour it is written
   on, the blink bit of the background set aside while it blinks
   (tmwrite.c:628). *)
TextVisible == con.fg # IF con.blink = 1 THEN Dim(con.bg) ELSE con.bg

(* Whatever was switched, the program exits with blinking and the cursor
   shape as it found them (tmwrite.c:787). *)
ExitRestoresVideo == con.state = "exited" => con.blink = 1 /\ con.shape = "initial"
=============================================================================
