------------------------------ MODULE Termios ------------------------------
(***************************************************************************)
(* The console input of libc/posix/termios: tmread.c (the hook that read   *)
(* calls once a termios function has been used), tcsetatr.c, tcflush.c and *)
(* cfmakraw.c.  The program reads, changes attributes and flushes; someone *)
(* types meanwhile, into the BIOS keyboard buffer.  Each step of a read    *)
(* takes one key, one character of an extended key's string, or one        *)
(* character of the queue.                                                 *)
(*                                                                         *)
(* struct tty's ring of cooked characters is mem, rpos, wpos and cnt;      *)
(* __libc_tty_editline is buf, flag and col; _TS_LNCH is lnch.  The        *)
(* control characters are the defaults of the header, none of them 0xff.   *)
(***************************************************************************)
EXTENDS TtyChars, Integers, SequencesExt

CONSTANTS KbdMax,       \* keys the BIOS buffer holds
          Keys,         \* what may be typed: characters, "up" and "dead"
          Attributes,   \* the flag sets that tcsetattr is called with
          ReadSizes,    \* the counts of read calls
          Margin,       \* bound: columns of the screen before the line's start
          MaxKeys       \* bound: keys typed in a behaviour

ASSUME SizesAssumption ==
    /\ LineMax \in Nat \ {0} /\ QueueMax \in Nat /\ LineMax < QueueMax
    /\ KbdMax \in Nat /\ MaxKeys \in Nat /\ Margin \in Nat /\ ReadSizes \subseteq Nat \ {0}
ASSUME InputsAssumption ==
    Keys \subseteq Chars \cup {"up", "dead"} /\ Attributes \subseteq SUBSET Flags

VARIABLES modes,        \* t_lflag, t_iflag and t_oflag, as a set of flags
          got,          \* what the read has put into the caller's buffer
          kbd,          \* the BIOS keyboard buffer
          ctrl,         \* whether Ctrl is held down now
          pressed,      \* keys typed so far (for the bound)
          ctrlc,        \* __djgpp_set_ctrl_c: the INTR key raises SIGINT itself
          mem, rpos, wpos, cnt,
          buf, flag, col,
          lnch,
          ext,          \* fill_queue: what is left of ext_key_string
          pc,           \* where the reader is
          back,         \* where it goes on when a signal handler returns
          want,         \* n, what the caller still wants
          shown         \* columns from the line's start to the cursor, as its echo leaves it
kb   == <<kbd, ctrl, pressed>>
ring == <<mem, rpos, wpos, cnt>>
edit == <<buf, flag, col, lnch>>
vars == <<kb, ctrlc, modes, ring, edit, ext, pc, back, want, got, shown>>

\* The flags of a position of the edit line (header values, as used).
INVALID == -1
CTRL    == 0
SINGLE  == 1
MB_CUR_MAX == 5

\* The string of an extended key; <<>> is a key without one.
ExtendedKeys == {"up", "dead"}
get_ext_key_string(k) == IF k = "up" THEN <<"esc", "a">> ELSE <<>>

\* The characters that keys stand for.
Spelling(k) == IF k \in ExtendedKeys THEN get_ext_key_string(k) ELSE <<k>>
Spelled(keys) ==
    LET g[i \in 0 .. Len(keys)] == IF i = 0 THEN <<>> ELSE g[i - 1] \o Spelling(keys[i])
    IN  g[Len(keys)]

Init == /\ kbd = <<>> /\ ctrl = FALSE /\ pressed = 0 /\ ctrlc = TRUE
        /\ modes \in {m \in Attributes : {"ICANON", "ISIG", "BRKINT", "ICRNL"} \subseteq m}
        /\ mem = [i \in 0 .. QueueMax - 1 |-> "nul"]
        /\ rpos = 0 /\ wpos = 0 /\ cnt = 0
        /\ buf = [i \in 0 .. LineMax - 1 |-> "nul"]
        /\ flag = [i \in 0 .. LineMax - 1 |-> 0]
        /\ col = 0 /\ lnch = FALSE /\ ext = <<>> /\ shown = 0
        /\ pc = "idle" /\ back = "idle" /\ want = 0 /\ got = <<>>
----------------------------------------------------------------------------
\* The queue.

get_queue ==
    /\ cnt > 0 /\ cnt' = cnt - 1
    /\ rpos' = (rpos + 1) % QueueMax
    /\ UNCHANGED <<mem, wpos>>

\* put_queue of each character of s in turn; what finds the queue full is lost.
puts_queue(s) ==
    LET k == IF Len(s) < QueueMax - cnt THEN Len(s) ELSE QueueMax - cnt IN
    /\ mem' = [i \in 0 .. QueueMax - 1 |->
                 LET d == (i + QueueMax - wpos) % QueueMax
                 IN  IF d < k THEN s[d + 1] ELSE mem[i]]
    /\ wpos' = (wpos + k) % QueueMax /\ cnt' = cnt + k
    /\ UNCHANGED rpos
put_queue(c) == puts_queue(<<c>>)

Queued == [i \in 1 .. cnt |-> mem[(rpos + i - 1) % QueueMax]]
----------------------------------------------------------------------------
\* Echo.

Control(c) == c \notin {"a", "hi", "sp"}

\* The screen's left edge, seen from the line's start.
LeftEdge == {-n : n \in 0 .. Margin}

\* Where the cursor may be once putch has written c at column x.
putch(c, x) ==
    CASE c = "cr" -> LeftEdge
      [] c = "nl" -> {x}
      [] c = "bs" -> {x - 1}
      [] OTHER    -> {x + 1}

\* Where the cursor may be once c has been echoed at column x.  _TS_LNCH is
\* clear by then, so that no character is taken literally here.
maybe_echo(c, x) ==
    LET out(f) == {"OPOST", f} \subseteq modes IN
    IF "ECHO" \notin modes THEN {x}
    ELSE CASE c = "nl" /\ out("ONLCR")   -> LeftEdge
           [] c = "cr" /\ out("OCRNL")   -> {x}
           [] c = "eot" /\ out("ONOEOT") -> {x}
           [] OTHER -> IF Control(c) /\ c # "nl" /\ "ECHOCTL" \in modes
                       THEN {x + 2} ELSE putch(c, x)

\* How many columns maybe_erase1 goes back.
maybe_erase1 == IF "ECHO" \in modes THEN 1 ELSE 0

\* Columns of one position of the line, as erase_editline rubs it out.
Rubbed(f) == IF f = CTRL /\ "ECHOCTL" \in modes THEN 2 * maybe_erase1 ELSE maybe_erase1

\* Columns of the line: what kill_editline rubs out position by position.
Width ==
    LET w[i \in 0 .. col] == IF i = 0 THEN 0 ELSE w[i - 1] + Rubbed(flag[i - 1])
    IN  w[col]
----------------------------------------------------------------------------
\* The edit line.

mblen(c) == IF c = "nul" THEN 0 ELSE 1

\* The first position of the run of unsettled characters before position n.
Unsettled(n) == CHOOSE p \in 0 .. n : /\ \A i \in p .. n - 1 : flag[i] = INVALID
                                      /\ p > 0 => flag[p - 1] # INVALID

\* Mutant: the caret of a control character stays on the screen.
erase_editline_caret ==
    /\ col' = IF col = 0 THEN 0 ELSE col - 1
    /\ shown' = IF col = 0 THEN shown ELSE shown - maybe_erase1
    /\ UNCHANGED <<buf, flag, lnch>>

\* Erasing takes one character, or the whole of an unsettled run.
erase_editline ==
    LET c == IF col = 0 THEN 0
             ELSE IF flag[col - 1] = INVALID THEN Unsettled(col) ELSE col - 1
    IN  /\ col' = c
        /\ shown' = shown - (IF col - c > 1 THEN (col - c) * maybe_erase1
                             ELSE IF col > 0 THEN Rubbed(flag[col - 1]) ELSE 0)
        /\ UNCHANGED <<buf, flag, lnch>>

\* Killing erases all of it, with ECHOKE on the screen too.
kill_editline ==
    /\ col' = 0
    /\ shown' = IF "ECHOK" \in modes THEN 0
                ELSE IF "ECHOKE" \in modes
                THEN shown - Width
                ELSE shown
    /\ UNCHANGED <<buf, flag, lnch>>

\* insert_editline after fill_queue has cleared _TS_LNCH.  No locale of this
\* library has multibyte characters, so a character joined to an unsettled
\* one never makes a sequence: it stays unsettled, and the next is literal.
insert_editline(c) ==
    LET p == Unsettled(col) IN
    IF col >= LineMax THEN lnch' = FALSE /\ UNCHANGED <<buf, flag, col, shown>>
    ELSE /\ col' = col + 1
         /\ \/ /\ p = col /\ mblen(c) = 1
               /\ buf' = [buf EXCEPT ![col] = c]
               /\ flag' = [flag EXCEPT ![col] = IF Control(c) THEN CTRL ELSE SINGLE]
               /\ lnch' = FALSE
               /\ shown' \in maybe_echo(c, shown)
            \/ /\ p < col \/ mblen(c) # 1
               /\ lnch' = TRUE
               /\ LET spoilt == IF col - p + 1 > MB_CUR_MAX /\ p < col THEN p .. col ELSE {} IN
                  /\ buf' = [i \in DOMAIN buf |-> IF i \in spoilt THEN "a"
                                                  ELSE IF i = col THEN c ELSE buf[i]]
                  /\ flag' = [i \in DOMAIN flag |-> IF i = col THEN INVALID
                                                    ELSE IF i \in spoilt THEN SINGLE ELSE flag[i]]
                  /\ shown' = shown + (IF spoilt # {} THEN (col - p + 1) * maybe_erase1 ELSE 0)
----------------------------------------------------------------------------
\* The typist and the keyboard buffer.

CtrlKeys == {"nak", "eot", "etx", "fs", "dc1", "dc3", "nul"}

\* A key is typed, with Ctrl held where it needs it; Ctrl may stay down.
Press(k) ==
    /\ pressed < MaxKeys /\ Len(kbd) < KbdMax
    /\ pressed' = pressed + 1
    /\ kbd' = Append(kbd, k)
    /\ ctrl' = (k \in CtrlKeys)
    /\ UNCHANGED <<ctrlc, modes, ring, edit, ext, pc, back, want, got, shown>>

\* What fill_queue reads next: a character of a string, or a key.  A blank is
\* a NUL if Ctrl is down when the key is read, not when it was pressed.
NextChar ==
    IF ext # <<>> THEN Head(ext)
    ELSE IF Head(kbd) = "up" THEN "esc"
    ELSE IF Head(kbd) = "sp" /\ ctrl THEN "nul" ELSE Head(kbd)

HaveChar == ext # <<>> \/ (kbd # <<>> /\ Head(kbd) # "dead")

Consume ==
    /\ HaveChar
    /\ IF ext # <<>> THEN ext' = Tail(ext) /\ UNCHANGED kbd
       ELSE /\ kbd' = Tail(kbd)
            /\ ext' = IF Head(kbd) \in ExtendedKeys
                      THEN Tail(get_ext_key_string(Head(kbd))) ELSE <<>>
    /\ UNCHANGED <<ctrl, pressed>>
----------------------------------------------------------------------------
\* fill_queue, one turn of its loop, from each place that calls it: "canon",
\* and "block" and "refill" without ICANON.

Filling == pc \in {"canon", "block", "refill"}

\* An extended key without a string is skipped.
FillDead ==
    /\ Filling /\ ext = <<>> /\ kbd # <<>> /\ Head(kbd) = "dead"
    /\ kbd' = Tail(kbd)
    /\ UNCHANGED <<ctrl, pressed, ctrlc, modes, ring, edit, ext, pc, back, want, got, shown>>

\* A signal character with the key's own SIGINT switched off: kill runs the
\* handler before it returns.
FillSignal ==
    /\ Filling /\ Consume
    /\ Signalling(modes, NextChar) /\ ~ ctrlc
    /\ pc' = "handler" /\ back' = pc
    /\ shown' = shown + IF "ECHOCTL" \in modes THEN 2 ELSE 0
    /\ UNCHANGED <<ctrlc, modes, ring, edit, want, got>>

\* The other characters that are taken out of the input.
FillDrop ==
    /\ Filling /\ Consume
    /\ Dropped(modes, NextChar)
    /\ Signalling(modes, NextChar) => ctrlc
    /\ UNCHANGED <<ctrlc, modes, ring, edit, pc, back, want, got, shown>>

\* Canonical mode: the character edits the line.
FillEdit ==
    /\ pc = "canon" /\ Consume
    /\ ~ Dropped(modes, NextChar)
    /\ LET c == Mapped(modes, NextChar) IN
       \/ ~ lnch /\ c = "bs" /\ erase_editline
       \/ ~ lnch /\ c = "nak" /\ kill_editline
       \/ (lnch \/ c \notin {"bs", "nak", "nl", "eot"}) /\ insert_editline(c)
    /\ UNCHANGED <<ctrlc, modes, ring, pc, back, want, got>>

\* Mutant: the end of the line is looked for before CR is mapped.
FillEndLine_unmapped ==
    /\ pc = "canon" /\ Consume /\ NextChar \in {"nl", "eot"} /\ ~ lnch
    /\ puts_queue([i \in 1 .. col |-> buf[i - 1]])
    /\ col' = 0 /\ shown' = 0 /\ pc' = "copy"
    /\ UNCHANGED <<ctrlc, modes, buf, flag, lnch, back, want, got>>

\* Canonical mode: the line ends and goes into the queue.
FillEndLine ==
    /\ pc = "canon" /\ Consume
    /\ ~ Dropped(modes, NextChar) /\ ~ lnch
    /\ LET c == Mapped(modes, NextChar)
           l == [i \in 1 .. col |-> buf[i - 1]]
       IN  /\ c \in {"nl", "eot"}
           /\ puts_queue(IF c = "eot" THEN l ELSE Append(l, c))
    /\ col' = 0 /\ shown' = 0
    /\ pc' = "copy"
    /\ UNCHANGED <<ctrlc, modes, buf, flag, lnch, back, want, got>>

\* Without ICANON the character goes into the queue.
FillPut ==
    /\ pc \in {"block", "refill"} /\ Consume
    /\ ~ Dropped(modes, NextChar)
    /\ put_queue(Mapped(modes, NextChar))
    /\ lnch' = FALSE
    /\ UNCHANGED <<ctrlc, modes, buf, flag, col, pc, back, want, got, shown>>

\* fill_queue returns when it finds no key.
FillReturn ==
    /\ pc \in {"block", "refill"} /\ ext = <<>> /\ kbd = <<>>
    /\ \/ pc = "block" /\ cnt > 0 /\ pc' = "take"
       \/ pc = "refill" /\ pc' = IF cnt = 0 \/ want = 0 THEN "idle" ELSE "take"
    /\ UNCHANGED <<kb, ctrlc, modes, ring, edit, ext, back, want, got, shown>>

\* The signal handler returns into kill, or leaves the read with longjmp.
HandlerReturns ==
    /\ pc = "handler" /\ pc' = back
    /\ UNCHANGED <<kb, ctrlc, modes, ring, edit, ext, back, want, got, shown>>
HandlerJumps ==
    /\ pc = "handler" /\ pc' = "idle" /\ ext' = <<>>
    /\ UNCHANGED <<kb, ctrlc, modes, ring, edit, back, want, got, shown>>
----------------------------------------------------------------------------
\* __libc_termios_read and the three ways it goes.

\* A cooked read: read_cooked_tty as far as its first character.
read_cooked_tty(n) ==
    /\ pc = "idle"
    /\ pc' = IF "ICANON" \in modes THEN IF cnt > 0 THEN "copy" ELSE "canon"
             ELSE IF cnt > 0 THEN "take" ELSE "block"
    /\ want' = n /\ got' = <<>>
    /\ UNCHANGED <<kb, ctrlc, modes, ring, edit, ext, back, shown>>

\* Canonical: what the queue holds is copied, as far as it is wanted.
CopyChar ==
    /\ pc = "copy" /\ want > 0 /\ get_queue
    /\ got' = Append(got, mem[rpos]) /\ want' = want - 1
    /\ UNCHANGED <<kb, ctrlc, modes, edit, ext, pc, back, shown>>
CopyDone ==
    /\ pc = "copy" /\ (want = 0 \/ cnt = 0) /\ pc' = "idle"
    /\ UNCHANGED <<kb, ctrlc, modes, ring, edit, ext, back, want, got, shown>>

\* Not canonical: one character, then more keys if the queue is empty.
TakeChar ==
    /\ pc = "take" /\ get_queue
    /\ got' = Append(got, mem[rpos]) /\ want' = want - 1
    /\ pc' = IF cnt' = 0 THEN "refill" ELSE IF want' = 0 THEN "idle" ELSE "take"
    /\ UNCHANGED <<kb, ctrlc, modes, edit, ext, back, shown>>

\* A raw read: the keys as they are, once there is one.
read_raw_tty(n) ==
    /\ pc = "idle"
    /\ pc' = IF cnt = 0 THEN "wait" ELSE "raw"
    /\ want' = n /\ got' = <<>>
    /\ UNCHANGED <<kb, ctrlc, modes, ring, edit, ext, back, shown>>
wait_keysense ==
    /\ pc = "wait" /\ kbd # <<>> /\ pc' = "raw"
    /\ UNCHANGED <<kb, ctrlc, modes, ring, edit, ext, back, want, got, shown>>
RawDone ==
    /\ pc = "raw" /\ (want = 0 \/ (cnt = 0 /\ kbd = <<>>)) /\ pc' = "idle"
    /\ UNCHANGED <<kb, ctrlc, modes, ring, edit, ext, back, want, got, shown>>
RawQueued ==
    /\ pc = "raw" /\ want > 0 /\ get_queue
    /\ got' = Append(got, mem[rpos]) /\ want' = want - 1
    /\ UNCHANGED <<kb, ctrlc, modes, edit, ext, pc, back, shown>>
\* A key without a string is skipped; with nothing read yet, wait again.
RawDead ==
    /\ pc = "raw" /\ want > 0 /\ cnt = 0 /\ kbd # <<>> /\ Head(kbd) = "dead"
    /\ kbd' = Tail(kbd)
    /\ pc' = IF got = <<>> THEN "wait" ELSE "raw"
    /\ UNCHANGED <<ctrl, pressed, ctrlc, modes, ring, edit, ext, back, want, got, shown>>
\* A key, or the first character of an extended one: the rest is queued.
RawKey ==
    /\ pc = "raw" /\ want > 0 /\ cnt = 0 /\ kbd # <<>> /\ Head(kbd) # "dead"
    /\ got' = Append(got, NextChar) /\ want' = want - 1
    /\ kbd' = Tail(kbd)
    /\ puts_queue(IF Head(kbd) = "up" THEN Tail(get_ext_key_string("up")) ELSE <<>>)
    /\ UNCHANGED <<ctrl, pressed, ctrlc, modes, edit, ext, pc, back, shown>>
----------------------------------------------------------------------------
\* The other calls of the program.

tcsetattr(m) ==
    /\ pc = "idle"
    /\ modes' = m
    /\ ctrlc' = ({"ISIG", "BRKINT", "IGNBRK"} \cap m = {"ISIG", "BRKINT"})
    /\ UNCHANGED <<kb, ring, edit, ext, pc, back, want, got, shown>>

\* Mutant: only the read position goes back.
tcflush_keeps_wpos ==
    /\ pc = "idle" /\ cnt' = 0 /\ rpos' = 0 /\ kbd' = <<>>
    /\ UNCHANGED <<ctrl, pressed, ctrlc, modes, mem, wpos, edit, ext, pc, back, want, got, shown>>

tcflush ==
    /\ pc = "idle"
    /\ cnt' = 0
    /\ IF cnt # 0 THEN rpos' = 0 /\ wpos' = 0 ELSE UNCHANGED <<rpos, wpos>>
    /\ kbd' = <<>>
    /\ UNCHANGED <<ctrl, pressed, ctrlc, modes, mem, edit, ext, pc, back, want, got, shown>>

\* cfmakeraw edits the caller's structure only, but disables ^C at once.
cfmakeraw ==
    /\ pc = "idle" /\ ctrlc /\ ctrlc' = FALSE
    /\ UNCHANGED <<kb, modes, ring, edit, ext, pc, back, want, got, shown>>

Reader == \/ FillDead \/ FillSignal \/ FillDrop \/ FillEdit \/ FillEndLine \/ FillPut
          \/ FillReturn \/ HandlerReturns \/ HandlerJumps
          \/ CopyChar \/ CopyDone \/ TakeChar
          \/ wait_keysense \/ RawDone \/ RawQueued \/ RawDead \/ RawKey
Next == \/ \E k \in Keys : Press(k)
        \/ Reader
        \/ \E n \in ReadSizes : read_cooked_tty(n) \/ read_raw_tty(n)
        \/ \E m \in Attributes : tcsetattr(m)
        \/ tcflush \/ cfmakeraw
Spec == Init /\ [][Next]_vars /\ WF_vars(Reader)
----------------------------------------------------------------------------
TypeOK == /\ kbd \in Seq(Keys) /\ Len(kbd) <= KbdMax /\ pressed \in 0 .. MaxKeys
          /\ {ctrl, ctrlc, lnch} \subseteq BOOLEAN /\ modes \subseteq Flags
          /\ mem \in [0 .. QueueMax - 1 -> Chars]
          /\ {rpos, wpos} \subseteq 0 .. QueueMax - 1 /\ cnt \in 0 .. QueueMax
          /\ buf \in [0 .. LineMax - 1 -> Chars] /\ col \in 0 .. LineMax
          /\ flag \in [0 .. LineMax - 1 -> {INVALID, CTRL, SINGLE}]
          /\ ext \in Seq(Chars) /\ got \in Seq(Chars)
          /\ {pc, back} \subseteq {"idle", "canon", "block", "refill", "take", "copy",
                                   "wait", "raw", "handler"}
          /\ want \in Nat /\ shown \in Int

(* The console behaves as Tty promises: across mode changes, signals and
   reads of every size, each character typed is used once, in order, editing
   the line or reaching a reader; the ring and the edit line stand for
   sequences whose positions stay in range (tmread.c:497, 514, 706). *)
Terminal == INSTANCE Tty WITH
    typed <- ext \o Spelled(kbd),
    line  <- [i \in 1 .. col |-> buf[i - 1]],
    ready <- Queued
ActsAsTty == []TypeOK /\ Terminal!TSpec

\* A control character of the line is on the screen as a caret and a letter.
Carets == "ECHO" \in modes => "ECHOCTL" \in modes /\ ~ {"OPOST", "OCRNL"} \subseteq modes

(* Each key moves the echo on the screen by as many columns as it changes the
   width of the line, so that erasing and killing rub out exactly the
   characters they take away (tmread.c:326, 372, 388).  It is said of the
   attributes that echo control characters as ^X: written to the screen as it
   is, a CR or a BS goes to the left edge or back (tmread.c:792, 812). *)
EchoFollowsLine ==
    [][FillEdit /\ {"ECHOKE", "ECHOK"} \cap modes = {"ECHOKE"} /\ Carets
         => shown' - Width' = shown - Width]_vars

(* A canonical read whose line is ended by the RET key returns: the key is
   waiting in the keyboard buffer and the reader is scheduled. *)
LineEndsRead ==
    (pc = "canon" /\ {"ICRNL", "IGNCR"} \cap modes = {"ICRNL"} /\ Contains(kbd, "cr"))
        ~> (pc = "idle")
=============================================================================
