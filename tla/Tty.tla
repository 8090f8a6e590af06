-------------------------------- MODULE Tty --------------------------------
(***************************************************************************)
(* What the console promises a program that reads it: every character      *)
(* typed is used once and in the order of typing; in canonical mode it     *)
(* edits the line or ends it, and only an ended line can be read; without  *)
(* canonical mode it can be read at once.                                  *)
(***************************************************************************)
EXTENDS TtyChars

VARIABLES typed,        \* the characters typed and not used
          line,         \* the line being edited
          ready,        \* what a read can take now
          got,          \* what the current or last read has taken
          modes         \* the flags of the terminal
tvars == <<typed, line, ready, got, modes>>

TInit == typed = <<>> /\ line = <<>> /\ ready = <<>> /\ got = <<>> /\ modes \subseteq Flags

\* A key is pressed: it may stand for several characters, or for none.
TypeIn == /\ \E n \in 0 .. 3 : Len(typed') = Len(typed) + n
          /\ SubSeq(typed', 1, Len(typed)) = typed
          /\ UNCHANGED <<line, ready, got, modes>>

\* One typed character is used as the modes say.
UseChar ==
    /\ typed # <<>> /\ typed' = Tail(typed)
    /\ LET c == Mapped(modes, Head(typed)) IN
       IF Dropped(modes, Head(typed)) THEN UNCHANGED <<line, ready>>
       ELSE IF "ICANON" \notin modes
       THEN /\ ready' = IF Len(ready) < QueueMax THEN Append(ready, c) ELSE ready
            /\ UNCHANGED line
       ELSE CASE c = "bs" -> /\ line' = SubSeq(line, 1, Len(line) - 1)
                             /\ UNCHANGED ready
              [] c = "nak" -> line' = <<>> /\ UNCHANGED ready
              [] c \in {"nl", "eot"} ->
                   /\ ready = <<>> /\ line' = <<>>
                   /\ ready' = IF c = "eot" THEN line ELSE Append(line, c)
              [] OTHER -> /\ line' = IF Len(line) < LineMax
                                     THEN Append(line, c) ELSE line
                          /\ UNCHANGED ready
    /\ UNCHANGED <<got, modes>>

\* A read starts with nothing.
StartRead == got' = <<>> /\ UNCHANGED <<typed, line, ready, modes>>

\* A read takes what is ready, in order; it may start and finish at once.
TakeReady ==
    \E k \in 1 .. Len(ready), old \in {<<>>, got} :
        /\ got' = old \o SubSeq(ready, 1, k)
        /\ ready' = SubSeq(ready, k + 1, Len(ready))
        /\ UNCHANGED <<typed, line, modes>>

\* A raw read takes a typed character as it is; the rest of an extended
\* key's characters become ready.
TakeRaw ==
    /\ ready = <<>> /\ typed # <<>>
    /\ got' = Append(got, Head(typed))
    /\ \E k \in 1 .. Len(typed) :
         /\ ready' = SubSeq(typed, 2, k)
         /\ typed' = SubSeq(typed, k + 1, Len(typed))
    /\ UNCHANGED <<line, modes>>

\* Flushing forgets what was typed and not read; the line stays.
FlushInput == typed' = <<>> /\ ready' = <<>> /\ UNCHANGED <<line, got, modes>>

\* The attributes are changed.
SetModes == modes' \subseteq Flags /\ UNCHANGED <<typed, line, ready, got>>

TNext == TypeIn \/ UseChar \/ StartRead \/ TakeReady \/ TakeRaw \/ FlushInput \/ SetModes
TSpec == TInit /\ [][TNext]_tvars
=============================================================================
