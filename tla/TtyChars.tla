------------------------------ MODULE TtyChars ------------------------------
(***************************************************************************)
(* The characters of the console and what the input modes make of them, in *)
(* fill_queue of libc/posix/termios/tmread.c.  The characters are named    *)
(* for what they are: "cr" and "nl" by their names, "bs" the erase, "nak"  *)
(* the kill, "eot" the end-of-file, "etx" the interrupt, "fs" the quit,    *)
(* "dc1" and "dc3" the flow control characters, "sp" the blank, "hi" one   *)
(* with the eighth bit (stripped, it is an "a").                           *)
(***************************************************************************)
EXTENDS Naturals, Sequences

CONSTANTS LineMax,      \* _TTY_EDITLINE_SIZE: a longer line loses its tail
          QueueMax      \* _TTY_QUEUE_SIZE: characters typed ahead and cooked

Chars == {"a", "cr", "nl", "bs", "nak", "eot", "etx", "fs",
          "dc1", "dc3", "hi", "esc", "sp", "nul"}
Flags == {"ICANON", "ISIG", "IGNBRK", "BRKINT", "IXOFF", "IGNCR", "ICRNL",
          "INLCR", "ISTRIP", "ECHO", "ECHOCTL", "ECHOKE", "ECHOK",
          "OPOST", "ONLCR", "OCRNL", "ONOEOT"}

\* The signal characters that fill_queue takes out of the input.
Signalling(m, c) ==
    /\ "ISIG" \in m
    /\ \/ c = "etx" /\ "IGNBRK" \notin m /\ "BRKINT" \in m
       \/ c = "fs"

\* The characters that never reach the line or the queue.
Dropped(m, c) ==
    \/ Signalling(m, c)
    \/ c \in {"dc1", "dc3"} /\ "IXOFF" \in m
    \/ c = "cr" /\ "IGNCR" \in m

\* What a character is once the input modes have been applied.
Mapped(m, c) ==
    CASE c = "etx" /\ {"ISIG", "IGNBRK", "BRKINT"} \cap m = {"ISIG"} -> "nul"
      [] c = "cr" /\ "ICRNL" \in m -> "nl"
      [] c = "nl" /\ "INLCR" \in m -> "cr"
      [] c = "hi" /\ "ISTRIP" \in m -> "a"
      [] OTHER -> c
=============================================================================
