----------------------------- MODULE MCTermios -----------------------------
(* Attribute sets for the checks of Termios: the default with flow control, one
   that does not wait for the line, and one that echoes without ECHOCTL. *)
EXTENDS Termios

Cooked == {"ICANON", "ISIG", "BRKINT", "ICRNL", "IXOFF", "ECHO", "ECHOCTL", "ECHOKE",
           "OPOST", "ONLCR", "ONOEOT"}
Plain == {"ICANON", "ECHO", "ECHOKE", "OPOST", "ONLCR"}
TheAttributes == {Cooked, {"ISIG", "IGNBRK", "ISTRIP", "ICRNL"}, Plain}
=============================================================================
