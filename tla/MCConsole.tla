----------------------------- MODULE MCConsole -----------------------------
(* The commands sent in the checks of Console. *)
EXTENDS Console

Plain(cmd) == {[cmd |-> cmd, ps |-> ps] : ps \in {<<>>, <<1>>, <<2>>}}
TheCommands ==
    UNION {Plain(cmd) : cmd \in {"A", "B", "C", "D", "E", "F", "G", "d", "I", "Z",
                                 "J", "K", "L", "M", "S", "T", "@", "P", "X"}}
    \cup {[cmd |-> "H", ps |-> ps] : ps \in {<<>>, <<2>>, <<2, 3>>, <<12, 4>>}}
    \cup {[cmd |-> "m", ps |-> ps] : ps \in {<<>>, <<0>>, <<5>>, <<8>>, <<25>>, <<30>>, <<1>>, <<34, 44>>, <<40, 37>>, <<7>>}}
    \cup {[cmd |-> "v", ps |-> ps] : ps \in {<<1>>, <<2>>}}
=============================================================================
