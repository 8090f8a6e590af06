-------------------------------- MODULE MCExec --------------------------------
(* A small world for Exec: "g" is a DJGPP program, "s" a script, "x", "w" and *)
(* "t" are an old and a Windows executable and a batch file, "r" is a command *)
(* system does itself, "q" is not on the PATH.                                *)
EXTENDS Exec, TLC

MCPrograms == (<<"g">> :> "djgpp") @@ (<<"s">> :> "script") @@ (<<"x">> :> "exe")
              @@ (<<"w">> :> "pe") @@ (<<"t">> :> "bat") @@ (<<"r">> :> "null")
              @@ (<<>> :> "missing")
MCResponses == <<"f">> :> [text |-> <<"a", "sp", "dq", "sp", "dq", "sp", "star">>,
                           words |-> <<<<"a">>, <<"dq", "sp", "dq">>, <<"star">>>>]
MCTmpNames == {<<"tmp", n>> : n \in {"1", "2", "3", "4", "5", "6", "7", "8"}}
MCMatches == <<<<"a">>, <<"b">>>>

\* Arguments one character longer than a tail, and than CMDLINE.
Long(n) == [i \in 1..n |-> "a"]
MCSpawnArgs == {<<>>, <<<<"at", "f">>>>, <<<<"a", "sp", "dq">>, <<"bs", "sq">>>>, <<<<"star">>, <<>>>>,
                <<<<"dq", "bar", "dq">>>>, <<<<"gt">>>>,
                <<Long(CMDLEN_LIMIT)>>, <<Long(CMDLINE_MAX)>>}
MCTexts == {<<<<"star">>, <<"dq", "sp", "dq">>>>, <<Long(CMDLEN_LIMIT)>>}

\* Every short word, bare and in quotes, and lines of two commands.
Chars == {"a", "sp", "dq", "sq", "bs"}
Words == BoundedSeq(Chars, 2)
         \cup {<<"dq">> \o w \o <<"dq">> : w \in BoundedSeq(Chars, 2)}
         \cup {<<"sq">> \o w \o <<"sq">> : w \in BoundedSeq(Chars, 1)}
First == {<<"g">>, <<"x", "gt", "f">>, <<"q">>}
Second == {<<"g">>, <<"r", "sp", "lt", "f">>, <<"dq", "dq">>}
MCLines == {<<"g", "sp">> \o w : w \in Words}
           \cup {a \o <<"bar">> \o b : a \in First, b \in Second}
           \cup {a \o <<"semi">> \o b : a \in {<<"x", "gt", "f">>}, b \in Second}
           \cup {<<"r", "bar", "r", "bar", "g">>, <<"g", "gt", "gt", "f">>, <<>>,
                 <<"g", "sp", "star", "sp", "dq", "star", "dq">>, <<"g", "sp", "at", "f">>,
                 <<"g", "sp", "dq", "at", "f", "star", "dq">>, <<"s", "sp", "a">>, <<"t", "sp", "a">>}
           \cup {<<p, "sp">> \o Long(CMDLEN_LIMIT) : p \in {"g", "w", "q"}}

\* A command for popen; it succeeds, fails, or fails after its first half.
MCPipeLines == {<<"g", "bar", "r">>}
=============================================================================
