------------------------------- MODULE MCStdio -------------------------------
(* Small files and writes for Stdio.                                        *)
EXTENDS Stdio

FiveBytes == {<<"a", "b", "c", "d", "e">>}
ShortWrites == {<<"x">>, <<"n">>, <<"x", "n", "y">>}
=============================================================================
