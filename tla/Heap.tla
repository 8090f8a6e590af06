--------------------------------- MODULE Heap ---------------------------------
(***************************************************************************)
(* What malloc, free and realloc promise (ansi/stdlib/nmalloc.txh): the    *)
(* blocks a program holds are aligned, large enough, never overlap, and    *)
(* realloc keeps what was stored in them.                                  *)
(***************************************************************************)
EXTENDS Naturals

CONSTANTS Pointers, Sizes

VARIABLE live   \* the blocks the program holds: pointer to [size, intact]

Blocks == [size : Sizes, intact : BOOLEAN]

Apart(p, n, q, k) == p + n <= q \/ q + k <= p

\* A block of n bytes at p touches no other block than the ones in `but'.
Available(p, n, but) ==
  \A q \in DOMAIN live \ but : Apart(p, n, q, live[q].size)

Drop(p) == [q \in DOMAIN live \ {p} |-> live[q]]
Put(f, p, b) == [q \in DOMAIN f \cup {p} |-> IF q = p THEN b ELSE f[q]]

Init == live = [p \in {} |-> {}]

Malloc(p, n) ==
  /\ p \in Pointers /\ n \in Sizes
  /\ Available(p, n, {})
  /\ live' = Put(live, p, [size |-> n, intact |-> TRUE])

Free(p) == live' = Drop(p)

\* The block may move; its contents do not change.
Realloc(p, q, n) ==
  /\ q \in Pointers /\ n \in Sizes
  /\ Available(q, n, {p})
  /\ live' = Put(Drop(p), q, [size |-> n, intact |-> live[p].intact])

Next ==
  \/ \E p \in DOMAIN live' : Malloc(p, live'[p].size)
  \/ \E p \in DOMAIN live : Free(p)
  \/ \E p \in DOMAIN live, q \in DOMAIN live' : Realloc(p, q, live'[q].size)

Spec == Init /\ [][Next]_live

=============================================================================
