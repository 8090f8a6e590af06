------------------------------ MODULE ExecProofs ------------------------------
EXTENDS Exec, SequenceTheorems, TLAPS

(***************************************************************************)
(* The invariant.                                                          *)
(***************************************************************************)

\* The fields of a program, and what those that steer it can be.
Fields == {"kind", "pc", "text", "ref", "proxy", "cmdline", "argv", "want", "std", "home",
           "held", "sel", "in_system", "sys", "e2big", "pipe", "pipes"}
SysFields == {"line", "at", "prog", "words", "f_in", "f_out", "rm_in", "rm_out", "bak",
              "sep", "result", "script"}
PipeFields == {"op", "mode", "name", "line", "bak"}
HasFields(r, S) == r = [f \in S |-> r[f]]
IsPair(h) == h = <<h[1], h[2]>>
Shaped(p) ==
  /\ HasFields(p, Fields) /\ HasFields(p.sys, SysFields) /\ IsPair(p.std) /\ IsPair(p.home)
  /\ p.pc \in {"start", "run", "call", "sys", "go", "back", "child"}
  /\ p.sel \in 0..2 /\ p.sys.result \in {-1, 0, 1}
  /\ {p.held, p.in_system, p.sys.rm_in, p.sys.rm_out} \subseteq BOOLEAN

\* The call of popen or pclose p is in, and what it saved.
PipeOK(p) ==
  /\ p.pipe = NoPipe \/ p.pipe.op \in {"popen", "pclose"}
  /\ p.pipe.op = "popen" => p.pipe.bak = p.home[2]
  /\ p.pipe.op = "pclose" => p.pipe.bak = p.home[1]
  /\ p.pipe.op # "none" => p.pipe.name # NoName
  /\ \A x \in p.pipes \cup {p.pipe} : HasFields(x, PipeFields)

\* stdin and stdout while no command of system is redirected.
Expected(p) == <<IF p.pipe.op = "pclose" THEN p.pipe.name ELSE p.home[1],
                 IF p.pipe.op = "popen" THEN p.pipe.name ELSE p.home[2]>>

\* r: a command of system is redirected.
HandlesOK(p, r) ==
  /\ NoName \notin {p.std[1], p.std[2], p.home[1], p.home[2]}
  /\ r => /\ p.sys.bak = Expected(p)
          /\ p.sys.f_in = NoName => p.std[1] = Expected(p)[1]
          /\ p.sys.f_out = NoName => p.std[2] = Expected(p)[2]
          /\ p.sys.f_out # NoName => ~p.held
  /\ ~r => p.std = Expected(p)
  /\ p.held => p.std[2] = p.home[2]

\* The temporary files that system removes.
SysOK(p, r) ==
  /\ (~r /\ p.pc # "sys") => ~p.sys.rm_in
  /\ p.sys.rm_out = (r /\ p.sys.sep = "PIPE")
  /\ p.sys.rm_in => p.sys.f_in # NoName
  /\ p.sys.rm_out => p.sys.f_out # NoName

\* The files a program is to remove: those of its pipes, of the call of popen or
\* pclose it is in, the ends of a pipe of system, and a shell's script.
Names(p) == {x.name : x \in p.pipes}
Call(p) == IF p.pipe.op = "none" THEN {} ELSE {p.pipe.name}
Input(p) == IF p.sys.rm_in THEN {p.sys.f_in} ELSE {}
Output(p) == IF p.sys.rm_out THEN {p.sys.f_out} ELSE {}
Script(p) == {p.sys.script} \ {NoName}
Owned(p) == Names(p) \cup Call(p) \cup Input(p) \cup Output(p) \cup Script(p)

\* Each of them for one reason.
OneReason(p) ==
  /\ \A x, y \in p.pipes : x.name = y.name => x = y
  /\ Names(p) \cap Call(p) = {} /\ Names(p) \cap Input(p) = {}
  /\ Names(p) \cap Output(p) = {} /\ Names(p) \cap Script(p) = {}
  /\ Call(p) \cap Input(p) = {} /\ Call(p) \cap Output(p) = {} /\ Call(p) \cap Script(p) = {}
  /\ Input(p) \cap Output(p) = {} /\ Input(p) \cap Script(p) = {}
  /\ Output(p) \cap Script(p) = {}

Redirecting(p) == p.pc \in {"go", "back"} \/ (p.pc = "child" /\ p.in_system)
ProgramOK(p) ==
  /\ Shaped(p) /\ PipeOK(p) /\ OneReason(p)
  /\ HandlesOK(p, Redirecting(p)) /\ SysOK(p, Redirecting(p))
  /\ p.in_system => p.pc \in {"child", "back"}
  /\ p.pc # "child" => p.sys.script = NoName

\* The stack is a sequence of programs that wait, with one on top that runs.
IsStack(P) ==
  /\ Len(P) \in Nat \ {0}
  /\ P = [l \in 1..Len(P) |-> P[l]]
Waiting(P) == \A l \in 1..Len(P) : (P[l].pc = "child") = (l < Len(P))

\* A pipe that could not be made is not there.
Unmade(p) == IF p.pc = "back" /\ p.sys.result < 0 THEN Output(p) ELSE {}

\* The temporary files are those that one program is to remove, and the strays.
FilesOK(P, t, s) ==
  /\ \A l, m \in 1..Len(P) : l # m => Owned(P[l]) \cap Owned(P[m]) = {}
  /\ \A l \in 1..Len(P) : Owned(P[l]) \cap s = {}
  /\ s \subseteq t /\ NoName \notin t
  /\ \A l \in 1..Len(P) : Owned(P[l]) \ Unmade(P[l]) \subseteq t
  /\ \A n \in t : n \in s \/ \E l \in 1..Len(P) : n \in Owned(P[l])

BlocksOK(P, d) == d = {<<l, P[l].sel>> : l \in {k \in 1..Len(P) : P[k].sel # 0}}

IInv ==
  /\ IsStack(procs) /\ Waiting(procs)
  /\ \A l \in 1..Len(procs) : ProgramOK(procs[l])
  /\ BlocksOK(procs, dos)
  /\ FilesOK(procs, temps, strays)
  /\ ~misplaced
-----------------------------------------------------------------------------
(* The stack.                                                               *)

\* The one on top becomes q.
Topped(P, Q, q) ==
  /\ IsStack(Q) /\ Len(Q) = Len(P)
  /\ Q[Len(P)] = q
  /\ \A l \in 1..(Len(P) - 1) : Q[l] = P[l]
LEMMA TopOf ==
  ASSUME NEW P, IsStack(P), NEW q
  PROVE  Topped(P, [P EXCEPT ![Len(P)] = q], q)
  <1> DEFINE n == Len(P)
             Q == [P EXCEPT ![n] = q]
             X == {P[l] : l \in 1..n} \cup {q}
  <1>1. n \in Nat \ {0} /\ P = [l \in 1..n |-> P[l]]
    BY DEF IsStack
  <1>2. P \in [1..n -> X]
    BY <1>1
  <1>3. Q \in [1..n -> X]
    BY <1>2
  <1>4. Q \in Seq(X) /\ Len(Q) = n
    BY <1>1, <1>3, LenProperties, SeqDef
  <1>5. Q[n] = q /\ \A l \in 1..(n - 1) : Q[l] = P[l]
    BY <1>1, <1>2
  <1>6. Q = [l \in 1..n |-> Q[l]]
    BY <1>3
  <1> QED
    BY <1>1, <1>4, <1>5, <1>6 DEF IsStack, Topped

\* It becomes q, and c is put on top of it.
Pushed(P, Q, q, c) ==
  /\ IsStack(Q) /\ Len(Q) = Len(P) + 1
  /\ Q[Len(P) + 1] = c /\ Q[Len(P)] = q
  /\ \A l \in 1..(Len(P) - 1) : Q[l] = P[l]
Appended(P, Q, c) ==
  /\ IsStack(Q) /\ Len(Q) = Len(P) + 1
  /\ Q[Len(P) + 1] = c
  /\ \A l \in 1..Len(P) : Q[l] = P[l]
LEMMA AppendOn ==
  ASSUME NEW P, IsStack(P), NEW c
  PROVE  Appended(P, Append(P, c), c)
  <1> DEFINE n == Len(P)
             Q == Append(P, c)
             X == {P[l] : l \in 1..n} \cup {c}
  <1>1. n \in Nat \ {0} /\ P = [l \in 1..n |-> P[l]]
    BY DEF IsStack
  <1>2. P \in Seq(X)
    BY <1>1, SeqDef
  <1>3. Q \in Seq(X) /\ Len(Q) = n + 1 /\ Q[n + 1] = c /\ \A l \in 1..n : Q[l] = P[l]
    BY <1>2, AppendProperties
  <1>4. Q = [l \in 1..Len(Q) |-> Q[l]]
    BY <1>3, LenProperties
  <1> QED
    BY <1>1, <1>3, <1>4 DEF IsStack, Appended

LEMMA PushOn ==
  ASSUME NEW P, IsStack(P), NEW q, NEW c
  PROVE  Pushed(P, Append([P EXCEPT ![Len(P)] = q], c), q, c)
  <1>1. PICK M : M = [P EXCEPT ![Len(P)] = q]
    OBVIOUS
  <1>2. Topped(P, M, q)
    BY <1>1, TopOf
  <1>3. PICK Q : Q = Append(M, c)
    OBVIOUS
  <1>4. /\ IsStack(Q) /\ Len(Q) = Len(M) + 1 /\ Q[Len(M) + 1] = c
        /\ \A l \in 1..Len(M) : Q[l] = M[l]
    <2>1. IsStack(M)
      BY <1>2 DEF Topped
    <2> QED
      <3>1. Appended(M, Append(M, c), c)
        BY <2>1, AppendOn
      <3> QED
        BY <1>3, <3>1 DEF Appended
  <1>5. Len(P) \in Nat \ {0} /\ Len(M) = Len(P)
    BY <1>2 DEF Topped, IsStack
  <1>6. Pushed(P, Q, q, c)
    <2>1. Len(P) \in 1..Len(M) /\ \A l \in 1..(Len(P) - 1) : l \in 1..Len(M)
      BY <1>5
    <2> QED
      BY <1>2, <1>4, <1>5, <2>1 DEF Topped, Pushed
  <1> QED
    BY <1>1, <1>3, <1>6

\* The one on top goes, and the one below it becomes q.
Popped(P, Q, q) ==
  /\ IsStack(Q) /\ Len(Q) = Len(P) - 1
  /\ Q[Len(P) - 1] = q
  /\ \A l \in 1..(Len(P) - 2) : Q[l] = P[l]
LEMMA PopOff ==
  ASSUME NEW P, IsStack(P), Len(P) > 1, NEW q
  PROVE  Popped(P, Append(SubSeq(P, 1, Len(P) - 2), q), q)
  <1> DEFINE n == Len(P)
             S == SubSeq(P, 1, n - 2)
             Q == Append(S, q)
             X == {P[l] : l \in 1..n} \cup {q}
  <1>1. n \in Nat \ {0} /\ P = [l \in 1..n |-> P[l]]
    BY DEF IsStack
  <1>2. P \in Seq(X)
    BY <1>1, SeqDef
  <1>3. S \in Seq(X) /\ Len(S) = n - 2 /\ \A l \in 1..(n - 2) : S[l] = P[l]
    <2>1. n - 2 \in 0..n
      BY <1>1
    <2>2. S = [l \in 1..(n - 2) |-> P[l]]
      BY <1>1, <1>2, <2>1
    <2> QED
      BY <1>1, <2>1, <2>2, SeqDef, LenProperties
  <1>4. Q \in Seq(X) /\ Len(Q) = n - 1 /\ Q[n - 1] = q /\ \A l \in 1..(n - 2) : Q[l] = P[l]
    BY <1>1, <1>3, AppendProperties
  <1>5. Q = [l \in 1..Len(Q) |-> Q[l]]
    BY <1>4, LenProperties
  <1> QED
    BY <1>1, <1>4, <1>5 DEF IsStack, Popped
-----------------------------------------------------------------------------
(* Files and blocks.                                                        *)

\* The one on top of P changes, and one without files and blocks may come on top of it.
Grown(P, Q) ==
  /\ IsStack(Q) /\ Len(Q) \in {Len(P), Len(P) + 1}
  /\ \A l \in 1..(Len(P) - 1) : Q[l] = P[l]
  /\ Len(Q) = Len(P) + 1 => Owned(Q[Len(Q)]) = {} /\ Q[Len(Q)].sel = 0

\* p becomes q and gives up the files R, of which T become strays, and gets A; the
\* files t and strays s become u and v.
FilesMove(p, q, R, A, T, t, s, u, v) ==
  /\ Owned(q) = (Owned(p) \ R) \cup A /\ R \subseteq Owned(p) /\ A \cap t = {}
  /\ T \subseteq R /\ T \subseteq t /\ v = s \cup T /\ NoName \notin u
  /\ t \ (R \ T) \subseteq u /\ u \subseteq (t \ (R \ T)) \cup A
  /\ A \ Unmade(q) \subseteq u /\ Unmade(p) \subseteq R \cup Unmade(q)

LEMMA FilesStep ==
  ASSUME NEW P, IsStack(P), Waiting(P), NEW t, NEW s, FilesOK(P, t, s),
         NEW Q, Grown(P, Q), NEW R, NEW A, NEW T, NEW u, NEW v,
         FilesMove(P[Len(P)], Q[Len(P)], R, A, T, t, s, u, v)
  PROVE  FilesOK(Q, u, v)
  <1> DEFINE n == Len(P)
  <1>p. PICK p : p = P[n]
    OBVIOUS
  <1>q. PICK q : q = Q[n]
    OBVIOUS
  <1>0. /\ IsStack(Q) /\ Len(Q) \in {n, n + 1}
        /\ \A l \in 1..(n - 1) : Q[l] = P[l]
        /\ Len(Q) = n + 1 => Owned(Q[Len(Q)]) = {}
    BY DEF Grown
  <1>01. /\ Owned(q) = (Owned(p) \ R) \cup A /\ R \subseteq Owned(p) /\ A \cap t = {}
         /\ T \subseteq R /\ T \subseteq t /\ v = s \cup T /\ NoName \notin u
         /\ t \ (R \ T) \subseteq u /\ u \subseteq (t \ (R \ T)) \cup A
         /\ A \ Unmade(q) \subseteq u /\ Unmade(p) \subseteq R \cup Unmade(q)
    BY <1>p, <1>q DEF FilesMove
  <1> USE <1>p, <1>q, <1>0, <1>01
  <1>1. n \in Nat \ {0} /\ Len(Q) \in Nat \ {0}
    BY <1>0 DEF IsStack
  <1>2. \A l \in 1..(n - 1) : Owned(P[l]) \subseteq t
    <2> SUFFICES ASSUME NEW l \in 1..(n - 1) PROVE Owned(P[l]) \subseteq t
      OBVIOUS
    <2>1. l \in 1..n /\ l < n
      BY <1>1
    <2>2. P[l].pc = "child"
      BY <2>1 DEF Waiting
    <2>3. Unmade(P[l]) = {}
      BY <2>2 DEF Unmade
    <2>4. Owned(P[l]) \ Unmade(P[l]) \subseteq t
      BY <2>1 DEF FilesOK
    <2> QED
      BY <2>3, <2>4
  <1>3. /\ \A l, m \in 1..n : l # m => Owned(P[l]) \cap Owned(P[m]) = {}
        /\ \A l \in 1..n : Owned(P[l]) \cap s = {}
        /\ s \subseteq t
        /\ \A l \in 1..n : Owned(P[l]) \ Unmade(P[l]) \subseteq t
        /\ \A x \in t : x \in s \/ \E l \in 1..n : x \in Owned(P[l])
    BY DEF FilesOK
  <1>4. n \in 1..n /\ \A l \in 1..(n - 1) : l \in 1..n /\ l # n
    BY <1>1
  <1>5. ASSUME NEW l \in 1..Len(Q)
        PROVE  l \in 1..(n - 1) \/ l = n \/ (Owned(Q[l]) = {} /\ l = n + 1)
    <2>1. l \in 1..(n - 1) \/ l = n \/ (l = n + 1 /\ Len(Q) = n + 1)
      BY <1>1
    <2> QED
      BY <2>1
  <1>6. \A l \in 1..(n - 1) : Owned(Q[l]) = Owned(P[l])
    OBVIOUS
  <1>7. \A l \in 1..(n - 1) : Owned(P[l]) \cap Owned(q) = {}
    BY <1>2, <1>3, <1>4
  <1>8. ASSUME NEW l \in 1..Len(Q), NEW m \in 1..Len(Q), l # m
        PROVE  Owned(Q[l]) \cap Owned(Q[m]) = {}
    <2>1. \A k \in 1..(n - 1) : Owned(Q[k]) \cap Owned(Q[n]) = {}
      BY <1>6, <1>7
    <2>2. CASE l \in 1..(n - 1) /\ m \in 1..(n - 1)
      <3>1. l \in 1..n /\ m \in 1..n
        BY <1>4, <2>2
      <3>2. Owned(P[l]) \cap Owned(P[m]) = {}
        BY <1>3, <1>8, <3>1
      <3> QED
        BY <1>6, <2>2, <3>2
    <2>3. CASE l = n /\ m \in 1..(n - 1)
      BY <2>1, <2>3
    <2>4. CASE m = n /\ l \in 1..(n - 1)
      BY <2>1, <2>4
    <2>5. CASE Owned(Q[l]) = {} \/ Owned(Q[m]) = {}
      BY <2>5
    <2> QED
      BY <1>5, <1>8, <2>2, <2>3, <2>4, <2>5
  <1>9. ASSUME NEW l \in 1..Len(Q)
        PROVE  Owned(Q[l]) \cap v = {}
    <2>1. CASE l \in 1..(n - 1)
      <3>1. Owned(P[l]) \cap s = {} /\ Owned(P[l]) \cap Owned(p) = {}
        BY <1>3, <1>4, <2>1
      <3> QED
        BY <1>6, <2>1, <3>1
    <2>2. CASE l = n
      <3>1. Owned(p) \cap s = {} /\ s \subseteq t
        BY <1>3, <1>4
      <3> QED
        BY <2>2, <3>1
    <2> QED
      BY <1>5, <2>1, <2>2
  <1>10. v \subseteq u
    <2>1. s \cap R = {} /\ s \subseteq t
      BY <1>3, <1>4
    <2> QED
      BY <2>1
  <1>11. ASSUME NEW l \in 1..Len(Q)
         PROVE  Owned(Q[l]) \ Unmade(Q[l]) \subseteq u
    <2>1. CASE l \in 1..(n - 1)
      <3>1. Owned(P[l]) \subseteq t /\ Owned(P[l]) \cap Owned(p) = {}
        BY <1>2, <1>3, <1>4, <2>1
      <3> QED
        BY <1>6, <2>1, <3>1
    <2>2. CASE l = n
      <3>1. Owned(p) \ Unmade(p) \subseteq t
        BY <1>3, <1>4
      <3>2. (Owned(p) \ R) \ Unmade(q) \subseteq t \ R
        BY <3>1
      <3> QED
        BY <2>2, <3>2
    <2> QED
      BY <1>5, <2>1, <2>2
  <1>12. ASSUME NEW x \in u
         PROVE  x \in v \/ \E l \in 1..Len(Q) : x \in Owned(Q[l])
    <2>1. \A l \in 1..n : l \in 1..Len(Q)
      BY <1>1
    <2>2. CASE x \in A
      BY <1>4, <2>1, <2>2
    <2>3. CASE x \in t /\ x \notin R \ T
      <3>1. x \in s \/ \E l \in 1..n : x \in Owned(P[l])
        BY <1>3, <2>3
      <3>2. CASE x \in s
        BY <3>2
      <3>3. ASSUME NEW l \in 1..n, x \in Owned(P[l])
            PROVE  x \in v \/ \E k \in 1..Len(Q) : x \in Owned(Q[k])
        <4>1. CASE l \in 1..(n - 1)
          BY <1>6, <2>1, <3>3, <4>1
        <4>2. CASE l = n
          BY <2>1, <2>3, <3>3, <4>2
        <4> QED
          BY <1>1, <4>1, <4>2
      <3> QED
        BY <3>1, <3>2, <3>3
    <2> QED
      BY <2>2, <2>3
  <1> QED
    BY <1>8, <1>9, <1>10, <1>11, <1>12 DEF FilesOK

\* The block of the program on top, if it has one; d are all blocks, s its own.
Rest(P, d) == {b \in d : b[1] # Len(P)}
OwnBlock(P, s) == IF s = 0 THEN {} ELSE {<<Len(P), s>>}

LEMMA BlocksOf ==
  ASSUME NEW P, IsStack(P), NEW d, BlocksOK(P, d)
  PROVE  /\ d = Rest(P, d) \cup OwnBlock(P, P[Len(P)].sel)
         /\ Rest(P, d) = {<<l, P[l].sel>> : l \in {k \in 1..(Len(P) - 1) : P[k].sel # 0}}
  <1> DEFINE n == Len(P)
             L == {<<l, P[l].sel>> : l \in {k \in 1..(n - 1) : P[k].sel # 0}}
  <1>1. n \in Nat \ {0}
    BY DEF IsStack
  <1>2. d = L \cup OwnBlock(P, P[n].sel)
    BY <1>1 DEF BlocksOK, OwnBlock
  <1>3. \A b \in L : b[1] # n
    BY <1>1
  <1>4. \A b \in OwnBlock(P, P[n].sel) : b[1] = n
    BY DEF OwnBlock
  <1> QED
    BY <1>2, <1>3, <1>4 DEF Rest

\* The program on top has block s now; a program put on top of it has none.
LEMMA BlocksStep ==
  ASSUME NEW P, IsStack(P), NEW d, BlocksOK(P, d),
         NEW Q, Grown(P, Q), NEW e, e = Rest(P, d) \cup OwnBlock(P, Q[Len(P)].sel)
  PROVE  BlocksOK(Q, e)
  <1> DEFINE n == Len(P)
             K == {k \in 1..Len(Q) : Q[k].sel # 0}
             J == {k \in 1..(n - 1) : P[k].sel # 0}
             N == IF Q[n].sel # 0 THEN {n} ELSE {}
  <1>1. n \in Nat \ {0} /\ Len(Q) \in Nat
    BY DEF IsStack, Grown
  <1>2. K = J \cup N
    BY <1>1 DEF Grown
  <1>3. Rest(P, d) = {<<l, P[l].sel>> : l \in J}
    BY BlocksOf
  <1>4. {<<l, P[l].sel>> : l \in J} = {<<l, Q[l].sel>> : l \in J}
    BY DEF Grown
  <1>5. OwnBlock(P, Q[n].sel) = {<<l, Q[l].sel>> : l \in N}
    BY DEF OwnBlock
  <1>6. e = {<<l, Q[l].sel>> : l \in K}
    BY <1>2, <1>3, <1>4, <1>5
  <1> QED
    BY <1>6 DEF BlocksOK
-----------------------------------------------------------------------------
(* A step of the program on top.                                            *)

\* p becomes q, and the files change accordingly.
Moves(p, q, R, A, T) == FilesMove(p, q, R, A, T, temps, strays, temps', strays')

\* Files stay as they are.
LEMMA NoMove ==
  ASSUME NEW p, NEW q, Owned(q) = Owned(p), Unmade(p) \subseteq Unmade(q), NoName \notin temps,
         UNCHANGED <<temps, strays>>
  PROVE  Moves(p, q, {}, {}, {})
  BY DEF Moves, FilesMove

LEMMA TopStep ==
  ASSUME IInv, NEW q, NEW R, NEW A, NEW T, Moves(procs[Len(procs)], q, R, A, T),
         Topped(procs, procs', q), ProgramOK(q), q.pc # "child",
         dos' = Rest(procs, dos) \cup OwnBlock(procs, q.sel), ~misplaced'
  PROVE  IInv'
  <1> DEFINE P == procs
             n == Len(procs)
             Q == procs'
  <1>1. /\ IsStack(P) /\ Waiting(P) /\ BlocksOK(P, dos) /\ FilesOK(P, temps, strays)
        /\ \A l \in 1..n : ProgramOK(P[l])
    BY DEF IInv
  <1>2. n \in Nat \ {0}
    BY <1>1 DEF IsStack
  <1>3. /\ IsStack(Q) /\ Len(Q) = n /\ Q[n] = q
        /\ \A l \in 1..(n - 1) : Q[l] = P[l]
    BY DEF Topped
  <1>4. Grown(P, Q)
    BY <1>2, <1>3 DEF Grown
  <1>5. Waiting(Q)
    BY <1>1, <1>2, <1>3 DEF Waiting
  <1>6. \A l \in 1..n : ProgramOK(Q[l])
    BY <1>1, <1>2, <1>3
  <1>7. BlocksOK(Q, dos')
    BY <1>1, <1>3, <1>4, BlocksStep
  <1>8. FilesMove(P[n], Q[n], R, A, T, temps, strays, temps', strays')
    BY <1>3 DEF Moves
  <1>9. FilesOK(Q, temps', strays')
    <2> HIDE DEF P, Q
    <2> QED
      BY <1>1, <1>4, <1>8, FilesStep DEF n, P
  <1> QED
    BY <1>3, <1>5, <1>6, <1>7, <1>9 DEF IInv

LEMMA PushStep ==
  ASSUME IInv, NEW q, NEW c, NEW R, NEW A, NEW T, Moves(procs[Len(procs)], q, R, A, T),
         Pushed(procs, procs', q, c), ProgramOK(q), q.pc = "child",
         ProgramOK(c), c.pc # "child", Owned(c) = {}, c.sel = 0,
         dos' = Rest(procs, dos) \cup OwnBlock(procs, q.sel), ~misplaced'
  PROVE  IInv'
  <1> DEFINE P == procs
             n == Len(procs)
             Q == procs'
  <1>1. /\ IsStack(P) /\ Waiting(P) /\ BlocksOK(P, dos) /\ FilesOK(P, temps, strays)
        /\ \A l \in 1..n : ProgramOK(P[l])
    BY DEF IInv
  <1>2. n \in Nat \ {0}
    BY <1>1 DEF IsStack
  <1>3. /\ IsStack(Q) /\ Len(Q) = n + 1 /\ Q[n + 1] = c /\ Q[n] = q
        /\ \A l \in 1..(n - 1) : Q[l] = P[l]
    BY DEF Pushed
  <1>4. Grown(P, Q)
    BY <1>2, <1>3 DEF Grown
  <1>5. Waiting(Q)
    <2> SUFFICES ASSUME NEW l \in 1..(n + 1)
                 PROVE  (Q[l].pc = "child") = (l < n + 1)
      BY <1>3 DEF Waiting
    <2>1. CASE l = n + 1
      BY <1>2, <1>3, <2>1
    <2>2. CASE l = n
      BY <1>2, <1>3, <2>2
    <2>3. CASE l \in 1..(n - 1)
      <3>1. l \in 1..n /\ l < n /\ l < n + 1
        BY <1>2, <2>3
      <3> QED
        BY <1>1, <1>3, <2>3, <3>1 DEF Waiting
    <2> QED
      BY <1>2, <2>1, <2>2, <2>3
  <1>6. \A l \in 1..(n + 1) : ProgramOK(Q[l])
    BY <1>1, <1>2, <1>3
  <1>7. BlocksOK(Q, dos')
    BY <1>1, <1>3, <1>4, BlocksStep
  <1>8. FilesMove(P[n], Q[n], R, A, T, temps, strays, temps', strays')
    BY <1>3 DEF Moves
  <1>9. FilesOK(Q, temps', strays')
    <2> HIDE DEF P, Q
    <2> QED
      BY <1>1, <1>4, <1>8, FilesStep DEF n, P
  <1> QED
    BY <1>3, <1>5, <1>6, <1>7, <1>9 DEF IInv
-----------------------------------------------------------------------------
(* Programs that start programs.                                            *)

\* A program that has not begun, with handles std.
Newborn(c, std) ==
  /\ Shaped(c) /\ c.pc = "start" /\ c.std = std /\ c.home = std /\ c.held = FALSE
  /\ c.sel = 0 /\ c.in_system = FALSE /\ c.sys = NoSys /\ c.pipe = NoPipe /\ c.pipes = {}

LEMMA NewProgram ==
  ASSUME NEW kind, NEW text, NEW ref, NEW proxy, NEW cmdline, NEW want, NEW std,
         IsPair(std)
  PROVE  Newborn(Program(kind, text, ref, proxy, cmdline, want, std), std)
  <1>1. PICK c : c = Program(kind, text, ref, proxy, cmdline, want, std)
    OBVIOUS
  <1>2. HasFields(c, Fields)
    BY <1>1 DEF Program, Fields, HasFields
  <1>3. /\ c.pc = "start" /\ c.std = std /\ c.home = std /\ c.held = FALSE
        /\ c.sel = 0 /\ c.in_system = FALSE /\ c.sys = NoSys /\ c.pipe = NoPipe /\ c.pipes = {}
    BY <1>1 DEF Program
  <1>4. /\ HasFields(NoSys, SysFields) /\ NoSys.result = 0
        /\ NoSys.rm_in = FALSE /\ NoSys.rm_out = FALSE
    BY DEF NoSys, SysFields, HasFields
  <1>5. Shaped(c)
    <2>1. HasFields(c.sys, SysFields)
      BY <1>3, <1>4, Zenon
    <2>2. c.sys.result = 0 /\ c.sys.rm_in = FALSE /\ c.sys.rm_out = FALSE
      BY <1>3, <1>4
    <2>3. IsPair(c.std) /\ IsPair(c.home)
      BY <1>3, Zenon
    <2>4. /\ c.pc \in {"start", "run", "call", "sys", "go", "back", "child"}
          /\ c.sel \in 0..2 /\ c.sys.result \in {-1, 0, 1}
      BY <1>3, <2>2
    <2>5. {c.held, c.in_system, c.sys.rm_in, c.sys.rm_out} \subseteq BOOLEAN
      BY <1>3, <2>2, Zenon
    <2> QED
      BY <1>2, <2>1, <2>3, <2>4, <2>5 DEF Shaped
  <1> QED
    BY <1>1, <1>3, <1>5 DEF Newborn

LEMMA OtherArguments ==
  ASSUME NEW c, NEW std, Newborn(c, std), NEW ref, NEW proxy
  PROVE  Newborn([c EXCEPT !.ref = ref, !.proxy = proxy], std)
  BY DEF Newborn, Shaped, HasFields, Fields, SysFields

LEMMA NewbornOK ==
  ASSUME NEW c, NEW std, Newborn(c, std), NoName \notin {std[1], std[2]}
  PROVE  ProgramOK(c) /\ Owned(c) = {} /\ c.sel = 0 /\ c.pc = "start"
  <1>1. c.sys.rm_in = FALSE /\ c.sys.rm_out = FALSE /\ c.sys.script = NoName /\ c.pipe.op = "none"
    BY DEF Newborn, NoSys, NoPipe
  <1>2. Shaped(c) /\ c.pc = "start" /\ c.std = std /\ c.home = std /\ c.pipes = {}
        /\ c.sel = 0 /\ c.pipe = NoPipe /\ c.held = FALSE /\ c.in_system = FALSE
    BY DEF Newborn
  <1>3. Owned(c) = {} /\ OneReason(c)
    BY <1>1, <1>2 DEF Owned, OneReason, Names, Call, Input, Output, Script
  <1>4. PipeOK(c)
    <2>1. HasFields(NoPipe, PipeFields)
      BY DEF NoPipe, PipeFields, HasFields
    <2>2. \A x \in c.pipes \cup {c.pipe} : x = NoPipe
      BY <1>2
    <2> QED
      BY <1>1, <2>1, <2>2 DEF PipeOK
  <1>5. Redirecting(c) = FALSE
    BY <1>2 DEF Redirecting
  <1>6. HandlesOK(c, FALSE)
    <2>1. std = <<std[1], std[2]>>
      BY <1>2 DEF Shaped, IsPair
    <2> QED
      BY <1>1, <1>2, <2>1 DEF HandlesOK, Expected
  <1>7. SysOK(c, FALSE)
    BY <1>1, <1>2 DEF SysOK
  <1> QED
    BY <1>1, <1>2, <1>3, <1>4, <1>5, <1>6, <1>7 DEF ProgramOK

\* q is p, but for where it is in its call and its block.
Same(p, q) ==
  /\ q.std = p.std /\ q.home = p.home /\ q.held = p.held /\ q.in_system = p.in_system
  /\ q.pipe = p.pipe /\ q.pipes = p.pipes
  /\ q.sys.f_in = p.sys.f_in /\ q.sys.f_out = p.sys.f_out
  /\ q.sys.rm_in = p.sys.rm_in /\ q.sys.rm_out = p.sys.rm_out
  /\ q.sys.bak = p.sys.bak /\ q.sys.sep = p.sys.sep
StoppedAs(p, q, s) ==
  /\ Shaped(q) /\ Same(p, q) /\ q.sel = s
  /\ q.pc = (IF p.in_system THEN "back" ELSE "run")
  /\ q.sys.result = -1 /\ q.sys.script = NoName
WaitsAs(p, q, s) ==
  /\ Shaped(q) /\ Same(p, q) /\ q.sel = s /\ q.pc = "child" /\ q.sys.script = p.sys.script

\* The outcomes of a call that starts a program: it fails, or the program is put
\* on top.  The caller has one block or none.
Stopped(p, s) == \E q : Topped(procs, procs', q) /\ StoppedAs(p, q, s)
Went(p, s) == \E q : \E c : Pushed(procs, procs', q, c) /\ WaitsAs(p, q, s) /\ Newborn(c, p.std)
BlockIs(d, s) == d = Rest(procs, dos) \cup OwnBlock(procs, s)
Ran(p) == \E s \in 0..2 : BlockIs(dos', s) /\ (Stopped(p, s) \/ Went(p, s))

\* The state of the transfer buffer in a call of the program on top.
BufferOK(b) ==
  /\ b = [sel |-> b.sel, blk |-> b.blk, dos |-> b.dos, ok |-> b.ok]
  /\ b.sel \in 0..2 /\ BlockIs(b.dos, b.sel)

LEMMA TallocKeeps ==
  ASSUME NEW b, BufferOK(b), b.ok, NEW d \in check_talloc(b)
  PROVE  BufferOK(d) /\ (~d.ok => d.sel = 0)
  <1>1. /\ b = [sel |-> b.sel, blk |-> b.blk, dos |-> b.dos, ok |-> b.ok]
        /\ b.sel \in 0..2 /\ b.dos = Rest(procs, dos) \cup OwnBlock(procs, b.sel)
    BY DEF BufferOK, BlockIs
  <1>2. b.dos \ {<<Level, b.sel>>} = Rest(procs, dos)
    BY <1>1 DEF Rest, OwnBlock, Level
  <1>3. PICK new : new = CHOOSE n \in 1..2 : n # b.sel
    OBVIOUS
  <1>4. new \in 1..2
    BY <1>1, <1>3
  <1>5. CASE d = b
    BY <1>5
  <1>6. CASE d = Give_up(b)
    <2>1. d = [sel |-> 0, blk |-> 0, dos |-> Rest(procs, dos), ok |-> FALSE]
      BY <1>2, <1>6 DEF Give_up
    <2> QED
      BY <2>1 DEF BufferOK, BlockIs, OwnBlock
  <1>7. CASE d = [b EXCEPT !.sel = new, !.blk = new,
                           !.dos = (@ \ {<<Level, b.sel>>}) \cup {<<Level, new>>}]
    <2>1. d = [sel |-> new, blk |-> new,
               dos |-> (b.dos \ {<<Level, b.sel>>}) \cup {<<Level, new>>}, ok |-> b.ok]
      BY <1>1, <1>7
    <2>2. d.dos = Rest(procs, dos) \cup OwnBlock(procs, new)
      BY <1>2, <1>4, <2>1 DEF OwnBlock, Level
    <2> QED
      BY <1>4, <2>1, <2>2 DEF BufferOK, BlockIs
  <1> QED
    BY <1>3, <1>5, <1>6, <1>7 DEF check_talloc

LEMMA FailedAs ==
  ASSUME NEW p, Shaped(p), NEW s \in 0..2, NEW e
  PROVE  /\ StoppedAs(p, [Failed(p) EXCEPT !.sel = s], s)
         /\ StoppedAs(p, [Failed(p) EXCEPT !.e2big = e], p.sel)
         /\ StoppedAs(p, Failed(p), p.sel)
  <1>1. Shaped(Failed(p)) /\ StoppedAs(p, Failed(p), p.sel)
    BY DEF Shaped, HasFields, Fields, SysFields, Failed, StoppedAs, Same
  <1>2. PICK f : f = Failed(p)
    OBVIOUS
  <1>3. Shaped(f) /\ StoppedAs(p, f, p.sel)
    BY <1>1, <1>2
  <1>4. StoppedAs(p, [f EXCEPT !.sel = s], s)
    BY <1>3 DEF Shaped, HasFields, Fields, SysFields, StoppedAs, Same
  <1>5. StoppedAs(p, [f EXCEPT !.e2big = e], p.sel)
    BY <1>3 DEF Shaped, HasFields, Fields, SysFields, StoppedAs, Same
  <1> QED
    BY <1>1, <1>2, <1>4, <1>5

LEMMA WaitingAs ==
  ASSUME NEW p, Shaped(p), NEW s \in 0..2
  PROVE  WaitsAs(p, [p EXCEPT !.pc = "child", !.sel = s], s)
  BY DEF Shaped, HasFields, Fields, WaitsAs, Same

\* The common end of all ways to start a program.
LEMMA TailRuns ==
  ASSUME IsStack(procs), NEW p, Shaped(p), NEW b, BufferOK(b), b.ok, NEW c, Newborn(c, p.std),
         NEW args, direct_exec_tail(p, b, c, args)
  PROVE  Ran(p)
  <1>1. PICK d \in check_talloc(b) :
          \/ Set([Failed(p) EXCEPT !.sel = 0]) /\ ~d.ok /\ dos' = d.dos
          \/ Set([Failed(p) EXCEPT !.sel = d.sel]) /\ dos' = d.dos
          \/ Set([Failed(p) EXCEPT !.sel = 0]) /\ dos' = d.dos \ {<<Level, d.sel>>}
          \/ /\ procs' = Append([procs EXCEPT ![Level] = [p EXCEPT !.pc = "child", !.sel = d.sel]],
                                [c EXCEPT !.ref = Corrected(@, b, d),
                                          !.proxy = Environment(p, Corrected(@, b, d))])
             /\ dos' = d.dos
    BY DEF direct_exec_tail
  <1>2. BufferOK(d) /\ (~d.ok => d.sel = 0)
    BY <1>1, TallocKeeps
  <1>3. d.sel \in 0..2 /\ BlockIs(d.dos, d.sel)
    BY <1>2 DEF BufferOK
  <1>4. BlockIs(d.dos \ {<<Level, d.sel>>}, 0)
    BY <1>3 DEF BlockIs, Rest, OwnBlock, Level
  <1>5. ASSUME NEW s \in 0..2, Set([Failed(p) EXCEPT !.sel = s]), BlockIs(dos', s)
        PROVE  Ran(p)
    <2>1. PICK q : q = [Failed(p) EXCEPT !.sel = s]
      OBVIOUS
    <2>2. Topped(procs, procs', q)
      BY <1>5, <2>1, TopOf DEF Set, Level
    <2>3. StoppedAs(p, q, s)
      BY <2>1, FailedAs
    <2> QED
      BY <1>5, <2>2, <2>3 DEF Ran, Stopped
  <1>6. CASE Set([Failed(p) EXCEPT !.sel = 0]) /\ ~d.ok /\ dos' = d.dos
    <2>1. BlockIs(dos', 0)
      BY <1>2, <1>3, <1>6
    <2> QED
      BY <1>5, <1>6, <2>1
  <1>7. CASE Set([Failed(p) EXCEPT !.sel = d.sel]) /\ dos' = d.dos
    BY <1>3, <1>5, <1>7
  <1>8. CASE Set([Failed(p) EXCEPT !.sel = 0]) /\ dos' = d.dos \ {<<Level, d.sel>>}
    BY <1>4, <1>5, <1>8
  <1>9. CASE /\ procs' = Append([procs EXCEPT ![Level] = [p EXCEPT !.pc = "child", !.sel = d.sel]],
                                [c EXCEPT !.ref = Corrected(@, b, d),
                                          !.proxy = Environment(p, Corrected(@, b, d))])
             /\ dos' = d.dos
    <2>1. PICK q : q = [p EXCEPT !.pc = "child", !.sel = d.sel]
      OBVIOUS
    <2>2. PICK e : e = [c EXCEPT !.ref = Corrected(@, b, d),
                                 !.proxy = Environment(p, Corrected(@, b, d))]
      OBVIOUS
    <2>3. Newborn(e, p.std)
      BY <2>2, OtherArguments
    <2>4. WaitsAs(p, q, d.sel)
      BY <1>3, <2>1, WaitingAs
    <2>5. Pushed(procs, procs', q, e)
      BY <1>9, <2>1, <2>2, PushOn DEF Level
    <2>6. Went(p, d.sel)
      BY <2>3, <2>4, <2>5 DEF Went
    <2> QED
      BY <1>3, <1>9, <2>6 DEF Ran
  <1> QED
    BY <1>1, <1>6, <1>7, <1>8, <1>9

\* The caller's own block is the one its field sel names.
OwnsBlock(p) == IsStack(procs) /\ Shaped(p) /\ BlockIs(dos, p.sel)

LEMMA BufferOfCaller ==
  ASSUME NEW p, OwnsBlock(p)
  PROVE  BufferOK(Buffer(p)) /\ Buffer(p).ok
  BY DEF OwnsBlock, BufferOK, Buffer, Shaped

LEMMA RanAs ==
  ASSUME NEW p, NEW q, Same(p, q), q.sys.script = p.sys.script, Ran(q)
  PROVE  Ran(p)
  <1>1. PICK s \in 0..2 : BlockIs(dos', s) /\ (Stopped(q, s) \/ Went(q, s))
    BY DEF Ran
  <1>2. q.std = p.std
    BY DEF Same
  <1>3. ASSUME NEW x, StoppedAs(q, x, s)
        PROVE  StoppedAs(p, x, s)
    BY <1>3 DEF StoppedAs, Same
  <1>4. ASSUME NEW x, WaitsAs(q, x, s)
        PROVE  WaitsAs(p, x, s)
    BY <1>4 DEF WaitsAs, Same
  <1>5. Stopped(q, s) => Stopped(p, s)
    BY <1>3 DEF Stopped
  <1>6. Went(q, s) => Went(p, s)
    BY <1>2, <1>4 DEF Went
  <1> QED
    BY <1>1, <1>5, <1>6 DEF Ran

LEMMA TextRuns ==
  ASSUME NEW p, OwnsBlock(p), NEW kind, NEW t, NEW via, NEW want, exec_text(p, kind, t, via, want)
  PROVE  Ran(p)
  <1>1. PICK q : q = [p EXCEPT !.e2big = t.e2big]
    OBVIOUS
  <1>2. IsStack(procs) /\ Shaped(p) /\ IsPair(p.std)
    BY DEF OwnsBlock, Shaped
  <1>3. Shaped(q) /\ Same(p, q) /\ q.sys.script = p.sys.script /\ q.std = p.std
    BY <1>1, <1>2 DEF Shaped, HasFields, Fields, Same
  <1>4. BufferOK(Buffer(p)) /\ Buffer(p).ok
    BY BufferOfCaller
  <1>5. PICK c : Newborn(c, q.std) /\ direct_exec_tail(q, Buffer(p), c, <<>>)
    <2>1. PICK text, cmdline :
            direct_exec_tail(q, Buffer(p), Program(kind, text, NoRef, NoRef, cmdline, want, p.std), <<>>)
      BY <1>1 DEF exec_text
    <2>2. Newborn(Program(kind, text, NoRef, NoRef, cmdline, want, p.std), p.std)
      BY <1>2, NewProgram
    <2> QED
      BY <1>3, <2>1, <2>2
  <1>6. Ran(q)
    BY <1>2, <1>3, <1>4, <1>5, TailRuns
  <1> QED
    BY <1>3, <1>6, RanAs

LEMMA StopRuns ==
  ASSUME NEW p, OwnsBlock(p),
         \/ \E s \in 0..2 : Set([Failed(p) EXCEPT !.sel = s]) /\ BlockIs(dos', s)
         \/ \E e : Set([Failed(p) EXCEPT !.e2big = e]) /\ dos' = dos
         \/ Set(Failed(p)) /\ dos' = dos
  PROVE  Ran(p)
  <1>1. IsStack(procs) /\ Shaped(p) /\ BlockIs(dos, p.sel) /\ p.sel \in 0..2
    BY DEF OwnsBlock, Shaped
  <1>2. ASSUME NEW q, NEW r \in 0..2, Set(q), StoppedAs(p, q, r), BlockIs(dos', r)
        PROVE  Ran(p)
    <2>1. Topped(procs, procs', q)
      BY <1>1, <1>2, TopOf DEF Set, Level
    <2> QED
      BY <1>2, <2>1 DEF Ran, Stopped
  <1>3. ASSUME NEW s \in 0..2, NEW e
        PROVE  /\ StoppedAs(p, [Failed(p) EXCEPT !.sel = s], s)
               /\ StoppedAs(p, [Failed(p) EXCEPT !.e2big = e], p.sel)
               /\ StoppedAs(p, Failed(p), p.sel)
    BY <1>1, FailedAs
  <1>4. dos' = dos => BlockIs(dos', p.sel)
    BY <1>1
  <1>5. CASE \E s \in 0..2 : Set([Failed(p) EXCEPT !.sel = s]) /\ BlockIs(dos', s)
    BY <1>2, <1>3, <1>5
  <1>6. CASE \E e : Set([Failed(p) EXCEPT !.e2big = e]) /\ dos' = dos
    BY <1>1, <1>2, <1>3, <1>4, <1>6
  <1>7. CASE Set(Failed(p)) /\ dos' = dos
    <2>1. StoppedAs(p, Failed(p), p.sel)
      BY <1>1, <1>3
    <2> QED
      BY <1>1, <1>2, <1>4, <1>7, <2>1
  <1> QED
    BY <1>5, <1>6, <1>7

LEMMA GoRuns ==
  ASSUME NEW p, OwnsBlock(p), NEW kind, NEW args, NEW want, go32_exec(p, kind, args, want)
  PROVE  Ran(p)
  <1>1. IsStack(procs) /\ Shaped(p) /\ IsPair(p.std)
    BY DEF OwnsBlock, Shaped
  <1>2. PICK b \in check_talloc(Buffer(p)) :
          \/ /\ b.ok
             /\ \E text, ref, proxy :
                  direct_exec_tail(p, b, Program(kind, text, ref, proxy, p.cmdline, want, p.std), args)
          \/ ~b.ok /\ Set([Failed(p) EXCEPT !.sel = 0]) /\ dos' = b.dos
    BY DEF go32_exec
  <1>3. BufferOK(b) /\ (~b.ok => b.sel = 0)
    BY BufferOfCaller, TallocKeeps
  <1>4. CASE b.ok /\ \E text, ref, proxy :
               direct_exec_tail(p, b, Program(kind, text, ref, proxy, p.cmdline, want, p.std), args)
    <2>1. PICK text, ref, proxy :
            direct_exec_tail(p, b, Program(kind, text, ref, proxy, p.cmdline, want, p.std), args)
      BY <1>4
    <2>2. PICK c : c = Program(kind, text, ref, proxy, p.cmdline, want, p.std)
      OBVIOUS
    <2>3. Newborn(c, p.std)
      BY <1>1, <2>2, NewProgram
    <2>4. direct_exec_tail(p, b, c, args)
      BY <2>1, <2>2
    <2>5. b.ok /\ BufferOK(b)
      BY <1>3, <1>4
    <2> QED
      BY <1>1, <2>3, <2>4, <2>5, TailRuns
  <1>5. CASE ~b.ok /\ Set([Failed(p) EXCEPT !.sel = 0]) /\ dos' = b.dos
    <2>1. BlockIs(dos', 0)
      BY <1>3, <1>5 DEF BufferOK
    <2>2. \E s \in 0..2 : Set([Failed(p) EXCEPT !.sel = s]) /\ BlockIs(dos', s)
      <3>1. 0 \in 0..2 /\ Set([Failed(p) EXCEPT !.sel = 0])
        BY <1>5
      <3> WITNESS 0 \in 0..2
      <3> QED
        BY <2>1, <3>1
    <2> QED
      BY <2>2, StopRuns, Zenon
  <1> QED
    BY <1>2, <1>4, <1>5

\* __djgpp_spawn: what stdout held is written.
Unheld(p) == [p EXCEPT !.held = FALSE, !.e2big = FALSE]
LEMMA SpawnRuns ==
  ASSUME NEW p, OwnsBlock(p), NEW kind, NEW args, djgpp_spawn(p, kind, args)
  PROVE  /\ Ran(Unheld(p))
         /\ misplaced' = (misplaced \/ (p.held /\ p.std[2] # p.home[2]))
  <1>1. PICK q : q = Unheld(p)
    OBVIOUS
  <1>2. Shaped(p) /\ IsStack(procs) /\ BlockIs(dos, p.sel)
    BY DEF OwnsBlock
  <1>3. OwnsBlock(q)
    <2>1. Shaped(q) /\ q.sel = p.sel
      BY <1>1, <1>2 DEF Shaped, HasFields, Fields, Unheld
    <2> QED
      BY <1>2, <2>1 DEF OwnsBlock
  <1>4. /\ misplaced' = (misplaced \/ (p.held /\ p.std[2] # p.home[2]))
        /\ \E a, want :
             \/ go32_exec(q, kind, a, want) \/ direct_exec(q, kind, a, want)
             \/ direct_pe_exec(q, kind, a, want) \/ command_exec(q, kind, a, want)
             \/ Set(Failed(q)) /\ UNCHANGED <<mem, dos>>
    BY <1>1 DEF djgpp_spawn, Unheld
  <1>5. PICK a, want :
             \/ go32_exec(q, kind, a, want) \/ direct_exec(q, kind, a, want)
             \/ direct_pe_exec(q, kind, a, want) \/ command_exec(q, kind, a, want)
             \/ Set(Failed(q)) /\ UNCHANGED <<mem, dos>>
    BY <1>4
  <1>6. Ran(q)
    <2>1. CASE go32_exec(q, kind, a, want)
      BY <1>3, <2>1, GoRuns
    <2>2. CASE direct_exec(q, kind, a, want)
      BY <1>3, <2>2, TextRuns DEF direct_exec
    <2>3. CASE direct_pe_exec(q, kind, a, want)
      BY <1>3, <2>3, TextRuns DEF direct_pe_exec
    <2>4. CASE command_exec(q, kind, a, want)
      BY <1>3, <2>4, TextRuns DEF command_exec
    <2>5. CASE Set(Failed(q)) /\ UNCHANGED <<mem, dos>>
      BY <1>3, <2>5, StopRuns
    <2> QED
      BY <1>5, <2>1, <2>2, <2>3, <2>4, <2>5
  <1> QED
    BY <1>1, <1>4, <1>6

LEMMA SameOwns ==
  ASSUME NEW p, NEW q, Same(p, q)
  PROVE  /\ Names(q) = Names(p) /\ Call(q) = Call(p) /\ Input(q) = Input(p)
         /\ Output(q) = Output(p) /\ Expected(q) = Expected(p)
  BY DEF Same, Names, Call, Input, Output, Expected

\* p can start a program: from system when it is told so.
Ready(p) ==
  /\ Shaped(p) /\ PipeOK(p) /\ OneReason(p) /\ HandlesOK(p, p.in_system)
  /\ p.in_system \/ ~p.sys.rm_in
  /\ p.sys.rm_out = (p.in_system /\ p.sys.sep = "PIPE")
  /\ p.sys.rm_in => p.sys.f_in # NoName
  /\ p.sys.rm_out => p.sys.f_out # NoName

LEMMA SameIsOK ==
  ASSUME NEW p, Ready(p), NEW q, Same(p, q), Shaped(q), q.sys.script \in {NoName, p.sys.script},
         q.pc # "sys", Redirecting(q) = q.in_system,
         q.in_system => q.pc \in {"child", "back"},
         q.pc # "child" => q.sys.script = NoName
  PROVE  ProgramOK(q)
  <1>1. /\ Shaped(p) /\ PipeOK(p) /\ OneReason(p) /\ HandlesOK(p, p.in_system)
        /\ p.in_system \/ ~p.sys.rm_in
        /\ p.sys.rm_out = (p.in_system /\ p.sys.sep = "PIPE")
        /\ p.sys.rm_in => p.sys.f_in # NoName
        /\ p.sys.rm_out => p.sys.f_out # NoName
    BY DEF Ready
  <1>2. q.in_system = p.in_system
    BY DEF Same
  <1>3. /\ Names(q) = Names(p) /\ Call(q) = Call(p) /\ Input(q) = Input(p)
        /\ Output(q) = Output(p) /\ Expected(q) = Expected(p)
    BY SameOwns
  <1>4. PipeOK(q)
    BY <1>1 DEF PipeOK, Same
  <1>5. OneReason(q)
    <2>1. Script(q) \subseteq Script(p)
      BY DEF Script
    <2>2. q.pipes = p.pipes
      BY DEF Same
    <2> QED
      BY <1>1, <1>3, <2>1, <2>2 DEF OneReason
  <1>6. HandlesOK(q, q.in_system)
    <2>1. /\ q.std = p.std /\ q.home = p.home /\ q.held = p.held
          /\ q.sys.f_in = p.sys.f_in /\ q.sys.f_out = p.sys.f_out /\ q.sys.bak = p.sys.bak
      BY DEF Same
    <2> QED
      BY <1>1, <1>2, <1>3, <2>1 DEF HandlesOK
  <1>7. SysOK(q, q.in_system)
    <2>1. /\ q.sys.f_in = p.sys.f_in /\ q.sys.f_out = p.sys.f_out
          /\ q.sys.rm_in = p.sys.rm_in /\ q.sys.rm_out = p.sys.rm_out /\ q.sys.sep = p.sys.sep
      BY DEF Same
    <2> QED
      BY <1>1, <1>2, <2>1 DEF SysOK
  <1> QED
    BY <1>4, <1>5, <1>6, <1>7 DEF ProgramOK

\* A step in which the program on top starts another, or tries to; its script, if
\* there is one, stays when it succeeds.
LEMMA StartStep ==
  ASSUME IInv, NEW p, Ready(p), Ran(p), ~misplaced', UNCHANGED strays,
         Unmade(procs[Len(procs)]) = {},
         Owned(p) = Owned(procs[Len(procs)]) \cup Script(p),
         Script(p) \cap temps = {}, Script(p) \cap Owned(procs[Len(procs)]) = {},
         temps' = IF Len(procs') > Len(procs) THEN temps \cup Script(p) ELSE temps
  PROVE  IInv'
  <1> DEFINE me == procs[Len(procs)]
  <1>1. IsStack(procs) /\ NoName \notin temps
    BY DEF IInv, FilesOK
  <1>2. Len(procs) \in Nat
    BY <1>1 DEF IsStack
  <1>3. PICK s \in 0..2 : BlockIs(dos', s) /\ (Stopped(p, s) \/ Went(p, s))
    BY DEF Ran
  <1>4. /\ p.in_system \in BOOLEAN /\ NoName \notin {p.std[1], p.std[2]}
    BY DEF Ready, Shaped, HandlesOK
  <1>5. ASSUME NEW q, Topped(procs, procs', q), StoppedAs(p, q, s)
        PROVE  IInv'
    <2>1. /\ Shaped(q) /\ Same(p, q) /\ q.sel = s
          /\ q.pc = (IF p.in_system THEN "back" ELSE "run")
          /\ q.sys.result = -1 /\ q.sys.script = NoName /\ q.in_system = p.in_system
      BY <1>5 DEF StoppedAs, Same
    <2>2. Redirecting(q) = q.in_system /\ q.pc \notin {"sys", "child"}
      BY <1>4, <2>1 DEF Redirecting
    <2>3. q.in_system => q.pc = "back"
      BY <2>1
    <2>4. ProgramOK(q)
      BY <2>1, <2>2, <2>3, SameIsOK
    <2>5. Owned(q) = Owned(me)
      <3>1. /\ Names(q) = Names(p) /\ Call(q) = Call(p) /\ Input(q) = Input(p)
            /\ Output(q) = Output(p) /\ Script(q) = {}
        BY <2>1, SameOwns DEF Script
      <3>2. OneReason(p)
        BY DEF Ready
      <3>3. Owned(q) = Owned(p) \ Script(p)
        BY <3>1, <3>2 DEF Owned, OneReason
      <3> QED
        BY <3>3
    <2>6. UNCHANGED temps
      BY <1>2, <1>5 DEF Topped
    <2>7. Moves(me, q, {}, {}, {})
      BY <1>1, <2>5, <2>6, NoMove
    <2> QED
      BY <1>3, <1>5, <2>1, <2>2, <2>4, <2>7, TopStep DEF BlockIs
  <1>6. ASSUME NEW q, NEW c, Pushed(procs, procs', q, c), WaitsAs(p, q, s), Newborn(c, p.std)
        PROVE  IInv'
    <2>1. /\ Shaped(q) /\ Same(p, q) /\ q.sel = s /\ q.pc = "child"
          /\ q.sys.script = p.sys.script /\ q.in_system = p.in_system
      BY <1>6 DEF WaitsAs, Same
    <2>2. Redirecting(q) = q.in_system
      BY <1>4, <2>1 DEF Redirecting
    <2>3. ProgramOK(q)
      BY <2>1, <2>2, SameIsOK
    <2>4. Owned(q) = Owned(p)
      <3>1. Script(q) = Script(p)
        BY <2>1 DEF Script
      <3> QED
        BY <2>1, <3>1, SameOwns DEF Owned
    <2>5. temps' = temps \cup Script(p)
      BY <1>2, <1>6 DEF Pushed
    <2>6. Moves(me, q, {}, Script(p), {})
      <3>1. NoName \notin Script(p)
        BY DEF Script
      <3> QED
        BY <1>1, <2>4, <2>5, <3>1 DEF Moves, FilesMove
    <2>7. ProgramOK(c) /\ Owned(c) = {} /\ c.sel = 0 /\ c.pc = "start"
      BY <1>4, <1>6, NewbornOK
    <2> QED
      BY <1>3, <1>6, <2>1, <2>3, <2>6, <2>7, PushStep DEF BlockIs
  <1>7. CASE Stopped(p, s)
    BY <1>5, <1>7 DEF Stopped
  <1>8. CASE Went(p, s)
    BY <1>6, <1>8 DEF Went
  <1> QED
    BY <1>3, <1>7, <1>8

-----------------------------------------------------------------------------
(* The steps of the program on top.                                         *)

LEMMA MeIsOK ==
  ASSUME IInv
  PROVE  /\ IsStack(procs) /\ Level = Len(procs) /\ Level \in Nat \ {0} /\ Me = procs[Len(procs)]
         /\ ProgramOK(Me) /\ Shaped(Me) /\ Me.pc # "child"
         /\ OwnsBlock(Me) /\ NoName \notin temps /\ ~misplaced
         /\ Owned(Me) \ Unmade(Me) \subseteq temps
  <1>1. /\ IsStack(procs) /\ Waiting(procs) /\ BlocksOK(procs, dos)
        /\ FilesOK(procs, temps, strays) /\ ~misplaced
        /\ \A l \in 1..Len(procs) : ProgramOK(procs[l])
    BY DEF IInv
  <1>2. Len(procs) \in Nat \ {0} /\ Len(procs) \in 1..Len(procs)
    BY <1>1 DEF IsStack
  <1>3. /\ Level = Len(procs) /\ Me = procs[Len(procs)]
    BY DEF Level, Me
  <1>4. ProgramOK(Me)
    BY <1>1, <1>2, <1>3
  <1>5. Shaped(Me)
    BY <1>4 DEF ProgramOK
  <1>6. Me.pc # "child"
    BY <1>1, <1>2, <1>3 DEF Waiting
  <1>7. BlockIs(dos, Me.sel)
    BY <1>1, <1>3, BlocksOf DEF BlockIs
  <1>8. NoName \notin temps /\ Owned(Me) \ Unmade(Me) \subseteq temps
    BY <1>1, <1>2, <1>3 DEF FilesOK
  <1> QED
    BY <1>1, <1>2, <1>3, <1>4, <1>5, <1>6, <1>7, <1>8 DEF OwnsBlock

LEMMA SetTop ==
  ASSUME IInv, NEW q, Set(q)
  PROVE  Topped(procs, procs', q)
  BY TopOf DEF IInv, Set, Level

\* A program that runs no command of system.
LEMMA QuietReady ==
  ASSUME NEW p, ProgramOK(p), p.pc \in {"start", "run", "call"}
  PROVE  /\ Ready(p) /\ p.in_system = FALSE /\ p.sys.script = NoName /\ Unmade(p) = {}
         /\ p.sys.rm_in = FALSE /\ p.sys.rm_out = FALSE /\ p.std = Expected(p)
  <1>1. /\ Shaped(p) /\ PipeOK(p) /\ OneReason(p)
        /\ HandlesOK(p, Redirecting(p)) /\ SysOK(p, Redirecting(p))
        /\ p.in_system => p.pc \in {"child", "back"}
        /\ p.pc # "child" => p.sys.script = NoName
    BY DEF ProgramOK
  <1>2. {p.in_system, p.sys.rm_in, p.sys.rm_out} \subseteq BOOLEAN
    BY <1>1 DEF Shaped
  <1>3. p.in_system = FALSE /\ Redirecting(p) = FALSE
    BY <1>1, <1>2 DEF Redirecting
  <1>4. HandlesOK(p, FALSE) /\ SysOK(p, FALSE)
    BY <1>1, <1>3
  <1>5. p.sys.rm_in = FALSE /\ p.sys.rm_out = FALSE
    BY <1>2, <1>4 DEF SysOK
  <1>6. p.std = Expected(p)
    BY <1>4 DEF HandlesOK
  <1>7. Ready(p)
    BY <1>1, <1>3, <1>4, <1>5 DEF Ready
  <1>8. Unmade(p) = {}
    BY DEF Unmade
  <1> QED
    BY <1>1, <1>3, <1>5, <1>6, <1>7, <1>8

LEMMA SameReady ==
  ASSUME NEW p, Ready(p), NEW q, Same(p, q), Shaped(q), q.sys.script = p.sys.script
  PROVE  Ready(q) /\ Owned(q) = Owned(p)
  <1>1. /\ Shaped(p) /\ PipeOK(p) /\ OneReason(p) /\ HandlesOK(p, p.in_system)
        /\ p.in_system \/ ~p.sys.rm_in
        /\ p.sys.rm_out = (p.in_system /\ p.sys.sep = "PIPE")
        /\ p.sys.rm_in => p.sys.f_in # NoName
        /\ p.sys.rm_out => p.sys.f_out # NoName
    BY DEF Ready
  <1>2. /\ Names(q) = Names(p) /\ Call(q) = Call(p) /\ Input(q) = Input(p)
        /\ Output(q) = Output(p) /\ Expected(q) = Expected(p) /\ Script(q) = Script(p)
    BY SameOwns DEF Script
  <1>3. PipeOK(q)
    BY <1>1 DEF PipeOK, Same
  <1>4. OneReason(q)
    <2>1. q.pipes = p.pipes
      BY DEF Same
    <2> QED
      BY <1>1, <1>2, <2>1 DEF OneReason
  <1>5. HandlesOK(q, q.in_system)
    <2>1. /\ q.std = p.std /\ q.home = p.home /\ q.held = p.held /\ q.in_system = p.in_system
          /\ q.sys.f_in = p.sys.f_in /\ q.sys.f_out = p.sys.f_out /\ q.sys.bak = p.sys.bak
      BY DEF Same
    <2> QED
      BY <1>1, <1>2, <2>1 DEF HandlesOK
  <1>6. /\ q.sys.f_in = p.sys.f_in /\ q.sys.f_out = p.sys.f_out /\ q.in_system = p.in_system
        /\ q.sys.rm_in = p.sys.rm_in /\ q.sys.rm_out = p.sys.rm_out /\ q.sys.sep = p.sys.sep
    BY DEF Same
  <1>7. Ready(q)
    BY <1>1, <1>3, <1>4, <1>5, <1>6 DEF Ready
  <1> QED
    BY <1>2, <1>7 DEF Owned

LEMMA UnheldReady ==
  ASSUME NEW p, Ready(p), OwnsBlock(p)
  PROVE  /\ Ready(Unheld(p)) /\ Owned(Unheld(p)) = Owned(p) /\ Script(Unheld(p)) = Script(p)
         /\ ~(p.held /\ p.std[2] # p.home[2])
  <1>1. PICK q : q = Unheld(p)
    OBVIOUS
  <1>2. /\ Shaped(p) /\ PipeOK(p) /\ OneReason(p) /\ HandlesOK(p, p.in_system)
        /\ p.in_system \/ ~p.sys.rm_in
        /\ p.sys.rm_out = (p.in_system /\ p.sys.sep = "PIPE")
        /\ p.sys.rm_in => p.sys.f_in # NoName
        /\ p.sys.rm_out => p.sys.f_out # NoName
    BY DEF Ready
  <1>3. /\ Shaped(q) /\ q.held = FALSE /\ q.std = p.std /\ q.home = p.home
        /\ q.in_system = p.in_system /\ q.sys = p.sys /\ q.pipe = p.pipe /\ q.pipes = p.pipes
    BY <1>1, <1>2 DEF Shaped, HasFields, Fields, Unheld
  <1>4. /\ Names(q) = Names(p) /\ Call(q) = Call(p) /\ Input(q) = Input(p)
        /\ Output(q) = Output(p) /\ Expected(q) = Expected(p) /\ Script(q) = Script(p)
    BY <1>3 DEF Names, Call, Input, Output, Expected, Script
  <1>5. PipeOK(q)
    BY <1>2, <1>3 DEF PipeOK
  <1>6. OneReason(q)
    BY <1>2, <1>3, <1>4 DEF OneReason
  <1>7. HandlesOK(q, q.in_system)
    BY <1>2, <1>3, <1>4 DEF HandlesOK
  <1>8. Ready(q) /\ Owned(q) = Owned(p)
    BY <1>2, <1>3, <1>4, <1>5, <1>6, <1>7 DEF Ready, Owned
  <1>9. ~(p.held /\ p.std[2] # p.home[2])
    BY <1>2 DEF HandlesOK
  <1> QED
    BY <1>1, <1>4, <1>8, <1>9

\* The program on top changes in nothing that matters here.
LEMMA QuietStep ==
  ASSUME IInv, Me.pc \in {"start", "run", "call"}, NEW q, Set(q), Same(Me, q), Shaped(q),
         q.sel = Me.sel, q.sys.script = Me.sys.script, q.pc \in {"start", "run", "call"},
         UNCHANGED <<dos, temps, strays, misplaced>>
  PROVE  IInv'
  <1>1. /\ Me = procs[Len(procs)] /\ ProgramOK(Me) /\ OwnsBlock(Me) /\ NoName \notin temps
        /\ ~misplaced
    BY MeIsOK
  <1>2. Ready(Me) /\ Unmade(Me) = {} /\ Me.in_system = FALSE /\ Me.sys.script = NoName
    BY <1>1, QuietReady
  <1>3. Owned(q) = Owned(Me)
    BY <1>2, SameReady
  <1>4. q.in_system = FALSE
    BY <1>2 DEF Same
  <1>5. Redirecting(q) = q.in_system
    BY <1>4 DEF Redirecting
  <1>6. ProgramOK(q)
    BY <1>2, <1>4, <1>5, SameIsOK
  <1>7. Moves(Me, q, {}, {}, {})
    BY <1>1, <1>2, <1>3, NoMove
  <1>8. BlockIs(dos', q.sel)
    BY <1>1 DEF OwnsBlock
  <1>9. Topped(procs, procs', q)
    BY SetTop
  <1> QED
    BY <1>1, <1>6, <1>7, <1>8, <1>9, TopStep DEF BlockIs

LEMMA StartupStep == ASSUME IInv, startup PROVE IInv'
  <1>1. PICK argv : Me.pc = "start" /\ Set([Me EXCEPT !.pc = "run", !.argv = argv])
                    /\ UNCHANGED <<dos, temps, strays, misplaced>>
    BY DEF startup
  <1>2. PICK q : q = [Me EXCEPT !.pc = "run", !.argv = argv]
    OBVIOUS
  <1>3. Shaped(Me)
    BY MeIsOK
  <1>4. Shaped(q) /\ Same(Me, q) /\ q.sel = Me.sel /\ q.sys = Me.sys /\ q.pc = "run"
    BY <1>2, <1>3 DEF Shaped, HasFields, Fields, Same
  <1> QED
    BY <1>1, <1>2, <1>4, QuietStep

LEMMA PastIs ==
  ASSUME NEW p, Shaped(p)
  PROVE  /\ Shaped(Past(p)) /\ Same(p, Past(p)) /\ Past(p).sys = p.sys /\ Past(p).sel = p.sel
         /\ Past(p).pc = p.pc
  BY DEF Shaped, HasFields, Fields, Same, Past

LEMMA PrintStep == ASSUME IInv, print PROVE IInv'
  <1>1. /\ Me.pc = "run" /\ Me.pipe = NoPipe /\ Set([Me EXCEPT !.held = TRUE])
        /\ UNCHANGED <<dos, temps, strays, misplaced>>
    BY DEF print, Mine, Idle
  <1>2. /\ Me = procs[Len(procs)] /\ ProgramOK(Me) /\ OwnsBlock(Me) /\ Shaped(Me) /\ ~misplaced
        /\ NoName \notin temps
    BY MeIsOK
  <1>3. /\ Ready(Me) /\ Unmade(Me) = {} /\ Me.sys.script = NoName /\ Me.in_system = FALSE
        /\ Me.sys.rm_in = FALSE /\ Me.sys.rm_out = FALSE /\ Me.std = Expected(Me)
    BY <1>1, <1>2, QuietReady
  <1>4. PICK q : q = [Me EXCEPT !.held = TRUE]
    OBVIOUS
  <1>5. /\ Shaped(q) /\ q.std = Me.std /\ q.home = Me.home /\ q.held = TRUE /\ q.pc = "run"
        /\ q.in_system = FALSE /\ q.sys = Me.sys /\ q.pipe = NoPipe /\ q.pipes = Me.pipes
        /\ q.sel = Me.sel
    BY <1>1, <1>2, <1>3, <1>4 DEF Shaped, HasFields, Fields
  <1>6. /\ Owned(q) = Owned(Me) /\ Expected(q) = Expected(Me)
    BY <1>1, <1>5 DEF Owned, Names, Call, Input, Output, Script, Expected
  <1>7. OneReason(q)
    <2>1. OneReason(Me)
      BY <1>2 DEF ProgramOK
    <2> QED
      BY <1>1, <1>5, <2>1 DEF OneReason, Names, Call, Input, Output, Script
  <1>8. Redirecting(q) = FALSE
    BY <1>5 DEF Redirecting
  <1>9. HandlesOK(q, FALSE)
    <2>1. NoName \notin {q.std[1], q.std[2], q.home[1], q.home[2]}
      BY <1>3, <1>5 DEF Ready, HandlesOK
    <2>2. q.std = Expected(q)
      BY <1>3, <1>5, <1>6
    <2>3. q.std[2] = q.home[2]
      BY <1>5, <2>2 DEF Expected, NoPipe
    <2> QED
      BY <2>1, <2>2, <2>3 DEF HandlesOK
  <1>10. SysOK(q, FALSE)
    BY <1>3, <1>5 DEF SysOK
  <1>11. PipeOK(q)
    <2>1. PipeOK(Me)
      BY <1>2 DEF ProgramOK
    <2> QED
      BY <1>1, <1>5, <2>1 DEF PipeOK
  <1>12. ProgramOK(q)
    BY <1>3, <1>5, <1>7, <1>8, <1>9, <1>10, <1>11 DEF ProgramOK
  <1>13. Moves(Me, q, {}, {}, {})
    BY <1>1, <1>2, <1>3, <1>6, NoMove
  <1>14. BlockIs(dos', q.sel)
    BY <1>1, <1>2, <1>5 DEF OwnsBlock
  <1>15. Topped(procs, procs', q)
    BY <1>1, <1>4, SetTop
  <1> QED
    BY <1>1, <1>2, <1>5, <1>12, <1>13, <1>14, <1>15, TopStep DEF BlockIs

\* A shell is run: the command may be in a file of its own.
Scripted(p, n) == [p EXCEPT !.sys.script = n]

LEMMA ScriptedIs ==
  ASSUME NEW p, Shaped(p), NEW n
  PROVE  /\ Shaped(Scripted(p, n)) /\ Same(p, Scripted(p, n)) /\ Scripted(p, n).sel = p.sel
         /\ Scripted(p, n).sys.script = n
  BY DEF Scripted, Shaped, HasFields, Fields, SysFields, Same

LEMMA Fresh ==
  ASSUME NameLeft
  PROVE  tmpnam \in TmpNames \ temps /\ tmpnam # NoName
  BY TmpNamesAssumption DEF NameLeft, tmpnam

LEMMA ShellRuns ==
  ASSUME NEW p, OwnsBlock(p), p.sys.script = NoName, NEW shell, NEW text,
         shell_command(p, shell, text)
  PROVE  \E n \in {NoName} \cup (TmpNames \ temps) :
           /\ Ran(Scripted(p, n))
           /\ temps' = IF Len(procs') > Len(procs) THEN temps \cup ({n} \ {NoName}) ELSE temps
  <1>1. \/ /\ \/ \E e : Set([Failed(p) EXCEPT !.e2big = e]) /\ dos' = dos
              \/ \E t, via, want : exec_text(p, "shell", t, via, want)
              \/ Set(Failed(p)) /\ dos' = dos
           /\ UNCHANGED temps
        \/ /\ NameLeft
           /\ \E t, via, want : exec_text(Scripted(p, tmpnam), "shell", t, via, want)
           /\ temps' = IF Len(procs') > Len(procs) THEN temps \cup {tmpnam} ELSE temps
    BY DEF shell_command, Level, Scripted
  <1>2. Shaped(p)
    BY DEF OwnsBlock
  <1>3. CASE /\ \/ \E e : Set([Failed(p) EXCEPT !.e2big = e]) /\ dos' = dos
                \/ \E t, via, want : exec_text(p, "shell", t, via, want)
                \/ Set(Failed(p)) /\ dos' = dos
             /\ UNCHANGED temps
    <2>1. Ran(p)
      <3>1. CASE \E e : Set([Failed(p) EXCEPT !.e2big = e]) /\ dos' = dos
        BY <3>1, StopRuns
      <3>2. CASE \E t, via, want : exec_text(p, "shell", t, via, want)
        BY <3>2, TextRuns
      <3>3. CASE Set(Failed(p)) /\ dos' = dos
        BY <3>3, StopRuns
      <3> QED
        BY <1>3, <3>1, <3>2, <3>3
    <2>2. PICK q : q = Scripted(p, NoName)
      OBVIOUS
    <2>3. Same(q, p) /\ p.sys.script = q.sys.script
      BY <1>2, <2>2, ScriptedIs DEF Same
    <2>4. Ran(q)
      BY <2>1, <2>3, RanAs
    <2> WITNESS NoName \in {NoName} \cup (TmpNames \ temps)
    <2> QED
      BY <1>3, <2>2, <2>4
  <1>4. CASE /\ NameLeft
             /\ \E t, via, want : exec_text(Scripted(p, tmpnam), "shell", t, via, want)
             /\ temps' = IF Len(procs') > Len(procs) THEN temps \cup {tmpnam} ELSE temps
    <2>1. PICK n : n = tmpnam
      OBVIOUS
    <2>2. n \in TmpNames \ temps /\ n # NoName
      BY <1>4, <2>1, Fresh
    <2>3. PICK q : q = Scripted(p, n)
      OBVIOUS
    <2>4. OwnsBlock(q)
      BY <1>2, <2>3, ScriptedIs DEF OwnsBlock
    <2>5. Ran(q)
      BY <1>4, <2>1, <2>3, <2>4, TextRuns
    <2>6. temps' = IF Len(procs') > Len(procs) THEN temps \cup ({n} \ {NoName}) ELSE temps
      BY <1>4, <2>1, <2>2
    <2>7. n \in {NoName} \cup (TmpNames \ temps)
      BY <2>2
    <2> QED
      BY <2>3, <2>5, <2>6, <2>7
  <1> QED
    BY <1>1, <1>3, <1>4

LEMMA ScriptedReady ==
  ASSUME NEW p, Ready(p), p.sys.script = NoName, NEW n, n \notin Owned(p)
  PROVE  /\ Ready(Scripted(p, n)) /\ Script(Scripted(p, n)) = {n} \ {NoName}
         /\ Owned(Scripted(p, n)) = Owned(p) \cup Script(Scripted(p, n))
  <1>1. PICK q : q = Scripted(p, n)
    OBVIOUS
  <1>2. /\ Shaped(p) /\ PipeOK(p) /\ OneReason(p) /\ HandlesOK(p, p.in_system)
        /\ p.in_system \/ ~p.sys.rm_in
        /\ p.sys.rm_out = (p.in_system /\ p.sys.sep = "PIPE")
        /\ p.sys.rm_in => p.sys.f_in # NoName
        /\ p.sys.rm_out => p.sys.f_out # NoName
    BY DEF Ready
  <1>3. Shaped(q) /\ Same(p, q) /\ q.sys.script = n
    BY <1>1, <1>2, ScriptedIs
  <1>4. /\ Names(q) = Names(p) /\ Call(q) = Call(p) /\ Input(q) = Input(p)
        /\ Output(q) = Output(p) /\ Expected(q) = Expected(p)
    BY <1>3, SameOwns
  <1>5. Script(q) = {n} \ {NoName} /\ Script(p) = {}
    BY <1>3 DEF Script
  <1>6. PipeOK(q)
    BY <1>2, <1>3 DEF PipeOK, Same
  <1>7. OneReason(q)
    <2>1. q.pipes = p.pipes
      BY <1>3 DEF Same
    <2>2. n \notin Names(p) \cup Call(p) \cup Input(p) \cup Output(p)
      BY DEF Owned
    <2> QED
      BY <1>2, <1>4, <1>5, <2>1, <2>2 DEF OneReason
  <1>8. HandlesOK(q, q.in_system)
    <2>1. /\ q.std = p.std /\ q.home = p.home /\ q.held = p.held /\ q.in_system = p.in_system
          /\ q.sys.f_in = p.sys.f_in /\ q.sys.f_out = p.sys.f_out /\ q.sys.bak = p.sys.bak
      BY <1>3 DEF Same
    <2> QED
      BY <1>2, <1>4, <2>1 DEF HandlesOK
  <1>9. /\ q.sys.f_in = p.sys.f_in /\ q.sys.f_out = p.sys.f_out /\ q.in_system = p.in_system
        /\ q.sys.rm_in = p.sys.rm_in /\ q.sys.rm_out = p.sys.rm_out /\ q.sys.sep = p.sys.sep
    BY <1>3 DEF Same
  <1>10. Ready(q)
    BY <1>2, <1>3, <1>6, <1>7, <1>8, <1>9 DEF Ready
  <1>11. Owned(q) = Owned(p) \cup Script(q)
    BY <1>4, <1>5 DEF Owned
  <1> QED
    BY <1>1, <1>5, <1>10, <1>11

\* The program on top, as p, runs a shell or another program.
LEMMA ShellStep ==
  ASSUME IInv, NEW p, Ready(p), OwnsBlock(p), p.sys.script = NoName,
         Owned(p) = Owned(Me), Unmade(Me) = {},
         NEW shell, NEW text, shell_command(p, shell, text), UNCHANGED strays
  PROVE  IInv'
  <1>1. /\ Me = procs[Len(procs)] /\ ~misplaced /\ NoName \notin temps /\ Owned(Me) \subseteq temps
    BY MeIsOK
  <1>2. PICK n \in {NoName} \cup (TmpNames \ temps) :
           /\ Ran(Scripted(p, n))
           /\ temps' = IF Len(procs') > Len(procs) THEN temps \cup ({n} \ {NoName}) ELSE temps
    BY ShellRuns
  <1>3. n \notin temps
    BY <1>1, <1>2
  <1>4. PICK q : q = Scripted(p, n)
    OBVIOUS
  <1>5. Ready(q) /\ Script(q) = {n} \ {NoName} /\ Owned(q) = Owned(p) \cup Script(q)
    BY <1>1, <1>3, <1>4, ScriptedReady
  <1>6. ~misplaced'
    BY <1>1 DEF shell_command
  <1>7. /\ Ran(q)
        /\ temps' = IF Len(procs') > Len(procs) THEN temps \cup Script(q) ELSE temps
    BY <1>2, <1>4, <1>5
  <1>8. Script(q) \cap temps = {} /\ Script(q) \cap Owned(Me) = {}
    BY <1>1, <1>3, <1>5
  <1> QED
    BY <1>1, <1>5, <1>6, <1>7, <1>8, StartStep

LEMMA OtherStep ==
  ASSUME IInv, NEW p, Ready(p), OwnsBlock(p), p.sys.script = NoName,
         Owned(p) = Owned(Me), Unmade(Me) = {},
         NEW kind, NEW args, djgpp_spawn(p, kind, args), UNCHANGED <<temps, strays>>
  PROVE  IInv'
  <1>1. /\ Me = procs[Len(procs)] /\ ~misplaced
    BY MeIsOK
  <1>2. /\ Ran(Unheld(p)) /\ misplaced' = (misplaced \/ (p.held /\ p.std[2] # p.home[2]))
    BY SpawnRuns
  <1>3. /\ Ready(Unheld(p)) /\ Owned(Unheld(p)) = Owned(p) /\ Script(Unheld(p)) = Script(p)
        /\ ~(p.held /\ p.std[2] # p.home[2])
    BY UnheldReady
  <1>4. Script(p) = {}
    BY DEF Script
  <1>5. ~misplaced'
    BY <1>1, <1>2, <1>3
  <1>6. temps' = IF Len(procs') > Len(procs) THEN temps \cup Script(Unheld(p)) ELSE temps
    BY <1>3, <1>4
  <1> QED
    BY <1>1, <1>2, <1>3, <1>4, <1>5, <1>6, StartStep

LEMMA SpawnStep == ASSUME IInv, spawn PROVE IInv'
  <1>1. PICK kind, args : djgpp_spawn(Past(Me), kind, args)
    BY DEF spawn
  <1>2. /\ Me.pc = "run" /\ UNCHANGED <<temps, strays>>
    BY DEF spawn, Mine, Idle
  <1>3. /\ Me = procs[Len(procs)] /\ ProgramOK(Me) /\ OwnsBlock(Me) /\ Shaped(Me) /\ ~misplaced
    BY MeIsOK
  <1>4. Ready(Me) /\ Unmade(Me) = {} /\ Me.sys.script = NoName
    BY <1>2, <1>3, QuietReady
  <1>5. PICK p : p = Past(Me)
    OBVIOUS
  <1>6. Shaped(p) /\ Same(Me, p) /\ p.sys = Me.sys /\ p.sel = Me.sel
    BY <1>3, <1>5, PastIs
  <1>7. Ready(p) /\ Owned(p) = Owned(Me) /\ Script(p) = {}
    BY <1>4, <1>6, SameReady DEF Script
  <1>8. OwnsBlock(p)
    BY <1>3, <1>6 DEF OwnsBlock
  <1> QED
    BY <1>1, <1>2, <1>3, <1>4, <1>5, <1>6, <1>7, <1>8, OtherStep

LEMMA SystemStep == ASSUME IInv, system PROVE IInv'
  <1>1. /\ Me.pc \in {"run", "call"} /\ UNCHANGED strays
        /\ \/ \E shell, line : shell_command([Past(Me) EXCEPT !.e2big = FALSE], shell, line)
           \/ \E line : /\ Set([Past(Me) EXCEPT !.pc = "sys", !.sys = [NoSys EXCEPT !.line = line],
                                                !.e2big = FALSE])
                        /\ UNCHANGED <<mem, dos, temps, calls, misplaced>>
    BY DEF system, Mine, Idle, At
  <1>2. /\ Me = procs[Len(procs)] /\ ProgramOK(Me) /\ OwnsBlock(Me) /\ Shaped(Me) /\ ~misplaced
        /\ NoName \notin temps
    BY MeIsOK
  <1>3. /\ Ready(Me) /\ Unmade(Me) = {} /\ Me.sys.script = NoName /\ Me.in_system = FALSE
        /\ Me.sys.rm_in = FALSE /\ Me.sys.rm_out = FALSE /\ Me.std = Expected(Me)
    BY <1>1, <1>2, QuietReady
  <1>4. PICK o : o = Past(Me)
    OBVIOUS
  <1>5. Shaped(o) /\ Same(Me, o) /\ o.sys = Me.sys /\ o.sel = Me.sel
    BY <1>2, <1>4, PastIs
  <1>6. CASE \E shell, line : shell_command([Past(Me) EXCEPT !.e2big = FALSE], shell, line)
    <2>1. PICK p : p = [o EXCEPT !.e2big = FALSE]
      OBVIOUS
    <2>2. Shaped(p) /\ Same(Me, p) /\ p.sys = Me.sys /\ p.sel = Me.sel
      BY <1>5, <2>1 DEF Shaped, HasFields, Fields, Same
    <2>3. PICK shell, line : shell_command(p, shell, line)
      BY <1>4, <1>6, <2>1
    <2>4. Ready(p) /\ Owned(p) = Owned(Me) /\ OwnsBlock(p)
      BY <1>2, <1>3, <2>2, SameReady DEF OwnsBlock
    <2> QED
      BY <1>1, <1>3, <2>2, <2>3, <2>4, ShellStep
  <1>7. ASSUME NEW line,
               Set([Past(Me) EXCEPT !.pc = "sys", !.sys = [NoSys EXCEPT !.line = line], !.e2big = FALSE]),
               UNCHANGED <<mem, dos, temps, calls, misplaced>>
        PROVE  IInv'
    <2>1. PICK y : y = [NoSys EXCEPT !.line = line]
      OBVIOUS
    <2>2. /\ HasFields(y, SysFields) /\ y.result = 0 /\ y.rm_in = FALSE /\ y.rm_out = FALSE
          /\ y.script = NoName
      BY <2>1 DEF NoSys, HasFields, SysFields
    <2>3. PICK q : q = [o EXCEPT !.pc = "sys", !.sys = y, !.e2big = FALSE]
      OBVIOUS
    <2>4. /\ HasFields(q, Fields) /\ q.pc = "sys" /\ q.sys = y /\ q.std = Me.std /\ q.home = Me.home
          /\ q.held = Me.held /\ q.sel = Me.sel /\ q.in_system = FALSE /\ q.pipe = Me.pipe
          /\ q.pipes = Me.pipes
      BY <1>3, <1>5, <2>3 DEF Shaped, HasFields, Fields, Same
    <2>5. Shaped(q)
      <3>1. /\ IsPair(Me.std) /\ IsPair(Me.home) /\ Me.sel \in 0..2 /\ Me.held \in BOOLEAN
        BY <1>2 DEF Shaped
      <3>2. IsPair(q.std) /\ IsPair(q.home) /\ HasFields(q.sys, SysFields)
        BY <2>2, <2>4, <3>1
      <3>3. {q.held, q.in_system, q.sys.rm_in, q.sys.rm_out} \subseteq BOOLEAN
        BY <2>2, <2>4, <3>1
      <3> QED
        BY <2>2, <2>4, <3>1, <3>2, <3>3 DEF Shaped
    <2>6. /\ Names(q) = Names(Me) /\ Call(q) = Call(Me) /\ Input(q) = Input(Me)
          /\ Output(q) = Output(Me) /\ Script(q) = Script(Me) /\ Expected(q) = Expected(Me)
      BY <1>3, <2>2, <2>4 DEF Names, Call, Input, Output, Script, Expected
    <2>7. PipeOK(q) /\ OneReason(q)
      <3>1. PipeOK(Me) /\ OneReason(Me)
        BY <1>3 DEF Ready
      <3>2. PipeOK(q)
        BY <2>4, <3>1 DEF PipeOK
      <3> QED
        BY <2>4, <2>6, <3>1, <3>2 DEF OneReason
    <2>8. Redirecting(q) = FALSE
      BY <2>4 DEF Redirecting
    <2>9. HandlesOK(q, FALSE)
      BY <1>3, <2>4, <2>6 DEF Ready, HandlesOK
    <2>10. SysOK(q, FALSE)
      BY <2>2, <2>4 DEF SysOK
    <2>11. ProgramOK(q)
      BY <2>2, <2>4, <2>5, <2>7, <2>8, <2>9, <2>10 DEF ProgramOK
    <2>12. Moves(Me, q, {}, {}, {})
      BY <1>1, <1>2, <1>3, <1>7, <2>6, NoMove DEF Owned
    <2>13. BlockIs(dos', q.sel)
      BY <1>2, <1>7, <2>4 DEF OwnsBlock
    <2>14. Topped(procs, procs', q)
      BY <1>4, <1>7, <2>1, <2>3, SetTop
    <2> QED
      BY <1>2, <1>7, <2>4, <2>11, <2>12, <2>13, <2>14, TopStep DEF BlockIs
  <1> QED
    BY <1>1, <1>6, <1>7

-----------------------------------------------------------------------------
(* A command of system.                                                     *)

\* A program on top whose next program is started by system.
LEMMA RedirectedIs ==
  ASSUME NEW p, ProgramOK(p), p.pc \in {"go", "back"}
  PROVE  /\ Shaped(p) /\ PipeOK(p) /\ OneReason(p) /\ HandlesOK(p, TRUE)
         /\ p.sys.rm_out = (p.sys.sep = "PIPE")
         /\ p.sys.rm_in => p.sys.f_in # NoName
         /\ p.sys.rm_out => p.sys.f_out # NoName
         /\ p.sys.script = NoName /\ Script(p) = {}
  <1>1. Redirecting(p) = TRUE
    BY DEF Redirecting
  <1> QED
    BY <1>1 DEF ProgramOK, SysOK, Script

LEMMA SysGoStep == ASSUME IInv, sys_go PROVE IInv'
  <1>1. PICK p : p = [Me EXCEPT !.in_system = TRUE, !.sys.prog = NoName, !.sys.words = <<>>]
    OBVIOUS
  <1>2. /\ Me.pc = "go" /\ UNCHANGED strays
        /\ \/ /\ \E r \in {0, -1} : Set([Me EXCEPT !.pc = "back", !.sys.prog = NoName,
                                                   !.sys.words = <<>>, !.sys.result = r])
              /\ UNCHANGED <<mem, dos, temps, calls, misplaced>>
           \/ \E shell, text : shell_command(p, shell, text)
           \/ (\E kind, args : djgpp_spawn(p, kind, args)) /\ UNCHANGED temps
    BY <1>1 DEF sys_go, At
  <1>3. /\ Me = procs[Len(procs)] /\ ProgramOK(Me) /\ OwnsBlock(Me) /\ Shaped(Me) /\ ~misplaced
        /\ NoName \notin temps
    BY MeIsOK
  <1>4. /\ PipeOK(Me) /\ OneReason(Me) /\ HandlesOK(Me, TRUE)
        /\ Me.sys.rm_out = (Me.sys.sep = "PIPE")
        /\ Me.sys.rm_in => Me.sys.f_in # NoName
        /\ Me.sys.rm_out => Me.sys.f_out # NoName
        /\ Me.sys.script = NoName /\ Script(Me) = {}
    BY <1>2, <1>3, RedirectedIs
  <1>5. Unmade(Me) = {}
    BY <1>2 DEF Unmade
  <1>6. /\ Shaped(p) /\ p.in_system = TRUE /\ p.std = Me.std /\ p.home = Me.home
        /\ p.held = Me.held /\ p.sel = Me.sel /\ p.pipe = Me.pipe /\ p.pipes = Me.pipes
        /\ p.sys.f_in = Me.sys.f_in /\ p.sys.f_out = Me.sys.f_out /\ p.sys.sep = Me.sys.sep
        /\ p.sys.rm_in = Me.sys.rm_in /\ p.sys.rm_out = Me.sys.rm_out
        /\ p.sys.bak = Me.sys.bak /\ p.sys.script = NoName
    BY <1>1, <1>3, <1>4 DEF Shaped, HasFields, Fields, SysFields
  <1>7. /\ Names(p) = Names(Me) /\ Call(p) = Call(Me) /\ Input(p) = Input(Me)
        /\ Output(p) = Output(Me) /\ Script(p) = Script(Me) /\ Expected(p) = Expected(Me)
    BY <1>4, <1>6 DEF Names, Call, Input, Output, Script, Expected
  <1>8. Ready(p) /\ Owned(p) = Owned(Me) /\ OwnsBlock(p)
    <2>1. PipeOK(p)
      BY <1>4, <1>6 DEF PipeOK
    <2>2. OneReason(p)
      BY <1>4, <1>6, <1>7 DEF OneReason
    <2>3. HandlesOK(p, TRUE)
      BY <1>4, <1>6, <1>7 DEF HandlesOK
    <2>4. Ready(p)
      BY <1>4, <1>6, <2>1, <2>2, <2>3 DEF Ready
    <2>5. Owned(p) = Owned(Me)
      BY <1>7 DEF Owned
    <2> QED
      BY <1>3, <1>6, <2>4, <2>5 DEF OwnsBlock
  <1>9. CASE \E shell, text : shell_command(p, shell, text)
    BY <1>2, <1>5, <1>6, <1>8, <1>9, ShellStep
  <1>10. CASE (\E kind, args : djgpp_spawn(p, kind, args)) /\ UNCHANGED temps
    BY <1>2, <1>5, <1>6, <1>8, <1>10, OtherStep
  <1>11. ASSUME NEW r \in {0, -1},
                Set([Me EXCEPT !.pc = "back", !.sys.prog = NoName,
                               !.sys.words = <<>>, !.sys.result = r]),
                UNCHANGED <<mem, dos, temps, calls, misplaced>>
         PROVE  IInv'
    <2>1. PICK q : q = [Me EXCEPT !.pc = "back", !.sys.prog = NoName,
                                  !.sys.words = <<>>, !.sys.result = r]
      OBVIOUS
    <2>2. /\ Shaped(q) /\ q.in_system = Me.in_system /\ q.std = Me.std /\ q.home = Me.home
          /\ q.held = Me.held /\ q.sel = Me.sel /\ q.pipe = Me.pipe /\ q.pipes = Me.pipes
          /\ q.sys.f_in = Me.sys.f_in /\ q.sys.f_out = Me.sys.f_out /\ q.sys.sep = Me.sys.sep
          /\ q.sys.rm_in = Me.sys.rm_in /\ q.sys.rm_out = Me.sys.rm_out
          /\ q.sys.bak = Me.sys.bak /\ q.sys.script = NoName /\ q.pc = "back"
      BY <1>3, <1>4, <2>1 DEF Shaped, HasFields, Fields, SysFields
    <2>3. /\ Names(q) = Names(Me) /\ Call(q) = Call(Me) /\ Input(q) = Input(Me)
          /\ Output(q) = Output(Me) /\ Script(q) = Script(Me) /\ Expected(q) = Expected(Me)
      BY <1>4, <2>2 DEF Names, Call, Input, Output, Script, Expected
    <2>4. ProgramOK(q)
      <3>1. PipeOK(q)
        BY <1>4, <2>2 DEF PipeOK
      <3>2. OneReason(q)
        BY <1>4, <2>2, <2>3 DEF OneReason
      <3>3. Redirecting(q) = TRUE
        BY <2>2 DEF Redirecting
      <3>4. HandlesOK(q, TRUE)
        BY <1>4, <2>2, <2>3 DEF HandlesOK
      <3>5. SysOK(q, TRUE)
        BY <1>4, <2>2 DEF SysOK
      <3> QED
        BY <2>2, <3>1, <3>2, <3>3, <3>4, <3>5 DEF ProgramOK
    <2>5. Moves(Me, q, {}, {}, {})
      BY <1>2, <1>3, <1>5, <1>11, <2>3, NoMove DEF Owned
    <2>6. BlockIs(dos', q.sel)
      BY <1>3, <1>11, <2>2 DEF OwnsBlock
    <2>7. Topped(procs, procs', q)
      BY <1>11, <2>1, SetTop
    <2> QED
      BY <1>3, <1>11, <2>2, <2>4, <2>5, <2>6, <2>7, TopStep DEF BlockIs
  <1> QED
    BY <1>2, <1>9, <1>10, <1>11

\* A program that is in no command of system, on top.
LEMMA CalmIsOK ==
  ASSUME NEW q, Shaped(q), PipeOK(q), q.pc \in {"run", "call", "sys"},
         q.in_system = FALSE, q.sys.rm_out = FALSE, q.sys.script = NoName,
         q.sys.rm_in => q.pc = "sys" /\ q.sys.f_in # NoName,
         NoName \notin {q.std[1], q.std[2], q.home[1], q.home[2]},
         q.std = Expected(q), q.held => q.std[2] = q.home[2],
         \A x, y \in q.pipes : x.name = y.name => x = y,
         Names(q) \cap Call(q) = {}, Names(q) \cap Input(q) = {}, Call(q) \cap Input(q) = {}
  PROVE  /\ ProgramOK(q) /\ Owned(q) = Names(q) \cup Call(q) \cup Input(q)
         /\ Unmade(q) = {}
  <1>1. Output(q) = {} /\ Script(q) = {}
    BY DEF Output, Script
  <1>2. OneReason(q)
    BY <1>1 DEF OneReason
  <1>3. Redirecting(q) = FALSE
    BY DEF Redirecting
  <1>4. HandlesOK(q, FALSE)
    BY DEF HandlesOK
  <1>5. q.sys.rm_in \in BOOLEAN
    BY DEF Shaped
  <1>6. SysOK(q, FALSE)
    BY <1>5 DEF SysOK
  <1>7. ProgramOK(q)
    BY <1>2, <1>3, <1>4, <1>6 DEF ProgramOK
  <1>8. Owned(q) = Names(q) \cup Call(q) \cup Input(q)
    BY <1>1 DEF Owned
  <1>9. Unmade(q) = {}
    BY DEF Unmade
  <1> QED
    BY <1>7, <1>8, <1>9

\* The handles are put back to what they were.
LEMMA RestoredIs ==
  ASSUME NEW p, PipeOK(p), HandlesOK(p, TRUE), Shaped(p)
  PROVE  /\ Restored(p) = Expected(p)
         /\ NoName \notin {Expected(p)[1], Expected(p)[2]}
         /\ p.held => Expected(p)[2] = p.home[2]
  <1>1. /\ p.sys.bak = Expected(p)
        /\ p.sys.f_in = NoName => p.std[1] = Expected(p)[1]
        /\ p.sys.f_out = NoName => p.std[2] = Expected(p)[2]
        /\ p.sys.f_out # NoName => ~p.held
        /\ p.held => p.std[2] = p.home[2]
        /\ NoName \notin {p.home[1], p.home[2]}
    BY DEF HandlesOK
  <1>2. Expected(p)[1] # NoName /\ Expected(p)[2] # NoName
    BY <1>1 DEF Expected, PipeOK
  <1>3. IsPair(Expected(p))
    BY DEF Expected, IsPair
  <1>4. Restored(p) = <<Expected(p)[1], Expected(p)[2]>>
    BY <1>1, <1>2 DEF Restored
  <1> QED
    BY <1>1, <1>2, <1>3, <1>4 DEF IsPair

\* system is over: what it had still to remove is gone.
LEMMA ReturnedIs ==
  ASSUME NEW p, Shaped(p), NEW r \in {-1, 0, 1}
  PROVE  LET q == Returned(p, r) IN
         /\ Shaped(q) /\ q.pc = "run" /\ q.in_system = p.in_system /\ q.std = p.std
         /\ q.home = p.home /\ q.held = p.held /\ q.sel = p.sel /\ q.pipe = p.pipe
         /\ q.pipes = p.pipes /\ q.sys.rm_in = FALSE /\ q.sys.rm_out = FALSE
         /\ q.sys.script = NoName
  <1>1. PICK v \in {-1, 0, 1} :
          Returned(p, r) = [p EXCEPT !.pc = "run", !.sys = [NoSys EXCEPT !.result = v]]
    BY DEF Returned
  <1>2. PICK y : y = [NoSys EXCEPT !.result = v]
    OBVIOUS
  <1>3. /\ HasFields(y, SysFields) /\ y.result = v /\ y.rm_in = FALSE /\ y.rm_out = FALSE
        /\ y.script = NoName
    BY <1>2 DEF NoSys, HasFields, SysFields
  <1>4. PICK q : q = [p EXCEPT !.pc = "run", !.sys = y]
    OBVIOUS
  <1>5. /\ HasFields(q, Fields) /\ q.pc = "run" /\ q.sys = y /\ q.in_system = p.in_system
        /\ q.std = p.std /\ q.home = p.home /\ q.held = p.held /\ q.sel = p.sel
        /\ q.pipe = p.pipe /\ q.pipes = p.pipes
    BY <1>4 DEF Shaped, HasFields, Fields
  <1>6. /\ IsPair(p.std) /\ IsPair(p.home) /\ p.sel \in 0..2 /\ {p.held, p.in_system} \subseteq BOOLEAN
    BY DEF Shaped
  <1>7. IsPair(q.std) /\ IsPair(q.home) /\ q.sel \in 0..2
    BY <1>5, <1>6
  <1>8. {q.held, q.in_system, q.sys.rm_in, q.sys.rm_out} \subseteq BOOLEAN
    BY <1>3, <1>5, <1>6
  <1>9. Shaped(q)
    BY <1>3, <1>5, <1>7, <1>8 DEF Shaped
  <1>10. Returned(p, r) = q
    BY <1>1, <1>2, <1>4
  <1> QED
    BY <1>3, <1>5, <1>9, <1>10

LEMMA SysBackStep == ASSUME IInv, sys_back PROVE IInv'
  <1>1. PICK p : p = [Me EXCEPT !.in_system = FALSE, !.std = Restored(Me)]
    OBVIOUS
  <1>2. /\ Me.pc = "back" /\ UNCHANGED <<dos, misplaced, strays>>
        /\ \/ Set(Returned(p, Me.sys.result)) /\ temps' = temps \ Leave(Me.sys)
           \/ /\ Me.sys.sep # "EOL" /\ ~(Me.sys.result < 0)
              /\ Set([p EXCEPT !.pc = "sys",
                               !.sys.f_in = IF Me.sys.sep = "PIPE" THEN Me.sys.f_out ELSE NoName,
                               !.sys.f_out = NoName,
                               !.sys.rm_in = (Me.sys.sep = "PIPE"), !.sys.rm_out = FALSE])
              /\ temps' = temps \ (IF Me.sys.rm_in THEN {Me.sys.f_in} ELSE {})
    BY <1>1 DEF sys_back, At
  <1>3. /\ Me = procs[Len(procs)] /\ ProgramOK(Me) /\ OwnsBlock(Me) /\ Shaped(Me) /\ ~misplaced
        /\ NoName \notin temps
    BY MeIsOK
  <1>4. /\ PipeOK(Me) /\ OneReason(Me) /\ HandlesOK(Me, TRUE)
        /\ Me.sys.rm_out = (Me.sys.sep = "PIPE")
        /\ Me.sys.rm_in => Me.sys.f_in # NoName
        /\ Me.sys.rm_out => Me.sys.f_out # NoName
        /\ Me.sys.script = NoName /\ Script(Me) = {}
    BY <1>2, <1>3, RedirectedIs
  <1>5. /\ Restored(Me) = Expected(Me)
        /\ NoName \notin {Expected(Me)[1], Expected(Me)[2], Me.home[1], Me.home[2]}
        /\ Me.held => Expected(Me)[2] = Me.home[2]
    BY <1>3, <1>4, RestoredIs DEF HandlesOK
  <1>6. /\ Shaped(p) /\ p.in_system = FALSE /\ p.std = Expected(Me) /\ p.home = Me.home
        /\ p.held = Me.held /\ p.sel = Me.sel /\ p.pipe = Me.pipe /\ p.pipes = Me.pipes
        /\ p.sys = Me.sys
    <2>1. /\ HasFields(p, Fields) /\ p.in_system = FALSE /\ p.std = Expected(Me) /\ p.home = Me.home
          /\ p.held = Me.held /\ p.sel = Me.sel /\ p.pipe = Me.pipe /\ p.pipes = Me.pipes
          /\ p.sys = Me.sys /\ p.pc = Me.pc
      BY <1>1, <1>3, <1>5 DEF Shaped, HasFields, Fields
    <2>2. IsPair(p.std)
      BY <2>1 DEF Expected, IsPair
    <2>3. /\ IsPair(p.home) /\ p.sel \in 0..2 /\ HasFields(p.sys, SysFields)
          /\ p.sys.result \in {-1, 0, 1}
          /\ p.pc \in {"start", "run", "call", "sys", "go", "back", "child"}
      BY <1>3, <2>1 DEF Shaped
    <2>4. {p.held, p.in_system, p.sys.rm_in, p.sys.rm_out} \subseteq BOOLEAN
      BY <1>3, <2>1 DEF Shaped
    <2> QED
      BY <2>1, <2>2, <2>3, <2>4 DEF Shaped
  <1>7. /\ \A x, y \in Me.pipes : x.name = y.name => x = y
        /\ Names(Me) \cap Call(Me) = {} /\ Names(Me) \cap Input(Me) = {}
        /\ Names(Me) \cap Output(Me) = {} /\ Call(Me) \cap Input(Me) = {}
        /\ Call(Me) \cap Output(Me) = {} /\ Input(Me) \cap Output(Me) = {}
        /\ Owned(Me) = Names(Me) \cup Call(Me) \cup Input(Me) \cup Output(Me)
    BY <1>4 DEF OneReason, Owned
  <1>8. Unmade(Me) = (IF Me.sys.result < 0 THEN Output(Me) ELSE {})
    BY <1>2 DEF Unmade
  <1>9. CASE Set(Returned(p, Me.sys.result)) /\ temps' = temps \ Leave(Me.sys)
    <2>1. Me.sys.result \in {-1, 0, 1}
      BY <1>3 DEF Shaped
    <2>2. PICK q : q = Returned(p, Me.sys.result)
      OBVIOUS
    <2>3. /\ Shaped(q) /\ q.pc = "run" /\ q.in_system = FALSE /\ q.std = Expected(Me)
          /\ q.home = Me.home /\ q.held = Me.held /\ q.sel = Me.sel /\ q.pipe = Me.pipe
          /\ q.pipes = Me.pipes /\ q.sys.rm_in = FALSE /\ q.sys.rm_out = FALSE
          /\ q.sys.script = NoName
      BY <1>6, <2>1, <2>2, ReturnedIs
    <2>4. /\ Names(q) = Names(Me) /\ Call(q) = Call(Me) /\ Input(q) = {} /\ Expected(q) = Expected(Me)
      BY <2>3 DEF Names, Call, Input, Expected
    <2>5. PipeOK(q)
      BY <1>4, <2>3 DEF PipeOK
    <2>6. /\ ProgramOK(q) /\ Owned(q) = Names(Me) \cup Call(Me) /\ Unmade(q) = {}
      <3>1. /\ q.sys.rm_in = FALSE /\ q.sys.rm_out = FALSE /\ q.sys.script = NoName
            /\ NoName \notin {q.std[1], q.std[2], q.home[1], q.home[2]}
            /\ q.std = Expected(q) /\ (q.held => q.std[2] = q.home[2])
            /\ \A x, y1 \in q.pipes : x.name = y1.name => x = y1
            /\ Names(q) \cap Call(q) = {} /\ Names(q) \cap Input(q) = {}
            /\ Call(q) \cap Input(q) = {}
        BY <1>5, <1>7, <2>3, <2>4
      <3>2. ProgramOK(q) /\ Owned(q) = Names(q) \cup Call(q) \cup Input(q) /\ Unmade(q) = {}
        BY <2>3, <2>5, <3>1, CalmIsOK
      <3> QED
        BY <2>4, <3>2
    <2>7. PICK R : R = Input(Me) \cup Output(Me)
      OBVIOUS
    <2>8. temps' = temps \ R
      BY <1>9, <2>7 DEF Leave, Input, Output
    <2>9. /\ Owned(q) = Owned(Me) \ R /\ R \subseteq Owned(Me) /\ Unmade(Me) \subseteq R
      BY <1>7, <1>8, <2>6, <2>7
    <2>10. Moves(Me, q, R, {}, {})
      BY <1>2, <1>3, <2>8, <2>9 DEF Moves, FilesMove
    <2>11. BlockIs(dos', q.sel)
      BY <1>2, <1>3, <2>3 DEF OwnsBlock
    <2>12. Topped(procs, procs', q)
      BY <1>9, <2>2, SetTop
    <2> QED
      BY <1>2, <1>3, <2>3, <2>6, <2>10, <2>11, <2>12, TopStep DEF BlockIs
  <1>10. CASE /\ Me.sys.sep # "EOL" /\ ~(Me.sys.result < 0)
              /\ Set([p EXCEPT !.pc = "sys",
                               !.sys.f_in = IF Me.sys.sep = "PIPE" THEN Me.sys.f_out ELSE NoName,
                               !.sys.f_out = NoName,
                               !.sys.rm_in = (Me.sys.sep = "PIPE"), !.sys.rm_out = FALSE])
              /\ temps' = temps \ (IF Me.sys.rm_in THEN {Me.sys.f_in} ELSE {})
    <2>0. PICK piped, f : /\ piped = (Me.sys.sep = "PIPE")
                          /\ f = (IF Me.sys.sep = "PIPE" THEN Me.sys.f_out ELSE NoName)
      OBVIOUS
    <2>1. PICK q : q = [p EXCEPT !.pc = "sys", !.sys.f_in = f, !.sys.f_out = NoName,
                                 !.sys.rm_in = piped, !.sys.rm_out = FALSE]
      OBVIOUS
    <2>2. /\ HasFields(q, Fields) /\ HasFields(q.sys, SysFields) /\ q.pc = "sys"
          /\ q.in_system = FALSE /\ q.std = Expected(Me)
          /\ q.home = Me.home /\ q.held = Me.held /\ q.sel = Me.sel /\ q.pipe = Me.pipe
          /\ q.pipes = Me.pipes
          /\ q.sys.f_in = f /\ q.sys.rm_in = piped /\ q.sys.rm_out = FALSE
          /\ q.sys.script = NoName /\ q.sys.result = Me.sys.result
      BY <1>4, <1>6, <2>1 DEF Shaped, HasFields, Fields, SysFields
    <2>3. Shaped(q)
      <3>1. /\ IsPair(q.std) /\ IsPair(q.home) /\ q.sel \in 0..2 /\ q.held \in BOOLEAN
            /\ q.sys.result \in {-1, 0, 1}
        BY <1>6, <2>2 DEF Shaped
      <3>2. {q.held, q.in_system, q.sys.rm_in, q.sys.rm_out} \subseteq BOOLEAN
        BY <2>0, <2>2, <3>1
      <3> QED
        BY <2>2, <3>1, <3>2 DEF Shaped
    <2>4. Input(q) = Output(Me)
      BY <1>4, <2>0, <2>2 DEF Input, Output
    <2>5. /\ Names(q) = Names(Me) /\ Call(q) = Call(Me) /\ Expected(q) = Expected(Me)
      BY <2>2 DEF Names, Call, Expected
    <2>6. PipeOK(q)
      BY <1>4, <2>2 DEF PipeOK
    <2>7. q.sys.rm_in => q.sys.f_in # NoName
      BY <1>4, <2>0, <2>2
    <2>8. /\ ProgramOK(q) /\ Owned(q) = Names(Me) \cup Call(Me) \cup Output(Me) /\ Unmade(q) = {}
      BY <1>5, <1>7, <2>2, <2>3, <2>4, <2>5, <2>6, <2>7, CalmIsOK
    <2>9. PICK R : R = Input(Me)
      OBVIOUS
    <2>10. temps' = temps \ R
      BY <1>10, <2>9 DEF Input
    <2>11. /\ Owned(q) = Owned(Me) \ R /\ R \subseteq Owned(Me) /\ Unmade(Me) = {}
      BY <1>7, <1>8, <1>10, <2>8, <2>9
    <2>12. Moves(Me, q, R, {}, {})
      BY <1>2, <1>3, <2>10, <2>11 DEF Moves, FilesMove
    <2>13. BlockIs(dos', q.sel)
      BY <1>2, <1>3, <2>2 DEF OwnsBlock
    <2>14. Topped(procs, procs', q)
      BY <1>10, <2>0, <2>1, SetTop
    <2> QED
      BY <1>2, <1>3, <2>2, <2>8, <2>12, <2>13, <2>14, TopStep DEF BlockIs
  <1> QED
    BY <1>2, <1>9, <1>10

\* What a command of the line needs: its ends, and whether a file is made.
Command(in, out, pipe, sep, prog, words, line, at) ==
  \E opened, made \in BOOLEAN :
    /\ in = NoName => opened
    /\ out = NoName => made
    /\ temps' = temps \cup (IF pipe /\ made THEN {out} ELSE {})
    /\ Set([Me EXCEPT
         !.held = Flushed(Me, out),
         !.std = <<IF in # NoName /\ opened THEN in ELSE @[1],
                   IF out # NoName /\ made THEN out ELSE @[2]>>,
         !.sys = [Me.sys EXCEPT !.prog = prog, !.words = words, !.sep = sep,
                                !.f_in = in, !.f_out = out, !.rm_out = pipe, !.bak = Me.std,
                                !.line = line, !.at = at,
                                !.result = IF opened /\ made THEN @ ELSE -1],
         !.pc = IF opened /\ made /\ Me.sys.result = 0 THEN "go" ELSE "back"])

\* With nothing in Uses, every call of DOS that the model asks about succeeds.
LEMMA Granted ==
  ASSUME Uses = {}, NEW done \in BOOLEAN, NEW refusal, Allowed(done, refusal)
  PROVE  done = TRUE
  BY DEF Allowed

LEMMA CommandIs ==
  ASSUME Uses = {}, IInv, sys_command
  PROVE  \/ Set(Returned(Me, -1)) /\ temps' = temps \ Leave(Me.sys)
         \/ \E in, out, pipe, sep, prog, words, line, at :
              /\ pipe = (sep = "PIPE") /\ (pipe => NameLeft /\ out = tmpnam)
              /\ Me.sys.f_in # NoName => in = Me.sys.f_in
              /\ Command(in, out, pipe, sep, prog, words, line, at)
  <1> DEFINE s == Me.sys
             c == Collect(s.line, s.at, s.f_in # NoName)
             pipe == c.sep = "PIPE"
             in == IF s.f_in # NoName THEN s.f_in ELSE c.from
             out == IF pipe THEN tmpnam ELSE c.to
             line == IF c.sep = "EOL" THEN <<>> ELSE s.line
             at == IF c.sep = "EOL" THEN 1 ELSE c.at
             new == [s EXCEPT !.prog = c.prog, !.words = c.words, !.sep = c.sep,
                              !.f_in = in, !.f_out = out, !.rm_out = pipe, !.bak = Me.std,
                              !.line = IF c.sep = "EOL" THEN <<>> ELSE @,
                              !.at = IF c.sep = "EOL" THEN 1 ELSE c.at]
             more(opened, made) ==
                    [s EXCEPT !.prog = c.prog, !.words = c.words, !.sep = c.sep,
                              !.f_in = in, !.f_out = out, !.rm_out = pipe, !.bak = Me.std,
                              !.line = line, !.at = at,
                              !.result = IF opened /\ made THEN @ ELSE -1]
             base(opened, made) ==
               /\ pipe => NameLeft
               /\ in = NoName => opened
               /\ out = NoName => made
               /\ temps' = temps \cup (IF pipe /\ made THEN {out} ELSE {})
               /\ Set([Me EXCEPT
                    !.held = Flushed(Me, out),
                    !.std = <<IF in # NoName /\ opened THEN in ELSE @[1],
                              IF out # NoName /\ made THEN out ELSE @[2]>>,
                    !.sys = [new EXCEPT !.result = IF opened /\ made THEN @ ELSE -1, !.bak = @],
                    !.pc = IF opened /\ made /\ new.result = 0 THEN "go" ELSE "back"])
  <1>1. HasFields(s, SysFields)
    BY MeIsOK DEF Shaped
  <1>2. /\ new.result = s.result
        /\ \A opened, made \in BOOLEAN :
             [new EXCEPT !.result = IF opened /\ made THEN @ ELSE -1, !.bak = @] = more(opened, made)
    <2> HIDE DEF c, in, out, pipe
    <2>1. /\ HasFields(new, SysFields) /\ new.result = s.result
          /\ new.prog = c.prog /\ new.words = c.words /\ new.sep = c.sep /\ new.f_in = in
          /\ new.f_out = out /\ new.rm_in = s.rm_in /\ new.rm_out = pipe /\ new.bak = Me.std
          /\ new.line = line /\ new.at = at /\ new.script = s.script
      <3> HIDE DEF s
      <3> QED
        BY <1>1 DEF HasFields, SysFields
    <2> SUFFICES ASSUME NEW opened \in BOOLEAN, NEW made \in BOOLEAN
                 PROVE  [new EXCEPT !.result = IF opened /\ made THEN @ ELSE -1, !.bak = @]
                        = more(opened, made)
      BY <2>1
    <2> HIDE DEF s, new, line, at
    <2> QED
      BY <1>1, <2>1 DEF HasFields, SysFields
  <1>3. \/ Set(Returned(Me, -1)) /\ temps' = temps \ Leave(s)
        \/ \E opened, made \in BOOLEAN : base(opened, made)
    <2> DEFINE raw(opened, made, dupped) ==
                 /\ pipe => NameLeft
                 /\ in = NoName => opened
                 /\ out = NoName => made
                 /\ Allowed(dupped, "dup_fails") /\ ({in, out} = {NoName} => dupped)
                 /\ temps' = temps \cup (IF pipe /\ made THEN {out} ELSE {})
                 /\ LET ok == opened /\ made /\ dupped IN
                     Set([Me EXCEPT
                       !.held = Flushed(Me, out),
                       !.std = <<IF in # NoName /\ opened THEN in ELSE @[1],
                                 IF out # NoName /\ made THEN out ELSE @[2]>>,
                       !.sys = [new EXCEPT !.result = IF ok THEN @ ELSE -1,
                                           !.bak = IF dupped THEN @ ELSE <<NoName, NoName>>],
                       !.pc = IF ok /\ new.result = 0 THEN "go" ELSE "back"])
    <2>1. IF c.sep = "error"
            THEN Set(Returned(Me, -1)) /\ temps' = temps \ Leave(s)
            ELSE \E opened, made, dupped \in BOOLEAN : raw(opened, made, dupped)
      <3>1. redirect(c)
        BY Zenon DEF sys_command
      <3> HIDE DEF c
      <3> QED
        BY <3>1, Zenon DEF redirect
    <2>2. ASSUME NEW opened \in BOOLEAN, NEW made \in BOOLEAN, NEW dupped \in BOOLEAN,
                 raw(opened, made, dupped)
          PROVE  dupped = TRUE
      <3> HIDE DEF c, in, out, new
      <3> QED
        BY <2>2, Granted
    <2>3. (\E opened, made, dupped \in BOOLEAN : raw(opened, made, dupped))
          => \E opened, made \in BOOLEAN : raw(opened, made, TRUE)
      <3> HIDE DEF raw
      <3> QED
        BY <2>2
    <2>4. ASSUME NEW opened \in BOOLEAN, NEW made \in BOOLEAN, raw(opened, made, TRUE)
          PROVE  base(opened, made)
      <3> HIDE DEF c, in, out, pipe
      <3> QED
        BY <2>4, Zenon
    <2> HIDE DEF raw, base, c
    <2> QED
      BY <2>1, <2>3, <2>4
  <1>4. ASSUME NEW opened \in BOOLEAN, NEW made \in BOOLEAN, base(opened, made)
        PROVE  /\ Command(in, out, pipe, c.sep, c.prog, c.words, line, at)
               /\ pipe => NameLeft /\ out = tmpnam
               /\ s.f_in # NoName => in = s.f_in
    <2> HIDE DEF c
    <2>1. Set([Me EXCEPT
                  !.held = Flushed(Me, out),
                  !.std = <<IF in # NoName /\ opened THEN in ELSE @[1],
                            IF out # NoName /\ made THEN out ELSE @[2]>>,
                  !.sys = more(opened, made),
                  !.pc = IF opened /\ made /\ Me.sys.result = 0 THEN "go" ELSE "back"])
      <3> HIDE DEF new, more, in, out, pipe
      <3> QED
        BY <1>2, <1>4
    <2>2. Command(in, out, pipe, c.sep, c.prog, c.words, line, at)
      <3> HIDE DEF in, out, pipe, line, at
      <3>1. (in = NoName => opened) /\ (out = NoName => made)
            /\ temps' = temps \cup (IF pipe /\ made THEN {out} ELSE {})
        BY <1>4
      <3> HIDE DEF base
      <3> USE DEF Command
      <3> WITNESS opened \in BOOLEAN, made \in BOOLEAN
      <3> QED
        BY <2>1, <3>1
    <2>3. pipe => NameLeft
      BY <1>4
    <2> QED
      BY <2>2, <2>3
  <1> HIDE DEF c, in, out, line, at, base
  <1> QED
    BY <1>3, <1>4

\* One on top of the stack that is in no command of system.
LEMMA CalmIs ==
  ASSUME NEW p, ProgramOK(p), p.pc \in {"run", "call", "sys"}
  PROVE  /\ Shaped(p) /\ PipeOK(p) /\ OneReason(p) /\ p.std = Expected(p)
         /\ NoName \notin {p.std[1], p.std[2], p.home[1], p.home[2]}
         /\ p.held => p.std[2] = p.home[2]
         /\ p.in_system = FALSE /\ p.sys.rm_out = FALSE /\ p.sys.script = NoName
         /\ p.sys.rm_in => p.sys.f_in # NoName
         /\ p.pc # "sys" => p.sys.rm_in = FALSE
         /\ Owned(p) = Names(p) \cup Call(p) \cup Input(p) /\ Unmade(p) = {}
         /\ Output(p) = {} /\ Script(p) = {}
  <1>1. /\ Shaped(p) /\ PipeOK(p) /\ OneReason(p)
        /\ HandlesOK(p, Redirecting(p)) /\ SysOK(p, Redirecting(p))
        /\ p.in_system => p.pc \in {"child", "back"}
        /\ p.pc # "child" => p.sys.script = NoName
    BY DEF ProgramOK
  <1>2. {p.in_system, p.sys.rm_in, p.sys.rm_out} \subseteq BOOLEAN
    BY <1>1 DEF Shaped
  <1>3. p.in_system = FALSE /\ Redirecting(p) = FALSE
    BY <1>1, <1>2 DEF Redirecting
  <1>4. HandlesOK(p, FALSE) /\ SysOK(p, FALSE)
    BY <1>1, <1>3
  <1>5. /\ p.sys.rm_out = FALSE /\ (p.sys.rm_in => p.sys.f_in # NoName)
        /\ p.pc # "sys" => p.sys.rm_in = FALSE
    BY <1>2, <1>4 DEF SysOK
  <1>6. /\ p.std = Expected(p) /\ NoName \notin {p.std[1], p.std[2], p.home[1], p.home[2]}
        /\ p.held => p.std[2] = p.home[2]
    BY <1>4 DEF HandlesOK
  <1>7. Output(p) = {} /\ Script(p) = {} /\ p.sys.script = NoName
    BY <1>1, <1>5 DEF Output, Script
  <1>8. Owned(p) = Names(p) \cup Call(p) \cup Input(p) /\ Unmade(p) = {}
    BY <1>7 DEF Owned, Unmade
  <1> QED
    BY <1>1, <1>3, <1>5, <1>6, <1>7, <1>8

LEMMA SysCommandStep == ASSUME Uses = {}, IInv, sys_command PROVE IInv'
  <1>1. Me.pc = "sys" /\ UNCHANGED <<dos, misplaced, strays>>
    BY DEF sys_command, redirect, At
  <1>2. /\ Me = procs[Len(procs)] /\ ProgramOK(Me) /\ OwnsBlock(Me) /\ Shaped(Me) /\ ~misplaced
        /\ NoName \notin temps /\ Owned(Me) \ Unmade(Me) \subseteq temps
    BY MeIsOK
  <1>3. /\ PipeOK(Me) /\ OneReason(Me) /\ Me.std = Expected(Me)
        /\ NoName \notin {Me.std[1], Me.std[2], Me.home[1], Me.home[2]}
        /\ Me.held => Me.std[2] = Me.home[2]
        /\ Me.in_system = FALSE /\ Me.sys.rm_out = FALSE /\ Me.sys.script = NoName
        /\ Me.sys.rm_in => Me.sys.f_in # NoName
        /\ Owned(Me) = Names(Me) \cup Call(Me) \cup Input(Me) /\ Unmade(Me) = {}
        /\ Output(Me) = {} /\ Script(Me) = {}
    BY <1>1, <1>2, CalmIs
  <1>4. /\ \A x, y \in Me.pipes : x.name = y.name => x = y
        /\ Names(Me) \cap Call(Me) = {} /\ Names(Me) \cap Input(Me) = {}
        /\ Call(Me) \cap Input(Me) = {}
    BY <1>3 DEF OneReason
  <1>5. CASE Set(Returned(Me, -1)) /\ temps' = temps \ Leave(Me.sys)
    <2>1. PICK q : q = Returned(Me, -1)
      OBVIOUS
    <2>2. /\ Shaped(q) /\ q.pc = "run" /\ q.in_system = FALSE /\ q.std = Me.std
          /\ q.home = Me.home /\ q.held = Me.held /\ q.sel = Me.sel /\ q.pipe = Me.pipe
          /\ q.pipes = Me.pipes /\ q.sys.rm_in = FALSE /\ q.sys.rm_out = FALSE
          /\ q.sys.script = NoName
      BY <1>2, <1>3, <2>1, ReturnedIs
    <2>3. /\ Names(q) = Names(Me) /\ Call(q) = Call(Me) /\ Input(q) = {} /\ Expected(q) = Expected(Me)
      BY <2>2 DEF Names, Call, Input, Expected
    <2>4. PipeOK(q)
      BY <1>3, <2>2 DEF PipeOK
    <2>5. /\ ProgramOK(q) /\ Owned(q) = Names(Me) \cup Call(Me) /\ Unmade(q) = {}
      <3>1. /\ NoName \notin {q.std[1], q.std[2], q.home[1], q.home[2]}
            /\ q.std = Expected(q) /\ (q.held => q.std[2] = q.home[2])
            /\ \A x, y \in q.pipes : x.name = y.name => x = y
            /\ Names(q) \cap Call(q) = {} /\ Names(q) \cap Input(q) = {}
            /\ Call(q) \cap Input(q) = {}
        BY <1>3, <1>4, <2>2, <2>3
      <3>2. ProgramOK(q) /\ Owned(q) = Names(q) \cup Call(q) \cup Input(q) /\ Unmade(q) = {}
        BY <2>2, <2>4, <3>1, CalmIsOK
      <3> QED
        BY <2>3, <3>2
    <2>6. PICK R : R = Input(Me)
      OBVIOUS
    <2>7. temps' = temps \ R
      BY <1>3, <1>5, <2>6 DEF Leave, Input
    <2>8. Owned(q) = Owned(Me) \ R /\ R \subseteq Owned(Me)
      BY <1>3, <1>4, <2>5, <2>6
    <2>9. Moves(Me, q, R, {}, {})
      BY <1>1, <1>2, <1>3, <2>7, <2>8 DEF Moves, FilesMove
    <2>10. BlockIs(dos', q.sel)
      BY <1>1, <1>2, <2>2 DEF OwnsBlock
    <2>11. Topped(procs, procs', q)
      BY <1>5, <2>1, SetTop
    <2> QED
      BY <1>1, <1>2, <2>2, <2>5, <2>9, <2>10, <2>11, TopStep DEF BlockIs
  <1>6. ASSUME NEW in, NEW out, NEW pipe, NEW sep, NEW prog, NEW words, NEW line, NEW at,
               pipe = (sep = "PIPE"), pipe => NameLeft /\ out = tmpnam,
               Me.sys.f_in # NoName => in = Me.sys.f_in,
               Command(in, out, pipe, sep, prog, words, line, at)
        PROVE  IInv'
    <2>1. PICK opened \in BOOLEAN, made \in BOOLEAN :
            /\ in = NoName => opened
            /\ out = NoName => made
            /\ temps' = temps \cup (IF pipe /\ made THEN {out} ELSE {})
            /\ Set([Me EXCEPT
                 !.held = Flushed(Me, out),
                 !.std = <<IF in # NoName /\ opened THEN in ELSE @[1],
                           IF out # NoName /\ made THEN out ELSE @[2]>>,
                 !.sys = [Me.sys EXCEPT !.prog = prog, !.words = words, !.sep = sep,
                                        !.f_in = in, !.f_out = out, !.rm_out = pipe,
                                        !.bak = Me.std, !.line = line, !.at = at,
                                        !.result = IF opened /\ made THEN @ ELSE -1],
                 !.pc = IF opened /\ made /\ Me.sys.result = 0 THEN "go" ELSE "back"])
      BY <1>6 DEF Command
    <2>2. PICK y : y = [Me.sys EXCEPT !.prog = prog, !.words = words, !.sep = sep,
                                      !.f_in = in, !.f_out = out, !.rm_out = pipe,
                                      !.bak = Me.std, !.line = line, !.at = at,
                                      !.result = IF opened /\ made THEN @ ELSE -1]
      OBVIOUS
    <2>3. PICK h, std, pc : /\ h = Flushed(Me, out)
                            /\ std = <<IF in # NoName /\ opened THEN in ELSE Me.std[1],
                                       IF out # NoName /\ made THEN out ELSE Me.std[2]>>
                            /\ pc = IF opened /\ made /\ Me.sys.result = 0 THEN "go" ELSE "back"
      OBVIOUS
    <2>4. PICK q : q = [Me EXCEPT !.held = h, !.std = std, !.sys = y, !.pc = pc]
      OBVIOUS
    <2>5. /\ HasFields(y, SysFields) /\ y.sep = sep /\ y.f_in = in /\ y.f_out = out
          /\ y.rm_in = Me.sys.rm_in /\ y.rm_out = pipe /\ y.bak = Me.std
          /\ y.script = NoName /\ y.result = (IF opened /\ made THEN Me.sys.result ELSE -1)
      BY <1>2, <1>3, <2>2 DEF Shaped, HasFields, SysFields
    <2>6. /\ HasFields(q, Fields) /\ q.pc = pc /\ q.sys = y /\ q.std = std /\ q.home = Me.home
          /\ q.held = h /\ q.sel = Me.sel /\ q.in_system = FALSE /\ q.pipe = Me.pipe
          /\ q.pipes = Me.pipes
      BY <1>2, <1>3, <2>4 DEF Shaped, HasFields, Fields
    <2>7. /\ IsPair(std) /\ h \in BOOLEAN /\ pc \in {"go", "back"} /\ pipe \in BOOLEAN
          /\ h => Me.held /\ out = NoName
      <3>1. IsPair(std)
        BY <2>3 DEF IsPair
      <3>2. Me.held \in BOOLEAN
        BY <1>2 DEF Shaped
      <3>3. h \in BOOLEAN /\ (h => Me.held /\ out = NoName)
        BY <2>3, <3>2 DEF Flushed
      <3> QED
        BY <1>6, <2>3, <3>1, <3>3
    <2>8. Shaped(q)
      <3>1. /\ IsPair(Me.home) /\ Me.sel \in 0..2 /\ Me.sys.rm_in \in BOOLEAN
            /\ Me.sys.result \in {-1, 0, 1}
        BY <1>2 DEF Shaped
      <3>2. {q.held, q.in_system, q.sys.rm_in, q.sys.rm_out} \subseteq BOOLEAN
        BY <2>5, <2>6, <2>7, <3>1
      <3>3. IsPair(q.std) /\ IsPair(q.home) /\ HasFields(q.sys, SysFields)
        BY <2>5, <2>6, <2>7, <3>1
      <3> QED
        BY <2>5, <2>6, <2>7, <3>1, <3>2, <3>3 DEF Shaped
    <2>9. pipe => out \in TmpNames \ temps /\ out # NoName
      BY <1>6, Fresh
    <2>10. PICK A : A = IF pipe THEN {out} ELSE {}
      OBVIOUS
    <2>11. /\ Names(q) = Names(Me) /\ Call(q) = Call(Me) /\ Input(q) = Input(Me)
           /\ Output(q) = A /\ Script(q) = {} /\ Expected(q) = Expected(Me)
      <3>1. Input(q) = Input(Me)
        BY <1>3, <1>6, <2>5, <2>6 DEF Input
      <3> QED
        BY <2>5, <2>6, <2>10, <3>1 DEF Names, Call, Output, Script, Expected
    <2>12. /\ Owned(q) = Owned(Me) \cup A /\ A \cap temps = {} /\ NoName \notin A
           /\ A \cap Owned(Me) = {}
      BY <1>2, <1>3, <2>9, <2>10, <2>11 DEF Owned
    <2>13. OneReason(q)
      BY <1>3, <1>4, <2>6, <2>11, <2>12 DEF OneReason
    <2>14. PipeOK(q)
      BY <1>3, <2>6 DEF PipeOK
    <2>15. Redirecting(q) = TRUE
      BY <2>6, <2>7 DEF Redirecting
    <2>16. HandlesOK(q, TRUE)
      <3>1. NoName \notin {q.std[1], q.std[2], q.home[1], q.home[2]}
        BY <1>3, <2>3, <2>6
      <3>2. /\ q.sys.bak = Expected(q)
            /\ q.sys.f_in = NoName => q.std[1] = Expected(q)[1]
            /\ q.sys.f_out = NoName => q.std[2] = Expected(q)[2]
        BY <1>3, <2>3, <2>5, <2>6, <2>11
      <3>3. q.sys.f_out # NoName => ~q.held
        BY <2>5, <2>6, <2>7
      <3>4. q.held => q.std[2] = q.home[2]
        BY <1>3, <2>3, <2>6, <2>7
      <3> QED
        BY <3>1, <3>2, <3>3, <3>4 DEF HandlesOK
    <2>17. SysOK(q, TRUE)
      <3>1. q.sys.rm_in => q.sys.f_in # NoName
        BY <1>3, <1>6, <2>5, <2>6
      <3> QED
        BY <1>6, <2>5, <2>6, <2>9, <3>1 DEF SysOK
    <2>18. ProgramOK(q)
      BY <2>5, <2>6, <2>7, <2>8, <2>13, <2>14, <2>15, <2>16, <2>17 DEF ProgramOK
    <2>19. A \ Unmade(q) \subseteq temps' /\ temps \subseteq temps' /\ temps' \subseteq temps \cup A
      <3>1. temps \subseteq temps' /\ temps' \subseteq temps \cup A
        BY <2>1, <2>10
      <3>2. CASE made
        BY <2>1, <2>10, <3>2
      <3>3. CASE ~made
        <4>1. q.pc = "back" /\ q.sys.result = -1
          BY <2>3, <2>5, <2>6, <3>3
        <4>2. Unmade(q) = A
          BY <2>11, <4>1 DEF Unmade
        <4> QED
          BY <3>1, <4>2
      <3> QED
        BY <3>1, <3>2, <3>3
    <2>20. Moves(Me, q, {}, A, {})
      BY <1>1, <1>2, <1>3, <2>12, <2>19 DEF Moves, FilesMove
    <2>21. BlockIs(dos', q.sel)
      BY <1>1, <1>2, <2>6 DEF OwnsBlock
    <2>22. Topped(procs, procs', q)
      <3>1. Set(q)
        BY <2>1, <2>2, <2>3, <2>4
      <3> QED
        BY <3>1, SetTop
    <2> QED
      BY <1>1, <1>2, <2>6, <2>7, <2>18, <2>20, <2>21, <2>22, TopStep DEF BlockIs
  <1>7. \/ Set(Returned(Me, -1)) /\ temps' = temps \ Leave(Me.sys)
        \/ \E in, out, pipe, sep, prog, words, line, at :
             /\ pipe = (sep = "PIPE") /\ (pipe => NameLeft /\ out = tmpnam)
             /\ Me.sys.f_in # NoName => in = Me.sys.f_in
             /\ Command(in, out, pipe, sep, prog, words, line, at)
    BY CommandIs
  <1> QED
    BY <1>5, <1>6, <1>7

-----------------------------------------------------------------------------
(* popen and pclose.                                                        *)

\* What a program is that is in no command of system.
CalmProgram(q) ==
  /\ Shaped(q) /\ PipeOK(q) /\ q.pc \in {"run", "call"} /\ q.in_system = FALSE
  /\ q.sys.rm_in = FALSE /\ q.sys.rm_out = FALSE /\ q.sys.script = NoName
  /\ NoName \notin {q.std[1], q.std[2], q.home[1], q.home[2]}
  /\ q.std = Expected(q) /\ (q.held => q.std[2] = q.home[2]) /\ q.sel = Me.sel
  /\ \A x, y \in q.pipes : x.name = y.name => x = y
  /\ Names(q) \cap Call(q) = {}

\* It gives up the files R, of which T become strays, and gets A.
CalmMoves(q, R, A, T) ==
  /\ Names(q) \cup Call(q) = ((Names(Me) \cup Call(Me)) \ R) \cup A
  /\ R \subseteq Names(Me) \cup Call(Me) /\ A \cap temps = {} /\ NoName \notin A /\ T \subseteq R
  /\ temps' = (temps \ (R \ T)) \cup A /\ strays' = strays \cup T
LEMMA CalmStep ==
  ASSUME IInv, Me.pc \in {"run", "call"}, NEW q, Set(q), CalmProgram(q),
         \E R, A, T : CalmMoves(q, R, A, T), UNCHANGED <<dos, misplaced>>
  PROVE  IInv'
  <1> USE DEF CalmProgram
  <1>0. PICK R, A, T : CalmMoves(q, R, A, T)
    OBVIOUS
  <1>1. /\ Me = procs[Len(procs)] /\ ProgramOK(Me) /\ OwnsBlock(Me) /\ ~misplaced
        /\ NoName \notin temps /\ Owned(Me) \ Unmade(Me) \subseteq temps
    BY MeIsOK
  <1>2. /\ Owned(Me) = Names(Me) \cup Call(Me) \cup Input(Me) /\ Unmade(Me) = {}
        /\ Me.sys.rm_in = FALSE
    BY <1>1, CalmIs
  <1>3. Owned(Me) = Names(Me) \cup Call(Me) /\ Owned(Me) \subseteq temps
    BY <1>1, <1>2 DEF Input
  <1>4. Input(q) = {}
    BY DEF Input
  <1>5. ProgramOK(q) /\ Owned(q) = Names(q) \cup Call(q) /\ Unmade(q) = {}
    BY <1>4, CalmIsOK
  <1>6. Moves(Me, q, R, A, T)
    BY <1>0, <1>1, <1>2, <1>3, <1>5 DEF Moves, FilesMove, CalmMoves
  <1>7. BlockIs(dos', q.sel)
    BY <1>1 DEF OwnsBlock
  <1>8. Topped(procs, procs', q)
    BY SetTop
  <1> QED
    BY <1>1, <1>5, <1>6, <1>7, <1>8, TopStep DEF BlockIs

LEMMA MeIsCalm ==
  ASSUME IInv, Me.pc \in {"run", "call"}
  PROVE  /\ CalmProgram(Me) /\ Names(Me) \cup Call(Me) \subseteq temps /\ NoName \notin temps
         /\ \A x \in Me.pipes \cup {Me.pipe} : HasFields(x, PipeFields)
  <1>1. /\ ProgramOK(Me) /\ NoName \notin temps /\ Owned(Me) \ Unmade(Me) \subseteq temps
    BY MeIsOK
  <1>2. /\ Shaped(Me) /\ PipeOK(Me) /\ OneReason(Me) /\ Me.std = Expected(Me)
        /\ NoName \notin {Me.std[1], Me.std[2], Me.home[1], Me.home[2]}
        /\ Me.held => Me.std[2] = Me.home[2]
        /\ Me.in_system = FALSE /\ Me.sys.rm_out = FALSE /\ Me.sys.script = NoName
        /\ Me.pc # "sys" => Me.sys.rm_in = FALSE
        /\ Owned(Me) = Names(Me) \cup Call(Me) \cup Input(Me) /\ Unmade(Me) = {}
    BY <1>1, CalmIs
  <1>3. Me.sys.rm_in = FALSE
    BY <1>2
  <1>4. \A x \in Me.pipes \cup {Me.pipe} : HasFields(x, PipeFields)
    BY <1>2 DEF PipeOK
  <1>5. /\ \A x, y \in Me.pipes : x.name = y.name => x = y
        /\ Names(Me) \cap Call(Me) = {}
    BY <1>2 DEF OneReason
  <1> QED
    BY <1>1, <1>2, <1>3, <1>4, <1>5 DEF CalmProgram

\* The call of popen that x stands for begins; or a pipe to write to is open.
PopenOpens(x) ==
  \/ Set([Past(Me) EXCEPT !.pc = "call", !.held = FALSE, !.std[2] = tmpnam,
                          !.pipe = [x EXCEPT !.bak = Me.std[2]]])
  \/ Set([Past(Me) EXCEPT !.pipes = @ \cup {[x EXCEPT !.mode = "w"]}])

\* With nothing refused, the file is opened.
LEMMA PopenIs ==
  ASSUME Uses = {}, popen
  PROVE  /\ temps' = temps \cup {tmpnam}
         /\ \E line : PopenOpens([NoPipe EXCEPT !.op = "popen", !.name = tmpnam, !.line = line])
  <1> DEFINE x(line) == [NoPipe EXCEPT !.op = "popen", !.name = tmpnam, !.line = line]
             called(line) == [Past(Me) EXCEPT !.pc = "call", !.held = FALSE, !.std[2] = tmpnam,
                                              !.pipe = [x(line) EXCEPT !.bak = Me.std[2]]]
             lost == [Past(Me) EXCEPT !.held = FALSE, !.std[2] = Closed]
             open(line) == [Past(Me) EXCEPT !.pipes = @ \cup {[x(line) EXCEPT !.mode = "w"]}]
             dead == [Past(Me) EXCEPT !.pc = "fault"]
  <1>1. PICK line \in PipeLines, opened \in BOOLEAN :
          /\ \/ Allowed(opened, "freopen_fails") /\ Set(IF opened THEN called(line) ELSE lost)
             \/ Allowed(opened, "fopen_fails") /\ Set(IF opened THEN open(line) ELSE dead)
          /\ temps' = IF opened THEN temps \cup {tmpnam} ELSE temps
    BY Zenon DEF popen
  <1> HIDE DEF called, lost, open, dead
  <1>2. opened = TRUE
    BY <1>1, Granted
  <1>3. Set(called(line)) \/ Set(open(line))
    BY <1>1, <1>2
  <1>4. PopenOpens(x(line))
    BY <1>3, Zenon DEF PopenOpens, called, open
  <1> QED
    BY <1>1, <1>2, <1>4

LEMMA PopenStep == ASSUME Uses = {}, IInv, popen PROVE IInv'
  <1>1. /\ Me.pc = "run" /\ Me.pipe = NoPipe /\ NameLeft
        /\ temps' = temps \cup {tmpnam} /\ UNCHANGED <<dos, strays, misplaced>>
        /\ \E line : PopenOpens([NoPipe EXCEPT !.op = "popen", !.name = tmpnam, !.line = line])
    <2>1. Me.pc = "run" /\ Me.pipe = NoPipe /\ NameLeft /\ UNCHANGED <<dos, strays, misplaced>>
      BY DEF popen, Mine, Idle
    <2> QED
      BY <2>1, PopenIs, Zenon
  <1>2. /\ CalmProgram(Me) /\ Names(Me) \cup Call(Me) \subseteq temps
        /\ \A y \in Me.pipes \cup {Me.pipe} : HasFields(y, PipeFields)
    BY <1>1, MeIsCalm
  <1>3. /\ Shaped(Me) /\ PipeOK(Me) /\ Me.std = Expected(Me)
        /\ NoName \notin {Me.std[1], Me.std[2], Me.home[1], Me.home[2]}
        /\ Me.held => Me.std[2] = Me.home[2]
        /\ Me.in_system = FALSE /\ Me.sys.rm_in = FALSE /\ Me.sys.rm_out = FALSE
        /\ Me.sys.script = NoName
        /\ \A y, z \in Me.pipes : y.name = z.name => y = z
        /\ Names(Me) \cup Call(Me) \subseteq temps
        /\ \A y \in Me.pipes : HasFields(y, PipeFields)
    BY <1>2 DEF CalmProgram
  <1>4. PICK n : n = tmpnam
    OBVIOUS
  <1>5. n \in TmpNames \ temps /\ n # NoName
    BY <1>1, <1>4, Fresh
  <1>6. PICK line : PopenOpens([NoPipe EXCEPT !.op = "popen", !.name = n, !.line = line])
    BY <1>1, <1>4
  <1>7. PICK x : x = [NoPipe EXCEPT !.op = "popen", !.name = n, !.line = line]
    OBVIOUS
  <1>8. PopenOpens(x) /\ HasFields(x, PipeFields) /\ x.op = "popen" /\ x.name = n
    BY <1>6, <1>7 DEF NoPipe, HasFields, PipeFields
  <1>9. Call(Me) = {} /\ Me.pipe.op = "none" /\ Me.std = <<Me.home[1], Me.home[2]>>
    BY <1>1, <1>3 DEF Call, NoPipe, Expected
  <1>10. PICK o : o = Past(Me)
    OBVIOUS
  <1>11. Shaped(o) /\ Same(Me, o) /\ o.sys = Me.sys /\ o.sel = Me.sel /\ o.pc = "run"
    BY <1>1, <1>3, <1>10, PastIs
  <1>12. o.std = Me.std /\ o.home = Me.home /\ o.held = Me.held /\ o.in_system = FALSE
         /\ o.pipe = NoPipe /\ o.pipes = Me.pipes
    BY <1>1, <1>3, <1>11 DEF Same
  <1>13. CASE Set([Past(Me) EXCEPT !.pc = "call", !.held = FALSE, !.std[2] = tmpnam,
                                   !.pipe = [x EXCEPT !.bak = Me.std[2]]])
    <2>1. PICK y : y = [x EXCEPT !.bak = Me.std[2]]
      OBVIOUS
    <2>2. HasFields(y, PipeFields) /\ y.op = "popen" /\ y.name = n /\ y.bak = Me.std[2]
      BY <1>8, <2>1 DEF HasFields, PipeFields
    <2>3. PICK std : std = [Me.std EXCEPT ![2] = n]
      OBVIOUS
    <2>4. std = <<Me.home[1], n>>
      BY <1>9, <2>3
    <2>5. PICK q : q = [o EXCEPT !.pc = "call", !.held = FALSE, !.std = std, !.pipe = y]
      OBVIOUS
    <2>6. /\ HasFields(q, Fields) /\ q.pc = "call" /\ q.held = FALSE /\ q.std = std
          /\ q.pipe = y /\ q.home = Me.home /\ q.sys = Me.sys /\ q.sel = Me.sel
          /\ q.in_system = FALSE /\ q.pipes = Me.pipes
      BY <1>11, <1>12, <2>5 DEF Shaped, HasFields, Fields
    <2>7. Shaped(q)
      <3>1. IsPair(q.std)
        BY <2>4, <2>6 DEF IsPair
      <3>2. /\ IsPair(q.home) /\ q.sel \in 0..2 /\ HasFields(q.sys, SysFields)
            /\ q.sys.result \in {-1, 0, 1}
        BY <1>3, <2>6 DEF Shaped
      <3>3. {q.held, q.in_system, q.sys.rm_in, q.sys.rm_out} \subseteq BOOLEAN
        BY <1>3, <2>6
      <3> QED
        BY <2>6, <3>1, <3>2, <3>3 DEF Shaped
    <2>8. Expected(q) = <<Me.home[1], n>> /\ Names(q) = Names(Me) /\ Call(q) = {n}
      BY <2>2, <2>6 DEF Expected, Names, Call
    <2>9. PipeOK(q)
      <3>1. q.pipe.bak = q.home[2]
        BY <1>9, <2>2, <2>6
      <3> QED
        BY <1>3, <1>5, <2>2, <2>6, <3>1 DEF PipeOK
    <2>10. Set(q)
      <3>1. [Past(Me) EXCEPT !.pc = "call", !.held = FALSE, !.std[2] = tmpnam,
                             !.pipe = [x EXCEPT !.bak = Me.std[2]]] = q
        BY <1>4, <1>10, <1>11, <1>12, <2>1, <2>3, <2>5 DEF Shaped, HasFields, Fields
      <3> QED
        BY <1>13, <3>1
    <2>11. /\ NoName \notin {q.std[1], q.std[2], q.home[1], q.home[2]} /\ q.std = Expected(q)
           /\ \A v, z \in q.pipes : v.name = z.name => v = z
           /\ Names(q) \cap Call(q) = {}
      BY <1>3, <1>5, <2>4, <2>6, <2>8
    <2>12. CalmMoves(q, {}, {n}, {})
      BY <1>1, <1>4, <1>5, <1>9, <2>8 DEF CalmMoves
    <2>13. CalmProgram(q)
      BY <1>3, <2>6, <2>7, <2>9, <2>11 DEF CalmProgram
    <2> QED
      BY <1>1, <2>10, <2>12, <2>13, CalmStep
  <1>14. CASE Set([Past(Me) EXCEPT !.pipes = @ \cup {[x EXCEPT !.mode = "w"]}])
    <2>1. PICK y : y = [x EXCEPT !.mode = "w"]
      OBVIOUS
    <2>2. HasFields(y, PipeFields) /\ y.name = n
      BY <1>8, <2>1 DEF HasFields, PipeFields
    <2>3. PICK q : q = [o EXCEPT !.pipes = Me.pipes \cup {y}]
      OBVIOUS
    <2>4. /\ Shaped(q) /\ q.pc = "run" /\ q.held = Me.held /\ q.std = Me.std
          /\ q.pipe = NoPipe /\ q.home = Me.home /\ q.sys = Me.sys /\ q.sel = Me.sel
          /\ q.in_system = FALSE /\ q.pipes = Me.pipes \cup {y}
      BY <1>11, <1>12, <2>3 DEF Shaped, HasFields, Fields
    <2>5. Expected(q) = Expected(Me) /\ Names(q) = Names(Me) \cup {n} /\ Call(q) = {}
      BY <1>1, <1>9, <2>2, <2>4 DEF Expected, Names, Call
    <2>6. PipeOK(q)
      BY <1>1, <1>3, <2>2, <2>4 DEF PipeOK
    <2>7. Set(q)
      BY <1>10, <1>12, <1>14, <2>1, <2>3
    <2>8. \A v, z \in q.pipes : v.name = z.name => v = z
      <3>1. \A v \in Me.pipes : v.name # n
        BY <1>3, <1>5 DEF Names
      <3> QED
        BY <1>3, <2>2, <2>4, <3>1
    <2>9. /\ NoName \notin {q.std[1], q.std[2], q.home[1], q.home[2]} /\ q.std = Expected(q)
          /\ Names(q) \cap Call(q) = {} /\ (q.held => q.std[2] = q.home[2])
      BY <1>3, <2>4, <2>5
    <2>10. CalmMoves(q, {}, {n}, {})
      BY <1>1, <1>4, <1>5, <1>9, <2>5 DEF CalmMoves
    <2>11. CalmProgram(q)
      BY <1>3, <2>4, <2>6, <2>8, <2>9 DEF CalmProgram
    <2> QED
      BY <1>1, <2>7, <2>10, <2>11, CalmStep
  <1> QED
    BY <1>8, <1>13, <1>14 DEF PopenOpens

\* The call of popen or pclose is over: the handle std is put back, and the open
\* pipes are pipes now.
BackAs(q, std, pipes) ==
  /\ HasFields(q, Fields) /\ q.std = std /\ q.pipe = NoPipe /\ q.sys = NoSys /\ q.pipes = pipes
  /\ q.pc = "run" /\ q.home = Me.home /\ q.sel = Me.sel /\ q.in_system = FALSE
  /\ q.held => Me.held
LEMMA BackIs ==
  ASSUME CalmProgram(Me), NEW q, NEW std, NEW pipes, BackAs(q, std, pipes),
         std = <<Me.home[1], Me.home[2]>>, q.held \in BOOLEAN,
         \A x \in pipes : HasFields(x, PipeFields),
         \A x, y \in pipes : x.name = y.name => x = y
  PROVE  CalmProgram(q) /\ Names(q) = {x.name : x \in pipes} /\ Call(q) = {}
  <1>1. /\ HasFields(q, Fields) /\ q.std = std /\ q.pipe = NoPipe /\ q.sys = NoSys
        /\ q.pc = "run" /\ q.home = Me.home /\ q.sel = Me.sel /\ q.in_system = FALSE
        /\ q.pipes = pipes
    BY DEF BackAs
  <1>2. /\ HasFields(NoSys, SysFields) /\ NoSys.rm_in = FALSE /\ NoSys.rm_out = FALSE
        /\ NoSys.script = NoName /\ NoSys.result = 0
    BY DEF NoSys, HasFields, SysFields
  <1>3. HasFields(NoPipe, PipeFields) /\ NoPipe.op = "none"
    BY DEF NoPipe, HasFields, PipeFields
  <1>4. /\ Shaped(Me) /\ NoName \notin {Me.home[1], Me.home[2]}
    BY DEF CalmProgram
  <1>5. Shaped(q)
    <2>1. IsPair(q.std) /\ IsPair(q.home) /\ q.sel \in 0..2
      BY <1>1, <1>4 DEF Shaped, IsPair
    <2>2. HasFields(q.sys, SysFields) /\ q.sys.result = 0
      BY <1>1, <1>2
    <2>3. {q.held, q.in_system, q.sys.rm_in, q.sys.rm_out} \subseteq BOOLEAN
      BY <1>1, <1>2
    <2> QED
      BY <1>1, <2>1, <2>2, <2>3 DEF Shaped
  <1>6. Names(q) = {x.name : x \in pipes} /\ Call(q) = {} /\ Expected(q) = std
    BY <1>1, <1>3 DEF Names, Call, Expected
  <1>7. PipeOK(q)
    BY <1>1, <1>3 DEF PipeOK
  <1>8. std[1] = Me.home[1] /\ std[2] = Me.home[2]
    OBVIOUS
  <1> QED
    BY <1>1, <1>2, <1>4, <1>5, <1>6, <1>7, <1>8 DEF CalmProgram

\* With nothing refused, stdout is put back and the output is opened.
LEMMA PopenReturnIs ==
  ASSUME Uses = {}, popen_return
  PROVE  /\ Me.pc = "run" /\ Me.pipe.op = "popen" /\ UNCHANGED <<dos, temps, misplaced>>
         /\ \E failed \in BOOLEAN :
              /\ Set([Me EXCEPT !.held = FALSE, !.std[2] = Me.pipe.bak, !.pipe = NoPipe, !.sys = NoSys,
                        !.pipes = IF failed THEN @ ELSE @ \cup {[Me.pipe EXCEPT !.bak = NoName]}])
              /\ strays' = IF failed THEN strays \cup {[Me.pipe EXCEPT !.bak = NoName].name} ELSE strays
  <1> DEFINE x == [Me.pipe EXCEPT !.bak = NoName]
             failed(restored) == ~restored \/ Me.sys.result = -1
             after(restored, opened) ==
               [Me EXCEPT !.pc = IF opened THEN @ ELSE "fault", !.held = FALSE,
                          !.std[2] = IF restored THEN Me.pipe.bak ELSE @,
                          !.pipe = NoPipe, !.sys = NoSys,
                          !.pipes = IF failed(restored) \/ ~opened THEN @ ELSE @ \cup {x}]
             good(f) == [Me EXCEPT !.held = FALSE, !.std[2] = Me.pipe.bak, !.pipe = NoPipe,
                                   !.sys = NoSys, !.pipes = IF f THEN @ ELSE @ \cup {x}]
  <1>1. Me.pc = "run" /\ Me.pipe.op = "popen" /\ UNCHANGED <<dos, temps, misplaced>>
    BY DEF popen_return, At
  <1>2. PICK restored \in BOOLEAN, opened \in BOOLEAN :
          /\ Allowed(restored, "dup2_fails") /\ Allowed(opened, "fopen_fails")
          /\ Set(after(restored, opened))
          /\ strays' = IF failed(restored) THEN strays \cup {x.name} ELSE strays
    BY Zenon DEF popen_return
  <1>3. restored = TRUE /\ opened = TRUE
    BY <1>2, Granted
  <1>4. PICK f \in BOOLEAN : f = failed(TRUE)
    OBVIOUS
  <1>5. after(TRUE, TRUE) = good(f)
    <2>1. (f \/ ~TRUE) = f
      OBVIOUS
    <2> QED
      BY <1>4, <2>1
  <1>6. Set(good(f)) /\ strays' = IF f THEN strays \cup {x.name} ELSE strays
    <2> HIDE DEF after, good, x
    <2> QED
      BY <1>2, <1>3, <1>4, <1>5
  <1> QED
    BY <1>1, <1>6, Zenon

LEMMA PopenReturnStep == ASSUME Uses = {}, IInv, popen_return PROVE IInv'
  <1>1. /\ Me.pc = "run" /\ Me.pipe.op = "popen" /\ UNCHANGED <<dos, temps, misplaced>>
        /\ \E failed \in BOOLEAN :
             /\ Set([Me EXCEPT !.held = FALSE, !.std[2] = Me.pipe.bak, !.pipe = NoPipe, !.sys = NoSys,
                       !.pipes = IF failed THEN @ ELSE @ \cup {[Me.pipe EXCEPT !.bak = NoName]}])
             /\ strays' = IF failed THEN strays \cup {[Me.pipe EXCEPT !.bak = NoName].name} ELSE strays
    BY PopenReturnIs, Zenon
  <1>2. /\ CalmProgram(Me) /\ Names(Me) \cup Call(Me) \subseteq temps /\ NoName \notin temps
        /\ \A x \in Me.pipes \cup {Me.pipe} : HasFields(x, PipeFields)
    BY <1>1, MeIsCalm
  <1>3. /\ Shaped(Me) /\ PipeOK(Me) /\ Me.std = Expected(Me) /\ Me.in_system = FALSE
        /\ \A x, y \in Me.pipes : x.name = y.name => x = y
        /\ Names(Me) \cap Call(Me) = {}
    BY <1>2 DEF CalmProgram
  <1>4. PICK n : n = Me.pipe.name
    OBVIOUS
  <1>5. /\ Me.pipe.bak = Me.home[2] /\ Me.std = <<Me.home[1], n>> /\ Call(Me) = {n}
    BY <1>1, <1>3, <1>4 DEF PipeOK, Expected, Call
  <1>6. PICK x : x = [Me.pipe EXCEPT !.bak = NoName]
    OBVIOUS
  <1>7. HasFields(x, PipeFields) /\ x.name = n
    BY <1>2, <1>4, <1>6 DEF HasFields, PipeFields
  <1>8. PICK failed \in BOOLEAN :
             /\ Set([Me EXCEPT !.held = FALSE, !.std[2] = Me.pipe.bak, !.pipe = NoPipe, !.sys = NoSys,
                       !.pipes = IF failed THEN @ ELSE @ \cup {x}])
             /\ strays' = IF failed THEN strays \cup {n} ELSE strays
    BY <1>1, <1>6, <1>7
  <1>9. PICK pipes : pipes = IF failed THEN Me.pipes ELSE Me.pipes \cup {x}
    OBVIOUS
  <1>10. PICK std : std = [Me.std EXCEPT ![2] = Me.pipe.bak]
    OBVIOUS
  <1>11. std = <<Me.home[1], Me.home[2]>>
    BY <1>5, <1>10
  <1>12. PICK q : q = [Me EXCEPT !.held = FALSE, !.std = std, !.pipe = NoPipe, !.sys = NoSys,
                                 !.pipes = pipes]
    OBVIOUS
  <1>13. BackAs(q, std, pipes) /\ q.held = FALSE
    BY <1>1, <1>3, <1>12 DEF BackAs, Shaped, HasFields, Fields
  <1>14. /\ \A y \in pipes : HasFields(y, PipeFields)
         /\ \A y, z \in pipes : y.name = z.name => y = z
    <2>1. \A y \in Me.pipes : y.name # n
      BY <1>3, <1>5 DEF Names
    <2> QED
      BY <1>2, <1>3, <1>7, <1>9, <2>1
  <1>15. /\ CalmProgram(q) /\ Names(q) = {y.name : y \in pipes} /\ Call(q) = {}
    BY <1>2, <1>11, <1>13, <1>14, BackIs
  <1>16. Set(q)
    BY <1>8, <1>9, <1>10, <1>12
  <1>17. PICK R : R = IF failed THEN {n} ELSE {}
    OBVIOUS
  <1>18. CalmMoves(q, R, {}, R)
    <2>1. CASE failed
      <3>1. Names(q) = Names(Me)
        BY <1>9, <1>15, <2>1 DEF Names
      <3> QED
        BY <1>1, <1>3, <1>5, <1>8, <1>15, <1>17, <2>1, <3>1 DEF CalmMoves
    <2>2. CASE ~failed
      <3>1. Names(q) = Names(Me) \cup {n}
        BY <1>7, <1>9, <1>15, <2>2 DEF Names
      <3> QED
        BY <1>1, <1>3, <1>5, <1>8, <1>15, <1>17, <2>2, <3>1 DEF CalmMoves
    <2> QED
      BY <2>1, <2>2
  <1> QED
    BY <1>1, <1>15, <1>16, <1>18, CalmStep

\* With nothing refused, stdin is put back.
LEMMA ReopenedIs ==
  ASSUME Uses = {}, NEW restored \in BOOLEAN, Reopened(restored)
  PROVE  Set([Me EXCEPT !.std[1] = Me.pipe.bak, !.pipe = NoPipe, !.sys = NoSys])
  <1> DEFINE after(r) == [Me EXCEPT !.std[1] = IF r THEN Me.pipe.bak ELSE Closed,
                                    !.pipe = NoPipe, !.sys = NoSys]
  <1>1. Allowed(restored, "dup2_fails") /\ Set(after(restored))
    BY Zenon DEF Reopened
  <1>2. restored = TRUE
    BY <1>1, Granted
  <1>3. after(TRUE) = [Me EXCEPT !.std[1] = Me.pipe.bak, !.pipe = NoPipe, !.sys = NoSys]
    OBVIOUS
  <1> HIDE DEF after
  <1> QED
    BY <1>1, <1>2, <1>3, Zenon

LEMMA PcloseReturnStep == ASSUME Uses = {}, IInv, pclose_return PROVE IInv'
  <1>1. /\ Me.pc = "run" /\ Me.pipe.op = "pclose" /\ UNCHANGED <<dos, strays, misplaced>>
        /\ Set([Me EXCEPT !.std[1] = Me.pipe.bak, !.pipe = NoPipe, !.sys = NoSys])
        /\ temps' = temps \ {Me.pipe.name}
    <2>1. /\ Me.pc = "run" /\ Me.pipe.op = "pclose" /\ UNCHANGED <<dos, strays, misplaced>>
          /\ temps' = temps \ {Me.pipe.name}
      BY DEF pclose_return, At
    <2>2. PICK restored \in BOOLEAN : Reopened(restored)
      BY Zenon DEF pclose_return
    <2> QED
      BY <2>1, <2>2, ReopenedIs, Zenon
  <1>2. /\ CalmProgram(Me) /\ Names(Me) \cup Call(Me) \subseteq temps /\ NoName \notin temps
        /\ \A x \in Me.pipes \cup {Me.pipe} : HasFields(x, PipeFields)
    BY <1>1, MeIsCalm
  <1>3. /\ Shaped(Me) /\ PipeOK(Me) /\ Me.std = Expected(Me) /\ Me.in_system = FALSE
        /\ \A x, y \in Me.pipes : x.name = y.name => x = y
        /\ Names(Me) \cap Call(Me) = {}
    BY <1>2 DEF CalmProgram
  <1>4. PICK n : n = Me.pipe.name
    OBVIOUS
  <1>5. /\ Me.pipe.bak = Me.home[1] /\ Me.std = <<n, Me.home[2]>> /\ Call(Me) = {n}
    BY <1>1, <1>3, <1>4 DEF PipeOK, Expected, Call
  <1>6. PICK std : std = [Me.std EXCEPT ![1] = Me.pipe.bak]
    OBVIOUS
  <1>7. std = <<Me.home[1], Me.home[2]>>
    BY <1>5, <1>6
  <1>8. PICK q : q = [Me EXCEPT !.std = std, !.pipe = NoPipe, !.sys = NoSys]
    OBVIOUS
  <1>9. BackAs(q, std, Me.pipes) /\ q.held = Me.held
    BY <1>1, <1>3, <1>8 DEF BackAs, Shaped, HasFields, Fields
  <1>10. q.held \in BOOLEAN
    BY <1>3, <1>9 DEF Shaped
  <1>11. /\ CalmProgram(q) /\ Names(q) = {y.name : y \in Me.pipes} /\ Call(q) = {}
    BY <1>2, <1>3, <1>7, <1>9, <1>10, BackIs
  <1>12. Set(q)
    BY <1>1, <1>6, <1>8
  <1>13. CalmMoves(q, {n}, {}, {})
    <2>1. Names(q) = Names(Me)
      BY <1>11 DEF Names
    <2> QED
      BY <1>1, <1>3, <1>4, <1>5, <1>11, <2>1 DEF CalmMoves
  <1> QED
    BY <1>1, <1>11, <1>12, <1>13, CalmStep

\* With nothing refused, the pipe is stdin of the command.
LEMMA PcloseIs ==
  ASSUME Uses = {}, pclose
  PROVE  \E x \in Me.pipes :
           \/ Set([Me EXCEPT !.pipes = @ \ {x}]) /\ temps' = temps \ {x.name}
           \/ /\ Set([Me EXCEPT !.pc = "call", !.pipes = @ \ {x}, !.std[1] = x.name,
                                !.pipe = [x EXCEPT !.op = "pclose", !.bak = Me.std[1]]])
              /\ UNCHANGED temps
  <1> DEFINE read(x) == [Me EXCEPT !.pipes = @ \ {x}]
             called(x) == [Me EXCEPT !.pc = "call", !.pipes = @ \ {x}, !.std[1] = x.name,
                                     !.pipe = [x EXCEPT !.op = "pclose", !.bak = Me.std[1]]]
             lost(x, dupped) == [Me EXCEPT !.pipes = @ \ {x},
                                           !.std[1] = IF dupped THEN Closed ELSE @]
  <1>1. PICK x \in Me.pipes :
          \/ Set(read(x)) /\ temps' = temps \ {x.name}
          \/ /\ \E dupped, opened \in BOOLEAN :
                  /\ Allowed(dupped, "dup_fails") /\ Allowed(opened, "freopen_fails")
                  /\ Set(IF dupped /\ opened THEN called(x) ELSE lost(x, dupped))
             /\ UNCHANGED temps
    BY Zenon DEF pclose
  <1> HIDE DEF read, called, lost
  <1>2. CASE Set(read(x)) /\ temps' = temps \ {x.name}
    BY <1>2, Zenon DEF read
  <1>3. CASE /\ \E dupped, opened \in BOOLEAN :
                  /\ Allowed(dupped, "dup_fails") /\ Allowed(opened, "freopen_fails")
                  /\ Set(IF dupped /\ opened THEN called(x) ELSE lost(x, dupped))
             /\ UNCHANGED temps
    <2>1. PICK dupped \in BOOLEAN, opened \in BOOLEAN :
            /\ Allowed(dupped, "dup_fails") /\ Allowed(opened, "freopen_fails")
            /\ Set(IF dupped /\ opened THEN called(x) ELSE lost(x, dupped))
      BY <1>3
    <2>2. dupped = TRUE /\ opened = TRUE
      BY <2>1, Granted
    <2>3. Set(called(x))
      BY <2>1, <2>2
    <2> QED
      BY <1>3, <2>3, Zenon DEF called
  <1> QED
    BY <1>1, <1>2, <1>3

LEMMA PcloseStep == ASSUME Uses = {}, IInv, pclose PROVE IInv'
  <1>1. /\ Me.pc = "run" /\ Me.pipe = NoPipe /\ UNCHANGED <<dos, strays, misplaced>>
    BY DEF pclose, Mine, Idle
  <1>2. PICK x \in Me.pipes :
          \/ Set([Me EXCEPT !.pipes = @ \ {x}]) /\ temps' = temps \ {x.name}
          \/ /\ Set([Me EXCEPT !.pc = "call", !.pipes = @ \ {x}, !.std[1] = x.name,
                               !.pipe = [x EXCEPT !.op = "pclose", !.bak = Me.std[1]]])
             /\ UNCHANGED temps
    BY PcloseIs, Zenon
  <1>3. /\ CalmProgram(Me) /\ Names(Me) \cup Call(Me) \subseteq temps /\ NoName \notin temps
        /\ \A y \in Me.pipes \cup {Me.pipe} : HasFields(y, PipeFields)
    BY <1>1, MeIsCalm
  <1>4. /\ Shaped(Me) /\ PipeOK(Me) /\ Me.std = Expected(Me)
        /\ NoName \notin {Me.std[1], Me.std[2], Me.home[1], Me.home[2]}
        /\ Me.held => Me.std[2] = Me.home[2]
        /\ Me.in_system = FALSE /\ Me.sys.rm_in = FALSE /\ Me.sys.rm_out = FALSE
        /\ Me.sys.script = NoName
        /\ \A y, z \in Me.pipes : y.name = z.name => y = z
        /\ Names(Me) \cap Call(Me) = {}
    BY <1>3 DEF CalmProgram
  <1>5. PICK n : n = x.name
    OBVIOUS
  <1>6. n \in Names(Me) /\ n # NoName /\ HasFields(x, PipeFields)
    BY <1>3, <1>5 DEF Names
  <1>7. Call(Me) = {} /\ Me.pipe.op = "none" /\ Me.std = <<Me.home[1], Me.home[2]>>
    BY <1>1, <1>4 DEF Call, NoPipe, Expected
  <1>8. PICK pipes : pipes = Me.pipes \ {x}
    OBVIOUS
  <1>9. {y.name : y \in pipes} = Names(Me) \ {n}
    BY <1>4, <1>5, <1>8 DEF Names
  <1>10. CASE Set([Me EXCEPT !.pipes = @ \ {x}]) /\ temps' = temps \ {x.name}
    <2>1. PICK q : q = [Me EXCEPT !.pipes = pipes]
      OBVIOUS
    <2>2. /\ Shaped(q) /\ q.pc = "run" /\ q.held = Me.held /\ q.std = Me.std
          /\ q.pipe = NoPipe /\ q.home = Me.home /\ q.sys = Me.sys /\ q.sel = Me.sel
          /\ q.in_system = FALSE /\ q.pipes = pipes
      BY <1>1, <1>4, <2>1 DEF Shaped, HasFields, Fields
    <2>3. Expected(q) = Expected(Me) /\ Names(q) = Names(Me) \ {n} /\ Call(q) = {}
      BY <1>1, <1>7, <1>9, <2>2 DEF Expected, Names, Call
    <2>4. PipeOK(q)
      BY <1>1, <1>4, <1>8, <2>2 DEF PipeOK
    <2>5. Set(q)
      BY <1>8, <1>10, <2>1
    <2>6. CalmProgram(q)
      BY <1>4, <1>8, <2>2, <2>3, <2>4 DEF CalmProgram
    <2>7. CalmMoves(q, {n}, {}, {})
      BY <1>1, <1>5, <1>6, <1>7, <1>10, <2>3 DEF CalmMoves
    <2> QED
      BY <1>1, <2>5, <2>6, <2>7, CalmStep
  <1>11. CASE /\ Set([Me EXCEPT !.pc = "call", !.pipes = @ \ {x}, !.std[1] = x.name,
                                !.pipe = [x EXCEPT !.op = "pclose", !.bak = Me.std[1]]])
              /\ UNCHANGED temps
    <2>1. PICK y : y = [x EXCEPT !.op = "pclose", !.bak = Me.std[1]]
      OBVIOUS
    <2>2. HasFields(y, PipeFields) /\ y.op = "pclose" /\ y.name = n /\ y.bak = Me.home[1]
      <3>1. PICK h : h = Me.std[1]
        OBVIOUS
      <3>2. h = Me.home[1]
        BY <1>7, <3>1
      <3>3. y = [x EXCEPT !.op = "pclose", !.bak = h]
        BY <2>1, <3>1
      <3>4. HasFields(y, PipeFields) /\ y.op = "pclose" /\ y.name = n /\ y.bak = h
        BY <1>5, <1>6, <3>3 DEF HasFields, PipeFields
      <3> QED
        BY <3>2, <3>4
    <2>3. PICK std : std = [Me.std EXCEPT ![1] = n]
      OBVIOUS
    <2>4. std = <<n, Me.home[2]>>
      BY <1>7, <2>3
    <2>5. PICK q : q = [Me EXCEPT !.pc = "call", !.pipes = pipes, !.std = std, !.pipe = y]
      OBVIOUS
    <2>6. /\ HasFields(q, Fields) /\ q.pc = "call" /\ q.held = Me.held /\ q.std = std
          /\ q.pipe = y /\ q.home = Me.home /\ q.sys = Me.sys /\ q.sel = Me.sel
          /\ q.in_system = FALSE /\ q.pipes = pipes
      BY <1>4, <2>5 DEF Shaped, HasFields, Fields
    <2>7. Shaped(q)
      <3>1. IsPair(q.std)
        BY <2>4, <2>6 DEF IsPair
      <3>2. /\ IsPair(q.home) /\ q.sel \in 0..2 /\ HasFields(q.sys, SysFields)
            /\ q.sys.result \in {-1, 0, 1} /\ q.held \in BOOLEAN
        BY <1>4, <2>6 DEF Shaped
      <3>3. {q.held, q.in_system, q.sys.rm_in, q.sys.rm_out} \subseteq BOOLEAN
        BY <1>4, <2>6, <3>2
      <3> QED
        BY <2>6, <3>1, <3>2, <3>3 DEF Shaped
    <2>8. Expected(q) = <<n, Me.home[2]>> /\ Names(q) = Names(Me) \ {n} /\ Call(q) = {n}
      BY <1>9, <2>2, <2>6 DEF Expected, Names, Call
    <2>9. PipeOK(q)
      <3>1. q.pipe.bak = q.home[1]
        BY <2>2, <2>6
      <3> QED
        BY <1>4, <1>6, <1>8, <2>2, <2>6, <3>1 DEF PipeOK
    <2>10. Set(q)
      BY <1>5, <1>8, <1>11, <2>1, <2>3, <2>5
    <2>11. CalmProgram(q)
      <3>1. q.std[1] = n /\ q.std[2] = Me.home[2]
        BY <2>4, <2>6
      <3>2. Names(q) \cap Call(q) = {} /\ (q.held => q.std[2] = q.home[2])
        BY <2>6, <2>8, <3>1
      <3>3. NoName \notin {q.std[1], q.std[2], q.home[1], q.home[2]} /\ q.std = Expected(q)
        BY <1>4, <1>6, <2>4, <2>6, <2>8, <3>1
      <3> QED
        BY <1>4, <1>8, <2>6, <2>7, <2>9, <3>2, <3>3 DEF CalmProgram
    <2>12. CalmMoves(q, {}, {}, {})
      BY <1>1, <1>6, <1>7, <1>11, <2>8 DEF CalmMoves
    <2> QED
      BY <1>1, <2>10, <2>11, <2>12, CalmStep
  <1> QED
    BY <1>2, <1>10, <1>11

-----------------------------------------------------------------------------
(* The end of a program, and one that is not DJGPP's.                       *)

LEMMA FilesPop ==
  ASSUME NEW P, IsStack(P), Waiting(P), Len(P) > 1, NEW t, NEW s, FilesOK(P, t, s),
         NEW Q, NEW q, Popped(P, Q, q), Owned(q) = Owned(P[Len(P) - 1]) \ Script(P[Len(P) - 1]),
         Unmade(P[Len(P)]) = {},
         NEW u, u = t \ (Script(P[Len(P) - 1]) \cup Owned(P[Len(P)]))
  PROVE  FilesOK(Q, u, s)
  <1>n. PICK n : n = Len(P)
    OBVIOUS
  <1>p. PICK p : p = P[n - 1]
    OBVIOUS
  <1>1. /\ n \in Nat \ {0} /\ n > 1 /\ Len(Q) = n - 1 /\ Q[n - 1] = q
        /\ \A l \in 1..(n - 2) : Q[l] = P[l]
    BY <1>n DEF IsStack, Popped
  <1>2. /\ \A l, m \in 1..n : l # m => Owned(P[l]) \cap Owned(P[m]) = {}
        /\ \A l \in 1..n : Owned(P[l]) \cap s = {}
        /\ s \subseteq t /\ NoName \notin t
        /\ \A l \in 1..n : Owned(P[l]) \ Unmade(P[l]) \subseteq t
        /\ \A x \in t : x \in s \/ \E l \in 1..n : x \in Owned(P[l])
    BY <1>n DEF FilesOK
  <1>3. /\ n \in 1..n /\ n - 1 \in 1..n /\ n # n - 1
        /\ \A l \in 1..(n - 2) : l \in 1..n /\ l # n /\ l # n - 1
        /\ \A l \in 1..(n - 1) : l \in 1..n /\ l # n /\ (l \in 1..(n - 2) \/ l = n - 1)
    BY <1>1
  <1>4. \A l \in 1..(n - 1) : Unmade(P[l]) = {}
    <2> SUFFICES ASSUME NEW l \in 1..(n - 1) PROVE Unmade(P[l]) = {}
      OBVIOUS
    <2>1. l \in 1..n /\ l < n
      BY <1>1
    <2>2. P[l].pc = "child"
      BY <1>n, <2>1 DEF Waiting
    <2> QED
      BY <2>2 DEF Unmade
  <1>5. /\ Owned(q) = Owned(p) \ Script(p) /\ Script(p) \subseteq Owned(p)
        /\ u = t \ (Script(p) \cup Owned(P[n]))
    BY <1>n, <1>p DEF Owned
  <1>6. \A l \in 1..(n - 1) : Owned(Q[l]) \subseteq Owned(P[l])
    BY <1>1, <1>3, <1>5, <1>p
  <1>7. \A l \in 1..(n - 1) : Owned(Q[l]) \cap (Script(p) \cup Owned(P[n])) = {}
    <2> SUFFICES ASSUME NEW l \in 1..(n - 1)
                 PROVE  Owned(Q[l]) \cap (Script(p) \cup Owned(P[n])) = {}
      OBVIOUS
    <2>1. Owned(Q[l]) \cap Owned(P[n]) = {}
      BY <1>2, <1>3, <1>6
    <2>2. CASE l = n - 1
      BY <1>1, <1>5, <2>1, <2>2
    <2>3. CASE l \in 1..(n - 2)
      <3>1. Owned(P[l]) \cap Owned(p) = {}
        BY <1>2, <1>3, <2>3, <1>p
      <3> QED
        BY <1>5, <1>6, <2>1, <3>1
    <2> QED
      BY <1>3, <2>2, <2>3
  <1>8. \A l, m \in 1..(n - 1) : l # m => Owned(Q[l]) \cap Owned(Q[m]) = {}
    BY <1>2, <1>3, <1>6
  <1>9. \A l \in 1..(n - 1) : Owned(Q[l]) \cap s = {}
    BY <1>2, <1>3, <1>6
  <1>10. s \subseteq u /\ NoName \notin u
    <2>1. Owned(p) \cap s = {} /\ Owned(P[n]) \cap s = {}
      BY <1>2, <1>3, <1>p
    <2> QED
      BY <1>2, <1>5, <2>1
  <1>11. \A l \in 1..(n - 1) : Owned(Q[l]) \subseteq u
    <2>1. \A l \in 1..(n - 1) : Owned(P[l]) \subseteq t
      BY <1>2, <1>3, <1>4
    <2> QED
      BY <1>5, <1>6, <1>7, <2>1
  <1>12. ASSUME NEW x \in u
         PROVE  x \in s \/ \E l \in 1..(n - 1) : x \in Owned(Q[l])
    <2>1. x \in s \/ \E l \in 1..n : x \in Owned(P[l])
      BY <1>2, <1>5, <1>12
    <2>2. ASSUME NEW l \in 1..n, x \in Owned(P[l])
          PROVE  \E k \in 1..(n - 1) : x \in Owned(Q[k])
      <3>1. l # n /\ x \notin Script(p)
        BY <1>5, <1>12, <2>2
      <3>2. l \in 1..(n - 1)
        BY <1>1, <3>1
      <3>3. CASE l = n - 1
        BY <1>1, <1>5, <1>p, <2>2, <3>1, <3>2, <3>3
      <3>4. CASE l \in 1..(n - 2)
        BY <1>1, <2>2, <3>2, <3>4
      <3> QED
        BY <1>3, <3>2, <3>3, <3>4
    <2> QED
      BY <2>1, <2>2
  <1> QED
    BY <1>1, <1>8, <1>9, <1>10, <1>11, <1>12 DEF FilesOK

LEMMA BlocksPop ==
  ASSUME NEW P, IsStack(P), Len(P) > 1, NEW d, BlocksOK(P, d),
         NEW Q, NEW q, Popped(P, Q, q), q.sel = 0
  PROVE  BlocksOK(Q, {b \in d : b[1] # Len(P) /\ b # <<Len(P) - 1, P[Len(P) - 1].sel>>})
  <1>n. PICK n : n = Len(P)
    OBVIOUS
  <1> DEFINE J == {k \in 1..(n - 2) : P[k].sel # 0}
             e == {b \in d : b[1] # n /\ b # <<n - 1, P[n - 1].sel>>}
  <1>1. /\ n \in Nat \ {0} /\ n > 1 /\ Len(Q) = n - 1 /\ Q[n - 1] = q
        /\ \A l \in 1..(n - 2) : Q[l] = P[l]
    BY <1>n DEF IsStack, Popped
  <1>2. {k \in 1..(n - 1) : Q[k].sel # 0} = J
    BY <1>1
  <1>3. {<<l, P[l].sel>> : l \in J} = {<<l, Q[l].sel>> : l \in J}
    BY <1>1
  <1>4. e = {<<l, P[l].sel>> : l \in J}
    <2>1. d = {<<l, P[l].sel>> : l \in {k \in 1..n : P[k].sel # 0}}
      BY <1>n DEF BlocksOK
    <2>2. ASSUME NEW b \in e PROVE b \in {<<l, P[l].sel>> : l \in J}
      <3>1. PICK l \in 1..n : P[l].sel # 0 /\ b = <<l, P[l].sel>>
        BY <2>1
      <3>2. l # n /\ l # n - 1
        BY <2>2, <3>1
      <3>3. l \in J
        BY <1>1, <3>1, <3>2
      <3> QED
        BY <3>1, <3>3
    <2>3. ASSUME NEW l \in J PROVE <<l, P[l].sel>> \in e
      <3>1. l \in 1..n /\ l # n /\ l # n - 1
        BY <1>1
      <3>2. <<l, P[l].sel>> \in d
        BY <2>1, <3>1
      <3> QED
        BY <3>1, <3>2
    <2> QED
      BY <2>2, <2>3
  <1>5. e = {<<l, Q[l].sel>> : l \in {k \in 1..Len(Q) : Q[k].sel # 0}}
    BY <1>1, <1>2, <1>3, <1>4
  <1> QED
    BY <1>5, <1>n DEF BlocksOK

LEMMA ExitStep == ASSUME IInv, exit PROVE IInv'
  <1>n. PICK n : n = Len(procs)
    OBVIOUS
  <1>p. PICK p : p = procs[n - 1]
    OBVIOUS
  <1>1. /\ n > 1 /\ Me.pc = "run" /\ Me.pipe = NoPipe /\ UNCHANGED <<misplaced, strays>>
        /\ dos' = {b \in dos : b[1] # n /\ b # <<n - 1, p.sel>>}
        /\ temps' = temps \ ({p.sys.script} \cup Names(Me))
        /\ \E status \in {0, 1} :
             procs' = Append(SubSeq(procs, 1, n - 2),
                        [p EXCEPT !.pc = IF p.in_system THEN "back" ELSE "run", !.sel = 0,
                                  !.sys.result = status, !.sys.script = NoName])
    BY <1>n, <1>p DEF exit, Level, Idle, Names
  <1>2. /\ IsStack(procs) /\ Waiting(procs) /\ BlocksOK(procs, dos)
        /\ FilesOK(procs, temps, strays) /\ ~misplaced
        /\ \A l \in 1..n : ProgramOK(procs[l])
    BY <1>n DEF IInv
  <1>3. n \in Nat \ {0} /\ n - 1 \in 1..n /\ n - 1 < n
    BY <1>1, <1>2, <1>n DEF IsStack
  <1>4. ProgramOK(p) /\ p.pc = "child"
    BY <1>2, <1>3, <1>n, <1>p DEF Waiting
  <1>5. /\ Me = procs[n] /\ ProgramOK(Me)
    BY <1>n, MeIsOK
  <1>6. Shaped(p) /\ Redirecting(p) = p.in_system
    <2>1. Shaped(p) /\ p.in_system \in BOOLEAN
      BY <1>4 DEF ProgramOK, Shaped
    <2> QED
      BY <1>4, <2>1 DEF Redirecting
  <1>7. Ready(p)
    <2>1. /\ PipeOK(p) /\ OneReason(p) /\ HandlesOK(p, p.in_system) /\ SysOK(p, p.in_system)
      BY <1>4, <1>6 DEF ProgramOK
    <2> QED
      BY <1>4, <1>6, <2>1 DEF Ready, SysOK
  <1>8. PICK status \in {0, 1} :
             procs' = Append(SubSeq(procs, 1, n - 2),
                        [p EXCEPT !.pc = IF p.in_system THEN "back" ELSE "run", !.sel = 0,
                                  !.sys.result = status, !.sys.script = NoName])
    BY <1>1
  <1>9. PICK pc : pc = IF p.in_system THEN "back" ELSE "run"
    OBVIOUS
  <1>10. PICK q : q = [p EXCEPT !.pc = pc, !.sel = 0, !.sys.result = status, !.sys.script = NoName]
    OBVIOUS
  <1>11. /\ Shaped(q) /\ Same(p, q) /\ q.sel = 0 /\ q.pc = pc /\ q.sys.result = status
         /\ q.sys.script = NoName
    <2>1. pc \in {"back", "run"} /\ Shaped(p)
      BY <1>6, <1>9
    <2>2. PICK y : y = [p.sys EXCEPT !.result = status, !.script = NoName]
      OBVIOUS
    <2>3. /\ HasFields(y, SysFields) /\ y.result = status /\ y.script = NoName
          /\ y.f_in = p.sys.f_in /\ y.f_out = p.sys.f_out /\ y.rm_in = p.sys.rm_in
          /\ y.rm_out = p.sys.rm_out /\ y.bak = p.sys.bak /\ y.sep = p.sys.sep
      BY <2>1, <2>2 DEF Shaped, HasFields, SysFields
    <2>4. /\ HasFields(q, Fields) /\ q.pc = pc /\ q.sel = 0 /\ q.sys = y
          /\ q.std = p.std /\ q.home = p.home /\ q.held = p.held /\ q.in_system = p.in_system
          /\ q.pipe = p.pipe /\ q.pipes = p.pipes
      BY <1>10, <2>1, <2>2 DEF Shaped, HasFields, Fields
    <2>5. Shaped(q)
      <3>1. /\ IsPair(p.std) /\ IsPair(p.home)
            /\ {p.held, p.in_system, p.sys.rm_in, p.sys.rm_out} \subseteq BOOLEAN
        BY <2>1 DEF Shaped
      <3>2. IsPair(q.std) /\ IsPair(q.home)
        BY <2>4, <3>1
      <3>3. {q.held, q.in_system, q.sys.rm_in, q.sys.rm_out} \subseteq BOOLEAN
        BY <2>3, <2>4, <3>1
      <3> QED
        BY <2>1, <2>3, <2>4, <3>2, <3>3 DEF Shaped
    <2> QED
      BY <2>3, <2>4, <2>5 DEF Same
  <1>12. q.in_system = p.in_system /\ q.in_system \in BOOLEAN
    BY <1>6, <1>11 DEF Same, Shaped
  <1>13. Redirecting(q) = q.in_system /\ q.pc \notin {"sys", "child"}
    BY <1>9, <1>11, <1>12 DEF Redirecting
  <1>14. ProgramOK(q) /\ q.pc # "child"
    <2>1. q.in_system => q.pc = "back"
      BY <1>9, <1>11, <1>12
    <2> QED
      BY <1>7, <1>11, <1>13, <2>1, SameIsOK
  <1>15. Owned(q) = Owned(p) \ Script(p)
    <2>1. /\ Names(q) = Names(p) /\ Call(q) = Call(p) /\ Input(q) = Input(p)
          /\ Output(q) = Output(p) /\ Script(q) = {}
      BY <1>11, SameOwns DEF Script
    <2>2. OneReason(p)
      BY <1>7 DEF Ready
    <2> QED
      BY <2>1, <2>2 DEF Owned, OneReason
  <1>16. Owned(Me) = Names(Me) /\ Unmade(Me) = {}
    <2>1. /\ Me.sys.rm_in = FALSE /\ Unmade(Me) = {}
          /\ Owned(Me) = Names(Me) \cup Call(Me) \cup Input(Me)
      BY <1>1, <1>5, CalmIs
    <2>2. Call(Me) = {} /\ Input(Me) = {}
      BY <1>1, <2>1 DEF Call, Input, NoPipe
    <2> QED
      BY <2>1, <2>2
  <1>17. temps' = temps \ (Script(p) \cup Owned(Me))
    <2>1. NoName \notin temps
      BY <1>2 DEF FilesOK
    <2> QED
      BY <1>1, <1>16, <2>1 DEF Script
  <1>18. Popped(procs, procs', q)
    BY <1>1, <1>2, <1>8, <1>9, <1>10, <1>n, PopOff
  <1>19. BlocksOK(procs', dos')
    BY <1>1, <1>2, <1>11, <1>18, <1>n, <1>p, BlocksPop
  <1>20. FilesOK(procs', temps', strays')
    BY <1>1, <1>2, <1>5, <1>15, <1>16, <1>17, <1>18, <1>n, <1>p, FilesPop
  <1>21. /\ IsStack(procs') /\ Len(procs') = n - 1 /\ procs'[n - 1] = q
         /\ \A l \in 1..(n - 2) : procs'[l] = procs[l]
    BY <1>18, <1>n DEF Popped
  <1>22. \A l \in 1..(n - 1) : l \in 1..n /\ l < n /\ (l \in 1..(n - 2) \/ l = n - 1)
    BY <1>3
  <1>23. Waiting(procs')
    <2> SUFFICES ASSUME NEW l \in 1..(n - 1)
                 PROVE  (procs'[l].pc = "child") = (l < n - 1)
      BY <1>21 DEF Waiting
    <2>1. CASE l = n - 1
      BY <1>3, <1>14, <1>21, <2>1
    <2>2. CASE l \in 1..(n - 2)
      <3>1. procs[l].pc = "child"
        BY <1>2, <1>22, <1>n DEF Waiting
      <3>2. l < n - 1
        BY <1>3, <2>2
      <3> QED
        BY <1>21, <2>2, <3>1, <3>2
    <2> QED
      BY <1>22, <2>1, <2>2
  <1>24. \A l \in 1..(n - 1) : ProgramOK(procs'[l])
    BY <1>2, <1>14, <1>21, <1>22
  <1> QED
    BY <1>1, <1>2, <1>19, <1>20, <1>21, <1>23, <1>24 DEF IInv

LEMMA ForeignExecStep == ASSUME IInv, foreign_exec PROVE IInv'
  <1>1. /\ Me.pc = "run" /\ UNCHANGED <<dos, temps, strays, misplaced>>
        /\ \E text, cmdline, want :
             procs' = Append([procs EXCEPT ![Len(procs)] = [Past(Me) EXCEPT !.pc = "child"]],
                        [Program("djgpp", text, NoRef, Me.proxy, cmdline, want, Me.std)
                         EXCEPT !.pc = "start"])
    BY DEF foreign_exec, Level
  <1>2. /\ Me = procs[Len(procs)] /\ ProgramOK(Me) /\ OwnsBlock(Me) /\ Shaped(Me) /\ ~misplaced
        /\ NoName \notin temps /\ IsStack(procs)
    BY MeIsOK
  <1>3. Ready(Me) /\ Unmade(Me) = {} /\ Me.in_system = FALSE /\ Me.sys.script = NoName
    BY <1>1, <1>2, QuietReady
  <1>4. PICK o : o = Past(Me)
    OBVIOUS
  <1>5. Shaped(o) /\ Same(Me, o) /\ o.sys = Me.sys /\ o.sel = Me.sel
    BY <1>2, <1>4, PastIs
  <1>6. PICK q : q = [o EXCEPT !.pc = "child"]
    OBVIOUS
  <1>7. /\ Shaped(q) /\ Same(Me, q) /\ q.sys = Me.sys /\ q.sel = Me.sel /\ q.pc = "child"
        /\ q.in_system = FALSE
    BY <1>3, <1>5, <1>6 DEF Shaped, HasFields, Fields, Same
  <1>8. Owned(q) = Owned(Me)
    BY <1>3, <1>7, SameReady
  <1>9. Redirecting(q) = q.in_system
    BY <1>7 DEF Redirecting
  <1>10. ProgramOK(q)
    BY <1>3, <1>7, <1>9, SameIsOK
  <1>11. PICK text, cmdline, want :
             procs' = Append([procs EXCEPT ![Len(procs)] = q],
                        [Program("djgpp", text, NoRef, Me.proxy, cmdline, want, Me.std)
                         EXCEPT !.pc = "start"])
    BY <1>1, <1>4, <1>6
  <1>12. PICK c : c = Program("djgpp", text, NoRef, Me.proxy, cmdline, want, Me.std)
    OBVIOUS
  <1>13. Newborn(c, Me.std)
    <2>1. IsPair(Me.std)
      BY <1>2 DEF Shaped
    <2> QED
      BY <1>12, <2>1, NewProgram
  <1>14. [c EXCEPT !.pc = "start"] = c
    BY <1>13 DEF Newborn, Shaped, HasFields, Fields
  <1>15. Pushed(procs, procs', q, c)
    BY <1>2, <1>11, <1>12, <1>14, PushOn
  <1>16. NoName \notin {Me.std[1], Me.std[2]}
    BY <1>3 DEF Ready, HandlesOK
  <1>17. ProgramOK(c) /\ Owned(c) = {} /\ c.sel = 0 /\ c.pc = "start"
    BY <1>13, <1>16, NewbornOK
  <1>18. Moves(Me, q, {}, {}, {})
    BY <1>1, <1>2, <1>3, <1>8, NoMove
  <1>19. BlockIs(dos', q.sel)
    BY <1>1, <1>2, <1>7 DEF OwnsBlock
  <1> QED
    BY <1>1, <1>2, <1>7, <1>10, <1>15, <1>17, <1>18, <1>19, PushStep DEF BlockIs

-----------------------------------------------------------------------------
(* What follows.                                                            *)

LEMMA InitIInv == ASSUME Init PROVE IInv
  <1>1. PICK b : b = Program("djgpp", <<>>, NoRef, NoRef, NoName, <<>>, <<Tty, Tty>>)
    OBVIOUS
  <1>2. IsPair(<<Tty, Tty>>) /\ NoName # Tty
    BY DEF IsPair, NoName, Tty
  <1>3. Newborn(b, <<Tty, Tty>>)
    BY <1>1, <1>2, NewProgram
  <1>4. PICK q : q = [b EXCEPT !.pc = "run"]
    OBVIOUS
  <1>5. /\ procs = <<q>> /\ dos = {} /\ temps = {} /\ strays = {} /\ misplaced = FALSE
    BY <1>1, <1>4 DEF Init
  <1>6. Len(procs) = 1 /\ procs[1] = q /\ procs = [l \in 1..1 |-> procs[l]]
    BY <1>5
  <1>7. IsStack(procs)
    BY <1>6 DEF IsStack
  <1>8. /\ ProgramOK(b) /\ Owned(b) = {} /\ b.sel = 0 /\ b.pc = "start"
    BY <1>2, <1>3, NewbornOK
  <1>9. Ready(b) /\ b.in_system = FALSE /\ b.sys.script = NoName
    BY <1>8, QuietReady
  <1>10. Shaped(q) /\ Same(b, q) /\ q.sys = b.sys /\ q.sel = 0 /\ q.pc = "run"
    BY <1>4, <1>8, <1>9 DEF Ready, Shaped, HasFields, Fields, Same
  <1>11. ProgramOK(q) /\ Owned(q) = {}
    <2>1. Redirecting(q) = FALSE /\ q.in_system = FALSE
      BY <1>9, <1>10 DEF Redirecting, Same
    <2> QED
      BY <1>8, <1>9, <1>10, <2>1, SameIsOK, SameReady
  <1>12. Waiting(procs) /\ BlocksOK(procs, dos)
    BY <1>5, <1>6, <1>10 DEF Waiting, BlocksOK
  <1>13. FilesOK(procs, temps, strays)
    BY <1>5, <1>6, <1>11 DEF FilesOK
  <1> QED
    BY <1>5, <1>6, <1>7, <1>11, <1>12, <1>13 DEF IInv

LEMMA NextIInv == ASSUME Uses = {}, IInv, [Next]_vars PROVE IInv'
  <1>1. CASE startup
    BY <1>1, StartupStep
  <1>2. CASE spawn
    BY <1>2, SpawnStep
  <1>3. CASE system
    BY <1>3, SystemStep
  <1>4. CASE sys_command
    BY <1>4, SysCommandStep
  <1>5. CASE sys_go
    BY <1>5, SysGoStep
  <1>6. CASE sys_back
    BY <1>6, SysBackStep
  <1>7. CASE popen
    BY <1>7, PopenStep
  <1>8. CASE popen_return
    BY <1>8, PopenReturnStep
  <1>9. CASE pclose
    BY <1>9, PcloseStep
  <1>10. CASE pclose_return
    BY <1>10, PcloseReturnStep
  <1>11. CASE exit
    BY <1>11, ExitStep
  <1>12. CASE print
    BY <1>12, PrintStep
  <1>13. CASE foreign_exec
    BY <1>13, ForeignExecStep
  <1>14. CASE UNCHANGED vars
    <2>1. UNCHANGED <<procs, dos, temps, strays, misplaced>>
      BY <1>14 DEF vars
    <2> QED
      BY <2>1 DEF IInv
  <1> QED
    BY <1>1, <1>2, <1>3, <1>4, <1>5, <1>6, <1>7, <1>8, <1>9, <1>10, <1>11, <1>12, <1>13, <1>14
    DEF Next

LEMMA IInvClean == ASSUME IInv PROVE NothingLeftBehind
  <1>1. /\ Level = Len(procs) /\ Level \in Nat \ {0} /\ Me = procs[Len(procs)] /\ ProgramOK(Me)
    BY MeIsOK
  <1>2. NoBlockLost
    BY <1>1 DEF IInv, BlocksOK, NoBlockLost
  <1>3. ASSUME Idle
        PROVE  /\ Me.std = Me.home /\ Owned(Me) = {x.name : x \in Me.pipes}
               /\ Unmade(Me) = {}
    <2>1. Me.pc = "run" /\ Me.pipe = NoPipe
      BY <1>3 DEF Idle
    <2>2. /\ CalmProgram(Me)
      BY <2>1, MeIsCalm
    <2>3. /\ Me.std = Expected(Me) /\ Shaped(Me) /\ Me.sys.rm_in = FALSE
      BY <2>2 DEF CalmProgram
    <2>4. /\ Owned(Me) = Names(Me) \cup Call(Me) \cup Input(Me) /\ Unmade(Me) = {}
      BY <1>1, <2>1, CalmIs
    <2>5. Call(Me) = {} /\ Input(Me) = {} /\ Expected(Me) = <<Me.home[1], Me.home[2]>>
      BY <2>1, <2>3 DEF Call, Input, Expected, NoPipe
    <2>6. Expected(Me) = Me.home
      BY <2>3, <2>5 DEF Shaped, IsPair
    <2> QED
      BY <2>3, <2>4, <2>5, <2>6 DEF Names
  <1>4. ASSUME Level = 1, Idle
        PROVE  temps = strays \cup {x.name : x \in Me.pipes}
    <2>1. FilesOK(procs, temps, strays)
      BY DEF IInv
    <2>2. Owned(procs[1]) = {x.name : x \in Me.pipes} /\ Unmade(procs[1]) = {}
      BY <1>1, <1>3, <1>4
    <2>3. /\ strays \subseteq temps /\ Owned(procs[1]) \ Unmade(procs[1]) \subseteq temps
          /\ \A n \in temps : n \in strays \/ \E l \in 1..1 : n \in Owned(procs[l])
      BY <1>1, <1>4, <2>1 DEF FilesOK
    <2> QED
      BY <2>2, <2>3
  <1> QED
    BY <1>2, <1>3, <1>4 DEF NothingLeftBehind

(* With Uses = {}, that is unless DOS refuses to duplicate a handle or to open *)
(* the temporary file of a pipe, whatever the programs, command lines and      *)
(* shells, and however deep programs run programs: when a call of system,      *)
(* spawn, popen or pclose is over, whether its command could be run or not,    *)
(* stdin and stdout are what they were, no temporary file is left but those of *)
(* open pipes and of a popen that could not run its command, and every block   *)
(* of DOS memory dosexec.c allocated is known to tbuf_selector.                *)
THEOREM AlwaysNothingLeftBehind ==
  ASSUME Uses = {} PROVE Spec => []NothingLeftBehind
  <1>1. Init => IInv
    BY InitIInv
  <1>2. IInv /\ [Next]_vars => IInv'
    BY NextIInv
  <1>3. IInv => NothingLeftBehind
    BY IInvClean
  <1> QED
    BY <1>1, <1>2, <1>3, PTL DEF Spec

(* Under the same assumption, what a program printed before it called system   *)
(* or spawn never ends up in the file that a command's output is redirected    *)
(* to: stdout has been flushed whenever it is not the program's own.           *)
THEOREM AlwaysOutputInPlace ==
  ASSUME Uses = {} PROVE Spec => []OutputInPlace
  <1>1. Init => IInv
    BY InitIInv
  <1>2. IInv /\ [Next]_vars => IInv'
    BY NextIInv
  <1>3. IInv => OutputInPlace
    BY DEF IInv, OutputInPlace
  <1> QED
    BY <1>1, <1>2, <1>3, PTL DEF Spec
=============================================================================
