--------------------------- MODULE TermiosProofs ---------------------------
(***************************************************************************)
(* Theorems about Termios, for every size of ring, edit line and keyboard  *)
(* buffer and any number of keys: the console implements Tty, and the echo *)
(* follows the line.  They assume that no NUL enters the line (PlainInput);*)
(* the code does not end a line that holds one.                            *)
(*                                                                         *)
(* First come facts about joined sequences, then what the keys of the      *)
(* keyboard buffer stand for (Spelled) and the ring as a sequence (RingOf),*)
(* and the columns of a line (WidthOf); Spelled and WidthOf are loops, for *)
(* the lemmas of Loops.  Then come the steps of Tty, the invariant Inv and *)
(* what the operations on keyboard, ring and line do under it.  A lemma    *)
(* Does... for each action says that it keeps Inv and is a step of Tty or  *)
(* leaves all of Tty alone.                                                *)
(*                                                                         *)
(* The second half is about the terminal's output: the theorems about      *)
(* Console, which start with a comment of their own.                       *)
(***************************************************************************)
EXTENDS Termios, Console, Loops, SequenceTheorems, TLAPS

----------------------------------------------------------------------------
\* Sequences put together.

\* What a sequence joined from two others consists of.
JoinOf(w, s, t) ==
  /\ Len(w) = Len(s) + Len(t)
  /\ \A i \in 1..Len(s) : w[i] = s[i]
  /\ \A i \in 1..Len(t) : w[Len(s) + i] = t[i]

\* A sequence joined from two others consists of them.
LEMMA Joins ==
  ASSUME NEW S, NEW s \in Seq(S), NEW t \in Seq(S)
  PROVE  s \o t \in Seq(S) /\ JoinOf(s \o t, s, t)
  <1> DEFINE w == s \o t
  <1>1. /\ w \in Seq(S)
        /\ Len(w) = Len(s) + Len(t)
        /\ \A i \in 1..Len(s) + Len(t) : w[i] = IF i <= Len(s) THEN s[i] ELSE t[i - Len(s)]
    BY ConcatProperties, Zenon
  <1> HIDE DEF w
  <1>2. Len(s) \in Nat /\ Len(t) \in Nat
    OBVIOUS
  <1>3. JoinOf(w, s, t)
    <2>1. ASSUME NEW i \in 1..Len(s)
          PROVE  w[i] = s[i]
      BY <1>1, <1>2
    <2>2. ASSUME NEW i \in 1..Len(t)
          PROVE  w[Len(s) + i] = t[i]
      <3>1. /\ Len(s) + i \in 1..Len(s) + Len(t) /\ ~ (Len(s) + i <= Len(s))
            /\ (Len(s) + i) - Len(s) = i
        BY <1>2
      <3> QED
        BY <1>1, <3>1
    <2> QED
      BY <1>1, <2>1, <2>2 DEF JoinOf
  <1> QED
    BY <1>1, <1>3 DEF w

\* A sequence is what it consists of.
LEMMA JoinIsConcat ==
  ASSUME NEW S, NEW s \in Seq(S), NEW t \in Seq(S), NEW w \in Seq(S), JoinOf(w, s, t)
  PROVE  w = s \o t
  <1> DEFINE v == s \o t
  <1>1. v \in Seq(S) /\ JoinOf(v, s, t)
    BY Joins
  <1> HIDE DEF v
  <1>2. Len(s) \in Nat /\ Len(t) \in Nat
    OBVIOUS
  <1>3. Len(v) = Len(w)
    BY <1>1 DEF JoinOf
  <1>4. ASSUME NEW i \in 1..Len(w)
        PROVE  w[i] = v[i]
    <2>1. CASE i <= Len(s)
      BY <1>1, <1>2, <2>1 DEF JoinOf
    <2>2. CASE ~ (i <= Len(s))
      <3>1. PICK j : j = i - Len(s)
        OBVIOUS
      <3>2. j \in 1..Len(t) /\ i = Len(s) + j
        BY <1>2, <2>2, <3>1 DEF JoinOf
      <3> QED
        BY <1>1, <3>2 DEF JoinOf
    <2> QED
      BY <2>1, <2>2
  <1>5. w = v
    BY <1>1, <1>3, <1>4, SeqEqual
  <1> QED
    BY <1>5 DEF v

\* Joining is associative.
LEMMA Regroup ==
  ASSUME NEW S, NEW s \in Seq(S), NEW t \in Seq(S), NEW u \in Seq(S)
  PROVE  (s \o t) \o u = s \o (t \o u)
  <1>1. PICK x \in Seq(S) : x = s \o t /\ JoinOf(x, s, t)
    BY Joins, Zenon
  <1>2. PICK y \in Seq(S) : y = t \o u /\ JoinOf(y, t, u)
    BY Joins, Zenon
  <1>3. PICK w \in Seq(S) : w = x \o u /\ JoinOf(w, x, u)
    BY Joins, Zenon
  <1>4. Len(s) \in Nat /\ Len(t) \in Nat /\ Len(u) \in Nat
    OBVIOUS
  <1>5. JoinOf(w, s, y)
    <2>1. Len(w) = Len(s) + Len(y)
      BY <1>1, <1>2, <1>3, <1>4 DEF JoinOf
    <2>2. ASSUME NEW i \in 1..Len(s)
          PROVE  w[i] = s[i]
      BY <1>1, <1>3, <1>4 DEF JoinOf
    <2>3. ASSUME NEW i \in 1..Len(y)
          PROVE  w[Len(s) + i] = y[i]
      <3>1. CASE i <= Len(t)
        <4>1. i \in 1..Len(t) /\ Len(s) + i \in 1..Len(x)
          BY <1>1, <1>4, <3>1 DEF JoinOf
        <4> QED
          BY <1>1, <1>2, <1>3, <4>1 DEF JoinOf
      <3>2. CASE ~ (i <= Len(t))
        <4>1. PICK j \in 1..Len(u) : i = Len(t) + j /\ Len(s) + i = Len(x) + j
          <5>1. i - Len(t) \in 1..Len(u) /\ i = Len(t) + (i - Len(t))
                /\ Len(s) + i = Len(x) + (i - Len(t))
            BY <1>1, <1>2, <1>4, <3>2 DEF JoinOf
          <5> QED
            BY <5>1, Zenon
        <4> QED
          BY <1>2, <1>3, <4>1 DEF JoinOf
      <3> QED
        BY <3>1, <3>2
    <2> QED
      BY <2>1, <2>2, <2>3 DEF JoinOf
  <1>6. w = s \o y
    BY <1>5, JoinIsConcat, Zenon
  <1> QED
    BY <1>1, <1>2, <1>3, <1>6, Zenon

\* The front of a joined sequence, and the rest.
Parts(w, s, t) ==
  /\ SubSeq(w, 1, Len(s)) = s
  /\ SubSeq(w, Len(s) + 1, Len(w)) = t
  /\ s # <<>> => /\ w # <<>> /\ Len(s) \in 1..Len(w)
                 /\ Head(w) = Head(s)
                 /\ Tail(w) = Tail(s) \o t
                 /\ SubSeq(w, 2, Len(s)) = Tail(s)

\* The parts of a joined sequence are the sequences it was joined from.
LEMMA JoinParts ==
  ASSUME NEW S, NEW s \in Seq(S), NEW t \in Seq(S)
  PROVE  Parts(s \o t, s, t)
  <1> DEFINE w == s \o t
  <1>1. w \in Seq(S) /\ JoinOf(w, s, t)
    BY Joins
  <1> HIDE DEF w
  <1>2. Len(s) \in Nat /\ Len(t) \in Nat /\ Len(w) = Len(s) + Len(t)
    BY <1>1 DEF JoinOf
  <1>3. SubSeq(w, 1, Len(s)) = s
    <2>1. \A i \in 1..Len(s) : w[i] \in S
      BY <1>1, <1>2
    <2> DEFINE u == SubSeq(w, 1, Len(s))
    <2>2. u \in Seq(S) /\ Len(u) = (IF 1 <= Len(s) THEN Len(s) - 1 + 1 ELSE 0)
          /\ \A i \in 1..Len(s) - 1 + 1 : u[i] = w[1 + i - 1]
      BY <1>2, <2>1, SubSeqProperties
    <2> HIDE DEF u
    <2>3. Len(u) = Len(s) /\ \A i \in 1..Len(u) : u[i] = s[i]
      BY <1>1, <1>2, <2>2 DEF JoinOf
    <2>4. u = s
      BY <2>2, <2>3, SeqEqual
    <2> QED
      BY <2>4 DEF u
  <1>4. SubSeq(w, Len(s) + 1, Len(w)) = t
    <2>1. \A i \in Len(s) + 1..Len(w) : w[i] \in S
      BY <1>1, <1>2
    <2> DEFINE u == SubSeq(w, Len(s) + 1, Len(w))
    <2>2. u \in Seq(S) /\ Len(u) = (IF Len(s) + 1 <= Len(w) THEN Len(w) - (Len(s) + 1) + 1 ELSE 0)
          /\ \A i \in 1..Len(w) - (Len(s) + 1) + 1 : u[i] = w[Len(s) + 1 + i - 1]
      BY <1>2, <2>1, SubSeqProperties
    <2> HIDE DEF u
    <2>3. Len(u) = Len(t)
      BY <1>2, <2>2
    <2>4. ASSUME NEW i \in 1..Len(u)
          PROVE  u[i] = t[i]
      <3>1. i \in 1..Len(w) - (Len(s) + 1) + 1 /\ Len(s) + 1 + i - 1 = Len(s) + i
        BY <1>2, <2>3
      <3> QED
        BY <1>1, <2>2, <2>3, <3>1 DEF JoinOf
    <2>5. u = t
      BY <2>2, <2>3, <2>4, SeqEqual
    <2> QED
      BY <2>5 DEF u
  <1>5. ASSUME s # <<>>
        PROVE  /\ w # <<>> /\ Len(s) \in 1..Len(w)
               /\ Head(w) = Head(s)
               /\ Tail(w) = Tail(s) \o t
               /\ SubSeq(w, 2, Len(s)) = Tail(s)
    <2>1. Len(s) > 0 /\ Len(s) \in 1..Len(w) /\ w # <<>>
      BY <1>2, <1>5, EmptySeq
    <2>2. Head(w) = Head(s)
      BY <1>1, <1>2, <2>1 DEF JoinOf
    <2>3. /\ Tail(s) \in Seq(S) /\ Len(Tail(s)) = Len(s) - 1
          /\ \A i \in 1..Len(s) - 1 : Tail(s)[i] = s[i + 1]
      BY <1>5, HeadTailProperties
    <2>4. /\ Tail(w) \in Seq(S) /\ Len(Tail(w)) = Len(w) - 1
          /\ \A i \in 1..Len(w) - 1 : Tail(w)[i] = w[i + 1]
      BY <1>1, <2>1, HeadTailProperties
    <2> DEFINE x == Tail(s)
               y == Tail(w)
    <2>5. x \in Seq(S) /\ Len(x) = Len(s) - 1 /\ \A i \in 1..Len(s) - 1 : x[i] = s[i + 1]
      BY <2>3
    <2>6. y \in Seq(S) /\ Len(y) = Len(w) - 1 /\ \A i \in 1..Len(w) - 1 : y[i] = w[i + 1]
      BY <2>4
    <2> HIDE DEF x, y
    <2>7. JoinOf(y, x, t)
      <3>1. Len(y) = Len(x) + Len(t)
        BY <1>2, <2>5, <2>6
      <3>2. ASSUME NEW i \in 1..Len(x)
            PROVE  y[i] = x[i]
        <4>1. i \in 1..Len(s) - 1 /\ i \in 1..Len(w) - 1 /\ i + 1 \in 1..Len(s)
          BY <1>2, <2>1, <2>5
        <4>2. w[i + 1] = s[i + 1]
          BY <1>1, <4>1 DEF JoinOf
        <4> QED
          BY <2>5, <2>6, <4>1, <4>2
      <3>3. ASSUME NEW i \in 1..Len(t)
            PROVE  y[Len(x) + i] = t[i]
        <4>1. Len(x) + i \in 1..Len(w) - 1 /\ Len(x) + i + 1 = Len(s) + i
          BY <1>2, <2>1, <2>5
        <4> QED
          BY <1>1, <2>6, <4>1 DEF JoinOf
      <3> QED
        BY <3>1, <3>2, <3>3 DEF JoinOf
    <2>8. y = x \o t
      BY <2>5, <2>6, <2>7, JoinIsConcat
    <2>9. SubSeq(w, 2, Len(s)) = x
      <3>1. \A i \in 2..Len(s) : w[i] \in S
        BY <1>1, <1>2
      <3> DEFINE u == SubSeq(w, 2, Len(s))
      <3>2. u \in Seq(S) /\ Len(u) = (IF 2 <= Len(s) THEN Len(s) - 2 + 1 ELSE 0)
            /\ \A i \in 1..Len(s) - 2 + 1 : u[i] = w[2 + i - 1]
        BY <1>2, <3>1, SubSeqProperties
      <3> HIDE DEF u
      <3>3. Len(u) = Len(x) /\ \A i \in 1..Len(u) : u[i] = x[i]
        BY <1>1, <1>2, <2>1, <2>5, <3>2 DEF JoinOf
      <3>4. u = x
        BY <2>5, <3>2, <3>3, SeqEqual
      <3> QED
        BY <3>4 DEF u
    <2> QED
      BY <2>1, <2>2, <2>8, <2>9 DEF x, y
  <1> QED
    BY <1>3, <1>4, <1>5, Zenon DEF w, Parts
----------------------------------------------------------------------------
\* The characters that keys stand for.

AllKeys == Chars \cup ExtendedKeys

\* g puts together what the keys stand for, key by key.
SpellsOut(g, keys) ==
  g = [i \in 0..Len(keys) |-> IF i = 0 THEN <<>> ELSE g[i - 1] \o Spelling(keys[i])]

\* A key stands for at most three characters, and for none only if it is dead.
LEMMA SpellingChars ==
  ASSUME NEW k \in AllKeys
  PROVE  /\ Spelling(k) \in Seq(Chars) /\ Len(Spelling(k)) \in 0..3
         /\ k # "dead" => Spelling(k) # <<>>
         /\ k = "dead" => Spelling(k) = <<>>
  <1>1. CASE k = "up"
    <2>1. Spelling(k) = <<"esc", "a">>
      BY <1>1 DEF Spelling, get_ext_key_string, ExtendedKeys
    <2>2. PICK b, c \in Chars : b = "esc" /\ c = "a"
      BY DEF Chars
    <2>3. <<b, c>> \in Seq(Chars) /\ Len(<<b, c>>) = 2 /\ <<b, c>> # <<>>
      OBVIOUS
    <2>4. 2 \in 0..3 /\ k # "dead"
      BY <1>1
    <2> QED
      BY <2>1, <2>2, <2>3, <2>4, Zenon
  <1>2. CASE k = "dead"
    <2>1. Spelling(k) = <<>>
      BY <1>2 DEF Spelling, get_ext_key_string, ExtendedKeys
    <2>2. <<>> \in Seq(Chars) /\ Len(<<>>) = 0 /\ 0 \in 0..3
      BY EmptySeq
    <2> QED
      BY <1>2, <2>1, <2>2, Zenon
  <1>3. CASE k \in Chars /\ k \notin ExtendedKeys
    <2>1. Spelling(k) = <<k>>
      BY <1>3 DEF Spelling
    <2>2. k # "dead"
      BY <1>3 DEF ExtendedKeys
    <2> QED
      BY <1>3, <2>1, <2>2
  <1> QED
    BY <1>1, <1>2, <1>3 DEF AllKeys, ExtendedKeys

\* Spelled is what such a g ends with.
LEMMA SpelledRun ==
  ASSUME NEW keys \in Seq(AllKeys)
  PROVE  \E g : /\ Spelled(keys) = g[Len(keys)]
                /\ g[0] = <<>>
                /\ \A i \in 0..Len(keys) : g[i] \in Seq(Chars)
                /\ \A i \in 1..Len(keys) : g[i] = g[i - 1] \o Spelling(keys[i])
  <1> DEFINE R == Seq(Chars)
  <1>1. PICK n \in Nat : n = Len(keys)
    OBVIOUS
  <1>2. PICK a : a = <<>>
    OBVIOUS
  <1>3. a \in R
    BY <1>2
  <1>4. PICK f : f = [q \in R \X (1..n) |-> q[1] \o Spelling(keys[q[2]])]
    OBVIOUS
  <1>5. ASSUME NEW r \in R, NEW i \in 1..n
        PROVE  f[<<r, i>>] = r \o Spelling(keys[i]) /\ r \o Spelling(keys[i]) \in R
    <2>1. <<r, i>> \in R \X (1..n) /\ <<r, i>>[1] = r /\ <<r, i>>[2] = i
      OBVIOUS
    <2>2. f[<<r, i>>] = r \o Spelling(keys[i])
      BY <1>4, <2>1, Zenon
    <2>3. keys[i] \in AllKeys
      BY <1>1
    <2>4. Spelling(keys[i]) \in Seq(Chars)
      BY <2>3, SpellingChars, Zenon
    <2>5. r \o Spelling(keys[i]) \in R
      BY <2>4, ConcatProperties, Zenon
    <2> QED
      BY <2>2, <2>5
  <1> HIDE DEF R
  <1>6. PICK h : LoopOf(h, n, a, f) /\ \A i \in 0..n : h[i] \in R
    <2>1. \A r \in R, i \in 1..n : f[<<r, i>>] \in R
      BY <1>5
    <2> QED
      BY <1>3, <2>1, RunExists, Zenon
  <1>7. SpellsOut(h, keys)
    <2>1. ASSUME NEW i \in 0..n
          PROVE  (IF i = 0 THEN a ELSE f[<<h[i - 1], i>>])
                 = (IF i = 0 THEN a ELSE h[i - 1] \o Spelling(keys[i]))
      <3>1. CASE i = 0
        BY <3>1, Zenon
      <3>2. CASE i # 0
        <4>1. i \in 1..n /\ i - 1 \in 0..n
          BY <3>2
        <4>2. h[i - 1] \in R
          BY <1>6, <4>1
        <4> QED
          BY <1>5, <4>1, <4>2, <3>2, Zenon
      <3> QED
        BY <3>1, <3>2
    <2>2. h = [i \in 0..n |-> IF i = 0 THEN a ELSE h[i - 1] \o Spelling(keys[i])]
      BY <1>6, <2>1, Zenon DEF LoopOf
    <2> QED
      BY <1>1, <1>2, <2>2, Zenon DEF SpellsOut
  <1> DEFINE g == CHOOSE g : SpellsOut(g, keys)
  <1>8. Spelled(keys) = g[Len(keys)]
    BY DEF Spelled, SpellsOut
  <1>9. SpellsOut(g, keys)
    BY <1>7, Zenon
  <1> HIDE DEF g
  <1>10. /\ g[0] = a
         /\ \A i \in 1..n : g[i] = g[i - 1] \o Spelling(keys[i])
    <2>1. \A i \in 0..n : g[i] = IF i = 0 THEN a ELSE g[i - 1] \o Spelling(keys[i])
      BY <1>1, <1>2, <1>9, Zenon DEF SpellsOut
    <2>2. 0 \in 0..n /\ \A i \in 1..n : i \in 0..n /\ i # 0
      OBVIOUS
    <2> QED
      BY <2>1, <2>2, Zenon
  <1> DEFINE S == {i \in 0..n : g[i] \in R}
  <1>11. 0 \in S
    BY <1>3, <1>10
  <1>12. ASSUME NEW i \in 1..n, i - 1 \in S
         PROVE  i \in S
    <2>1. i \in 0..n /\ g[i - 1] \in R
      BY <1>12
    <2>2. g[i] \in R
      BY <1>5, <1>10, <2>1, Zenon
    <2> QED
      BY <2>1, <2>2
  <1> HIDE DEF S
  <1>13. \A i \in 0..n : i \in S
    BY <1>11, <1>12, TurnByTurn, Zenon
  <1>14. \A i \in 0..n : g[i] \in R
    BY <1>13 DEF S
  <1> QED
    BY <1>1, <1>2, <1>8, <1>10, <1>14, Zenon DEF R

\* No keys stand for nothing; what keys stand for are characters.
LEMMA SpelledChars ==
  ASSUME NEW keys \in Seq(AllKeys)
  PROVE  Spelled(keys) \in Seq(Chars) /\ (keys = <<>> => Spelled(keys) = <<>>)
  <1>1. PICK g : /\ Spelled(keys) = g[Len(keys)]
                 /\ g[0] = <<>>
                 /\ \A i \in 0..Len(keys) : g[i] \in Seq(Chars)
    BY SpelledRun, Zenon
  <1>2. Len(keys) \in 0..Len(keys) /\ (keys = <<>> => Len(keys) = 0)
    OBVIOUS
  <1> QED
    BY <1>1, <1>2, Zenon

\* One more key adds what it stands for.
LEMMA SpelledMore ==
  ASSUME NEW keys \in Seq(AllKeys), NEW k \in AllKeys
  PROVE  Spelled(Append(keys, k)) = Spelled(keys) \o Spelling(k)
  <1>1. PICK more \in Seq(AllKeys) : more = Append(keys, k)
    <2>1. Append(keys, k) \in Seq(AllKeys)
      OBVIOUS
    <2> QED
      BY <2>1, Zenon
  <1>2. PICK n \in Nat : n = Len(keys)
    OBVIOUS
  <1>3. Len(more) = n + 1 /\ more[n + 1] = k /\ \A i \in 1..n : more[i] = keys[i]
    BY <1>1, <1>2
  <1>4. PICK g : /\ Spelled(keys) = g[n]
                 /\ g[0] = <<>>
                 /\ \A i \in 1..n : g[i] = g[i - 1] \o Spelling(keys[i])
    BY <1>2, SpelledRun, Zenon
  <1>5. PICK h : /\ Spelled(more) = h[n + 1]
                 /\ h[0] = <<>>
                 /\ \A i \in 1..(n + 1) : h[i] = h[i - 1] \o Spelling(more[i])
    BY <1>3, SpelledRun, ZenonT(60)
  <1> DEFINE S == {i \in 0..n : g[i] = h[i]}
  <1>6. 0 \in S
    BY <1>4, <1>5
  <1>7. ASSUME NEW i \in 1..n, i - 1 \in S
        PROVE  i \in S
    <2>1. i \in 0..n /\ i \in 1..(n + 1) /\ g[i - 1] = h[i - 1]
      BY <1>7
    <2>2. g[i] = h[i]
      BY <1>3, <1>4, <1>5, <2>1, Zenon
    <2> QED
      BY <2>1, <2>2
  <1> HIDE DEF S
  <1>8. n \in S
    <2>1. \A i \in 0..n : i \in S
      BY <1>6, <1>7, TurnByTurn, Zenon
    <2> QED
      BY <2>1
  <1>9. g[n] = h[n]
    BY <1>8 DEF S
  <1>10. n + 1 \in 1..(n + 1) /\ (n + 1) - 1 = n
    OBVIOUS
  <1>11. h[n + 1] = h[n] \o Spelling(k)
    BY <1>3, <1>5, <1>10, Zenon
  <1> QED
    BY <1>1, <1>4, <1>5, <1>9, <1>11, Zenon

\* The first key's characters come first.
LEMMA SpelledFirst ==
  ASSUME NEW keys \in Seq(AllKeys), keys # <<>>
  PROVE  Spelled(keys) = Spelling(Head(keys)) \o Spelled(Tail(keys))
  <1>1. PICK rest \in Seq(AllKeys) : rest = Tail(keys)
    BY HeadTailProperties, Zenon
  <1>2. PICK n \in Nat : n = Len(rest)
    OBVIOUS
  <1>3. /\ Len(keys) = n + 1 /\ Head(keys) = keys[1] /\ keys[1] \in AllKeys
        /\ \A i \in 1..n : keys[i + 1] = rest[i] /\ rest[i] \in AllKeys
    BY <1>1, <1>2
  <1>4. PICK x \in Seq(Chars) : x = Spelling(keys[1])
    BY <1>3, SpellingChars, Zenon
  <1>5. PICK g : /\ Spelled(rest) = g[n]
                 /\ g[0] = <<>>
                 /\ \A i \in 0..n : g[i] \in Seq(Chars)
                 /\ \A i \in 1..n : g[i] = g[i - 1] \o Spelling(rest[i])
    BY <1>2, SpelledRun, Zenon
  <1>6. PICK h : /\ Spelled(keys) = h[n + 1]
                 /\ h[0] = <<>>
                 /\ \A i \in 1..(n + 1) : h[i] = h[i - 1] \o Spelling(keys[i])
    <2>1. Len(keys) = n + 1
      BY <1>3
    <2> QED
      BY <2>1, SpelledRun, ZenonT(60)
  <1> DEFINE T == {i \in 0..n : h[i + 1] = x \o g[i]}
  <1>7. 0 \in T
    <2>1. 1 \in 1..(n + 1) /\ 1 - 1 = 0 /\ 0 + 1 = 1 /\ 0 \in 0..n
      OBVIOUS
    <2>2. h[1] = <<>> \o x
      BY <1>4, <1>6, <2>1, Zenon
    <2>3. <<>> \o x = x /\ x \o <<>> = x
      BY ConcatEmptySeq, Zenon
    <2> QED
      BY <1>5, <2>1, <2>2, <2>3, Zenon
  <1>8. ASSUME NEW i \in 1..n, i - 1 \in T
        PROVE  i \in T
    <2>1. i \in 0..n /\ i - 1 \in 0..n /\ i + 1 \in 1..(n + 1) /\ (i + 1) - 1 = i /\ (i - 1) + 1 = i
      OBVIOUS
    <2>2. h[i] = x \o g[i - 1]
      BY <1>8, <2>1, Zenon
    <2>3. h[i + 1] = (x \o g[i - 1]) \o Spelling(rest[i])
      BY <1>3, <1>6, <2>1, <2>2, ZenonT(60)
    <2>4. Spelling(rest[i]) \in Seq(Chars)
      BY <1>3, SpellingChars, Zenon
    <2>5. (x \o g[i - 1]) \o Spelling(rest[i]) = x \o (g[i - 1] \o Spelling(rest[i]))
      <3>1. PICK y \in Seq(Chars) : y = g[i - 1]
        BY <1>5, <2>1
      <3>2. PICK z \in Seq(Chars) : z = Spelling(rest[i])
        BY <2>4, Zenon
      <3>3. (x \o y) \o z = x \o (y \o z)
        BY Regroup, SMT
      <3> QED
        BY <3>1, <3>2, <3>3, Zenon
    <2> QED
      BY <1>5, <2>1, <2>3, <2>5, Zenon
  <1> HIDE DEF T
  <1>9. n \in T
    <2>1. \A i \in 0..n : i \in T
      BY <1>7, <1>8, TurnByTurn, Zenon
    <2> QED
      BY <2>1
  <1>10. h[n + 1] = x \o g[n]
    BY <1>9 DEF T
  <1> QED
    BY <1>1, <1>3, <1>4, <1>5, <1>6, <1>10, Zenon
----------------------------------------------------------------------------
\* The ring.

Places == 0..QueueMax - 1

\* The n characters of the ring m from place r.
RingOf(m, r, n) == [i \in 1..n |-> m[(r + i - 1) % QueueMax]]

\* The ring m after k characters of s have been put at place w.
PutAt(m, w, s, k) ==
  [i \in Places |-> LET d == (i + QueueMax - w) % QueueMax
                    IN  IF d < k THEN s[d + 1] ELSE m[i]]

\* The remainder as the ring takes it: positions wrap round once at most.
LEMMA Wraps ==
  ASSUME NEW Q \in Nat \ {0}, NEW x \in Nat, x < 2 * Q
  PROVE  x % Q = IF x < Q THEN x ELSE x - Q
  <1>1. CASE x < Q
    BY <1>1
  <1>2. CASE ~ (x < Q)
    BY <1>2
  <1> QED
    BY <1>1, <1>2

\* The sizes are positive and a whole line with its end fits the ring.
LEMMA SomePlaces ==
  /\ QueueMax \in Nat \ {0} /\ QueueMax > 1
  /\ QueueMax > LineMax /\ LineMax \in Nat \ {0}
  BY SizesAssumption

\* What the ring holds is a sequence of as many characters as it counts.
LEMMA RingChars ==
  ASSUME NEW m \in [Places -> Chars], NEW r \in Places, NEW n \in 0..QueueMax
  PROVE  /\ RingOf(m, r, n) \in Seq(Chars)
         /\ Len(RingOf(m, r, n)) = n
         /\ \A i \in 1..n : RingOf(m, r, n)[i] = m[(r + i - 1) % QueueMax]
  <1>1. ASSUME NEW i \in 1..n
        PROVE  m[(r + i - 1) % QueueMax] \in Chars
    <2>1. (r + i - 1) % QueueMax \in Places
      BY SomePlaces DEF Places
    <2> QED
      BY <2>1
  <1>2. n \in Nat
    BY SomePlaces
  <1>3. RingOf(m, r, n) \in [1..n -> Chars]
    BY <1>1 DEF RingOf
  <1> QED
    BY <1>2, <1>3 DEF RingOf

\* Taking from the ring takes the first character.
LEMMA RingTakes ==
  ASSUME NEW m \in [Places -> Chars], NEW r \in Places, NEW n \in 1..QueueMax
  PROVE  /\ (r + 1) % QueueMax \in Places
         /\ RingOf(m, r, n) # <<>>
         /\ RingOf(m, r, n)[1] = m[r]
         /\ RingOf(m, (r + 1) % QueueMax, n - 1) = Tail(RingOf(m, r, n))
         /\ (((r + 1) % QueueMax) + (n - 1)) % QueueMax = (r + n) % QueueMax
  <1>1. PICK Q \in Nat \ {0} : Q = QueueMax /\ Q > 1
    BY SomePlaces
  <1>2. r \in Nat /\ r < Q /\ n \in Nat /\ 1 <= n /\ n <= Q
    BY <1>1 DEF Places
  <1>3. PICK q \in Places : q = (r + 1) % Q /\ q = IF r + 1 < Q THEN r + 1 ELSE 0
    BY <1>1, <1>2, Wraps DEF Places
  <1>4. ASSUME NEW i \in 0..n - 1
        PROVE  (q + i) % Q = (r + 1 + i) % Q
    <2>1. CASE r + 1 < Q
      BY <1>3, <2>1
    <2>2. CASE ~ (r + 1 < Q)
      <3>1. q = 0 /\ r + 1 = Q
        BY <1>2, <1>3, <2>2
      <3>2. i \in Nat /\ i < Q
        BY <1>2
      <3>3. i % Q = i
        BY <1>1, <3>2
      <3>4. (Q + i) % Q = i
        BY <1>1, <3>2, Wraps
      <3> QED
        BY <3>1, <3>2, <3>3, <3>4
    <2> QED
      BY <2>1, <2>2
  <1> DEFINE x == RingOf(m, r, n)
             y == RingOf(m, q, n - 1)
  <1>5. x \in Seq(Chars) /\ Len(x) = n /\ \A i \in 1..n : x[i] = m[(r + i - 1) % Q]
    BY <1>1, <1>2, RingChars
  <1>6. y \in Seq(Chars) /\ Len(y) = n - 1 /\ \A i \in 1..n - 1 : y[i] = m[(q + i - 1) % Q]
    <2>1. n - 1 \in 0..QueueMax
      BY <1>1, <1>2
    <2> QED
      BY <1>1, <2>1, RingChars
  <1> HIDE DEF x, y
  <1>7. x # <<>>
    BY <1>2, <1>5
  <1>8. x[1] = m[r]
    <2>1. (r + 1 - 1) % Q = r
      BY <1>1, <1>2, Wraps
    <2> QED
      BY <1>2, <1>5, <2>1
  <1>9. y = Tail(x)
    <2>1. /\ Tail(x) \in Seq(Chars) /\ Len(Tail(x)) = n - 1
          /\ \A i \in 1..n - 1 : Tail(x)[i] = x[i + 1]
      BY <1>5, <1>7, HeadTailProperties
    <2>2. PICK z : z = Tail(x)
      OBVIOUS
    <2>3. z \in Seq(Chars) /\ Len(z) = n - 1 /\ \A i \in 1..n - 1 : z[i] = x[i + 1]
      BY <2>1, <2>2
    <2>4. ASSUME NEW i \in 1..n - 1
          PROVE  y[i] = z[i]
      <3>1. i + 1 \in 1..n /\ i - 1 \in 0..n - 1 /\ r + (i + 1) - 1 = r + 1 + (i - 1)
            /\ q + i - 1 = q + (i - 1)
        BY <1>2, <1>3 DEF Places
      <3>2. (q + (i - 1)) % Q = (r + 1 + (i - 1)) % Q
        BY <1>4, <3>1
      <3> QED
        BY <1>5, <1>6, <2>3, <3>1, <3>2, SMTT(60)
    <2>5. y = z
      BY <1>6, <2>3, <2>4, SeqEqual
    <2> QED
      BY <2>2, <2>5
  <1>10. (q + (n - 1)) % Q = (r + n) % Q
    <2>1. n - 1 \in 0..n - 1 /\ r + 1 + (n - 1) = r + n
      BY <1>2
    <2> QED
      BY <1>4, <2>1
  <1> QED
    BY <1>1, <1>3, <1>7, <1>8, <1>9, <1>10 DEF x, y

\* Putting what there is room for adds it at the end.
LEMMA RingPuts ==
  ASSUME NEW m \in [Places -> Chars], NEW r \in Places, NEW n \in 0..QueueMax,
         NEW w \in Places, w = (IF r + n < QueueMax THEN r + n ELSE r + n - QueueMax),
         NEW s \in Seq(Chars),
         NEW k \in 0..Len(s), k <= QueueMax - n
  PROVE  /\ PutAt(m, w, s, k) \in [Places -> Chars]
         /\ (w + k) % QueueMax = (r + (n + k)) % QueueMax
         /\ RingOf(PutAt(m, w, s, k), r, n + k) = RingOf(m, r, n) \o SubSeq(s, 1, k)
  <1>1. PICK Q \in Nat \ {0} : Q = QueueMax /\ Q > 1
    BY SomePlaces
  <1>2. /\ r \in Nat /\ r < Q /\ n \in Nat /\ n <= Q
        /\ k \in Nat /\ n + k <= Q /\ Len(s) \in Nat /\ k <= Len(s)
    BY <1>1 DEF Places
  <1>3. w = (IF r + n < Q THEN r + n ELSE r + n - Q) /\ w \in Nat /\ w < Q
    BY <1>1 DEF Places
  <1> DEFINE p == PutAt(m, w, s, k)
  <1>4. ASSUME NEW i \in Places
        PROVE  /\ (i + Q - w) % Q = (IF i < w THEN i + Q - w ELSE i - w)
               /\ p[i] = IF (i + Q - w) % Q < k THEN s[((i + Q - w) % Q) + 1] ELSE m[i]
    <2>1. PICK v \in Nat : v = i + Q - w /\ v < 2 * Q
      <3>1. i \in Int /\ 0 <= i /\ i < Q
        BY <1>1 DEF Places
      <3>2. i + Q - w \in Nat /\ i + Q - w < 2 * Q
        BY <1>3, <3>1
      <3> QED
        BY <3>2, Zenon
    <2>2. v % Q = IF v < Q THEN v ELSE v - Q
      BY <2>1, Wraps, Zenon
    <2>3. (i + Q - w) % Q = IF i < w THEN i + Q - w ELSE i - w
      BY <1>1, <1>3, <2>1, <2>2 DEF Places
    <2> QED
      BY <1>1, <2>3 DEF PutAt
  <1>5. p \in [Places -> Chars]
    <2>1. ASSUME NEW i \in Places
          PROVE  (IF (i + Q - w) % Q < k THEN s[((i + Q - w) % Q) + 1] ELSE m[i]) \in Chars
      <3>1. CASE (i + Q - w) % Q < k
        <4>1. ((i + Q - w) % Q) + 1 \in 1..Len(s)
          BY <1>1, <1>2, <1>3, <1>4, <3>1 DEF Places
        <4> QED
          BY <3>1, <4>1
      <3> QED
        BY <3>1
    <2> QED
      BY <1>1, <2>1 DEF PutAt
  <1> HIDE DEF p
  <1>6. (w + k) % Q = (r + (n + k)) % Q
    <2>1. CASE r + n < Q
      <3>1. w + k = r + (n + k)
        BY <1>2, <1>3, <2>1
      <3> QED
        BY <3>1, Zenon
    <2>2. CASE ~ (r + n < Q)
      <3>1. w + k = r + n - Q + k /\ w + k \in Nat /\ r + (n + k) \in Nat
            /\ r + (n + k) = w + k + Q
        BY <1>2, <1>3, <2>2
      <3>2. w + k < Q
        BY <1>2, <3>1
      <3>3. PICK a, b \in Nat : a = w + k /\ b = r + (n + k) /\ b < 2 * Q /\ b = a + Q /\ a < Q
                                /\ a < 2 * Q /\ ~ (b < Q) /\ b - Q = a
        BY <3>1, <3>2
      <3>4. b % Q = a /\ a % Q = a
        BY <3>3, Wraps, Zenon
      <3> QED
        BY <3>3, <3>4, Zenon
    <2> QED
      BY <2>1, <2>2
  <1> DEFINE x == RingOf(m, r, n)
             y == RingOf(p, r, n + k)
             t == SubSeq(s, 1, k)
  <1>7. x \in Seq(Chars) /\ Len(x) = n /\ \A i \in 1..n : x[i] = m[(r + i - 1) % Q]
    BY <1>1, <1>2, RingChars
  <1>8. y \in Seq(Chars) /\ Len(y) = n + k /\ \A i \in 1..n + k : y[i] = p[(r + i - 1) % Q]
    <2>1. n + k \in 0..QueueMax
      BY <1>1, <1>2
    <2> QED
      BY <1>1, <1>5, <2>1, RingChars, ZenonT(60)
  <1>9. t \in Seq(Chars) /\ Len(t) = k /\ \A i \in 1..k : t[i] = s[i]
    <2>1. \A i \in 1..k : s[i] \in Chars
      BY <1>2
    <2>2. t \in Seq(Chars) /\ Len(t) = (IF 1 <= k THEN k - 1 + 1 ELSE 0)
          /\ \A i \in 1..k - 1 + 1 : t[i] = s[1 + i - 1]
      BY <1>2, <2>1, SubSeqProperties
    <2> HIDE DEF t
    <2> QED
      BY <1>2, <2>2
  <1> HIDE DEF x, y, t
  <1>10. ASSUME NEW i \in 1..n + k
         PROVE  /\ (r + i - 1) % Q \in Places
                /\ (r + i - 1) % Q = IF r + i - 1 < Q THEN r + i - 1 ELSE r + i - 1 - Q
    <2>1. PICK v \in Nat : v = r + i - 1 /\ v < 2 * Q
      BY <1>2
    <2>2. v % Q = IF v < Q THEN v ELSE v - Q
      BY <2>1, Wraps, Zenon
    <2>3. v % Q \in Places
      BY <1>1, <2>1, <2>2 DEF Places
    <2> QED
      BY <2>1, <2>2, <2>3
  <1>11. JoinOf(y, x, t)
    <2>1. ASSUME NEW i \in 1..Len(x)
          PROVE  y[i] = x[i]
      <3>1. i \in 1..n /\ i \in 1..n + k
        BY <1>2, <1>7
      <3>2. PICK j \in Places : j = (r + i - 1) % Q /\ j = IF r + i - 1 < Q THEN r + i - 1 ELSE r + i - 1 - Q
        BY <1>10, <3>1
      <3>3. j \in Nat /\ j < Q
        BY <1>1 DEF Places
      <3>4. ~ ((IF j < w THEN j + Q - w ELSE j - w) < k)
        BY <1>2, <1>3, <3>1, <3>2, <3>3
      <3>5. p[j] = m[j]
        BY <1>4, <3>4
      <3> QED
        BY <1>7, <1>8, <3>1, <3>2, <3>5
    <2>2. ASSUME NEW i \in 1..Len(t)
          PROVE  y[Len(x) + i] = t[i]
      <3>1. i \in 1..k /\ n + i \in 1..n + k
        BY <1>2, <1>9
      <3>2. PICK j \in Places : j = (r + (n + i) - 1) % Q
                                /\ j = IF r + (n + i) - 1 < Q THEN r + (n + i) - 1 ELSE r + (n + i) - 1 - Q
        BY <1>10, <3>1
      <3>3. j \in Nat /\ j < Q
        BY <1>1 DEF Places
      <3>4. (IF j < w THEN j + Q - w ELSE j - w) = i - 1 /\ i - 1 < k /\ i - 1 + 1 = i
        BY <1>2, <1>3, <3>1, <3>2, <3>3, SMTT(60)
      <3>5. p[j] = s[i]
        BY <1>4, <3>4
      <3> QED
        BY <1>7, <1>8, <1>9, <3>1, <3>2, <3>5
    <2> QED
      BY <1>7, <1>8, <1>9, <2>1, <2>2 DEF JoinOf
  <1>12. y = x \o t
    BY <1>7, <1>8, <1>9, <1>11, JoinIsConcat
  <1> QED
    BY <1>1, <1>5, <1>6, <1>12 DEF p, x, y, t
----------------------------------------------------------------------------
\* The width of the line.

\* The columns of a position with flag f, in modes m.
Columns(f, m) == IF f = CTRL /\ "ECHOCTL" \in m
                 THEN 2 * (IF "ECHO" \in m THEN 1 ELSE 0)
                 ELSE IF "ECHO" \in m THEN 1 ELSE 0

\* g adds up the columns of the first n positions.
AddsUp(g, m, f, n) ==
  g = [i \in 0..n |-> IF i = 0 THEN 0 ELSE g[i - 1] + Columns(f[i - 1], m)]
WidthOf(m, f, n) == (CHOOSE g : AddsUp(g, m, f, n))[n]

\* The width before and after a step, as a function of modes, flags and cursor.
LEMMA WidthIs == Width = WidthOf(modes, flag, col) /\ Width' = WidthOf(modes', flag', col')
  BY DEF Width, WidthOf, AddsUp, Columns, Rubbed, maybe_erase1

\* The width is what such a g ends with.
WidthSteps(m, f, n) ==
  \E g : /\ WidthOf(m, f, n) = g[n]
         /\ g[0] = 0
         /\ \A i \in 0..n : g[i] \in Nat
         /\ \A i \in 1..n : g[i] = g[i - 1] + Columns(f[i - 1], m)

\* The sum of columns exists, position by position.
LEMMA WidthRun ==
  ASSUME NEW m, NEW f, NEW n \in Nat
  PROVE  WidthSteps(m, f, n)
  <1>1. PICK a \in Nat : a = 0
    OBVIOUS
  <1>2. PICK e : e = [q \in Nat \X (1..n) |-> q[1] + Columns(f[q[2] - 1], m)]
    OBVIOUS
  <1>3. ASSUME NEW r \in Nat, NEW i \in 1..n
        PROVE  e[<<r, i>>] = r + Columns(f[i - 1], m) /\ r + Columns(f[i - 1], m) \in Nat
    <2>1. <<r, i>> \in Nat \X (1..n) /\ <<r, i>>[1] = r /\ <<r, i>>[2] = i
      OBVIOUS
    <2>2. e[<<r, i>>] = r + Columns(f[i - 1], m)
      BY <1>2, <2>1, Zenon
    <2>3. Columns(f[i - 1], m) \in Nat
      BY DEF Columns
    <2> QED
      BY <2>2, <2>3
  <1>4. PICK h : LoopOf(h, n, a, e) /\ \A i \in 0..n : h[i] \in Nat
    <2>1. \A r \in Nat, i \in 1..n : e[<<r, i>>] \in Nat
      BY <1>3
    <2> QED
      BY <2>1, RunExists, Zenon
  <1>5. AddsUp(h, m, f, n)
    <2>1. ASSUME NEW i \in 0..n
          PROVE  (IF i = 0 THEN a ELSE e[<<h[i - 1], i>>])
                 = (IF i = 0 THEN a ELSE h[i - 1] + Columns(f[i - 1], m))
      <3>1. CASE i = 0
        BY <3>1, Zenon
      <3>2. CASE i # 0
        <4>1. i \in 1..n /\ i - 1 \in 0..n
          BY <3>2
        <4>2. h[i - 1] \in Nat
          BY <1>4, <4>1
        <4> QED
          BY <1>3, <4>1, <4>2, <3>2, Zenon
      <3> QED
        BY <3>1, <3>2
    <2>2. h = [i \in 0..n |-> IF i = 0 THEN a ELSE h[i - 1] + Columns(f[i - 1], m)]
      BY <1>4, <2>1, Zenon DEF LoopOf
    <2> QED
      BY <1>1, <2>2, Zenon DEF AddsUp
  <1> DEFINE g == CHOOSE g : AddsUp(g, m, f, n)
  <1>6. WidthOf(m, f, n) = g[n]
    BY DEF WidthOf
  <1>7. AddsUp(g, m, f, n)
    BY <1>5, Zenon
  <1> HIDE DEF g
  <1>8. /\ g[0] = 0
        /\ \A i \in 1..n : g[i] = g[i - 1] + Columns(f[i - 1], m)
    <2>1. \A i \in 0..n : g[i] = IF i = 0 THEN 0 ELSE g[i - 1] + Columns(f[i - 1], m)
      BY <1>7, Zenon DEF AddsUp
    <2>2. 0 \in 0..n /\ \A i \in 1..n : i \in 0..n /\ i # 0
      OBVIOUS
    <2> QED
      BY <2>1, <2>2, Zenon
  <1> DEFINE T == {i \in 0..n : g[i] \in Nat}
  <1>9. 0 \in T
    BY <1>8
  <1>10. ASSUME NEW i \in 1..n, i - 1 \in T
         PROVE  i \in T
    <2>1. i \in 0..n /\ g[i - 1] \in Nat
      BY <1>10
    <2>2. g[i] \in Nat
      BY <1>3, <1>8, <2>1, Zenon
    <2> QED
      BY <2>1, <2>2
  <1> HIDE DEF T
  <1>11. \A i \in 0..n : i \in T
    BY <1>9, <1>10, TurnByTurn, Zenon
  <1>12. \A i \in 0..n : g[i] \in Nat
    BY <1>11 DEF T
  <1> QED
    BY <1>6, <1>8, <1>12, Zenon DEF WidthSteps

\* A width is a number.
LEMMA WidthNat ==
  ASSUME NEW m, NEW f, NEW n \in Nat
  PROVE  WidthOf(m, f, n) \in Nat /\ WidthOf(m, f, 0) = 0
  <1>1. n \in 0..n /\ 0 \in Nat
    OBVIOUS
  <1>2. WidthSteps(m, f, n) /\ WidthSteps(m, f, 0)
    BY <1>1, WidthRun
  <1> QED
    BY <1>1, <1>2, Zenon DEF WidthSteps

\* A position more has its columns more.
LEMMA WidthMore ==
  ASSUME NEW m, NEW f, NEW e, NEW n \in Nat, \A i \in 0..n - 1 : e[i] = f[i]
  PROVE  WidthOf(m, e, n + 1) = WidthOf(m, f, n) + Columns(e[n], m)
  <1>1. PICK g : /\ WidthOf(m, f, n) = g[n]
                 /\ g[0] = 0
                 /\ \A i \in 1..n : g[i] = g[i - 1] + Columns(f[i - 1], m)
    <2>1. WidthSteps(m, f, n)
      BY WidthRun
    <2> QED
      BY <2>1, Zenon DEF WidthSteps
  <1>2. n + 1 \in Nat /\ n + 1 \in 1..(n + 1) /\ (n + 1) - 1 = n
    OBVIOUS
  <1>3. PICK h : /\ WidthOf(m, e, n + 1) = h[n + 1]
                 /\ h[0] = 0
                 /\ \A i \in 1..(n + 1) : h[i] = h[i - 1] + Columns(e[i - 1], m)
    <2>1. WidthSteps(m, e, n + 1)
      BY <1>2, WidthRun
    <2> QED
      BY <2>1, Zenon DEF WidthSteps
  <1> DEFINE T == {i \in 0..n : g[i] = h[i]}
  <1>4. 0 \in T
    BY <1>1, <1>3
  <1>5. ASSUME NEW i \in 1..n, i - 1 \in T
        PROVE  i \in T
    <2>1. i \in 0..n /\ i \in 1..(n + 1) /\ i - 1 \in 0..n - 1 /\ g[i - 1] = h[i - 1]
      BY <1>5
    <2>2. e[i - 1] = f[i - 1]
      BY <2>1, Zenon
    <2>3. g[i] = h[i]
      BY <1>1, <1>3, <2>1, <2>2, Zenon
    <2> QED
      BY <2>1, <2>3
  <1> HIDE DEF T
  <1>6. n \in T
    <2>1. \A i \in 0..n : i \in T
      BY <1>4, <1>5, TurnByTurn, Zenon
    <2> QED
      BY <2>1
  <1>7. g[n] = h[n]
    BY <1>6 DEF T
  <1>8. h[n + 1] = h[n] + Columns(e[n], m)
    BY <1>2, <1>3, Zenon
  <1> QED
    BY <1>1, <1>3, <1>7, <1>8, Zenon
----------------------------------------------------------------------------
\* The steps of Tty, under the mapping of Termios.

\* What the instance of Tty sees as typed, and as the line.
Typed == ext \o Spelled(kbd)
Line  == [i \in 1..col |-> buf[i - 1]]

\* The character at the front of what is typed is used, and nothing else changes.
UsesFirst ==
  /\ Typed # <<>>
  /\ Typed' = Tail(Typed)
  /\ got' = got
  /\ modes' = modes

\* The instance's copies of the operators of TtyChars are the operators themselves.
LEMMA SameChars ==
  ASSUME NEW m, NEW c
  PROVE  Terminal!Dropped(m, c) = Dropped(m, c) /\ Terminal!Mapped(m, c) = Mapped(m, c)
  BY Zenon DEF Terminal!Dropped, Dropped, Terminal!Signalling, Signalling, Terminal!Mapped, Mapped

\* A dropped character.
LEMMA UsesDropped ==
  ASSUME UsesFirst, Dropped(modes, Head(Typed)), Line' = Line, Queued' = Queued
  PROVE  Terminal!UseChar
  BY SameChars, Zenon DEF UsesFirst, Terminal!UseChar, Typed, Line

\* A character of a terminal that is not canonical.
LEMMA UsesPut ==
  ASSUME UsesFirst, ~ Dropped(modes, Head(Typed)), "ICANON" \notin modes, Line' = Line,
         Queued' = IF Len(Queued) < QueueMax
                   THEN Append(Queued, Mapped(modes, Head(Typed))) ELSE Queued
  PROVE  Terminal!UseChar
  BY SameChars, Zenon DEF UsesFirst, Terminal!UseChar, Typed, Line

\* The erase character.
LEMMA UsesErase ==
  ASSUME UsesFirst, ~ Dropped(modes, Head(Typed)), "ICANON" \in modes,
         Mapped(modes, Head(Typed)) = "bs",
         Line' = SubSeq(Line, 1, Len(Line) - 1), Queued' = Queued
  PROVE  Terminal!UseChar
  BY SameChars, Zenon DEF UsesFirst, Terminal!UseChar, Typed, Line

\* The kill character.
LEMMA UsesKill ==
  ASSUME UsesFirst, ~ Dropped(modes, Head(Typed)), "ICANON" \in modes,
         Mapped(modes, Head(Typed)) = "nak",
         Line' = <<>>, Queued' = Queued
  PROVE  Terminal!UseChar
  BY SameChars, Zenon DEF UsesFirst, Terminal!UseChar, Typed, Line

\* The end of a line.
LEMMA UsesEnd ==
  ASSUME UsesFirst, ~ Dropped(modes, Head(Typed)), "ICANON" \in modes,
         NEW c, c = Mapped(modes, Head(Typed)), c \in {"nl", "eot"},
         Queued = <<>>, Line' = <<>>,
         Queued' = IF c = "eot" THEN Line ELSE Append(Line, c)
  PROVE  Terminal!UseChar
  BY SameChars, Zenon DEF UsesFirst, Terminal!UseChar, Typed, Line

\* Any other character.
LEMMA UsesInsert ==
  ASSUME UsesFirst, ~ Dropped(modes, Head(Typed)), "ICANON" \in modes,
         NEW c, c = Mapped(modes, Head(Typed)), c \notin {"bs", "nak", "nl", "eot"},
         Line' = IF Len(Line) < LineMax THEN Append(Line, c) ELSE Line, Queued' = Queued
  PROVE  Terminal!UseChar
  BY SameChars, Zenon DEF UsesFirst, Terminal!UseChar, Typed, Line

\* Appending the first character is joining the first part of length one.
LEMMA AppendsFirst ==
  ASSUME NEW S, NEW s \in Seq(S), NEW t \in Seq(S), 1 \in 1..Len(s)
  PROVE  Append(t, s[1]) = t \o SubSeq(s, 1, 1)
  <1>1. SubSeq(s, 1, 1) \in Seq(S) /\ Len(SubSeq(s, 1, 1)) = 1 /\ SubSeq(s, 1, 1)[1] = s[1]
    BY SubSeqProperties, ElementOfSeq
  <1> DEFINE u == SubSeq(s, 1, 1)
  <1> HIDE DEF u
  <1>2. u \in Seq(S) /\ Len(u) = 1 /\ u[1] = s[1] /\ s[1] \in S
    BY <1>1, ElementOfSeq DEF u
  <1>3. t \o u \in Seq(S) /\ Len(t \o u) = Len(t) + 1
        /\ \A i \in 1..Len(t) + 1 : (t \o u)[i] = IF i <= Len(t) THEN t[i] ELSE u[i - Len(t)]
    <2>1. /\ t \o u \in Seq(S)
          /\ Len(t \o u) = Len(t) + Len(u)
          /\ \A i \in 1..Len(t) + Len(u) :
               (t \o u)[i] = IF i <= Len(t) THEN t[i] ELSE u[i - Len(t)]
      BY <1>2, ConcatProperties, Zenon
    <2> QED
      BY <1>2, <2>1, Zenon
  <1>4. Append(t, s[1]) \in Seq(S) /\ Len(Append(t, s[1])) = Len(t) + 1
        /\ \A i \in 1..Len(t) + 1 : Append(t, s[1])[i] = IF i <= Len(t) THEN t[i] ELSE s[1]
    BY <1>2
  <1>5. Append(t, s[1]) = t \o u
    <2>1. \A i \in 1..Len(t) + 1 : Append(t, s[1])[i] = (t \o u)[i]
      BY <1>2, <1>3, <1>4
    <2> DEFINE x == Append(t, s[1])
               y == t \o u
    <2> HIDE DEF x, y
    <2>2. x \in Seq(S) /\ y \in Seq(S) /\ Len(x) = Len(y) /\ \A i \in 1..Len(x) : x[i] = y[i]
      BY <1>3, <1>4, <2>1 DEF x, y
    <2>3. x = y
      BY <2>2, SeqEqual
    <2> QED
      BY <2>3 DEF x, y
  <1> QED
    BY <1>5 DEF u

\* A reader takes the first character that is ready.
LEMMA TakesOne ==
  ASSUME Queued \in Seq(Chars), Queued # <<>>, got \in Seq(Chars),
         got' = Append(got, Queued[1]), Queued' = Tail(Queued),
         Typed' = Typed, Line' = Line, modes' = modes
  PROVE  Terminal!TakeReady
  <1>1. 1 \in 1..Len(Queued) /\ got \in {<<>>, got}
    BY EmptySeq
  <1>3. got' = got \o SubSeq(Queued, 1, 1)
    BY <1>1, AppendsFirst
  <1>4. Queued' = SubSeq(Queued, 1 + 1, Len(Queued))
    BY TailIsSubSeq
  <1> QED
    BY <1>1, <1>3, <1>4, Zenon DEF Terminal!TakeReady, Typed, Line
----------------------------------------------------------------------------
\* The inductive invariant, by the variables its parts are about.

\* What is typed holds no blank, which Ctrl turns into a NUL, and no NUL; and
\* no attributes turn the interrupt key into one.
PlainInput ==
  /\ {"sp", "nul"} \cap Keys = {}
  /\ \A m \in Attributes : {"ISIG", "IGNBRK", "BRKINT"} \cap m # {"ISIG"}

Fills  == {"canon", "block", "refill"}
States == {"idle", "canon", "block", "refill", "take", "copy", "wait", "raw", "handler"}

KbdInv == /\ kbd \in Seq(Keys) /\ Len(kbd) <= KbdMax
          /\ pressed \in 0..MaxKeys
          /\ ctrl \in BOOLEAN

\* The positions and the count of the ring agree.
RingInv == /\ mem \in [Places -> Chars]
           /\ rpos \in Places
           /\ wpos \in Places
           /\ cnt \in 0..QueueMax
           /\ wpos = (rpos + cnt) % QueueMax

\* Every position of the line is settled: no character waits for another.
EditInv == /\ buf \in [0..LineMax - 1 -> Chars]
           /\ flag \in [0..LineMax - 1 -> {INVALID, CTRL, SINGLE}]
           /\ col \in 0..LineMax
           /\ lnch = FALSE
           /\ \A i \in 0..col - 1 : flag[i] # INVALID

\* Part of a key's string is left only inside fill_queue.
ExtInv == ext \in {<<>>, <<"a">>} /\ (ext # <<>> => pc \in Fills)

ModesInv == /\ modes \subseteq Flags
            /\ ctrlc \in BOOLEAN
            /\ {"ISIG", "IGNBRK", "BRKINT"} \cap modes # {"ISIG"}

\* Where the read is, or will be when the signal handler returns.
At == IF pc = "handler" THEN back ELSE pc

\* The modes have not changed since the read began; a line is edited while
\* the queue is empty.
PcInv == /\ pc \in States /\ back \in States
         /\ want \in Nat
         /\ pc = "handler" => back \in Fills
         /\ At = "canon" => "ICANON" \in modes /\ cnt = 0
         /\ At \in {"block", "refill", "take"} => "ICANON" \notin modes
         /\ At \in {"block", "take"} => want > 0

OutInv == got \in Seq(Chars) /\ shown \in Int

Inv == KbdInv /\ RingInv /\ EditInv /\ ExtInv /\ ModesInv /\ PcInv /\ OutInv

\* The invariant gives the types of all variables.
LEMMA InvTypes == Inv => TypeOK
  <1> SUFFICES ASSUME Inv PROVE TypeOK
    OBVIOUS
  <1>1. ext \in Seq(Chars)
    <2>1. "a" \in Chars
      BY DEF Chars
    <2>2. <<"a">> \in Seq(Chars) /\ <<>> \in Seq(Chars)
      BY <2>1
    <2> QED
      BY <2>2, Zenon DEF Inv, ExtInv
  <1>2. kbd \in Seq(Keys) /\ Len(kbd) <= KbdMax /\ pressed \in 0 .. MaxKeys
    BY DEF Inv, KbdInv
  <1>3. {ctrl, ctrlc, lnch} \subseteq BOOLEAN /\ modes \subseteq Flags
    BY Zenon DEF Inv, KbdInv, EditInv, ModesInv
  <1>4. /\ mem \in [0 .. QueueMax - 1 -> Chars]
        /\ {rpos, wpos} \subseteq 0 .. QueueMax - 1 /\ cnt \in 0 .. QueueMax
    BY DEF Inv, RingInv, Places
  <1>5. /\ buf \in [0 .. LineMax - 1 -> Chars] /\ col \in 0 .. LineMax
        /\ flag \in [0 .. LineMax - 1 -> {INVALID, CTRL, SINGLE}]
    BY Zenon DEF Inv, EditInv
  <1>6. {pc, back} \subseteq {"idle", "canon", "block", "refill", "take", "copy",
                              "wait", "raw", "handler"} /\ want \in Nat
    BY Zenon DEF Inv, PcInv, States
  <1>7. got \in Seq(Chars) /\ shown \in Int
    BY Zenon DEF Inv, OutInv
  <1> QED
    BY <1>1, <1>2, <1>3, <1>4, <1>5, <1>6, <1>7, Zenon DEF TypeOK

\* What may be typed has a spelling.
LEMMA KeysAreKeys == Keys \subseteq AllKeys /\ \A s \in Seq(Keys) : s \in Seq(AllKeys)
  <1>1. Keys \subseteq AllKeys
    BY InputsAssumption DEF AllKeys, ExtendedKeys
  <1> QED
    BY <1>1, SeqMonotonic

\* What is typed, and the line, are sequences of characters.
LEMMA TypedChars ==
  ASSUME KbdInv, ext \in {<<>>, <<"a">>}
  PROVE  ext \in Seq(Chars) /\ Spelled(kbd) \in Seq(Chars) /\ Typed \in Seq(Chars)
  <1>1. ext \in Seq(Chars)
    <2>1. "a" \in Chars
      BY DEF Chars
    <2>2. <<"a">> \in Seq(Chars) /\ <<>> \in Seq(Chars)
      BY <2>1
    <2> QED
      BY <2>2, Zenon
  <1>2. kbd \in Seq(AllKeys)
    BY KeysAreKeys DEF KbdInv
  <1>3. Spelled(kbd) \in Seq(Chars)
    BY <1>2, SpelledChars, Zenon
  <1> QED
    BY <1>1, <1>3, ConcatProperties, Zenon DEF Typed

\* The line is the characters before the cursor.
LEMMA LineChars ==
  ASSUME EditInv
  PROVE  Line \in Seq(Chars) /\ Len(Line) = col /\ \A i \in 1..col : Line[i] = buf[i - 1]
  <1>1. col \in Nat /\ \A i \in 1..col : buf[i - 1] \in Chars
    BY SomePlaces DEF EditInv
  <1>2. Line \in [1..col -> Chars]
    BY <1>1 DEF Line
  <1> QED
    BY <1>1, <1>2 DEF Line

\* fill_queue takes the first character of what is typed.
LEMMA Consumes ==
  ASSUME PlainInput, KbdInv, ext \in {<<>>, <<"a">>}, Consume
  PROVE  /\ Typed # <<>> /\ Typed' = Tail(Typed) /\ Head(Typed) = NextChar
         /\ NextChar \in Chars /\ NextChar \notin {"sp", "nul"}
         /\ KbdInv'
         /\ ext' \in {<<>>, <<"a">>} /\ (ext' # <<>> => NextChar = "esc")
  <1>1. kbd \in Seq(Keys) /\ Len(kbd) <= KbdMax /\ kbd \in Seq(AllKeys) /\ KbdMax \in Nat
    BY KeysAreKeys, SizesAssumption DEF KbdInv
  <1>2. ctrl' = ctrl /\ pressed' = pressed
    BY DEF Consume
  <1>3. CASE ext # <<>>
    <2>1. ext = <<"a">> /\ ext' = Tail(ext) /\ kbd' = kbd
      BY <1>3 DEF Consume
    <2>2. Head(ext) = "a" /\ Tail(ext) = <<>>
      BY <2>1
    <2>3. NextChar = "a"
      BY <1>3, <2>2 DEF NextChar
    <2>4. /\ Typed # <<>> /\ Head(Typed) = Head(ext)
          /\ Tail(Typed) = Tail(ext) \o Spelled(kbd)
      <3>1. ext \in Seq(Chars) /\ Spelled(kbd) \in Seq(Chars) /\ Typed = ext \o Spelled(kbd)
        BY TypedChars DEF Typed
      <3> QED
        <4>1. Parts(Typed, ext, Spelled(kbd))
          BY <3>1, JoinParts
        <4> QED
          BY <1>3, <4>1, Zenon DEF Parts
    <2>5. Typed' = Tail(Typed)
      BY <2>1, <2>4, Zenon DEF Typed
    <2>6. KbdInv'
      BY <1>2, <2>1 DEF KbdInv
    <2>7. "a" \in Chars /\ "a" \notin {"sp", "nul"}
      BY DEF Chars
    <2> QED
      BY <2>1, <2>2, <2>3, <2>4, <2>5, <2>6, <2>7, Zenon
  <1>4. CASE ext = <<>>
    <2>1. kbd # <<>> /\ Head(kbd) # "dead"
      BY <1>4 DEF Consume, HaveChar
    <2>2. PICK k \in Keys : k = Head(kbd)
      BY <1>1, <2>1
    <2>3. k \in AllKeys /\ k # "dead" /\ k \notin {"sp", "nul"}
      BY <2>1, <2>2, KeysAreKeys DEF PlainInput
    <2>4. Spelling(k) \in Seq(Chars) /\ Spelling(k) # <<>>
      BY <2>3, SpellingChars, Zenon
    <2>5. kbd' = Tail(kbd) /\ ext' = IF k \in ExtendedKeys THEN Tail(get_ext_key_string(k)) ELSE <<>>
      BY <1>4, <2>2 DEF Consume
    <2>6. kbd' \in Seq(Keys) /\ Len(kbd') <= KbdMax
      <3>1. Tail(kbd) \in Seq(Keys) /\ Len(Tail(kbd)) = Len(kbd) - 1
        BY <1>1, <2>1, HeadTailProperties, Zenon
      <3> QED
        BY <1>1, <2>5, <3>1
    <2>7. KbdInv'
      BY <1>2, <2>6 DEF KbdInv
    <2>8. /\ ext' = Tail(Spelling(k)) /\ NextChar = Head(Spelling(k))
          /\ NextChar \in Chars /\ NextChar \notin {"sp", "nul"}
          /\ ext' \in {<<>>, <<"a">>} /\ (ext' # <<>> => NextChar = "esc")
      <3>1. CASE k = "up"
        <4>1. k \in ExtendedKeys /\ get_ext_key_string(k) = <<"esc", "a">> /\ Spelling(k) = <<"esc", "a">>
          BY <3>1 DEF ExtendedKeys, get_ext_key_string, Spelling
        <4>2. Tail(<<"esc", "a">>) = <<"a">> /\ Head(<<"esc", "a">>) = "esc"
          OBVIOUS
        <4>3. NextChar = "esc"
          BY <1>4, <2>2, <3>1 DEF NextChar
        <4>4. "esc" \in Chars /\ "esc" \notin {"sp", "nul"}
          BY DEF Chars
        <4> QED
          BY <2>5, <4>1, <4>2, <4>3, <4>4, Zenon
      <3>2. CASE k # "up"
        <4>1. k \notin ExtendedKeys /\ k \in Chars /\ Spelling(k) = <<k>>
          BY <2>3, <3>2 DEF ExtendedKeys, AllKeys, Spelling
        <4>2. Tail(<<k>>) = <<>> /\ Head(<<k>>) = k
          OBVIOUS
        <4>3. NextChar = k
          BY <1>4, <2>2, <2>3, <3>2 DEF NextChar
        <4> QED
          BY <2>3, <2>5, <4>1, <4>2, <4>3, Zenon
      <3> QED
        BY <3>1, <3>2
    <2>9. Typed = Spelling(k) \o Spelled(Tail(kbd))
      <3>1. Spelled(kbd) = Spelling(k) \o Spelled(Tail(kbd))
        BY <1>1, <2>1, <2>2, SpelledFirst, Zenon
      <3>2. Typed = Spelled(kbd)
        BY <1>4, TypedChars, ConcatEmptySeq, Zenon DEF Typed
      <3> QED
        BY <3>1, <3>2, Zenon
    <2>10. Spelled(Tail(kbd)) \in Seq(Chars)
      <3>1. Tail(kbd) \in Seq(AllKeys)
        BY <1>1, <2>1, HeadTailProperties, Zenon
      <3> QED
        BY <3>1, SpelledChars, Zenon
    <2>11. /\ Typed # <<>> /\ Head(Typed) = Head(Spelling(k))
           /\ Tail(Typed) = Tail(Spelling(k)) \o Spelled(Tail(kbd))
      <3>1. Parts(Typed, Spelling(k), Spelled(Tail(kbd)))
        BY <2>4, <2>9, <2>10, JoinParts
      <3> QED
        BY <2>4, <3>1, Zenon DEF Parts
    <2>12. Typed' = Tail(Typed)
      BY <2>5, <2>8, <2>11, Zenon DEF Typed
    <2> QED
      BY <2>7, <2>8, <2>11, <2>12, Zenon
  <1> QED
    BY <1>3, <1>4
----------------------------------------------------------------------------
\* What the operations do to the ring and to the line.

\* What is queued, before and after a step, as a function of the ring.
LEMMA QueuedIs == Queued = RingOf(mem, rpos, cnt) /\ Queued' = RingOf(mem', rpos', cnt')
  BY DEF Queued, RingOf

\* What is queued is a sequence of cnt characters.
LEMMA QueuedChars ==
  ASSUME RingInv
  PROVE  Queued \in Seq(Chars) /\ Len(Queued) = cnt /\ (cnt = 0 => Queued = <<>>)
  <1>1. Queued \in Seq(Chars) /\ Len(Queued) = cnt
    BY QueuedIs, RingChars, Zenon DEF RingInv
  <1>2. cnt = 0 => Queued = <<>>
    BY <1>1, EmptySeq
  <1> QED
    BY <1>1, <1>2

\* get_queue takes the first character.
LEMMA Gets ==
  ASSUME RingInv, get_queue
  PROVE  /\ RingInv'
         /\ cnt' = cnt - 1 /\ cnt > 0
         /\ mem[rpos] \in Chars
         /\ Queued # <<>> /\ Queued[1] = mem[rpos] /\ Queued' = Tail(Queued)
  <1>1. cnt > 0 /\ cnt' = cnt - 1 /\ rpos' = (rpos + 1) % QueueMax /\ mem' = mem /\ wpos' = wpos
    BY DEF get_queue
  <1>2. cnt \in 1..QueueMax /\ cnt' \in 0..QueueMax
    BY <1>1, SomePlaces DEF RingInv
  <1>3. /\ rpos' \in Places
        /\ RingOf(mem, rpos, cnt) # <<>> /\ RingOf(mem, rpos, cnt)[1] = mem[rpos]
        /\ RingOf(mem, rpos', cnt') = Tail(RingOf(mem, rpos, cnt))
        /\ (rpos' + cnt') % QueueMax = (rpos + cnt) % QueueMax
    BY <1>1, <1>2, RingTakes, Zenon DEF RingInv
  <1>4. RingInv'
    BY <1>1, <1>2, <1>3, Zenon DEF RingInv
  <1>5. mem[rpos] \in Chars
    BY DEF RingInv
  <1> QED
    BY <1>1, <1>3, <1>4, <1>5, QueuedIs, Zenon

\* What there is room for goes to the end of the queue.
LEMMA Puts ==
  ASSUME RingInv, NEW s \in Seq(Chars), puts_queue(s)
  PROVE  /\ RingInv'
         /\ Len(s) <= QueueMax - cnt => Queued' = Queued \o s
         /\ cnt = QueueMax => Queued' = Queued
  <1>1. PICK k : k = IF Len(s) < QueueMax - cnt THEN Len(s) ELSE QueueMax - cnt
    OBVIOUS
  <1>2. cnt \in Nat /\ cnt <= QueueMax /\ QueueMax \in Nat /\ Len(s) \in Nat
    BY SomePlaces DEF RingInv
  <1>3. k \in 0..Len(s) /\ k <= QueueMax - cnt /\ cnt + k \in 0..QueueMax
    BY <1>1, <1>2
  <1>4. mem' = PutAt(mem, wpos, s, k)
    BY <1>1, Zenon DEF puts_queue, PutAt, Places
  <1>5. wpos' = (wpos + k) % QueueMax /\ cnt' = cnt + k /\ rpos' = rpos
    BY <1>1, Zenon DEF puts_queue
  <1>6. wpos = IF rpos + cnt < QueueMax THEN rpos + cnt ELSE rpos + cnt - QueueMax
    <2>1. PICK v \in Nat : v = rpos + cnt /\ v < 2 * QueueMax
      BY <1>2 DEF RingInv, Places
    <2>2. v % QueueMax = IF v < QueueMax THEN v ELSE v - QueueMax
      BY <2>1, SomePlaces, Wraps, Zenon
    <2>3. wpos = v % QueueMax
      BY <2>1, Zenon DEF RingInv
    <2>4. wpos = IF v < QueueMax THEN v ELSE v - QueueMax
      BY <2>2, <2>3, Zenon
    <2>5. rpos \in Nat
      BY DEF RingInv, Places
    <2> QED
      BY <1>2, <2>1, <2>4, <2>5
  <1>7. /\ PutAt(mem, wpos, s, k) \in [Places -> Chars]
        /\ (wpos + k) % QueueMax = (rpos + (cnt + k)) % QueueMax
        /\ RingOf(PutAt(mem, wpos, s, k), rpos, cnt + k) = RingOf(mem, rpos, cnt) \o SubSeq(s, 1, k)
    BY <1>3, <1>6, RingPuts, ZenonT(60) DEF RingInv
  <1>8. wpos' \in Places
    <2>1. wpos + k \in Nat
      BY <1>3 DEF RingInv, Places
    <2>2. (wpos + k) % QueueMax \in Places
      BY <2>1, SomePlaces DEF Places
    <2> QED
      BY <1>5, <2>2, Zenon
  <1>9. RingInv'
    BY <1>3, <1>4, <1>5, <1>7, <1>8, Zenon DEF RingInv
  <1>10. Queued' = Queued \o SubSeq(s, 1, k)
    BY <1>4, <1>5, <1>7, QueuedIs, Zenon
  <1>11. ASSUME Len(s) <= QueueMax - cnt
         PROVE  Queued' = Queued \o s
    <2>1. k = Len(s)
      BY <1>1, <1>2, <1>11
    <2>2. SubSeq(s, 1, Len(s)) = s
      BY SubSeqFull, Zenon
    <2> QED
      BY <1>10, <2>1, <2>2, Zenon
  <1>12. ASSUME cnt = QueueMax
         PROVE  Queued' = Queued
    <2>1. k = 0
      BY <1>2, <1>3, <1>12
    <2>2. SubSeq(s, 1, 0) = <<>>
      BY SubSeqEmpty
    <2>3. Queued \o <<>> = Queued
      BY QueuedChars, ConcatEmptySeq, Zenon
    <2> QED
      BY <1>10, <2>1, <2>2, <2>3, Zenon
  <1> QED
    BY <1>9, <1>11, <1>12

\* One character goes to the end of the queue unless the queue is full.
LEMMA PutsOne ==
  ASSUME RingInv, NEW c \in Chars, put_queue(c)
  PROVE  /\ RingInv'
         /\ Queued' = IF Len(Queued) < QueueMax THEN Append(Queued, c) ELSE Queued
  <1>1. PICK s \in Seq(Chars) : s = <<c>> /\ Len(s) = 1
    <2>1. <<c>> \in Seq(Chars) /\ Len(<<c>>) = 1
      OBVIOUS
    <2> QED
      BY <2>1, Zenon
  <1>2. puts_queue(s)
    BY <1>1, Zenon DEF put_queue
  <1>3. /\ RingInv'
        /\ Len(s) <= QueueMax - cnt => Queued' = Queued \o s
        /\ cnt = QueueMax => Queued' = Queued
    BY <1>2, Puts, Zenon
  <1>4. Queued \in Seq(Chars) /\ Len(Queued) = cnt /\ cnt \in Nat /\ cnt <= QueueMax /\ QueueMax \in Nat
    BY QueuedChars, SomePlaces DEF RingInv
  <1>5. CASE cnt < QueueMax
    <2>1. Len(s) <= QueueMax - cnt
      BY <1>1, <1>4, <1>5
    <2>2. PICK x \in Seq(Chars) : x = Queued
      BY <1>4, Zenon
    <2>3. x \o s = Append(x, c)
      BY <1>1
    <2> QED
      BY <1>3, <1>4, <1>5, <2>1, <2>2, <2>3, Zenon
  <1>6. CASE ~ (cnt < QueueMax)
    <2>1. cnt = QueueMax
      BY <1>4, <1>6
    <2> QED
      BY <1>3, <1>4, <1>6, <2>1, Zenon
  <1> QED
    BY <1>3, <1>5, <1>6

\* No run of unsettled characters ends at the cursor.
LEMMA NothingUnsettled ==
  ASSUME EditInv
  PROVE  Unsettled(col) = col
  <1>1. col \in Nat /\ col \in 0..col
    BY SomePlaces DEF EditInv
  <1>2. /\ \A i \in col..col - 1 : flag[i] = INVALID
        /\ col > 0 => flag[col - 1] # INVALID
    BY <1>1 DEF EditInv
  <1>3. ASSUME NEW p \in 0..col, \A i \in p..col - 1 : flag[i] = INVALID
        PROVE  p = col
    <2>1. SUFFICES ASSUME p # col PROVE FALSE
      OBVIOUS
    <2>2. p \in p..col - 1 /\ p \in 0..col - 1
      BY <1>1, <2>1
    <2> QED
      BY <1>3, <2>2 DEF EditInv
  <1> QED
    BY <1>1, <1>2, <1>3 DEF Unsettled

\* Erasing takes the last character off the line and its columns off the screen.
LEMMA Erases ==
  ASSUME EditInv, erase_editline, OutInv, got' = got, modes' = modes
  PROVE  /\ EditInv' /\ OutInv'
         /\ Line' = SubSeq(Line, 1, Len(Line) - 1)
         /\ shown' - Width' = shown - Width
  <1>1. col \in Nat /\ shown \in Int /\ buf' = buf /\ flag' = flag /\ lnch' = lnch
    BY SomePlaces DEF EditInv, OutInv, erase_editline
  <1>2. Line \in Seq(Chars) /\ Len(Line) = col /\ \A i \in 1..col : Line[i] = buf[i - 1]
    BY LineChars
  <1>3. CASE col = 0
    <2>1. col' = 0 /\ shown' = shown
      BY <1>1, <1>3 DEF erase_editline
    <2>2. EditInv'
      BY <1>1, <1>3, <2>1 DEF EditInv
    <2>3. Line' = Line
      BY <1>1, <1>3, <2>1, Zenon DEF Line
    <2>4. Line = <<>>
      BY <1>2, <1>3, EmptySeq
    <2>5. SubSeq(Line, 1, Len(Line) - 1) = <<>>
      BY <1>2, <1>3, SubSeqEmpty
    <2>6. Width' = Width
      BY <1>1, <1>3, <2>1, WidthIs, Zenon
    <2> QED
      BY <1>1, <2>1, <2>2, <2>3, <2>4, <2>5, <2>6 DEF OutInv
  <1>4. CASE col > 0
    <2>1. flag[col - 1] # INVALID
      BY <1>1, <1>4 DEF EditInv
    <2>2. col' = col - 1 /\ shown' = shown - Rubbed(flag[col - 1])
      BY <1>1, <1>4, <2>1 DEF erase_editline
    <2>3. Rubbed(flag[col - 1]) = Columns(flag[col - 1], modes) /\ Columns(flag[col - 1], modes) \in Nat
      BY DEF Rubbed, Columns, maybe_erase1
    <2>4. EditInv'
      <3>1. col' \in 0..LineMax /\ \A i \in 0..col' - 1 : i \in 0..col - 1
        BY <1>1, <1>4, <2>2, SomePlaces DEF EditInv
      <3> QED
        BY <1>1, <3>1, Zenon DEF EditInv
    <2>5. shown' \in Int
      BY <1>1, <2>2, <2>3
    <2>6. Line' = SubSeq(Line, 1, Len(Line) - 1)
      <3>1. Line' = [i \in 1..col - 1 |-> buf[i - 1]]
        BY <1>1, <2>2 DEF Line
      <3>2. \A i \in 1..col - 1 : Line[i] = buf[i - 1]
        BY <1>1, <1>2
      <3>3. SubSeq(Line, 1, col - 1) = [i \in 1..col - 1 |-> Line[i]]
        BY <1>1, <1>2
      <3> QED
        BY <1>2, <3>1, <3>2, <3>3
    <2>7. Width = Width' + Columns(flag[col - 1], modes) /\ Width' \in Nat
      <3>1. PICK n \in Nat : n = col - 1 /\ n + 1 = col
        BY <1>1, <1>4
      <3>2. WidthOf(modes, flag, n + 1) = WidthOf(modes, flag, n) + Columns(flag[n], modes)
        BY WidthMore
      <3>3. WidthOf(modes, flag, n) \in Nat
        BY WidthNat
      <3> QED
        BY <1>1, <2>2, <3>1, <3>2, <3>3, WidthIs, Zenon
    <2>8. shown' - Width' = shown - Width
      BY <1>1, <2>2, <2>3, <2>7
    <2> QED
      BY <2>4, <2>5, <2>6, <2>8 DEF OutInv
  <1> QED
    BY <1>1, <1>3, <1>4

\* Killing empties the line, and with ECHOKE the screen.
LEMMA Kills ==
  ASSUME EditInv, kill_editline, OutInv, got' = got, modes' = modes
  PROVE  /\ EditInv' /\ OutInv'
         /\ Line' = <<>>
         /\ {"ECHOKE", "ECHOK"} \cap modes = {"ECHOKE"} => shown' - Width' = shown - Width
  <1>1. col' = 0 /\ buf' = buf /\ flag' = flag /\ lnch' = lnch
    BY DEF kill_editline
  <1>2. col \in Nat /\ shown \in Int /\ got \in Seq(Chars)
    BY SomePlaces DEF EditInv, OutInv
  <1>3. EditInv'
    <2>1. 0 \in 0..LineMax /\ \A i \in 0..0 - 1 : i \in {}
      BY SomePlaces
    <2> QED
      BY <1>1, <2>1, Zenon DEF EditInv
  <1>4. Line' = <<>>
    BY <1>1 DEF Line
  <1>5. Width \in Nat /\ Width' = 0
    BY <1>1, <1>2, WidthIs, WidthNat, Zenon
  <1>6. shown' \in Int
    BY <1>2, <1>5 DEF kill_editline
  <1>7. ASSUME {"ECHOKE", "ECHOK"} \cap modes = {"ECHOKE"}
        PROVE  shown' - Width' = shown - Width
    <2>1. "ECHOK" \notin modes /\ "ECHOKE" \in modes
      BY <1>7
    <2>2. shown' = shown - Width
      BY <2>1 DEF kill_editline
    <2> QED
      BY <1>2, <1>5, <2>2
  <1> QED
    BY <1>2, <1>3, <1>4, <1>6, <1>7 DEF OutInv

\* Wherever an echo leaves the cursor, that is a column.
LEMMA EchoPlaces ==
  ASSUME NEW c, NEW x \in Int, NEW y, y \in maybe_echo(c, x)
  PROVE  y \in Int
  <1>1. LeftEdge \subseteq Int
    BY SizesAssumption DEF LeftEdge
  <1>2. ASSUME NEW z \in putch(c, x)
        PROVE  z \in Int
    BY <1>1 DEF putch
  <1>3. CASE y \in putch(c, x)
    BY <1>2, <1>3
  <1>4. CASE y \notin putch(c, x)
    BY <1>1, <1>4 DEF maybe_echo
  <1> QED
    BY <1>3, <1>4

\* Where control characters are echoed as ^X, a character of the line takes
\* the columns that rubbing it out will take back.
LEMMA EchoColumns ==
  ASSUME NEW c, c \notin {"nl", "eot"}, NEW x \in Int, Carets, NEW y, y \in maybe_echo(c, x),
         NEW f, f = IF Control(c) THEN CTRL ELSE SINGLE
  PROVE  y = x + Columns(f, modes) /\ Columns(f, modes) \in Nat
  <1>1. CASE "ECHO" \notin modes
    <2>1. maybe_echo(c, x) = {x}
      BY <1>1, Zenon DEF maybe_echo
    <2>2. Columns(f, modes) = 0
      BY <1>1 DEF Columns
    <2> QED
      BY <2>1, <2>2
  <1>2. CASE "ECHO" \in modes
    <2>1. "ECHOCTL" \in modes /\ ~ {"OPOST", "OCRNL"} \subseteq modes
      BY <1>2 DEF Carets
    <2>2. maybe_echo(c, x) = IF Control(c) THEN {x + 2} ELSE putch(c, x)
      <3>1. ~ (c = "nl" /\ {"OPOST", "ONLCR"} \subseteq modes)
        OBVIOUS
      <3>2. ~ (c = "cr" /\ {"OPOST", "OCRNL"} \subseteq modes)
        BY <2>1
      <3>3. ~ (c = "eot" /\ {"OPOST", "ONOEOT"} \subseteq modes)
        OBVIOUS
      <3>4. c # "nl"
        OBVIOUS
      <3> QED
        BY <1>2, <2>1, <3>1, <3>2, <3>3, <3>4, Zenon DEF maybe_echo
    <2>3. CASE Control(c)
      <3>1. f = CTRL /\ maybe_echo(c, x) = {x + 2}
        BY <2>2, <2>3
      <3>2. Columns(f, modes) = 2
        BY <1>2, <2>1, <3>1 DEF Columns
      <3> QED
        BY <3>1, <3>2
    <2>4. CASE ~ Control(c)
      <3>1. f # CTRL
        BY <2>4 DEF CTRL, SINGLE
      <3>2. c \notin {"cr", "nl", "bs"}
        BY <2>4 DEF Control
      <3>3. putch(c, x) = {x + 1}
        BY <3>2, Zenon DEF putch
      <3>4. Columns(f, modes) = 1
        BY <1>2, <3>1 DEF Columns
      <3> QED
        BY <2>2, <2>4, <3>3, <3>4
    <2> QED
      BY <2>3, <2>4
  <1> QED
    BY <1>1, <1>2

\* A character is put at the end of the line, if there is room, and echoed.
LEMMA Inserts ==
  ASSUME EditInv, NEW c \in Chars, c \notin {"nul", "nl", "eot"}, insert_editline(c), OutInv,
         got' = got, modes' = modes
  PROVE  /\ EditInv' /\ OutInv'
         /\ Line' = IF Len(Line) < LineMax THEN Append(Line, c) ELSE Line
         /\ Carets => shown' - Width' = shown - Width
  <1>1. /\ col \in Nat /\ shown \in Int /\ LineMax \in Nat /\ col <= LineMax
        /\ got \in Seq(Chars)
        /\ buf \in [0..LineMax - 1 -> Chars]
        /\ flag \in [0..LineMax - 1 -> {INVALID, CTRL, SINGLE}]
        /\ lnch = FALSE
    BY SomePlaces DEF EditInv, OutInv
  <1>2. Line \in Seq(Chars) /\ Len(Line) = col /\ \A i \in 1..col : Line[i] = buf[i - 1]
    BY LineChars
  <1>3. CASE col >= LineMax
    <2>1. lnch' = FALSE /\ buf' = buf /\ flag' = flag /\ col' = col /\ shown' = shown
      BY <1>3, Zenon DEF insert_editline
    <2>2. EditInv'
      BY <2>1, Zenon DEF EditInv
    <2>3. Line' = Line
      BY <2>1, Zenon DEF Line
    <2>4. Width' = Width
      BY <2>1, WidthIs, Zenon
    <2>5. ~ (Len(Line) < LineMax)
      BY <1>1, <1>2, <1>3
    <2> QED
      BY <1>1, <2>1, <2>2, <2>3, <2>4, <2>5, Zenon DEF OutInv
  <1>4. CASE ~ (col >= LineMax)
    <2>1. col < LineMax /\ col \in 0..LineMax - 1
      BY <1>1, <1>4
    <2>2. PICK f \in {CTRL, SINGLE} : f = IF Control(c) THEN CTRL ELSE SINGLE
      OBVIOUS
    <2>3. mblen(c) = 1
      BY DEF mblen
    <2>4. /\ col' = col + 1 /\ lnch' = FALSE
          /\ buf' = [buf EXCEPT ![col] = c]
          /\ flag' = [flag EXCEPT ![col] = f]
          /\ shown' \in maybe_echo(c, shown)
      <3>1. Unsettled(col) = col
        BY NothingUnsettled
      <3>2. ~ (col < col) /\ ~ (mblen(c) # 1)
        BY <1>1, <2>3
      <3> QED
        BY <1>4, <2>2, <3>1, <3>2, Zenon DEF insert_editline
    <2>5. /\ buf' \in [0..LineMax - 1 -> Chars] /\ buf'[col] = c
          /\ \A i \in 0..LineMax - 1 : i # col => buf'[i] = buf[i]
      BY <1>1, <2>1, <2>4
    <2>6. /\ flag' \in [0..LineMax - 1 -> {INVALID, CTRL, SINGLE}]
          /\ flag'[col] = f /\ \A i \in 0..LineMax - 1 : i # col => flag'[i] = flag[i]
      BY <1>1, <2>1, <2>4
    <2>7. \A i \in 0..col - 1 : i # col /\ i \in 0..LineMax - 1 /\ flag'[i] = flag[i]
      BY <1>1, <2>1, <2>6
    <2>8. EditInv'
      <3>1. ASSUME NEW i \in 0..col' - 1
            PROVE  flag'[i] # INVALID
        <4>1. CASE i = col
          BY <2>2, <2>6, <4>1 DEF INVALID, CTRL, SINGLE
        <4>2. CASE i # col
          <5>1. i \in 0..col - 1
            BY <1>1, <2>4, <4>2
          <5> QED
            BY <2>7, <5>1 DEF EditInv
        <4> QED
          BY <4>1, <4>2
      <3>2. col' \in 0..LineMax
        BY <1>1, <2>1, <2>4
      <3> QED
        BY <2>4, <2>5, <2>6, <3>1, <3>2, Zenon DEF EditInv
    <2>9. Line' = Append(Line, c)
      <3>1. Line' = [i \in 1..col + 1 |-> buf'[i - 1]]
        BY <2>4 DEF Line
      <3>2. PICK x \in Seq(Chars) : x = Line /\ Len(x) = col /\ \A i \in 1..col : x[i] = buf[i - 1]
        BY <1>2, Zenon
      <3>3. PICK y : y = Append(x, c)
        OBVIOUS
      <3>5. /\ y \in Seq(Chars) /\ Len(y) = col + 1
            /\ \A i \in 1..col + 1 : y[i] = IF i = col + 1 THEN c ELSE x[i]
        BY <3>2, <3>3
      <3>6. y = [i \in 1..col + 1 |-> y[i]]
        BY <3>5
      <3>4. ASSUME NEW i \in 1..col + 1
            PROVE  buf'[i - 1] = IF i = col + 1 THEN c ELSE x[i]
        <4>1. CASE i = col + 1
          BY <1>1, <2>5, <4>1
        <4>2. CASE i # col + 1
          <5>1. i \in 1..col /\ i - 1 # col /\ i - 1 \in 0..LineMax - 1
            BY <1>1, <2>1, <4>2
          <5> QED
            BY <2>5, <3>2, <4>2, <5>1
        <4> QED
          BY <4>1, <4>2
      <3>7. \A i \in 1..col + 1 : buf'[i - 1] = y[i]
        BY <3>4, <3>5
      <3> QED
        BY <3>1, <3>2, <3>3, <3>6, <3>7, Zenon
    <2>10. /\ shown' \in Int
           /\ Carets => shown' = shown + Columns(f, modes) /\ Columns(f, modes) \in Nat
      <3>1. shown' \in Int
        BY <1>1, <2>4, EchoPlaces, Zenon
      <3>2. ASSUME Carets
            PROVE  shown' = shown + Columns(f, modes) /\ Columns(f, modes) \in Nat
        BY <1>1, <2>2, <2>4, <3>2, EchoColumns, Zenon
      <3> QED
        BY <3>1, <3>2, Zenon
    <2>11. Width' = Width + Columns(f, modes) /\ Width \in Nat
      <3>1. WidthOf(modes, flag', col + 1) = WidthOf(modes, flag, col) + Columns(flag'[col], modes)
        <4>1. \A i \in 0..col - 1 : flag'[i] = flag[i]
          BY <2>7, Zenon
        <4> QED
          BY <1>1, <4>1, WidthMore, Zenon
      <3>2. WidthOf(modes, flag, col) \in Nat
        BY <1>1, WidthNat
      <3> QED
        BY <2>4, <2>6, <3>1, <3>2, WidthIs, Zenon
    <2>12. ASSUME Carets
           PROVE  shown' - Width' = shown - Width
      <3>1. PICK e \in Nat : e = Columns(f, modes) /\ shown' = shown + e
        BY <2>10, <2>12, Zenon
      <3>2. PICK w \in Nat : w = Width /\ Width' = w + e
        BY <2>11, <3>1, Zenon
      <3>3. shown' - (w + e) = shown - w
        BY <1>1, <3>1
      <3> QED
        BY <3>2, <3>3, Zenon
    <2> QED
      BY <1>1, <1>2, <2>1, <2>8, <2>9, <2>10, <2>12, Zenon DEF OutInv
  <1> QED
    BY <1>3, <1>4
----------------------------------------------------------------------------
\* Each action keeps the invariant, and is a step of Tty or changes nothing
\* that Tty sees.

Simulates == Inv' /\ (Terminal!TNext \/ UNCHANGED Terminal!tvars)

\* A step that changes nothing Tty speaks of.
LEMMA Stutters ==
  ASSUME Inv', Typed' = Typed, Line' = Line, Queued' = Queued, got' = got, modes' = modes
  PROVE  Simulates
  BY Zenon DEF Simulates, Terminal!tvars, Typed, Line

\* A step that leaves the ring alone keeps what is queued.
LEMMA SameRing ==
  ASSUME RingInv, UNCHANGED ring
  PROVE  RingInv' /\ Queued' = Queued
  BY Zenon DEF RingInv, ring, Queued

\* A step that leaves the edit line alone keeps the line.
LEMMA SameEdit ==
  ASSUME EditInv, UNCHANGED edit
  PROVE  EditInv' /\ Line' = Line
  BY Zenon DEF EditInv, edit, Line

\* A step that leaves the keyboard alone keeps what is typed.
LEMMA SameKbd ==
  ASSUME KbdInv, UNCHANGED kb, ext' = ext
  PROVE  KbdInv' /\ Typed' = Typed
  BY Zenon DEF KbdInv, kb, Typed

\* A step that leaves the modes alone keeps what is known of them.
LEMMA SameModes ==
  ASSUME ModesInv, UNCHANGED <<modes, ctrlc>>
  PROVE  ModesInv'
  BY Zenon DEF ModesInv

\* A key without a string stands for nothing.
LEMMA SkipsDead ==
  ASSUME KbdInv, ext \in {<<>>, <<"a">>}, kbd # <<>>, Head(kbd) = "dead", kbd' = Tail(kbd),
         UNCHANGED <<ctrl, pressed, ext>>
  PROVE  KbdInv' /\ Typed' = Typed
  <1>1. kbd \in Seq(Keys) /\ Len(kbd) <= KbdMax /\ kbd \in Seq(AllKeys) /\ KbdMax \in Nat
    BY KeysAreKeys, SizesAssumption DEF KbdInv
  <1>2. Tail(kbd) \in Seq(Keys) /\ Len(Tail(kbd)) = Len(kbd) - 1
    BY <1>1, HeadTailProperties, Zenon
  <1>3. KbdInv'
    <2>1. kbd' \in Seq(Keys) /\ Len(kbd') <= KbdMax
      BY <1>1, <1>2
    <2> QED
      BY <2>1 DEF KbdInv
  <1>4. Spelled(kbd) = Spelling("dead") \o Spelled(Tail(kbd))
    BY <1>1, SpelledFirst, Zenon
  <1>5. "dead" \in AllKeys
    BY DEF AllKeys, ExtendedKeys
  <1>6. Spelling("dead") = <<>>
    BY <1>5, SpellingChars, Zenon
  <1>7. Tail(kbd) \in Seq(AllKeys)
    BY <1>1, HeadTailProperties, Zenon
  <1>8. Spelled(Tail(kbd)) \in Seq(Chars)
    BY <1>7, SpelledChars, Zenon
  <1>9. <<>> \o Spelled(Tail(kbd)) = Spelled(Tail(kbd))
    BY <1>8, ConcatEmptySeq, Zenon
  <1>10. Typed' = Typed
    BY <1>4, <1>6, <1>9, Zenon DEF Typed
  <1> QED
    BY <1>3, <1>10

\* A key arrives behind those that wait.
LEMMA DoesPress ==
  ASSUME Inv, NEW k \in Keys, Press(k)
  PROVE  Simulates
  <1>1. /\ pressed < MaxKeys /\ Len(kbd) < KbdMax
        /\ pressed' = pressed + 1 /\ kbd' = Append(kbd, k) /\ ctrl' = (k \in CtrlKeys)
        /\ UNCHANGED <<ctrlc, modes, ring, edit, ext, pc, back, want, got, shown>>
    BY Zenon DEF Press
  <1>2. kbd \in Seq(Keys) /\ kbd \in Seq(AllKeys) /\ pressed \in Nat /\ k \in AllKeys
        /\ KbdMax \in Nat /\ MaxKeys \in Nat
    BY KeysAreKeys, SizesAssumption DEF Inv, KbdInv
  <1>3. KbdInv'
    <2>1. Append(kbd, k) \in Seq(Keys) /\ Len(Append(kbd, k)) = Len(kbd) + 1
      BY <1>2
    <2>2. Len(kbd') <= KbdMax /\ kbd' \in Seq(Keys)
      BY <1>1, <1>2, <2>1
    <2>3. pressed' \in 0..MaxKeys
      BY <1>1, <1>2
    <2>4. ctrl' \in BOOLEAN
      BY <1>1
    <2> QED
      BY <2>2, <2>3, <2>4, Zenon DEF KbdInv
  <1>4. RingInv' /\ Queued' = Queued /\ EditInv' /\ Line' = Line /\ ModesInv'
    BY <1>1, SameRing, SameEdit, SameModes, Zenon DEF Inv
  <1>5. ExtInv' /\ PcInv' /\ OutInv'
    BY <1>1, Zenon DEF Inv, ExtInv, PcInv, OutInv, At, ring
  <1>6. Inv'
    BY <1>3, <1>4, <1>5, Zenon DEF Inv
  <1>7. PICK x, y, z : x = ext /\ y = Spelled(kbd) /\ z = Spelling(k)
    OBVIOUS
  <1>8. x \in Seq(Chars) /\ y \in Seq(Chars) /\ z \in Seq(Chars) /\ Len(z) \in 0..3
    BY <1>2, <1>7, TypedChars, SpellingChars, Zenon DEF Inv, ExtInv
  <1>9. Typed' = x \o (y \o z)
    <2>1. Spelled(Append(kbd, k)) = Spelled(kbd) \o Spelling(k)
      BY <1>2, SpelledMore, Zenon
    <2> QED
      BY <1>1, <1>7, <2>1, Zenon DEF Typed
  <1>10. x \o (y \o z) = (x \o y) \o z
    BY <1>8, Regroup, SMT
  <1>11. Typed = x \o y
    BY <1>7, Zenon DEF Typed
  <1>12. PICK w \in Seq(Chars) : w = x \o y
    BY <1>8, ConcatProperties, Zenon
  <1>13. Parts(w \o z, w, z) /\ JoinOf(w \o z, w, z)
    BY <1>8, Joins, JoinParts
  <1>14. Len(w \o z) = Len(w) + Len(z) /\ SubSeq(w \o z, 1, Len(w)) = w
    BY <1>13, Zenon DEF Parts, JoinOf
  <1>15. Typed' = w \o z /\ Typed = w
    BY <1>9, <1>10, <1>11, <1>12, Zenon
  <1>16. Terminal!TypeIn
    <2>1. /\ \E n \in 0..3 : Len(Typed') = Len(Typed) + n
          /\ SubSeq(Typed', 1, Len(Typed)) = Typed
      BY <1>8, <1>14, <1>15, Zenon
    <2> QED
      BY <1>1, <1>4, <2>1, Zenon DEF Terminal!TypeIn, Typed, Line
  <1> QED
    BY <1>6, <1>16, Zenon DEF Simulates, Terminal!TNext

\* fill_queue skips a key that has no string.
LEMMA DoesFillDead ==
  ASSUME Inv, FillDead
  PROVE  Simulates
  <1>1. /\ kbd # <<>> /\ Head(kbd) = "dead" /\ kbd' = Tail(kbd)
        /\ UNCHANGED <<ctrl, pressed, ctrlc, modes, ring, edit, ext, pc, back, want, got, shown>>
    BY Zenon DEF FillDead
  <1>2. KbdInv' /\ Typed' = Typed
    BY <1>1, SkipsDead, Zenon DEF Inv, ExtInv
  <1>3. RingInv' /\ Queued' = Queued /\ EditInv' /\ Line' = Line /\ ModesInv'
    BY <1>1, SameRing, SameEdit, SameModes, Zenon DEF Inv
  <1>4. ExtInv' /\ PcInv' /\ OutInv'
    BY <1>1, Zenon DEF Inv, ExtInv, PcInv, OutInv, At, ring
  <1>5. Inv'
    BY <1>2, <1>3, <1>4, Zenon DEF Inv
  <1> QED
    BY <1>1, <1>2, <1>3, <1>5, Stutters, Zenon

\* fill_queue takes a signal character out of the input.
LEMMA DoesFillSignal ==
  ASSUME PlainInput, Inv, FillSignal
  PROVE  Simulates
  <1>1. /\ pc \in Fills /\ Consume /\ Signalling(modes, NextChar) /\ pc' = "handler" /\ back' = pc
        /\ shown' = shown + (IF "ECHOCTL" \in modes THEN 2 ELSE 0)
        /\ UNCHANGED <<ctrlc, modes, ring, edit, want, got>>
    BY Zenon DEF FillSignal, Filling, Fills
  <1>2. /\ Typed # <<>> /\ Typed' = Tail(Typed) /\ Head(Typed) = NextChar /\ KbdInv'
        /\ ext' \in {<<>>, <<"a">>} /\ (ext' # <<>> => NextChar = "esc")
    BY <1>1, Consumes, Zenon DEF Inv, ExtInv
  <1>3. RingInv' /\ Queued' = Queued /\ EditInv' /\ Line' = Line /\ ModesInv'
    BY <1>1, SameRing, SameEdit, SameModes, Zenon DEF Inv
  <1>4. NextChar # "esc"
    BY <1>1 DEF Signalling
  <1>5. ExtInv'
    BY <1>2, <1>4, Zenon DEF ExtInv
  <1>6. PcInv'
    <2>1. pc # "handler" /\ pc \in States /\ "handler" \in States
      BY <1>1 DEF Fills, States
    <2>2. cnt' = cnt /\ modes' = modes /\ want' = want
      BY <1>1, Zenon DEF ring
    <2> QED
      BY <1>1, <2>1, <2>2, Zenon DEF Inv, PcInv, At
  <1>7. OutInv'
    BY <1>1 DEF Inv, OutInv
  <1>8. Inv'
    BY <1>2, <1>3, <1>5, <1>6, <1>7, Zenon DEF Inv
  <1>9. UsesFirst /\ Dropped(modes, Head(Typed))
    BY <1>1, <1>2, Zenon DEF UsesFirst, Dropped
  <1>10. Terminal!UseChar
    BY <1>3, <1>9, UsesDropped, Zenon
  <1> QED
    BY <1>8, <1>10, Zenon DEF Simulates, Terminal!TNext

\* fill_queue drops a character.
LEMMA DoesFillDrop ==
  ASSUME PlainInput, Inv, FillDrop
  PROVE  Simulates
  <1>1. /\ pc \in Fills /\ Consume /\ Dropped(modes, NextChar)
        /\ UNCHANGED <<ctrlc, modes, ring, edit, pc, back, want, got, shown>>
    BY Zenon DEF FillDrop, Filling, Fills
  <1>2. /\ Typed # <<>> /\ Typed' = Tail(Typed) /\ Head(Typed) = NextChar /\ KbdInv'
        /\ ext' \in {<<>>, <<"a">>}
    BY <1>1, Consumes, Zenon DEF Inv, ExtInv
  <1>3. RingInv' /\ Queued' = Queued /\ EditInv' /\ Line' = Line /\ ModesInv'
    BY <1>1, SameRing, SameEdit, SameModes, Zenon DEF Inv
  <1>4. ExtInv' /\ PcInv' /\ OutInv'
    BY <1>1, <1>2, Zenon DEF Inv, ExtInv, PcInv, OutInv, At, ring
  <1>5. Inv'
    BY <1>2, <1>3, <1>4, Zenon DEF Inv
  <1>6. UsesFirst /\ Dropped(modes, Head(Typed))
    BY <1>1, <1>2, Zenon DEF UsesFirst
  <1>7. Terminal!UseChar
    BY <1>3, <1>6, UsesDropped, Zenon
  <1> QED
    BY <1>5, <1>7, Zenon DEF Simulates, Terminal!TNext

\* What the modes make of a character is a character, and no NUL.
LEMMA MappedChars ==
  ASSUME ModesInv, NEW c \in Chars, c \notin {"sp", "nul"}
  PROVE  Mapped(modes, c) \in Chars /\ Mapped(modes, c) # "nul"
  <1>1. ~ (c = "etx" /\ {"ISIG", "IGNBRK", "BRKINT"} \cap modes = {"ISIG"})
    BY DEF ModesInv
  <1>2. {"nl", "cr", "a"} \subseteq Chars /\ "nl" # "nul" /\ "cr" # "nul" /\ "a" # "nul" /\ c # "nul"
    BY DEF Chars
  <1>3. Mapped(modes, c) \in {"nl", "cr", "a", c}
    BY <1>1, Zenon DEF Mapped
  <1> QED
    BY <1>2, <1>3

\* An edit, and the echo of it.
LEMMA DoesFillEdit ==
  ASSUME PlainInput, Inv, FillEdit
  PROVE  /\ Simulates
         /\ {"ECHOKE", "ECHOK"} \cap modes = {"ECHOKE"} /\ Carets
                => shown' - Width' = shown - Width
  <1>1. /\ pc = "canon" /\ Consume /\ ~ Dropped(modes, NextChar)
        /\ UNCHANGED <<ctrlc, modes, ring, pc, back, want, got>>
    BY Zenon DEF FillEdit
  <1>2. PICK c : c = Mapped(modes, NextChar)
    OBVIOUS
  <1>3. \/ c = "bs" /\ erase_editline
        \/ c = "nak" /\ kill_editline
        \/ (lnch \/ c \notin {"bs", "nak", "nl", "eot"}) /\ insert_editline(c)
    BY <1>2, Zenon DEF FillEdit
  <1>4. /\ Typed # <<>> /\ Typed' = Tail(Typed) /\ Head(Typed) = NextChar /\ KbdInv'
        /\ NextChar \in Chars /\ NextChar \notin {"sp", "nul"}
        /\ ext' \in {<<>>, <<"a">>}
    BY <1>1, Consumes, Zenon DEF Inv, ExtInv
  <1>5. RingInv' /\ Queued' = Queued /\ ModesInv'
    BY <1>1, SameRing, SameModes, Zenon DEF Inv
  <1>6. ExtInv' /\ PcInv'
    BY <1>1, <1>4, Zenon DEF Inv, ExtInv, PcInv, At, ring, Fills
  <1>7. c \in Chars /\ c # "nul"
    BY <1>2, <1>4, MappedChars, Zenon DEF Inv
  <1>8. UsesFirst /\ ~ Dropped(modes, Head(Typed)) /\ c = Mapped(modes, Head(Typed))
    BY <1>1, <1>2, <1>4, Zenon DEF UsesFirst
  <1>9. "ICANON" \in modes /\ got' = got /\ modes' = modes /\ ~ lnch
    <2>1. pc # "handler"
      BY <1>1
    <2> QED
      BY <1>1, <2>1, Zenon DEF Inv, PcInv, At, EditInv
  <1>10. SUFFICES /\ EditInv' /\ OutInv' /\ Terminal!UseChar
                  /\ {"ECHOKE", "ECHOK"} \cap modes = {"ECHOKE"} /\ Carets
                       => shown' - Width' = shown - Width
    BY <1>4, <1>5, <1>6, Zenon DEF Inv, Simulates, Terminal!TNext
  <1>11. CASE c = "bs" /\ erase_editline
    <2>1. /\ EditInv' /\ OutInv' /\ Line' = SubSeq(Line, 1, Len(Line) - 1)
          /\ shown' - Width' = shown - Width
      BY <1>9, <1>11, Erases, Zenon DEF Inv
    <2>2. Terminal!UseChar
      BY <1>5, <1>8, <1>9, <1>11, <2>1, UsesErase, Zenon
    <2> QED
      BY <2>1, <2>2, Zenon
  <1>12. CASE c = "nak" /\ kill_editline
    <2>1. /\ EditInv' /\ OutInv' /\ Line' = <<>>
          /\ {"ECHOKE", "ECHOK"} \cap modes = {"ECHOKE"} => shown' - Width' = shown - Width
      BY <1>9, <1>12, Kills, Zenon DEF Inv
    <2>2. Terminal!UseChar
      BY <1>5, <1>8, <1>9, <1>12, <2>1, UsesKill, Zenon
    <2> QED
      BY <2>1, <2>2, Zenon
  <1>13. CASE (lnch \/ c \notin {"bs", "nak", "nl", "eot"}) /\ insert_editline(c)
    <2>1. c \notin {"bs", "nak", "nl", "eot"} /\ c \notin {"nul", "nl", "eot"}
      BY <1>7, <1>9, <1>13, Zenon
    <2>2. /\ EditInv' /\ OutInv'
          /\ Line' = IF Len(Line) < LineMax THEN Append(Line, c) ELSE Line
          /\ Carets => shown' - Width' = shown - Width
      BY <1>7, <1>9, <1>13, <2>1, Inserts, Zenon DEF Inv
    <2>3. Terminal!UseChar
      BY <1>5, <1>8, <1>9, <2>1, <2>2, UsesInsert, Zenon
    <2> QED
      BY <2>2, <2>3, Zenon
  <1> QED
    BY <1>3, <1>11, <1>12, <1>13, Zenon

\* fill_queue moves a finished line to the queue; all of it fits, as the queue was empty.
LEMMA DoesFillEndLine ==
  ASSUME PlainInput, Inv, FillEndLine
  PROVE  Simulates
  <1>1. PICK c : c = Mapped(modes, NextChar)
    OBVIOUS
  <1>2. PICK s : s = IF c = "eot" THEN Line ELSE Append(Line, c)
    OBVIOUS
  <1>3. /\ pc = "canon" /\ Consume /\ ~ Dropped(modes, NextChar)
        /\ c \in {"nl", "eot"} /\ puts_queue(s)
        /\ col' = 0 /\ shown' = 0 /\ pc' = "copy"
        /\ UNCHANGED <<ctrlc, modes, buf, flag, lnch, back, want, got>>
    BY <1>1, <1>2, Zenon DEF FillEndLine, Line
  <1>4. /\ Typed # <<>> /\ Typed' = Tail(Typed) /\ Head(Typed) = NextChar /\ KbdInv'
        /\ ext' \in {<<>>, <<"a">>} /\ (ext' # <<>> => NextChar = "esc")
    BY <1>3, Consumes, Zenon DEF Inv, ExtInv
  <1>5. NextChar # "esc"
    <2>1. ASSUME NextChar = "esc"
          PROVE  c = "esc"
      BY <1>1, <2>1, Zenon DEF Mapped
    <2> QED
      BY <1>3, <2>1
  <1>6. ExtInv'
    BY <1>4, <1>5, Zenon DEF ExtInv
  <1>7. "ICANON" \in modes /\ cnt = 0 /\ col \in 0..LineMax
    <2>1. pc # "handler"
      BY <1>3
    <2> QED
      BY <1>3, <2>1, Zenon DEF Inv, PcInv, At, EditInv
  <1>8. s \in Seq(Chars) /\ Len(s) <= QueueMax - cnt
    <2>1. PICK l \in Seq(Chars) : l = Line /\ Len(l) = col
      BY LineChars, Zenon DEF Inv
    <2>2. c \in Chars
      BY <1>3 DEF Chars
    <2>3. s \in Seq(Chars) /\ Len(s) <= col + 1
      <3>1. CASE c = "eot"
        BY <1>2, <1>7, <2>1, <3>1
      <3>2. CASE c # "eot"
        <4>1. Append(l, c) \in Seq(Chars) /\ Len(Append(l, c)) = Len(l) + 1
          BY <2>2
        <4> QED
          BY <1>2, <1>7, <2>1, <3>2, <4>1
      <3> QED
        BY <3>1, <3>2
    <2>4. Len(s) \in Nat
      BY <2>3
    <2> QED
      BY <1>7, <2>3, <2>4, SomePlaces
  <1>9. RingInv' /\ Queued' = Queued \o s
    BY <1>3, <1>8, Puts, Zenon DEF Inv
  <1>10. Queued = <<>> /\ Queued' = s
    <2>1. Queued = <<>>
      BY <1>7, QueuedChars, Zenon DEF Inv
    <2>2. <<>> \o s = s
      BY <1>8, ConcatEmptySeq, Zenon
    <2> QED
      BY <1>9, <2>1, <2>2, Zenon
  <1>11. EditInv' /\ Line' = <<>>
    <2>1. 0 \in 0..LineMax /\ \A i \in 0..0 - 1 : i \in {}
      BY SomePlaces
    <2>2. EditInv'
      BY <1>3, <2>1, Zenon DEF Inv, EditInv
    <2>3. Line' = <<>>
      BY <1>3 DEF Line
    <2> QED
      BY <2>2, <2>3
  <1>12. ModesInv' /\ OutInv'
    <2>1. 0 \in Int
      OBVIOUS
    <2> QED
      BY <1>3, <2>1, SameModes, Zenon DEF Inv, OutInv
  <1>13. PcInv'
    <2>1. "copy" \in States /\ "copy" \notin {"handler", "canon", "block", "refill", "take"}
      BY DEF States
    <2> QED
      BY <1>3, <2>1, Zenon DEF Inv, PcInv, At
  <1>14. Inv'
    BY <1>4, <1>6, <1>9, <1>11, <1>12, <1>13, Zenon DEF Inv
  <1>15. UsesFirst /\ ~ Dropped(modes, Head(Typed)) /\ c = Mapped(modes, Head(Typed))
    BY <1>1, <1>3, <1>4, Zenon DEF UsesFirst
  <1>16. Terminal!UseChar
    BY <1>2, <1>3, <1>7, <1>10, <1>11, <1>15, UsesEnd, Zenon
  <1> QED
    BY <1>14, <1>16, Zenon DEF Simulates, Terminal!TNext

\* fill_queue queues a character of a terminal that is not canonical.
LEMMA DoesFillPut ==
  ASSUME PlainInput, Inv, FillPut
  PROVE  Simulates
  <1>1. PICK c : c = Mapped(modes, NextChar)
    OBVIOUS
  <1>2. /\ pc \in {"block", "refill"} /\ Consume /\ ~ Dropped(modes, NextChar)
        /\ put_queue(c) /\ lnch' = FALSE
        /\ UNCHANGED <<ctrlc, modes, buf, flag, col, pc, back, want, got, shown>>
    BY <1>1, Zenon DEF FillPut
  <1>3. /\ Typed # <<>> /\ Typed' = Tail(Typed) /\ Head(Typed) = NextChar /\ KbdInv'
        /\ NextChar \in Chars /\ NextChar \notin {"sp", "nul"}
        /\ ext' \in {<<>>, <<"a">>}
    BY <1>2, Consumes, Zenon DEF Inv, ExtInv
  <1>4. c \in Chars
    BY <1>1, <1>3, MappedChars, Zenon DEF Inv
  <1>5. RingInv' /\ Queued' = IF Len(Queued) < QueueMax THEN Append(Queued, c) ELSE Queued
    BY <1>2, <1>4, PutsOne, Zenon DEF Inv
  <1>6. EditInv' /\ Line' = Line /\ ModesInv' /\ OutInv'
    BY <1>2, SameModes, Zenon DEF Inv, EditInv, Line, OutInv
  <1>7. ExtInv'
    BY <1>2, <1>3, Zenon DEF ExtInv, Fills
  <1>8. "ICANON" \notin modes /\ PcInv'
    <2>1. pc # "handler" /\ pc # "canon"
      BY <1>2
    <2> QED
      BY <1>2, <2>1, Zenon DEF Inv, PcInv, At
  <1>9. Inv'
    BY <1>3, <1>5, <1>6, <1>7, <1>8, Zenon DEF Inv
  <1>10. UsesFirst /\ ~ Dropped(modes, Head(Typed)) /\ c = Mapped(modes, Head(Typed))
    BY <1>1, <1>2, <1>3, Zenon DEF UsesFirst
  <1>11. Terminal!UseChar
    BY <1>5, <1>6, <1>8, <1>10, UsesPut, Zenon
  <1> QED
    BY <1>9, <1>11, Zenon DEF Simulates, Terminal!TNext

\* Steps that only move the reader.
Moves ==
  /\ UNCHANGED <<kb, ctrlc, modes, ring, edit, back, got, shown>>
  /\ Typed' = Typed
  /\ KbdInv'

\* A step of the reader that moves no character.
LEMMA DoesMove ==
  ASSUME Inv, Moves, ExtInv', PcInv'
  PROVE  Simulates
  <1>1. RingInv' /\ Queued' = Queued /\ EditInv' /\ Line' = Line /\ ModesInv' /\ OutInv'
    BY SameRing, SameEdit, SameModes, Zenon DEF Inv, Moves, OutInv
  <1>2. Inv'
    BY <1>1, Zenon DEF Inv, Moves
  <1> QED
    BY <1>1, <1>2, Stutters, Zenon DEF Moves

\* What such a step leaves alone.
LEMMA KeepsTyped ==
  ASSUME Inv, UNCHANGED <<kb, ctrlc, modes, ring, edit, ext, back, got, shown>>
  PROVE  Moves /\ cnt' = cnt /\ modes' = modes /\ back' = back /\ ext' = ext
  BY SameKbd, Zenon DEF Inv, Moves, ring

\* fill_queue returns to its caller.
LEMMA DoesFillReturn ==
  ASSUME Inv, FillReturn
  PROVE  Simulates
  <1>1. /\ pc \in {"block", "refill"} /\ ext = <<>>
        /\ \/ pc = "block" /\ cnt > 0 /\ pc' = "take"
           \/ pc = "refill" /\ pc' = IF cnt = 0 \/ want = 0 THEN "idle" ELSE "take"
        /\ want' = want
        /\ UNCHANGED <<kb, ctrlc, modes, ring, edit, ext, back, got, shown>>
    BY Zenon DEF FillReturn
  <1>2. Moves /\ cnt' = cnt /\ modes' = modes /\ back' = back /\ ext' = ext
    BY <1>1, KeepsTyped, Zenon
  <1>3. ExtInv'
    BY <1>1, <1>2, Zenon DEF ExtInv
  <1>4. "ICANON" \notin modes /\ (pc = "block" => want > 0) /\ want \in Nat /\ back \in States
    <2>1. pc # "handler"
      BY <1>1
    <2> QED
      BY <1>1, <2>1, Zenon DEF Inv, PcInv, At
  <1>5. pc' \in {"idle", "take"} /\ (pc' = "take" => want > 0)
    BY <1>1, <1>4
  <1>6. PcInv'
    BY <1>1, <1>2, <1>4, <1>5 DEF PcInv, At, States
  <1> QED
    BY <1>2, <1>3, <1>6, DoesMove, Zenon

\* A signal handler returns into fill_queue.
LEMMA DoesHandlerReturns ==
  ASSUME Inv, HandlerReturns
  PROVE  Simulates
  <1>1. /\ pc = "handler" /\ pc' = back /\ want' = want
        /\ UNCHANGED <<kb, ctrlc, modes, ring, edit, ext, back, got, shown>>
    BY Zenon DEF HandlerReturns
  <1>2. Moves /\ cnt' = cnt /\ modes' = modes /\ back' = back /\ ext' = ext
    BY <1>1, KeepsTyped, Zenon
  <1>3. back \in Fills
    BY <1>1, Zenon DEF Inv, PcInv
  <1>4. ExtInv'
    BY <1>1, <1>2, <1>3, Zenon DEF Inv, ExtInv
  <1>5. PcInv'
    <2>1. back # "handler"
      BY <1>3 DEF Fills
    <2>2. At' = At
      BY <1>1, <2>1, Zenon DEF At
    <2> QED
      BY <1>1, <1>2, <1>3, <2>1, <2>2, Zenon DEF Inv, PcInv
  <1> QED
    BY <1>2, <1>4, <1>5, DoesMove, Zenon

\* A signal handler leaves the read by longjmp.
LEMMA DoesHandlerJumps ==
  ASSUME Inv, HandlerJumps
  PROVE  Simulates
  <1>1. /\ pc = "handler" /\ pc' = "idle" /\ ext' = <<>> /\ want' = want
        /\ UNCHANGED <<kb, ctrlc, modes, ring, edit, back, got, shown>>
    BY Zenon DEF HandlerJumps
  <1>2. ext = <<>>
    <2>1. pc \notin Fills
      BY <1>1 DEF Fills
    <2> QED
      BY <2>1, Zenon DEF Inv, ExtInv
  <1>3. Moves /\ cnt' = cnt /\ modes' = modes /\ back' = back /\ ext' = ext
    <2>1. UNCHANGED <<kb, ctrlc, modes, ring, edit, ext, back, got, shown>>
      BY <1>1, <1>2, Zenon
    <2> QED
      BY <2>1, KeepsTyped, Zenon
  <1>4. ExtInv'
    BY <1>1, Zenon DEF ExtInv
  <1>5. PcInv'
    <2>1. want \in Nat /\ back \in States
      BY Zenon DEF Inv, PcInv
    <2> QED
      BY <1>1, <1>3, <2>1 DEF PcInv, At, States
  <1> QED
    BY <1>3, <1>4, <1>5, DoesMove, Zenon

\* A cooked read has copied its line.
LEMMA DoesCopyDone ==
  ASSUME Inv, CopyDone
  PROVE  Simulates
  <1>1. /\ pc = "copy" /\ pc' = "idle" /\ want' = want
        /\ UNCHANGED <<kb, ctrlc, modes, ring, edit, ext, back, got, shown>>
    BY Zenon DEF CopyDone
  <1>2. Moves /\ back' = back /\ ext' = ext
    BY <1>1, KeepsTyped, Zenon
  <1>3. ExtInv'
    <2>1. pc \notin Fills
      BY <1>1 DEF Fills
    <2> QED
      BY <1>2, <2>1, Zenon DEF Inv, ExtInv
  <1>4. PcInv'
    <2>1. want \in Nat /\ back \in States
      BY Zenon DEF Inv, PcInv
    <2> QED
      BY <1>1, <1>2, <2>1 DEF PcInv, At, States
  <1> QED
    BY <1>2, <1>3, <1>4, DoesMove, Zenon

\* A raw read has waited for a key.
LEMMA DoesWaitKeysense ==
  ASSUME Inv, wait_keysense
  PROVE  Simulates
  <1>1. /\ pc = "wait" /\ pc' = "raw" /\ want' = want
        /\ UNCHANGED <<kb, ctrlc, modes, ring, edit, ext, back, got, shown>>
    BY Zenon DEF wait_keysense
  <1>2. Moves /\ back' = back /\ ext' = ext
    BY <1>1, KeepsTyped, Zenon
  <1>3. ExtInv'
    <2>1. pc \notin Fills
      BY <1>1 DEF Fills
    <2> QED
      BY <1>2, <2>1, Zenon DEF Inv, ExtInv
  <1>4. PcInv'
    <2>1. want \in Nat /\ back \in States
      BY Zenon DEF Inv, PcInv
    <2> QED
      BY <1>1, <1>2, <2>1 DEF PcInv, At, States
  <1> QED
    BY <1>2, <1>3, <1>4, DoesMove, Zenon

\* A raw read has what it wanted, or nothing is left to read.
LEMMA DoesRawDone ==
  ASSUME Inv, RawDone
  PROVE  Simulates
  <1>1. /\ pc = "raw" /\ pc' = "idle" /\ want' = want
        /\ UNCHANGED <<kb, ctrlc, modes, ring, edit, ext, back, got, shown>>
    BY Zenon DEF RawDone
  <1>2. Moves /\ back' = back /\ ext' = ext
    BY <1>1, KeepsTyped, Zenon
  <1>3. ExtInv'
    <2>1. pc \notin Fills
      BY <1>1 DEF Fills
    <2> QED
      BY <1>2, <2>1, Zenon DEF Inv, ExtInv
  <1>4. PcInv'
    <2>1. want \in Nat /\ back \in States
      BY Zenon DEF Inv, PcInv
    <2> QED
      BY <1>1, <1>2, <2>1 DEF PcInv, At, States
  <1> QED
    BY <1>2, <1>3, <1>4, DoesMove, Zenon

\* A raw read skips a key that has no string.
LEMMA DoesRawDead ==
  ASSUME Inv, RawDead
  PROVE  Simulates
  <1>1. /\ pc = "raw" /\ kbd # <<>> /\ Head(kbd) = "dead" /\ kbd' = Tail(kbd)
        /\ pc' = IF got = <<>> THEN "wait" ELSE "raw"
        /\ UNCHANGED <<ctrl, pressed, ctrlc, modes, ring, edit, ext, back, want, got, shown>>
    BY Zenon DEF RawDead
  <1>2. KbdInv' /\ Typed' = Typed
    BY <1>1, SkipsDead, Zenon DEF Inv, ExtInv
  <1>3. RingInv' /\ Queued' = Queued /\ EditInv' /\ Line' = Line /\ ModesInv' /\ OutInv'
    BY <1>1, SameRing, SameEdit, SameModes, Zenon DEF Inv, OutInv
  <1>4. ExtInv'
    <2>1. pc \notin Fills
      BY <1>1 DEF Fills
    <2> QED
      BY <1>1, <2>1, Zenon DEF Inv, ExtInv
  <1>5. PcInv'
    <2>1. want \in Nat /\ back \in States /\ pc' \in {"wait", "raw"} /\ want' = want /\ back' = back
      BY <1>1, Zenon DEF Inv, PcInv
    <2> QED
      BY <2>1 DEF PcInv, At, States
  <1>6. Inv'
    BY <1>2, <1>3, <1>4, <1>5, Zenon DEF Inv
  <1> QED
    BY <1>1, <1>2, <1>3, <1>6, Stutters, Zenon

\* A read starts.
LEMMA Starts ==
  ASSUME Inv, got' = <<>>, UNCHANGED <<kb, ctrlc, modes, ring, edit, ext, back, shown>>,
         pc = "idle", PcInv'
  PROVE  Simulates
  <1>1. KbdInv' /\ Typed' = Typed /\ RingInv' /\ Queued' = Queued /\ EditInv' /\ Line' = Line /\ ModesInv'
    BY SameKbd, SameRing, SameEdit, SameModes, Zenon DEF Inv
  <1>2. ExtInv'
    <2>1. pc \notin Fills
      BY DEF Fills
    <2> QED
      BY <2>1, Zenon DEF Inv, ExtInv
  <1>3. OutInv'
    <2>1. <<>> \in Seq(Chars)
      OBVIOUS
    <2> QED
      BY <2>1, Zenon DEF Inv, OutInv
  <1>4. Inv'
    BY <1>1, <1>2, <1>3, Zenon DEF Inv
  <1>5. Terminal!StartRead
    BY <1>1, Zenon DEF Terminal!StartRead, Typed, Line
  <1> QED
    BY <1>4, <1>5, Zenon DEF Simulates, Terminal!TNext

\* read_cooked_tty begins.
LEMMA DoesReadCooked ==
  ASSUME Inv, NEW n \in ReadSizes, read_cooked_tty(n)
  PROVE  Simulates
  <1>1. /\ pc = "idle"
        /\ pc' = (IF "ICANON" \in modes THEN IF cnt > 0 THEN "copy" ELSE "canon"
                  ELSE IF cnt > 0 THEN "take" ELSE "block")
        /\ want' = n /\ got' = <<>>
        /\ UNCHANGED <<kb, ctrlc, modes, ring, edit, ext, back, shown>>
    BY Zenon DEF read_cooked_tty
  <1>2. n \in Nat /\ n > 0
    BY SizesAssumption
  <1>3. back' = back /\ back \in States /\ cnt' = cnt /\ modes' = modes /\ cnt \in Nat
    <2>1. back' = back /\ cnt' = cnt /\ modes' = modes
      BY <1>1, Zenon DEF ring
    <2>2. back \in States /\ cnt \in 0..QueueMax
      BY Zenon DEF Inv, PcInv, RingInv
    <2> QED
      BY <2>1, <2>2, SomePlaces
  <1>4. PcInv'
    BY <1>1, <1>2, <1>3 DEF PcInv, At, States
  <1> QED
    BY <1>1, <1>4, Starts, Zenon

\* read_raw_tty begins.
LEMMA DoesReadRaw ==
  ASSUME Inv, NEW n \in ReadSizes, read_raw_tty(n)
  PROVE  Simulates
  <1>1. /\ pc = "idle" /\ pc' = (IF cnt = 0 THEN "wait" ELSE "raw")
        /\ want' = n /\ got' = <<>>
        /\ UNCHANGED <<kb, ctrlc, modes, ring, edit, ext, back, shown>>
    BY Zenon DEF read_raw_tty
  <1>2. n \in Nat
    BY SizesAssumption
  <1>3. back' = back /\ back \in States
    BY <1>1, Zenon DEF Inv, PcInv
  <1>4. PcInv'
    BY <1>1, <1>2, <1>3 DEF PcInv, At, States
  <1> QED
    BY <1>1, <1>4, Starts, Zenon

\* A read takes a character of the queue.
LEMMA Takes ==
  ASSUME Inv, get_queue, got' = Append(got, mem[rpos]),
         UNCHANGED <<kb, ctrlc, modes, edit, ext, back, shown>>, pc \notin Fills, PcInv'
  PROVE  Simulates
  <1>1. /\ RingInv' /\ mem[rpos] \in Chars
        /\ Queued # <<>> /\ Queued[1] = mem[rpos] /\ Queued' = Tail(Queued)
    BY Gets, Zenon DEF Inv
  <1>2. KbdInv' /\ Typed' = Typed /\ EditInv' /\ Line' = Line /\ ModesInv'
    BY SameKbd, SameEdit, SameModes, Zenon DEF Inv
  <1>3. ExtInv'
    BY Zenon DEF Inv, ExtInv
  <1>4. PICK c \in Chars : c = mem[rpos]
    BY <1>1, Zenon
  <1>5. OutInv'
    <2>1. got \in Seq(Chars) /\ shown' \in Int
      BY Zenon DEF Inv, OutInv
    <2>2. Append(got, c) \in Seq(Chars)
      BY <2>1
    <2> QED
      BY <1>4, <2>1, <2>2, Zenon DEF OutInv
  <1>6. Inv'
    BY <1>1, <1>2, <1>3, <1>5, Zenon DEF Inv
  <1>7. Terminal!TakeReady
    <2>1. Queued \in Seq(Chars) /\ got \in Seq(Chars)
      BY QueuedChars, Zenon DEF Inv, OutInv
    <2> QED
      BY <1>1, <1>2, <2>1, TakesOne, Zenon
  <1> QED
    BY <1>6, <1>7, Zenon DEF Simulates, Terminal!TNext

\* A cooked read copies a character of its line.
LEMMA DoesCopyChar ==
  ASSUME Inv, CopyChar
  PROVE  Simulates
  <1>1. /\ pc = "copy" /\ want > 0 /\ get_queue /\ got' = Append(got, mem[rpos]) /\ want' = want - 1
        /\ pc' = pc
        /\ UNCHANGED <<kb, ctrlc, modes, edit, ext, back, shown>>
    BY Zenon DEF CopyChar
  <1>2. pc \notin Fills
    BY <1>1 DEF Fills
  <1>3. want \in Nat /\ back \in States
    BY Zenon DEF Inv, PcInv
  <1>4. PcInv'
    BY <1>1, <1>3 DEF PcInv, At, States
  <1> QED
    BY <1>1, <1>2, <1>4, Takes, Zenon

\* A cooked read of a terminal that is not canonical takes a character.
LEMMA DoesTakeChar ==
  ASSUME Inv, TakeChar
  PROVE  Simulates
  <1>1. /\ pc = "take" /\ get_queue /\ got' = Append(got, mem[rpos]) /\ want' = want - 1
        /\ pc' = (IF cnt' = 0 THEN "refill" ELSE IF want' = 0 THEN "idle" ELSE "take")
        /\ UNCHANGED <<kb, ctrlc, modes, edit, ext, back, shown>>
    BY Zenon DEF TakeChar
  <1>2. pc \notin Fills /\ pc # "handler"
    BY <1>1 DEF Fills
  <1>3. want \in Nat /\ back \in States /\ want > 0 /\ "ICANON" \notin modes
    BY <1>1, <1>2, Zenon DEF Inv, PcInv, At
  <1>4. PcInv'
    <2>1. pc' \in {"refill", "idle", "take"} /\ (pc' = "take" => want' # 0)
      BY <1>1, Zenon
    <2>2. want' \in Nat /\ back' = back /\ modes' = modes
      BY <1>1, <1>3
    <2> QED
      BY <1>3, <2>1, <2>2 DEF PcInv, At, States
  <1> QED
    BY <1>1, <1>2, <1>4, Takes, Zenon

\* A raw read takes what is queued first.
LEMMA DoesRawQueued ==
  ASSUME Inv, RawQueued
  PROVE  Simulates
  <1>1. /\ pc = "raw" /\ want > 0 /\ get_queue /\ got' = Append(got, mem[rpos]) /\ want' = want - 1
        /\ pc' = pc
        /\ UNCHANGED <<kb, ctrlc, modes, edit, ext, back, shown>>
    BY Zenon DEF RawQueued
  <1>2. pc \notin Fills
    BY <1>1 DEF Fills
  <1>3. want \in Nat /\ back \in States
    BY Zenon DEF Inv, PcInv
  <1>4. PcInv'
    BY <1>1, <1>3 DEF PcInv, At, States
  <1> QED
    BY <1>1, <1>2, <1>4, Takes, Zenon

\* A raw read takes a key, and queues the rest of its string.
LEMMA DoesRawKey ==
  ASSUME PlainInput, Inv, RawKey
  PROVE  Simulates
  <1>1. PICK k : k = Head(kbd)
    OBVIOUS
  <1>2. PICK s : s = IF k = "up" THEN Tail(get_ext_key_string("up")) ELSE <<>>
    OBVIOUS
  <1>3. /\ pc = "raw" /\ want > 0 /\ cnt = 0 /\ kbd # <<>> /\ k # "dead"
        /\ got' = Append(got, NextChar) /\ want' = want - 1 /\ kbd' = Tail(kbd)
        /\ puts_queue(s) /\ pc' = pc
        /\ UNCHANGED <<ctrl, pressed, ctrlc, modes, edit, ext, back, shown>>
    BY <1>1, <1>2, Zenon DEF RawKey
  <1>4. ext = <<>>
    <2>1. pc \notin Fills
      BY <1>3 DEF Fills
    <2> QED
      BY <2>1, Zenon DEF Inv, ExtInv
  <1>5. kbd \in Seq(Keys) /\ Len(kbd) <= KbdMax /\ kbd \in Seq(AllKeys) /\ KbdMax \in Nat
    BY KeysAreKeys, SizesAssumption DEF Inv, KbdInv
  <1>6. k \in AllKeys /\ k \notin {"sp", "nul"}
    <2>1. k \in Keys
      BY <1>1, <1>3, <1>5, HeadTailProperties, Zenon
    <2> QED
      BY <2>1, KeysAreKeys DEF PlainInput
  <1>7. KbdInv'
    <2>1. Tail(kbd) \in Seq(Keys) /\ Len(Tail(kbd)) = Len(kbd) - 1
      BY <1>3, <1>5, HeadTailProperties, Zenon
    <2>2. kbd' \in Seq(Keys) /\ Len(kbd') <= KbdMax
      BY <1>3, <1>5, <2>1
    <2> QED
      BY <1>3, <2>2, Zenon DEF Inv, KbdInv
  <1>8. Spelling(k) \in Seq(Chars) /\ Spelling(k) # <<>>
    BY <1>3, <1>6, SpellingChars, Zenon
  <1>9. /\ s = Tail(Spelling(k)) /\ NextChar = Head(Spelling(k)) /\ Len(s) <= 1
        /\ s \in Seq(Chars) /\ NextChar \in Chars
    <2>1. CASE k = "up"
      <3>1. s = Tail(<<"esc", "a">>) /\ Spelling(k) = <<"esc", "a">>
        BY <1>2, <2>1 DEF get_ext_key_string, Spelling, ExtendedKeys
      <3>2. PICK b, c \in Chars : b = "esc" /\ c = "a"
        BY DEF Chars
      <3>3. /\ Tail(<<b, c>>) = <<c>> /\ Head(<<b, c>>) = b
            /\ <<c>> \in Seq(Chars) /\ Len(<<c>>) = 1 /\ 1 <= 1
        OBVIOUS
      <3>4. NextChar = "esc"
        BY <1>1, <1>4, <2>1 DEF NextChar
      <3> QED
        BY <3>1, <3>2, <3>3, <3>4, Zenon
    <2>2. CASE k # "up"
      <3>1. k \in Chars /\ k \notin ExtendedKeys
        BY <1>3, <1>6, <2>2 DEF AllKeys, ExtendedKeys
      <3>2. s = <<>> /\ Spelling(k) = <<k>>
        BY <1>2, <2>2, <3>1, Zenon DEF Spelling
      <3>3. Tail(<<k>>) = <<>> /\ Head(<<k>>) = k /\ <<>> \in Seq(Chars) /\ Len(<<>>) = 0 /\ 0 <= 1
        BY EmptySeq
      <3>4. NextChar = k
        BY <1>1, <1>4, <1>6, <2>2 DEF NextChar
      <3> QED
        BY <3>1, <3>2, <3>3, <3>4, Zenon
    <2> QED
      BY <2>1, <2>2
  <1>10. RingInv' /\ Queued = <<>> /\ Queued' = s
    <2>1. Len(s) <= QueueMax - cnt
      BY <1>3, <1>9, SomePlaces
    <2>2. RingInv' /\ Queued' = Queued \o s
      BY <1>3, <1>9, <2>1, Puts, Zenon DEF Inv
    <2>3. Queued = <<>>
      BY <1>3, QueuedChars, Zenon DEF Inv
    <2>4. <<>> \o s = s
      BY <1>9, ConcatEmptySeq, Zenon
    <2> QED
      BY <2>2, <2>3, <2>4, Zenon
  <1>11. EditInv' /\ Line' = Line /\ ModesInv'
    BY <1>3, SameEdit, SameModes, Zenon DEF Inv
  <1>12. ExtInv' /\ OutInv'
    <2>1. got \in Seq(Chars) /\ shown \in Int
      BY Zenon DEF Inv, OutInv
    <2>2. PICK c \in Chars : c = NextChar
      BY <1>9, Zenon
    <2>3. Append(got, c) \in Seq(Chars)
      BY <2>1
    <2> QED
      BY <1>3, <1>4, <2>1, <2>2, <2>3, Zenon DEF ExtInv, OutInv
  <1>13. PcInv'
    <2>1. want \in Nat /\ back \in States
      BY Zenon DEF Inv, PcInv
    <2> QED
      BY <1>3, <2>1 DEF PcInv, At, States
  <1>14. Inv'
    BY <1>7, <1>10, <1>11, <1>12, <1>13, Zenon DEF Inv
  <1>15. PICK t \in Seq(Chars) : t = Spelled(Tail(kbd))
    <2>1. Tail(kbd) \in Seq(AllKeys)
      BY <1>3, <1>5, HeadTailProperties, Zenon
    <2> QED
      BY <2>1, SpelledChars, Zenon
  <1>16. Typed = Spelling(k) \o t /\ Typed' = t
    <2>1. Spelled(kbd) = Spelling(k) \o t
      BY <1>1, <1>3, <1>5, <1>15, SpelledFirst, Zenon
    <2>2. Typed = Spelled(kbd)
      BY <1>4, TypedChars, ConcatEmptySeq, Zenon DEF Typed, Inv
    <2>3. Typed' = <<>> \o t
      BY <1>3, <1>4, <1>15, Zenon DEF Typed
    <2>4. <<>> \o t = t
      BY ConcatEmptySeq, Zenon
    <2> QED
      BY <2>1, <2>2, <2>3, <2>4, Zenon
  <1>17. Parts(Typed, Spelling(k), t)
    BY <1>8, <1>16, JoinParts
  <1>18. Terminal!TakeRaw
    <2>1. /\ Typed # <<>> /\ Len(Spelling(k)) \in 1..Len(Typed) /\ Head(Typed) = NextChar
          /\ s = SubSeq(Typed, 2, Len(Spelling(k)))
          /\ Typed' = SubSeq(Typed, Len(Spelling(k)) + 1, Len(Typed))
      BY <1>8, <1>9, <1>16, <1>17, Zenon DEF Parts
    <2> QED
      BY <1>3, <1>10, <1>11, <2>1, Zenon DEF Terminal!TakeRaw, Typed, Line
  <1> QED
    BY <1>14, <1>18, Zenon DEF Simulates, Terminal!TNext

\* tcsetattr sets the modes.
LEMMA DoesTcsetattr ==
  ASSUME PlainInput, Inv, NEW m \in Attributes, tcsetattr(m)
  PROVE  Simulates
  <1>1. /\ pc = "idle" /\ modes' = m
        /\ ctrlc' = ({"ISIG", "BRKINT", "IGNBRK"} \cap m = {"ISIG", "BRKINT"})
        /\ UNCHANGED <<kb, ring, edit, ext, pc, back, want, got, shown>>
    BY Zenon DEF tcsetattr
  <1>2. KbdInv' /\ Typed' = Typed /\ RingInv' /\ Queued' = Queued /\ EditInv' /\ Line' = Line
    BY <1>1, SameKbd, SameRing, SameEdit, Zenon DEF Inv
  <1>3. m \subseteq Flags /\ {"ISIG", "IGNBRK", "BRKINT"} \cap m # {"ISIG"}
    BY InputsAssumption DEF PlainInput
  <1>4. ctrlc' \in BOOLEAN
    BY <1>1
  <1>5. ModesInv'
    BY <1>1, <1>3, <1>4, Zenon DEF ModesInv
  <1>6. ExtInv' /\ OutInv'
    BY <1>1, Zenon DEF Inv, ExtInv, OutInv
  <1>7. PcInv'
    <2>1. want \in Nat /\ back \in States
      BY Zenon DEF Inv, PcInv
    <2> QED
      BY <1>1, <2>1 DEF PcInv, At, States
  <1>8. Inv'
    BY <1>2, <1>5, <1>6, <1>7, Zenon DEF Inv
  <1>9. Terminal!SetModes
    BY <1>1, <1>2, <1>3, Zenon DEF Terminal!SetModes, Terminal!Flags, Flags, Typed, Line
  <1> QED
    BY <1>8, <1>9, Zenon DEF Simulates, Terminal!TNext

\* tcflush discards what is typed and what is queued.
LEMMA DoesTcflush ==
  ASSUME Inv, tcflush
  PROVE  Simulates
  <1>1. /\ pc = "idle" /\ cnt' = 0 /\ kbd' = <<>>
        /\ IF cnt # 0 THEN rpos' = 0 /\ wpos' = 0 ELSE rpos' = rpos /\ wpos' = wpos
        /\ UNCHANGED <<ctrl, pressed, ctrlc, modes, mem, edit, ext, pc, back, want, got, shown>>
    BY Zenon DEF tcflush
  <1>2. ext = <<>>
    <2>1. pc \notin Fills
      BY <1>1 DEF Fills
    <2> QED
      BY <2>1, Zenon DEF Inv, ExtInv
  <1>3. KbdInv'
    <2>1. <<>> \in Seq(Keys) /\ Len(<<>>) = 0
      BY EmptySeq
    <2>2. Len(<<>>) <= KbdMax
      BY <2>1, SizesAssumption
    <2> QED
      BY <1>1, <2>1, <2>2, Zenon DEF Inv, KbdInv
  <1>4. Typed' = <<>>
    <2>1. <<>> \in Seq(AllKeys)
      OBVIOUS
    <2>2. Spelled(<<>>) = <<>>
      BY <2>1, SpelledChars, Zenon
    <2>3. PICK x \in Seq(Chars) : x = <<>>
      BY EmptySeq, Zenon
    <2>4. x \o x = x
      BY <2>3, ConcatEmptySeq, Zenon
    <2> QED
      BY <1>1, <1>2, <2>2, <2>3, <2>4, Zenon DEF Typed
  <1>5. RingInv'
    <2>1. /\ mem' \in [Places -> Chars] /\ rpos \in Places /\ wpos \in Places
          /\ wpos = (rpos + cnt) % QueueMax
      BY <1>1, Zenon DEF Inv, RingInv
    <2>2. PICK Q \in Nat \ {0} : Q = QueueMax
      BY SomePlaces
    <2>3. 0 \in Places /\ 0 \in 0..QueueMax /\ (0 + 0) % Q = 0
      BY <2>2 DEF Places
    <2>4. CASE cnt # 0
      BY <1>1, <2>1, <2>2, <2>3, <2>4, Zenon DEF RingInv
    <2>5. CASE cnt = 0
      BY <1>1, <2>1, <2>3, <2>5, Zenon DEF RingInv
    <2> QED
      BY <2>4, <2>5
  <1>6. Queued' = <<>>
    BY <1>1 DEF Queued
  <1>7. EditInv' /\ Line' = Line /\ ModesInv'
    BY <1>1, SameEdit, SameModes, Zenon DEF Inv
  <1>8. ExtInv' /\ OutInv'
    BY <1>1, Zenon DEF Inv, ExtInv, OutInv
  <1>9. PcInv'
    <2>1. want \in Nat /\ back \in States
      BY Zenon DEF Inv, PcInv
    <2> QED
      BY <1>1, <2>1 DEF PcInv, At, States
  <1>10. Inv'
    BY <1>3, <1>5, <1>7, <1>8, <1>9, Zenon DEF Inv
  <1>11. Terminal!FlushInput
    BY <1>1, <1>4, <1>6, <1>7, Zenon DEF Terminal!FlushInput, Typed, Line
  <1> QED
    BY <1>10, <1>11, Zenon DEF Simulates, Terminal!TNext

\* cfmakeraw turns off only the SIGINT of the INTR key.
LEMMA DoesCfmakeraw ==
  ASSUME Inv, cfmakeraw
  PROVE  Simulates
  <1>1. /\ ctrlc' = FALSE
        /\ UNCHANGED <<kb, modes, ring, edit, ext, pc, back, want, got, shown>>
    BY Zenon DEF cfmakeraw
  <1>2. KbdInv' /\ Typed' = Typed /\ RingInv' /\ Queued' = Queued /\ EditInv' /\ Line' = Line
    BY <1>1, SameKbd, SameRing, SameEdit, Zenon DEF Inv
  <1>3. ModesInv' /\ ExtInv' /\ OutInv' /\ PcInv'
    BY <1>1, Zenon DEF Inv, ModesInv, ExtInv, OutInv, PcInv, At, ring
  <1>4. Inv'
    BY <1>2, <1>3, Zenon DEF Inv
  <1> QED
    BY <1>1, <1>2, <1>4, Stutters, Zenon
----------------------------------------------------------------------------
\* The theorems.

\* The console starts as the invariant and Tty say.
LEMMA Starting ==
  ASSUME PlainInput, Init
  PROVE  Inv /\ Terminal!TInit
  <1>1. <<>> \in Seq(Keys) /\ <<>> \in Seq(Chars) /\ <<>> \in Seq(AllKeys) /\ Len(<<>>) = 0 /\ 0 <= KbdMax
    BY EmptySeq, SizesAssumption
  <1>2. "nul" \in Chars /\ "idle" \in States
    BY DEF Chars, States
  <1>3. KbdInv
    <2>1. 0 \in 0..MaxKeys /\ Len(<<>>) <= KbdMax
      BY <1>1, SizesAssumption
    <2>2. kbd = <<>> /\ ctrl = FALSE /\ pressed = 0
      BY Zenon DEF Init
    <2> QED
      BY <1>1, <2>1, <2>2, Zenon DEF KbdInv
  <1>4. RingInv
    <2>1. 0 \in Places /\ 0 \in 0..QueueMax /\ (0 + 0) % QueueMax = 0
      BY SomePlaces DEF Places
    <2>2. mem \in [Places -> Chars] /\ rpos = 0 /\ wpos = 0 /\ cnt = 0
      BY <1>2, Zenon DEF Init, Places
    <2> QED
      BY <2>1, <2>2, Zenon DEF RingInv
  <1>5. EditInv
    <2>1. 0 \in 0..LineMax /\ \A i \in 0..0 - 1 : i \in {}
      BY SomePlaces
    <2>2. buf \in [0..LineMax - 1 -> Chars] /\ flag \in [0..LineMax - 1 -> {INVALID, CTRL, SINGLE}]
      BY <1>2, Zenon DEF Init, CTRL
    <2>3. col = 0 /\ lnch = FALSE
      BY Zenon DEF Init
    <2> QED
      BY <2>1, <2>2, <2>3, Zenon DEF EditInv
  <1>6. modes \in Attributes /\ modes \subseteq Flags
    BY InputsAssumption DEF Init
  <1>7. ExtInv /\ ModesInv /\ OutInv
    <2>1. 0 \in Int
      OBVIOUS
    <2> QED
      BY <1>1, <1>6, <2>1, Zenon DEF Init, ExtInv, ModesInv, OutInv, PlainInput
  <1>8. PcInv
    BY DEF Init, PcInv, At, States
  <1>9. Typed = <<>> /\ Line = <<>> /\ Queued = <<>>
    <2>1. Spelled(<<>>) = <<>>
      BY <1>1, SpelledChars, Zenon
    <2>2. PICK x \in Seq(Chars) : x = <<>>
      BY EmptySeq, Zenon
    <2>3. x \o x = x
      BY <2>2, ConcatEmptySeq, Zenon
    <2>4. Typed = <<>>
      BY <2>1, <2>2, <2>3, Zenon DEF Init, Typed
    <2>5. Line = <<>>
      BY DEF Init, Line
    <2>6. Queued = <<>>
      BY DEF Init, Queued
    <2> QED
      BY <2>4, <2>5, <2>6
  <1>10. Terminal!TInit
    <2>1. got = <<>>
      BY Zenon DEF Init
    <2> QED
      BY <1>6, <1>9, <2>1, Zenon DEF Terminal!TInit, Terminal!Flags, Flags, Typed, Line
  <1> QED
    BY <1>3, <1>4, <1>5, <1>7, <1>8, <1>10, Zenon DEF Inv

\* Every step of the reader is one of Tty, or none, and keeps the invariant.
LEMMA ReaderSteps ==
  ASSUME PlainInput, Inv, Reader
  PROVE  Simulates
  <1>1. CASE FillDead
    BY <1>1, DoesFillDead, Zenon
  <1>2. CASE FillSignal
    BY <1>2, DoesFillSignal, Zenon
  <1>3. CASE FillDrop
    BY <1>3, DoesFillDrop, Zenon
  <1>4. CASE FillEdit
    BY <1>4, DoesFillEdit, Zenon
  <1>5. CASE FillEndLine
    BY <1>5, DoesFillEndLine, Zenon
  <1>6. CASE FillPut
    BY <1>6, DoesFillPut, Zenon
  <1>7. CASE FillReturn
    BY <1>7, DoesFillReturn, Zenon
  <1>8. CASE HandlerReturns
    BY <1>8, DoesHandlerReturns, Zenon
  <1>9. CASE HandlerJumps
    BY <1>9, DoesHandlerJumps, Zenon
  <1>10. CASE CopyChar
    BY <1>10, DoesCopyChar, Zenon
  <1>11. CASE CopyDone
    BY <1>11, DoesCopyDone, Zenon
  <1>12. CASE TakeChar
    BY <1>12, DoesTakeChar, Zenon
  <1>13. CASE wait_keysense
    BY <1>13, DoesWaitKeysense, Zenon
  <1>14. CASE RawDone
    BY <1>14, DoesRawDone, Zenon
  <1>15. CASE RawQueued
    BY <1>15, DoesRawQueued, Zenon
  <1>16. CASE RawDead
    BY <1>16, DoesRawDead, Zenon
  <1>17. CASE RawKey
    BY <1>17, DoesRawKey, Zenon
  <1> QED
    BY <1>1, <1>2, <1>3, <1>4, <1>5, <1>6, <1>7, <1>8, <1>9, <1>10, <1>11, <1>12, <1>13,
       <1>14, <1>15, <1>16, <1>17, Zenon DEF Reader

\* So is every other step.
LEMMA EveryStep ==
  ASSUME PlainInput, Inv, [Next]_vars
  PROVE  Simulates
  <1>1. ASSUME NEW k \in Keys, Press(k)
        PROVE  Simulates
    BY <1>1, DoesPress, Zenon
  <1>2. CASE Reader
    BY <1>2, ReaderSteps, Zenon
  <1>3. ASSUME NEW n \in ReadSizes, read_cooked_tty(n) \/ read_raw_tty(n)
        PROVE  Simulates
    BY <1>3, DoesReadCooked, DoesReadRaw, Zenon
  <1>4. ASSUME NEW m \in Attributes, tcsetattr(m)
        PROVE  Simulates
    BY <1>4, DoesTcsetattr, Zenon
  <1>5. CASE tcflush
    BY <1>5, DoesTcflush, Zenon
  <1>6. CASE cfmakeraw
    BY <1>6, DoesCfmakeraw, Zenon
  <1>7. CASE UNCHANGED vars
    <2>1. /\ UNCHANGED <<kb, ctrlc, modes, ring, edit, ext, back, got, shown>>
          /\ pc' = pc /\ want' = want
      BY <1>7, Zenon DEF vars
    <2>2. Moves /\ cnt' = cnt /\ modes' = modes /\ back' = back /\ ext' = ext
      BY <2>1, KeepsTyped, Zenon
    <2>3. ExtInv' /\ PcInv'
      BY <2>1, <2>2, Zenon DEF Inv, ExtInv, PcInv, At
    <2> QED
      BY <2>2, <2>3, DoesMove, Zenon
  <1> QED
    BY <1>1, <1>2, <1>3, <1>4, <1>5, <1>6, <1>7, Zenon DEF Next

\* The console of the library is a terminal as Tty promises: for every size of
\* the ring, the edit line and the keyboard buffer, and whatever is typed,
\* read, flushed and set meanwhile, fill_queue, read_cooked_tty and
\* read_raw_tty use every character once and in order.
THEOREM ConsoleIsTty ==
  ASSUME PlainInput
  PROVE  Spec => ActsAsTty
  <1>1. Init => Inv /\ Terminal!TInit
    BY Starting
  <1>2. Inv /\ [Next]_vars => Inv' /\ [Terminal!TNext]_(Terminal!tvars)
    BY EveryStep, Zenon DEF Simulates
  <1>3. Inv => TypeOK
    BY InvTypes
  <1> QED
    BY <1>1, <1>2, <1>3, PTL DEF Spec, ActsAsTty, Terminal!TSpec

\* erase_editline, kill_editline and insert_editline keep the echo in step
\* with the line they edit, whatever its length and its flags, while control
\* characters are echoed as ^X (Carets) or nothing is.
THEOREM EchoInStep ==
  ASSUME PlainInput
  PROVE  Spec => EchoFollowsLine
  <1>1. Init => Inv
    BY Starting
  <1>2. Inv /\ [Next]_vars => Inv'
    BY EveryStep, Zenon DEF Simulates
  <1>3. Inv => [FillEdit /\ {"ECHOKE", "ECHOK"} \cap modes = {"ECHOKE"} /\ Carets
                  => shown' - Width' = shown - Width]_vars
    BY DoesFillEdit, Zenon
  <1> QED
    BY <1>1, <1>2, <1>3, PTL DEF Spec, EchoFollowsLine

----------------------------------------------------------------------------
(***************************************************************************)
(* Theorems about Console, for any text, commands of up to NPAR parameters *)
(* below 100, cuts and restarts of the program: the adapter and its note   *)
(* agree, text stays visible, and the parser rests between pieces.         *)
(*                                                                         *)
(* First come the steps of the drivers, which only show something, and of  *)
(* SGR, which keeps Noted and Legible; then the bytes a command is made of *)
(* and what the parser does with each of them; then the invariant          *)
(* ConsoleInv, which says where the parser is relative to the bytes still  *)
(* to be written, and that each byte keeps it.  The writes, tabs and       *)
(* renditions are loops: a lemma ...Run for each unrolls it.               *)
(***************************************************************************)

\* The fields of a console.
ConsoleFields == {"state", "args", "argc", "ign", "col", "row", "scr", "fg", "bg",
                  "cur_blink", "blink", "shape", "changed", "fault"}
IsConsole(s) == s = [f \in ConsoleFields |-> s[f]]

\* Only the cursor, its shape and the screen differ.
Shown(s, t) ==
  /\ IsConsole(t)
  /\ t.state = s.state /\ t.args = s.args /\ t.argc = s.argc /\ t.ign = s.ign
  /\ t.fg = s.fg /\ t.bg = s.bg /\ t.blink = s.blink /\ t.cur_blink = s.cur_blink

\* Two such changes after each other are one.
LEMMA ShownAfter ==
  ASSUME NEW s, NEW t, NEW u, Shown(s, t), Shown(t, u)
  PROVE  Shown(s, u)
  BY DEF Shown

\* A console unchanged is such a change.
LEMMA ShownSelf ==
  ASSUME NEW s, IsConsole(s)
  PROVE  Shown(s, s)
  BY DEF Shown

\* What the drivers write.
LEMMA ShownWrites ==
  ASSUME NEW s, IsConsole(s), NEW v, NEW w
  PROVE  /\ Shown(s, [s EXCEPT !.scr = v])
         /\ Shown(s, [s EXCEPT !.col = v])
         /\ Shown(s, [s EXCEPT !.row = v])
         /\ Shown(s, [s EXCEPT !.shape = v])
         /\ Shown(s, [s EXCEPT !.changed = v])
         /\ Shown(s, [s EXCEPT !.fault = v])
         /\ Shown(s, [s EXCEPT !.col = v, !.row = w])
         /\ Shown(s, [s EXCEPT !.row = v, !.col = w])
         /\ Shown(s, [s EXCEPT !.scr = v, !.row = w])
         /\ Shown(s, [s EXCEPT !.scr = v, !.col = w])
  BY DEF Shown, IsConsole, ConsoleFields

\* Moving and shaping the cursor.
LEMMA ShownCursor ==
  ASSUME NEW s, IsConsole(s)
  PROVE  /\ \A x, y : Shown(s, set_cursor(s, x, y))
         /\ \A x, y : Shown(s, move_cursor(s, x, y))
         /\ \A x : Shown(s, set_cursor_shape(s, x))
         /\ Shown(s, Placed(s))
  <1>1. \A v, w : Shown(s, [s EXCEPT !.col = v, !.row = w])
    BY ShownWrites, Zenon
  <1>2. ASSUME NEW x, NEW y PROVE Shown(s, set_cursor(s, x, y))
    BY <1>1, Zenon DEF set_cursor
  <1>3. ASSUME NEW x, NEW y PROVE Shown(s, move_cursor(s, x, y))
    <2>1. PICK v, w : move_cursor(s, x, y) = [s EXCEPT !.col = v, !.row = w]
      BY Zenon DEF move_cursor
    <2>2. Shown(s, [s EXCEPT !.col = v, !.row = w])
      BY <1>1, Zenon
    <2> QED
      BY <2>1, <2>2, Zenon
  <1>4. ASSUME NEW x PROVE Shown(s, set_cursor_shape(s, x))
    BY ShownWrites, Zenon DEF set_cursor_shape
  <1> QED
    BY <1>2, <1>3, <1>4, Zenon DEF Placed

\* Clearing and scrolling.
LEMMA ShownDriver ==
  ASSUME NEW s, IsConsole(s)
  PROVE  /\ \A x, y, z, w : Shown(s, clear(s, x, y, z, w))
         /\ \A x, y, z : Shown(s, scroll_up(s, x, y, z))
         /\ \A x, y, z : Shown(s, scroll_down(s, x, y, z))
         /\ \A x, y, z, w : Shown(s, scroll_left(s, x, y, z, w))
         /\ \A x, y, z, w : Shown(s, scroll_right(s, x, y, z, w))
  BY ShownWrites, Zenon DEF clear, scroll_up, scroll_down, scroll_left, scroll_right

\* The erasing that ED and EL share.
LEMMA ShownErase ==
  ASSUME NEW s, IsConsole(s), NEW n, NEW top, NEW bot
  PROVE  Shown(s, erase(s, n, top, bot))
  <1>1. Shown(s, clear(s, s.col, s.row, MaxCol, bot)) /\ Shown(s, clear(s, 0, top, s.col, s.row))
        /\ Shown(s, clear(s, 0, top, MaxCol, bot)) /\ Shown(s, s)
    BY ShownDriver, ShownSelf, Zenon
  <1> QED
    BY <1>1, Zenon DEF erase

\* What the teletype and both drivers make of a character.
LEMMA ShownTeletype ==
  ASSUME NEW s, IsConsole(s), NEW b
  PROVE  Shown(s, Teletype(s, b))
  <1>1. ASSUME NEW t, IsConsole(t) PROVE Shown(t, Wrap(t))
    <2>1. Shown(t, [t EXCEPT !.col = 0, !.row = @ + 1]) /\ Shown(t, t)
      BY <1>1, ShownWrites, ShownSelf, Zenon
    <2> QED
      BY <2>1, Zenon DEF Wrap
  <1>2. ASSUME NEW t, IsConsole(t) PROVE Shown(t, ScrollAtBottom(t))
    <2>1. Shown(t, [t EXCEPT !.scr = direct_scroll_backward(@, 0, 1, MaxCol, MaxRow, 0, 0),
                             !.row = @ - 1])
          /\ Shown(t, t)
      BY <1>2, ShownWrites, ShownSelf, Zenon
    <2> QED
      BY <2>1, Zenon DEF ScrollAtBottom
  <1> DEFINE t == CASE b = "nl" -> [s EXCEPT !.row = @ + 1]
                    [] b = "cr" -> [s EXCEPT !.col = 0]
                    [] b = "bs" /\ s.col > 0 -> [s EXCEPT !.col = @ - 1]
                    [] b = "bs" /\ s.col = 0 /\ s.row > 0 -> [s EXCEPT !.row = @ - 1, !.col = MaxCol]
                    [] b = "bs" /\ s.col = 0 /\ s.row = 0 -> s
                    [] OTHER -> [s EXCEPT !.scr = Poke(@, get_video_offset(s.col, s.row),
                                                       IF b = "x" THEN Ink ELSE Blank),
                                          !.col = @ + 1]
  <1>3. Shown(s, t)
    <2>1. /\ Shown(s, [s EXCEPT !.row = @ + 1]) /\ Shown(s, [s EXCEPT !.col = 0])
          /\ Shown(s, [s EXCEPT !.col = @ - 1])
          /\ Shown(s, [s EXCEPT !.row = @ - 1, !.col = MaxCol]) /\ Shown(s, s)
          /\ Shown(s, [s EXCEPT !.scr = Poke(@, get_video_offset(s.col, s.row),
                                            IF b = "x" THEN Ink ELSE Blank),
                               !.col = @ + 1])
      BY ShownWrites, ShownSelf, Zenon
    <2>2. \/ \/ b = "nl" \/ b = "cr"
             \/ b = "bs" /\ s.col > 0
             \/ b = "bs" /\ s.col = 0 /\ s.row > 0
             \/ b = "bs" /\ s.col = 0 /\ s.row = 0
          \/ ~ \/ b = "nl" \/ b = "cr"
               \/ b = "bs" /\ s.col > 0
               \/ b = "bs" /\ s.col = 0 /\ s.row > 0
               \/ b = "bs" /\ s.col = 0 /\ s.row = 0
      OBVIOUS
    <2> QED
      BY <2>1, <2>2, Zenon
  <1>4. Teletype(s, b) = ScrollAtBottom(Wrap(t))
    BY DEF Teletype
  <1> HIDE DEF t
  <1>5. IsConsole(t)
    BY <1>3 DEF Shown
  <1>6. Shown(t, Wrap(t)) /\ IsConsole(Wrap(t))
    BY <1>1, <1>5 DEF Shown
  <1>7. Shown(Wrap(t), ScrollAtBottom(Wrap(t)))
    BY <1>2, <1>6
  <1> QED
    BY <1>3, <1>4, <1>6, <1>7, ShownAfter

\* A character on the screen.
LEMMA ShownCharacter ==
  ASSUME NEW s, IsConsole(s), NEW b
  PROVE  Shown(s, write_ch(s, b))
  <1>1. PICK changed : changed = (s.changed \/ <<s.fg, s.bg>> # <<7, 0>>)
    OBVIOUS
  <1>2. PICK t : t = [s EXCEPT !.changed = changed]
    OBVIOUS
  <1>3. Shown(s, t)
    BY <1>2, ShownWrites, Zenon
  <1>4. IsConsole(t)
    BY <1>3 DEF Shown
  <1>5. /\ Shown(t, Teletype(t, b))
        /\ Shown(t, [t EXCEPT !.fault = TRUE])
        /\ Shown(t, [t EXCEPT !.scr = Poke(@, get_video_offset(s.col, s.row),
                                          IF b = "x" THEN Ink ELSE Blank),
                             !.col = @ + 1])
    BY <1>4, ShownTeletype, ShownWrites, Zenon
  <1>6. \/ vbios_write_ch(s, b) = Teletype(t, b)
        \/ vbios_write_ch(s, b) = [t EXCEPT !.fault = TRUE]
        \/ vbios_write_ch(s, b) = [t EXCEPT !.scr = Poke(@, get_video_offset(s.col, s.row),
                                          IF b = "x" THEN Ink ELSE Blank),
                             !.col = @ + 1]
    BY <1>1, <1>2, Zenon DEF vbios_write_ch
  <1>7. Shown(t, vbios_write_ch(s, b))
    BY <1>5, <1>6, Zenon
  <1>8. Shown(s, vbios_write_ch(s, b))
    BY <1>3, <1>7, ShownAfter
  <1> QED
    BY <1>8, ShownTeletype, Zenon DEF write_ch

\* Commands other than SGR.
LEMMA ShownCommand ==
  ASSUME NEW s, IsConsole(s), NEW b, b # "m"
  PROVE  Shown(s, execute_console_command(s, b))
  BY ShownCursor, ShownDriver, ShownErase, ShownSelf, Zenon DEF execute_console_command
----------------------------------------------------------------------------
\* Colours.

\* The parser is as before.
Kept(s, t) ==
  /\ IsConsole(t)
  /\ t.state = s.state /\ t.args = s.args /\ t.argc = s.argc /\ t.ign = s.ign
\* The library knows whether the adapter blinks.
Noted(s) == s.blink \in {0, 1} /\ s.cur_blink = s.blink
\* A bright background is one that blinks.
Coloured(s) == s.fg \in 0..15 /\ s.bg \in 0..15 /\ (s.bg >= 8 => s.blink = 1)

\* What a parameter of SGR does.
Rendered(s, t, n) ==
  /\ Kept(s, t)
  /\ Noted(s) => Noted(t)
  /\ Noted(s) /\ Coloured(s) /\ n # 7 => Coloured(t)

\* Switching blink attribute on or off notes what was switched.
LEMMA BlinkSwitched ==
  ASSUME NEW s, IsConsole(s), NEW on \in {0, 1}
  PROVE  /\ Kept(s, set_blink_attrib(s, on)) /\ Noted(set_blink_attrib(s, on))
         /\ set_blink_attrib(s, on).fg = s.fg /\ set_blink_attrib(s, on).bg = s.bg
         /\ set_blink_attrib(s, on).blink = on
  BY DEF set_blink_attrib, Kept, Noted, IsConsole, ConsoleFields

\* New colours, whatever they are.
LEMMA Painted ==
  ASSUME NEW s, IsConsole(s), NEW f, NEW b, NEW t, t = [s EXCEPT !.fg = f, !.bg = b]
  PROVE  /\ Kept(s, t) /\ t.fg = f /\ t.bg = b
         /\ t.blink = s.blink /\ t.cur_blink = s.cur_blink
  BY DEF Kept, IsConsole, ConsoleFields

\* One new colour leaves the other.
LEMMA PaintedOne ==
  ASSUME NEW s, IsConsole(s), NEW f
  PROVE  /\ [s EXCEPT !.fg = f] = [s EXCEPT !.fg = f, !.bg = s.bg]
         /\ [s EXCEPT !.bg = f] = [s EXCEPT !.fg = s.fg, !.bg = f]
  BY DEF IsConsole, ConsoleFields

\* Arithmetic of the bright bit in a colour of four bits.
LEMMA Shades ==
  ASSUME NEW n \in 0..15
  PROVE  /\ Bright(n) \in 8..15 /\ Dim(n) \in 0..7
         /\ n < 8 => Dim(n) = n
         /\ \A k \in 0..7 : (n \div 8) * 8 + k \in 0..15 /\ ((n \div 8) * 8 + k >= 8 => n >= 8)
  BY DEF Bright, Dim

\* The table of colours has dim colours only.
LEMMA ScreenColors ==
  \A n \in 1..8 : screen_color[n] \in 0..7
  BY DEF screen_color

\* New colours, with blinking as it is or just switched.
LEMMA RepaintStep ==
  ASSUME NEW s, IsConsole(s), NEW n, NEW u, Kept(s, u), Noted(s) => Noted(u), NEW f, NEW b,
         Noted(s) /\ Coloured(s) /\ n # 7 => f \in 0..15 /\ b \in 0..15 /\ (b >= 8 => u.blink = 1)
  PROVE  Rendered(s, [u EXCEPT !.fg = f, !.bg = b], n)
  <1>1. PICK t : t = [u EXCEPT !.fg = f, !.bg = b]
    OBVIOUS
  <1>2. IsConsole(u)
    BY DEF Kept
  <1>3. Kept(u, t) /\ t.fg = f /\ t.bg = b /\ t.blink = u.blink /\ t.cur_blink = u.cur_blink
    BY <1>1, <1>2 DEF Kept, IsConsole, ConsoleFields
  <1>4. Rendered(s, t, n)
    BY <1>3 DEF Rendered, Noted, Coloured, Kept
  <1> QED
    BY <1>1, <1>4

\* Reversing the colours is a rendition, the seventh.
LEMMA ReversedStep ==
  ASSUME NEW s, IsConsole(s)
  PROVE  Rendered(s, Reversed(s), 7)
  <1>1. PICK b : b = IF s.bg >= 8 THEN Bright(s.fg) ELSE s.fg
    OBVIOUS
  <1>2. PICK t : t = [s EXCEPT !.fg = s.bg, !.bg = b]
    OBVIOUS
  <1>3. Kept(s, t) /\ t.blink = s.blink /\ t.cur_blink = s.cur_blink
    BY <1>2 DEF Kept, IsConsole, ConsoleFields
  <1>4. Rendered(s, t, 7)
    BY <1>3 DEF Rendered, Noted
  <1>5. Rendered(s, set_blink_attrib(t, 0), 7)
    <2>1. Kept(t, set_blink_attrib(t, 0)) /\ Noted(set_blink_attrib(t, 0))
      BY <1>3, BlinkSwitched DEF Kept
    <2> QED
      BY <1>3, <2>1 DEF Rendered, Kept
  <1>6. Reversed(s) = IF s.fg >= 8 /\ s.cur_blink # 0 THEN set_blink_attrib(t, 0) ELSE t
    BY <1>1, <1>2, Zenon DEF Reversed
  <1> QED
    BY <1>4, <1>5, <1>6

\* What one parameter of SGR does to the colours.
LEMMA RenditionStep ==
  ASSUME NEW s, IsConsole(s), NEW n
  PROVE  Rendered(s, Rendition(s, n), n)
  <1>1. Rendered(s, s, n)
    BY DEF Rendered, Kept
  <1>2. ASSUME NEW f, NEW b, Noted(s) /\ Coloured(s) => f \in 0..15 /\ b \in 0..15 /\ (b >= 8 => s.bg >= 8)
        PROVE  Rendered(s, [s EXCEPT !.fg = f, !.bg = b], n)
    <2>1. Kept(s, s)
      BY DEF Kept
    <2>2. Noted(s) /\ Coloured(s) /\ n # 7 => f \in 0..15 /\ b \in 0..15 /\ (b >= 8 => s.blink = 1)
      BY <1>2 DEF Coloured
    <2> QED
      BY <2>1, <2>2, RepaintStep
  <1>3. Rendered(s, [s EXCEPT !.fg = 7, !.bg = 0], n)
    <2>1. 7 \in 0..15 /\ 0 \in 0..15 /\ ~ (0 >= 8)
      OBVIOUS
    <2> QED
      BY <1>2, <2>1, Zenon
  <1>4. ASSUME NEW f, Noted(s) /\ Coloured(s) => f \in 0..15
        PROVE  Rendered(s, [s EXCEPT !.fg = f], n)
    <2>1. Rendered(s, [s EXCEPT !.fg = f, !.bg = s.bg], n)
      BY <1>2, <1>4 DEF Coloured
    <2> QED
      BY <2>1, PaintedOne, Zenon
  <1>5. ASSUME NEW b, Noted(s) /\ Coloured(s) => b \in 0..15 /\ (b >= 8 => s.bg >= 8)
        PROVE  Rendered(s, [s EXCEPT !.bg = b], n)
    <2>1. Rendered(s, [s EXCEPT !.fg = s.fg, !.bg = b], n)
      BY <1>2, <1>5 DEF Coloured
    <2> QED
      BY <2>1, PaintedOne, Zenon
  <1>6. ASSUME NEW on \in {0, 1}, NEW u, u = set_blink_attrib(s, on), NEW b,
               Coloured(s) => b \in 0..15 /\ (b >= 8 => on = 1)
        PROVE  Rendered(s, [u EXCEPT !.bg = b], n)
    <2>1. Kept(s, u) /\ Noted(u) /\ u.fg = s.fg /\ u.bg = s.bg /\ u.blink = on
      BY <1>6, BlinkSwitched
    <2>2. Rendered(s, [u EXCEPT !.fg = s.fg, !.bg = b], n)
      BY <1>6, <2>1, RepaintStep DEF Coloured
    <2>3. IsConsole(u)
      BY <2>1 DEF Kept
    <2>4. [u EXCEPT !.bg = b] = [u EXCEPT !.fg = s.fg, !.bg = b]
      BY <2>1, <2>3, PaintedOne, Zenon
    <2> QED
      BY <2>2, <2>4
  <1>7. Coloured(s) => /\ Bright(s.fg) \in 0..15 /\ Bright(s.bg) \in 0..15
                       /\ Dim(s.bg) \in 0..15 /\ ~ (Dim(s.bg) >= 8)
    BY Shades DEF Coloured
  <1>8. Rendered(s, [s EXCEPT !.fg = Bright(@)], n) /\ Rendered(s, [s EXCEPT !.fg = Bright(s.bg)], n)
    BY <1>4, <1>7
  <1>9. Rendered(s, [set_blink_attrib(s, 1) EXCEPT !.bg = Bright(@)], n)
        /\ Rendered(s, [set_blink_attrib(s, 0) EXCEPT !.bg = Dim(@)], n)
    <2>1. PICK u : u = set_blink_attrib(s, 1)
      OBVIOUS
    <2>2. PICK v : v = set_blink_attrib(s, 0)
      OBVIOUS
    <2>3. u.bg = s.bg /\ v.bg = s.bg
      BY <2>1, <2>2, BlinkSwitched
    <2>4. Rendered(s, [u EXCEPT !.bg = Bright(s.bg)], n) /\ Rendered(s, [v EXCEPT !.bg = Dim(s.bg)], n)
      BY <1>6, <1>7, <2>1, <2>2
    <2> QED
      BY <2>1, <2>2, <2>3, <2>4
  <1>10. n \in 30..37 => Rendered(s, [s EXCEPT !.fg = (@ \div 8) * 8 + screen_color[n - 29]], n)
    <2>1. n \in 30..37 => screen_color[n - 29] \in 0..7
      BY ScreenColors
    <2>2. n \in 30..37 /\ Coloured(s) => (s.fg \div 8) * 8 + screen_color[n - 29] \in 0..15
      BY <2>1, Shades DEF Coloured
    <2> QED
      BY <1>4, <2>2
  <1>11. n \in 40..47 => Rendered(s, [s EXCEPT !.bg = (@ \div 8) * 8 + screen_color[n - 39]], n)
    <2>1. n \in 40..47 => screen_color[n - 39] \in 0..7
      BY ScreenColors
    <2>2. n \in 40..47 /\ Coloured(s) => /\ (s.bg \div 8) * 8 + screen_color[n - 39] \in 0..15
                                         /\ (s.bg \div 8) * 8 + screen_color[n - 39] >= 8 => s.bg >= 8
      BY <2>1, Shades DEF Coloured
    <2> QED
      BY <1>5, <2>2
  <1>12. n = 7 => Rendered(s, Reversed(s), n)
    BY ReversedStep
  <1> QED
    BY <1>1, <1>3, <1>8, <1>9, <1>10, <1>11, <1>12, Zenon DEF Rendition
----------------------------------------------------------------------------
\* Loops.

\* The states between the parameters of a command.
LEMMA RenditionsRun ==
  ASSUME NEW s, s.argc \in Nat
  PROVE  \E g : /\ Renditions(s) = g[s.argc] /\ g[0] = s
                /\ \A i \in 1..s.argc : g[i] = Rendition(g[i - 1], s.args[i - 1])
  <1>0. PICK n \in Nat : n = s.argc
    OBVIOUS
  <1> DEFINE S == {k \in 0..n : \E g : g = [i \in 0..k |-> IF i = 0 THEN s ELSE Rendition(g[i - 1], s.args[i - 1])]}
  <1>1. 0 \in S
    <2>1. PICK g : g = [i \in 0..0 |-> s]
      OBVIOUS
    <2>2. ASSUME NEW i \in 0..0
          PROVE  s = IF i = 0 THEN s ELSE Rendition(g[i - 1], s.args[i - 1])
      <3>1. i = 0
        OBVIOUS
      <3> QED
        BY <3>1, Zenon
    <2>3. g = [i \in 0..0 |-> IF i = 0 THEN s ELSE Rendition(g[i - 1], s.args[i - 1])]
      BY <2>1, <2>2, Zenon
    <2>4. 0 \in 0..n
      BY <1>0
    <2> QED
      BY <2>3, <2>4, Zenon
  <1>2. ASSUME NEW k \in 1..n, k - 1 \in S
        PROVE  k \in S
    <2>1. PICK g : g = [i \in 0..(k - 1) |-> IF i = 0 THEN s ELSE Rendition(g[i - 1], s.args[i - 1])]
      BY <1>2, Zenon
    <2>2. PICK v : v = Rendition(g[k - 1], s.args[k - 1])
      OBVIOUS
    <2>3. PICK h : h = [i \in 0..k |-> IF i = k THEN v ELSE g[i]]
      OBVIOUS
    <2>4. \A i \in 0..k : h[i] = IF i = k THEN v ELSE g[i]
      BY <2>3, Zenon
    <2>5. ASSUME NEW i \in 0..k
          PROVE  (IF i = k THEN v ELSE g[i]) = IF i = 0 THEN s ELSE Rendition(h[i - 1], s.args[i - 1])
      <3>1. CASE i = 0
        <4>1. i # k /\ i \in 0..(k - 1)
          BY <3>1
        <4>2. g[i] = s
          BY <2>1, <3>1, <4>1, Zenon
        <4> QED
          BY <3>1, <4>1, <4>2, Zenon
      <3>2. CASE i # 0
        <4>1. i - 1 \in 0..k /\ i - 1 # k /\ (i # k => i \in 0..(k - 1))
          BY <3>2
        <4>2. h[i - 1] = g[i - 1]
          BY <2>4, <4>1, Zenon
        <4>3. i # k => g[i] = Rendition(g[i - 1], s.args[i - 1])
          BY <2>1, <3>2, <4>1, Zenon
        <4> QED
          BY <2>2, <3>2, <4>2, <4>3, Zenon
      <3> QED
        BY <3>1, <3>2, Zenon
    <2>6. h = [i \in 0..k |-> IF i = 0 THEN s ELSE Rendition(h[i - 1], s.args[i - 1])]
      BY <2>3, <2>5, Zenon
    <2>7. k \in 0..n
      OBVIOUS
    <2> QED
      BY <2>6, <2>7, Zenon
  <1>3. n \in S
    <2> HIDE DEF S
    <2>1. n \in 0..n
      OBVIOUS
    <2> QED
      BY <1>1, <1>2, <2>1, TurnByTurn, Zenon
  <1>4. PICK g : g = [i \in 0..n |-> IF i = 0 THEN s ELSE Rendition(g[i - 1], s.args[i - 1])]
    BY <1>3, Zenon
  <1> DEFINE after == CHOOSE h : h = [i \in 0..n |-> IF i = 0 THEN s ELSE Rendition(h[i - 1], s.args[i - 1])]
  <1>5. after = [i \in 0..n |-> IF i = 0 THEN s ELSE Rendition(after[i - 1], s.args[i - 1])]
    BY <1>4, Zenon
  <1>6. Renditions(s) = after[n]
    BY <1>0, Zenon DEF Renditions
  <1> HIDE DEF after
  <1>7. 0 \in 0..n /\ \A i \in 1..n : i \in 0..n /\ i # 0
    BY <1>0
  <1>8. after[0] = s
    BY <1>5, <1>7, Zenon
  <1>9. ASSUME NEW i \in 1..n
        PROVE  after[i] = Rendition(after[i - 1], s.args[i - 1])
    BY <1>5, <1>7, Zenon
  <1> QED
    BY <1>0, <1>6, <1>8, <1>9, Zenon

\* The states between the blanks of a TAB.
LEMMA WriteTabRun ==
  ASSUME NEW s
  PROVE  \E g : /\ WriteTab(s) = g[8] /\ g[0] = s
                /\ \A i \in 1..8 : g[i] = BlankTo(g[i - 1], i)
  <1>0. PICK n \in Nat : n = 8
    OBVIOUS
  <1> DEFINE S == {k \in 0..n : \E g : g = [i \in 0..k |-> IF i = 0 THEN s ELSE BlankTo(g[i - 1], i)]}
  <1>1. 0 \in S
    <2>1. PICK g : g = [i \in 0..0 |-> s]
      OBVIOUS
    <2>2. ASSUME NEW i \in 0..0
          PROVE  s = IF i = 0 THEN s ELSE BlankTo(g[i - 1], i)
      <3>1. i = 0
        OBVIOUS
      <3> QED
        BY <3>1, Zenon
    <2>3. g = [i \in 0..0 |-> IF i = 0 THEN s ELSE BlankTo(g[i - 1], i)]
      BY <2>1, <2>2, Zenon
    <2>4. 0 \in 0..n
      BY <1>0
    <2> QED
      BY <2>3, <2>4, Zenon
  <1>2. ASSUME NEW k \in 1..n, k - 1 \in S
        PROVE  k \in S
    <2>1. PICK g : g = [i \in 0..(k - 1) |-> IF i = 0 THEN s ELSE BlankTo(g[i - 1], i)]
      BY <1>2, Zenon
    <2>2. PICK v : v = BlankTo(g[k - 1], k)
      OBVIOUS
    <2>3. PICK h : h = [i \in 0..k |-> IF i = k THEN v ELSE g[i]]
      OBVIOUS
    <2>4. \A i \in 0..k : h[i] = IF i = k THEN v ELSE g[i]
      BY <2>3, Zenon
    <2>5. ASSUME NEW i \in 0..k
          PROVE  (IF i = k THEN v ELSE g[i]) = IF i = 0 THEN s ELSE BlankTo(h[i - 1], i)
      <3>1. CASE i = 0
        <4>1. i # k /\ i \in 0..(k - 1)
          BY <3>1
        <4>2. g[i] = s
          BY <2>1, <3>1, <4>1, Zenon
        <4> QED
          BY <3>1, <4>1, <4>2, Zenon
      <3>2. CASE i # 0
        <4>1. i - 1 \in 0..k /\ i - 1 # k /\ (i # k => i \in 0..(k - 1))
          BY <3>2
        <4>2. h[i - 1] = g[i - 1]
          BY <2>4, <4>1, Zenon
        <4>3. i # k => g[i] = BlankTo(g[i - 1], i)
          BY <2>1, <3>2, <4>1, Zenon
        <4> QED
          BY <2>2, <3>2, <4>2, <4>3, Zenon
      <3> QED
        BY <3>1, <3>2, Zenon
    <2>6. h = [i \in 0..k |-> IF i = 0 THEN s ELSE BlankTo(h[i - 1], i)]
      BY <2>3, <2>5, Zenon
    <2>7. k \in 0..n
      OBVIOUS
    <2> QED
      BY <2>6, <2>7, Zenon
  <1>3. n \in S
    <2> HIDE DEF S
    <2>1. n \in 0..n
      OBVIOUS
    <2> QED
      BY <1>1, <1>2, <2>1, TurnByTurn, Zenon
  <1>4. PICK g : g = [i \in 0..n |-> IF i = 0 THEN s ELSE BlankTo(g[i - 1], i)]
    BY <1>3, Zenon
  <1> DEFINE after == CHOOSE h : h = [i \in 0..n |-> IF i = 0 THEN s ELSE BlankTo(h[i - 1], i)]
  <1>5. after = [i \in 0..n |-> IF i = 0 THEN s ELSE BlankTo(after[i - 1], i)]
    BY <1>4, Zenon
  <1>6. WriteTab(s) = after[n]
    BY <1>0, Zenon DEF WriteTab
  <1> HIDE DEF after
  <1>7. 0 \in 0..n /\ \A i \in 1..n : i \in 0..n /\ i # 0
    BY <1>0
  <1>8. after[0] = s
    BY <1>5, <1>7, Zenon
  <1>9. ASSUME NEW i \in 1..n
        PROVE  after[i] = BlankTo(after[i - 1], i)
    BY <1>5, <1>7, Zenon
  <1> QED
    BY <1>0, <1>6, <1>8, <1>9, Zenon

\* The states between the bytes of a write.
LEMMA WriteBytesRun ==
  ASSUME NEW s, NEW bytes, Len(bytes) \in Nat
  PROVE  \E g : /\ WriteBytes(s, bytes) = g[Len(bytes)] /\ g[0] = s
                /\ \A i \in 1..Len(bytes) : g[i] = WriteByte(g[i - 1], bytes[i])
  <1>0. PICK n \in Nat : n = Len(bytes)
    OBVIOUS
  <1> DEFINE S == {k \in 0..n : \E g : g = [i \in 0..k |-> IF i = 0 THEN s ELSE WriteByte(g[i - 1], bytes[i])]}
  <1>1. 0 \in S
    <2>1. PICK g : g = [i \in 0..0 |-> s]
      OBVIOUS
    <2>2. ASSUME NEW i \in 0..0
          PROVE  s = IF i = 0 THEN s ELSE WriteByte(g[i - 1], bytes[i])
      <3>1. i = 0
        OBVIOUS
      <3> QED
        BY <3>1, Zenon
    <2>3. g = [i \in 0..0 |-> IF i = 0 THEN s ELSE WriteByte(g[i - 1], bytes[i])]
      BY <2>1, <2>2, Zenon
    <2>4. 0 \in 0..n
      BY <1>0
    <2> QED
      BY <2>3, <2>4, Zenon
  <1>2. ASSUME NEW k \in 1..n, k - 1 \in S
        PROVE  k \in S
    <2>1. PICK g : g = [i \in 0..(k - 1) |-> IF i = 0 THEN s ELSE WriteByte(g[i - 1], bytes[i])]
      BY <1>2, Zenon
    <2>2. PICK v : v = WriteByte(g[k - 1], bytes[k])
      OBVIOUS
    <2>3. PICK h : h = [i \in 0..k |-> IF i = k THEN v ELSE g[i]]
      OBVIOUS
    <2>4. \A i \in 0..k : h[i] = IF i = k THEN v ELSE g[i]
      BY <2>3, Zenon
    <2>5. ASSUME NEW i \in 0..k
          PROVE  (IF i = k THEN v ELSE g[i]) = IF i = 0 THEN s ELSE WriteByte(h[i - 1], bytes[i])
      <3>1. CASE i = 0
        <4>1. i # k /\ i \in 0..(k - 1)
          BY <3>1
        <4>2. g[i] = s
          BY <2>1, <3>1, <4>1, Zenon
        <4> QED
          BY <3>1, <4>1, <4>2, Zenon
      <3>2. CASE i # 0
        <4>1. i - 1 \in 0..k /\ i - 1 # k /\ (i # k => i \in 0..(k - 1))
          BY <3>2
        <4>2. h[i - 1] = g[i - 1]
          BY <2>4, <4>1, Zenon
        <4>3. i # k => g[i] = WriteByte(g[i - 1], bytes[i])
          BY <2>1, <3>2, <4>1, Zenon
        <4> QED
          BY <2>2, <3>2, <4>2, <4>3, Zenon
      <3> QED
        BY <3>1, <3>2, Zenon
    <2>6. h = [i \in 0..k |-> IF i = 0 THEN s ELSE WriteByte(h[i - 1], bytes[i])]
      BY <2>3, <2>5, Zenon
    <2>7. k \in 0..n
      OBVIOUS
    <2> QED
      BY <2>6, <2>7, Zenon
  <1>3. n \in S
    <2> HIDE DEF S
    <2>1. n \in 0..n
      OBVIOUS
    <2> QED
      BY <1>1, <1>2, <2>1, TurnByTurn, Zenon
  <1>4. PICK g : g = [i \in 0..n |-> IF i = 0 THEN s ELSE WriteByte(g[i - 1], bytes[i])]
    BY <1>3, Zenon
  <1> DEFINE after == CHOOSE h : h = [i \in 0..n |-> IF i = 0 THEN s ELSE WriteByte(h[i - 1], bytes[i])]
  <1>5. after = [i \in 0..n |-> IF i = 0 THEN s ELSE WriteByte(after[i - 1], bytes[i])]
    BY <1>4, Zenon
  <1>6. WriteBytes(s, bytes) = after[n]
    BY <1>0, Zenon DEF WriteBytes
  <1> HIDE DEF after
  <1>7. 0 \in 0..n /\ \A i \in 1..n : i \in 0..n /\ i # 0
    BY <1>0
  <1>8. after[0] = s
    BY <1>5, <1>7, Zenon
  <1>9. ASSUME NEW i \in 1..n
        PROVE  after[i] = WriteByte(after[i - 1], bytes[i])
    BY <1>5, <1>7, Zenon
  <1> QED
    BY <1>0, <1>6, <1>8, <1>9, Zenon
----------------------------------------------------------------------------
\* Select Graphic Rendition.

\* Text and background differ.
Visible(s) == s.fg # IF s.blink = 1 THEN Dim(s.bg) ELSE s.bg
\* No parameter is 7.
Unreversed(s) == \A i \in 1..s.argc : s.args[i - 1] # 7

\* All the parameters of SGR, one after the other.
LEMMA RenditionsStep ==
  ASSUME NEW s, IsConsole(s), s.argc \in Nat, Noted(s)
  PROVE  /\ Kept(s, Renditions(s)) /\ Noted(Renditions(s))
         /\ Coloured(s) /\ Unreversed(s) => Coloured(Renditions(s))
  <1>1. PICK g : /\ Renditions(s) = g[s.argc] /\ g[0] = s
                 /\ \A i \in 1..s.argc : g[i] = Rendition(g[i - 1], s.args[i - 1])
    BY RenditionsRun, Zenon
  <1> DEFINE S == {i \in 0..s.argc : /\ Kept(s, g[i]) /\ Noted(g[i])
                                     /\ Coloured(s) /\ Unreversed(s) => Coloured(g[i])}
  <1>2. 0 \in S
    <2>1. 0 \in 0..s.argc /\ Kept(s, s)
      BY DEF Kept
    <2> QED
      BY <1>1, <2>1
  <1>3. ASSUME NEW i \in 1..s.argc, i - 1 \in S
        PROVE  i \in S
    <2>1. /\ Kept(s, g[i - 1]) /\ Noted(g[i - 1])
          /\ Coloured(s) /\ Unreversed(s) => Coloured(g[i - 1])
      BY <1>3
    <2>2. IsConsole(g[i - 1])
      BY <2>1 DEF Kept
    <2>3. Rendered(g[i - 1], g[i], s.args[i - 1])
      BY <1>1, <2>2, RenditionStep
    <2>4. Unreversed(s) => s.args[i - 1] # 7
      BY DEF Unreversed
    <2>5. i \in 0..s.argc
      OBVIOUS
    <2>6. Kept(s, g[i])
      BY <2>1, <2>3 DEF Kept, Rendered
    <2> QED
      BY <2>1, <2>3, <2>4, <2>5, <2>6 DEF Rendered
  <1>4. s.argc \in S
    <2> HIDE DEF S
    <2>1. s.argc \in 0..s.argc
      OBVIOUS
    <2> QED
      BY <1>2, <1>3, <2>1, TurnByTurn, Zenon
  <1> QED
    BY <1>1, <1>4

\* _not_invisible leaves the text visible on its ground.
LEMMA NotInvisibleStep ==
  ASSUME NEW s, IsConsole(s), Noted(s)
  PROVE  /\ Kept(s, NotInvisible(s)) /\ Noted(NotInvisible(s))
         /\ Coloured(s) => Coloured(NotInvisible(s)) /\ Visible(NotInvisible(s))
  <1>1. Kept(s, s)
    BY DEF Kept
  <1>2. PICK t : t = [s EXCEPT !.fg = Bright(@)]
    OBVIOUS
  <1>3. /\ Kept(s, t) /\ t.fg = Bright(s.fg) /\ t.bg = s.bg
        /\ t.blink = s.blink /\ t.cur_blink = s.cur_blink
    BY <1>2 DEF Kept, IsConsole, ConsoleFields
  <1>4. NotInvisible(s) = IF s.fg = Dim(s.bg) THEN t ELSE s
    BY <1>2, Zenon DEF NotInvisible
  <1>5. Coloured(s) => /\ Bright(s.fg) \in 8..15 /\ Dim(s.bg) \in 0..7
                       /\ s.bg < 8 => Dim(s.bg) = s.bg
    BY Shades DEF Coloured
  <1>6. CASE s.fg = Dim(s.bg)
    BY <1>3, <1>4, <1>5, <1>6 DEF Noted, Coloured, Visible
  <1>7. CASE s.fg # Dim(s.bg)
    BY <1>1, <1>4, <1>5, <1>7 DEF Noted, Coloured, Visible
  <1> QED
    BY <1>6, <1>7

\* SGR: whatever it is given, the blink state stays noted; if no
\* parameter reverses the colours, the text is visible.
LEMMA RenditionCommand ==
  ASSUME NEW s, IsConsole(s), s.argc \in Nat, Noted(s)
  PROVE  LET t == set_graphic_rendition(s) IN
         /\ Kept(s, t) /\ Noted(t)
         /\ Coloured(s) /\ Unreversed(s) => Coloured(t) /\ Visible(t)
  <1>1. CASE s.argc = 0
    <2>1. PICK t : t = [s EXCEPT !.fg = 7, !.bg = 0]
      OBVIOUS
    <2>2. Kept(s, t) /\ t.fg = 7 /\ t.bg = 0 /\ t.blink = s.blink /\ t.cur_blink = s.cur_blink
      BY <2>1 DEF Kept, IsConsole, ConsoleFields
    <2>3. Noted(t) /\ Coloured(t) /\ Visible(t)
      BY <2>2 DEF Noted, Coloured, Visible, Dim
    <2>4. set_graphic_rendition(s) = t
      BY <1>1, <2>1, Zenon DEF set_graphic_rendition
    <2> QED
      BY <2>2, <2>3, <2>4
  <1>2. CASE s.argc # 0
    <2>1. PICK r : r = Renditions(s)
      OBVIOUS
    <2>2. /\ Kept(s, r) /\ Noted(r)
          /\ Coloured(s) /\ Unreversed(s) => Coloured(r)
      BY <2>1, RenditionsStep
    <2>3. IsConsole(r)
      BY <2>2 DEF Kept
    <2>4. set_graphic_rendition(s) = NotInvisible(r)
      BY <1>2, <2>1, Zenon DEF set_graphic_rendition
    <2>5. /\ Kept(r, NotInvisible(r)) /\ Noted(NotInvisible(r))
          /\ Coloured(r) => Coloured(NotInvisible(r)) /\ Visible(NotInvisible(r))
      BY <2>2, <2>3, NotInvisibleStep
    <2> QED
      BY <2>2, <2>4, <2>5 DEF Kept
  <1> QED
    BY <1>1, <1>2

\* The colours stay fit to be read.
Legible(s) == Coloured(s) /\ Visible(s)

\* What a command does to the parser and to the colours.
CommandKeeps(s, t, b) ==
  /\ Kept(s, t) /\ Noted(t)
  /\ Legible(s) /\ (b = "m" => Unreversed(s)) => Legible(t)

\* A command that only shows something keeps all this.
LEMMA ShownKeeps ==
  ASSUME NEW s, NEW t, NEW b, Shown(s, t), Noted(s)
  PROVE  CommandKeeps(s, t, b)
  BY DEF Shown, Noted, CommandKeeps, Kept, Legible, Coloured, Visible

\* Every command of the console keeps it.
LEMMA CommandStep ==
  ASSUME NEW s, IsConsole(s), s.argc \in Nat, Noted(s), NEW b
  PROVE  CommandKeeps(s, execute_console_command(s, b), b)
  <1>1. CASE b # "m"
    BY <1>1, ShownCommand, ShownKeeps
  <1>2. CASE b = "m"
    <2>1. execute_console_command(s, b) = set_graphic_rendition(s)
      <3>1. ~ (b \in {"A", "k"}) /\ ~ (b \in {"B", "e"}) /\ ~ (b \in {"C", "a"})
            /\ ~ (b \in {"D", "j"}) /\ b # "E" /\ b # "F" /\ b # "G" /\ ~ (b \in {"H", "f"})
            /\ b # "d" /\ b # "I" /\ b # "Z" /\ b # "J" /\ b # "K" /\ b # "L" /\ b # "M"
            /\ b # "S" /\ b # "T" /\ b # "@" /\ b # "P" /\ b # "X" /\ b # "v"
        BY <1>2
      <3> QED
        BY <1>2, <3>1, Zenon DEF execute_console_command
    <2>2. PICK t : t = set_graphic_rendition(s)
      OBVIOUS
    <2>3. /\ Kept(s, t) /\ Noted(t)
          /\ Coloured(s) /\ Unreversed(s) => Coloured(t) /\ Visible(t)
      BY <2>2, RenditionCommand
    <2> QED
      BY <1>2, <2>1, <2>2, <2>3 DEF CommandKeeps, Legible
  <1> QED
    BY <1>1, <1>2
----------------------------------------------------------------------------
\* Plain characters.

\* A tab.
LEMMA ShownTab ==
  ASSUME NEW s, IsConsole(s)
  PROVE  Shown(s, WriteTab(s))
  <1>1. PICK g : /\ WriteTab(s) = g[8] /\ g[0] = s
                 /\ \A i \in 1..8 : g[i] = BlankTo(g[i - 1], i)
    BY WriteTabRun, Zenon
  <1> DEFINE S == {i \in 0..8 : Shown(s, g[i])}
  <1>2. 0 \in S
    BY <1>1, ShownSelf
  <1>3. ASSUME NEW i \in 1..8, i - 1 \in S
        PROVE  i \in S
    <2>1. Shown(s, g[i - 1]) /\ IsConsole(g[i - 1])
      BY <1>3 DEF Shown
    <2>2. Shown(g[i - 1], write_ch(g[i - 1], "sp"))
      BY <2>1, ShownCharacter
    <2>3. Shown(s, write_ch(g[i - 1], "sp"))
      BY <2>1, <2>2, ShownAfter
    <2>4. Shown(s, g[i])
      BY <1>1, <2>1, <2>3, Zenon DEF BlankTo
    <2>5. i \in 0..8
      OBVIOUS
    <2> QED
      BY <2>4, <2>5
  <1>4. 8 \in S
    <2> HIDE DEF S
    <2>1. 8 \in 0..8 /\ 8 \in Nat
      OBVIOUS
    <2> QED
      BY <1>2, <1>3, <2>1, TurnByTurn, Zenon
  <1> QED
    BY <1>1, <1>4

\* Any other byte outside a command.
LEMMA ShownPlain ==
  ASSUME NEW s, IsConsole(s), NEW b
  PROVE  Shown(s, WritePlain(s, b))
  <1>1. PICK t : t = IF b = "nl" /\ "ONLCR" \in oflag THEN write_ch(s, "cr") ELSE s
    OBVIOUS
  <1>2. Shown(s, t)
    BY <1>1, ShownCharacter, ShownSelf
  <1>3. IsConsole(t)
    BY <1>2 DEF Shown
  <1>4. PICK c : c = IF b = "cr" /\ "OCRNL" \in oflag THEN "nl" ELSE b
    OBVIOUS
  <1>5. Shown(t, write_ch(t, c))
    BY <1>3, ShownCharacter
  <1>6. WritePlain(s, b) = IF b = "tab" THEN WriteTab(s) ELSE write_ch(t, c)
    BY <1>1, <1>4, Zenon DEF WritePlain
  <1> QED
    BY <1>2, <1>5, <1>6, ShownAfter, ShownTab
----------------------------------------------------------------------------
\* Bytes.

\* The bytes that are told apart, and the digits among them.
Alphabet == {"x", "nl", "cr", "bs", "tab", "esc", "[", ";", "sp",
             "0", "1", "2", "3", "4", "5", "6", "7", "8", "9",
             "A", "B", "C", "D", "E", "F", "G", "H", "I", "J", "K", "L",
             "M", "P", "S", "T", "X", "Z", "@",
             "a", "d", "e", "f", "j", "k", "m", "v"}
DigitBytes == {"0", "1", "2", "3", "4", "5", "6", "7", "8", "9"}

\* The digits as a set.
LEMMA DigitRange ==
  Range(Digits) = DigitBytes
  <1>1. DOMAIN Digits = 1..10
    BY DEF Digits
  <1>2. \A i \in 1..10 : Digits[i] \in DigitBytes
    BY DEF Digits, DigitBytes
  <1>3. \A b \in DigitBytes : \E i \in 1..10 : b = Digits[i]
    <2>1. /\ Digits[1] = "0" /\ Digits[2] = "1" /\ Digits[3] = "2" /\ Digits[4] = "3"
          /\ Digits[5] = "4" /\ Digits[6] = "5" /\ Digits[7] = "6" /\ Digits[8] = "7"
          /\ Digits[9] = "8" /\ Digits[10] = "9"
      BY DEF Digits
    <2>2. 1 \in 1..10 /\ 2 \in 1..10 /\ 3 \in 1..10 /\ 4 \in 1..10 /\ 5 \in 1..10
          /\ 6 \in 1..10 /\ 7 \in 1..10 /\ 8 \in 1..10 /\ 9 \in 1..10 /\ 10 \in 1..10
      OBVIOUS
    <2> QED
      BY <2>1, <2>2, Zenon DEF DigitBytes
  <1> QED
    BY <1>1, <1>2, <1>3 DEF Range

\* A digit is read as the number it was written for.
LEMMA DigitValue ==
  ASSUME NEW n \in 0..9
  PROVE  Digits[n + 1] \in DigitBytes /\ Value(Digits[n + 1]) = n
  <1>1. \A i, j \in 1..10 : i < j => Digits[i] # Digits[j]
    BY DEF Digits
  <1>2. \A m \in 0..9 : Digits[n + 1] = Digits[m + 1] => m = n
    BY <1>1
  <1>3. Value(Digits[n + 1]) = n
    BY <1>2, Zenon DEF Value
  <1>4. Digits[n + 1] \in DigitBytes
    BY DEF Digits, DigitBytes
  <1> QED
    BY <1>3, <1>4

\* A digit is a byte, of a value up to 9, and begins nothing.
LEMMA DigitIs ==
  ASSUME NEW b \in DigitBytes
  PROVE  /\ b \in Range(Digits) /\ b \in Alphabet /\ Value(b) \in 0..9
         /\ b # "esc" /\ b # "[" /\ b # ";"
  <1>1. b \in Range(Digits)
    BY DigitRange
  <1>2. b \in Alphabet /\ b # "esc" /\ b # "[" /\ b # ";"
    BY DEF Alphabet, DigitBytes
  <1>3. PICK i \in 1..10 : b = Digits[i]
    <2>1. DOMAIN Digits = 1..10
      BY DEF Digits
    <2> QED
      BY <1>1, <2>1 DEF Range
  <1>4. i - 1 \in 0..9 /\ b = Digits[(i - 1) + 1]
    BY <1>3
  <1>5. Value(b) = i - 1
    BY <1>4, DigitValue, Zenon
  <1> QED
    BY <1>1, <1>2, <1>4, <1>5

\* The last byte of a command is not one of the others in it.
LEMMA CommandChar ==
  ASSUME NEW b, is_command_char(b)
  PROVE  b \in Alphabet /\ b \notin Range(Digits) /\ b # "esc" /\ b # "[" /\ b # ";"
  <1>1. b \in Alphabet /\ b \notin DigitBytes /\ b # "esc" /\ b # "[" /\ b # ";"
    BY DEF is_command_char, Alphabet, DigitBytes
  <1> QED
    BY <1>1, DigitRange

\* One element as a sequence.
LEMMA OneByte ==
  ASSUME NEW A, NEW x \in A
  PROVE  <<x>> \in Seq(A)
  OBVIOUS

\* An element before a sequence.
LEMMA Pushed ==
  ASSUME NEW A, NEW x \in A, NEW q \in Seq(A), NEW w, w = <<x>> \o q
  PROVE  w \in Seq(A) /\ w # <<>> /\ Head(w) = x /\ Tail(w) = q
  <1>1. <<x>> \in Seq(A) /\ Len(<<x>>) = 1 /\ <<x>>[1] = x
    OBVIOUS
  <1>2. /\ w \in Seq(A) /\ Len(w) = 1 + Len(q)
        /\ \A i \in 1..1 + Len(q) : w[i] = IF i <= 1 THEN <<x>>[i] ELSE q[i - 1]
    BY <1>1, ConcatProperties
  <1>3. w # <<>> /\ w[1] = x
    BY <1>1, <1>2
  <1>4. Len(Tail(w)) = Len(q) /\ Tail(w) \in Seq(A) /\ \A i \in 1..Len(q) : Tail(w)[i] = q[i]
    <2>1. /\ Tail(w) \in Seq(A) /\ Len(Tail(w)) = Len(w) - 1
          /\ \A i \in 1..Len(Tail(w)) : Tail(w)[i] = w[i + 1]
      BY <1>2, <1>3, HeadTailProperties
    <2> QED
      BY <1>2, <2>1
  <1>5. Tail(w) = q
    BY <1>4, SeqEqual
  <1> QED
    BY <1>2, <1>3, <1>5

\* The digits of a number below 100.
LEMMA TwoDigits ==
  ASSUME NEW n \in 0..99
  PROVE  \E q, r \in 0..9 : n = q * 10 + r /\ n \div 10 = q /\ n % 10 = r
  <1>1. PICK q \in Nat, r \in 0..9 : n = q * 10 + r /\ n \div 10 = q /\ n % 10 = r
    OBVIOUS
  <1>2. q \in 0..9
    BY <1>1
  <1> QED
    BY <1>1, <1>2, Zenon

\* A number below 100 is written in one digit or two.
LEMMA NumberBytes ==
  ASSUME NEW n \in 0..99
  PROVE  /\ Number(n) \in Seq(Alphabet)
         /\ n < 10 => Number(n) = <<Digits[n + 1]>>
         /\ n >= 10 => \E q, r \in 0..9 : /\ n = q * 10 + r
                                         /\ Number(n) = <<Digits[q + 1], Digits[r + 1]>>
  <1>1. PICK q, r \in 0..9 : n = q * 10 + r /\ n \div 10 = q /\ n % 10 = r
    BY TwoDigits, Zenon
  <1>2. \A m \in 0..9 : Digits[m + 1] \in Alphabet
    BY DigitValue, DigitIs
  <1>3. CASE n < 10
    <2>1. Number(n) = <<Digits[n + 1]>>
      BY <1>3, Zenon DEF Number
    <2>2. Digits[n + 1] \in Alphabet /\ ~ (n >= 10)
      BY <1>2, <1>3
    <2>3. <<Digits[n + 1]>> \in Seq(Alphabet)
      BY <2>2, OneByte
    <2> QED
      BY <2>1, <2>2, <2>3
  <1>4. CASE n >= 10
    <2>1. ~ (n < 10)
      BY <1>4
    <2>2. Number(n) = <<Digits[q + 1], Digits[r + 1]>>
      BY <1>1, <2>1, Zenon DEF Number
    <2>3. PICK d, e : d = Digits[q + 1] /\ e = Digits[r + 1]
      OBVIOUS
    <2>4. d \in Alphabet /\ e \in Alphabet
      BY <1>2, <2>3
    <2>5. <<d, e>> \in Seq(Alphabet)
      BY <2>4
    <2>6. Number(n) \in Seq(Alphabet)
      BY <2>2, <2>3, <2>5
    <2> QED
      BY <1>1, <2>1, <2>2, <2>6, Zenon
  <1> QED
    BY <1>3, <1>4

\* The next part of a command, before r.
Part(k, j, r) == (IF j = 0 THEN <<>> ELSE <<";">>) \o (Number(k.ps[j + 1]) \o r)

\* The bytes of a command, from its last one back.
LEMMA BytesFromRun ==
  ASSUME NEW k \in Commands
  PROVE  /\ BytesFrom(k)[Len(k.ps)] = <<k.cmd>>
         /\ \A j \in 0..(Len(k.ps) - 1) : BytesFrom(k)[j] = Part(k, j, BytesFrom(k)[j + 1])
         /\ \A j \in 0..Len(k.ps) : BytesFrom(k)[j] \in Seq(Alphabet)
  <1>0. PICK n \in Nat : n = Len(k.ps)
    BY CommandsAssumption
  <1> DEFINE S == {m \in 0..n : \E g : g = [j \in (n - m)..n |->
                                 IF j = n THEN <<k.cmd>> ELSE Part(k, j, g[j + 1])]}
  <1>1. 0 \in S
    <2>1. PICK g : g = [j \in (n - 0)..n |-> <<k.cmd>>]
      OBVIOUS
    <2>2. ASSUME NEW j \in (n - 0)..n
          PROVE  <<k.cmd>> = IF j = n THEN <<k.cmd>> ELSE Part(k, j, g[j + 1])
      <3>1. j = n
        BY <1>0
      <3> QED
        BY <3>1, Zenon
    <2>3. g = [j \in (n - 0)..n |-> IF j = n THEN <<k.cmd>> ELSE Part(k, j, g[j + 1])]
      BY <2>1, <2>2, Zenon
    <2>4. 0 \in 0..n
      BY <1>0
    <2> QED
      BY <2>3, <2>4, Zenon
  <1>2. ASSUME NEW m \in 1..n, m - 1 \in S
        PROVE  m \in S
    <2>1. PICK g : g = [j \in (n - (m - 1))..n |-> IF j = n THEN <<k.cmd>> ELSE Part(k, j, g[j + 1])]
      BY <1>2, Zenon
    <2>2. PICK v : v = Part(k, n - m, g[(n - m) + 1])
      OBVIOUS
    <2>3. PICK h : h = [j \in (n - m)..n |-> IF j = n - m THEN v ELSE g[j]]
      OBVIOUS
    <2>4. \A j \in (n - m)..n : h[j] = IF j = n - m THEN v ELSE g[j]
      BY <2>3, Zenon
    <2>5. ASSUME NEW j \in (n - m)..n
          PROVE  (IF j = n - m THEN v ELSE g[j]) = IF j = n THEN <<k.cmd>> ELSE Part(k, j, h[j + 1])
      <3>0. n - m # n
        BY <1>0
      <3>1. CASE j = n
        <4>1. j # n - m /\ j \in (n - (m - 1))..n
          BY <1>0, <3>1
        <4>2. g[j] = <<k.cmd>>
          BY <2>1, <3>1, <4>1, Zenon
        <4> QED
          BY <3>1, <4>1, <4>2, Zenon
      <3>2. CASE j # n
        <4>1. j + 1 \in (n - m)..n /\ j + 1 # n - m /\ (j # n - m => j \in (n - (m - 1))..n)
          BY <1>0, <3>2
        <4>2. h[j + 1] = g[j + 1]
          BY <2>4, <4>1, Zenon
        <4>3. j # n - m => g[j] = Part(k, j, g[j + 1])
          BY <2>1, <3>2, <4>1, Zenon
        <4> QED
          BY <2>2, <3>2, <4>2, <4>3, Zenon
      <3> QED
        BY <3>1, <3>2, Zenon
    <2>6. h = [j \in (n - m)..n |-> IF j = n THEN <<k.cmd>> ELSE Part(k, j, h[j + 1])]
      BY <2>3, <2>5, Zenon
    <2>7. m \in 0..n
      OBVIOUS
    <2> QED
      BY <2>6, <2>7, Zenon
  <1>3. n \in S
    <2> HIDE DEF S
    <2>1. n \in 0..n
      OBVIOUS
    <2> QED
      BY <1>1, <1>2, <2>1, TurnByTurn, Zenon
  <1>4. PICK g : g = [j \in 0..n |-> IF j = n THEN <<k.cmd>> ELSE Part(k, j, g[j + 1])]
    <2>1. n - n = 0
      OBVIOUS
    <2> QED
      BY <1>3, <2>1, Zenon
  <1> DEFINE from == CHOOSE h : h = [j \in 0..n |-> IF j = n THEN <<k.cmd>> ELSE Part(k, j, h[j + 1])]
  <1>5. from = [j \in 0..n |-> IF j = n THEN <<k.cmd>> ELSE Part(k, j, from[j + 1])]
    BY <1>4, Zenon
  <1>6. BytesFrom(k) = from
    BY <1>0, Zenon DEF BytesFrom, Part
  <1> HIDE DEF from
  <1>7. n \in 0..n /\ \A j \in 0..(n - 1) : j \in 0..n /\ j # n
    BY <1>0
  <1>8. from[n] = <<k.cmd>>
    BY <1>5, <1>7, Zenon
  <1>9. ASSUME NEW j \in 0..(n - 1)
        PROVE  from[j] = Part(k, j, from[j + 1])
    BY <1>5, <1>7, Zenon
  <1> DEFINE T == {m \in 0..n : from[n - m] \in Seq(Alphabet)}
  <1>10. 0 \in T
    <2>1. k.cmd \in Alphabet
      BY CommandsAssumption, CommandChar, Zenon
    <2>2. <<k.cmd>> \in Seq(Alphabet) /\ 0 \in 0..n /\ n - 0 = n
      BY <2>1
    <2> QED
      BY <1>8, <2>2
  <1>11. ASSUME NEW m \in 1..n, m - 1 \in T
         PROVE  m \in T
    <2>0. n - m \in 0..(n - 1)
      BY <1>0
    <2>1. PICK j \in 0..(n - 1) : j = n - m
      BY <2>0
    <2>2. from[j + 1] \in Seq(Alphabet)
      BY <1>0, <1>11, <2>1
    <2>3. k.ps[j + 1] \in 0..99
      <3>1. k.ps \in Seq(0..99) /\ j + 1 \in 1..Len(k.ps)
        BY <1>0, CommandsAssumption
      <3> QED
        BY <3>1, ElementOfSeq, Zenon
    <2>4. Number(k.ps[j + 1]) \o from[j + 1] \in Seq(Alphabet)
      BY <2>2, <2>3, NumberBytes, ConcatProperties
    <2>5. (IF j = 0 THEN <<>> ELSE <<";">>) \in Seq(Alphabet)
      <3>1. ";" \in Alphabet
        BY DEF Alphabet
      <3>2. <<";">> \in Seq(Alphabet) /\ <<>> \in Seq(Alphabet)
        BY <3>1, OneByte, EmptySeq, Zenon
      <3> QED
        BY <3>2
    <2>6. Part(k, j, from[j + 1]) \in Seq(Alphabet)
      BY <2>4, <2>5, ConcatProperties, Zenon DEF Part
    <2>7. from[n - m] \in Seq(Alphabet) /\ m \in 0..n
      BY <1>9, <2>1, <2>6
    <2> QED
      BY <2>7
  <1>12. ASSUME NEW j \in 0..n
         PROVE  from[j] \in Seq(Alphabet)
    <2>1. n - j \in 0..n /\ n - (n - j) = j
      BY <1>0
    <2>2. n - j \in T
      <3> HIDE DEF T
      <3> QED
        BY <1>10, <1>11, <2>1, TurnByTurn, Zenon
    <2> QED
      BY <2>1, <2>2
  <1> QED
    BY <1>0, <1>6, <1>8, <1>9, <1>12, Zenon
----------------------------------------------------------------------------
\* The parser, byte by byte.

\* Only the parser differs.
Toned(s, t) ==
  /\ IsConsole(t)
  /\ t.fg = s.fg /\ t.bg = s.bg /\ t.blink = s.blink /\ t.cur_blink = s.cur_blink

\* A console as it is between two bytes of the program's output.
Sound(s) ==
  /\ IsConsole(s) /\ s.argc \in Nat /\ s.args \in [0 .. NPAR - 1 -> Nat] /\ Noted(s)
  /\ "reverse" \notin Uses => Legible(s)

\* A byte in a command that leaves the colours keeps the console sound.
LEMMA TonedSound ==
  ASSUME NEW s, NEW t, Sound(s), Toned(s, t), t.argc \in Nat, t.args \in [0 .. NPAR - 1 -> Nat]
  PROVE  Sound(t)
  BY DEF Sound, Toned, Noted, Legible, Coloured, Visible

\* And so does what only shows something.
LEMMA ShownSound ==
  ASSUME NEW s, NEW t, Sound(s), Shown(s, t)
  PROVE  Sound(t)
  BY DEF Sound, Shown, Noted, Legible, Coloured, Visible

\* Where the loop over the buffer takes a byte.
LEMMA WriteByteArms ==
  ASSUME NEW s, NEW b
  PROVE  /\ b = "esc" /\ s.state = "need_esc" =>
              WriteByte(s, b) = parse_console_command(set_cursor(s, s.col, s.row), b)
         /\ b # "esc" /\ (s.state \in {"have_lbracket", "have_arg"} \/ (s.state = "have_esc" /\ b = "[")) =>
              WriteByte(s, b) = parse_console_command(s, b)
         /\ b # "esc" /\ s.state = "need_esc" => WriteByte(s, b) = WritePlain(s, b)
  <1>1. /\ s.state = "need_esc" => s.state # "have_esc"
        /\ s.state \in {"have_lbracket", "have_arg"} => s.state # "have_esc" /\ s.state # "need_esc"
        /\ s.state = "have_esc" => s.state # "need_esc"
    OBVIOUS
  <1> QED
    BY <1>1, Zenon DEF WriteByte

\* The arms of parse_console_command, one for each state and byte.
LEMMA ParserArms ==
  ASSUME NEW s, NEW b
  PROVE  LET u == [s EXCEPT !.argc = 0, !.args[0] = 0] IN
         /\ s.state = "need_esc" => parse_console_command(s, b) = [s EXCEPT !.state = "have_esc"]
         /\ s.state = "have_esc" => parse_console_command(s, b) = [s EXCEPT !.state = "have_lbracket"]
         /\ s.state = "have_lbracket" /\ b = "[" => parse_console_command(s, b) = [u EXCEPT !.ign = TRUE]
         /\ s.state = "have_lbracket" /\ b \in Range(Digits) =>
              parse_console_command(s, b)
              = [u EXCEPT !.state = "have_arg", !.args[u.argc] = @ * 10 + Value(b)]
         /\ s.state = "have_arg" /\ b \in Range(Digits) =>
              parse_console_command(s, b)
              = [s EXCEPT !.state = "have_arg", !.args[s.argc] = @ * 10 + Value(b)]
         /\ s.state = "have_arg" /\ b = ";" =>
              parse_console_command(s, b)
              = [s EXCEPT !.argc = @ + 1,
                          !.args = IF s.argc + 1 < NPAR THEN [@ EXCEPT ![s.argc + 1] = 0] ELSE @]
         /\ s.state = "have_lbracket" /\ b # "[" /\ b \notin Range(Digits) =>
              parse_console_command(s, b) = parse_cmd(u, b)
         /\ s.state = "have_arg" /\ b # ";" /\ b \notin Range(Digits) =>
              parse_console_command(s, b) = parse_cmd([s EXCEPT !.argc = @ + 1], b)
  <1> DEFINE u == [s EXCEPT !.argc = 0, !.args[0] = 0]
  <1>1. \A x \in {"need_esc", "have_esc", "have_lbracket", "have_arg"} :
          /\ x = "need_esc" => x # "have_esc" /\ x # "have_lbracket" /\ x # "have_arg"
          /\ x = "have_esc" => x # "need_esc" /\ x # "have_lbracket" /\ x # "have_arg"
          /\ x = "have_lbracket" => x # "have_esc" /\ x # "need_esc" /\ x # "have_arg"
          /\ x = "have_arg" => x # "have_esc" /\ x # "have_lbracket" /\ x # "need_esc"
    OBVIOUS
  <1>2. "[" \notin Range(Digits) /\ ";" \notin Range(Digits)
    BY DigitRange DEF DigitBytes
  <1>3. PICK p : p = parse_console_command(s, b)
    OBVIOUS
  <1>4. ASSUME s.state = "need_esc"
        PROVE  p = [s EXCEPT !.state = "have_esc"]
    <2>1. s.state # "have_esc" /\ s.state # "have_lbracket" /\ s.state # "have_arg"
          /\ ~ (s.state \in {"have_lbracket", "have_arg"})
      BY <1>4
    <2> QED
      BY <1>3, <1>4, <2>1, Zenon DEF parse_console_command
  <1>5. ASSUME s.state = "have_esc"
        PROVE  p = [s EXCEPT !.state = "have_lbracket"]
    <2>1. s.state # "need_esc" /\ s.state # "have_lbracket" /\ s.state # "have_arg"
          /\ ~ (s.state \in {"have_lbracket", "have_arg"})
      BY <1>5
    <2> QED
      BY <1>3, <1>5, <2>1, Zenon DEF parse_console_command
  <1>6. ASSUME s.state = "have_lbracket"
        PROVE  /\ b = "[" => p = [u EXCEPT !.ign = TRUE]
               /\ b \in Range(Digits) => p = [u EXCEPT !.state = "have_arg", !.args[u.argc] = @ * 10 + Value(b)]
               /\ b # "[" /\ b \notin Range(Digits) => p = parse_cmd(u, b)
    <2>1. s.state # "need_esc" /\ s.state # "have_esc" /\ s.state # "have_arg"
      BY <1>6
    <2> QED
      BY <1>2, <1>3, <1>6, <2>1, Zenon DEF parse_console_command
  <1>7. ASSUME s.state = "have_arg"
        PROVE  /\ b \in Range(Digits) => p = [s EXCEPT !.state = "have_arg", !.args[s.argc] = @ * 10 + Value(b)]
               /\ b = ";" => p = [s EXCEPT !.argc = @ + 1,
                          !.args = IF s.argc + 1 < NPAR THEN [@ EXCEPT ![s.argc + 1] = 0] ELSE @]
               /\ b # ";" /\ b \notin Range(Digits) => p = parse_cmd([s EXCEPT !.argc = @ + 1], b)
    <2>1. s.state # "need_esc" /\ s.state # "have_esc" /\ s.state # "have_lbracket"
      BY <1>7
    <2> QED
      BY <1>2, <1>3, <1>7, <2>1, Zenon DEF parse_console_command
  <1> QED
    BY <1>3, <1>4, <1>5, <1>6, <1>7, Zenon
----------------------------------------------------------------------------
\* What a byte does.

\* The byte that begins a command.
LEMMA OnEscape ==
  ASSUME NEW s, IsConsole(s), s.state = "need_esc", NEW t, t = WriteByte(s, "esc")
  PROVE  /\ Toned(s, t) /\ t.state = "have_esc"
         /\ t.args = s.args /\ t.argc = s.argc /\ t.ign = s.ign
  <1>1. PICK u : u = set_cursor(s, s.col, s.row)
    OBVIOUS
  <1>2. Shown(s, u)
    BY <1>1, ShownCursor
  <1>3. t = parse_console_command(u, "esc")
    BY <1>1, WriteByteArms
  <1>4. u.state = "need_esc" /\ IsConsole(u)
    BY <1>2 DEF Shown
  <1>5. t = [u EXCEPT !.state = "have_esc"]
    BY <1>3, <1>4, ParserArms, Zenon
  <1>6. /\ IsConsole(t) /\ t.state = "have_esc" /\ t.args = u.args /\ t.argc = u.argc /\ t.ign = u.ign
        /\ t.fg = u.fg /\ t.bg = u.bg /\ t.blink = u.blink /\ t.cur_blink = u.cur_blink
    BY <1>4, <1>5 DEF IsConsole, ConsoleFields
  <1> QED
    BY <1>2, <1>6 DEF Shown, Toned

\* The bracket after it.
LEMMA OnBracket ==
  ASSUME NEW s, IsConsole(s), s.state = "have_esc", NEW t, t = WriteByte(s, "[")
  PROVE  /\ Toned(s, t) /\ t.state = "have_lbracket"
         /\ t.args = s.args /\ t.argc = s.argc /\ t.ign = s.ign
  <1>1. t = parse_console_command(s, "[")
    <2>1. "[" # "esc"
      OBVIOUS
    <2> QED
      BY <2>1, WriteByteArms, Zenon
  <1>2. t = [s EXCEPT !.state = "have_lbracket"]
    BY <1>1, ParserArms, Zenon
  <1> QED
    BY <1>2 DEF IsConsole, ConsoleFields, Toned

\* No argument yet.
Cleared(s, t) ==
  /\ Toned(s, t) /\ t.state = "have_lbracket" /\ t.argc = 0
  /\ t.args = [s.args EXCEPT ![0] = 0] /\ t.ign = s.ign

\* Clearing the parameters, field by field.
LEMMA ClearedIs ==
  ASSUME NEW s, IsConsole(s), s.state = "have_lbracket",
         NEW t, t = [s EXCEPT !.argc = 0, !.args[0] = 0]
  PROVE  Cleared(s, t)
  BY DEF IsConsole, ConsoleFields, Toned, Cleared

\* A second bracket: the command is to be ignored.
LEMMA OnSecondBracket ==
  ASSUME NEW s, IsConsole(s), s.state = "have_lbracket", NEW t, t = WriteByte(s, "[")
  PROVE  /\ Toned(s, t) /\ t.state = "have_lbracket" /\ t.argc = 0
         /\ t.args = [s.args EXCEPT ![0] = 0] /\ t.ign = TRUE
  <1>1. t = parse_console_command(s, "[")
    <2>1. "[" # "esc" /\ s.state \in {"have_lbracket", "have_arg"}
      OBVIOUS
    <2> QED
      BY <2>1, WriteByteArms, Zenon
  <1>2. PICK u : u = [s EXCEPT !.argc = 0, !.args[0] = 0]
    OBVIOUS
  <1>3. t = [u EXCEPT !.ign = TRUE]
    BY <1>1, <1>2, ParserArms, Zenon
  <1>4. Cleared(s, u)
    BY <1>2, ClearedIs
  <1>5. IsConsole(u)
    BY <1>4 DEF Cleared, Toned
  <1>6. /\ IsConsole(t) /\ t.state = u.state /\ t.args = u.args /\ t.argc = u.argc /\ t.ign = TRUE
        /\ t.fg = u.fg /\ t.bg = u.bg /\ t.blink = u.blink /\ t.cur_blink = u.cur_blink
    BY <1>3, <1>5 DEF IsConsole, ConsoleFields
  <1> QED
    BY <1>4, <1>6 DEF Cleared, Toned

\* The argument at hand takes one more digit.
Digited(u, t, a, d) ==
  /\ Toned(u, t) /\ t.state = "have_arg" /\ t.argc = u.argc /\ t.ign = u.ign
  /\ t.args = [u.args EXCEPT ![u.argc] = a * 10 + d]

\* A digit taken into a parameter, field by field.
LEMMA DigitedIs ==
  ASSUME NEW u, IsConsole(u), NEW d,
         NEW t, t = [u EXCEPT !.state = "have_arg", !.args[u.argc] = @ * 10 + d]
  PROVE  Digited(u, t, u.args[u.argc], d)
  BY DEF IsConsole, ConsoleFields, Toned, Digited

\* The first digit of a command.
LEMMA OnFirstDigit ==
  ASSUME NEW s, IsConsole(s), s.state = "have_lbracket", s.args \in [0 .. NPAR - 1 -> Nat],
         NEW b \in DigitBytes, NEW t, t = WriteByte(s, b)
  PROVE  /\ Toned(s, t) /\ t.state = "have_arg" /\ t.argc = 0 /\ t.ign = s.ign
         /\ t.args = [s.args EXCEPT ![0] = Value(b)]
  <1>2. b \in Range(Digits) /\ b # "esc" /\ Value(b) \in 0..9
    BY DigitIs
  <1>3. t = parse_console_command(s, b)
    <2>1. s.state \in {"have_lbracket", "have_arg"}
      OBVIOUS
    <2> QED
      BY <1>2, <2>1, WriteByteArms, Zenon
  <1> DEFINE u == [s EXCEPT !.argc = 0, !.args[0] = 0]
  <1>5. t = [u EXCEPT !.state = "have_arg", !.args[u.argc] = @ * 10 + Value(b)]
    BY <1>2, <1>3, ParserArms, Zenon
  <1>6. Cleared(s, u)
    BY ClearedIs
  <1> HIDE DEF u
  <1>7. IsConsole(u) /\ u.argc = 0 /\ u.args = [s.args EXCEPT ![0] = 0]
    BY <1>6 DEF Cleared, Toned
  <1>8. Digited(u, t, u.args[u.argc], Value(b))
    BY <1>2, <1>5, <1>7, DigitedIs, Zenon
  <1>9. 0 \in 0 .. NPAR - 1
    BY DEF NPAR
  <1>10. u.args[u.argc] = 0
    BY <1>7, <1>9
  <1>11. t.args = [s.args EXCEPT ![0] = Value(b)]
    <2>1. 0 * 10 + Value(b) = Value(b)
      BY <1>2
    <2>2. t.args = [u.args EXCEPT ![0] = Value(b)]
      BY <1>7, <1>8, <1>10, <2>1, Zenon DEF Digited
    <2> QED
      BY <1>7, <2>2
  <1> QED
    BY <1>6, <1>8, <1>11 DEF Digited, Cleared, Toned

\* A digit after others.
LEMMA OnDigit ==
  ASSUME NEW s, IsConsole(s), s.state = "have_arg",
         NEW b \in DigitBytes, NEW t, t = WriteByte(s, b)
  PROVE  /\ Toned(s, t) /\ t.state = "have_arg" /\ t.argc = s.argc /\ t.ign = s.ign
         /\ t.args = [s.args EXCEPT ![s.argc] = s.args[s.argc] * 10 + Value(b)]
  <1>2. b \in Range(Digits) /\ b # "esc" /\ Value(b) \in 0..9
    BY DigitIs
  <1>3. t = parse_console_command(s, b)
    <2>1. s.state \in {"have_lbracket", "have_arg"}
      OBVIOUS
    <2> QED
      BY <1>2, <2>1, WriteByteArms, Zenon
  <1>4. t = [s EXCEPT !.state = "have_arg", !.args[s.argc] = @ * 10 + Value(b)]
    BY <1>2, <1>3, ParserArms, Zenon
  <1>5. Digited(s, t, s.args[s.argc], Value(b))
    BY <1>2, <1>4, DigitedIs, Zenon
  <1> QED
    BY <1>5 DEF Digited

\* A semicolon, where one more parameter fits.
LEMMA OnSeparator ==
  ASSUME NEW s, IsConsole(s), s.state = "have_arg", s.argc + 1 < NPAR, NEW t, t = WriteByte(s, ";")
  PROVE  /\ Toned(s, t) /\ t.state = "have_arg" /\ t.argc = s.argc + 1 /\ t.ign = s.ign
         /\ t.args = [s.args EXCEPT ![s.argc + 1] = 0]
  <1>1. t = parse_console_command(s, ";")
    <2>1. ";" # "esc" /\ s.state \in {"have_lbracket", "have_arg"}
      OBVIOUS
    <2> QED
      BY <2>1, WriteByteArms, Zenon
  <1>2. t = [s EXCEPT !.argc = @ + 1,
                      !.args = IF s.argc + 1 < NPAR THEN [@ EXCEPT ![s.argc + 1] = 0] ELSE @]
    BY <1>1, ParserArms, Zenon
  <1>3. t = [s EXCEPT !.argc = s.argc + 1, !.args = [s.args EXCEPT ![s.argc + 1] = 0]]
    BY <1>2, Zenon
  <1> QED
    BY <1>3 DEF IsConsole, ConsoleFields, Toned

\* The parser is at rest again.
Executed(u, t, b) ==
  /\ IsConsole(t) /\ t.state = "need_esc" /\ t.ign = FALSE
  /\ t.argc = u.argc /\ t.args = u.args /\ Noted(t)
  /\ Legible(u) /\ (b = "m" /\ ~ u.ign => Unreversed(u)) => Legible(t)

\* The last byte: the parser rests, and the command has been executed
\* unless it was to be ignored.
LEMMA ParseCommand ==
  ASSUME NEW u, IsConsole(u), u.argc \in Nat, Noted(u), NEW b
  PROVE  Executed(u, parse_cmd(u, b), b)
  <1>1. PICK v : v = IF is_command_char(b) /\ ~ u.ign THEN execute_console_command(u, b) ELSE u
    OBVIOUS
  <1>2. CommandKeeps(u, execute_console_command(u, b), b)
    BY CommandStep
  <1>3. Kept(u, v) /\ Noted(v) /\ (Legible(u) /\ (b = "m" /\ ~ u.ign => Unreversed(u)) => Legible(v))
    <2>1. CASE is_command_char(b) /\ ~ u.ign
      BY <1>1, <1>2, <2>1 DEF CommandKeeps
    <2>2. CASE ~ (is_command_char(b) /\ ~ u.ign)
      <3>1. v = u
        BY <1>1, <2>2, Zenon
      <3> QED
        BY <3>1 DEF Kept
    <2> QED
      BY <2>1, <2>2
  <1>4. PICK t : t = [v EXCEPT !.state = "need_esc", !.ign = FALSE]
    OBVIOUS
  <1>5. parse_cmd(u, b) = t
    BY <1>1, <1>4, Zenon DEF parse_cmd
  <1>6. IsConsole(v)
    BY <1>3 DEF Kept
  <1>7. /\ IsConsole(t) /\ t.state = "need_esc" /\ t.ign = FALSE /\ t.argc = v.argc /\ t.args = v.args
        /\ t.fg = v.fg /\ t.bg = v.bg /\ t.blink = v.blink /\ t.cur_blink = v.cur_blink
    BY <1>4, <1>6 DEF IsConsole, ConsoleFields
  <1>8. Noted(t) /\ (Legible(v) => Legible(t))
    BY <1>3, <1>7 DEF Noted, Legible, Coloured, Visible
  <1> QED
    BY <1>3, <1>5, <1>7, <1>8 DEF Executed, Kept

\* A command without arguments.
LEMMA OnBareCommand ==
  ASSUME NEW s, Sound(s), s.state = "have_lbracket",
         NEW b, b # "esc", b # "[", b \notin Range(Digits), NEW t, t = WriteByte(s, b)
  PROVE  Sound(t) /\ t.state = "need_esc" /\ t.ign = FALSE
  <1>1. t = parse_console_command(s, b)
    <2>1. s.state \in {"have_lbracket", "have_arg"}
      OBVIOUS
    <2> QED
      BY <2>1, WriteByteArms, Zenon
  <1>2. PICK u : u = [s EXCEPT !.argc = 0, !.args[0] = 0]
    OBVIOUS
  <1>3. t = parse_cmd(u, b)
    BY <1>1, <1>2, ParserArms, Zenon
  <1>4. Cleared(s, u)
    BY <1>2, ClearedIs DEF Sound
  <1>5. u.args \in [0 .. NPAR - 1 -> Nat] /\ u.argc = 0 /\ u.argc \in Nat
    BY <1>4 DEF Cleared, Sound, NPAR
  <1>6. Sound(u)
    BY <1>4, <1>5, TonedSound DEF Cleared
  <1>7. Executed(u, t, b)
    BY <1>3, <1>6, ParseCommand DEF Sound
  <1>8. Unreversed(u)
    BY <1>5 DEF Unreversed
  <1> QED
    BY <1>5, <1>6, <1>7, <1>8 DEF Executed, Sound

\* Counting.
LEMMA OneMore ==
  \A n \in Nat : n + 1 \in Nat
  OBVIOUS

\* No argument is 7 when the last one ends.
UnreversedAtEnd(s) == \A i \in 1..(s.argc + 1) : s.args[i - 1] # 7

\* A command whose last argument ends.
LEMMA OnCommand ==
  ASSUME NEW s, Sound(s), s.state = "have_arg",
         NEW b, b # "esc", b # ";", b \notin Range(Digits), NEW t, t = WriteByte(s, b),
         "reverse" \notin Uses /\ b = "m" => UnreversedAtEnd(s)
  PROVE  Sound(t) /\ t.state = "need_esc" /\ t.ign = FALSE
  <1>1. t = parse_console_command(s, b)
    <2>1. s.state \in {"have_lbracket", "have_arg"}
      OBVIOUS
    <2> QED
      BY <2>1, WriteByteArms, Zenon
  <1>2. PICK u : u = [s EXCEPT !.argc = @ + 1]
    OBVIOUS
  <1>3. t = parse_cmd(u, b)
    BY <1>1, <1>2, ParserArms, Zenon
  <1>4. Toned(s, u) /\ u.argc = s.argc + 1 /\ u.args = s.args
    BY <1>2 DEF Sound, Toned, IsConsole, ConsoleFields
  <1>5. Sound(u)
    <2>1. s.argc \in Nat /\ s.args \in [0 .. NPAR - 1 -> Nat]
      BY DEF Sound
    <2>2. u.argc \in Nat
      BY <1>4, <2>1, OneMore, Zenon
    <2>3. u.args \in [0 .. NPAR - 1 -> Nat]
      BY <1>4, <2>1
    <2> QED
      BY <1>4, <2>2, <2>3, TonedSound
  <1>6. Executed(u, t, b)
    BY <1>3, <1>5, ParseCommand DEF Sound
  <1>7. "reverse" \notin Uses /\ b = "m" => Unreversed(u)
    BY <1>4 DEF Unreversed, UnreversedAtEnd
  <1> QED
    BY <1>5, <1>6, <1>7 DEF Executed, Sound
----------------------------------------------------------------------------
\* A command on its way: the parser and the bytes to come.

\* The argument at hand is v, and the bytes to come start in it.
InNumber(k, j, v, w) ==
  \/ v = k.ps[j] /\ w = BytesFrom(k)[j]
  \/ \E c \in DigitBytes : k.ps[j] = v * 10 + Value(c) /\ w = <<c>> \o BytesFrom(k)[j]
  \/ v = 0 /\ w = Number(k.ps[j]) \o BytesFrom(k)[j]
\* The first n parameters are those of k.
Given(k, s, n) == \A i \in 1..n : s.args[i - 1] = k.ps[i]
\* Among the parameters of k.
Within(k, s, w) ==
  /\ s.state = "have_arg"
  /\ \E j \in 1..Len(k.ps) : s.argc = j - 1 /\ Given(k, s, j - 1) /\ InNumber(k, j, s.args[j - 1], w)
\* On the way through k: what the parser holds and what is to come make up k.
Follows(k, s, w) ==
  /\ Sound(s) /\ s.ign = FALSE /\ w \in Seq(Alphabet)
  /\ \/ s.state = "have_esc" /\ w = <<"[">> \o BytesFrom(k)[0]
     \/ s.state = "have_lbracket" /\ w = BytesFrom(k)[0]
     \/ Within(k, s, w)
     \/ s.state = "need_esc" /\ w = <<>>

\* The commands that are sent.
Sent == {k \in Commands : "reverse" \notin Uses => ~ (k.cmd = "m" /\ Contains(k.ps, 7))}

\* What the assumption on Commands says of each one.
LEMMA CommandKnown ==
  ASSUME NEW k \in Commands
  PROVE  /\ k.ps \in Seq(0..99) /\ Len(k.ps) \in 0..NPAR /\ Len(k.ps) \in Nat
         /\ \A j \in 1..Len(k.ps) : k.ps[j] \in 0..99
         /\ k.cmd \in Alphabet /\ k.cmd \notin Range(Digits)
         /\ k.cmd # "esc" /\ k.cmd # "[" /\ k.cmd # ";"
  <1>1. k.ps \in Seq(0..99) /\ Len(k.ps) <= NPAR /\ is_command_char(k.cmd)
    BY CommandsAssumption
  <1>2. Len(k.ps) \in 0..NPAR /\ Len(k.ps) \in Nat
    <2>1. Len(k.ps) \in Nat
      BY <1>1, LenProperties, Zenon
    <2>2. PICK n \in Nat : n = Len(k.ps)
      BY <2>1, Zenon
    <2>3. n <= 16
      BY <1>1, <2>2, Zenon DEF NPAR
    <2>4. n \in 0..16
      BY <2>3
    <2>5. n \in 0..NPAR
      BY <2>4, Zenon DEF NPAR
    <2> QED
      BY <2>1, <2>2, <2>5, Zenon
  <1>3. \A j \in 1..Len(k.ps) : k.ps[j] \in 0..99
    BY <1>1, ElementOfSeq, Zenon
  <1> QED
    BY <1>1, <1>2, <1>3, CommandChar

\* Two sequences of one byte.
LEMMA TwoBytes ==
  ASSUME NEW A, NEW x \in A, NEW y \in A
  PROVE  <<x>> \o <<y>> = <<x, y>>
  <1>1. <<x>> \in Seq(A) /\ <<y>> \in Seq(A) /\ <<x, y>> \in Seq(A)
    OBVIOUS
  <1>2. Len(<<x>>) = 1 /\ Len(<<y>>) = 1 /\ Len(<<x, y>>) = 2
    OBVIOUS
  <1>3. <<x>>[1] = x /\ <<y>>[1] = y /\ <<x, y>>[1] = x /\ <<x, y>>[2] = y
    OBVIOUS
  <1>4. PICK c : c = <<x>> \o <<y>>
    OBVIOUS
  <1>5. c \in Seq(A) /\ Len(c) = 2 /\ \A i \in 1..2 : c[i] = IF i <= 1 THEN <<x>>[i] ELSE <<y>>[i - 1]
    BY <1>1, <1>2, <1>4, ConcatProperties
  <1>6. \A i \in 1..2 : c[i] = <<x, y>>[i]
    BY <1>3, <1>5
  <1> QED
    BY <1>1, <1>2, <1>4, <1>5, <1>6, SeqEqual

\* The bytes of a number n, followed by q: a digit, and perhaps another.
Spells(n, q, w) ==
  \E b \in DigitBytes :
    /\ w # <<>> /\ Head(w) = b /\ Tail(w) \in Seq(Alphabet)
    /\ \/ Value(b) = n /\ Tail(w) = q
       \/ \E c \in DigitBytes : n = Value(b) * 10 + Value(c) /\ Tail(w) = <<c>> \o q

\* Bytes put together from either end.
LEMMA BytesAssociative ==
  ASSUME NEW x \in Seq(Alphabet), NEW y \in Seq(Alphabet), NEW z \in Seq(Alphabet)
  PROVE  (x \o y) \o z = x \o (y \o z)
  BY ConcatAssociative

\* The bytes of a number before others.
LEMMA NumberAhead ==
  ASSUME NEW n \in 0..99, NEW q \in Seq(Alphabet)
  PROVE  Spells(n, q, Number(n) \o q)
  <1>0. PICK w : w = Number(n) \o q
    OBVIOUS
  <1>1. \A b \in DigitBytes : b \in Alphabet
    BY DigitIs
  <1>2. CASE n < 10
    <2>1. n \in 0..9 /\ Number(n) = <<Digits[n + 1]>>
      <3>1. n \in 0..9
        BY <1>2
      <3> QED
        BY <1>2, <3>1, NumberBytes, Zenon
    <2>2. PICK b \in DigitBytes : b = Digits[n + 1] /\ Value(b) = n
      BY <2>1, DigitValue, Zenon
    <2>3. w # <<>> /\ Head(w) = b /\ Tail(w) = q
      BY <1>0, <1>1, <2>1, <2>2, Pushed
    <2> QED
      BY <1>0, <2>2, <2>3, Zenon DEF Spells
  <1>3. CASE n >= 10
    <2>1. PICK d, r \in 0..9 : n = d * 10 + r /\ Number(n) = <<Digits[d + 1], Digits[r + 1]>>
      BY <1>3, NumberBytes, Zenon
    <2>2. PICK b \in DigitBytes, c \in DigitBytes :
            b = Digits[d + 1] /\ Value(b) = d /\ c = Digits[r + 1] /\ Value(c) = r
      BY <2>1, DigitValue, Zenon
    <2>3. b \in Alphabet /\ c \in Alphabet
      BY <1>1
    <2>4. <<b>> \in Seq(Alphabet) /\ <<c>> \in Seq(Alphabet) /\ <<b>> \o <<c>> = <<b, c>>
      BY <2>3, OneByte, TwoBytes, Zenon
    <2>5. w = <<b>> \o (<<c>> \o q)
      <3>1. w = (<<b>> \o <<c>>) \o q
        BY <1>0, <2>1, <2>2, <2>4, Zenon
      <3>2. PICK x \in Seq(Alphabet), y \in Seq(Alphabet) : x = <<b>> /\ y = <<c>>
        BY <2>4, Zenon
      <3>3. (x \o y) \o q = x \o (y \o q)
        BY BytesAssociative, Zenon
      <3> QED
        BY <3>1, <3>2, <3>3, Zenon
    <2>6. <<c>> \o q \in Seq(Alphabet)
      BY <2>4, ConcatProperties
    <2>7. w # <<>> /\ Head(w) = b /\ Tail(w) = <<c>> \o q
      BY <2>3, <2>5, <2>6, Pushed
    <2>8. n = Value(b) * 10 + Value(c)
      BY <2>1, <2>2, Zenon
    <2> QED
      BY <1>0, <2>6, <2>7, <2>8, Zenon DEF Spells
  <1>4. n < 10 \/ n >= 10
    OBVIOUS
  <1> QED
    BY <1>2, <1>3, <1>4, Zenon

\* One parameter set, the others kept.
LEMMA ArgumentSet ==
  ASSUME NEW a \in [0 .. NPAR - 1 -> Nat], NEW i \in 0 .. NPAR - 1, NEW v \in Nat
  PROVE  /\ [a EXCEPT ![i] = v] \in [0 .. NPAR - 1 -> Nat] /\ [a EXCEPT ![i] = v][i] = v
         /\ \A j \in 0 .. NPAR - 1 : j # i => [a EXCEPT ![i] = v][j] = a[j]
  OBVIOUS

\* The steps of a command whose bytes are known.
TookDigit(s, t, i, v) ==
  /\ Sound(t) /\ t.ign = FALSE /\ t.state = "have_arg" /\ t.argc = i /\ t.args[i] = v
  /\ \A j \in 0 .. NPAR - 1 : j # i => t.args[j] = s.args[j]

\* The first digit of the first parameter.
LEMMA FirstDigit ==
  ASSUME NEW s, Sound(s), s.ign = FALSE, s.state = "have_lbracket", NEW b \in DigitBytes
  PROVE  TookDigit(s, WriteByte(s, b), 0, Value(b))
  <1>1. IsConsole(s) /\ s.args \in [0 .. NPAR - 1 -> Nat]
    BY DEF Sound
  <1>2. PICK t : t = WriteByte(s, b)
    OBVIOUS
  <1>3. /\ Toned(s, t) /\ t.state = "have_arg" /\ t.argc = 0 /\ t.ign = s.ign
        /\ t.args = [s.args EXCEPT ![0] = Value(b)]
    BY <1>1, <1>2, OnFirstDigit
  <1>4. 0 \in 0 .. NPAR - 1 /\ Value(b) \in Nat
    <2>1. Value(b) \in 0..9
      BY DigitIs
    <2> QED
      BY <2>1 DEF NPAR
  <1>5. /\ t.args \in [0 .. NPAR - 1 -> Nat] /\ t.args[0] = Value(b)
        /\ \A j \in 0 .. NPAR - 1 : j # 0 => t.args[j] = s.args[j]
    BY <1>1, <1>3, <1>4, ArgumentSet
  <1>6. t.argc \in Nat
    BY <1>3
  <1>7. Sound(t)
    BY <1>3, <1>5, <1>6, TonedSound
  <1> QED
    BY <1>2, <1>3, <1>5, <1>7 DEF TookDigit

\* A further digit of a parameter.
LEMMA NextDigit ==
  ASSUME NEW s, Sound(s), s.ign = FALSE, s.state = "have_arg",
         NEW i \in 0 .. NPAR - 1, s.argc = i, NEW b \in DigitBytes
  PROVE  TookDigit(s, WriteByte(s, b), i, s.args[i] * 10 + Value(b))
  <1>1. IsConsole(s) /\ s.args \in [0 .. NPAR - 1 -> Nat] /\ s.argc \in Nat
    BY DEF Sound
  <1>2. PICK t : t = WriteByte(s, b)
    OBVIOUS
  <1>3. /\ Toned(s, t) /\ t.state = "have_arg" /\ t.argc = i /\ t.ign = FALSE
        /\ t.args = [s.args EXCEPT ![i] = s.args[i] * 10 + Value(b)]
    <2>1. /\ Toned(s, t) /\ t.state = "have_arg" /\ t.argc = s.argc /\ t.ign = s.ign
          /\ t.args = [s.args EXCEPT ![s.argc] = s.args[s.argc] * 10 + Value(b)]
      BY <1>1, <1>2, OnDigit, Zenon
    <2> QED
      BY <2>1, Zenon
  <1>4. s.args[i] \in Nat /\ Value(b) \in Nat
    <2>1. Value(b) \in 0..9
      BY DigitIs
    <2>2. Value(b) \in Nat
      BY <2>1
    <2>3. s.args[i] \in Nat
      BY <1>1, Zenon
    <2> QED
      BY <2>2, <2>3
  <1>5. s.args[i] * 10 + Value(b) \in Nat
    BY <1>4
  <1>6. /\ t.args \in [0 .. NPAR - 1 -> Nat] /\ t.args[i] = s.args[i] * 10 + Value(b)
        /\ \A j \in 0 .. NPAR - 1 : j # i => t.args[j] = s.args[j]
    BY <1>1, <1>3, <1>5, ArgumentSet
  <1>7. Sound(t)
    BY <1>1, <1>3, <1>6, TonedSound
  <1> QED
    BY <1>2, <1>3, <1>6, <1>7 DEF TookDigit

\* The semicolon before a parameter.
LEMMA NextArgument ==
  ASSUME NEW s, Sound(s), s.ign = FALSE, s.state = "have_arg",
         NEW i \in 1 .. NPAR - 1, s.argc + 1 = i
  PROVE  TookDigit(s, WriteByte(s, ";"), i, 0)
  <1>1. IsConsole(s) /\ s.args \in [0 .. NPAR - 1 -> Nat]
    BY DEF Sound
  <1>2. i < NPAR /\ i \in 0 .. NPAR - 1 /\ i \in Nat /\ 0 \in Nat
    BY DEF NPAR
  <1>3. s.argc + 1 < NPAR
    BY <1>2
  <1>4. PICK t : t = WriteByte(s, ";")
    OBVIOUS
  <1>5. /\ Toned(s, t) /\ t.state = "have_arg" /\ t.argc = i /\ t.ign = FALSE
        /\ t.args = [s.args EXCEPT ![i] = 0]
    BY <1>1, <1>3, <1>4, OnSeparator
  <1>6. /\ t.args \in [0 .. NPAR - 1 -> Nat] /\ t.args[i] = 0
        /\ \A j \in 0 .. NPAR - 1 : j # i => t.args[j] = s.args[j]
    BY <1>1, <1>2, <1>5, ArgumentSet
  <1>7. Sound(t)
    BY <1>2, <1>5, <1>6, TonedSound
  <1> QED
    BY <1>4, <1>5, <1>6, <1>7 DEF TookDigit

\* A bracket is taken.
LEMMA FollowsBracket ==
  ASSUME NEW k \in Commands, NEW s, NEW w, Sound(s), s.ign = FALSE, w \in Seq(Alphabet),
         s.state = "have_esc", w = <<"[">> \o BytesFrom(k)[0]
  PROVE  Follows(k, WriteByte(s, Head(w)), Tail(w))
  <1>0. 0 \in 0..Len(k.ps)
    <2>1. PICK n \in Nat : n = Len(k.ps)
      BY CommandKnown, Zenon
    <2>2. 0 \in 0..n
      OBVIOUS
    <2> QED
      BY <2>1, <2>2, Zenon
  <1>1. 0 \in 0..Len(k.ps) /\ "[" \in Alphabet
    BY <1>0 DEF Alphabet
  <1>2. BytesFrom(k)[0] \in Seq(Alphabet)
    BY <1>1, BytesFromRun
  <1>3. Head(w) = "[" /\ Tail(w) = BytesFrom(k)[0]
    BY <1>1, <1>2, Pushed
  <1>4. PICK t : t = WriteByte(s, "[")
    OBVIOUS
  <1>5. Toned(s, t) /\ t.state = "have_lbracket" /\ t.args = s.args /\ t.argc = s.argc /\ t.ign = FALSE
    BY <1>4, OnBracket DEF Sound
  <1>6. Sound(t)
    BY <1>5, TonedSound DEF Sound
  <1> QED
    BY <1>2, <1>3, <1>4, <1>5, <1>6 DEF Follows

\* The first digit, or the command without arguments, is taken.
LEMMA FollowsFirst ==
  ASSUME NEW k \in Commands, NEW s, NEW w, Sound(s), s.ign = FALSE, w \in Seq(Alphabet),
         s.state = "have_lbracket", w = BytesFrom(k)[0]
  PROVE  Follows(k, WriteByte(s, Head(w)), Tail(w))
  <1>1. PICK n \in Nat : n = Len(k.ps)
    BY CommandKnown
  <1>2. PICK t : t = WriteByte(s, Head(w))
    OBVIOUS
  <1>3. CASE n = 0
    <2>1. w = <<k.cmd>>
      BY <1>1, <1>3, BytesFromRun
    <2>2. k.cmd \in Alphabet /\ k.cmd \notin Range(Digits) /\ k.cmd # "esc" /\ k.cmd # "["
      BY CommandKnown
    <2>3. Head(w) = k.cmd /\ Tail(w) = <<>>
      BY <2>1
    <2>4. Sound(t) /\ t.state = "need_esc" /\ t.ign = FALSE
      BY <1>2, <2>2, <2>3, OnBareCommand
    <2>5. <<>> \in Seq(Alphabet)
      BY EmptySeq
    <2> QED
      BY <1>2, <2>3, <2>4, <2>5, Zenon DEF Follows
  <1>4. CASE n # 0
    <2>1. 0 \in 0..(n - 1) /\ 1 \in 0..n /\ 1 \in 1..n /\ 0 + 1 = 1
      BY <1>4
    <2>2. w = Part(k, 0, BytesFrom(k)[1]) /\ BytesFrom(k)[1] \in Seq(Alphabet)
      BY <1>1, <2>1, BytesFromRun
    <2>3. k.ps[1] \in 0..99
      BY <1>1, <2>1, CommandKnown
    <2>4. Number(k.ps[1]) \o BytesFrom(k)[1] \in Seq(Alphabet)
      BY <2>2, <2>3, NumberBytes, ConcatProperties
    <2>5. w = Number(k.ps[1]) \o BytesFrom(k)[1]
      <3>1. Part(k, 0, BytesFrom(k)[1]) = <<>> \o (Number(k.ps[1]) \o BytesFrom(k)[1])
        BY <2>1, Zenon DEF Part
      <3> QED
        BY <2>2, <2>4, <3>1, ConcatEmptySeq, Zenon
    <2>6. Spells(k.ps[1], BytesFrom(k)[1], w)
      BY <2>2, <2>3, <2>5, NumberAhead, Zenon
    <2>7. PICK b \in DigitBytes :
            /\ Head(w) = b /\ Tail(w) \in Seq(Alphabet)
            /\ \/ Value(b) = k.ps[1] /\ Tail(w) = BytesFrom(k)[1]
               \/ \E c \in DigitBytes : /\ k.ps[1] = Value(b) * 10 + Value(c)
                                        /\ Tail(w) = <<c>> \o BytesFrom(k)[1]
      BY <2>6, Zenon DEF Spells
    <2>8. TookDigit(s, t, 0, Value(b))
      BY <1>2, <2>7, FirstDigit, Zenon
    <2>9. InNumber(k, 1, Value(b), Tail(w))
      BY <2>7, Zenon DEF InNumber
    <2>10. Given(k, t, 0) /\ 1 - 1 = 0
      BY DEF Given
    <2>11. Within(k, t, Tail(w))
      BY <1>1, <2>1, <2>8, <2>9, <2>10, Zenon DEF Within, TookDigit
    <2> QED
      BY <1>2, <2>7, <2>8, <2>11, Zenon DEF Follows, TookDigit
  <1> QED
    BY <1>3, <1>4

\* The arguments before the one at hand stay as given.
LEMMA GivenStays ==
  ASSUME NEW k, NEW s, NEW t, NEW j \in 1..NPAR, Given(k, s, j - 1),
         NEW i \in 0 .. NPAR - 1, NEW v, TookDigit(s, t, i, v), i >= j - 1
  PROVE  Given(k, t, j - 1)
  <1>1. ASSUME NEW m \in 1..(j - 1)
        PROVE  t.args[m - 1] = k.ps[m]
    <2>1. m - 1 \in 0 .. NPAR - 1 /\ m - 1 # i
      BY DEF NPAR
    <2>2. t.args[m - 1] = s.args[m - 1]
      BY <2>1, Zenon DEF TookDigit
    <2>3. s.args[m - 1] = k.ps[m]
      BY Zenon DEF Given
    <2> QED
      BY <2>2, <2>3, Zenon
  <1> QED
    BY <1>1, Zenon DEF Given

\* Where the parser is once it took a digit of argument j.
LEMMA FollowsTook ==
  ASSUME NEW k \in Commands, NEW s, NEW t, NEW w, NEW j \in 1..Len(k.ps), NEW v,
         Given(k, s, j - 1), TookDigit(s, t, j - 1, v), InNumber(k, j, v, w), w \in Seq(Alphabet)
  PROVE  Follows(k, t, w)
  <1>1. PICK n \in 0..NPAR : n = Len(k.ps)
    BY CommandKnown, Zenon
  <1>2. j \in 1..n
    BY <1>1
  <1>3. j \in 1..NPAR /\ j - 1 \in 0 .. NPAR - 1 /\ j - 1 >= j - 1
    BY <1>2 DEF NPAR
  <1>4. Given(k, t, j - 1)
    BY <1>3, GivenStays
  <1>5. Within(k, t, w)
    BY <1>4, Zenon DEF Within, TookDigit
  <1> QED
    BY <1>5, Zenon DEF Follows, TookDigit

\* The command is complete.
LEMMA FollowsCommand ==
  ASSUME NEW k \in Sent, NEW s, NEW w, Sound(s), s.ign = FALSE, s.state = "have_arg",
         NEW j, j = Len(k.ps), s.argc = j - 1, Given(k, s, j - 1), s.args[j - 1] = k.ps[j],
         w = <<k.cmd>>
  PROVE  Follows(k, WriteByte(s, Head(w)), Tail(w))
  <1>1. k \in Commands /\ j \in Nat
    BY CommandKnown DEF Sent
  <1>2. k.cmd \in Alphabet /\ k.cmd \notin Range(Digits) /\ k.cmd # "esc" /\ k.cmd # ";"
    BY <1>1, CommandKnown
  <1>3. Head(w) = k.cmd /\ Tail(w) = <<>>
    OBVIOUS
  <1>4. PICK t : t = WriteByte(s, Head(w))
    OBVIOUS
  <1>5. ASSUME "reverse" \notin Uses, k.cmd = "m"
        PROVE  UnreversedAtEnd(s)
    <2>1. \A i \in 1..j : k.ps[i] # 7
      BY <1>5, Zenon DEF Sent, Contains
    <2>2. s.argc + 1 = j
      BY <1>1
    <2>3. ASSUME NEW i \in 1..j
          PROVE  s.args[i - 1] = k.ps[i]
      <3>1. CASE i = j
        BY <3>1, Zenon
      <3>2. CASE i # j
        <4>1. i \in 1..(j - 1)
          BY <1>1, <3>2
        <4> QED
          BY <4>1, Zenon DEF Given
      <3> QED
        BY <3>1, <3>2
    <2> QED
      BY <2>1, <2>2, <2>3, Zenon DEF UnreversedAtEnd
  <1>6. Sound(t) /\ t.state = "need_esc" /\ t.ign = FALSE
    <2>1. "reverse" \notin Uses /\ k.cmd = "m" => UnreversedAtEnd(s)
      BY <1>5, Zenon
    <2>2. t = WriteByte(s, k.cmd)
      BY <1>3, <1>4, Zenon
    <2> QED
      BY <1>2, <2>1, <2>2, OnCommand, Zenon
  <1>7. <<>> \in Seq(Alphabet)
    BY EmptySeq
  <1> QED
    BY <1>3, <1>4, <1>6, <1>7, Zenon DEF Follows

\* The next argument begins.
LEMMA FollowsSeparator ==
  ASSUME NEW k \in Commands, NEW s, NEW w, Sound(s), s.ign = FALSE, s.state = "have_arg",
         NEW j \in 1..(Len(k.ps) - 1), s.argc = j - 1, Given(k, s, j - 1), s.args[j - 1] = k.ps[j],
         w = BytesFrom(k)[j]
  PROVE  Follows(k, WriteByte(s, Head(w)), Tail(w))
  <1>1. PICK n \in 0..NPAR : n = Len(k.ps)
    BY CommandKnown, Zenon
  <1>2. j \in 1..(n - 1)
    BY <1>1
  <1>3. /\ j \in 0..(n - 1) /\ j + 1 \in 0..n /\ j + 1 \in 1..n /\ j # 0
        /\ j \in 1 .. NPAR - 1 /\ j \in 0 .. NPAR - 1 /\ j - 1 \in 0 .. NPAR - 1 /\ (j + 1) - 1 = j
    BY <1>2 DEF NPAR
  <1>4. w = Part(k, j, BytesFrom(k)[j + 1]) /\ BytesFrom(k)[j + 1] \in Seq(Alphabet)
    BY <1>1, <1>3, BytesFromRun, Zenon
  <1>5. k.ps[j + 1] \in 0..99
    BY <1>1, <1>3, CommandKnown, Zenon
  <1>6. PICK r : r = Number(k.ps[j + 1]) \o BytesFrom(k)[j + 1]
    OBVIOUS
  <1>7. r \in Seq(Alphabet)
    <2>1. Number(k.ps[j + 1]) \in Seq(Alphabet)
      BY <1>5, NumberBytes, Zenon
    <2> QED
      BY <1>4, <1>6, <2>1, ConcatProperties, Zenon
  <1>8. w = <<";">> \o r
    BY <1>3, <1>4, <1>6, Zenon DEF Part
  <1>9. ";" \in Alphabet
    BY DEF Alphabet
  <1>10. Head(w) = ";" /\ Tail(w) = r
    <2>1. PICK c \in Alphabet : c = ";"
      BY <1>9
    <2>2. w = <<c>> \o r
      BY <1>8, <2>1, Zenon
    <2>3. Head(w) = c /\ Tail(w) = r
      BY <1>7, <2>2, Pushed
    <2> QED
      BY <2>1, <2>3
  <1>11. PICK t : t = WriteByte(s, ";")
    OBVIOUS
  <1>12. TookDigit(s, t, j, 0)
    <2>1. s.argc + 1 = j
      BY <1>3
    <2> QED
      BY <1>3, <1>11, <2>1, NextArgument, Zenon
  <1>13. Given(k, t, j)
    <2>1. ASSUME NEW m \in 1..j
          PROVE  t.args[m - 1] = k.ps[m]
      <3>1. m - 1 \in 0 .. NPAR - 1 /\ m - 1 # j
        BY <1>3 DEF NPAR
      <3>2. t.args[m - 1] = s.args[m - 1]
        BY <1>12, <3>1, Zenon DEF TookDigit
      <3>3. CASE m = j
        BY <3>2, <3>3, Zenon
      <3>4. CASE m # j
        <4>1. m \in 1..(j - 1)
          BY <1>3, <3>4
        <4> QED
          BY <3>2, <4>1, Zenon DEF Given
      <3> QED
        BY <3>3, <3>4
    <2> QED
      BY <2>1, Zenon DEF Given
  <1>14. InNumber(k, j + 1, 0, r)
    BY <1>6, Zenon DEF InNumber
  <1>15. Within(k, t, r)
    BY <1>1, <1>3, <1>12, <1>13, <1>14, Zenon DEF Within, TookDigit
  <1> QED
    BY <1>7, <1>10, <1>11, <1>12, <1>15, Zenon DEF Follows, TookDigit

\* Inside a number: another digit of it, a semicolon or the end.
LEMMA FollowsNumber ==
  ASSUME NEW k \in Sent, NEW s, NEW w, Sound(s), s.ign = FALSE, w \in Seq(Alphabet), Within(k, s, w)
  PROVE  Follows(k, WriteByte(s, Head(w)), Tail(w))
  <1>1. PICK j \in 1..Len(k.ps) : s.argc = j - 1 /\ Given(k, s, j - 1) /\ InNumber(k, j, s.args[j - 1], w)
    BY Zenon DEF Within
  <1>2. s.state = "have_arg" /\ k \in Commands
    BY Zenon DEF Within, Sent
  <1>3. PICK n \in 0..NPAR : n = Len(k.ps)
    BY <1>2, CommandKnown, Zenon
  <1>4. j \in 1..n
    BY <1>3
  <1>5. j - 1 \in 0 .. NPAR - 1 /\ j \in 0..n /\ j \in 1..NPAR
    BY <1>4 DEF NPAR
  <1>6. k.ps[j] \in 0..99 /\ BytesFrom(k)[j] \in Seq(Alphabet)
    BY <1>2, <1>3, <1>5, BytesFromRun, CommandKnown, Zenon
  <1>7. CASE s.args[j - 1] = k.ps[j] /\ w = BytesFrom(k)[j]
    <2>1. CASE j = n
      <3>1. w = <<k.cmd>>
        BY <1>2, <1>3, <1>7, <2>1, BytesFromRun, Zenon
      <3> QED
        BY <1>1, <1>2, <1>3, <1>7, <2>1, <3>1, FollowsCommand
    <2>2. CASE j # n
      <3>1. j \in 1..(Len(k.ps) - 1)
        BY <1>3, <1>4, <2>2
      <3> QED
        BY <1>1, <1>2, <1>7, <3>1, FollowsSeparator
    <2> QED
      BY <2>1, <2>2
  <1>8. CASE \E c \in DigitBytes : /\ k.ps[j] = s.args[j - 1] * 10 + Value(c)
                                   /\ w = <<c>> \o BytesFrom(k)[j]
    <2>1. PICK c \in DigitBytes : /\ k.ps[j] = s.args[j - 1] * 10 + Value(c)
                                  /\ w = <<c>> \o BytesFrom(k)[j]
      BY <1>8, Zenon
    <2>2. c \in Alphabet
      BY DigitIs
    <2>3. Head(w) = c /\ Tail(w) = BytesFrom(k)[j]
      BY <1>6, <2>1, <2>2, Pushed
    <2>4. TookDigit(s, WriteByte(s, c), j - 1, k.ps[j])
      BY <1>1, <1>2, <1>5, <2>1, NextDigit, Zenon
    <2>5. InNumber(k, j, k.ps[j], Tail(w))
      BY <2>3, Zenon DEF InNumber
    <2>6. Tail(w) \in Seq(Alphabet)
      BY <1>6, <2>3, Zenon
    <2>7. Follows(k, WriteByte(s, c), Tail(w))
      BY <1>1, <1>2, <2>4, <2>5, <2>6, FollowsTook, Zenon
    <2> QED
      BY <2>3, <2>7, Zenon
  <1>9. CASE s.args[j - 1] = 0 /\ w = Number(k.ps[j]) \o BytesFrom(k)[j]
    <2>1. Spells(k.ps[j], BytesFrom(k)[j], w)
      BY <1>6, <1>9, NumberAhead, Zenon
    <2>2. PICK b \in DigitBytes :
            /\ Head(w) = b /\ Tail(w) \in Seq(Alphabet)
            /\ \/ Value(b) = k.ps[j] /\ Tail(w) = BytesFrom(k)[j]
               \/ \E c \in DigitBytes : /\ k.ps[j] = Value(b) * 10 + Value(c)
                                        /\ Tail(w) = <<c>> \o BytesFrom(k)[j]
      BY <2>1, Zenon DEF Spells
    <2>3. InNumber(k, j, Value(b), Tail(w))
      BY <2>2, Zenon DEF InNumber
    <2>4. s.args[j - 1] * 10 + Value(b) = Value(b)
      <3>1. Value(b) \in 0..9
        BY DigitIs
      <3>2. 0 * 10 + Value(b) = Value(b)
        BY <3>1
      <3> QED
        BY <1>9, <3>2, Zenon
    <2>5. TookDigit(s, WriteByte(s, b), j - 1, Value(b))
      <3>1. TookDigit(s, WriteByte(s, b), j - 1, s.args[j - 1] * 10 + Value(b))
        BY <1>1, <1>2, <1>5, NextDigit, Zenon
      <3> QED
        BY <2>4, <3>1, Zenon
    <2>6. Follows(k, WriteByte(s, b), Tail(w))
      BY <1>1, <1>2, <2>2, <2>3, <2>5, FollowsTook, Zenon
    <2> QED
      BY <2>2, <2>6, Zenon
  <1> QED
    BY <1>1, <1>7, <1>8, <1>9, Zenon DEF InNumber
----------------------------------------------------------------------------
\* Any piece of output on its way.

\* Between commands.
Rests(s) == s.state = "need_esc" /\ s.ign = FALSE
\* A broken command on its way.
Breaks(s, w) ==
  \/ s.state = "have_esc" /\ s.ign = FALSE /\ w \in {<<"[", "[", "A">>, <<"[", "1", "nl">>, <<"[", ";">>}
  \/ s.state = "have_lbracket" /\ s.ign = FALSE /\ w \in {<<"[", "A">>, <<"1", "nl">>, <<";">>}
  \/ s.state = "have_lbracket" /\ w = <<"A">>
  \/ s.state = "have_arg" /\ s.ign = FALSE /\ w = <<"nl">>
\* A piece of output.
Piece(w) == w \in Broken \/ (\E b \in Characters : w = <<b>>) \/ \E k \in Sent : w = Bytes(k)
\* The parser is where the bytes w to come need it.
Ahead(s, w) ==
  /\ Sound(s) /\ w \in Seq(Alphabet)
  /\ \/ Rests(s) /\ (w = <<>> \/ Piece(w))
     \/ \E k \in Sent : Follows(k, s, w)
     \/ Breaks(s, w)

\* Short pieces.
LEMMA Bytes1 ==
  ASSUME NEW x \in Alphabet
  PROVE  <<x>> \in Seq(Alphabet) /\ Head(<<x>>) = x /\ Tail(<<x>>) = <<>>
  OBVIOUS

\* Head and tail of two bytes.
LEMMA Bytes2 ==
  ASSUME NEW x \in Alphabet, NEW y \in Alphabet
  PROVE  <<x, y>> \in Seq(Alphabet) /\ Head(<<x, y>>) = x /\ Tail(<<x, y>>) = <<y>>
  OBVIOUS

\* Of three.
LEMMA Bytes3 ==
  ASSUME NEW x \in Alphabet, NEW y \in Alphabet, NEW z \in Alphabet
  PROVE  <<x, y, z>> \in Seq(Alphabet) /\ Head(<<x, y, z>>) = x /\ Tail(<<x, y, z>>) = <<y, z>>
  OBVIOUS

\* Of four.
LEMMA Bytes4 ==
  ASSUME NEW x \in Alphabet, NEW y \in Alphabet, NEW z \in Alphabet, NEW v \in Alphabet
  PROVE  <<x, y, z, v>> \in Seq(Alphabet) /\ Head(<<x, y, z, v>>) = x /\ Tail(<<x, y, z, v>>) = <<y, z, v>>
  OBVIOUS

\* Head and tail of what is left of each broken command.
LEMMA BrokenPieces ==
  /\ <<";">> \in Seq(Alphabet) /\ Head(<<";">>) = ";" /\ Tail(<<";">>) = <<>>
  /\ <<"A">> \in Seq(Alphabet) /\ Head(<<"A">>) = "A" /\ Tail(<<"A">>) = <<>>
  /\ <<"nl">> \in Seq(Alphabet) /\ Head(<<"nl">>) = "nl" /\ Tail(<<"nl">>) = <<>>
  /\ <<"[", "A">> \in Seq(Alphabet) /\ Head(<<"[", "A">>) = "[" /\ Tail(<<"[", "A">>) = <<"A">>
  /\ <<"1", "nl">> \in Seq(Alphabet) /\ Head(<<"1", "nl">>) = "1" /\ Tail(<<"1", "nl">>) = <<"nl">>
  /\ <<"[", ";">> \in Seq(Alphabet) /\ Head(<<"[", ";">>) = "[" /\ Tail(<<"[", ";">>) = <<";">>
  /\ <<"[", "[", "A">> \in Seq(Alphabet) /\ Head(<<"[", "[", "A">>) = "[" /\ Tail(<<"[", "[", "A">>) = <<"[", "A">>
  /\ <<"[", "1", "nl">> \in Seq(Alphabet) /\ Head(<<"[", "1", "nl">>) = "[" /\ Tail(<<"[", "1", "nl">>) = <<"1", "nl">>
  /\ <<"esc", "[", ";">> \in Seq(Alphabet) /\ Head(<<"esc", "[", ";">>) = "esc" /\ Tail(<<"esc", "[", ";">>) = <<"[", ";">>
  /\ <<"esc", "[", "[", "A">> \in Seq(Alphabet) /\ Head(<<"esc", "[", "[", "A">>) = "esc" /\ Tail(<<"esc", "[", "[", "A">>) = <<"[", "[", "A">>
  /\ <<"esc", "[", "1", "nl">> \in Seq(Alphabet) /\ Head(<<"esc", "[", "1", "nl">>) = "esc" /\ Tail(<<"esc", "[", "1", "nl">>) = <<"[", "1", "nl">>
  <1>1. /\ "esc" \in Alphabet /\ "[" \in Alphabet /\ "A" \in Alphabet /\ "1" \in Alphabet
        /\ "nl" \in Alphabet /\ ";" \in Alphabet
    BY DEF Alphabet
  <1>2. <<";">> \in Seq(Alphabet) /\ Head(<<";">>) = ";" /\ Tail(<<";">>) = <<>>
    BY <1>1, Bytes1, Zenon
  <1>3. <<"A">> \in Seq(Alphabet) /\ Head(<<"A">>) = "A" /\ Tail(<<"A">>) = <<>>
    BY <1>1, Bytes1, Zenon
  <1>4. <<"nl">> \in Seq(Alphabet) /\ Head(<<"nl">>) = "nl" /\ Tail(<<"nl">>) = <<>>
    BY <1>1, Bytes1, Zenon
  <1>5. <<"[", "A">> \in Seq(Alphabet) /\ Head(<<"[", "A">>) = "[" /\ Tail(<<"[", "A">>) = <<"A">>
    BY <1>1, Bytes2, Zenon
  <1>6. <<"1", "nl">> \in Seq(Alphabet) /\ Head(<<"1", "nl">>) = "1" /\ Tail(<<"1", "nl">>) = <<"nl">>
    BY <1>1, Bytes2, Zenon
  <1>7. <<"[", ";">> \in Seq(Alphabet) /\ Head(<<"[", ";">>) = "[" /\ Tail(<<"[", ";">>) = <<";">>
    BY <1>1, Bytes2, Zenon
  <1>8. PICK e, o, a, i, n, p \in Alphabet :
          e = "esc" /\ o = "[" /\ a = "A" /\ i = "1" /\ n = "nl" /\ p = ";"
    BY <1>1, Zenon
  <1>9. <<"[", "[", "A">> \in Seq(Alphabet) /\ Head(<<"[", "[", "A">>) = "[" /\ Tail(<<"[", "[", "A">>) = <<"[", "A">>
    <2>1. <<o, o, a>> \in Seq(Alphabet) /\ Head(<<o, o, a>>) = o /\ Tail(<<o, o, a>>) = <<o, a>>
      BY Bytes3
    <2> QED
      BY <1>8, <2>1, Zenon
  <1>10. <<"[", "1", "nl">> \in Seq(Alphabet) /\ Head(<<"[", "1", "nl">>) = "[" /\ Tail(<<"[", "1", "nl">>) = <<"1", "nl">>
    <2>1. <<o, i, n>> \in Seq(Alphabet) /\ Head(<<o, i, n>>) = o /\ Tail(<<o, i, n>>) = <<i, n>>
      BY Bytes3
    <2> QED
      BY <1>8, <2>1, Zenon
  <1>11. <<"esc", "[", ";">> \in Seq(Alphabet) /\ Head(<<"esc", "[", ";">>) = "esc" /\ Tail(<<"esc", "[", ";">>) = <<"[", ";">>
    <2>1. <<e, o, p>> \in Seq(Alphabet) /\ Head(<<e, o, p>>) = e /\ Tail(<<e, o, p>>) = <<o, p>>
      BY Bytes3
    <2> QED
      BY <1>8, <2>1, Zenon
  <1>12. <<"esc", "[", "[", "A">> \in Seq(Alphabet) /\ Head(<<"esc", "[", "[", "A">>) = "esc" /\ Tail(<<"esc", "[", "[", "A">>) = <<"[", "[", "A">>
    <2>1. <<e, o, o, a>> \in Seq(Alphabet) /\ Head(<<e, o, o, a>>) = e /\ Tail(<<e, o, o, a>>) = <<o, o, a>>
      BY Bytes4
    <2> QED
      BY <1>8, <2>1, Zenon
  <1>13. <<"esc", "[", "1", "nl">> \in Seq(Alphabet) /\ Head(<<"esc", "[", "1", "nl">>) = "esc" /\ Tail(<<"esc", "[", "1", "nl">>) = <<"[", "1", "nl">>
    <2>1. <<e, o, i, n>> \in Seq(Alphabet) /\ Head(<<e, o, i, n>>) = e /\ Tail(<<e, o, i, n>>) = <<o, i, n>>
      BY Bytes4
    <2> QED
      BY <1>8, <2>1, Zenon
  <1> QED
    BY <1>2, <1>3, <1>4, <1>5, <1>6, <1>7, <1>9, <1>10, <1>11, <1>12, <1>13, Zenon

\* A command has bytes, from any parameter on.
LEMMA BytesNonempty ==
  ASSUME NEW k \in Commands, NEW j \in 0..Len(k.ps)
  PROVE  BytesFrom(k)[j] # <<>>
  <1>1. PICK n \in 0..NPAR : n = Len(k.ps)
    BY CommandKnown, Zenon
  <1>2. CASE j = n
    <2>1. BytesFrom(k)[j] = <<k.cmd>>
      BY <1>1, <1>2, BytesFromRun, Zenon
    <2> QED
      BY <2>1
  <1>3. CASE j # n
    <2>1. j \in 0..(n - 1) /\ j + 1 \in 0..n /\ j + 1 \in 1..n
      BY <1>1, <1>3
    <2>2. /\ BytesFrom(k)[j] = Part(k, j, BytesFrom(k)[j + 1])
          /\ BytesFrom(k)[j + 1] \in Seq(Alphabet) /\ k.ps[j + 1] \in 0..99
      BY <1>1, <2>1, BytesFromRun, CommandKnown, Zenon
    <2>3. PICK a : a = IF j = 0 THEN <<>> ELSE <<";">>
      OBVIOUS
    <2>4. PICK r : r = Number(k.ps[j + 1]) \o BytesFrom(k)[j + 1]
      OBVIOUS
    <2>5. r # <<>>
      BY <2>2, <2>4, NumberAhead, Zenon DEF Spells
    <2>6. r \in Seq(Alphabet)
      BY <2>2, <2>4, NumberBytes, ConcatProperties, Zenon
    <2>7. a \in Seq(Alphabet)
      <3>1. ";" \in Alphabet
        BY DEF Alphabet
      <3>2. <<";">> \in Seq(Alphabet) /\ <<>> \in Seq(Alphabet)
        BY <3>1, OneByte, EmptySeq, Zenon
      <3> QED
        BY <2>3, <3>2, Zenon
    <2>8. a \o r # <<>>
      BY <2>5, <2>6, <2>7, ConcatEqualIffEmpty
    <2> QED
      BY <2>2, <2>3, <2>4, <2>8, Zenon DEF Part
  <1> QED
    BY <1>2, <1>3

\* When nothing is to come, the parser rests.
LEMMA AheadOfNothing ==
  ASSUME NEW s, Ahead(s, <<>>)
  PROVE  Sound(s) /\ Rests(s)
  <1>1. ASSUME NEW k \in Sent, Follows(k, s, <<>>)
        PROVE  Rests(s)
    <2>0. k \in Commands
      BY Zenon DEF Sent
    <2>1. 0 \in 0..Len(k.ps) /\ \A j \in 1..Len(k.ps) : j \in 0..Len(k.ps)
      <3>1. PICK n \in 0..NPAR : n = Len(k.ps)
        BY <2>0, CommandKnown, Zenon
      <3>2. 0 \in 0..n /\ \A j \in 1..n : j \in 0..n
        BY DEF NPAR
      <3> QED
        BY <3>1, <3>2, Zenon
    <2>2. \A j \in 0..Len(k.ps) : BytesFrom(k)[j] # <<>> /\ BytesFrom(k)[j] \in Seq(Alphabet)
      BY <2>0, BytesNonempty, BytesFromRun, Zenon
    <2>3. <<"[">> \o BytesFrom(k)[0] # <<>>
      <3>1. PICK c \in Alphabet : c = "["
        BY DEF Alphabet
      <3>2. <<c>> \o BytesFrom(k)[0] # <<>>
        BY <2>1, <2>2, Pushed
      <3> QED
        BY <3>1, <3>2, Zenon
    <2>4. ~ Within(k, s, <<>>)
      <3> SUFFICES ASSUME NEW j \in 1..Len(k.ps), InNumber(k, j, s.args[j - 1], <<>>)
                   PROVE  FALSE
        BY Zenon DEF Within
      <3>1. j \in 0..Len(k.ps) /\ k.ps[j] \in 0..99
        BY <2>0, <2>1, CommandKnown, Zenon
      <3>2. PICK q \in Seq(Alphabet) : q = BytesFrom(k)[j] /\ q # <<>>
        BY <2>2, <3>1, Zenon
      <3>3. \A c \in DigitBytes : <<c>> \o q # <<>>
        BY DigitIs, Pushed
      <3>4. Number(k.ps[j]) \o q # <<>>
        BY <3>1, NumberAhead, Zenon DEF Spells
      <3> QED
        BY <3>2, <3>3, <3>4, Zenon DEF InNumber
    <2> QED
      BY <1>1, <2>1, <2>2, <2>3, <2>4, Zenon DEF Follows, Rests
  <1>2. ~ Breaks(s, <<>>)
    BY DEF Breaks
  <1> QED
    BY <1>1, <1>2, Zenon DEF Ahead

\* A command starts.
LEMMA Escaped ==
  ASSUME NEW s, Sound(s), Rests(s)
  PROVE  /\ Sound(WriteByte(s, "esc")) /\ WriteByte(s, "esc").state = "have_esc"
         /\ WriteByte(s, "esc").ign = FALSE
  <1>1. PICK t : t = WriteByte(s, "esc")
    OBVIOUS
  <1>2. /\ Toned(s, t) /\ t.state = "have_esc"
        /\ t.args = s.args /\ t.argc = s.argc /\ t.ign = FALSE
    BY <1>1, OnEscape DEF Sound, Rests
  <1>3. Sound(t)
    BY <1>2, TonedSound DEF Sound
  <1> QED
    BY <1>1, <1>2, <1>3

\* The first byte of a piece.
LEMMA StartStep ==
  ASSUME NEW s, NEW w, Sound(s), Rests(s), Piece(w)
  PROVE  Ahead(WriteByte(s, Head(w)), Tail(w))
  <1>1. \A c \in {"esc", "[", "1", "nl", ";", "A"} : c \in Alphabet
    BY DEF Alphabet
  <1>2. CASE w \in Broken
    <2>1. Head(w) = "esc" /\ Tail(w) \in {<<"[", "[", "A">>, <<"[", "1", "nl">>, <<"[", ";">>}
      BY <1>2, BrokenPieces, Zenon DEF Broken
    <2>2. Tail(w) \in Seq(Alphabet)
      BY <2>1, BrokenPieces, Zenon
    <2>3. Breaks(WriteByte(s, "esc"), Tail(w)) /\ Sound(WriteByte(s, "esc"))
      BY <2>1, Escaped, Zenon DEF Breaks
    <2> QED
      BY <2>1, <2>2, <2>3, Zenon DEF Ahead
  <1>3. ASSUME NEW b \in Characters, w = <<b>>
        PROVE  Ahead(WriteByte(s, Head(w)), Tail(w))
    <2>1. Head(w) = b /\ Tail(w) = <<>>
      BY <1>3
    <2>2. b # "esc"
      BY DEF Characters
    <2>3. PICK t : t = WriteByte(s, b)
      OBVIOUS
    <2>4. t = WritePlain(s, b)
      BY <2>2, <2>3, WriteByteArms, Zenon DEF Rests
    <2>5. Shown(s, t)
      BY <2>4, ShownPlain DEF Sound
    <2>6. Sound(t) /\ Rests(t)
      BY <2>5, ShownSound DEF Shown, Rests
    <2>7. <<>> \in Seq(Alphabet)
      BY EmptySeq
    <2> QED
      BY <2>1, <2>3, <2>6, <2>7, Zenon DEF Ahead
  <1>4. ASSUME NEW k \in Sent, w = Bytes(k)
        PROVE  Ahead(WriteByte(s, Head(w)), Tail(w))
    <2>0. k \in Commands
      BY Zenon DEF Sent
    <2>1. 0 \in 0..Len(k.ps)
      <3>1. PICK n \in 0..NPAR : n = Len(k.ps)
        BY <2>0, CommandKnown, Zenon
      <3>2. 0 \in 0..n
        BY DEF NPAR
      <3> QED
        BY <3>1, <3>2, Zenon
    <2>2. PICK q \in Seq(Alphabet) : q = BytesFrom(k)[0]
      BY <2>0, <2>1, BytesFromRun, Zenon
    <2>3. PICK x \in Alphabet, y \in Alphabet : x = "esc" /\ y = "["
      BY <1>1
    <2>4. <<x>> \in Seq(Alphabet) /\ <<y>> \in Seq(Alphabet) /\ <<x>> \o <<y>> = <<x, y>>
      BY OneByte, TwoBytes, Zenon
    <2>5. w = <<x>> \o (<<y>> \o q)
      <3>1. w = (<<x>> \o <<y>>) \o q
        BY <1>4, <2>2, <2>3, <2>4, Zenon DEF Bytes
      <3>2. PICK a \in Seq(Alphabet), c \in Seq(Alphabet) : a = <<x>> /\ c = <<y>>
        BY <2>4, Zenon
      <3>3. (a \o c) \o q = a \o (c \o q)
        BY BytesAssociative, Zenon
      <3> QED
        BY <3>1, <3>2, <3>3, Zenon
    <2>6. <<y>> \o q \in Seq(Alphabet)
      BY <2>4, ConcatProperties
    <2>7. Head(w) = x /\ Tail(w) = <<y>> \o q
      BY <2>5, <2>6, Pushed
    <2>8. PICK t : t = WriteByte(s, "esc")
      OBVIOUS
    <2>9. Sound(t) /\ t.state = "have_esc" /\ t.ign = FALSE
      BY <2>8, Escaped, Zenon
    <2>10. Follows(k, t, Tail(w))
      BY <2>2, <2>3, <2>6, <2>7, <2>9, Zenon DEF Follows
    <2> QED
      BY <2>3, <2>6, <2>7, <2>8, <2>9, <2>10, Zenon DEF Ahead
  <1> QED
    BY <1>2, <1>3, <1>4, Zenon DEF Piece

\* A byte of a broken command.
LEMMA BreakStep ==
  ASSUME NEW s, NEW w, Sound(s), Breaks(s, w)
  PROVE  Ahead(WriteByte(s, Head(w)), Tail(w))
  <1>1. \A c \in {"esc", "[", "1", "nl", ";", "A"} : c \in Alphabet
    BY DEF Alphabet
  <1>2. <<>> \in Seq(Alphabet)
    BY EmptySeq
  <1>3. "A" \notin Range(Digits) /\ ";" \notin Range(Digits) /\ "nl" \notin Range(Digits) /\ "1" \in DigitBytes
    BY DigitRange DEF DigitBytes
  <1>4. PICK t : t = WriteByte(s, Head(w))
    OBVIOUS
  <1>5. CASE /\ s.state = "have_esc" /\ s.ign = FALSE
             /\ w \in {<<"[", "[", "A">>, <<"[", "1", "nl">>, <<"[", ";">>}
    <2>1. Head(w) = "[" /\ Tail(w) \in {<<"[", "A">>, <<"1", "nl">>, <<";">>}
      BY <1>5, BrokenPieces, Zenon
    <2>2. Tail(w) \in Seq(Alphabet)
      BY <2>1, BrokenPieces, Zenon
    <2>3. t = WriteByte(s, "[")
      BY <1>4, <2>1, Zenon
    <2>4. Toned(s, t) /\ t.state = "have_lbracket" /\ t.args = s.args /\ t.argc = s.argc /\ t.ign = FALSE
      BY <1>5, <2>3, OnBracket DEF Sound
    <2>5. Sound(t)
      BY <2>4, TonedSound DEF Sound
    <2>6. Breaks(t, Tail(w))
      BY <2>1, <2>4, Zenon DEF Breaks
    <2> QED
      BY <1>4, <2>2, <2>5, <2>6, Zenon DEF Ahead
  <1>6. CASE s.state = "have_lbracket" /\ w = <<"[", "A">>
    <2>1. Head(w) = "[" /\ Tail(w) = <<"A">>
      BY <1>6
    <2>2. Tail(w) \in Seq(Alphabet)
      BY <2>1, BrokenPieces, Zenon
    <2>3. t = WriteByte(s, "[")
      BY <1>4, <2>1, Zenon
    <2>4. IsConsole(s) /\ s.args \in [0 .. NPAR - 1 -> Nat]
      BY DEF Sound
    <2>5. /\ Toned(s, t) /\ t.state = "have_lbracket" /\ t.argc = 0
          /\ t.args = [s.args EXCEPT ![0] = 0]
      BY <1>6, <2>3, <2>4, OnSecondBracket
    <2>6. t.argc \in Nat /\ t.args \in [0 .. NPAR - 1 -> Nat]
      <3>1. 0 \in 0 .. NPAR - 1 /\ 0 \in Nat
        BY DEF NPAR
      <3> QED
        BY <2>4, <2>5, <3>1, ArgumentSet
    <2>7. Sound(t)
      BY <2>5, <2>6, TonedSound
    <2>8. Breaks(t, Tail(w))
      BY <2>1, <2>5, Zenon DEF Breaks
    <2> QED
      BY <1>4, <2>2, <2>7, <2>8, Zenon DEF Ahead
  <1>7. CASE s.state = "have_lbracket" /\ s.ign = FALSE /\ w = <<"1", "nl">>
    <2>1. Head(w) = "1" /\ Tail(w) = <<"nl">>
      BY <1>7
    <2>2. Tail(w) \in Seq(Alphabet)
      BY <2>1, BrokenPieces, Zenon
    <2>3. TookDigit(s, t, 0, Value("1"))
      BY <1>3, <1>4, <1>7, <2>1, FirstDigit, Zenon
    <2>4. Breaks(t, Tail(w)) /\ Sound(t)
      BY <2>1, <2>3, Zenon DEF Breaks, TookDigit
    <2> QED
      BY <1>4, <2>2, <2>4, Zenon DEF Ahead
  <1>8. CASE s.state = "have_lbracket" /\ w \in {<<"A">>, <<";">>}
    <2>1. Head(w) \in {"A", ";"} /\ Tail(w) = <<>>
      BY <1>8, BrokenPieces, Zenon
    <2>2. Head(w) # "esc" /\ Head(w) # "[" /\ Head(w) \notin Range(Digits)
      BY <1>3, <2>1
    <2>3. Sound(t) /\ t.state = "need_esc" /\ t.ign = FALSE
      BY <1>4, <1>8, <2>2, OnBareCommand
    <2> QED
      BY <1>2, <1>4, <2>1, <2>3, Zenon DEF Ahead, Rests
  <1>9. CASE s.state = "have_arg" /\ w = <<"nl">>
    <2>1. Head(w) = "nl" /\ Tail(w) = <<>>
      BY <1>9
    <2>2. Head(w) # "esc" /\ Head(w) # ";" /\ Head(w) # "m" /\ Head(w) \notin Range(Digits)
      BY <1>3, <2>1
    <2>3. Sound(t) /\ t.state = "need_esc" /\ t.ign = FALSE
      BY <1>4, <1>9, <2>2, OnCommand
    <2> QED
      BY <1>2, <1>4, <2>1, <2>3, Zenon DEF Ahead, Rests
  <1>10. Breaks(s, w) => \/ /\ s.state = "have_esc" /\ s.ign = FALSE
                            /\ w \in {<<"[", "[", "A">>, <<"[", "1", "nl">>, <<"[", ";">>}
                         \/ s.state = "have_lbracket" /\ w = <<"[", "A">>
                         \/ s.state = "have_lbracket" /\ s.ign = FALSE /\ w = <<"1", "nl">>
                         \/ s.state = "have_lbracket" /\ w \in {<<"A">>, <<";">>}
                         \/ s.state = "have_arg" /\ w = <<"nl">>
    BY Zenon DEF Breaks
  <1> QED
    BY <1>5, <1>6, <1>7, <1>8, <1>9, <1>10, Zenon

\* Every byte is taken as it should be.
LEMMA AheadStep ==
  ASSUME NEW s, NEW w, Ahead(s, w), w # <<>>
  PROVE  Ahead(WriteByte(s, Head(w)), Tail(w))
  <1>1. Sound(s) /\ w \in Seq(Alphabet)
    BY Zenon DEF Ahead
  <1>2. CASE Rests(s) /\ (w = <<>> \/ Piece(w))
    BY <1>1, <1>2, StartStep, Zenon
  <1>3. ASSUME NEW k \in Sent, Follows(k, s, w)
        PROVE  Ahead(WriteByte(s, Head(w)), Tail(w))
    <2>1. k \in Commands /\ s.ign = FALSE
      BY <1>3, Zenon DEF Sent, Follows
    <2>2. Follows(k, WriteByte(s, Head(w)), Tail(w))
      <3>1. CASE s.state = "have_esc" /\ w = <<"[">> \o BytesFrom(k)[0]
        BY <1>1, <2>1, <3>1, FollowsBracket
      <3>2. CASE s.state = "have_lbracket" /\ w = BytesFrom(k)[0]
        BY <1>1, <2>1, <3>2, FollowsFirst
      <3>3. CASE Within(k, s, w)
        BY <1>1, <2>1, <3>3, FollowsNumber
      <3> QED
        BY <1>3, <3>1, <3>2, <3>3, Zenon DEF Follows
    <2>3. Sound(WriteByte(s, Head(w))) /\ Tail(w) \in Seq(Alphabet)
      BY <2>2, Zenon DEF Follows
    <2> QED
      BY <2>2, <2>3, Zenon DEF Ahead
  <1>4. CASE Breaks(s, w)
    BY <1>1, <1>4, BreakStep, Zenon
  <1> QED
    BY <1>2, <1>3, <1>4, Zenon DEF Ahead

\* Placing the cursor leaves the parser and the colours alone.
LEMMA AheadPlaced ==
  ASSUME NEW s, NEW w, Ahead(s, w)
  PROVE  Ahead(Placed(s), w)
  <1>1. PICK t : t = Placed(s)
    OBVIOUS
  <1>2. Sound(s) /\ w \in Seq(Alphabet)
    BY Zenon DEF Ahead
  <1>3. Shown(s, t)
    BY <1>1, <1>2, ShownCursor DEF Sound
  <1>4. Sound(t)
    BY <1>2, <1>3, ShownSound
  <1>5. t.state = s.state /\ t.args = s.args /\ t.argc = s.argc /\ t.ign = s.ign
    BY <1>3 DEF Shown
  <1>6. Rests(s) => Rests(t)
    BY <1>5, Zenon DEF Rests
  <1>7. Breaks(s, w) => Breaks(t, w)
    BY <1>5 DEF Breaks
  <1>8. ASSUME NEW k \in Sent, Follows(k, s, w)
        PROVE  Follows(k, t, w)
    <2>1. Within(k, s, w) => Within(k, t, w)
      BY <1>5, Zenon DEF Within, Given
    <2> QED
      BY <1>4, <1>5, <1>8, <2>1, Zenon DEF Follows
  <1> QED
    BY <1>1, <1>2, <1>4, <1>6, <1>7, <1>8, Zenon DEF Ahead

\* g holds the state before the bytes, after the first of them, after the
\* second, and so on.
ByteByByte(g, s, bytes) ==
    /\ WriteBytes(s, bytes) = g[Len(bytes)]
    /\ g[0] = s
    /\ \A i \in 1..Len(bytes) : g[i] = WriteByte(g[i - 1], bytes[i])

\* A write goes through such states.
LEMMA WriteBytesByteByByte ==
  ASSUME NEW s, NEW bytes, Len(bytes) \in Nat
  PROVE  \E g : ByteByByte(g, s, bytes)
  BY WriteBytesRun DEF ByteByByte

\* One write: the first n of the bytes to come.
LEMMA AheadWrite ==
  ASSUME NEW s, NEW w, Ahead(s, w), NEW n \in 0..Len(w)
  PROVE  Ahead(write_tty(s, SubSeq(w, 1, n)), SubSeq(w, n + 1, Len(w)))
  <1>1. w \in Seq(Alphabet)
    BY Zenon DEF Ahead
  <1>2. PICK l \in Nat : l = Len(w)
    BY <1>1, LenProperties, Zenon
  <1>3. PICK b : b = SubSeq(w, 1, n)
    OBVIOUS
  <1>4. n \in 0..l /\ n \in Nat /\ \A i \in 1..n : i \in 1..l
    BY <1>2
  <1>5. Len(b) = n /\ \A i \in 1..n : b[i] = w[i]
    <2>1. \A i \in 1..n : w[i] \in Alphabet
      BY <1>1, <1>2, <1>4, ElementOfSeq, Zenon
    <2>2. 1 \in Int /\ n \in Int
      BY <1>4
    <2>3. /\ Len(b) = IF 1 <= n THEN n - 1 + 1 ELSE 0
          /\ \A i \in 1..(n - 1 + 1) : b[i] = w[1 + i - 1]
      BY <1>3, <2>1, <2>2, SubSeqProperties
    <2>4. n - 1 + 1 = n /\ \A i \in 1..n : 1 + i - 1 = i
      BY <1>4
    <2> QED
      BY <1>4, <2>3, <2>4
  <1>6. PICK g : /\ WriteBytes(s, b) = g[n] /\ g[0] = s
                 /\ \A i \in 1..n : g[i] = WriteByte(g[i - 1], b[i])
    <2>1. Len(b) \in Nat
      BY <1>4, <1>5
    <2>2. PICK g : ByteByByte(g, s, b)
      BY <2>1, WriteBytesByteByByte, Zenon
    <2> QED
      BY <1>5, <2>2, Zenon DEF ByteByByte
  <1> DEFINE S == {i \in 0..n : Ahead(g[i], SubSeq(w, i + 1, l))}
  <1>7. 0 \in S
    <2>1. SubSeq(w, 0 + 1, l) = w
      BY <1>1, <1>2, SubSeqFull
    <2>2. 0 \in 0..n
      BY <1>4
    <2> QED
      BY <1>6, <2>1, <2>2, Zenon
  <1>8. ASSUME NEW i \in 1..n, i - 1 \in S
        PROVE  i \in S
    <2>1. i \in 0..n /\ i \in 1..l /\ l \in i..l /\ (i - 1) + 1 = i
      BY <1>4
    <2>2. PICK v : v = SubSeq(w, i, l)
      OBVIOUS
    <2>3. Ahead(g[i - 1], v)
      BY <1>8, <2>1, <2>2, Zenon
    <2>4. Head(v) = w[i] /\ Tail(v) = SubSeq(w, i + 1, l)
      BY <1>1, <1>2, <2>1, <2>2, HeadTailOfSubSeq
    <2>5. v # <<>>
      <3>1. v = <<w[i]>> \o SubSeq(w, i + 1, l)
        BY <1>1, <1>2, <2>1, <2>2, SubSeqRecursiveFirst
      <3>2. v \in Seq(Alphabet)
        BY <2>3, Zenon DEF Ahead
      <3>3. Len(v) = l - i + 1
        <4>1. \A m \in i..l : w[m] \in Alphabet
          <5>1. \A m \in i..l : m \in 1..Len(w)
            BY <1>2, <2>1
          <5> QED
            BY <1>1, <5>1, ElementOfSeq, Zenon
        <4>2. i \in Int /\ l \in Int /\ i <= l
          BY <2>1
        <4> QED
          BY <2>2, <4>1, <4>2, SubSeqProperties
      <3> QED
        BY <2>1, <3>3
    <2>6. Ahead(WriteByte(g[i - 1], Head(v)), Tail(v))
      BY <2>3, <2>5, AheadStep, Zenon
    <2>7. g[i] = WriteByte(g[i - 1], Head(v))
      BY <1>5, <1>6, <2>4, Zenon
    <2> QED
      BY <2>1, <2>4, <2>6, <2>7, Zenon
  <1>9. n \in S
    <2> HIDE DEF S
    <2>1. n \in 0..n
      BY <1>4
    <2> QED
      BY <1>4, <1>7, <1>8, <2>1, TurnByTurn, Zenon
  <1>10. Ahead(WriteBytes(s, b), SubSeq(w, n + 1, l))
    BY <1>6, <1>9, Zenon
  <1> QED
    BY <1>2, <1>3, <1>10, AheadPlaced, Zenon DEF write_tty
----------------------------------------------------------------------------
\* The console keeps all this.

\* After exit: what the program found on the screen is back.
Ended(s) ==
  /\ s.state = "exited" /\ s.ign = FALSE /\ s.blink = 1 /\ s.shape = "initial"
  /\ "reverse" \notin Uses => Visible(s)
\* The invariant: the parser is where the bytes still to be written need it, or
\* the program has ended.
ConsoleInv ==
  \/ Ahead(con, unwritten)
  \/ unwritten = <<>> /\ Ended(con)

\* The console starts in the invariant.
LEMMA ConsoleStarts ==
  ConsoleInit => ConsoleInv
  <1> SUFFICES ASSUME ConsoleInit
               PROVE  ConsoleInv
    OBVIOUS
  <1>1. PICK x, y :
          con = [state |-> "need_esc", args |-> [i \in 0 .. NPAR - 1 |-> 0], argc |-> 0, ign |-> FALSE,
              col |-> x, row |-> y, scr |-> [p \in Cells |-> p], fg |-> 7, bg |-> 0,
              cur_blink |-> 1, blink |-> 1, shape |-> "initial", changed |-> FALSE, fault |-> FALSE]
    BY Zenon DEF ConsoleInit
  <1>2. unwritten = <<>>
    BY Zenon DEF ConsoleInit
  <1>3. IsConsole(con)
    BY <1>1 DEF IsConsole, ConsoleFields
  <1>4. /\ con.state = "need_esc" /\ con.ign = FALSE /\ con.argc = 0 /\ con.fg = 7 /\ con.bg = 0
        /\ con.blink = 1 /\ con.cur_blink = 1 /\ con.args = [i \in 0 .. NPAR - 1 |-> 0]
    BY <1>1
  <1>5. con.args \in [0 .. NPAR - 1 -> Nat] /\ con.argc \in Nat
    BY <1>4
  <1>6. Noted(con) /\ Legible(con)
    BY <1>4 DEF Noted, Legible, Coloured, Visible, Dim
  <1>7. Sound(con) /\ Rests(con)
    BY <1>3, <1>4, <1>5, <1>6, Zenon DEF Sound, Rests
  <1>8. <<>> \in Seq(Alphabet)
    BY EmptySeq
  <1> QED
    BY <1>2, <1>7, <1>8, Zenon DEF ConsoleInv, Ahead

\* Between the pieces the parser rests.
LEMMA ReadyRests ==
  ASSUME ConsoleInv, Ready
  PROVE  Sound(con) /\ Rests(con)
  <1>1. unwritten = <<>> /\ con.state # "exited"
    BY Zenon DEF Ready
  <1>2. Ahead(con, <<>>)
    BY <1>1, Zenon DEF ConsoleInv, Ended
  <1> QED
    BY <1>2, AheadOfNothing

\* A piece is sent.
LEMMA PieceSent ==
  ASSUME ConsoleInv, Ready, NEW w \in Seq(Alphabet), Piece(w), NEW meant, Send(w, meant)
  PROVE  ConsoleInv'
  <1>1. Ahead(con, w)
    BY ReadyRests, Zenon DEF Ahead
  <1>2. PICK n \in 1..Len(w) : /\ con' = write_tty(con, SubSeq(w, 1, n))
                               /\ unwritten' = SubSeq(w, n + 1, Len(w))
    BY Zenon DEF Send
  <1>3. n \in 0..Len(w)
    <2>1. PICK l \in Nat : l = Len(w)
      BY LenProperties, Zenon
    <2>2. \A m \in 1..l : m \in 0..l
      OBVIOUS
    <2> QED
      BY <2>1, <2>2, Zenon
  <1>4. Ahead(con', unwritten')
    BY <1>1, <1>2, <1>3, AheadWrite, Zenon
  <1> QED
    BY <1>4, Zenon DEF ConsoleInv

\* What a command is made of.
LEMMA BytesOfCommand ==
  ASSUME NEW k \in Commands
  PROVE  Bytes(k) \in Seq(Alphabet)
  <1>1. 0 \in 0..Len(k.ps)
    <2>1. PICK n \in 0..NPAR : n = Len(k.ps)
      BY CommandKnown, Zenon
    <2>2. 0 \in 0..n
      BY DEF NPAR
    <2> QED
      BY <2>1, <2>2, Zenon
  <1>2. BytesFrom(k)[0] \in Seq(Alphabet)
    BY <1>1, BytesFromRun, Zenon
  <1>3. "esc" \in Alphabet /\ "[" \in Alphabet
    BY DEF Alphabet
  <1>4. <<"esc", "[">> \in Seq(Alphabet)
    BY <1>3, Bytes2, Zenon
  <1> QED
    BY <1>2, <1>4, ConcatProperties, Zenon DEF Bytes

\* Colours are reversed only where that use is allowed.
LEMMA CommandSent ==
  ASSUME NEW k \in Commands, Wrong(k) \subseteq Uses
  PROVE  k \in Sent
  <1> SUFFICES ASSUME "reverse" \notin Uses, k.cmd = "m", Contains(k.ps, 7)
               PROVE  FALSE
    BY Zenon DEF Sent
  <1>1. "reverse" # "edge" /\ "reverse" # "insert_line" /\ "reverse" # "insert_char"
        /\ "reverse" # "delete_line" /\ "reverse" # "erase_char" /\ "reverse" # "erase_above"
    OBVIOUS
  <1>2. "reverse" \in Wrong(k)
    BY <1>1, Zenon DEF Wrong
  <1> QED
    BY <1>2, Zenon

\* Every step keeps the invariant.
LEMMA ConsoleStays ==
  ConsoleInv /\ [ConsoleNext]_console_vars => ConsoleInv'
  <1> SUFFICES ASSUME ConsoleInv, [ConsoleNext]_console_vars
               PROVE  ConsoleInv'
    OBVIOUS
  <1>1. CASE SendCommand
    <2>1. PICK k \in Commands :
            Wrong(k) \subseteq Uses /\ Send(Bytes(k), MeantCommand(con, k.cmd, k.ps))
      BY <1>1, Zenon DEF SendCommand
    <2>2. Ready
      BY <1>1, Zenon DEF SendCommand
    <2>3. Piece(Bytes(k)) /\ Bytes(k) \in Seq(Alphabet)
      BY <2>1, CommandSent, BytesOfCommand, Zenon DEF Piece
    <2> QED
      BY <2>1, <2>2, <2>3, PieceSent, Zenon
  <1>2. CASE SendCharacter
    <2>1. PICK b \in Characters : Send(<<b>>, MeantCharacter(con, b))
      BY <1>2, Zenon DEF SendCharacter
    <2>2. Ready
      BY <1>2, Zenon DEF SendCharacter
    <2>3. b \in Alphabet
      BY DEF Characters, Alphabet
    <2>4. Piece(<<b>>) /\ <<b>> \in Seq(Alphabet)
      BY <2>3, Bytes1, Zenon DEF Piece
    <2> QED
      BY <2>1, <2>2, <2>4, PieceSent, Zenon
  <1>3. CASE SendBroken
    <2>1. PICK b \in Broken : Send(b, <<con.col, con.row, con.scr>>)
      BY <1>3, Zenon DEF SendBroken
    <2>2. Ready
      BY <1>3, Zenon DEF SendBroken
    <2>3. Piece(b) /\ b \in Seq(Alphabet)
      BY BrokenPieces, Zenon DEF Piece, Broken
    <2> QED
      BY <2>1, <2>2, <2>3, PieceSent, Zenon
  <1>4. CASE WriteRest
    <2>1. unwritten # <<>> /\ unwritten' = <<>> /\ con' = write_tty(con, unwritten)
      BY <1>4, Zenon DEF WriteRest
    <2>2. Ahead(con, unwritten)
      BY <2>1, Zenon DEF ConsoleInv
    <2>3. unwritten \in Seq(Alphabet)
      BY <2>2, Zenon DEF Ahead
    <2>4. PICK n \in Nat : n = Len(unwritten)
      BY <2>3, LenProperties, Zenon
    <2>5. n \in 0..n /\ n + 1 \in Int /\ n \in Int /\ n < n + 1
      BY <2>4
    <2>6. SubSeq(unwritten, 1, n) = unwritten /\ SubSeq(unwritten, n + 1, n) = <<>>
      BY <2>3, <2>4, <2>5, SubSeqFull, SubSeqEmpty, Zenon
    <2>7. Ahead(write_tty(con, SubSeq(unwritten, 1, n)), SubSeq(unwritten, n + 1, n))
      BY <2>2, <2>4, <2>5, AheadWrite, Zenon
    <2> QED
      BY <2>1, <2>6, <2>7, Zenon DEF ConsoleInv
  <1>5. CASE Exit
    <2>1. con' = restore_video_state(con) /\ unwritten' = unwritten /\ Ready
      BY <1>5, Zenon DEF Exit
    <2>2. Sound(con) /\ Rests(con)
      BY <2>1, ReadyRests
    <2>3. IsConsole(con) /\ Noted(con) /\ ("reverse" \notin Uses => Legible(con)) /\ con.ign = FALSE
      BY <2>2 DEF Sound, Rests
    <2>4. /\ con'.state = "exited" /\ con'.shape = "initial" /\ con'.ign = con.ign
          /\ con'.blink = (IF con.cur_blink # 1 THEN 1 ELSE con.blink)
          /\ con'.fg = con.fg /\ con'.bg = con.bg
      BY <2>1, <2>3 DEF restore_video_state, IsConsole, ConsoleFields
    <2>5. con'.blink = 1
      BY <2>3, <2>4 DEF Noted
    <2>6. Legible(con) => Visible(con')
      <3>1. con.bg \in 0..15 /\ con.bg < 8 => Dim(con.bg) = con.bg
        BY DEF Dim
      <3> QED
        BY <2>3, <2>4, <2>5, <3>1 DEF Legible, Coloured, Visible, Noted
    <2>7. Ended(con')
      BY <2>3, <2>4, <2>5, <2>6, Zenon DEF Ended
    <2>8. unwritten' = <<>>
      BY <2>1, Zenon DEF Ready
    <2> QED
      BY <2>7, <2>8, Zenon DEF ConsoleInv
  <1>6. CASE UNCHANGED console_vars
    <2>1. con' = con /\ unwritten' = unwritten
      BY <1>6 DEF console_vars
    <2> QED
      BY <2>1, Zenon DEF ConsoleInv
  <1> QED
    BY <1>1, <1>2, <1>3, <1>4, <1>5, <1>6, Zenon DEF ConsoleNext

\* So it always holds.
LEMMA ConsoleAlways ==
  ConsoleSpec => []ConsoleInv
  BY ConsoleStarts, ConsoleStays, PTL DEF ConsoleSpec

(* However output is cut and whatever commands switch, the program exits with
   blinking and the cursor shape as it found them (tmwrite.c:787): the library
   always knows how the adapter blinks. *)
THEOREM VideoAlwaysRestored ==
  ConsoleSpec => []ExitRestoresVideo
  <1>1. ConsoleInv => ExitRestoresVideo
    BY Zenon DEF ConsoleInv, ExitRestoresVideo, Ended, Ahead, Rests, Follows, Breaks, Within
  <1> QED
    BY <1>1, ConsoleAlways, PTL

(* No sequence of colour commands leaves the text invisible (tmwrite.c:628),
   where nobody reverses the colours: the one colour command that may leave a
   bright background which does not blink. *)
THEOREM TextAlwaysVisible ==
  ASSUME "reverse" \notin Uses
  PROVE  ConsoleSpec => []TextVisible
  <1>1. ConsoleInv => TextVisible
    <2>1. ConsoleInv => Visible(con)
      BY Zenon DEF ConsoleInv, Ahead, Ended, Sound, Legible
    <2> QED
      BY <2>1, Zenon DEF Visible, TextVisible
  <1> QED
    BY <1>1, ConsoleAlways, PTL

(* Between two pieces of output the parser is at rest, whatever the first one
   was and wherever writes cut it: no broken command reaches into what follows
   (tmwrite.c:180-203, 248, 358). *)
THEOREM ParserAlwaysRests ==
  ConsoleSpec => [](unwritten = <<>> => con.state \in {"need_esc", "exited"} /\ ~ con.ign)
  <1>1. ConsoleInv => (unwritten = <<>> => con.state \in {"need_esc", "exited"} /\ ~ con.ign)
    <2> SUFFICES ASSUME ConsoleInv, unwritten = <<>>
                 PROVE  con.state \in {"need_esc", "exited"} /\ ~ con.ign
      OBVIOUS
    <2>1. CASE Ahead(con, unwritten)
      <3>1. Rests(con)
        BY <2>1, AheadOfNothing, Zenon
      <3> QED
        BY <3>1 DEF Rests
    <2>2. CASE Ended(con)
      BY <2>2 DEF Ended
    <2> QED
      BY <2>1, <2>2, Zenon DEF ConsoleInv
  <1> QED
    BY <1>1, ConsoleAlways, PTL
=============================================================================
