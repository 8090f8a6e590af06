---------------------------- MODULE StdioProofs ----------------------------
(***************************************************************************)
(* Theorems about Stdio, for every file, buffer size, disk and number of   *)
(* calls: a program that avoids the three uses in Misuses never drives the *)
(* count or the pointer of a FILE out of its buffer, and never leaves      *)
(* garbage in the file.                                                    *)
(*                                                                         *)
(* fwrite, fread and the growth of the read ahead are loops.  They are     *)
(* reasoned about turn by turn, with the lemmas of Loops.                  *)
(***************************************************************************)
EXTENDS Stdio, Loops, SequenceTheorems, TLAPS

\* The parts of a FILE that a step may leave alone.
SameFlags(st, n) ==
  /\ n.open = st.open
  /\ n.rw = st.rw
  /\ n.rd = st.rd
  /\ n.wr = st.wr
  /\ n.eof = st.eof

\* The buffer, its kind and the place in it.
SameBuffer(st, n) ==
  /\ n.kind = st.kind
  /\ n.base = st.base
  /\ n.cnt = st.cnt
  /\ n.ptr = st.ptr
  /\ n.bufsiz = st.bufsiz
  /\ n.mem = st.mem

\* Only the file, the position in it and the error flags differ.
Kept(st, n) ==
  /\ SameFlags(st, n)
  /\ SameBuffer(st, n)
  /\ n.fill = st.fill
  /\ n.app = st.app

\* The file holds bytes, and a position behind its end is known to be there by a seek.
Filed(st) ==
  /\ st.disk \in Seq(Bytes)
  /\ st.gap \/ st.pos <= Len(st.disk)

\* A file of bytes is a file in the sense of FILE.
LEMMA BytesAndGarbage == Seq(Bytes) \subseteq Seq(Bytes \cup {"garbage"})
  OBVIOUS

\* A write that starts inside the file leaves bytes and no garbage.
LEMMA Stores ==
  ASSUME NEW disk \in Seq(Bytes), NEW p \in 0..Len(disk), NEW data \in Seq(Bytes),
         NEW n, n = Store(disk, p, data)
  PROVE  n \in Seq(Bytes) /\ Len(n) >= p + Len(data)
  <1>1. PICK m \in Nat : m = Max2(Len(disk), p + Len(data))
    BY DEF Max2
  <1>2. m >= p + Len(data) /\ (m = Len(disk) \/ m = p + Len(data))
    BY <1>1 DEF Max2
  <1>3. PICK v : v = [i \in 1..m |-> IF i \in (p + 1)..(p + Len(data)) THEN data[i - p]
                                     ELSE IF i <= Len(disk) THEN disk[i] ELSE "garbage"]
    OBVIOUS
  <1>4. ASSUME NEW i \in 1..m
        PROVE  v[i] \in Bytes
    <2>1. CASE i \in (p + 1)..(p + Len(data))
      <3>1. i - p \in 1..Len(data) /\ v[i] = data[i - p]
        BY <1>3, <2>1
      <3> QED
        BY <3>1
    <2>2. CASE i \notin (p + 1)..(p + Len(data))
      <3>1. i \in 1..Len(disk)
        BY <1>2, <2>2
      <3>2. v[i] = disk[i]
        BY <1>3, <2>2, <3>1
      <3> QED
        BY <3>1, <3>2
    <2> QED
      BY <2>1, <2>2
  <1>5. v \in [1..m -> Bytes]
    BY <1>3, <1>4
  <1>6. v \in Seq(Bytes) /\ Len(v) = m
    BY <1>1, <1>5
  <1> QED
    BY <1>1, <1>2, <1>3, <1>6 DEF Store

\* Where lseek counts from.
Whences == {"SET", "CUR", "END"}

\* lseek notes every position that it may put behind the end of the file.
LEMMA Seeks ==
  ASSUME NEW st \in FILE, NEW off \in Int, NEW whence \in Whences,
         NEW n, n = lseek(st, off, whence), n.pos \in Nat, Filed(st)
  PROVE  n \in FILE /\ Kept(st, n) /\ Filed(n)
  <1>1. PICK p : p = off + (CASE whence = "SET" -> 0 [] whence = "CUR" -> st.pos
                              [] whence = "END" -> Len(st.disk))
    OBVIOUS
  <1>2. PICK g : g = IF off > 0 THEN TRUE ELSE IF whence = "CUR" THEN st.gap ELSE FALSE
    OBVIOUS
  <1>3. n = [st EXCEPT !.pos = p, !.gap = g]
    BY <1>1, <1>2, Zenon DEF lseek
  <1>4. /\ g \in BOOLEAN /\ st.pos \in Nat /\ Len(st.disk) \in Nat
    <2>1. st.gap \in BOOLEAN /\ st.pos \in Nat /\ st.disk \in Seq(Bytes \cup {"garbage"})
      BY Zenon DEF FILE
    <2>2. g \in BOOLEAN
      BY <1>2, <2>1, Zenon
    <2> QED
      BY <2>1, <2>2
  <1>5. n.pos = p
    BY <1>3, Zenon DEF FILE
  <1>6. n \in FILE /\ Kept(st, n) /\ n.disk = st.disk /\ n.pos = p /\ n.gap = g
    BY <1>3, <1>4, <1>5, Zenon DEF FILE, Kept, SameFlags, SameBuffer
  <1>7. g \/ p <= Len(st.disk)
    BY <1>1, <1>2, <1>4 DEF Filed, Whences
  <1> QED
    BY <1>6, <1>7 DEF Filed

\* After _write_fill_seek_gap the position is in the file or at its end.
LEMMA FillsGap ==
  ASSUME NEW st \in FILE, Filed(st), NEW n, n = _write_fill_seek_gap(st)
  PROVE  /\ n \in FILE /\ Kept(st, n) /\ n.err = st.err
         /\ n.disk \in Seq(Bytes) /\ n.pos <= Len(n.disk)
  <1>1. CASE st.gap /\ st.pos > Len(st.disk)
    <2>1. PICK v : v = [i \in 1..st.pos |-> IF i <= Len(st.disk) THEN st.disk[i] ELSE "0"]
      OBVIOUS
    <2>2. st.pos \in Nat
      BY DEF FILE
    <2>3. v \in [1..st.pos -> Bytes]
      BY <2>1, <2>2, StdioAssumption DEF Filed
    <2>4. v \in Seq(Bytes) /\ Len(v) = st.pos /\ st.pos <= st.pos
      BY <2>2, <2>3
    <2>5. n = [st EXCEPT !.disk = v, !.gap = FALSE]
      BY <1>1, <2>1, Zenon DEF _write_fill_seek_gap
    <2>6. v \in Seq(Bytes \cup {"garbage"})
      BY <2>4, BytesAndGarbage, Zenon
    <2>7. n \in FILE /\ Kept(st, n) /\ n.disk = v /\ n.err = st.err /\ n.pos = st.pos
      BY <2>5, <2>6, Zenon DEF FILE, Kept, SameFlags, SameBuffer
    <2> QED
      BY <2>4, <2>7, Zenon
  <1>2. CASE ~(st.gap /\ st.pos > Len(st.disk))
    <2>1. n = [st EXCEPT !.gap = FALSE]
      BY <1>2, Zenon DEF _write_fill_seek_gap
    <2>2. st.pos \in Nat /\ Len(st.disk) \in Nat
      BY DEF FILE, Filed
    <2>3. /\ n \in FILE /\ Kept(st, n)
          /\ n.err = st.err /\ n.disk = st.disk /\ n.pos = st.pos
      BY <2>1, Zenon DEF FILE, Kept, SameFlags, SameBuffer
    <2>4. st.pos <= Len(st.disk)
      BY <1>2, <2>2 DEF Filed
    <2> QED
      BY <2>3, <2>4, Zenon DEF Filed
  <1> QED
    BY <1>1, <1>2, Zenon

\* Two steps that keep the buffer keep it together.
LEMMA KeptBoth ==
  ASSUME NEW a, NEW b, NEW c, Kept(a, b), Kept(b, c)
  PROVE  Kept(a, c)
  BY Zenon DEF Kept, SameFlags, SameBuffer

\* _write, also one that fails, leaves a file of bytes and the buffer as it was.
LEMMA Writes ==
  ASSUME NEW st \in FILE, Filed(st), NEW data \in Seq(Bytes), NEW n, n = _write(st, data)
  PROVE  n \in FILE /\ Kept(st, n) /\ Filed(n)
  <1>1. PICK f : f = _write_fill_seek_gap(st)
    OBVIOUS
  <1>2. f \in FILE /\ Kept(st, f) /\ f.disk \in Seq(Bytes) /\ f.pos <= Len(f.disk)
    BY <1>1, FillsGap, Zenon
  <1>3. PICK k : k = Min2(Len(data), Max2(Cap - f.pos, 0))
    OBVIOUS
  <1>4. f.pos \in 0..Len(f.disk) /\ f.pos \in Nat
    BY <1>2 DEF FILE
  <1>5. k \in 0..Len(data)
    BY <1>3, <1>4, StdioAssumption DEF Min2, Max2
  <1>6. PICK d : d = SubSeq(data, 1, k)
    OBVIOUS
  <1>7. d \in Seq(Bytes) /\ Len(d) = k
    BY <1>5, <1>6
  <1>8. PICK v : v = Store(f.disk, f.pos, d)
    OBVIOUS
  <1>9. v \in Seq(Bytes) /\ Len(v) >= f.pos + k
    BY <1>2, <1>4, <1>7, <1>8, Stores
  <1>10. PICK p \in Nat : p = f.pos + k
    BY <1>4, <1>5
  <1>11. PICK e \in BOOLEAN : e = (f.err \/ k < Len(data))
    OBVIOUS
  <1>12. n = [f EXCEPT !.disk = v, !.pos = p, !.err = e]
    BY <1>1, <1>3, <1>6, <1>8, <1>10, <1>11, Zenon DEF _write
  <1>13. v \in Seq(Bytes \cup {"garbage"})
    BY <1>9, BytesAndGarbage, Zenon
  <1>14. n \in FILE /\ Kept(f, n) /\ n.disk = v /\ n.pos = p
    BY <1>2, <1>12, <1>13, ZenonT(60) DEF FILE, Kept, SameFlags, SameBuffer
  <1>15. p <= Len(v)
    BY <1>4, <1>5, <1>9, <1>10
  <1> QED
    BY <1>2, <1>9, <1>14, <1>15, KeptBoth, Zenon DEF Filed

\* So does the seek of a stream that appends.
LEMMA SeeksEnd ==
  ASSUME NEW st \in FILE, Filed(st), NEW n, n = SeekEnd(st)
  PROVE  n \in FILE /\ Kept(st, n) /\ Filed(n)
  <1>1. CASE st.app
    <2>1. n = lseek(st, 0, "END")
      BY <1>1, Zenon DEF SeekEnd
    <2>2. PICK p : p = 0 + (CASE "END" = "SET" -> 0 [] "END" = "CUR" -> st.pos
                              [] "END" = "END" -> Len(st.disk))
      OBVIOUS
    <2>3. p \in Nat
      BY <2>2 DEF FILE
    <2>4. n.pos = p
      BY <2>1, <2>2, Zenon DEF lseek, FILE
    <2>5. "END" \in Whences /\ 0 \in Int
      BY DEF Whences
    <2> QED
      BY <2>1, <2>3, <2>4, <2>5, Seeks
  <1>2. CASE ~st.app
    BY <1>2, Zenon DEF SeekEnd, Kept, SameFlags, SameBuffer
  <1> QED
    BY <1>1, <1>2, Zenon

\* What waits in the buffer are bytes.
LEMMA Pendings ==
  ASSUME NEW st \in FILE
  PROVE  Pending(st) \in Seq(Bytes)
  <1>1. st.ptr \in 0..MaxBuf /\ st.mem \in [0..(MaxBuf - 1) -> Bytes] /\ MaxBuf \in Nat
    BY StdioAssumption DEF FILE
  <1>2. \A i \in 1..st.ptr : st.mem[i - 1] \in Bytes
    BY <1>1
  <1>3. Pending(st) \in [1..st.ptr -> Bytes]
    BY <1>2 DEF Pending
  <1> QED
    BY <1>1, <1>3

-----------------------------------------------------------------------------
(* The buffer.                                                              *)

\* A buffer, its size and its kind go together; without one nothing is read ahead.
Kinds(st) ==
  /\ st.kind = "NBF" => ~st.base
  /\ st.kind = "LBF" => st.base
  /\ st.base => st.bufsiz >= 1
  /\ ~st.base => st.bufsiz = 0 /\ st.cnt <= 0
  /\ ~st.base /\ st.kind = "FBF" => st.ptr = 0

\* A stream goes one way at a time; an update stream writes only after output.
Directed(st, l) ==
  /\ st.rw => ~(st.rd /\ st.wr)
  /\ st.rw /\ st.wr => l = "out"
  /\ ~st.rw => (st.rd <=> ~st.wr)

\* At the end of the file nothing is buffered.
AtEnd(st) == st.eof => st.ptr = 0 /\ st.cnt <= 0 /\ ~st.wr

\* What may be read, and the pointer, lie inside the buffer.
Inside(st) ==
  st.base => /\ st.ptr + st.cnt <= st.bufsiz
             /\ st.ptr <= st.bufsiz

\* A full buffering writer counts the room left, a line buffering one the bytes stored.
Room(st) ==
  /\ st.base /\ st.wr /\ st.kind = "FBF" /\ (st.ptr > 0 \/ st.cnt > 0) =>
       st.ptr + st.cnt = st.bufsiz
  /\ st.wr /\ st.kind = "LBF" => st.ptr + st.cnt = 0 /\ st.ptr < st.bufsiz

\* An update stream that may be written next has nothing read ahead.
Drained(st, l) == st.base /\ ~st.wr /\ st.rw /\ l # "in" => st.ptr = 0 /\ st.cnt <= 0

\* The state of the buffer between two calls, l being the last of them.
Running(st, l) ==
  Kinds(st) /\ Directed(st, l) /\ AtEnd(st) /\ Inside(st) /\ Room(st) /\ Drained(st, l)

\* The state of an open stream between two calls.
Sound(st, l) == st \in FILE /\ Filed(st) /\ Running(st, l)

\* Running depends on the flags and the buffer alone.
LEMMA RunningKept ==
  ASSUME NEW st, NEW n, NEW l, Running(st, l), SameFlags(st, n), SameBuffer(st, n)
  PROVE  Running(n, l)
  BY DEF Running, Kinds, Directed, AtEnd, Inside, Room, Drained, SameFlags, SameBuffer

\* For a stream with one direction the last call does not matter.
LEMMA OneWay ==
  ASSUME NEW st, NEW l, NEW m, Running(st, l), ~st.rw
  PROVE  Running(st, m)
  BY DEF Running, Kinds, Directed, AtEnd, Inside, Room, Drained

\* The constants as sizes.
LEMMA Numbers ==
  /\ 0 \in 0..MaxBuf /\ 1 \in 0..MaxBuf /\ TB \in 0..MaxBuf /\ TB \in Nat \ {0} /\ TB \in Int
  /\ FILL \in 0..(2 * MaxBuf) /\ 0 \in 0..(2 * MaxBuf) /\ 0 \in Int /\ MaxBuf \in Nat \ {0}
  /\ \A n \in BufSizes : n \in 0..MaxBuf /\ n \in 0..(2 * MaxBuf) /\ n >= 1
  BY StdioAssumption

\* The types of the fields that are no flags.
LEMMA Fields ==
  ASSUME NEW st \in FILE
  PROVE  /\ st.cnt \in Int /\ st.ptr \in 0..MaxBuf /\ st.bufsiz \in 0..MaxBuf
         /\ st.fill \in 0..(2 * MaxBuf) /\ st.pos \in Nat
         /\ st.kind \in {"FBF", "LBF", "NBF"} /\ st.mem \in [0..(MaxBuf - 1) -> Bytes]
         /\ st.bufsiz \in Int
  <1>1. /\ st.cnt \in Int /\ st.ptr \in 0..MaxBuf /\ st.bufsiz \in 0..MaxBuf
        /\ st.fill \in 0..(2 * MaxBuf) /\ st.pos \in Nat
        /\ st.kind \in {"FBF", "LBF", "NBF"} /\ st.mem \in [0..(MaxBuf - 1) -> Bytes]
    BY Zenon DEF FILE
  <1> QED
    BY <1>1

\* The flags.
LEMMA Flags ==
  ASSUME NEW st \in FILE
  PROVE  /\ st.open \in BOOLEAN /\ st.rw \in BOOLEAN /\ st.rd \in BOOLEAN /\ st.wr \in BOOLEAN
         /\ st.eof \in BOOLEAN /\ st.err \in BOOLEAN /\ st.unget \in BOOLEAN
         /\ st.base \in BOOLEAN /\ st.gap \in BOOLEAN /\ st.app \in BOOLEAN
  BY Zenon DEF FILE

\* What Undirected does.
LEMMA Undirects ==
  ASSUME NEW st, NEW l, Sound(st, l), NEW n, n = Undirected(st)
  PROVE  /\ Sound(n, l) /\ Sound(n, "none") /\ n.open = st.open /\ n.rw = st.rw
         /\ n.kind = st.kind /\ n.base = st.base /\ n.bufsiz = st.bufsiz
         /\ n.cnt \in {st.cnt, 0}
         /\ n.rw => ~n.rd /\ ~n.wr /\ n.ptr = 0 /\ n.cnt = 0
         /\ ~n.rw => n.rd = st.rd /\ n.wr = st.wr
  <1>1. st \in FILE /\ Filed(st) /\ Running(st, l)
    BY DEF Sound
  <1>2. CASE st.rw
    <2>1. n = [st EXCEPT !.cnt = 0, !.rd = FALSE, !.wr = FALSE, !.ptr = 0]
      BY <1>2, Zenon DEF Undirected
    <2>2. /\ n \in FILE /\ n.cnt = 0 /\ n.ptr = 0 /\ ~n.rd /\ ~n.wr
          /\ n.open = st.open /\ n.rw = st.rw /\ n.eof = st.eof /\ n.kind = st.kind
          /\ n.base = st.base /\ n.bufsiz = st.bufsiz
          /\ n.disk = st.disk /\ n.pos = st.pos /\ n.gap = st.gap
      BY <1>1, <2>1, Numbers, ZenonT(60) DEF FILE
    <2>3. Filed(n)
      BY <1>1, <2>2, Zenon DEF Filed
    <2>4. Running(n, l) /\ Running(n, "none")
      BY <1>1, <1>2, <2>2, Fields DEF Running, Kinds, Directed, AtEnd, Inside, Room, Drained
    <2> QED
      BY <1>2, <2>2, <2>3, <2>4, Zenon DEF Sound
  <1>3. CASE ~st.rw
    <2>1. n = st
      BY <1>3, Zenon DEF Undirected
    <2> QED
      BY <1>1, <1>3, <2>1, OneWay, Zenon DEF Sound
  <1> QED
    BY <1>2, <1>3, Zenon

\* What fflush leaves behind.
Flushed(st, l, n, rc) ==
  /\ Sound(n, l)
  /\ n.open = st.open /\ n.rw = st.rw
  /\ rc \in {0, -1}
  /\ n.cnt >= 0 \/ n.cnt = st.cnt
  /\ rc = 0 => Sound(n, "none")
  /\ rc = 0 /\ n.rw => ~n.rd /\ ~n.wr /\ n.ptr = 0 /\ n.cnt = 0
  /\ n.bufsiz = st.bufsiz

\* fflush, whether it writes, fails or has nothing to do.
LEMMA Flushes ==
  ASSUME NEW st, NEW l, Sound(st, l), NEW n, NEW rc, n = Fflush(st)[1], rc = Fflush(st)[2]
  PROVE  Flushed(st, l, n, rc)
  <1>1. st \in FILE /\ Filed(st) /\ Running(st, l)
    BY DEF Sound
  <1>2. PICK f : f = SeekEnd(st)
    OBVIOUS
  <1>3. f \in FILE /\ Kept(st, f) /\ Filed(f)
    BY <1>1, <1>2, SeeksEnd
  <1>4. PICK e : e = [f EXCEPT !.unget = FALSE]
    OBVIOUS
  <1>5. e \in FILE /\ Kept(f, e) /\ e.disk = f.disk /\ e.pos = f.pos /\ e.gap = f.gap
    BY <1>3, <1>4, Zenon DEF FILE, Kept, SameFlags, SameBuffer
  <1>6. Kept(st, e) /\ Filed(e)
    BY <1>3, <1>5, KeptBoth, Zenon DEF Filed
  <1>7. Sound(e, l)
    BY <1>1, <1>5, <1>6, RunningKept DEF Sound, Kept
  <1>8. PICK c : c = IF st.kind = "LBF" THEN 0 ELSE st.bufsiz
    OBVIOUS
  <1>9. PICK x : x = [e EXCEPT !.ptr = 0, !.cnt = c]
    OBVIOUS
  <1>10. PICK w : w = _write(x, Pending(st))
    OBVIOUS
  <1>11. /\ ~HasPending(st) => n = Undirected(e) /\ rc = 0
         /\ HasPending(st) /\ WriteFails(e, Pending(st)) => n = w /\ rc = -1
         /\ HasPending(st) /\ ~WriteFails(e, Pending(st)) => n = Undirected(w) /\ rc = 0
    BY <1>2, <1>4, <1>8, <1>9, <1>10 DEF Fflush
  <1>12. CASE ~HasPending(st)
    <2>1. n = Undirected(e) /\ rc = 0
      BY <1>11, <1>12
    <2> QED
      BY <1>6, <1>7, <2>1, Undirects DEF Flushed, Kept, SameFlags, SameBuffer
  <1>13. CASE HasPending(st)
    <2>1. Sound(w, l) /\ w.open = st.open /\ w.rw = st.rw /\ w.cnt = c /\ w.bufsiz = st.bufsiz
      <3>1. st.kind # "NBF" /\ st.wr /\ st.base /\ st.ptr > 0
        BY <1>13 DEF HasPending
      <3>2. c \in Int /\ c \in 0..MaxBuf
        BY <1>1, <1>8, Fields, Numbers
      <3>3. /\ x \in FILE /\ SameFlags(e, x) /\ x.ptr = 0 /\ x.cnt = c
            /\ x.kind = e.kind /\ x.base = e.base /\ x.bufsiz = e.bufsiz
            /\ x.disk = e.disk /\ x.pos = e.pos /\ x.gap = e.gap
        BY <1>5, <1>9, <3>2, Numbers, Zenon DEF FILE, SameFlags
      <3>4. Filed(x)
        BY <1>6, <3>3, Zenon DEF Filed
      <3>5. Running(x, l)
        <4>1. /\ x.kind = st.kind /\ x.base = st.base /\ x.bufsiz = st.bufsiz
              /\ x.rw = st.rw /\ x.rd = st.rd /\ x.wr = st.wr /\ x.eof = st.eof
          BY <1>6, <3>3, Zenon DEF Kept, SameFlags, SameBuffer
        <4>2. st.bufsiz >= 1 /\ ~st.eof /\ x.ptr = 0 /\ x.cnt = c /\ st.bufsiz \in Int
          BY <1>1, <3>1, <3>3, Fields DEF Running, Kinds, AtEnd
        <4>3. (st.kind = "LBF" => c = 0) /\ (c = 0 \/ c = st.bufsiz)
          BY <1>8
        <4>4. Kinds(x) /\ Directed(x, l)
          BY <1>1, <3>1, <4>1, <4>2 DEF Running, Kinds, Directed
        <4>5. AtEnd(x) /\ Inside(x) /\ Room(x) /\ Drained(x, l)
          BY <3>1, <4>1, <4>2, <4>3 DEF AtEnd, Inside, Room, Drained
        <4> QED
          BY <4>4, <4>5 DEF Running
      <3>6. w \in FILE /\ Kept(x, w) /\ Filed(w)
        BY <1>1, <1>10, <3>3, <3>4, Pendings, Writes
      <3>7. Sound(w, l)
        BY <3>5, <3>6, RunningKept DEF Sound, Kept
      <3> QED
        BY <1>6, <3>3, <3>6, <3>7 DEF Kept, SameFlags, SameBuffer
    <2>c. c \in Nat
      BY <1>1, <1>8, Fields
    <2>2. CASE WriteFails(e, Pending(st))
      BY <1>11, <1>13, <2>c, <2>1, <2>2 DEF Flushed
    <2>3. CASE ~WriteFails(e, Pending(st))
      <3>1. n = Undirected(w) /\ rc = 0
        BY <1>11, <1>13, <2>3
      <3> QED
        BY <2>c, <2>1, <3>1, Undirects DEF Flushed
    <2> QED
      BY <2>2, <2>3
  <1> QED
    BY <1>12, <1>13

\* What ftell does to the count.
LEMMA Tells ==
  ASSUME NEW st, NEW l, Sound(st, l), ~(st.cnt < 0 /\ HasPending(st)),
         NEW n, NEW p, n = Ftell(st)[1], p = Ftell(st)[2]
  PROVE  /\ Sound(n, l) /\ SameFlags(st, n) /\ n.cnt >= 0 /\ n.base = st.base /\ n.kind = st.kind
         /\ p \in Int
  <1>1. st \in FILE /\ Filed(st) /\ Running(st, l)
    BY DEF Sound
  <1>2. PICK c : c = Max2(st.cnt, 0)
    OBVIOUS
  <1>3. c \in Int /\ c >= 0 /\ (c = st.cnt \/ (c = 0 /\ st.cnt < 0))
    BY <1>1, <1>2, Fields DEF Max2
  <1>4. PICK z : z = [st EXCEPT !.cnt = c]
    OBVIOUS
  <1>5. n = z /\ p = IF z.rd THEN z.pos - z.cnt
                     ELSE z.pos + (IF z.wr /\ z.base /\ z.kind # "NBF" THEN z.ptr ELSE 0)
    <2>1. PICK q : q = IF z.rd THEN z.pos - z.cnt
                       ELSE z.pos + (IF z.wr /\ z.base /\ z.kind # "NBF" THEN z.ptr ELSE 0)
      OBVIOUS
    <2>2. Ftell(st) = <<z, q>>
      BY <1>2, <1>4, <2>1 DEF Ftell
    <2> QED
      BY <2>1, <2>2
  <1>6. /\ z \in FILE /\ SameFlags(st, z) /\ z.cnt = c /\ z.ptr = st.ptr
        /\ z.kind = st.kind /\ z.base = st.base /\ z.bufsiz = st.bufsiz
        /\ z.disk = st.disk /\ z.pos = st.pos /\ z.gap = st.gap
    BY <1>1, <1>3, <1>4, Zenon DEF FILE, SameFlags
  <1>7. Filed(z)
    BY <1>1, <1>6, Zenon DEF Filed
  <1>8. Running(z, l)
    <2>1. CASE c = st.cnt
      BY <1>1, <1>6, <2>1 DEF Running, Kinds, Directed, AtEnd, Inside, Room, Drained, SameFlags
    <2>2. CASE c = 0 /\ st.cnt < 0
      <3>1. ~HasPending(st)
        BY <2>2
      <3>2. st.wr => st.kind = "NBF" \/ ~st.base \/ st.ptr <= 0
        BY <1>1, <3>1, Fields DEF HasPending
      <3>3. st.wr /\ st.kind = "LBF" => st.base /\ st.ptr > 0
        BY <1>1, <2>2, Fields DEF Running, Room, Kinds
      <3>4. st.wr => st.kind # "LBF" /\ (st.base => st.ptr = 0)
        BY <1>1, <3>2, <3>3, Fields DEF Running, Kinds
      <3>5. Room(z)
        BY <1>6, <2>2, <3>4 DEF Room, SameFlags
      <3> QED
        BY <1>1, <1>6, <2>2, <3>5, Fields
        DEF Running, Kinds, Directed, AtEnd, Inside, Drained, SameFlags
    <2> QED
      BY <1>3, <2>1, <2>2
  <1>9. p \in Int
    BY <1>3, <1>5, <1>6, Fields
  <1> QED
    BY <1>3, <1>5, <1>6, <1>7, <1>8, <1>9 DEF Sound

\* n differs from st in its position at most.
MovedTo(st, p, g) == [st EXCEPT !.pos = p, !.gap = g]
\* Some position and some note of a gap.
Moved(st, n) == \E p, g : n = MovedTo(st, p, g)

\* lseek moves the position only.
LEMMA SeekMoves ==
  ASSUME NEW st, NEW off, NEW whence
  PROVE  Moved(st, lseek(st, off, whence))
  BY Zenon DEF lseek, Moved, MovedTo

\* What fseek's lseek does, which forgets what was read ahead.
LEMMA Reseeks ==
  ASSUME NEW st, NEW l, Sound(st, l), ~st.wr, NEW off \in Int, NEW whence \in Whences,
         NEW n, n = Reseek(st, off, whence), n.pos \in Nat
  PROVE  Sound(n, "none") /\ n.open = st.open /\ n.cnt = 0
  <1>1. st \in FILE /\ Filed(st) /\ Running(st, l)
    BY DEF Sound
  <1>2. PICK r : r = lseek(st, off, whence)
    OBVIOUS
  <1>3. PICK p, g : r = MovedTo(st, p, g)
    BY <1>2, SeekMoves, Zenon DEF Moved
  <1>4. PICK d : d = (r.rd /\ ~st.rw)
    OBVIOUS
  <1>5. n = [r EXCEPT !.rd = d, !.cnt = 0, !.ptr = 0, !.unget = FALSE]
    BY <1>2, <1>4, Zenon DEF Reseek
  <1>6. n.pos = r.pos
    BY <1>1, <1>3, <1>5, Zenon DEF FILE, MovedTo
  <1>7. r \in FILE /\ Kept(st, r) /\ Filed(r)
    BY <1>1, <1>2, <1>6, Seeks
  <1>8. d \in BOOLEAN
    BY <1>4, Zenon
  <1>9. /\ n \in FILE /\ n.rd = d /\ n.cnt = 0 /\ n.ptr = 0
        /\ n.open = r.open /\ n.rw = r.rw /\ n.wr = r.wr /\ n.eof = r.eof
        /\ n.kind = r.kind /\ n.base = r.base /\ n.bufsiz = r.bufsiz
        /\ n.disk = r.disk /\ n.pos = r.pos /\ n.gap = r.gap
    BY <1>5, <1>7, <1>8, Numbers, ZenonT(60) DEF FILE
  <1>10. Filed(n)
    BY <1>7, <1>9, Zenon DEF Filed
  <1>d. (n.rd => r.rd /\ ~st.rw) /\ (r.rd /\ ~st.rw => n.rd)
    BY <1>4, <1>9, Zenon
  <1>11. Running(n, "none")
    BY <1>1, <1>d, <1>7, <1>9, Fields
    DEF Running, Kinds, Directed, AtEnd, Inside, Room, Drained, Kept, SameFlags, SameBuffer
  <1> QED
    BY <1>7, <1>9, <1>10, <1>11 DEF Sound, Kept, SameFlags

\* A seek of a reader, inside the buffer if it can be.
LEMMA SeeksReading ==
  ASSUME NEW st, NEW l, Sound(st, l), ~st.wr, ~st.eof, st.base, NEW p \in Int, NEW off \in Int,
         NEW n, n = SeekReading(st, p, off), n.pos \in Nat
  PROVE  Sound(n, "none") /\ n.open = st.open /\ n.cnt >= 0
  <1>1. st \in FILE /\ Filed(st) /\ Running(st, l)
    BY DEF Sound
  <1>2. CASE InBufferSeek(st, p, off)
    <2>1. PICK t, c : t = st.ptr + (off - p) /\ c = st.cnt - (off - p)
      OBVIOUS
    <2>2. n = [st EXCEPT !.ptr = t, !.cnt = c]
      BY <1>2, <2>1, Zenon DEF SeekReading
    <2>3. ~st.rw /\ p - off <= st.ptr /\ off - p <= st.cnt
      BY <1>2 DEF InBufferSeek
    <2>4. st.ptr + st.cnt <= st.bufsiz
      BY <1>1 DEF Running, Inside
    <2>5. /\ t \in 0..MaxBuf /\ c \in Int /\ c >= 0 /\ t + c = st.ptr + st.cnt
          /\ t <= st.bufsiz
      BY <1>1, <2>1, <2>3, <2>4, Fields, Numbers, SMTT(60)
    <2>6. /\ n \in FILE /\ SameFlags(st, n) /\ n.ptr = t /\ n.cnt = c
          /\ n.kind = st.kind /\ n.base = st.base /\ n.bufsiz = st.bufsiz
          /\ n.disk = st.disk /\ n.pos = st.pos /\ n.gap = st.gap
      BY <1>1, <2>2, <2>5, Zenon DEF FILE, SameFlags
    <2>7. Filed(n)
      BY <1>1, <2>6, Zenon DEF Filed
    <2>8. Running(n, "none")
      BY <1>1, <2>3, <2>4, <2>5, <2>6, Fields
      DEF Running, Kinds, Directed, AtEnd, Inside, Room, Drained, SameFlags
    <2> QED
      BY <2>5, <2>6, <2>7, <2>8 DEF Sound, SameFlags
  <1>3. CASE ~InBufferSeek(st, p, off)
    <2>1. n = Reseek(st, off, "SET") /\ "SET" \in Whences
      BY <1>3, Zenon DEF SeekReading, Whences
    <2> QED
      BY <2>1, Reseeks
  <1> QED
    BY <1>2, <1>3

\* A count is kept or is not negative.
CountKept(st, n) == n.cnt >= 0 \/ n.cnt = st.cnt

\* A step that keeps the buffer and a file of bytes keeps a stream sound.
LEMMA SoundKept ==
  ASSUME NEW st, NEW n, NEW l, Sound(st, l), n \in FILE, Kept(st, n), Filed(n)
  PROVE  Sound(n, l)
  BY RunningKept DEF Sound, Kept

\* What fseek leaves behind.
Sought(st, l, n, rc) ==
  /\ rc = 0 => Sound(n, "none")
  /\ rc # 0 => Sound(n, l)
  /\ n.open = st.open /\ CountKept(st, n)

\* fseek, when the new position is in the file or behind it.
LEMMA SeeksFile ==
  ASSUME NEW st, NEW l, Sound(st, l), NEW off \in Int, NEW whence \in Whences,
         NEW n, NEW rc, n = Fseek(st, off, whence)[1], rc = Fseek(st, off, whence)[2],
         n.pos \in Nat
  PROVE  Sought(st, l, n, rc)
  <1>1. st \in FILE /\ Filed(st) /\ Running(st, l)
    BY DEF Sound
  <1>2. PICK z : z = [st EXCEPT !.fill = FILL, !.eof = FALSE]
    OBVIOUS
  <1>3. /\ z \in FILE /\ SameBuffer(st, z) /\ ~z.eof
        /\ z.open = st.open /\ z.rw = st.rw /\ z.rd = st.rd /\ z.wr = st.wr
        /\ z.disk = st.disk /\ z.pos = st.pos /\ z.gap = st.gap
    BY <1>1, <1>2, Numbers, Zenon DEF FILE, SameBuffer
  <1>4. Sound(z, l)
    <2>1. Filed(z)
      BY <1>1, <1>3, Zenon DEF Filed
    <2>2. Running(z, l)
      BY <1>1, <1>3 DEF Running, Kinds, Directed, AtEnd, Inside, Room, Drained, SameBuffer
    <2> QED
      BY <1>3, <2>1, <2>2 DEF Sound
  <1>5. PICK f, c, t, p : /\ f = Fflush(z)[1] /\ c = Fflush(z)[2]
                          /\ t = Ftell(z)[1] /\ p = Ftell(z)[2]
    OBVIOUS
  <1>6. PICK q : q = IF whence = "CUR" THEN off + p ELSE off
    OBVIOUS
  <1>7. Fseek(st, off, whence) =
          IF ~z.rd THEN <<lseek(f, off, whence), c>>
          ELSE IF z.kind = "NBF" \/ ~z.base \/ whence = "END"
          THEN <<Reseek(t, off, whence), 0>>
          ELSE <<SeekReading(t, p, q), 0>>
    BY <1>2, <1>5, <1>6 DEF Fseek
  <1>8. CASE ~z.rd
    <2>1. n = lseek(f, off, whence) /\ rc = c
      BY <1>7, <1>8
    <2>2. Flushed(z, l, f, c)
      BY <1>4, <1>5, Flushes
    <2>3. Sound(f, l) /\ (rc = 0 => Sound(f, "none")) /\ f.open = z.open /\ CountKept(z, f)
      BY <2>1, <2>2 DEF Flushed, CountKept
    <2>4. n \in FILE /\ Kept(f, n) /\ Filed(n)
      BY <2>1, <2>3, Seeks DEF Sound
    <2>5. Sound(n, l) /\ (rc = 0 => Sound(n, "none"))
      BY <2>3, <2>4, SoundKept
    <2>6. n.open = st.open /\ CountKept(st, n)
      BY <1>3, <2>3, <2>4 DEF Kept, SameFlags, SameBuffer, CountKept
    <2> QED
      BY <2>5, <2>6 DEF Sought
  <1>9. CASE z.rd
    <2>1. ~z.wr /\ ~HasPending(z)
      BY <1>4, <1>9 DEF Sound, Running, Directed, HasPending
    <2>2. /\ Sound(t, l) /\ SameFlags(z, t) /\ t.cnt >= 0 /\ t.base = z.base /\ t.kind = z.kind
          /\ p \in Int
      BY <1>4, <1>5, <2>1, Tells
    <2>3. ~t.wr /\ ~t.eof /\ t.open = st.open
      BY <1>3, <2>1, <2>2 DEF SameFlags
    <2>4. CASE z.kind = "NBF" \/ ~z.base \/ whence = "END"
      <3>1. n = Reseek(t, off, whence) /\ rc = 0
        BY <1>7, <1>9, <2>4
      <3>2. Sound(n, "none") /\ n.open = t.open /\ n.cnt = 0
        BY <2>2, <2>3, <3>1, Reseeks
      <3> QED
        BY <2>3, <3>1, <3>2 DEF Sought, CountKept
    <2>5. CASE ~(z.kind = "NBF" \/ ~z.base \/ whence = "END")
      <3>1. n = SeekReading(t, p, q) /\ rc = 0
        BY <1>7, <1>9, <2>5
      <3>2. q \in Int /\ t.base
        BY <1>6, <2>2, <2>5
      <3>3. Sound(n, "none") /\ n.open = t.open /\ n.cnt >= 0
        BY <2>2, <2>3, <3>1, <3>2, SeeksReading
      <3> QED
        BY <2>3, <3>1, <3>3 DEF Sought, CountKept
    <2> QED
      BY <2>4, <2>5
  <1> QED
    BY <1>8, <1>9

\* rewind.
LEMMA Rewinds ==
  ASSUME NEW st, NEW l, Sound(st, l), NEW n, n = Rewound(st)
  PROVE  Sound(n, "none") /\ n.open = st.open /\ n.cnt = 0
  <1>1. PICK f, c : f = Fflush(st)[1] /\ c = Fflush(st)[2]
    OBVIOUS
  <1>2. Sound(f, l) /\ f.open = st.open /\ f.rw = st.rw
    BY <1>1, Flushes DEF Flushed
  <1>3. f \in FILE /\ Filed(f) /\ Running(f, l)
    BY <1>2 DEF Sound
  <1>4. PICK r : r = lseek(f, 0, "SET")
    OBVIOUS
  <1>5. PICK p : p = 0 + (CASE "SET" = "SET" -> 0 [] "SET" = "CUR" -> f.pos
                            [] "SET" = "END" -> Len(f.disk))
    OBVIOUS
  <1>6. r.pos = p
    BY <1>3, <1>4, <1>5, Zenon DEF lseek, FILE
  <1>7. p \in Nat /\ "SET" \in Whences /\ 0 \in Int
    BY <1>5 DEF Whences
  <1>8. r \in FILE /\ Kept(f, r) /\ Filed(r)
    BY <1>3, <1>4, <1>6, <1>7, Seeks
  <1>9. PICK d \in BOOLEAN, w \in BOOLEAN : d = (r.rd /\ ~st.rw) /\ w = (r.wr /\ ~st.rw)
    OBVIOUS
  <1>10. n = [r EXCEPT !.fill = FILL, !.cnt = 0, !.ptr = 0, !.err = FALSE, !.eof = FALSE,
                       !.rd = d, !.wr = w]
    BY <1>1, <1>4, <1>9, Zenon DEF Rewound
  <1>11. /\ n \in FILE /\ n.cnt = 0 /\ n.ptr = 0 /\ ~n.eof /\ n.rd = d /\ n.wr = w
         /\ n.open = r.open /\ n.rw = r.rw
         /\ n.kind = r.kind /\ n.base = r.base /\ n.bufsiz = r.bufsiz
         /\ n.disk = r.disk /\ n.pos = r.pos /\ n.gap = r.gap
    BY <1>8, <1>10, Numbers, ZenonT(60) DEF FILE
  <1>12. Filed(n)
    BY <1>8, <1>11, Zenon DEF Filed
  <1>13. (n.rd <=> r.rd /\ ~st.rw) /\ (n.wr <=> r.wr /\ ~st.rw)
    BY <1>9, <1>11, Zenon
  <1>14. Running(r, l)
    BY <1>3, <1>8, RunningKept DEF Kept
  <1>15. r.rw = st.rw /\ r.bufsiz \in Int
    BY <1>2, <1>8, Fields DEF Kept, SameFlags
  <1>16. Kinds(n) /\ Directed(n, "none") /\ AtEnd(n)
    BY <1>11, <1>13, <1>14, <1>15 DEF Running, Kinds, Directed, AtEnd
  <1>17. Inside(n) /\ Room(n) /\ Drained(n, "none")
    <2>1. n.cnt = 0 /\ n.ptr = 0 /\ n.bufsiz = r.bufsiz
      BY <1>11, Zenon
    <2>2. (n.base => n.bufsiz >= 1) /\ (n.kind = "LBF" => n.base)
      BY <1>16 DEF Kinds
    <2> QED
      BY <1>15, <2>1, <2>2 DEF Inside, Room, Drained
  <1> QED
    BY <1>2, <1>8, <1>11, <1>12, <1>16, <1>17 DEF Sound, Running, Kept, SameFlags

\* setvbuf on a stream just opened.
LEMMA SetsBuffer ==
  ASSUME NEW st, Sound(st, "open"), NEW kind, NEW len,
         \/ kind = "NBF" /\ len = 0
         \/ kind \in {"FBF", "LBF"} /\ len \in BufSizes,
         NEW n, n = Setvbuf(st, kind, len)
  PROVE  Sound(n, "none") /\ n.open = st.open /\ n.cnt = 0
  <1>1. PICK f, c : f = Fflush(st)[1] /\ c = Fflush(st)[2]
    OBVIOUS
  <1>2. Sound(f, "open") /\ f.open = st.open
    BY <1>1, Flushes DEF Flushed
  <1>3. f \in FILE /\ Filed(f) /\ Running(f, "open")
    BY <1>2 DEF Sound
  <1>4. PICK e : e = [f EXCEPT !.cnt = 0, !.kind = kind, !.unget = FALSE]
    OBVIOUS
  <1>5. kind \in {"FBF", "LBF", "NBF"}
    OBVIOUS
  <1>6. /\ e \in FILE /\ SameFlags(f, e) /\ e.cnt = 0 /\ e.kind = kind /\ e.ptr = f.ptr
        /\ e.disk = f.disk /\ e.pos = f.pos /\ e.gap = f.gap
    BY <1>3, <1>4, <1>5, Numbers, Zenon DEF FILE, SameFlags
  <1>7. CASE kind = "NBF"
    <2>1. n = [e EXCEPT !.base = FALSE, !.bufsiz = 0]
      BY <1>1, <1>4, <1>7, Zenon DEF Setvbuf
    <2>2. /\ n \in FILE /\ SameFlags(e, n) /\ n.cnt = e.cnt /\ n.kind = e.kind /\ n.ptr = e.ptr
          /\ ~n.base /\ n.bufsiz = 0
          /\ n.disk = e.disk /\ n.pos = e.pos /\ n.gap = e.gap
      BY <1>6, <2>1, Numbers, ZenonT(60) DEF FILE, SameFlags
    <2>3. Filed(n)
      BY <1>3, <1>6, <2>2, Zenon DEF Filed
    <2>4. /\ SameFlags(f, n) /\ n.cnt = 0 /\ n.kind = "NBF" /\ n.ptr = f.ptr
      BY <1>6, <1>7, <2>2, Zenon DEF SameFlags
    <2>5. Running(n, "none")
      BY <1>3, <2>2, <2>4 DEF Running, Kinds, Directed, AtEnd, Inside, Room, Drained, SameFlags
    <2> QED
      BY <1>2, <2>2, <2>3, <2>4, <2>5 DEF Sound, SameFlags
  <1>8. CASE kind # "NBF"
    <2>1. n = [e EXCEPT !.base = TRUE, !.bufsiz = len, !.ptr = 0, !.fill = len]
      BY <1>1, <1>4, <1>8, Zenon DEF Setvbuf
    <2>2. len \in 0..MaxBuf /\ len \in 0..(2 * MaxBuf) /\ len >= 1 /\ len \in Int
      BY <1>8, Numbers
    <2>3. /\ n \in FILE /\ SameFlags(e, n) /\ n.cnt = e.cnt /\ n.kind = e.kind /\ n.ptr = 0
          /\ n.base /\ n.bufsiz = len
          /\ n.disk = e.disk /\ n.pos = e.pos /\ n.gap = e.gap
      BY <1>6, <2>1, <2>2, Numbers, ZenonT(60) DEF FILE, SameFlags
    <2>4. Filed(n)
      BY <1>3, <1>6, <2>3, Zenon DEF Filed
    <2>5. /\ SameFlags(f, n) /\ n.cnt = 0 /\ n.kind = kind
      BY <1>6, <2>3, Zenon DEF SameFlags
    <2>6. Kinds(n) /\ Inside(n) /\ Room(n) /\ Drained(n, "none")
      <3>1. n.kind # "NBF" /\ n.base /\ n.bufsiz = len /\ n.cnt = 0 /\ n.ptr = 0
        BY <1>8, <2>3, <2>5, Zenon
      <3> QED
        BY <2>2, <3>1 DEF Kinds, Inside, Room, Drained
    <2>7. Directed(n, "none") /\ AtEnd(n)
      BY <1>3, <2>3, <2>5 DEF Running, Directed, AtEnd, SameFlags
    <2> QED
      BY <1>2, <2>3, <2>4, <2>5, <2>6, <2>7 DEF Sound, Running, SameFlags
  <1> QED
    BY <1>7, <1>8

\* A stream that is not open.
Shut(st) ==
  /\ st \in FILE /\ st.disk \in Seq(Bytes)
  /\ ~st.open /\ ~st.rd /\ ~st.wr /\ ~st.rw /\ ~st.eof /\ ~st.base
  /\ st.kind = "FBF" /\ st.cnt = 0 /\ st.ptr = 0 /\ st.bufsiz = 0

\* fclose, and the first half of freopen.
LEMMA Closes ==
  ASSUME NEW st, NEW l, Sound(st, l), NEW n, n = Closed(Fflush(st)[1])
  PROVE  Shut(n)
  <1>1. PICK f, c : f = Fflush(st)[1] /\ c = Fflush(st)[2]
    OBVIOUS
  <1>2. f \in FILE /\ f.disk \in Seq(Bytes)
    BY <1>1, Flushes DEF Flushed, Sound, Filed
  <1>3. PICK e : e = [f EXCEPT !.open = FALSE, !.cnt = 0, !.base = FALSE, !.ptr = 0,
                               !.bufsiz = 0, !.kind = "FBF"]
    OBVIOUS
  <1>4. /\ e \in FILE /\ e.disk = f.disk /\ ~e.open /\ ~e.base
        /\ e.kind = "FBF" /\ e.cnt = 0 /\ e.ptr = 0 /\ e.bufsiz = 0
    BY <1>2, <1>3, Numbers, Zenon DEF FILE
  <1>5. n = [e EXCEPT !.rd = FALSE, !.wr = FALSE, !.rw = FALSE, !.eof = FALSE,
                      !.err = FALSE, !.unget = FALSE, !.gap = FALSE]
    BY <1>1, <1>3, Zenon DEF Closed
  <1>6. /\ n \in FILE /\ n.disk = e.disk /\ n.open = e.open /\ n.base = e.base
        /\ n.kind = e.kind /\ n.cnt = e.cnt /\ n.ptr = e.ptr /\ n.bufsiz = e.bufsiz
        /\ ~n.rd /\ ~n.wr /\ ~n.rw /\ ~n.eof
    BY <1>4, <1>5, ZenonT(60) DEF FILE
  <1> QED
    BY <1>2, <1>4, <1>6, Zenon DEF Shut

\* Membership has a truth value.
LEMMA MemberOrNot ==
  ASSUME NEW x, NEW S
  PROVE  \E b \in BOOLEAN : b = (x \in S)
  <1>1. CASE x \in S
    <2>1. TRUE = (x \in S)
      BY <1>1
    <2> QED
      BY <2>1, Zenon
  <1>2. CASE x \notin S
    <2>1. FALSE = (x \in S)
      BY <1>2
    <2> QED
      BY <2>1, Zenon
  <1> QED
    BY <1>1, <1>2, Zenon

\* fopen, and the second half of freopen.
LEMMA Opens ==
  ASSUME NEW st, Shut(st), NEW mode \in Modes, NEW n, n = Opened(st, mode)
  PROVE  Sound(n, "open") /\ n.open /\ n.cnt = 0
  <1>1. st \in FILE /\ st.disk \in Seq(Bytes)
    BY DEF Shut
  <1>a. PICK a \in BOOLEAN : a = (mode \in {"a", "a+"})
    BY MemberOrNot, Zenon
  <1>b. PICK b \in BOOLEAN : b = (mode \in {"r+", "w+", "a+"})
    BY MemberOrNot, Zenon
  <1>r. PICK r \in BOOLEAN : r = (mode = "r")
    OBVIOUS
  <1>w. PICK w \in BOOLEAN : w = (mode \in {"w", "a"})
    BY MemberOrNot, Zenon
  <1>3. PICK d : d = IF mode \in {"w", "w+"} THEN <<>> ELSE st.disk
    OBVIOUS
  <1>4. PICK p : p = IF mode \in {"a", "a+"} THEN Len(st.disk) ELSE 0
    OBVIOUS
  <1>5. d \in Seq(Bytes) /\ p \in Nat /\ p <= Len(d)
    BY <1>1, <1>3, <1>4 DEF Modes
  <1>6. d \in Seq(Bytes \cup {"garbage"})
    BY <1>5, BytesAndGarbage, Zenon
  <1>7. n = [st EXCEPT !.open = TRUE, !.app = a, !.gap = FALSE, !.rw = b, !.rd = r, !.wr = w,
                       !.disk = d, !.pos = p]
    BY <1>a, <1>b, <1>r, <1>w, <1>3, <1>4, Zenon DEF Opened
  <1>8. /\ n \in FILE /\ n.open /\ n.rw = b /\ n.rd = r /\ n.wr = w /\ n.eof = st.eof
        /\ n.base = st.base /\ n.kind = st.kind /\ n.cnt = st.cnt /\ n.ptr = st.ptr
        /\ n.bufsiz = st.bufsiz /\ n.disk = d /\ n.pos = p
    BY <1>1, <1>5, <1>6, <1>7, ZenonT(60) DEF FILE
  <1>9. Filed(n)
    BY <1>5, <1>8, Zenon DEF Filed
  <1>10. (n.rw => ~n.rd /\ ~n.wr) /\ (~n.rw => (n.rd <=> ~n.wr))
    <2>1. /\ n.rw <=> mode \in {"r+", "w+", "a+"}
          /\ n.rd <=> mode = "r"
          /\ n.wr <=> mode \in {"w", "a"}
      BY <1>b, <1>r, <1>w, <1>8, Zenon
    <2> QED
      BY <2>1 DEF Modes
  <1>11. Running(n, "open")
    BY <1>8, <1>10 DEF Running, Kinds, Directed, AtEnd, Inside, Room, Drained, Shut
  <1> QED
    BY <1>8, <1>9, <1>11 DEF Sound, Shut

\* ungetc where it is not refused.
LEMMA Pushes ==
  ASSUME NEW st, NEW l, Sound(st, l), st.base, ~st.wr, st.ptr > 0, NEW ch \in Bytes,
         NEW n, n = Pushed(st, ch)
  PROVE  Sound(n, "in") /\ n.open = st.open /\ n.cnt = st.cnt + 1
  <1>1. st \in FILE /\ Filed(st) /\ Running(st, l)
    BY DEF Sound
  <1>2. PICK p : p = IF st.ptr = 0 THEN 0 ELSE st.ptr - 1
    OBVIOUS
  <1>3. p = st.ptr - 1 /\ p \in 0..MaxBuf
    BY <1>1, <1>2, Fields, Numbers
  <1>4. PICK m : m = [st.mem EXCEPT ![p] = ch]
    OBVIOUS
  <1>5. PICK u \in BOOLEAN : u = (st.unget \/ st.mem[p] # ch)
    OBVIOUS
  <1>6. PICK c : c = st.cnt + 1
    OBVIOUS
  <1>7. n = [st EXCEPT !.cnt = c, !.ptr = p, !.mem = m, !.unget = u]
    BY <1>2, <1>4, <1>5, <1>6, Zenon DEF Pushed
  <1>8. m \in [0..(MaxBuf - 1) -> Bytes] /\ c \in Int
    <2>1. st.mem \in [0..(MaxBuf - 1) -> Bytes] /\ st.cnt \in Int
      BY <1>1, Fields
    <2>2. m \in [0..(MaxBuf - 1) -> Bytes]
      BY <1>4, <2>1, Zenon
    <2> QED
      BY <1>6, <2>1, <2>2
  <1>9. /\ n \in FILE /\ SameFlags(st, n) /\ n.kind = st.kind /\ n.base = st.base
        /\ n.bufsiz = st.bufsiz /\ n.cnt = c /\ n.ptr = p
        /\ n.disk = st.disk /\ n.pos = st.pos /\ n.gap = st.gap
    BY <1>1, <1>3, <1>7, <1>8, ZenonT(60) DEF FILE, SameFlags
  <1>10. Filed(n)
    BY <1>1, <1>9, Zenon DEF Filed
  <1>11. ~st.eof
    BY <1>1, Fields DEF Running, AtEnd
  <1>12. Running(n, "in")
    BY <1>1, <1>3, <1>6, <1>9, <1>11, Fields
    DEF Running, Kinds, Directed, AtEnd, Inside, Room, Drained, SameFlags
  <1> QED
    BY <1>6, <1>9, <1>10, <1>12 DEF Sound, SameFlags

-----------------------------------------------------------------------------
(* Writing.                                                                 *)

\* A byte can be stored.
Writable(st) ==
  /\ st \in FILE /\ Filed(st) /\ Kinds(st) /\ AtEnd(st) /\ Directed(st, "out")
  /\ st.rw \/ st.wr
  /\ st.base => st.ptr <= st.bufsiz
  /\ st.kind = "LBF" => st.ptr < st.bufsiz

\* What storing a byte leaves.
Stored(st, p) ==
  /\ p \in FILE \X BOOLEAN
  /\ Sound(p[1], "out")
  /\ p[1].wr
  /\ p[1].open = st.open
  /\ p[1].cnt >= -MaxBuf

\* A byte stored in the buffer.
LEMMA PushStores ==
  ASSUME NEW st \in FILE, NEW ch \in Bytes, st.ptr + 1 \in 0..MaxBuf, NEW n, n = Push(st, ch)
  PROVE  /\ n \in FILE /\ SameFlags(st, n) /\ n.ptr = st.ptr + 1 /\ n.cnt = st.cnt
         /\ n.kind = st.kind /\ n.base = st.base /\ n.bufsiz = st.bufsiz
         /\ n.disk = st.disk /\ n.pos = st.pos /\ n.gap = st.gap
  <1>1. PICK m : m = [st.mem EXCEPT ![st.ptr] = ch]
    OBVIOUS
  <1>2. PICK p : p = st.ptr + 1
    OBVIOUS
  <1>3. n = [st EXCEPT !.mem = m, !.ptr = p]
    BY <1>1, <1>2, Zenon DEF Push
  <1>4. st.mem \in [0..(MaxBuf - 1) -> Bytes]
    BY Fields
  <1>5. m \in [0..(MaxBuf - 1) -> Bytes]
    BY <1>1, <1>4, Zenon
  <1>6. p \in 0..MaxBuf
    BY <1>2
  <1>7. /\ n \in FILE /\ SameFlags(st, n) /\ n.ptr = p /\ n.cnt = st.cnt
        /\ n.kind = st.kind /\ n.base = st.base /\ n.bufsiz = st.bufsiz
        /\ n.disk = st.disk /\ n.pos = st.pos /\ n.gap = st.gap
    BY <1>3, <1>5, <1>6, Zenon DEF FILE, SameFlags
  <1> QED
    BY <1>2, <1>7, Zenon

\* A change of the count alone.
LEMMA SetsCount ==
  ASSUME NEW st \in FILE, NEW c \in Int, NEW n, n = [st EXCEPT !.cnt = c]
  PROVE  /\ n \in FILE /\ SameFlags(st, n) /\ n.ptr = st.ptr /\ n.cnt = c
         /\ n.kind = st.kind /\ n.base = st.base /\ n.bufsiz = st.bufsiz
         /\ n.disk = st.disk /\ n.pos = st.pos /\ n.gap = st.gap
  BY Zenon DEF FILE, SameFlags

\* A state and a result that make up what storing a byte leaves.
LEMMA StoredPair ==
  ASSUME NEW st, NEW x \in FILE, NEW y \in BOOLEAN, NEW p, p = <<x, y>>,
         Sound(x, "out"), x.wr, x.open = st.open, x.cnt >= -MaxBuf
  PROVE  Stored(st, p)
  <1>1. p[1] = x /\ p \in FILE \X BOOLEAN
    OBVIOUS
  <1> QED
    BY <1>1, Zenon DEF Stored

\* A write at the end of a stream's file or at its position.
LEMMA WritesOut ==
  ASSUME NEW st, NEW l, Sound(st, l), NEW data \in Seq(Bytes),
         NEW n, n = _write(SeekEnd(st), data)
  PROVE  Sound(n, l) /\ Kept(st, n)
  <1>1. PICK e : e = SeekEnd(st)
    OBVIOUS
  <1>2. e \in FILE /\ Kept(st, e) /\ Filed(e)
    BY <1>1, SeeksEnd DEF Sound
  <1>3. n \in FILE /\ Kept(e, n) /\ Filed(n)
    BY <1>1, <1>2, Writes
  <1>4. Kept(st, n)
    BY <1>2, <1>3, KeptBoth
  <1> QED
    BY <1>3, <1>4, SoundKept

\* Streams open for writing, at the place where _flsbuf distinguishes its kinds.
Putting(st) ==
  /\ st \in FILE /\ Filed(st) /\ Kinds(st)
  /\ st.wr /\ ~st.rd /\ ~st.eof
  /\ st.base => st.ptr <= st.bufsiz
  /\ st.kind = "LBF" => st.ptr < st.bufsiz

\* The line buffered case of _flsbuf.
LEMMA LineBytes ==
  ASSUME NEW st, Putting(st), st.kind = "LBF", NEW ch \in Bytes,
         NEW p, p = LineByte(Push(st, ch))
  PROVE  Stored(st, p)
  <1>1. /\ st \in FILE /\ Filed(st) /\ Kinds(st) /\ st.wr /\ ~st.rd /\ ~st.eof /\ st.base
        /\ st.ptr < st.bufsiz
    BY DEF Putting, Kinds
  <1>2. PICK b : b = Push(st, ch)
    OBVIOUS
  <1>3. st.ptr + 1 \in 0..MaxBuf /\ st.ptr + 1 <= st.bufsiz /\ st.bufsiz \in 0..MaxBuf
        /\ st.ptr \in Nat
    BY <1>1, Fields, Numbers
  <1>4. /\ b \in FILE /\ SameFlags(st, b) /\ b.ptr = st.ptr + 1 /\ b.cnt = st.cnt
        /\ b.kind = st.kind /\ b.base = st.base /\ b.bufsiz = st.bufsiz
        /\ b.disk = st.disk /\ b.pos = st.pos /\ b.gap = st.gap
    BY <1>1, <1>2, <1>3, PushStores, ZenonT(60)
  <1>5. CASE b.mem[b.ptr - 1] = "n" \/ b.ptr >= b.bufsiz
    <2>1. PICK t : t = [b EXCEPT !.ptr = 0, !.cnt = 0]
      OBVIOUS
    <2>2. PICK x, y : x = _write(SeekEnd(t), Pending(b)) /\ y = WriteFails(SeekEnd(b), Pending(b))
      OBVIOUS
    <2>3. p = <<x, y>>
      BY <1>2, <1>5, <2>1, <2>2, Zenon DEF LineByte
    <2>4. /\ t \in FILE /\ SameFlags(b, t) /\ t.ptr = 0 /\ t.cnt = 0
          /\ t.kind = b.kind /\ t.base = b.base /\ t.bufsiz = b.bufsiz
          /\ t.disk = b.disk /\ t.pos = b.pos /\ t.gap = b.gap
      BY <1>4, <2>1, Numbers, Zenon DEF FILE, SameFlags
    <2>5. Filed(t)
      BY <1>1, <1>4, <2>4, Zenon DEF Filed
    <2>6. /\ t.wr /\ ~t.rd /\ ~t.eof /\ t.base /\ t.kind = "LBF" /\ t.bufsiz = st.bufsiz
          /\ t.rw = st.rw /\ t.open = st.open
      BY <1>1, <1>4, <2>4, Zenon DEF SameFlags
    <2>7. Running(t, "out")
      BY <1>1, <1>3, <2>4, <2>6
      DEF Running, Kinds, Directed, AtEnd, Inside, Room, Drained
    <2>8. Sound(x, "out") /\ Kept(t, x)
      BY <1>4, <2>2, <2>4, <2>5, <2>7, Pendings, WritesOut DEF Sound
    <2>9. x \in FILE /\ x.wr /\ x.open = st.open /\ x.cnt = 0
      BY <2>4, <2>6, <2>8 DEF Sound, Kept, SameFlags, SameBuffer
    <2>10. y \in BOOLEAN
      BY <2>2 DEF WriteFails
    <2> QED
      BY <2>3, <2>8, <2>9, <2>10, Numbers, StoredPair
  <1>6. CASE ~(b.mem[b.ptr - 1] = "n" \/ b.ptr >= b.bufsiz)
    <2>1. PICK c, x : c = -b.ptr /\ x = [b EXCEPT !.cnt = c]
      OBVIOUS
    <2>2. p = <<x, FALSE>>
      BY <1>2, <1>6, <2>1, Zenon DEF LineByte
    <2>3. c \in Int /\ b.ptr + c = 0 /\ c >= -MaxBuf /\ b.ptr < b.bufsiz /\ b.ptr \in Nat
          /\ b.bufsiz \in Nat
      BY <1>3, <1>4, <1>6, <2>1, Numbers
    <2>4. /\ x \in FILE /\ SameFlags(b, x) /\ x.ptr = b.ptr /\ x.cnt = c
          /\ x.kind = b.kind /\ x.base = b.base /\ x.bufsiz = b.bufsiz
          /\ x.disk = b.disk /\ x.pos = b.pos /\ x.gap = b.gap
      BY <1>4, <2>1, <2>3, SetsCount
    <2>5. Filed(x)
      BY <1>1, <1>4, <2>4, Zenon DEF Filed
    <2>6. /\ x.wr /\ ~x.rd /\ ~x.eof /\ x.base /\ x.kind = "LBF" /\ x.rw = st.rw
          /\ x.open = st.open
      BY <1>1, <1>4, <2>4, Zenon DEF SameFlags
    <2>7. Running(x, "out")
      BY <1>1, <1>3, <2>3, <2>4, <2>6
      DEF Running, Kinds, Directed, AtEnd, Inside, Room, Drained
    <2> QED
      <3>1. Sound(x, "out") /\ x \in FILE /\ x.cnt >= -MaxBuf /\ x.wr /\ x.open = st.open
        BY <2>3, <2>4, <2>5, <2>6, <2>7 DEF Sound
      <3>2. FALSE \in BOOLEAN
        OBVIOUS
      <3> QED
        BY <2>2, <3>1, <3>2, StoredPair
  <1> QED
    BY <1>5, <1>6

\* The unbuffered case of _flsbuf.
LEMMA NoBufBytes ==
  ASSUME NEW st, Putting(st), st.kind = "NBF", NEW ch \in Bytes, NEW p, p = NoBufByte(st, ch)
  PROVE  Stored(st, p)
  <1>1. st \in FILE /\ Filed(st) /\ Kinds(st) /\ st.wr /\ ~st.rd /\ ~st.eof /\ ~st.base
    BY DEF Putting, Kinds
  <1>2. PICK t : t = [st EXCEPT !.cnt = 0]
    OBVIOUS
  <1>3. PICK x, y : x = _write(SeekEnd(t), <<ch>>) /\ y = WriteFails(SeekEnd(st), <<ch>>)
    OBVIOUS
  <1>4. p = <<x, y>>
    BY <1>2, <1>3, Zenon DEF NoBufByte
  <1>5. /\ t \in FILE /\ SameFlags(st, t) /\ t.ptr = st.ptr /\ t.cnt = 0
        /\ t.kind = st.kind /\ t.base = st.base /\ t.bufsiz = st.bufsiz
        /\ t.disk = st.disk /\ t.pos = st.pos /\ t.gap = st.gap
    BY <1>1, <1>2, Numbers, SetsCount, SMTT(60)
  <1>6. Filed(t)
    BY <1>1, <1>5, Zenon DEF Filed
  <1>7. /\ t.wr /\ ~t.rd /\ ~t.eof /\ ~t.base /\ t.kind = "NBF"
        /\ t.rw = st.rw /\ t.open = st.open
    BY <1>1, <1>5, Zenon DEF SameFlags
  <1>8. Running(t, "out")
    BY <1>1, <1>5, <1>7 DEF Running, Kinds, Directed, AtEnd, Inside, Room, Drained
  <1>9. <<ch>> \in Seq(Bytes) /\ Sound(t, "out")
    BY <1>5, <1>6, <1>8 DEF Sound
  <1>10. Sound(x, "out") /\ Kept(t, x)
    BY <1>3, <1>9, WritesOut
  <1>11. x \in FILE /\ x.wr /\ x.open = st.open /\ x.cnt = 0
    BY <1>5, <1>7, <1>10 DEF Sound, Kept, SameFlags, SameBuffer
  <1>12. y \in BOOLEAN
    BY <1>3 DEF WriteFails
  <1> QED
    BY <1>4, <1>10, <1>11, <1>12, Numbers, StoredPair

\* The fully buffered case of _flsbuf.
LEMMA FullBufs ==
  ASSUME NEW st, Putting(st), st.kind = "FBF", st.base, NEW ch \in Bytes, NEW p, p = FullBuf(st, ch)
  PROVE  Stored(st, p)
  <1>1. /\ st \in FILE /\ Filed(st) /\ Kinds(st) /\ st.wr /\ ~st.rd /\ ~st.eof
        /\ st.ptr <= st.bufsiz /\ st.bufsiz >= 1 /\ st.bufsiz \in 0..MaxBuf /\ st.bufsiz \in Nat
    BY Fields, Numbers DEF Putting, Kinds
  <1>2. PICK w : w = IF st.ptr = 0 THEN st ELSE _write(SeekEnd(st), Pending(st))
    OBVIOUS
  <1>3. PICK bad : bad = (st.ptr > 0 /\ WriteFails(SeekEnd(st), Pending(st)))
    OBVIOUS
  <1>4. PICK e : e = [w EXCEPT !.ptr = 0, !.cnt = st.bufsiz]
    OBVIOUS
  <1>5. PICK b, c, x : b = Push(e, ch) /\ c = b.cnt - 1 /\ x = [b EXCEPT !.cnt = c]
    OBVIOUS
  <1>6. p = IF bad THEN <<e, TRUE>> ELSE <<x, FALSE>>
    BY <1>2, <1>3, <1>4, <1>5, Zenon DEF FullBuf
  <1>7. w \in FILE /\ Kept(st, w) /\ Filed(w)
    <2>1. CASE st.ptr = 0
      BY <1>1, <1>2, <2>1 DEF Kept, SameFlags, SameBuffer
    <2>2. CASE st.ptr # 0
      <3>1. PICK g : g = SeekEnd(st)
        OBVIOUS
      <3>2. g \in FILE /\ Kept(st, g) /\ Filed(g)
        BY <1>1, <3>1, SeeksEnd
      <3>3. w \in FILE /\ Kept(g, w) /\ Filed(w)
        BY <1>1, <1>2, <2>2, <3>1, <3>2, Pendings, Writes
      <3> QED
        BY <3>2, <3>3, KeptBoth
    <2> QED
      BY <2>1, <2>2
  <1>8. st.bufsiz \in Int
    BY <1>1
  <1>9. /\ e \in FILE /\ SameFlags(w, e) /\ e.ptr = 0 /\ e.cnt = st.bufsiz
        /\ e.kind = w.kind /\ e.base = w.base /\ e.bufsiz = w.bufsiz
        /\ e.disk = w.disk /\ e.pos = w.pos /\ e.gap = w.gap
    BY <1>4, <1>7, <1>8, Numbers, Zenon DEF FILE, SameFlags
  <1>10. /\ e.wr /\ ~e.rd /\ ~e.eof /\ e.base /\ e.kind = "FBF" /\ e.rw = st.rw
         /\ e.open = st.open /\ e.bufsiz = st.bufsiz
    BY <1>1, <1>7, <1>9, Zenon DEF Kept, SameFlags, SameBuffer
  <1>11. Filed(e)
    BY <1>7, <1>9, Zenon DEF Filed
  <1>12. Running(e, "out")
    BY <1>1, <1>9, <1>10 DEF Running, Kinds, Directed, AtEnd, Inside, Room, Drained
  <1>13. CASE bad
    <2>1. p = <<e, TRUE>> /\ TRUE \in BOOLEAN
      BY <1>6, <1>13
    <2>2. Sound(e, "out") /\ e.cnt >= -MaxBuf
      BY <1>1, <1>9, <1>11, <1>12, Numbers DEF Sound
    <2> QED
      BY <1>9, <1>10, <2>1, <2>2, StoredPair
  <1>14. CASE ~bad
    <2>1. p = <<x, FALSE>> /\ FALSE \in BOOLEAN
      BY <1>6, <1>14
    <2>2. e.ptr + 1 \in 0..MaxBuf /\ e.ptr + 1 = 1
      BY <1>9, Numbers
    <2>3. /\ b \in FILE /\ SameFlags(e, b) /\ b.ptr = 1 /\ b.cnt = e.cnt
          /\ b.kind = e.kind /\ b.base = e.base /\ b.bufsiz = e.bufsiz
          /\ b.disk = e.disk /\ b.pos = e.pos /\ b.gap = e.gap
      BY <1>5, <1>9, <2>2, PushStores
    <2>4. c = st.bufsiz - 1 /\ c \in Int /\ c >= -MaxBuf
      BY <1>1, <1>5, <1>9, <2>3, Numbers
    <2>5. /\ x \in FILE /\ SameFlags(b, x) /\ x.ptr = b.ptr /\ x.cnt = c
          /\ x.kind = b.kind /\ x.base = b.base /\ x.bufsiz = b.bufsiz
          /\ x.disk = b.disk /\ x.pos = b.pos /\ x.gap = b.gap
      BY <1>5, <2>3, <2>4, SetsCount
    <2>6. /\ x.wr /\ ~x.rd /\ ~x.eof /\ x.base /\ x.kind = "FBF" /\ x.rw = st.rw
          /\ x.open = st.open /\ x.bufsiz = st.bufsiz /\ x.ptr = 1 /\ x.cnt = c
      BY <1>10, <2>3, <2>5, Zenon DEF SameFlags
    <2>7. Filed(x)
      BY <1>11, <2>3, <2>5, Zenon DEF Filed
    <2>8. Running(x, "out")
      BY <1>1, <2>4, <2>6 DEF Running, Kinds, Directed, AtEnd, Inside, Room, Drained
    <2>9. Sound(x, "out") /\ x.cnt >= -MaxBuf
      BY <2>4, <2>5, <2>6, <2>7, <2>8 DEF Sound
    <2> QED
      BY <2>1, <2>5, <2>6, <2>9, StoredPair
  <1> QED
    BY <1>13, <1>14

\* The buffer of a writer, or none when there is no memory.
LEMMA AllocatesForWrite ==
  ASSUME NEW st, Putting(st), NEW oom, NEW n, n = AllocForWrite(st, oom)
  PROVE  Putting(n) /\ n.open = st.open /\ (n.kind = "FBF" => n.base)
  <1>1. st \in FILE /\ Filed(st) /\ Kinds(st) /\ st.wr /\ ~st.rd /\ ~st.eof
    BY DEF Putting
  <1>2. CASE st.base \/ st.kind = "NBF"
    BY <1>1, <1>2 DEF AllocForWrite
  <1>3. CASE ~(st.base \/ st.kind = "NBF") /\ oom
    <2>1. n = [st EXCEPT !.kind = "NBF"]
      BY <1>3, Zenon DEF AllocForWrite
    <2>2. /\ n \in FILE /\ SameFlags(st, n) /\ n.ptr = st.ptr /\ n.cnt = st.cnt
          /\ n.kind = "NBF" /\ n.base = st.base /\ n.bufsiz = st.bufsiz
          /\ n.disk = st.disk /\ n.pos = st.pos /\ n.gap = st.gap
      BY <1>1, <2>1, Zenon DEF FILE, SameFlags
    <2>3. Filed(n)
      BY <1>1, <2>2, Zenon DEF Filed
    <2> QED
      BY <1>1, <1>3, <2>2, <2>3 DEF Putting, Kinds, SameFlags
  <1>4. CASE ~(st.base \/ st.kind = "NBF") /\ ~oom
    <2>1. n = [st EXCEPT !.base = TRUE, !.bufsiz = TB, !.cnt = TB, !.ptr = 0]
      BY <1>4, Zenon DEF AllocForWrite
    <2>2. /\ n \in FILE /\ SameFlags(st, n) /\ n.ptr = 0 /\ n.cnt = TB
          /\ n.kind = st.kind /\ n.base /\ n.bufsiz = TB
          /\ n.disk = st.disk /\ n.pos = st.pos /\ n.gap = st.gap
      BY <1>1, <2>1, Numbers, ZenonT(60) DEF FILE, SameFlags
    <2>3. Filed(n)
      BY <1>1, <2>2, Zenon DEF Filed
    <2> QED
      BY <1>1, <1>4, <2>2, <2>3, Numbers DEF Putting, Kinds, SameFlags
  <1> QED
    BY <1>2, <1>3, <1>4

\* The direction that _flsbuf sets.
Turned(st) == [st EXCEPT !.wr = TRUE, !.eof = FALSE, !.rd = FALSE]

\* An update stream turns into a writer.
LEMMA Turns ==
  ASSUME NEW st \in FILE, NEW n, n = Turned(st)
  PROVE  /\ n \in FILE /\ n.open = st.open /\ n.rw = st.rw /\ n.wr /\ ~n.eof /\ ~n.rd
         /\ SameBuffer(st, n)
         /\ n.disk = st.disk /\ n.pos = st.pos /\ n.gap = st.gap
  BY Zenon DEF FILE, SameBuffer, Turned

\* _flsbuf on a stream that a program may write.
LEMMA FlushesByte ==
  ASSUME NEW st, Writable(st), NEW ch \in Bytes, NEW oom, NEW p, p = _flsbuf(st, ch, oom)
  PROVE  Stored(st, p)
  <1>1. /\ st \in FILE /\ Filed(st) /\ Kinds(st) /\ AtEnd(st) /\ Directed(st, "out")
        /\ st.rw \/ st.wr
    BY DEF Writable
  <1>2. PICK b, f, d : b = (st.wr \/ st.rw) /\ f = (st.eof /\ ~st.rw) /\ d = (st.rd /\ ~st.rw)
    OBVIOUS
  <1>3. PICK w : w = [st EXCEPT !.wr = b, !.eof = f, !.rd = d]
    OBVIOUS
  <1>4. PICK a : a = AllocForWrite(w, oom)
    OBVIOUS
  <1>5. b = TRUE /\ f = FALSE /\ d = FALSE
    BY <1>1, <1>2, Flags DEF Directed, AtEnd
  <1>6. w = Turned(st)
    BY <1>3, <1>5, Zenon DEF Turned
  <1>7. /\ w \in FILE /\ w.open = st.open /\ w.rw = st.rw /\ w.wr /\ ~w.eof /\ ~w.rd
        /\ SameBuffer(st, w)
        /\ w.disk = st.disk /\ w.pos = st.pos /\ w.gap = st.gap
    BY <1>1, <1>6, Turns
  <1>8. p = CASE a.kind = "LBF" -> LineByte(Push(a, ch))
              [] a.kind = "NBF" -> NoBufByte(a, ch)
              [] OTHER -> FullBuf(a, ch)
    <2>1. p = IF ~w.wr THEN <<[w EXCEPT !.err = TRUE], TRUE>>
              ELSE CASE a.kind = "LBF" -> LineByte(Push(a, ch))
                     [] a.kind = "NBF" -> NoBufByte(a, ch)
                     [] OTHER -> FullBuf(a, ch)
      BY <1>2, <1>3, <1>4, Zenon DEF _flsbuf
    <2> QED
      BY <1>7, <2>1, Zenon
  <1>9. Putting(w)
    <2>1. Filed(w)
      BY <1>1, <1>7, Zenon DEF Filed
    <2> QED
      BY <1>1, <1>7, <2>1 DEF Putting, Writable, Kinds, SameBuffer
  <1>10. Putting(a) /\ a.open = st.open /\ (a.kind = "FBF" => a.base)
    BY <1>4, <1>7, <1>9, AllocatesForWrite
  <1>11. a.kind \in {"FBF", "LBF", "NBF"}
    BY <1>10, Fields DEF Putting
  <1>12. Stored(a, p)
    <2>1. CASE a.kind = "LBF"
      <3>1. p = LineByte(Push(a, ch))
        BY <1>8, <2>1, Zenon
      <3> QED
        BY <1>10, <2>1, <3>1, LineBytes
    <2>2. CASE a.kind = "NBF"
      <3>1. p = NoBufByte(a, ch)
        BY <1>8, <2>2
      <3> QED
        BY <1>10, <2>2, <3>1, NoBufBytes
    <2>3. CASE a.kind = "FBF"
      <3>1. p = FullBuf(a, ch)
        BY <1>8, <2>3
      <3> QED
        BY <1>10, <2>3, <3>1, FullBufs
    <2> QED
      BY <1>11, <2>1, <2>2, <2>3
  <1> QED
    BY <1>10, <1>12 DEF Stored

\* A sound stream that may be written takes a byte, and still does when putc has
\* counted it.
LEMMA SoundWritable ==
  ASSUME NEW st, Sound(st, "out"), st.rw \/ st.wr
  PROVE  Writable(st)
  <1>1. st \in FILE /\ Filed(st) /\ Running(st, "out")
    BY DEF Sound
  <1>2. st.kind = "LBF" => st.ptr < st.bufsiz
    BY <1>1, Fields DEF Running, Kinds, Room, Drained
  <1> QED
    BY <1>1, <1>2 DEF Writable, Running, Inside

\* The same when putc has counted the byte first.
LEMMA CountedWritable ==
  ASSUME NEW st, Sound(st, "out"), st.rw \/ st.wr, NEW n, n = [st EXCEPT !.cnt = @ - 1]
  PROVE  Writable(n) /\ n.open = st.open
  <1>1. Writable(st) /\ st \in FILE /\ Filed(st)
    BY SoundWritable DEF Sound
  <1>2. PICK c : c = st.cnt - 1
    OBVIOUS
  <1>3. n = [st EXCEPT !.cnt = c]
    BY <1>2, Zenon
  <1>4. c \in Int /\ c <= st.cnt /\ st.cnt \in Int
    BY <1>1, <1>2, Fields
  <1>5. /\ n \in FILE /\ SameFlags(st, n) /\ n.ptr = st.ptr /\ n.cnt = c
        /\ n.kind = st.kind /\ n.base = st.base /\ n.bufsiz = st.bufsiz
        /\ n.disk = st.disk /\ n.pos = st.pos /\ n.gap = st.gap
    BY <1>1, <1>3, <1>4, SetsCount
  <1>6. Filed(n)
    BY <1>1, <1>5, Zenon DEF Filed
  <1>7. Kinds(n) /\ AtEnd(n)
    BY <1>1, <1>4, <1>5 DEF Writable, Kinds, AtEnd, SameFlags
  <1> QED
    BY <1>1, <1>5, <1>6, <1>7 DEF Writable, Directed, SameFlags

\* putc.
LEMMA PutsByte ==
  ASSUME NEW st, Sound(st, "out"), st.rw \/ st.wr, NEW ch \in Bytes, NEW oom,
         NEW p, p = PutByte(st, ch, oom)
  PROVE  Stored(st, p)
  <1>1. st \in FILE /\ Filed(st) /\ Running(st, "out")
    BY DEF Sound
  <1>2. CASE st.cnt > 0
    <2>1. PICK b, c, x : b = Push(st, ch) /\ c = b.cnt - 1 /\ x = [b EXCEPT !.cnt = c]
      OBVIOUS
    <2>2. p = <<x, FALSE>> /\ FALSE \in BOOLEAN
      BY <1>2, <2>1, Zenon DEF PutByte
    <2>3. st.base /\ st.wr /\ ~st.rd /\ ~st.eof
      BY <1>1, <1>2, Fields DEF Running, Kinds, Directed, AtEnd, Drained
    <2>4. st.kind = "FBF"
      BY <1>1, <1>2, <2>3, Fields DEF Running, Kinds, Room
    <2>5. st.ptr + st.cnt = st.bufsiz /\ st.ptr + 1 \in 0..MaxBuf
      BY <1>1, <1>2, <2>3, <2>4, Fields, Numbers DEF Running, Room
    <2>6. /\ b \in FILE /\ SameFlags(st, b) /\ b.ptr = st.ptr + 1 /\ b.cnt = st.cnt
          /\ b.kind = st.kind /\ b.base = st.base /\ b.bufsiz = st.bufsiz
          /\ b.disk = st.disk /\ b.pos = st.pos /\ b.gap = st.gap
      BY <1>1, <2>1, <2>5, PushStores
    <2>7. c \in Int /\ c >= 0 /\ c = st.cnt - 1 /\ c >= -MaxBuf
      BY <1>1, <1>2, <2>1, <2>6, Fields, Numbers
    <2>8. /\ x \in FILE /\ SameFlags(b, x) /\ x.ptr = b.ptr /\ x.cnt = c
          /\ x.kind = b.kind /\ x.base = b.base /\ x.bufsiz = b.bufsiz
          /\ x.disk = b.disk /\ x.pos = b.pos /\ x.gap = b.gap
      BY <2>1, <2>6, <2>7, SetsCount
    <2>9. /\ x.wr /\ ~x.rd /\ ~x.eof /\ x.base /\ x.kind = "FBF" /\ x.rw = st.rw
          /\ x.open = st.open /\ x.bufsiz = st.bufsiz /\ x.ptr = st.ptr + 1 /\ x.cnt = c
      BY <2>3, <2>4, <2>6, <2>8, Zenon DEF SameFlags
    <2>10. Filed(x)
      BY <1>1, <2>6, <2>8, Zenon DEF Filed
    <2>11. Running(x, "out")
      BY <1>1, <2>3, <2>5, <2>7, <2>9, Fields, SMTT(60)
      DEF Running, Kinds, Directed, AtEnd, Inside, Room, Drained
    <2>12. Sound(x, "out") /\ x.cnt >= -MaxBuf
      BY <2>7, <2>8, <2>10, <2>11 DEF Sound
    <2> QED
      BY <2>2, <2>8, <2>9, <2>12, StoredPair
  <1>3. CASE ~(st.cnt > 0)
    <2>1. PICK n : n = [st EXCEPT !.cnt = @ - 1]
      OBVIOUS
    <2>2. p = _flsbuf(n, ch, oom)
      BY <1>3, <2>1, Zenon DEF PutByte
    <2>3. Writable(n) /\ n.open = st.open
      BY <2>1, CountedWritable
    <2> QED
      BY <2>2, <2>3, FlushesByte DEF Stored
  <1> QED
    BY <1>2, <1>3

\* fwrite's own way to store a byte on a line buffered stream.
LEMMA LinePuts ==
  ASSUME NEW st, Sound(st, "out"), st.kind = "LBF", st.wr, NEW ch \in Bytes, NEW oom,
         NEW p, p = LinePut(st, ch, oom)
  PROVE  Stored(st, p)
  <1>1. st \in FILE /\ Filed(st) /\ Running(st, "out")
    BY DEF Sound
  <1>2. CASE st.cnt - 1 > -st.bufsiz /\ ch # "n"
    <2>1. PICK b, c, x : b = Push(st, ch) /\ c = b.cnt - 1 /\ x = [b EXCEPT !.cnt = c]
      OBVIOUS
    <2>2. p = <<x, FALSE>> /\ FALSE \in BOOLEAN
      BY <1>2, <2>1, Zenon DEF LinePut
    <2>3. st.base /\ ~st.rd /\ ~st.eof /\ st.ptr + st.cnt = 0
      BY <1>1, Fields DEF Running, Kinds, Directed, AtEnd, Room
    <2>4. st.ptr + 1 < st.bufsiz /\ st.ptr + 1 \in 0..MaxBuf
      BY <1>1, <1>2, <2>3, Fields, Numbers, SMTT(60)
    <2>5. /\ b \in FILE /\ SameFlags(st, b) /\ b.ptr = st.ptr + 1 /\ b.cnt = st.cnt
          /\ b.kind = st.kind /\ b.base = st.base /\ b.bufsiz = st.bufsiz
          /\ b.disk = st.disk /\ b.pos = st.pos /\ b.gap = st.gap
      BY <1>1, <2>1, <2>4, PushStores
    <2>6. c \in Int /\ st.ptr + 1 + c = 0 /\ c >= -MaxBuf
      BY <1>1, <2>1, <2>3, <2>4, <2>5, Fields, Numbers, SMTT(60)
    <2>7. /\ x \in FILE /\ SameFlags(b, x) /\ x.ptr = b.ptr /\ x.cnt = c
          /\ x.kind = b.kind /\ x.base = b.base /\ x.bufsiz = b.bufsiz
          /\ x.disk = b.disk /\ x.pos = b.pos /\ x.gap = b.gap
      BY <2>1, <2>5, <2>6, SetsCount
    <2>8. /\ x.wr /\ ~x.rd /\ ~x.eof /\ x.base /\ x.kind = "LBF" /\ x.rw = st.rw
          /\ x.open = st.open /\ x.bufsiz = st.bufsiz /\ x.ptr = st.ptr + 1 /\ x.cnt = c
      BY <2>3, <2>5, <2>7, Zenon DEF SameFlags
    <2>9. Filed(x)
      BY <1>1, <2>5, <2>7, Zenon DEF Filed
    <2>i. st.ptr \in Nat /\ st.bufsiz \in Nat
      BY <1>1, Fields
    <2>10. Running(x, "out")
      BY <2>i, <2>4, <2>6, <2>8
      DEF Running, Kinds, Directed, AtEnd, Inside, Room, Drained
    <2>11. Sound(x, "out") /\ x.cnt >= -MaxBuf
      BY <2>6, <2>7, <2>9, <2>10 DEF Sound
    <2> QED
      BY <2>2, <2>7, <2>8, <2>11, StoredPair
  <1>3. CASE ~(st.cnt - 1 > -st.bufsiz /\ ch # "n")
    <2>1. PICK n : n = [st EXCEPT !.cnt = @ - 1]
      OBVIOUS
    <2>2. p = _flsbuf(n, ch, oom)
      BY <1>3, <2>1, Zenon DEF LinePut
    <2>3. Writable(n) /\ n.open = st.open
      BY <2>1, CountedWritable
    <2> QED
      BY <2>2, <2>3, FlushesByte DEF Stored
  <1> QED
    BY <1>2, <1>3

\* What holds of a stream after each turn of fwrite, st being the stream before.
OnTheWay(st, x) ==
  /\ Sound(x, "out")
  /\ x.rw \/ x.wr
  /\ x.kind = "LBF" => x.wr
  /\ x.open = st.open
  /\ x.cnt >= -MaxBuf \/ x.cnt = st.cnt

\* The states of the loop of fwrite.
WriteStates(st) == {r \in FILE \X BOOLEAN \X Nat : OnTheWay(st, r[1])}

\* A byte stored, or refused, leads to another of them.
LEMMA CountsWrite ==
  ASSUME NEW st, NEW r \in WriteStates(st), NEW p, Stored(r[1], p)
  PROVE  Wrote(r, p) \in WriteStates(st)
  <1>1. PICK x, y, m : x = p[1] /\ y = p[2] /\ m = r[3] + (IF p[2] THEN 0 ELSE 1)
    OBVIOUS
  <1>2. r \in FILE \X BOOLEAN \X Nat /\ OnTheWay(st, r[1])
    BY DEF WriteStates
  <1>3. x \in FILE /\ y \in BOOLEAN /\ Sound(x, "out") /\ x.wr /\ x.open = r[1].open
        /\ x.cnt >= -MaxBuf
    BY <1>1 DEF Stored
  <1>4. r[3] \in Nat
    BY <1>2
  <1>5. m \in Nat
    BY <1>1, <1>4
  <1>6. OnTheWay(st, x)
    BY <1>2, <1>3 DEF OnTheWay
  <1>7. Wrote(r, p) = <<x, y, m>>
    BY <1>1, Zenon DEF Wrote
  <1> QED
    BY <1>3, <1>5, <1>6, <1>7 DEF WriteStates

\* So does every turn.
LEMMA TurnWrites ==
  ASSUME NEW st, NEW r \in WriteStates(st), NEW ch \in Bytes, NEW oom
  PROVE  WriteTurn(r, ch, oom) \in WriteStates(st)
  <1>1. PICK x : x = r[1]
    OBVIOUS
  <1>2. Sound(x, "out") /\ (x.rw \/ x.wr) /\ (x.kind = "LBF" => x.wr)
    BY <1>1 DEF WriteStates, OnTheWay
  <1>3. CASE r[2]
    BY <1>3 DEF WriteTurn
  <1>4. CASE ~r[2] /\ x.kind = "LBF"
    <2>1. WriteTurn(r, ch, oom) = Wrote(r, LinePut(x, ch, oom))
      BY <1>1, <1>4, Zenon DEF WriteTurn
    <2>2. Stored(x, LinePut(x, ch, oom))
      BY <1>2, <1>4, LinePuts
    <2> QED
      BY <1>1, <2>1, <2>2, CountsWrite
  <1>5. CASE ~r[2] /\ x.kind # "LBF" /\ x.cnt > 0
    <2>1. WriteTurn(r, ch, oom) = Wrote(r, PutByte(x, ch, oom))
      BY <1>1, <1>5, Zenon DEF WriteTurn
    <2>2. Stored(x, PutByte(x, ch, oom))
      BY <1>2, PutsByte
    <2> QED
      BY <1>1, <2>1, <2>2, CountsWrite
  <1>6. CASE ~r[2] /\ x.kind # "LBF" /\ ~(x.cnt > 0)
    <2>1. WriteTurn(r, ch, oom) = Wrote(r, _flsbuf(x, ch, oom))
      BY <1>1, <1>6, Zenon DEF WriteTurn
    <2>2. Writable(x)
      BY <1>2, SoundWritable
    <2>3. Stored(x, _flsbuf(x, ch, oom))
      BY <2>2, FlushesByte
    <2> QED
      BY <1>1, <2>1, <2>3, CountsWrite
  <1> QED
    BY <1>3, <1>4, <1>5, <1>6

\* The states of fwrite's loop.
WriteTurns(g, st, data, oom) ==
  g = [i \in 0..Len(data) |->
         IF i = 0 THEN <<st, FALSE, 0>> ELSE WriteTurn(g[i - 1], data[i], oom)]

\* fwrite.
LEMMA WritesAll ==
  ASSUME NEW st, OnTheWay(st, st), NEW data \in Seq(Bytes), NEW oom,
         NEW p, p = FwriteLoop(st, data, oom)
  PROVE  OnTheWay(st, p[1])
  <1> DEFINE R == WriteStates(st)
  <1>1. PICK n \in Nat : n = Len(data)
    OBVIOUS
  <1>2. PICK a : a = <<st, FALSE, 0>>
    OBVIOUS
  <1>3. a \in R
    BY <1>2 DEF WriteStates, OnTheWay, Sound
  <1>4. PICK f : f = [q \in R \X (1..n) |-> WriteTurn(q[1], data[q[2]], oom)]
    OBVIOUS
  <1> HIDE DEF R
  <1>5. ASSUME NEW r \in R, NEW i \in 1..n
        PROVE  f[<<r, i>>] = WriteTurn(r, data[i], oom) /\ WriteTurn(r, data[i], oom) \in R
    <2>1. <<r, i>> \in R \X (1..n) /\ <<r, i>>[1] = r /\ <<r, i>>[2] = i
      OBVIOUS
    <2>2. f[<<r, i>>] = WriteTurn(r, data[i], oom)
      BY <1>4, <2>1, Zenon
    <2>3. data[i] \in Bytes
      BY <1>1
    <2>4. WriteTurn(r, data[i], oom) \in R
      BY <2>3, TurnWrites, Zenon DEF R
    <2> QED
      BY <2>2, <2>4
  <1>6. PICK h : LoopOf(h, n, a, f) /\ \A i \in 0..n : h[i] \in R
    <2>1. \A r \in R, i \in 1..n : f[<<r, i>>] \in R
      BY <1>5
    <2> QED
      BY <1>3, <2>1, RunExists, Zenon
  <1>7. WriteTurns(h, st, data, oom)
    <2>1. ASSUME NEW i \in 0..n
          PROVE  (IF i = 0 THEN a ELSE f[<<h[i - 1], i>>])
                 = (IF i = 0 THEN a ELSE WriteTurn(h[i - 1], data[i], oom))
      <3>1. CASE i = 0
        BY <3>1, Zenon
      <3>2. CASE i # 0
        <4>1. i \in 1..n /\ i - 1 \in 0..n
          BY <3>2
        <4>2. h[i - 1] \in R
          BY <1>6, <4>1
        <4> QED
          BY <1>5, <4>1, <4>2, <3>2, Zenon
      <3> QED
        BY <3>1, <3>2
    <2>2. h = [i \in 0..n |-> IF i = 0 THEN a ELSE WriteTurn(h[i - 1], data[i], oom)]
      BY <1>6, <2>1, Zenon DEF LoopOf
    <2> QED
      BY <1>1, <1>2, <2>2, Zenon DEF WriteTurns
  <1> DEFINE g == CHOOSE g : WriteTurns(g, st, data, oom)
  <1>8. p = g[Len(data)]
    BY DEF FwriteLoop, WriteTurns
  <1>9. WriteTurns(g, st, data, oom)
    BY <1>7, Zenon
  <1> HIDE DEF g
  <1>10. /\ g[0] = a
         /\ \A i \in 1..n : g[i] = WriteTurn(g[i - 1], data[i], oom)
    <2>1. \A i \in 0..n : g[i] = IF i = 0 THEN a ELSE WriteTurn(g[i - 1], data[i], oom)
      BY <1>1, <1>2, <1>9, Zenon DEF WriteTurns
    <2>2. 0 \in 0..n /\ \A i \in 1..n : i \in 0..n /\ i # 0
      OBVIOUS
    <2> QED
      BY <2>1, <2>2, Zenon
  <1> DEFINE S == {i \in 0..n : g[i] \in R}
  <1>11. 0 \in S
    BY <1>3, <1>10
  <1>12. ASSUME NEW i \in 1..n, i - 1 \in S
         PROVE  i \in S
    <2>1. i \in 0..n /\ g[i - 1] \in R
      BY <1>12
    <2>2. g[i] \in R
      BY <1>5, <1>10, <2>1, Zenon
    <2> QED
      BY <2>1, <2>2
  <1>13. n \in S
    <2> HIDE DEF S
    <2>1. \A i \in 0..n : i \in S
      BY <1>11, <1>12, TurnByTurn
    <2>2. n \in 0..n
      OBVIOUS
    <2> QED
      BY <2>1, <2>2, Zenon
  <1>14. p \in R
    BY <1>1, <1>8, <1>13
  <1> QED
    BY <1>14 DEF R, WriteStates

-----------------------------------------------------------------------------
(* Reading.                                                                 *)

\* A stream that may be read.
Readable(st) ==
  /\ st \in FILE /\ Filed(st) /\ Kinds(st) /\ AtEnd(st) /\ Inside(st)
  /\ ~st.wr
  /\ st.rd \/ st.rw

\* A readable stream is sound after input, and with nothing buffered at its end.
LEMMA ReadableSound ==
  ASSUME NEW st, Readable(st), st.rw \/ st.rd
  PROVE  Sound(st, "in") /\ (st.ptr = 0 /\ st.cnt <= 0 => Sound(st, "eof"))
  BY Flags DEF Readable, Sound, Running, Directed, Room, Drained

\* A sound stream is readable where C allows input.
LEMMA SoundReadable ==
  ASSUME NEW st, NEW l, Sound(st, l), st.rw \/ st.rd, l # "out"
  PROVE  Readable(st)
  BY DEF Readable, Sound, Running, Directed

\* The bytes read, no more than asked for.
LEMMA ReadsBytes ==
  ASSUME NEW st \in FILE, Filed(st), NEW n \in Nat, NEW got, got = _read(st, n)
  PROVE  got \in Seq(Bytes) /\ Len(got) <= n /\ Len(got) \in Nat
  <1>1. st.pos \in Nat /\ st.disk \in Seq(Bytes) /\ Len(st.disk) \in Nat
    BY Fields DEF Filed
  <1>2. PICK e : e = Min2(st.pos + n, Len(st.disk))
    OBVIOUS
  <1>3. e \in Nat /\ e <= st.pos + n /\ e <= Len(st.disk)
    BY <1>1, <1>2 DEF Min2
  <1>4. got = SubSeq(st.disk, st.pos + 1, e)
    BY <1>2, Zenon DEF _read
  <1>5. CASE e >= st.pos + 1
    BY <1>1, <1>3, <1>4, <1>5
  <1>6. CASE ~(e >= st.pos + 1)
    BY <1>1, <1>3, <1>4, <1>6
  <1> QED
    BY <1>5, <1>6

\* A read puts bytes into the buffer.
LEMMA PutsMem ==
  ASSUME NEW mem \in [0..(MaxBuf - 1) -> Bytes], NEW data \in Seq(Bytes)
  PROVE  PutMem(mem, data) \in [0..(MaxBuf - 1) -> Bytes]
  <1>1. \A i \in 0..(MaxBuf - 1) : (IF i < Len(data) THEN data[i + 1] ELSE mem[i]) \in Bytes
    <2>1. MaxBuf \in Nat
      BY Numbers
    <2> QED
      BY <2>1
  <1> QED
    BY <1>1 DEF PutMem

\* The buffer of a reader.
LEMMA AllocatesForRead ==
  ASSUME NEW st, Readable(st), ~st.eof, NEW oom, NEW n, n = AllocForRead(st, oom)
  PROVE  /\ n \in FILE /\ Filed(n) /\ Kinds(n) /\ ~n.wr /\ ~n.eof /\ n.rw = st.rw
         /\ n.open = st.open /\ (n.kind # "NBF" => n.base)
  <1>1. st \in FILE /\ Filed(st) /\ Kinds(st) /\ ~st.wr
    BY DEF Readable
  <1>2. CASE st.base \/ st.kind = "NBF"
    BY <1>1, <1>2 DEF AllocForRead
  <1>3. CASE ~(st.base \/ st.kind = "NBF") /\ oom
    <2>1. n = [st EXCEPT !.kind = "NBF"]
      BY <1>3, Zenon DEF AllocForRead
    <2>2. /\ n \in FILE /\ SameFlags(st, n) /\ n.ptr = st.ptr /\ n.cnt = st.cnt
          /\ n.kind = "NBF" /\ n.base = st.base /\ n.bufsiz = st.bufsiz
          /\ n.disk = st.disk /\ n.pos = st.pos /\ n.gap = st.gap
      BY <1>1, <2>1, Zenon DEF FILE, SameFlags
    <2>3. Filed(n)
      BY <1>1, <2>2, Zenon DEF Filed
    <2> QED
      BY <1>1, <1>3, <2>2, <2>3 DEF Kinds, SameFlags
  <1>4. CASE ~(st.base \/ st.kind = "NBF") /\ ~oom
    <2>1. n = [st EXCEPT !.base = TRUE, !.bufsiz = TB, !.fill = FILL]
      BY <1>4, Zenon DEF AllocForRead
    <2>2. /\ n \in FILE /\ SameFlags(st, n) /\ n.ptr = st.ptr /\ n.cnt = st.cnt
          /\ n.kind = st.kind /\ n.base /\ n.bufsiz = TB
          /\ n.disk = st.disk /\ n.pos = st.pos /\ n.gap = st.gap
      BY <1>1, <2>1, Numbers, Zenon DEF FILE, SameFlags
    <2>3. Filed(n)
      BY <1>1, <2>2, Zenon DEF Filed
    <2> QED
      BY <1>1, <1>4, <2>2, <2>3, Numbers DEF Kinds, SameFlags
  <1> QED
    BY <1>2, <1>3, <1>4

\* A read ahead never asks for more than the buffer holds.
LEMMA FillsWithin ==
  ASSUME NEW st \in FILE
  PROVE  /\ FillSize(st) \in Nat
         /\ st.kind = "NBF" => FillSize(st) = 1
         /\ st.kind # "NBF" => FillSize(st) <= st.bufsiz
  <1>1. st.fill \in Nat /\ st.bufsiz \in Nat /\ FILL \in Nat
    BY Fields, StdioAssumption
  <1>2. Min2(st.fill, st.bufsiz) \in Nat /\ Min2(st.fill, st.bufsiz) <= st.bufsiz
    BY <1>1 DEF Min2
  <1> QED
    BY <1>1, <1>2 DEF FillSize

\* What _filbuf leaves: st is the stream before.
Refill(st, q) ==
  /\ Readable(q[1]) /\ q[1].open = st.open
  /\ q[1].cnt >= 0 \/ q[1].cnt = st.cnt
  /\ \/ q[2] \in Bytes /\ q[1].cnt >= 0
     \/ q[2] = "EOF" /\ q[1].ptr = 0 /\ q[1].cnt <= 0

\* The buffer after a read of got.
LEMMA Fills ==
  ASSUME NEW st \in FILE, Filed(st), Kinds(st), ~st.wr, st.kind # "NBF" => st.base,
         NEW got \in Seq(Bytes), Len(got) \in Nat,
         st.kind = "NBF" => Len(got) <= 1, st.kind # "NBF" => Len(got) <= st.bufsiz,
         got # <<>> => st.pos + Len(got) <= Len(st.disk),
         NEW n, n = Filled(st, got)
  PROVE  Readable(n) /\ n.open = st.open /\ n.cnt >= 0 /\ (got = <<>> => n.ptr = 0 /\ n.cnt = 0)
  <1>1. PICK m, p, f, c, t : /\ m = PutMem(st.mem, got) /\ p = st.pos + Len(got)
                             /\ f = IF st.fill < st.bufsiz THEN 2 * st.fill ELSE st.bufsiz
                             /\ c = Max2(Len(got) - 1, 0)
                             /\ t = IF got = <<>> THEN 0 ELSE 1
    OBVIOUS
  <1>2. PICK e \in BOOLEAN : e = (got = <<>>)
    OBVIOUS
  <1>3. PICK d \in BOOLEAN : d = ~(got = <<>> /\ st.rw)
    OBVIOUS
  <1>4. n = [st EXCEPT !.mem = m, !.pos = p, !.fill = f, !.cnt = c, !.eof = e, !.rd = d, !.ptr = t]
    BY <1>1, <1>2, <1>3, Zenon DEF Filled
  <1>5. m \in [0..(MaxBuf - 1) -> Bytes]
    BY <1>1, Fields, PutsMem
  <1>6. /\ p \in Nat /\ f \in 0..(2 * MaxBuf) /\ c \in Int /\ t \in 0..MaxBuf
    BY <1>1, Fields, Numbers, SMTT(60) DEF Max2
  <1>7. /\ n \in FILE /\ n.eof = e /\ n.rd = d /\ n.wr = st.wr /\ n.rw = st.rw
        /\ n.open = st.open /\ n.cnt = c /\ n.ptr = t
        /\ n.kind = st.kind /\ n.base = st.base /\ n.bufsiz = st.bufsiz
        /\ n.disk = st.disk /\ n.pos = p /\ n.gap = st.gap
    BY <1>4, <1>5, <1>6, ZenonT(60) DEF FILE
  <1>8. (n.eof => got = <<>>) /\ (n.rd \/ n.rw)
    BY <1>2, <1>3, <1>7, Zenon
  <1>9. CASE got = <<>>
    <2>1. p = st.pos /\ c = 0 /\ t = 0
      BY <1>1, <1>9, Fields DEF Max2
    <2>2. Filed(n)
      BY <1>7, <2>1, Zenon DEF Filed
    <2>3. Kinds(n) /\ AtEnd(n) /\ Inside(n)
      BY <1>7, <2>1, Fields DEF Kinds, AtEnd, Inside
    <2> QED
      BY <1>7, <1>8, <2>1, <2>2, <2>3 DEF Readable
  <1>10. CASE got # <<>>
    <2>1. Len(got) >= 1 /\ t = 1 /\ c = Len(got) - 1 /\ ~n.eof
      <3>1. Len(got) >= 1
        BY <1>10
      <3> QED
        BY <1>1, <1>8, <1>10, <3>1 DEF Max2
    <2>2. p <= Len(st.disk)
      BY <1>1, <1>10
    <2>3. Filed(n)
      BY <1>7, <2>2, Zenon DEF Filed
    <2>4. st.kind \in {"FBF", "LBF", "NBF"} /\ st.bufsiz \in Nat
      BY Fields
    <2>5. Kinds(n) /\ AtEnd(n) /\ Inside(n)
      BY <1>7, <2>1, <2>4 DEF Kinds, AtEnd, Inside
    <2>6. c >= 0
      BY <2>1
    <2> QED
      BY <1>7, <1>8, <1>10, <2>3, <2>5, <2>6 DEF Readable
  <1> QED
    BY <1>9, <1>10

\* A read that returns something ends inside the file.
LEMMA ReadsWithin ==
  ASSUME NEW st \in FILE, Filed(st), NEW n \in Nat, NEW got, got = _read(st, n), got # <<>>
  PROVE  st.pos + Len(got) <= Len(st.disk)
  <1>1. st.pos \in Nat /\ st.disk \in Seq(Bytes) /\ Len(st.disk) \in Nat
    BY Fields DEF Filed
  <1>2. PICK e : e = Min2(st.pos + n, Len(st.disk))
    OBVIOUS
  <1>3. e \in Nat /\ e <= st.pos + n /\ e <= Len(st.disk)
    BY <1>1, <1>2 DEF Min2
  <1>4. got = SubSeq(st.disk, st.pos + 1, e)
    BY <1>2, Zenon DEF _read
  <1>5. CASE e >= st.pos + 1
    BY <1>1, <1>3, <1>4, <1>5
  <1>6. CASE ~(e >= st.pos + 1)
    BY <1>1, <1>3, <1>4, <1>6
  <1> QED
    BY <1>5, <1>6

\* _filbuf.
LEMMA Refills ==
  ASSUME NEW st, Readable(st), NEW oom, NEW q, q = _filbuf(st, oom)
  PROVE  Refill(st, q)
  <1>1. st \in FILE /\ Filed(st) /\ Kinds(st) /\ AtEnd(st) /\ Inside(st) /\ ~st.wr
        /\ (st.rd \/ st.rw)
    BY DEF Readable
  <1>2. PICK d : d = (st.rd \/ st.rw)
    OBVIOUS
  <1>3. d = TRUE
    BY <1>1, <1>2
  <1>4. PICK r : r = [st EXCEPT !.rd = d]
    OBVIOUS
  <1>5. r = [st EXCEPT !.rd = TRUE]
    BY <1>3, <1>4, Zenon
  <1>6. /\ r \in FILE /\ r.rd /\ r.wr = st.wr /\ r.rw = st.rw /\ r.open = st.open
        /\ r.eof = st.eof /\ SameBuffer(st, r)
        /\ r.disk = st.disk /\ r.pos = st.pos /\ r.gap = st.gap
    BY <1>1, <1>5, Zenon DEF FILE, SameBuffer
  <1>7. Readable(r)
    <2>1. Filed(r)
      BY <1>1, <1>6, Zenon DEF Filed
    <2> QED
      BY <1>1, <1>6, <2>1 DEF Readable, Kinds, AtEnd, Inside, SameBuffer
  <1>8. PICK u : u = [r EXCEPT !.unget = FALSE]
    OBVIOUS
  <1>9. /\ u \in FILE /\ u.rd = r.rd /\ u.wr = r.wr /\ u.rw = r.rw /\ u.open = r.open
        /\ u.eof = r.eof /\ SameBuffer(r, u)
        /\ u.disk = r.disk /\ u.pos = r.pos /\ u.gap = r.gap
    BY <1>6, <1>8, Zenon DEF FILE, SameBuffer
  <1>10. Readable(u)
    <2>1. Filed(u)
      BY <1>7, <1>9, Zenon DEF Readable, Filed
    <2> QED
      BY <1>7, <1>9, <2>1 DEF Readable, Kinds, AtEnd, Inside, SameBuffer
  <1>11. PICK a : a = AllocForRead(u, oom)
    OBVIOUS
  <1>12. PICK got : got = _read(a, FillSize(a))
    OBVIOUS
  <1>13. q = IF ~r.rd THEN <<[r EXCEPT !.err = TRUE], "EOF">>
             ELSE IF r.eof THEN <<r, "EOF">>
             ELSE <<Filled(a, got), IF got = <<>> THEN "EOF" ELSE got[1]>>
    BY <1>2, <1>4, <1>8, <1>11, <1>12, Zenon DEF _filbuf
  <1>14. CASE r.eof
    <2>1. q = <<r, "EOF">>
      BY <1>6, <1>13, <1>14, Zenon
    <2>2. q[1] = r /\ q[2] = "EOF"
      BY <2>1
    <2>3. r.ptr = 0 /\ r.cnt <= 0 /\ r.cnt = st.cnt /\ r.open = st.open
      BY <1>6, <1>7, <1>14 DEF Readable, AtEnd, SameBuffer
    <2> QED
      BY <1>7, <2>2, <2>3 DEF Refill
  <1>15. CASE ~r.eof
    <2>1. q = <<Filled(a, got), IF got = <<>> THEN "EOF" ELSE got[1]>>
      BY <1>6, <1>13, <1>15, Zenon
    <2>2. PICK n, b : n = Filled(a, got) /\ b = IF got = <<>> THEN "EOF" ELSE got[1]
      OBVIOUS
    <2>3. q[1] = n /\ q[2] = b
      BY <2>1, <2>2
    <2>4. /\ a \in FILE /\ Filed(a) /\ Kinds(a) /\ ~a.wr /\ ~a.eof /\ a.rw = u.rw
          /\ a.open = u.open /\ (a.kind # "NBF" => a.base)
      BY <1>9, <1>10, <1>11, <1>15, AllocatesForRead
    <2>5. /\ FillSize(a) \in Nat
          /\ a.kind = "NBF" => FillSize(a) = 1
          /\ a.kind # "NBF" => FillSize(a) <= a.bufsiz
      BY <2>4, FillsWithin
    <2>6. got \in Seq(Bytes) /\ Len(got) <= FillSize(a) /\ Len(got) \in Nat
      BY <1>12, <2>4, <2>5, ReadsBytes
    <2>7. got # <<>> => a.pos + Len(got) <= Len(a.disk)
      BY <1>12, <2>4, <2>5, ReadsWithin
    <2>8. (a.kind = "NBF" => Len(got) <= 1) /\ (a.kind # "NBF" => Len(got) <= a.bufsiz)
      <3>1. a.bufsiz \in Int
        BY <2>4, Fields
      <3> QED
        BY <2>5, <2>6, <3>1
    <2>9. /\ Readable(n) /\ n.open = a.open /\ n.cnt >= 0
          /\ got = <<>> => n.ptr = 0 /\ n.cnt = 0
      BY <2>2, <2>4, <2>6, <2>7, <2>8, Fills
    <2>10. b \in Bytes \/ (b = "EOF" /\ n.ptr = 0 /\ n.cnt <= 0)
      <3>1. CASE got = <<>>
        BY <2>2, <2>9, <3>1
      <3>2. CASE got # <<>>
        BY <2>2, <2>6, <3>2
      <3> QED
        BY <3>1, <3>2
    <2> QED
      BY <1>6, <1>9, <2>3, <2>4, <2>9, <2>10 DEF Refill
  <1> QED
    BY <1>14, <1>15

\* One doubling of the read ahead.
Doubled(st, n, v) == IF n > v /\ v < st.bufsiz THEN 2 * Max2(v, FILL) ELSE v

\* The doublings of Grow.
Doublings(g, st, n) ==
  g = [i \in 0..(TB + 1) |->
         IF i = 0 THEN st.fill
         ELSE IF n > g[i - 1] /\ g[i - 1] < st.bufsiz THEN 2 * Max2(g[i - 1], FILL)
         ELSE g[i - 1]]

\* A change of the read ahead alone.
Ahead(st, v) == [st EXCEPT !.fill = v]

\* The size of the read ahead grows no further than twice the buffer.
LEMMA Grows ==
  ASSUME NEW st \in FILE, NEW n \in Nat, NEW x, x = Grow(st, n)
  PROVE  \E v \in 0..(2 * MaxBuf) : x = Ahead(st, v)
  <1> DEFINE R == 0..(2 * MaxBuf)
  <1>1. PICK m \in Nat : m = TB + 1
    BY Numbers
  <1>2. PICK a \in R : a = st.fill
    BY Fields
  <1>3. PICK f : f = [q \in R \X (1..m) |-> Doubled(st, n, q[1])]
    OBVIOUS
  <1>4. ASSUME NEW v \in R
        PROVE  Doubled(st, n, v) \in R
    <2>1. st.bufsiz \in 0..MaxBuf /\ FILL \in Nat /\ FILL <= MaxBuf /\ MaxBuf \in Nat
      BY Fields, Numbers, StdioAssumption
    <2>2. CASE n > v /\ v < st.bufsiz
      <3>1. PICK w \in Nat : w = Max2(v, FILL)
        BY <2>1 DEF Max2
      <3>2. w <= MaxBuf
        BY <2>1, <2>2, <3>1 DEF Max2
      <3>3. Doubled(st, n, v) = 2 * w
        BY <2>2, <3>1 DEF Doubled
      <3>4. 2 * w \in R
        BY <2>1, <3>2
      <3> QED
        BY <3>3, <3>4
    <2>3. CASE ~(n > v /\ v < st.bufsiz)
      BY <2>3 DEF Doubled
    <2> QED
      BY <2>2, <2>3
  <1> HIDE DEF R
  <1>5. ASSUME NEW v \in R, NEW i \in 1..m
        PROVE  f[<<v, i>>] = Doubled(st, n, v) /\ Doubled(st, n, v) \in R
    <2>1. <<v, i>> \in R \X (1..m) /\ <<v, i>>[1] = v
      OBVIOUS
    <2>2. f[<<v, i>>] = Doubled(st, n, v)
      BY <1>3, <2>1, Zenon
    <2> QED
      BY <1>4, <2>2
  <1>6. PICK h : LoopOf(h, m, a, f) /\ \A i \in 0..m : h[i] \in R
    <2>1. \A v \in R, i \in 1..m : f[<<v, i>>] \in R
      BY <1>5
    <2> QED
      BY <1>2, <2>1, RunExists, Zenon
  <1>7. Doublings(h, st, n)
    <2>1. ASSUME NEW i \in 0..m
          PROVE  (IF i = 0 THEN a ELSE f[<<h[i - 1], i>>])
                 = (IF i = 0 THEN a ELSE Doubled(st, n, h[i - 1]))
      <3>1. CASE i = 0
        BY <3>1, Zenon
      <3>2. CASE i # 0
        <4>1. i \in 1..m /\ i - 1 \in 0..m
          BY <3>2
        <4>2. h[i - 1] \in R
          BY <1>6, <4>1
        <4> QED
          BY <1>5, <4>1, <4>2, <3>2, Zenon
      <3> QED
        BY <3>1, <3>2
    <2>2. h = [i \in 0..m |-> IF i = 0 THEN a ELSE Doubled(st, n, h[i - 1])]
      BY <1>6, <2>1, Zenon DEF LoopOf
    <2> QED
      BY <1>1, <1>2, <2>2, Zenon DEF Doublings, Doubled
  <1> DEFINE g == CHOOSE g : Doublings(g, st, n)
  <1>8. x = Ahead(st, g[TB + 1])
    BY DEF Grow, Doublings, Ahead
  <1>9. Doublings(g, st, n)
    BY <1>7, Zenon
  <1> HIDE DEF g
  <1>10. /\ g[0] = a
         /\ \A i \in 1..m : g[i] = Doubled(st, n, g[i - 1])
    <2>1. \A i \in 0..m : g[i] = IF i = 0 THEN a ELSE Doubled(st, n, g[i - 1])
      BY <1>1, <1>2, <1>9, Zenon DEF Doublings, Doubled
    <2>2. 0 \in 0..m /\ \A i \in 1..m : i \in 0..m /\ i # 0
      OBVIOUS
    <2> QED
      BY <2>1, <2>2, Zenon
  <1> DEFINE S == {i \in 0..m : g[i] \in R}
  <1>11. 0 \in S
    BY <1>2, <1>10
  <1>12. ASSUME NEW i \in 1..m, i - 1 \in S
         PROVE  i \in S
    <2>1. i \in 0..m /\ g[i - 1] \in R
      BY <1>12
    <2>2. g[i] \in R
      BY <1>5, <1>10, <2>1, Zenon
    <2> QED
      BY <2>1, <2>2
  <1>13. m \in S
    <2> HIDE DEF S
    <2>1. \A i \in 0..m : i \in S
      BY <1>11, <1>12, TurnByTurn
    <2>2. m \in 0..m
      OBVIOUS
    <2> QED
      BY <2>1, <2>2, Zenon
  <1>14. g[TB + 1] \in 0..(2 * MaxBuf)
    BY <1>1, <1>13 DEF R
  <1> QED
    BY <1>8, <1>14, Zenon

\* Another place in the buffer.
Taken(st, p, c) == [st EXCEPT !.ptr = p, !.cnt = c]

\* Taking k bytes out of the buffer.
LEMMA TakesBytes ==
  ASSUME NEW st, Readable(st), NEW k \in Nat, k <= st.cnt,
         NEW p, NEW c, p = st.ptr + k, c = st.cnt - k, NEW n, n = Taken(st, p, c)
  PROVE  Readable(n) /\ n.open = st.open /\ n.cnt >= 0
  <1>1. st \in FILE /\ Filed(st) /\ Kinds(st) /\ AtEnd(st) /\ Inside(st) /\ ~st.wr
        /\ (st.rd \/ st.rw)
    BY DEF Readable
  <1>2. /\ st.cnt \in Int /\ st.ptr \in 0..MaxBuf /\ st.bufsiz \in 0..MaxBuf
    BY <1>1, Fields
  <1>3. p \in 0..MaxBuf /\ c \in Int /\ c >= 0 /\ p + c = st.ptr + st.cnt
        /\ (~st.base => k = 0) /\ (st.eof => k = 0) /\ (st.base => p <= st.bufsiz)
    BY <1>1, <1>2, Numbers DEF Kinds, AtEnd, Inside
  <1>4. /\ n \in FILE /\ SameFlags(st, n) /\ n.ptr = p /\ n.cnt = c
        /\ n.kind = st.kind /\ n.base = st.base /\ n.bufsiz = st.bufsiz
        /\ n.disk = st.disk /\ n.pos = st.pos /\ n.gap = st.gap
    BY <1>1, <1>3, Zenon DEF FILE, SameFlags, Taken
  <1>5. Filed(n)
    BY <1>1, <1>4, Zenon DEF Filed
  <1>6. (~st.base => c = st.cnt /\ p = st.ptr) /\ (st.eof => c = st.cnt /\ p = st.ptr)
    BY <1>2, <1>3
  <1>7. Kinds(n)
    BY <1>1, <1>4, <1>6 DEF Kinds
  <1>8. AtEnd(n)
    BY <1>1, <1>4, <1>6 DEF AtEnd, SameFlags
  <1>9. Inside(n)
    BY <1>1, <1>3, <1>4 DEF Inside
  <1> QED
    BY <1>1, <1>3, <1>4, <1>5, <1>7, <1>8, <1>9 DEF Readable, SameFlags

\* The bytes taken.
LEMMA InBufs ==
  ASSUME NEW st, Readable(st), NEW k \in Nat, k <= st.cnt \/ k = 0
  PROVE  InBuf(st, k) \in Seq(Bytes) /\ Len(InBuf(st, k)) = k
  <1>1. st \in FILE /\ Kinds(st) /\ Inside(st)
    BY DEF Readable
  <1>2. /\ st.cnt \in Int /\ st.ptr \in 0..MaxBuf /\ st.bufsiz \in 0..MaxBuf
        /\ st.mem \in [0..(MaxBuf - 1) -> Bytes] /\ MaxBuf \in Nat
    BY <1>1, Fields, Numbers
  <1>3. \A i \in 1..k : st.ptr + i - 1 \in 0..(MaxBuf - 1)
    BY <1>1, <1>2, SMTT(60) DEF Kinds, Inside
  <1>4. \A i \in 1..k : st.mem[st.ptr + i - 1] \in Bytes
    BY <1>2, <1>3
  <1>5. InBuf(st, k) \in [1..k -> Bytes]
    BY <1>4 DEF InBuf
  <1> QED
    BY <1>5

\* The record that the loop of fread works on.
ReadRecs == [st : FILE, want : Nat, got : Seq(Bytes), done : BOOLEAN]

\* What holds after each turn of a read of n bytes, st being the stream before.
Reads(st, n, r) ==
  /\ Readable(r.st) /\ r.st.open = st.open
  /\ r.st.cnt >= 0 \/ r.st.cnt = st.cnt
  /\ Len(r.got) + r.want = n
  /\ ~r.done => r.want >= 1
  /\ r.done /\ r.want > 0 => r.st.ptr = 0 /\ r.st.cnt <= 0

\* The states of the loop.
ReadStates(st, n) == {r \in ReadRecs : Reads(st, n, r)}

\* The types of its fields.
LEMMA RecFields ==
  ASSUME NEW r \in ReadRecs
  PROVE  r.st \in FILE /\ r.want \in Nat /\ r.got \in Seq(Bytes) /\ r.done \in BOOLEAN
  BY Zenon DEF ReadRecs

\* All of the buffer is taken, and more is wanted.
LEMMA TakesAll ==
  ASSUME NEW st, NEW n \in Nat \ {0}, NEW r \in ReadStates(st, n), ~r.done, r.st.cnt < r.want,
         NEW x, x = TakeAll(r)
  PROVE  /\ x \in ReadRecs /\ x.st = r.st /\ ~x.done /\ x.want >= 1 /\ x.want <= r.want
         /\ Len(x.got) + x.want = n
  <1>1. r \in ReadRecs /\ Reads(st, n, r)
    BY DEF ReadStates
  <1>2. r.st \in FILE /\ r.want \in Nat /\ r.got \in Seq(Bytes) /\ r.done \in BOOLEAN
    BY <1>1, RecFields
  <1>3. PICK k : k = Max2(r.st.cnt, 0)
    OBVIOUS
  <1>4. k \in Nat /\ (k <= r.st.cnt \/ k = 0) /\ Readable(r.st)
    BY <1>1, <1>2, <1>3, Fields DEF Max2, Reads
  <1>5. PICK b : b = InBuf(r.st, k)
    OBVIOUS
  <1>6. b \in Seq(Bytes) /\ Len(b) = k
    BY <1>4, <1>5, InBufs
  <1>7. PICK o, w : o = r.got \o b /\ w = r.want - k
    OBVIOUS
  <1>8. o \in Seq(Bytes) /\ Len(o) = Len(r.got) + k
    BY <1>2, <1>6, <1>7
  <1>9. w \in Nat /\ w >= 1 /\ w <= r.want /\ Len(o) + w = n
    <2>1. r.st.cnt \in Int /\ Len(r.got) \in Nat
      BY <1>2, Fields
    <2>2. r.want >= 1
      BY <1>1 DEF Reads
    <2> QED
      BY <1>1, <1>2, <1>3, <1>4, <1>7, <1>8, <2>1, <2>2 DEF Reads, Max2
  <1>10. x = [r EXCEPT !.got = o, !.want = w]
    BY <1>3, <1>5, <1>7, Zenon DEF TakeAll
  <1>11. x \in ReadRecs /\ x.st = r.st /\ x.done = r.done /\ x.want = w /\ x.got = o
    BY <1>1, <1>8, <1>9, <1>10, Zenon DEF ReadRecs
  <1> QED
    BY <1>9, <1>11

\* The refill that follows.
LEMMA TakesRefill ==
  ASSUME NEW st, NEW n \in Nat \ {0}, NEW r \in ReadStates(st, n), NEW y \in ReadRecs,
         y.st = r.st, ~y.done, y.want >= 1, y.want <= r.want, Len(y.got) + y.want = n,
         NEW q, q[1] \in FILE, Refill(r.st, q), NEW x, x = Refilled(y, q)
  PROVE  /\ x \in ReadRecs /\ Readable(x.st) /\ x.st.open = st.open
         /\ x.st.cnt >= 0 \/ x.st.cnt = st.cnt
         /\ Len(x.got) + x.want = n
         /\ x.done => x.want > 0 /\ x.st.ptr = 0 /\ x.st.cnt <= 0
         /\ ~x.done => x.st.cnt >= 0 /\ x.want < r.want
  <1>1. r \in ReadRecs /\ Reads(st, n, r)
    BY DEF ReadStates
  <1>2. r.st \in FILE /\ r.want \in Nat /\ y.want \in Nat /\ y.got \in Seq(Bytes)
        /\ y.done \in BOOLEAN
    BY <1>1, RecFields
  <1>3. PICK z, b : z = q[1] /\ b = q[2]
    OBVIOUS
  <1>4. /\ z \in FILE /\ Readable(z) /\ z.open = r.st.open
        /\ z.cnt >= 0 \/ z.cnt = r.st.cnt
        /\ \/ b \in Bytes /\ z.cnt >= 0
           \/ b = "EOF" /\ z.ptr = 0 /\ z.cnt <= 0
    BY <1>3, Zenon DEF Refill
  <1>5. z.open = st.open /\ (z.cnt >= 0 \/ z.cnt = st.cnt)
    BY <1>1, <1>4 DEF Reads
  <1>6. CASE b = "EOF"
    <2>1. x = [y EXCEPT !.st = z, !.done = TRUE]
      BY <1>3, <1>6, Zenon DEF Refilled
    <2>2. x \in ReadRecs /\ x.st = z /\ x.done /\ x.want = y.want /\ x.got = y.got
      BY <1>4, <2>1, Zenon DEF ReadRecs
    <2>3. z.ptr = 0 /\ z.cnt <= 0
      BY <1>4, <1>6, StdioAssumption
    <2> QED
      BY <1>2, <1>4, <1>5, <2>2, <2>3
  <1>7. CASE b # "EOF"
    <2>1. b \in Bytes /\ z.cnt >= 0
      BY <1>4, <1>7
    <2>2. PICK o, w : o = Append(y.got, b) /\ w = y.want - 1
      OBVIOUS
    <2>3. x = [y EXCEPT !.st = z, !.got = o, !.want = w]
      BY <1>3, <1>7, <2>2, Zenon DEF Refilled
    <2>4. o \in Seq(Bytes) /\ Len(o) = Len(y.got) + 1 /\ Len(y.got) \in Nat
      BY <1>2, <2>1, <2>2
    <2>5. w \in Nat /\ Len(o) + w = n /\ w < r.want
      BY <1>2, <2>2, <2>4, SMTT(60)
    <2>6. x \in ReadRecs /\ x.st = z /\ x.done = y.done /\ x.want = w /\ x.got = o
      BY <1>4, <2>3, <2>4, <2>5, Zenon DEF ReadRecs
    <2> QED
      BY <1>4, <1>5, <2>1, <2>5, <2>6
  <1> QED
    BY <1>6, <1>7

\* What is wanted lies in the buffer.
LEMMA TakesRest ==
  ASSUME NEW st, NEW n \in Nat \ {0}, NEW r \in ReadRecs, Readable(r.st), r.st.open = st.open,
         r.st.cnt >= 0 \/ r.st.cnt = st.cnt, Len(r.got) + r.want = n,
         r.done => r.want > 0 /\ r.st.ptr = 0 /\ r.st.cnt <= 0,
         ~r.done => r.st.cnt >= r.want \/ r.st.cnt >= 0,
         NEW x, x = TakeRest(r)
  PROVE  x \in ReadStates(st, n) /\ (x.done \/ x.want = r.want)
  <1>1. r.st \in FILE /\ r.want \in Nat /\ r.got \in Seq(Bytes) /\ r.done \in BOOLEAN
    BY RecFields
  <1>2. CASE r.done \/ r.st.cnt < r.want
    <2>1. x = r
      BY <1>2, Zenon DEF TakeRest
    <2>2. r.st.cnt \in Int
      BY <1>1, Fields
    <2>3. ~r.done => r.want >= 1
      BY <1>1, <1>2, <2>2
    <2> QED
      BY <1>1, <2>1, <2>3 DEF ReadStates, Reads
  <1>3. CASE ~r.done /\ ~(r.st.cnt < r.want)
    <2>1. PICK k \in Nat : k = r.want
      BY <1>1
    <2>2. PICK p, c, b : p = r.st.ptr + k /\ c = r.st.cnt - k /\ b = InBuf(r.st, k)
      OBVIOUS
    <2>3. PICK z : z = Taken(r.st, p, c)
      OBVIOUS
    <2>4. PICK o : o = r.got \o b
      OBVIOUS
    <2>5. x = [r EXCEPT !.got = o, !.want = 0, !.done = TRUE, !.st = z]
      BY <1>3, <2>1, <2>2, <2>3, <2>4, Zenon DEF TakeRest, ReadRecs, Taken
    <2>6. k <= r.st.cnt
      BY <1>1, <1>3, <2>1, Fields
    <2>7. Readable(z) /\ z.open = r.st.open /\ z.cnt >= 0
      BY <2>2, <2>3, <2>6, TakesBytes
    <2>8. b \in Seq(Bytes) /\ Len(b) = k
      BY <2>2, <2>6, InBufs
    <2>9. o \in Seq(Bytes) /\ Len(o) = n /\ Len(o) + 0 = n
      BY <1>1, <2>1, <2>4, <2>8
    <2>10. z \in FILE /\ 0 \in Nat
      BY <2>7 DEF Readable
    <2>11. x \in ReadRecs /\ x.st = z /\ x.done /\ x.want = 0 /\ x.got = o
      BY <2>5, <2>9, <2>10, Zenon DEF ReadRecs
    <2> QED
      BY <2>7, <2>9, <2>11 DEF ReadStates, Reads
  <1> QED
    BY <1>2, <1>3

\* A turn of fread ends the loop or brings it nearer to its end.
LEMMA TurnReads ==
  ASSUME NEW st, NEW n \in Nat \ {0}, NEW r \in ReadStates(st, n), NEW oom,
         NEW x, x = ReadTurn(r, oom)
  PROVE  x \in ReadStates(st, n) /\ (~r.done => x.done \/ x.want < r.want) /\ (r.done => x = r)
  <1>1. r \in ReadRecs /\ Reads(st, n, r)
    BY DEF ReadStates
  <1>2. r.st \in FILE /\ r.want \in Nat /\ Readable(r.st) /\ r.st.cnt \in Int
    BY <1>1, RecFields, Fields DEF Reads
  <1>3. CASE r.done
    BY <1>3 DEF ReadTurn
  <1>4. CASE ~r.done /\ r.st.cnt >= r.want
    <2>1. x = TakeRest(r)
      BY <1>4, Zenon DEF ReadTurn
    <2>2. ~(r.done \/ r.st.cnt < r.want)
      BY <1>2, <1>4
    <2>3. x \in ReadStates(st, n)
      BY <1>1, <1>4, <2>1, TakesRest DEF Reads
    <2>4. x.done
      <3>1. PICK p, c, b : /\ p = r.st.ptr + r.want /\ c = r.st.cnt - r.want
                           /\ b = r.got \o InBuf(r.st, r.want)
        OBVIOUS
      <3>2. x = [r EXCEPT !.got = b, !.want = 0, !.done = TRUE, !.st = Taken(r.st, p, c)]
        BY <1>1, <2>1, <2>2, <3>1, Zenon DEF TakeRest, ReadRecs, Taken
      <3> QED
        BY <1>1, <3>2, Zenon DEF ReadRecs
    <2> QED
      BY <1>4, <2>3, <2>4
  <1>5. CASE ~r.done /\ ~(r.st.cnt >= r.want)
    <2>1. PICK y, q : y = TakeAll(r) /\ q = _filbuf(r.st, oom)
      OBVIOUS
    <2>2. PICK z : z = Refilled(y, q)
      OBVIOUS
    <2>3. x = TakeRest(z)
      BY <1>5, <2>1, <2>2, Zenon DEF ReadTurn
    <2>4. r.st.cnt < r.want
      BY <1>2, <1>5
    <2>5. /\ y \in ReadRecs /\ y.st = r.st /\ ~y.done /\ y.want >= 1 /\ y.want <= r.want
          /\ Len(y.got) + y.want = n
      BY <1>5, <2>1, <2>4, TakesAll
    <2>6. Refill(r.st, q) /\ q[1] \in FILE
      BY <1>2, <2>1, Refills DEF Refill, Readable
    <2>7. /\ z \in ReadRecs /\ Readable(z.st) /\ z.st.open = st.open
          /\ z.st.cnt >= 0 \/ z.st.cnt = st.cnt
          /\ Len(z.got) + z.want = n
          /\ z.done => z.want > 0 /\ z.st.ptr = 0 /\ z.st.cnt <= 0
          /\ ~z.done => z.st.cnt >= 0 /\ z.want < r.want
      BY <2>2, <2>5, <2>6, TakesRefill
    <2>8. x \in ReadStates(st, n) /\ (x.done \/ x.want = z.want)
      BY <2>3, <2>7, TakesRest
    <2>9. x.done \/ x.want < r.want
      <3>1. CASE z.done
        BY <2>3, <3>1 DEF TakeRest
      <3>2. CASE ~z.done
        BY <2>7, <2>8, <3>2
      <3> QED
        BY <3>1, <3>2
    <2> QED
      BY <1>5, <2>8, <2>9
  <1> QED
    BY <1>3, <1>4, <1>5

\* The states of fread's loop.
ReadTurns(g, st, n, oom) ==
  g = [i \in 0..n |->
         IF i = 0 THEN [st |-> Grow(st, n), want |-> n, got |-> <<>>, done |-> FALSE]
         ELSE ReadTurn(g[i - 1], oom)]

\* The read ahead is no part of what makes a stream readable.
LEMMA GrowsReadable ==
  ASSUME NEW st, Readable(st), NEW n \in Nat, NEW x, x = Grow(st, n)
  PROVE  Readable(x) /\ x.open = st.open /\ x.cnt = st.cnt
  <1>1. st \in FILE /\ Filed(st)
    BY DEF Readable
  <1>2. PICK v \in 0..(2 * MaxBuf) : x = Ahead(st, v)
    BY <1>1, Grows, ZenonT(60)
  <1>3. /\ x \in FILE /\ SameFlags(st, x) /\ SameBuffer(st, x)
        /\ x.disk = st.disk /\ x.pos = st.pos /\ x.gap = st.gap
    BY <1>1, <1>2, Zenon DEF FILE, SameFlags, SameBuffer, Ahead
  <1>4. Filed(x)
    BY <1>1, <1>3, Zenon DEF Filed
  <1> QED
    BY <1>3, <1>4 DEF Readable, Kinds, AtEnd, Inside, SameFlags, SameBuffer

\* fread of a positive number of bytes.
LEMMA ReadsAll ==
  ASSUME NEW st, Readable(st), NEW n \in Nat \ {0}, NEW oom, NEW p, p = FreadLoop(st, n, oom)
  PROVE  /\ p \in ReadStates(st, n)
         /\ Len(p.got) < n => p.st.ptr = 0 /\ p.st.cnt <= 0
  <1> DEFINE R == ReadStates(st, n)
  <1>1. PICK z : z = Grow(st, n)
    OBVIOUS
  <1>2. PICK a : a = [st |-> z, want |-> n, got |-> <<>>, done |-> FALSE]
    OBVIOUS
  <1>3. a \in R
    <2>1. n \in Nat /\ n >= 1
      OBVIOUS
    <2>2. Readable(z) /\ z.open = st.open /\ z.cnt = st.cnt
      BY <1>1, <2>1, GrowsReadable
    <2>3. z \in FILE /\ <<>> \in Seq(Bytes) /\ Len(<<>>) + n = n
      BY <2>2 DEF Readable
    <2>4. a.st = z /\ a.want = n /\ a.got = <<>> /\ ~a.done
      BY <1>2
    <2>5. a \in ReadRecs
      BY <1>2, <2>1, <2>3, Zenon DEF ReadRecs
    <2> QED
      BY <2>1, <2>2, <2>3, <2>4, <2>5 DEF ReadStates, Reads
  <1>4. PICK f : f = [q \in R \X (1..n) |-> ReadTurn(q[1], oom)]
    OBVIOUS
  <1>5. ASSUME NEW r \in R
        PROVE  /\ ReadTurn(r, oom) \in R
               /\ ~r.done => ReadTurn(r, oom).done \/ ReadTurn(r, oom).want < r.want
               /\ r.done => ReadTurn(r, oom) = r
    BY TurnReads
  <1>r. \A r \in R : r.want \in Nat /\ Len(r.got) \in Nat /\ Len(r.got) + r.want = n
                     /\ (r.done /\ r.want > 0 => r.st.ptr = 0 /\ r.st.cnt <= 0)
    BY RecFields DEF ReadStates, Reads
  <1> HIDE DEF R
  <1>6. ASSUME NEW r \in R, NEW i \in 1..n
        PROVE  f[<<r, i>>] = ReadTurn(r, oom)
    <2>1. <<r, i>> \in R \X (1..n) /\ <<r, i>>[1] = r
      OBVIOUS
    <2> QED
      BY <1>4, <2>1, Zenon
  <1>7. PICK h : LoopOf(h, n, a, f) /\ \A i \in 0..n : h[i] \in R
    <2>1. \A r \in R, i \in 1..n : f[<<r, i>>] \in R
      BY <1>5, <1>6
    <2>2. n \in Nat
      OBVIOUS
    <2> QED
      BY <1>3, <2>1, <2>2, RunExists, Zenon
  <1>8. ReadTurns(h, st, n, oom)
    <2>1. ASSUME NEW i \in 0..n
          PROVE  (IF i = 0 THEN a ELSE f[<<h[i - 1], i>>])
                 = (IF i = 0 THEN a ELSE ReadTurn(h[i - 1], oom))
      <3>1. CASE i = 0
        BY <3>1, Zenon
      <3>2. CASE i # 0
        <4>1. i \in 1..n /\ i - 1 \in 0..n
          BY <3>2
        <4>2. h[i - 1] \in R
          BY <1>7, <4>1
        <4> QED
          BY <1>6, <4>1, <4>2, <3>2, Zenon
      <3> QED
        BY <3>1, <3>2
    <2>2. h = [i \in 0..n |-> IF i = 0 THEN a ELSE ReadTurn(h[i - 1], oom)]
      BY <1>7, <2>1, Zenon DEF LoopOf
    <2> QED
      BY <1>1, <1>2, <2>2, Zenon DEF ReadTurns
  <1> DEFINE g == CHOOSE g : ReadTurns(g, st, n, oom)
  <1>9. p = g[n]
    BY DEF FreadLoop, ReadTurns
  <1>10. ReadTurns(g, st, n, oom)
    BY <1>8, Zenon
  <1> HIDE DEF g
  <1>11. /\ g[0] = a
         /\ \A i \in 1..n : g[i] = ReadTurn(g[i - 1], oom)
    <2>1. \A i \in 0..n : g[i] = IF i = 0 THEN a ELSE ReadTurn(g[i - 1], oom)
      BY <1>1, <1>2, <1>10, Zenon DEF ReadTurns
    <2>2. 0 \in 0..n /\ \A i \in 1..n : i \in 0..n /\ i # 0
      OBVIOUS
    <2> QED
      BY <2>1, <2>2, Zenon
  <1> DEFINE S == {i \in 0..n : g[i] \in R /\ (g[i].done \/ g[i].want <= n - i)}
  <1>12. 0 \in S
    <2>1. a.want = n
      BY <1>2
    <2> QED
      BY <1>3, <1>11, <2>1
  <1>13. ASSUME NEW i \in 1..n, i - 1 \in S
         PROVE  i \in S
    <2>1. PICK u, v : u = g[i - 1] /\ v = g[i]
      OBVIOUS
    <2>2. i \in 0..n /\ u \in R /\ (u.done \/ u.want <= n - (i - 1))
      BY <1>13, <2>1
    <2>3. v = ReadTurn(u, oom)
      BY <1>11, <2>1
    <2>4. v \in R /\ (~u.done => v.done \/ v.want < u.want) /\ (u.done => v = u)
      BY <1>5, <2>2, <2>3
    <2>5. u.want \in Nat /\ v.want \in Nat
      BY <1>r, <2>2, <2>4
    <2>6. v.done \/ v.want <= n - i
      BY <2>2, <2>4, <2>5
    <2> QED
      BY <2>1, <2>2, <2>4, <2>6
  <1>14. n \in S
    <2> HIDE DEF S
    <2>1. \A i \in 0..n : i \in S
      BY <1>12, <1>13, TurnByTurn
    <2>2. n \in 0..n
      OBVIOUS
    <2> QED
      BY <2>1, <2>2, Zenon
  <1>15. p \in R /\ (p.done \/ p.want <= 0)
    BY <1>9, <1>14
  <1> QED
    BY <1>r, <1>15 DEF R

-----------------------------------------------------------------------------
(* The calls of the program.                                                *)

\* The uses of a stream that lead out of its buffer.
Misuses == {"unget_empty", "line_update", "ftell_line"}

\* The calls that C tells apart.
Lasts == {"none", "open", "in", "eof", "out"}

\* What a call that takes a stream to st leaves.
Fine(st, l) == IF st.open THEN Sound(st, l) ELSE Shut(st)

\* A call takes at most one off a count that is below zero.
Counted(st, k) == st.cnt + MaxBuf + k >= 0

\* The inductive invariant.
Inv ==
  /\ last \in Lasts
  /\ calls \in 0..MaxCalls
  /\ Fine(s, last)
  /\ Counted(s, calls)

\* A call keeps the invariant when it leaves a sound stream and a count in bounds.
LEMMA Steps ==
  ASSUME Inv, NEW st, NEW o, NEW l \in Lasts, Step(st, o, l), calls < MaxCalls, Fine(st, l),
         st.cnt \in Int, st.cnt >= -MaxBuf \/ st.cnt = s.cnt \/ st.cnt = s.cnt - 1,
         s.cnt \in Int
  PROVE  Inv'
  <1>1. s' = st /\ last' = l /\ calls' = calls + 1
    BY DEF Step
  <1>2. calls + 1 \in 0..MaxCalls
    BY StdioAssumption DEF Inv
  <1>3. Counted(st, calls + 1)
    BY <1>2, Numbers DEF Inv, Counted
  <1> QED
    BY <1>1, <1>2, <1>3 DEF Inv, Fine, Counted, Lasts, Shut, Sound, Running, Kinds, Directed,
         AtEnd, Inside, Room, Drained, Filed

\* So do fopen and setvbuf, which do not count as calls.
LEMMA Setups ==
  ASSUME Inv, NEW st, NEW o, NEW l \in Lasts, Setup(st, o, l), Fine(st, l), st.cnt = 0
  PROVE  Inv'
  <1>1. s' = st /\ last' = l /\ calls' = calls
    BY DEF Setup
  <1>2. Counted(st, calls)
    BY StdioAssumption DEF Inv, Counted
  <1> QED
    BY <1>1, <1>2 DEF Inv, Fine, Counted, Lasts, Shut, Sound, Running, Kinds, Directed,
         AtEnd, Inside, Room, Drained, Filed

\* An open stream, in the state the invariant gives it.
LEMMA OpenStream ==
  ASSUME Inv, s.open
  PROVE  Sound(s, last) /\ s \in FILE /\ s.cnt \in Int
  <1>1. Sound(s, last)
    BY DEF Inv, Fine
  <1> QED
    BY <1>1, Fields DEF Sound

\* A FILE that was never opened.
LEMMA InitInv == ASSUME Init PROVE Inv
  <1>1. PICK c \in Contents :
          s = [open |-> FALSE, rw |-> FALSE, rd |-> FALSE, wr |-> FALSE, eof |-> FALSE,
               err |-> FALSE, unget |-> FALSE, kind |-> "FBF", base |-> FALSE, cnt |-> 0,
               ptr |-> 0, bufsiz |-> 0, fill |-> 0, mem |-> [i \in 0..(MaxBuf - 1) |-> "0"],
               disk |-> c, pos |-> 0, gap |-> FALSE, app |-> FALSE]
    BY DEF Init
  <1>2. c \in Seq(Bytes) /\ 0 \in Nat
    BY StdioAssumption
  <1>3. c \in Seq(Bytes \cup {"garbage"})
    BY <1>2, BytesAndGarbage, Zenon
  <1>4. [i \in 0..(MaxBuf - 1) |-> "0"] \in [0..(MaxBuf - 1) -> Bytes]
    BY StdioAssumption
  <1>5. s \in FILE
    BY <1>1, <1>2, <1>3, <1>4, Numbers, Zenon DEF FILE
  <1>6. /\ s.disk = c /\ ~s.open /\ ~s.rd /\ ~s.wr /\ ~s.rw /\ ~s.eof /\ ~s.base
        /\ s.kind = "FBF" /\ s.cnt = 0 /\ s.ptr = 0 /\ s.bufsiz = 0
    BY <1>1
  <1>7. Shut(s)
    BY <1>2, <1>5, <1>6, Zenon DEF Shut
  <1> QED
    BY <1>6, <1>7, StdioAssumption DEF Init, Inv, Fine, Counted, Lasts

\* One lemma for each call.
LEMMA FopenInv == ASSUME Inv, NEW mode \in Modes, fopen(mode) PROVE Inv'
  <1>1. PICK st : st = Opened(s, mode)
    OBVIOUS
  <1>2. Setup(st, <<"fopen">>, "open") /\ "open" \in Lasts /\ ~s.open
    BY <1>1 DEF fopen, Lasts
  <1>3. Shut(s)
    BY <1>2 DEF Inv, Fine
  <1>4. Sound(st, "open") /\ st.open /\ st.cnt = 0
    BY <1>1, <1>3, Opens
  <1> QED
    BY <1>2, <1>4, Setups DEF Fine

\* freopen closes the file first.
LEMMA FreopenInv == ASSUME Inv, NEW mode \in Modes, freopen(mode) PROVE Inv'
  <1>1. PICK c, st : c = Closed(Fflush(s)[1]) /\ st = Opened(c, mode)
    OBVIOUS
  <1>2. Step(st, <<"freopen">>, "open") /\ "open" \in Lasts /\ s.open /\ calls < MaxCalls
    BY <1>1 DEF freopen, Called, Lasts
  <1>3. Sound(s, last) /\ s.cnt \in Int
    BY <1>2, OpenStream
  <1>4. Shut(c)
    BY <1>1, <1>3, Closes
  <1>5. Sound(st, "open") /\ st.open /\ st.cnt = 0
    BY <1>1, <1>4, Opens
  <1>6. Fine(st, "open") /\ st.cnt \in Int /\ st.cnt >= -MaxBuf
    BY <1>5, Numbers DEF Fine
  <1> QED
    BY <1>2, <1>3, <1>6, Steps

\* fclose, whether its flush fails or not.
LEMMA FcloseInv == ASSUME Inv, fclose PROVE Inv'
  <1>1. PICK st : st = Closed(Fflush(s)[1])
    OBVIOUS
  <1>2. PICK o : o = <<"fclose", Fflush(s)[2]>>
    OBVIOUS
  <1>3. Step(st, o, "none") /\ "none" \in Lasts /\ s.open /\ calls < MaxCalls
    BY <1>1, <1>2 DEF fclose, Called, Lasts
  <1>4. Sound(s, last) /\ s.cnt \in Int
    BY <1>3, OpenStream
  <1>5. Shut(st)
    BY <1>1, <1>4, Closes
  <1>6. Fine(st, "none") /\ st.cnt \in Int /\ st.cnt >= -MaxBuf
    BY <1>5, Numbers DEF Fine, Shut
  <1> QED
    BY <1>3, <1>4, <1>6, Steps

\* setvbuf comes directly after the stream is opened.
LEMMA SetvbufInv ==
  ASSUME Inv, NEW kind, NEW len, setvbuf(kind, len),
         \/ kind = "NBF" /\ len = 0
         \/ kind \in {"FBF", "LBF"} /\ len \in BufSizes
  PROVE  Inv'
  <1>1. PICK st : st = Setvbuf(s, kind, len)
    OBVIOUS
  <1>2. Setup(st, <<"setvbuf", 0>>, "none") /\ "none" \in Lasts /\ s.open /\ last = "open"
    BY <1>1 DEF setvbuf, Called, Lasts
  <1>3. Sound(s, "open")
    BY <1>2, OpenStream
  <1>4. Sound(st, "none") /\ st.open = s.open /\ st.cnt = 0
    BY <1>1, <1>3, SetsBuffer
  <1>5. Fine(st, "none")
    BY <1>2, <1>4 DEF Fine
  <1> QED
    BY <1>2, <1>4, <1>5, Setups

\* A stream that may be written, or read.
LEMMA MayWrite ==
  ASSUME Inv, s.open, CanWrite
  PROVE  Sound(s, "out") /\ (s.rw \/ s.wr)
  <1>1. Sound(s, last) /\ last # "in" /\ (s.rw \/ s.wr)
    BY OpenStream DEF CanWrite
  <1> QED
    BY <1>1 DEF Sound, Running, Directed, Drained

\* The same for input.
LEMMA MayRead ==
  ASSUME Inv, s.open, CanRead
  PROVE  Readable(s)
  BY OpenStream, SoundReadable DEF CanRead

\* A call of input that delivers less than n bytes has met the end of the file.
LEMMA ReadStep ==
  ASSUME Inv, NEW n, NEW r, Input(n, r), calls < MaxCalls, s.open,
         Readable(r.st), r.st.open = s.open,
         r.st.cnt >= 0 \/ r.st.cnt = s.cnt \/ r.st.cnt = s.cnt - 1,
         Len(r.got) < n => r.st.ptr = 0 /\ r.st.cnt <= 0
  PROVE  Inv'
  <1>1. PICK st, o, l : st = r.st /\ o = <<"read", n, r.got>>
                        /\ l = IF Len(r.got) < n THEN "eof" ELSE "in"
    OBVIOUS
  <1>2. Step(st, o, l) /\ l \in Lasts
    BY <1>1 DEF Input, Lasts
  <1>3. st.rw \/ st.rd
    BY <1>1 DEF Readable
  <1>4. Sound(st, l)
    BY <1>1, <1>3, ReadableSound
  <1>5. s.cnt \in Int /\ st.cnt \in Int
    BY <1>4, OpenStream, Fields DEF Sound
  <1>6. Fine(st, l)
    BY <1>1, <1>4 DEF Fine
  <1>7. st.cnt >= -MaxBuf \/ st.cnt = s.cnt \/ st.cnt = s.cnt - 1
    BY <1>1, <1>5, Numbers
  <1> QED
    BY <1>2, <1>5, <1>6, <1>7, Steps

\* getc, out of the buffer or with _filbuf.
LEMMA GetcInv == ASSUME Inv, getc PROVE Inv'
  <1>1. s.open /\ calls < MaxCalls /\ CanRead
    BY DEF getc, InputAllowed, Called
  <1>2. Readable(s) /\ s \in FILE /\ s.cnt \in Int
    BY <1>1, MayRead, OpenStream
  <1>3. CASE s.cnt > 0
    <2>1. PICK p, c, st, b : /\ p = s.ptr + 1 /\ c = s.cnt - 1
                             /\ st = Taken(s, p, c) /\ b = InBuf(s, 1)
      OBVIOUS
    <2>2. PICK r : r = [st |-> st, got |-> b]
      OBVIOUS
    <2>3. Input(1, r)
      BY <1>3, <2>1, <2>2, Zenon DEF getc, Taken
    <2>4. 1 \in Nat /\ 1 <= s.cnt
      BY <1>2, <1>3
    <2>5. Readable(st) /\ st.open = s.open /\ st.cnt >= 0
      BY <1>2, <2>1, <2>4, TakesBytes
    <2>6. Len(b) = 1
      BY <1>2, <2>1, <2>4, InBufs
    <2>7. r.st = st /\ ~(Len(r.got) < 1)
      BY <2>2, <2>6
    <2> QED
      BY <1>1, <2>3, <2>5, <2>7, ReadStep
  <1>4. CASE ~(s.cnt > 0)
    <2>1. PICK c, z : c = s.cnt - 1 /\ z = [s EXCEPT !.cnt = c]
      OBVIOUS
    <2>2. PICK oom \in OomChoice :
            LET fb == _filbuf(z, oom)
            IN  Input(1, [st |-> fb[1], got |-> IF fb[2] = "EOF" THEN <<>> ELSE <<fb[2]>>])
      BY <1>4, <2>1, Zenon DEF getc
    <2>3. PICK q : q = _filbuf(z, oom)
      OBVIOUS
    <2>4. PICK r : r = [st |-> q[1], got |-> IF q[2] = "EOF" THEN <<>> ELSE <<q[2]>>]
      OBVIOUS
    <2>5. Input(1, r)
      BY <2>2, <2>3, <2>4, Zenon
    <2>6. c \in Int /\ c <= 0 /\ c <= s.cnt
      BY <1>2, <1>4, <2>1
    <2>7. /\ z \in FILE /\ SameFlags(s, z) /\ z.ptr = s.ptr /\ z.cnt = c
          /\ z.kind = s.kind /\ z.base = s.base /\ z.bufsiz = s.bufsiz
          /\ z.disk = s.disk /\ z.pos = s.pos /\ z.gap = s.gap
      BY <1>2, <2>1, <2>6, SetsCount
    <2>8. Readable(z)
      <3>1. Filed(z)
        BY <1>2, <2>7, Zenon DEF Readable, Filed
      <3>2. Inside(z)
        <4>1. s.ptr \in Int /\ s.bufsiz \in Int
          BY <1>2, Fields
        <4> QED
          BY <1>2, <2>6, <2>7, <4>1 DEF Readable, Inside
      <3> QED
        BY <1>2, <2>6, <2>7, <3>1, <3>2 DEF Readable, Kinds, AtEnd, SameFlags
    <2>9. Refill(z, q)
      BY <2>3, <2>8, Refills
    <2>10. Readable(q[1]) /\ q[1].open = s.open /\ (q[1].cnt >= 0 \/ q[1].cnt = s.cnt - 1)
      BY <2>1, <2>7, <2>9 DEF Refill, SameFlags
    <2>11. q[2] = "EOF" => q[1].ptr = 0 /\ q[1].cnt <= 0
      BY <2>9, StdioAssumption DEF Refill
    <2>12. r.st = q[1] /\ (Len(r.got) < 1 => q[2] = "EOF")
      BY <2>4
    <2> QED
      BY <1>1, <2>5, <2>10, <2>11, <2>12, ReadStep
  <1> QED
    BY <1>3, <1>4

\* fread.
LEMMA FreadInv == ASSUME Inv, fread(MaxRead) PROVE Inv'
  <1>1. s.open /\ calls < MaxCalls /\ CanRead
    BY DEF fread, InputAllowed, Called
  <1>2. PICK oom : Input(MaxRead, FreadLoop(s, MaxRead, oom))
    BY DEF fread
  <1>3. PICK r : r = FreadLoop(s, MaxRead, oom)
    OBVIOUS
  <1>4. Readable(s) /\ MaxRead \in Nat \ {0}
    BY <1>1, MayRead, StdioAssumption
  <1>5. r \in ReadStates(s, MaxRead) /\ (Len(r.got) < MaxRead => r.st.ptr = 0 /\ r.st.cnt <= 0)
    BY <1>3, <1>4, ReadsAll
  <1>6. Readable(r.st) /\ r.st.open = s.open /\ (r.st.cnt >= 0 \/ r.st.cnt = s.cnt)
    BY <1>5 DEF ReadStates, Reads
  <1>7. Input(MaxRead, r)
    BY <1>2, <1>3, Zenon
  <1> QED
    BY <1>1, <1>5, <1>6, <1>7, ReadStep

\* ungetc, where something was read before it.
LEMMA UngetcInv ==
  ASSUME Inv, Uses \cap Misuses = {}, NEW ch \in Pushable, ungetc(ch)
  PROVE  Inv'
  <1>1. s.open /\ calls < MaxCalls /\ CanRead /\ ~(s.base /\ Empty)
    BY DEF ungetc, Called, Allowed, Misuses
  <1>2. Sound(s, last) /\ s \in FILE /\ s.cnt \in Int /\ Readable(s)
    BY <1>1, MayRead, OpenStream
  <1>3. CASE ~s.base \/ (s.ptr = 0 /\ s.cnt # 0)
    <2>1. PICK o : o = <<"ungetc", ch, "EOF">>
      OBVIOUS
    <2>2. Step(s, o, last) /\ last \in Lasts
      BY <1>3, <2>1 DEF ungetc, Inv
    <2>3. Fine(s, last)
      BY DEF Inv
    <2> QED
      BY <1>1, <1>2, <2>2, <2>3, Steps
  <1>4. CASE ~(~s.base \/ (s.ptr = 0 /\ s.cnt # 0))
    <2>1. PICK o, st : o = <<"ungetc", ch, ch>> /\ st = Pushed(s, ch)
      OBVIOUS
    <2>2. Step(st, o, "in") /\ "in" \in Lasts
      BY <1>4, <2>1 DEF ungetc, Lasts
    <2>3. s.base /\ s.ptr > 0 /\ ~s.wr /\ ch \in Bytes
      BY <1>1, <1>2, <1>4, Fields, StdioAssumption DEF Empty, Readable
    <2>4. Sound(st, "in") /\ st.open = s.open /\ st.cnt = s.cnt + 1
      BY <1>2, <2>1, <2>3, Pushes
    <2>5. Fine(st, "in") /\ st.cnt \in Int
      BY <1>1, <1>2, <2>4 DEF Fine
    <2>6. s' = st /\ last' = "in" /\ calls' = calls + 1
      BY <2>2 DEF Step
    <2>7. calls + 1 \in 0..MaxCalls /\ Counted(st, calls + 1)
      BY <1>1, <1>2, <2>4, Numbers, StdioAssumption DEF Inv, Counted
    <2> QED
      BY <2>2, <2>5, <2>6, <2>7 DEF Inv, Fine, Counted, Lasts, Shut, Sound, Running, Kinds,
           Directed, AtEnd, Inside, Room, Drained, Filed
  <1> QED
    BY <1>3, <1>4

\* putc, into the buffer or with _flsbuf.
LEMMA PutcInv == ASSUME Inv, NEW ch \in Bytes, putc(ch) PROVE Inv'
  <1>1. s.open /\ calls < MaxCalls /\ CanWrite
    BY DEF putc, Called
  <1>2. PICK oom : LET p == PutByte(s, ch, oom)
                   IN  Step(p[1], <<"write", <<ch>>, IF p[2] THEN 0 ELSE 1>>, "out")
    BY DEF putc
  <1>3. PICK p : p = PutByte(s, ch, oom)
    OBVIOUS
  <1>4. PICK st, o : st = p[1] /\ o = <<"write", <<ch>>, IF p[2] THEN 0 ELSE 1>>
    OBVIOUS
  <1>5. Step(st, o, "out") /\ "out" \in Lasts
    BY <1>2, <1>3, <1>4 DEF Lasts
  <1>6. Stored(s, p)
    BY <1>1, <1>3, MayWrite, PutsByte
  <1>7. Sound(st, "out") /\ st.open = s.open /\ st.cnt >= -MaxBuf
    BY <1>4, <1>6 DEF Stored
  <1>8. Fine(st, "out") /\ st.cnt \in Int /\ s.cnt \in Int
    BY <1>1, <1>7, OpenStream, Fields DEF Fine, Sound
  <1> QED
    BY <1>1, <1>5, <1>7, <1>8, Steps

\* fwrite.
LEMMA FwriteInv ==
  ASSUME Inv, Uses \cap Misuses = {}, NEW data \in Data, fwrite(data)
  PROVE  Inv'
  <1>1. s.open /\ calls < MaxCalls /\ CanWrite /\ ~(s.kind = "LBF" /\ s.rw /\ ~s.wr)
    BY DEF fwrite, Called, Allowed, Misuses
  <1>2. PICK oom : LET p == FwriteLoop(s, data, oom)
                   IN  Step(p[1], <<"write", data, p[3]>>, "out")
    BY DEF fwrite
  <1>3. PICK p : p = FwriteLoop(s, data, oom)
    OBVIOUS
  <1>4. PICK st, o : st = p[1] /\ o = <<"write", data, p[3]>>
    OBVIOUS
  <1>5. Step(st, o, "out") /\ "out" \in Lasts
    BY <1>2, <1>3, <1>4 DEF Lasts
  <1>6. OnTheWay(s, s) /\ data \in Seq(Bytes)
    BY <1>1, MayWrite, StdioAssumption DEF OnTheWay
  <1>7. OnTheWay(s, st)
    BY <1>3, <1>4, <1>6, WritesAll
  <1>8. Sound(st, "out") /\ st.open = s.open /\ (st.cnt >= -MaxBuf \/ st.cnt = s.cnt)
    BY <1>7 DEF OnTheWay
  <1>9. Fine(st, "out") /\ st.cnt \in Int /\ s.cnt \in Int
    BY <1>1, <1>8, OpenStream, Fields DEF Fine, Sound
  <1> QED
    BY <1>1, <1>5, <1>8, <1>9, Steps

\* ftell, which sets a count below zero to zero.
LEMMA FtellInv == ASSUME Inv, Uses \cap Misuses = {}, ftell PROVE Inv'
  <1>1. s.open /\ calls < MaxCalls /\ ~(s.cnt < 0 /\ HasPending(s))
    BY DEF ftell, Called, Allowed, Misuses
  <1>2. PICK st, p : st = Ftell(s)[1] /\ p = Ftell(s)[2]
    OBVIOUS
  <1>3. PICK o : o = <<"ftell", p>>
    OBVIOUS
  <1>4. Step(st, o, last) /\ last \in Lasts
    BY <1>2, <1>3 DEF ftell, Inv
  <1>5. Sound(st, last) /\ SameFlags(s, st) /\ st.cnt >= 0
    BY <1>1, <1>2, OpenStream, Tells
  <1>6. Fine(st, last) /\ st.cnt \in Int /\ s.cnt \in Int
    BY <1>1, <1>5, OpenStream, Fields DEF Fine, Sound, SameFlags
  <1>7. st.cnt >= -MaxBuf
    BY <1>5, <1>6, Numbers
  <1> QED
    BY <1>1, <1>4, <1>6, <1>7, Steps

\* fflush.
LEMMA FflushInv == ASSUME Inv, fflush PROVE Inv'
  <1>1. s.open /\ calls < MaxCalls
    BY DEF fflush, Called
  <1>2. PICK st, rc : st = Fflush(s)[1] /\ rc = Fflush(s)[2]
    OBVIOUS
  <1>3. PICK o, l : o = <<"fflush", rc>> /\ l = IF rc = 0 THEN "none" ELSE last
    OBVIOUS
  <1>4. Step(st, o, l) /\ l \in Lasts
    BY <1>2, <1>3 DEF fflush, Inv, Lasts
  <1>5. Flushed(s, last, st, rc)
    BY <1>1, <1>2, OpenStream, Flushes
  <1>6. Sound(st, l) /\ st.open = s.open /\ (st.cnt >= 0 \/ st.cnt = s.cnt)
    BY <1>3, <1>5 DEF Flushed
  <1>7. Fine(st, l) /\ st.cnt \in Int /\ s.cnt \in Int
    BY <1>1, <1>6, OpenStream, Fields DEF Fine, Sound
  <1>8. st.cnt >= -MaxBuf \/ st.cnt = s.cnt
    BY <1>6, <1>7, Numbers
  <1> QED
    BY <1>1, <1>4, <1>7, <1>8, Steps

\* fseek.
LEMMA FseekInv ==
  ASSUME Inv, NEW whence \in Whences, NEW off \in Int, fseek(whence, off)
  PROVE  Inv'
  <1>1. PICK st, rc : st = Fseek(s, off, whence)[1] /\ rc = Fseek(s, off, whence)[2]
    OBVIOUS
  <1>2. PICK o, l : o = <<"fseek", whence, off, rc>> /\ l = IF rc = 0 THEN "none" ELSE last
    OBVIOUS
  <1>3. s.open /\ calls < MaxCalls /\ st.pos \in Nat /\ Step(st, o, l) /\ l \in Lasts
    BY <1>1, <1>2, StdioAssumption DEF fseek, Called, Inv, Lasts
  <1>4. Sound(s, last)
    BY <1>3, OpenStream
  <1>5. Sound(st, l) /\ st.open = s.open /\ CountKept(s, st)
    <2>1. st.pos \in Nat
      BY <1>3
    <2>2. Sought(s, last, st, rc)
      BY <1>1, <1>4, <2>1, SeeksFile, Zenon
    <2> QED
      BY <1>2, <2>2, Zenon DEF Sought
  <1>6. Fine(st, l) /\ st.cnt \in Int /\ s.cnt \in Int
    BY <1>3, <1>5, OpenStream, Fields DEF Fine, Sound
  <1>7. st.cnt >= -MaxBuf \/ st.cnt = s.cnt
    BY <1>5, <1>6, Numbers DEF CountKept
  <1> QED
    BY <1>3, <1>6, <1>7, Steps

\* rewind.
LEMMA RewindInv == ASSUME Inv, rewind PROVE Inv'
  <1>1. PICK st : st = Rewound(s)
    OBVIOUS
  <1>2. s.open /\ calls < MaxCalls /\ Step(st, <<"rewind">>, "none") /\ "none" \in Lasts
    BY <1>1 DEF rewind, Called, Lasts
  <1>3. Sound(st, "none") /\ st.open = s.open /\ st.cnt = 0
    BY <1>1, <1>2, OpenStream, Rewinds
  <1>4. Fine(st, "none") /\ st.cnt \in Int /\ s.cnt \in Int /\ st.cnt >= -MaxBuf
    BY <1>2, <1>3, OpenStream, Numbers DEF Fine
  <1> QED
    BY <1>2, <1>4, Steps

\* Every call of a program that avoids the three misuses keeps the invariant.
LEMMA NextInv ==
  ASSUME Inv, Uses \cap Misuses = {}, [Next]_vars
  PROVE  Inv'
  <1>1. CASE \E mode \in Modes : fopen(mode) \/ freopen(mode)
    BY <1>1, FopenInv, FreopenInv
  <1>2. CASE fclose \/ getc \/ ftell \/ fflush \/ rewind
    BY <1>2, FcloseInv, GetcInv, FtellInv, FflushInv, RewindInv
  <1>3. CASE fread(MaxRead)
    BY <1>3, FreadInv
  <1>4. CASE \E ch \in Pushable : ungetc(ch)
    BY <1>4, UngetcInv
  <1>5. CASE \E data \in Data : fwrite(data)
    BY <1>5, FwriteInv
  <1>6. CASE \E data \in Data : Len(data) = 1 /\ putc(data[1])
    <2>1. PICK data \in Data : Len(data) = 1 /\ putc(data[1])
      BY <1>6
    <2>2. data \in Seq(Bytes)
      BY StdioAssumption
    <2>3. data[1] \in Bytes
      BY <2>1, <2>2
    <2> QED
      BY <2>1, <2>3, PutcInv
  <1>7. CASE \/ \E off \in {0, 2} : fseek("SET", off)
             \/ \E off \in {-1, 1} : fseek("CUR", off)
             \/ \E off \in {-1, 1} : fseek("END", off)
    <2>1. PICK whence \in Whences, off \in Int : fseek(whence, off)
      BY <1>7 DEF Whences
    <2> QED
      BY <2>1, FseekInv
  <1>8. CASE \E len \in BufSizes, kind \in {"FBF", "LBF"} : setvbuf(kind, len)
    BY <1>8, SetvbufInv
  <1>9. CASE setvbuf("NBF", 0)
    BY <1>9, SetvbufInv
  <1>10. CASE UNCHANGED vars
    <2>1. s' = s /\ last' = last /\ calls' = calls
      BY <1>10 DEF vars
    <2> QED
      BY <2>1 DEF Inv, Fine, Counted, Lasts, Shut, Sound, Running, Kinds, Directed, AtEnd,
           Inside, Room, Drained, Filed
  <1> QED
    BY <1>1, <1>2, <1>3, <1>4, <1>5, <1>6, <1>7, <1>8, <1>9, <1>10 DEF Next

\* The invariant implies both properties.
LEMMA InvInside == ASSUME Inv PROVE InsideBuffer
  <1>1. s \in FILE
    BY DEF Inv, Fine, Sound, Shut
  <1>2. /\ s.cnt \in Int /\ s.ptr \in 0..MaxBuf /\ s.bufsiz \in 0..MaxBuf /\ MaxBuf \in Nat
        /\ calls \in 0..MaxCalls /\ MaxCalls \in Nat
    BY <1>1, Fields, Numbers, StdioAssumption DEF Inv
  <1>3. s.cnt <= MaxBuf
    <2>1. CASE s.open
      <3>1. Kinds(s) /\ Inside(s)
        BY <2>1 DEF Inv, Fine, Sound, Running
      <3> QED
        BY <1>2, <3>1 DEF Kinds, Inside
    <2>2. CASE ~s.open
      BY <1>2, <2>2 DEF Inv, Fine, Shut
    <2> QED
      BY <2>1, <2>2
  <1>4. s.cnt >= -(MaxBuf + MaxCalls)
    BY <1>2 DEF Inv, Counted
  <1>5. TypeOK
    BY <1>1, <1>2, <1>3, <1>4 DEF TypeOK, Inv, Lasts
  <1>6. ASSUME s.open, s.base, s.kind # "NBF"
        PROVE  /\ s.ptr + Max2(s.cnt, 0) <= s.bufsiz
               /\ (s.wr /\ s.kind = "FBF" /\ s.ptr > 0) => s.ptr + s.cnt = s.bufsiz
               /\ (s.wr /\ s.kind = "LBF") => -s.cnt = s.ptr
    <2>1. Inside(s) /\ Room(s)
      BY <1>6 DEF Inv, Fine, Sound, Running
    <2> QED
      BY <1>2, <1>6, <2>1 DEF Inside, Room, Max2
  <1> QED
    BY <1>5, <1>6 DEF InsideBuffer

\* A disk of bytes holds no garbage.
LEMMA InvClean == ASSUME Inv PROVE NoGarbage
  <1>1. s.disk \in Seq(Bytes)
    BY DEF Inv, Fine, Sound, Filed, Shut
  <1>2. \A i \in 1..Len(s.disk) : s.disk[i] \in Bytes
    BY <1>1
  <1> QED
    BY <1>2, StdioAssumption DEF NoGarbage

\* Over any sequence of calls of getc, fread, ungetc, putc, fwrite, fseek, rewind,
\* ftell, fflush, setvbuf, fclose and freopen, with the disk full or memory short,
\* the count and the pointer of a FILE stay inside its buffer, a writer counts what
\* it stored exactly, and the read ahead fits.
THEOREM StaysInsideBuffer ==
  ASSUME Uses \cap Misuses = {}
  PROVE  Spec => []InsideBuffer
  <1>1. Init => Inv
    BY InitInv
  <1>2. Inv /\ [Next]_vars => Inv'
    BY NextInv
  <1>3. Inv => InsideBuffer
    BY InvInside
  <1> QED
    BY <1>1, <1>2, <1>3, PTL DEF Spec

\* Wherever seeks, short writes and appends put the position, the file never shows
\* what DOS left on the disk: lseek and _write_fill_seek_gap between them fill every
\* gap before a byte behind it is written.
THEOREM NeverGarbage ==
  ASSUME Uses \cap Misuses = {}
  PROVE  Spec => []NoGarbage
  <1>1. Init => Inv
    BY InitInv
  <1>2. Inv /\ [Next]_vars => Inv'
    BY NextInv
  <1>3. Inv => NoGarbage
    BY InvClean
  <1> QED
    BY <1>1, <1>2, <1>3, PTL DEF Spec
=============================================================================
