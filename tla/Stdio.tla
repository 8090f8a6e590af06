-------------------------------- MODULE Stdio --------------------------------
(***************************************************************************)
(* A buffered binary stream (ansi/stdio): the FILE, its buffer and the     *)
(* descriptor under it.  A call of the program is one step.  The functions *)
(* of the library are operators on the record s, whose fields are those of *)
(* FILE (flags as Booleans) and of the DOS file.                           *)
(*                                                                         *)
(* The read sizes 512, 1024 and 1536 of _filbuf are FILL, 2 FILL, 3 FILL.  *)
(***************************************************************************)
EXTENDS Integers, Sequences

CONSTANTS FILL,      \* smallest read ahead
          TB,        \* __tb_size, the size of a buffer that stdio allocates
          BufSizes,  \* lengths a program gives to setvbuf
          MaxBuf,    \* the longest buffer
          Bytes,     \* what a byte may be
          Cap,       \* bytes the disk can hold
          Contents,  \* what the file may hold at first
          Data,      \* what a call may write
          Pushable,  \* what ungetc may push back
          MaxRead,   \* longest read
          MaxCalls,  \* bound: calls after fopen and setvbuf
          Uses       \* legal uses the library is known to get wrong (see Allowed)

ASSUME StdioAssumption ==
  /\ FILL \in Nat \ {0} /\ TB \in Nat /\ FILL <= TB
  /\ MaxBuf \in Nat /\ BufSizes \cup {TB} \subseteq 1..MaxBuf
  /\ Cap \in Nat /\ MaxRead \in Nat \ {0} /\ MaxCalls \in Nat
  /\ Contents \cup Data \subseteq Seq(Bytes) /\ Pushable \subseteq Bytes
  /\ "0" \in Bytes /\ Bytes \cap {"EOF", "garbage"} = {}

VARIABLES s, obs, last, calls

vars == <<s, obs, last, calls>>

Min2(a, b) == IF a < b THEN a ELSE b

Max2(a, b) == IF a < b THEN b ELSE a

-----------------------------------------------------------------------------
(* The descriptor.  A seek forward is remembered so that the next write     *)
(* fills the gap behind the end of the file with zeros; DOS itself would    *)
(* leave garbage there.                                                     *)

lseek(st, off, whence) ==
  [st EXCEPT !.pos = off + (CASE whence = "SET" -> 0 [] whence = "CUR" -> @
                              [] whence = "END" -> Len(st.disk)),
             !.gap = IF off > 0 THEN TRUE ELSE IF whence = "CUR" THEN @ ELSE FALSE]

\* Faulty variant: the test for a gap is off by one.
fill_gap_short(st) ==
  IF st.gap /\ st.pos > Len(st.disk) + 1
  THEN [st EXCEPT !.disk = [i \in 1..st.pos |-> IF i <= Len(@) THEN @[i] ELSE "0"],
                  !.gap = FALSE]
  ELSE [st EXCEPT !.gap = FALSE]

_write_fill_seek_gap(st) ==
  IF st.gap /\ st.pos > Len(st.disk)
  THEN [st EXCEPT !.disk = [i \in 1..st.pos |-> IF i <= Len(@) THEN @[i] ELSE "0"],
                  !.gap = FALSE]
  ELSE [st EXCEPT !.gap = FALSE]

Store(disk, p, data) ==
  [i \in 1..Max2(Len(disk), p + Len(data)) |->
     IF i \in (p + 1)..(p + Len(data)) THEN data[i - p]
     ELSE IF i <= Len(disk) THEN disk[i] ELSE "garbage"]

\* What fits is written; the loop of _flsbuf and fflush then fails for the rest.
_write(st, data) ==
  LET f == _write_fill_seek_gap(st)
      k == Min2(Len(data), Max2(Cap - f.pos, 0))
  IN  [f EXCEPT !.disk = Store(@, f.pos, SubSeq(data, 1, k)),
                !.pos = @ + k, !.err = @ \/ k < Len(data)]

WriteFails(st, data) == st.pos + Len(data) > Cap

SeekEnd(st) == IF st.app THEN lseek(st, 0, "END") ELSE st

\* The n bytes from the position, or as many as there are.
_read(st, n) ==
  SubSeq(st.disk, st.pos + 1, Min2(st.pos + n, Len(st.disk)))

-----------------------------------------------------------------------------
(* Reading.                                                                 *)

PutMem(mem, data) == [i \in 0..(MaxBuf - 1) |-> IF i < Len(data) THEN data[i + 1] ELSE mem[i]]
InBuf(st, n) == [i \in 1..n |-> st.mem[st.ptr + i - 1]]

\* The buffer, or one byte when there is no memory for it.
AllocForRead(st, oom) ==
  IF st.base \/ st.kind = "NBF" THEN st
  ELSE IF oom THEN [st EXCEPT !.kind = "NBF"]
  ELSE [st EXCEPT !.base = TRUE, !.bufsiz = TB, !.fill = FILL]

FillSize(st) ==
  IF st.kind = "NBF" THEN 1
  ELSE IF Min2(st.fill, st.bufsiz) = 2 * FILL /\ st.bufsiz >= 3 * FILL THEN 3 * FILL
  ELSE Min2(st.fill, st.bufsiz)

Filled(st, got) ==
  [st EXCEPT !.mem = PutMem(@, got), !.pos = @ + Len(got),
             !.fill = IF @ < st.bufsiz THEN 2 * @ ELSE st.bufsiz,
             !.cnt = Max2(Len(got) - 1, 0),
             !.eof = got = <<>>, !.rd = ~(got = <<>> /\ st.rw),
             !.ptr = IF got = <<>> THEN 0 ELSE 1]

\* The state after _filbuf, and the byte it returns.
_filbuf(st, oom) ==
  LET r == [st EXCEPT !.rd = @ \/ st.rw]
      a == AllocForRead([r EXCEPT !.unget = FALSE], oom)
      got == _read(a, FillSize(a))
  IN  IF ~r.rd THEN <<[r EXCEPT !.err = TRUE], "EOF">>
      ELSE IF r.eof THEN <<r, "EOF">>
      ELSE <<Filled(a, got), IF got = <<>> THEN "EOF" ELSE got[1]>>

\* The buffer of fread grows for a long read.
Grow(st, n) ==
  LET g[i \in 0..(TB + 1)] ==
        IF i = 0 THEN st.fill
        ELSE IF n > g[i - 1] /\ g[i - 1] < st.bufsiz THEN 2 * Max2(g[i - 1], FILL)
        ELSE g[i - 1]
  IN  [st EXCEPT !.fill = g[TB + 1]]

\* One turn of fread's loop: r.want bytes are still wanted.
Refilled(r, fb) ==
  IF fb[2] = "EOF" THEN [r EXCEPT !.st = fb[1], !.done = TRUE]
  ELSE [r EXCEPT !.st = fb[1], !.got = Append(@, fb[2]), !.want = @ - 1]

TakeAll(r) ==
  [r EXCEPT !.got = @ \o InBuf(r.st, Max2(r.st.cnt, 0)), !.want = @ - Max2(r.st.cnt, 0)]

TakeRest(r) ==
  IF r.done \/ r.st.cnt < r.want THEN r
  ELSE [r EXCEPT !.got = @ \o InBuf(r.st, r.want), !.want = 0, !.done = TRUE,
                 !.st.ptr = @ + r.want, !.st.cnt = @ - r.want]

ReadTurn(r, oom) ==
  IF r.done THEN r
  ELSE IF r.st.cnt >= r.want THEN TakeRest(r)
  ELSE TakeRest(Refilled(TakeAll(r), _filbuf(r.st, oom)))

FreadLoop(st, n, oom) ==
  LET g[i \in 0..n] ==
        IF i = 0 THEN [st |-> Grow(st, n), want |-> n, got |-> <<>>, done |-> FALSE]
        ELSE ReadTurn(g[i - 1], oom)
  IN  g[n]

-----------------------------------------------------------------------------
(* Writing.                                                                 *)

AllocForWrite(st, oom) ==
  IF st.base \/ st.kind = "NBF" THEN st
  ELSE IF oom THEN [st EXCEPT !.kind = "NBF"]
  ELSE [st EXCEPT !.base = TRUE, !.bufsiz = TB, !.cnt = TB, !.ptr = 0]

Pending(st) == [i \in 1..st.ptr |-> st.mem[i - 1]]
Push(st, c) == [st EXCEPT !.mem[st.ptr] = c, !.ptr = @ + 1]

\* Line buffering: a negative count brings every byte here.
LineByte(st) ==
  IF st.mem[st.ptr - 1] = "n" \/ st.ptr >= st.bufsiz
  THEN <<_write(SeekEnd([st EXCEPT !.ptr = 0, !.cnt = 0]), Pending(st)),
         WriteFails(SeekEnd(st), Pending(st))>>
  ELSE <<[st EXCEPT !.cnt = -st.ptr], FALSE>>

NoBufByte(st, c) ==
  <<_write(SeekEnd([st EXCEPT !.cnt = 0]), <<c>>), WriteFails(SeekEnd(st), <<c>>)>>

\* Faulty variant: the byte that found the buffer full is not counted.
FullBuf_uncounted(st, c) ==
  LET w == IF st.ptr = 0 THEN st ELSE _write(SeekEnd(st), Pending(st))
      bad == st.ptr > 0 /\ WriteFails(SeekEnd(st), Pending(st))
      e == [w EXCEPT !.ptr = 0, !.cnt = st.bufsiz]
  IN  IF bad THEN <<e, TRUE>> ELSE <<Push(e, c), FALSE>>

FullBuf(st, c) ==
  LET w == IF st.ptr = 0 THEN st ELSE _write(SeekEnd(st), Pending(st))
      bad == st.ptr > 0 /\ WriteFails(SeekEnd(st), Pending(st))
      e == [w EXCEPT !.ptr = 0, !.cnt = st.bufsiz]
  IN  IF bad THEN <<e, TRUE>> ELSE <<[Push(e, c) EXCEPT !.cnt = @ - 1], FALSE>>

\* The state after _flsbuf, and whether it returned EOF.
_flsbuf(st, c, oom) ==
  LET w == [st EXCEPT !.wr = @ \/ st.rw, !.eof = @ /\ ~st.rw, !.rd = @ /\ ~st.rw]
      a == AllocForWrite(w, oom)
  IN  IF ~w.wr THEN <<[w EXCEPT !.err = TRUE], TRUE>>
      ELSE CASE a.kind = "LBF" -> LineByte(Push(a, c))
             [] a.kind = "NBF" -> NoBufByte(a, c)
             [] OTHER -> FullBuf(a, c)

PutByte(st, c, oom) ==
  IF st.cnt > 0 THEN <<[Push(st, c) EXCEPT !.cnt = @ - 1], FALSE>>
  ELSE _flsbuf([st EXCEPT !.cnt = @ - 1], c, oom)

\* fwrite on a line buffered stream stores without _flsbuf while there is room.
LinePut(st, c, oom) ==
  IF st.cnt - 1 > -st.bufsiz /\ c # "n" THEN <<[Push(st, c) EXCEPT !.cnt = @ - 1], FALSE>>
  ELSE _flsbuf([st EXCEPT !.cnt = @ - 1], c, oom)

\* The state after fwrite, whether _flsbuf failed, and the bytes written.
Wrote(r, p) == <<p[1], p[2], r[3] + (IF p[2] THEN 0 ELSE 1)>>

WriteTurn(r, c, oom) ==
  IF r[2] THEN r
  ELSE IF r[1].kind = "LBF" THEN Wrote(r, LinePut(r[1], c, oom))
  ELSE IF r[1].cnt > 0 THEN Wrote(r, PutByte(r[1], c, oom))
  ELSE Wrote(r, _flsbuf(r[1], c, oom))

FwriteLoop(st, data, oom) ==
  LET g[i \in 0..Len(data)] ==
        IF i = 0 THEN <<st, FALSE, 0>> ELSE WriteTurn(g[i - 1], data[i], oom)
  IN  g[Len(data)]

-----------------------------------------------------------------------------
(* Flushing and seeking: the state after the call, and its result.          *)

HasPending(st) == st.kind # "NBF" /\ st.wr /\ st.base /\ st.ptr > 0

\* An update stream forgets its direction.
Undirected(st) ==
  IF st.rw THEN [st EXCEPT !.cnt = 0, !.rd = FALSE, !.wr = FALSE, !.ptr = 0] ELSE st

Fflush(st) ==
  LET e == [SeekEnd(st) EXCEPT !.unget = FALSE]
      w == _write([e EXCEPT !.ptr = 0, !.cnt = IF st.kind = "LBF" THEN 0 ELSE st.bufsiz],
                  Pending(st))
  IN  IF ~HasPending(st) THEN <<Undirected(e), 0>>
      ELSE IF WriteFails(e, Pending(st)) THEN <<w, -1>>
      ELSE <<Undirected(w), 0>>

Ftell(st) ==
  LET z == [st EXCEPT !.cnt = Max2(@, 0)]
  IN  <<z, IF z.rd THEN z.pos - z.cnt
           ELSE z.pos + (IF z.wr /\ z.base /\ z.kind # "NBF" THEN z.ptr ELSE 0)>>

\* Faulty variant: the pushed back byte does not forbid to move in the buffer.
InBufferSeek_unget(st, p, off) ==
  ~st.rw /\ p - off <= st.ptr /\ off - p <= st.cnt

InBufferSeek(st, p, off) ==
  ~st.unget /\ ~st.rw /\ p - off <= st.ptr /\ off - p <= st.cnt

Reseek(st, off, whence) ==
  [lseek(st, off, whence) EXCEPT !.rd = @ /\ ~st.rw, !.cnt = 0, !.ptr = 0, !.unget = FALSE]

SeekReading(st, p, off) ==
  IF InBufferSeek(st, p, off)
  THEN [st EXCEPT !.ptr = @ + (off - p), !.cnt = @ - (off - p)]
  ELSE Reseek(st, off, "SET")

Fseek(st, off, whence) ==
  LET z == [st EXCEPT !.fill = FILL, !.eof = FALSE]
      fl == Fflush(z)
  IN  IF ~z.rd THEN <<lseek(fl[1], off, whence), fl[2]>>
      ELSE IF z.kind = "NBF" \/ ~z.base \/ whence = "END"
      THEN <<Reseek(Ftell(z)[1], off, whence), 0>>
      ELSE <<SeekReading(Ftell(z)[1], Ftell(z)[2],
                         IF whence = "CUR" THEN off + Ftell(z)[2] ELSE off), 0>>

Rewound(st) ==
  [lseek(Fflush(st)[1], 0, "SET") EXCEPT
     !.fill = FILL, !.cnt = 0, !.ptr = 0, !.err = FALSE, !.eof = FALSE,
     !.rd = @ /\ ~st.rw, !.wr = @ /\ ~st.rw]

Setvbuf(st, kind, len) ==
  LET e == [Fflush(st)[1] EXCEPT !.cnt = 0, !.kind = kind, !.unget = FALSE]
  IN  IF kind = "NBF" THEN [e EXCEPT !.base = FALSE, !.bufsiz = 0]
      ELSE [e EXCEPT !.base = TRUE, !.bufsiz = len, !.ptr = 0, !.fill = len]

Pushed(st, c) ==
  LET p == IF st.ptr = 0 THEN 0 ELSE st.ptr - 1
  IN  [st EXCEPT !.cnt = @ + 1, !.ptr = p, !.mem[p] = c, !.unget = @ \/ st.mem[p] # c]

Closed(st) ==
  [st EXCEPT !.open = FALSE, !.cnt = 0, !.base = FALSE, !.ptr = 0, !.bufsiz = 0,
             !.kind = "FBF", !.rd = FALSE, !.wr = FALSE, !.rw = FALSE, !.eof = FALSE,
             !.err = FALSE, !.unget = FALSE, !.gap = FALSE]

Opened(st, mode) ==
  [st EXCEPT !.open = TRUE, !.app = mode \in {"a", "a+"}, !.gap = FALSE,
             !.rw = mode \in {"r+", "w+", "a+"}, !.rd = mode = "r",
             !.wr = mode \in {"w", "a"},
             !.disk = IF mode \in {"w", "w+"} THEN <<>> ELSE @,
             !.pos = IF mode \in {"a", "a+"} THEN Len(st.disk) ELSE 0]

-----------------------------------------------------------------------------
(* The program.  It obeys the rules of C: between output and input comes a  *)
(* flush or seek that succeeds, between input and output a seek unless the  *)
(* input met the end of the file; setvbuf comes first; positions stay in    *)
(* the disk.                                                                *)

Modes == {"r", "w", "a", "r+", "w+", "a+"}
OomChoice == IF s.base \/ s.kind = "NBF" THEN {FALSE} ELSE BOOLEAN

\* Legal uses that the library does not serve as Stream promises: a program
\* makes them only if they are in Uses.
Allowed(use, here) == here => use \in Uses

Init ==
  /\ \E c \in Contents :
       s = [open |-> FALSE, rw |-> FALSE, rd |-> FALSE, wr |-> FALSE, eof |-> FALSE,
            err |-> FALSE, unget |-> FALSE, kind |-> "FBF", base |-> FALSE, cnt |-> 0,
            ptr |-> 0, bufsiz |-> 0, fill |-> 0, mem |-> [i \in 0..(MaxBuf - 1) |-> "0"],
            disk |-> c, pos |-> 0, gap |-> FALSE, app |-> FALSE]
  /\ obs = <<"start">> /\ last = "none" /\ calls = 0

Setup(st, o, l) == s' = st /\ obs' = o /\ last' = l /\ UNCHANGED calls
Step(st, o, l) == s' = st /\ obs' = o /\ last' = l /\ calls' = calls + 1
Called == s.open /\ calls < MaxCalls
CanRead == (s.rw \/ s.rd) /\ last # "out"
CanWrite == (s.rw \/ s.wr) /\ last # "in"

fopen(mode) ==
  /\ ~s.open /\ calls < MaxCalls
  /\ Setup(Opened(s, mode), <<"fopen">>, "open")

freopen(mode) ==
  /\ Called
  /\ Step(Opened(Closed(Fflush(s)[1]), mode), <<"freopen">>, "open")

fclose ==
  /\ Called
  /\ Step(Closed(Fflush(s)[1]), <<"fclose", Fflush(s)[2]>>, "none")

setvbuf(kind, len) ==
  /\ Called /\ last = "open"
  /\ Setup(Setvbuf(s, kind, len), <<"setvbuf", 0>>, "none")

Input(n, r) ==
  Step(r.st, <<"read", n, r.got>>, IF Len(r.got) < n THEN "eof" ELSE "in")

InputAllowed == Called /\ CanRead /\ Allowed("flush_read", s.base /\ s.fill = 0)

getc ==
  /\ InputAllowed
  /\ IF s.cnt > 0
     THEN Input(1, [st |-> [s EXCEPT !.cnt = @ - 1, !.ptr = @ + 1], got |-> InBuf(s, 1)])
     ELSE \E oom \in OomChoice :
            LET fb == _filbuf([s EXCEPT !.cnt = @ - 1], oom)
            IN  Input(1, [st |-> fb[1], got |-> IF fb[2] = "EOF" THEN <<>> ELSE <<fb[2]>>])

fread(n) ==
  /\ InputAllowed
  /\ \E oom \in OomChoice : Input(n, FreadLoop(s, n, oom))

Empty == s.ptr = 0 /\ s.cnt = 0

ungetc(c) ==
  /\ Called /\ CanRead /\ Allowed("unget_empty", s.base /\ Empty)
  /\ IF ~s.base \/ (s.ptr = 0 /\ s.cnt # 0)
     THEN Step(s, <<"ungetc", c, "EOF">>, last)
     ELSE Step(Pushed(s, c), <<"ungetc", c, c>>, "in")

putc(c) ==
  /\ Called /\ CanWrite
  /\ \E oom \in OomChoice :
       LET p == PutByte(s, c, oom)
       IN  Step(p[1], <<"write", <<c>>, IF p[2] THEN 0 ELSE 1>>, "out")

fwrite(data) ==
  /\ Called /\ CanWrite /\ Allowed("line_update", s.kind = "LBF" /\ s.rw /\ ~s.wr)
  /\ \E oom \in OomChoice :
       LET p == FwriteLoop(s, data, oom)
       IN  Step(p[1], <<"write", data, p[3]>>, "out")

AwayFromEnd == s.app /\ ~s.rd /\ s.pos # Len(s.disk)

ftell ==
  /\ Called
  /\ Allowed("ftell_line", s.cnt < 0 /\ HasPending(s))
  /\ Allowed("ftell_append", AwayFromEnd /\ HasPending(s))
  /\ Step(Ftell(s)[1], <<"ftell", Ftell(s)[2]>>, last)

\* fflush(f), or fflush(NULL), which comes to every stream.
fflush ==
  /\ Called
  /\ Allowed("flush_input", last \in {"in", "eof"})
  /\ Allowed("seek_append", AwayFromEnd /\ ~HasPending(s))
  /\ Step(Fflush(s)[1], <<"fflush", Fflush(s)[2]>>, IF Fflush(s)[2] = 0 THEN "none" ELSE last)

fseek(whence, off) ==
  /\ Called
  /\ Allowed("seek_append", AwayFromEnd /\ ~HasPending(s) /\ whence = "CUR")
  /\ Fseek(s, off, whence)[1].pos \in 0..Cap
  /\ LET r == Fseek(s, off, whence)
     IN  Step(r[1], <<"fseek", whence, off, r[2]>>, IF r[2] = 0 THEN "none" ELSE last)

rewind == Called /\ Step(Rewound(s), <<"rewind">>, "none")

Next ==
  \/ \E mode \in Modes : fopen(mode) \/ freopen(mode)
  \/ fclose \/ getc \/ ftell \/ fflush \/ rewind
  \/ fread(MaxRead)
  \/ \E c \in Pushable : ungetc(c)
  \/ \E data \in Data : fwrite(data) \/ (Len(data) = 1 /\ putc(data[1]))
  \/ \E off \in {0, 2} : fseek("SET", off)
  \/ \E off \in {-1, 1} : fseek("CUR", off)
  \/ \E off \in {-1, 1} : fseek("END", off)
  \/ \E len \in BufSizes, kind \in {"FBF", "LBF"} : setvbuf(kind, len)
  \/ setvbuf("NBF", 0)

Spec == Init /\ [][Next]_vars

-----------------------------------------------------------------------------
(* Properties.                                                             *)

FILE ==
  [open : BOOLEAN, rw : BOOLEAN, rd : BOOLEAN, wr : BOOLEAN, eof : BOOLEAN, err : BOOLEAN,
   unget : BOOLEAN, kind : {"FBF", "LBF", "NBF"}, base : BOOLEAN, cnt : Int,
   ptr : 0..MaxBuf, bufsiz : 0..MaxBuf, fill : 0..(2 * MaxBuf),
   mem : [0..(MaxBuf - 1) -> Bytes], disk : Seq(Bytes \cup {"garbage"}), pos : Nat,
   gap : BOOLEAN, app : BOOLEAN]

TypeOK ==
  /\ s \in FILE /\ s.cnt \in -(MaxBuf + MaxCalls)..MaxBuf
  /\ last \in {"none", "open", "in", "eof", "out"} /\ calls \in 0..MaxCalls

\* The count and the pointer of a FILE never lead outside its buffer: what may
\* be read lies inside it, a full buffering writer counts the room left, a line
\* buffering one the bytes stored; and the size of the next read is in range, as
\* TypeOK says.
InsideBuffer ==
  /\ TypeOK
  /\ (s.open /\ s.base /\ s.kind # "NBF") =>
       /\ s.ptr + Max2(s.cnt, 0) <= s.bufsiz
       /\ (s.wr /\ s.kind = "FBF" /\ s.ptr > 0) => s.ptr + s.cnt = s.bufsiz
       /\ (s.wr /\ s.kind = "LBF") => -s.cnt = s.ptr

\* Whatever was skipped by seeks and short writes, the file never shows what
\* DOS left on the disk: a gap is filled with zeros before anything behind it.
NoGarbage == \A i \in 1..Len(s.disk) : s.disk[i] # "garbage"

\* The buffer seen from outside.
Base == IF s.app THEN Len(s.disk) ELSE s.pos
LogicalPos ==
  IF s.rd THEN s.pos - Max2(s.cnt, 0)
  ELSE IF HasPending(s) THEN Base + s.ptr ELSE s.pos
LogicalFile ==
  IF HasPending(s)
  THEN [i \in 1..Max2(Len(s.disk), Base + s.ptr) |->
          IF i \in (Base + 1)..(Base + s.ptr) THEN s.mem[i - Base - 1]
          ELSE IF i <= Len(s.disk) THEN s.disk[i] ELSE "0"]
  ELSE s.disk
ReadAhead(p) == s.mem[s.ptr + p - LogicalPos - 1]
PushedBack ==
  [p \in {q \in (LogicalPos + 1)..s.pos : s.rd /\ ReadAhead(q) # s.disk[q]} |-> ReadAhead(p)]

Abstract == INSTANCE Stream WITH
  file <- LogicalFile, pos <- LogicalPos, over <- PushedBack,
  append <- s.app, open <- s.open, obs <- obs

\* The buffer is invisible: over any sequence of legal calls, reads return the
\* bytes of the file from the position on, writes, seeks and push backs have
\* their effect at that position, and a byte is lost only in a call that
\* reports it, when the disk is full.
ActsAsStream == Abstract!Spec
=============================================================================
