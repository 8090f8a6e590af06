-------------------------------- MODULE Stream --------------------------------
(***************************************************************************)
(* What the stdio functions promise of one stream: a file, a position and  *)
(* the bytes pushed back.  There is no buffer.  obs is the last call, with *)
(* its arguments and its result.                                           *)
(***************************************************************************)
EXTENDS Integers, Sequences, Functions

CONSTANTS Cap,        \* bytes the disk can hold
          Data,       \* what a call may write, a set of sequences
          Pushable,   \* bytes a program pushes back
          MaxRead     \* longest read

VARIABLES file,    \* what a reader of the file would find if all were flushed
          pos,     \* file position as ftell reports it
          over,    \* bytes pushed back, by position
          append,  \* writes go to the end
          open, obs

svars == <<file, pos, over, append, open, obs>>

Nothing == [p \in {} |-> "?"]
Overlay(fl, p, data) ==
  [i \in 1..(IF Len(fl) > p + Len(data) THEN Len(fl) ELSE p + Len(data)) |->
     IF i \in (p + 1)..(p + Len(data)) THEN data[i - p]
     ELSE IF i <= Len(fl) THEN fl[i] ELSE "0"]

Byte(p) == IF p \in DOMAIN over THEN over[p] ELSE file[p]

\* A short count means the end of the file.
Read(n) ==
  LET k == IF Len(file) - pos < 0 THEN 0
           ELSE IF Len(file) - pos < n THEN Len(file) - pos ELSE n
  IN  /\ obs' = <<"read", n, [i \in 1..k |-> Byte(pos + i)]>>
      /\ pos' = pos + k
      /\ over' = Restrict(over, {p \in DOMAIN over : p > pos + k})
      /\ UNCHANGED <<file, append, open>>

Write(data) ==
  LET p == IF append THEN Len(file) ELSE pos
  IN  /\ obs' = <<"write", data, Len(data)>>
      /\ file' = Overlay(file, p, data)
      /\ pos' = p + Len(data)
      /\ over' = Nothing
      /\ UNCHANGED <<append, open>>

\* Pushing back may be refused; it costs nothing then.
Unget(c) ==
  \/ /\ obs' = <<"ungetc", c, c>>
     /\ pos' = pos - 1
     /\ over' = IF c = file[pos]
                THEN Restrict(over, {p \in DOMAIN over : p > pos})
                ELSE [p \in DOMAIN over \cup {pos} |-> IF p = pos THEN c ELSE over[p]]
     /\ UNCHANGED <<file, append, open>>
  \/ obs' = <<"ungetc", c, "EOF">> /\ UNCHANGED <<file, pos, over, append, open>>

Seek(whence, off) ==
  /\ obs' = <<"fseek", whence, off, 0>>
  /\ pos' = off + (CASE whence = "SET" -> 0 [] whence = "CUR" -> pos
                     [] whence = "END" -> Len(file))
  /\ over' = Nothing
  /\ UNCHANGED <<file, append, open>>

Tell == obs' = <<"ftell", pos>> /\ UNCHANGED <<file, pos, over, append, open>>

Flush == obs' = <<"fflush", 0>> /\ over' = Nothing /\ UNCHANGED <<file, pos, append, open>>

Rewind == obs' = <<"rewind">> /\ pos' = 0 /\ over' = Nothing
          /\ UNCHANGED <<file, append, open>>

SetBuf == obs' = <<"setvbuf", 0>> /\ UNCHANGED <<file, pos, over, append, open>>

\* A closed stream is opened, or an open one closed and opened again.
Open(app, trunc) ==
  /\ open'
  /\ \/ ~open /\ obs' = <<"fopen">>
     \/ open /\ obs' = <<"freopen">>
  /\ file' = IF trunc THEN <<>> ELSE file
  /\ append' = app
  /\ pos' = IF app THEN Len(file) ELSE 0
  /\ over' = Nothing

Close ==
  /\ open /\ ~open'
  /\ obs' = <<"fclose", 0>>
  /\ over' = Nothing
  /\ UNCHANGED <<file, append>>

\* Bytes may be lost when the file no longer fits the disk, in a call that says
\* so, or in rewind and freopen, which have no result to say it with.
Fail ==
  /\ \/ obs' \in {<<"fflush", -1>>, <<"fclose", -1>>, <<"rewind">>, <<"freopen">>}
     \/ obs'[1] = "fseek" /\ obs'[4] = -1
     \/ obs'[1] = "write" /\ obs'[3] < Len(obs'[2])
  /\ \E data \in Data \cup {<<>>} :
       Len(Overlay(file, IF append THEN Len(file) ELSE pos, data)) > Cap
  /\ open' = (obs'[1] # "fclose")
  /\ append' = append \/ obs' = <<"freopen">>

Next ==
  \/ \E n \in 1..MaxRead : Read(n)
  \/ \E data \in Data : Write(data)
  \/ \E c \in Pushable : Unget(c)
  \/ \E whence \in {"SET", "CUR", "END"}, off \in -Cap..Cap : Seek(whence, off)
  \/ Tell \/ Flush \/ Rewind \/ SetBuf \/ Close \/ Fail
  \/ \E app, trunc \in BOOLEAN : Open(app, trunc)

Init == open = FALSE /\ obs = <<"start">> /\ over = Nothing /\ append = FALSE /\ pos = 0

Spec == Init /\ [][Next]_svars
=============================================================================
