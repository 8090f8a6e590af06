------------------------------ MODULE FdProps ------------------------------
(***************************************************************************)
(* File descriptors of a program: the DOS handle table, the properties     *)
(* libc shares between duplicated descriptors (dos/io/fd_props.c), the     *)
(* handlers and contexts of file system extensions (fsext/fsext.c, with    *)
(* /dev/zero of fse_zero.c as the extension), and the calls that change    *)
(* them: open, dup, dup2, fcntl(F_DUPFD), llseek, pipe, close and exit.    *)
(*                                                                         *)
(* Every C function is an operator from the state s of the library to the  *)
(* state it leaves; a call of the program is one step, except exit, which  *)
(* takes a step per descriptor.  A state whose fate is not "ok" is final:  *)
(* the program faulted or loops.                                           *)
(***************************************************************************)
EXTENDS Integers, FiniteSets

CONSTANTS NFD,        \* descriptors are 0..NFD-1 (255 in the code)
          MinDirFd,   \* directories get a descriptor at least this (20)
          Names,      \* names of ordinary files
          MaxObjs,    \* fd_properties objects malloc can still provide
          MaxData,    \* device contexts malloc can still provide
          OOM,        \* whether malloc may fail before that
          MaxCalls    \* bound on the calls of the program before exit

ASSUME FdAssumption ==
  /\ NFD \in Nat \ {0}
  /\ MinDirFd \in 0..NFD
  /\ MaxObjs \in Nat
  /\ MaxData \in Nat
  /\ OOM \in BOOLEAN
  /\ MaxCalls \in Nat
  /\ Names \cap {"NULL", "free", "/dev/zero", "directory"} = {}

VARIABLES s,    \* the state of the library, the handle table and the disk
          pc,   \* "run", or the part of exit that is running
          at,   \* next descriptor of the loops of exit
          calls \* calls made so far

vars == <<s, pc, at, calls>>

NULL == 0
Fds == 0..(NFD - 1)
Objs == 1..MaxObjs
Contexts == 1..MaxData
NoName == "NULL"              \* filename of an object made without one
Free == "free"                \* handle that DOS has not given out
Zero == "/dev/zero"
Dir == "directory"

Obj == [ref : 0..NFD, name : Names \cup {NoName, Zero, Dir}, temp : BOOLEAN,
        next : 0..MaxObjs, prev : 0..MaxObjs]

Lowest(S) == CHOOSE x \in S : \A y \in S : x <= y

FreeFds(st) == {fd \in Fds : st.handle[fd] = Free}
Has(st, fd) == st.props[fd] # NULL

----------------------------------------------------------------------------
(* The lists of fd_props.c: the objects after the list with this head takes *)
(* or loses object o, and the head that is left.                            *)

insert_list(obj, head, o) ==
  [p \in Objs |-> [obj[p] EXCEPT
     !.next = IF p = o THEN head ELSE @,
     !.prev = IF p = head THEN o ELSE IF p = o THEN NULL ELSE @]]

(* The item's own prev is cleared before it is handed to its successor, and *)
(* its next before the head takes it, so the successor's prev and the head  *)
(* become NULL.                                                             *)
remove_list(obj, o) ==
  [p \in Objs |-> [obj[p] EXCEPT
     !.next = IF p = o THEN NULL
              ELSE IF p = obj[o].prev THEN obj[o].next ELSE @,
     !.prev = IF p \in {o, obj[o].next} THEN NULL ELSE @]]

HeadWithout(head, o) == IF head = o THEN NULL ELSE head

(* The objects that the loop of find_eq_filename visits: the i-th of them.  *)
Visited(st) ==
  LET v[i \in 0..MaxObjs] ==
        IF i = 0 THEN st.active
        ELSE IF v[i - 1] = NULL THEN NULL ELSE st.obj[v[i - 1]].next
  IN v

(* Where the loop ends for object o: at the end of the list, at an object   *)
(* without a name (stricmp faults), or at another object with o's name.     *)
EndsAt(st, o, p) ==
  \/ p = NULL
  \/ p # o /\ st.obj[p].name \in {NoName, st.obj[o].name}

find_eq_filename(st, o) ==
  LET ends == {i \in 0..MaxObjs : EndsAt(st, o, Visited(st)[i])}
  IN IF ends = {} THEN "hang"
     ELSE LET p == Visited(st)[Lowest(ends)]
          IN IF p = NULL THEN "none"
             ELSE IF st.obj[p].name = NoName THEN "crash" ELSE "found"

Found(st, o) ==
  Visited(st)[Lowest({i \in 0..MaxObjs : EndsAt(st, o, Visited(st)[i])})]

----------------------------------------------------------------------------
(* Properties of a descriptor. *)

\* Faulty variant: the file goes with its first temporary descriptor.
close_fd_eager(st, o) ==
  IF st.obj[o].temp THEN [st EXCEPT !.disk = @ \ {st.obj[o].name}] ELSE st

close_fd(st, o) ==
  IF ~st.obj[o].temp THEN st
  ELSE CASE find_eq_filename(st, o) = "found" ->
              [st EXCEPT !.obj[Found(st, o)].temp = TRUE]
         [] find_eq_filename(st, o) = "none" ->
              [st EXCEPT !.disk = @ \ {st.obj[o].name}]
         [] OTHER -> [st EXCEPT !.fate = find_eq_filename(st, o)]

free_fd_properties(st, o) ==
  [st EXCEPT !.active = HeadWithout(@, o), !.cached = o,
             !.obj = insert_list(remove_list(@, o), st.cached, o)]

LastClosed(st, o) ==
  IF st.fate # "ok" THEN st
  ELSE free_fd_properties([st EXCEPT !.obj[o].name = NoName], o)

clear_fd_properties(st, fd) ==
  LET o == st.props[fd]
      dec == [st EXCEPT !.obj[o].ref = @ - 1]
      cleared == IF dec.obj[o].ref = 0 THEN LastClosed(close_fd(dec, o), o)
                 ELSE dec
  IN [cleared EXCEPT !.props[fd] = IF cleared.fate = "ok" THEN NULL ELSE @]

(* The object alloc_fd_properties returns: the head of the cache, or new    *)
(* memory; NULL when there is none.                                         *)
alloc_fd_properties(st, oom) ==
  IF st.cached # NULL THEN st.cached
  ELSE IF oom \/ st.made = MaxObjs THEN NULL ELSE st.made + 1

(* open_fd: flags start from zero; a file without a name is never temporary. *)
open_fd(st, o, temp) ==
  [st EXCEPT !.obj[o].temp = temp /\ st.obj[o].name # NoName]

Attach(st, fd, o, name) ==
  [st EXCEPT !.obj = insert_list([@ EXCEPT ![o].ref = 1, ![o].name = name],
                                 st.active, o),
             !.active = o, !.props[fd] = o]

TakeObj(st, o) ==
  IF st.cached # NULL
  THEN [st EXCEPT !.cached = HeadWithout(@, o), !.obj = remove_list(@, o)]
  ELSE [st EXCEPT !.made = o]

set_fd_properties(st, fd, name, temp, oom) ==
  LET o == alloc_fd_properties(st, oom)
  IN IF Has(st, fd) THEN open_fd(st, st.props[fd], temp)
     ELSE IF o = NULL THEN st
     ELSE open_fd(Attach(TakeObj(st, o), fd, o, name), o, temp)

\* Faulty variant: the reference is copied and not counted.
dup_fd_properties_uncounted(st, from, to) ==
  IF Has(st, from) THEN [st EXCEPT !.props[to] = st.props[from]] ELSE st

dup_fd_properties(st, from, to) ==
  IF Has(st, from)
  THEN [st EXCEPT !.props[to] = st.props[from], !.obj[st.props[from]].ref = @ + 1]
  ELSE st

----------------------------------------------------------------------------
(* Closing.  The extension's close handler is the one of fse_zero.c: it     *)
(* forgets context and handler and calls _close again; a descriptor without *)
(* a context gets EBADF, and its handle stays open.                         *)

dos_close(st, fd) ==
  IF st.handle[fd] = Free THEN st
  ELSE IF Has(st, fd) THEN clear_fd_properties([st EXCEPT !.handle[fd] = Free], fd)
  ELSE [st EXCEPT !.handle[fd] = Free]

dev_close(st, fd) ==
  dos_close([st EXCEPT !.data[fd] = NULL, !.fn[fd] = FALSE,
                       !.dupc[st.data[fd]] = @ - 1], fd)

_close(st, fd) ==
  IF ~st.fn[fd] THEN dos_close(st, fd)
  ELSE IF st.data[fd] = NULL THEN [st EXCEPT !.fn[fd] = FALSE]
  ELSE dev_close(st, fd)

----------------------------------------------------------------------------
(* Duplicating.  dup and dup2 copy the handler and share the properties;    *)
(* dup2 forgets the handler of newfd before DOS is asked.                   *)

CanDup(st, fd) == st.handle[fd] # Free /\ FreeFds(st) # {}

Dup(st, fd, new) ==
  dup_fd_properties([st EXCEPT !.handle[new] = st.handle[fd],
                               !.fn[new] = st.fn[fd]], fd, new)

\* Faulty variant: the properties of the descriptor that DOS closed stay.
dup2_keep(st, fd, newfd) ==
  IF fd = newfd \/ st.handle[fd] = Free THEN st
  ELSE dup_fd_properties([st EXCEPT !.handle[newfd] = st.handle[fd],
                                    !.fn[newfd] = st.fn[fd]], fd, newfd)

dup2(st, fd, newfd) ==
  LET taken == [st EXCEPT !.handle[newfd] = st.handle[fd], !.fn[newfd] = st.fn[fd]]
      bare == IF Has(st, newfd) THEN clear_fd_properties(taken, newfd) ELSE taken
  IN IF fd = newfd THEN st
     ELSE IF st.handle[fd] = Free THEN [st EXCEPT !.fn[newfd] = FALSE]
     ELSE IF bare.fate # "ok" THEN bare
     ELSE dup_fd_properties(bare, fd, newfd)

(* __FSEXT_alloc_fd: NUL is opened once and its handle duplicated.          *)
WithNul(st) ==
  IF st.nul # -1 \/ FreeFds(st) = {} THEN st
  ELSE [st EXCEPT !.nul = Lowest(FreeFds(st)), !.handle[Lowest(FreeFds(st))] = "nul"]

CanAlloc(st) == st.nul # -1 /\ CanDup(st, st.nul)

alloc_fd(st, new, fn) ==
  [st EXCEPT !.handle[new] = st.handle[st.nul], !.fn[new] = fn]

\* Faulty variant: the shared context is not counted.
internal_dup_uncounted(st, fd, new) ==
  [alloc_fd(st, new, TRUE) EXCEPT !.data[new] = st.data[fd]]

(* internal_dup: F_DUPFD on a descriptor of the device.                     *)
internal_dup(st, fd, new) ==
  IF st.data[fd] = NULL THEN _close(alloc_fd(st, new, TRUE), new)
  ELSE [alloc_fd(st, new, TRUE) EXCEPT !.data[new] = st.data[fd],
                                       !.dupc[st.data[fd]] = @ + 1]

----------------------------------------------------------------------------
(* Opening.  open gives the lowest free handle its properties; malloc       *)
(* failing there is not reported.                                           *)

OpenFile(st, name, temp, oom) ==
  LET fd == Lowest(FreeFds(st))
  IN set_fd_properties([st EXCEPT !.handle[fd] = name, !.disk = @ \cup {name}],
                       fd, name, temp, oom)

(* The open handler of fse_zero.c.  When its malloc fails the descriptor    *)
(* stays allocated.                                                         *)
OpenDevice(st, oom, oomdata) ==
  LET new == Lowest(FreeFds(st))
      st1 == alloc_fd(st, new, TRUE)
      avail == {d \in Contexts : st.dupc[d] = 0}
  IN IF oomdata \/ avail = {} THEN st1
     ELSE set_fd_properties([st1 EXCEPT !.data[new] = Lowest(avail),
                                        !.dupc[Lowest(avail)] = 1],
                            new, Zero, FALSE, oom)

----------------------------------------------------------------------------
Init ==
  /\ s = [handle |-> [fd \in Fds |-> IF fd = 0 THEN "con" ELSE Free],
          fn |-> [fd \in Fds |-> FALSE], data |-> [fd \in Fds |-> NULL],
          dupc |-> [d \in Contexts |-> 0], nul |-> -1,
          props |-> [fd \in Fds |-> NULL],
          obj |-> [o \in Objs |-> [ref |-> 0, name |-> NoName, temp |-> FALSE,
                                   next |-> NULL, prev |-> NULL]],
          made |-> 0, active |-> NULL, cached |-> NULL, disk |-> {}, fate |-> "ok"]
  /\ pc = "run"
  /\ at = 0
  /\ calls = 0

Running == pc = "run" /\ s.fate = "ok"
Fail == IF OOM THEN BOOLEAN ELSE {FALSE}
Call(st) ==
  /\ Running /\ calls < MaxCalls
  /\ s' = st
  /\ calls' = calls + 1
  /\ UNCHANGED <<pc, at>>

\* open(name, O_CREAT [| O_TEMPORARY]); without a free handle nothing happens.
open(name, temp) ==
  /\ FreeFds(s) # {}
  /\ \E oom \in Fail : Call(OpenFile(s, name, temp, oom))

\* open("/dev/zero") with the device installed.
open_dev ==
  IF CanAlloc(WithNul(s))
  THEN \E oom, oomdata \in Fail : Call(OpenDevice(WithNul(s), oom, oomdata))
  ELSE Call(WithNul(s))

(* open of a directory: __FSEXT_alloc_fd(NULL), then move_fd duplicates     *)
(* upwards and closes the descriptors below MinDirFd, so that the lowest    *)
(* free one above remains, or none.                                         *)
opendir_as_fd ==
  IF CanAlloc(WithNul(s)) /\ \E fd \in FreeFds(WithNul(s)) : fd >= MinDirFd
  THEN LET st == WithNul(s)
           fd == Lowest({f \in FreeFds(st) : f >= MinDirFd})
       IN \E oom \in Fail :
            Call(set_fd_properties(alloc_fd(st, fd, FALSE), fd, Dir, FALSE, oom))
  ELSE Call(WithNul(s))

(* A pipe is a new temporary file, opened twice.                            *)
pipe(name) ==
  /\ name \notin s.disk
  /\ FreeFds(s) # {}
  /\ \E oom1, oom2 \in Fail :
       LET st == OpenFile(s, name, TRUE, oom1)
       IN Call(IF FreeFds(st) = {} THEN _close(st, Lowest(FreeFds(s)))
               ELSE OpenFile(st, name, TRUE, oom2))

dup(fd) ==
  /\ CanDup(s, fd)
  /\ Call(Dup(s, fd, Lowest(FreeFds(s))))

Dup2(fd, newfd) == Call(dup2(s, fd, newfd))

fcntl_DUPFD(fd, min) ==
  /\ s.handle[fd] # Free
  /\ \/ /\ s.fn[fd] /\ s.data[fd] # NULL
        /\ IF CanAlloc(WithNul(s))
           THEN Call(internal_dup(WithNul(s), fd, Lowest(FreeFds(WithNul(s)))))
           ELSE Call(WithNul(s))
     \/ /\ ~s.fn[fd]
        /\ \E f \in FreeFds(s) : f >= min
        /\ Call(dup2(s, fd, Lowest({f \in FreeFds(s) : f >= min})))

(* A seek forward on a descriptor without properties gives it an object     *)
(* without a name, to remember the gap.                                     *)
llseek(fd) ==
  /\ s.handle[fd] # Free /\ ~s.fn[fd] /\ ~Has(s, fd)
  /\ \E oom \in Fail : Call(set_fd_properties(s, fd, NoName, FALSE, oom))

close(fd) == Call(_close(s, fd))

\* exit: exit_cleanup does nothing when the list of active objects is empty.
exit ==
  /\ Running
  /\ pc' = IF s.active = NULL THEN "fsext" ELSE "props"
  /\ at' = 0
  /\ UNCHANGED <<s, calls>>

CloseNext(todo, after) ==
  IF todo = {}
  THEN pc' = after /\ at' = 0 /\ UNCHANGED s
  ELSE /\ s' = _close(s, Lowest(todo))
       /\ at' = Lowest(todo) + 1
       /\ UNCHANGED pc

exit_cleanup ==
  /\ pc = "props" /\ s.fate = "ok"
  /\ CloseNext({fd \in Fds : fd >= at /\ Has(s, fd)}, "fsext")
  /\ UNCHANGED calls

FSEXT_close_all ==
  /\ pc = "fsext" /\ s.fate = "ok"
  /\ CloseNext({fd \in Fds : fd >= at /\ s.fn[fd]}, "done")
  /\ UNCHANGED calls

Next ==
  \/ \E name \in Names : pipe(name) \/ \E temp \in BOOLEAN : open(name, temp)
  \/ open_dev
  \/ opendir_as_fd
  \/ \E fd \in Fds : \/ dup(fd) \/ llseek(fd) \/ close(fd)
                     \/ fcntl_DUPFD(fd, 0)
                     \/ \E newfd \in Fds : Dup2(fd, newfd)
  \/ exit
  \/ exit_cleanup
  \/ FSEXT_close_all

Spec == Init /\ [][Next]_vars

----------------------------------------------------------------------------
(* Types of the tables of dosio.c, fd_props.c and fsext.c.                  *)
State == [handle : [Fds -> Names \cup {Free, "con", "nul"}],
          fn : [Fds -> BOOLEAN], data : [Fds -> 0..MaxData],
          dupc : [Contexts -> Nat], nul : Fds \cup {-1},
          props : [Fds -> 0..MaxObjs], obj : [Objs -> Obj],
          made : 0..MaxObjs, active : 0..MaxObjs, cached : 0..MaxObjs,
          disk : SUBSET Names, fate : {"ok", "crash", "hang"}]
TypeOK ==
  /\ s \in State
  /\ pc \in {"run", "props", "fsext", "done"}
  /\ at \in 0..NFD
  /\ calls \in 0..MaxCalls

Sharers(o) == {fd \in Fds : s.props[fd] = o}

(* An object's ref_count is the number of descriptors that share it, over   *)
(* any order of open, dup, dup2, close and reuse of cached objects, however *)
(* damaged the lists are; so an object is never reused while a descriptor   *)
(* still has it.  Counts and links are in range (TypeOK).                   *)
RefCountsExact ==
  /\ TypeOK
  /\ s.fate = "ok" => \A o \in Objs : s.obj[o].ref = Cardinality(Sharers(o))

(* Properties always belong to an open handle and name the file that DOS    *)
(* has open there: no descriptor inherits the name, and with it the         *)
(* deletion, of the file that had its number before.                        *)
NamesAgree ==
  s.fate = "ok" => \A fd \in Fds : Has(s, fd) =>
    /\ s.handle[fd] # Free
    /\ s.obj[s.props[fd]].name \in Names =>
         s.handle[fd] = s.obj[s.props[fd]].name

(* A device context has at least as many references as descriptors point to *)
(* it, so fse_zero.c never reads one that is freed, whatever dup and dup2   *)
(* did to the handler behind its back.  (It may have more: dup2 onto a      *)
(* descriptor of the device forgets the handler, and the context leaks.)    *)
ContextsAlive ==
  \A d \in Contexts : Cardinality({fd \in Fds : s.data[fd] = d}) <= s.dupc[d]

(* The list holds every object in use, and nothing else.                    *)
ListIntact ==
  /\ \E i \in 0..MaxObjs : Visited(s)[i] = NULL
  /\ {Visited(s)[i] : i \in 0..MaxObjs} \ {NULL} =
       {o \in Objs : Sharers(o) # {}}

Users(st, name) == {fd \in Fds : Has(st, fd) /\ st.obj[st.props[fd]].name = name}

(* While the list is intact, a temporary file goes exactly with the last    *)
(* descriptor that uses it: close_fd removes no file with other users, and  *)
(* passes the duty on to one of them otherwise.                             *)
TempGoesWithLast ==
  [][ListIntact /\ s'.fate = "ok" =>
       \A name \in s.disk :
         /\ name \notin s'.disk => Users(s', name) = {}
         /\ ( /\ \E fd \in Users(s, name) : s.obj[s.props[fd]].temp
              /\ name \in s'.disk
              /\ pc # "run" \/ Users(s', name) # Users(s, name))
            => \E fd \in Users(s', name) : s'.obj[s'.props[fd]].temp]_vars

=============================================================================
