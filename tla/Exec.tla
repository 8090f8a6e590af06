--------------------------------- MODULE Exec ---------------------------------
(***************************************************************************)
(* A program runs another: system (ansi/stdlib/system.c), popen and pclose *)
(* which are built on it (posix/stdio/popen.c), the spawn and exec         *)
(* functions over __djgpp_spawn (dos/process/dosexec.c), and the start-up  *)
(* code of the child that gathers its arguments (crt0/c1args.c).           *)
(*                                                                         *)
(* DOS runs one program at a time: procs is the stack of programs, each    *)
(* waiting for the one above it.  Arguments reach a DJGPP child through    *)
(* the parent's transfer buffer, or a larger block of DOS memory, whose    *)
(* address travels in the command tail or, from system, in the environment *)
(* as " !proxy".  Other programs get a text, in the tail or in CMDLINE.    *)
(* Such a program is part of the environment of this model: it may start   *)
(* DJGPP programs itself, with a text and a copy of its environment.       *)
(***************************************************************************)
EXTENDS Integers, CommandLine, FiniteSets

CONSTANTS
  MaxDepth,     \* bound: programs on the stack
  MaxCalls,     \* bound: programs started by DJGPP programs
  MaxPipes,     \* bound: pipes a program has open, and files left by failed ones
  PipeCalls,    \* bound: popen is called while so many programs may still be started
  CMDLEN_LIMIT, \* characters in a command tail
  CMDLINE_MAX,  \* characters of arguments in CMDLINE
  ShellLimits,  \* lengths that _shell_cmdline_limit may tell of a shell
  Programs,     \* the kind of program each name on the PATH stands for
  SpawnArgs,    \* argument lists a program may spawn others with
  Lines,        \* command lines it may give to system
  PipeLines,    \* command lines it may give to popen
  Texts,        \* command tails other programs may start a DJGPP program with
  Responses,    \* response files: text, and the words it is made of
  Matches,      \* file names that the wildcard "star" stands for
  TmpNames,     \* the names tmpnam makes
  Shells,       \* kinds of shell that SHELL and COMSPEC may name: "dos", "unix"
  Uses          \* of Refusals: what DOS may refuse as well

\* Calls of DOS that fail: dup where system and pclose save a handle, freopen of
\* a standard stream and fopen on a temporary file, dup2 where popen and pclose
\* put a handle back.
Refusals == {"dup_fails", "freopen_fails", "fopen_fails", "dup2_fails"}
ASSUME UsesAssumption == Uses \subseteq Refusals

VARIABLES procs, mem, dos, temps, strays, calls, misplaced
vars == <<procs, mem, dos, temps, strays, calls, misplaced>>

\* Not-a-value of each of the optional fields.
NoName == <<"none">>
NoRef == [at |-> <<0, 0>>, argc |-> 0]
Tty == <<"tty">>
Closed == <<"closed">>
ASSUME TmpNamesAssumption == NoName \notin TmpNames

Levels == 1..MaxDepth
\* Block 0 is the transfer buffer, the others are allocated from DOS.
Blocks == Levels \X (0..2)
DjgppKinds == {"djgpp", "script"}
Kinds == {"djgpp", "script", "exe", "pe", "bat", "shell"}
Kind(name) == IF name \in DOMAIN Programs THEN Programs[name] ELSE "shell"

NoSys == [line |-> <<>>, at |-> 1, prog |-> NoName, words |-> <<>>, f_in |-> NoName,
          f_out |-> NoName, rm_in |-> FALSE, rm_out |-> FALSE, bak |-> <<Tty, Tty>>,
          sep |-> "EOL", result |-> 0, script |-> NoName]

\* The call of popen or pclose that waits for system.
NoPipe == [op |-> "none", mode |-> "r", name |-> NoName, line |-> <<>>, bak |-> NoName]

(* A program.  text, ref: its command tail.  proxy, cmdline: variables of its  *)
(* environment.  argv, want: the arguments it found, and those it was to find. *)
(* std: its handles 0 and 1, home: what they were when it began.  held: output *)
(* in the buffer of stdout.  sel: tbuf_selector.  e2big: errno is E2BIG.       *)
(* pipes: the list of popen.  The global strays has the temporary files that a *)
(* failed popen does not remove.                                               *)
Program(kind, text, ref, proxy, cmdline, want, std) ==
  [kind |-> kind, pc |-> "start", text |-> text, ref |-> ref, proxy |-> proxy,
   cmdline |-> cmdline, argv |-> <<>>, want |-> want, std |-> std, home |-> std,
   held |-> FALSE, sel |-> 0, in_system |-> FALSE, sys |-> NoSys, e2big |-> FALSE,
   pipe |-> NoPipe, pipes |-> {}]

Init ==
  /\ procs = <<[Program("djgpp", <<>>, NoRef, NoRef, NoName, <<>>, <<Tty, Tty>>)
                EXCEPT !.pc = "run"]>>
  /\ mem = [b \in Blocks |-> <<>>]
  /\ dos = {} /\ temps = {} /\ strays = {} /\ calls = MaxCalls /\ misplaced = FALSE

Level == Len(procs)
Me == procs[Level]
At(pc) == Me.pc = pc /\ Me.kind \in DjgppKinds
Idle == Me.pc = "run" /\ Me.pipe = NoPipe
\* A program that has lost a standard stream makes no more calls here.
Mine == Idle /\ Me.kind \in DjgppKinds /\ Closed \notin {Me.std[1], Me.std[2]}
Set(p) == procs' = [procs EXCEPT ![Level] = p]

\* A call of DOS succeeds, unless Uses lets it fail.
Allowed(done, refusal) == done \/ refusal \in Uses

\* A program that goes on to call another has used its arguments.
Past(p) == [p EXCEPT !.argv = <<>>, !.want = <<>>, !.text = <<>>, !.ref = NoRef]

-----------------------------------------------------------------------------
(* The arguments of a child, __crt0_setup_arguments.                       *)

Glob(a) == IF a = <<"star">> THEN Matches ELSE <<a>>
Unmarked(args) == [i \in DOMAIN args |-> [arg |-> args[i], was_quoted |-> FALSE]]

\* expand_response_files, expand_wildcards, count_args and fill_args.
Expand(al, wildcards) ==
  LET expand[l \in Seq([arg : Seq(STRING), was_quoted : BOOLEAN])] ==
        FlattenSeq([i \in DOMAIN l |->
          LET a == l[i] IN
          IF ~a.was_quoted /\ CharAt(a.arg, 1) = "at" /\ From(a.arg, 2) \in DOMAIN Responses
            THEN expand[parse_bytes(Responses[From(a.arg, 2)].text)]
          ELSE IF wildcards /\ ~a.was_quoted THEN Glob(a.arg)
          ELSE <<a.arg>>])
  IN  expand[al]

setup_arguments(p) ==
  LET parsed(args) == [i \in DOMAIN args |-> Parsed(parse_arg(args[i], 1))] IN
  IF p.proxy # NoRef THEN Expand(parsed(mem[p.proxy.at]), TRUE)
  ELSE IF p.ref # NoRef THEN Expand(Unmarked(mem[p.ref.at]), FALSE)
  ELSE Expand(parse_bytes(IF Len(p.text) > CMDLEN_LIMIT THEN p.cmdline ELSE p.text), TRUE)

startup ==
  /\ Me.pc = "start"
  /\ Set([Me EXCEPT !.pc = "run",
                    !.argv = IF Me.kind \in DjgppKinds THEN setup_arguments(Me)
                             ELSE ForeignParse(IF Me.cmdline # NoName /\ Len(Me.text) > CMDLEN_LIMIT
                                                 THEN Me.cmdline ELSE Me.text)])
  /\ UNCHANGED <<mem, dos, temps, calls, misplaced, strays>>

-----------------------------------------------------------------------------
(* The transfer buffer.                                                    *)

\* Faulty variant: the block is given up but not returned to DOS.
Give_up_keeps(b) == [sel |-> 0, blk |-> 0, dos |-> b.dos, ok |-> FALSE]

\* check_talloc failed: no block is left.
Give_up(b) == [sel |-> 0, blk |-> 0, dos |-> b.dos \ {<<Level, b.sel>>}, ok |-> FALSE]

\* The outcomes of check_talloc: there is room, a larger block is allocated and
\* the old one freed, or DOS has none.
check_talloc(b) ==
  LET new == CHOOSE n \in 1..2 : n # b.sel
  IN  {b, [b EXCEPT !.sel = new, !.blk = new,
                    !.dos = (@ \ {<<Level, b.sel>>}) \cup {<<Level, new>>}],
       Give_up(b)}
Buffer(p) == [sel |-> p.sel, blk |-> 0, dos |-> dos, ok |-> TRUE]

\* The call fails: spawn returns -1, system goes on to restore its handles.
Failed(p) == [p EXCEPT !.pc = IF p.in_system THEN "back" ELSE "run", !.sys.result = -1,
                       !.sys.script = NoName]

\* Faulty variant: the !proxy variable is not taken out of the environment.
Environment_kept(p, proxy) == IF proxy # NoRef THEN proxy ELSE p.proxy

\* The !proxy variable is replaced or left out when the environment is copied.
Environment(p, proxy) == proxy

\* The segment in the text of !proxy follows the block, if it moved since.
Corrected(ref, old, new) == IF ref # NoRef /\ old.sel # new.sel THEN [ref EXCEPT !.at[2] = new.blk] ELSE ref

(* direct_exec_tail: p is the caller after its own work, c the child.  The     *)
(* environment and the tail are put into the buffer, which may fail or move it *)
(* once more; the short name of the program may be refused; DOS may refuse to  *)
(* run it.                                                                     *)
direct_exec_tail(p, b, c, args) ==
  \E d \in check_talloc(b) :
    \/ /\ ~d.ok
       /\ Set([Failed(p) EXCEPT !.sel = 0])
       /\ dos' = d.dos /\ UNCHANGED mem
    \/ /\ d.ok
       /\ Set([Failed(p) EXCEPT !.sel = d.sel])
       /\ dos' = d.dos /\ UNCHANGED mem
    \/ /\ d.ok
       /\ Set([Failed(p) EXCEPT !.sel = 0])
       /\ dos' = d.dos \ {<<Level, d.sel>>} /\ UNCHANGED mem
    \/ /\ d.ok
       /\ procs' = Append([procs EXCEPT ![Level] = [p EXCEPT !.pc = "child", !.sel = d.sel]],
                          [c EXCEPT !.ref = Corrected(@, b, d),
                                    !.proxy = Environment(p, Corrected(@, b, d))])
       /\ dos' = d.dos
       /\ mem' = [mem EXCEPT ![<<Level, d.blk>>] = args]

\* go32_exec: the arguments go into the buffer, their address into the tail, or
\* into the environment when system runs the program.
go32_exec(p, kind, args, want) ==
  \E b \in check_talloc(Buffer(p)) :
    LET ref == [at |-> <<Level, b.blk>>, argc |-> Len(args)]
        c   == Program(kind, IF p.in_system THEN UpTo(Join(args, Bare), CMDLEN_LIMIT)
                             ELSE <<>>,
                       IF p.in_system THEN NoRef ELSE ref,
                       IF p.in_system THEN ref ELSE NoRef, p.cmdline, want, p.std)
    IN  IF b.ok THEN direct_exec_tail(p, b, c, args)
        ELSE Set([Failed(p) EXCEPT !.sel = 0]) /\ dos' = b.dos /\ UNCHANGED mem

\* Faulty variant: a tail that is cut goes unnoticed when a single character is lost.
Cut_by_one(text, limit) == [text |-> UpTo(text, limit + 1), e2big |-> Len(text) > limit + 1]

\* The loops that write a text stop one character after its limit; errno tells.
Cut(text, limit) == [text |-> UpTo(text, limit + 1), e2big |-> Len(text) > limit]

\* A tail that is too long is cut, unless CMDLINE holds it: then its length byte
\* is 127, which a text longer than CMDLEN_LIMIT stands for here.
exec_text(p, kind, t, via_cmdline, want) ==
  LET long == via_cmdline /\ Len(t.text) > CMDLEN_LIMIT
      text == IF long THEN t.text ELSE UpTo(t.text, CMDLEN_LIMIT)
  IN  direct_exec_tail([p EXCEPT !.e2big = t.e2big], Buffer(p),
                       Program(kind, text, NoRef, NoRef, IF long THEN text ELSE p.cmdline,
                               want, p.std), <<>>)

direct_exec(p, kind, args, want) ==
  exec_text(p, kind, Cut(DirectTail(args, p.in_system), CMDLEN_LIMIT), FALSE, want)

direct_pe_exec(p, kind, args, want) ==
  exec_text(p, kind, Cut(DirectTail(args, p.in_system), CMDLINE_MAX), TRUE, want)

\* COMSPEC's shell tells how long a command it takes.
command_exec(p, kind, args, want) ==
  LET text == CommandTail(args, p.in_system) IN
  \E limit \in ShellLimits :
    exec_text(p, kind, [text |-> text, e2big |-> Len(text) > limit], Len(text) <= limit, want)

\* script_exec: the interpreter is a DJGPP program and gets the script's name
\* before the arguments.
Interp(kind, args) == IF kind = "script" THEN <<<<"s">>>> \o args ELSE args

\* What the child is meant to find.  From system a word stands for what its quotes
\* say and is expanded by the child; from spawn each argument arrives as it is.
IsResponse(a) == CharAt(a, 1) = "at" /\ From(a, 2) \in DOMAIN Responses
WordsOf(a) == Responses[From(a, 2)].words
Globbed(w) == IF QuotedWildcard(w) THEN <<Meaning(w)>> ELSE Glob(Meaning(w))
WantWords(words) ==
  FlattenSeq([i \in DOMAIN words |->
    LET a == Meaning(words[i]) IN
    IF IsResponse(a) /\ ~QuotedWildcard(words[i])
      THEN FlattenSeq([j \in DOMAIN WordsOf(a) |-> Globbed(WordsOf(a)[j])])
    ELSE Globbed(words[i])])
WantArgs(args) ==
  FlattenSeq([i \in DOMAIN args |->
    IF IsResponse(args[i]) THEN [j \in DOMAIN WordsOf(args[i]) |-> Meaning(WordsOf(args[i])[j])]
    ELSE <<args[i]>>])
Want(kind, args, in_system) ==
  IF kind \in DjgppKinds THEN IF in_system THEN WantWords(args) ELSE WantArgs(args)
  ELSE IF in_system
  THEN ForeignParse(IF kind = "bat" THEN CommandTail(args, TRUE) ELSE DirectTail(args, TRUE))
  ELSE args

\* __djgpp_spawn: stdout is flushed, and the interpreter of the file's kind runs it.
\* With P_OVERLAY, as from exec, the caller exits next, as it may in any case.
djgpp_spawn(p, kind, args) ==
  LET q    == [p EXCEPT !.held = FALSE, !.e2big = FALSE]
      a    == Interp(kind, args)
      want == Want(kind, a, p.in_system)
  IN  /\ Level < MaxDepth
      /\ calls > 0 /\ calls' = calls - 1
      /\ misplaced' = (misplaced \/ (p.held /\ p.std[2] # p.home[2]))
      /\ \/ kind \in DjgppKinds /\ go32_exec(q, kind, a, want)
         \/ kind = "exe" /\ direct_exec(q, kind, a, want)
         \/ kind = "pe" /\ direct_pe_exec(q, kind, a, want)
         \/ kind = "bat" /\ command_exec(q, kind, a, want)
         \/ kind = "missing" /\ Set(Failed(q)) /\ UNCHANGED <<mem, dos>>

spawn ==
  /\ Mine
  /\ \E kind \in (Kinds \ {"shell"}) \cup {"missing"}, args \in SpawnArgs :
       djgpp_spawn(Past(Me), kind, args)
  /\ UNCHANGED <<temps, strays>>

-----------------------------------------------------------------------------
(* system.                                                                 *)

\* The part of the line up to the next |, ; or end: a command, and the files it is
\* redirected from and to.  piped: its stdin is a pipe already.
Parts == [at : Nat, prog : Seq(STRING), words : Seq(Seq(STRING)), from : Seq(STRING),
          to : Seq(STRING), sep : STRING]
Collect(line, at, piped) ==
  LET collect[c \in Parts] ==
        LET t   == get_sym(line, c.at)
            u   == get_sym(line, t.end)
            Bad == [c EXCEPT !.sep = "error"]
            Target == unquote(Lexeme(line, u))
        IN  CASE t.kind = "WORD" ->
                   collect[IF c.prog = NoName
                             THEN [c EXCEPT !.at = t.end, !.prog = unquote(Lexeme(line, t))]
                             ELSE [c EXCEPT !.at = t.end, !.words = Append(@, Lexeme(line, t))]]
              [] t.kind = "REDIR_INPUT" ->
                   IF piped \/ c.from # NoName \/ u.kind # "WORD" THEN Bad
                   ELSE collect[[c EXCEPT !.at = u.end, !.from = Target]]
              [] t.kind \in {"REDIR_OUTPUT", "REDIR_APPEND"} ->
                   IF c.to # NoName \/ u.kind # "WORD" THEN Bad
                   ELSE collect[[c EXCEPT !.at = u.end, !.to = Target]]
              [] t.kind = "UNMATCHED_QUOTE" -> Bad
              [] OTHER -> IF c.prog = NoName \/ (t.kind = "PIPE" /\ c.to # NoName) THEN Bad
                          ELSE [c EXCEPT !.at = t.end, !.sep = t.kind]
  IN  collect[[at |-> at, prog |-> NoName, words |-> <<>>, from |-> NoName, to |-> NoName,
               sep |-> "EOL"]]

\* The name is new; where one is asked for, one is left.
tmpnam == CHOOSE n \in TmpNames : n \notin temps
NameLeft == TmpNames \ temps # {}

\* The shell is a program that is not DJGPP's.  A DOS shell gets the command as
\* its tail, or not at all; a Unix-like one the name of a file that holds it,
\* which is removed when the shell is over or could not be run.
shell_command(p, shell, text) ==
  /\ Level < MaxDepth
  /\ calls > 0 /\ calls' = calls - 1
  /\ \/ /\ shell = "dos" \/ text = <<>>
        /\ \E limit \in ShellLimits :
             IF Len(text) > limit
               THEN Set([Failed(p) EXCEPT !.e2big = TRUE]) /\ UNCHANGED <<mem, dos>>
               ELSE exec_text(p, "shell", [text |-> text, e2big |-> FALSE], TRUE, ForeignParse(text))
        /\ UNCHANGED temps
     \/ /\ shell = "unix" /\ text # <<>> /\ NameLeft
        /\ exec_text([p EXCEPT !.sys.script = tmpnam], "shell",
                     [text |-> <<"sp", "f">>, e2big |-> FALSE], FALSE, <<<<"f">>>>)
        /\ temps' = IF Len(procs') > Level THEN temps \cup {tmpnam} ELSE temps
     \/ /\ shell = "unix" /\ text # <<>>
        /\ Set(Failed(p)) /\ UNCHANGED <<mem, dos, temps>>
  /\ UNCHANGED misplaced

\* Called by the program, or by popen and pclose.
system ==
  /\ Mine \/ At("call")
  /\ calls > 0
  /\ \E line \in (IF Mine THEN Lines ELSE {Me.pipe.line}), shell \in Shells :
       IF line = <<>> \/ shell = "unix"
         THEN shell_command([Past(Me) EXCEPT !.e2big = FALSE], shell, line)
         ELSE /\ Set([Past(Me) EXCEPT !.pc = "sys", !.sys = [NoSys EXCEPT !.line = line], !.e2big = FALSE])
              /\ UNCHANGED <<mem, dos, temps, calls, misplaced>>
  /\ UNCHANGED strays

\* system returns; the result matters to popen.
Returned(p, result) ==
  [p EXCEPT !.pc = "run", !.sys = [NoSys EXCEPT !.result = IF p.pipe = NoPipe THEN 0 ELSE result]]

\* The temporary files that remain are removed on the way out.
Leave(s) == (IF s.rm_in THEN {s.f_in} ELSE {}) \cup (IF s.rm_out THEN {s.f_out} ELSE {})

\* Faulty variant: stdout is not flushed before it is redirected.
Flushed_not(p, out) == p.held

\* Redirection of stdout flushes it first, so that the text goes where it belongs.
Flushed(p, out) == p.held /\ out = NoName

\* Redirect to the files of command c, if they can be opened, and go on.
redirect(c) ==
  /\ LET s    == Me.sys
         pipe == c.sep = "PIPE"
         in   == IF s.f_in # NoName THEN s.f_in ELSE c.from
         out  == IF pipe THEN tmpnam ELSE c.to
         new  == [s EXCEPT !.prog = c.prog, !.words = c.words, !.sep = c.sep,
                           !.f_in = in, !.f_out = out, !.rm_out = pipe, !.bak = Me.std,
                           !.line = IF c.sep = "EOL" THEN <<>> ELSE @,
                           !.at = IF c.sep = "EOL" THEN 1 ELSE c.at]
     IN  IF c.sep = "error"
           THEN /\ Set(Returned(Me, -1))
                /\ temps' = temps \ Leave(s)
           ELSE \E opened, made, dupped \in BOOLEAN :
                  /\ pipe => NameLeft
                  /\ in = NoName => opened
                  /\ out = NoName => made
                  /\ Allowed(dupped, "dup_fails") /\ ({in, out} = {NoName} => dupped)
                  /\ temps' = temps \cup (IF pipe /\ made THEN {out} ELSE {})
                  /\ LET ok == opened /\ made /\ dupped IN
                     Set([Me EXCEPT
                       !.held = Flushed(Me, out),
                       !.std = <<IF in # NoName /\ opened THEN in ELSE @[1],
                                 IF out # NoName /\ made THEN out ELSE @[2]>>,
                       !.sys = [new EXCEPT !.result = IF ok THEN @ ELSE -1,
                                           !.bak = IF dupped THEN @ ELSE <<NoName, NoName>>],
                       !.pc = IF ok /\ new.result = 0 THEN "go" ELSE "back"])
  /\ UNCHANGED <<mem, dos, calls, misplaced, strays>>

\* One command of the line.
sys_command == At("sys") /\ redirect(Collect(Me.sys.line, Me.sys.at, Me.sys.f_in # NoName))

\* system1 and plainsystem: the program is run with the words as they are written.
sys_go ==
  /\ At("go")
  /\ LET s == Me.sys
         p == [Me EXCEPT !.in_system = TRUE, !.sys.prog = NoName, !.sys.words = <<>>]
         k == Kind(s.prog)
     IN  \/ /\ k \in {"null", "missing"}
            /\ Set([Me EXCEPT !.pc = "back", !.sys.prog = NoName, !.sys.words = <<>>, !.sys.result = IF k = "null" THEN 0 ELSE -1])
            /\ UNCHANGED <<mem, dos, temps, calls, misplaced>>
         \/ /\ k = "shell"
            /\ \E shell \in Shells :
                 shell_command(p, shell, s.prog \o Join(s.words, Bare))
         \/ k \in Kinds \ {"shell"} /\ djgpp_spawn(p, k, s.words) /\ UNCHANGED temps
  /\ UNCHANGED strays

\* Faulty variant: only stdin is put back.
Restored_in(p) == <<IF p.sys.f_in # NoName /\ p.sys.bak[1] # NoName THEN p.sys.bak[1] ELSE p.std[1], p.std[2]>>

\* dup2 of the saved handles; it fails for one that could not be saved.
Restored(p) ==
  <<IF p.sys.f_in # NoName /\ p.sys.bak[1] # NoName THEN p.sys.bak[1] ELSE p.std[1],
    IF p.sys.f_out # NoName /\ p.sys.bak[2] # NoName THEN p.sys.bak[2] ELSE p.std[2]>>

\* The handles are put back, and the next command follows or system returns.
sys_back ==
  /\ At("back")
  /\ LET s == Me.sys
         p == [Me EXCEPT !.in_system = FALSE, !.std = Restored(Me)]
         piped == s.sep = "PIPE"
         over == s.sep = "EOL" \/ s.result < 0
     IN  IF over
           THEN /\ Set(Returned(p, s.result))
                /\ temps' = temps \ Leave(s)
           ELSE /\ Set([p EXCEPT !.pc = "sys",
                                 !.sys.f_in = IF piped THEN s.f_out ELSE NoName, !.sys.f_out = NoName,
                                 !.sys.rm_in = piped, !.sys.rm_out = FALSE])
                /\ temps' = temps \ (IF s.rm_in THEN {s.f_in} ELSE {})
  /\ UNCHANGED <<mem, dos, calls, misplaced, strays>>

-----------------------------------------------------------------------------
(* popen and pclose.  DOS cannot run two programs at once: what the command    *)
(* writes is read from a temporary file, and what it reads is gathered in one. *)
(* A popen without memory, or without a handle to save stdout in, returns NULL *)
(* and leaves all as it was.  Of the calls of DOS that follow those fail that  *)
(* Uses names; a refused fopen ends the program, which uses the NULL it gets.  *)

popen ==
  /\ Mine /\ calls >= PipeCalls /\ Cardinality(Me.pipes) + Cardinality(strays) < MaxPipes /\ NameLeft
  /\ \E line \in PipeLines, opened \in BOOLEAN :
       LET x == [NoPipe EXCEPT !.op = "popen", !.name = tmpnam, !.line = line]
       IN  /\ \/ /\ Allowed(opened, "freopen_fails")
                /\ Set(IF opened
                       THEN [Past(Me) EXCEPT !.pc = "call", !.held = FALSE, !.std[2] = tmpnam,
                                             !.pipe = [x EXCEPT !.bak = Me.std[2]]]
                       ELSE [Past(Me) EXCEPT !.held = FALSE, !.std[2] = Closed])
             \/ /\ Allowed(opened, "fopen_fails")
                /\ Set(IF opened THEN [Past(Me) EXCEPT !.pipes = @ \cup {[x EXCEPT !.mode = "w"]}]
                                 ELSE [Past(Me) EXCEPT !.pc = "fault"])
           /\ temps' = IF opened THEN temps \cup {tmpnam} ELSE temps
  /\ UNCHANGED <<mem, dos, strays, calls, misplaced>>

\* The command has run: stdout is put back, and its output can be read.
popen_return ==
  /\ At("run") /\ Me.pipe.op = "popen"
  /\ \E restored, opened \in BOOLEAN :
       LET failed == ~restored \/ Me.sys.result = -1
           x == [Me.pipe EXCEPT !.bak = NoName]
       IN  /\ Allowed(restored, "dup2_fails")
           /\ Allowed(opened, "fopen_fails") /\ (failed => opened)
           /\ Set([Me EXCEPT !.pc = IF opened THEN @ ELSE "fault", !.held = FALSE,
                             !.std[2] = IF restored THEN Me.pipe.bak ELSE @,
                             !.pipe = NoPipe, !.sys = NoSys,
                             !.pipes = IF failed \/ ~opened THEN @ ELSE @ \cup {x}])
           /\ strays' = IF failed THEN strays \cup {x.name} ELSE strays
  /\ UNCHANGED <<mem, dos, temps, calls, misplaced>>

\* A pipe that was written to is closed, and the command runs with it as stdin.
\* Without a handle to save stdin in, or without the file, it does not run.
pclose ==
  /\ Mine
  /\ \E x \in Me.pipes :
       \/ /\ x.mode = "r"
          /\ Set([Me EXCEPT !.pipes = @ \ {x}])
          /\ temps' = temps \ {x.name}
       \/ /\ x.mode = "w" /\ calls > 0
          /\ \E dupped, opened \in BOOLEAN :
               /\ Allowed(dupped, "dup_fails")
               /\ Allowed(opened, "freopen_fails") /\ (~dupped => opened)
               /\ Set(IF dupped /\ opened
                      THEN [Me EXCEPT !.pc = "call", !.pipes = @ \ {x}, !.std[1] = x.name,
                                      !.pipe = [x EXCEPT !.op = "pclose", !.bak = Me.std[1]]]
                      ELSE [Me EXCEPT !.pipes = @ \ {x}, !.std[1] = IF dupped THEN Closed ELSE @])
          /\ UNCHANGED temps
  /\ UNCHANGED <<mem, dos, strays, calls, misplaced>>

\* stdin is put back, or stays closed.
Reopened(restored) ==
  /\ Allowed(restored, "dup2_fails")
  /\ Set([Me EXCEPT !.std[1] = IF restored THEN Me.pipe.bak ELSE Closed, !.pipe = NoPipe,
                    !.sys = NoSys])

\* Faulty variant: the file goes only if the command could be run.
pclose_return_keeps ==
  /\ At("run") /\ Me.pipe.op = "pclose"
  /\ \E restored \in BOOLEAN : Reopened(restored)
  /\ temps' = IF Me.sys.result = -1 THEN temps ELSE temps \ {Me.pipe.name}
  /\ UNCHANGED <<mem, dos, strays, calls, misplaced>>

\* Whatever became of the command, its input is removed and stdin put back.
pclose_return ==
  /\ At("run") /\ Me.pipe.op = "pclose"
  /\ \E restored \in BOOLEAN : Reopened(restored)
  /\ temps' = temps \ {Me.pipe.name}
  /\ UNCHANGED <<mem, dos, strays, calls, misplaced>>

-----------------------------------------------------------------------------
(* The end of a program, and programs that are not DJGPP's.                *)

\* The parent frees its block and has the status; DOS frees those of the child.
\* What the transfer buffer held is lost with the parent's next call of DOS.  The
\* child's streams are closed, and with them goes the file of a pipe still open.
exit ==
  /\ Level > 1 /\ Idle
  /\ LET up == procs[Level - 1]
         script == up.sys.script
     IN  /\ \E status \in {0, 1} :
              procs' = Append(SubSeq(procs, 1, Level - 2),
                         [up EXCEPT !.pc = IF up.in_system THEN "back" ELSE "run", !.sel = 0,
                                    !.sys.result = status, !.sys.script = NoName])
         /\ dos' = {b \in dos : b[1] # Level /\ b # <<Level - 1, up.sel>>}
         /\ temps' = temps \ ({script} \cup {x.name : x \in Me.pipes})
         /\ mem' = [b \in Blocks |-> IF b[1] = Level - 1 THEN <<>> ELSE mem[b]]
  /\ UNCHANGED <<calls, misplaced, strays>>

\* The program writes to stdout, which is buffered.
print ==
  /\ Mine /\ ~Me.held /\ calls > 0
  /\ Set([Me EXCEPT !.held = TRUE])
  /\ UNCHANGED <<mem, dos, temps, calls, misplaced, strays>>

foreign_exec ==
  /\ Me.kind \notin DjgppKinds /\ Me.pc = "run"
  /\ Level < MaxDepth
  /\ \E words \in Texts :
       LET text == Join(words, Bare)
       IN  procs' = Append([procs EXCEPT ![Level] = [Past(Me) EXCEPT !.pc = "child"]],
                      [Program("djgpp", text, NoRef, Me.proxy,
                               IF Len(text) > CMDLEN_LIMIT THEN text ELSE Me.cmdline,
                               WantWords(words), Me.std) EXCEPT !.pc = "start"])
  /\ UNCHANGED <<mem, dos, temps, calls, misplaced, strays>>

Next ==
  \/ startup \/ spawn \/ system \/ sys_command \/ sys_go \/ sys_back
  \/ popen \/ popen_return \/ pclose \/ pclose_return
  \/ exit \/ print \/ foreign_exec

Spec == Init /\ [][Next]_vars

-----------------------------------------------------------------------------
(* Properties.                                                             *)

Started(p) == p.pc # "start"

TypeOK ==
  /\ Level \in Levels
  /\ \A l \in 1..Level :
       LET p == procs[l] IN
       /\ p.kind \in Kinds
       /\ p.pc \in {"start", "run", "call", "sys", "go", "back", "child", "fault"}
       /\ (p.pc = "child") = (l < Level)
       /\ p.sel \in 0..2 /\ p.sys.result \in {-1, 0, 1}
       /\ p.ref.at \in Blocks \cup {<<0, 0>>} /\ p.proxy.at \in Blocks \cup {<<0, 0>>}
  /\ dos \subseteq Blocks /\ temps \subseteq TmpNames /\ strays \subseteq TmpNames /\ calls \in 0..MaxCalls

(* A " !proxy" in the environment always is the one of the program's own       *)
(* parent, and the memory it names is still allocated.                         *)
ProxyIsParents ==
  \A l \in 1..Level : LET p == procs[l] IN
    /\ p.proxy # NoRef => p.proxy.at[1] = l - 1
    /\ \A r \in {p.proxy, p.ref} \ {NoRef} :
         ~Started(p) => (r.at[2] = 0 \/ r.at \in dos)

(* A DJGPP program finds the arguments its caller meant: from spawn exactly    *)
(* those passed, whatever quotes and blanks they hold; from system the words   *)
(* of the line as its quotes say, with unquoted wildcards expanded; and from a *)
(* program that is not DJGPP's those of its tail, if the transfer buffer moved *)
(* before or once after the tail was put together, and whatever an older call  *)
(* left in the environment: the " !proxy" it follows is its parent's.          *)
ArgsArrive ==
  /\ TypeOK /\ ProxyIsParents
  /\ \A l \in 1..Level : LET p == procs[l] IN
       p.kind \in DjgppKinds /\ Started(p) => p.argv = p.want

(* Every block of DOS memory that dosexec.c allocated is the one tbuf_selector *)
(* names, so that none is lost, on the failing paths either.                   *)
NoBlockLost ==
  dos = {<<l, procs[l].sel>> : l \in {k \in 1..Level : procs[k].sel # 0}}

(* A call of system, spawn, popen or pclose leaves nothing behind, whether it  *)
(* could run its command or not, unless one of the calls that Uses names was   *)
(* refused: when it is over, stdin and stdout are what they were before, no    *)
(* temporary file is left but those of open pipes (and of a popen that could   *)
(* not run its command), and no block of DOS memory is lost.                   *)
NothingLeftBehind ==
  /\ NoBlockLost
  /\ Idle => Me.std = Me.home
  /\ (Level = 1 /\ Idle) => temps = strays \cup {x.name : x \in Me.pipes}

(* What a program printed before it called system never ends up in the file    *)
(* that a command's output is redirected to.                                   *)
OutputInPlace == ~misplaced

(* A program that is not DJGPP's finds the arguments it was spawned with, or   *)
(* its parent's errno says that they were too many.                            *)
CutIsReported ==
  \A l \in 2..Level : LET p == procs[l] IN
    (/\ p.kind \notin DjgppKinds /\ Started(p)
     /\ \A i \in DOMAIN p.want : p.want[i] # <<>> /\ ~HasAny(p.want[i], {"bs"}))
    => (p.argv = p.want \/ procs[l - 1].e2big)

(* An argument of a batch file never makes COMMAND.COM redirect: its           *)
(* characters of redirection are inside quotes as COMMAND.COM counts them,     *)
(* provided that each argument has an even number of double quotes.            *)
EvenQuotes(a) == Len(SelectSeq(a, LAMBDA ch : ch = "dq")) % 2 = 0
BatchArgsSafe ==
  \A l \in 2..Level : LET p == procs[l] IN
    (/\ p.kind = "bat" /\ ~procs[l - 1].in_system /\ ~procs[l - 1].e2big
     /\ \A i \in DOMAIN p.want : EvenQuotes(p.want[i]))
    => ~Redirects(p.text)

(* Programs and shells with other rules than DJGPP's get what was meant, too:  *)
(* a tail that is cut is reported, and the quotes made for COMMAND.COM hide    *)
(* its special characters from it.                                             *)
ForeignArgs == CutIsReported /\ BatchArgsSafe

=============================================================================
