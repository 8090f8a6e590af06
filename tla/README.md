# Verification of the stateful core of djlsr

djlsr is the C library, start-up code, debugger support and tools of DJGPP: 32-bit
protected-mode programs on top of DOS and a DPMI host. DOS is single-threaded, but the
library is not sequential: hardware interrupts arrive between any two instructions, are
turned into signals, and run handlers on top of library code. Below and beside that lie
parts that must survive very long sequences of calls: the allocator, descriptors and
their shared properties, stream buffers, the terminal in both directions, and the
machinery that starts other programs. These are the places where the code is hard to
test, and they are what is modelled here.

Paths are relative to the repository; `libc/` stands for `src/libc/`.

## 1. Inventory

| Component | State it keeps | Operations | What makes it correct |
|---|---|---|---|
| Hardware interrupts as signals (`libc/go32/exceptn.S`, `dpmiexcp.c`, `go32cbrk.c`, `libc/ansi/setjmp`) | one-code latch (`forced`), saved DS limit, chain of exception frames, key and timer handlers, Ctrl-Break count | interrupt handlers, exception entry and return, signal dispatch, longjmp, Ctrl-Break calls | the program always gets its data segment back; the latched code is taken; frames stay chained |
| Segment limit (`libc/crt0/crt0.S`, `libc/pc_hw/nearptr`) | limits of CS and DS, near-pointer flag | sbrk, brk, nearptr enable/disable | the limit covers what sbrk handed out |
| Interrupt vectors (`dpmiexcp.c`) | current and saved owner of each vector | setup, `__djgpp_exception_toggle`, `_exit`; start and stop of the timer | vectors never point into a program that has gone |
| Signal masks (`libc/posix/signal/sigprocm.c`, `sigactio.c`; `signal`, `raise`) | dispositions, mask, pending set, saved handlers | signal, raise, sigprocmask, sigaction | no signal lost; the mask says what is suspended |
| Interval timers (`libc/posix/signal/itimer.c`, `alarm.c`) | expiration and reload times, countdown, hook flag, SIGTIMR handler | setitimer, getitimer, timer_action, tick | an alarm per expiration, on time; SIGTIMR never kills |
| Allocator (`libc/ansi/stdlib/nmalloc.c`) | header links, free lists, `lastsbrk`, chain bases | malloc, calloc, realloc, free, memalign | blocks tile the memory, lists hold exactly the free blocks, data survive realloc |
| Descriptor properties (`libc/dos/io/fd_props.c`) and file system extensions (`libc/fsext`) | objects with reference counts on two lists, handler and context of each descriptor, shared device contexts | open, pipe, dup, dup2, F_DUPFD, seeks, close, exit | counts are exact; properties follow the handle; a temporary file goes with its last user |
| Buffered streams (`libc/ansi/stdio`) | `_cnt`, `_ptr`, `_base`, flags, size of the next read; file and position | fopen, freopen, fclose, setvbuf, getc, fread, putc, fwrite, ungetc, fseek, ftell, rewind, fflush | the buffer is invisible |
| Terminal input (`libc/posix/termios/tmread.c`, `tcsetatr.c`, `tcflush.c`) | keyboard buffer, edit line, ring, modes | cooked and raw reads, editing and echo, signals, attribute changes, flushes | each key is used once, in order; a finished line ends its read |
| Terminal output (`tmwrite.c`, `ttyscrn.c`) | parser state, cursor, colours, blink, screen | write, escape sequences, exit | output means the same however writes cut it; text stays visible |
| Process start and exec (`libc/ansi/stdlib/system.c`, `libc/dos/process/dosexec.c`, `libc/crt0/c1args.c`), popen (`libc/posix/stdio/popen.c`) | transfer buffer, DOS block, `!proxy` and `CMDLINE`, redirected handles, temporary files, list of pipes | system, spawn, exec, popen, pclose; start-up of the child | arguments arrive as meant; nothing is left behind |
| dlopen, uclock, multi-block sbrk, debugger | tables, counters, vectors | see `PROJECT.json` | section 7 |
| Formatting, strings, regex, math, BIOS, tools, documents | none between calls, or hardware | | not modelled |

Interactions. An interrupt handler may touch only locked memory, so it records a code
and shrinks DS to the null page; the program's next access to data faults, and the
exception handler raises the signal. sbrk changes the same limit. setitimer hooks the
tick vector and shares `__djgpp_old_timer` with the toggle of `dpmiexcp.c`.
sigprocmask blocks a signal by putting `sig_suspender` in the table that `raise` reads.
nmalloc gets its memory from sbrk, which anyone else may call too. close asks the
extensions first and then gives up the properties; exit does both for all descriptors.
Streams read and write through `_read`, `_write` and lseek, which share the note that a
seek went past the end. popen calls system, system calls `__djgpp_spawn` with a flag
that changes how arguments are quoted, and the child's start-up code undoes the quoting.

What is hard: interleaving of interrupts with every library instruction; one latch for
all sources; handlers that run in the middle of a loop that rewrites handlers; late
service of ticks; keys that arrive while a line is edited or copied; long sequences of
allocator, descriptor and stream calls; failures half way through a redirection or a
copy; limits of tails, rings and buffers. `PROJECT.json` lists the hazards, each at its
line.

## 2. Modules

| Module | Models | State and actions |
|---|---|---|
| `HwException` | interrupts, faults, signals, limit changes | a program location per instruction that matters; `hw_exception` is the part that `kbd_hdlr`, `npx_hdlr`, `cbrk_hdlr` and `timer_hdlr` share; `Fault` and `exception_handler` take the code; `exception_processor`, `handler_return`, `longjmp_*` nest and unnest frames; `brk_*` are the steps of `brk_common` |
| `Vectors` | ownership of the vectors | each vector belongs to the system or the library; `exception_toggle` is its three parts in order |
| `SigMask` | sigprocmask step by step | `calls` is the stack of its activations, each with loop index, local mask and step; `Interrupt` is a signal at any step |
| `ITimer` | both timers step by step | `stack` holds setitimer and the activations of `timer_action`; `Advance` is the clock, with a tick every TICK units; `slow`, chosen at the start, says whether ticks may come inside the library and DOS may delay the signal |
| `Heap` | what malloc, free and realloc promise | abstract specification: disjoint blocks whose contents survive |
| `NMalloc` | the allocator | every C function is an operator from heap to heap; a call of the program is one step, as the code is not reentrant; refines `Heap` |
| `FdProps` | descriptors | one record `s` for DOS handles, properties, extension tables and lists; calls map records to records; exit is its own loop of steps; `fate` says whether a walk of a damaged list crashed or never ended |
| `Stream` | what stdio promises | abstract specification: a file, a position, bytes pushed back |
| `Stdio` | one stream | one record `s` for the FILE, the descriptor and the disk; each function of the library an operator, each call an action; refines `Stream` |
| `Tty` | what the console promises a reader | abstract specification: typed characters, a line, characters ready, in order |
| `TtyChars` | what characters do in each mode | shared by the two |
| `Termios` | terminal input | the ring (`mem`, `rpos`, `wpos`, `cnt`), the edit line (`buf`, `flag`, `col`), the reader's program counter; `Press` is the keyboard interrupt; refines `Tty` |
| `Screen` | the two screen drivers | scrolls, fills and cursor moves on cells, by words or through the BIOS |
| `Console` | terminal output | `con` is the parser and the screen; `Send*` write a piece, `WriteRest` the part a cut left over (`unwritten`); `goal` is what a reference reading of the commands expects |
| `CommandLine` | the texts of exec | tokens of system, quoting for DJGPP, DOS and COMMAND.COM, the child's parser |
| `Exec` | programs that start programs | `procs` is the stack of programs; `spawn`, `system`, `sys_*`, `popen`, `pclose` run in the one on top; `startup` is the child's; `foreign_exec` stands for programs that are not DJGPP's |

`HwExceptionProofs` (with the theorems about `Vectors`), `SignalProofs` (about `SigMask` and
`ITimer`), `NMallocProofs`, `FdPropsProofs`, `StdioProofs`, `TermiosProofs` and `ExecProofs`
hold the theorems (`TermiosProofs` those of both sides of the terminal, `Termios` and
`Console`), `Loops` lemmas that four of them share; the `MC` modules hold values too large for a `.cfg`. Operators named after
a definition with a suffix and commented "Faulty variant" or "Mutant" are mutations that show that a
property can fail; no specification uses them.

`Uses`. Some legal uses are known to go wrong in the code (section 5). Each has a name,
and the model takes the step only if the name is in the constant `Uses`. The runs leave
them out, so that their properties say what holds for every other program; adding a name
to a `.cfg` shows the flaw as a counterexample.

Abstractions that matter:

* `HwException`: register contents and the traceback are left out. A location stands
  for an instruction that touches data, so it cannot run while DS is the null page.
  `unserved` and `torn` (an interrupt was latched between two instructions that set the
  limit) are history variables. A host that granted a limit once grants it again.
* `Vectors`: the exception vectors that are always exchanged are one vector, the NMI
  vector another. DPMI calls do not fail.
* `SigMask`: signal numbers are `0..SIGMAX-1`, the loop's own range. Handlers are
  `SIG_DFL`, `SIG_IGN`, a function or `sig_suspender`. `owed` is a history variable.
* `ITimer`: uclock is exact, `TICK` units make a tick (65536 uclocks in the code). `due`,
  `early`, `killed` and `stalled` (a distance of zero was taken for "no timer armed",
  `itimer.c:154`) are history variables. The countdown of a stopped timer,
  2^32 - 1 in the code, is `Never`.
* `NMalloc`: addresses and sizes are numbers, data are "what the user stored" or "junk".
  Since `prevfree` overlaps the data, writing it makes the data junk, and writing it
  outside the block ends the behaviour. Words wrap at WORD. `user`, `taken` and `leaked`
  are history variables. `realloc(NULL, n)` is malloc and `free(NULL)` does nothing; both
  are left out as actions.
* `FdProps`: file names are model values. An object is a number; `made` counts those
  that malloc has given, `cached` ones are used again first. The reference count of a
  device context has no bound, as dup2 can leak references.
* `Stdio`: bytes are letters, `FILL` stands for the 512 bytes of a first read and `TB` for
  `__tb_size`, the size of the transfer buffer. A disk of Cap bytes fills up. Bytes that DOS leaves in
  a gap are "garbage".
* `Termios`: characters are names. `shown` is the column at which the echo of the line
  leaves the cursor, counted from the line's start; that of other reads is not counted.
  A character takes one column, a control character echoed as `^X` two; echoed as it is, a
  CR goes to the left edge of the screen, up to `Margin` columns before the line's start, and
  a BS back. Lines do not wrap. Someone types MaxKeys keys. A signal handler returns or leaves
  by longjmp.
* `Console`: a cell is a character. The screen starts with a different character in
  every cell, so that a wrong move shows.
* `Exec`: characters are names, `"sp"`, `"dq"`, `"bs"` and so on. `want` is the argument
  list meant by the caller, from the definitions `WantWords` and `WantArgs`, which read
  quotes once and for the whole way. A program that goes on to call another drops its
  own arguments. `misplaced` and `strays` are history variables. There are as many
  temporary names as `TmpNames` has; a step that needs one waits until one is free
  (`NameLeft`), where tmpnam would go on counting. `Refusals` are the calls of DOS in
  system, popen and pclose that fail only if `Uses` names them. A program that lost a standard
  stream so (`Closed`) makes no further call, and one that used a NULL from fopen is over
  (`"fault"`); the files of both are still seen.

## 3. Runs

States are distinct states.

| Run | Question | Bounds and why they suffice |
|---|---|---|
| `HwLatch` | With interrupts at every instruction and all callers that change the limit: is the program ever locked out of its data, does the frame chain break? Unless an interrupt fell between the instructions that set the limit (`torn = 0`): does a latched code stop the program at once, does the limit cover the heap, are the program's own faults reported as themselves? | two frames (a signal in a handler), one key, two segment sizes; 5.2 million states |
| `HwServe` | Without limit changes: is a latched code always taken, and is a timer event that met a busy latch raised again? | two keys so that codes compete for the latch; fairness below; 571 000 states |
| `Vectors` | Is every vector given back at exit, whatever the order of toggles and timer calls? | 40 operations; the reachable states without the counter are few, so every order is covered |
| `SigMask` | Do mask, handlers and pending set agree between calls? | three real signals, one of them SIGKILL and one ignored by default, three arrivals at any step |
| `SigMaskNested` | Is a signal ever lost, with sigprocmask called from handlers? | two activations; 1.2 million states |
| `ITimer` | On fast systems: does every expiration raise one alarm and, unless the code took a timer due at once for none (`stalled`), in time, and is an armed timer hooked? On slow ones: can SIGTIMR meet its default action? | two units per tick give times on, before and after a tick; ten units of time, two setitimer calls, intervals of none, one tick and one and a half, two nested activations of timer_action; 10.5 million states |
| `NMalloc` | Do links, lists, sizes and the promise of `Heap` survive every sequence of calls? | real ALIGN and DATAOFFSET; MINSBRK and the address space reduced so that sbrk is called, fails, and finds the break moved and misaligned by others; three live blocks so that a block has two free neighbours. Every branch of nmalloc and nrealloc is reached |
| `FdProps` | Are counts, names and device contexts right after any calls, and does a temporary file go with its last user? | four handles, two names, three objects, malloc failing, five calls and then exit; 1.3 million states |
| `Stdio` | Can a program tell the stream from an unbuffered file? | five calls after the stream is set up, in every mode and kind of buffering; a buffer of two bytes and a file of five, so that reads and writes meet its ends; a disk of six; 615 000 states |
| `Termios` | Do ring and edit line act as the terminal of `Tty`? Does the echo follow the line? Does a finished line end its read? | a line of two, a ring of three and a keyboard buffer of two, so that each fills up; four keys out of eight kinds; three sets of attributes, cooked with `^X` for control characters, cooked without, and raw; one column before the line's start (`Margin`); 858 000 states |
| `Console` | Do any two pieces of output, each cut anywhere, do what their commands say? | four columns and three rows, from every cursor position, both drivers, about ninety commands, in range and beyond the edges; 317 000 states |
| `Exec` | Do arguments arrive, and what do failed and nested calls leave behind? | three programs deep, two programs started, one pipe of popen; tails of 11 and CMDLINE of 12 characters with arguments just longer; every word of up to two characters of letters, blanks, quotes and backslash, bare and in quotes; 710 000 states |

Type invariants. `TypeOK` of `HwException`, `MaskTypeOK` and `VectorsTypeOK` are proved for all
values of the constants; in the other modules it is a conjunct of the invariant that
depends on it most (`NoTimerKill`, `HeapSound`, `RefCountsExact`, `InsideBuffer`,
`ActsAsTty`, `WritesAsMeant`, `ArgsArrive`), and proved with it in `ITimer`, `NMalloc`,
`FdProps`, `Stdio` and `Termios`. `HeapSound`, `RequestsMet`,
`NothingLeftBehind` and `ForeignArgs` are conjunctions of named parts.

Restrictions. `SigMask` takes programs whose handlers do not call sigprocmask and which
call signal() only on signals that are not blocked; `SigMaskNested` programs that make
no sigaction query. `Vectors` takes programs that start and stop timers outside toggled
blocks. The properties of `ITimer` that assume `~slow` fail on slow systems. `EchoFollowsLine`
is said of attributes that echo control characters as `^X` or echo nothing (`Carets`). The
run `Exec` has `Uses = {}`: DOS refuses none of the `Refusals`. Section 5 says what happens
otherwise.

Deadlock is not checked in any run: a program may exit, and the bounds on interrupts,
calls and time end every behaviour.

### Refinement

* `NMalloc` implements `Heap` (`KeepsPromise`): the live blocks are the program's
  pointers, intact while the data are the user's.
* `Stdio` implements `Stream` (`ActsAsStream`): the file is the disk with the unwritten
  bytes of the buffer laid over it, the position is that of the descriptor less what was
  read ahead, and pushed-back bytes are those of the buffer that differ from the file.
* `Termios` implements `Tty` (`ActsAsTty`): the typed characters are the keyboard buffer
  and the rest of an extended key, the line and the ready characters are the edit line
  and the ring read from `rpos`.

### Fairness

`HwServe` (`FairSpec`): weak fairness of the steps of fault handling, of signal handlers
and of DOS calls says that the processor executes the program and that handlers and DOS
return. Strong fairness of "the tick finds the latch idle" is the one real assumption:
the tick is periodic and independent of the program, and does not hit the few
instructions in which the latch is busy every single time. Keys get no fairness: nobody
has to press them again. `Termios`: weak fairness of the reader's own steps, which the
processor executes while it waits in a read; nothing is assumed of the person typing or
of the program between reads.

## 4. Proofs

All theorems hold for every value of the constants that satisfies the named ASSUMEs.

In each module the theorems rest on one inductive invariant, or on one per set of
assumptions; a lemma per action shows that it is kept.

* `HwExceptionProofs`. `TypeCorrect`, `NeverLockedOut` and `StatePtrAlwaysLive` come from
  `TypeOK /\ NotLockedOut /\ Nesting`. `StatePtrLive` alone is not inductive: a longjmp
  restores pointer and depth from a jmp_buf, so `Nesting` adds that a usable jmp_buf names
  frames still on the stack and that locations inside exception processing have a frame
  under them. `FlaggedAlwaysStops`, `LimitAlwaysCovers` and the action property
  `RealFaultsReported` come from `LimitInv`: as long as no interrupt was latched inside the
  instructions that set the limit, the limit in force once the latch is taken
  (`EffectiveLimit`: the saved one while a code is latched, that of DS otherwise) covers
  the break outside the two instructions of brk that set it, it is the far limit while the
  near-pointer flag makes sbrk leave it alone, and no frame was interrupted inside those
  instructions.
  The theorems about `Vectors`, the other half of `dpmiexcp.c`, follow in the same module,
  which extends both: so `Vectors` calls its initial predicate, next-state relation,
  specification and type invariant `exception_setup`, `VectorsNext`, `VectorsSpec` and
  `VectorsTypeOK`. `HandlersAlwaysPaired` (each vector and its saved value are owned by
  opposite sides, according to the parity of toggles) gives `VectorsTypeCorrect` and
  `ExitAlwaysRestores`. `TimerAlwaysRestored`, `BlocksAlwaysToggled` and
  `NeverChainsToItself` assume that timers are left alone in toggled blocks and add
  `Hooked` and `TimerSaved`: who owns the tick vector and its saved value follows from the
  hook flag and the parity.
* `SignalProofs`, about `SigMask`. `TypeCorrect`; `NeverLost`, assuming no sigaction query, for any
  nesting of handlers; `MaskAlwaysKept`, `HandlersAlwaysBack` and `PendingAlwaysBlocked`,
  assuming neither nested calls nor signal() on blocked signals. The invariant `OneCall`
  describes the middle of the loop: signals below the index agree with the new mask, those
  above it with the old one, and the one at the index with the step reached.
* `SignalProofs`, about `ITimer`. `NeverKilled` (and the types) holds on slow systems too. `Ordered`
  describes the stack: setitimer is at the bottom, `timer_action` above it, and SIGTIMR has
  its handler wherever a tick can raise it. `AlarmsAnswerExpirations` is for systems that
  serve each tick in time; `One` says that there `timer_action` is alone on the stack, that
  what it has still to look at is untouched, and that an alarm it decides on is due.
  `AlarmsOnTime` and `AlwaysHookedWhileArmed` add `InTime`, which ties the countdown to the
  times: between calls the count is the number of ticks, rounded up, to the nearest
  expiration, and none is overdue by a whole tick. It holds until the code takes a timer
  due at once for none (`stalled`).
* `NMallocProofs`. `HeapAlwaysSound` (and the types), `NothingEverLeaked`,
  `RequestsAlwaysMet` and `ImplementsHeap`, the refinement of `Heap`, hold for every
  alignment, header size, number of free lists, least chunk and size of the address space,
  after any number of calls, with sbrk failing or its break moved by others. Two
  assumptions limit them. `NMallocAssumption` says what the code's constants are: ALIGN is
  a power of two (2^2 to 2^16), the header a multiple of it, the word has one bit per list, and sbrk
  stays below half of the address space, as DJGPP's does; a larger block would have no
  list. `RequestsAssumption` leaves out sizes whose rounding up wraps, which the code does
  not check (section 5). `free` and `realloc` are called with pointers the program holds;
  and, as in the model, a behaviour ends when a bare header is put in a list.
  The invariant `IInv` says that there is a set F of free blocks for which the heap is
  `Whole`: the blocks are F, those the program holds, those given up and `lastsbrk`, all
  different (`Owned`); links between neighbours are mutual and tile the memory (`Chained`);
  the lists link F both ways, each block in the list of its size (`Linked`), and a rank
  falls along each list (`Ranked`), so that none is a cycle; neighbours in F are merged
  (`Merged`); and `sbrkbgn` has the base of every chain, as far as it has room
  (`Findable`). F is not defined by following the lists, which would need induction over
  data: the rank replaces it, and `ListsOf` derives from it, with the turns of `Loops`,
  that following a list from its header meets the blocks of F and ends. Each C function
  has a lemma saying what it does to a heap with some blocks taken out of it, the set X
  of `Body`: `extractfree` takes one out, `combinehi` and `combinelo` merge two of them,
  `split` adds one, `mv2freelist` puts one back; nmalloc, nfree, nrealloc and nmemalign
  compose them. Every function also keeps the sizes and data of the blocks it was not
  given (`Keep`), which is what the refinement rests on. TLC checked `IInv` on the states
  of the run `NMalloc`.
* `FdPropsProofs`. `CountsAlwaysExact` (and the types), `NamesAlwaysAgree` and
  `ContextsAlwaysAlive` hold for any number of descriptors, objects, names and calls, exit
  included, and whatever remove_list has done to the lists. The invariant `Good` has four
  parts: `Backed`, a device context has a reference for each descriptor that points to it;
  and, until a walk of a damaged list faults, `Counted`, the count of an object is the
  cardinality of the set of descriptors that have it; `Fresh`, no descriptor has an object
  that is cached or was never allocated; and `NamedAt`. `Fresh`
  is what the counts need, since alloc_fd_properties sets the count to one whatever it
  was. That the handle DOS returns is the lowest free one is used as its definition says,
  and that such a handle exists comes from the least-element principle of the natural
  numbers (`LowestIn`). `TempAlwaysGoesLast` is an action property under the same
  invariant. The walk of find_eq_filename is a recursive function on its turns
  (`VisitedTurns`, from `Loops`); on an intact list (`Listed`) it ends, at another object
  of the same name that a descriptor has or at NULL when there is none (`FindsUser`). Calls
  that close nothing only add to descriptors, files and duties (`Grows`); those that close
  a descriptor take at most the file it has, and on an intact list only with its last user
  (`Loses`); dup2, F_DUPFD and pipe compose the two. The theorem shows more than the
  property: a duty to delete is never lost, also by calls that leave the users as they are.
* `StdioProofs`. `StaysInsideBuffer` (and the types) and `NeverGarbage` hold for every file,
  buffer, disk and number of calls of a program that makes none of `Misuses`: ungetc before
  anything was read, fwrite that turns a line buffered update stream around, and ftell with
  a line waiting. TLC shows that the first property fails when `ftell_line` is allowed; the
  other names of `Uses` are allowed by the theorems. The invariant `Inv` says of a closed
  stream that it is as `fclose` leaves it and of an open one that it is `Sound`: what is
  buffered goes with the buffer's kind (`Kinds`), with the direction (`Directed`) and with
  what C allows next (`Drained`: an update stream that may be written has nothing read
  ahead); a position behind the end of the file is always noted as a gap (`Filed`). The
  counts that getc and putc take below zero are bounded by the number of calls (`Counted`).
  The loops of fread, fwrite and Grow are recursive functions, treated with the lemmas of
  `Loops`. For fread the turns also show that the loop ends: a turn either finishes it
  or lowers what is still wanted.
* `Loops`. `RunExists` shows that the function a loop defines exists and `TurnByTurn` is
  induction over its turns, both from the least-element principle with a set in place of a
  predicate, which the provers can instantiate (`LeastIn`).
* `TermiosProofs`. `ConsoleIsTty` is the refinement of `Tty` (and the types), `EchoInStep`
  an action property of editing; both for every size of ring, line and keyboard buffer
  and any number of keys. The refinement is proved for every choice of attributes,
  `EchoInStep` for those with `Carets` (ECHO only with ECHOCTL, and no OCRNL under OPOST)
  and with whole lines rubbed out (ECHOKE without ECHOK); with others an echoed CR is not
  where the erase looks for it (section 5). They assume `PlainInput`: no blank and
  no NUL is typed, and no attributes turn ^C into a NUL (ISIG with neither IGNBRK nor
  BRKINT), since a NUL makes the edit line wait for a character that never comes (section
  5). The run's constants satisfy it. The invariant `Inv` has a part for each piece of
  state: the two positions of the ring differ by its count (`RingInv`); every position of
  the line is settled (`EditInv`); the rest of a key's string exists only inside fill_queue
  (`ExtInv`); and where the reader is goes with the modes, with the queue and with what is
  wanted, also while a signal handler runs (`PcInv`). That a line is edited only while the
  queue is empty is what lets a finished line fit the ring, so that `puts_queue` loses
  nothing. The typed characters (`Spelled`), the ring read from `rpos` and the columns of a
  line (`Width`) each get lemmas for taking the first and adding a last one. TLC checked
  `Inv` on the states of the run `Termios` before it was proved.
  The second half is about `Console`, for every size of screen and either driver.
  `VideoAlwaysRestored` needs no more than the assumption on `Commands` that a parameter is
  below 100 and a command has at most NPAR of them (the code counts neither, section 5);
  `TextAlwaysVisible` assumes that no command reverses the colours (`"reverse" \notin
  Uses`), after which a bright background may not blink. `ParserAlwaysRests` is the part of
  `WritesAsMeant` that is not about the screen. The invariant `ConsoleInv` says where the
  parser is relative to the bytes still to be written (`Ahead`): inside a command (`Follows`)
  the parameters read and the bytes to come make up the command, a number cut between its
  digits included; inside a broken one (`Breaks`) its end is to come; else the parser rests.
  That is why each command gets its own parameters wherever a write cuts it, without which
  `TextVisible` could not be told of the renditions sent. With it goes `Sound`: the library's
  note of the blinking is what the adapter does (`Noted`), a bright background is one that
  blinks (`Coloured`) and the text differs from it. The drivers are shown to leave parser and
  colours alone (`Shown`), whatever they do to the cells. The bytes of a write, the
  parameters of SGR and the blanks of a tab are recursive functions on their turns, treated
  with the lemmas of `Loops`. The three conclusions were checked by TLC on the run `Console`.
* `ExecProofs`. `AlwaysNothingLeftBehind` and `AlwaysOutputInPlace` hold for every depth of
  programs and every set of programs, command lines and arguments, whether the memory, the
  program, the shell or the file a command needs is there or not. They assume `Uses = {}`:
  DOS refuses neither to duplicate a handle that system or pclose saves, nor to put one back,
  nor to open the temporary file of a pipe. Where it does, the code leaves a stream closed or
  redirected, or a file behind (section 5). The invariant `IInv` says of the stack of programs
  that all but the one on top wait in `"child"` (`Waiting`); of each program that stdin and
  stdout are what its pipes make of them (`Expected`) unless a command of system is
  redirected, and then the ones to go back to are saved and what was held in the buffer of
  stdout has been flushed (`HandlesOK`); that each temporary file is owed by exactly one
  program, and for one reason (an open pipe, the call of popen or pclose it is in, an end
  of a pipe of system, a shell's script), or is a stray that popen gave up (`OneReason`,
  `FilesOK`); and that the blocks of DOS memory are those the programs' `tbuf_selector`s
  name (`BlocksOK`). None of the properties is inductive: that the streams come back depends
  on what was saved before a program three levels up was started. Steps are of four kinds,
  each with a lemma that says what is left to show of the program on top: those that keep
  the stack (`TopStep`, and `CalmStep` for those that touch no file), those that start a
  program (`PushStep`) and its exit (`FilesPop`); `tmpnam` gives a name that nobody owes.
  What the command lines say is not used, so the loops over texts play no part. TLC checked
  `IInv` on the states of the run `Exec`.

Only model-checked:

* liveness (`PendingIsDelivered`, `TimerServed`, `LineEndsRead`), as the prover has no
  rules for fairness;
* `ArgsArrive` and `ForeignArgs` of `Exec`: that a text read back is the text that was
  written is induction over texts;
* what `Console` puts on the screen (the rest of `WritesAsMeant`): that the scrolls and fills
  of two drivers, recursive functions over cells, agree with the reference reading;
* the refinement of `Stream` by `Stdio`: what a read returns is put together over the turns
  of fread, and the file with the buffer laid over it is compared byte by byte.

## 5. Where code and documents disagree

Met while modelling. The runs leave these uses out (the constant that would let them in
is named), so that what the properties say holds of all other uses. File names are those
under `src/src/libc`.

Signals, timers, vectors:

* `crt0.S:600`: sbrk sets the DS limit after an interrupt has shrunk it, so the fault that
  should raise the signal does not come (`dpmiexcp.txh:249`; the state `torn = 1`). A
  longjmp out of the middle of a change of the limit leaves a limit that is out of date.
* `exceptn.S:464`: a key signal that finds the latch busy is dropped (`dpmiexcp.txh:249`).
* `go32cbrk.c:29`: a Ctrl-Break between the read and the reset of the count is forgotten.
* `sigprocm.c:94`: a call from a handler run inside sigprocmask overwrites the mask of the
  outer call (`sigprocm.txh:26`; `SigMask`, nested calls).
* `dpmiexcp.c:300`: signal() on a blocked signal removes the block (`sigprocm.txh:18`;
  `Uses` with `"resignal"` violates `BlockedIsSuspended`).
* `sigactio.c:13`: sigaction used as a query sets SIG_IGN for a moment (`sigactio.txh:34`;
  `Uses` with `"query"` violates `NoSignalLost`).
* `dpmiexcp.c:669`: a timer first hooked in a toggled block survives exit
  (`docs/kb/wc202.txi:454`; `TimerWhenToggled = TRUE` violates `ExitRestoresTimer`).
* `itimer.c:132`, `:61`, `:154`: on a slow system two alarms come for one expiration
  (`itimer.txh:84`), getitimer returns a negative time (`itimer.txh:18`), and a distance of
  zero stops an armed timer (comment at `itimer.c:163`). The last needs no slow system: a
  timer due at the very moment the clock is read is enough (`stalled`).

Memory:

* `nmalloc.c:380`: a request close to the word size wraps round and gets a small block
  (`nmalloc.txh:17`; `Requests` with `WORD - 1`).
* `nmalloc.c:688`: a rest that is a bare header goes on a free list, and its links are
  written outside it (comments at `:213`, `:1097`).
* `nmalloc.c:1157`: memalign can return NULL and keep the block (`memalign.txh:19`).

Descriptors:

* `fd_props.c:209`: remove_list clears the links before it uses them (comment at `:56`). A
  removal from the middle cuts the list, and a later search crashes or never ends; when
  the list is lost exit_cleanup (comment at `:224`) removes no temporary file.
* `llseek.c:70`: a seek on a handle without properties makes an object without a name.
* dup and dup2 never call the handlers `fsext.txh:127-135` promises. dup copies the handler
  and not its data, so that close fails with EBADF; `dup2.c:23` leaks the context of a
  device it closes; fse_zero leaks its descriptor when malloc fails and its close leaves
  the result unset.

Streams (`Stdio`, names of `Uses`):

* `fwrite.c:39`: a line-buffered update stream is not marked as written, so fflush and
  fclose drop its data (`fflush.txh:13-14`; `line_update`).
* `flush_read` (comment at `filbuf.c:21`), `unget_empty`, `ftell_line` (`ftell.c:26`),
  `ftell_append`, `flush_input`, `seek_append`: position or data are wrong after these.
* rewind forgets a write error; with a stale fill size `filbuf.c:83` reads zero bytes and
  reports the end of the file.
* popen and pclose (`popen.txh`; names of `Uses` in `Exec`, of which the first three
  violate `NothingLeftBehind`). `freopen_fails`: a refused freopen (`popen.c:109`, `:209`)
  leaves the standard stream closed and the saved descriptor open, in pclose the
  temporary file too. `dup_fails`: when pclose cannot save stdin (`:205`) the temporary
  file stays. `dup2_fails`: when the saved handle cannot be put back, popen (`:127`) leaves
  stdout in the temporary file and pclose (`:228`) leaves stdin closed. `fopen_fails`: the
  result of fopen is not checked (`:151-154`), and the NULL ends the program. When system
  fails inside popen the temporary file stays (`strays`).

Terminal and screen:

* `tmread.c:566`: a blank typed with Ctrl becomes NUL, after which RET does not end the line
  (`tcsetatr.txh:57-59`); the run types no blank. `tmread.c:586-596`: a change of attributes
  after ^C gives two SIGINTs or none. A longjmp from the handler leaves half a line.
  `getxkstr.c:186` is off by one.
* `tmread.c:812`: without ECHOCTL a control character of the line is echoed as it is, so a
  CR moves the cursor to column 0 and a BS back; with OCRNL (`:792`) an echoed CR only moves
  it down. Erasing takes one column, or two, for each all the same, and rubs out what stood
  before the line (without `Carets` the run `Termios` shows it).
* `Console`, names of `Uses`: `edge` (`tmwrite.c:705`), `insert_line`, `insert_char`,
  `delete_line`, `erase_char`, `erase_above`, `reverse` and `colour_edge` do not do what the
  sequence means on an ANSI terminal. `tmwrite.c:562`: SGR 2 falls through to bright. An
  empty first parameter is swallowed. `tmwrite.c:324`: parameters are not counted against
  NPAR.

Programs and command lines:

* `dosexec.c:809`: the terminator of a cut tail is written one past the end; a cut tail still
  runs, with errno E2BIG. `dosexec.c:1149`: the space set aside for an argument is too small
  for very short quoted ones. The size go32_exec asks for has a precedence slip
  (`found_si ? len : 0 + ...`). `dosexec.c:406` misses a move of the transfer block when a
  freed selector number comes back.
* Empty arguments vanish for programs not built with this library; an argument with blanks
  that ends in a backslash breaks its closing quote; a double quote in an argument of a
  batch file turns the quoting of later ones; `__unquote` drops the other kind of quote; a
  quoted `@file` is still expanded; names with blanks in system mode are cut by the child.
* `system.c:784`: when dup fails the standard streams stay redirected (also `dup_fails`). The
  result of an earlier command stops the later ones of `;` and `|`. A parenthesis in the
  middle of a pipe leaves the temporary file and runs commands twice (a FIXME). The shell's
  own output may overtake text still buffered.

## 6. Not modelled

`PROJECT.json` gives the reason for each component. Most lines of the repository are
outside this development: the assembler, the floating-point emulator and the mathematics
are numeric and sequential; regular expressions and several string functions are third-party;
the debugger's screens, the document tools and the utilities are user interface and text
handling; BIOS and hardware access have their state in the machine. So the share of lines
mapped is modest, and what is mapped is the code in which state outlives a call.

In the components that are modelled, these are left out:

* signals: the stack switch of a stack fault, the traceback, the choice of signal keys,
  sa_mask and sa_flags, sigsuspend, failing DPMI calls, changes of the tick's length;
* allocator: hooks and debugging variants;
* descriptors: failures of _truename, share modes, malloc failing for the first table and the
  extension table's growth (`fd_props.c:74`, `fsext.c:99`);
* streams: malloc failing in setvbuf (`setvbuf.c:22`), text mode, terminals, string streams, directories, read errors, formatting;
* terminal: the SUSP subshell, handles other than the console, speeds, tcflow;
* screen: the colours of cells, DOS/V refresh, the bell, echo through puts and putch;
* programs: several moves of the transfer block inside one direct_exec_tail (one is modelled),
  the search along PATH, unstubbed images and other extenders' stubs,
  `__system_flags` other than the one for several commands, parentheses, the built-in cd,
  files of find -print0, the workaround for leaked descriptors.

## 7. Plan

Proofs next: the refinement of `Stream` by `Stdio` for the calls that do not loop; what
erasing and scrolling do to the cells of `Screen`. Models after that: dlopen and its dependents, uclock's midnight,
sbrk in several blocks under `NMalloc`, and the debugger's exchange of vectors.
