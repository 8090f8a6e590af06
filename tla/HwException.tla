----------------------------- MODULE HwException -----------------------------
(***************************************************************************)
(* Asynchronous signals of a protected-mode program (go32/exceptn.S,       *)
(* go32/dpmiexcp.c, go32/go32cbrk.c, with the DS limit changes of          *)
(* crt0/crt0.S and pc_hw/nearptr).                                         *)
(*                                                                         *)
(* A hardware interrupt handler may not call a signal handler.  Instead    *)
(* __djgpp_hw_exception records one code in `forced', remembers the limit  *)
(* of the data segment in `ds_limit' and shrinks the segment to the null   *)
(* page, so that the program faults at its next access to data.  The       *)
(* exception handler then restores the limit, replaces the number of the   *)
(* fault by the recorded code and lets __djgpp_exception_processor raise   *)
(* the signal on the program's own stack.                                  *)
(*                                                                         *)
(* The hardware and the program interleave; a program location is named    *)
(* for the instruction about to execute, and an instruction that touches   *)
(* data cannot execute while the limit is the null page.                   *)
(***************************************************************************)
EXTENDS Integers, Sequences

CONSTANTS
  RealExceptions, \* processor exceptions the program may cause
  MaxLimit,       \* bound: data segment sizes sbrk can reach are 1..MaxLimit
  MaxDepth,       \* bound: nested exception frames
  MaxKeys,        \* bound: keyboard and coprocessor interrupts in a behaviour
  MaxCountdown,   \* bound: ticks between two timer events
  SetSigs,        \* signals whose handlers the program changes
  Changers        \* which callers of "set segment limit" the program uses

EXCEPTION_COUNT == 18

ASSUME BoundsAssumption ==
  /\ MaxLimit \in Nat \ {0}
  /\ MaxDepth \in Nat \ {0}
  /\ MaxKeys \in Nat
  /\ MaxCountdown \in Nat
ASSUME RealAssumption == RealExceptions \subseteq 0..(EXCEPTION_COUNT - 1)
ASSUME ChangersAssumption == Changers \subseteq {"sbrk", "nearptr"}

\* The codes hard-wired in exceptn.S for converted hardware interrupts.
NPX == 117    \* 75h
TIMER == 120  \* 78h
INTR == 121   \* 79h
QUIT == 122   \* 7Ah
BREAK == 27   \* 1Bh
Codes == {NPX, TIMER, INTR, QUIT, BREAK}

Sigs == {"SIGSEGV", "SIGFPE", "SIGTRAP", "SIGNOFP", "SIGTIMR", "SIGINT",
         "SIGQUIT", "SIGILL"}

except_to_sig(excep) ==
  CASE excep \in {5, 8, 9, 11, 12, 13, 14} -> "SIGSEGV"
    [] excep \in {0, 4, 16, NPX} -> "SIGFPE"
    [] excep \in {1, 3} -> "SIGTRAP"
    [] excep = 7 -> "SIGNOFP"
    [] excep = TIMER -> "SIGTIMR"
    [] excep \in {INTR, BREAK} -> "SIGINT"
    [] excep = QUIT -> "SIGQUIT"
    [] OTHER -> "SIGILL"

ASSUME SetSigsAssumption == SetSigs \subseteq Sigs

Handlers == {"SIG_DFL", "SIG_IGN", "function"}

NullPage == 0            \* the 4K limit that makes DS, ES and SS unusable
FarLimit == MaxLimit + 1 \* the 4G limit of __djgpp_nearptr_enable
Limits == 0..FarLimit

PCs == {"user", "dos", "saving", "processor", "handler", "raised", "exited",
        "b_resize", "b_store", "b_cs", "b_ds", "b_alias",
        "n_set", "n_get", "n_clr", "n_flag", "c_zero"}

\* Locations whose next instruction touches data.
Touching == PCs \ {"dos", "saving", "exited", "b_resize", "b_ds", "n_set",
                   "n_clr"}

\* Locations in sbrk and the nearptr calls from which the limit is still to be
\* brought in line with __djgpp_selector_limit and the flag.
Setting == {"b_cs", "b_ds", "n_set", "n_get", "n_clr", "n_flag"}

VARIABLES
  forced,              \* the latch: code 0 is none; inuse while a fault is saved
  limit,               \* limit of the data segment, kept by the DPMI host
  ds_limit,            \* limit to restore when the fake exception is taken
  selector_limit,      \* __djgpp_selector_limit, the size sbrk has reached
  nearptr,             \* _CRT0_FLAG_NEARPTR
  signal_list,         \* handler of every signal
  frames,              \* exception states copied to the program's stack
  exception_state_ptr, \* index of the current one, 0 for NULL
  pc,                  \* next instruction of the running context
  jmpbuf,              \* the program's jmp_buf
  hwint_flags,         \* bit 1: no keyboard signals; bit 2: count Ctrl-Break
  cbrk_count,          \* __djgpp_cbrk_count
  cnt,                 \* the local of _go32_was_ctrl_break_hit
  countdown,           \* __djgpp_timer_countdown
  unserved,            \* history: codes raised by hardware, not yet dispatched
  torn,                \* history: 1 once an interrupt was latched at a location in Setting
  keys                 \* keyboard and coprocessor interrupts still to come

latch == <<forced, limit, ds_limit, unserved, torn>>
stack == <<frames, exception_state_ptr, jmpbuf>>
brk   == <<hwint_flags, cbrk_count, cnt>>
hw    == <<brk, countdown, keys>>
seg   == <<selector_limit, nearptr>>
vars  == <<latch, stack, hw, seg, signal_list, pc>>

Idle == [code |-> 0, inuse |-> 0]
NoJmp == [depth |-> 0, ptr |-> 0, pc |-> "unset"]
Frame == [excepno : Nat, pc : PCs, prev : Nat]

TypeOK ==
  /\ forced \in [code : Codes \cup {0}, inuse : {0, 1}]
  /\ limit \in Limits
  /\ ds_limit \in Limits
  /\ selector_limit \in 1..MaxLimit
  /\ nearptr \in {0, 1}
  /\ signal_list \in [Sigs -> Handlers]
  /\ frames \in Seq(Frame)
  /\ Len(frames) <= MaxDepth
  /\ exception_state_ptr \in Nat
  /\ pc \in PCs
  /\ jmpbuf \in [depth : Nat, ptr : Nat, pc : {"unset", "user", "handler"}]
  /\ hwint_flags \in SUBSET {1, 2}
  /\ cbrk_count \in Nat
  /\ cnt \in Nat
  /\ countdown \in 0..MaxCountdown
  /\ unserved \in SUBSET Codes
  /\ torn \in {0, 1}
  /\ keys \in 0..MaxKeys

Init ==
  /\ forced = Idle
  /\ limit = 1
  /\ ds_limit = 0
  /\ selector_limit = 1
  /\ nearptr = 0
  /\ signal_list = [s \in Sigs |-> "SIG_DFL"]
  /\ frames = << >>
  /\ exception_state_ptr = 0
  /\ pc = "user"
  /\ jmpbuf = NoJmp
  /\ hwint_flags = {}
  /\ cbrk_count = 0
  /\ cnt = 0
  /\ countdown = MaxCountdown
  /\ unserved = {}
  /\ torn = 0
  /\ keys = MaxKeys

-----------------------------------------------------------------------------
(* The hardware.  Interrupts are off around the resize of the memory block *)
(* in sbrk.  While a fault is saved they are expected to be off, but the   *)
(* flag "in use" is there for hosts that let them in, and so does the      *)
(* model.  No interrupt comes while the frames are at their bound.         *)

InterruptsOn == pc \notin {"b_resize", "exited"} /\ Len(frames) < MaxDepth

\* Faulty variant: the test "Already flagged?" is dropped.
hw_exception_unflagged(c) ==
  /\ unserved' = unserved \cup {c}
  /\ ds_limit' = limit
  /\ forced' = [code |-> c, inuse |-> 0]
  /\ limit' = NullPage
  /\ torn' = IF pc \in Setting THEN 1 ELSE torn

hw_exception(c) ==
  /\ unserved' = unserved \cup {c}
  /\ \/ forced # Idle /\ UNCHANGED <<forced, limit, ds_limit, torn>>
     \/ /\ forced = Idle
        /\ ds_limit' = limit
        /\ forced' = [code |-> c, inuse |-> 0]
        /\ limit' = NullPage
        /\ torn' = IF pc \in Setting THEN 1 ELSE torn

Key == InterruptsOn /\ keys > 0 /\ keys' = keys - 1

kbd_hdlr ==
  /\ Key
  /\ 1 \notin hwint_flags
  /\ \E c \in {INTR, QUIT} : hw_exception(c)
  /\ UNCHANGED <<stack, brk, countdown, seg, signal_list, pc>>

npx_hdlr ==
  /\ Key
  /\ hw_exception(NPX)
  /\ UNCHANGED <<stack, brk, countdown, seg, signal_list, pc>>

cbrk_hdlr ==
  /\ Key
  /\ \/ 2 \notin hwint_flags /\ hw_exception(BREAK) /\ UNCHANGED cbrk_count
     \/ 2 \in hwint_flags /\ cbrk_count' = cbrk_count + 1 /\ UNCHANGED latch
  /\ UNCHANGED <<stack, hwint_flags, cnt, countdown, seg, signal_list, pc>>

timer_hdlr ==
  /\ InterruptsOn
  /\ \/ countdown = 0 /\ hw_exception(TIMER) /\ UNCHANGED countdown
     \/ countdown > 0 /\ countdown' = countdown - 1 /\ UNCHANGED latch
  /\ UNCHANGED <<stack, brk, keys, seg, signal_list, pc>>

-----------------------------------------------------------------------------
(* The exception handler and the processor.                                *)

PushFrame(excepno) ==
  /\ unserved' = unserved \ {excepno}
  /\ frames' = Append(frames, [excepno |-> excepno, pc |-> pc,
                               prev |-> exception_state_ptr])
  /\ exception_state_ptr' = Len(frames) + 1
  /\ pc' = "saving"
  /\ UNCHANGED <<ds_limit, torn, jmpbuf, hw, seg, signal_list>>

\* Faulty variant: the limit is not put back.
exception_handler_no_fix(n) ==
  /\ forced' = [code |-> 0, inuse |-> 1]
  /\ PushFrame(IF forced.code # 0 THEN forced.code ELSE n)
  /\ UNCHANGED limit

\* Faulty variant: the flag "in use" is set and the code is not cleared.
exception_handler_keeps_code(n) ==
  /\ limit' = IF forced.code # 0 THEN ds_limit ELSE limit
  /\ forced' = [forced EXCEPT !.inuse = 1]
  /\ PushFrame(IF forced.code # 0 THEN forced.code ELSE n)

exception_handler(n) ==
  /\ limit' = IF forced.code # 0 THEN ds_limit ELSE limit \* limitFix
  /\ forced' = [code |-> 0, inuse |-> 1]
  /\ PushFrame(IF forced.code # 0 THEN forced.code ELSE n)

\* The next access to data faults, because the segment is the null page.
Fault ==
  /\ pc \in Touching
  /\ limit = NullPage
  /\ Len(frames) < MaxDepth
  /\ exception_handler(13)

\* The program itself divides by zero, dereferences a bad pointer, ...
RealException ==
  /\ pc \in {"user", "handler"}
  /\ Len(frames) < MaxDepth
  /\ \E n \in RealExceptions : exception_handler(n)

\* Faulty variant: the flag "in use" stays set.
exception_return_in_use ==
  /\ pc = "saving"
  /\ pc' = "processor"
  /\ UNCHANGED <<latch, stack, hw, seg, signal_list>>

exception_return ==
  /\ pc = "saving"
  /\ forced' = [forced EXCEPT !.inuse = 0]
  /\ pc' = "processor"
  /\ UNCHANGED <<limit, ds_limit, unserved, torn, stack, hw, seg, signal_list>>

CanTouch == limit # NullPage
Cur == frames[exception_state_ptr] \* __djgpp_exception_state

raise(sig) ==
  LET temp == signal_list[sig]
  IN  pc' = IF temp = "SIG_IGN" \/ (sig = "SIGQUIT" /\ temp = "SIG_DFL")
              THEN "raised"
              ELSE IF temp = "SIG_DFL" THEN "exited" ELSE "handler"

exception_processor ==
  /\ pc = "processor"
  /\ CanTouch
  /\ raise(except_to_sig(Cur.excepno))
  /\ UNCHANGED <<latch, stack, hw, seg, signal_list>>

\* A SIGTIMR handler (itimer.c) sets the countdown before it returns or jumps.
Reload == IF Cur.excepno = TIMER THEN countdown' \in 0..MaxCountdown
                                 ELSE UNCHANGED countdown

handler_return ==
  /\ pc = "handler"
  /\ CanTouch
  /\ Reload
  /\ pc' = "raised"
  /\ UNCHANGED <<latch, stack, brk, keys, seg, signal_list>>

\* A jmp_buf filled in by a function that has since returned is unusable.
Unwind(d) == jmpbuf' = IF jmpbuf.depth > d THEN NoJmp ELSE jmpbuf

\* Faulty variant: the exception pointer of the jmp_buf is not popped.
longjmp_resume_keeps_ptr ==
  /\ pc = "raised"
  /\ CanTouch
  /\ Cur.excepno >= EXCEPTION_COUNT
  /\ frames' = SubSeq(frames, 1, exception_state_ptr - 1)
  /\ Unwind(exception_state_ptr - 1)
  /\ pc' = Cur.pc
  /\ UNCHANGED <<exception_state_ptr, latch, hw, seg, signal_list>>

longjmp_resume ==
  /\ pc = "raised"
  /\ CanTouch
  /\ \/ /\ Cur.excepno >= EXCEPTION_COUNT
        /\ exception_state_ptr' = Cur.prev
        /\ frames' = SubSeq(frames, 1, exception_state_ptr - 1)
        /\ Unwind(exception_state_ptr - 1)
        /\ pc' = Cur.pc
     \/ /\ Cur.excepno < EXCEPTION_COUNT
        /\ pc' = "exited"
        /\ UNCHANGED stack
  /\ UNCHANGED <<latch, hw, seg, signal_list>>

\* The handler leaves through the program's own jmp_buf.
longjmp_user ==
  /\ pc = "handler"
  /\ CanTouch
  /\ jmpbuf.pc # "unset"
  /\ Reload
  /\ exception_state_ptr' = jmpbuf.ptr
  /\ frames' = SubSeq(frames, 1, jmpbuf.depth)
  /\ pc' = jmpbuf.pc
  /\ UNCHANGED <<jmpbuf, latch, brk, keys, seg, signal_list>>

-----------------------------------------------------------------------------
(* The program.                                                            *)

setjmp ==
  /\ pc \in {"user", "handler"}
  /\ CanTouch
  /\ jmpbuf' = [depth |-> Len(frames),
                ptr |-> exception_state_ptr, pc |-> pc]
  /\ UNCHANGED <<latch, frames, exception_state_ptr, hw, seg, signal_list, pc>>

signal ==
  /\ pc \in {"user", "handler"}
  /\ CanTouch
  /\ \E s \in SetSigs, h \in Handlers : signal_list' = [signal_list EXCEPT ![s] = h]
  /\ UNCHANGED <<latch, stack, hw, seg, pc>>

set_ctrl_c ==
  /\ pc = "user"
  /\ CanTouch
  /\ hwint_flags' \in {hwint_flags \cup {1}, hwint_flags \ {1}}
  /\ UNCHANGED <<latch, stack, cbrk_count, cnt, countdown, keys, seg, signal_list, pc>>

want_ctrl_break ==
  /\ pc = "user"
  /\ CanTouch
  /\ hwint_flags' \in {hwint_flags \cup {2}, hwint_flags \ {2}}
  /\ cbrk_count' = IF hwint_flags' = hwint_flags THEN cbrk_count ELSE 0
  /\ UNCHANGED <<latch, stack, cnt, countdown, keys, seg, signal_list, pc>>

\* The count is read here and zeroed by the next step.
was_ctrl_break_hit ==
  /\ pc = "user"
  /\ CanTouch
  /\ hwint_flags' = hwint_flags \cup {2}
  /\ cbrk_count' = IF 2 \in hwint_flags THEN cbrk_count ELSE 0
  /\ cnt' = cbrk_count'
  /\ pc' = "c_zero"
  /\ UNCHANGED <<latch, stack, countdown, keys, seg, signal_list>>

zero_break_count ==
  /\ pc = "c_zero"
  /\ CanTouch
  /\ cbrk_count' = 0
  /\ pc' = "user"
  /\ UNCHANGED <<latch, stack, hwint_flags, cnt, countdown, keys, seg, signal_list>>

\* A DOS call runs in real mode and touches no protected-mode data.
DosCall ==
  /\ pc = "user"
  /\ CanTouch
  /\ pc' = "dos"
  /\ UNCHANGED <<latch, stack, hw, seg, signal_list>>

DosReturn ==
  /\ pc = "dos"
  /\ pc' = "user"
  /\ UNCHANGED <<latch, stack, hw, seg, signal_list>>

-----------------------------------------------------------------------------
(* Callers of the DPMI service that sets a segment limit.  The service     *)
(* itself touches no data of the program.                                  *)

sbrk ==
  /\ "sbrk" \in Changers
  /\ pc = "user"
  /\ CanTouch
  /\ pc' = "b_resize"
  /\ UNCHANGED <<latch, stack, hw, seg, signal_list>>

brk_resize == \* virtual interrupts are off; the host may refuse
  /\ pc = "b_resize"
  /\ pc' = "user" \/ (pc' = "b_store" /\ selector_limit < MaxLimit)
  /\ UNCHANGED <<latch, stack, hw, seg, signal_list>>

brk_store ==
  /\ pc = "b_store"
  /\ CanTouch
  /\ selector_limit < MaxLimit
  /\ selector_limit' = selector_limit + 1
  /\ pc' = "b_cs"
  /\ UNCHANGED <<latch, stack, hw, nearptr, signal_list>>

brk_test_nearptr ==
  /\ pc = "b_cs"
  /\ CanTouch
  /\ pc' = IF nearptr = 1 THEN "b_alias" ELSE "b_ds"
  /\ UNCHANGED <<latch, stack, hw, seg, signal_list>>

brk_set_ds_limit ==
  /\ pc = "b_ds"
  /\ limit' = selector_limit
  /\ pc' = "b_alias"
  /\ UNCHANGED <<forced, ds_limit, unserved, torn, stack, hw, seg, signal_list>>

brk_return ==
  /\ pc = "b_alias"
  /\ CanTouch
  /\ pc' = "user"
  /\ UNCHANGED <<latch, stack, hw, seg, signal_list>>

nearptr_call ==
  /\ "nearptr" \in Changers
  /\ pc = "user"
  /\ CanTouch
  /\ pc' \in {"n_set", "n_clr"}
  /\ UNCHANGED <<latch, stack, hw, seg, signal_list>>

nearptr_enable ==
  \/ /\ pc = "n_set"
     \* Ignored, truncated or set; a host that granted the limit grants it again.
     /\ limit' \in IF nearptr = 1 THEN {limit, FarLimit}
                                 ELSE {limit} \cup selector_limit..FarLimit
     /\ pc' = "n_get"
     /\ UNCHANGED <<forced, ds_limit, unserved, torn, stack, hw, seg, signal_list>>
  \/ /\ pc = "n_get"
     /\ CanTouch
     /\ nearptr' = IF limit = FarLimit THEN 1 ELSE nearptr
     /\ pc' = "user"
     /\ UNCHANGED <<latch, stack, hw, selector_limit, signal_list>>

\* Faulty variant: the flag stays set, so that sbrk no longer sets the limit.
nearptr_disable_keeps ==
  \/ /\ pc = "n_clr"
     /\ limit' = selector_limit
     /\ pc' = "n_flag"
     /\ UNCHANGED <<forced, ds_limit, unserved, torn, stack, hw, seg, signal_list>>
  \/ /\ pc = "n_flag"
     /\ CanTouch
     /\ pc' = "user"
     /\ UNCHANGED <<latch, stack, hw, seg, signal_list>>

nearptr_disable ==
  \/ /\ pc = "n_clr"
     /\ limit' = selector_limit
     /\ pc' = "n_flag"
     /\ UNCHANGED <<forced, ds_limit, unserved, torn, stack, hw, seg, signal_list>>
  \/ /\ pc = "n_flag"
     /\ CanTouch
     /\ nearptr' = 0
     /\ pc' = "user"
     /\ UNCHANGED <<latch, stack, hw, selector_limit, signal_list>>

-----------------------------------------------------------------------------
Hardware == kbd_hdlr \/ npx_hdlr \/ cbrk_hdlr \/ timer_hdlr

Exception ==
  \/ Fault \/ RealException \/ exception_return \/ exception_processor
  \/ handler_return \/ longjmp_resume \/ longjmp_user

Program ==
  \/ setjmp \/ signal \/ set_ctrl_c \/ want_ctrl_break \/ was_ctrl_break_hit
  \/ zero_break_count \/ DosCall \/ DosReturn

SetsLimit ==
  \/ sbrk \/ brk_resize \/ brk_store \/ brk_test_nearptr \/ brk_set_ds_limit
  \/ brk_return \/ nearptr_call \/ nearptr_enable \/ nearptr_disable

Next == Hardware \/ Exception \/ Program \/ SetsLimit

Spec == Init /\ [][Next]_vars

\* The processor executes the program; a DOS call and a signal handler return.
\* The periodic timer interrupt does not fall into the few instructions that
\* save a fault every single time.
Fairness ==
  /\ WF_vars(Fault) /\ WF_vars(exception_return) /\ WF_vars(exception_processor)
  /\ WF_vars(handler_return) /\ WF_vars(longjmp_resume)
  /\ WF_vars(zero_break_count) /\ WF_vars(DosReturn)
  /\ SF_vars(timer_hdlr /\ forced = Idle)

FairSpec == Spec /\ Fairness

-----------------------------------------------------------------------------
(* Properties.                                                             *)

\* The program is never left without data: when no code is latched the
\* segment is usable, and while one is latched the limit to put back
\* (ds_limit, read by limitFix) is usable.
NotLockedOut ==
  IF forced.code = 0 THEN limit # NullPage ELSE ds_limit # NullPage

\* __djgpp_exception_state_ptr is the newest live frame, and the frames are
\* chained through their saved pointers down to NULL, across nested
\* exceptions, resumed signals and handlers that longjmp out.
StatePtrLive ==
  /\ exception_state_ptr = Len(frames)
  /\ \A i \in 1..Len(frames) : frames[i].prev = i - 1

\* What makes StatePtrLive inductive: the locations inside exception processing
\* have a frame under them, and a usable jmp_buf names frames still on the stack.
InFrame == {"saving", "processor", "handler", "raised"}
Nesting ==
  /\ StatePtrLive
  /\ pc \in InFrame => Len(frames) > 0
  /\ \A i \in 1..Len(frames) : frames[i].pc \in InFrame => i > 1
  /\ jmpbuf.pc # "unset" =>
       /\ jmpbuf.ptr = jmpbuf.depth
       /\ jmpbuf.depth <= Len(frames)
       /\ jmpbuf.pc \in InFrame => jmpbuf.depth > 0

\* "Code to stop execution ASAP": while a converted interrupt is latched the
\* program cannot touch its data, so the signal comes before any later effect.
\* (An interrupt at a location in Setting is undone by the limit set next.)
FlaggedStopsProgram == (forced.code # 0 /\ torn = 0) => limit = NullPage

\* With nothing latched, and outside the instructions of sbrk that grow it, the
\* segment covers all memory that sbrk handed out: limitFix never puts back a
\* limit that sbrk has outgrown, with near pointers enabled or not.  (A handler
\* that runs or leaves by longjmp at a location in Setting does see a stale limit.)
LimitCoversBreak ==
  (forced.code = 0 /\ torn = 0 /\ pc \notin {"b_cs", "b_ds"}) => limit >= selector_limit

\* What makes the two inductive: a code is never latched while the limit is being
\* set, and the limit in force or to be put back is the far one while the flag
\* that makes sbrk leave the limit alone is set.
EffectiveLimit == IF forced.code = 0 THEN limit ELSE ds_limit
LimitInv ==
  torn = 0 =>
    /\ forced.code # 0 => limit = NullPage /\ pc \notin Setting
    /\ pc \notin {"b_cs", "b_ds"} => EffectiveLimit >= selector_limit
    /\ nearptr = 1 => EffectiveLimit = FarLimit \/ pc = "n_flag"
    /\ pc = "b_ds" => nearptr = 0
    /\ \A i \in 1..Len(frames) : frames[i].pc \notin Setting

\* An exception of the program's own is reported as itself: a code from the
\* hardware is delivered only through the fault that the null page causes.
RealFaultReported ==
  [][(Len(frames') > Len(frames) /\ limit # NullPage /\ torn = 0)
       => frames'[Len(frames')].excepno \in RealExceptions]_vars

\* A latched code is always taken out of the latch.
PendingIsDelivered == forced.code # 0 ~> forced.code = 0

\* A timer event whose interrupt was ignored because the latch was busy is
\* raised again by a later tick (the countdown stays at zero) and delivered.
TimerServed == TIMER \in unserved ~> (TIMER \notin unserved \/ pc = "exited")

=============================================================================
