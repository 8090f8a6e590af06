-------------------------------- MODULE ITimer --------------------------------
(***************************************************************************)
(* Interval timers (posix/signal/itimer.c, posix/unistd/alarm.c) with the  *)
(* tick handler ___djgpp_timer_hdlr of go32/exceptn.S.                     *)
(*                                                                         *)
(* The clock advances between any two steps of the program.  At a tick the *)
(* hooked handler counts down and, at zero, latches SIGTIMR, which is      *)
(* delivered before the program's next access to data: timer_action then   *)
(* runs on top of whatever was interrupted, itself included.               *)
(*                                                                         *)
(* Time is counted in fractions of a tick, TICK of them per tick (65536    *)
(* uclocks in the code).                                                   *)
(***************************************************************************)
EXTENDS Integers, Sequences

CONSTANTS
  TICK,      \* fractions in a tick
  Values,    \* it_value arguments, in fractions; zero disables a timer
  Intervals, \* it_interval arguments
  Horizon,   \* bound: the clock stops here
  MaxNest,   \* bound: activations of timer_action
  MaxSets,   \* bound: calls of setitimer
  SlowSystems \* of FALSE and TRUE: the systems checked, see slow

ASSUME ITimerAssumption ==
  /\ TICK \in Nat \ {0}
  /\ Values \subseteq Nat /\ Intervals \subseteq Nat
  /\ Horizon \in Nat \ {0} /\ MaxNest \in Nat \ {0} /\ MaxSets \in Nat
  /\ SlowSystems \subseteq BOOLEAN

Timers == {"REAL", "PROF"}
Never == -1        \* countdown of a stopped timer, 2^32 - 1 in the code
RoundUp(v) == IF v \in 1..(TICK - 1) THEN TICK ELSE v

VARIABLES
  slow,      \* may a tick come while library code runs, or DOS delay it?
  now,       \* what uclock() returns
  u_now,     \* the static of itimer.c
  exp, rel,  \* r_exp and p_exp, r_rel and p_rel; zero for none
  countdown, \* __djgpp_timer_countdown
  timer_on,
  hooked,    \* vector 8 is ___djgpp_timer_hdlr
  handler,   \* handler of SIGTIMR
  latched,   \* SIGTIMR waits in the latch
  stack,     \* setitimer and the activations of timer_action, the running one last
  due,       \* history: when each timer is next to expire, zero for never
  early,     \* history: alarms raised with none due
  killed,    \* history: SIGTIMR met its default action
  stalled,   \* history: a timer due this very moment was taken for none
  sets

vars == <<slow, now, u_now, exp, rel, countdown, timer_on, hooked, handler, latched,
          stack, due, early, killed, stalled, sets>>
clocks == <<slow, now, due, early, killed, stalled, sets>>

PCs == {"user", "dos", "s_rel", "s_exp", "s_next", "s_countdown", "s_on", "s_signal",
        "s_hook", "t_count", "t_vec", "t_off", "t_dfl",
        "a_now", "a_test", "a_reload", "a_next", "a_countdown", "a_raise"}

\* t: the timer at hand; fire: timers found expired; ret: where stop_timer returns.
Context == [pc : PCs, t : Timers, val : Nat, ival : Nat, next : Int,
            fire : SUBSET Timers, ret : PCs]
Blank == [pc |-> "user", t |-> "REAL", val |-> 0, ival |-> 0, next |-> 0,
          fire |-> {}, ret |-> "user"]

TypeOK ==
  /\ slow \in SlowSystems /\ now \in 1..Horizon /\ u_now \in 0..now
  /\ exp \in [Timers -> Nat] /\ rel \in [Timers -> Nat]
  /\ countdown \in Nat \cup {Never}
  /\ timer_on \in BOOLEAN /\ hooked \in BOOLEAN /\ latched \in BOOLEAN
  /\ handler \in {"SIG_DFL", "timer_action"}
  /\ stack \in Seq(Context) /\ Len(stack) \in 1..(MaxNest + 1)
  /\ due \in [Timers -> Nat] /\ early \in Nat /\ killed \in BOOLEAN
  /\ stalled \in BOOLEAN
  /\ sets \in 0..MaxSets

Init ==
  /\ slow \in SlowSystems
  /\ now = 1 /\ u_now = 0
  /\ exp = [t \in Timers |-> 0] /\ rel = [t \in Timers |-> 0]
  /\ countdown = 0
  /\ timer_on = FALSE /\ hooked = FALSE /\ latched = FALSE
  /\ handler = "SIG_DFL"
  /\ stack = <<Blank>>
  /\ due = [t \in Timers |-> 0] /\ early = 0 /\ killed = FALSE
  /\ stalled = FALSE
  /\ sets = MaxSets

Top == stack[Len(stack)]
At(p) == Top.pc = p /\ ~killed
Set(c) == stack' = [stack EXCEPT ![Len(stack)] = c]
Goto(p) == Set([Top EXCEPT !.pc = p])
Return == stack' = IF Len(stack) = 1 THEN <<Blank>> ELSE SubSeq(stack, 1, Len(stack) - 1)

\* A statement of the program that touches data cannot run while SIGTIMR waits.
Runs(p) == At(p) /\ ~latched

-----------------------------------------------------------------------------
(* The clock and the tick.                                                 *)

timer_hdlr ==
  IF ~hooked \/ countdown = Never THEN UNCHANGED <<countdown, latched>>
  ELSE IF countdown = 0 THEN latched' = TRUE /\ UNCHANGED countdown
  ELSE countdown' = countdown - 1 /\ UNCHANGED latched

Advance ==
  /\ now < Horizon
  /\ ~killed
  /\ now' = now + 1
  /\ IF now' % TICK = 0
       THEN (slow \/ (stack = <<Blank>> /\ ~latched)) /\ timer_hdlr
       ELSE UNCHANGED <<countdown, latched>>
  /\ UNCHANGED <<slow, u_now, exp, rel, timer_on, hooked, handler, stack, due, early,
                 killed, stalled, sets>>

\* The latched signal is raised, on top of the interrupted code.
Deliver ==
  /\ latched
  /\ Top.pc # "dos"
  /\ Len(stack) <= MaxNest
  /\ latched' = FALSE
  /\ IF handler = "SIG_DFL"
       THEN killed' = TRUE /\ UNCHANGED stack
       ELSE stack' = Append(stack, [Blank EXCEPT !.pc = "a_now"]) /\ UNCHANGED killed
  /\ UNCHANGED <<slow, now, u_now, exp, rel, countdown, timer_on, hooked, handler, due,
                 early, stalled, sets>>

\* A DOS call holds signals back until it returns.
DosCall == slow /\ Runs("user") /\ Goto("dos")
  /\ UNCHANGED <<u_now, exp, rel, countdown, timer_on, hooked, handler, latched, clocks>>
DosReturn == At("dos") /\ Goto("user")
  /\ UNCHANGED <<u_now, exp, rel, countdown, timer_on, hooked, handler, latched, clocks>>

\* getitimer refreshes u_now; it returns the distance of exp from it.
getitimer ==
  /\ Runs("user")
  /\ u_now' = now
  /\ UNCHANGED <<exp, rel, countdown, timer_on, hooked, handler, latched, stack, clocks>>

-----------------------------------------------------------------------------
(* setitimer, and alarm which calls it.                                    *)

setitimer ==
  /\ Runs("user")
  /\ sets > 0
  /\ sets' = sets - 1
  /\ u_now' = now
  /\ \E t \in Timers, v \in Values, i \in Intervals :
       LET c == [Blank EXCEPT !.t = t, !.val = RoundUp(v), !.ival = RoundUp(i)]
       IN  IF v = 0
             THEN /\ exp' = [exp EXCEPT ![t] = 0]
                  /\ rel' = [rel EXCEPT ![t] = 0]
                  /\ due' = [due EXCEPT ![t] = 0]
                  /\ Set([c EXCEPT !.pc = IF \A u \in Timers : exp'[u] = 0
                                            THEN "t_count" ELSE "s_rel",
                                   !.ret = "s_rel"])
             ELSE Set([c EXCEPT !.pc = "s_rel"]) /\ UNCHANGED <<exp, rel, due>>
  /\ UNCHANGED <<slow, now, countdown, timer_on, hooked, handler, latched, early, killed,
                 stalled>>

set_rel ==
  /\ Runs("s_rel")
  /\ rel' = [rel EXCEPT ![Top.t] = Top.ival]
  /\ IF Top.val = 0 THEN Return ELSE Goto("s_exp")
  /\ UNCHANGED <<u_now, exp, countdown, timer_on, hooked, handler, latched, clocks>>

\* The compiler keeps the sum in registers and stores *t_exp once.
set_exp ==
  /\ Runs("s_exp")
  /\ exp' = [exp EXCEPT ![Top.t] = u_now + Top.val]
  /\ due' = [due EXCEPT ![Top.t] = u_now + Top.val]
  /\ Goto("s_next")
  /\ UNCHANGED <<slow, now, u_now, rel, countdown, timer_on, hooked, handler, latched, early,
                 killed, stalled, sets>>

\* Faulty variant: the later of the two timers is taken.
GetNextEvent_later ==
  LET on == {t \in Timers : exp[t] # 0}
  IN  IF on = {} THEN 0
      ELSE (CHOOSE e \in {exp[t] : t \in on} : \A t \in on : e >= exp[t]) - u_now

GetNextEvent ==
  LET on == {t \in Timers : exp[t] # 0}
  IN  IF on = {} THEN 0
      ELSE (CHOOSE e \in {exp[t] : t \in on} : \A t \in on : e <= exp[t]) - u_now

\* Whole ticks in n, less the tick at which the handler finds zero.
Countdown(n) == IF n \div TICK > 0 THEN (n \div TICK) - 1 ELSE 0

start_next ==
  /\ Runs("s_next")
  /\ Set([Top EXCEPT !.pc = "s_countdown", !.next = GetNextEvent])
  /\ UNCHANGED <<u_now, exp, rel, countdown, timer_on, hooked, handler, latched, clocks>>

start_countdown ==
  /\ Runs("s_countdown")
  /\ countdown' = Countdown(Top.next)
  /\ Goto("s_on")
  /\ UNCHANGED <<u_now, exp, rel, timer_on, hooked, handler, latched, clocks>>

\* Faulty variant: the vector is hooked before SIGTIMR has its handler.
start_on_hooks ==
  /\ Runs("s_on")
  /\ IF timer_on THEN Return /\ UNCHANGED hooked ELSE Goto("s_signal") /\ hooked' = TRUE
  /\ timer_on' = TRUE
  /\ UNCHANGED <<u_now, exp, rel, countdown, handler, latched, clocks>>

start_on ==
  /\ Runs("s_on")
  /\ IF timer_on THEN Return ELSE Goto("s_signal")
  /\ timer_on' = TRUE
  /\ UNCHANGED <<u_now, exp, rel, countdown, hooked, handler, latched, clocks>>

start_signal ==
  /\ Runs("s_signal")
  /\ handler' = "timer_action"
  /\ Goto("s_hook")
  /\ UNCHANGED <<u_now, exp, rel, countdown, timer_on, hooked, latched, clocks>>

start_hook ==
  /\ At("s_hook")
  /\ hooked' = TRUE
  /\ Return
  /\ UNCHANGED <<u_now, exp, rel, countdown, timer_on, handler, latched, clocks>>

-----------------------------------------------------------------------------
(* stop_timer.                                                             *)

stop_count ==
  /\ Runs("t_count")
  /\ IF timer_on THEN countdown' = Never /\ Goto("t_vec")
                 ELSE UNCHANGED countdown /\ Goto(Top.ret)
  /\ UNCHANGED <<u_now, exp, rel, timer_on, hooked, handler, latched, clocks>>

stop_vec ==
  /\ At("t_vec")
  /\ hooked' = FALSE
  /\ Goto("t_off")
  /\ UNCHANGED <<u_now, exp, rel, countdown, timer_on, handler, latched, clocks>>

\* Faulty variant: the flag stays set.
stop_off_stays ==
  /\ Runs("t_off")
  /\ Goto("t_dfl")
  /\ UNCHANGED <<u_now, exp, rel, countdown, timer_on, hooked, handler, latched, clocks>>

stop_off ==
  /\ Runs("t_off")
  /\ timer_on' = FALSE
  /\ Goto("t_dfl")
  /\ UNCHANGED <<u_now, exp, rel, countdown, hooked, handler, latched, clocks>>

stop_dfl ==
  /\ Runs("t_dfl")
  /\ handler' = "SIG_DFL"
  /\ Goto(Top.ret)
  /\ UNCHANGED <<u_now, exp, rel, countdown, timer_on, hooked, latched, clocks>>

-----------------------------------------------------------------------------
(* timer_action.                                                           *)

action_now ==
  /\ Runs("a_now")
  /\ u_now' = now
  /\ Goto("a_test")
  /\ UNCHANGED <<exp, rel, countdown, timer_on, hooked, handler, latched, clocks>>

\* Faulty variant: a timer fires one fraction before its time.
Expired_early(t) == exp[t] # 0 /\ exp[t] <= u_now + 1

Expired(t) == exp[t] # 0 /\ exp[t] <= u_now

\* After the real timer the profiling timer is checked, then the next event.
AfterTest == IF Top.t = "REAL" THEN [Top EXCEPT !.pc = "a_test", !.t = "PROF"]
                               ELSE [Top EXCEPT !.pc = "a_next"]

action_test ==
  /\ Runs("a_test")
  /\ IF Expired(Top.t)
       THEN Set([Top EXCEPT !.pc = "a_reload", !.fire = @ \cup {Top.t}])
       ELSE Set(AfterTest)
  /\ UNCHANGED <<u_now, exp, rel, countdown, timer_on, hooked, handler, latched, clocks>>

action_reload ==
  /\ Runs("a_reload")
  /\ exp' = [exp EXCEPT ![Top.t] = IF rel[Top.t] # 0 THEN @ + rel[Top.t] ELSE 0]
  /\ Set(AfterTest)
  /\ UNCHANGED <<u_now, rel, countdown, timer_on, hooked, handler, latched, clocks>>

\* A distance of zero means that no timer is armed, or that one is due just now.
action_next ==
  /\ Runs("a_next")
  /\ IF Top.fire = {} THEN Return /\ UNCHANGED stalled
     ELSE IF GetNextEvent # 0
       THEN /\ Set([Top EXCEPT !.pc = "a_countdown", !.next = GetNextEvent])
            /\ UNCHANGED stalled
       ELSE /\ Set([Top EXCEPT !.pc = "t_count", !.ret = "a_raise"])
            /\ stalled' = (stalled \/ \E t \in Timers : exp[t] # 0)
  /\ UNCHANGED <<slow, now, u_now, exp, rel, countdown, timer_on, hooked, handler, latched,
                 due, early, killed, sets>>

action_countdown ==
  /\ Runs("a_countdown")
  /\ countdown' = Countdown(Top.next)
  /\ Goto("a_raise")
  /\ UNCHANGED <<u_now, exp, rel, timer_on, hooked, handler, latched, clocks>>

\* raise(SIGALRM), then raise(SIGPROF).
action_raise ==
  /\ Runs("a_raise")
  /\ \/ Top.fire = {} /\ Return /\ UNCHANGED <<due, early>>
     \/ \E t \in Top.fire :
          /\ t = "PROF" => Top.fire = {"PROF"}
          /\ Set([Top EXCEPT !.fire = @ \ {t}])
          /\ IF due[t] # 0 /\ due[t] <= now
               THEN /\ due' = [due EXCEPT ![t] = IF rel[t] # 0 THEN @ + rel[t] ELSE 0]
                    /\ UNCHANGED early
               ELSE early' = early + 1 /\ UNCHANGED due
  /\ UNCHANGED <<slow, now, u_now, exp, rel, countdown, timer_on, hooked, handler, latched,
                 killed, stalled, sets>>

Next ==
  \/ Advance \/ Deliver \/ DosCall \/ DosReturn \/ getitimer
  \/ setitimer \/ set_rel \/ set_exp
  \/ start_next \/ start_countdown \/ start_on \/ start_signal \/ start_hook
  \/ stop_count \/ stop_vec \/ stop_off \/ stop_dfl
  \/ action_now \/ action_test \/ action_reload \/ action_next \/ action_countdown
  \/ action_raise

Spec == Init /\ [][Next]_vars

-----------------------------------------------------------------------------
(* Properties.                                                             *)

\* SIGTIMR, whose default action ends the program, is only raised while
\* timer_action handles it: start_timer and stop_timer change the handler, the
\* flag and the vector in an order that leaves no window for a tick.  The types
\* are part of it: a countdown below zero is one that the tick handler never ends.
NoTimerKill == TypeOK /\ ~killed

\* On a system that serves each tick before the next comes, every alarm answers
\* one expiration: none comes before its time, and a timer without an interval
\* raises its signal once.
OneAlarmPerExpiration == ~slow => early = 0

\* On such a system an armed timer raises its signal at the first tick after its
\* time, and the time getitimer counts from is the one still to come: in user code
\* with no signal waiting no timer is overdue by a tick or more, so that the time
\* left it reports is never negative by a tick.  (A timer that is due at the very
\* moment timer_action read the clock is taken for none and stops.)
Late == {t \in Timers : due[t] # 0 /\ now >= due[t] + TICK}
AlarmOnTime ==
  (~slow /\ ~stalled /\ stack = <<Blank>> /\ ~latched) => (exp = due /\ Late = {})

\* On such a system the flag, the vector and the handler agree between calls, and
\* the tick handler is hooked and counting while a timer is armed: a timer that
\* just fired "will expire on the next tick".
HookedWhileArmed ==
  (~slow /\ stack = <<Blank>>) =>
    /\ hooked = timer_on
    /\ hooked => handler = "timer_action"
    /\ (~stalled /\ \E t \in Timers : exp[t] # 0) => (hooked /\ countdown # Never)

=============================================================================
