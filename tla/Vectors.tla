------------------------------- MODULE Vectors -------------------------------
(***************************************************************************)
(* Ownership of the interrupt and exception vectors: set up by             *)
(* __djgpp_exception_setup, exchanged by __djgpp_exception_toggle around   *)
(* child programs, hooked by the interval timers (posix/signal/itimer.c)   *)
(* and given back by _exit.                                                *)
(*                                                                         *)
(* A vector holds the handler of the system or of this library.  The 17    *)
(* exception vectors that are always exchanged are one vector, "exc"; the  *)
(* NMI vector, exchanged only on request, is "nmi".                        *)
(***************************************************************************)
EXTENDS Naturals

CONSTANTS
  NmiSignal,      \* _CRT0_FLAG_NMI_SIGNAL
  MaxOps,         \* bound: toggles and timer calls of a program
  TimerWhenToggled\* may timers be started or stopped while handlers are off?

ASSUME VectorsAssumption ==
  NmiSignal \in BOOLEAN /\ TimerWhenToggled \in BOOLEAN /\ MaxOps \in Nat

Swapped == {"exc", "nmi", "npx", "kbd"} \* exchanged with a saved value
Hooks == Swapped \cup {"cbrk", "timer"}
Owners == {"system", "library"}
Null == "null"

VARIABLES
  vec,          \* current handler of every vector
  ori,          \* except_ori, npx_ori, kbd_ori: the value to set next
  old_kbd,      \* __djgpp_old_kbd
  cbrk_ori, cbrk_hooked,
  timer_ori,    \* static of dpmiexcp.c
  old_timer,    \* __djgpp_old_timer, shared with itimer.c
  timer_on,     \* static of itimer.c
  off,          \* history: 1 inside a toggled block
  phase,        \* "running" or "exited"
  ops

vectors == <<vec, ori, old_kbd, cbrk_ori, cbrk_hooked, timer_ori, old_timer,
          timer_on, off, phase, ops>>

VectorsTypeOK ==
  /\ vec \in [Hooks -> Owners]
  /\ ori \in [Swapped -> Owners]
  /\ old_kbd \in Owners
  /\ cbrk_ori \in Owners
  /\ cbrk_hooked \in {0, 1}
  /\ timer_ori \in Owners
  /\ old_timer \in Owners \cup {Null}
  /\ timer_on \in {0, 1}
  /\ off \in {0, 1}
  /\ phase \in {"running", "exited"}
  /\ ops \in 0..MaxOps

\* __djgpp_exception_setup, which ends with the first toggle.
exception_setup ==
  /\ vec = [h \in Hooks |-> IF h = "timer" \/ (h = "nmi" /\ ~NmiSignal)
                              THEN "system" ELSE "library"]
  /\ ori = [h \in Swapped |-> "system"]
  /\ old_kbd = "system"
  /\ cbrk_ori = "system"
  /\ cbrk_hooked = 1
  /\ timer_ori = "system"
  /\ old_timer = Null
  /\ timer_on = 0
  /\ off = 0
  /\ phase = "running"
  /\ ops = MaxOps

\* Faulty variant: the timer vector is not looked at.
toggle_timer_skipped == UNCHANGED <<timer_ori>> /\ vec'["timer"] = vec["timer"]

\* The last part of the toggle: "if the timer interrupt is hooked".
toggle_timer ==
  \/ /\ old_timer = Null
     /\ UNCHANGED timer_ori
     /\ vec'["timer"] = vec["timer"]
  \/ /\ old_timer # Null
     /\ timer_ori = old_timer
     /\ timer_ori' = vec["timer"]
     /\ vec'["timer"] = old_timer
  \/ /\ old_timer # Null
     /\ timer_ori # old_timer
     /\ timer_ori' = old_timer
     /\ vec'["timer"] = timer_ori

\* Faulty variant: the saved values are not exchanged for the current ones.
toggle_swapped_keeps ==
  /\ \A h \in Swapped : vec'[h] = IF h = "nmi" /\ ~NmiSignal THEN vec[h] ELSE ori[h]
  /\ UNCHANGED ori

\* The vectors exchanged with the values in ori; the NMI vector is only read.
toggle_swapped ==
  /\ \A h \in Swapped : vec'[h] = IF h = "nmi" /\ ~NmiSignal THEN vec[h] ELSE ori[h]
  /\ ori' = [h \in Swapped |-> vec[h]]

toggle_cbrk ==
  /\ cbrk_hooked' = 1 - cbrk_hooked
  /\ cbrk_ori' = IF cbrk_hooked = 1 THEN cbrk_ori ELSE vec["cbrk"]
  /\ vec'["cbrk"] = IF cbrk_hooked = 1 THEN cbrk_ori ELSE "library"

exception_toggle ==
  /\ vec' \in [Hooks -> Owners]
  /\ toggle_swapped
  /\ toggle_cbrk
  /\ toggle_timer
  /\ off' = 1 - off
  /\ UNCHANGED <<old_kbd, old_timer, timer_on>>

Op == phase = "running" /\ ops > 0 /\ ops' = ops - 1 /\ UNCHANGED phase

\* Called by the program around a child, as redir does.
Toggle == Op /\ exception_toggle

\* Faulty variant: a timer that runs is hooked again.
start_timer_rehooks ==
  /\ Op
  /\ off = 1 => TimerWhenToggled
  /\ timer_on' = 1
  /\ old_timer' = vec["timer"]
  /\ vec' = [vec EXCEPT !["timer"] = "library"]
  /\ UNCHANGED <<ori, old_kbd, cbrk_ori, cbrk_hooked, timer_ori, off>>

start_timer ==
  /\ Op
  /\ timer_on = 0
  /\ off = 1 => TimerWhenToggled
  /\ timer_on' = 1
  /\ old_timer' = vec["timer"]
  /\ vec' = [vec EXCEPT !["timer"] = "library"]
  /\ UNCHANGED <<ori, old_kbd, cbrk_ori, cbrk_hooked, timer_ori, off>>

stop_timer ==
  /\ Op
  /\ timer_on = 1
  /\ off = 1 => TimerWhenToggled
  /\ timer_on' = 0
  /\ vec' = [vec EXCEPT !["timer"] = old_timer]
  /\ UNCHANGED <<ori, old_kbd, cbrk_ori, cbrk_hooked, timer_ori, old_timer, off>>

\* Faulty variant: the handlers are toggled whether or not they are off already.
exit_always ==
  /\ phase = "running"
  /\ phase' = "exited"
  /\ exception_toggle
  /\ UNCHANGED ops

\* _exit toggles only if the keyboard handler to set next is the original one.
exit ==
  /\ phase = "running"
  /\ phase' = "exited"
  /\ \/ old_kbd = ori["kbd"] /\ exception_toggle
     \/ /\ old_kbd # ori["kbd"]
        /\ UNCHANGED <<vec, ori, old_kbd, cbrk_ori, cbrk_hooked, timer_ori, old_timer,
                       timer_on, off>>
  /\ UNCHANGED ops

VectorsNext == Toggle \/ start_timer \/ stop_timer \/ exit

VectorsSpec == exception_setup /\ [][VectorsNext]_vectors

-----------------------------------------------------------------------------
(* Properties.                                                             *)

\* "We need to restore hardware interrupt handlers even if somebody calls
\* `_exit' directly": after exit no vector but the timer's points into the
\* program, however often the handlers were toggled before.
ExitRestoresHandlers ==
  phase = "exited" => \A h \in Hooks \ {"timer"} : vec[h] = "system"

\* Programs that do not unhook the timer before they exit "won't leave the
\* system with timer pointing into the void".
ExitRestoresTimer == phase = "exited" => vec["timer"] = "system"

\* Inside a toggled block the child sees the system's handlers, the timer's
\* included; outside it the library's handlers are in force, and the timer's
\* exactly when a timer is armed.
ToggledBlocks ==
  phase = "running" =>
    /\ \A h \in Hooks \ {"timer", "nmi"} : vec[h] = IF off = 1 THEN "system" ELSE "library"
    /\ vec["timer"] = IF timer_on = 1 /\ off = 0 THEN "library" ELSE "system"

\* The tick handler chains to __djgpp_old_timer: it never chains to itself.
NoSelfChain == old_timer # "library"

=============================================================================
