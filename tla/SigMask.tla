------------------------------- MODULE SigMask -------------------------------
(***************************************************************************)
(* Blocking of signals (posix/signal/sigprocm.c, sigactio.c, sigpendi.c,   *)
(* with signal and raise of go32/dpmiexcp.c).                              *)
(*                                                                         *)
(* A blocked signal has the handler sig_suspender, which only records it.  *)
(* sigprocmask visits the signals in order and swaps handlers one by one;  *)
(* an asynchronous signal may run its handler between any two of its       *)
(* steps, and that handler may itself call sigprocmask.                    *)
(***************************************************************************)
EXTENDS Integers, Sequences

CONSTANTS
  SIGMAX,      \* the loop of sigprocmask visits 0..SIGMAX-1
  SIGKILL,     \* cannot be blocked or caught
  SIGQUIT,     \* ignored by default; other signals end the program
  MaxArrivals, \* bound: asynchronous signals in a behaviour
  MaxCalls,     \* bound: activations of sigprocmask
  Sets,        \* the sets the program passes
  Uses         \* what the program does besides calling sigprocmask

ASSUME SigMaskAssumption ==
  /\ SIGMAX \in Nat \ {0, 1}
  /\ SIGKILL \in 1..(SIGMAX - 1)
  /\ SIGQUIT \in 1..(SIGMAX - 1) \ {SIGKILL}
  /\ MaxArrivals \in Nat
  /\ MaxCalls \in Nat \ {0}
  /\ Sets \subseteq SUBSET (0..(SIGMAX - 1))
  /\ Uses \subseteq {"nested", "resignal", "query"}

Slots == 0..(SIGMAX - 1)
Signals == 1..(SIGMAX - 1)
Blockable == Signals \ {SIGKILL}
UserHandlers == {"SIG_DFL", "SIG_IGN", "function"}
Handlers == UserHandlers \cup {"sig_suspender"}
NoHandler == "SIG_ERR"
Hows == {"SIG_BLOCK", "SIG_UNBLOCK", "SIG_SETMASK"}
Steps == {"visit", "save", "clear", "pending", "raise"}

VARIABLES
  signal_list,  \* handler of every signal
  current_mask, \* signals the program has blocked
  pending,      \* __sigprocmask_pending_signals
  prev_handlers,\* handlers to restore, SIG_ERR for none
  calls,        \* activations of sigprocmask, the running one last
  query,        \* sigaction(sig, NULL, &oact) between its two calls of signal
  exited,       \* a default action ended the program
  owed,         \* history: caught signals that happened and were not delivered
  arrivals      \* asynchronous signals still to come

mask_vars == <<signal_list, current_mask, pending, prev_handlers, calls, query,
          exited, owed, arrivals>>

NoQuery == [sig |-> 0, saved |-> NoHandler]
Call == [how : Hows, set : SUBSET Slots, signo : 0..SIGMAX, new_mask : SUBSET Slots,
         step : Steps, old : Handlers \cup {NoHandler}]

MaskTypeOK ==
  /\ signal_list \in [Signals -> Handlers]
  /\ current_mask \in SUBSET Slots
  /\ pending \in SUBSET Signals
  /\ prev_handlers \in [Slots -> Handlers \cup {NoHandler}]
  /\ calls \in Seq(Call) /\ Len(calls) <= MaxCalls
  /\ query \in {NoQuery} \cup [sig : Blockable, saved : Handlers]
  /\ exited \in {0, 1}
  /\ owed \in SUBSET Signals
  /\ arrivals \in 0..MaxArrivals

\* The program has set its handlers and has not called sigprocmask yet.
MaskInit ==
  /\ signal_list \in [Signals -> UserHandlers]
  /\ signal_list[SIGKILL] = "SIG_DFL"
  /\ current_mask = {}
  /\ pending = {}
  /\ prev_handlers = [s \in Slots |-> NoHandler]
  /\ calls = << >>
  /\ query = NoQuery
  /\ exited = 0
  /\ owed = {}
  /\ arrivals = MaxArrivals

Running == exited = 0
InUserCode == Running /\ calls = << >> /\ query = NoQuery
Current == calls[Len(calls)]
Proceed(fields) == calls' = [calls EXCEPT ![Len(calls)] = fields]

NewCall(how, set) == [how |-> how, set |-> set, signo |-> 0, new_mask |-> {},
                      step |-> "visit", old |-> NoHandler]

\* What the program wants done with a signal, whatever handler is installed.
Disposition(sig) ==
  LET h == IF query.sig = sig THEN query.saved ELSE signal_list[sig]
  IN  IF h = "sig_suspender" /\ prev_handlers[sig] # NoHandler THEN prev_handlers[sig]
                                                               ELSE h

-----------------------------------------------------------------------------
(* raise: base is the stack of activations the handler returns to.  A      *)
(* handler may call sigprocmask.                                           *)

\* Faulty variant: the signal is not recorded.
sig_suspender_forgets(sig) == UNCHANGED pending

sig_suspender(sig) == pending' = pending \cup {sig}

Ignored(sig, h) == h = "SIG_IGN" \/ (sig = SIGQUIT /\ h = "SIG_DFL")

raise(sig, base) ==
  LET h == signal_list[sig]
  IN  \/ /\ Ignored(sig, h)
         /\ calls' = base
         /\ UNCHANGED <<pending, exited>>
      \/ /\ h = "SIG_DFL" /\ sig # SIGQUIT
         /\ calls' = base
         /\ exited' = 1
         /\ UNCHANGED pending
      \/ /\ h = "sig_suspender"
         /\ calls' = base
         /\ sig_suspender(sig)
         /\ UNCHANGED exited
      \/ /\ h = "function"
         /\ \/ calls' = base
            \/ /\ "nested" \in Uses
               /\ Len(base) < MaxCalls
               /\ \E how \in Hows, set \in Sets :
                    calls' = Append(base, NewCall(how, set))
         /\ UNCHANGED <<pending, exited>>

Interrupt(sig) ==
  /\ Running
  /\ arrivals > 0
  /\ arrivals' = arrivals - 1
  /\ raise(sig, calls)
  /\ owed' = IF /\ signal_list[sig] \notin {"function", "SIG_DFL"}
                /\ ~Ignored(sig, Disposition(sig))
               THEN owed \cup {sig} ELSE owed
  /\ UNCHANGED <<signal_list, current_mask, prev_handlers, query>>

-----------------------------------------------------------------------------
(* sigprocmask.                                                            *)

sigprocmask ==
  /\ InUserCode
  /\ \E how \in Hows, set \in Sets : calls' = <<NewCall(how, set)>>
  /\ UNCHANGED <<signal_list, current_mask, pending, prev_handlers, query, exited,
                 owed, arrivals>>

InLoop(step) ==
  Running /\ query = NoQuery /\ calls # << >> /\ Current.step = step /\ Current.signo < SIGMAX

NextSigno == [Current EXCEPT !.signo = @ + 1, !.step = "visit"]

\* The two conditions of the loop body, on the signal visited.
Blocked == Current.signo \in current_mask
Blocks == ~Blocked /\ Current.signo \in Current.set /\ Current.how # "SIG_UNBLOCK"
Unblocks ==
  /\ Blocked
  /\ \/ Current.how = "SIG_UNBLOCK" /\ Current.signo \in Current.set
     \/ Current.how = "SIG_SETMASK" /\ Current.signo \notin Current.set

keep_signal ==
  /\ InLoop("visit")
  /\ ~Blocks /\ ~Unblocks
  /\ Proceed([NextSigno EXCEPT !.new_mask = IF Blocked THEN @ \cup {Current.signo} ELSE @])
  /\ UNCHANGED <<signal_list, current_mask, pending, prev_handlers, query, exited,
                 owed, arrivals>>

\* Faulty variant: the old handler is not kept.
block_signal_drops ==
  /\ InLoop("visit")
  /\ Blocks
  /\ Proceed([NextSigno EXCEPT !.new_mask = @ \cup {Current.signo}])
  /\ signal_list' = [s \in Signals |-> IF s = Current.signo /\ s # SIGKILL
                                         THEN "sig_suspender" ELSE signal_list[s]]
  /\ UNCHANGED <<current_mask, pending, prev_handlers, query, exited, owed, arrivals>>

\* signal(signo, sig_suspender); signal refuses 0 and returns SIG_ERR for it.
block_signal ==
  /\ InLoop("visit")
  /\ Blocks
  /\ LET s == Current.signo
         add == [Current EXCEPT !.new_mask = @ \cup {s}]
     IN  \/ /\ s = SIGKILL \/ prev_handlers[s] # NoHandler \/ s = 0
            /\ Proceed([add EXCEPT !.signo = @ + 1])
            /\ UNCHANGED signal_list
         \/ /\ s \in Blockable /\ prev_handlers[s] = NoHandler
            /\ Proceed([add EXCEPT !.step = "save", !.old = signal_list[s]])
            /\ signal_list' = [signal_list EXCEPT ![s] = "sig_suspender"]
  /\ UNCHANGED <<current_mask, pending, prev_handlers, query, exited, owed, arrivals>>

save_handler ==
  /\ InLoop("save")
  /\ prev_handlers' = [prev_handlers EXCEPT ![Current.signo] = Current.old]
  /\ Proceed(NextSigno)
  /\ UNCHANGED <<signal_list, current_mask, pending, query, exited, owed, arrivals>>

\* Faulty variant: the saved handler is put back without clearing its slot later.
unblock_signal_keeps ==
  /\ InLoop("visit")
  /\ Unblocks
  /\ IF prev_handlers[Current.signo] # NoHandler
       THEN signal_list' = [signal_list EXCEPT ![Current.signo] = prev_handlers[Current.signo]]
       ELSE UNCHANGED signal_list
  /\ Proceed([Current EXCEPT !.new_mask = @ \ {Current.signo}, !.step = "pending"])
  /\ UNCHANGED <<current_mask, pending, prev_handlers, query, exited, owed, arrivals>>

unblock_signal ==
  /\ InLoop("visit")
  /\ Unblocks
  /\ LET s == Current.signo
     IN  \/ /\ prev_handlers[s] # NoHandler
            /\ signal_list' = [signal_list EXCEPT ![s] = prev_handlers[s]]
            /\ Proceed([Current EXCEPT !.step = "clear"])
         \/ /\ prev_handlers[s] = NoHandler
            /\ Proceed([Current EXCEPT !.step = "pending"])
            /\ UNCHANGED signal_list
  /\ UNCHANGED <<current_mask, pending, prev_handlers, query, exited, owed, arrivals>>

clear_handler ==
  /\ InLoop("clear")
  /\ prev_handlers' = [prev_handlers EXCEPT ![Current.signo] = NoHandler]
  /\ Proceed([Current EXCEPT !.step = "pending"])
  /\ UNCHANGED <<signal_list, current_mask, pending, query, exited, owed, arrivals>>

\* Faulty variant: pending signals are not looked at.
test_pending_skipped ==
  /\ InLoop("pending")
  /\ Proceed(NextSigno)
  /\ UNCHANGED <<signal_list, current_mask, pending, prev_handlers, query, exited,
                 owed, arrivals>>

test_pending ==
  /\ InLoop("pending")
  /\ \/ /\ Current.signo \in pending
        /\ pending' = pending \ {Current.signo}
        /\ Proceed([Current EXCEPT !.step = "raise"])
     \/ /\ Current.signo \notin pending
        /\ Proceed(NextSigno)
        /\ UNCHANGED pending
  /\ UNCHANGED <<signal_list, current_mask, prev_handlers, query, exited, owed, arrivals>>

raise_pending ==
  /\ InLoop("raise")
  /\ raise(Current.signo, [calls EXCEPT ![Len(calls)] = NextSigno])
  /\ owed' = owed \ {Current.signo}
  /\ UNCHANGED <<signal_list, current_mask, prev_handlers, query, arrivals>>

sigprocmask_return ==
  /\ Running
  /\ calls # << >>
  /\ Current.signo = SIGMAX
  /\ current_mask' = Current.new_mask
  /\ calls' = SubSeq(calls, 1, Len(calls) - 1)
  /\ UNCHANGED <<signal_list, pending, prev_handlers, query, exited, owed, arrivals>>

-----------------------------------------------------------------------------
(* The other calls of the program.                                         *)

signal ==
  /\ InUserCode
  /\ \E sig \in Blockable, h \in UserHandlers :
       /\ sig \in current_mask => "resignal" \in Uses
       /\ signal_list' = [signal_list EXCEPT ![sig] = h]
  /\ UNCHANGED <<current_mask, pending, prev_handlers, calls, query, exited, owed, arrivals>>

\* sigaction(sig, NULL, &oact): signal(sig, SIG_IGN), then the old handler again.
sigaction_query ==
  /\ "query" \in Uses
  /\ InUserCode
  /\ \E sig \in Blockable :
       /\ query' = [sig |-> sig, saved |-> signal_list[sig]]
       /\ signal_list' = [signal_list EXCEPT ![sig] = "SIG_IGN"]
  /\ UNCHANGED <<current_mask, pending, prev_handlers, calls, exited, owed, arrivals>>

sigaction_restore ==
  /\ Running
  /\ calls = << >>
  /\ query # NoQuery
  /\ signal_list' = [signal_list EXCEPT ![query.sig] = query.saved]
  /\ query' = NoQuery
  /\ UNCHANGED <<current_mask, pending, prev_handlers, calls, exited, owed, arrivals>>

MaskNext ==
  \/ \E sig \in Blockable : Interrupt(sig)
  \/ sigprocmask \/ keep_signal \/ block_signal \/ save_handler
  \/ unblock_signal \/ clear_handler \/ test_pending \/ raise_pending
  \/ sigprocmask_return
  \/ signal \/ sigaction_query \/ sigaction_restore

MaskSpec == MaskInit /\ [][MaskNext]_mask_vars

-----------------------------------------------------------------------------
(* Properties.                                                             *)

\* Between calls, a blocked signal cannot reach the program's handler.
BlockedIsSuspended ==
  InUserCode => \A sig \in current_mask \cap Blockable :
                  signal_list[sig] = "sig_suspender"

\* Between calls, a signal outside the mask has the program's own handler and
\* nothing is left to restore.
UnblockedIsRestored ==
  InUserCode => \A sig \in Blockable \ current_mask :
                  /\ signal_list[sig] # "sig_suspender"
                  /\ prev_handlers[sig] = NoHandler

\* "If the new set defined by the call causes some pending signals to be
\* unblocked, they are all delivered before the call returns".
PendingIsBlocked == InUserCode => pending \subseteq current_mask

\* A signal that the program catches is delivered, pending or about to be
\* raised: blocking has "an advantage of not missing the signal entirely".
NoSignalLost ==
  \A sig \in owed :
    \/ sig \in pending
    \/ \E i \in DOMAIN calls : calls[i].step = "raise" /\ calls[i].signo = sig

=============================================================================
