----------------------------- MODULE SignalProofs -----------------------------
(***************************************************************************)
(* Theorems about SigMask, for every number of signals, every choice of    *)
(* SIGKILL among them, every collection of sets and any number of          *)
(* asynchronous signals; and about ITimer, for every length of a tick,     *)
(* every time a program may ask for and every nesting of timer_action.     *)
(***************************************************************************)
EXTENDS SigMask, ITimer, SequenceTheorems, TLAPS

-----------------------------------------------------------------------------
(* SigMask: types.                                                         *)

\* Only signals that were pending are about to be raised.
RaisesSignals ==
  \A i \in DOMAIN calls : calls[i].step = "raise" => calls[i].signo \in Signals

\* The running activation is a Call and updating it keeps the stack typed.
LEMMA GotoTypes ==
  ASSUME MaskTypeOK, calls # << >>
  PROVE  /\ Len(calls) \in 1..MaxCalls
         /\ Current \in Call
         /\ \A f \in Call : /\ [calls EXCEPT ![Len(calls)] = f] \in Seq(Call)
                            /\ Len([calls EXCEPT ![Len(calls)] = f]) = Len(calls)
  <1>1. calls \in Seq(Call) /\ Len(calls) \in Nat /\ Len(calls) # 0
    BY DEF MaskTypeOK
  <1> QED
    BY <1>1, SigMaskAssumption DEF MaskTypeOK, Current

\* A step of the loop leaves an activation of the right type.
LEMMA LoopTypes ==
  ASSUME MaskTypeOK, calls # << >>, Current.signo < SIGMAX
  PROVE  /\ Current.signo \in Slots /\ Current.signo + 1 \in 0..SIGMAX
         /\ NextSigno \in Call
         /\ \A m \in SUBSET Slots : [NextSigno EXCEPT !.new_mask = m] \in Call
         /\ \A st \in Steps, m \in SUBSET Slots, h \in Handlers \cup {NoHandler} :
              [Current EXCEPT !.new_mask = m, !.step = st, !.old = h] \in Call
  <1>1. Current \in Call
    BY GotoTypes
  <1>2. Current.signo \in Slots /\ Current.signo + 1 \in 0..SIGMAX
    BY <1>1, SigMaskAssumption DEF Call, Slots
  <1> QED
    BY <1>1, <1>2 DEF Call, NextSigno, Steps

\* raise keeps the types if it is given a stack of activations.
LEMMA RaiseTypes ==
  ASSUME MaskTypeOK, NEW sig \in Signals, NEW base \in Seq(Call), Len(base) <= MaxCalls,
         raise(sig, base)
  PROVE  /\ pending' \in SUBSET Signals /\ exited' \in {0, 1}
         /\ calls' \in Seq(Call) /\ Len(calls') <= MaxCalls
  <1>1. pending' \in SUBSET Signals /\ exited' \in {0, 1}
    BY DEF MaskTypeOK, raise, sig_suspender
  <1>2. CASE calls' = base
    BY <1>1, <1>2
  <1>3. ASSUME NEW how \in Hows, NEW set \in Sets, Len(base) < MaxCalls,
               calls' = Append(base, NewCall(how, set))
        PROVE  calls' \in Seq(Call) /\ Len(calls') <= MaxCalls
    <2>1. NewCall(how, set) \in Call
      BY SigMaskAssumption DEF NewCall, Call, Steps, Slots
    <2> QED
      BY <1>3, <2>1, SigMaskAssumption, AppendProperties
  <1> QED
    BY <1>1, <1>2, <1>3 DEF raise

\* The initial state is typed.
LEMMA TypeInit == MaskInit => MaskTypeOK /\ RaisesSignals
  BY SigMaskAssumption DEF MaskInit, MaskTypeOK, Slots, NoQuery, Handlers, RaisesSignals

\* Every step keeps the types.
LEMMA TypeStep ==
  ASSUME MaskTypeOK, RaisesSignals, [MaskNext]_mask_vars
  PROVE  MaskTypeOK'
  <1> USE DEF MaskTypeOK
  <1>0. Blockable \subseteq Signals /\ Signals \subseteq Slots
    BY SigMaskAssumption DEF Blockable, Signals, Slots
  <1>1. ASSUME NEW sig \in Blockable, Interrupt(sig)
        PROVE  MaskTypeOK'
    <2>1. /\ pending' \in SUBSET Signals /\ exited' \in {0, 1}
          /\ calls' \in Seq(Call) /\ Len(calls') <= MaxCalls
      BY <1>0, <1>1, RaiseTypes DEF Interrupt
    <2>2. owed' \in SUBSET Signals /\ arrivals' \in 0..MaxArrivals
      BY <1>0, <1>1, SigMaskAssumption DEF Interrupt
    <2> QED
      BY <1>1, <2>1, <2>2 DEF Interrupt
  <1>2. CASE sigprocmask
    <2>1. PICK how \in Hows, set \in Sets : calls' = <<NewCall(how, set)>>
      BY <1>2 DEF sigprocmask
    <2>2. NewCall(how, set) \in Call
      BY SigMaskAssumption DEF NewCall, Call, Steps, Slots
    <2>3. calls' \in Seq(Call) /\ Len(calls') <= MaxCalls
      BY <2>1, <2>2, SigMaskAssumption
    <2> QED
      BY <1>2, <2>3 DEF sigprocmask
  <1>3. ASSUME NEW f \in Call, calls # << >>, Proceed(f)
        PROVE  calls' \in Seq(Call) /\ Len(calls') <= MaxCalls
    BY <1>3, GotoTypes, SigMaskAssumption DEF Proceed
  <1>4. CASE keep_signal
    <2> DEFINE m == IF Blocked THEN NextSigno.new_mask \cup {Current.signo}
                               ELSE NextSigno.new_mask
    <2>1. NextSigno \in Call /\ Current.signo \in Slots
      BY <1>4, LoopTypes DEF keep_signal, InLoop
    <2>2. m \in SUBSET Slots
      BY <2>1 DEF Call
    <2>3. [NextSigno EXCEPT !.new_mask = m] \in Call
      BY <1>4, <2>2, LoopTypes DEF keep_signal, InLoop
    <2>4. Proceed([NextSigno EXCEPT !.new_mask = m])
      BY <1>4 DEF keep_signal
    <2> QED
      BY <1>3, <1>4, <2>3, <2>4 DEF keep_signal, InLoop
  <1>5. CASE block_signal
    <2>1. Current \in Call /\ Current.signo \in Slots /\ Current.signo + 1 \in 0..SIGMAX
      BY <1>5, GotoTypes, LoopTypes DEF block_signal, InLoop
    <2> DEFINE add == [Current EXCEPT !.new_mask = @ \cup {Current.signo}]
    <2>2. add \in Call
      BY <2>1 DEF Call
    <2>3. CASE /\ Proceed([add EXCEPT !.signo = @ + 1])
               /\ UNCHANGED signal_list
      <3>1. [add EXCEPT !.signo = @ + 1] \in Call
        BY <2>1, <2>2 DEF Call
      <3> QED
        BY <1>3, <1>5, <2>3, <3>1 DEF block_signal, InLoop
    <2>4. CASE /\ Current.signo \in Blockable
               /\ Proceed([add EXCEPT !.step = "save", !.old = signal_list[Current.signo]])
               /\ signal_list' = [signal_list EXCEPT ![Current.signo] = "sig_suspender"]
      <3>1. [add EXCEPT !.step = "save", !.old = signal_list[Current.signo]] \in Call
        BY <1>0, <2>2, <2>4 DEF Call, Steps
      <3>2. signal_list' \in [Signals -> Handlers]
        BY <2>4 DEF Handlers
      <3> QED
        BY <1>3, <1>5, <2>4, <3>1, <3>2 DEF block_signal, InLoop
    <2> QED
      BY <1>5, <2>3, <2>4 DEF block_signal
  <1>6. CASE save_handler
    <2>1. Current \in Call /\ NextSigno \in Call /\ Current.old \in Handlers \cup {NoHandler}
      BY <1>6, GotoTypes, LoopTypes DEF save_handler, InLoop, Call
    <2> QED
      BY <1>3, <1>6, <2>1 DEF save_handler, InLoop
  <1>7. ASSUME calls # << >>
        PROVE  \A st \in Steps : [Current EXCEPT !.step = st] \in Call
    BY <1>7, GotoTypes DEF Call
  <1>8. CASE unblock_signal
    <2>1. Current.signo \in Slots
      BY <1>8, LoopTypes DEF unblock_signal, InLoop
    <2>3. signal_list' \in [Signals -> Handlers]
      BY <1>8, <2>1 DEF unblock_signal
    <2>2. calls' \in Seq(Call) /\ Len(calls') <= MaxCalls
      BY <1>3, <1>7, <1>8 DEF unblock_signal, InLoop, Steps
    <2> QED
      BY <1>8, <2>2, <2>3 DEF unblock_signal
  <1>9. CASE clear_handler
    <2>1. calls' \in Seq(Call) /\ Len(calls') <= MaxCalls
      BY <1>3, <1>7, <1>9 DEF clear_handler, InLoop, Steps
    <2> QED
      BY <1>9, <2>1 DEF clear_handler
  <1>10. CASE test_pending
    <2>1. calls' \in Seq(Call) /\ Len(calls') <= MaxCalls
      BY <1>3, <1>7, <1>10, LoopTypes DEF test_pending, InLoop, Steps
    <2> QED
      BY <1>10, <2>1 DEF test_pending
  <1>11. CASE raise_pending
    <2>1. calls # << >> /\ NextSigno \in Call
      BY <1>11, LoopTypes DEF raise_pending, InLoop
    <2> DEFINE base == [calls EXCEPT ![Len(calls)] = NextSigno]
    <2>2. base \in Seq(Call) /\ Len(base) <= MaxCalls
      BY <2>1, GotoTypes, SigMaskAssumption
    <2>3. Current.signo \in Signals
      BY <1>11, <2>1, GotoTypes DEF raise_pending, InLoop, RaisesSignals, Current
    <2>4. /\ pending' \in SUBSET Signals /\ exited' \in {0, 1}
          /\ calls' \in Seq(Call) /\ Len(calls') <= MaxCalls
      BY <1>11, <2>2, <2>3, RaiseTypes DEF raise_pending
    <2> QED
      BY <1>11, <2>4 DEF raise_pending
  <1>12. CASE sigprocmask_return
    <2>1. Current \in Call /\ Len(calls) \in 1..MaxCalls
      BY <1>12, GotoTypes DEF sigprocmask_return
    <2>2. calls' \in Seq(Call) /\ Len(calls') <= MaxCalls
      BY <1>12, <2>1, SubSeqProperties, SigMaskAssumption DEF sigprocmask_return
    <2>3. current_mask' \in SUBSET Slots
      BY <1>12, <2>1 DEF sigprocmask_return, Call
    <2> QED
      BY <1>12, <2>2, <2>3 DEF sigprocmask_return
  <1>13. CASE signal
    <2>1. signal_list' \in [Signals -> Handlers]
      BY <1>13 DEF signal, Handlers
    <2> QED
      BY <1>13, <2>1 DEF signal
  <1>14. CASE sigaction_query
    <2>1. signal_list' \in [Signals -> Handlers]
      BY <1>14 DEF sigaction_query, Handlers, UserHandlers
    <2>2. query' \in {NoQuery} \cup [sig : Blockable, saved : Handlers]
      BY <1>0, <1>14 DEF sigaction_query
    <2> QED
      BY <1>14, <2>1, <2>2 DEF sigaction_query
  <1>15. CASE sigaction_restore
    <2>1. query.saved \in Handlers
      BY <1>15 DEF sigaction_restore
    <2> QED
      BY <1>15, <2>1 DEF sigaction_restore
  <1>16. CASE UNCHANGED mask_vars
    BY <1>16 DEF mask_vars
  <1> QED
    BY <1>1, <1>2, <1>4, <1>5, <1>6, <1>8, <1>9, <1>10, <1>11, <1>12, <1>13, <1>14,
       <1>15, <1>16 DEF MaskNext

-----------------------------------------------------------------------------
(* No signal is lost.                                                      *)

NotQuerying == query = NoQuery
Raising(sig) == \E i \in DOMAIN calls : calls[i].step = "raise" /\ calls[i].signo = sig

\* An assignment to the running activation changes no other.
LEMMA GotoEntries ==
  ASSUME MaskTypeOK, calls # << >>, NEW f \in Call, calls' = [calls EXCEPT ![Len(calls)] = f]
  PROVE  /\ DOMAIN calls' = DOMAIN calls /\ Len(calls) \in DOMAIN calls
         /\ calls'[Len(calls)] = f
         /\ \A i \in DOMAIN calls : i # Len(calls) => calls'[i] = calls[i]
  BY GotoTypes DEF MaskTypeOK

\* A handler that calls sigprocmask leaves the activations below it alone.
LEMMA RaiseEntries ==
  ASSUME NEW sig, NEW base \in Seq(Call), raise(sig, base)
  PROVE  /\ \A i \in DOMAIN base : i \in DOMAIN calls' /\ calls'[i] = base[i]
         /\ \A i \in DOMAIN calls' \ DOMAIN base : calls'[i].step = "visit"
  <1>1. CASE calls' = base
    BY <1>1
  <1>2. ASSUME NEW how \in Hows, NEW set \in Sets, calls' = Append(base, NewCall(how, set))
        PROVE  /\ \A i \in DOMAIN base : i \in DOMAIN calls' /\ calls'[i] = base[i]
               /\ \A i \in DOMAIN calls' \ DOMAIN base : calls'[i].step = "visit"
    <2>1. NewCall(how, set) \in Call /\ NewCall(how, set).step = "visit"
      BY SigMaskAssumption DEF NewCall, Call, Steps, Slots
    <2> QED
      BY <1>2, <2>1, AppendProperties
  <1> QED
    BY <1>1, <1>2 DEF raise

\* What is about to be raised: a step adds a signal that was pending, or removes
\* one by raising it.
LEMMA RaisingStep ==
  ASSUME MaskTypeOK, RaisesSignals, [MaskNext]_mask_vars
  PROVE  /\ RaisesSignals'
         /\ \A sig \in Signals :
              \/ Raising(sig) => Raising(sig)'
              \/ raise_pending /\ sig = Current.signo
  <1> DEFINE Kept == \A sig \in Signals : Raising(sig) => Raising(sig)'
  <1>1. ASSUME NEW f \in Call, calls # << >>, Proceed(f), Current.step # "raise",
               f.step = "raise" => f.signo \in Signals
        PROVE  RaisesSignals' /\ Kept
    <2>1. /\ DOMAIN calls' = DOMAIN calls /\ Len(calls) \in DOMAIN calls
          /\ calls'[Len(calls)] = f
          /\ \A i \in DOMAIN calls : i # Len(calls) => calls'[i] = calls[i]
      BY <1>1, GotoEntries DEF Proceed
    <2> QED
      BY <1>1, <2>1 DEF RaisesSignals, Raising, Current
  <1>2. ASSUME NEW sig \in Blockable, Interrupt(sig)
        PROVE  RaisesSignals' /\ Kept
    BY <1>2, RaiseEntries DEF Interrupt, RaisesSignals, Raising, MaskTypeOK
  <1>3. CASE sigprocmask
    <2>1. PICK how \in Hows, set \in Sets : calls' = <<NewCall(how, set)>>
      BY <1>3 DEF sigprocmask
    <2>2. DOMAIN calls' = {1} /\ calls'[1].step = "visit"
      BY <2>1 DEF NewCall
    <2>3. DOMAIN calls = {}
      BY <1>3 DEF sigprocmask, InUserCode
    <2> QED
      BY <2>2, <2>3 DEF RaisesSignals, Raising
  <1>4. CASE keep_signal
    <2>1. calls # << >> /\ Current.step = "visit" /\ NextSigno \in Call /\ NextSigno.step = "visit"
      BY <1>4, GotoTypes, LoopTypes DEF keep_signal, InLoop, NextSigno, Call
    <2> DEFINE m == IF Blocked THEN NextSigno.new_mask \cup {Current.signo}
                               ELSE NextSigno.new_mask
               f == [NextSigno EXCEPT !.new_mask = m]
    <2>2. m \in SUBSET Slots
      BY <1>4, <2>1, LoopTypes DEF keep_signal, InLoop, Call
    <2>3. f \in Call /\ f.step = "visit"
      BY <2>1, <2>2 DEF Call
    <2>4. Proceed(f)
      BY <1>4 DEF keep_signal
    <2> QED
      BY <1>1, <2>1, <2>3, <2>4
  <1>5. CASE block_signal
    <2>1. /\ calls # << >> /\ Current.step = "visit" /\ Current \in Call
          /\ Current.signo \in Slots /\ Current.signo + 1 \in 0..SIGMAX
      BY <1>5, GotoTypes, LoopTypes DEF block_signal, InLoop
    <2> DEFINE add == [Current EXCEPT !.new_mask = @ \cup {Current.signo}]
               f == [add EXCEPT !.signo = @ + 1]
               g == [add EXCEPT !.step = "save", !.old = signal_list[Current.signo]]
    <2>2. add \in Call
      BY <2>1 DEF Call
    <2>3. CASE Proceed(f)
      <3>1. f \in Call /\ f.step = "visit"
        BY <2>1, <2>2 DEF Call
      <3> QED
        BY <1>1, <2>1, <2>3, <3>1
    <2>4. CASE Proceed(g) /\ Current.signo \in Blockable
      <3>1. g \in Call /\ g.step = "save"
        BY <2>2, <2>4 DEF Call, Steps, MaskTypeOK, Blockable
      <3> QED
        BY <1>1, <2>1, <2>4, <3>1
    <2> QED
      BY <1>5, <2>3, <2>4 DEF block_signal
  <1>6. CASE save_handler
    <2>1. /\ calls # << >> /\ Current.step = "save" /\ NextSigno \in Call
          /\ NextSigno.step = "visit" /\ Proceed(NextSigno)
      BY <1>6, GotoTypes, LoopTypes DEF save_handler, InLoop, NextSigno, Call
    <2> QED
      BY <1>1, <2>1
  <1>7. ASSUME calls # << >>, Current.step # "raise", NEW st \in Steps \ {"raise"},
               Proceed([Current EXCEPT !.step = st])
        PROVE  RaisesSignals' /\ Kept
    <2>1. [Current EXCEPT !.step = st] \in Call /\ [Current EXCEPT !.step = st].step = st
      BY <1>7, GotoTypes DEF Call
    <2> QED
      BY <1>1, <1>7, <2>1
  <1>8. CASE unblock_signal
    BY <1>7, <1>8 DEF unblock_signal, InLoop, Steps
  <1>9. CASE clear_handler
    BY <1>7, <1>9 DEF clear_handler, InLoop, Steps
  <1>10. CASE test_pending
    <2>1. calls # << >> /\ Current.step = "pending" /\ Current \in Call
      BY <1>10, GotoTypes DEF test_pending, InLoop
    <2>2. CASE Current.signo \in pending /\ Proceed([Current EXCEPT !.step = "raise"])
      <3>1. /\ [Current EXCEPT !.step = "raise"] \in Call
            /\ [Current EXCEPT !.step = "raise"].signo \in Signals
        BY <2>1, <2>2 DEF Call, Steps, MaskTypeOK
      <3> QED
        BY <1>1, <2>1, <2>2, <3>1
    <2>3. CASE Proceed(NextSigno)
      <3>1. NextSigno \in Call /\ NextSigno.step = "visit"
        BY <1>10, <2>1, LoopTypes DEF test_pending, InLoop, NextSigno, Call
      <3> QED
        BY <1>1, <2>1, <2>3, <3>1
    <2> QED
      BY <1>10, <2>2, <2>3 DEF test_pending
  <1>11. CASE raise_pending
    <2> DEFINE base == [calls EXCEPT ![Len(calls)] = NextSigno]
    <2>1. /\ calls # << >> /\ NextSigno \in Call /\ NextSigno.step = "visit"
          /\ calls[Len(calls)].signo = Current.signo
      BY <1>11, GotoTypes, LoopTypes DEF raise_pending, InLoop, NextSigno, Call, Current
    <2>2. base \in Seq(Call) /\ DOMAIN base = DOMAIN calls
      BY <2>1, GotoTypes DEF MaskTypeOK
    <2>3. /\ Len(calls) \in DOMAIN calls /\ base[Len(calls)] = NextSigno
          /\ \A i \in DOMAIN calls : i # Len(calls) => base[i] = calls[i]
      BY <2>1, GotoTypes DEF MaskTypeOK
    <2>4. /\ \A i \in DOMAIN base : i \in DOMAIN calls' /\ calls'[i] = base[i]
          /\ \A i \in DOMAIN calls' \ DOMAIN base : calls'[i].step = "visit"
      BY <1>11, <2>2, RaiseEntries DEF raise_pending
    <2>5. RaisesSignals'
      BY <2>1, <2>2, <2>3, <2>4 DEF RaisesSignals
    <2>6. \A sig \in Signals \ {Current.signo} : Raising(sig) => Raising(sig)'
      BY <2>1, <2>2, <2>3, <2>4 DEF Raising
    <2> QED
      BY <1>11, <2>5, <2>6
  <1>12. CASE sigprocmask_return
    <2>1. /\ Len(calls) \in 1..MaxCalls /\ calls \in Seq(Call)
          /\ calls[Len(calls)].signo \notin Signals
      BY <1>12, GotoTypes, SigMaskAssumption DEF sigprocmask_return, Current, MaskTypeOK, Signals
    <2>2. /\ DOMAIN calls' = 1..(Len(calls) - 1)
          /\ \A i \in DOMAIN calls' : calls'[i] = calls[i]
      BY <1>12, <2>1, SubSeqProperties, SigMaskAssumption DEF sigprocmask_return
    <2>3. DOMAIN calls = 1..Len(calls)
      BY <2>1
    <2>4. \A i \in DOMAIN calls : i \in DOMAIN calls' \/ i = Len(calls)
      BY <2>1, <2>2, <2>3, SigMaskAssumption
    <2>5. \A i \in DOMAIN calls' : i \in DOMAIN calls
      BY <2>1, <2>2, <2>3, SigMaskAssumption
    <2> QED
      BY <2>1, <2>2, <2>4, <2>5 DEF RaisesSignals, Raising
  <1>13. CASE UNCHANGED calls
    BY <1>13 DEF RaisesSignals, Raising
  <1> QED
    BY <1>2, <1>3, <1>4, <1>5, <1>6, <1>8, <1>9, <1>10, <1>11, <1>12, <1>13
       DEF MaskNext, mask_vars, signal, sigaction_query, sigaction_restore

\* A signal that the program catches stays recorded until it is raised, if the
\* program does not read handlers with sigaction.
LEMMA LostStep ==
  ASSUME "query" \notin Uses, query = NoQuery, MaskTypeOK, RaisesSignals, NoSignalLost,
         [MaskNext]_mask_vars
  PROVE  NoSignalLost' /\ query' = NoQuery
  <1>0. query' = NoQuery
    BY DEF MaskNext, mask_vars, Interrupt, sigprocmask, keep_signal, block_signal, save_handler,
           unblock_signal, clear_handler, test_pending, raise_pending,
           sigprocmask_return, signal, sigaction_query, sigaction_restore
  <1>1. \A sig \in owed : sig \in pending \/ Raising(sig)
    BY DEF NoSignalLost, Raising
  <1>2. SUFFICES ASSUME NEW sig \in owed'
                 PROVE  sig \in pending' \/ Raising(sig)'
    BY <1>0 DEF NoSignalLost, Raising
  <1>3. owed' \subseteq Signals
    BY TypeStep DEF MaskTypeOK
  <1>4. CASE sig \notin owed
    <2>1. Interrupt(sig)
      BY <1>4 DEF MaskNext, mask_vars, Interrupt, sigprocmask, keep_signal, block_signal,
           save_handler, unblock_signal, clear_handler, test_pending, raise_pending,
           sigprocmask_return, signal, sigaction_query, sigaction_restore
    <2>2. /\ signal_list[sig] \notin {"function", "SIG_DFL"}
          /\ Disposition(sig) # "SIG_IGN"
      BY <1>4, <2>1 DEF Interrupt, Ignored
    <2>3. query.sig # sig
      BY <1>3 DEF NoQuery, Signals
    <2>4. signal_list[sig] = "sig_suspender"
      BY <1>3, <2>2, <2>3 DEF MaskTypeOK, Disposition, Handlers, UserHandlers
    <2> QED
      BY <2>1, <2>4 DEF Interrupt, raise, Ignored, sig_suspender
  <1>5. CASE sig \in owed
    <2>1. CASE Raising(sig)
      <3>1. CASE raise_pending /\ sig = Current.signo
        BY <1>2, <3>1 DEF raise_pending
      <3> QED
        BY <1>3, <2>1, <3>1, RaisingStep
    <2>2. CASE sig \in pending
      <3>1. CASE test_pending /\ Current.signo = sig
        <4>1. calls # << >> /\ Current \in Call /\ Proceed([Current EXCEPT !.step = "raise"])
          BY <2>2, <3>1, GotoTypes DEF test_pending, InLoop
        <4>2. /\ [Current EXCEPT !.step = "raise"] \in Call
              /\ [Current EXCEPT !.step = "raise"].step = "raise"
              /\ [Current EXCEPT !.step = "raise"].signo = sig
          BY <3>1, <4>1 DEF Call, Steps
        <4> QED
          BY <4>1, <4>2, GotoEntries DEF Proceed, Raising
      <3>2. CASE ~(test_pending /\ Current.signo = sig)
        BY <2>2, <3>2 DEF MaskNext, mask_vars, Interrupt, sigprocmask, keep_signal, block_signal,
           save_handler, unblock_signal, clear_handler, test_pending, raise_pending,
           sigprocmask_return, signal, sigaction_query, sigaction_restore, raise,
           sig_suspender
      <3> QED
        BY <3>1, <3>2
    <2> QED
      BY <1>1, <1>5, <2>1, <2>2
  <1> QED
    BY <1>4, <1>5

-----------------------------------------------------------------------------
\* Every variable of the signal tables keeps its type, however deep handlers
\* nest.
THEOREM TypeCorrect == MaskSpec => [](MaskTypeOK /\ RaisesSignals)
  <1>1. MaskTypeOK /\ RaisesSignals /\ [MaskNext]_mask_vars => MaskTypeOK' /\ RaisesSignals'
    BY TypeStep, RaisingStep
  <1> QED
    BY <1>1, TypeInit, PTL DEF MaskSpec

\* No caught signal is lost, however deep handlers that call sigprocmask nest,
\* as long as the program does not read handlers with sigaction.
THEOREM NeverLost ==
  ASSUME "query" \notin Uses
  PROVE  MaskSpec => []NoSignalLost
  <1>1. MaskInit => NotQuerying /\ NoSignalLost
    BY DEF MaskInit, NoSignalLost, NotQuerying
  <1>2. NotQuerying /\ NoSignalLost /\ MaskTypeOK /\ RaisesSignals /\ [MaskNext]_mask_vars
          => NotQuerying' /\ NoSignalLost' /\ MaskTypeOK' /\ RaisesSignals'
    BY LostStep, TypeStep, RaisingStep DEF NotQuerying
  <1> QED
    BY <1>1, <1>2, TypeInit, PTL DEF MaskSpec

-----------------------------------------------------------------------------
(* Blocking and unblocking, for programs whose handlers do not call        *)
(* sigprocmask and that do not change the handler of a blocked signal (the *)
(* cases that SigMaskNestedMask and SigMaskResignal refute).               *)

\* The handler of a signal, seen through a sigaction that is reading it.
Installed(s) == IF query # NoQuery /\ query.sig = s THEN query.saved ELSE signal_list[s]

\* Handler, saved handler and pending set of s are as mask m says.
Fine(s, m) ==
  /\ s \in pending => s \in m
  /\ s \in m => Installed(s) = "sig_suspender" /\ prev_handlers[s] \in UserHandlers
  /\ s \notin m => Installed(s) \in UserHandlers /\ prev_handlers[s] = NoHandler

\* The same of the signal that the loop is working on, at each of its steps.
Visited(s, c) ==
  /\ c.step = "visit" => Fine(s, current_mask)
  /\ c.step = "save" => /\ signal_list[s] = "sig_suspender" /\ prev_handlers[s] = NoHandler
                        /\ c.old \in UserHandlers /\ s \in c.new_mask
  /\ c.step = "clear" => signal_list[s] \in UserHandlers
  /\ c.step \in {"pending", "raise"} => /\ signal_list[s] \in UserHandlers
                                        /\ prev_handlers[s] = NoHandler
  /\ c.step = "raise" => s \notin pending

\* The signals the loop has passed are as its new mask says, those before it
\* still as the old mask says.
Middle(c) ==
  /\ \A s \in Blockable : /\ s < c.signo => Fine(s, c.new_mask)
                          /\ s > c.signo => Fine(s, current_mask)
                          /\ s = c.signo => Visited(s, c)
  /\ \A s \in c.new_mask : s < c.signo \/ (s = c.signo /\ c.step = "save")
  /\ c.step \in {"save", "clear", "raise"} => c.signo \in Blockable

OneCall ==
  /\ MaskTypeOK
  /\ pending \subseteq Blockable
  /\ \A s \in Slots \ Blockable : prev_handlers[s] = NoHandler
  /\ Len(calls) <= 1
  /\ query # NoQuery => calls = << >> /\ signal_list[query.sig] = "SIG_IGN"
  /\ calls = << >> => \A s \in Blockable : Fine(s, current_mask)
  /\ calls # << >> => Middle(calls[1])

\* With one activation, the running one is the first and Proceed replaces it.
LEMMA OneTop ==
  ASSUME OneCall, calls # << >>
  PROVE  /\ Current = calls[1] /\ Current \in Call /\ Middle(Current) /\ query = NoQuery
         /\ Len(calls) = 1
         /\ \A f \in Call : Proceed(f) => calls' # << >> /\ Len(calls') = 1 /\ calls'[1] = f
  <1>1. Len(calls) = 1 /\ calls \in Seq(Call)
    <2>1. calls \in Seq(Call)
      BY DEF OneCall, MaskTypeOK
    <2>2. Len(calls) \in Nat /\ Len(calls) # 0
      BY <2>1
    <2>3. Len(calls) <= 1
      BY DEF OneCall
    <2>4. \A n \in Nat : n # 0 /\ n <= 1 => n = 1
      OBVIOUS
    <2> QED
      BY <2>1, <2>2, <2>3, <2>4
  <1>2. Current = calls[1] /\ Current \in Call
    BY <1>1, GotoTypes DEF Current, OneCall
  <1>3. ASSUME NEW f \in Call, Proceed(f)
        PROVE  calls' # << >> /\ Len(calls') = 1 /\ calls'[1] = f
    BY <1>1, <1>3 DEF Proceed
  <1> QED
    BY <1>1, <1>2, <1>3 DEF OneCall

\* A step of the loop that stays at its signal or goes to the next one keeps the
\* invariant if it leaves all other signals alone and does right by its own.
LEMMA LoopStep ==
  ASSUME OneCall, MaskTypeOK', calls # << >>, NEW c \in Call, c = Current, c.signo < SIGMAX,
         NEW f \in Call, Proceed(f), f.signo \in {c.signo, c.signo + 1},
         UNCHANGED <<current_mask, query>>, pending' \subseteq pending,
         \A s \in Blockable \ {c.signo} : /\ signal_list'[s] = signal_list[s]
                                          /\ prev_handlers'[s] = prev_handlers[s],
         \A s \in Slots \ Blockable : prev_handlers'[s] = NoHandler,
         \A s \in Slots \ {c.signo} : s \in f.new_mask <=> s \in c.new_mask,
         f.signo = c.signo + 1 =>
           f.step = "visit" /\ (c.signo \in Blockable => Fine(c.signo, f.new_mask)'),
         f.signo = c.signo =>
           /\ c.signo \in Blockable => Visited(c.signo, f)'
           /\ c.signo \in f.new_mask => f.step = "save"
           /\ f.step \in {"save", "clear", "raise"} => c.signo \in Blockable
  PROVE  OneCall'
  <1>1. /\ query = NoQuery /\ calls' # << >> /\ Len(calls') = 1 /\ calls'[1] = f
        /\ Middle(c)
    BY OneTop
  <1>2. /\ Blockable \subseteq Slots
        /\ \A s \in Slots : s \in Int
        /\ c.signo \in Slots /\ c.signo \in Int /\ f.signo \in Int
    BY SigMaskAssumption DEF Blockable, Signals, Slots, Call
  <1>3. ASSUME NEW s \in Blockable \ {c.signo}, NEW m, NEW n, s \in m <=> s \in n, Fine(s, m)
        PROVE  Fine(s, n)'
    BY <1>1, <1>3 DEF Fine, Installed
  <1>4. ASSUME NEW s \in Blockable, s < f.signo
        PROVE  Fine(s, f.new_mask)'
    <2>1. CASE s = c.signo
      BY <1>2, <1>4, <2>1
    <2>2. CASE s # c.signo
      <3>1. s < c.signo
        BY <1>2, <1>4, <2>2
      <3>2. Fine(s, c.new_mask)
        BY <1>1, <3>1 DEF Middle
      <3> QED
        BY <1>2, <1>3, <2>2, <3>2
    <2> QED
      BY <2>1, <2>2
  <1>5. ASSUME NEW s \in Blockable, s > c.signo
        PROVE  Fine(s, current_mask)'
    <2>1. Fine(s, current_mask)
      BY <1>1, <1>5 DEF Middle
    <2>2. Fine(s, current_mask)' <=> /\ s \in pending' => s \in current_mask
                                     /\ s \in current_mask =>
                                          /\ signal_list'[s] = "sig_suspender"
                                          /\ prev_handlers'[s] \in UserHandlers
                                     /\ s \notin current_mask =>
                                          /\ signal_list'[s] \in UserHandlers
                                          /\ prev_handlers'[s] = NoHandler
      BY <1>1 DEF Fine, Installed
    <2>3. s # c.signo
      BY <1>2, <1>5
    <2> QED
      BY <1>1, <2>1, <2>2, <2>3 DEF Fine, Installed
  <1>6. ASSUME NEW s \in Blockable, s = f.signo
        PROVE  Visited(s, f)'
    <2>1. CASE f.signo = c.signo
      BY <1>6, <2>1
    <2>2. CASE f.signo = c.signo + 1
      <3>1. s > c.signo /\ f.step = "visit"
        BY <1>2, <1>6, <2>2
      <3> QED
        BY <1>5, <3>1 DEF Visited
    <2> QED
      BY <2>1, <2>2
  <1>7. \A s \in f.new_mask : s < f.signo \/ (s = f.signo /\ f.step = "save")
    <2>1. ASSUME NEW s \in f.new_mask
          PROVE  s < f.signo \/ (s = f.signo /\ f.step = "save")
      <3>1. s \in Slots
        BY DEF Call
      <3>2. CASE s = c.signo
        BY <1>2, <3>2
      <3>3. CASE s # c.signo
        BY <1>1, <1>2, <3>1, <3>3 DEF Middle
      <3> QED
        BY <3>2, <3>3
    <2> QED
      BY <2>1
  <1>8. f.step \in {"save", "clear", "raise"} => f.signo \in Blockable
    BY <1>2
  <1>9. ASSUME NEW s \in Blockable, s > f.signo
        PROVE  s > c.signo
    BY <1>2, <1>9
  <1>10. Middle(f)'
    BY <1>4, <1>5, <1>6, <1>7, <1>8, <1>9 DEF Middle
  <1> QED
    BY <1>1, <1>10 DEF OneCall

\* Handlers that call nothing leave the stack alone.
LEMMA PlainRaise ==
  ASSUME "nested" \notin Uses, NEW sig, NEW base, raise(sig, base)
  PROVE  /\ calls' = base
         /\ signal_list[sig] = "sig_suspender" => pending' = pending \cup {sig}
         /\ signal_list[sig] # "sig_suspender" => pending' = pending
  BY DEF raise, sig_suspender, Ignored

\* Before the first call nothing is blocked.
LEMMA OneInit == MaskInit => OneCall
  <1> SUFFICES ASSUME MaskInit PROVE OneCall
    OBVIOUS
  <1>1. MaskTypeOK
    BY TypeInit
  <1>2. \A s \in Blockable : Fine(s, current_mask)
    BY SigMaskAssumption DEF MaskInit, Fine, Installed, Blockable, Signals, Slots
  <1> QED
    BY <1>1, <1>2 DEF MaskInit, OneCall

\* Every step keeps the masks, handlers and pending set in accord.
LEMMA CallStep ==
  ASSUME "nested" \notin Uses, "resignal" \notin Uses, RaisesSignals, OneCall, [MaskNext]_mask_vars
  PROVE  OneCall'
  <1>0. MaskTypeOK /\ MaskTypeOK'
    BY TypeStep DEF OneCall
  <1>c. \A s \in Slots \ Blockable : prev_handlers[s] = NoHandler
    BY DEF OneCall
  <1>a. Blockable \subseteq Signals /\ Blockable \subseteq Slots /\ Blockable \subseteq Nat
        /\ NoHandler \notin Handlers /\ "sig_suspender" \notin UserHandlers
    BY SigMaskAssumption DEF Blockable, Signals, Slots, NoHandler, Handlers, UserHandlers
  <1>1. ASSUME NEW sig \in Blockable, Interrupt(sig)
        PROVE  OneCall'
    <2>1. /\ calls' = calls
          /\ signal_list[sig] = "sig_suspender" => pending' = pending \cup {sig}
          /\ signal_list[sig] # "sig_suspender" => pending' = pending
          /\ UNCHANGED <<signal_list, current_mask, prev_handlers, query>>
      BY <1>1, PlainRaise DEF Interrupt
    <2>2. signal_list[sig] = "sig_suspender" => Installed(sig) = "sig_suspender"
      BY DEF Installed, OneCall
    <2>3. ASSUME NEW s \in Blockable, NEW m, Fine(s, m)
          PROVE  Fine(s, m)'
      BY <1>a, <2>1, <2>2, <2>3 DEF Fine, Installed
    <2>4. ASSUME calls # << >>
          PROVE  Middle(calls[1])'
      <3>1. Middle(calls[1])
        BY <2>4 DEF OneCall
      <3>2. ASSUME NEW s \in Blockable, s = calls[1].signo
            PROVE  Visited(s, calls[1])'
        BY <1>a, <2>1, <2>3, <3>1, <3>2 DEF Middle, Visited
      <3> QED
        BY <2>1, <2>3, <3>1, <3>2 DEF Middle
    <2> QED
      BY <1>0, <2>1, <2>3, <2>4 DEF OneCall
  <1>2. CASE sigprocmask
    <2>1. PICK how \in Hows, set \in Sets : calls' = <<NewCall(how, set)>>
      BY <1>2 DEF sigprocmask
    <2> DEFINE c == NewCall(how, set)
    <2>2. c.signo = 0 /\ c.step = "visit" /\ c.new_mask = {}
      BY DEF NewCall
    <2>3. calls' # << >> /\ Len(calls') = 1 /\ calls'[1] = c
      BY <2>1
    <2>4. /\ UNCHANGED <<signal_list, current_mask, pending, prev_handlers, query>>
          /\ query = NoQuery /\ calls = << >>
      BY <1>2 DEF sigprocmask, InUserCode
    <2>5. \A s \in Blockable : s > 0 /\ Fine(s, current_mask)'
      BY <1>a, <2>4 DEF OneCall, Blockable, Signals, Fine, Installed
    <2>6. Middle(c)'
      BY <1>a, <2>2, <2>5 DEF Middle
    <2> HIDE DEF c
    <2> QED
      BY <1>0, <2>3, <2>4, <2>6 DEF OneCall
  <1>b. ASSUME calls # << >>, Current.signo < SIGMAX
        PROVE  /\ Current \in Call /\ Current.signo \in Slots /\ Current.signo + 1 \in 0..SIGMAX
               /\ Middle(Current) /\ query = NoQuery /\ Current.signo # Current.signo + 1
    <2>1. /\ Current \in Call /\ Current.signo \in Slots /\ Current.signo + 1 \in 0..SIGMAX
          /\ Middle(Current) /\ query = NoQuery
      BY <1>0, <1>b, OneTop, LoopTypes
    <2>2. Current.signo \in Int
      BY <2>1, SigMaskAssumption DEF Slots
    <2> QED
      BY <2>1, <2>2
  <1>3. CASE keep_signal
    <2>1. /\ calls # << >> /\ Current.step = "visit" /\ Current.signo < SIGMAX
          /\ ~Blocks /\ ~Unblocks
          /\ UNCHANGED <<signal_list, current_mask, pending, prev_handlers, query>>
      BY <1>3 DEF keep_signal, InLoop
    <2> DEFINE m == IF Blocked THEN NextSigno.new_mask \cup {Current.signo}
                               ELSE NextSigno.new_mask
    <2>2. NextSigno \in Call /\ m \in SUBSET Slots
      BY <1>0, <1>b, <2>1, LoopTypes, ZenonT(60) DEF Call
    <2>3. PICK c \in Call, f \in Call :
            /\ c = Current /\ f = [NextSigno EXCEPT !.new_mask = m] /\ Proceed(f)
      BY <1>3, <1>b, <2>1, <2>2 DEF keep_signal, Call
    <2>4. /\ f.signo = c.signo + 1 /\ f.step = "visit"
          /\ f.new_mask = IF c.signo \in current_mask THEN c.new_mask \cup {c.signo}
                                                      ELSE c.new_mask
      BY <2>2, <2>3 DEF Call, NextSigno, Blocked
    <2>5. ASSUME c.signo \in Blockable
          PROVE  Fine(c.signo, f.new_mask)'
      <3>1. Fine(c.signo, current_mask)
        BY <1>b, <2>1, <2>3, <2>5 DEF Middle, Visited
      <3>2. c.signo \in f.new_mask <=> c.signo \in current_mask
        <4>1. c.signo \notin c.new_mask
          BY <1>b, <2>1, <2>3 DEF Middle, Slots
        <4> QED
          BY <2>4, <4>1
      <3> QED
        BY <2>1, <3>1, <3>2 DEF Fine, Installed
    <2>6. \A s \in Slots \ {c.signo} : s \in f.new_mask <=> s \in c.new_mask
      BY <2>4
    <2> QED
      BY <1>0, <1>b, <1>c, <2>1, <2>3, <2>4, <2>5, <2>6, LoopStep
  <1>4. CASE block_signal
    <2>1. /\ calls # << >> /\ Current.step = "visit" /\ Current.signo < SIGMAX /\ Blocks
          /\ UNCHANGED <<current_mask, pending, prev_handlers, query>>
      BY <1>4 DEF block_signal, InLoop
    <2> DEFINE add == [Current EXCEPT !.new_mask = @ \cup {Current.signo}]
    <2>2. add \in Call
      BY <1>b, <2>1 DEF Call
    <2>3. ASSUME Current.signo \in Blockable
          PROVE  Fine(Current.signo, current_mask) /\ Current.signo \notin current_mask
      BY <1>b, <2>1, <2>3 DEF Middle, Visited, Blocks, Blocked
    <2>4. CASE /\ Current.signo = SIGKILL \/ prev_handlers[Current.signo] # NoHandler \/ Current.signo = 0
               /\ Proceed([add EXCEPT !.signo = @ + 1])
               /\ UNCHANGED signal_list
      <3>1. PICK c \in Call, f \in Call :
              c = Current /\ f = [add EXCEPT !.signo = @ + 1] /\ Proceed(f)
        BY <1>b, <2>1, <2>2, <2>4 DEF Call
      <3>2. /\ f.signo = c.signo + 1 /\ f.step = "visit"
            /\ f.new_mask = c.new_mask \cup {c.signo}
        BY <2>1, <2>2, <3>1 DEF Call
      <3>3. c.signo \notin Blockable
        BY <2>3, <2>4, <3>1 DEF Fine, Blockable, Signals
      <3>4. \A s \in Slots \ {c.signo} : s \in f.new_mask <=> s \in c.new_mask
        BY <3>2
      <3> QED
        BY <1>0, <1>b, <1>c, <2>1, <2>4, <3>1, <3>2, <3>3, <3>4, LoopStep
    <2>5. CASE /\ Current.signo \in Blockable /\ prev_handlers[Current.signo] = NoHandler
               /\ Proceed([add EXCEPT !.step = "save", !.old = signal_list[Current.signo]])
               /\ signal_list' = [signal_list EXCEPT ![Current.signo] = "sig_suspender"]
      <3>1. PICK c \in Call, f \in Call :
              /\ c = Current /\ Proceed(f)
              /\ f = [add EXCEPT !.step = "save", !.old = signal_list[Current.signo]]
        <4>1. [add EXCEPT !.step = "save", !.old = signal_list[Current.signo]] \in Call
          BY <1>0, <1>a, <2>2, <2>5 DEF Call, Steps, MaskTypeOK
        <4> QED
          BY <1>b, <2>1, <2>5, <4>1
      <3>2. /\ f.signo = c.signo /\ f.step = "save" /\ f.old = signal_list[c.signo]
            /\ f.new_mask = c.new_mask \cup {c.signo}
        BY <2>2, <3>1 DEF Call
      <3>3. signal_list[c.signo] \in UserHandlers
        BY <1>b, <2>1, <2>3, <2>5, <3>1 DEF Fine, Installed
      <3>4. /\ \A s \in Blockable \ {c.signo} : signal_list'[s] = signal_list[s]
            /\ signal_list'[c.signo] = "sig_suspender"
        BY <1>0, <1>a, <2>5, <3>1 DEF MaskTypeOK
      <3>5. Visited(c.signo, f)'
        BY <2>1, <2>5, <3>1, <3>2, <3>3, <3>4 DEF Visited
      <3>6. \A s \in Slots \ {c.signo} : s \in f.new_mask <=> s \in c.new_mask
        BY <3>2
      <3> QED
        BY <1>0, <1>b, <1>c, <2>1, <2>5, <3>1, <3>2, <3>4, <3>5, <3>6, LoopStep
    <2> QED
      BY <1>4, <2>4, <2>5 DEF block_signal
  <1>5. CASE save_handler
    <2>1. /\ calls # << >> /\ Current.step = "save" /\ Current.signo < SIGMAX /\ Proceed(NextSigno)
          /\ prev_handlers' = [prev_handlers EXCEPT ![Current.signo] = Current.old]
          /\ UNCHANGED <<signal_list, current_mask, pending, query>>
      BY <1>5 DEF save_handler, InLoop
    <2>2. PICK c \in Call, f \in Call : c = Current /\ f = NextSigno /\ Proceed(f)
      BY <1>0, <1>b, <2>1, LoopTypes
    <2>3. f.signo = c.signo + 1 /\ f.step = "visit" /\ f.new_mask = c.new_mask
      BY <2>2 DEF Call, NextSigno
    <2>4. /\ c.signo \in Blockable /\ signal_list[c.signo] = "sig_suspender"
          /\ c.old \in UserHandlers /\ c.signo \in c.new_mask
      BY <1>b, <2>1, <2>2 DEF Middle, Visited
    <2>5. /\ \A s \in Blockable \ {c.signo} : prev_handlers'[s] = prev_handlers[s]
          /\ prev_handlers'[c.signo] = c.old
          /\ \A s \in Slots \ Blockable : prev_handlers'[s] = NoHandler
      BY <1>0, <1>a, <1>c, <2>1, <2>2, <2>4 DEF MaskTypeOK
    <2>6. Fine(c.signo, f.new_mask)'
      BY <1>b, <2>1, <2>3, <2>4, <2>5 DEF Fine, Installed
    <2> QED
      BY <1>0, <1>b, <2>1, <2>2, <2>3, <2>5, <2>6, LoopStep
  <1>6. CASE unblock_signal
    <2>1. /\ calls # << >> /\ Current.step = "visit" /\ Current.signo < SIGMAX /\ Blocked
          /\ UNCHANGED <<current_mask, pending, prev_handlers, query>>
      BY <1>6 DEF unblock_signal, InLoop, Unblocks
    <2>2. ASSUME NEW st \in {"clear", "pending"}, Proceed([Current EXCEPT !.step = st])
          PROVE  \E c \in Call, f \in Call :
                   /\ c = Current /\ Proceed(f) /\ f.signo = c.signo /\ f.step = st
                   /\ f.new_mask = c.new_mask /\ c.signo \notin c.new_mask
      <3>1. /\ [Current EXCEPT !.step = st] \in Call
            /\ [Current EXCEPT !.step = st].signo = Current.signo
            /\ [Current EXCEPT !.step = st].step = st
            /\ [Current EXCEPT !.step = st].new_mask = Current.new_mask
        BY <1>b, <2>1 DEF Call, Steps
      <3>2. Current.signo \notin Current.new_mask
        BY <1>b, <2>1, SigMaskAssumption DEF Middle, Slots
      <3> QED
        BY <1>b, <2>1, <2>2, <3>1, <3>2
    <2>3. ASSUME Current.signo \in Blockable
          PROVE  /\ prev_handlers[Current.signo] \in UserHandlers
                 /\ prev_handlers[Current.signo] # NoHandler
      BY <1>a, <1>b, <2>1, <2>3 DEF Middle, Visited, Fine, Blocked, Handlers
    <2>4. CASE /\ prev_handlers[Current.signo] # NoHandler
               /\ signal_list' = [signal_list EXCEPT ![Current.signo] = prev_handlers[Current.signo]]
               /\ Proceed([Current EXCEPT !.step = "clear"])
      <3>1. PICK c \in Call, f \in Call :
              /\ c = Current /\ Proceed(f) /\ f.signo = c.signo /\ f.step = "clear"
              /\ f.new_mask = c.new_mask /\ c.signo \notin c.new_mask
        BY <2>2, <2>4
      <3>2. CASE c.signo \in Blockable
        <4>1. /\ \A s \in Blockable \ {c.signo} : signal_list'[s] = signal_list[s]
              /\ signal_list'[c.signo] = prev_handlers[c.signo]
          BY <1>0, <1>a, <2>4, <3>1, <3>2 DEF MaskTypeOK
        <4>2. Visited(c.signo, f)'
          BY <2>3, <3>1, <3>2, <4>1 DEF Visited
        <4> QED
          BY <1>0, <1>b, <1>c, <2>1, <3>1, <3>2, <4>1, <4>2, LoopStep
      <3> QED
        BY <1>b, <1>c, <2>1, <2>4, <3>1, <3>2
    <2>5. CASE /\ prev_handlers[Current.signo] = NoHandler
               /\ Proceed([Current EXCEPT !.step = "pending"])
               /\ UNCHANGED signal_list
      <3>1. PICK c \in Call, f \in Call :
              /\ c = Current /\ Proceed(f) /\ f.signo = c.signo /\ f.step = "pending"
              /\ f.new_mask = c.new_mask /\ c.signo \notin c.new_mask
        BY <2>2, <2>5
      <3>2. c.signo \notin Blockable
        BY <2>3, <2>5, <3>1
      <3> QED
        BY <1>0, <1>b, <1>c, <2>1, <2>5, <3>1, <3>2, LoopStep
    <2> QED
      BY <1>6, <2>4, <2>5 DEF unblock_signal
  <1>7. CASE clear_handler
    <2>1. /\ calls # << >> /\ Current.step = "clear" /\ Current.signo < SIGMAX
          /\ Proceed([Current EXCEPT !.step = "pending"])
          /\ prev_handlers' = [prev_handlers EXCEPT ![Current.signo] = NoHandler]
          /\ UNCHANGED <<signal_list, current_mask, pending, query>>
      BY <1>7 DEF clear_handler, InLoop
    <2>2. PICK c \in Call, f \in Call : c = Current /\ f = [Current EXCEPT !.step = "pending"] /\ Proceed(f)
      BY <1>b, <2>1 DEF Call, Steps
    <2>3. f.signo = c.signo /\ f.step = "pending" /\ f.new_mask = c.new_mask
      BY <2>2 DEF Call
    <2>4. /\ c.signo \in Blockable /\ signal_list[c.signo] \in UserHandlers
          /\ c.signo \notin c.new_mask
      BY <1>b, <2>1, <2>2, SigMaskAssumption DEF Middle, Visited, Slots
    <2>5. /\ \A s \in Slots \ {c.signo} : prev_handlers'[s] = prev_handlers[s]
          /\ prev_handlers'[c.signo] = NoHandler
      BY <1>0, <1>a, <2>1, <2>2, <2>4 DEF MaskTypeOK
    <2>6. \A s \in Slots \ Blockable : prev_handlers'[s] = NoHandler
      BY <1>c, <2>5
    <2>7. Visited(c.signo, f)'
      BY <2>1, <2>3, <2>4, <2>5 DEF Visited
    <2> QED
      BY <1>0, <1>a, <1>b, <2>1, <2>2, <2>3, <2>4, <2>5, <2>6, <2>7, LoopStep
  <1>8. CASE test_pending
    <2>1. /\ calls # << >> /\ Current.step = "pending" /\ Current.signo < SIGMAX
          /\ UNCHANGED <<signal_list, current_mask, prev_handlers, query>>
      BY <1>8 DEF test_pending, InLoop
    <2>2. Current.signo \notin Current.new_mask
      BY <1>b, <2>1, SigMaskAssumption DEF Middle, Slots
    <2>3. ASSUME Current.signo \in Blockable
          PROVE  signal_list[Current.signo] \in UserHandlers /\ prev_handlers[Current.signo] = NoHandler
      BY <1>b, <2>1, <2>3 DEF Middle, Visited
    <2>4. CASE /\ Current.signo \in pending
               /\ pending' = pending \ {Current.signo}
               /\ Proceed([Current EXCEPT !.step = "raise"])
      <3>1. PICK c \in Call, f \in Call : c = Current /\ f = [Current EXCEPT !.step = "raise"] /\ Proceed(f)
        BY <1>b, <2>1, <2>4 DEF Call, Steps
      <3>2. f.signo = c.signo /\ f.step = "raise" /\ f.new_mask = c.new_mask
        BY <3>1 DEF Call
      <3>3. c.signo \in Blockable
        BY <2>4, <3>1 DEF OneCall
      <3>4. Visited(c.signo, f)'
        BY <2>1, <2>3, <2>4, <3>1, <3>2, <3>3 DEF Visited
      <3> QED
        BY <1>0, <1>b, <1>c, <2>1, <2>2, <2>4, <3>1, <3>2, <3>3, <3>4, LoopStep
    <2>5. CASE Current.signo \notin pending /\ Proceed(NextSigno) /\ UNCHANGED pending
      <3>1. PICK c \in Call, f \in Call : c = Current /\ f = NextSigno /\ Proceed(f)
        BY <1>0, <1>b, <2>1, <2>5, LoopTypes
      <3>2. f.signo = c.signo + 1 /\ f.step = "visit" /\ f.new_mask = c.new_mask
        BY <3>1 DEF Call, NextSigno
      <3>3. c.signo \in Blockable => Fine(c.signo, f.new_mask)'
        BY <1>b, <2>1, <2>2, <2>3, <2>5, <3>1, <3>2 DEF Fine, Installed
      <3> QED
        BY <1>0, <1>b, <1>c, <2>1, <2>5, <3>1, <3>2, <3>3, LoopStep
    <2> QED
      BY <1>8, <2>4, <2>5 DEF test_pending
  <1>9. CASE raise_pending
    <2>1. /\ calls # << >> /\ Current.step = "raise" /\ Current.signo < SIGMAX
          /\ raise(Current.signo, [calls EXCEPT ![Len(calls)] = NextSigno])
          /\ UNCHANGED <<signal_list, current_mask, prev_handlers, query>>
      BY <1>9 DEF raise_pending, InLoop
    <2>2. /\ Current.signo \in Blockable /\ Current.signo \notin Current.new_mask
          /\ Current.signo \notin pending
          /\ signal_list[Current.signo] \in UserHandlers /\ prev_handlers[Current.signo] = NoHandler
      BY <1>b, <2>1, SigMaskAssumption DEF Middle, Visited, Slots
    <2>3. Proceed(NextSigno) /\ pending' = pending
      BY <1>a, <2>1, <2>2, PlainRaise DEF Proceed
    <2>4. PICK c \in Call, f \in Call : c = Current /\ f = NextSigno /\ Proceed(f)
      BY <1>0, <1>b, <2>1, <2>3, LoopTypes
    <2>5. f.signo = c.signo + 1 /\ f.step = "visit" /\ f.new_mask = c.new_mask
      BY <2>4 DEF Call, NextSigno
    <2>6. Fine(c.signo, f.new_mask)'
      BY <1>b, <2>1, <2>2, <2>3, <2>4, <2>5 DEF Fine, Installed
    <2> QED
      BY <1>0, <1>b, <1>c, <2>1, <2>3, <2>4, <2>5, <2>6, LoopStep
  <1>10. CASE sigprocmask_return
    <2>1. /\ calls # << >> /\ Current.signo = SIGMAX /\ current_mask' = Current.new_mask
          /\ calls' = SubSeq(calls, 1, Len(calls) - 1)
          /\ UNCHANGED <<signal_list, pending, prev_handlers, query>>
      BY <1>10 DEF sigprocmask_return
    <2>2. Len(calls) = 1 /\ Middle(Current) /\ query = NoQuery
      BY <2>1, OneTop
    <2>3. calls' = << >>
      BY <1>0, <2>1, <2>2, SubSeqProperties DEF MaskTypeOK
    <2>4. ASSUME NEW s \in Blockable
          PROVE  Fine(s, current_mask)'
      <3>1. s < Current.signo
        BY <2>1, SigMaskAssumption DEF Blockable, Signals
      <3>2. Fine(s, Current.new_mask)
        BY <2>2, <3>1 DEF Middle
      <3> QED
        BY <2>1, <3>2 DEF Fine, Installed
    <2> QED
      BY <1>0, <2>1, <2>2, <2>3, <2>4 DEF OneCall
  <1>11. CASE signal
    <2>1. PICK sig \in Blockable, h \in UserHandlers :
            sig \notin current_mask /\ signal_list' = [signal_list EXCEPT ![sig] = h]
      BY <1>11 DEF signal
    <2>2. /\ calls = << >> /\ query = NoQuery
          /\ UNCHANGED <<current_mask, pending, prev_handlers, calls, query>>
      BY <1>11 DEF signal, InUserCode
    <2>3. ASSUME NEW s \in Blockable
          PROVE  Fine(s, current_mask)'
      BY <1>0, <1>a, <2>1, <2>2 DEF OneCall, Fine, Installed, MaskTypeOK
    <2> QED
      BY <1>0, <2>2, <2>3 DEF OneCall
  <1>12. CASE sigaction_query
    <2>1. PICK sig \in Blockable :
            /\ query' = [sig |-> sig, saved |-> signal_list[sig]]
            /\ signal_list' = [signal_list EXCEPT ![sig] = "SIG_IGN"]
      BY <1>12 DEF sigaction_query
    <2>2. /\ calls = << >> /\ query = NoQuery
          /\ UNCHANGED <<current_mask, pending, prev_handlers, calls>>
      BY <1>12 DEF sigaction_query, InUserCode
    <2>3. query' # NoQuery /\ query'.sig = sig /\ query'.saved = signal_list[sig]
      BY <2>1 DEF NoQuery, Blockable, Signals
    <2>4. ASSUME NEW s \in Blockable
          PROVE  Fine(s, current_mask)'
      BY <1>0, <1>a, <2>1, <2>2, <2>3 DEF OneCall, Fine, Installed, MaskTypeOK
    <2>5. signal_list'[sig] = "SIG_IGN"
      BY <1>0, <1>a, <2>1 DEF MaskTypeOK
    <2> QED
      BY <1>0, <2>2, <2>3, <2>4, <2>5 DEF OneCall
  <1>13. CASE sigaction_restore
    <2>1. /\ calls = << >> /\ query # NoQuery /\ query' = NoQuery
          /\ signal_list' = [signal_list EXCEPT ![query.sig] = query.saved]
          /\ UNCHANGED <<current_mask, pending, prev_handlers, calls>>
      BY <1>13 DEF sigaction_restore
    <2>2. ASSUME NEW s \in Blockable
          PROVE  Fine(s, current_mask)'
      <3>1. signal_list'[s] = Installed(s)
        BY <1>0, <1>a, <2>1 DEF Installed, MaskTypeOK
      <3>2. Fine(s, current_mask)
        BY <2>1 DEF OneCall
      <3> QED
        BY <2>1, <3>1, <3>2 DEF Fine, Installed
    <2> QED
      BY <1>0, <2>1, <2>2 DEF OneCall
  <1>14. CASE UNCHANGED mask_vars
    <2>1. UNCHANGED <<signal_list, current_mask, pending, prev_handlers, calls, query>>
      BY <1>14 DEF mask_vars
    <2> QED
      BY <1>0, <2>1 DEF OneCall, Middle, Visited, Fine, Installed
  <1> QED
    BY <1>1, <1>2, <1>3, <1>4, <1>5, <1>6, <1>7, <1>8, <1>9, <1>10, <1>11, <1>12,
       <1>13, <1>14 DEF MaskNext

\* Mask, handlers and pending set are in accord in every state, in the middle of
\* the loop too.
LEMMA AlwaysInAccord ==
  ASSUME "nested" \notin Uses, "resignal" \notin Uses
  PROVE  MaskSpec => []OneCall
  <1>1. MaskInit => OneCall /\ RaisesSignals
    BY OneInit, TypeInit
  <1>2. OneCall /\ RaisesSignals /\ [MaskNext]_mask_vars => OneCall' /\ RaisesSignals'
    BY CallStep, RaisingStep DEF OneCall
  <1> QED
    BY <1>1, <1>2, PTL DEF MaskSpec

\* Between calls no signal has a handler to restore, is pending or has
\* sig_suspender unless the mask says so, and the other way round.
LEMMA AccordInUserCode ==
  ASSUME OneCall, InUserCode
  PROVE  /\ pending \subseteq current_mask
         /\ \A s \in Blockable :
              /\ s \in current_mask => signal_list[s] = "sig_suspender"
              /\ s \notin current_mask => /\ signal_list[s] # "sig_suspender"
                                          /\ prev_handlers[s] = NoHandler
  <1>1. query = NoQuery /\ pending \subseteq Blockable
        /\ \A s \in Blockable : Fine(s, current_mask)
    BY DEF OneCall, InUserCode
  <1> QED
    BY <1>1 DEF Fine, Installed, UserHandlers

\* Between calls of sigprocmask a blocked signal cannot reach the program's
\* handler, whatever signal came at whatever step of the calls before.
THEOREM MaskAlwaysKept ==
  ASSUME "nested" \notin Uses, "resignal" \notin Uses
  PROVE  MaskSpec => []BlockedIsSuspended
  <1>1. OneCall => BlockedIsSuspended
    BY AccordInUserCode DEF BlockedIsSuspended
  <1> QED
    BY <1>1, AlwaysInAccord, PTL

\* Between calls a signal outside the mask has the program's own handler back, and
\* no saved handler is left that a later call could restore a second time.
THEOREM HandlersAlwaysBack ==
  ASSUME "nested" \notin Uses, "resignal" \notin Uses
  PROVE  MaskSpec => []UnblockedIsRestored
  <1>1. OneCall => UnblockedIsRestored
    BY AccordInUserCode DEF UnblockedIsRestored
  <1> QED
    BY <1>1, AlwaysInAccord, PTL

\* When sigprocmask returns, every pending signal that it unblocked was delivered.
THEOREM PendingAlwaysBlocked ==
  ASSUME "nested" \notin Uses, "resignal" \notin Uses
  PROVE  MaskSpec => []PendingIsBlocked
  <1>1. OneCall => PendingIsBlocked
    BY AccordInUserCode DEF PendingIsBlocked
  <1> QED
    BY <1>1, AlwaysInAccord, PTL

-----------------------------------------------------------------------------
(* ITimer: the order of start_timer and stop_timer.                        *)

Stopping == {"t_count", "t_vec", "t_off", "t_dfl"}
Setting == {"s_rel", "s_exp", "s_next", "s_countdown", "s_on", "s_signal", "s_hook"}
Acting == {"a_now", "a_test", "a_reload", "a_next", "a_countdown", "a_raise"}

\* The order in which start_timer and stop_timer change flag, handler and vector:
\* what holds while activation i of the stack is at its location.
InOrder(i) ==
  LET c == stack[i]
  IN  /\ c.pc \in Stopping \cup IF i = 1 THEN {"user", "dos"} \cup Setting ELSE Acting
      /\ c.pc \in Stopping => c.ret = IF i = 1 THEN "s_rel" ELSE "a_raise"
      /\ c.pc \in {"t_off", "t_dfl"} => ~hooked
      /\ c.pc \in {"s_signal", "s_hook"} =>
           Len(stack) <= i /\ ~hooked /\ ~latched /\ timer_on
      /\ c.pc = "s_hook" => handler = "timer_action"

Ordered ==
  /\ hooked => timer_on
  /\ hooked \/ latched => handler = "timer_action"
  /\ \A i \in 1..Len(stack) : InOrder(i)

-----------------------------------------------------------------------------
(* The stack of activations.                                               *)

StackOK == stack \in Seq(Context) /\ Len(stack) >= 1

\* The running activation is one of the stack.
LEMMA TopType == StackOK => Top \in Context /\ Len(stack) \in Nat \ {0}
  BY DEF StackOK, Top

\* Activations keep their type when a field of them changes.
LEMMA ContextType ==
  /\ Blank \in Context
  /\ \A c \in Context : /\ \A p \in PCs : [c EXCEPT !.pc = p] \in Context
                        /\ \A t \in Timers : [c EXCEPT !.t = t] \in Context
                        /\ \A F \in SUBSET Timers : [c EXCEPT !.fire = F] \in Context
                        /\ \A n \in Int : [c EXCEPT !.next = n] \in Context
                        /\ \A p \in PCs : [c EXCEPT !.ret = p] \in Context
  <1>1. Blank \in Context
    BY DEF Blank, Context, PCs, Timers
  <1>2. ASSUME NEW c \in Context
        PROVE  /\ \A p \in PCs : [c EXCEPT !.pc = p] \in Context
               /\ \A t \in Timers : [c EXCEPT !.t = t] \in Context
               /\ \A F \in SUBSET Timers : [c EXCEPT !.fire = F] \in Context
               /\ \A n \in Int : [c EXCEPT !.next = n] \in Context
               /\ \A p \in PCs : [c EXCEPT !.ret = p] \in Context
    BY DEF Context
  <1> QED
    BY <1>1, <1>2

\* Set replaces the running activation.
LEMMA SetStack ==
  ASSUME StackOK, NEW c \in Context, Set(c)
  PROVE  /\ StackOK' /\ Len(stack') = Len(stack) /\ Top' = c
         /\ stack'[Len(stack)] = c
         /\ \A i \in 1..(Len(stack) - 1) : stack'[i] = stack[i]
  BY DEF StackOK, Set, Top

\* A stack holds one activation or more than one.
LEMMA Depth == ASSUME StackOK PROVE Len(stack) = 1 \/ Len(stack) \in Nat \ {0, 1}
  <1>1. Len(stack) \in Nat \ {0}
    BY TopType
  <1>2. \A n \in Nat \ {0} : n = 1 \/ n \in Nat \ {0, 1}
    OBVIOUS
  <1> QED
    BY <1>1, <1>2, Zenon

\* Return removes it, or returns to the program.
LEMMA ReturnStack ==
  ASSUME StackOK, Return
  PROVE  /\ StackOK'
         /\ \/ Len(stack) = 1 /\ stack' = <<Blank>>
            \/ /\ Len(stack) \in Nat \ {0, 1} /\ Len(stack') = Len(stack) - 1
               /\ \A i \in 1..(Len(stack) - 1) : stack'[i] = stack[i]
  <1>1. CASE Len(stack) = 1
    BY <1>1, ContextType DEF Return, StackOK
  <1>2. CASE Len(stack) \in Nat \ {0, 1}
    <2>1. stack' = SubSeq(stack, 1, Len(stack) - 1)
      <3>1. Len(stack) # 1
        BY <1>2, Zenon
      <3> QED
        BY <3>1, Zenon DEF Return
    <2>2. PICK n \in Nat \ {0, 1} : n = Len(stack)
      BY <1>2
    <2>3. stack \in Seq(Context) /\ stack' = SubSeq(stack, 1, n - 1) /\ n - 1 \in 1..n
      BY <2>1, <2>2 DEF StackOK
    <2> QED
      BY <2>2, <2>3 DEF StackOK
  <1> QED
    BY <1>1, <1>2, Depth

\* Deliver adds one.
LEMMA PushStack ==
  ASSUME StackOK, NEW c \in Context, stack' = Append(stack, c)
  PROVE  /\ StackOK' /\ Len(stack') = Len(stack) + 1 /\ Top' = c
         /\ stack'[Len(stack) + 1] = c
         /\ \A i \in 1..Len(stack) : stack'[i] = stack[i]
  BY DEF StackOK, Top

\* Goto changes the location of the running activation.
LEMMA GotoStack ==
  ASSUME StackOK, NEW p \in PCs, Goto(p)
  PROVE  /\ StackOK' /\ Len(stack') = Len(stack) /\ Top' = [Top EXCEPT !.pc = p]
         /\ stack'[Len(stack)] = [Top EXCEPT !.pc = p]
         /\ \A i \in 1..(Len(stack) - 1) : stack'[i] = stack[i]
  <1>1. [Top EXCEPT !.pc = p] \in Context
    BY TopType, ContextType
  <1> QED
    BY <1>1, SetStack DEF Goto

-----------------------------------------------------------------------------
(* Types.                                                                  *)

DataOK ==
  /\ now \in 1..Horizon /\ u_now \in 0..now
  /\ exp \in [Timers -> Nat] /\ rel \in [Timers -> Nat]
  /\ countdown \in Nat \cup {Never}
  /\ due \in [Timers -> Nat] /\ early \in Nat
  /\ sets \in 0..MaxSets

FlagsOK ==
  /\ slow \in SlowSystems
  /\ timer_on \in BOOLEAN /\ hooked \in BOOLEAN /\ latched \in BOOLEAN
  /\ handler \in {"SIG_DFL", "timer_action"}
  /\ killed \in BOOLEAN /\ stalled \in BOOLEAN

\* The type invariant in the parts that the steps below keep.
LEMMA TypeParts ==
  TypeOK <=> DataOK /\ FlagsOK /\ StackOK /\ Len(stack) <= MaxNest + 1
  <1>1. stack \in Seq(Context) =>
          (Len(stack) \in 1..(MaxNest + 1) <=> Len(stack) >= 1 /\ Len(stack) <= MaxNest + 1)
    BY ITimerAssumption
  <1> QED
    BY <1>1, Zenon DEF TypeOK, DataOK, FlagsOK, StackOK

\* Every step keeps the types of flags, vector and handler.
LEMMA FlagsStep == FlagsOK /\ [Next]_vars => FlagsOK'
  <1> SUFFICES ASSUME FlagsOK, [Next]_vars PROVE FlagsOK'
    OBVIOUS
  <1> USE DEF FlagsOK, clocks
  <1>1. CASE Advance \/ Deliver \/ DosCall \/ DosReturn \/ getitimer \/ setitimer
    BY <1>1, Zenon DEF Advance, timer_hdlr, Deliver, DosCall, DosReturn, getitimer, setitimer
  <1>2. CASE set_rel \/ set_exp \/ start_next \/ start_countdown \/ start_on \/ start_signal
             \/ start_hook
    BY <1>2, Zenon DEF set_rel, set_exp, start_next, start_countdown, start_on, start_signal,
                       start_hook
  <1>3. CASE stop_count \/ stop_vec \/ stop_off \/ stop_dfl
    BY <1>3, Zenon DEF stop_count, stop_vec, stop_off, stop_dfl
  <1>4. CASE action_now \/ action_test \/ action_reload \/ action_countdown \/ action_raise
    BY <1>4, Zenon DEF action_now, action_test, action_reload, action_countdown, action_raise
  <1>5. CASE action_next
    BY <1>5, Zenon DEF action_next
  <1>6. CASE UNCHANGED vars
    BY <1>6, Zenon DEF vars
  <1> QED
    BY <1>1, <1>2, <1>3, <1>4, <1>5, <1>6, Zenon DEF Next

\* GetNextEvent is the distance of the first armed timer.
LEMMA NextEventType ==
  ASSUME DataOK
  PROVE  /\ GetNextEvent \in Int
         /\ \A t \in Timers : exp[t] # 0 => GetNextEvent <= exp[t] - u_now
         /\ (\E t \in Timers : exp[t] # 0) =>
              \E t \in Timers : exp[t] # 0 /\ GetNextEvent = exp[t] - u_now
  <1> DEFINE on == {t \in Timers : exp[t] # 0}
             least == CHOOSE e \in {exp[t] : t \in on} : \A t \in on : e <= exp[t]
  <1>1. u_now \in Int /\ \A t \in Timers : exp[t] \in Nat
    BY DEF DataOK
  <1>2. CASE on = {}
    BY <1>1, <1>2 DEF GetNextEvent
  <1>3. CASE on # {}
    <2>1. \E t \in on : \A u \in on : exp[t] <= exp[u]
      BY <1>1, <1>3 DEF Timers
    <2>2. \E e \in {exp[t] : t \in on} : \A t \in on : e <= exp[t]
      BY <2>1
    <2>3. least \in {exp[t] : t \in on} /\ \A t \in on : least <= exp[t]
      BY <2>2
    <2>4. GetNextEvent = least - u_now
      BY <1>3 DEF GetNextEvent
    <2> HIDE DEF least
    <2> QED
      BY <1>1, <1>3, <2>3, <2>4
  <1> QED
    BY <1>2, <1>3

\* Rounding to whole ticks stays in the naturals.
LEMMA RoundUpType == \A v \in Nat : RoundUp(v) \in Nat
  BY ITimerAssumption DEF RoundUp

\* The countdown ends at the last tick that is no later than n from now.
LEMMA CountdownType ==
  ASSUME NEW n \in Int
  PROVE  Countdown(n) \in Nat /\ (Countdown(n) = 0 \/ (Countdown(n) + 1) * TICK <= n)
  <1>1. PICK q \in Int : q = n \div TICK /\ q * TICK <= n
    <2>1. n \div TICK \in Int /\ n % TICK \in 0..(TICK - 1)
          /\ n = TICK * (n \div TICK) + (n % TICK)
      BY ITimerAssumption
    <2> QED
      BY <2>1, ITimerAssumption
  <1> QED
    BY <1>1, ITimerAssumption DEF Countdown

\* Every step keeps the types of clocks, counters and timers.
LEMMA DataStep == DataOK /\ StackOK /\ [Next]_vars => DataOK'
  <1> SUFFICES ASSUME DataOK, StackOK, [Next]_vars PROVE DataOK'
    OBVIOUS
  <1> USE ITimerAssumption, TopType DEF DataOK, clocks, Never
  <1>1. CASE Advance
    BY <1>1 DEF Advance, timer_hdlr
  <1>2. CASE Deliver \/ DosCall \/ DosReturn \/ getitimer
    BY <1>2 DEF Deliver, DosCall, DosReturn, getitimer
  <1>3. CASE setitimer
    <2>1. /\ sets > 0 /\ sets' = sets - 1 /\ u_now' = now
          /\ UNCHANGED <<now, countdown, early>>
          /\ \/ UNCHANGED <<exp, rel, due>>
             \/ \E t \in Timers : /\ exp' = [exp EXCEPT ![t] = 0]
                                 /\ rel' = [rel EXCEPT ![t] = 0]
                                 /\ due' = [due EXCEPT ![t] = 0]
      BY <1>3, Zenon DEF setitimer
    <2>2. /\ exp' \in [Timers -> Nat] /\ rel' \in [Timers -> Nat]
          /\ due' \in [Timers -> Nat]
      <3>1. CASE UNCHANGED <<exp, rel, due>>
        BY <3>1
      <3>2. ASSUME NEW t \in Timers, exp' = [exp EXCEPT ![t] = 0],
                   rel' = [rel EXCEPT ![t] = 0], due' = [due EXCEPT ![t] = 0]
            PROVE  /\ exp' \in [Timers -> Nat] /\ rel' \in [Timers -> Nat]
                   /\ due' \in [Timers -> Nat]
        BY <3>2
      <3> QED
        BY <2>1, <3>1, <3>2
    <2>3. sets' \in 0..MaxSets /\ u_now' \in 0..now' /\ now' = now
      BY <2>1
    <2> QED
      BY <2>1, <2>2, <2>3
  <1>4. CASE set_rel
    <2>1. Top.t \in Timers /\ Top.ival \in Nat
      BY DEF Context
    <2>2. /\ rel' = [rel EXCEPT ![Top.t] = Top.ival]
          /\ UNCHANGED <<u_now, exp, countdown, clocks>>
      BY <1>4 DEF set_rel
    <2> QED
      BY <2>1, <2>2
  <1>12. CASE set_exp
    <2>1. Top.t \in Timers /\ Top.val \in Nat
      BY DEF Context
    <2>2. /\ exp' = [exp EXCEPT ![Top.t] = u_now + Top.val]
          /\ due' = [due EXCEPT ![Top.t] = u_now + Top.val]
          /\ UNCHANGED <<now, u_now, rel, countdown, early, sets>>
      BY <1>12 DEF set_exp
    <2> QED
      BY <2>1, <2>2
  <1>5. CASE start_countdown \/ action_countdown
    BY <1>5, CountdownType DEF start_countdown, action_countdown, Context
  <1>6. CASE start_next \/ start_on \/ start_signal \/ start_hook
    BY <1>6 DEF start_next, start_on, start_signal, start_hook
  <1>7. CASE stop_count \/ stop_vec \/ stop_off \/ stop_dfl
    BY <1>7 DEF stop_count, stop_vec, stop_off, stop_dfl
  <1>8. CASE action_now \/ action_test \/ action_next
    BY <1>8 DEF action_now, action_test, action_next
  <1>9. CASE action_reload
    BY <1>9 DEF action_reload, Context
  <1>10. CASE action_raise
    <2>1. /\ UNCHANGED <<now, u_now, exp, rel, countdown, sets>>
          /\ \/ UNCHANGED <<due, early>>
             \/ early' = early + 1 /\ UNCHANGED due
             \/ /\ UNCHANGED early
                /\ \E t \in Top.fire :
                     due' = [due EXCEPT ![t] = IF rel[t] # 0 THEN due[t] + rel[t] ELSE 0]
      BY <1>10 DEF action_raise
    <2>2. Top.fire \subseteq Timers
      BY DEF Context
    <2> QED
      BY <2>1, <2>2
  <1>11. CASE UNCHANGED vars
    BY <1>11 DEF vars
  <1> QED
    BY <1>1, <1>2, <1>3, <1>4, <1>5, <1>6, <1>7, <1>8, <1>9, <1>10, <1>11, <1>12 DEF Next


\* The activation that setitimer starts.
Started(t, v, i) == [Blank EXCEPT !.t = t, !.val = RoundUp(v), !.ival = RoundUp(i)]

\* setitimer starts a well-typed activation wherever it goes first.
LEMMA StartedType ==
  \A t \in Timers, v \in Values, i \in Intervals, p \in PCs, r \in PCs :
    /\ [Started(t, v, i) EXCEPT !.pc = p] \in Context
    /\ [Started(t, v, i) EXCEPT !.pc = p, !.ret = r] \in Context
  <1>1. \A t \in Timers, m, n \in Nat, p, r \in PCs :
          /\ [Blank EXCEPT !.t = t, !.val = m, !.ival = n, !.pc = p] \in Context
          /\ [Blank EXCEPT !.t = t, !.val = m, !.ival = n, !.pc = p, !.ret = r] \in Context
    BY ContextType DEF Context
  <1> QED
    BY <1>1, RoundUpType, ITimerAssumption DEF Started

\* What setitimer does with the stack, and with a timer it is asked to disable.
Cleared(t) ==
  exp' = [exp EXCEPT ![t] = 0] /\ rel' = [rel EXCEPT ![t] = 0] /\ due' = [due EXCEPT ![t] = 0]

\* What setitimer leaves of the timers and of the stack, case by case.
LEMMA SetitimerStack ==
  ASSUME setitimer
  PROVE  \E t \in Timers, v \in Values, i \in Intervals, c \in Context :
           /\ Set(c) /\ c.t = t /\ c.val = RoundUp(v) /\ c.ival = RoundUp(i) /\ c.fire = {}
           /\ \/ v # 0 /\ c.pc = "s_rel" /\ UNCHANGED <<exp, rel, due>>
              \/ v = 0 /\ c.pc = "s_rel" /\ Cleared(t)
              \/ /\ v = 0 /\ c.pc = "t_count" /\ c.ret = "s_rel" /\ Cleared(t)
                 /\ \A u \in Timers : exp'[u] = 0
  <1>1. PICK t \in Timers, v \in Values, i \in Intervals :
          \/ /\ v # 0 /\ Set([Started(t, v, i) EXCEPT !.pc = "s_rel"])
             /\ UNCHANGED <<exp, rel, due>>
          \/ /\ v = 0 /\ Set([Started(t, v, i) EXCEPT !.pc = "s_rel", !.ret = "s_rel"])
             /\ Cleared(t)
          \/ /\ v = 0 /\ Set([Started(t, v, i) EXCEPT !.pc = "t_count", !.ret = "s_rel"])
             /\ Cleared(t) /\ \A u \in Timers : exp'[u] = 0
    BY Zenon DEF setitimer, Started, Cleared
  <1>3. "s_rel" \in PCs /\ "t_count" \in PCs
    BY DEF PCs
  <1> DEFINE c1 == [Started(t, v, i) EXCEPT !.pc = "s_rel"]
             c2 == [Started(t, v, i) EXCEPT !.pc = "s_rel", !.ret = "s_rel"]
             c3 == [Started(t, v, i) EXCEPT !.pc = "t_count", !.ret = "s_rel"]
  <1>4. /\ c1 \in Context /\ c1.t = t /\ c1.val = RoundUp(v) /\ c1.ival = RoundUp(i)
        /\ c1.fire = {} /\ c1.pc = "s_rel"
    BY <1>3, StartedType DEF Started, Blank
  <1>5. /\ c2 \in Context /\ c2.t = t /\ c2.val = RoundUp(v) /\ c2.ival = RoundUp(i)
        /\ c2.fire = {} /\ c2.pc = "s_rel"
    BY <1>3, StartedType DEF Started, Blank
  <1>7. /\ c3 \in Context /\ c3.t = t /\ c3.val = RoundUp(v) /\ c3.ival = RoundUp(i)
        /\ c3.fire = {} /\ c3.pc = "t_count" /\ c3.ret = "s_rel"
    BY <1>3, StartedType DEF Started, Blank
  <1>6. \/ v # 0 /\ Set(c1) /\ UNCHANGED <<exp, rel, due>>
        \/ v = 0 /\ Set(c2) /\ Cleared(t)
        \/ v = 0 /\ Set(c3) /\ Cleared(t) /\ \A u \in Timers : exp'[u] = 0
    BY <1>1, Zenon
  <1> HIDE DEF c1, c2, c3
  <1> QED
    BY <1>4, <1>5, <1>6, <1>7, Zenon

\* Every step keeps the stack typed and no deeper than the nesting allowed.
LEMMA StackStep == TypeOK /\ [Next]_vars => StackOK' /\ Len(stack') <= MaxNest + 1
  <1> SUFFICES ASSUME TypeOK, [Next]_vars PROVE StackOK' /\ Len(stack') <= MaxNest + 1
    OBVIOUS
  <1>a. StackOK /\ Len(stack) <= MaxNest + 1 /\ DataOK
    BY TypeParts
  <1>b. Top \in Context /\ Top.t \in Timers /\ Top.ret \in PCs /\ Top.fire \in SUBSET Timers
    BY <1>a, TopType DEF Context
  <1>1. ASSUME NEW c \in Context, Set(c) PROVE StackOK' /\ Len(stack') <= MaxNest + 1
    BY <1>1, <1>a, SetStack, Zenon
  <1>2. ASSUME NEW p \in PCs, Goto(p) PROVE StackOK' /\ Len(stack') <= MaxNest + 1
    BY <1>2, <1>a, GotoStack, Zenon
  <1>3. ASSUME Return PROVE StackOK' /\ Len(stack') <= MaxNest + 1
    <2>1. Len(stack') = Len(stack) - 1 /\ Len(stack) \in Nat => Len(stack') <= MaxNest + 1
      BY <1>a, ITimerAssumption
    <2>2. Len(<<Blank>>) <= MaxNest + 1
      BY ITimerAssumption
    <2> QED
      BY <1>3, <1>a, <2>1, <2>2, ReturnStack, Zenon
  <1>4. ASSUME UNCHANGED stack PROVE StackOK' /\ Len(stack') <= MaxNest + 1
    BY <1>4, <1>a, Zenon DEF StackOK
  <1>5. {"user", "dos", "s_rel", "s_exp", "s_next", "s_countdown", "s_on", "s_signal", "s_hook",
         "t_count", "t_vec", "t_off", "t_dfl", "a_test", "a_raise"} \subseteq PCs
    BY DEF PCs
  <1>11. CASE Advance \/ getitimer \/ UNCHANGED vars
    BY <1>11, <1>4, Zenon DEF Advance, getitimer, vars
  <1>12. CASE DosCall \/ DosReturn
    BY <1>12, <1>2, <1>5, Zenon DEF DosCall, DosReturn
  <1>13. CASE Deliver
    <2>1. [Blank EXCEPT !.pc = "a_now"] \in Context
      BY ContextType DEF PCs
    <2>2. CASE stack' = Append(stack, [Blank EXCEPT !.pc = "a_now"])
      <3>1. StackOK' /\ Len(stack') = Len(stack) + 1
        BY <1>a, <2>1, <2>2, PushStack, Zenon
      <3>2. Len(stack) <= MaxNest /\ Len(stack) \in Nat
        BY <1>13, <1>a, TopType DEF Deliver
      <3> QED
        BY <3>1, <3>2, ITimerAssumption
    <2> QED
      BY <1>13, <1>4, <2>2, Zenon DEF Deliver
  <1>14. CASE setitimer
    BY <1>14, <1>1, SetitimerStack, Zenon
  <1>15. CASE set_rel \/ start_on \/ start_hook
    BY <1>15, <1>2, <1>3, <1>5, Zenon DEF set_rel, start_on, start_hook
  <1>16. CASE set_exp \/ start_countdown \/ start_signal \/ action_now \/ action_countdown
    BY <1>16, <1>2, <1>5, Zenon DEF set_exp, start_countdown, start_signal, action_now,
                                    action_countdown
  <1>17. CASE stop_count \/ stop_vec \/ stop_off \/ stop_dfl
    BY <1>17, <1>2, <1>5, <1>b, Zenon DEF stop_count, stop_vec, stop_off, stop_dfl
  <1>18. CASE start_next
    <2>1. [Top EXCEPT !.pc = "s_countdown", !.next = GetNextEvent] \in Context
      BY <1>a, <1>b, NextEventType DEF Context, PCs
    <2> QED
      BY <1>18, <2>1, <1>1, Zenon DEF start_next
  <1>19. AfterTest \in Context
    BY <1>b DEF AfterTest, Context, PCs, Timers
  <1>20. CASE action_test \/ action_reload
    <2>1. [Top EXCEPT !.pc = "a_reload", !.fire = @ \cup {Top.t}] \in Context
      BY <1>b DEF Context, PCs
    <2> QED
      BY <1>20, <2>1, <1>1, <1>19, Zenon DEF action_test, action_reload
  <1>21. CASE action_next
    <2>1. [Top EXCEPT !.pc = "a_countdown", !.next = GetNextEvent] \in Context
      BY <1>a, <1>b, NextEventType DEF Context, PCs
    <2>2. [Top EXCEPT !.pc = "t_count", !.ret = "a_raise"] \in Context
      BY <1>b DEF Context, PCs
    <2> QED
      BY <1>21, <2>1, <2>2, <1>1, <1>3, Zenon DEF action_next
  <1>22. CASE action_raise
    <2>1. \A t : [Top EXCEPT !.fire = @ \ {t}] \in Context
      BY <1>b DEF Context
    <2> QED
      BY <1>22, <2>1, <1>1, <1>3, Zenon DEF action_raise
  <1> QED
    BY <1>11, <1>12, <1>13, <1>14, <1>15, <1>16, <1>17, <1>18, <1>20, <1>21, <1>22, Zenon DEF Next

\* The types hold in every state.
LEMMA AlwaysTyped == Spec => []TypeOK
  <1>1. Init => TypeOK
    <2> SUFFICES ASSUME Init PROVE TypeOK
      OBVIOUS
    <2>1. DataOK
      BY ITimerAssumption DEF Init, DataOK
    <2>2. FlagsOK
      BY ITimerAssumption, Zenon DEF Init, FlagsOK
    <2>3. StackOK /\ Len(stack) <= MaxNest + 1
      BY ITimerAssumption, ContextType DEF Init, StackOK
    <2> QED
      BY <2>1, <2>2, <2>3, TypeParts
  <1>2. TypeOK /\ [Next]_vars => TypeOK'
    <2> SUFFICES ASSUME TypeOK, [Next]_vars PROVE TypeOK'
      OBVIOUS
    <2>1. DataOK' /\ FlagsOK' /\ StackOK' /\ Len(stack') <= MaxNest + 1
      BY TypeParts, DataStep, FlagsStep, StackStep, Zenon
    <2>2. stack' \in Seq(Context) =>
            (Len(stack') >= 1 /\ Len(stack') <= MaxNest + 1 => Len(stack') \in 1..(MaxNest + 1))
      BY ITimerAssumption
    <2> QED
      BY <2>1, <2>2, Zenon DEF TypeOK, DataOK, FlagsOK, StackOK
  <1> QED
    BY <1>1, <1>2, PTL DEF Spec

-----------------------------------------------------------------------------
(* SIGTIMR always finds its handler.                                       *)

\* Activations below the running one stay in order while no one hooks the vector.
LEMMA BelowInOrder ==
  ASSUME StackOK, Ordered, NEW k \in Nat, k < Len(stack), hooked' => hooked,
         \A i \in 1..k : stack'[i] = stack[i]
  PROVE  \A i \in 1..k : InOrder(i)'
  <1> SUFFICES ASSUME NEW i \in 1..k PROVE InOrder(i)'
    OBVIOUS
  <1>1. PICK n \in Nat : n = Len(stack)
    BY TopType
  <1>2. InOrder(i) /\ stack'[i] = stack[i] /\ i \in 1..n /\ ~(n <= i)
    BY <1>1 DEF Ordered
  <1>3. stack[i].pc \notin {"s_signal", "s_hook"}
    BY <1>1, <1>2 DEF InOrder
  <1> QED
    BY <1>1, <1>2, <1>3, Zenon DEF InOrder

\* The running activation changes its place.
LEMMA OrderKept ==
  ASSUME StackOK, Ordered, NEW c \in Context, Set(c), hooked' => hooked, hooked' => timer_on',
         hooked' \/ latched' => handler' = "timer_action",
         LET i == Len(stack)
         IN /\ c.pc \in Stopping \cup IF i = 1 THEN {"user", "dos"} \cup Setting ELSE Acting
            /\ c.pc \in Stopping => c.ret = IF i = 1 THEN "s_rel" ELSE "a_raise"
            /\ c.pc \in {"t_off", "t_dfl"} => ~hooked'
            /\ c.pc \in {"s_signal", "s_hook"} => ~hooked' /\ ~latched' /\ timer_on'
            /\ c.pc = "s_hook" => handler' = "timer_action"
  PROVE  Ordered'
  <1>1. PICK n \in Nat \ {0} : n = Len(stack)
    BY TopType
  <1>2. /\ Len(stack') = n /\ stack'[n] = c
        /\ \A i \in 1..(n - 1) : stack'[i] = stack[i]
    BY <1>1, SetStack
  <1>3. n - 1 \in Nat /\ n - 1 < n /\ n <= n
    OBVIOUS
  <1>4. \A i \in 1..(n - 1) : InOrder(i)'
    BY <1>1, <1>2, <1>3, BelowInOrder, Zenon
  <1>5. InOrder(n)'
    BY <1>1, <1>2, <1>3, Zenon DEF InOrder
  <1>6. \A i \in 1..n : InOrder(i)'
    <2>1. \A i \in 1..n : i = n \/ i \in 1..(n - 1)
      OBVIOUS
    <2> QED
      BY <1>4, <1>5, <2>1, Zenon
  <1> QED
    BY <1>2, <1>6, Zenon DEF Ordered

\* The running activation ends.
LEMMA OrderReturned ==
  ASSUME StackOK, Ordered, Return, (hooked' => hooked) \/ Len(stack) = 1, hooked' => timer_on',
         hooked' \/ latched' => handler' = "timer_action"
  PROVE  Ordered'
  <1>1. CASE Len(stack) = 1 /\ stack' = <<Blank>>
    <2>1. Len(<<Blank>>) = 1 /\ <<Blank>>[1].pc = "user" /\ (\A i \in 1..1 : i = 1)
      BY DEF Blank
    <2>2. InOrder(1)'
      BY <1>1, <2>1, Zenon DEF InOrder, Stopping
    <2> QED
      BY <1>1, <2>1, <2>2, Zenon DEF Ordered
  <1>2. CASE /\ Len(stack) \in Nat \ {0, 1} /\ Len(stack') = Len(stack) - 1
             /\ \A i \in 1..(Len(stack) - 1) : stack'[i] = stack[i]
    <2>1. PICK n \in Nat \ {0, 1} : n = Len(stack)
      BY <1>2
    <2>2. n - 1 \in Nat /\ n - 1 < n /\ n # 1
      BY <2>1
    <2>3. \A i \in 1..(n - 1) : InOrder(i)'
      BY <1>2, <2>1, <2>2, BelowInOrder, Zenon
    <2> QED
      BY <1>2, <2>1, <2>3, Zenon DEF Ordered
  <1> QED
    BY <1>1, <1>2, ReturnStack, Zenon

\* An activation is added while the signal waits.
LEMMA OrderPushed ==
  ASSUME StackOK, Ordered, latched, stack' = Append(stack, [Blank EXCEPT !.pc = "a_now"]),
         UNCHANGED <<hooked, timer_on, handler>>, ~latched'
  PROVE  Ordered'
  <1> DEFINE c == [Blank EXCEPT !.pc = "a_now"]
  <1>1. c \in Context /\ c.pc = "a_now"
    BY ContextType DEF PCs, Blank
  <1>2. PICK n \in Nat \ {0} : n = Len(stack)
    BY TopType
  <1>3. /\ Len(stack') = n + 1 /\ stack'[n + 1] = c
        /\ \A i \in 1..n : stack'[i] = stack[i]
    BY <1>1, <1>2, PushStack
  <1>4. ASSUME NEW i \in 1..n PROVE InOrder(i)'
    <2>1. InOrder(i) /\ stack'[i] = stack[i]
      BY <1>2, <1>3 DEF Ordered
    <2>2. stack[i].pc \notin {"s_signal", "s_hook"}
      BY <2>1, Zenon DEF InOrder
    <2> QED
      BY <2>1, <2>2, Zenon DEF InOrder
  <1>5. InOrder(n + 1)'
    <2>1. n + 1 # 1
      BY <1>2
    <2>2. c.pc \in Acting /\ c.pc \notin Stopping
      BY <1>1 DEF Acting, Stopping
    <2> QED
      BY <1>1, <1>3, <2>1, <2>2 DEF InOrder
  <1>6. \A i \in 1..(n + 1) : i = n + 1 \/ i \in 1..n
    OBVIOUS
  <1> QED
    BY <1>3, <1>4, <1>5, <1>6, Zenon DEF Ordered

\* No step breaks the order, and the signal never meets its default action.
LEMMA OrderedStep == TypeOK /\ Ordered /\ ~killed /\ [Next]_vars => Ordered' /\ ~killed'
  <1> SUFFICES ASSUME TypeOK, Ordered, ~killed, [Next]_vars PROVE Ordered' /\ ~killed'
    OBVIOUS
  <1>a. StackOK
    BY TypeParts
  <1>b. /\ hooked => timer_on
        /\ hooked \/ latched => handler = "timer_action"
    BY Zenon DEF Ordered
  <1>c. Top \in Context /\ Len(stack) \in Nat \ {0} /\ InOrder(Len(stack))
    BY <1>a, TopType DEF Ordered
  <1>d. ASSUME NEW p \in PCs
        PROVE  /\ [Top EXCEPT !.pc = p] \in Context
               /\ [Top EXCEPT !.pc = p].pc = p
               /\ [Top EXCEPT !.pc = p].ret = Top.ret
    BY <1>c, ContextType DEF Context
  <1>e. \/ Len(stack) = 1 /\ Top.pc \in Setting \cup {"user", "dos"} \cup Stopping
        \/ Len(stack) # 1 /\ Top.pc \in Acting \cup Stopping
    BY <1>c, Zenon DEF InOrder, Top
  <1>f. Top.pc \in Stopping => Top.ret = IF Len(stack) = 1 THEN "s_rel" ELSE "a_raise"
    BY <1>c, Zenon DEF InOrder, Top
  <1>g. /\ \A p \in Setting \cup {"user", "dos"} : p \notin Acting \cup Stopping
        /\ \A p \in Acting : p \notin Stopping \cup Setting
        /\ PCs = Setting \cup {"user", "dos"} \cup Acting \cup Stopping
    BY DEF Setting, Acting, Stopping, PCs
  <1>h. ASSUME NEW p \in PCs, Goto(p), hooked' => hooked, hooked' => timer_on',
               hooked' \/ latched' => handler' = "timer_action",
               p \in Setting \cup {"user", "dos"} => Len(stack) = 1,
               p \in Acting => Len(stack) # 1,
               p \in Stopping => Top.pc \in Stopping,
               p \in {"t_off", "t_dfl"} => ~hooked',
               p \in {"s_signal", "s_hook"} => ~hooked' /\ ~latched' /\ timer_on',
               p = "s_hook" => handler' = "timer_action"
        PROVE  Ordered'
    <2> DEFINE c == [Top EXCEPT !.pc = p]
    <2>1. c \in Context /\ c.pc = p /\ c.ret = Top.ret /\ Set(c)
      BY <1>d, <1>h, Zenon DEF Goto
    <2> HIDE DEF c
    <2>2. c.pc \in Stopping \cup IF Len(stack) = 1 THEN {"user", "dos"} \cup Setting ELSE Acting
      BY <1>g, <1>h, <2>1, Zenon
    <2> QED
      BY <1>a, <1>f, <1>h, <2>1, <2>2, OrderKept, Zenon
  <1>i. ASSUME UNCHANGED <<stack, hooked, timer_on, handler>>, latched' => latched \/ hooked
        PROVE  Ordered'
    <2>1. \A i \in 1..Len(stack) : InOrder(i) => InOrder(i)'
      BY <1>i, Zenon DEF InOrder
    <2> QED
      BY <1>b, <1>i, <2>1, Zenon DEF Ordered
  <1>j. ASSUME NEW p \in PCs, p \notin Stopping \cup {"s_signal", "s_hook"}, Goto(p),
               UNCHANGED <<hooked, timer_on, handler, latched>>,
               Len(stack) = 1 <=> p \in Setting \cup {"user", "dos"}
        PROVE  Ordered'
    <2>1. p \notin Stopping /\ p \notin {"s_signal", "s_hook", "t_off", "t_dfl"}
      BY <1>j, Zenon DEF Stopping
    <2> QED
      BY <1>b, <1>g, <1>h, <1>j, <2>1
  <1>1. CASE Advance
    <2>1. /\ UNCHANGED <<stack, hooked, timer_on, handler, killed>>
          /\ latched' => latched \/ hooked
      BY <1>1 DEF Advance, timer_hdlr
    <2> QED
      BY <2>1, <1>i
  <1>2. CASE Deliver
    <2>1. stack' = Append(stack, [Blank EXCEPT !.pc = "a_now"]) /\ ~killed' /\ latched
      BY <1>2, <1>b, Zenon DEF Deliver
    <2> QED
      BY <1>2, <2>1, <1>a, OrderPushed, Zenon DEF Deliver
  <1>3. CASE getitimer \/ UNCHANGED vars
    <2>1. UNCHANGED <<stack, hooked, timer_on, handler, killed, latched>>
      BY <1>3 DEF getitimer, vars, clocks
    <2> QED
      BY <2>1, <1>i
  <1>4. CASE DosCall \/ DosReturn
    <2>1. Top.pc \in {"user", "dos"} /\ UNCHANGED <<hooked, timer_on, handler, killed, latched>>
      BY <1>4 DEF DosCall, DosReturn, Runs, At, clocks
    <2>2. \E p \in {"user", "dos"} : Goto(p)
      BY <1>4 DEF DosCall, DosReturn
    <2>3. Len(stack) = 1
      BY <2>1, <1>e, <1>g
    <2>4. \A p \in {"user", "dos"} : p \in PCs /\ p \notin Stopping \cup {"s_signal", "s_hook"}
      BY DEF PCs, Stopping
    <2> QED
      BY <2>1, <2>2, <2>3, <2>4, <1>j, Zenon
  <1>5. CASE setitimer
    <2>1. Top.pc = "user" /\ UNCHANGED <<hooked, timer_on, handler, killed, latched>>
      BY <1>5 DEF setitimer, Runs, At
    <2>2. Len(stack) = 1
      BY <2>1, <1>e, <1>g
    <2>3. \E c \in Context : /\ Set(c) /\ c.pc \in {"s_rel", "t_count"}
                             /\ c.pc = "t_count" => c.ret = "s_rel"
      BY <1>5, SetitimerStack, Zenon
    <2>4. /\ \A p \in {"s_rel", "t_count"} : p \in Stopping \cup ({"user", "dos"} \cup Setting)
          /\ "s_rel" \notin Stopping
          /\ \A p \in {"s_rel", "t_count"} : p \notin {"t_off", "t_dfl", "s_signal", "s_hook"}
      BY DEF Stopping, Setting
    <2> QED
      BY <1>a, <1>b, <2>1, <2>2, <2>3, <2>4, OrderKept, Zenon
  <1>6. CASE set_rel
    <2>1. Top.pc = "s_rel" /\ UNCHANGED <<hooked, timer_on, handler, killed, latched>>
      BY <1>6 DEF set_rel, Runs, At, clocks
    <2>2. Return \/ Goto("s_exp")
      BY <1>6 DEF set_rel
    <2>3. "s_rel" \in Setting /\ "s_exp" \in Setting /\ "s_exp" \notin Stopping \cup {"s_signal", "s_hook"}
          /\ "s_exp" \in PCs
      BY DEF Setting, Stopping, PCs
    <2>4. Len(stack) = 1
      BY <1>e, <1>g, <2>1, <2>3
    <2> QED
      BY <1>a, <1>b, <1>j, <2>1, <2>2, <2>3, <2>4, OrderReturned
  <1>k. ASSUME NEW c \in Context, Set(c), UNCHANGED <<hooked, timer_on, handler, killed, latched>>,
               \/ Len(stack) = 1 /\ c.pc = "s_countdown"
               \/ Len(stack) # 1 /\ c.pc \in Acting
               \/ Len(stack) # 1 /\ c.pc = "t_count" /\ c.ret = "a_raise"
        PROVE  Ordered' /\ ~killed'
    <2>1. /\ "s_countdown" \in Setting /\ "t_count" \in Stopping
          /\ \A p \in Acting \cup {"s_countdown", "t_count"} :
               p \notin {"t_off", "t_dfl", "s_signal", "s_hook"}
      BY DEF Setting, Stopping, Acting
    <2> QED
      BY <1>a, <1>b, <1>g, <1>k, <2>1, OrderKept, Zenon
  <1>l. /\ {"s_exp", "s_next", "s_countdown", "s_on", "s_signal", "s_hook"} \subseteq Setting
        /\ {"a_now", "a_test", "a_reload", "a_next", "a_countdown", "a_raise"} \subseteq Acting
        /\ {"t_count", "t_vec", "t_off", "t_dfl"} \subseteq Stopping
        /\ \A p \in {"s_exp", "s_next", "s_countdown", "s_on", "a_test", "a_raise", "s_rel"} :
             p \in PCs /\ p \notin Stopping \cup {"s_signal", "s_hook"}
    BY DEF Setting, Acting, Stopping, PCs
  <1>7. CASE set_exp \/ start_countdown
    <2>1. Top.pc \in {"s_exp", "s_countdown"} /\ UNCHANGED <<hooked, timer_on, handler, killed, latched>>
      BY <1>7 DEF set_exp, start_countdown, Runs, At, clocks
    <2>2. Goto("s_next") \/ Goto("s_on")
      BY <1>7 DEF set_exp, start_countdown
    <2>3. Len(stack) = 1
      BY <1>e, <1>g, <1>l, <2>1
    <2> QED
      BY <1>j, <1>l, <2>1, <2>2, <2>3
  <1>8. CASE start_next
    <2>1. Top.pc = "s_next" /\ UNCHANGED <<hooked, timer_on, handler, killed, latched>>
      BY <1>8 DEF start_next, Runs, At, clocks
    <2>2. Len(stack) = 1
      BY <1>e, <1>g, <1>l, <2>1
    <2> DEFINE c == [Top EXCEPT !.pc = "s_countdown", !.next = GetNextEvent]
    <2>3. c \in Context /\ c.pc = "s_countdown"
      BY <1>c, NextEventType, TypeParts DEF Context, PCs
    <2>4. Set(c)
      BY <1>8 DEF start_next
    <2> HIDE DEF c
    <2> QED
      BY <1>k, <2>1, <2>2, <2>3, <2>4
  <1>9. CASE start_on
    <2>1. /\ Top.pc = "s_on" /\ ~latched /\ UNCHANGED <<hooked, handler, killed, latched>>
          /\ timer_on' = TRUE
      BY <1>9 DEF start_on, Runs, At, clocks
    <2>2. Len(stack) = 1
      BY <1>e, <1>g, <1>l, <2>1
    <2>3. CASE Return
      BY <1>a, <1>b, <2>1, <2>3, OrderReturned, Zenon
    <2>4. CASE Goto("s_signal") /\ ~timer_on
      <3>1. "s_signal" \in PCs /\ "s_signal" \notin Acting \cup Stopping \cup {"t_off", "t_dfl", "s_hook"}
        BY DEF PCs, Acting, Stopping
      <3> QED
        BY <1>b, <1>h, <2>1, <2>2, <2>4, <3>1, Zenon
    <2> QED
      BY <1>9, <2>3, <2>4, Zenon DEF start_on
  <1>10. CASE start_signal
    <2>1. /\ Top.pc = "s_signal" /\ ~latched /\ UNCHANGED <<hooked, timer_on, killed, latched>>
          /\ Goto("s_hook") /\ handler' = "timer_action"
      BY <1>10 DEF start_signal, Runs, At, clocks
    <2>2. Len(stack) = 1
      BY <1>e, <1>g, <1>l, <2>1
    <2>3. ~hooked /\ timer_on
      BY <1>c, <2>1, Zenon DEF InOrder, Top
    <2>4. "s_hook" \in PCs /\ "s_hook" \notin Acting \cup Stopping \cup {"t_off", "t_dfl"}
      BY DEF PCs, Acting, Stopping
    <2> QED
      BY <1>h, <2>1, <2>2, <2>3, <2>4, Zenon
  <1>11. CASE start_hook
    <2>1. Top.pc = "s_hook" /\ Return /\ UNCHANGED <<timer_on, handler, killed, latched>>
      BY <1>11 DEF start_hook, At, clocks
    <2>2. Len(stack) = 1
      BY <1>e, <1>g, <1>l, <2>1
    <2>3. timer_on /\ handler = "timer_action"
      BY <1>c, <2>1, Zenon DEF InOrder, Top
    <2> QED
      BY <1>a, <2>1, <2>2, <2>3, OrderReturned, Zenon
  <1>m. Top.pc \in Stopping => /\ IF Len(stack) = 1 THEN Top.ret = "s_rel" ELSE Top.ret = "a_raise"
                               /\ Top.ret \in PCs /\ Top.ret \notin Stopping \cup {"s_signal", "s_hook"}
                               /\ Len(stack) = 1 <=> Top.ret \in Setting \cup {"user", "dos"}
    <2>1. "a_raise" \notin Setting \cup {"user", "dos"} /\ "s_rel" \in Setting
      BY DEF Setting
    <2> QED
      BY <1>f, <1>l, <2>1, Zenon
  <1>12. CASE stop_count
    <2>1. /\ Top.pc = "t_count" /\ UNCHANGED <<hooked, timer_on, handler, killed, latched>>
          /\ Goto("t_vec") \/ Goto(Top.ret)
      BY <1>12 DEF stop_count, Runs, At, clocks
    <2>2. /\ Top.pc \in Stopping /\ "t_vec" \in PCs
          /\ "t_vec" \notin Acting \cup Setting \cup {"user", "dos", "t_off", "t_dfl", "s_signal", "s_hook"}
      BY <2>1 DEF Stopping, PCs, Acting, Setting
    <2>3. CASE Goto("t_vec")
      BY <1>b, <1>h, <2>1, <2>2, <2>3, Zenon
    <2>4. CASE Goto(Top.ret)
      BY <1>j, <1>m, <2>1, <2>2, <2>4, Zenon
    <2> QED
      BY <2>1, <2>3, <2>4
  <1>13. CASE stop_vec
    <2>1. /\ Top.pc = "t_vec" /\ hooked' = FALSE /\ Goto("t_off")
          /\ UNCHANGED <<timer_on, handler, killed, latched>>
      BY <1>13 DEF stop_vec, At, clocks
    <2>2. /\ Top.pc \in Stopping /\ "t_off" \in PCs
          /\ "t_off" \notin Acting \cup Setting \cup {"user", "dos", "t_dfl", "s_signal", "s_hook"}
      BY <2>1 DEF Stopping, PCs, Acting, Setting
    <2> QED
      BY <1>b, <1>h, <2>1, <2>2, Zenon
  <1>14. CASE stop_off
    <2>1. /\ Top.pc = "t_off" /\ timer_on' = FALSE /\ Goto("t_dfl")
          /\ UNCHANGED <<hooked, handler, killed, latched>>
      BY <1>14 DEF stop_off, Runs, At, clocks
    <2>2. ~hooked
      BY <1>c, <2>1, Zenon DEF InOrder, Top
    <2>3. /\ Top.pc \in Stopping /\ "t_dfl" \in PCs
          /\ "t_dfl" \notin Acting \cup Setting \cup {"user", "dos", "s_signal", "s_hook"}
      BY <2>1 DEF Stopping, PCs, Acting, Setting
    <2> QED
      BY <1>b, <1>h, <2>1, <2>2, <2>3, Zenon
  <1>15. CASE stop_dfl
    <2>1. /\ Top.pc = "t_dfl" /\ Goto(Top.ret) /\ ~latched
          /\ UNCHANGED <<hooked, timer_on, killed, latched>>
      BY <1>15 DEF stop_dfl, Runs, At, clocks
    <2>2. ~hooked
      BY <1>c, <2>1, Zenon DEF InOrder, Top
    <2>3. Top.pc \in Stopping /\ \A p \in PCs : p \notin Stopping => p \notin {"t_off", "t_dfl"}
      BY <2>1 DEF Stopping
    <2> QED
      BY <1>b, <1>g, <1>h, <1>m, <2>1, <2>2, <2>3, Zenon
  <1>16. CASE action_now \/ action_countdown
    <2>1. /\ Top.pc \in {"a_now", "a_countdown"}
          /\ Goto("a_test") \/ Goto("a_raise")
          /\ UNCHANGED <<hooked, timer_on, handler, killed, latched>>
      BY <1>16 DEF action_now, action_countdown, Runs, At, clocks
    <2>2. Len(stack) # 1
      BY <1>e, <1>g, <1>l, <2>1
    <2> QED
      BY <1>g, <1>j, <1>l, <2>1, <2>2
  <1>17. CASE action_test \/ action_reload
    <2>1. /\ Top.pc \in {"a_test", "a_reload"}
          /\ UNCHANGED <<hooked, timer_on, handler, killed, latched>>
      BY <1>17 DEF action_test, action_reload, Runs, At, clocks
    <2>2. Len(stack) # 1
      BY <1>e, <1>g, <1>l, <2>1
    <2> DEFINE c == [Top EXCEPT !.pc = "a_reload", !.fire = @ \cup {Top.t}]
    <2>3. c \in Context /\ c.pc = "a_reload"
      BY <1>c DEF Context, PCs
    <2>4. AfterTest \in Context /\ AfterTest.pc \in {"a_test", "a_next"}
      BY <1>c DEF AfterTest, Context, PCs, Timers
    <2>5. Set(c) \/ Set(AfterTest)
      BY <1>17, Zenon DEF action_test, action_reload
    <2> HIDE DEF c
    <2> QED
      BY <1>k, <1>l, <2>1, <2>2, <2>3, <2>4, <2>5, Zenon
  <1>18. CASE action_next
    <2>1. Top.pc = "a_next" /\ UNCHANGED <<hooked, timer_on, handler, killed, latched>>
      BY <1>18 DEF action_next, Runs, At
    <2>2. Len(stack) # 1
      BY <1>e, <1>g, <1>l, <2>1
    <2> DEFINE c == [Top EXCEPT !.pc = "a_countdown", !.next = GetNextEvent]
               d == [Top EXCEPT !.pc = "t_count", !.ret = "a_raise"]
    <2>3. c \in Context /\ c.pc = "a_countdown"
      BY <1>c, NextEventType, TypeParts DEF Context, PCs
    <2>4. d \in Context /\ d.pc = "t_count" /\ d.ret = "a_raise"
      BY <1>c DEF Context, PCs
    <2>5. Return \/ Set(c) \/ Set(d)
      BY <1>18, Zenon DEF action_next
    <2> HIDE DEF c, d
    <2>6. CASE Return
      BY <1>a, <1>b, <2>1, <2>6, OrderReturned, Zenon
    <2> QED
      BY <1>k, <1>l, <2>1, <2>2, <2>3, <2>4, <2>5, <2>6, Zenon
  <1>19. CASE action_raise
    <2>1. Top.pc = "a_raise" /\ UNCHANGED <<hooked, timer_on, handler, killed, latched>>
      BY <1>19 DEF action_raise, Runs, At
    <2>2. Len(stack) # 1
      BY <1>e, <1>g, <1>l, <2>1
    <2>3. \A t : [Top EXCEPT !.fire = @ \ {t}] \in Context /\ [Top EXCEPT !.fire = @ \ {t}].pc = Top.pc
      BY <1>c DEF Context
    <2>4. Return \/ \E c \in Context : Set(c) /\ c.pc = "a_raise"
      BY <1>19, <2>1, <2>3, Zenon DEF action_raise
    <2>5. CASE Return
      BY <1>a, <1>b, <2>1, <2>5, OrderReturned, Zenon
    <2> QED
      BY <1>k, <1>l, <2>1, <2>2, <2>4, <2>5, Zenon
  <1> QED
    BY <1>1, <1>2, <1>3, <1>4, <1>5, <1>6, <1>7, <1>8, <1>9, <1>10, <1>11, <1>12, <1>13, <1>14,
       <1>15, <1>16, <1>17, <1>18, <1>19, Zenon DEF Next

\* The order and the types hold in every state.
LEMMA AlwaysOrdered == Spec => [](TypeOK /\ Ordered /\ ~killed)
  <1>1. Init => Ordered /\ ~killed
    <2> SUFFICES ASSUME Init PROVE Ordered /\ ~killed
      OBVIOUS
    <2>1. stack = <<Blank>> /\ ~hooked /\ ~latched /\ ~killed
      BY DEF Init
    <2>2. Len(<<Blank>>) = 1 /\ <<Blank>>[1].pc = "user" /\ (\A i \in 1..1 : i = 1)
      BY DEF Blank
    <2>3. InOrder(1)
      BY <2>1, <2>2, Zenon DEF InOrder, Stopping
    <2> QED
      BY <2>1, <2>2, <2>3, Zenon DEF Ordered
  <1>2. TypeOK /\ Ordered /\ ~killed /\ [Next]_vars => Ordered' /\ ~killed'
    BY OrderedStep
  <1> QED
    BY <1>1, <1>2, AlwaysTyped, PTL DEF Spec


\* SIGTIMR never ends the program: start_timer hooks the vector last and stop_timer
\* unhooks it first, so that the signal is only latched while timer_action handles
\* it, whatever stop_timer of an interrupted activation does next.
THEOREM NeverKilled == Spec => []NoTimerKill
  <1>1. TypeOK /\ ~killed => NoTimerKill
    BY DEF NoTimerKill
  <1> QED
    BY <1>1, AlwaysOrdered, PTL

-----------------------------------------------------------------------------
(* Systems that serve each tick before the next comes.                     *)

Nested == Len(stack) > 1 \* timer_action runs

\* setitimer and timer_action run one at a time.
Alone ==
  /\ Len(stack) <= 2
  /\ Nested => stack[1] = Blank /\ ~latched
  /\ latched => stack = <<Blank>> /\ hooked

\* What timer_action has found out and not yet acted upon: the timers it has seen
\* expire and reloaded.
ReloadedBy(c) ==
  IF c.pc \in {"a_test", "a_reload"} THEN IF c.t = "PROF" THEN c.fire \ {"PROF"} ELSE {}
                                     ELSE c.fire
Reloaded == IF Nested THEN ReloadedBy(Top) ELSE {}

\* exp runs ahead of due only for timers whose signal is about to be raised.
Ahead ==
  \A t \in Timers :
    IF t \in Reloaded
      THEN /\ due[t] # 0 /\ due[t] <= now
           /\ exp[t] = IF rel[t] # 0 THEN due[t] + rel[t] ELSE 0
      ELSE exp[t] = due[t]

\* timer_action looks at the real timer first.
FoundBy(c) ==
  /\ c.pc = "a_now" => c.fire = {} /\ c.t = "REAL"
  /\ c.pc = "a_test" => c.fire \subseteq IF c.t = "PROF" THEN {"REAL"} ELSE {}
  /\ c.pc = "a_reload" => c.t \in c.fire /\ Expired(c.t) /\ c.fire \subseteq {c.t, "REAL"}
Found == Nested => FoundBy(Top)

\* Flag and vector agree except between the steps that change both.
Agree == Top.pc \notin {"t_off", "s_signal", "s_hook"} => (hooked <=> timer_on)

One == Alone /\ Ahead /\ Found /\ Agree /\ early = 0

\* A lone activation stays alone.
LEMMA AloneSet ==
  ASSUME StackOK, Alone, NEW c \in Context, Set(c), ~latched'
  PROVE  Alone' /\ Top' = c /\ (Nested' <=> Nested)
  <1>1. PICK n \in Nat \ {0} : n = Len(stack)
    BY TopType
  <1>2. /\ Len(stack') = n /\ stack'[n] = c /\ Top' = c
        /\ \A i \in 1..(n - 1) : stack'[i] = stack[i]
    BY <1>1, SetStack
  <1>3. n > 1 => 1 \in 1..(n - 1)
    BY <1>1
  <1> QED
    BY <1>1, <1>2, <1>3, Zenon DEF Alone, Nested

\* When timer_action or setitimer returns, the program alone is left.
LEMMA AloneReturn ==
  ASSUME StackOK, Alone, Return, ~latched'
  PROVE  Alone' /\ Top' = Blank /\ ~Nested'
  <1>1. Len(<<Blank>>) = 1 /\ <<Blank>>[1] = Blank /\ ~(1 > 1) /\ 1 <= 2
    OBVIOUS
  <1>2. CASE Len(stack) = 1 /\ stack' = <<Blank>>
    BY <1>1, <1>2, Zenon DEF Alone, Nested, Top
  <1>3. CASE /\ Len(stack) \in Nat \ {0, 1} /\ Len(stack') = Len(stack) - 1
             /\ \A i \in 1..(Len(stack) - 1) : stack'[i] = stack[i]
    <2>1. PICK n \in Nat \ {0, 1} : n = Len(stack)
      BY <1>3
    <2>2. n = 2
      BY <2>1 DEF Alone
    <2>3. n > 1 /\ n - 1 = 1 /\ 1 \in 1..(n - 1)
      BY <2>2
    <2>4. Len(stack') = 1 /\ stack'[1] = Blank
      BY <1>3, <2>1, <2>3, Zenon DEF Alone, Nested
    <2> QED
      BY <1>1, <2>4, Zenon DEF Alone, Nested, Top
  <1> QED
    BY <1>2, <1>3, ReturnStack, Zenon

\* From the program alone a handler or a call nests once.
LEMMA AlonePush ==
  ASSUME StackOK, stack = <<Blank>>, NEW c \in Context, stack' = Append(stack, c), ~latched'
  PROVE  Alone' /\ Top' = c /\ Nested'
  <1>1. Len(stack) = 1
    OBVIOUS
  <1>2. Len(stack') = 2 /\ stack'[1] = Blank /\ Top' = c
    BY <1>1, PushStack
  <1>3. 2 <= 2 /\ 2 > 1
    OBVIOUS
  <1> QED
    BY <1>2, <1>3, Zenon DEF Alone, Nested

\* The order of start_timer and stop_timer, for the running activation.
LEMMA TopInOrder ==
  ASSUME StackOK, Ordered
  PROVE  /\ Nested => Top.pc \in Acting \cup Stopping
         /\ ~Nested => Top.pc \in Setting \cup {"user", "dos"} \cup Stopping
         /\ Top.pc \in Stopping => Top.ret = IF Nested THEN "a_raise" ELSE "s_rel"
         /\ Top.pc \in {"t_off", "t_dfl"} => ~hooked
         /\ Top.pc \in {"s_signal", "s_hook"} => ~hooked /\ ~latched /\ timer_on
  <1>1. InOrder(Len(stack)) /\ Len(stack) \in Nat \ {0}
    BY TopType DEF Ordered
  <1>2. \A n \in Nat \ {0} : n > 1 <=> n # 1
    OBVIOUS
  <1> QED
    BY <1>1, <1>2, Zenon DEF InOrder, Top, Nested

\* After the real timer comes the profiling timer, then the next event.
LEMMA AfterTestIs ==
  ASSUME StackOK
  PROVE  /\ AfterTest \in Context /\ AfterTest.fire = Top.fire
         /\ \/ Top.t = "REAL" /\ AfterTest.pc = "a_test" /\ AfterTest.t = "PROF"
            \/ Top.t = "PROF" /\ AfterTest.pc = "a_next"
  <1>1. Top \in Context /\ Top.t \in Timers
    BY TopType DEF Context
  <1>2. CASE Top.t = "REAL"
    BY <1>1, <1>2 DEF AfterTest, Context, PCs, Timers
  <1>3. CASE Top.t = "PROF"
    BY <1>1, <1>3 DEF AfterTest, Context, PCs, Timers
  <1> QED
    BY <1>1, <1>2, <1>3 DEF Timers

\* Every step of a system that serves its ticks in time keeps One.
LEMMA OneStep == TypeOK /\ Ordered /\ ~killed /\ ~slow /\ One /\ [Next]_vars => One'
  <1> SUFFICES ASSUME TypeOK, Ordered, ~killed, ~slow, One, [Next]_vars PROVE One'
    OBVIOUS
  <1>a. StackOK /\ DataOK
    BY TypeParts
  <1>b. Alone /\ Ahead /\ Found /\ Agree /\ early = 0
    BY DEF One
  <1>c. /\ Top \in Context /\ Top.t \in Timers /\ Top.ret \in PCs /\ Top.fire \subseteq Timers
        /\ \A p \in PCs : [Top EXCEPT !.pc = p] \in Context
    BY <1>a, TopType, ContextType DEF Context
  <1>d. /\ Nested => Top.pc \in Acting \cup Stopping
        /\ ~Nested => Top.pc \in Setting \cup {"user", "dos"} \cup Stopping
        /\ Top.pc \in Stopping => Top.ret = IF Nested THEN "a_raise" ELSE "s_rel"
        /\ Top.pc \in {"t_off", "t_dfl"} => ~hooked
        /\ Top.pc \in {"s_signal", "s_hook"} => ~hooked /\ ~latched /\ timer_on
    BY <1>a, TopInOrder
  <1>e. ASSUME NEW c \in Context, Set(c), ~latched', UNCHANGED <<now, exp, due, early>>,
               rel' = rel \/ ~Nested,
               Nested => ReloadedBy(c) = ReloadedBy(Top) /\ FoundBy(c)',
               c.pc \notin {"t_off", "s_signal", "s_hook"} => (hooked' <=> timer_on')
        PROVE  One'
    <2>1. Alone' /\ Top' = c /\ (Nested' <=> Nested)
      BY <1>a, <1>b, <1>e, AloneSet, Zenon
    <2>2. Reloaded' = Reloaded
      <3>1. ReloadedBy(Top)' = ReloadedBy(c)
        BY <2>1, Zenon DEF ReloadedBy
      <3> QED
        BY <1>e, <2>1, <3>1, Zenon DEF Reloaded
    <2>3. Ahead'
      BY <1>b, <1>e, <2>2 DEF Ahead, Reloaded
    <2>4. Found'
      BY <1>e, <2>1, Zenon DEF Found, FoundBy, Expired
    <2>5. Agree'
      BY <1>e, <2>1, Zenon DEF Agree
    <2>6. early' = 0
      BY <1>b, <1>e
    <2> QED
      BY <2>1, <2>3, <2>4, <2>5, <2>6 DEF One
  <1>f. ASSUME Return, ~latched', UNCHANGED <<now, exp, due, early>>, Reloaded = {},
               hooked' <=> timer_on'
        PROVE  One'
    <2>1. Alone' /\ Top' = Blank /\ ~Nested'
      BY <1>a, <1>b, <1>f, AloneReturn, Zenon
    <2>2. Reloaded' = {}
      BY <2>1, Zenon DEF Reloaded
    <2>3. Ahead'
      BY <1>b, <1>f, <2>2 DEF Ahead
    <2> QED
      BY <1>b, <1>f, <2>1, <2>3 DEF One, Found, Agree
  <1>g. ~Nested => Reloaded = {}
    BY Zenon DEF Reloaded
  <1>h. ASSUME NEW p \in PCs, Goto(p), ~latched', UNCHANGED <<now, exp, due, early>>,
               rel' = rel \/ ~Nested,
               Nested => Top.pc \notin {"a_test", "a_reload"} /\ p \in Stopping \cup {"a_raise"},
               p \notin {"t_off", "s_signal", "s_hook"} => (hooked' <=> timer_on')
        PROVE  One'
    <2>1. PICK c \in Context : c.pc = p /\ c.fire = Top.fire /\ Set(c)
      BY <1>c, <1>h DEF Goto, Context
    <2>2. ASSUME Nested PROVE ReloadedBy(c) = ReloadedBy(Top) /\ FoundBy(c)'
      <3>1. p \notin {"a_now", "a_test", "a_reload"}
        BY <1>h, <2>2 DEF Stopping
      <3> QED
        BY <1>h, <2>1, <2>2, <3>1, Zenon DEF ReloadedBy, FoundBy
    <2> QED
      BY <1>e, <1>h, <2>1, <2>2, Zenon
  <1>1. CASE UNCHANGED vars
    <2>1. UNCHANGED <<now, u_now, exp, rel, due, early, stack, latched, hooked, timer_on>>
      BY <1>1 DEF vars
    <2> QED
      BY <1>b, <2>1, Zenon DEF One, Alone, Ahead, Found, Agree, Reloaded, ReloadedBy, FoundBy,
                               Expired, Nested, Top
  <1>2. CASE Advance
    <2>1. /\ now' = now + 1 /\ UNCHANGED <<stack, hooked, timer_on, exp, rel, due, early, u_now>>
          /\ latched' => latched \/ (hooked /\ stack = <<Blank>>)
      BY <1>2 DEF Advance, timer_hdlr
    <2>2. Nested' = Nested /\ Top' = Top /\ Reloaded' = Reloaded
      BY <2>1, Zenon DEF Nested, Top, Reloaded, ReloadedBy
    <2>3. Alone'
      <3>1. Len(<<Blank>>) = 1 /\ ~(1 > 1)
        OBVIOUS
      <3> QED
        BY <1>b, <2>1, <2>2, <3>1, Zenon DEF Alone, Nested
    <2>4. Ahead'
      BY <1>a, <1>b, <2>1, <2>2 DEF Ahead, DataOK
    <2>5. Found' /\ Agree'
      BY <1>b, <2>1, <2>2, Zenon DEF Found, FoundBy, Expired, Agree
    <2> QED
      BY <1>b, <2>1, <2>3, <2>4, <2>5 DEF One
  <1>3. CASE Deliver
    <2> DEFINE c == [Blank EXCEPT !.pc = "a_now"]
    <2>1. handler = "timer_action" /\ latched
      BY <1>3, Zenon DEF Deliver, Ordered
    <2>2. /\ stack = <<Blank>> /\ stack' = Append(stack, c) /\ ~latched'
          /\ UNCHANGED <<now, exp, rel, due, early, hooked, timer_on>>
      BY <1>3, <1>b, <2>1 DEF Deliver, Alone
    <2>3. c \in Context /\ c.pc = "a_now" /\ c.fire = {} /\ c.t = "REAL"
      BY ContextType DEF PCs, Blank
    <2> HIDE DEF c
    <2>4. Alone' /\ Top' = c /\ Nested'
      BY <1>a, <2>2, <2>3, AlonePush, Zenon
    <2>5. ~Nested /\ Top = Blank
      BY <2>2 DEF Nested, Top
    <2>6. Reloaded' = {} /\ Reloaded = {}
      BY <2>3, <2>4, <2>5, Zenon DEF Reloaded, ReloadedBy
    <2>7. Ahead'
      BY <1>b, <2>2, <2>6 DEF Ahead
    <2>8. Found'
      BY <2>3, <2>4, Zenon DEF Found, FoundBy
    <2>9. Agree'
      <3>1. Top.pc = "user"
        BY <2>5 DEF Blank
      <3> QED
        BY <1>b, <2>2, <3>1, Zenon DEF Agree
    <2> QED
      BY <1>b, <2>2, <2>4, <2>7, <2>8, <2>9 DEF One
  <1>4. CASE getitimer
    <2>1. /\ Top.pc = "user" /\ UNCHANGED <<now, exp, rel, due, early, stack, latched, hooked, timer_on>>
      BY <1>4 DEF getitimer, Runs, At, clocks
    <2>2. ~Nested
      BY <1>d, <2>1 DEF Acting, Stopping
    <2> QED
      BY <1>b, <2>1, <2>2, Zenon DEF One, Alone, Ahead, Found, Agree, Reloaded, Nested, Top
  <1>5. CASE DosCall \/ DosReturn
    <2>1. /\ Top.pc \in {"user", "dos"} /\ UNCHANGED <<now, exp, rel, due, early, latched, hooked, timer_on>>
          /\ Goto("user") \/ Goto("dos")
      BY <1>5 DEF DosCall, DosReturn, Runs, At, clocks
    <2>2. Top.pc = "dos" \/ ~latched
      BY <1>5 DEF DosCall, DosReturn, Runs, At
    <2>3. ~latched
      <3>1. stack = <<Blank>> => Top.pc = "user"
        BY DEF Top, Blank
      <3> QED
        BY <1>b, <2>2, <3>1, Zenon DEF Alone
    <2>4. ~Nested
      BY <1>d, <2>1 DEF Acting, Stopping
    <2>5. hooked <=> timer_on
      BY <1>b, <2>1, Zenon DEF Agree
    <2>6. "user" \in PCs /\ "dos" \in PCs
      BY DEF PCs
    <2> QED
      BY <1>h, <2>1, <2>3, <2>4, <2>5, <2>6, Zenon
  <1>i. /\ \A p \in Setting \cup {"user", "dos"} : p \notin Acting \cup Stopping
        /\ \A p \in Acting : p \notin Stopping \cup Setting \cup {"user", "dos"}
        /\ \A p \in Stopping : p \notin {"a_test", "a_reload"}
    BY DEF Setting, Acting, Stopping
  <1>6. CASE setitimer
    <2>1. /\ Top.pc = "user" /\ ~latched
          /\ UNCHANGED <<now, early, latched, hooked, timer_on>>
      BY <1>6 DEF setitimer, Runs, At
    <2>2. ~Nested /\ (hooked <=> timer_on)
      BY <1>b, <1>d, <2>1 DEF Acting, Stopping, Agree
    <2>3. PICK t \in Timers, c \in Context :
            Set(c) /\ c.pc \in {"s_rel", "t_count"} /\ (UNCHANGED <<exp, due>> \/ Cleared(t))
      BY <1>6, SetitimerStack, Zenon
    <2>4. Alone' /\ Top' = c /\ ~Nested'
      BY <1>a, <1>b, <2>1, <2>2, <2>3, AloneSet, Zenon
    <2>5. Reloaded = {} /\ Reloaded' = {}
      BY <2>2, <2>4, Zenon DEF Reloaded
    <2>6. \A u \in Timers : exp[u] = due[u]
      BY <1>b, <2>5 DEF Ahead
    <2>7. \A u \in Timers : exp'[u] = due'[u]
      BY <1>a, <2>3, <2>6 DEF Cleared, DataOK
    <2>8. Ahead'
      BY <2>5, <2>7, Zenon DEF Ahead
    <2> QED
      BY <1>b, <2>1, <2>2, <2>4, <2>8, Zenon DEF One, Found, Agree
  <1>7. CASE set_rel
    <2>1. /\ Top.pc = "s_rel" /\ ~latched /\ UNCHANGED <<now, exp, due, early, latched, hooked, timer_on>>
          /\ Return \/ Goto("s_exp")
      BY <1>7 DEF set_rel, Runs, At, clocks
    <2>2. ~Nested /\ (hooked <=> timer_on) /\ "s_exp" \in PCs
      BY <1>b, <1>d, <2>1 DEF Acting, Stopping, Agree, PCs
    <2> QED
      BY <1>f, <1>g, <1>h, <2>1, <2>2, Zenon
  <1>8. CASE set_exp
    <2>1. /\ Top.pc = "s_exp" /\ ~latched /\ UNCHANGED <<now, early, latched, hooked, timer_on>>
          /\ exp' = [exp EXCEPT ![Top.t] = u_now + Top.val]
          /\ due' = [due EXCEPT ![Top.t] = u_now + Top.val]
          /\ Goto("s_next")
      BY <1>8 DEF set_exp, Runs, At
    <2>2. ~Nested /\ (hooked <=> timer_on) /\ "s_next" \in PCs
      BY <1>b, <1>d, <2>1 DEF Acting, Stopping, Agree, PCs
    <2>3. PICK c \in Context : Set(c) /\ c.pc = "s_next"
      BY <1>c, <2>1, <2>2 DEF Goto, Context
    <2>4. Alone' /\ Top' = c /\ ~Nested'
      BY <1>a, <1>b, <2>1, <2>2, <2>3, AloneSet, Zenon
    <2>5. Reloaded = {} /\ Reloaded' = {}
      BY <2>2, <2>4, Zenon DEF Reloaded
    <2>6. \A u \in Timers : exp'[u] = due'[u]
      BY <1>a, <1>b, <2>1, <2>5 DEF Ahead, DataOK
    <2>7. Ahead'
      BY <2>5, <2>6, Zenon DEF Ahead
    <2> QED
      BY <1>b, <2>1, <2>2, <2>4, <2>7, Zenon DEF One, Found, Agree
  <1>9. CASE start_next
    <2>1. /\ Top.pc = "s_next" /\ ~latched /\ UNCHANGED <<now, exp, rel, due, early, latched, hooked, timer_on>>
      BY <1>9 DEF start_next, Runs, At, clocks
    <2>2. ~Nested /\ (hooked <=> timer_on)
      BY <1>b, <1>d, <2>1 DEF Acting, Stopping, Agree
    <2>3. PICK c \in Context : Set(c)
      <3>1. [Top EXCEPT !.pc = "s_countdown", !.next = GetNextEvent] \in Context
        BY <1>a, TopType, NextEventType DEF Context, PCs
      <3> QED
        BY <1>9, <3>1, Zenon DEF start_next
    <2> QED
      BY <1>e, <2>1, <2>2, <2>3, Zenon
  <1>10. CASE start_countdown \/ start_on \/ start_signal \/ start_hook
    <2>1. /\ Top.pc \in {"s_countdown", "s_on", "s_signal", "s_hook"}
          /\ UNCHANGED <<now, exp, rel, due, early, latched>>
      BY <1>10 DEF start_countdown, start_on, start_signal, start_hook, Runs, At, clocks
    <2>2. ~Nested
      BY <1>d, <2>1 DEF Acting, Stopping
    <2>3. ~latched
      <3>1. stack = <<Blank>> => Top.pc = "user"
        BY DEF Top, Blank
      <3> QED
        BY <1>b, <2>1, <3>1, Zenon DEF Alone
    <2>4. {"s_on", "s_signal", "s_hook"} \subseteq PCs
      BY DEF PCs
    <2>5. CASE start_countdown
      <3>1. Goto("s_on") /\ Top.pc = "s_countdown" /\ UNCHANGED <<hooked, timer_on>>
        BY <2>5 DEF start_countdown, Runs, At
      <3>2. hooked <=> timer_on
        BY <1>b, <3>1, Zenon DEF Agree
      <3> QED
        BY <1>h, <2>1, <2>2, <2>3, <2>4, <3>1, <3>2, Zenon
    <2>6. CASE start_on
      <3>1. /\ (Return /\ timer_on) \/ Goto("s_signal")
            /\ Top.pc = "s_on" /\ hooked' = hooked /\ timer_on' = TRUE
        BY <2>6 DEF start_on, Runs, At
      <3>2. hooked <=> timer_on
        BY <1>b, <3>1, Zenon DEF Agree
      <3> QED
        BY <1>f, <1>g, <1>h, <2>1, <2>2, <2>3, <2>4, <3>1, <3>2, Zenon
    <2>7. CASE start_signal
      <3>1. Goto("s_hook")
        BY <2>7 DEF start_signal
      <3> QED
        BY <1>h, <2>1, <2>2, <2>3, <2>4, <3>1, Zenon
    <2>8. CASE start_hook
      <3>1. Return /\ Top.pc = "s_hook" /\ hooked' = TRUE /\ timer_on' = timer_on
        BY <2>8 DEF start_hook, At
      <3> QED
        BY <1>d, <1>f, <1>g, <2>1, <2>2, <2>3, <3>1, Zenon
    <2> QED
      BY <1>10, <2>5, <2>6, <2>7, <2>8
  <1>11. CASE stop_count \/ stop_vec \/ stop_off \/ stop_dfl
    <2>1. /\ Top.pc \in {"t_count", "t_vec", "t_off", "t_dfl"}
          /\ UNCHANGED <<now, exp, rel, due, early, latched>>
      BY <1>11 DEF stop_count, stop_vec, stop_off, stop_dfl, Runs, At, clocks
    <2>2. ~latched
      <3>1. stack = <<Blank>> => Top.pc = "user"
        BY DEF Top, Blank
      <3> QED
        BY <1>b, <2>1, <3>1, Zenon DEF Alone
    <2>3. /\ {"t_vec", "t_off", "t_dfl"} \subseteq PCs \cap Stopping
          /\ Top.pc \in Stopping /\ Top.pc \notin {"a_test", "a_reload"}
      BY <2>1 DEF Stopping, PCs
    <2>4. Nested => Top.ret \in Stopping \cup {"a_raise"}
      BY <1>d, <2>3, Zenon
    <2>5. CASE stop_count
      <3>1. /\ Goto("t_vec") \/ Goto(Top.ret)
            /\ Top.pc = "t_count" /\ UNCHANGED <<hooked, timer_on>>
        BY <2>5 DEF stop_count, Runs, At
      <3>2. hooked <=> timer_on
        BY <1>b, <3>1, Zenon DEF Agree
      <3> QED
        BY <1>c, <1>h, <2>1, <2>2, <2>3, <2>4, <3>1, <3>2, Zenon
    <2>6. CASE stop_vec
      <3>1. Goto("t_off")
        BY <2>6 DEF stop_vec
      <3> QED
        BY <1>h, <2>1, <2>2, <2>3, <3>1, Zenon
    <2>7. CASE stop_off
      <3>1. Goto("t_dfl") /\ Top.pc = "t_off" /\ hooked' = hooked /\ timer_on' = FALSE
        BY <2>7 DEF stop_off, Runs, At
      <3> QED
        BY <1>d, <1>h, <2>1, <2>2, <2>3, <3>1, Zenon
    <2>8. CASE stop_dfl
      <3>1. Goto(Top.ret) /\ Top.pc = "t_dfl" /\ UNCHANGED <<hooked, timer_on>>
        BY <2>8 DEF stop_dfl, Runs, At
      <3>2. hooked <=> timer_on
        BY <1>b, <3>1, Zenon DEF Agree
      <3> QED
        BY <1>c, <1>h, <2>1, <2>2, <2>3, <2>4, <3>1, <3>2, Zenon
    <2> QED
      BY <1>11, <2>5, <2>6, <2>7, <2>8
  <1>12. CASE action_now
    <2>1. /\ Top.pc = "a_now" /\ ~latched /\ Goto("a_test")
          /\ UNCHANGED <<now, exp, rel, due, early, latched, hooked, timer_on>>
      BY <1>12 DEF action_now, Runs, At, clocks
    <2>2. PICK c \in Context : Set(c) /\ c.pc = "a_test" /\ c.fire = Top.fire /\ c.t = Top.t
      BY <1>c, <2>1, SMTT(60) DEF Goto, Context, PCs
    <2>3. ASSUME Nested PROVE ReloadedBy(c) = ReloadedBy(Top) /\ FoundBy(c)'
      <3>1. Top.fire = {} /\ Top.t = "REAL"
        BY <1>b, <2>1, <2>3, Zenon DEF Found, FoundBy
      <3> QED
        BY <2>1, <2>2, <3>1 DEF ReloadedBy, FoundBy
    <2> QED
      BY <1>b, <1>e, <2>1, <2>2, <2>3, Zenon DEF Agree
  <1>13. Nested /\ Top.pc = "a_test" /\ ~Expired(Top.t) =>
           /\ AfterTest \in Context /\ AfterTest.pc \in {"a_test", "a_next"}
           /\ ReloadedBy(AfterTest) = ReloadedBy(Top)
           /\ AfterTest.pc = "a_test" => AfterTest.fire \subseteq {"REAL"} /\ AfterTest.t = "PROF"
    <2> SUFFICES ASSUME Nested, Top.pc = "a_test"
                 PROVE  /\ ReloadedBy(AfterTest) = ReloadedBy(Top)
                        /\ AfterTest.pc = "a_test" => AfterTest.fire \subseteq {"REAL"} /\ AfterTest.t = "PROF"
      BY <1>a, AfterTestIs
    <2>1. Top.fire \subseteq IF Top.t = "PROF" THEN {"REAL"} ELSE {}
      BY <1>b, Zenon DEF Found, FoundBy
    <2> QED
      BY <1>a, <2>1, AfterTestIs DEF ReloadedBy
  <1>14. CASE action_test
    <2>1. /\ Top.pc = "a_test" /\ ~latched
          /\ UNCHANGED <<now, u_now, exp, rel, due, early, latched, hooked, timer_on>>
      BY <1>14 DEF action_test, Runs, At, clocks
    <2>2. Nested
      BY <1>d, <2>1 DEF Setting, Stopping
    <2>3. hooked <=> timer_on
      BY <1>b, <2>1, Zenon DEF Agree
    <2>4. CASE ~Expired(Top.t)
      <3>1. Set(AfterTest)
        BY <1>14, <2>4, Zenon DEF action_test
      <3>2. PICK c \in Context : /\ Set(c) /\ c.pc \in {"a_test", "a_next"}
                                 /\ ReloadedBy(c) = ReloadedBy(Top)
                                 /\ c.pc = "a_test" => c.fire \subseteq {"REAL"} /\ c.t = "PROF"
        BY <1>13, <2>1, <2>2, <2>4, <3>1, Zenon
      <3>3. FoundBy(c)' /\ c.pc \notin {"t_off", "s_signal", "s_hook"}
        BY <3>2 DEF FoundBy
      <3> QED
        BY <1>e, <2>1, <2>3, <3>2, <3>3, Zenon
    <2>5. CASE Expired(Top.t)
      <3>1. Set([Top EXCEPT !.pc = "a_reload", !.fire = @ \cup {Top.t}])
        BY <1>14, <2>5, Zenon DEF action_test
      <3>2. PICK c \in Context : /\ Set(c) /\ c.pc = "a_reload" /\ c.t = Top.t
                                 /\ c.fire = Top.fire \cup {Top.t}
        <4> DEFINE d == [Top EXCEPT !.pc = "a_reload", !.fire = @ \cup {Top.t}]
        <4>1. d \in Context /\ d.pc = "a_reload" /\ d.t = Top.t /\ d.fire = Top.fire \cup {Top.t}
          <5>1. Top \in Context /\ Top.t \in Timers /\ Top.fire \subseteq Timers
            BY <1>c
          <5> QED
            BY <5>1 DEF Context, PCs
        <4> QED
          BY <3>1, <4>1, Zenon
      <3>3. Top.fire \subseteq IF Top.t = "PROF" THEN {"REAL"} ELSE {}
        BY <1>b, <2>1, <2>2, Zenon DEF Found, FoundBy
      <3>4. ReloadedBy(c) = ReloadedBy(Top)
        BY <1>c, <2>1, <3>2, <3>3 DEF ReloadedBy, Timers
      <3>5. Expired(c.t)'
        BY <2>1, <2>5, <3>2, Zenon DEF Expired
      <3>6. FoundBy(c)'
        BY <1>c, <3>2, <3>3, <3>5 DEF FoundBy, Timers
      <3> QED
        BY <1>e, <2>1, <2>3, <3>2, <3>4, <3>6, Zenon
    <2> QED
      BY <2>4, <2>5
  <1>15. CASE action_reload
    <2>1. /\ Top.pc = "a_reload" /\ ~latched /\ Set(AfterTest)
          /\ exp' = [exp EXCEPT ![Top.t] = IF rel[Top.t] # 0 THEN exp[Top.t] + rel[Top.t] ELSE 0]
          /\ UNCHANGED <<now, u_now, rel, due, early, latched, hooked, timer_on>>
      BY <1>15 DEF action_reload, Runs, At, clocks
    <2>2. Nested
      BY <1>d, <2>1 DEF Setting, Stopping
    <2>3. hooked <=> timer_on
      BY <1>b, <2>1, Zenon DEF Agree
    <2>4. Top.t \in Top.fire /\ Expired(Top.t) /\ Top.fire \subseteq {Top.t, "REAL"}
      BY <1>b, <2>1, <2>2, Zenon DEF Found, FoundBy
    <2>5. PICK c \in Context : /\ Set(c) /\ c.fire = Top.fire
                               /\ \/ Top.t = "REAL" /\ c.pc = "a_test" /\ c.t = "PROF"
                                  \/ Top.t = "PROF" /\ c.pc = "a_next"
      BY <1>a, <2>1, AfterTestIs, Zenon
    <2>6. Alone' /\ Top' = c /\ Nested'
      BY <1>a, <1>b, <2>1, <2>2, <2>5, AloneSet, Zenon
    <2>7. ReloadedBy(c) = ReloadedBy(Top) \cup {Top.t} /\ Top.t \notin ReloadedBy(Top)
      BY <1>c, <2>1, <2>4, <2>5 DEF ReloadedBy, Timers
    <2>8. Reloaded' = Reloaded \cup {Top.t} /\ Top.t \notin Reloaded
      BY <2>2, <2>6, <2>7 DEF Reloaded, ReloadedBy
    <2>9. exp[Top.t] = due[Top.t] /\ exp[Top.t] # 0 /\ exp[Top.t] <= now
      BY <1>a, <1>b, <1>c, <2>4, <2>8 DEF Ahead, Expired, DataOK
    <2>10. Ahead'
      BY <1>a, <1>b, <1>c, <2>1, <2>8, <2>9 DEF Ahead, DataOK
    <2>11. Found'
      BY <1>c, <2>4, <2>5, <2>6 DEF Found, FoundBy
    <2>12. Agree'
      BY <2>1, <2>3, Zenon DEF Agree
    <2> QED
      BY <1>b, <2>1, <2>6, <2>10, <2>11, <2>12 DEF One
  <1>16. CASE action_next
    <2>1. /\ Top.pc = "a_next" /\ ~latched
          /\ UNCHANGED <<now, u_now, exp, rel, due, early, latched, hooked, timer_on>>
      BY <1>16 DEF action_next, Runs, At
    <2>2. hooked <=> timer_on
      BY <1>b, <2>1, Zenon DEF Agree
    <2>3. CASE Return /\ Top.fire = {}
      <3>1. Reloaded = {}
        BY <2>1, <2>3 DEF Reloaded, ReloadedBy
      <3> QED
        BY <1>f, <2>1, <2>2, <2>3, <3>1, Zenon
    <2>4. CASE \/ Set([Top EXCEPT !.pc = "a_countdown", !.next = GetNextEvent])
               \/ Set([Top EXCEPT !.pc = "t_count", !.ret = "a_raise"])
      <3>1. /\ [Top EXCEPT !.pc = "a_countdown", !.next = GetNextEvent] \in Context
            /\ [Top EXCEPT !.pc = "t_count", !.ret = "a_raise"] \in Context
        BY <1>a, TopType, NextEventType DEF Context, PCs
      <3>2. PICK c \in Context : Set(c) /\ c.pc \in {"a_countdown", "t_count"} /\ c.fire = Top.fire
        BY <1>a, TopType, <2>4, <3>1 DEF Context
      <3>3. ReloadedBy(c) = ReloadedBy(Top) /\ FoundBy(c)' /\ c.pc \notin {"t_off", "s_signal", "s_hook"}
        BY <2>1, <3>2 DEF ReloadedBy, FoundBy
      <3> QED
        BY <1>e, <2>1, <2>2, <3>2, <3>3, Zenon
    <2> QED
      BY <1>16, <2>3, <2>4, Zenon DEF action_next
  <1>17. CASE action_countdown
    <2>1. /\ Top.pc = "a_countdown" /\ ~latched /\ Goto("a_raise")
          /\ UNCHANGED <<now, exp, rel, due, early, latched, hooked, timer_on>>
      BY <1>17 DEF action_countdown, Runs, At, clocks
    <2>2. hooked <=> timer_on
      BY <1>b, <2>1, Zenon DEF Agree
    <2>3. "a_raise" \in PCs /\ "a_countdown" \notin {"a_test", "a_reload"}
      BY DEF PCs
    <2> QED
      BY <1>h, <2>1, <2>2, <2>3, Zenon
  <1>18. CASE action_raise
    <2>1. /\ Top.pc = "a_raise" /\ ~latched
          /\ UNCHANGED <<now, u_now, exp, rel, latched, hooked, timer_on>>
      BY <1>18 DEF action_raise, Runs, At
    <2>2. Nested /\ (hooked <=> timer_on)
      BY <1>b, <1>d, <2>1 DEF Setting, Stopping, Agree
    <2>3. Reloaded = Top.fire
      BY <2>1, <2>2 DEF Reloaded, ReloadedBy
    <2>4. CASE Top.fire = {} /\ Return /\ UNCHANGED <<due, early>>
      BY <1>f, <2>1, <2>2, <2>3, <2>4, Zenon
    <2>5. ASSUME NEW t \in Top.fire, Set([Top EXCEPT !.fire = @ \ {t}]),
                 IF due[t] # 0 /\ due[t] <= now
                   THEN /\ due' = [due EXCEPT ![t] = IF rel[t] # 0 THEN due[t] + rel[t] ELSE 0]
                        /\ UNCHANGED early
                   ELSE early' = early + 1 /\ UNCHANGED due
          PROVE  One'
      <3>1. t \in Timers /\ due[t] # 0 /\ due[t] <= now
            /\ exp[t] = IF rel[t] # 0 THEN due[t] + rel[t] ELSE 0
        BY <1>b, <1>c, <2>3, <2>5 DEF Ahead
      <3>2. PICK c \in Context : Set(c) /\ c.pc = "a_raise" /\ c.fire = Top.fire \ {t}
        BY <1>c, <2>1, <2>5 DEF Context
      <3>3. Alone' /\ Top' = c /\ Nested'
        BY <1>a, <1>b, <2>1, <2>2, <3>2, AloneSet, Zenon
      <3>4. Reloaded' = Reloaded \ {t}
        BY <2>3, <3>2, <3>3 DEF Reloaded, ReloadedBy
      <3>5. due' = [due EXCEPT ![t] = exp[t]] /\ early' = early
        BY <2>5, <3>1
      <3>6. Ahead'
        BY <1>a, <1>b, <2>1, <3>1, <3>4, <3>5 DEF Ahead, DataOK
      <3>7. Found' /\ Agree'
        BY <2>1, <2>2, <3>2, <3>3 DEF Found, FoundBy, Agree
      <3> QED
        BY <1>b, <3>3, <3>5, <3>6, <3>7 DEF One
    <2> QED
      BY <1>18, <2>4, <2>5, Zenon DEF action_raise
  <1> QED
    BY <1>1, <1>2, <1>3, <1>4, <1>5, <1>6, <1>7, <1>8, <1>9, <1>10, <1>11, <1>12, <1>14, <1>15,
       <1>16, <1>17, <1>18, Zenon DEF Next

\* A system stays slow or fast.
LEMMA SlowFixed == [Next]_vars => slow' = slow
  BY Zenon DEF Next, vars, clocks, Advance, Deliver, DosCall, DosReturn, getitimer, setitimer,
     set_rel, set_exp, start_next, start_countdown, start_on, start_signal, start_hook,
     stop_count, stop_vec, stop_off, stop_dfl, action_now, action_test, action_reload,
     action_next, action_countdown, action_raise

\* Types, the order of start and stop, no kill, and One unless the system was slow.
LEMMA AlwaysOne == Spec => [](TypeOK /\ Ordered /\ ~killed /\ (~slow => One))
  <1>1. Init => (~slow => One)
    <2> SUFFICES ASSUME Init PROVE One
      OBVIOUS
    <2>1. /\ stack = <<Blank>> /\ ~hooked /\ ~latched /\ ~timer_on /\ early = 0
          /\ exp = [t \in Timers |-> 0] /\ due = [t \in Timers |-> 0]
      BY DEF Init
    <2>2. ~Nested /\ Len(stack) <= 2
      BY <2>1 DEF Nested
    <2>3. Ahead
      BY <2>1, <2>2 DEF Ahead, Reloaded
    <2> QED
      BY <2>1, <2>2, <2>3, Zenon DEF One, Alone, Found, Agree
  <1>3. TypeOK /\ Ordered /\ ~killed /\ (~slow => One) /\ [Next]_vars => (~slow => One)'
    <2> SUFFICES ASSUME TypeOK, Ordered, ~killed, ~slow => One, [Next]_vars, ~slow' PROVE One'
      OBVIOUS
    <2>1. ~slow
      BY SlowFixed, Zenon
    <2> QED
      BY <2>1, OneStep, Zenon
  <1> QED
    BY <1>1, <1>3, AlwaysOrdered, PTL DEF Spec

\* On a system that serves each tick before the next comes, no alarm is early or
\* comes twice for one expiration, whatever timers the program sets and resets.
THEOREM AlarmsAnswerExpirations == Spec => []OneAlarmPerExpiration
  <1>1. (~slow => One) => OneAlarmPerExpiration
    BY DEF One, OneAlarmPerExpiration
  <1> QED
    BY <1>1, AlwaysOne, PTL

-----------------------------------------------------------------------------
(* Every timer is met in time.                                             *)

Last == (now \div TICK) * TICK \* the time of the last tick
Armed == \E t \in Timers : exp[t] # 0
Whole(n) == n = 0 \/ n >= TICK \* no time but zero is shorter than a tick

\* A timer not yet looked at since the last tick may have expired at it.
PendingIn(c, t) ==
  c.pc = "a_now" \/ (c.pc \in {"a_test", "a_reload"} /\ (c.t = "REAL" \/ t = "PROF"))
Pending(t) == latched \/ PendingIn(Top, t)

Rounded ==
  /\ \A t \in Timers : Whole(rel[t])
  /\ Whole(Top.val) /\ Whole(Top.ival)
  /\ Top.pc = "s_exp" => Top.val # 0

\* The time that setitimer and timer_action work with was read after the last tick.
Fresh == Top.pc \notin {"user", "dos", "a_now"} => u_now >= Last

NotMissed ==
  \A t \in Timers : exp[t] # 0 => exp[t] > IF Pending(t) THEN Last - TICK ELSE Last

\* The tick at which the countdown ends is no later than the first after an expiration.
Counting ==
  (Top.pc \notin {"s_next", "s_countdown"} /\ Armed) =>
    /\ countdown # Never
    /\ \A t \in Timers : exp[t] # 0 /\ ~Pending(t) => exp[t] > Last + countdown * TICK

AtZero ==
  (latched \/ Top.pc \in {"a_now", "a_test", "a_reload", "a_next", "a_countdown"}) =>
    countdown = 0

NextFound ==
  Top.pc \in {"s_countdown", "a_countdown"} =>
    \A t \in Timers : exp[t] # 0 => Top.next <= exp[t] - u_now

Stopped == Top.pc \in Stopping => ~Armed

Ticking ==
  (Top.pc \notin {"s_next", "s_countdown", "s_on", "s_signal", "s_hook"} /\ Armed) => hooked

InTime ==
  Rounded /\ Fresh /\ NotMissed /\ Counting /\ AtZero /\ NextFound /\ Stopped /\ Ticking

\* Division by the length of a tick.
LEMMA Divided ==
  ASSUME NEW n \in Nat
  PROVE  /\ n \div TICK \in Int /\ n % TICK \in 0..(TICK - 1)
         /\ n = (n \div TICK) * TICK + (n % TICK)
  BY ITimerAssumption

\* The last tick is at most one tick ago.
LEMMA LastBounds ==
  ASSUME DataOK
  PROVE  Last \in Int /\ Last <= now /\ now < Last + TICK
  <1>1. now \in Nat
    BY DEF DataOK
  <1>2. PICK q \in Int, r \in 0..(TICK - 1) : q = now \div TICK /\ now = q * TICK + r
    BY <1>1, Divided
  <1>3. Last = q * TICK /\ q * TICK \in Int
    BY <1>2, ITimerAssumption DEF Last
  <1> QED
    BY <1>1, <1>2, <1>3, ITimerAssumption

\* Only a tick moves it.
LEMMA LastTick ==
  ASSUME DataOK, now' = now + 1
  PROVE  Last' = IF now' % TICK = 0 THEN Last + TICK ELSE Last
  <1>1. now \in Nat /\ TICK \in Nat \ {0}
    BY ITimerAssumption DEF DataOK
  <1>2. PICK q \in Int, r \in 0..(TICK - 1) : q = now \div TICK /\ now = q * TICK + r
    BY <1>1, Divided
  <1>3. PICK u \in Int, s \in 0..(TICK - 1) :
          u = now' \div TICK /\ s = now' % TICK /\ now + 1 = u * TICK + s
    BY <1>1, Divided
  <1>4. q * TICK + r + 1 = u * TICK + s
    BY <1>1, <1>2, <1>3
  <1>5. (u - q) * TICK = r + 1 - s
    BY <1>1, <1>4
  <1>6. u - q >= 2 => (u - q) * TICK >= 2 * TICK
    BY <1>1
  <1>7. u - q < 0 => (u - q) * TICK <= - TICK
    BY <1>1
  <1>8. u = q \/ u = q + 1
    BY <1>1, <1>2, <1>3, <1>5, <1>6, <1>7
  <1>a. Last = q * TICK /\ Last' = u * TICK
    BY <1>2, <1>3 DEF Last
  <1>9. CASE u = q
    <2>1. s = r + 1
      BY <1>1, <1>5, <1>9
    <2> QED
      BY <1>1, <1>3, <1>9, <1>a, <2>1
  <1>10. CASE u = q + 1
    <2>1. TICK = r + 1 - s /\ u * TICK = q * TICK + TICK
      BY <1>1, <1>5, <1>10
    <2>2. s = 0
      BY <1>1, <2>1
    <2> QED
      BY <1>3, <1>a, <2>1, <2>2
  <1> QED
    BY <1>8, <1>9, <1>10

\* A step of the running activation that changes neither timers nor countdown: what
\* is left to show is about its new location.
LEMMA TimeKept ==
  ASSUME DataOK, InTime, NEW c \in Context, Top' = c, Last' = Last, ~latched, ~latched',
         UNCHANGED <<exp, countdown>>, Rounded',
         c.pc \notin {"user", "dos", "a_now"} => u_now' >= Last,
         \A t \in Timers : exp[t] # 0 /\ ~PendingIn(c, t) => exp[t] > Last,
         c.pc \notin {"s_next", "s_countdown"} => Top.pc \notin {"s_next", "s_countdown"},
         c.pc \in {"a_now", "a_test", "a_reload", "a_next", "a_countdown"} => countdown = 0,
         c.pc \in {"s_countdown", "a_countdown"} =>
           \A t \in Timers : exp[t] # 0 => c.next <= exp[t] - u_now',
         c.pc \in Stopping => ~Armed,
         (c.pc \notin {"s_next", "s_countdown", "s_on", "s_signal", "s_hook"} /\ Armed) => hooked'
  PROVE  InTime'
  <1>a. /\ Last \in Int /\ TICK \in Nat \ {0} /\ countdown \in Int
        /\ \A t \in Timers : exp[t] \in Int
    BY LastBounds, ITimerAssumption DEF DataOK, Never
  <1>b. Rounded /\ Fresh /\ NotMissed /\ Counting /\ AtZero
    BY DEF InTime
  <1>c. Armed' <=> Armed
    BY Zenon DEF Armed
  <1>d. \A t \in Timers : Pending(t)' <=> PendingIn(c, t)
    BY Zenon DEF Pending, PendingIn
  <1>1. Fresh'
    BY DEF Fresh
  <1>2. NotMissed'
    <2>1. \A t \in Timers : exp[t] # 0 => exp[t] > Last - TICK
      BY <1>a, <1>b DEF NotMissed
    <2> QED
      BY <1>d, <2>1 DEF NotMissed
  <1>3. Counting'
    <2> SUFFICES ASSUME c.pc \notin {"s_next", "s_countdown"}, Armed
                 PROVE  /\ countdown # Never
                        /\ \A t \in Timers : exp[t] # 0 /\ ~PendingIn(c, t) =>
                             exp[t] > Last + countdown * TICK
      BY <1>c, <1>d, Zenon DEF Counting
    <2>1. countdown # Never
      BY <1>b, Zenon DEF Counting
    <2>2. ASSUME NEW t \in Timers, exp[t] # 0, ~PendingIn(c, t)
          PROVE  exp[t] > Last + countdown * TICK
      <3>1. CASE PendingIn(Top, t)
        <4>1. countdown = 0
          BY <1>b, <3>1 DEF AtZero, PendingIn
        <4> QED
          BY <1>a, <2>2, <4>1
      <3>2. CASE ~PendingIn(Top, t)
        BY <1>b, <2>2, <3>2, Zenon DEF Counting, Pending
      <3> QED
        BY <3>1, <3>2
    <2> QED
      BY <2>1, <2>2
  <1>4. AtZero'
    BY Zenon DEF AtZero
  <1>5. NextFound'
    BY DEF NextFound
  <1>6. Stopped' /\ Ticking'
    BY <1>c, Zenon DEF Stopped, Ticking
  <1> QED
    BY <1>1, <1>2, <1>3, <1>4, <1>5, <1>6 DEF InTime

\* Every step of a system that serves its ticks in time keeps InTime until it stalls.
LEMMA TimeStep ==
  TypeOK /\ Ordered /\ ~killed /\ ~slow /\ One /\ ~stalled /\ InTime /\ [Next]_vars /\ ~stalled'
  => InTime'
  <1> SUFFICES ASSUME TypeOK, Ordered, ~killed, ~slow, One, ~stalled, InTime, [Next]_vars, ~stalled'
               PROVE  InTime'
    OBVIOUS
  <1>a. StackOK /\ DataOK
    BY TypeParts
  <1>b. Alone /\ Found /\ Agree
    BY DEF One
  <1>c. Rounded /\ Fresh /\ NotMissed /\ Counting /\ AtZero /\ NextFound /\ Stopped /\ Ticking
    BY DEF InTime
  <1>d. /\ Nested => Top.pc \in Acting \cup Stopping
        /\ ~Nested => Top.pc \in Setting \cup {"user", "dos"} \cup Stopping
        /\ Top.pc \in Stopping => Top.ret = IF Nested THEN "a_raise" ELSE "s_rel"
    BY <1>a, TopInOrder
  <1>e. /\ Top \in Context /\ Top.t \in Timers /\ Top.ret \in PCs /\ Top.fire \subseteq Timers
        /\ Top.val \in Nat /\ Top.ival \in Nat /\ Top.next \in Int
    BY <1>a, TopType DEF Context
  <1>f. /\ Last \in Int /\ TICK \in Nat \ {0} /\ Last <= now /\ now < Last + TICK /\ now \in Int
        /\ u_now \in Int /\ u_now <= now
        /\ \A t \in Timers : exp[t] \in Nat /\ rel[t] \in Nat
    BY <1>a, LastBounds, ITimerAssumption DEF DataOK
  <1>g. UNCHANGED now => Last' = Last
    BY Zenon DEF Last
  <1>h. ASSUME NEW c \in Context, Set(c), ~latched' PROVE Top' = c
    BY <1>a, <1>b, <1>h, AloneSet, Zenon
  <1>i. ASSUME Return, ~latched' PROVE Top' = Blank
    BY <1>a, <1>b, <1>i, AloneReturn, Zenon
  <1>j. ASSUME NEW p \in PCs, Goto(p), ~latched'
        PROVE  \E c \in Context : /\ Top' = c /\ c.pc = p /\ c.t = Top.t /\ c.val = Top.val
                                  /\ c.ival = Top.ival /\ c.next = Top.next /\ c.fire = Top.fire
    <2> DEFINE c == [Top EXCEPT !.pc = p]
    <2>1. /\ c \in Context /\ c.pc = p /\ c.t = Top.t /\ c.val = Top.val
          /\ c.ival = Top.ival /\ c.next = Top.next /\ c.fire = Top.fire
      BY <1>e DEF Context
    <2>2. Set(c)
      BY <1>j, Zenon DEF Goto
    <2> HIDE DEF c
    <2> QED
      BY <1>h, <1>j, <2>1, <2>2, Zenon
  <1>k. latched => Top.pc = "user"
    <2>1. stack = <<Blank>> => Top.pc = "user"
      BY DEF Top, Blank
    <2> QED
      BY <1>b, <2>1, Zenon DEF Alone
  \* Where the timers keep their values, a timer that is looked at is not missed.
  <1>l. \A t \in Timers : exp[t] # 0 /\ ~Pending(t) => exp[t] > Last
    BY <1>c, Zenon DEF NotMissed
  \* The activation returns to the program.
  <1>m. ASSUME Return, ~latched, ~latched', UNCHANGED <<now, exp, countdown>>,
               \A t \in Timers : Whole(rel'[t]),
               Top.pc \notin {"s_next", "s_countdown", "a_now", "a_test", "a_reload"},
               Armed => hooked'
        PROVE  InTime'
    <2>1. Blank \in Context /\ Blank.pc = "user" /\ Blank.val = 0 /\ Blank.ival = 0
      BY ContextType DEF Blank
    <2>2. Top' = Blank
      BY <1>i, <1>m
    <2>3. PICK c \in Context : Top' = c /\ c.pc = "user" /\ c.val = 0 /\ c.ival = 0
      BY <2>1, <2>2
    <2>4. Rounded'
      BY <1>m, <2>3 DEF Rounded, Whole
    <2>5. \A t \in Timers : ~Pending(t)
      BY <1>m, Zenon DEF Pending, PendingIn
    <2>6. "user" \notin Stopping
      BY DEF Stopping
    <2> QED
      BY <1>a, <1>g, <1>l, <1>m, <2>3, <2>4, <2>5, <2>6, TimeKept, Zenon
  \* The activation goes on with the same timers.
  <1>n. ASSUME NEW p \in PCs, Goto(p), ~latched, ~latched', UNCHANGED <<now, exp, countdown, u_now>>,
               \A t \in Timers : Whole(rel'[t]),
               p = "s_exp" => Top.val # 0,
               p \notin {"a_now", "a_test", "a_reload", "a_next", "a_countdown", "s_countdown"},
               Top.pc \notin {"a_now", "a_test", "a_reload", "s_next", "s_countdown"},
               p \notin {"user", "dos"} => u_now >= Last,
               p \in Stopping => ~Armed,
               (p \notin {"s_next", "s_on", "s_signal", "s_hook"} /\ Armed) => hooked'
        PROVE  InTime'
    <2>1. PICK c \in Context : /\ Top' = c /\ c.pc = p /\ c.t = Top.t /\ c.val = Top.val
                               /\ c.ival = Top.ival /\ c.next = Top.next /\ c.fire = Top.fire
      BY <1>j, <1>n, Zenon
    <2>2. Rounded'
      BY <1>c, <1>n, <2>1, Zenon DEF Rounded, Whole
    <2>3. \A t \in Timers : ~Pending(t)
      BY <1>n, Zenon DEF Pending, PendingIn
    <2> QED
      BY <1>a, <1>g, <1>l, <1>n, <2>1, <2>2, <2>3, TimeKept, Zenon
  <1>1. CASE UNCHANGED vars
    <2>1. UNCHANGED <<now, u_now, exp, rel, countdown, latched, hooked, stack>>
      BY <1>1 DEF vars
    <2> QED
      BY <1>c, <2>1, Zenon DEF InTime, Rounded, Fresh, NotMissed, Counting, AtZero, NextFound,
           Stopped, Ticking, Armed, Pending, PendingIn, Last, Top
  <1>2. CASE DosCall \/ DosReturn
    <2>1. /\ Top.pc = "dos" /\ Goto("user")
          /\ UNCHANGED <<now, u_now, exp, rel, countdown, latched, hooked>>
      BY <1>2 DEF DosCall, DosReturn, At, clocks
    <2>2. ~latched
      BY <1>k, <2>1
    <2>3. "user" \in PCs /\ "user" \notin Stopping
      BY DEF PCs, Stopping
    <2>4. \A t \in Timers : Whole(rel'[t])
      BY <1>c, <2>1, Zenon DEF Rounded
    <2>5. Armed => hooked
      BY <1>c, <2>1, Zenon DEF Ticking
    <2> QED
      BY <1>n, <2>1, <2>2, <2>3, <2>4, <2>5, Zenon
  <1>3. CASE set_rel
    <2>1. /\ Top.pc = "s_rel" /\ ~latched /\ rel' = [rel EXCEPT ![Top.t] = Top.ival]
          /\ UNCHANGED <<now, u_now, exp, countdown, latched, hooked>>
      BY <1>3 DEF set_rel, Runs, At, clocks
    <2>2. Return \/ (Goto("s_exp") /\ Top.val # 0)
      BY <1>3 DEF set_rel
    <2>3. "s_exp" \in PCs /\ "s_exp" \notin Stopping
      BY DEF PCs, Stopping
    <2>4. \A t \in Timers : Whole(rel'[t])
      <3>1. Whole(Top.ival) /\ \A t \in Timers : Whole(rel[t])
        BY <1>c DEF Rounded
      <3>2. rel \in [Timers -> Nat]
        BY <1>a DEF DataOK
      <3> QED
        BY <1>e, <2>1, <3>1, <3>2
    <2>5. (Armed => hooked) /\ u_now >= Last
      BY <1>c, <2>1, Zenon DEF Ticking, Fresh
    <2> QED
      BY <1>m, <1>n, <2>1, <2>2, <2>3, <2>4, <2>5, Zenon
  <1>o. \A t \in Timers : Whole(rel[t])
    BY <1>c DEF Rounded
  <1>4. CASE start_on
    <2>1. /\ Top.pc = "s_on" /\ ~latched
          /\ UNCHANGED <<now, u_now, exp, rel, countdown, latched, hooked>>
          /\ (Return /\ timer_on) \/ Goto("s_signal")
      BY <1>4 DEF start_on, Runs, At, clocks
    <2>2. timer_on => hooked
      BY <1>b, <2>1, Zenon DEF Agree
    <2>3. "s_signal" \in PCs /\ "s_signal" \notin Stopping
      BY DEF PCs, Stopping
    <2>4. u_now >= Last
      BY <1>c, <2>1, Zenon DEF Fresh
    <2> QED
      BY <1>m, <1>n, <1>o, <2>1, <2>2, <2>3, <2>4, Zenon
  <1>5. CASE start_signal
    <2>1. /\ Top.pc = "s_signal" /\ ~latched /\ Goto("s_hook")
          /\ UNCHANGED <<now, u_now, exp, rel, countdown, latched, hooked>>
      BY <1>5 DEF start_signal, Runs, At, clocks
    <2>2. "s_hook" \in PCs /\ "s_hook" \notin Stopping
      BY DEF PCs, Stopping
    <2>3. u_now >= Last
      BY <1>c, <2>1, Zenon DEF Fresh
    <2> QED
      BY <1>n, <1>o, <2>1, <2>2, <2>3, Zenon
  <1>6. CASE start_hook
    <2>1. /\ Top.pc = "s_hook" /\ Return /\ hooked' = TRUE
          /\ UNCHANGED <<now, u_now, exp, rel, countdown, latched>>
      BY <1>6 DEF start_hook, At, clocks
    <2>2. ~latched
      BY <1>k, <2>1
    <2> QED
      BY <1>m, <1>o, <2>1, <2>2, Zenon
  <1>7. CASE stop_count \/ stop_vec \/ stop_off \/ stop_dfl
    <2>1. /\ Top.pc \in Stopping /\ UNCHANGED <<now, u_now, exp, rel, latched>>
      BY <1>7 DEF stop_count, stop_vec, stop_off, stop_dfl, Runs, At, clocks, Stopping
    <2>2. ~latched /\ ~Armed /\ u_now >= Last
      <3>1. Top.pc \notin {"user", "dos", "a_now"}
        BY <2>1 DEF Stopping
      <3> QED
        BY <1>c, <1>k, <2>1, <3>1, Zenon DEF Stopped, Fresh
    <2>3. \E p \in {"t_vec", "t_off", "t_dfl", "s_rel", "a_raise"} : Goto(p)
      <3>1. Top.ret \in {"s_rel", "a_raise"}
        BY <1>d, <2>1, Zenon
      <3> QED
        BY <1>7, <3>1 DEF stop_count, stop_vec, stop_off, stop_dfl
    <2>4. {"t_vec", "t_off", "t_dfl", "s_rel", "a_raise"} \subseteq PCs
      BY DEF PCs
    <2>5. PICK c \in Context :
            /\ Top' = c /\ c.pc \in {"t_vec", "t_off", "t_dfl", "s_rel", "a_raise"}
            /\ c.val = Top.val /\ c.ival = Top.ival
      BY <1>j, <2>1, <2>2, <2>3, <2>4, Zenon
    <2>6. Rounded'
      BY <1>c, <2>1, <2>5 DEF Rounded, Whole
    <2>7. Fresh'
      BY <1>g, <2>1, <2>2, <2>5 DEF Fresh
    <2>8. ~Armed' /\ \A t \in Timers : exp'[t] = 0
      BY <2>1, <2>2, Zenon DEF Armed
    <2>9. NotMissed' /\ Counting' /\ NextFound'
      BY <2>8, Zenon DEF NotMissed, Counting, NextFound
    <2>10. AtZero' /\ Stopped' /\ Ticking'
      BY <2>1, <2>2, <2>5, <2>8 DEF AtZero, Stopped, Ticking
    <2> QED
      BY <2>6, <2>7, <2>9, <2>10 DEF InTime
  <1>8. CASE action_raise
    <2>1. /\ Top.pc = "a_raise" /\ ~latched
          /\ UNCHANGED <<now, u_now, exp, rel, countdown, latched, hooked>>
      BY <1>8 DEF action_raise, Runs, At
    <2>2. (Armed => hooked) /\ u_now >= Last
      BY <1>c, <2>1, Zenon DEF Ticking, Fresh
    <2>3. CASE Return
      BY <1>m, <1>o, <2>1, <2>2, <2>3, Zenon
    <2>4. ASSUME NEW t \in Top.fire, Set([Top EXCEPT !.fire = @ \ {t}]) PROVE InTime'
      <3> DEFINE d == [Top EXCEPT !.fire = @ \ {t}]
      <3>1. d \in Context /\ d.pc = "a_raise" /\ d.val = Top.val /\ d.ival = Top.ival
        BY <1>e, <2>1 DEF Context
      <3>2. Set(d)
        BY <2>4
      <3> HIDE DEF d
      <3>3. PICK c \in Context : Top' = c /\ c.pc = "a_raise" /\ c.val = Top.val /\ c.ival = Top.ival
        BY <1>h, <2>1, <3>1, <3>2, Zenon
      <3>4. Rounded'
        BY <1>c, <2>1, <3>3 DEF Rounded, Whole
      <3>5. \A u \in Timers : ~Pending(u)
        BY <2>1, Zenon DEF Pending, PendingIn
      <3>6. "a_raise" \notin Stopping
        BY DEF Stopping
      <3> QED
        BY <1>a, <1>g, <1>l, <2>1, <2>2, <3>3, <3>4, <3>5, <3>6, TimeKept, Zenon
    <2> QED
      BY <1>8, <2>3, <2>4, Zenon DEF action_raise
  <1>9. CASE Advance
    <2>1. /\ now' = now + 1 /\ UNCHANGED <<u_now, exp, rel, stack, hooked>>
      BY <1>9 DEF Advance
    <2>2. /\ Top' = Top /\ (Armed' <=> Armed) /\ Rounded'
          /\ \A t \in Timers : PendingIn(Top, t)' <=> PendingIn(Top, t)
      BY <1>c, <2>1, Zenon DEF Top, Armed, Rounded, Whole, PendingIn
    <2>3. NextFound' /\ Stopped' /\ Ticking'
      BY <1>c, <2>1, <2>2, Zenon DEF NextFound, Stopped, Ticking, Armed
    <2>4. CASE now' % TICK # 0
      <3>1. Last' = Last /\ UNCHANGED <<countdown, latched>>
        BY <1>9, <1>a, <2>1, <2>4, LastTick, Zenon DEF Advance
      <3> QED
        BY <1>c, <2>1, <2>2, <2>3, <3>1, Zenon
           DEF InTime, Fresh, NotMissed, Counting, AtZero, Pending
    <2>5. CASE now' % TICK = 0
      <3>1. Last' = Last + TICK /\ stack = <<Blank>> /\ ~latched /\ timer_hdlr
        BY <1>9, <1>a, <2>1, <2>5, LastTick, Zenon DEF Advance
      <3>2. Top.pc = "user"
        BY <3>1 DEF Top, Blank
      <3>3. \A t \in Timers : ~PendingIn(Top, t)
        BY <3>2, Zenon DEF PendingIn
      <3>4. Fresh'
        BY <2>2, <3>2, Zenon DEF Fresh
      <3>5. CASE ~Armed
        <4>1. \A t \in Timers : exp'[t] = 0
          BY <2>1, <3>5, Zenon DEF Armed
        <4>2. latched' => countdown' = 0
          BY <3>1 DEF timer_hdlr
        <4>3. AtZero'
          BY <2>2, <3>2, <4>2, Zenon DEF AtZero
        <4> QED
          BY <2>2, <2>3, <3>4, <3>5, <4>1, <4>3, Zenon DEF InTime, NotMissed, Counting
      <3>6. CASE Armed
        <4>1. hooked /\ countdown # Never
          BY <1>c, <3>2, <3>6, Zenon DEF Ticking, Counting
        <4>2. PICK n \in Nat : n = countdown
          BY <1>a, <4>1 DEF DataOK
        <4>3. \A t \in Timers : exp[t] # 0 => exp[t] > Last + n * TICK /\ exp[t] > Last
          BY <1>c, <3>1, <3>2, <3>3, <3>6, <4>2, Zenon DEF Counting, NotMissed, Pending
        <4>4. CASE n = 0
          <5>1. latched' /\ countdown' = 0
            BY <3>1, <4>1, <4>2, <4>4 DEF timer_hdlr
          <5>2. NotMissed'
            BY <1>f, <2>1, <3>1, <4>3, <5>1 DEF NotMissed, Pending
          <5>3. Counting' /\ AtZero'
            BY <5>1 DEF Counting, AtZero, Pending, Never
          <5> QED
            BY <2>2, <2>3, <3>4, <5>2, <5>3 DEF InTime
        <4>5. CASE n # 0
          <5>1. countdown' = n - 1 /\ latched' = latched
            BY <3>1, <4>1, <4>2, <4>5 DEF timer_hdlr
          <5>2. Last + n * TICK = Last' + (n - 1) * TICK /\ (n - 1) * TICK >= 0
            BY <1>f, <3>1, <4>2, <4>5
          <5>3. (n - 1) * TICK \in Int /\ n * TICK \in Int
            BY <1>f, <4>2
          <5>4. \A t \in Timers : exp[t] # 0 => exp[t] > Last' + (n - 1) * TICK /\ exp[t] > Last'
            <6> HIDE DEF Last
            <6> QED
              BY <1>f, <3>1, <4>3, <5>2, <5>3
          <5>5. \A t \in Timers : ~Pending(t)'
            BY <2>2, <3>1, <3>3, <5>1, Zenon DEF Pending
          <5>6. NotMissed'
            BY <2>1, <5>4, <5>5 DEF NotMissed
          <5>7. Counting'
            BY <2>1, <4>2, <4>5, <5>1, <5>4 DEF Counting, Never
          <5>8. AtZero'
            BY <2>2, <3>1, <3>2, <5>1 DEF AtZero
          <5> QED
            BY <2>2, <2>3, <3>4, <5>6, <5>7, <5>8 DEF InTime
        <4> QED
          BY <4>4, <4>5
      <3> QED
        BY <3>5, <3>6
    <2> QED
      BY <2>4, <2>5
  <1>10. CASE Deliver
    <2> DEFINE d == [Blank EXCEPT !.pc = "a_now"]
    <2>1. handler = "timer_action" /\ latched
      BY <1>10, Zenon DEF Deliver, Ordered
    <2>2. /\ stack = <<Blank>> /\ stack' = Append(stack, d) /\ ~latched'
          /\ UNCHANGED <<now, u_now, exp, rel, countdown, hooked>>
      BY <1>10, <1>b, <2>1 DEF Deliver, Alone
    <2>3. d \in Context /\ d.pc = "a_now" /\ d.val = 0 /\ d.ival = 0
      BY ContextType DEF PCs, Blank
    <2> HIDE DEF d
    <2>4. PICK c \in Context : Top' = c /\ c.pc = "a_now" /\ c.val = 0 /\ c.ival = 0
      BY <1>a, <2>2, <2>3, AlonePush, Zenon
    <2>5. Top.pc = "user"
      BY <2>2 DEF Top, Blank
    <2>6. /\ (Armed' <=> Armed) /\ Last' = Last
          /\ \A t \in Timers : Pending(t) /\ Pending(t)'
      BY <1>g, <2>1, <2>2, <2>4, Zenon DEF Armed, Pending, PendingIn
    <2>7. Rounded'
      BY <1>o, <2>2, <2>4 DEF Rounded, Whole
    <2>8. Fresh' /\ NextFound' /\ Stopped'
      BY <2>4 DEF Fresh, NextFound, Stopped, Stopping
    <2>9. NotMissed' /\ Counting'
      BY <1>c, <2>2, <2>5, <2>6, Zenon DEF NotMissed, Counting
    <2>10. AtZero' /\ Ticking'
      BY <1>c, <2>1, <2>2, <2>5, <2>6, Zenon DEF AtZero, Ticking
    <2> QED
      BY <2>7, <2>8, <2>9, <2>10 DEF InTime
  <1>11. CASE getitimer
    <2>1. /\ Top.pc = "user" /\ ~latched /\ UNCHANGED <<now, exp, rel, countdown, latched, hooked, stack>>
      BY <1>11 DEF getitimer, Runs, At, clocks
    <2>2. Top' = Top /\ Rounded'
      BY <1>c, <2>1, Zenon DEF Top, Rounded, Whole
    <2>3. \A t \in Timers : ~Pending(t)
      BY <2>1, Zenon DEF Pending, PendingIn
    <2>4. "user" \notin Stopping /\ (Armed => hooked)
      BY <1>c, <2>1 DEF Stopping, Ticking
    <2>5. PICK c \in Context : Top' = c /\ c.pc = "user"
      BY <1>e, <2>1, <2>2
    <2> QED
      BY <1>a, <1>g, <1>l, <2>1, <2>2, <2>3, <2>4, <2>5, TimeKept, Zenon
  <1>12. CASE setitimer
    <2>1. /\ Top.pc = "user" /\ ~latched /\ u_now' = now
          /\ UNCHANGED <<now, countdown, latched, hooked>>
      BY <1>12 DEF setitimer, Runs, At
    <2>2. PICK t \in Timers, v \in Values, i \in Intervals, c \in Context :
            /\ Set(c) /\ c.val = RoundUp(v) /\ c.ival = RoundUp(i)
            /\ c.pc = "s_rel" \/ (c.pc = "t_count" /\ \A u \in Timers : exp'[u] = 0)
            /\ UNCHANGED <<exp, rel>> \/ Cleared(t)
      BY <1>12, SetitimerStack, Zenon
    <2>3. Top' = c /\ Last' = Last
      BY <1>g, <1>h, <2>1, <2>2, Zenon
    <2>4. \A u \in Timers : (exp'[u] = exp[u] \/ exp'[u] = 0) /\ (rel'[u] = rel[u] \/ rel'[u] = 0)
      <3>1. exp \in [Timers -> Nat] /\ rel \in [Timers -> Nat]
        BY <1>a DEF DataOK
      <3> QED
        BY <2>2, <3>1 DEF Cleared
    <2>5. Rounded'
      <3>1. \A n \in Nat : Whole(RoundUp(n))
        BY <1>f DEF Whole, RoundUp
      <3>2. Whole(c.val) /\ Whole(c.ival)
        BY <2>2, <3>1, ITimerAssumption
      <3> QED
        BY <1>o, <2>2, <2>3, <2>4, <3>2 DEF Rounded, Whole
    <2>6. Fresh'
      BY <1>f, <2>1, <2>3 DEF Fresh
    <2>7. \A u \in Timers : ~Pending(u) /\ ~Pending(u)'
      BY <2>1, <2>2, <2>3 DEF Pending, PendingIn
    <2>8. NotMissed'
      BY <1>l, <2>3, <2>4, <2>7 DEF NotMissed
    <2>9. Armed' => Armed
      BY <2>4 DEF Armed
    <2>10. Counting'
      <3>1. Armed => /\ countdown # Never
                     /\ \A u \in Timers : exp[u] # 0 => exp[u] > Last + countdown * TICK
        BY <1>c, <2>1, <2>7, Zenon DEF Counting
      <3> QED
        BY <2>1, <2>3, <2>4, <2>9, <3>1, Zenon DEF Counting
    <2>11. AtZero' /\ NextFound' /\ Stopped'
      BY <2>1, <2>2, <2>3 DEF AtZero, NextFound, Stopped, Stopping, Armed
    <2>12. Ticking'
      BY <1>c, <2>1, <2>9 DEF Ticking
    <2> QED
      BY <2>5, <2>6, <2>8, <2>10, <2>11, <2>12 DEF InTime
  <1>13. CASE set_exp
    <2>1. /\ Top.pc = "s_exp" /\ ~latched /\ Goto("s_next")
          /\ exp' = [exp EXCEPT ![Top.t] = u_now + Top.val]
          /\ UNCHANGED <<now, u_now, rel, countdown, latched, hooked>>
      BY <1>13 DEF set_exp, Runs, At
    <2>2. PICK c \in Context : Top' = c /\ c.pc = "s_next" /\ c.val = Top.val /\ c.ival = Top.ival
      <3>1. "s_next" \in PCs
        BY DEF PCs
      <3> QED
        BY <1>j, <2>1, <3>1, Zenon
    <2>3. Rounded'
      BY <1>c, <2>1, <2>2 DEF Rounded, Whole
    <2>4. Fresh'
      BY <1>c, <1>g, <2>1, <2>2 DEF Fresh
    <2>5. \A u \in Timers : ~Pending(u) /\ ~Pending(u)'
      BY <2>1, <2>2 DEF Pending, PendingIn
    <2>6. u_now + Top.val > Last /\ Top.val >= TICK
      BY <1>c, <1>e, <1>f, <2>1 DEF Fresh, Rounded, Whole
    <2>7. \A u \in Timers : exp'[u] # 0 => exp'[u] > Last
      <3>1. exp \in [Timers -> Nat]
        BY <1>a DEF DataOK
      <3> QED
        BY <1>e, <1>l, <2>1, <2>5, <2>6, <3>1
    <2>8. NotMissed'
      BY <1>g, <2>1, <2>5, <2>7 DEF NotMissed
    <2>9. Counting' /\ AtZero' /\ NextFound' /\ Stopped' /\ Ticking'
      BY <2>1, <2>2 DEF Counting, AtZero, NextFound, Stopped, Stopping, Ticking
    <2> QED
      BY <2>3, <2>4, <2>8, <2>9 DEF InTime
  <1>p. /\ GetNextEvent \in Int
        /\ \A t \in Timers : exp[t] # 0 => GetNextEvent <= exp[t] - u_now
    BY <1>a, NextEventType
  <1>14. CASE start_next
    <2>1. /\ Top.pc = "s_next" /\ ~latched
          /\ UNCHANGED <<now, u_now, exp, rel, countdown, latched, hooked>>
      BY <1>14 DEF start_next, Runs, At, clocks
    <2> DEFINE d == [Top EXCEPT !.pc = "s_countdown", !.next = GetNextEvent]
    <2>2. /\ d \in Context /\ d.pc = "s_countdown" /\ d.next = GetNextEvent
          /\ d.val = Top.val /\ d.ival = Top.ival
      BY <1>e, <1>p DEF Context, PCs
    <2>3. Set(d)
      BY <1>14 DEF start_next
    <2> HIDE DEF d
    <2>4. PICK c \in Context : /\ Top' = c /\ c.pc = "s_countdown" /\ c.next = GetNextEvent
                               /\ c.val = Top.val /\ c.ival = Top.ival
      BY <1>h, <2>1, <2>2, <2>3, Zenon
    <2>5. Rounded'
      BY <1>c, <2>1, <2>4 DEF Rounded, Whole
    <2>6. \A t \in Timers : ~Pending(t)
      BY <2>1, Zenon DEF Pending, PendingIn
    <2>7. u_now' >= Last /\ "s_countdown" \notin Stopping
      BY <1>c, <2>1 DEF Fresh, Stopping
    <2>8. \A t \in Timers : exp[t] # 0 => c.next <= exp[t] - u_now'
      BY <1>p, <2>1, <2>4
    <2> QED
      BY <1>a, <1>g, <1>l, <2>1, <2>4, <2>5, <2>6, <2>7, <2>8, TimeKept, Zenon
  <1>15. CASE start_countdown \/ action_countdown
    <2>1. /\ Top.pc \in {"s_countdown", "a_countdown"} /\ ~latched
          /\ UNCHANGED <<now, u_now, exp, rel, latched, hooked>>
          /\ countdown' = Countdown(Top.next)
      BY <1>15 DEF start_countdown, action_countdown, Runs, At, clocks
    <2>2. \/ Top.pc = "s_countdown" /\ Goto("s_on")
          \/ Top.pc = "a_countdown" /\ Goto("a_raise")
      BY <1>15 DEF start_countdown, action_countdown, Runs, At
    <2>3. PICK c \in Context : /\ Top' = c /\ c.val = Top.val /\ c.ival = Top.ival
                               /\ \/ Top.pc = "s_countdown" /\ c.pc = "s_on"
                                  \/ Top.pc = "a_countdown" /\ c.pc = "a_raise"
      <3>1. "s_on" \in PCs /\ "a_raise" \in PCs
        BY DEF PCs
      <3> QED
        BY <1>j, <2>1, <2>2, <3>1, Zenon
    <2>4. Rounded'
      BY <1>c, <2>1, <2>3 DEF Rounded, Whole
    <2>5. Fresh'
      BY <1>c, <1>g, <2>1, <2>3 DEF Fresh
    <2>6. \A u \in Timers : ~Pending(u) /\ ~Pending(u)'
      BY <2>1, <2>3 DEF Pending, PendingIn
    <2>7. NotMissed'
      BY <1>g, <1>l, <2>1, <2>6 DEF NotMissed
    <2>8. Counting'
      <3>1. PICK n \in Nat : /\ n = countdown' /\ n * TICK \in Int
                             /\ n = 0 \/ n * TICK + TICK <= Top.next
        BY <1>e, <1>f, <2>1, CountdownType
      <3>2. ASSUME NEW t \in Timers, exp[t] # 0 PROVE exp[t] > Last + n * TICK
        <4>1. Top.next <= exp[t] - u_now /\ u_now >= Last /\ exp[t] > Last
          BY <1>c, <1>l, <2>1, <2>6, <3>2 DEF NextFound, Fresh
        <4>2. CASE n = 0
          BY <1>f, <4>1, <4>2
        <4>3. CASE n * TICK + TICK <= Top.next
          BY <1>e, <1>f, <3>1, <4>1, <4>3
        <4> QED
          BY <3>1, <4>2, <4>3
      <3>3. n # Never
        BY <3>1 DEF Never
      <3> QED
        BY <1>g, <2>1, <3>1, <3>2, <3>3, Zenon DEF Counting
    <2>9. AtZero' /\ NextFound' /\ Stopped'
      BY <2>1, <2>3 DEF AtZero, NextFound, Stopped, Stopping
    <2>10. Ticking'
      BY <1>c, <2>1, <2>3 DEF Ticking, Armed
    <2> QED
      BY <2>4, <2>5, <2>7, <2>8, <2>9, <2>10 DEF InTime
  <1>16. CASE action_now
    <2>1. /\ Top.pc = "a_now" /\ ~latched /\ Goto("a_test") /\ u_now' = now
          /\ UNCHANGED <<now, exp, rel, countdown, latched, hooked>>
      BY <1>16 DEF action_now, Runs, At, clocks
    <2>2. Nested
      BY <1>d, <2>1 DEF Setting, Stopping
    <2>3. Top.t = "REAL"
      BY <1>b, <2>1, <2>2, Zenon DEF Found, FoundBy
    <2>4. PICK c \in Context : /\ Top' = c /\ c.pc = "a_test" /\ c.t = "REAL"
                               /\ c.val = Top.val /\ c.ival = Top.ival
      <3>1. "a_test" \in PCs
        BY DEF PCs
      <3> QED
        BY <1>j, <2>1, <2>3, <3>1, ZenonT(60)
    <2>5. Rounded'
      BY <1>c, <2>1, <2>4 DEF Rounded, Whole
    <2>6. \A t \in Timers : PendingIn(c, t)
      BY <2>4, Zenon DEF PendingIn
    <2>7. u_now' >= Last /\ "a_test" \notin Stopping
      BY <1>f, <2>1 DEF Stopping
    <2>8. countdown = 0 /\ (Armed => hooked)
      BY <1>c, <2>1 DEF AtZero, Ticking
    <2> QED
      BY <1>a, <1>g, <2>1, <2>4, <2>5, <2>6, <2>7, <2>8, TimeKept, Zenon
  <1>17. CASE action_test
    <2>1. /\ Top.pc = "a_test" /\ ~latched
          /\ UNCHANGED <<now, u_now, exp, rel, countdown, latched, hooked>>
      BY <1>17 DEF action_test, Runs, At, clocks
    <2>2. u_now' >= Last /\ u_now >= Last /\ countdown = 0 /\ (Armed => hooked)
      BY <1>c, <2>1 DEF Fresh, AtZero, Ticking
    <2>3. CASE Expired(Top.t)
      <3> DEFINE d == [Top EXCEPT !.pc = "a_reload", !.fire = @ \cup {Top.t}]
      <3>1. d \in Context /\ d.pc = "a_reload" /\ d.t = Top.t /\ d.val = Top.val /\ d.ival = Top.ival
        BY <1>e DEF Context, PCs
      <3>2. Set(d)
        BY <1>17, <2>3 DEF action_test
      <3> HIDE DEF d
      <3>3. PICK c \in Context : /\ Top' = c /\ c.pc = "a_reload" /\ c.t = Top.t
                                 /\ c.val = Top.val /\ c.ival = Top.ival
        BY <1>h, <2>1, <3>1, <3>2, Zenon
      <3>4. Rounded'
        BY <1>c, <2>1, <3>3 DEF Rounded, Whole
      <3>5. \A t \in Timers : PendingIn(c, t) <=> Pending(t)
        BY <2>1, <3>3, Zenon DEF Pending, PendingIn
      <3>6. "a_reload" \notin Stopping
        BY DEF Stopping
      <3> QED
        BY <1>a, <1>g, <1>l, <2>1, <2>2, <3>3, <3>4, <3>5, <3>6, TimeKept, Zenon
    <2>4. CASE ~Expired(Top.t)
      <3>1. Set(AfterTest)
        BY <1>17, <2>4, Zenon DEF action_test
      <3>2. AfterTest.val = Top.val /\ AfterTest.ival = Top.ival
        BY <1>e DEF AfterTest, Context
      <3>3. PICK c \in Context : /\ Top' = c /\ c.val = Top.val /\ c.ival = Top.ival
                                 /\ \/ Top.t = "REAL" /\ c.pc = "a_test" /\ c.t = "PROF"
                                    \/ Top.t = "PROF" /\ c.pc = "a_next"
        BY <1>a, <1>h, <2>1, <3>1, <3>2, AfterTestIs, Zenon
      <3>4. Rounded'
        BY <1>c, <2>1, <3>3 DEF Rounded, Whole
      <3>5. exp[Top.t] # 0 => exp[Top.t] > Last
        BY <1>e, <1>f, <2>2, <2>4 DEF Expired
      <3>6. \A t \in Timers : ~PendingIn(c, t) => t = Top.t \/ ~Pending(t)
        BY <1>e, <2>1, <3>3 DEF Pending, PendingIn, Timers
      <3>7. \A t \in Timers : exp[t] # 0 /\ ~PendingIn(c, t) => exp[t] > Last
        BY <1>l, <3>5, <3>6, Zenon
      <3>8. "a_test" \notin Stopping /\ "a_next" \notin Stopping
        BY DEF Stopping
      <3> QED
        BY <1>a, <1>g, <2>1, <2>2, <3>3, <3>4, <3>7, <3>8, TimeKept, Zenon
    <2> QED
      BY <2>3, <2>4
  <1>18. CASE action_reload
    <2>1. /\ Top.pc = "a_reload" /\ ~latched /\ Set(AfterTest)
          /\ exp' = [exp EXCEPT ![Top.t] = IF rel[Top.t] # 0 THEN exp[Top.t] + rel[Top.t] ELSE 0]
          /\ UNCHANGED <<now, u_now, rel, countdown, latched, hooked>>
      BY <1>18 DEF action_reload, Runs, At, clocks
    <2>2. u_now >= Last /\ countdown = 0 /\ (Armed => hooked)
      BY <1>c, <2>1 DEF Fresh, AtZero, Ticking
    <2>3. Nested
      BY <1>d, <2>1 DEF Setting, Stopping
    <2>4. exp[Top.t] # 0
      BY <1>b, <2>1, <2>3, Zenon DEF Found, FoundBy, Expired
    <2>5. hooked
      BY <1>e, <2>2, <2>4, Zenon DEF Armed
    <2>6. AfterTest.val = Top.val /\ AfterTest.ival = Top.ival
      BY <1>e DEF AfterTest, Context
    <2>7. PICK c \in Context : /\ Top' = c /\ c.val = Top.val /\ c.ival = Top.ival
                               /\ \/ Top.t = "REAL" /\ c.pc = "a_test" /\ c.t = "PROF"
                                  \/ Top.t = "PROF" /\ c.pc = "a_next"
      BY <1>a, <1>h, <2>1, <2>6, AfterTestIs, Zenon
    <2>8. Rounded'
      BY <1>c, <2>1, <2>7 DEF Rounded, Whole
    <2>9. Fresh'
      BY <1>g, <2>1, <2>2 DEF Fresh
    <2>10. \A t \in Timers : t # Top.t /\ Pending(t) => Pending(t)'
      BY <1>e, <2>1, <2>7 DEF Pending, PendingIn, Timers
    <2>11. \A t \in Timers : exp[t] # 0 => exp[t] > Last - TICK
      BY <1>c, <1>f DEF NotMissed
    <2>12. exp'[Top.t] # 0 => exp'[Top.t] > Last
      <3>1. rel[Top.t] # 0 => rel[Top.t] >= TICK
        BY <1>e, <1>o DEF Whole
      <3>2. exp'[Top.t] = IF rel[Top.t] # 0 THEN exp[Top.t] + rel[Top.t] ELSE 0
        BY <1>a, <1>e, <2>1 DEF DataOK
      <3> QED
        BY <1>e, <1>f, <2>4, <2>11, <3>1, <3>2
    <2>13. \A t \in Timers : t # Top.t => exp'[t] = exp[t]
      BY <1>a, <1>e, <2>1 DEF DataOK
    <2>14. \A t \in Timers : exp'[t] # 0 => exp'[t] > IF Pending(t)' THEN Last - TICK ELSE Last
      <3>1. ASSUME NEW t \in Timers, t # Top.t, exp'[t] # 0
            PROVE  exp'[t] > IF Pending(t)' THEN Last - TICK ELSE Last
        BY <1>l, <2>10, <2>11, <2>13, <3>1, Zenon
      <3>2. exp'[Top.t] # 0 => exp'[Top.t] > Last - TICK
        <4>1. exp'[Top.t] \in Int
          BY <1>a, <1>e, <1>f, <2>1 DEF DataOK
        <4> QED
          BY <1>f, <2>12, <4>1
      <3> QED
        BY <2>12, <3>1, <3>2, Zenon
    <2>15. NotMissed'
      BY <1>g, <2>1, <2>14, Zenon DEF NotMissed
    <2>16. Counting'
      <3>1. Last + countdown * TICK = Last /\ countdown # Never
        BY <1>f, <2>2 DEF Never
      <3> QED
        BY <1>g, <2>1, <2>14, <3>1, Zenon DEF Counting
    <2>17. AtZero' /\ NextFound' /\ Stopped' /\ Ticking'
      BY <2>1, <2>2, <2>5, <2>7 DEF AtZero, NextFound, Stopped, Stopping, Ticking
    <2> QED
      BY <2>8, <2>9, <2>15, <2>16, <2>17 DEF InTime
  <1>19. CASE action_next
    <2>1. /\ Top.pc = "a_next" /\ ~latched
          /\ UNCHANGED <<now, u_now, exp, rel, countdown, latched, hooked>>
      BY <1>19 DEF action_next, Runs, At
    <2>2. u_now >= Last /\ countdown = 0 /\ (Armed => hooked)
      BY <1>c, <2>1 DEF Fresh, AtZero, Ticking
    <2>3. \A t \in Timers : ~Pending(t)
      BY <2>1, Zenon DEF Pending, PendingIn
    <2>4. CASE Return
      BY <1>m, <1>o, <2>1, <2>2, <2>4, Zenon
    <2>5. CASE Set([Top EXCEPT !.pc = "a_countdown", !.next = GetNextEvent])
      <3> DEFINE d == [Top EXCEPT !.pc = "a_countdown", !.next = GetNextEvent]
      <3>1. /\ d \in Context /\ d.pc = "a_countdown" /\ d.next = GetNextEvent
            /\ d.val = Top.val /\ d.ival = Top.ival
        BY <1>e, <1>p DEF Context, PCs
      <3>2. Set(d)
        BY <2>5
      <3> HIDE DEF d
      <3>3. PICK c \in Context : /\ Top' = c /\ c.pc = "a_countdown" /\ c.next = GetNextEvent
                                 /\ c.val = Top.val /\ c.ival = Top.ival
        BY <1>h, <2>1, <3>1, <3>2, Zenon
      <3>4. Rounded'
        BY <1>c, <2>1, <3>3 DEF Rounded, Whole
      <3>5. \A t \in Timers : exp[t] # 0 => c.next <= exp[t] - u_now'
        BY <1>p, <2>1, <3>3
      <3>6. "a_countdown" \notin Stopping /\ u_now' >= Last
        BY <2>1, <2>2 DEF Stopping
      <3> QED
        BY <1>a, <1>g, <1>l, <2>1, <2>2, <2>3, <3>3, <3>4, <3>5, <3>6, TimeKept, Zenon
    <2>6. CASE /\ Set([Top EXCEPT !.pc = "t_count", !.ret = "a_raise"])
               /\ stalled' = (stalled \/ \E t \in Timers : exp[t] # 0)
      <3> DEFINE d == [Top EXCEPT !.pc = "t_count", !.ret = "a_raise"]
      <3>1. d \in Context /\ d.pc = "t_count" /\ d.val = Top.val /\ d.ival = Top.ival
        BY <1>e DEF Context, PCs
      <3>2. Set(d)
        BY <2>6
      <3> HIDE DEF d
      <3>3. PICK c \in Context : Top' = c /\ c.pc = "t_count" /\ c.val = Top.val /\ c.ival = Top.ival
        BY <1>h, <2>1, <3>1, <3>2, Zenon
      <3>4. Rounded'
        BY <1>c, <2>1, <3>3 DEF Rounded, Whole
      <3>5. ~Armed
        BY <2>6, Zenon DEF Armed
      <3>6. u_now' >= Last
        BY <2>1, <2>2
      <3> QED
        BY <1>a, <1>g, <1>l, <2>1, <2>2, <2>3, <3>3, <3>4, <3>5, <3>6, TimeKept, Zenon
    <2> QED
      BY <1>19, <2>4, <2>5, <2>6, Zenon DEF action_next
  <1> QED
    BY <1>1, <1>2, <1>3, <1>4, <1>5, <1>6, <1>7, <1>8, <1>9, <1>10, <1>11, <1>12, <1>13, <1>14,
       <1>15, <1>16, <1>17, <1>18, <1>19, Zenon DEF Next

\* On such a system, until a timer that is due at the very moment timer_action read
\* the clock is taken for none, every armed timer is met in time.
LEMMA AlwaysInTime ==
  Spec => [](TypeOK /\ Ordered /\ (~slow => One) /\ (~slow /\ ~stalled => InTime))
  <1>1. Init => (~slow /\ ~stalled => InTime)
    <2> SUFFICES ASSUME Init PROVE InTime
      OBVIOUS
    <2>1. /\ stack = <<Blank>> /\ ~latched
          /\ exp = [t \in Timers |-> 0] /\ rel = [t \in Timers |-> 0]
      BY DEF Init
    <2>2. Top = Blank /\ Blank.pc = "user" /\ Blank.val = 0 /\ Blank.ival = 0
      BY <2>1 DEF Top, Blank
    <2>3. ~Armed /\ \A t \in Timers : exp[t] = 0 /\ rel[t] = 0
      BY <2>1 DEF Armed
    <2>4. Rounded /\ Fresh /\ NotMissed /\ Counting
      BY <2>2, <2>3 DEF Rounded, Fresh, NotMissed, Counting, Whole
    <2>5. AtZero /\ NextFound /\ Stopped /\ Ticking
      BY <2>1, <2>2, <2>3 DEF AtZero, NextFound, Stopped, Ticking, Stopping
    <2> QED
      BY <2>4, <2>5 DEF InTime
  <1>2. [Next]_vars /\ stalled => stalled'
    <2> SUFFICES ASSUME [Next]_vars, stalled PROVE stalled'
      OBVIOUS
    <2>1. CASE action_next
      BY <2>1, Zenon DEF action_next
    <2>2. CASE Advance \/ Deliver \/ DosCall \/ DosReturn \/ getitimer \/ setitimer \/ set_rel \/ set_exp
      BY <2>2, Zenon DEF Advance, Deliver, DosCall, DosReturn, getitimer, setitimer, set_rel,
                         set_exp, clocks
    <2>3. CASE start_next \/ start_countdown \/ start_on \/ start_signal \/ start_hook
               \/ stop_count \/ stop_vec \/ stop_off \/ stop_dfl
      BY <2>3, Zenon DEF start_next, start_countdown, start_on, start_signal, start_hook,
                         stop_count, stop_vec, stop_off, stop_dfl, clocks
    <2>4. CASE action_now \/ action_test \/ action_reload \/ action_countdown \/ action_raise
      BY <2>4, Zenon DEF action_now, action_test, action_reload, action_countdown, action_raise,
                         clocks
    <2>5. CASE UNCHANGED vars
      BY <2>5, Zenon DEF vars
    <2> QED
      BY <2>1, <2>2, <2>3, <2>4, <2>5, Zenon DEF Next
  <1>3. /\ TypeOK /\ Ordered /\ ~killed /\ (~slow => One)
        /\ (~slow /\ ~stalled => InTime) /\ [Next]_vars
        => (~slow /\ ~stalled => InTime)'
    <2> SUFFICES ASSUME TypeOK, Ordered, ~killed, ~slow => One, ~slow /\ ~stalled => InTime,
                        [Next]_vars, ~slow', ~stalled'
                 PROVE  InTime'
      OBVIOUS
    <2>1. ~slow
      BY SlowFixed, Zenon
    <2>2. ~stalled
      BY <1>2
    <2> QED
      BY <2>1, <2>2, TimeStep, Zenon
  <1> QED
    BY <1>1, <1>3, AlwaysOne, PTL DEF Spec

\* On a system that serves each tick before the next comes, every armed timer raises
\* its signal at the first tick after its time, and getitimer counts from the time
\* still to come.
THEOREM AlarmsOnTime == Spec => []AlarmOnTime
  <1>1. TypeOK /\ (~slow => One) /\ (~slow /\ ~stalled => InTime) => AlarmOnTime
    <2> SUFFICES ASSUME TypeOK, One, InTime, stack = <<Blank>>, ~latched
                 PROVE  exp = due /\ Late = {}
      BY Zenon DEF AlarmOnTime
    <2>1. DataOK
      BY TypeParts
    <2>2. ~Nested /\ Top = Blank /\ Blank.pc = "user"
      BY DEF Nested, Top, Blank
    <2>3. \A t \in Timers : exp[t] = due[t]
      BY <2>2 DEF One, Ahead, Reloaded
    <2>4. exp = due
      BY <2>1, <2>3 DEF DataOK
    <2>5. \A t \in Timers : ~Pending(t)
      BY <2>2, Zenon DEF Pending, PendingIn
    <2>6. \A t \in Timers : exp[t] # 0 => exp[t] > Last
      BY <2>5, Zenon DEF InTime, NotMissed
    <2>7. /\ Last \in Int /\ now < Last + TICK /\ now \in Int /\ TICK \in Int
          /\ \A t \in Timers : exp[t] \in Int
      BY <2>1, LastBounds, ITimerAssumption DEF DataOK
    <2>8. \A t \in Timers : due[t] # 0 => ~(now >= due[t] + TICK)
      BY <2>3, <2>6, <2>7
    <2> QED
      BY <2>4, <2>8 DEF Late
  <1> QED
    BY <1>1, AlwaysInTime, PTL

\* On such a system the flag, the vector and the handler agree between calls, and the
\* tick handler is hooked and counting while a timer is armed.
THEOREM AlwaysHookedWhileArmed == Spec => []HookedWhileArmed
  <1>1. TypeOK /\ Ordered /\ (~slow => One) /\ (~slow /\ ~stalled => InTime) => HookedWhileArmed
    <2> SUFFICES ASSUME TypeOK, Ordered, ~slow => One, ~slow /\ ~stalled => InTime,
                        ~slow, stack = <<Blank>>
                 PROVE  /\ hooked = timer_on
                        /\ hooked => handler = "timer_action"
                        /\ (~stalled /\ \E t \in Timers : exp[t] # 0) => (hooked /\ countdown # Never)
      BY Zenon DEF HookedWhileArmed
    <2>1. FlagsOK
      BY TypeParts
    <2>2. Top.pc = "user"
      BY DEF Top, Blank
    <2>3. hooked = timer_on
      BY <2>1, <2>2, Zenon DEF One, Agree, FlagsOK
    <2>4. hooked => handler = "timer_action"
      BY Zenon DEF Ordered
    <2>5. ~stalled /\ Armed => hooked /\ countdown # Never
      BY <2>2, Zenon DEF InTime, Ticking, Counting
    <2> QED
      BY <2>3, <2>4, <2>5, Zenon DEF Armed
  <1> QED
    BY <1>1, AlwaysInTime, PTL

=============================================================================
