-------------------------- MODULE HwExceptionProofs --------------------------
(***************************************************************************)
(* Proofs about HwException and, at the end, about Vectors, for every      *)
(* value of their constants.                                               *)
(***************************************************************************)
EXTENDS HwException, Vectors, SequenceTheorems, TLAPS

IInv == TypeOK /\ NotLockedOut /\ Nesting

\* A prefix of a sequence: longjmp cuts the stack of frames back to one.
LEMMA Prefix ==
  ASSUME NEW S, NEW s \in Seq(S), NEW n \in 0..Len(s)
  PROVE  /\ SubSeq(s, 1, n) \in Seq(S)
         /\ Len(SubSeq(s, 1, n)) = n
         /\ \A i \in 1..n : SubSeq(s, 1, n)[i] = s[i]
<1>1. \A i \in 1..n : s[i] \in S
  OBVIOUS
<1> QED
  BY <1>1, SubSeqProperties

\* The initial states satisfy the inductive invariant.
LEMMA InitIInv == Init => IInv
<1> SUFFICES ASSUME Init PROVE IInv
  OBVIOUS
<1>1. /\ forced \in [code : Codes \cup {0}, inuse : {0, 1}]
      /\ limit \in Limits /\ ds_limit \in Limits
      /\ selector_limit \in 1..MaxLimit
  BY BoundsAssumption DEF Init, Idle, Limits, FarLimit
<1>2. /\ frames \in Seq(Frame) /\ Len(frames) <= MaxDepth
      /\ jmpbuf \in [depth : Nat, ptr : Nat, pc : {"unset", "user", "handler"}]
      /\ pc \in PCs
  BY BoundsAssumption DEF Init, NoJmp, PCs
<1>3. signal_list \in [Sigs -> Handlers]
  BY DEF Init, Handlers
<1>4. TypeOK
  BY <1>1, <1>2, <1>3, BoundsAssumption DEF Init, TypeOK
<1>5. NotLockedOut
  BY DEF Init, NotLockedOut, Idle, NullPage
<1>6. Nesting
  BY DEF Init, Nesting, StatePtrLive, NoJmp, InFrame
<1> QED
  BY <1>4, <1>5, <1>6 DEF IInv

\* Steps that leave the frames, the jmp_buf and the location alone.
LEMMA SameStack == Nesting /\ UNCHANGED <<stack, pc>> => Nesting'
BY DEF Nesting, StatePtrLive, stack

\* Steps of the program from one location outside a frame to another.
LEMMA SameFrames ==
  ASSUME Nesting, UNCHANGED stack, pc' \notin InFrame
  PROVE  Nesting'
BY DEF Nesting, StatePtrLive, stack

\* A hardware interrupt keeps the latch, the limits and the history well formed.
LEMMA HwExceptionStep ==
  ASSUME IInv, NEW c \in Codes, hw_exception(c)
  PROVE  /\ forced' \in [code : Codes \cup {0}, inuse : {0, 1}]
         /\ limit' \in Limits /\ ds_limit' \in Limits
         /\ unserved' \in SUBSET Codes /\ torn' \in {0, 1}
         /\ NotLockedOut'
<1>1. c # 0
  BY DEF Codes, NPX, TIMER, INTR, QUIT, BREAK
<1>2. NullPage \in Limits
  BY BoundsAssumption DEF NullPage, Limits, FarLimit
<1> QED
  BY <1>1, <1>2 DEF hw_exception, IInv, TypeOK, NotLockedOut, Idle

\* A hardware interrupt changes the latch, the limits and the counters only.
LEMMA HardwareStep == IInv /\ Hardware => IInv'
<1> SUFFICES ASSUME IInv, Hardware PROVE IInv'
  OBVIOUS
<1>0. Codes = {NPX, TIMER, INTR, QUIT, BREAK}
  BY DEF Codes
<1>1. Nesting'
  BY SameStack DEF IInv, Hardware, kbd_hdlr, npx_hdlr, cbrk_hdlr, timer_hdlr
<1>2. CASE kbd_hdlr
  <2>1. PICK c \in Codes : hw_exception(c)
    BY <1>0, <1>2 DEF kbd_hdlr
  <2>2. TypeOK'
    BY <1>2, <2>1, HwExceptionStep, BoundsAssumption
    DEF IInv, kbd_hdlr, Key, stack, brk, seg, TypeOK
  <2> QED
    BY <1>1, <2>1, <2>2, HwExceptionStep DEF IInv
<1>3. CASE npx_hdlr
  <2>1. NPX \in Codes /\ hw_exception(NPX)
    BY <1>0, <1>3 DEF npx_hdlr
  <2>2. TypeOK'
    BY <1>3, <2>1, HwExceptionStep, BoundsAssumption
    DEF IInv, npx_hdlr, Key, stack, brk, seg, TypeOK
  <2> QED
    BY <1>1, <2>1, <2>2, HwExceptionStep DEF IInv
<1>4. CASE cbrk_hdlr
  <2>1. CASE UNCHANGED latch
    <3>1. TypeOK'
      BY <1>4, <2>1, BoundsAssumption DEF IInv, cbrk_hdlr, Key, stack, latch, seg, TypeOK
    <3> QED
      BY <1>1, <2>1, <3>1 DEF IInv, latch, NotLockedOut
  <2>2. CASE hw_exception(BREAK) /\ UNCHANGED cbrk_count
    <3>1. TypeOK'
      BY <1>0, <1>4, <2>2, HwExceptionStep, BoundsAssumption
      DEF IInv, cbrk_hdlr, Key, stack, seg, TypeOK
    <3> QED
      BY <1>0, <1>1, <2>2, <3>1, HwExceptionStep DEF IInv
  <2> QED
    BY <1>4, <2>1, <2>2 DEF cbrk_hdlr
<1>5. CASE timer_hdlr
  <2>1. CASE UNCHANGED latch
    <3>1. TypeOK'
      BY <1>5, <2>1, BoundsAssumption DEF IInv, timer_hdlr, stack, brk, latch, seg, TypeOK
    <3> QED
      BY <1>1, <2>1, <3>1 DEF IInv, latch, NotLockedOut
  <2>2. CASE hw_exception(TIMER) /\ UNCHANGED countdown
    <3>1. TypeOK'
      BY <1>0, <1>5, <2>2, HwExceptionStep, BoundsAssumption
      DEF IInv, timer_hdlr, stack, brk, seg, TypeOK
    <3> QED
      BY <1>0, <1>1, <2>2, <3>1, HwExceptionStep DEF IInv
  <2> QED
    BY <1>5, <2>1, <2>2 DEF timer_hdlr
<1> QED
  BY <1>2, <1>3, <1>4, <1>5 DEF Hardware

\* Taking an exception pushes a frame whose saved pointer is the old one.
LEMMA HandlerStep ==
  ASSUME IInv, Len(frames) < MaxDepth, NEW n \in Nat, exception_handler(n)
  PROVE  IInv'
<1> DEFINE e == IF forced.code # 0 THEN forced.code ELSE n
           f == [excepno |-> e, pc |-> pc, prev |-> exception_state_ptr]
<1>1. e \in Nat /\ f \in Frame
  BY DEF IInv, TypeOK, Frame, Codes, NPX, TIMER, INTR, QUIT, BREAK
<1>2. /\ frames' = Append(frames, f)
      /\ exception_state_ptr' = Len(frames) + 1
      /\ pc' = "saving"
      /\ UNCHANGED <<ds_limit, torn, jmpbuf, hw, seg, signal_list>>
      /\ unserved' = unserved \ {e}
      /\ forced' = [code |-> 0, inuse |-> 1]
      /\ limit' = IF forced.code # 0 THEN ds_limit ELSE limit
  BY DEF exception_handler, PushFrame
<1> HIDE DEF e, f
<1>3. /\ frames' \in Seq(Frame) /\ Len(frames') = Len(frames) + 1
      /\ \A i \in 1..Len(frames) : frames'[i] = frames[i]
      /\ frames'[Len(frames) + 1] = f
  BY <1>1, <1>2, AppendProperties DEF IInv, TypeOK
<1>4. f.pc = pc /\ f.prev = exception_state_ptr
  BY DEF f
<1>5. TypeOK'
  BY <1>2, <1>3, BoundsAssumption DEF IInv, TypeOK, hw, brk, seg, PCs
<1>6. NotLockedOut'
  BY <1>2 DEF IInv, NotLockedOut, TypeOK
<1>7. Nesting'
  <2>1. Len(frames) \in Nat
    BY DEF IInv, TypeOK
  <2>2. \A i \in 1..Len(frames') : i \in 1..Len(frames) \/ i = Len(frames) + 1
    BY <1>3, <2>1
  <2>3. jmpbuf.depth \in Nat
    BY DEF IInv, TypeOK
  <2>4. StatePtrLive'
    BY <1>2, <1>3, <1>4, <2>1, <2>2 DEF IInv, Nesting, StatePtrLive
  <2> QED
    BY <1>2, <1>3, <1>4, <2>1, <2>2, <2>3, <2>4 DEF IInv, Nesting
<1> QED
  BY <1>5, <1>6, <1>7 DEF IInv

\* longjmp to a jmp_buf d frames deep leaves the oldest d frames.
LEMMA CutStep ==
  ASSUME IInv, NEW d \in 0..Len(frames), frames' = SubSeq(frames, 1, d)
  PROVE  /\ frames' \in Seq(Frame) /\ Len(frames') = d /\ Len(frames') <= MaxDepth
         /\ \A i \in 1..d : frames'[i] = frames[i]
BY Prefix, BoundsAssumption DEF IInv, TypeOK

\* Steps of exception processing keep the inductive invariant.
LEMMA ExceptionStep == IInv /\ Exception => IInv'
<1> SUFFICES ASSUME IInv, Exception PROVE IInv'
  OBVIOUS
<1>0. /\ Len(frames) \in Nat
      /\ pc \in InFrame => /\ exception_state_ptr \in 1..Len(frames)
                           /\ Cur \in Frame /\ Cur.prev = exception_state_ptr - 1
                           /\ Cur.pc \in InFrame => exception_state_ptr > 1
  BY DEF IInv, TypeOK, Nesting, StatePtrLive, Cur
<1>1. CASE Fault
  BY <1>1, HandlerStep DEF Fault
<1>2. CASE RealException
  <2>1. PICK n \in RealExceptions : exception_handler(n)
    BY <1>2 DEF RealException
  <2>2. n \in Nat
    BY RealAssumption DEF EXCEPTION_COUNT
  <2> QED
    BY <1>2, <2>1, <2>2, HandlerStep DEF RealException
<1>3. CASE exception_return
  <2>1. TypeOK'
    BY <1>3 DEF IInv, exception_return, TypeOK, stack, hw, brk, seg, PCs
  <2>2. NotLockedOut'
    BY <1>3 DEF IInv, exception_return, NotLockedOut, TypeOK
  <2>3. Nesting'
    BY <1>3 DEF IInv, exception_return, Nesting, StatePtrLive, stack, InFrame
  <2> QED
    BY <2>1, <2>2, <2>3 DEF IInv
<1>4. CASE exception_processor
  <2>1. pc' \in {"raised", "exited", "handler"}
    BY <1>4 DEF exception_processor, raise
  <2>2. TypeOK'
    BY <1>4, <2>1 DEF IInv, exception_processor, TypeOK, latch, stack, hw, brk, seg, PCs
  <2>3. NotLockedOut'
    BY <1>4 DEF IInv, exception_processor, NotLockedOut, latch
  <2>4. Nesting'
    BY <1>4, <2>1 DEF IInv, exception_processor, Nesting, StatePtrLive, stack, InFrame
  <2> QED
    BY <2>2, <2>3, <2>4 DEF IInv
<1>5. CASE handler_return
  <2>1. TypeOK'
    BY <1>5 DEF IInv, handler_return, Reload, TypeOK, latch, stack, brk, seg, PCs
  <2>2. NotLockedOut'
    BY <1>5 DEF IInv, handler_return, NotLockedOut, latch
  <2>3. Nesting'
    BY <1>5 DEF IInv, handler_return, Nesting, StatePtrLive, stack, InFrame
  <2> QED
    BY <2>1, <2>2, <2>3 DEF IInv
<1>6. CASE longjmp_resume
  <2>1. NotLockedOut'
    BY <1>6 DEF IInv, longjmp_resume, NotLockedOut, latch
  <2>2. CASE Cur.excepno < EXCEPTION_COUNT /\ pc' = "exited" /\ UNCHANGED stack
    <3>1. TypeOK'
      BY <1>6, <2>2 DEF IInv, longjmp_resume, TypeOK, latch, stack, hw, brk, seg, PCs
    <3>2. Nesting'
      BY <2>2, SameFrames DEF IInv, InFrame
    <3> QED
      BY <2>1, <3>1, <3>2 DEF IInv
  <2>3. CASE /\ exception_state_ptr' = Cur.prev
             /\ frames' = SubSeq(frames, 1, exception_state_ptr - 1)
             /\ Unwind(exception_state_ptr - 1)
             /\ pc' = Cur.pc
    <3> DEFINE d == exception_state_ptr - 1
    <3>1. pc \in InFrame
      BY <1>6 DEF longjmp_resume, InFrame
    <3>2. d \in 0..Len(frames) /\ exception_state_ptr' = d
          /\ (pc' \in InFrame => d > 0)
      BY <1>0, <2>3, <3>1
    <3>3. /\ frames' \in Seq(Frame) /\ Len(frames') = d /\ Len(frames') <= MaxDepth
          /\ \A i \in 1..d : frames'[i] = frames[i]
      BY <2>3, <3>2, CutStep
    <3>4. jmpbuf' = IF jmpbuf.depth > d THEN NoJmp ELSE jmpbuf
      BY <2>3 DEF Unwind
    <3> HIDE DEF d
    <3>5. pc' \in PCs
      BY <1>0, <2>3, <3>1 DEF Frame
    <3>6. jmpbuf' \in [depth : Nat, ptr : Nat, pc : {"unset", "user", "handler"}]
      BY <3>4 DEF IInv, TypeOK, NoJmp
    <3>7. TypeOK'
      BY <1>6, <3>2, <3>3, <3>5, <3>6
      DEF IInv, longjmp_resume, TypeOK, latch, hw, brk, seg
    <3>8. jmpbuf'.pc # "unset" =>
            /\ jmpbuf'.ptr = jmpbuf'.depth
            /\ jmpbuf'.depth <= d
            /\ jmpbuf'.pc \in InFrame => jmpbuf'.depth > 0
      BY <3>2, <3>4 DEF IInv, TypeOK, Nesting, NoJmp
    <3>9. Nesting'
      BY <3>2, <3>3, <3>8 DEF IInv, Nesting, StatePtrLive
    <3> QED
      BY <2>1, <3>7, <3>9 DEF IInv
  <2> QED
    BY <1>6, <2>2, <2>3 DEF longjmp_resume
<1>7. CASE longjmp_user
  <2>1. NotLockedOut'
    BY <1>7 DEF IInv, longjmp_user, NotLockedOut, latch
  <2>2. /\ jmpbuf.depth \in 0..Len(frames) /\ jmpbuf.ptr = jmpbuf.depth
        /\ jmpbuf.pc \in {"user", "handler"}
        /\ jmpbuf.pc \in InFrame => jmpbuf.depth > 0
    BY <1>0, <1>7 DEF IInv, longjmp_user, TypeOK, Nesting
  <2>3. /\ frames' \in Seq(Frame) /\ Len(frames') = jmpbuf.depth
        /\ Len(frames') <= MaxDepth
        /\ \A i \in 1..jmpbuf.depth : frames'[i] = frames[i]
    BY <1>7, <2>2, CutStep DEF longjmp_user
  <2>4. TypeOK'
    BY <1>7, <2>2, <2>3
    DEF IInv, longjmp_user, Reload, TypeOK, latch, brk, seg, PCs
  <2>5. Nesting'
    BY <1>7, <2>2, <2>3 DEF IInv, longjmp_user, Nesting, StatePtrLive
  <2> QED
    BY <2>1, <2>4, <2>5 DEF IInv
<1> QED
  BY <1>1, <1>2, <1>3, <1>4, <1>5, <1>6, <1>7 DEF Exception

\* Steps of the program outside exception processing.
LEMMA ProgramStep == IInv /\ Program => IInv'
<1> SUFFICES ASSUME IInv, Program PROVE IInv'
  OBVIOUS
<1>1. NotLockedOut'
  BY DEF IInv, Program, NotLockedOut, latch, setjmp, signal, set_ctrl_c,
     want_ctrl_break, was_ctrl_break_hit, zero_break_count, DosCall, DosReturn
<1>2. CASE setjmp
  <2>1. TypeOK'
    BY <1>2 DEF IInv, setjmp, TypeOK, latch, hw, brk, seg
  <2>2. Nesting'
    BY <1>2 DEF IInv, setjmp, Nesting, StatePtrLive, TypeOK
  <2> QED
    BY <1>1, <2>1, <2>2 DEF IInv
<1>3. CASE signal
  <2>0. signal_list' \in [Sigs -> Handlers]
    BY <1>3, SetSigsAssumption DEF IInv, signal, TypeOK
  <2>1. TypeOK'
    BY <1>3, <2>0 DEF IInv, signal, TypeOK, latch, stack, hw, brk, seg
  <2>2. Nesting'
    BY <1>3, SameStack DEF IInv, signal
  <2> QED
    BY <1>1, <2>1, <2>2 DEF IInv
<1>4. CASE set_ctrl_c
  <2>1. TypeOK'
    BY <1>4, BoundsAssumption
    DEF IInv, set_ctrl_c, TypeOK, latch, stack, seg
  <2>2. Nesting'
    BY <1>4, SameStack DEF IInv, set_ctrl_c
  <2> QED
    BY <1>1, <2>1, <2>2 DEF IInv
<1>5. CASE want_ctrl_break
  <2>1. TypeOK'
    BY <1>5, BoundsAssumption
    DEF IInv, want_ctrl_break, TypeOK, latch, stack, seg
  <2>2. Nesting'
    BY <1>5, SameStack DEF IInv, want_ctrl_break
  <2> QED
    BY <1>1, <2>1, <2>2 DEF IInv
<1>6. CASE was_ctrl_break_hit
  <2>1. TypeOK'
    BY <1>6, BoundsAssumption
    DEF IInv, was_ctrl_break_hit, TypeOK, latch, stack, seg, PCs
  <2>2. Nesting'
    BY <1>6, SameFrames DEF IInv, was_ctrl_break_hit, InFrame
  <2> QED
    BY <1>1, <2>1, <2>2 DEF IInv
<1>7. CASE zero_break_count
  <2>1. TypeOK'
    BY <1>7, BoundsAssumption
    DEF IInv, zero_break_count, TypeOK, latch, stack, seg, PCs
  <2>2. Nesting'
    BY <1>7, SameFrames DEF IInv, zero_break_count, InFrame
  <2> QED
    BY <1>1, <2>1, <2>2 DEF IInv
<1>8. CASE DosCall
  <2>1. TypeOK'
    BY <1>8, BoundsAssumption
    DEF IInv, DosCall, TypeOK, latch, stack, hw, brk, seg, PCs
  <2>2. Nesting'
    BY <1>8, SameFrames DEF IInv, DosCall, InFrame
  <2> QED
    BY <1>1, <2>1, <2>2 DEF IInv
<1>9. CASE DosReturn
  <2>1. TypeOK'
    BY <1>9, BoundsAssumption
    DEF IInv, DosReturn, TypeOK, latch, stack, hw, brk, seg, PCs
  <2>2. Nesting'
    BY <1>9, SameFrames DEF IInv, DosReturn, InFrame
  <2> QED
    BY <1>1, <2>1, <2>2 DEF IInv
<1> QED
  BY <1>2, <1>3, <1>4, <1>5, <1>6, <1>7, <1>8, <1>9 DEF Program

\* Steps that set the limit of the segment never set it to the null page.
LEMMA SetsLimitStep == IInv /\ SetsLimit => IInv'
<1> SUFFICES ASSUME IInv, SetsLimit PROVE IInv'
  OBVIOUS
<1>0. Nesting'
  BY SameFrames DEF IInv, InFrame, SetsLimit, sbrk, brk_resize, brk_store,
     brk_test_nearptr, brk_set_ds_limit, brk_return, nearptr_call,
     nearptr_enable, nearptr_disable
<1>a. selector_limit \in Limits /\ selector_limit # NullPage
  BY BoundsAssumption DEF IInv, TypeOK, Limits, FarLimit, NullPage
<1>1. CASE sbrk
  <2>1. TypeOK'
    BY <1>1, <1>a
    DEF IInv, sbrk, TypeOK, latch, stack, hw, brk, seg, PCs
  <2>2. NotLockedOut'
    BY <1>1, <1>a DEF IInv, sbrk, NotLockedOut, latch
  <2> QED
    BY <1>0, <2>1, <2>2 DEF IInv
<1>2. CASE brk_resize
  <2>1. TypeOK'
    BY <1>2, <1>a
    DEF IInv, brk_resize, TypeOK, latch, stack, hw, brk, seg, PCs
  <2>2. NotLockedOut'
    BY <1>2, <1>a DEF IInv, brk_resize, NotLockedOut, latch
  <2> QED
    BY <1>0, <2>1, <2>2 DEF IInv
<1>3. CASE brk_store
  <2>1. selector_limit' \in 1..MaxLimit
    BY <1>3, BoundsAssumption DEF IInv, brk_store, TypeOK
  <2>2. TypeOK'
    BY <1>3, <2>1 DEF IInv, brk_store, TypeOK, latch, stack, hw, brk, PCs
  <2>3. NotLockedOut'
    BY <1>3 DEF IInv, brk_store, NotLockedOut, latch
  <2> QED
    BY <1>0, <2>2, <2>3 DEF IInv
<1>4. CASE brk_test_nearptr
  <2>1. TypeOK'
    BY <1>4, <1>a
    DEF IInv, brk_test_nearptr, TypeOK, latch, stack, hw, brk, seg, PCs
  <2>2. NotLockedOut'
    BY <1>4, <1>a DEF IInv, brk_test_nearptr, NotLockedOut, latch
  <2> QED
    BY <1>0, <2>1, <2>2 DEF IInv
<1>5. CASE brk_set_ds_limit
  <2>1. TypeOK'
    BY <1>5, <1>a
    DEF IInv, brk_set_ds_limit, TypeOK, stack, hw, brk, seg, PCs
  <2>2. NotLockedOut'
    BY <1>5, <1>a DEF IInv, brk_set_ds_limit, NotLockedOut, latch
  <2> QED
    BY <1>0, <2>1, <2>2 DEF IInv
<1>6. CASE brk_return
  <2>1. TypeOK'
    BY <1>6, <1>a
    DEF IInv, brk_return, TypeOK, latch, stack, hw, brk, seg, PCs
  <2>2. NotLockedOut'
    BY <1>6, <1>a DEF IInv, brk_return, NotLockedOut, latch
  <2> QED
    BY <1>0, <2>1, <2>2 DEF IInv
<1>7. CASE nearptr_call
  <2>1. TypeOK'
    BY <1>7, <1>a
    DEF IInv, nearptr_call, TypeOK, latch, stack, hw, brk, seg, PCs
  <2>2. NotLockedOut'
    BY <1>7, <1>a DEF IInv, nearptr_call, NotLockedOut, latch
  <2> QED
    BY <1>0, <2>1, <2>2 DEF IInv
<1>8. CASE nearptr_enable
  <2>1. limit' \in Limits /\ (limit' = limit \/ limit' # NullPage)
    BY <1>8, <1>a, BoundsAssumption
    DEF IInv, nearptr_enable, TypeOK, Limits, FarLimit, NullPage, latch
  <2>2. UNCHANGED <<forced, ds_limit>>
    BY <1>8 DEF nearptr_enable, latch
  <2>3. TypeOK'
    BY <1>8, <2>1 DEF IInv, nearptr_enable, TypeOK, latch, stack, hw, brk, seg, PCs
  <2>4. NotLockedOut'
    BY <2>1, <2>2 DEF IInv, NotLockedOut
  <2> QED
    BY <1>0, <2>3, <2>4 DEF IInv
<1>9. CASE nearptr_disable
  <2>1. TypeOK'
    BY <1>9, <1>a
    DEF IInv, nearptr_disable, TypeOK, latch, stack, hw, brk, seg, PCs
  <2>2. NotLockedOut'
    BY <1>9, <1>a DEF IInv, nearptr_disable, NotLockedOut, latch
  <2> QED
    BY <1>0, <2>1, <2>2 DEF IInv
<1> QED
  BY <1>1, <1>2, <1>3, <1>4, <1>5, <1>6, <1>7, <1>8, <1>9 DEF SetsLimit

\* Every step of the specification keeps the inductive invariant.
LEMMA NextIInv == IInv /\ [Next]_vars => IInv'
<1> SUFFICES ASSUME IInv, [Next]_vars PROVE IInv'
  OBVIOUS
<1>1. CASE UNCHANGED vars
  <2>1. TypeOK'
    BY <1>1 DEF IInv, vars, TypeOK, latch, stack, hw, brk, seg
  <2>2. NotLockedOut' /\ Nesting'
    BY <1>1, SameStack DEF IInv, vars, NotLockedOut, latch
  <2> QED
    BY <2>1, <2>2 DEF IInv
<1> QED
  BY <1>1, HardwareStep, ExceptionStep, ProgramStep, SetsLimitStep DEF Next

-----------------------------------------------------------------------------
(* The limit of the segment.                                               *)

\* Steps that change neither limits, latch nor flag, and that neither enter nor
\* leave the code that sets the limit.
LEMMA LimitKept ==
  ASSUME LimitInv, UNCHANGED <<forced, limit, ds_limit, torn, seg>>,
         torn = 0 => pc' = pc \/ {pc, pc'} \cap Setting = {},
         torn = 0 => \A i \in 1..Len(frames') : i \in 1..Len(frames) /\ frames'[i] = frames[i]
  PROVE  LimitInv'
BY DEF LimitInv, EffectiveLimit, seg, Setting

\* An interrupt saves the limit in force and makes it the one to be put back.
LEMMA LimitHardware ==
  ASSUME IInv, LimitInv, Hardware
  PROVE  LimitInv'
<1>0. UNCHANGED <<frames, seg, pc>>
  BY DEF Hardware, kbd_hdlr, npx_hdlr, cbrk_hdlr, timer_hdlr, stack
<1>1. ASSUME NEW c \in Codes, hw_exception(c)
      PROVE  LimitInv'
  <2>1. CASE forced # Idle
    BY <1>0, <1>1, <2>1, LimitKept DEF hw_exception
  <2>2. CASE forced = Idle
    <3>1. c # 0 /\ forced.code = 0
      BY <2>2 DEF Codes, NPX, TIMER, INTR, QUIT, BREAK, Idle
    <3>2. /\ forced'.code = c /\ limit' = NullPage /\ ds_limit' = limit
          /\ torn' = 0 => torn = 0 /\ pc \notin Setting
      BY <1>1, <2>2 DEF hw_exception
    <3> QED
      BY <1>0, <3>1, <3>2 DEF LimitInv, EffectiveLimit, seg, Setting
  <2> QED
    BY <2>1, <2>2
<1>2. CASE UNCHANGED latch
  BY <1>0, <1>2, LimitKept DEF latch
<1> QED
  BY <1>1, <1>2 DEF Hardware, kbd_hdlr, npx_hdlr, cbrk_hdlr, timer_hdlr, Codes

\* The exception handler puts back the limit that was in force, and the frame it
\* pushes was interrupted at a location outside Setting.
LEMMA LimitHandler ==
  ASSUME IInv, LimitInv, NEW n, exception_handler(n), pc \in Touching,
         pc \in Setting => limit = NullPage
  PROVE  LimitInv'
<1>1. /\ forced'.code = 0 /\ limit' = EffectiveLimit
      /\ UNCHANGED <<torn, seg>> /\ pc' = "saving"
      /\ \E f : f.pc = pc /\ frames' = Append(frames, f)
  BY DEF exception_handler, PushFrame, EffectiveLimit
<1>2. torn = 0 => pc \notin Setting
  BY DEF IInv, LimitInv, NotLockedOut
<1>3. torn = 0 => \A i \in 1..Len(frames') : frames'[i].pc \notin Setting
  BY <1>1, <1>2, AppendProperties DEF IInv, TypeOK, LimitInv
<1>4. "saving" \notin Setting \cup {"b_cs", "b_ds", "n_flag"}
  BY DEF Setting
<1> QED
  BY <1>1, <1>2, <1>3, <1>4 DEF LimitInv, EffectiveLimit, seg, Setting

\* Steps of exception processing.
LEMMA LimitException ==
  ASSUME IInv, LimitInv, Exception
  PROVE  LimitInv'
<1>0. Len(frames) \in Nat /\ {"user", "handler"} \subseteq Touching \ Setting
  BY DEF IInv, TypeOK, Touching, Setting, PCs
<1>1. CASE Fault
  BY <1>1, LimitHandler DEF Fault
<1>2. CASE RealException
  BY <1>0, <1>2, LimitHandler DEF RealException
<1>3. CASE exception_return
  <2>1. forced'.code = forced.code
    BY <1>3 DEF exception_return, IInv, TypeOK
  <2> QED
    BY <1>3, <2>1 DEF exception_return, LimitInv, EffectiveLimit, stack, seg, Setting
<1>4. CASE exception_processor \/ handler_return
  <2>1. {pc, pc'} \cap Setting = {}
    BY <1>4 DEF exception_processor, raise, handler_return, Setting
  <2> QED
    BY <1>4, <2>1, LimitKept DEF exception_processor, handler_return, latch, stack
<1>5. CASE longjmp_resume
  <2>1. pc = "raised" /\ UNCHANGED <<latch, seg>>
    BY <1>5 DEF longjmp_resume
  <2>2. CASE pc' = "exited" /\ UNCHANGED stack
    BY <2>1, <2>2, LimitKept DEF latch, stack, Setting
  <2>3. CASE frames' = SubSeq(frames, 1, exception_state_ptr - 1) /\ pc' = Cur.pc
    <3>1. exception_state_ptr \in 1..Len(frames)
      BY <1>0, <2>1 DEF IInv, Nesting, StatePtrLive, InFrame
    <3>2. torn = 0 => Cur.pc \notin Setting
      BY <3>1 DEF LimitInv, Cur
    <3>3. \A i \in 1..Len(frames') : i \in 1..Len(frames) /\ frames'[i] = frames[i]
      BY <1>0, <2>3, <3>1, CutStep
    <3> QED
      BY <2>1, <2>3, <3>2, <3>3, LimitKept DEF latch, Setting
  <2> QED
    BY <1>5, <2>2, <2>3 DEF longjmp_resume
<1>6. CASE longjmp_user
  <2>1. jmpbuf.depth \in 0..Len(frames) /\ jmpbuf.pc \in {"user", "handler"}
    BY <1>0, <1>6 DEF IInv, longjmp_user, TypeOK, Nesting
  <2>2. \A i \in 1..Len(frames') : i \in 1..Len(frames) /\ frames'[i] = frames[i]
    BY <1>0, <1>6, <2>1, CutStep DEF longjmp_user
  <2> QED
    BY <1>0, <1>6, <2>1, <2>2, LimitKept DEF longjmp_user, latch
<1> QED
  BY <1>1, <1>2, <1>3, <1>4, <1>5, <1>6 DEF Exception

\* sbrk and the nearptr calls: no code is latched while they set the limit.
LEMMA LimitSets ==
  ASSUME IInv, LimitInv, SetsLimit
  PROVE  LimitInv'
<1> SUFFICES ASSUME torn' = 0 PROVE LimitInv'
  BY DEF LimitInv
<1>0. /\ UNCHANGED <<forced, ds_limit, torn, frames>>
      /\ limit \in Nat /\ ds_limit \in Nat /\ selector_limit \in 1..MaxLimit
      /\ FarLimit = MaxLimit + 1 /\ MaxLimit \in Nat /\ nearptr \in {0, 1}
  BY BoundsAssumption DEF SetsLimit, sbrk, brk_resize, brk_store, brk_test_nearptr,
     brk_set_ds_limit, brk_return, nearptr_call, nearptr_enable, nearptr_disable,
     latch, stack, IInv, TypeOK, Limits, FarLimit
<1>1. CASE sbrk \/ brk_resize \/ brk_return
  BY <1>1, LimitKept DEF sbrk, brk_resize, brk_return, latch, stack, Setting
<1>2. CASE brk_store
  <2>1. forced.code = 0 /\ limit' = limit /\ nearptr' = nearptr /\ pc = "b_store" /\ pc' = "b_cs"
    BY <1>0, <1>2 DEF brk_store, CanTouch, LimitInv, latch
  <2> QED
    BY <1>0, <2>1 DEF LimitInv, EffectiveLimit
<1>3. CASE brk_test_nearptr
  <2>1. forced.code = 0 /\ UNCHANGED <<limit, selector_limit, nearptr>> /\ pc = "b_cs"
        /\ pc' = IF nearptr = 1 THEN "b_alias" ELSE "b_ds"
    BY <1>0, <1>3 DEF brk_test_nearptr, CanTouch, LimitInv, latch, seg
  <2> QED
    BY <1>0, <2>1 DEF LimitInv, EffectiveLimit
<1>4. CASE brk_set_ds_limit
  <2>1. forced.code = 0 /\ UNCHANGED <<selector_limit, nearptr>> /\ nearptr = 0
        /\ limit' = selector_limit /\ pc' = "b_alias"
    BY <1>0, <1>4 DEF brk_set_ds_limit, LimitInv, Setting, seg
  <2> QED
    BY <1>0, <2>1 DEF LimitInv, EffectiveLimit
<1>5. CASE nearptr_call
  <2>1. forced.code = 0 /\ UNCHANGED <<limit, selector_limit, nearptr>>
        /\ pc = "user" /\ pc' \in {"n_set", "n_clr"}
    BY <1>0, <1>5 DEF nearptr_call, CanTouch, LimitInv, latch, seg
  <2> QED
    BY <1>0, <2>1 DEF LimitInv, EffectiveLimit
<1>6. CASE nearptr_enable
  <2>1. forced.code = 0 /\ selector_limit' = selector_limit /\ pc \in {"n_set", "n_get"}
    BY <1>0, <1>6 DEF nearptr_enable, LimitInv, Setting, seg
  <2>2. limit >= selector_limit /\ (nearptr = 1 => limit = FarLimit)
    BY <1>0, <2>1 DEF LimitInv, EffectiveLimit
  <2>3. \/ pc' = "n_get" /\ nearptr' = nearptr /\ limit' >= selector_limit
           /\ (nearptr = 1 => limit' = FarLimit)
        \/ pc' = "user" /\ limit' = limit /\ nearptr' = IF limit = FarLimit THEN 1 ELSE nearptr
    BY <1>0, <1>6, <2>2 DEF nearptr_enable, latch, seg
  <2> QED
    BY <1>0, <2>1, <2>2, <2>3 DEF LimitInv, EffectiveLimit
<1>7. CASE nearptr_disable
  <2>1. forced.code = 0 /\ selector_limit' = selector_limit /\ pc \in {"n_clr", "n_flag"}
    BY <1>0, <1>7 DEF nearptr_disable, LimitInv, Setting, seg
  <2>2. \/ pc' = "n_flag" /\ limit' = selector_limit
        \/ pc' = "user" /\ limit' = limit /\ nearptr' = 0 /\ limit >= selector_limit
    BY <1>0, <1>7, <2>1 DEF nearptr_disable, latch, seg, LimitInv, EffectiveLimit
  <2> QED
    BY <1>0, <2>1, <2>2 DEF LimitInv, EffectiveLimit
<1> QED
  BY <1>1, <1>2, <1>3, <1>4, <1>5, <1>6, <1>7 DEF SetsLimit

\* Every step keeps the limit right.
LEMMA LimitStep ==
  ASSUME IInv, LimitInv, [Next]_vars
  PROVE  LimitInv'
<1>1. CASE Program
  <2>1. UNCHANGED <<latch, seg, frames>>
    BY <1>1 DEF Program, setjmp, signal, set_ctrl_c, want_ctrl_break, was_ctrl_break_hit,
       zero_break_count, DosCall, DosReturn, stack
  <2>2. pc' = pc \/ {pc, pc'} \cap Setting = {}
    BY <1>1 DEF Program, setjmp, signal, set_ctrl_c, want_ctrl_break, was_ctrl_break_hit,
       zero_break_count, DosCall, DosReturn, Setting
  <2> QED
    BY <2>1, <2>2, LimitKept DEF latch
<1>2. CASE UNCHANGED vars
  BY <1>2, LimitKept DEF vars, latch, stack
<1> QED
  BY <1>1, <1>2, LimitHardware, LimitException, LimitSets DEF Next

\* In every behaviour the latch, the limits, the frames and the counters of
\* exceptn.S stay within their types.
THEOREM TypeCorrect == Spec => []TypeOK
<1>1. IInv => TypeOK
  BY DEF IInv
<1> QED
  BY <1>1, InitIInv, NextIInv, PTL DEF Spec

\* __djgpp_hw_exception and limitFix never leave the program with its data
\* segment shrunk to the null page and no way back, whatever sbrk and
\* __djgpp_nearptr_enable/disable do to the limit in between.
THEOREM NeverLockedOut == Spec => []NotLockedOut
<1>1. IInv => NotLockedOut
  BY DEF IInv
<1> QED
  BY <1>1, InitIInv, NextIInv, PTL DEF Spec

\* __djgpp_exception_state_ptr names the newest live frame through any nesting
\* of signals, faults and longjmps.
THEOREM StatePtrAlwaysLive == Spec => []StatePtrLive
<1>1. IInv => StatePtrLive
  BY DEF IInv, Nesting
<1> QED
  BY <1>1, InitIInv, NextIInv, PTL DEF Spec

\* The limit is right in every state of every behaviour.
LEMMA LimitAlwaysRight == Spec => [](IInv /\ LimitInv)
<1>1. Init => LimitInv
  BY BoundsAssumption DEF Init, LimitInv, EffectiveLimit, Idle, Setting
<1>2. IInv /\ LimitInv /\ [Next]_vars => LimitInv'
  BY LimitStep
<1> QED
  BY <1>1, <1>2, InitIInv, NextIInv, PTL DEF Spec

\* Unless an interrupt fell into the instructions that set the limit, the
\* program executes no instruction that touches data while a code is latched.
THEOREM FlaggedAlwaysStops == Spec => []FlaggedStopsProgram
<1>1. LimitInv => FlaggedStopsProgram
  BY DEF LimitInv, FlaggedStopsProgram
<1> QED
  BY <1>1, LimitAlwaysRight, PTL

\* Under the same condition the segment covers all that sbrk handed out whenever
\* the program runs, through any nesting of signals, longjmps and nearptr calls.
THEOREM LimitAlwaysCovers == Spec => []LimitCoversBreak
<1>1. LimitInv => LimitCoversBreak
  BY DEF LimitInv, LimitCoversBreak, EffectiveLimit
<1> QED
  BY <1>1, LimitAlwaysRight, PTL

\* Under the same condition an exception of the program's own is never reported as
\* a converted interrupt.
THEOREM RealFaultsReported == Spec => RealFaultReported
<1> DEFINE A == (Len(frames') > Len(frames) /\ limit # NullPage /\ torn = 0)
                  => frames'[Len(frames')].excepno \in RealExceptions
<1>1. IInv /\ LimitInv /\ [Next]_vars => [A]_vars
  <2> SUFFICES ASSUME IInv, LimitInv, Next, Len(frames') > Len(frames), limit # NullPage,
                      torn = 0
               PROVE  frames'[Len(frames')].excepno \in RealExceptions
    OBVIOUS
  <2>1. Len(frames) \in Nat /\ frames \in Seq(Frame)
    BY DEF IInv, TypeOK
  <2>2. \A d \in 0..Len(frames) : Len(SubSeq(frames, 1, d)) = d
    BY <2>1, Prefix
  <2>3. ~(UNCHANGED frames)
    BY <2>1
  <2>4. ~Hardware /\ ~Program /\ ~SetsLimit
    BY <2>3 DEF Hardware, kbd_hdlr, npx_hdlr, cbrk_hdlr, timer_hdlr, stack, Program, setjmp,
       signal, set_ctrl_c, want_ctrl_break, was_ctrl_break_hit, zero_break_count, DosCall,
       DosReturn, SetsLimit, sbrk, brk_resize, brk_store, brk_test_nearptr,
       brk_set_ds_limit, brk_return, nearptr_call, nearptr_enable, nearptr_disable
  <2>5. ~longjmp_resume
    <3> SUFFICES ASSUME longjmp_resume PROVE FALSE
      OBVIOUS
    <3>1. frames' = SubSeq(frames, 1, exception_state_ptr - 1)
      BY <2>3 DEF longjmp_resume, stack
    <3>2. exception_state_ptr - 1 \in 0..Len(frames)
      BY <2>1 DEF longjmp_resume, IInv, Nesting, StatePtrLive, InFrame
    <3> QED
      BY <2>1, <2>2, <3>1, <3>2
  <2>6. ~longjmp_user
    BY <2>1, <2>2 DEF longjmp_user, IInv, TypeOK, Nesting
  <2>7. RealException
    BY <2>3, <2>4, <2>5, <2>6 DEF Next, Exception, Fault, exception_return,
       exception_processor, handler_return, stack
  <2>8. PICK n \in RealExceptions : exception_handler(n)
    BY <2>7 DEF RealException
  <2>9. forced.code = 0
    BY DEF LimitInv
  <2>10. frames' = Append(frames, [excepno |-> n, pc |-> pc, prev |-> exception_state_ptr])
    BY <2>8, <2>9 DEF exception_handler, PushFrame
  <2> QED
    BY <2>1, <2>10, AppendProperties
<1> QED
  BY <1>1, LimitAlwaysRight, PTL DEF Spec, RealFaultReported

-----------------------------------------------------------------------------
(***************************************************************************)
(* What Vectors promises, for every number of operations and with or       *)
(* without _CRT0_FLAG_NMI_SIGNAL.  The handlers and the timer vector do    *)
(* not depend on each other, so each has an inductive invariant of its     *)
(* own; the timer's needs that no timer is started or stopped inside a     *)
(* toggled block: TLC refutes ExitRestoresTimer for programs that do.      *)
(***************************************************************************)

Ours == IF off = 1 THEN "system" ELSE "library"
Theirs == IF off = 1 THEN "library" ELSE "system"

\* Vectors and saved values hold the two handlers, one each; the NMI vector is
\* never set unless the flag asks for it.  _exit can tell the two cases apart
\* because old_kbd never changes.
Paired ==
  /\ \A h \in Swapped : h # "nmi" \/ NmiSignal => vec[h] = Ours /\ ori[h] = Theirs
  /\ ~NmiSignal => vec["nmi"] = "system" /\ ori["nmi"] = "system"
  /\ old_kbd = "system"
  /\ cbrk_hooked = 1 - off
  /\ cbrk_ori = "system"
  /\ vec["cbrk"] = Ours

HandlersInv == VectorsTypeOK /\ Paired /\ (phase = "exited" => off = 1)

\* old_timer is set while a timer runs: needed for the vector's type.
Hooked == timer_on = 1 => old_timer # Null

\* The two saved values of the timer vector differ exactly while its handler is
\* suspended by a toggle.
TimerSaved ==
  /\ old_timer # "library"
  /\ timer_on = 1 => old_timer = "system"
  /\ timer_ori = IF timer_on = 1 /\ off = 1 THEN "library" ELSE "system"
  /\ vec["timer"] = IF timer_on = 1 /\ off = 0 THEN "library" ELSE "system"

-----------------------------------------------------------------------------
\* __djgpp_exception_toggle keeps the types of what it exchanges.
LEMMA ToggleTypes ==
  ASSUME VectorsTypeOK, exception_toggle,
         timer_ori' \in Owners, phase' \in {"running", "exited"}, ops' \in 0..MaxOps
  PROVE  VectorsTypeOK'
  <1>1. vec' \in [Hooks -> Owners] /\ off' \in {0, 1} /\ cbrk_hooked' \in {0, 1}
    BY DEF VectorsTypeOK, exception_toggle, toggle_cbrk
  <1>2. ori' \in [Swapped -> Owners]
    BY DEF VectorsTypeOK, exception_toggle, toggle_swapped, Swapped, Hooks
  <1>3. cbrk_ori' \in Owners
    BY DEF VectorsTypeOK, exception_toggle, toggle_cbrk, Hooks
  <1> QED
    BY <1>1, <1>2, <1>3 DEF VectorsTypeOK, exception_toggle

\* The saved timer vector is always a handler: it is only replaced by the
\* current vector or by an old_timer that was found to be set.
LEMMA ToggleTimerType ==
  ASSUME VectorsTypeOK, exception_toggle
  PROVE  timer_ori' \in Owners
  BY DEF VectorsTypeOK, exception_toggle, toggle_timer, Hooks, Owners, Null

\* A toggle exchanges the handlers and leaves them paired.
LEMMA TogglePairs ==
  ASSUME VectorsTypeOK, Paired, exception_toggle
  PROVE  Paired' /\ off' = 1 - off
  <1>1. off \in {0, 1} /\ off' = 1 - off
    BY DEF VectorsTypeOK, exception_toggle
  <1>2. ASSUME NEW h \in Swapped, h # "nmi" \/ NmiSignal
        PROVE  vec'[h] = Ours' /\ ori'[h] = Theirs'
    BY <1>1, <1>2 DEF exception_toggle, toggle_swapped, Paired, Ours, Theirs
  <1>3. ASSUME ~NmiSignal
        PROVE  vec'["nmi"] = "system" /\ ori'["nmi"] = "system"
    BY <1>3 DEF exception_toggle, toggle_swapped, Paired, Swapped
  <1>4. /\ cbrk_hooked' = 1 - off'
        /\ cbrk_ori' = "system"
        /\ vec'["cbrk"] = Ours'
    BY <1>1 DEF exception_toggle, toggle_cbrk, Paired, Ours
  <1>5. old_kbd' = "system"
    BY DEF exception_toggle, Paired
  <1> QED
    BY <1>1, <1>2, <1>3, <1>4, <1>5 DEF Paired

\* Starting or stopping a timer changes no vector but the timer's.
LEMMA TimerCalls ==
  ASSUME VectorsTypeOK, Paired, phase = "exited" => off = 1, start_timer \/ stop_timer,
         old_timer # Null \/ start_timer
  PROVE  HandlersInv'
  <1>1. /\ UNCHANGED <<ori, old_kbd, cbrk_ori, cbrk_hooked, timer_ori, off, phase>>
        /\ ops' \in 0..MaxOps /\ timer_on' \in {0, 1}
    BY VectorsAssumption DEF start_timer, stop_timer, Op, VectorsTypeOK
  <1>2. vec' \in [Hooks -> Owners] /\ old_timer' \in Owners \cup {Null}
    BY DEF start_timer, stop_timer, VectorsTypeOK, Hooks, Owners
  <1>3. \A h \in Hooks \ {"timer"} : vec'[h] = vec[h]
    BY DEF start_timer, stop_timer, VectorsTypeOK
  <1>4. VectorsTypeOK'
    BY <1>1, <1>2 DEF VectorsTypeOK
  <1>5. Paired'
    BY <1>1, <1>3 DEF Paired, Ours, Theirs, Hooks, Swapped
  <1> QED
    BY <1>1, <1>4, <1>5 DEF HandlersInv

-----------------------------------------------------------------------------
\* What __djgpp_exception_setup leaves satisfies all parts of the invariants.
LEMMA HandlersInit == exception_setup => HandlersInv /\ Hooked /\ TimerSaved
  <1> SUFFICES ASSUME exception_setup PROVE HandlersInv /\ Hooked /\ TimerSaved
    OBVIOUS
  <1>1. VectorsTypeOK
    BY VectorsAssumption DEF exception_setup, VectorsTypeOK, Owners, Hooks, Swapped
  <1>2. Paired
    BY DEF exception_setup, Paired, Ours, Theirs, Hooks, Swapped
  <1>3. Hooked /\ TimerSaved
    BY DEF exception_setup, Hooked, TimerSaved, Hooks, Null
  <1> QED
    BY <1>1, <1>2, <1>3 DEF HandlersInv, exception_setup

\* Every step keeps the handlers paired.
LEMMA HandlersStep ==
  ASSUME HandlersInv, Hooked, [VectorsNext]_vectors
  PROVE  HandlersInv' /\ Hooked'
  <1> USE DEF HandlersInv
  <1>1. CASE Toggle
    <2>1. exception_toggle /\ phase' = "running" /\ phase = "running" /\ ops' \in 0..MaxOps
      BY <1>1, VectorsAssumption DEF Toggle, Op, VectorsTypeOK
    <2>2. VectorsTypeOK'
      BY <2>1, ToggleTimerType, ToggleTypes
    <2>3. Paired'
      BY <2>1, TogglePairs
    <2>4. Hooked'
      BY <2>1 DEF Hooked, exception_toggle
    <2> QED
      BY <2>1, <2>2, <2>3, <2>4
  <1>2. CASE start_timer
    <2>1. HandlersInv'
      BY <1>2, TimerCalls
    <2>2. Hooked'
      BY <1>2 DEF start_timer, Hooked, VectorsTypeOK, Hooks, Owners, Null
    <2> QED
      BY <2>1, <2>2
  <1>3. CASE stop_timer
    <2>1. old_timer # Null
      BY <1>3 DEF stop_timer, Hooked
    <2>2. HandlersInv'
      BY <1>3, <2>1, TimerCalls
    <2> QED
      BY <1>3, <2>2 DEF stop_timer, Hooked
  <1>4. CASE exit
    <2>1. phase = "running" /\ phase' = "exited" /\ ops' = ops
      BY <1>4 DEF exit
    <2>2. CASE exception_toggle /\ old_kbd = ori["kbd"]
      <3>1. off = 0
        BY <2>2 DEF Paired, Theirs, Swapped, VectorsTypeOK
      <3>2. VectorsTypeOK'
        BY <2>1, <2>2, ToggleTimerType, ToggleTypes DEF VectorsTypeOK
      <3>3. Paired' /\ off' = 1
        BY <2>2, <3>1, TogglePairs
      <3> QED
        BY <2>1, <2>2, <3>2, <3>3 DEF Hooked, exception_toggle
    <2>3. CASE /\ old_kbd # ori["kbd"]
               /\ UNCHANGED <<vec, ori, old_kbd, cbrk_ori, cbrk_hooked, timer_ori,
                              old_timer, timer_on, off>>
      <3>1. off = 1
        BY <2>3 DEF Paired, Theirs, Swapped, VectorsTypeOK
      <3> QED
        BY <2>1, <2>3, <3>1 DEF VectorsTypeOK, Paired, Hooked, Ours, Theirs
    <2> QED
      BY <1>4, <2>2, <2>3 DEF exit
  <1>5. CASE UNCHANGED vectors
    BY <1>5 DEF vectors, VectorsTypeOK, Paired, Hooked, Ours, Theirs
  <1> QED
    BY <1>1, <1>2, <1>3, <1>4, <1>5 DEF VectorsNext

\* Every step keeps the timer vector and its saved values in accord.
LEMMA TimerStep ==
  ASSUME ~TimerWhenToggled, HandlersInv, TimerSaved, [VectorsNext]_vectors
  PROVE  TimerSaved'
  <1>0. off \in {0, 1} /\ timer_on \in {0, 1} /\ vec \in [Hooks -> Owners]
    BY DEF HandlersInv, VectorsTypeOK
  <1>1. ASSUME exception_toggle
        PROVE  TimerSaved'
    <2>1. off' = 1 - off /\ UNCHANGED <<old_timer, timer_on>>
      BY <1>1 DEF exception_toggle
    <2>2. CASE old_timer = Null
      BY <1>0, <1>1, <2>1, <2>2 DEF exception_toggle, toggle_timer, TimerSaved, Null
    <2>3. CASE old_timer # Null
      <3>1. old_timer = "system"
        BY <2>3 DEF HandlersInv, VectorsTypeOK, Owners, TimerSaved
      <3> QED
        BY <1>0, <1>1, <2>1, <2>3, <3>1 DEF exception_toggle, toggle_timer, TimerSaved
    <2> QED
      BY <2>2, <2>3
  <1>2. CASE start_timer
    BY <1>0, <1>2 DEF start_timer, TimerSaved, Hooks
  <1>3. CASE stop_timer
    BY <1>0, <1>3 DEF stop_timer, TimerSaved, Hooks
  <1>4. CASE exit \/ Toggle
    <2>1. CASE exception_toggle
      BY <1>1, <2>1
    <2>2. CASE UNCHANGED <<vec, old_timer, timer_ori, timer_on, off>>
      BY <2>2 DEF TimerSaved
    <2> QED
      BY <1>4, <2>1, <2>2 DEF exit, Toggle
  <1>5. CASE UNCHANGED vectors
    BY <1>5 DEF vectors, TimerSaved
  <1> QED
    BY <1>2, <1>3, <1>4, <1>5 DEF VectorsNext

-----------------------------------------------------------------------------
\* The invariant of the handlers, for every program.
THEOREM HandlersAlwaysPaired == VectorsSpec => [](HandlersInv /\ Hooked)
  <1>1. exception_setup => HandlersInv /\ Hooked
    BY HandlersInit
  <1>2. HandlersInv /\ Hooked /\ [VectorsNext]_vectors => HandlersInv' /\ Hooked'
    BY HandlersStep
  <1> QED
    BY <1>1, <1>2, PTL DEF VectorsSpec

\* Every variable of the vector tables keeps its type.
THEOREM VectorsTypeCorrect == VectorsSpec => []VectorsTypeOK
  <1>1. HandlersInv => VectorsTypeOK
    BY DEF HandlersInv
  <1> QED
    BY <1>1, HandlersAlwaysPaired, PTL

\* After _exit no vector but the timer's points into the program, whatever was
\* toggled before, timers included.
THEOREM ExitAlwaysRestores == VectorsSpec => []ExitRestoresHandlers
  <1>1. HandlersInv => ExitRestoresHandlers
    <2> SUFFICES ASSUME HandlersInv, phase = "exited", NEW h \in Hooks \ {"timer"}
                 PROVE  vec[h] = "system"
      BY DEF ExitRestoresHandlers
    <2>1. off = 1 /\ Paired
      BY DEF HandlersInv
    <2> QED
      BY <2>1 DEF Paired, Ours, Hooks, Swapped
  <1> QED
    BY <1>1, HandlersAlwaysPaired, PTL

\* If timers are started and stopped outside toggled blocks only, the timer
\* vector and its saved values are in accord as well.
LEMMA TimerAlwaysSaved ==
  ASSUME ~TimerWhenToggled
  PROVE  VectorsSpec => [](HandlersInv /\ TimerSaved)
  <1>1. exception_setup => HandlersInv /\ Hooked /\ TimerSaved
    BY HandlersInit
  <1>2. HandlersInv /\ Hooked /\ TimerSaved /\ [VectorsNext]_vectors
          => HandlersInv' /\ Hooked' /\ TimerSaved'
    BY HandlersStep, TimerStep
  <1> QED
    BY <1>1, <1>2, PTL DEF VectorsSpec

\* A program that leaves timers alone in toggled blocks leaves the timer vector to
\* the system when it exits, with a timer armed or not.
THEOREM TimerAlwaysRestored ==
  ASSUME ~TimerWhenToggled
  PROVE  VectorsSpec => []ExitRestoresTimer
  <1>1. HandlersInv /\ TimerSaved => ExitRestoresTimer
    BY DEF ExitRestoresTimer, HandlersInv, TimerSaved
  <1> QED
    BY <1>1, TimerAlwaysSaved, PTL

\* The child of such a program sees only the system's handlers, and the program
\* has its own back, the timer's exactly while a timer is armed.
THEOREM BlocksAlwaysToggled ==
  ASSUME ~TimerWhenToggled
  PROVE  VectorsSpec => []ToggledBlocks
  <1>1. HandlersInv /\ TimerSaved => ToggledBlocks
    BY DEF ToggledBlocks, HandlersInv, TimerSaved, Paired, Ours, Hooks, Swapped
  <1> QED
    BY <1>1, TimerAlwaysSaved, PTL

\* The tick handler of such a program never chains to itself, so a tick ends.
THEOREM NeverChainsToItself ==
  ASSUME ~TimerWhenToggled
  PROVE  VectorsSpec => []NoSelfChain
  <1>1. TimerSaved => NoSelfChain
    BY DEF NoSelfChain, TimerSaved
  <1> QED
    BY <1>1, TimerAlwaysSaved, PTL

=============================================================================
