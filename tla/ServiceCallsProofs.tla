-------------------------- MODULE ServiceCallsProofs --------------------------
(***************************************************************************)
(* What holds of ServiceCalls for every set of web threads and every       *)
(* number of calls: one service call at a time, the safety of the first    *)
(* clearModuleList, and that the deadlock of a reload is one.              *)
(***************************************************************************)
EXTENDS ServiceCalls, TLAPS

USE DEF Caller, ModulePC, CallPC, ScriptPC, MainPC

\* The script of the main thread makes calls only while it runs.
ScriptInv == call[Main] # "idle" => main \in ScriptPC

(***************************************************************************)
(* Before the first clearModuleList is through, mSuspended is true only of *)
(* a thread that sleeps in stopping() and cannot leave, since mNeedSuspend *)
(* is reset by that call alone, or of one that was not started.            *)
(***************************************************************************)
FirstInv ==
    ~cleared =>
        /\ suspended /\ module \notin {"new", "ended"} =>
              module = "test" /\ needSuspend
        /\ \A c \in Caller :
              call[c] = "clear" => module \in {"new", "test", "ended"}

IInv == TypeOK /\ OneServiceCall /\ ScriptInv /\ FirstInv

LEMMA InitInv == Init => IInv
<1> SUFFICES ASSUME Init PROVE IInv
  OBVIOUS
<1> USE WebAssumption, MaxCallsAssumption DEF Init
<1>1. TypeOK
  <2>1. call \in [Caller -> CallPC]
    OBVIOUS
  <2>2. /\ needSuspend \in BOOLEAN /\ suspended \in BOOLEAN /\ stopping \in BOOLEAN
        /\ needReload \in BOOLEAN /\ quit \in BOOLEAN /\ cleared \in BOOLEAN
    BY Zenon
  <2> QED
    BY <2>1, <2>2 DEF TypeOK
<1>2. OneServiceCall
  BY DEF OneServiceCall
<1>3. ScriptInv /\ FirstInv
  BY DEF ScriptInv, FirstInv
<1> QED
  BY <1>1, <1>2, <1>3 DEF IInv

\* A step of the Insteon thread preserves the invariant.
LEMMA ModuleInv == IInv /\ (ModuleStep \/ Raise) => IInv'
<1> SUFFICES ASSUME IInv, ModuleStep \/ Raise PROVE IInv'
  OBVIOUS
<1> USE WebAssumption DEF IInv, TypeOK, OneServiceCall, ScriptInv, FirstInv,
        handshake, mainVars
<1>1. CASE Nap
  <2>1. TypeOK'
    BY <1>1 DEF Nap
  <2>2. OneServiceCall'
    BY <1>1 DEF Nap
  <2>3. ScriptInv'
    BY <1>1 DEF Nap
  <2>4. FirstInv'
    BY <1>1 DEF Nap
  <2> QED
    BY <2>1, <2>2, <2>3, <2>4
<1>2. CASE WakeUp
  <2>1. TypeOK'
    BY <1>2 DEF WakeUp
  <2>2. OneServiceCall'
    BY <1>2 DEF WakeUp
  <2>3. ScriptInv'
    BY <1>2 DEF WakeUp
  <2>4. FirstInv'
    BY <1>2 DEF WakeUp
  <2> QED
    BY <2>1, <2>2, <2>3, <2>4
<1>3. CASE LeaveStopping
  <2>1. TypeOK'
    BY <1>3 DEF LeaveStopping
  <2>2. OneServiceCall'
    BY <1>3 DEF LeaveStopping
  <2>3. ScriptInv'
    BY <1>3 DEF LeaveStopping
  <2>4. FirstInv'
    BY <1>3 DEF LeaveStopping
  <2> QED
    BY <2>1, <2>2, <2>3, <2>4
<1>4. CASE WantRaise \/ Raise \/ EndBody
  <2>1. TypeOK'
    BY <1>4 DEF WantRaise, Raise, EndBody
  <2>2. OneServiceCall'
    BY <1>4 DEF WantRaise, Raise, EndBody
  <2>3. ScriptInv'
    BY <1>4 DEF WantRaise, Raise, EndBody
  <2>4. FirstInv'
    BY <1>4 DEF WantRaise, Raise, EndBody
  <2> QED
    BY <2>1, <2>2, <2>3, <2>4
<1> QED
  BY <1>1, <1>2, <1>3, <1>4 DEF ModuleStep

\* So does a step of a call ...
LEMMA CallInv ==
    ASSUME IInv, NEW c \in Caller, StartCall(c) \/ Invoke(c) \/ CallStep(c)
    PROVE  IInv'
<1> USE WebAssumption, MaxCallsAssumption
    DEF IInv, TypeOK, OneServiceCall, ScriptInv, FirstInv, handshake, mainVars,
        At, Goes
<1>1. CASE StartCall(c)
  <2>1. TypeOK'
    BY <1>1 DEF StartCall
  <2>2. OneServiceCall'
    BY <1>1 DEF StartCall
  <2>3. ScriptInv'
    BY <1>1 DEF StartCall
  <2>4. FirstInv'
    BY <1>1 DEF StartCall
  <2> QED
    BY <2>1, <2>2, <2>3, <2>4
<1>2. CASE Invoke(c)
  <2>1. TypeOK'
    BY <1>2 DEF Invoke
  <2>2. OneServiceCall'
    BY <1>2 DEF Invoke
  <2>3. ScriptInv'
    BY <1>2 DEF Invoke
  <2>4. FirstInv'
    BY <1>2 DEF Invoke
  <2> QED
    BY <2>1, <2>2, <2>3, <2>4
<1>3. CASE Suspend(c)
  <2>1. TypeOK'
    BY <1>3 DEF Suspend
  <2>2. OneServiceCall'
    BY <1>3 DEF Suspend
  <2>3. ScriptInv'
    BY <1>3 DEF Suspend
  <2>4. FirstInv'
    BY <1>3 DEF Suspend
  <2> QED
    BY <2>1, <2>2, <2>3, <2>4
<1>4. CASE Suspended(c)
  <2>1. TypeOK'
    BY <1>4 DEF Suspended
  <2>2. OneServiceCall'
    BY <1>4 DEF Suspended
  <2>3. ScriptInv'
    BY <1>4 DEF Suspended
  <2>4. FirstInv'
    BY <1>4 DEF Suspended
  <2> QED
    BY <2>1, <2>2, <2>3, <2>4
<1>5. CASE Clear(c)
  <2>1. TypeOK'
    <3>1. call' \in [Caller -> CallPC]
      BY <1>5 DEF Clear, CallPC
    <3>2. needSuspend' \in BOOLEAN /\ cleared' \in BOOLEAN
      BY <1>5 DEF Clear
    <3> QED
      BY <1>5, <3>1, <3>2 DEF Clear
  <2>2. OneServiceCall'
    <3>1. call[c] = "clear" /\ invocationLock = c
      BY <1>5 DEF Clear
    <3>2. \A d \in Caller : d # c => call[d] \notin {"suspend", "spin",
                                                  "clear", "leave"}
      BY <3>1
    <3>3. /\ call'[c] = "leave" /\ \A d \in Caller : d # c => call'[d] = call[d]
          /\ invocationLock' = c /\ needSuspend' = FALSE
      BY <1>5, <3>1 DEF Clear
    <3> QED
      BY <3>2, <3>3
  <2>3. ScriptInv'
    BY <1>5 DEF Clear
  <2>4. FirstInv'
    BY <1>5 DEF Clear
  <2> QED
    BY <2>1, <2>2, <2>3, <2>4
<1>6. CASE Leave(c)
  <2>1. TypeOK'
    BY <1>6 DEF Leave
  <2>2. OneServiceCall'
    BY <1>6 DEF Leave
  <2>3. ScriptInv'
    BY <1>6 DEF Leave
  <2>4. FirstInv'
    BY <1>6 DEF Leave
  <2> QED
    BY <2>1, <2>2, <2>3, <2>4
<1> QED
  BY <1>1, <1>2, <1>3, <1>4, <1>5, <1>6 DEF CallStep

\* ... and a step of the main thread or of a signal handler.
LEMMA MainInv == IInv /\ (MainStep \/ Wake \/ Hup \/ Term) => IInv'
<1> SUFFICES ASSUME IInv, MainStep \/ Wake \/ Hup \/ Term PROVE IInv'
  OBVIOUS
<1> USE WebAssumption, MaxCallsAssumption
    DEF IInv, TypeOK, OneServiceCall, ScriptInv, FirstInv, handshake, mainVars,
        At, ScriptDone
<1>1. CASE StartModules
  <2>1. TypeOK'
    BY <1>1 DEF StartModules
  <2>2. OneServiceCall'
    BY <1>1 DEF StartModules
  <2>3. ScriptInv'
    BY <1>1 DEF StartModules
  <2>4. FirstInv'
    BY <1>1 DEF StartModules
  <2> QED
    BY <2>1, <2>2, <2>3, <2>4
<1>2. CASE EndBoot
  <2>1. TypeOK'
    BY <1>2 DEF EndBoot
  <2>2. OneServiceCall'
    BY <1>2 DEF EndBoot
  <2>3. ScriptInv'
    BY <1>2 DEF EndBoot
  <2>4. FirstInv'
    BY <1>2 DEF EndBoot
  <2> QED
    BY <2>1, <2>2, <2>3, <2>4
<1>8. CASE EndDispatch
  <2>1. TypeOK'
    BY <1>8 DEF EndDispatch
  <2>2. OneServiceCall'
    BY <1>8 DEF EndDispatch
  <2>3. ScriptInv'
    BY <1>8 DEF EndDispatch
  <2>4. FirstInv'
    BY <1>8 DEF EndDispatch
  <2> QED
    BY <2>1, <2>2, <2>3, <2>4
<1>3. CASE StartReload
  <2>1. TypeOK'
    BY <1>3 DEF StartReload
  <2>2. OneServiceCall'
    BY <1>3 DEF StartReload
  <2>3. ScriptInv'
    BY <1>3 DEF StartReload
  <2>4. FirstInv'
    BY <1>3 DEF StartReload
  <2> QED
    BY <2>1, <2>2, <2>3, <2>4
<1>4. CASE StartDispatch
  <2>1. TypeOK'
    BY <1>4 DEF StartDispatch
  <2>2. OneServiceCall'
    BY <1>4 DEF StartDispatch
  <2>3. ScriptInv'
    BY <1>4 DEF StartDispatch
  <2>4. FirstInv'
    BY <1>4 DEF StartDispatch
  <2> QED
    BY <2>1, <2>2, <2>3, <2>4
<1>5. CASE StopWeb
  <2>1. TypeOK'
    BY <1>5 DEF StopWeb
  <2>2. OneServiceCall'
    BY <1>5 DEF StopWeb
  <2>3. ScriptInv'
    BY <1>5 DEF StopWeb
  <2>4. FirstInv'
    BY <1>5 DEF StopWeb
  <2> QED
    BY <2>1, <2>2, <2>3, <2>4
<1>9. CASE Join
  <2>1. TypeOK'
    BY <1>9 DEF Join
  <2>2. OneServiceCall'
    BY <1>9 DEF Join
  <2>3. ScriptInv'
    BY <1>9 DEF Join
  <2>4. FirstInv'
    BY <1>9 DEF Join
  <2> QED
    BY <2>1, <2>2, <2>3, <2>4
<1>6. CASE Wake
  <2>1. TypeOK'
    BY <1>6 DEF Wake
  <2>2. OneServiceCall'
    BY <1>6 DEF Wake
  <2>3. ScriptInv'
    BY <1>6 DEF Wake
  <2>4. FirstInv'
    BY <1>6 DEF Wake
  <2> QED
    BY <2>1, <2>2, <2>3, <2>4
<1>7. CASE Hup
  <2>1. TypeOK'
    BY <1>7 DEF Hup
  <2>2. OneServiceCall'
    BY <1>7 DEF Hup
  <2>3. ScriptInv'
    BY <1>7 DEF Hup
  <2>4. FirstInv'
    BY <1>7 DEF Hup
  <2> QED
    BY <2>1, <2>2, <2>3, <2>4
<1>10. CASE Term
  <2>1. TypeOK'
    BY <1>10 DEF Term
  <2>2. OneServiceCall'
    BY <1>10 DEF Term
  <2>3. ScriptInv'
    BY <1>10 DEF Term
  <2>4. FirstInv'
    BY <1>10 DEF Term
  <2> QED
    BY <2>1, <2>2, <2>3, <2>4
<1> QED
  BY <1>1, <1>2, <1>3, <1>4, <1>5, <1>6, <1>7, <1>8, <1>9, <1>10 DEF MainStep

\* The inductive invariant holds in every reachable state.
THEOREM ServiceCallsInvariance == Spec => []IInv
<1>1. IInv /\ [Next]_vars => IInv'
  <2>1. ASSUME IInv, UNCHANGED vars PROVE IInv'
    BY <2>1 DEF vars, handshake, mainVars, IInv, TypeOK, OneServiceCall,
                ScriptInv, FirstInv
  <2> QED
    BY <2>1, ModuleInv, CallInv, MainInv DEF Next
<1> QED
  BY InitInv, <1>1, PTL DEF Spec

\* Types, and the message queue is locked exactly where timeSlice() locks it.
THEOREM ServiceCallsTypes == Spec => []TypeOK
<1>1. IInv => TypeOK
  BY DEF IInv
<1> QED
  BY <1>1, ServiceCallsInvariance, PTL

\* mInvocationLock lets one service call through at a time, and that call
\* alone asks the Insteon thread to sleep.
THEOREM ServiceCallsExclusion == Spec => []OneServiceCall
<1>1. IInv => OneServiceCall
  BY DEF IInv
<1> QED
  BY <1>1, ServiceCallsInvariance, PTL

\* Until a first clearModuleList is through, no device is deleted under the
\* thread that uses it.
THEOREM FirstClearSafety == Spec => []FirstClearIsSafe
<1>1. IInv => FirstClearIsSafe
  BY DEF IInv, FirstInv, FirstClearIsSafe, ClearIsSafe, UsesDevices
<1> QED
  BY <1>1, ServiceCallsInvariance, PTL

(***************************************************************************)
(* A reload that waits in suspend() for a thread that waits for the lock   *)
(* of the reload never ends.                                               *)
(***************************************************************************)
THEOREM DeadlockIsPermanent == Spec => DeadlockIsForGood
<1>1. IInv /\ [Next]_vars => [DeadlockStep]_vars
  <2> SUFFICES ASSUME IInv, Next, HandshakeDeadlock
               PROVE  UNCHANGED <<main, module, messageQueueLock,
                                  invocationLock, handshake>>
    BY DEF DeadlockStep
  <2> USE WebAssumption DEF IInv, TypeOK, OneServiceCall, ScriptInv,
          HandshakeDeadlock, handshake, mainVars, At, Goes
  <2>1. CASE ModuleStep \/ Raise
    BY <2>1 DEF ModuleStep, Nap, WakeUp, LeaveStopping, WantRaise, EndBody, Raise
  <2>2. ASSUME NEW c \in Caller, StartCall(c) PROVE UNCHANGED <<main, module,
                             messageQueueLock, invocationLock, handshake>>
    BY <2>2 DEF StartCall
  <2>3. ASSUME NEW c \in Caller, Invoke(c) \/ CallStep(c) PROVE FALSE
    BY <2>3 DEF Invoke, CallStep, Suspend, Suspended, Clear, Leave
  <2>4. CASE MainStep \/ Wake
    BY <2>4 DEF MainStep, StartModules, EndBoot, StartReload, StartDispatch,
                EndDispatch, StopWeb, Join, ScriptDone, Wake
  <2>5. CASE Hup \/ Term
    BY <2>5 DEF Hup, Term
  <2> QED
    BY <2>1, <2>2, <2>3, <2>4, <2>5 DEF Next
<1> QED
  BY <1>1, ServiceCallsInvariance, PTL DEF Spec, DeadlockIsForGood
=============================================================================
