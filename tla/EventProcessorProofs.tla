------------------------ MODULE EventProcessorProofs ------------------------
(***************************************************************************)
(* What holds of EventProcessor for every set of modules, listeners and    *)
(* events and every bound: its type invariant, the discipline of its lock  *)
(* and of the reload, and that every listener sees a FIFO channel.         *)
(***************************************************************************)
EXTENDS EventProcessor, SequenceTheorems, TLAPS

USE DEF Thread, ModulePC, ReloadPC, MainPC, CriticalPC

(***************************************************************************)
(* Who holds the lock is where the lock is held: main() inside its         *)
(* critical section or a reload, a module about to push, a handler that    *)
(* still has something to raise.                                           *)
(***************************************************************************)
LockInv ==
    /\ pc[Main] \in CriticalPC => Holds(Code(Main))
    /\ Holds(Code(Main)) => pc[Main] \in CriticalPC \cup ReloadPC
    /\ \A m \in Module : Holds(Code(m)) => pc[m] = "posting"
    /\ \A t \in Thread : Holds(Handler(t)) => handler[t] > 0

\* The script engine is missing only during a reload.
ListenersInv ==
    /\ Listener \ {Script} \subseteq eventListeners
    /\ pc[Main] \notin ReloadPC => Script \in eventListeners

\* Only the head of a batch is partly dispatched, and only in "dispatch".
BatchInv ==
    /\ pc[Main] # "dispatch" => tmpMessages = <<>>
    /\ tmpMessages = <<>> => told = {}

IInv == TypeOK /\ LockInv /\ ListenersInv /\ BatchInv

LEMMA ActorFacts ==
    /\ \A t \in Thread : Code(t) \in Actor /\ Handler(t) \in Actor
    /\ \A t, u \in Thread : Code(t) # Handler(u)
    /\ \A t, u \in Thread : Code(t) = Code(u) => t = u
    /\ \A t, u \in Thread : Handler(t) = Handler(u) => t = u
    /\ \A t \in Thread : Code(t) # Free /\ Handler(t) # Free
  BY FreeAssumption DEF Code, Handler, Actor

\* Waking the main thread leaves every other program counter alone.
LEMMA SignalledFacts ==
    ASSUME NEW q \in [Thread -> ModulePC \cup MainPC],
           q[Main] \in MainPC, \A m \in Module : q[m] \in ModulePC
    PROVE  /\ Signalled(q) \in [Thread -> ModulePC \cup MainPC]
           /\ Signalled(q)[Main] \in MainPC
           /\ \A m \in Module : Signalled(q)[m] = q[m]
           /\ \/ Signalled(q)[Main] = q[Main]
              \/ (q[Main] = "waiting" /\ Signalled(q)[Main] = "woken")
  BY ThreadAssumption DEF Signalled

LEMMA InitInv == Init => IInv
<1> SUFFICES ASSUME Init PROVE IInv
  OBVIOUS
<1>1. /\ pc[Main] = "unlist" /\ \A m \in Module : pc[m] = "idle"
      /\ pc \in [Thread -> ModulePC \cup MainPC]
  BY ThreadAssumption DEF Init
<1>2. TypeOK
  <2>1. last \in [Listener -> Event \cup {NoEvent}] /\ handler \in [Thread -> Nat]
    BY DEF Init
  <2>2. messageQueue \in Seq(Event) /\ tmpMessages \in Seq(Event)
    BY DEF Init
  <2> QED
    BY <1>1, <2>1, <2>2 DEF Init, TypeOK
<1>3. LockInv
  BY <1>1, ActorFacts DEF Init, LockInv, Holds
<1> QED
  BY <1>1, <1>2, <1>3 DEF Init, IInv, ListenersInv, BatchInv

\* The invariant is inductive.
LEMMA StepInv == IInv /\ [Next]_vars => IInv'
<1> SUFFICES ASSUME IInv, [Next]_vars PROVE IInv'
  OBVIOUS
<1> USE ThreadAssumption, ActorFacts
    DEF IInv, TypeOK, LockInv, ListenersInv, BatchInv, mainVars, flagVars,
        Holds, Acquire, Runs, MainAt, MainGoes
<1>1. ASSUME NEW m \in Module, StartPost(m) PROVE IInv'
  BY <1>1 DEF StartPost
<1>2. ASSUME NEW m \in Module, LockToPost(m) PROVE IInv'
  BY <1>2 DEF LockToPost
<1>3. ASSUME NEW m \in Module, NEW e \in Event, Push(m, e) PROVE IInv'
  <2> DEFINE q == [pc EXCEPT ![m] = "idle"]
  <2>1. /\ q \in [Thread -> ModulePC \cup MainPC]
        /\ q[Main] = pc[Main]
        /\ \A n \in Module : q[n] \in {pc[n], "idle"} /\ q[n] \in ModulePC
    OBVIOUS
  <2>2. pc' = Signalled(q)
    BY <1>3 DEF Push
  <2> HIDE DEF q
  <2>3. /\ pc' \in [Thread -> ModulePC \cup MainPC]
        /\ pc'[Main] \in MainPC /\ \A n \in Module : pc'[n] \in ModulePC
        /\ pc'[Main] = pc[Main] \/ pc'[Main] = "woken"
        /\ pc'[Main] # pc[Main] => pc[Main] = "waiting"
    BY <2>1, <2>2, SignalledFacts
  <2>4. /\ messageQueue' \in Seq(Event) /\ messageQueueLock' = Free
        /\ UNCHANGED <<handler, mainVars, flagVars>>
    BY <1>3 DEF Push
  <2>5. pc[Main] \notin CriticalPC
    BY <1>3 DEF Push
  <2> QED
    BY <2>3, <2>4, <2>5
<1>4. ASSUME NEW t \in Thread, NEW n \in 1..MaxAlarmPosts, Alarm(t, n)
      PROVE IInv'
  BY <1>4, BoundAssumption DEF Alarm
<1>5. ASSUME NEW t \in Thread, AlarmLock(t) PROVE IInv'
  BY <1>5 DEF AlarmLock
<1>6. ASSUME NEW t \in Thread, NEW e \in Event, AlarmPush(t, e) PROVE IInv'
  <2>1. /\ pc' \in [Thread -> ModulePC \cup MainPC]
        /\ pc'[Main] \in MainPC /\ \A n \in Module : pc'[n] = pc[n]
        /\ pc'[Main] = pc[Main] \/ pc'[Main] = "woken"
        /\ pc'[Main] # pc[Main] => pc[Main] = "waiting"
    BY <1>6, SignalledFacts DEF AlarmPush
  <2>2. /\ messageQueue' \in Seq(Event) /\ messageQueueLock' = Free
        /\ UNCHANGED <<mainVars, flagVars>>
    BY <1>6 DEF AlarmPush
  <2>3. handler' \in [Thread -> Nat]
    BY <1>6 DEF AlarmPush
  <2>4. pc[Main] \notin CriticalPC
    BY <1>6 DEF AlarmPush
  <2> QED
    BY <2>1, <2>2, <2>3, <2>4
<1>7. CASE Hup
  BY <1>7, SignalAssumption DEF Hup
<1>8. CASE Term
  BY <1>8, SignalAssumption DEF Term
<1>9. ASSUME NEW s \in Signals, HandlerSignals(s) PROVE IInv'
  <2>1. /\ pc' \in [Thread -> ModulePC \cup MainPC]
        /\ pc'[Main] \in MainPC /\ \A n \in Module : pc'[n] = pc[n]
        /\ pc'[Main] = pc[Main] \/ pc'[Main] = "woken"
        /\ pc'[Main] # pc[Main] => pc[Main] = "waiting"
    BY <1>9, SignalledFacts DEF HandlerSignals
  <2>2. pc'[Main] \in CriticalPC \cup ReloadPC \cup {"dispatch"} <=>
        pc[Main] \in CriticalPC \cup ReloadPC \cup {"dispatch"}
    BY <2>1
  <2> QED
    BY <1>9, <2>1, <2>2 DEF HandlerSignals
<1>10. CASE Unlist
  BY <1>10 DEF Unlist
<1>11. CASE Load
  BY <1>11 DEF Load
<1>12. CASE List
  BY <1>12, ListenerAssumption DEF List
<1>13. CASE LockSlice
  BY <1>13 DEF LockSlice
<1>14. CASE CondWait
  BY <1>14 DEF CondWait
<1>15. CASE SpuriousWakeup
  BY <1>15 DEF SpuriousWakeup
<1>16. CASE Relock
  BY <1>16 DEF Relock
<1>17. CASE CheckReload
  BY <1>17 DEF CheckReload
<1>18. CASE Swap
  BY <1>18 DEF Swap
<1>19. ASSUME NEW l \in Listener, Notify(l) PROVE IInv'
  BY <1>19, HeadTailProperties DEF Notify
<1>20. CASE Pop
  BY <1>20, HeadTailProperties DEF Pop
<1>21. CASE EndSlice
  BY <1>21 DEF EndSlice
<1>22. CASE Sleep
  BY <1>22 DEF Sleep
<1>23. CASE UNCHANGED vars
  BY <1>23 DEF vars
<1> QED
  BY <1>1, <1>2, <1>3, <1>4, <1>5, <1>6, <1>7, <1>8, <1>9, <1>10, <1>11,
     <1>12, <1>13, <1>14, <1>15, <1>16, <1>17, <1>18, <1>19, <1>20, <1>21,
     <1>22, <1>23
  DEF Next, ReloadStep, SliceStep, ModuleStep, AlarmStep

(***************************************************************************)
(* The invariant holds in every reachable state.                           *)
(***************************************************************************)
THEOREM Invariance == Spec => []IInv
  BY InitInv, StepInv, PTL DEF Spec

\* Every variable keeps its type.
THEOREM TypeCorrect == Spec => []TypeOK
  BY Invariance, PTL DEF IInv

(***************************************************************************)
(* A batch is dispatched to the complete set of listeners and to its end   *)
(* before timeSlice() does anything else.                                  *)
(***************************************************************************)
THEOREM CompleteDispatch == Spec => []DispatchIsComplete
<1>1. IInv => DispatchIsComplete
  BY DEF IInv, TypeOK, ListenersInv, BatchInv, DispatchIsComplete
<1> QED
  BY <1>1, Invariance, PTL

(***************************************************************************)
(* A SIGALRM handler that interrupts the holder of messageQueueLock on its *)
(* own thread never returns, and the queue is frozen from then on.         *)
(***************************************************************************)
THEOREM StuckIsForever == Spec => StuckForGood
<1>1. IInv /\ [Next]_vars => [FrozenStep]_vars
  <2> SUFFICES ASSUME IInv, Next, NEW t \in Thread, SelfDeadlocked(t)
               PROVE  /\ SelfDeadlocked(t)'
                      /\ UNCHANGED <<messageQueue, messageQueueLock>>
                      /\ pc'[Main] \in ReloadPC => pc[Main] \in ReloadPC
    BY DEF FrozenStep
  <2> USE ThreadAssumption, ActorFacts
      DEF IInv, TypeOK, LockInv, mainVars, flagVars, Holds, Acquire, Runs,
          MainAt, MainGoes, SelfDeadlocked
  <2>1. CASE \E m \in Module : ModuleStep(m)
    BY <2>1 DEF ModuleStep, StartPost, LockToPost, Push
  <2>2. CASE \E u \in Thread : AlarmStep(u) \/
                               \E n \in 1..MaxAlarmPosts : Alarm(u, n)
    <3>1. ASSUME NEW u \in Thread, AlarmLock(u) PROVE FALSE
      BY <3>1 DEF AlarmLock
    <3>2. ASSUME NEW u \in Thread, NEW e \in Event, AlarmPush(u, e)
          PROVE FALSE
      BY <3>2 DEF AlarmPush
    <3>3. ASSUME NEW u \in Thread, NEW n \in 1..MaxAlarmPosts, Alarm(u, n)
          PROVE  /\ handler'[t] = handler[t]
                 /\ UNCHANGED <<pc, messageQueue, messageQueueLock>>
      BY <3>3 DEF Alarm
    <3> QED
      BY <2>2, <3>1, <3>2, <3>3 DEF AlarmStep
  <2>3. CASE Hup \/ Term
    BY <2>3 DEF Hup, Term
  <2>4. CASE \E s \in Signals : HandlerSignals(s)
    BY <2>4, SignalledFacts DEF HandlerSignals
  <2>5. CASE ReloadStep
    BY <2>5 DEF ReloadStep, Unlist, Load, List
  <2>6. CASE SliceStep \/ SpuriousWakeup
    BY <2>6 DEF SliceStep, SpuriousWakeup, LockSlice, CondWait, Relock,
                CheckReload, Swap, Notify, Pop, EndSlice, Sleep
  <2> QED
    BY <2>1, <2>2, <2>3, <2>4, <2>5, <2>6 DEF Next
<1> QED
  BY <1>1, Invariance, PTL DEF Spec, StuckForGood

-----------------------------------------------------------------------------
(* Every listener sees a FIFO channel *)

LEMMA AppendToRest ==
    ASSUME NEW s \in Seq(Event), NEW q \in Seq(Event), NEW e \in Event
    PROVE  s \o Append(q, e) = Append(s \o q, e)
  OBVIOUS

LEMMA RestOfBatch ==
    ASSUME NEW s \in Seq(Event), NEW q \in Seq(Event), s # <<>>
    PROVE  /\ s \o q # <<>>
           /\ Head(s \o q) = Head(s)
           /\ Tail(s \o q) = Tail(s) \o q
           /\ Tail(s) \in Seq(Event) /\ Head(s) \in Event
  OBVIOUS

LEMMA EmptyBatch ==
    ASSUME NEW q \in Seq(Event)
    PROVE  <<>> \o q = q /\ q \o <<>> = q
  OBVIOUS

\* A step that leaves the batch, the queue and what was told alone is a
\* stuttering step of every channel.
LEMMA QuietStep ==
    ASSUME NEW l \in Listener,
           UNCHANGED <<messageQueue, tmpMessages, told, last>>
    PROVE  UNCHANGED Bus(l)!vars
  BY DEF Bus!vars, Pending

\* An event that is queued is posted to every channel.
LEMMA QueuedStep ==
    ASSUME IInv, NEW l \in Listener, NEW e \in Event,
           messageQueue' = Append(messageQueue, e),
           UNCHANGED <<tmpMessages, told, last>>
    PROVE  Bus(l)!Post(e)
<1>1. CASE l \in told
  <2>1. Tail(tmpMessages) \in Seq(Event)
    BY <1>1, RestOfBatch DEF IInv, TypeOK, BatchInv
  <2>2. Tail(tmpMessages) \o Append(messageQueue, e)
          = Append(Tail(tmpMessages) \o messageQueue, e)
    BY <2>1, AppendToRest DEF IInv, TypeOK
  <2> QED
    BY <1>1, <2>2 DEF Bus!Post, Pending
<1>2. CASE l \notin told
  <2>1. tmpMessages \o Append(messageQueue, e)
          = Append(tmpMessages \o messageQueue, e)
    BY AppendToRest DEF IInv, TypeOK
  <2> QED
    BY <1>2, <2>1 DEF Bus!Post, Pending
<1> QED
  BY <1>1, <1>2

LEMMA RefinementStep == IInv /\ [Next]_vars => BusStep
<1> SUFFICES ASSUME IInv, [Next]_vars, NEW l \in Listener
             PROVE  Bus(l)!Next \/ UNCHANGED Bus(l)!vars
  BY DEF BusStep
<1> USE DEF mainVars, flagVars
<1>1. ASSUME NEW m \in Module, NEW e \in Event, Push(m, e)
      PROVE  Bus(l)!Next
  BY <1>1, QueuedStep DEF Push, Bus!Next
<1>2. ASSUME NEW t \in Thread, NEW e \in Event, AlarmPush(t, e)
      PROVE  Bus(l)!Next
  BY <1>2, QueuedStep DEF AlarmPush, Bus!Next
<1>3. CASE Swap
  \* The queue becomes the batch: the channel does not change.
  <2>1. /\ tmpMessages = <<>> /\ told = {} /\ told' = {}
        /\ tmpMessages' = messageQueue /\ messageQueue' = <<>>
        /\ last' = last /\ messageQueue \in Seq(Event)
    BY <1>3 DEF Swap, IInv, TypeOK, BatchInv, MainAt
  <2>2. Pending(l) = messageQueue /\ Pending(l)' = messageQueue
    BY <2>1, EmptyBatch DEF Pending
  <2> QED
    BY <2>1, <2>2 DEF Bus!vars
<1>4. ASSUME NEW k \in Listener, Notify(k)
      PROVE  Bus(l)!Next \/ UNCHANGED Bus(l)!vars
  <2>1. /\ tmpMessages # <<>> /\ k \notin told /\ told' = told \cup {k}
        /\ last' = [last EXCEPT ![k] = Head(tmpMessages)]
        /\ UNCHANGED <<messageQueue, tmpMessages>>
    BY <1>4 DEF Notify
  <2>2. CASE k = l
    <3>1. /\ Pending(l) = tmpMessages \o messageQueue
          /\ Pending(l)' = Tail(tmpMessages) \o messageQueue
      BY <2>1, <2>2 DEF Pending
    <3>2. last'[l] = Head(tmpMessages)
      BY <2>1, <2>2 DEF IInv, TypeOK
    <3> QED
      BY <2>1, <3>1, <3>2, RestOfBatch
      DEF IInv, TypeOK, Bus!Next, Bus!Deliver
  <2>3. CASE k # l
    <3>1. Pending(l)' = Pending(l) /\ last'[l] = last[l]
      BY <2>1, <2>3 DEF Pending, IInv, TypeOK
    <3> QED
      BY <3>1 DEF Bus!vars
  <2> QED
    BY <2>2, <2>3
<1>5. CASE Pop
  \* Every listener was told of the head: dropping it is a stutter.
  <2>1. /\ l \in told /\ told' = {} /\ tmpMessages' = Tail(tmpMessages)
        /\ UNCHANGED <<messageQueue, last>>
    BY <1>5, ListenerAssumption
    DEF Pop, IInv, ListenersInv, MainAt, ReloadPC
  <2>2. Pending(l)' = Pending(l)
    BY <2>1 DEF Pending
  <2> QED
    BY <2>1, <2>2 DEF Bus!vars
<1>6. ASSUME NEW m \in Module, StartPost(m) \/ LockToPost(m)
      PROVE  UNCHANGED Bus(l)!vars
  BY <1>6, QuietStep DEF StartPost, LockToPost
<1>7. ASSUME NEW t \in Thread, NEW n \in 1..MaxAlarmPosts,
             AlarmLock(t) \/ Alarm(t, n)
      PROVE  UNCHANGED Bus(l)!vars
  BY <1>7, QuietStep DEF AlarmLock, Alarm
<1>8. CASE Hup \/ Term \/ \E s \in Signals : HandlerSignals(s)
  BY <1>8, QuietStep DEF Hup, Term, HandlerSignals
<1>9. CASE ReloadStep \/ SpuriousWakeup
  BY <1>9, QuietStep DEF ReloadStep, Unlist, Load, List, SpuriousWakeup
<1>10. CASE LockSlice \/ CondWait \/ Relock \/ CheckReload \/ EndSlice \/ Sleep
  BY <1>10, QuietStep
  DEF LockSlice, CondWait, Relock, CheckReload, EndSlice, Sleep
<1>11. CASE UNCHANGED vars
  BY <1>11, QuietStep DEF vars
<1> QED
  BY <1>1, <1>2, <1>3, <1>4, <1>5, <1>6, <1>7, <1>8, <1>9, <1>10, <1>11,
     BoundAssumption
  DEF Next, SliceStep, ModuleStep, AlarmStep

(***************************************************************************)
(* The event loop implements one EventBus per listener: whatever threads   *)
(* raise events and wherever the handlers interrupt them, no event is      *)
(* lost, repeated or overtaken on its way to a listener.                   *)
(***************************************************************************)
THEOREM Refinement == Spec => EveryListenerHasAFifo
<1>1. Init => BusInit
  BY DEF Init, BusInit, Bus!Init, Pending
<1>2. IInv /\ [Next]_vars => [BusStep]_vars
  BY RefinementStep
<1> QED
  BY <1>1, <1>2, Invariance, PTL DEF Spec, EveryListenerHasAFifo
=============================================================================
