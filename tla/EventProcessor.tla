--------------------------- MODULE EventProcessor ---------------------------
(***************************************************************************)
(* The event loop of the daemon: EventProcessor.cpp and the loop of        *)
(* main.cpp.                                                               *)
(*                                                                         *)
(* Module threads raise events with processEvent().  The main thread takes *)
(* them out in timeSlice() and notifies every listener (the SQL event log, *)
(* the web notifications, the script).  SIGALRM raises the timer event and *)
(* the scheduled events from a signal handler, which runs on top of        *)
(* whatever its host thread was doing; SIGHUP asks for the script to be    *)
(* reloaded and SIGTERM for the daemon to stop.                            *)
(*                                                                         *)
(* A thread is its code and, while handler[t] > 0, a SIGALRM handler that  *)
(* suspends the code.  Both take messageQueueLock, which is a plain,       *)
(* non-recursive mutex: a handler whose own thread holds it never returns. *)
(***************************************************************************)
EXTENDS Naturals, Sequences

CONSTANTS Module,          \* threads that call processEvent (the modules)
          Main,            \* the thread that runs main()
          Listener,        \* the registered listeners, Script among them
          Script,          \* the script engine, replaced by a reload
          Event,           \* the events
          NoEvent,         \* no event was notified yet
          Free,            \* nobody holds messageQueueLock
          Signals,         \* the signals sent to the daemon, besides SIGALRM
          QueueBound,      \* bound: no new post while the queue is that long
          MaxAlarmPosts    \* bound: events raised by one SIGALRM

ASSUME ThreadAssumption == Main \notin Module
ASSUME ListenerAssumption == Script \in Listener
ASSUME SignalAssumption == Signals \subseteq {"hup", "term"}
ASSUME EventAssumption == NoEvent \notin Event
ASSUME BoundAssumption == QueueBound \in Nat /\ MaxAlarmPosts \in Nat \ {0}

Thread == Module \cup {Main}

(***************************************************************************)
(* Who can hold the lock: the code of a thread, or the SIGALRM handler     *)
(* that the thread hosts.                                                  *)
(***************************************************************************)
Code(t) == <<t, "code">>
Handler(t) == <<t, "handler">>
Actor == Thread \X {"code", "handler"}
ASSUME FreeAssumption == Free \notin Actor

VARIABLES
    pc,                \* where the code of each thread is
    handler,           \* events a thread's SIGALRM handler has still to raise
    messageQueue,      \* mMessageQueue
    messageQueueLock,  \* the holder of mMessageQueueLock
    tmpMessages,       \* the batch timeSlice() took out and is dispatching
    told,              \* the listeners notified of the head of tmpMessages
    eventListeners,    \* mEventListeners
    needReloadScript,  \* mNeedReloadScript
    quit,              \* the flag of main.cpp
    raising,           \* handlers that set their flag and still have to signal
    last,              \* the event each listener was notified of last
    stale              \* a SIGHUP came after the script file was last read

vars == <<pc, handler, messageQueue, messageQueueLock, tmpMessages, told,
          eventListeners, needReloadScript, quit, raising, last, stale>>

mainVars == <<tmpMessages, told, eventListeners, last, stale>>
flagVars == <<needReloadScript, quit, raising>>

ModulePC == {"idle", "posting"}
ReloadPC == {"unlist", "load", "list"}
MainPC == ReloadPC \cup
          {"top", "enter", "waiting", "woken", "check", "swap", "dispatch",
           "sleep", "exited"}
\* Where the main thread is inside its critical section.  A reload belongs
\* to it too, except the one that main() makes before its loop.
CriticalPC == {"enter", "check", "swap"}

(***************************************************************************)
(* mNeedReloadScript is not initialised by the constructor.  main() calls  *)
(* reloadScript() before its loop, without the lock.                       *)
(***************************************************************************)
Init ==
    /\ pc = [t \in Thread |-> IF t = Main THEN "unlist" ELSE "idle"]
    /\ handler = [t \in Thread |-> 0]
    /\ messageQueue = <<>>
    /\ messageQueueLock = Free
    /\ tmpMessages = <<>>
    /\ told = {}
    /\ eventListeners = Listener \ {Script}
    /\ needReloadScript \in BOOLEAN
    /\ quit = FALSE
    /\ raising = {}
    /\ last = [l \in Listener |-> NoEvent]
    /\ stale = FALSE

-----------------------------------------------------------------------------

\* The code of t runs: no handler sits on top of it.
Runs(t) == handler[t] = 0

MainAt(p) == pc[Main] = p /\ Runs(Main)

MainGoes(p) == pc' = [pc EXCEPT ![Main] = p]

Holds(a) == messageQueueLock = a

\* Mutant: a recursive mutex.
AcquireAgain(a) ==
    /\ messageQueueLock \in {Free} \cup ({a[1]} \X {"code", "handler"})
    /\ messageQueueLock' = a

Acquire(a) ==
    /\ messageQueueLock = Free
    /\ messageQueueLock' = a

\* pthread_cond_signal in state q of the program counters: it wakes the main
\* thread if that is waiting, and is forgotten otherwise.
Signalled(q) ==
    IF q[Main] = "waiting" THEN [q EXCEPT ![Main] = "woken"] ELSE q

-----------------------------------------------------------------------------
(* processEvent, called by a module thread *)

StartPost(m) ==
    /\ Runs(m) /\ pc[m] = "idle"
    /\ Len(messageQueue) < QueueBound
    /\ pc' = [pc EXCEPT ![m] = "posting"]
    /\ UNCHANGED <<handler, messageQueue, messageQueueLock, mainVars, flagVars>>

LockToPost(m) ==
    /\ Runs(m) /\ pc[m] = "posting" /\ Acquire(Code(m))
    /\ UNCHANGED <<pc, handler, messageQueue, mainVars, flagVars>>

\* push, signal, unlock
Push(m, e) ==
    /\ Runs(m) /\ Holds(Code(m))
    /\ messageQueue' = Append(messageQueue, e)
    /\ messageQueueLock' = Free
    /\ pc' = Signalled([pc EXCEPT ![m] = "idle"])
    /\ UNCHANGED <<handler, mainVars, flagVars>>

-----------------------------------------------------------------------------
(* onAlarm: the due events of the schedule, the timer event, sunrise/sunset *)

\* The kernel may run the handler on any thread: no thread blocks SIGALRM.
Alarm(t, n) ==
    /\ Runs(t)
    /\ pc[Main] = "waiting" \/ Len(messageQueue) < QueueBound
    /\ handler' = [handler EXCEPT ![t] = n]
    /\ UNCHANGED <<pc, messageQueue, messageQueueLock, mainVars, flagVars>>

AlarmLock(t) ==
    /\ handler[t] > 0 /\ Acquire(Handler(t))
    /\ UNCHANGED <<pc, handler, messageQueue, mainVars, flagVars>>

\* Mutant: the handler does not unlock.
AlarmPushKeepsLock(t, e) ==
    /\ Holds(Handler(t))
    /\ messageQueue' = Append(messageQueue, e)
    /\ pc' = Signalled(pc)
    /\ handler' = [handler EXCEPT ![t] = @ - 1]
    /\ UNCHANGED <<messageQueueLock, mainVars, flagVars>>

AlarmPush(t, e) ==
    /\ Holds(Handler(t))
    /\ messageQueue' = Append(messageQueue, e)
    /\ messageQueueLock' = Free
    /\ pc' = Signalled(pc)
    /\ handler' = [handler EXCEPT ![t] = @ - 1]
    /\ UNCHANGED <<mainVars, flagVars>>

-----------------------------------------------------------------------------
(* onHUP and termHandler: set a flag, then signal without the lock *)

Hup ==
    /\ "hup" \in Signals \ raising
    /\ needReloadScript' = TRUE
    /\ raising' = raising \cup {"hup"}
    /\ stale' = TRUE
    /\ UNCHANGED <<pc, handler, messageQueue, messageQueueLock, tmpMessages,
                   told, eventListeners, last, quit>>

Term ==
    /\ "term" \in Signals \ raising
    /\ quit' = TRUE
    /\ raising' = raising \cup {"term"}
    /\ UNCHANGED <<pc, handler, messageQueue, messageQueueLock, mainVars,
                   needReloadScript>>

HandlerSignals(s) ==
    /\ s \in raising
    /\ raising' = raising \ {s}
    /\ pc' = Signalled(pc)
    /\ UNCHANGED <<handler, messageQueue, messageQueueLock, mainVars,
                   needReloadScript, quit>>

-----------------------------------------------------------------------------
(* reloadScript *)

Unlist ==
    /\ MainAt("unlist") /\ MainGoes("load")
    /\ eventListeners' = eventListeners \ {Script}
    /\ UNCHANGED <<handler, messageQueue, messageQueueLock, tmpMessages, told,
                   last, stale, flagVars>>

Load ==
    /\ MainAt("load") /\ MainGoes("list")
    /\ stale' = FALSE
    /\ UNCHANGED <<handler, messageQueue, messageQueueLock, tmpMessages, told,
                   eventListeners, last, flagVars>>

\* Mutant: a reload made by timeSlice() does not list the new engine.
ListAtStartOnly ==
    /\ MainAt("list")
    /\ MainGoes(IF Holds(Code(Main)) THEN "swap" ELSE "top")
    /\ eventListeners' = IF Holds(Code(Main)) THEN eventListeners
                         ELSE eventListeners \cup {Script}
    /\ needReloadScript' = FALSE
    /\ UNCHANGED <<handler, messageQueue, messageQueueLock, tmpMessages, told,
                   last, stale, quit, raising>>

\* addEventListener, then the flag is cleared whatever happened meanwhile.
List ==
    /\ MainAt("list")
    /\ MainGoes(IF Holds(Code(Main)) THEN "swap" ELSE "top")
    /\ eventListeners' = eventListeners \cup {Script}
    /\ needReloadScript' = FALSE
    /\ UNCHANGED <<handler, messageQueue, messageQueueLock, tmpMessages, told,
                   last, stale, quit, raising>>

-----------------------------------------------------------------------------
(* timeSlice and the loop of main() *)

LockSlice ==
    /\ MainAt("top") /\ MainGoes("enter") /\ Acquire(Code(Main))
    /\ UNCHANGED <<handler, messageQueue, mainVars, flagVars>>

\* pthread_cond_wait, which no test of the queue or of the flags precedes
CondWait ==
    /\ MainAt("enter") /\ MainGoes("waiting")
    /\ messageQueueLock' = Free
    /\ UNCHANGED <<handler, messageQueue, mainVars, flagVars>>

\* pthread_cond_wait may return without a signal.
SpuriousWakeup ==
    /\ MainAt("waiting") /\ MainGoes("woken")
    /\ UNCHANGED <<handler, messageQueue, messageQueueLock, mainVars, flagVars>>

Relock ==
    /\ MainAt("woken") /\ MainGoes("check") /\ Acquire(Code(Main))
    /\ UNCHANGED <<handler, messageQueue, mainVars, flagVars>>

CheckReload ==
    /\ MainAt("check")
    /\ MainGoes(IF needReloadScript THEN "unlist" ELSE "swap")
    /\ UNCHANGED <<handler, messageQueue, messageQueueLock, mainVars, flagVars>>

\* Mutant: the batch is copied and not taken.
SwapByCopy ==
    /\ MainAt("swap") /\ MainGoes("dispatch")
    /\ tmpMessages' = messageQueue
    /\ messageQueueLock' = Free
    /\ UNCHANGED <<handler, messageQueue, told, eventListeners, last, stale,
                   flagVars>>

Swap ==
    /\ MainAt("swap") /\ MainGoes("dispatch")
    /\ tmpMessages' = messageQueue
    /\ messageQueue' = <<>>
    /\ messageQueueLock' = Free
    /\ UNCHANGED <<handler, told, eventListeners, last, stale, flagVars>>

\* notifyEvent of one listener, in whatever order the vector holds them
Notify(l) ==
    /\ MainAt("dispatch") /\ tmpMessages # <<>>
    /\ l \in eventListeners \ told
    /\ told' = told \cup {l}
    /\ last' = [last EXCEPT ![l] = Head(tmpMessages)]
    /\ UNCHANGED <<pc, handler, messageQueue, messageQueueLock, tmpMessages,
                   eventListeners, stale, flagVars>>

\* Mutant: the rest of the batch is dropped.
PopAll ==
    /\ MainAt("dispatch") /\ tmpMessages # <<>>
    /\ told = eventListeners
    /\ tmpMessages' = <<>>
    /\ told' = {}
    /\ UNCHANGED <<pc, handler, messageQueue, messageQueueLock, eventListeners,
                   last, stale, flagVars>>

Pop ==
    /\ MainAt("dispatch") /\ tmpMessages # <<>>
    /\ told = eventListeners
    /\ tmpMessages' = Tail(tmpMessages)
    /\ told' = {}
    /\ UNCHANGED <<pc, handler, messageQueue, messageQueueLock, eventListeners,
                   last, stale, flagVars>>

\* Mutant: the loop does not test quit.
EndSliceForever ==
    /\ MainAt("dispatch") /\ tmpMessages = <<>>
    /\ MainGoes("sleep")
    /\ UNCHANGED <<handler, messageQueue, messageQueueLock, mainVars, flagVars>>

\* while (timeSlice() && !quit) sleep(1)
EndSlice ==
    /\ MainAt("dispatch") /\ tmpMessages = <<>>
    /\ MainGoes(IF quit THEN "exited" ELSE "sleep")
    /\ UNCHANGED <<handler, messageQueue, messageQueueLock, mainVars, flagVars>>

Sleep ==
    /\ MainAt("sleep") /\ MainGoes("top")
    /\ UNCHANGED <<handler, messageQueue, messageQueueLock, mainVars, flagVars>>

-----------------------------------------------------------------------------

ReloadStep == Unlist \/ Load \/ List

SliceStep ==
    \/ LockSlice \/ CondWait \/ Relock \/ CheckReload \/ Swap
    \/ (\E l \in Listener : Notify(l)) \/ Pop \/ EndSlice \/ Sleep

ModuleStep(m) == StartPost(m) \/ LockToPost(m) \/ \E e \in Event : Push(m, e)

AlarmStep(t) == AlarmLock(t) \/ \E e \in Event : AlarmPush(t, e)

Next ==
    \/ ReloadStep \/ SliceStep \/ SpuriousWakeup
    \/ \E m \in Module : ModuleStep(m)
    \/ \E t \in Thread : AlarmStep(t) \/ \E n \in 1..MaxAlarmPosts : Alarm(t, n)
    \/ Hup \/ Term \/ \E s \in Signals : HandlerSignals(s)

Spec == Init /\ [][Next]_vars

(***************************************************************************)
(* Threads that can run do run, a mutex is eventually given to the thread  *)
(* that keeps asking for it, and the interval timer never stops.  Nothing  *)
(* obliges a module to raise an event, a signal to be sent, or             *)
(* pthread_cond_wait to return spuriously.                                 *)
(***************************************************************************)
Fairness ==
    /\ WF_vars(ReloadStep) /\ WF_vars(SliceStep)
    /\ SF_vars(LockSlice) /\ SF_vars(Relock)
    /\ \A m \in Module :
          /\ SF_vars(LockToPost(m))
          /\ WF_vars(\E e \in Event : Push(m, e))
    /\ \A t \in Thread :
          /\ SF_vars(AlarmLock(t))
          /\ WF_vars(\E e \in Event : AlarmPush(t, e))
    /\ WF_vars(\E t \in Thread, n \in 1..MaxAlarmPosts : Alarm(t, n))
    /\ \A s \in Signals : WF_vars(HandlerSignals(s))

FairSpec == Spec /\ Fairness
-----------------------------------------------------------------------------
(* Properties *)

\* Types of the variables.
TypeOK ==
    /\ pc \in [Thread -> ModulePC \cup MainPC]
    /\ pc[Main] \in MainPC /\ \A m \in Module : pc[m] \in ModulePC
    /\ handler \in [Thread -> Nat]
    /\ messageQueue \in Seq(Event) /\ tmpMessages \in Seq(Event)
    /\ messageQueueLock \in Actor \cup {Free}
    /\ told \in SUBSET Listener /\ eventListeners \in SUBSET Listener
    /\ needReloadScript \in BOOLEAN /\ quit \in BOOLEAN /\ stale \in BOOLEAN
    /\ raising \in SUBSET Signals
    /\ last \in [Listener -> Event \cup {NoEvent}]

\* Events are dispatched only while every listener is registered: the reload
\* that deletes the script engine and creates another one never overlaps a
\* batch, and a batch is never half dispatched when the next one is taken.
DispatchIsComplete ==
    /\ pc[Main] = "dispatch" => eventListeners = Listener
    /\ pc[Main] # "dispatch" => tmpMessages = <<>> /\ told = {}

\* A SIGALRM handler waits for the lock that the code under it holds.
SelfDeadlocked(t) == handler[t] > 0 /\ Holds(Code(t))
HandlerStuck == \E t \in Thread : SelfDeadlocked(t)

\* A handler that interrupts its thread between the lock and the unlock of
\* messageQueueLock is stuck for good: from then on no thread posts an event,
\* no batch leaves the queue and no reload starts.
FrozenStep ==
    \A t \in Thread : SelfDeadlocked(t) =>
        /\ SelfDeadlocked(t)'
        /\ UNCHANGED <<messageQueue, messageQueueLock>>
        /\ pc'[Main] \in ReloadPC => pc[Main] \in ReloadPC
StuckForGood == [][FrozenStep]_vars

\* Each listener sees a FIFO channel without loss or duplication: what is
\* still to come for l is the rest of the batch and then the queue.
Pending(l) ==
    (IF l \in told THEN Tail(tmpMessages) ELSE tmpMessages) \o messageQueue

Bus(l) == INSTANCE EventBus WITH pending <- Pending(l), last <- last[l]

BusInit == \A l \in Listener : Bus(l)!Init
BusStep == \A l \in Listener : [Bus(l)!Next]_(Bus(l)!vars)
EveryListenerHasAFifo == BusInit /\ [][BusStep]_vars

\* While no handler is stuck, every event accepted by processEvent reaches
\* every listener unless the daemon was asked to stop: an event that missed
\* its wakeup is picked up by the next one, at the latest that of the timer.
Raised(e) == \E i \in 1..Len(messageQueue) : messageQueue[i] = e
EventsReachListeners ==
    \/ <>HandlerStuck
    \/ \A e \in Event, l \in Listener :
          Raised(e) ~> (last[l] = e \/ pc[Main] = "exited")

\* While no handler is stuck, SIGTERM ends the loop of main(), even when its
\* signal finds the main thread outside pthread_cond_wait.
TermEndsTheLoop == <>HandlerStuck \/ (quit ~> pc[Main] = "exited")

\* README.md:112, a SIGHUP "will reload the script file": the file is read
\* again after every SIGHUP, unless a handler is stuck or the daemon stops.
SighupReloadsScript ==
    <>HandlerStuck \/ <>quit \/ (stale ~> ~stale)
=============================================================================
