---------------------------- MODULE ServiceCalls ----------------------------
(***************************************************************************)
(* Service calls against the Insteon thread: RESTInterface::processQuery,  *)
(* Module::suspend/resume/stopping, Insteon::run, Insteon::clearModuleList *)
(* and the two locks they meet.                                            *)
(*                                                                         *)
(* The web server's threads and the main thread make REST calls, one at a  *)
(* time under invocationLock.  The main thread makes them from the script: *)
(* while it loads it, before its loop or, after a SIGHUP, inside           *)
(* timeSlice() with the message queue locked; and while it dispatches      *)
(* events, without that lock.  /insteon/clearmodules suspends the Insteon  *)
(* thread and deletes the devices that thread uses.                        *)
(***************************************************************************)
EXTENDS Naturals

CONSTANTS Web,       \* threads of the web server
          Main,      \* the main thread
          Thread,    \* the thread of the Insteon module
          None,      \* no holder
          MaxCalls   \* bound: REST calls of one run of the script

ASSUME WebAssumption == Main \notin Web /\ Thread \notin Web \cup {Main}
                        /\ None \notin Web \cup {Main, Thread}
ASSUME MaxCallsAssumption == MaxCalls \in Nat

Caller == Web \cup {Main}

VARIABLES
    messageQueueLock,  \* holder of EventProcessor::mMessageQueueLock
    invocationLock,    \* holder of RESTInterface::mInvocationLock
    needSuspend,       \* mNeedSuspend of the Insteon module
    suspended,         \* its mSuspended
    stopping,          \* its mStopping
    module,            \* where the Insteon thread is
    call,              \* where each caller's REST call is
    main,              \* where the main thread is, besides its calls
    todo,              \* calls the running script has still to make
    needReload,        \* mNeedReloadScript
    quit,              \* the flag of main.cpp
    cleared            \* some clearModuleList has been through

handshake == <<needSuspend, suspended, stopping>>
mainVars == <<main, todo, needReload, quit>>
vars == <<messageQueueLock, invocationLock, handshake, module, call, mainVars,
          cleared>>

ModulePC == {"new", "test", "run", "work", "raise", "ended"}
CallPC == {"idle", "enter", "suspend", "spin", "clear", "leave"}
ScriptPC == {"boot", "load", "dispatch"}
MainPC == ScriptPC \cup {"start", "wait", "check", "webstop", "join", "down"}

Init ==
    /\ messageQueueLock = None /\ invocationLock = None
    /\ needSuspend = FALSE /\ suspended = TRUE
    /\ stopping \in BOOLEAN   \* not initialised before startModule
    /\ module = "new"
    /\ call = [c \in Caller |-> "idle"]
    /\ main = "start" /\ todo = 0
    /\ needReload = FALSE /\ quit = FALSE
    /\ cleared = FALSE

-----------------------------------------------------------------------------
(* The Insteon thread: while (!stopping()) { use the devices } *)

\* stopping(): flag the suspension and sleep for as long as it is wanted ...
Nap ==
    /\ module = "test" /\ needSuspend
    /\ suspended' = TRUE
    /\ UNCHANGED <<messageQueueLock, invocationLock, needSuspend, stopping,
                   module, call, mainVars, cleared>>

\* ... until a test of mNeedSuspend fails.
WakeUp ==
    /\ module = "test" /\ ~needSuspend
    /\ module' = "run"
    /\ UNCHANGED <<messageQueueLock, invocationLock, handshake, call, mainVars,
                   cleared>>

\* Only then mSuspended is reset, and the loop goes on or ends.
LeaveStopping ==
    /\ module = "run"
    /\ suspended' = FALSE
    /\ module' = IF stopping THEN "ended" ELSE "work"
    /\ UNCHANGED <<messageQueueLock, invocationLock, needSuspend, stopping,
                   call, mainVars, cleared>>

\* A message of the modem makes a device raise an event; the body of the
\* loop goes on with the devices after it.
WantRaise ==
    /\ module = "work" /\ module' = "raise"
    /\ UNCHANGED <<messageQueueLock, invocationLock, handshake, call, mainVars,
                   cleared>>

\* Mutant: events are raised without the lock.
RaiseUnlocked ==
    /\ module = "raise"
    /\ module' = "work"
    /\ UNCHANGED <<messageQueueLock, invocationLock, handshake, call, mainVars,
                   cleared>>

Raise ==
    /\ module = "raise" /\ messageQueueLock = None
    /\ module' = "work"
    /\ UNCHANGED <<messageQueueLock, invocationLock, handshake, call, mainVars,
                   cleared>>

EndBody ==
    /\ module = "work" /\ module' = "test"
    /\ UNCHANGED <<messageQueueLock, invocationLock, handshake, call, mainVars,
                   cleared>>

UsesDevices == module \in {"work", "raise"}

-----------------------------------------------------------------------------
(* A REST call *)

At(c, p) == call[c] = p
Goes(c, p) == call' = [call EXCEPT ![c] = p]

StartCall(c) ==
    /\ At(c, "idle") /\ Goes(c, "enter")
    /\ IF c = Main
       THEN main \in ScriptPC /\ todo > 0 /\ todo' = todo - 1
       ELSE main \notin {"webstop", "join", "down"} /\ UNCHANGED todo
    /\ UNCHANGED <<messageQueueLock, invocationLock, handshake, module, main,
                   needReload, quit, cleared>>

\* Mutant: service calls do not exclude each other.
InvokeUnlocked(c) ==
    /\ At(c, "enter")
    /\ invocationLock' = c
    /\ Goes(c, "suspend") \/ Goes(c, "leave")
    /\ UNCHANGED <<messageQueueLock, handshake, module, mainVars, cleared>>

\* processQuery: either /insteon/clearmodules or a call that only returns
Invoke(c) ==
    /\ At(c, "enter") /\ invocationLock = None
    /\ invocationLock' = c
    /\ Goes(c, "suspend") \/ Goes(c, "leave")
    /\ UNCHANGED <<messageQueueLock, handshake, module, mainVars, cleared>>

Suspend(c) ==
    /\ At(c, "suspend") /\ Goes(c, "spin")
    /\ needSuspend' = TRUE
    /\ UNCHANGED <<messageQueueLock, invocationLock, suspended, stopping,
                   module, mainVars, cleared>>

\* while (!mSuspended);
Suspended(c) ==
    /\ At(c, "spin") /\ suspended
    /\ Goes(c, "clear")
    /\ UNCHANGED <<messageQueueLock, invocationLock, handshake, module,
                   mainVars, cleared>>

\* Mutant: no resume().
ClearWithoutResume(c) ==
    /\ At(c, "clear") /\ Goes(c, "leave")
    /\ cleared' = TRUE
    /\ UNCHANGED <<messageQueueLock, invocationLock, handshake, module,
                   mainVars>>

\* delete and forget every device, then resume()
Clear(c) ==
    /\ At(c, "clear") /\ Goes(c, "leave")
    /\ needSuspend' = FALSE
    /\ cleared' = TRUE
    /\ UNCHANGED <<messageQueueLock, invocationLock, suspended, stopping,
                   module, mainVars>>

\* Mutant: an early return keeps the lock.
LeaveLocked(c) ==
    /\ At(c, "leave") /\ Goes(c, "idle")
    /\ UNCHANGED <<messageQueueLock, invocationLock, handshake, module,
                   mainVars, cleared>>

Leave(c) ==
    /\ At(c, "leave") /\ Goes(c, "idle")
    /\ invocationLock' = None
    /\ UNCHANGED <<messageQueueLock, handshake, module, mainVars, cleared>>

-----------------------------------------------------------------------------
(* The main thread *)

\* Mutant: startModule does not reset mSuspended.
StartModulesSuspended ==
    /\ main = "start" /\ main' = "boot"
    /\ stopping' = FALSE
    /\ module' = "test"
    /\ todo' \in 0..MaxCalls
    /\ UNCHANGED <<messageQueueLock, invocationLock, needSuspend, suspended,
                   call, needReload, quit, cleared>>

\* startModules, startModule and the thread it creates; the script is loaded
\* next, without the lock.
StartModules ==
    /\ main = "start" /\ main' = "boot"
    /\ stopping' = FALSE /\ suspended' = FALSE
    /\ module' = "test"
    /\ todo' \in 0..MaxCalls
    /\ UNCHANGED <<messageQueueLock, invocationLock, needSuspend, call,
                   needReload, quit, cleared>>

ScriptDone(p) == main = p /\ At(Main, "idle") /\ todo = 0

EndBoot ==
    /\ ScriptDone("boot") /\ main' = "wait"
    /\ needReload' = FALSE
    /\ UNCHANGED <<messageQueueLock, invocationLock, handshake, module, call,
                   todo, quit, cleared>>

\* timeSlice() comes back from pthread_cond_wait with the lock; which wakeup
\* it was is the matter of EventProcessor.
Wake ==
    /\ main = "wait" /\ messageQueueLock = None
    /\ messageQueueLock' = Main
    /\ main' = "check"
    /\ UNCHANGED <<invocationLock, handshake, module, call, todo, needReload,
                   quit, cleared>>

\* reloadScript(), with the lock
StartReload ==
    /\ main = "check" /\ needReload /\ main' = "load"
    /\ todo' \in 0..MaxCalls
    /\ UNCHANGED <<messageQueueLock, invocationLock, handshake, module, call,
                   needReload, quit, cleared>>

\* Mutant: a reload returns with the message queue locked.
StartDispatchLocked ==
    /\ \/ main = "check" /\ ~needReload /\ UNCHANGED needReload
       \/ ScriptDone("load") /\ needReload' = FALSE
    /\ main' = "dispatch"
    /\ messageQueueLock' = IF main = "load" THEN Main ELSE None
    /\ todo' \in 0..MaxCalls
    /\ UNCHANGED <<invocationLock, handshake, module, call, quit, cleared>>

\* The batch is taken, the lock released, and the script notified.
StartDispatch ==
    /\ \/ main = "check" /\ ~needReload /\ UNCHANGED needReload
       \/ ScriptDone("load") /\ needReload' = FALSE
    /\ main' = "dispatch"
    /\ messageQueueLock' = None
    /\ todo' \in 0..MaxCalls
    /\ UNCHANGED <<invocationLock, handshake, module, call, quit, cleared>>

EndDispatch ==
    /\ ScriptDone("dispatch")
    /\ main' = IF quit THEN "webstop" ELSE "wait"
    /\ UNCHANGED <<messageQueueLock, invocationLock, handshake, module, call,
                   todo, needReload, quit, cleared>>

\* WebInterface::stop comes first.  WebServer::stop is library code: it is
\* taken to let the requests in progress finish.  Then mStopping is set.
StopWeb ==
    /\ main = "webstop" /\ \A c \in Web : At(c, "idle")
    /\ main' = "join"
    /\ stopping' = TRUE
    /\ UNCHANGED <<messageQueueLock, invocationLock, needSuspend, suspended,
                   module, call, todo, needReload, quit, cleared>>

\* pthread_join in waitCompletion
Join ==
    /\ main = "join" /\ module = "ended"
    /\ main' = "down"
    /\ UNCHANGED <<messageQueueLock, invocationLock, handshake, module, call,
                   todo, needReload, quit, cleared>>

Hup ==
    /\ main # "start" /\ needReload' = TRUE
    /\ UNCHANGED <<messageQueueLock, invocationLock, handshake, module, call,
                   main, todo, quit, cleared>>

Term ==
    /\ quit' = TRUE
    /\ UNCHANGED <<messageQueueLock, invocationLock, handshake, module, call,
                   main, todo, needReload, cleared>>

-----------------------------------------------------------------------------

ModuleStep == Nap \/ WakeUp \/ LeaveStopping \/ WantRaise \/ EndBody

CallStep(c) == Suspend(c) \/ Suspended(c) \/ Clear(c) \/ Leave(c)

MainStep == StartModules \/ EndBoot \/ StartReload \/ StartDispatch
            \/ EndDispatch \/ StopWeb \/ Join

Next ==
    \/ ModuleStep \/ Raise
    \/ \E c \in Caller : StartCall(c) \/ Invoke(c) \/ CallStep(c)
    \/ MainStep \/ Wake \/ Hup \/ Term

Spec == Init /\ [][Next]_vars

(***************************************************************************)
(* Every thread runs, the timer keeps waking the main thread, and a mutex  *)
(* is given in the end to the thread that keeps asking for it.  The web    *)
(* server need not make calls; the script makes the calls it has to make.  *)
(* The body of Insteon::run is finite, so it ends.                         *)
(***************************************************************************)
Fairness ==
    /\ WF_vars(ModuleStep) /\ SF_vars(EndBody) /\ SF_vars(Raise)
    /\ \A c \in Caller : WF_vars(CallStep(c)) /\ SF_vars(Invoke(c))
    /\ WF_vars(StartCall(Main)) /\ WF_vars(MainStep) /\ SF_vars(Wake)

FairSpec == Spec /\ Fairness

-----------------------------------------------------------------------------
(* Properties *)

\* Types, and who holds a lock is where the lock is held.
TypeOK ==
    /\ messageQueueLock \in {None, Main}
    /\ messageQueueLock = Main <=> main \in {"check", "load"}
    /\ invocationLock \in Caller \cup {None}
    /\ needSuspend \in BOOLEAN /\ suspended \in BOOLEAN /\ stopping \in BOOLEAN
    /\ needReload \in BOOLEAN /\ quit \in BOOLEAN /\ cleared \in BOOLEAN
    /\ module \in ModulePC /\ main \in MainPC /\ todo \in 0..MaxCalls
    /\ call \in [Caller -> CallPC]

\* RESTInterface.cpp:61-69: only one service call at a time is made, and the
\* Insteon thread is asked to sleep by that call or by nobody.
OneServiceCall ==
    /\ \A c \in Caller :
         call[c] \in {"suspend", "spin", "clear", "leave"} =>
           /\ invocationLock = c
           /\ call[c] \in {"spin", "clear"} => needSuspend
    /\ needSuspend => \E c \in Caller : call[c] \in {"spin", "clear"}

\* InsteonModule.cpp:689-694: the devices are deleted while the Insteon
\* thread is suspended "so we dont access these devices".
ClearIsSafe ==
    \A c \in Caller : call[c] = "clear" => ~UsesDevices

\* The first clearModuleList of the process is safe: a thread that was never
\* suspended cannot leave mSuspended behind.
FirstClearIsSafe == ~cleared => ClearIsSafe

\* suspend() waits for a thread that waits for the message queue, which the
\* main thread keeps locked while its script makes, or waits to make, a call.
HandshakeDeadlock ==
    /\ module = "raise" /\ messageQueueLock = Main
    /\ \E c \in Caller : call[c] = "spin" /\ ~suspended
                         /\ (c = Main \/ call[Main] = "enter")

\* Unless a reload runs into that deadlock, every service call returns ...
CallsReturn ==
    \/ <>HandshakeDeadlock
    \/ \A c \in Caller : call[c] = "enter" ~> call[c] = "idle"

\* ... SIGTERM stops the Insteon thread and the daemon, even one that is
\* suspended when it comes ...
TermStopsTheModule == <>HandshakeDeadlock \/ (quit ~> main = "down")

\* ... and the deadlock is one: none of the parties ever moves again.
DeadlockStep ==
    HandshakeDeadlock =>
        UNCHANGED <<main, module, messageQueueLock, invocationLock, handshake>>
DeadlockIsForGood == [][DeadlockStep]_vars
=============================================================================
