# A verification of DHAS

DHAS is a home automation daemon: one process that talks to Insteon devices,
SIP phones, Wifi nodes, an alarm and weather stations, offers all of them as
REST calls, and runs a user's script that reacts to their events. This directory
holds TLA+ models of its core, the TLC runs that check them and TLAPS proofs
about them. Paths below are relative to the repository; `src/` is its source
directory. In `PROJECT.json` they carry one more `src/`, the checkout.

Contents: 1 the system, 2 the models, 3 the runs, 4 the proofs, 5 where the code
and its documents disagree, 6 what is left out, 7 the plan.

To check: `tlc -config Schedule.cfg MCSchedule` for a run of section 3 (its
module and its cfg), `tlapm ScheduleProofs.tla` for the proofs of a
module.


## 1. The system

| Component | State | Operations | Talks to |
|---|---|---|---|
| Event processor (`EventProcessor.cpp`, `main.cpp`) | two message buffers, one lock and condition, the listeners, `mNeedReloadScript`, `quit` | `processEvent` (any thread), `timeSlice` and `reloadScript` (main thread), `onAlarm`, `onHUP`, `termHandler` (signal handlers) | listeners: event log, web notifications, script |
| Schedule (`Schedule.cpp`, `ScheduledEvent.cpp`) | a map of events, the same events in a Berkeley DB, `mListLock` | `addEvent`, `removeEvent`, `getDueEvents`; loaded at start | REST calls, the SIGALRM handler |
| Service calls (`RESTInterface.cpp`, `WebInterface.cpp`, `Module.cpp`, `ModuleProvider.cpp`) | `mInvocationLock`, the callbacks; per module `mStopping`, `mNeedSuspend`, `mSuspended` | `processQuery`; `suspend`, `resume`, `stopping`, start and stop of the modules | called by web threads, the script and itself; calls the modules |
| Insteon (`modules/Insteon`, `libs/insteon`, `IPSerialPort.cpp`) | the command queue, `mWaitingForResponse`, the socket, per device its status, its last command and its level | `run`: one command, its echo, one message per round; REST calls that queue commands | the modem, event processor |
| Phone (`modules/Phone`, `libs/sound/RTPSession.cpp`, `ISoundDevice.cpp`) | SIP users, calls, per call a chain of actions and a player with its queue of sounds, the commands for the SIP thread | call, play, release; the callbacks of the dialog usage manager; the player thread | SIP stack, sound, event processor |
| Wifi nodes (`modules/DHASWifiNodesModule`, `ThreadSafeRestEngine.cpp`) | nodes by address with their heartbeats, a send queue of 500, per sprinkler driver a sequence of 100 items and the time of the next | discovery, connection, heartbeat, removal, the send queue, `run()` of each driver; REST calls per node | multicast and TCP, event processor, the callbacks |
| Event log (`EventLogger.cpp`, `Mysql.cpp`) | a ring of documents, a condition | `notifyEvent`, the thread that inserts | MySQL |
| Web notifications (`WebNotificationEngine.cpp`) | the set of subscribed sockets | subscribe, unsubscribe, `notifyEvent` | browsers |
| Weather, Alarm, Sound (`modules/...`) | a list of stations; a UDP socket; queues of sounds | polls that raise events, playing | HTTP, UDP, ALSA, RTP |
| Script engines (`JSEngine.cpp`, `LUAEngine.cpp`) | the interpreter | load a file, call `onEvent` | REST calls |

**Threads.** The main thread loads the script, then alternates between waiting
for events and giving them to the listeners. Each module has a thread that runs
`run()`; the web server has its own. The SIP stack has another. On top of that,
SIGALRM runs every minute as a signal handler *on whichever thread the kernel
picks*: it takes due events from the schedule, raises the timer event and the
sun's events, and takes two ordinary mutexes to do so.

**What is hard here.** Three locks (`mMessageQueueLock`, `mListLock`,
`mInvocationLock`) and one handshake without a lock (`suspend`) are met in
different orders by the main thread, web threads, a module's thread and a signal
handler. The condition variable is waited for without a predicate. A reload
replaces a listener in the middle of the loop. The schedule lives twice, in
memory and on disk, and the daemon can die between the two. The modem answers
every command twice, echo and ACK, over a line that loses and repeats, while
people push the same buttons by hand. A REST thread and a module's thread share the
driver of an irrigation controller, and a pointer to a phone call travels through
a queue while the call may end. `PROJECT.json` lists each of these at its
line, under `hazards`.

**What correctness means**, per component:

- *event processor*: each listener gets every event once and in order; a reload
  never overlaps a batch; every event and SIGTERM get through although wakeups
  can be missed; a SIGHUP is honoured;
- *schedule*: memory and database agree; nothing fires early, twice or never;
  a crash loses nothing;
- *service calls*: one at a time; a suspended thread does not touch what the call
  deletes; every call returns; shutdown completes;
- *Insteon*: one device at a time owes an ACK; the level that an object holds and
  the events that a script saw are those of the device; the queue drains;
- *Phone*: a call's actions run in order and once, an action that is over is
  deleted once and nothing reaches it afterwards, no command meets a deleted
  call, every call ends, one with a release after its sounds;
- *Wifi nodes*: a node that is gone is removed, one that is there is not, a script
  hears of both in turn, no callback outlives its driver; a sequence waters what
  was asked for last, ends with closed valves, and nothing opens after a stop;
- *event log and notifications*: every event is inserted or sent, a stop ends.


## 2. The models

| Module | Models | Composed with |
|---|---|---|
| `EventBus` | the promise to one listener: a FIFO without loss, repetition or overtaking | abstract specification of `EventProcessor` |
| `EventProcessor` | event loop, signal handlers, reload | implements `EventBus`, once per listener, by `INSTANCE EventBus WITH pending <- Pending(l), last <- last[l]` |
| `Agenda` | the promise to who schedules events: an agenda on disk whose operations are single steps | abstract specification of `Schedule` |
| `Schedule` | scheduled events and their database | implements `Agenda`, by `INSTANCE Agenda WITH stored <- db, picked <- alarm.due, ...`; raises events into a queue that is `EventBus`'s `pending` |
| `ServiceCalls` | REST calls, reload and shutdown against the Insteon thread | shares with `EventProcessor` the message queue lock and the phases of the main loop |
| `Insteon` | the Insteon thread, its modem and its devices | `clearmodules` of `ServiceCalls` is its `ClearModules` |
| `Sprinklers` | the driver of an irrigation controller shared by a web thread and the module's thread, and the send queue | extended by `WifiNodes` |
| `WifiNodes` | the module's loop, the nodes' connections, heartbeats and removal, the REST callbacks | composes one `Sprinklers` driver per node |
| `Phone` | calls, their chains of actions, the commands to the SIP thread, the player threads | the player of `ISoundDevice` is part of it |
| `...Proofs` | theorems about the module they are named for (`EventProcessor`, `Schedule`, `ServiceCalls`, `WifiNodes` with `Sprinklers`, `Phone`, `Insteon`) | extend it |
| `WifiPeerProofs`, `PhoneDeletedProofs` | what the daemon knows of a controller it is connected to; which commands meet a deleted call | extend `WifiNodesProofs`, `PhoneProofs` |
| `MC...` | the sets and values of the instances that TLC checks | extend the module they are named for |

Names of variables are those of the code without the `m`. An operator preceded by
a comment that begins with "Mutant:" is a plausible mistake in the definition
that follows it; it belongs to no specification. `PROJECT.json` says which
property notices which of them.

### EventProcessor

A thread is its code (`pc`) and possibly a SIGALRM handler on top of it
(`handler[t]`, the number of events it has still to raise); while the handler is
there the code does not run (`Runs`). `Actor` tells the two apart as holders of
`messageQueueLock`, because that is the point: the mutex is not recursive, so a
handler whose own thread holds it waits for itself. `processEvent` is `StartPost`,
`LockToPost` and `Push` for a module and `AlarmLock`, `AlarmPush` for the handler.
`timeSlice` is `LockSlice`, `CondWait`, (`SpuriousWakeup`,) `Relock`,
`CheckReload`, `Swap`, then `Notify` per listener and `Pop` per event, then
`EndSlice`, which tests `quit`, and `Sleep`. `reloadScript` is `Unlist`, `Load`,
`List`, run once before the loop without the lock and later inside `timeSlice`
with it; `mNeedReloadScript` is not initialised by the constructor, so `Init`
takes both values. `onHUP` and `termHandler` set a flag and then signal without
the lock, two steps. `pthread_cond_signal` wakes the main thread if it waits and
does nothing otherwise (`Signalled`).

`stale` is history: a SIGHUP came after the file was last read. `last[l]` is the
event that listener `l` was given last.

The handler's handling of the schedule itself is in `Schedule`, which takes the
queue for granted. A second SIGALRM on top of a first one (a handler that needs
more than a minute) is left out.

### Schedule

`/events/add` is `StartAdd`, `LockList`, `WriteMemory`, `WriteDB`, `Return`;
`/events/remove` is the same with `FindNothing` as its early return. A caller holds
`mInvocationLock` from start to return. The handler is `Alarm(h)` on a host
thread, `GetDueEvents` (a copy made under `mListLock`), then for each event
`Raise`, `RelockList`, `EraseFired` (or `FindNothingFired`), `DeleteFired`.
`Crash` may come between any two steps: it clears the memory, the locks and the
queue and keeps the database; `Restart` loads it. Lists are sets of events of
distinct ids, and `Put` overwrites an id as `std::map` and the database do.
An id is the address of the object plus the time, cut to an `int`, so ids may collide
(`src/ScheduledEvent.cpp:13`): with `FreshIds = FALSE`
the model lets them.

`Agenda` is what this amounts to: events are stored, dismissed, picked when due,
raised in the order of their ids and taken out, each in one step on what is
stored. Map, locks, calls and handler are gone; `stored` is `db`, so that a call
takes place where it writes there (`WriteDB`), the picking where the copy is made
(`GetDueEvents`), the taking out at `DeleteFired` or `FindNothingFired`, and every
other step of a call or of the handler is a stutter. It also says what is not
promised: an event dismissed after it was picked is raised all the same, and
taking one out takes whatever has its id by then.

`fired`, `dispatched`, `accepted` and `dismissed` are history: what was raised,
what the script saw, what `/events/add` stored, what was removed or overwritten.

### ServiceCalls

A call is `StartCall`, `Invoke` (which takes `mInvocationLock`), then either
`Leave` or `Suspend`, `Suspended`, `Clear`, `Leave` for `/insteon/clearmodules`,
the one call that suspends a thread. `stopping()`, the condition of
`Insteon::run`'s loop, is `Nap` (sets `mSuspended` in each turn of its
`while`), `WakeUp` (the test of `mNeedSuspend` fails) and `LeaveStopping` (only
then `mSuspended` is reset). The body of the loop uses the devices and may
raise an event, for which it needs `messageQueueLock`. The main thread loads the
script without that lock at start, with it after a SIGHUP, and dispatches events
without it; in each of the three the script may make calls. Shutdown is `StopWeb`,
which stops the web server and sets `mStopping`, and `Join`.

### Insteon

The Insteon thread is `pc`: in `scan` it times devices out (`Expire`), reconnects
and sends the head of the queue if no device is waiting and
`mWaitingForResponse` is not set (`Write`); in `echo` it waits for the modem's
echo (`EchoRead`, `NakRead`, `Collide` for anything else, `EchoTimeout`); in
`read` it looks for a message and in `message` it handles one. A message is a
record of what the code compares: its kind, its device, `cmd1`, `cmd2`, and
`again` for a copy, which the code cannot see and the model uses only in
`excused`. The class of a device decides what an event means to it
(`SwitchEvent`, `IOLincEvent`, `EZFloraEvent`). `IgnoresAck` is the filter of
`InsteonDevice::onInsteonMessage`; `mLastDirectMessageSent` of a new object is
uninitialised, so the filter compares against any byte (`LastSent`).

The modem, the powerline and the people are the environment. A command is
executed and acknowledged, or one of `Faults` happens, at most `MaxFaults` times:
it is lost, executed without an ACK that arrives, acknowledged twice, refused by
the device or by the modem, answered after the two seconds of `isIdle`, or the
socket closes. They are modelled by what the code expects from them.

`excused` names what the properties stop promising after a fault no program could
have made up for. It is set by:

- a lost or repeated answer that leaves no trace: an ACK that never arrives
  (`noack`), a lost or refused *query* (the level is then unknown), an answer
  that comes after the two seconds (`late`);
- `Collide`: a report read in place of the echo, which is thrown away;
- a closed socket, and reports that come while it is closed;
- a repeated ACK that arrives when the same command, or a query, is
  outstanding, or when nothing was sent yet: the code cannot tell it from the
  answer it waits for (`MessageExcuse`). Any other repeated ACK the filter
  must drop, and that is checked;
- a valve's report ignored because a program was the last thing sent
  (`EZFloraDevice::processEvent`);
- an object created anew while its predecessor's command is unanswered.

Losing a command, and a NAK to one from its device or from the modem, do *not*
excuse a wrong level: neither side changed.

### Sprinklers and WifiNodes

`Sprinklers` is the part that two threads share without a lock; every access to
`mpSequence`, `mNextSequenceTime` or the send queue is a step. A web thread in a
callback is `call`: `EnterCallback`, then `ClearTime` and one `DrainItem` per item
until `Drained` (`clearSequence`), for a sequence `PutItem`, `TestTime`, `SetTime`
per item (`addInSequence`), for a valve `SendCommand`. The module's thread in
`SprinklersNode::run` is `run`: `RunIsDue`, `GetItem`, then either `SetNextTime` and
`OpenValve` or `SendAllOff` and `SequenceComplete`. `mNextSequenceTime` is a time in
the code and the time that is left in the model: 0 is due, `TIMETMAX` never.
`SendToNode` drops a command that the full queue refuses, as the code does.

`WifiNodes` has the loop of the module in the order of the code: `EpollWait`,
its events (`ReadAdvert` and the discovery `Connect`, `ConnectFails`, `InsertNode`,
`RegisterNode`; `ReadNode`, `ReadEnd`), the send queue (`SendOne`, `SendsDone`), the
heartbeats (`CheckHeartBeat`, `HeartBeatsDone`) and `run()` of each driver
(`RunNode`, `InsideRun`, `TurnDone`). Both ways to remove a node go through
`UnRegisterCallBacks`, `DeleteDriver` and `EraseNode`, three steps with web threads
between them. The sockets are edge-triggered: `edge` is what epoll has still to
report, `todo` what it has reported. A web call is looked up in the REST engine
and entered (`CallNode`), lists the nodes (`ListNodes`) or sends to an address
(`SendRaw`).

Undefined behaviour is a choice: after `checkHeartBeats` has erased the element it
stands on, the iteration goes on with any of the rest, or faults (`crashed`); a
call whose driver was deleted sends, does nothing that is seen, or faults
(`DeletedCallback`).

The controllers are the environment: they announce themselves, beat once a period,
report their valve, fall silent or close the connection. `inbox` is what `recv`
finds: nothing, one message, or several in one piece, which the code takes for
none. A budget decides which of these, and which calls, an instance has. In a
`steady` environment a period is a second, `connect()` is quick and heartbeats are read in
every one; the others count the periods of the heartbeat.

History variables carry what the properties excuse: `torn` (a call met `run()`
past its test), `refused` (the full queue dropped a command), `swallowed` (several
messages came in one piece), `delayed` (`connect()` made the node look silent).
`connect()` blocks the one thread, and its time counts against two kinds of nodes:
those of the map, whose heartbeats wait, and the node that is being connected to,
for `discoverNode` takes its `lastHeartBeat` before (`StartConnect`; `TimePasses`
ages `current` with the nodes of the map). The latter is `delayed` from its second
period in `connect()` on. Both stop being so when a heartbeat is read. The driver,
made before `connect()`, is a variable of the model from its success on; that of a
node which does not answer is leaked.

### Phone

All commands go through one fifo to the SIP thread, as do the messages of the
other party and of the timers; the SIP thread takes one at a time. A web thread
makes a call or looks one up (`MakeCall`, `PlayOnCall`), then posts its actions one
by one with a plain pointer (`PostAdd`), or a release with a handle
(`ReleaseCall`). The chain is `AddAction`, `RunNothing`, `RunPlay` (and `PutSound`
per sound), `RunEmptyPlay`, `RunRelease`, `NotifySoundsEmpty`, `DeleteAction`;
whatever ends an action cleans it, posts its deletion and then a run command for the
next one (`Terminated`). The call is `OnRinging`, `OnAnswer`, `OnInvite`,
`OnConnected`, `OnDigit`, `OnBye`, `EndCommand`, `RonaCommand`; `Terminate` stops the
player and waits for it (`OnCallTerminated`), then the stack destroys the session
and what holds it, one message to itself after the other (`PostDestroy`,
`DestroyHop`), and in the end the call (`DestroyCall`).

The player thread is `TestStopping`, `TakeSound` or `QueueRunsOut`, `SetIdle`:
between the test of the queue and the wait a notification is lost, as in
`ISoundDevice`. `QueueRunsOut` posts the command that ends the current play, once
per run of sounds.

The stack (resiprocate) and the other party are external and modelled by what
the callbacks expect of them. `Hops` is the number of messages from the end of a
session to `~Call`, one each for the session, its dialog, and the set of dialogs
that owns the call. It bounds what can still be in the fifo when the call is deleted.
A play that ends posts the run command of the next action. If that is a list without
sounds it ends at once and posts the next run command, one place further back in the
fifo, just as each of the messages that destroy the call posts the next. So a run
command reaches a deleted call if enough such plays (`Hops` - 1) were in its chain:
with two messages one is enough, with three it takes two. `DeadUseOnlyLate` counts
them and says that nothing else does, but a web thread that comes too late.

History: `invoked`, `empties` (how many of the invoked plays had no sounds),
`late` (a web thread posted to a call that was over),
`missed` (a player was notified just before it waited), `cleared` (a digit emptied
the queue), `deadUse` (a deleted call was used).


## 3. The runs

| Run | Module, cfg | Instance | Shows |
|---|---|---|---|
| `event_loop` | `MCEventProcessor`, `EventProcessor.cfg` | a module thread and the main thread, listeners logger and script, 2 events, HUP and TERM | `DispatchIsComplete`: no batch overlaps a reload. `EveryListenerHasAFifo`: refinement of `EventBus`. `StuckForGood`: a handler that interrupts the holder of the mutex freezes the queue for ever |
| `event_loop_liveness` | same, `EventProcessorLiveness.cfg` | one listener, TERM | `EventsReachListeners`, `TermEndsTheLoop`: missed wakeups are made up for by the next one |
| `event_loop_sighup` | same, `EventProcessorSighup.cfg` | one listener, HUP | violated: `SighupReloadsScript` (section 5) |
| `schedule` | `MCSchedule`, `Schedule.cfg` | web thread, script, module thread; 2 adds, 1 removal, 1 crash with its restart, colliding ids | `DatabaseIsMemory`, `NeverEarly`, `AtMostOncePerLife`, `AcceptedIsKept`; `OperationsAreAtomic`: refinement of `Agenda`; `StoredIsDispatched`: what the database holds is raised in the end, across the crash |
| `schedule_crash` | same, `ScheduleCrash.cfg` | 1 crash, distinct ids | violated: `KeptUntilDispatched` |
| `service_calls` | `MCServiceCalls`, `ServiceCalls.cfg` | 2 web threads, the script with up to 2 calls per run | `OneServiceCall`, `FirstClearIsSafe`, `CallsReturn`, `TermStopsTheModule`, `DeadlockIsForGood` |
| `service_calls_clear` | same, `ServiceCallsClear.cfg` | 1 web thread and the script | violated: `ClearIsSafe` |
| `insteon` | `MCInsteon`, `Insteon.cfg` | a switch and a valve controller, 1 request, 1 change by hand, 1 fault of any kind, 1 link record | `OneOutstanding`, `LevelTracksDevice`, `ScriptIsTold` |
| `insteon_door` | same, `InsteonDoor.cfg` | a garage door, 2 requests, the rest as above | `CommandsDrain`, for a device of another class |
| `insteon_ack` | same, `InsteonAck.cfg` | a switch, 2 requests, no change by hand | violated: `AckBeforeNextCommand` |
| `wifi_nodes` | `MCWifiNodes`, `WifiNodes.cfg` | three budgets: one controller that stays and two calls of any kind; one that is lost, with a stop, a list or a raw command; two that come and go | `DriversOutliveCallbacks`, `EventsAlternate`, `BeatingNodeStays`, `LostNodeIsRemoved` of the nodes; `StopIsFinal`, `NoStaleItem`, `SequenceEnds`, `ItemsArePlayed`, `StatusIsKnown` of the drivers |
| `phone` | `MCPhone`, `Phone.cfg` | five budgets: an outgoing call with a digit and a release, or played to again; an incoming one that is played to once or twice; two incoming ones | `InvokedInOrder`, `DeadUseOnlyLate`, `CleanedActionsAreGone`, `EveryCallEnds`, `ReleasedAfterSounds` |

Each run also checks the type invariant of its module where it is a safety run.

**Bounds, and why they are enough.** *EventProcessor*: a module thread next to the
main thread gives every pair of code and handler on the lock; modules only differ
by name, and the proofs of section 4 are for any number. `QueueBound = 1` lets one
event wait while a batch is dispatched; posters that passed the test before and
handlers still exceed it, so batches of two and three occur. Two listeners let one
be told before the other. `MaxAlarmPosts = 1` is one event per alarm; a handler
posts each event independently. *Schedule*: two events are what a collision of
ids, an overwriting and a removal of the wrong one take; one crash per run falls
between any two steps; a day has `DayLength` = 2 minutes, so "today" and
"tomorrow" both occur within the three of the run; `MCSchedule` lets at most three
calls and crashes happen in all. `now` stops at `MaxTime`, the timer
does not. *ServiceCalls*: nothing is counted but the calls of one run of the
script; HUP, TERM and the rounds of the module are unbounded. *Insteon*: one fault
at any point is the unit of what a line does between two rests; with two
devices each pair of commands, answers, reports and records interleaves.
*WifiNodes*: two calls are what a stop or a sequence on top of a running one takes; a
ring of 2 is filled by the sequence of three items, a send queue of 1 by any
command on top of another, so both refusals occur; items of 0 and 1 seconds are
due at once and later; two nodes are a node and another one that waits while
`connect()` keeps the thread, for any number of periods; `Silence` is the 3 periods of
the code. *Phone*:
two calls meet at most in the refusal of a second incoming call; three actions
are two plans, or one and its release; a sound, a list without sounds (alone or
with a release behind it) and a file that cannot be opened are the three ways a play
can end or not. Two lists without sounds are what it takes to reach a deleted call
with `Hops` = 3, and the budget with two plays has them: with one more in the bound
(`>= Hops`) TLC finds `DeadUseOnlyLate` violated.

**Deadlock** is checked in `wifi_nodes`, whose loop never stops (a daemon that has
faulted stays so by an action of its own). It is off in the other cfgs: the daemon
ends on SIGTERM, the bounds stop the environment, and the freezes the models can
reach are what `StuckForGood`, `DeadlockIsForGood` and the liveness properties are
about.

**Fairness.** Threads that can run do run (`WF` of their steps). A mutex goes in the
end to a thread that keeps asking for it (`SF` of the acquiring steps):
`pthread_mutex_lock` does not promise an order, but every holder in this code
releases within a bounded number of steps and sleeps or waits between two
acquisitions, so a waiter is not passed over for ever. The interval timer of
`main()` is periodic and never disarmed (`WF` of `Alarm`). Time passes and the
daemon is restarted (`Schedule`). An Insteon device that waits times out: `isIdle`
is evaluated in each round and after two seconds it cannot fail, so `Expire` is
strongly fair; a command the modem accepted is executed or lost. In `WifiNodes` the
module's thread and a call that was entered go on, time passes and a controller that
is up beats; the properties about its loss are about one that no longer does. In
`Phone` the SIP thread takes what is in its fifo, a player and a web thread that has
begun a plan go on, the stack goes on destroying what is over, the no-answer timer
fires, and the other party answers a cancellation, as the protocol obliges it to
(its own transaction timer does if it does not). Nothing obliges a module to raise
an event, a client to call, a signal to be sent, the wait to return spuriously, a
person to push a button or a fault or crash to happen.

**Escape clauses in liveness properties.** `HandlerStuck` (both modules) is the
deadlock of a signal handler with the code under it; the code allows it at any
alarm, so liveness is stated for the behaviours without it, and
`StuckForGood` shows that it is what it is called. `HandshakeDeadlock` is the
same for `ServiceCalls`, shown permanent by `DeadlockIsForGood`. In
`CommandsDrain`, `Stuck` is a socket that closes in the middle of a message
(`getByte` never returns the -2 for which its caller's loop waits) and
`<>[]waitingForResponse` a lost link record or the uninitialised flag. In
`WifiNodes` and `Phone` the excuses are the history variables of section 2 and, for
`ReleasedAfterSounds`, `Soundless` (no file of a play could be opened: nothing
ever tells it that its sounds are over) and `NeverRun` (an incoming call that was
given its actions before its ACK: `onConnected` does not run the chain, and
`appendAction` runs it only for the first action of an answered call). Each
excuse is needed: without it TLC finds the property violated, and what it finds
is behaviour of the code that nobody would want. They are the observations at the
end of section 5. An excused behaviour is not covered by the property that names
it: the property says that nothing else breaks the promise. The notes in `hazards`
say for which of them this is so.

**Mutants.** Every property of a passing run has at least one mutated definition,
listed in `PROJECT.json`, under which TLC finds it violated.


## 4. The proofs

`EventProcessorProofs` proves, for any set of modules, listeners, events and
signals and any bounds, from the five assumptions named in `EventProcessor`
(the main thread is not a module, the script is a listener, the signals are HUP
and TERM, `NoEvent` is not an event, `Free` is not an actor, the bounds are
numbers):

| Theorem | States |
|---|---|
| `Invariance` | `Spec => []IInv` |
| `TypeCorrect` | `Spec => []TypeOK` |
| `CompleteDispatch` | `Spec => []DispatchIsComplete` |
| `StuckIsForever` | `Spec => StuckForGood` |
| `Refinement` | `Spec => EveryListenerHasAFifo`: initial states map to initial states of `EventBus` and every step to `Post`, `Deliver` or a stutter, for each listener |

`DispatchIsComplete` is not inductive: that the script is listed when a batch
is dispatched depends on where the reload is, that nothing is left over on who
may push when. `IInv` adds to `TypeOK`:

- `LockInv`: who holds the mutex is at a place where the code holds it. The main
  thread does in its critical section, and possibly in a reload (the reload
  before the loop runs without it), a module only when it is about to push,
  a handler only while it has something to raise;
- `ListenersInv`: all listeners but the script are always registered, the script
  too except during a reload;
- `BatchInv`: the batch is empty outside the dispatch, and nobody was told of an
  empty one.

`StepInv` shows it inductive, one step per action. `StuckIsForever` uses `LockInv`:
the step that would release the mutex is a step of the code that the handler
sits on, or of a handler that holds it, and neither is possible.
`RefinementStep` uses `BatchInv` and the lemmas on `Tail` and `\o`
(`AppendToRest`, `RestOfBatch`, `EmptyBatch`): `Swap` moves events from one half
of `Pending(l)` to the other and so is a stutter; `Notify(l)` is `Deliver` for `l`
and a stutter for the others; `Pop` is a stutter since everybody was told.

`ScheduleProofs` proves, for any callers, day length and bounds, from the two
assumptions of `Schedule` (main is a caller, the names of threads, of nobody and
of the handler are distinct; the bounds are numbers):

| Theorem | States |
|---|---|
| `ScheduleInvariance` | `Spec => []IInv` |
| `ScheduleTypes` | `Spec => []TypeOK`, both lists being maps |
| `DatabaseSafety` | `Spec => []DatabaseIsMemory` |
| `NoEventIsEarly` | `Spec => []NeverEarly` |
| `NoEventIsRepeated` | `Spec => []AtMostOncePerLife` |
| `NoEventIsForgotten` | `Spec => []AcceptedIsKept` |
| `ScheduleIsAnAgenda` | `Spec => OperationsAreAtomic`: initial states map to initial states of `Agenda` and every step to one of its steps or a stutter |

None of them is inductive alone. `LockInv` says who holds the two locks from where
the calls and the handler are; `StoreInv`, by what single write map and database
differ while `mListLock` is held, and that nothing runs while the daemon is down;
`DueInv`, that the handler's copy holds stored events that were due when it was
made; `OnceInv`, that without a crash an event leaves the copy when it is raised,
leaves the map before the next one is, and cannot come back since a later
`/events/add` stores another event. The proof of the step has one part per
action, in three lemmas: calls, handler, the rest.

The refinement (`CallRefines`, `AlarmRefines`, `OtherRefines`) needs `IInv` at two
steps. `GetDueEvents` copies the map, and is a `Pick` of what is on disk only
because the lock is free, and so no write is half done (`LockInv`, `StoreInv`);
the minute it compares with is past (`DueInv`). `FindNothingFired` writes nothing,
and is a `TakeOut` because the handler holds the lock, so that the database lacks
the id too. `NothingPicked` adds that the copy is empty until it is made.

`ServiceCallsProofs` proves, for any number of web threads and calls, from the two
assumptions of `ServiceCalls`:

| Theorem | States |
|---|---|
| `ServiceCallsInvariance` | `Spec => []IInv` |
| `ServiceCallsTypes` | `Spec => []TypeOK` |
| `ServiceCallsExclusion` | `Spec => []OneServiceCall` |
| `FirstClearSafety` | `Spec => []FirstClearIsSafe` |
| `DeadlockIsPermanent` | `Spec => DeadlockIsForGood` |

`OneServiceCall` is inductive. `FirstInv` adds why the first suspension works:
until a call resets `mNeedSuspend`, `mSuspended` is true only of a thread that
sleeps in `stopping()` or was never started. It is exactly what a second call no
longer has (`service_calls_clear`). `ScriptInv` (the script makes calls only while
it runs) is what the deadlock needs: the main thread that waits for its call
cannot leave the reload.

`WifiNodesProofs` proves, for any controllers, valves, sequences, sizes of the
ring and of the queue, and any budgets, from `ValvesAssumption`, `SizesAssumption`,
`ProgramsAssumption`, `NodesAssumption` and `BudgetsAssumption`:

| Theorem | States |
|---|---|
| `WifiNodesInvariance` | `Spec => []IInv` |
| `WifiNodesTypes` | `Spec => []TypeOK`, the ring and the queue within their places |
| `DriversAreThere` | `Spec => []DriversOutliveCallbacks` |
| `NoItemIsStale` | `Spec => []NoStaleItem` |
| `StopsAreFinal` | `Spec => []StopIsFinal` |
| `NodeEventsAlternate` | `Spec => EventsAlternate` |

`LoopInv` says where in the loop `current` is a node, in the map or not, and that
a connection is up only for a node of the map; `DriverInv` that map, drivers and
callbacks differ by the node that is being inserted or removed; `EventsInv` that
the last event of a node is "new" exactly while it is announced. `CallInv` relates
the steps of a call to what it asks; `SequenceInv` is the heart: while a call
empties a sequence, and after a stop, the time is `TIMETMAX` and `run()` is not past
its test, and outside that the items in the ring are those of the last request,
for every node that is not torn. `CloseInv` follows the closing command through the
send queue, for `EndsWith` is about its last command for a node.

`WifiPeerProofs` proves what the daemon knows of the other end, from these and
`MessagesAssumption` (what a controller sends is not the address of a valve):

| Theorem | States |
|---|---|
| `StatusIsTrue` | `Spec => []StatusIsKnown` |
| `BeatingNodesStay` | `Silence >= 3` implies `Spec => BeatingNodeStays` |

`KnownInv` follows a report: one that waits is of the valve that is open now, and
where none waits or was lost in one piece with another message, the driver has been
told. The heartbeats need four parts. `EdgeInv`: although the sockets are
edge-triggered, what has come in is still to be reported by epoll or to be read
in this turn, so no heartbeat is forgotten. `AgeInv` bounds the periods since the
last heartbeat: one can have begun while none waits; one more if the waiting one
came after this turn had read the sockets. That is two, one short of the three that
`checkHeartBeats` asks for, and the hypothesis `Silence >= 3` is that constant:
with two periods TLC finds a beating controller dropped. `ConnectInv` is for a new
node: it enters the map with one period on its account at most, or it is `delayed`
(if only three periods in `connect()` made it so, TLC finds it dropped). `SteadyInv` is for the
environment whose period is a second.

`PhoneProofs` proves, for any calls, plans, number of actions and depth of the way to
`~Call`, from `PhoneAssumption`:

| Theorem | States |
|---|---|
| `PhoneInvariance` | `Spec => []IInv` |
| `PhoneTypes` | `Spec => []TypeOK` |
| `ActionsRunInOrder` | `Spec => []InvokedInOrder` |
| `NothingReachesTheCleaned` | `Spec => []CleanedActionsAreGone` |

The argument is about order. Actions are numbered when they are made. Those
still to come, in the fifo or in the web thread's hands, come in that order and after
all of a chain (`ComingInv`); a chain is in that order too, and only its first
action can have been invoked (`ChainInv`); what was invoked comes before what was
not (`InvokedInv`). So the next invocation is of a greater number. The observer
of a player is the first action of its chain, invoked (`ObserverInv`), hence
cleaning it leaves no observer; a cleaned action has one delete command
(`DeleteInv`), hence `clean` and `asyncDelAction` never meet it twice.

`PhoneDeletedProofs` adds, for any number of messages on the way to `~Call`:

| Theorem | States |
|---|---|
| `OnlyLateCommandsMeetDeletedCalls` | `Spec => []DeadUseOnlyLate` |

The argument is a race in the fifo between the messages that destroy the call and
the run commands of its chain. `DestroyInv` holds what is before and after the
destroying message: what the player and the web threads have posted is before
the first one, for the player was joined and a web thread that posts later is `late`;
a run command before the `hop`-th is there for at least `hop` - 2 plays without
sounds, one after it for one more. `GoneInv` is what is left of that when the call is
gone. They rest on a call that is over staying over, which the callbacks do not say:
`UpInv`, `PartyInv`, `SetupInv` and `RingInv` follow the messages of the other
party, so that no ringing or answer comes to a call that has ended.

`InsteonProofs` proves, for any devices and any bounds on requests, changes by hand,
faults and link records, from `DeviceAssumption`:

| Theorem | States |
|---|---|
| `InsteonInvariance` | `Spec => []IInv` |
| `InsteonTypes` | `Spec => []TypeOK` |
| `OneOutstandingCommand` | `Spec => []OneOutstanding` |
| `ObjectsKnowTheLevel` | `Spec => []LevelTracksDevice` |
| `ScriptKnowsTheLevel` | `Spec => []ScriptIsTold` |

`IInv` adds the types of the messages in transit (`Types`; the level of a report is in
one byte or the other by its kind, and an object must not learn from the wrong one)
and `SendInv`: while the echo is awaited nobody owes an answer, for the test was
before the write and only the echo makes a device wait.

The levels take an invariant over everything in transit, `LevelInv`. Its first parts
always hold: commands and messages are those of the class of their device
(`ClassInv`, `KindInv`), and what excuses one of the two properties excuses both
(`ExcuseInv`). The rest, `ExactInv`, holds while nothing is excused:

- `FlightInv`: one command or answer at most is in flight for a device, the answer
  is to the command that its object has (or will have when the echo is read), and
  there is none for a device that is idle. This is what makes the filter of
  `onInsteonMessage` right: an answer is read while the object still has the
  command it is for, and a repeated one finds another;
- `EchoInv`: at most one echo is in transit, and only while the thread waits for it;
  what the modem refused is not on the line, so nobody will answer it;
- `NewsInv`: of the messages of a device that wait to be read, the last that its
  object takes a level from tells the level of the device. Which messages those are
  depends on the command: an object takes none from the ACK of a program, an IOLinc
  none from the ACK of its relay (the sensor reports it), and the script is not
  told the answer to the first query (`Ignores`, `Mute`);
- `HeldInv`: where no such message waits, the object holds the level already, or a
  query is still queued or on the line (`Asked`), as after a dimming that stopped.
  For the script it must be a query whose answer it is told (`Second`): one that is
  not the first, for which `FirstInv` says where the first one is.

Both theorems are the case of `HeldInv` with everything empty. The invariant was
checked by TLC on three instances (a device of each class, up to two faults) before
it was proved. The runs allow one fault of each behaviour; the theorems allow any
number of faults, changes by hand, requests and devices.

Every safety invariant and every action property that a run checks is stated by a
theorem. Only model-checked are the liveness properties (`EventsReachListeners`,
`TermEndsTheLoop`, `StoredIsDispatched`, `CallsReturn`, `TermStopsTheModule`,
`CommandsDrain`, `LostNodeIsRemoved`, `SequenceEnds`, `ItemsArePlayed`,
`EveryCallEnds`, `ReleasedAfterSounds`), which need fairness and `ENABLED`, out of
the prover's reach.


## 5. Where the code and its documents disagree

| Run | Code | Says otherwise |
|---|---|---|
| `event_loop_sighup` | `reloadScript()` clears `mNeedReloadScript` after reading the file (`src/EventProcessor.cpp:141`): a SIGHUP in between is forgotten and the old script stays | `README.md:112`: a SIGHUP "will reload the script file" |
| `schedule_crash` | `processSchedule()` removes an event from the database as soon as it is in the queue, which is memory (`src/EventProcessor.cpp:198`): a crash before the dispatch loses it | `src/Schedule.cpp:54`, `:80`: the database is synchronised "to make sure we keep data after crashing" |
| `service_calls_clear` | `suspend()` waits for `mSuspended` only, and `stopping()` resets that after its last test of `mNeedSuspend` (`src/modules/Module.cpp:45`): a second `clearModuleList` soon after a first finds it still set and deletes the devices that the thread then uses | `src/modules/Insteon/InsteonModule.cpp:689-692`: "It is safe to delete all modules", the thread is suspended "so we dont access these devices" |
| `insteon_ack` | `isIdle()` and a NAK make a device idle without an ACK (`src/libs/insteon/InsteonDevice.cpp:27`, `:149`) | `src/libs/insteon/InsteonDevice.cpp:117-119`: "we never allow to send a command without getting an ACK first" |

The models also contain, as behaviours that the liveness properties name and
leave out, the freezes of section 3: an alarm on top of the holder of
`mMessageQueueLock` or `mListLock`, a reload that waits for a thread that waits for
the queue, a socket that closes inside a message, and `mWaitingForResponse`
without an initial value or a timeout.

Observations of the same kind, which no document contradicts but the comment at
`src/modules/Phone/Call.cpp:88-89` ("it will eventually get invoked"):

- an incoming call that is played to before its ACK never runs its chain;
- `ISoundDevice`'s player waits without testing its queue or `mStopping`: a sound,
  or the stop, that comes just before is not noticed, and the SIP thread may then
  wait for that player for ever;
- a play of which no file can be opened, or whose sounds a digit takes away before
  the first is taken, never ends, and the release behind it never comes;
- a REST thread that has looked a call up may post to it after it was deleted, and
  so may the call itself: each list without sounds in its chain posts the next run
  command as it ends, and a row of them as long as the way to `~Call` outlasts it;
- a node's heartbeat and report in one TCP segment are both ignored; heartbeats
  that wait while `connect()` blocks count as missing, and so does the time a new
  node itself spends in `connect()`: one that answers after 15 s is dropped in the
  same turn, one that answers after 10 s may be before its first heartbeat;
- a sequence that is replaced while `run()` is past its test can lose its time
  (its items stay in the ring) or have one item of the old one played;
- the closing command is lost like any other when the send queue is full, and the
  caller is told it was sent;
- the removal of a silent node iterates over an erased element.


## 6. What is left out

- *Event processor*: the destructor, with the interval timer still armed; an alarm
  inside an alarm; a third party that holds the lock of `malloc` or of the
  logger when the alarm comes.
- *Schedule*: daylight saving (`mktime`), times relative to the sun, the listing
  calls, which change nothing; a failing disk.
- *Service calls*: what the callbacks other than `clearmodules` do; the web
  server's own threads, taken to finish the calls in progress when it stops;
  registration of callbacks while calls run (`ThreadSafeRestEngine`).
- *Insteon*: `raw`, which queues any command its caller gives. A device class takes
  only the ACKs it knows (`SwitchDevice.cpp:76-118` those of 0x11 to 0x14 and 0x19):
  after another command, such as the ramp 0x2E, object and script are not told
  although the light changed, so `LevelTracksDevice` and `ScriptIsTold` do not
  extend to `raw`. `ramp`, `sendAllLink` and linking, whose REST calls are commented
  out (`InsteonModule.cpp:59-64`), for `ramp` with the same effect; a REST thread that changes `mModules` in the middle of the thread's
  iteration (the model adds devices in one step); partial messages; thermostats and keypads, whose calls are commented out.
- *Wifi nodes*: the IOBoard driver (no sequence, one command per call);
  `closeAllNodes` at the stop of the module; the limit of 20 nodes, reached by no
  instance; how many heartbeats exactly are in one piece; time as a calendar
  time. The ring (`MPSCRingBuffer`) is taken as one step per operation.
- *Phone*: registration, taken as done when a call is made; presence,
  message-waiting and subscriptions; the events that are raised; RTP and the
  decoding of sounds; a transfer ends a call as a release does. A
  spurious return of the player's wait is left out, for it would only repair a
  lost notification. Taking a sound and playing it to its end is one step: what
  a digit interrupts is hidden by a flag of the same name in `RTPSession`.
- *Event log*: a ring and a condition that is waited for without a test, the pattern
  of the player in `Phone`, on a database client that is a library. *Web
  notifications*: a set of sockets that a library's threads change. *Weather*: a
  poll of HTTP servers and a vector that REST calls extend without a lock, a
  race whose outcomes a model cannot tell apart. *Alarm*: packets turned into
  events, without a state.
- *Sound hardware, sun times, HTTP helper, local serial ports, logging*: devices,
  floating-point astronomy and blocking I/O without a state of their own.
- `src/obsolete`, the CouchDB client: not built. Duktape, the SIP stack, the web
  server: third-party (Duktape is most of the lines of the checkout).


## 7. The plan

Done: `EventBus`, `EventProcessor`, `Agenda`, `Schedule`, `ServiceCalls`, `Insteon`,
`Sprinklers` with `WifiNodes`, and `Phone`, each with its proofs.

What could follow, in this order:

1. `Agenda` over `EventBus`: its `waiting` as the channel to one listener, so that
   an event is followed from `/events/add` to the script.
2. The shutdown of `ServiceCalls` with the destructor of the event processor and an
   armed timer.
