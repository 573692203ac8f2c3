------------------------------ MODULE Schedule ------------------------------
(***************************************************************************)
(* Scheduled events: Schedule.cpp, ScheduledEvent.cpp, the /events calls   *)
(* of RESTInterface.cpp and EventProcessor::processSchedule.               *)
(*                                                                         *)
(* An event is added or removed through REST, by the web server's thread   *)
(* or by the script on the main thread, one call at a time under           *)
(* mInvocationLock.  The list is a map in memory and a Berkeley DB, both   *)
(* written under mListLock.  The SIGALRM handler of every minute copies    *)
(* the due events, raises each and then removes it; it runs on top of some *)
(* thread, whose code is suspended meanwhile.  The daemon can crash, and   *)
(* a restart loads the map from the database.                              *)
(*                                                                         *)
(* The lists are sets of events with distinct ids, time is in minutes and  *)
(* raised events go through the FIFO that EventProcessor implements.       *)
(***************************************************************************)
EXTENDS Naturals, Sequences, SequencesExt

CONSTANTS Caller,      \* threads that make REST calls
          Main,        \* the one that dispatches events to the script
          Other,       \* a thread that makes no REST call (a module)
          None,        \* no thread, no holder of a lock
          DayLength,   \* minutes in a day
          FreshIds,    \* TRUE: getID() of a new event was never used before
          MaxAdds,     \* bound: calls of /events/add
          MaxRemoves,  \* bound: calls of /events/remove
          MaxCrashes,  \* bound: crashes
          MaxTime      \* bound: the clock stops there, the timer does not

ASSUME CallerAssumption == Main \in Caller /\ Other \notin Caller
                           /\ None \notin Caller \cup {Other}
                           /\ "alarm" \notin Caller \cup {None}
ASSUME NumberAssumption ==
    /\ DayLength \in Nat \ {0} /\ MaxAdds \in Nat /\ MaxRemoves \in Nat
    /\ MaxCrashes \in Nat /\ MaxTime \in Nat /\ FreshIds \in BOOLEAN

Name == 1..MaxAdds
Id == 1..MaxAdds
Event == [name : Name, id : Id, timeout : 0..(MaxTime + 2 * DayLength)]

\* Who holds mListLock: a REST call or the SIGALRM handler.
Holder == Caller \cup {"alarm"}

VARIABLES
    up,              \* the daemon runs
    now,             \* time()
    eventList,       \* mEventList
    db,              \* the records of the Berkeley DB
    listLock,        \* the holder of mListLock
    invocationLock,  \* the holder of mInvocationLock
    call,            \* the REST call that each caller makes
    alarm,           \* the SIGALRM handler
    queue,           \* raised events that the script has not seen yet
    dispatched,      \* the events the script was notified of
    fired,           \* every event processSchedule raised, in order
    accepted,        \* events whose /events/add has stored them
    dismissed,       \* events removed by /events/remove or overwritten
    adds, removes, crashes

memory == <<eventList, listLock, invocationLock, call, alarm, queue>>
ghosts == <<dispatched, fired, accepted, dismissed>>
counters == <<adds, removes, crashes>>
vars == <<up, now, db, memory, ghosts, counters>>

CallPC == {"lock", "memory", "db", "return"}
CallType == [at : {"idle"}]
            \cup [at : CallPC, op : {"add"}, event : Event]
            \cup [at : CallPC, op : {"remove"}, id : Id]
AlarmType ==
    [at : {"none", "lock", "each", "relock", "memory", "db"},
     host : Caller \cup {Other, None}, t : 0..MaxTime,
     due : SUBSET Event, cur : Event \cup {None}]

NoCall == [at |-> "idle"]
NoAlarm == [at |-> "none", host |-> None, t |-> 0, due |-> {}, cur |-> None]

Init ==
    /\ up = TRUE /\ now = 0
    /\ eventList = {} /\ db = {}
    /\ listLock = None /\ invocationLock = None
    /\ call = [c \in Caller |-> NoCall]
    /\ alarm = NoAlarm
    /\ queue = <<>> /\ dispatched = {} /\ fired = <<>>
    /\ accepted = {} /\ dismissed = {}
    /\ adds = 0 /\ removes = 0 /\ crashes = 0

-----------------------------------------------------------------------------
(* The map operations *)

HasId(list, id) == \E e \in list : e.id = id

WithoutId(list, id) == {e \in list : e.id # id}

\* Mutant: an event of the same id is not overwritten.
PutBeside(list, e) == list \cup {e}

Put(list, e) == WithoutId(list, e.id) \cup {e}

\* Mutants: due a minute early; due in its minute only.
isDueEarly(e, t) == t + 1 >= e.timeout
isDueExactly(e, t) == t = e.timeout

isDue(e, t) == t >= e.timeout

\* The constructor of ScheduledEvent: today at that minute of the day if it
\* is still to come, tomorrow otherwise.
Timeout(t, minute) ==
    LET today == t - (t % DayLength) + minute
    IN  IF today > t THEN today ELSE today + DayLength

-----------------------------------------------------------------------------
(* REST calls *)

Runs(c) == up /\ alarm.host # c
At(c, p) == Runs(c) /\ call[c].at = p
Goes(c, p) == call' = [call EXCEPT ![c].at = p]

\* processQuery: one call at a time.  The call that waits for its turn and
\* the request it carries are the same step.
StartAdd(c, id, minute) ==
    /\ At(c, "idle") /\ adds < MaxAdds /\ invocationLock = None
    /\ FreshIds => id = adds + 1
    /\ adds' = adds + 1
    /\ invocationLock' = c
    /\ call' = [call EXCEPT ![c] =
                  [at |-> "lock", op |-> "add",
                   event |-> [name |-> adds', id |-> id,
                              timeout |-> Timeout(now, minute)]]]
    /\ UNCHANGED <<up, now, db, eventList, listLock, alarm, queue, ghosts,
                   removes, crashes>>

StartRemove(c, id) ==
    /\ At(c, "idle") /\ removes < MaxRemoves /\ invocationLock = None
    /\ removes' = removes + 1
    /\ invocationLock' = c
    /\ call' = [call EXCEPT ![c] = [at |-> "lock", op |-> "remove", id |-> id]]
    /\ UNCHANGED <<up, now, db, eventList, listLock, alarm, queue, ghosts,
                   adds, crashes>>

LockList(c) ==
    /\ At(c, "lock") /\ Goes(c, "memory")
    /\ listLock = None /\ listLock' = c
    /\ UNCHANGED <<up, now, db, eventList, invocationLock, alarm, queue,
                   ghosts, counters>>

\* The map first.
WriteMemory(c) ==
    /\ At(c, "memory") /\ Goes(c, "db")
    /\ \/ /\ call[c].op = "add"
          /\ eventList' = Put(eventList, call[c].event)
       \/ /\ call[c].op = "remove" /\ HasId(eventList, call[c].id)
          /\ eventList' = WithoutId(eventList, call[c].id)
    /\ UNCHANGED <<up, now, db, listLock, invocationLock, alarm, queue,
                   ghosts, counters>>

\* removeEvent returns at once when the map does not have the id.
FindNothing(c) ==
    /\ At(c, "memory") /\ Goes(c, "return")
    /\ call[c].op = "remove" /\ ~HasId(eventList, call[c].id)
    /\ listLock' = None
    /\ UNCHANGED <<up, now, db, eventList, invocationLock, alarm, queue,
                   ghosts, counters>>

\* Then the database, synchronously, and the lock is released.
WriteDB(c) ==
    /\ At(c, "db") /\ Goes(c, "return")
    /\ listLock' = None
    /\ IF call[c].op = "add"
       THEN /\ db' = Put(db, call[c].event)
            /\ accepted' = accepted \cup {call[c].event}
            /\ dismissed' = dismissed \cup
                             {e \in db : e.id = call[c].event.id}
       ELSE /\ db' = WithoutId(db, call[c].id)
            /\ dismissed' = dismissed \cup {e \in db : e.id = call[c].id}
            /\ UNCHANGED accepted
    /\ UNCHANGED <<up, now, eventList, invocationLock, alarm, queue,
                   dispatched, fired, counters>>

Return(c) ==
    /\ At(c, "return")
    /\ call' = [call EXCEPT ![c] = NoCall]
    /\ invocationLock' = None
    /\ UNCHANGED <<up, now, db, eventList, listLock, alarm, queue, ghosts,
                   counters>>

-----------------------------------------------------------------------------
(* onAlarm: processSchedule *)

AlarmAt(p) == up /\ alarm.at = p
AlarmGoes(p) == alarm' = [alarm EXCEPT !.at = p]

Alarm(h) ==
    /\ AlarmAt("none")
    /\ alarm' = [NoAlarm EXCEPT !.at = "lock", !.host = h, !.t = now]
    /\ UNCHANGED <<up, now, db, eventList, listLock, invocationLock, call,
                   queue, ghosts, counters>>

\* Mutant: the list is copied without mListLock.
GetDueUnlocked ==
    /\ AlarmAt("lock")
    /\ alarm' = [alarm EXCEPT !.at = "each",
                              !.due = {e \in eventList : isDue(e, alarm.t)}]
    /\ UNCHANGED <<up, now, db, eventList, listLock, invocationLock, call,
                   queue, ghosts, counters>>

\* getDueEvents: a copy, made under mListLock
GetDueEvents ==
    /\ AlarmAt("lock") /\ listLock = None
    /\ alarm' = [alarm EXCEPT !.at = "each",
                              !.due = {e \in eventList : isDue(e, alarm.t)}]
    /\ UNCHANGED <<up, now, db, eventList, listLock, invocationLock, call,
                   queue, ghosts, counters>>

\* processEvent for the next event of the copy, in the order of the map
Raise(e) ==
    /\ AlarmAt("each") /\ e \in alarm.due
    /\ \A f \in alarm.due : e.id <= f.id
    /\ queue' = Append(queue, e)
    /\ fired' = Append(fired, e)
    /\ alarm' = [alarm EXCEPT !.at = "relock", !.cur = e, !.due = @ \ {e}]
    /\ UNCHANGED <<up, now, db, eventList, listLock, invocationLock, call,
                   dispatched, accepted, dismissed, counters>>

\* then removeEvent of its id
RelockList ==
    /\ AlarmAt("relock") /\ AlarmGoes("memory")
    /\ listLock = None /\ listLock' = "alarm"
    /\ UNCHANGED <<up, now, db, eventList, invocationLock, call, queue,
                   ghosts, counters>>

\* Mutant: the event stays in the map.
EraseNothing ==
    /\ AlarmAt("memory") /\ AlarmGoes("db")
    /\ UNCHANGED <<up, now, db, eventList, listLock, invocationLock, call,
                   queue, ghosts, counters>>

EraseFired ==
    /\ AlarmAt("memory") /\ AlarmGoes("db")
    /\ HasId(eventList, alarm.cur.id)
    /\ eventList' = WithoutId(eventList, alarm.cur.id)
    /\ UNCHANGED <<up, now, db, listLock, invocationLock, call, queue,
                   ghosts, counters>>

\* The event was removed, or overwritten and removed, after the copy.
FindNothingFired ==
    /\ AlarmAt("memory") /\ ~HasId(eventList, alarm.cur.id)
    /\ alarm' = [alarm EXCEPT !.at = "each", !.cur = None]
    /\ listLock' = None
    /\ UNCHANGED <<up, now, db, eventList, invocationLock, call, queue, ghosts,
                   counters>>

\* Mutants: the record stays in the database; every due record is deleted.
DeleteNothing ==
    /\ AlarmAt("db")
    /\ alarm' = [alarm EXCEPT !.at = "each", !.cur = None]
    /\ listLock' = None
    /\ UNCHANGED <<up, now, db, eventList, invocationLock, call, queue, ghosts,
                   counters>>

DeleteAllDue ==
    /\ AlarmAt("db")
    /\ alarm' = [alarm EXCEPT !.at = "each", !.cur = None]
    /\ db' = {e \in db : ~isDue(e, alarm.t)}
    /\ listLock' = None
    /\ UNCHANGED <<up, now, eventList, invocationLock, call, queue, ghosts,
                   counters>>

DeleteFired ==
    /\ AlarmAt("db")
    /\ alarm' = [alarm EXCEPT !.at = "each", !.cur = None]
    /\ db' = WithoutId(db, alarm.cur.id)
    /\ listLock' = None
    /\ UNCHANGED <<up, now, eventList, invocationLock, call, queue, ghosts,
                   counters>>

\* The timer event and the sun follow; they do not touch the schedule.
EndAlarm ==
    /\ AlarmAt("each") /\ alarm.due = {}
    /\ alarm' = NoAlarm
    /\ UNCHANGED <<up, now, db, eventList, listLock, invocationLock, call,
                   queue, ghosts, counters>>

-----------------------------------------------------------------------------
(* The event loop, time, crash and restart *)

Dispatch ==
    /\ At(Main, "idle") /\ queue # <<>>
    /\ dispatched' = dispatched \cup {Head(queue)}
    /\ queue' = Tail(queue)
    /\ UNCHANGED <<up, now, db, eventList, listLock, invocationLock, call,
                   alarm, fired, accepted, dismissed, counters>>

Tick ==
    /\ now < MaxTime
    /\ now' = now + 1
    /\ UNCHANGED <<up, db, memory, ghosts, counters>>

\* Memory, threads and locks are gone; the synchronised database stays.
Crash ==
    /\ up /\ crashes < MaxCrashes
    /\ crashes' = crashes + 1
    /\ up' = FALSE
    /\ eventList' = {} /\ listLock' = None /\ invocationLock' = None
    /\ call' = [c \in Caller |-> NoCall] /\ alarm' = NoAlarm /\ queue' = <<>>
    /\ UNCHANGED <<now, db, ghosts, adds, removes>>

\* The constructor of Schedule reads every record.
Restart ==
    /\ ~up
    /\ up' = TRUE
    /\ eventList' = db
    /\ UNCHANGED <<now, db, listLock, invocationLock, call, alarm, queue,
                   ghosts, counters>>

-----------------------------------------------------------------------------

CallStep(c) ==
    LockList(c) \/ WriteMemory(c) \/ FindNothing(c) \/ WriteDB(c) \/ Return(c)

AlarmStep ==
    \/ GetDueEvents \/ RelockList \/ EraseFired \/ FindNothingFired
    \/ DeleteFired \/ EndAlarm
    \/ \E e \in alarm.due : Raise(e)

Next ==
    \/ \E c \in Caller :
          \/ CallStep(c)
          \/ \E id \in Id :
                StartRemove(c, id)
                \/ \E minute \in 0..(DayLength - 1) : StartAdd(c, id, minute)
    \/ (\E h \in Caller \cup {Other} : Alarm(h)) \/ AlarmStep
    \/ Dispatch \/ Tick \/ Crash \/ Restart

Spec == Init /\ [][Next]_vars

(***************************************************************************)
(* Threads run, mListLock is eventually given to who keeps waiting for it, *)
(* minutes pass, the interval timer keeps firing and the daemon is         *)
(* restarted.  A crash or a REST call is never obliged to happen.          *)
(***************************************************************************)
Fairness ==
    /\ \A c \in Caller : SF_vars(CallStep(c))
    /\ SF_vars(GetDueEvents) /\ SF_vars(RelockList) /\ WF_vars(AlarmStep)
    /\ WF_vars(\E h \in Caller \cup {Other} : Alarm(h))
    /\ SF_vars(Dispatch) /\ WF_vars(Tick) /\ WF_vars(Restart)

FairSpec == Spec /\ Fairness

-----------------------------------------------------------------------------
(* Properties *)

\* Types, and the ids of both lists are distinct: they are maps.
TypeOK ==
    /\ up \in BOOLEAN /\ now \in 0..MaxTime
    /\ eventList \in SUBSET Event /\ db \in SUBSET Event
    /\ \A e, f \in eventList : e.id = f.id => e = f
    /\ \A e, f \in db : e.id = f.id => e = f
    /\ listLock \in Holder \cup {None}
    /\ invocationLock \in Caller \cup {None}
    /\ call \in [Caller -> CallType] /\ alarm \in AlarmType
    /\ queue \in Seq(Event) /\ fired \in Seq(Event)
    /\ dispatched \cup accepted \cup dismissed \in SUBSET Event
    /\ adds \in 0..MaxAdds /\ removes \in 0..MaxRemoves
    /\ crashes \in 0..MaxCrashes

\* Whenever mListLock is free, the database holds exactly the events of the
\* map: a crash at that moment loses nothing, a restart adds nothing.
DatabaseIsMemory == up /\ listLock = None => db = eventList

\* No event is raised before its minute, however long the daemon was down or
\* the handler was delayed.
NeverEarly == \A i \in DOMAIN fired : fired[i].timeout <= now

\* An event is raised again only because a crash came between its
\* processEvent and its removeEvent.
AtMostOncePerLife ==
    \A i, j \in DOMAIN fired : i # j /\ fired[i] = fired[j] => crashes > 0

\* An event that /events/add has stored is in the database until it was
\* raised or dismissed: no race of calls, handler and crashes forgets it,
\* unless getID() gave its id to another event as well.
IdIsUnique(e) == \A f \in accepted : f.id = e.id => f = e
AcceptedIsKept ==
    \A e \in accepted :
       IdIsUnique(e) => e \in db \cup dismissed \cup ToSet(fired)

\* The event that was raised and is to be removed, if any.
handled == IF alarm.at \in {"relock", "memory", "db"} THEN {alarm.cur} ELSE {}

TheAgenda == INSTANCE Agenda WITH
    clock <- now, stored <- db, picked <- alarm.due, handled <- handled,
    waiting <- queue, told <- dispatched

\* The calls, the handler and the crashes act on the agenda on disk one at a
\* time, although each writes the map first and the database later: every
\* step is a step of Agenda or changes nothing that Agenda speaks of.
OperationsAreAtomic == TheAgenda!Spec

\* While the handler does not deadlock, the script is notified of every
\* stored event whose minute comes, through crashes and restarts, unless it is
\* dismissed first, another event gets its id, or a crash empties the queue
\* after it was raised.
HandlerStuck == alarm.at \in {"lock", "relock"} /\ listLock = alarm.host
LostByCrash(e) == crashes > 0 /\ e \in ToSet(fired)
StoredIsDispatched ==
    \/ <>HandlerStuck
    \/ \A n \in Name :
          (\E e \in accepted : e.name = n /\ e.timeout <= MaxTime)
             ~> (\E e \in accepted : e.name = n /\
                    \/ e \in dispatched \cup dismissed
                    \/ ~IdIsUnique(e) \/ LostByCrash(e))

\* Schedule.cpp:54 and :80, the database is synchronised "to make sure we
\* keep data after crashing": an event that the script has not been notified
\* of is still in the queue or in the database.
KeptUntilDispatched ==
    \A e \in accepted : e \in db \cup dismissed \cup dispatched \cup ToSet(queue)
=============================================================================
