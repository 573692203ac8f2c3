---------------------------- MODULE ScheduleProofs ----------------------------
(***************************************************************************)
(* What holds of Schedule for every set of callers and every bound: the    *)
(* database is the map whenever the list is unlocked, no event is raised   *)
(* early, none twice without a crash, and none that was stored is          *)
(* forgotten.                                                              *)
(***************************************************************************)
EXTENDS Schedule, SequenceTheorems, TLAPS

\* Who holds a lock is where the lock is held.
LockInv ==
    /\ \A c \in Caller : call[c].at \in {"memory", "db"} <=> listLock = c
    /\ alarm.at \in {"memory", "db"} <=> listLock = "alarm"
    /\ \A c \in Caller : call[c].at # "idle" => invocationLock = c

\* What the map and the database differ by is the write that is between them.
StoreInv ==
    /\ up /\ alarm.at # "db" /\ (\A c \in Caller : call[c].at # "db") =>
          db = eventList
    /\ \A c \in Caller : call[c].at = "db" =>
          eventList = IF call[c].op = "add" THEN Put(db, call[c].event)
                                            ELSE WithoutId(db, call[c].id)
    /\ alarm.at = "db" => eventList = WithoutId(db, alarm.cur.id)
    /\ ~up => /\ alarm = NoAlarm /\ crashes > 0
              /\ \A c \in Caller : call[c] = NoCall

Removing == alarm.at \in {"relock", "memory", "db"}

\* The copy holds stored events that are due, and the event that is being
\* removed was raised.
DueInv ==
    /\ alarm.t <= now
    /\ \A e \in alarm.due : e.timeout <= alarm.t
    /\ db \subseteq accepted /\ alarm.due \subseteq accepted
    /\ Removing => alarm.cur \in accepted /\ alarm.cur \in ToSet(fired)

\* As long as there was no crash, an event leaves the copy when it is raised
\* and the map before the next one is, and a new event has a new name.
OnceInv ==
    crashes = 0 =>
        /\ \A e \in eventList \cup alarm.due \cup ToSet(fired) : e.name <= adds
        /\ \A c \in Caller :
              call[c].at \in {"lock", "memory"} /\ call[c].op = "add" =>
                  /\ call[c].event.name = adds
                  /\ \A e \in eventList \cup alarm.due \cup ToSet(fired) :
                        e.name # adds
        /\ alarm.due \cap ToSet(fired) = {}
        /\ \A e \in eventList \cap ToSet(fired) :
              alarm.at \in {"relock", "memory"} /\ alarm.cur = e

\* What is to be shown; DatabaseIsMemory follows from LockInv and StoreInv.
Goals == NeverEarly /\ AtMostOncePerLife /\ AcceptedIsKept

IInv == TypeOK /\ LockInv /\ StoreInv /\ DueInv /\ OnceInv /\ Goals

-----------------------------------------------------------------------------
(* The operators *)

\* What Append adds to the elements of a sequence.
LEMMA AppendElement ==
    ASSUME NEW S, NEW s \in Seq(S), NEW e \in S
    PROVE  /\ Append(s, e) \in Seq(S)
           /\ DOMAIN Append(s, e) = DOMAIN s \cup {Len(s) + 1}
           /\ Len(s) + 1 \notin DOMAIN s
           /\ \A i \in DOMAIN s : Append(s, e)[i] = s[i]
           /\ Append(s, e)[Len(s) + 1] = e
           /\ ToSet(Append(s, e)) = ToSet(s) \cup {e}
<1> DEFINE r == Append(s, e)
<1>1. /\ r \in Seq(S) /\ Len(r) = Len(s) + 1
      /\ \A i \in 1..Len(s) : r[i] = s[i]
      /\ r[Len(s) + 1] = e
  BY AppendProperties
<1>2. /\ Len(s) \in Nat /\ DOMAIN s = 1..Len(s) /\ DOMAIN r = 1..Len(r)
  BY <1>1, LenProperties
<1> HIDE DEF r
<1>3. /\ DOMAIN r = DOMAIN s \cup {Len(s) + 1}
      /\ Len(s) + 1 \notin DOMAIN s
      /\ \A i \in DOMAIN s : r[i] = s[i]
  BY <1>1, <1>2
<1>4. ToSet(r) = ToSet(s) \cup {e}
  BY <1>1, <1>3 DEF ToSet
<1> QED
  BY <1>1, <1>3, <1>4 DEF r

\* The elements of a sequence of events are events.
LEMMA ElementType ==
    ASSUME NEW S, NEW s \in Seq(S)
    PROVE  ToSet(s) \subseteq S /\ \A i \in DOMAIN s : s[i] \in S
  BY LenProperties DEF ToSet

\* The minute an event is stored for is still to come.
LEMMA TimeoutType ==
    ASSUME NEW t \in 0..MaxTime, NEW minute \in 0..(DayLength - 1)
    PROVE  Timeout(t, minute) \in 0..(MaxTime + 2 * DayLength)
<1>1. t % DayLength \in 0..(DayLength - 1)
  BY NumberAssumption
<1> QED
  BY <1>1, NumberAssumption DEF Timeout

\* A call in progress that moves on stays the call it is.
LEMMA CallGoes ==
    ASSUME call \in [Caller -> CallType], NEW c \in Caller, NEW p \in CallPC,
           call[c].at # "idle", Goes(c, p)
    PROVE  /\ call' \in [Caller -> CallType] /\ call'[c].at = p
           /\ call'[c].op = call[c].op /\ call[c].op \in {"add", "remove"}
           /\ call[c].op = "add" =>
                 call[c].event \in Event /\ call'[c].event = call[c].event
           /\ call[c].op = "remove" =>
                 call[c].id \in Id /\ call'[c].id = call[c].id
           /\ \A d \in Caller : d # c => call'[d] = call[d]
<1>1. call'[c] = [call[c] EXCEPT !.at = p]
      /\ \A d \in Caller : d # c => call'[d] = call[d]
  BY DEF Goes
<1>2. CASE call[c] \in [at : CallPC, op : {"add"}, event : Event]
  BY <1>1, <1>2 DEF Goes, CallType
<1>3. CASE call[c] \in [at : CallPC, op : {"remove"}, id : Id]
  BY <1>1, <1>3 DEF Goes, CallType
<1> QED
  BY <1>2, <1>3 DEF CallType

-----------------------------------------------------------------------------
(* The steps *)

USE DEF memory, ghosts, counters, At, Runs, AlarmAt, AlarmGoes, Put, WithoutId,
        HasId, NoCall, NoAlarm, Removing, Holder

LEMMA FiredType ==
    ASSUME fired \in Seq(Event)
    PROVE  /\ ToSet(fired) \subseteq Event
           /\ \A i \in DOMAIN fired : fired[i] \in Event
  BY ElementType

\* The goals speak of the history, the database and the clock.
LEMMA GoalsKept ==
    Goals /\ UNCHANGED <<db, now, fired, accepted, dismissed, crashes>> => Goals'
  BY DEF Goals, NeverEarly, AtMostOncePerLife, AcceptedIsKept, IdIsUnique

LEMMA InitInv == Init => IInv
<1> SUFFICES ASSUME Init PROVE IInv
  OBVIOUS
<1> USE CallerAssumption, NumberAssumption DEF Init
<1>1. TypeOK
  BY EmptySeq DEF TypeOK, CallType, AlarmType
<1>2. LockInv /\ StoreInv /\ DueInv
  BY DEF LockInv, StoreInv, DueInv
<1>3. ToSet(fired) = {} /\ DOMAIN fired = {}
  BY DEF ToSet
<1>4. OnceInv /\ Goals
  BY <1>3 DEF OnceInv, Goals, NeverEarly, AtMostOncePerLife, AcceptedIsKept
<1> QED
  BY <1>1, <1>2, <1>4 DEF IInv

\* A step of a REST call preserves the invariant.
LEMMA CallInv ==
    IInv /\ (\E c \in Caller :
              \/ CallStep(c)
              \/ \E id \in Id :
                    StartRemove(c, id)
                    \/ \E minute \in 0..(DayLength - 1) :
                          StartAdd(c, id, minute))
    => IInv'
<1> USE CallerAssumption, NumberAssumption
    DEF IInv, TypeOK
<1>1. ASSUME IInv, NEW c \in Caller, NEW id \in Id,
             NEW minute \in 0..(DayLength - 1), StartAdd(c, id, minute)
      PROVE  IInv'
  <2> DEFINE new == [name |-> adds', id |-> id,
                     timeout |-> Timeout(now, minute)]
  <2>8. /\ new \in Event /\ new.name = adds + 1
        /\ adds \in Nat /\ adds' = adds + 1 /\ adds' \in 0..MaxAdds
    BY <1>1, TimeoutType DEF StartAdd, Event, Name
  <2>9. call' = [call EXCEPT ![c] = [at |-> "lock", op |-> "add",
                                     event |-> new]]
    BY <1>1 DEF StartAdd
  <2> HIDE DEF new
  <2>7. new \in Event =>
          [at |-> "lock", op |-> "add", event |-> new] \in CallType
    BY DEF CallType, CallPC
  <2>0. /\ call' \in [Caller -> CallType]
        /\ call'[c].at = "lock" /\ call'[c].op = "add" /\ call'[c].event = new
        /\ call[c].at = "idle" /\ invocationLock = None /\ up
        /\ new \in Event /\ new.name = adds + 1 /\ adds' = adds + 1
        /\ adds \in Nat /\ adds' \in 0..MaxAdds /\ invocationLock' = c
        /\ \A d \in Caller : d # c => call'[d] = call[d]
        /\ UNCHANGED <<up, now, db, eventList, listLock, alarm, queue,
                       dispatched, fired, accepted, dismissed, removes,
                       crashes>>
    <3>1. UNCHANGED <<up, now, db, eventList, listLock, alarm, queue,
                      dispatched, fired, accepted, dismissed, removes,
                      crashes>>
      BY <1>1 DEF StartAdd
    <3>2. /\ call[c].at = "idle" /\ up
          /\ invocationLock = None /\ invocationLock' = c
      BY <1>1 DEF StartAdd
    <3> QED
      BY <1>1, <2>8, <2>9, <2>7, <3>1, <3>2
  <2>1. TypeOK'
    BY <1>1, <2>0 DEF CallType, CallPC, AlarmType, Event
  <2>2. LockInv'
    BY <1>1, <2>0 DEF LockInv, AlarmType
  <2>3. StoreInv'
    BY <1>1, <2>0 DEF LockInv, StoreInv, AlarmType
  <2>4. DueInv'
    BY <1>1, <2>0 DEF LockInv, StoreInv, DueInv, AlarmType, Event
  <2>5. OnceInv'
    <3>1. \A d \in Caller : d # c => call[d].at = "idle"
      BY <1>1, <2>0 DEF LockInv
    <3>2. \A e \in eventList \cup alarm.due \cup ToSet(fired) : e.name \in Nat
      BY <1>1, FiredType DEF AlarmType, Event, Name
    <3> QED
      BY <1>1, <2>0, <3>1, <3>2 DEF OnceInv
  <2>6. Goals'
    BY <1>1, <2>0, GoalsKept
  <2> QED
    BY <2>1, <2>2, <2>3, <2>4, <2>5, <2>6
<1>2. ASSUME IInv, NEW c \in Caller, NEW id \in Id, StartRemove(c, id)
      PROVE  IInv'
  <2>1. TypeOK'
    BY <1>2 DEF CallType, CallPC, AlarmType, Event, StartRemove
  <2>2. LockInv' /\ StoreInv' /\ DueInv'
    <3>1. LockInv'
      BY <2>1, <1>2 DEF LockInv, AlarmType, StartRemove
    <3>2. StoreInv'
      BY <2>1, <1>2 DEF LockInv, StoreInv, AlarmType, StartRemove
    <3>3. DueInv'
      BY <2>1, <1>2 DEF LockInv, StoreInv, DueInv, isDue, AlarmType, Event,
                        StartRemove
    <3> QED
      BY <3>1, <3>2, <3>3
  <2>3. OnceInv'
    BY <2>1, <1>2 DEF LockInv, StoreInv, OnceInv, AlarmType, Event, StartRemove
  <2>4. Goals'
    BY <1>2, GoalsKept DEF StartRemove
  <2> QED
    BY <2>1, <2>2, <2>3, <2>4
<1>3. ASSUME IInv, NEW c \in Caller, LockList(c) PROVE IInv'
  <2>0. /\ call[c].at = "lock" /\ listLock = None /\ listLock' = c /\ up
        /\ call' \in [Caller -> CallType] /\ call'[c].at = "memory"
        /\ call'[c].op = call[c].op /\ call[c].op \in {"add", "remove"}
        /\ call[c].op = "add" =>
              call[c].event \in Event /\ call'[c].event = call[c].event
        /\ call[c].op = "remove" =>
              call[c].id \in Id /\ call'[c].id = call[c].id
        /\ \A d \in Caller : d # c => call'[d] = call[d]
        /\ UNCHANGED <<up, now, db, eventList, invocationLock, alarm, queue,
                       dispatched, fired, accepted, dismissed, adds, removes,
                       crashes>>
    BY <1>3, CallGoes DEF LockList, CallPC
  <2>1. TypeOK'
    BY <1>3, <2>0 DEF CallType, CallPC, AlarmType, Event
  <2>2. LockInv'
    BY <1>3, <2>0 DEF LockInv, AlarmType
  <2>3. StoreInv'
    BY <1>3, <2>0 DEF LockInv, StoreInv, AlarmType
  <2>4. DueInv'
    BY <1>3, <2>0 DEF LockInv, StoreInv, DueInv, AlarmType, Event
  <2>5. OnceInv'
    BY <1>3, <2>0 DEF OnceInv
  <2>6. Goals'
    BY <1>3, <2>0, GoalsKept
  <2> QED
    BY <2>1, <2>2, <2>3, <2>4, <2>5, <2>6
<1>4. ASSUME IInv, NEW c \in Caller, WriteMemory(c) PROVE IInv'
  <2>0. /\ call[c].at = "memory" /\ up
        /\ call' \in [Caller -> CallType] /\ call'[c].at = "db"
        /\ call'[c].op = call[c].op /\ call[c].op \in {"add", "remove"}
        /\ call[c].op = "add" =>
              call[c].event \in Event /\ call'[c].event = call[c].event
        /\ call[c].op = "remove" =>
              call[c].id \in Id /\ call'[c].id = call[c].id
        /\ \A d \in Caller : d # c => call'[d] = call[d]
        /\ eventList' = IF call[c].op = "add"
                        THEN Put(eventList, call[c].event)
                        ELSE WithoutId(eventList, call[c].id)
        /\ UNCHANGED <<up, now, db, listLock, invocationLock, alarm, queue,
                       dispatched, fired, accepted, dismissed, adds, removes,
                       crashes>>
    BY <1>4, CallGoes DEF WriteMemory, CallPC
  <2>1. TypeOK'
    BY <1>4, <2>0 DEF CallType, CallPC, AlarmType, Event
  <2>2. LockInv'
    BY <1>4, <2>0 DEF LockInv, AlarmType
  <2>3. StoreInv'
    <3>1. /\ alarm.at # "db" /\ \A d \in Caller : call[d].at # "db"
          /\ db = eventList
      BY <1>4, <2>0, CallerAssumption DEF LockInv, StoreInv
    <3>2. eventList' = IF call'[c].op = "add" THEN Put(db, call'[c].event)
                                              ELSE WithoutId(db, call'[c].id)
      BY <2>0, <3>1
    <3>3. /\ call'[c].at = "db" /\ up' /\ alarm'.at # "db" /\ db' = db
          /\ \A d \in Caller : call'[d].at = "db" => d = c
      BY <2>0, <3>1
    <3> HIDE DEF Put, WithoutId
    <3> QED
      BY <3>2, <3>3 DEF StoreInv
  <2>4. DueInv'
    BY <1>4, <2>0 DEF LockInv, StoreInv, DueInv, AlarmType, Event
  <2>5. OnceInv'
    <3>1. alarm.at \notin {"memory", "db"}
      BY <1>4, <2>0, CallerAssumption DEF LockInv
    <3>2. \A d \in Caller : d # c => call[d].at = "idle"
      BY <1>4, <2>0 DEF LockInv
    <3>3. \A e \in eventList' :
             e \notin eventList => call[c].op = "add" /\ e = call[c].event
      <4>1. CASE call[c].op = "add"
        <5>1. eventList' = Put(eventList, call[c].event)
          BY <2>0, <4>1
        <5> QED
          BY <4>1, <5>1
      <4>2. CASE call[c].op = "remove"
        <5>1. eventList' = WithoutId(eventList, call[c].id)
          BY <2>0, <4>2
        <5> QED
          BY <5>1
      <4> QED
        BY <2>0, <4>1, <4>2
    <3>4. SUFFICES ASSUME crashes = 0 PROVE OnceInv'
      BY <2>0 DEF OnceInv
    <3>5. /\ \A e \in eventList \cup alarm.due \cup ToSet(fired) :
                e.name <= adds
          /\ call[c].op = "add" =>
                /\ call[c].event.name = adds /\ adds <= adds
                /\ \A e \in eventList \cup alarm.due \cup ToSet(fired) :
                      e.name # adds
          /\ alarm.due \cap ToSet(fired) = {}
          /\ \A e \in eventList \cap ToSet(fired) :
                alarm.at \in {"relock", "memory"} /\ alarm.cur = e
      BY <1>4, <2>0, <3>4 DEF OnceInv
    <3>6. \A e \in eventList' \cup alarm.due \cup ToSet(fired) : e.name <= adds
      BY <3>3, <3>5
    <3>7. \A e \in eventList' \cap ToSet(fired) :
             alarm.at \in {"relock", "memory"} /\ alarm.cur = e
      BY <3>3, <3>5
    <3> QED
      BY <2>0, <3>2, <3>5, <3>6, <3>7 DEF OnceInv
  <2>6. Goals'
    BY <1>4, <2>0, GoalsKept
  <2> QED
    BY <2>1, <2>2, <2>3, <2>4, <2>5, <2>6
<1>5. ASSUME IInv, NEW c \in Caller, FindNothing(c) PROVE IInv'
  <2>0. /\ call' \in [Caller -> CallType] /\ call'[c].at = "return"
        /\ \A d \in Caller : d # c => call'[d] = call[d]
    BY <1>5, CallGoes DEF CallPC, FindNothing
  <2>1. TypeOK'
    BY <2>0, <1>5 DEF CallType, CallPC, AlarmType, Event, FindNothing
  <2>2. LockInv' /\ StoreInv' /\ DueInv'
    <3>0. /\ up /\ call[c].at = "memory" /\ listLock' = None
          /\ UNCHANGED <<up, now, db, eventList, invocationLock, alarm, queue,
                         dispatched, fired, accepted, dismissed, adds,
                         removes, crashes>>
      BY <1>5 DEF FindNothing
    <3>1. LockInv'
      BY <2>1, <2>0, <1>5 DEF LockInv, AlarmType, FindNothing
    <3>2. StoreInv'
      <4>1. listLock = c
        BY <1>5, <3>0 DEF LockInv
      <4>2. \A d \in Caller : call[d].at # "db"
        BY <1>5, <3>0, <4>1 DEF LockInv
      <4>3. alarm.at # "db" /\ db = eventList
        BY <1>5, <3>0, <4>1, <4>2 DEF LockInv, StoreInv
      <4> QED
        BY <2>0, <3>0, <4>2, <4>3 DEF StoreInv
    <3>3. DueInv'
      BY <2>1, <2>0, <1>5 DEF LockInv, StoreInv, DueInv, isDue, AlarmType, Event,
                        FindNothing
    <3> QED
      BY <3>1, <3>2, <3>3
  <2>3. OnceInv'
    <3>1. UNCHANGED <<eventList, alarm, fired, adds, crashes>>
      BY <1>5 DEF FindNothing
    <3> QED
      BY <1>5, <2>0, <3>1 DEF OnceInv
  <2>4. Goals'
    BY <1>5, GoalsKept DEF FindNothing
  <2> QED
    BY <2>1, <2>2, <2>3, <2>4
<1>6. ASSUME IInv, NEW c \in Caller, WriteDB(c) PROVE IInv'
  <2>0. /\ call[c].at = "db" /\ up /\ listLock' = None
        /\ call' \in [Caller -> CallType] /\ call'[c].at = "return"
        /\ call'[c].op = call[c].op /\ call[c].op \in {"add", "remove"}
        /\ call[c].op = "add" =>
              call[c].event \in Event /\ call'[c].event = call[c].event
        /\ call[c].op = "remove" =>
              call[c].id \in Id /\ call'[c].id = call[c].id
        /\ \A d \in Caller : d # c => call'[d] = call[d]
        /\ IF call[c].op = "add"
           THEN /\ db' = Put(db, call[c].event)
                /\ accepted' = accepted \cup {call[c].event}
                /\ dismissed' = dismissed \cup
                                 {e \in db : e.id = call[c].event.id}
           ELSE /\ db' = WithoutId(db, call[c].id)
                /\ dismissed' = dismissed \cup {e \in db : e.id = call[c].id}
                /\ accepted' = accepted
        /\ UNCHANGED <<up, now, eventList, invocationLock, alarm, queue,
                       dispatched, fired, adds, removes, crashes>>
    BY <1>6, CallGoes DEF WriteDB, CallPC
  <2>1. TypeOK'
    <3>1. /\ db' \in SUBSET Event /\ dismissed' \in SUBSET Event
          /\ accepted' \in SUBSET Event
          /\ \A e, f \in db' : e.id = f.id => e = f
      <4>1. CASE call[c].op = "add"
        BY <1>6, <2>0, <4>1
      <4>2. CASE call[c].op = "remove"
        BY <1>6, <2>0, <4>2
      <4> QED
        BY <2>0, <4>1, <4>2
    <3> QED
      BY <1>6, <2>0, <3>1
  <2>2. LockInv'
    <3>1. listLock = c /\ invocationLock = c /\ c # "alarm" /\ c # None
      BY <1>6, <2>0 DEF LockInv
    <3>2. \A d \in Caller : d # c => call[d].at \notin {"memory", "db"}
      BY <1>6, <3>1 DEF LockInv
    <3>3. \A d \in Caller : call'[d].at \notin {"memory", "db"} /\ d # None
      BY <1>6, <2>0, <3>2
    <3>4. alarm'.at \notin {"memory", "db"} /\ listLock' # "alarm"
      BY <1>6, <2>0, <3>1 DEF LockInv
    <3>5. \A d \in Caller : call'[d].at # "idle" => invocationLock' = d
      BY <1>6, <2>0, <3>1 DEF LockInv
    <3> QED
      BY <2>0, <3>3, <3>4, <3>5 DEF LockInv
  <2>3. StoreInv'
    BY <1>6, <2>0 DEF LockInv, StoreInv, AlarmType
  <2>4. DueInv'
    BY <1>6, <2>0 DEF LockInv, StoreInv, DueInv, AlarmType, Event
  <2>5. OnceInv'
    BY <1>6, <2>0 DEF OnceInv
  <2>6. Goals'
    <3>1. NeverEarly' /\ AtMostOncePerLife'
      BY <1>6, <2>0 DEF Goals, NeverEarly, AtMostOncePerLife
    <3>2. accepted \subseteq accepted'
      BY <2>0
    <3>3. ASSUME NEW e \in accepted', IdIsUnique(e)'
          PROVE  e \in db' \cup dismissed' \cup ToSet(fired)
      <4>1. e \in accepted =>
               IdIsUnique(e) /\ e \in db \cup dismissed \cup ToSet(fired)
        BY <1>6, <3>2, <3>3 DEF IdIsUnique, Goals, AcceptedIsKept
      <4>2. CASE call[c].op = "add"
        BY <2>0, <3>3, <4>1, <4>2
      <4>3. CASE call[c].op = "remove"
        BY <2>0, <3>3, <4>1, <4>3
      <4> QED
        BY <2>0, <4>2, <4>3
    <3>4. AcceptedIsKept'
      BY <2>0, <3>3 DEF AcceptedIsKept
    <3> QED
      BY <3>1, <3>4 DEF Goals
  <2> QED
    BY <2>1, <2>2, <2>3, <2>4, <2>5, <2>6
<1>7. ASSUME IInv, NEW c \in Caller, Return(c) PROVE IInv'
  <2>1. TypeOK'
    BY <1>7 DEF CallType, CallPC, AlarmType, Event, Return
  <2>2. LockInv' /\ StoreInv' /\ DueInv'
    <3>1. LockInv'
      BY <2>1, <1>7 DEF LockInv, AlarmType, Return
    <3>2. StoreInv'
      BY <2>1, <1>7 DEF LockInv, StoreInv, AlarmType, Return
    <3>3. DueInv'
      BY <2>1, <1>7 DEF LockInv, StoreInv, DueInv, isDue, AlarmType, Event,
                        Return
    <3> QED
      BY <3>1, <3>2, <3>3
  <2>3. OnceInv'
    BY <2>1, <1>7 DEF LockInv, StoreInv, OnceInv, AlarmType, Event, Return
  <2>4. Goals'
    BY <1>7, GoalsKept DEF Return
  <2> QED
    BY <2>1, <2>2, <2>3, <2>4
<1> QED
  BY <1>1, <1>2, <1>3, <1>4, <1>5, <1>6, <1>7 DEF CallStep

\* So does a step of the SIGALRM handler ...
LEMMA AlarmInv ==
    IInv /\ ((\E h \in Caller \cup {Other} : Alarm(h)) \/ AlarmStep) => IInv'
<1> USE CallerAssumption, NumberAssumption
    DEF IInv, TypeOK
<1>1. ASSUME IInv, NEW h \in Caller \cup {Other}, Alarm(h) PROVE IInv'
  <2>1. TypeOK'
    BY <1>1 DEF CallType, CallPC, AlarmType, Event, Alarm
  <2>2. LockInv' /\ StoreInv' /\ DueInv'
    <3>1. LockInv'
      BY <2>1, <1>1 DEF LockInv, AlarmType, Alarm
    <3>2. StoreInv'
      BY <2>1, <1>1 DEF LockInv, StoreInv, AlarmType, Alarm
    <3>3. DueInv'
      BY <2>1, <1>1 DEF LockInv, StoreInv, DueInv, isDue, AlarmType, Event,
                        Alarm
    <3> QED
      BY <3>1, <3>2, <3>3
  <2>3. OnceInv'
    BY <2>1, <1>1 DEF LockInv, StoreInv, OnceInv, AlarmType, Event, Alarm
  <2>4. Goals'
    BY <1>1, GoalsKept DEF Alarm
  <2> QED
    BY <2>1, <2>2, <2>3, <2>4
<1>2. ASSUME IInv, GetDueEvents PROVE IInv'
  <2>1. TypeOK'
    BY <1>2 DEF CallType, CallPC, AlarmType, Event, GetDueEvents
  <2>2. LockInv' /\ StoreInv' /\ DueInv'
    <3>1. LockInv'
      BY <2>1, <1>2 DEF LockInv, AlarmType, GetDueEvents
    <3>2. StoreInv'
      BY <2>1, <1>2 DEF LockInv, StoreInv, AlarmType, GetDueEvents
    <3>3. DueInv'
      BY <2>1, <1>2 DEF LockInv, StoreInv, DueInv, isDue, AlarmType, Event,
                        GetDueEvents
    <3> QED
      BY <3>1, <3>2, <3>3
  <2>3. OnceInv'
    BY <2>1, <1>2 DEF LockInv, StoreInv, OnceInv, AlarmType, Event,
                        GetDueEvents
  <2>4. Goals'
    BY <1>2, GoalsKept DEF GetDueEvents
  <2> QED
    BY <2>1, <2>2, <2>3, <2>4
<1>3. ASSUME IInv, NEW e \in alarm.due, Raise(e) PROVE IInv'
  <2>0. /\ e \in Event
        /\ fired' \in Seq(Event) /\ queue' \in Seq(Event)
        /\ DOMAIN fired' = DOMAIN fired \cup {Len(fired) + 1}
        /\ Len(fired) + 1 \notin DOMAIN fired
        /\ \A i \in DOMAIN fired : fired'[i] = fired[i]
        /\ fired'[Len(fired) + 1] = e
        /\ ToSet(fired') = ToSet(fired) \cup {e}
    <3>1. e \in Event /\ fired \in Seq(Event) /\ queue \in Seq(Event)
      BY <1>3 DEF AlarmType
    <3>2. fired' = Append(fired, e) /\ queue' = Append(queue, e)
      BY <1>3 DEF Raise
    <3> QED
      BY <3>1, <3>2, AppendElement
  <2>1. TypeOK'
    BY <2>0, <1>3 DEF CallType, CallPC, AlarmType, Event, Raise
  <2>2. LockInv' /\ StoreInv' /\ DueInv'
    <3>1. LockInv'
      BY <2>1, <2>0, <1>3 DEF LockInv, AlarmType, Raise
    <3>2. StoreInv'
      BY <2>1, <2>0, <1>3 DEF LockInv, StoreInv, AlarmType, Raise
    <3>3. DueInv'
      BY <2>1, <2>0, <1>3 DEF LockInv, StoreInv, DueInv, isDue, AlarmType, Event,
                        Raise
    <3> QED
      BY <3>1, <3>2, <3>3
  <2>3. OnceInv'
    <3>1. SUFFICES ASSUME crashes = 0 PROVE OnceInv'
      BY <1>3 DEF Raise, OnceInv
    <3>2. /\ eventList' = eventList /\ adds' = adds /\ call' = call
          /\ alarm' = [alarm EXCEPT !.at = "relock", !.cur = e,
                                    !.due = @ \ {e}]
      BY <1>3 DEF Raise
    <3>3. /\ alarm'.at = "relock" /\ alarm'.cur = e
          /\ alarm'.due = alarm.due \ {e}
      BY <1>3, <3>2 DEF AlarmType
    <3>4. /\ \A f \in eventList \cup alarm.due \cup ToSet(fired) :
                f.name <= adds
          /\ alarm.due \cap ToSet(fired) = {}
      BY <1>3, <3>1 DEF OnceInv
    <3>5. \A d \in Caller :
             call[d].at \in {"lock", "memory"} /\ call[d].op = "add" =>
               /\ call[d].event.name = adds
               /\ \A f \in eventList \cup alarm.due \cup ToSet(fired) :
                     f.name # adds
      BY <1>3, <3>1 DEF OnceInv
    <3>6. eventList \cap ToSet(fired) = {}
      BY <1>3, <3>1 DEF OnceInv, Raise, AlarmAt
    <3>7. eventList' \cup alarm'.due \cup ToSet(fired') \subseteq
            eventList \cup alarm.due \cup ToSet(fired)
      BY <1>3, <2>0, <3>2, <3>3
    <3>8. alarm'.due \cap ToSet(fired') = {}
      BY <2>0, <3>3, <3>4
    <3>9. \A f \in eventList' \cap ToSet(fired') : f = e
      BY <2>0, <3>2, <3>6
    <3> QED
      BY <3>2, <3>3, <3>4, <3>5, <3>7, <3>8, <3>9 DEF OnceInv
  <2>4. Goals'
    <3>1. NeverEarly'
      <4>1. e.timeout <= now /\ now' = now
        <5>1. e.timeout <= alarm.t /\ alarm.t <= now
          BY <1>3 DEF DueInv
        <5>2. e.timeout \in Nat /\ alarm.t \in Nat /\ now \in Nat
          BY <1>3, <2>0 DEF AlarmType, Event
        <5>3. now' = now
          BY <1>3 DEF Raise
        <5> QED
          BY <5>1, <5>2, <5>3
      <4>2. \A i \in DOMAIN fired : fired[i].timeout <= now
        BY <1>3 DEF NeverEarly, Goals
      <4> QED
        BY <2>0, <4>1, <4>2 DEF NeverEarly
    <3>2. AtMostOncePerLife'
      <4>1. crashes' = 0 => \A i \in DOMAIN fired : fired[i] # e
        BY <1>3 DEF Raise, OnceInv, ToSet
      <4>2. crashes' = 0 => \A i, j \in DOMAIN fired :
                            i # j => fired[i] # fired[j]
        BY <1>3 DEF Raise, Goals, AtMostOncePerLife
      <4>3. crashes' \in Nat
        BY <2>1
      <4> QED
        BY <2>0, <4>1, <4>2, <4>3 DEF AtMostOncePerLife
    <3>3. AcceptedIsKept'
      BY <1>3, <2>0 DEF Raise, Goals, AcceptedIsKept, IdIsUnique
    <3> QED
      BY <3>1, <3>2, <3>3 DEF Goals
  <2> QED
    BY <2>1, <2>2, <2>3, <2>4
<1>4. ASSUME IInv, RelockList PROVE IInv'
  <2>1. TypeOK'
    BY <1>4 DEF CallType, CallPC, AlarmType, Event, RelockList
  <2>2. LockInv' /\ StoreInv' /\ DueInv'
    <3>1. LockInv'
      BY <2>1, <1>4 DEF LockInv, AlarmType, RelockList
    <3>2. StoreInv'
      BY <2>1, <1>4 DEF LockInv, StoreInv, AlarmType, RelockList
    <3>3. DueInv'
      BY <2>1, <1>4 DEF LockInv, StoreInv, DueInv, isDue, AlarmType, Event,
                        RelockList
    <3> QED
      BY <3>1, <3>2, <3>3
  <2>3. OnceInv'
    BY <2>1, <1>4 DEF LockInv, StoreInv, OnceInv, AlarmType, Event, RelockList
  <2>4. Goals'
    BY <1>4, GoalsKept DEF RelockList
  <2> QED
    BY <2>1, <2>2, <2>3, <2>4
<1>5. ASSUME IInv, EraseFired PROVE IInv'
  <2>1. TypeOK'
    BY <1>5 DEF CallType, CallPC, AlarmType, Event, EraseFired
  <2>2. LockInv' /\ StoreInv' /\ DueInv'
    <3>1. LockInv'
      BY <2>1, <1>5 DEF LockInv, AlarmType, EraseFired
    <3>2. StoreInv'
      BY <2>1, <1>5 DEF LockInv, StoreInv, AlarmType, EraseFired
    <3>3. DueInv'
      BY <2>1, <1>5 DEF LockInv, StoreInv, DueInv, isDue, AlarmType, Event,
                        EraseFired
    <3> QED
      BY <3>1, <3>2, <3>3
  <2>3. OnceInv'
    BY <2>1, <1>5 DEF LockInv, StoreInv, OnceInv, AlarmType, Event, EraseFired
  <2>4. Goals'
    BY <1>5, GoalsKept DEF EraseFired
  <2> QED
    BY <2>1, <2>2, <2>3, <2>4
<1>6. ASSUME IInv, FindNothingFired PROVE IInv'
  <2>1. TypeOK'
    BY <1>6 DEF CallType, CallPC, AlarmType, Event, FindNothingFired
  <2>2. LockInv' /\ StoreInv' /\ DueInv'
    <3>1. LockInv'
      BY <2>1, <1>6 DEF LockInv, AlarmType, FindNothingFired
    <3>2. StoreInv'
      BY <2>1, <1>6 DEF LockInv, StoreInv, AlarmType, FindNothingFired
    <3>3. DueInv'
      BY <2>1, <1>6 DEF LockInv, StoreInv, DueInv, isDue, AlarmType, Event,
                        FindNothingFired
    <3> QED
      BY <3>1, <3>2, <3>3
  <2>3. OnceInv'
    BY <2>1, <1>6 DEF LockInv, StoreInv, OnceInv, AlarmType, Event,
                        FindNothingFired
  <2>4. Goals'
    BY <1>6, GoalsKept DEF FindNothingFired
  <2> QED
    BY <2>1, <2>2, <2>3, <2>4
<1>7. ASSUME IInv, DeleteFired PROVE IInv'
  <2>1. TypeOK'
    BY <1>7 DEF CallType, CallPC, AlarmType, Event, DeleteFired
  <2>2. LockInv' /\ StoreInv' /\ DueInv'
    <3>1. LockInv'
      BY <2>1, <1>7 DEF LockInv, AlarmType, DeleteFired
    <3>2. StoreInv'
      BY <2>1, <1>7 DEF LockInv, StoreInv, AlarmType, DeleteFired
    <3>3. DueInv'
      BY <2>1, <1>7 DEF LockInv, StoreInv, DueInv, isDue, AlarmType, Event,
                        DeleteFired
    <3> QED
      BY <3>1, <3>2, <3>3
  <2>3. OnceInv'
    BY <2>1, <1>7 DEF LockInv, StoreInv, OnceInv, AlarmType, Event, DeleteFired
  <2>4. Goals'
    BY <1>7 DEF DueInv, Goals, NeverEarly, AtMostOncePerLife, AcceptedIsKept,
                IdIsUnique, DeleteFired
  <2> QED
    BY <2>1, <2>2, <2>3, <2>4
<1>8. ASSUME IInv, EndAlarm PROVE IInv'
  <2>1. TypeOK'
    BY <1>8 DEF CallType, CallPC, AlarmType, Event, EndAlarm
  <2>2. LockInv' /\ StoreInv' /\ DueInv'
    <3>1. LockInv'
      BY <2>1, <1>8 DEF LockInv, AlarmType, EndAlarm
    <3>2. StoreInv'
      BY <2>1, <1>8 DEF LockInv, StoreInv, AlarmType, EndAlarm
    <3>3. DueInv'
      BY <2>1, <1>8 DEF LockInv, StoreInv, DueInv, isDue, AlarmType, Event,
                        EndAlarm
    <3> QED
      BY <3>1, <3>2, <3>3
  <2>3. OnceInv'
    BY <2>1, <1>8 DEF LockInv, StoreInv, OnceInv, AlarmType, Event, EndAlarm
  <2>4. Goals'
    BY <1>8, GoalsKept DEF EndAlarm
  <2> QED
    BY <2>1, <2>2, <2>3, <2>4
<1> QED
  BY <1>1, <1>2, <1>3, <1>4, <1>5, <1>6, <1>7, <1>8 DEF AlarmStep

\* ... of the event loop, of the clock, a crash and a restart.
LEMMA OtherInv == IInv /\ (Dispatch \/ Tick \/ Crash \/ Restart) => IInv'
<1> USE CallerAssumption, NumberAssumption
    DEF IInv, TypeOK
<1>1. ASSUME IInv, Dispatch PROVE IInv'
  <2>1. TypeOK'
    <3>1. Head(queue) \in Event /\ Tail(queue) \in Seq(Event)
      BY <1>1, HeadTailProperties DEF Dispatch
    <3> QED
      BY <1>1, <3>1 DEF Dispatch
  <2>2. LockInv' /\ StoreInv' /\ DueInv'
    <3>1. LockInv'
      BY <2>1, <1>1 DEF LockInv, AlarmType, Dispatch
    <3>2. StoreInv'
      BY <2>1, <1>1 DEF LockInv, StoreInv, AlarmType, Dispatch
    <3>3. DueInv'
      BY <2>1, <1>1 DEF LockInv, StoreInv, DueInv, isDue, AlarmType, Event,
                        Dispatch
    <3> QED
      BY <3>1, <3>2, <3>3
  <2>3. OnceInv'
    BY <2>1, <1>1 DEF LockInv, StoreInv, OnceInv, AlarmType, Event, Dispatch
  <2>4. Goals'
    BY <1>1, GoalsKept DEF Dispatch
  <2> QED
    BY <2>1, <2>2, <2>3, <2>4
<1>2. ASSUME IInv, Tick PROVE IInv'
  <2>1. TypeOK'
    BY <1>2 DEF CallType, CallPC, AlarmType, Event, Tick
  <2>2. LockInv' /\ StoreInv' /\ DueInv'
    <3>1. LockInv'
      BY <2>1, <1>2 DEF LockInv, AlarmType, Tick
    <3>2. StoreInv'
      BY <2>1, <1>2 DEF LockInv, StoreInv, AlarmType, Tick
    <3>3. DueInv'
      BY <2>1, <1>2 DEF LockInv, StoreInv, DueInv, isDue, AlarmType, Event,
                        Tick
    <3> QED
      BY <3>1, <3>2, <3>3
  <2>3. OnceInv'
    BY <2>1, <1>2 DEF LockInv, StoreInv, OnceInv, AlarmType, Event, Tick
  <2>4. Goals'
    <3>1. NeverEarly'
      <4>1. /\ \A i \in DOMAIN fired : /\ fired[i].timeout <= now
                                       /\ fired[i] \in Event
            /\ now' = now + 1 /\ fired' = fired /\ now \in Nat
        BY <1>2, FiredType DEF Tick, Goals, NeverEarly
      <4> QED
        BY <4>1 DEF NeverEarly, Event
    <3> QED
      BY <1>2, <3>1 DEF Tick, Goals, AtMostOncePerLife, AcceptedIsKept,
                        IdIsUnique
  <2> QED
    BY <2>1, <2>2, <2>3, <2>4
<1>3. ASSUME IInv, Crash PROVE IInv'
  <2>1. TypeOK'
    <3>1. /\ <<>> \in Seq(Event) /\ call' \in [Caller -> CallType]
          /\ alarm' \in AlarmType
      BY <1>3, EmptySeq DEF Crash, CallType, AlarmType
    <3>2. crashes' \in 0..MaxCrashes
      BY <1>3 DEF Crash
    <3> QED
      BY <1>3, <3>1, <3>2 DEF Crash
  <2>2. LockInv' /\ StoreInv' /\ DueInv'
    <3>1. LockInv'
      BY <2>1, <1>3 DEF LockInv, AlarmType, Crash
    <3>2. StoreInv'
      BY <2>1, <1>3 DEF LockInv, StoreInv, AlarmType, Crash
    <3>3. DueInv'
      BY <2>1, <1>3 DEF LockInv, StoreInv, DueInv, isDue, AlarmType, Event,
                        Crash
    <3> QED
      BY <3>1, <3>2, <3>3
  <2>3. OnceInv'
    BY <2>1, <1>3 DEF LockInv, StoreInv, OnceInv, AlarmType, Event, Crash
  <2>4. Goals'
    BY <2>1, <1>3 DEF Goals, NeverEarly, AtMostOncePerLife, AcceptedIsKept,
                IdIsUnique, Crash
  <2> QED
    BY <2>1, <2>2, <2>3, <2>4
<1>4. ASSUME IInv, Restart PROVE IInv'
  <2>1. TypeOK'
    BY <1>4 DEF CallType, CallPC, AlarmType, Event, Restart
  <2>2. LockInv' /\ StoreInv' /\ DueInv'
    <3>1. LockInv'
      BY <2>1, <1>4 DEF LockInv, AlarmType, Restart
    <3>2. StoreInv'
      BY <2>1, <1>4 DEF LockInv, StoreInv, AlarmType, Restart
    <3>3. DueInv'
      BY <2>1, <1>4 DEF LockInv, StoreInv, DueInv, isDue, AlarmType, Event,
                        Restart
    <3> QED
      BY <3>1, <3>2, <3>3
  <2>3. OnceInv'
    BY <2>1, <1>4 DEF LockInv, StoreInv, OnceInv, AlarmType, Event, Restart
  <2>4. Goals'
    BY <1>4, GoalsKept DEF Restart
  <2> QED
    BY <2>1, <2>2, <2>3, <2>4
<1> QED
  BY <1>1, <1>2, <1>3, <1>4

\* The inductive invariant holds in every reachable state.
THEOREM ScheduleInvariance == Spec => []IInv
<1>1. IInv /\ [Next]_vars => IInv'
  <2>1. ASSUME IInv, UNCHANGED vars PROVE IInv'
    BY <2>1 DEF vars, IInv, TypeOK, LockInv, StoreInv, DueInv, OnceInv, Goals,
                NeverEarly, AtMostOncePerLife, AcceptedIsKept, IdIsUnique
  <2> QED
    BY <2>1, CallInv, AlarmInv, OtherInv DEF Next
<1> QED
  BY InitInv, <1>1, PTL DEF Spec

\* The types, and that both lists are maps: no id is there twice.
THEOREM ScheduleTypes == Spec => []TypeOK
<1>1. IInv => TypeOK
  BY DEF IInv
<1> QED
  BY <1>1, ScheduleInvariance, PTL

\* Whenever mListLock is free the database holds the events of the map, so
\* that a crash at that moment loses none.
THEOREM DatabaseSafety == Spec => []DatabaseIsMemory
<1>1. IInv => DatabaseIsMemory
  <2> SUFFICES ASSUME IInv, up, listLock = None PROVE db = eventList
    BY DEF DatabaseIsMemory
  <2>1. alarm.at # "db" /\ \A c \in Caller : call[c].at # "db"
    BY CallerAssumption DEF IInv, LockInv
  <2> QED
    BY <2>1 DEF IInv, StoreInv
<1> QED
  BY <1>1, ScheduleInvariance, PTL

\* No event is raised before its minute.
THEOREM NoEventIsEarly == Spec => []NeverEarly
<1>1. IInv => NeverEarly
  BY DEF IInv, Goals
<1> QED
  BY <1>1, ScheduleInvariance, PTL

\* Without a crash no event is raised twice, whatever the ids and the races of
\* calls with the handler.
THEOREM NoEventIsRepeated == Spec => []AtMostOncePerLife
<1>1. IInv => AtMostOncePerLife
  BY DEF IInv, Goals
<1> QED
  BY <1>1, ScheduleInvariance, PTL

\* A stored event of its own id stays in the database until it is raised or
\* dismissed, through crashes and restarts.
THEOREM NoEventIsForgotten == Spec => []AcceptedIsKept
<1>1. IInv => AcceptedIsKept
  BY DEF IInv, Goals
<1> QED
  BY <1>1, ScheduleInvariance, PTL

-----------------------------------------------------------------------------
(* The schedule implements Agenda *)

\* The copy is made once the handler has the lock.
NothingPicked == alarm.at \in {"none", "lock"} => alarm.due = {}

LEMMA PickedStep == TypeOK /\ NothingPicked /\ [Next]_vars => NothingPicked'
<1> SUFFICES ASSUME TypeOK, NothingPicked, [Next]_vars PROVE NothingPicked'
  OBVIOUS
<1>1. alarm \in AlarmType
  BY DEF TypeOK
<1>2. CASE alarm' = alarm
  BY <1>2 DEF NothingPicked
<1>3. CASE AlarmStep
  <2>1. CASE GetDueEvents
    <3>1. alarm'.at = "each"
      BY <1>1, <2>1 DEF GetDueEvents, AlarmType
    <3> QED
      BY <3>1 DEF NothingPicked
  <2>2. CASE RelockList
    <3>1. alarm'.at = "memory"
      BY <1>1, <2>2 DEF RelockList, AlarmType
    <3> QED
      BY <3>1 DEF NothingPicked
  <2>3. CASE EraseFired
    <3>1. alarm'.at = "db"
      BY <1>1, <2>3 DEF EraseFired, AlarmType
    <3> QED
      BY <3>1 DEF NothingPicked
  <2>4. CASE FindNothingFired \/ DeleteFired
    <3>1. alarm'.at = "each"
      BY <1>1, <2>4 DEF FindNothingFired, DeleteFired, AlarmType
    <3> QED
      BY <3>1 DEF NothingPicked
  <2>5. CASE EndAlarm
    BY <2>5 DEF EndAlarm, NothingPicked
  <2>6. ASSUME NEW e \in alarm.due, Raise(e) PROVE NothingPicked'
    <3>1. alarm'.at = "relock"
      BY <1>1, <2>6 DEF Raise, AlarmType
    <3> QED
      BY <3>1 DEF NothingPicked
  <2> QED
    BY <1>3, <2>1, <2>2, <2>3, <2>4, <2>5, <2>6 DEF AlarmStep
<1>4. CASE (\E h \in Caller \cup {Other} : Alarm(h)) \/ Crash
  <2>1. ASSUME NEW h \in Caller \cup {Other}, Alarm(h) PROVE alarm'.due = {}
    BY <2>1 DEF Alarm
  <2>2. Crash => alarm'.due = {}
    BY DEF Crash
  <2> QED
    BY <1>4, <2>1, <2>2 DEF NothingPicked
<1>5. \/ alarm' = alarm \/ AlarmStep
      \/ (\E h \in Caller \cup {Other} : Alarm(h)) \/ Crash
  <2>1. ASSUME NEW c \in Caller, CallStep(c) PROVE alarm' = alarm
    BY <2>1 DEF CallStep, LockList, WriteMemory, FindNothing, WriteDB, Return
  <2>2. ASSUME NEW c \in Caller, NEW id \in Id, StartRemove(c, id)
        PROVE  alarm' = alarm
    BY <2>2 DEF StartRemove
  <2>3. ASSUME NEW c \in Caller, NEW id \in Id,
               NEW minute \in 0..(DayLength - 1), StartAdd(c, id, minute)
        PROVE  alarm' = alarm
    BY <2>3 DEF StartAdd
  <2>4. Dispatch \/ Tick \/ Restart \/ UNCHANGED vars => alarm' = alarm
    BY DEF Dispatch, Tick, Restart, vars
  <2> QED
    BY <2>1, <2>2, <2>3, <2>4 DEF Next
<1> QED
  BY <1>2, <1>3, <1>4, <1>5

\* A step of a call is one step on the agenda, at its write to the database,
\* or none.
LEMMA CallRefines ==
    ASSUME IInv, NEW c \in Caller, CallStep(c)
    PROVE  TheAgenda!Next \/ UNCHANGED TheAgenda!vars
<1>1. CASE LockList(c) \/ WriteMemory(c) \/ FindNothing(c) \/ Return(c)
  BY <1>1 DEF LockList, WriteMemory, FindNothing, Return, TheAgenda!vars,
              handled
<1>2. CASE WriteDB(c)
  <2>1. call[c].at = "db" /\ call[c] \in CallType
    BY <1>2 DEF WriteDB, IInv, TypeOK
  <2>2. UNCHANGED <<now, alarm, queue, dispatched>>
    BY <1>2 DEF WriteDB
  <2>3. CASE call[c].op = "add"
    <3>1. call[c].event \in Event
      BY <2>1, <2>3 DEF CallType
    <3>2. TheAgenda!Store(call[c].event)
      BY <1>2, <2>2, <2>3 DEF WriteDB, TheAgenda!Store, TheAgenda!Without,
                              handled
    <3> QED
      BY <3>1, <3>2 DEF TheAgenda!Next
  <2>4. CASE call[c].op # "add"
    <3>1. call[c].id \in Id
      BY <2>1, <2>4 DEF CallType
    <3>2. TheAgenda!Dismiss(call[c].id)
      BY <1>2, <2>2, <2>4 DEF WriteDB, TheAgenda!Dismiss, TheAgenda!Without,
                              handled
    <3> QED
      BY <3>1, <3>2 DEF TheAgenda!Next
  <2> QED
    BY <2>3, <2>4
<1> QED
  BY <1>1, <1>2 DEF CallStep

\* The handler picks what the database holds, and takes an event out of it
\* where it writes there, or where it finds that there is nothing to write.
LEMMA AlarmRefines ==
    ASSUME IInv, NothingPicked,
           (\E h \in Caller \cup {Other} : Alarm(h)) \/ AlarmStep
    PROVE  TheAgenda!Next \/ UNCHANGED TheAgenda!vars
<1>0. alarm \in AlarmType /\ eventList \in SUBSET Event /\ now \in Nat
  BY NumberAssumption DEF IInv, TypeOK
<1>1. ASSUME NEW h \in Caller \cup {Other}, Alarm(h)
      PROVE  UNCHANGED TheAgenda!vars
  BY <1>1 DEF Alarm, TheAgenda!vars, handled, NothingPicked
<1>2. CASE GetDueEvents
  <2>1. db = eventList
    <3>1. up /\ listLock = None /\ alarm.at = "lock"
      BY <1>2 DEF GetDueEvents
    <3>2. \A c \in Caller : call[c].at # "db"
      BY <3>1, CallerAssumption DEF IInv, LockInv
    <3> QED
      BY <3>1, <3>2 DEF IInv, StoreInv
  <2>2. alarm.t \in 0..now
    <3>1. alarm.t \in Nat
      BY <1>0, NumberAssumption DEF AlarmType
    <3>2. alarm.t <= now
      BY DEF IInv, DueInv
    <3> QED
      BY <1>0, <3>1, <3>2
  <2>3. /\ alarm.at = "lock" /\ alarm'.at = "each"
        /\ alarm'.due = {e \in eventList : isDue(e, alarm.t)}
        /\ UNCHANGED <<now, db, queue, dispatched>>
    BY <1>0, <1>2 DEF GetDueEvents, AlarmType
  <2>4. \A e \in eventList : isDue(e, alarm.t) <=> e.timeout <= alarm.t
    BY <1>0, <2>2 DEF isDue, Event
  <2>5. alarm'.due = {e \in db : e.timeout <= alarm.t}
    BY <2>1, <2>3, <2>4
  <2>6. TheAgenda!Pick(alarm.t)
    BY <2>3, <2>5 DEF TheAgenda!Pick, handled, NothingPicked
  <2> QED
    BY <2>2, <2>6 DEF TheAgenda!Next
<1>3. ASSUME NEW e \in alarm.due, Raise(e) PROVE TheAgenda!Next
  <2>1. /\ alarm.at = "each" /\ alarm'.at = "relock" /\ alarm'.cur = e
        /\ alarm'.due = alarm.due \ {e}
    BY <1>0, <1>3 DEF Raise, AlarmType
  <2>2. TheAgenda!Raise(e)
    BY <1>3, <2>1 DEF Raise, TheAgenda!Raise, handled
  <2> QED
    BY <2>2 DEF TheAgenda!Next
<1>4. CASE RelockList \/ EraseFired
  <2>1. /\ alarm.at \in {"relock", "memory"} /\ alarm'.at \in {"memory", "db"}
        /\ alarm'.due = alarm.due /\ alarm'.cur = alarm.cur
        /\ UNCHANGED <<now, db, queue, dispatched>>
    BY <1>0, <1>4 DEF RelockList, EraseFired, AlarmType
  <2> QED
    BY <2>1 DEF TheAgenda!vars, handled
<1>5. CASE FindNothingFired \/ DeleteFired
  <2>1. /\ alarm.at \in {"memory", "db"} /\ alarm'.at = "each"
        /\ alarm'.due = alarm.due
        /\ UNCHANGED <<now, queue, dispatched>>
    BY <1>0, <1>5 DEF FindNothingFired, DeleteFired, AlarmType
  <2>2. db' = {e \in db : e.id # alarm.cur.id}
    <3>1. CASE DeleteFired
      BY <3>1 DEF DeleteFired
    <3>2. CASE FindNothingFired
      <4>1. /\ up /\ alarm.at = "memory" /\ db' = db
            /\ \A e \in eventList : e.id # alarm.cur.id
        BY <3>2 DEF FindNothingFired
      <4>2. listLock = "alarm"
        BY <4>1 DEF IInv, LockInv
      <4>3. \A c \in Caller : call[c].at # "db"
        BY <4>2, CallerAssumption DEF IInv, LockInv
      <4>4. db = eventList
        BY <4>1, <4>3 DEF IInv, StoreInv
      <4> QED
        BY <4>1, <4>4
    <3> QED
      BY <1>5, <3>1, <3>2
  <2>3. handled = {alarm.cur} /\ handled' = {}
    BY <2>1 DEF handled
  <2>4. TheAgenda!TakeOut(alarm.cur)
    BY <2>1, <2>2, <2>3 DEF TheAgenda!TakeOut, TheAgenda!Without
  <2> QED
    BY <2>3, <2>4 DEF TheAgenda!Next
<1>6. CASE EndAlarm
  BY <1>6 DEF EndAlarm, TheAgenda!vars, handled
<1> QED
  BY <1>1, <1>2, <1>3, <1>4, <1>5, <1>6 DEF AlarmStep

\* Every other step: a request, the event loop, the clock, a crash, a restart.
LEMMA OtherRefines ==
    ASSUME TypeOK,
           \/ \E c \in Caller, id \in Id :
                 StartRemove(c, id)
                 \/ \E minute \in 0..(DayLength - 1) : StartAdd(c, id, minute)
           \/ Dispatch \/ Tick \/ Crash \/ Restart \/ UNCHANGED vars
    PROVE  TheAgenda!Next \/ UNCHANGED TheAgenda!vars
<1>1. ASSUME NEW c \in Caller, NEW id \in Id, StartRemove(c, id)
      PROVE  UNCHANGED TheAgenda!vars
  BY <1>1 DEF StartRemove, TheAgenda!vars, handled
<1>2. ASSUME NEW c \in Caller, NEW id \in Id,
             NEW minute \in 0..(DayLength - 1), StartAdd(c, id, minute)
      PROVE  UNCHANGED TheAgenda!vars
  BY <1>2 DEF StartAdd, TheAgenda!vars, handled
<1>3. CASE Dispatch
  <2>1. TheAgenda!Tell
    BY <1>3 DEF Dispatch, TheAgenda!Tell, handled
  <2> QED
    BY <2>1 DEF TheAgenda!Next
<1>4. CASE Tick
  <2>1. TheAgenda!Pass
    BY <1>4 DEF Tick, TheAgenda!Pass, handled
  <2> QED
    BY <2>1 DEF TheAgenda!Next
<1>5. CASE Crash
  <2>1. TheAgenda!Crash
    BY <1>5 DEF Crash, TheAgenda!Crash, handled
  <2> QED
    BY <2>1 DEF TheAgenda!Next
<1>6. CASE Restart \/ UNCHANGED vars
  BY <1>6 DEF Restart, vars, TheAgenda!vars, handled
<1> QED
  BY <1>1, <1>2, <1>3, <1>4, <1>5, <1>6

\* Storing, dismissing, raising and taking out act on the database as if they
\* were single steps, whatever calls, handlers and crashes interleave: the
\* schedule implements Agenda.
THEOREM ScheduleIsAnAgenda == Spec => OperationsAreAtomic
<1>1. Init => TheAgenda!Init /\ NothingPicked
  BY DEF Init, TheAgenda!Init, handled, NothingPicked
<1>2. IInv /\ NothingPicked /\ [Next]_vars => [TheAgenda!Next]_(TheAgenda!vars)
  <2> SUFFICES ASSUME IInv, NothingPicked, [Next]_vars
               PROVE  TheAgenda!Next \/ UNCHANGED TheAgenda!vars
    OBVIOUS
  <2>1. TypeOK
    BY DEF IInv
  <2>2. \/ \E c \in Caller : CallStep(c)
        \/ (\E h \in Caller \cup {Other} : Alarm(h)) \/ AlarmStep
        \/ \E c \in Caller, id \in Id :
              StartRemove(c, id)
              \/ \E minute \in 0..(DayLength - 1) : StartAdd(c, id, minute)
        \/ Dispatch \/ Tick \/ Crash \/ Restart \/ UNCHANGED vars
    BY DEF Next
  <2> QED
    BY <2>1, <2>2, CallRefines, AlarmRefines, OtherRefines
<1>3. IInv => TypeOK
  BY DEF IInv
<1> QED
  BY <1>1, <1>2, <1>3, PickedStep, ScheduleInvariance, PTL
     DEF Spec, OperationsAreAtomic, TheAgenda!Spec
=============================================================================
