---------------------------- MODULE InsteonProofs ----------------------------
(***************************************************************************)
(* What holds of Insteon for any devices, any number of requests, changes  *)
(* by hand, faults and link records: one device at most owes an ACK, and   *)
(* none does while the modem is asked for a record; when nothing is on its *)
(* way, every object holds the level of its device and the last event told *)
(* it to the script.                                                       *)
(***************************************************************************)
EXTENDS Insteon, TLAPS

\* An object of mModules, and what the modem sends.  The level of a cleanup is
\* in cmd1, that of the other messages in cmd2.
Object == [known : {TRUE}, status : {"idle", "waiting"},
           last : DirectCommand \cup {"zero", "garbage"}, param : Level,
           initialized : BOOLEAN, told : Level \cup {"none"}]
Kind == {"echo", "nak", "garbage", "record", "ack", "devnak", "cleanup",
         "stopped", "broadcast"}
Messages == [kind : Kind \ {"cleanup"}, from : Device \cup {Modem},
             cmd1 : DirectCommand \cup {"zero"}, cmd2 : Level, again : BOOLEAN]
            \cup [kind : {"cleanup"}, from : Device, cmd1 : Level,
                  cmd2 : Level, again : BOOLEAN]

\* The types, those of the messages in transit among them.
QueueOK == commandQueue \in Seq(Command) /\ waitingForResponse \in BOOLEAN
ThreadOK == pc \in {"scan", "echo", "read", "message"} /\ sending \in Command
DevOK == dev \in [Device -> {NoDevice} \cup Object]
LinkOK == link \in {"closed", "open", "broken"}
LineOK == line \in Seq(Command) /\ repeats \in SUBSET Messages
InboundOK == inbound \in Seq(Messages)
LevelOK == level \in [Device -> Level]
Types == QueueOK /\ ThreadOK /\ DevOK /\ LinkOK /\ LineOK /\ InboundOK
         /\ LevelOK

\* A command is sent when nobody owes an answer, and nobody does until its echo
\* has come.
SendInv == pc = "echo" => AllIdle /\ ~waitingForResponse

IInv == Types /\ SendInv /\ OneOutstanding

-----------------------------------------------------------------------------
(* What is unchanged, and what data the actions make. *)

LEMMA Frames ==
    ASSUME Types
    PROVE  /\ UNCHANGED <<commandQueue, waitingForResponse>> => QueueOK'
           /\ UNCHANGED <<pc, sending>> => ThreadOK'
           /\ UNCHANGED dev => DevOK'
           /\ UNCHANGED link => LinkOK'
           /\ UNCHANGED <<line, repeats>> => LineOK'
           /\ UNCHANGED inbound => InboundOK'
           /\ UNCHANGED level => LevelOK'
BY DEF Types, QueueOK, ThreadOK, DevOK, LinkOK, LineOK, InboundOK, LevelOK

\* Nobody waits who did not before.
LEMMA NobodyElseWaits ==
    ASSUME SendInv, OneOutstanding, \A d \in Device : Waits(d)' => Waits(d),
           waitingForResponse' => waitingForResponse,
           pc' = "echo" => pc = "echo"
    PROVE  SendInv' /\ OneOutstanding'
<1>1. \A d \in Known' : d \in Device
  BY DEF Known
<1>2. AllIdle => AllIdle'
  BY <1>1 DEF AllIdle, Waits
<1>3. OneOutstanding'
  BY <1>1, <1>2 DEF OneOutstanding, Waits
<1>4. SendInv'
  BY <1>2 DEF SendInv
<1> QED
  BY <1>3, <1>4

LEMMA SameObjects ==
    ASSUME UNCHANGED dev
    PROVE  Known' = Known /\ AllIdle' = AllIdle
           /\ \A d \in Device : Waits(d)' = Waits(d)
BY DEF Known, AllIdle, Waits

\* A known device has an object.
LEMMA KnownObject ==
    ASSUME DevOK, NEW d \in Device
    PROVE  /\ d \in Known => dev[d] \in Object
           /\ d \notin Known => dev[d] = NoDevice
<1>1. NoDevice.known = FALSE
  BY DEF NoDevice
<1>2. \A o \in Object : o.known = TRUE
  BY DEF Object
<1>3. dev[d] = NoDevice \/ dev[d] \in Object
  BY DEF DevOK
<1> QED
  BY <1>1, <1>2, <1>3 DEF Known

LEMMA CommandsTo ==
    ASSUME NEW d \in Device, NEW cs \in Seq(DirectCommand)
    PROVE  To(d, cs) \in Seq(Command)
<1>1. /\ Len(cs) \in Nat /\ DOMAIN cs = 1..Len(cs)
      /\ \A i \in 1..Len(cs) : cs[i] \in DirectCommand
  OBVIOUS
<1>2. \A i \in 1..Len(cs) : [to |-> d, cmd |-> cs[i]] \in Command
  BY <1>1 DEF Command
<1> QED
  BY <1>1, <1>2 DEF To

LEMMA CommandsToModem ==
    ASSUME NEW c \in ModemCommand
    PROVE  To(Modem, <<c>>) \in Seq(Command)
<1> DEFINE q == <<c>>
<1>1. Len(q) = 1 /\ q[1] = c /\ DOMAIN q = 1..1
  OBVIOUS
<1>2. [to |-> Modem, cmd |-> c] \in Command
  BY DEF Command
<1> HIDE DEF q
<1>3. To(Modem, q) = [i \in 1..1 |-> [to |-> Modem, cmd |-> c]]
  BY <1>1 DEF To
<1>4. To(Modem, q) \in Seq(Command)
  BY <1>2, <1>3
<1> QED
  BY <1>4 DEF q

LEMMA QueueMore ==
    ASSUME QueueOK, NEW cs \in Seq(Command),
           commandQueue' = commandQueue \o cs, UNCHANGED waitingForResponse
    PROVE  QueueOK'
BY DEF QueueOK

LEMMA PlainMessages ==
    /\ Echo \in Messages /\ Nak \in Messages /\ Garbage \in Messages
    /\ Record \in Messages
BY DEF Echo, Nak, Garbage, Record, Plain, Messages, Kind, Level

LEMMA FirstMessage ==
    ASSUME InboundOK, inbound # <<>>
    PROVE  Head(inbound) \in Messages /\ Tail(inbound) \in Seq(Messages)
BY DEF InboundOK

LEMMA SentMessages ==
    ASSUME InboundOK, NEW ms \in Seq(Messages), Sent(ms)
    PROVE  InboundOK'
BY DEF InboundOK, Sent

LEMMA InitInv == Init => IInv
<1> SUFFICES ASSUME Init PROVE IInv
  OBVIOUS
<1>1. [to |-> Modem, cmd |-> "config"] \in Command
  BY DEF Command, ModemCommand
<1>2. QueueOK /\ ThreadOK
  BY <1>1 DEF Init, QueueOK, ThreadOK
<1>3. DevOK /\ LinkOK /\ LineOK /\ InboundOK /\ LevelOK
  BY DEF Init, DevOK, LinkOK, LineOK, InboundOK, LevelOK
<1>4. Known = {}
  BY DEF Init, Known, NoDevice
<1>5. SendInv /\ OneOutstanding
  BY <1>4 DEF Init, SendInv, OneOutstanding, AllIdle
<1> QED
  BY <1>2, <1>3, <1>5 DEF IInv, Types

-----------------------------------------------------------------------------
(* The service calls *)

LEMMA CallInv ==
    ASSUME IInv, Call
    PROVE  IInv'
<1>0. Types /\ SendInv /\ OneOutstanding /\ QueueOK /\ DevOK
  BY DEF IInv, Types
<1>1. ASSUME NEW d \in Device, AddModule(d)
      PROVE  IInv'
  <2> DEFINE o == [known |-> TRUE, status |-> "idle", last |-> "garbage",
                   param |-> "off", initialized |-> FALSE, told |-> "none"]
             q == <<IF d \in EZFlora THEN "meter" ELSE "query">>
  <2>1. o \in Object
    BY DEF Object, Level
  <2>2. dev' = [dev EXCEPT ![d] = o] /\ o.status = "idle"
    BY <1>1 DEF AddModule
  <2> HIDE DEF o
  <2>3. DevOK'
    BY <1>0, <2>1, <2>2 DEF DevOK
  <2>4. q \in Seq(DirectCommand)
    BY DEF DirectCommand
  <2>5. QueueOK'
    BY <1>0, <1>1, <2>4, CommandsTo, QueueMore DEF AddModule
  <2>6. \A e \in Device : Waits(e)' => Waits(e)
    BY <1>0, <2>2 DEF Waits, Known, DevOK
  <2>7. UNCHANGED <<waitingForResponse, pc, sending, link, line, repeats,
                    level, inbound>>
    BY <1>1 DEF AddModule, outside
  <2>8. SendInv' /\ OneOutstanding'
    BY <1>0, <2>6, <2>7, NobodyElseWaits
  <2> QED
    BY <1>0, <2>3, <2>5, <2>7, <2>8, Frames DEF IInv, Types
<1>2. CASE ClearModules
  <2>1. UNCHANGED <<commandQueue, waitingForResponse, pc, sending, link, line,
                    repeats, level, inbound>>
    BY <1>2 DEF ClearModules, outside
  <2>2. DevOK'
    BY <1>2 DEF ClearModules, DevOK
  <2>3. \A e \in Device : ~Waits(e)'
    BY <1>2 DEF ClearModules, Waits, Known, NoDevice
  <2>4. SendInv' /\ OneOutstanding'
    BY <1>0, <2>1, <2>3, NobodyElseWaits
  <2> QED
    BY <1>0, <2>1, <2>2, <2>4, Frames DEF IInv, Types
<1>3. ASSUME QueueOK', UNCHANGED <<waitingForResponse, pc, sending, dev, link,
                                   outside, inbound>>
      PROVE  IInv'
  <2>1. SendInv' /\ OneOutstanding'
    BY <1>0, <1>3, SameObjects, NobodyElseWaits
  <2> QED
    BY <1>0, <1>3, <2>1, Frames DEF IInv, Types, outside
<1>4. ASSUME NEW d \in Device, NEW cs \in Seq(DirectCommand), Request(d, cs)
      PROVE  IInv'
  <2>1. QueueOK'
    BY <1>0, <1>4, CommandsTo, QueueMore DEF Request
  <2> QED
    BY <1>3, <1>4, <2>1 DEF Request
<1>5. ASSUME NEW d \in Device, SwitchCall(d)
      PROVE  IInv'
  <2>1. /\ <<"on">> \in Seq(DirectCommand) /\ <<"off">> \in Seq(DirectCommand)
        /\ <<"meter", "on">> \in Seq(DirectCommand)
        /\ <<>> \in Seq(DirectCommand)
    BY DEF DirectCommand
  <2>2. TurnOff(d) \in Seq(DirectCommand)
    BY <2>1 DEF TurnOff
  <2>3. TurnOn(d) \in Seq(DirectCommand)
    BY <2>1 DEF TurnOn, Device
  <2>4. Toggle(d) \in Seq(DirectCommand)
    BY <2>1, <2>2, <2>3 DEF Toggle, Device
  <2> QED
    BY <1>4, <1>5, <2>2, <2>3, <2>4 DEF SwitchCall
<1>6. ASSUME NEW d \in EZFlora, EZFloraCall(d)
      PROVE  IInv'
  <2>1. d \in Device
    BY DEF Device
  <2>2. /\ <<"meter">> \in Seq(DirectCommand)
        /\ <<"program">> \in Seq(DirectCommand)
    BY DEF DirectCommand
  <2> QED
    BY <1>4, <1>6, <2>1, <2>2 DEF EZFloraCall
<1>7. CASE RefreshLinks
  <2>1. To(Modem, <<"first">>) \in Seq(Command)
    BY CommandsToModem DEF ModemCommand
  <2>2. QueueOK'
    BY <1>0, <1>7, <2>1, QueueMore DEF RefreshLinks
  <2> QED
    BY <1>3, <1>7, <2>2 DEF RefreshLinks
<1> QED
  BY <1>1, <1>2, <1>5, <1>6, <1>7 DEF Call

-----------------------------------------------------------------------------
(* The Insteon thread *)

\* An object that learns a level is one, and waits only if it did.
LEMMA ObjectLearns ==
    ASSUME NEW o \in Object, NEW v \in Level
    PROVE  /\ Learnt(o, v) \in Object /\ Queried(o, v) \in Object
           /\ [o EXCEPT !.param = v] \in Object
           /\ Learnt(o, v).status = o.status /\ Queried(o, v).status = o.status
           /\ [o EXCEPT !.param = v].status = o.status
<1>1. Learnt(o, v) \in Object
  BY DEF Learnt, Object
<1>2. Learnt(o, v).status = o.status
  BY DEF Learnt, Object
<1>3. Queried(o, v) \in Object
  BY DEF Queried, Object
<1>4. Queried(o, v).status = o.status
  BY DEF Queried, Object
<1>5. [o EXCEPT !.param = v] \in Object
      /\ [o EXCEPT !.param = v].status = o.status
  BY DEF Object
<1> QED
  BY <1>1, <1>2, <1>3, <1>4, <1>5

LEMMA EventObject ==
    ASSUME DevOK, NEW d \in Known, NEW last, NEW m \in Messages
    PROVE  /\ ProcessEvent(d, last, m) \in Object
           /\ ProcessEvent(d, last, m).status = dev[d].status
<1>1. d \in Device
  BY DEF Known
<1> DEFINE o == dev[d]
<1>2. o \in Object
  BY <1>1, KnownObject
<1>3. m.cmd2 \in Level
  BY DEF Messages
<1>4. m.kind = "cleanup" => m.cmd1 \in Level
  BY DEF Messages, Kind
<1>5. CASE d \in Switch
  <2>1. ProcessEvent(d, last, m) = SwitchEvent(o, last, m)
    BY <1>5, DeviceAssumption DEF ProcessEvent
  <2> HIDE DEF o
  <2>2. /\ SwitchEvent(o, last, m) \in Object
        /\ SwitchEvent(o, last, m).status = o.status
    BY <1>2, <1>3, ObjectLearns DEF SwitchEvent
  <2> QED
    BY <2>1, <2>2 DEF o
<1>6. CASE d \in IOLinc
  <2>1. ProcessEvent(d, last, m) = IOLincEvent(o, last, m)
    BY <1>6, DeviceAssumption DEF ProcessEvent
  <2> HIDE DEF o
  <2>2. /\ IOLincEvent(o, last, m) \in Object
        /\ IOLincEvent(o, last, m).status = o.status
    BY <1>2, <1>3, <1>4, ObjectLearns DEF IOLincEvent
  <2> QED
    BY <2>1, <2>2 DEF o
<1>7. CASE d \in EZFlora
  <2>1. ProcessEvent(d, last, m) = EZFloraEvent(o, last, m)
    BY <1>7, DeviceAssumption DEF ProcessEvent
  <2> HIDE DEF o
  <2>2. /\ EZFloraEvent(o, last, m) \in Object
        /\ EZFloraEvent(o, last, m).status = o.status
    BY <1>2, <1>3, ObjectLearns DEF EZFloraEvent
  <2> QED
    BY <2>1, <2>2 DEF o
<1> QED
  BY <1>1, <1>5, <1>6, <1>7 DEF Device

LEMMA HandledObject ==
    ASSUME DevOK, NEW d \in Known, NEW last, NEW m \in Messages
    PROVE  /\ Handled(d, last, m) \in Object
           /\ Handled(d, last, m).status \in {"idle", dev[d].status}
<1> DEFINE o == ProcessEvent(d, last, m)
<1>1. o \in Object /\ o.status = dev[d].status
  BY EventObject
<1> HIDE DEF o
<1>2. [o EXCEPT !.status = "idle", !.last = "zero"] \in Object
  BY <1>1 DEF Object
<1>3. [o EXCEPT !.status = "idle", !.last = "zero"].status = "idle"
  BY <1>1 DEF Object
<1>4. [o EXCEPT !.status = "idle"] \in Object
      /\ [o EXCEPT !.status = "idle"].status = "idle"
  BY <1>1 DEF Object
<1>5. Handled(d, last, m) \in
          {o, [o EXCEPT !.status = "idle"],
           [o EXCEPT !.status = "idle", !.last = "zero"]}
  BY DEF Handled, o
<1> QED
  BY <1>1, <1>2, <1>3, <1>4, <1>5

\* One object at most is replaced, by one that does not wait unless it did.
LEMMA ReplaceObject ==
    ASSUME DevOK, NEW d \in Known, NEW o \in Object,
           o.status \in {"idle", dev[d].status}, dev' = [dev EXCEPT ![d] = o]
    PROVE  DevOK' /\ \A e \in Device : Waits(e)' => Waits(e)
<1>1. d \in Device /\ dev[d].known
  BY DEF Known
<1>2. \A e \in Device : dev'[e] = IF e = d THEN o ELSE dev[e]
  BY DEF DevOK
<1> QED
  BY <1>1, <1>2 DEF DevOK, Waits, Known

\* Whoever leaves the objects alone and starts no command keeps the invariant.
LEMMA SameInv ==
    ASSUME SendInv, OneOutstanding, UNCHANGED dev,
           waitingForResponse' => waitingForResponse,
           pc' = "echo" => pc = "echo"
    PROVE  SendInv' /\ OneOutstanding'
BY SameObjects, NobodyElseWaits

\* A message is read and dropped, or nothing is: the thread only moves on.
LEMMA MovesOn ==
    ASSUME IInv, NEW p \in {"scan", "read", "message"}, pc' = p,
           UNCHANGED <<commandQueue, waitingForResponse, sending, dev, link,
                       outside>>,
           InboundOK'
    PROVE  IInv'
<1>1. Types /\ SendInv /\ OneOutstanding
  BY DEF IInv
<1>2. ThreadOK'
  BY <1>1 DEF Types, ThreadOK
<1>3. SendInv' /\ OneOutstanding'
  BY <1>1, SameInv
<1> QED
  BY <1>1, <1>2, <1>3, Frames DEF IInv, Types, outside

LEMMA ExpireInv ==
    ASSUME IInv, NEW d \in Device, Expire(d)
    PROVE  IInv'
<1>1. Types /\ SendInv /\ OneOutstanding /\ DevOK /\ d \in Known
  BY DEF IInv, Types, Expire, Waits
<1> DEFINE o == [dev[d] EXCEPT !.status = "idle"]
<1>2. dev[d] \in Object
  BY <1>1, KnownObject
<1>3. o \in Object /\ o.status = "idle"
  BY <1>2 DEF Object
<1>4. dev' = [dev EXCEPT ![d] = o]
  BY DEF Expire
<1> HIDE DEF o
<1>5. DevOK' /\ \A e \in Device : Waits(e)' => Waits(e)
  BY <1>1, <1>3, <1>4, ReplaceObject
<1>6. UNCHANGED <<commandQueue, waitingForResponse, pc, sending, link, line,
                  repeats, level, inbound>>
  BY DEF Expire, outside
<1>7. SendInv' /\ OneOutstanding'
  BY <1>1, <1>5, <1>6, NobodyElseWaits
<1> QED
  BY <1>1, <1>5, <1>6, <1>7, Frames DEF IInv, Types

LEMMA WriteInv ==
    ASSUME IInv, Write
    PROVE  IInv'
<1>1. Types /\ SendInv /\ OneOutstanding /\ QueueOK /\ LineOK /\ InboundOK
  BY DEF IInv, Types
<1>2. sending' \in Command /\ commandQueue' \in Seq(Command)
  BY <1>1 DEF Write, MaySend, QueueOK
<1>3. QueueOK' /\ ThreadOK'
  BY <1>1, <1>2 DEF Write, Goes, QueueOK, ThreadOK
<1>4. line' = line \/ line' = Append(line, sending')
  BY DEF Write, Accept, Refuse
<1>5. LineOK'
  BY <1>1, <1>2, <1>4 DEF Write, LineOK
<1>6. inbound' \in {inbound, Append(inbound, Echo), Append(inbound, Nak)}
  BY DEF Write, Accept, Refuse
<1>7. InboundOK'
  BY <1>1, <1>6, PlainMessages DEF InboundOK
<1>8. UNCHANGED <<dev, link, level, waitingForResponse>>
  BY DEF Write
<1>9. SendInv' /\ OneOutstanding'
  <2>1. AllIdle /\ ~waitingForResponse
    BY DEF Write, MaySend
  <2>2. AllIdle' /\ ~waitingForResponse'
    BY <1>8, <2>1, SameObjects
  <2> QED
    BY <2>2 DEF SendInv, OneOutstanding, AllIdle
<1> QED
  BY <1>1, <1>3, <1>5, <1>7, <1>8, <1>9, Frames DEF IInv, Types

\* The device that the command is for waits, and nobody else.
LEMMA EchoReadInv ==
    ASSUME IInv, EchoRead
    PROVE  IInv'
<1>1. Types /\ SendInv /\ OneOutstanding /\ QueueOK /\ ThreadOK /\ DevOK
      /\ InboundOK
  BY DEF IInv, Types
<1>2. AllIdle /\ ~waitingForResponse
  BY <1>1 DEF EchoRead, SendInv
<1>3. QueueOK' /\ ThreadOK' /\ InboundOK'
  BY <1>1, FirstMessage DEF EchoRead, Goes, QueueOK, ThreadOK, InboundOK
<1>4. UNCHANGED <<link, line, repeats, level>> /\ pc' = "read"
  BY DEF EchoRead, Goes, outside
<1>5. CASE sending.to \in Known
  <2> DEFINE d == sending.to
             o == [dev[d] EXCEPT !.last = sending.cmd, !.status = "waiting"]
  <2>1. d \in Device /\ dev[d] \in Object
    BY <1>1, <1>5, KnownObject DEF Known
  <2>2. sending.cmd \in DirectCommand
    BY <1>1, <2>1, DeviceAssumption DEF ThreadOK, Command
  <2>3. o \in Object
    BY <2>1, <2>2 DEF Object
  <2>4. dev' = [dev EXCEPT ![d] = o]
    BY <1>5 DEF EchoRead
  <2> HIDE DEF o
  <2>5. DevOK' /\ \A e \in Device : e # d => dev'[e] = dev[e]
    BY <1>1, <2>1, <2>3, <2>4 DEF DevOK
  <2>6. \A e \in Known' : Waits(e)' => e = d
    BY <1>2, <2>5 DEF Known, Waits, AllIdle
  <2>7. ~waitingForResponse'
    BY <1>2, <2>2 DEF EchoRead, DirectCommand
  <2>8. SendInv' /\ OneOutstanding'
    BY <1>4, <2>6, <2>7 DEF SendInv, OneOutstanding
  <2> QED
    BY <1>1, <1>3, <1>4, <2>5, <2>8, Frames DEF IInv, Types
<1>6. CASE sending.to \notin Known
  <2>1. UNCHANGED dev
    BY <1>6 DEF EchoRead
  <2>2. AllIdle' /\ pc' = "read"
    BY <1>2, <1>4, <2>1, SameObjects
  <2>3. SendInv' /\ OneOutstanding'
    BY <2>2 DEF SendInv, OneOutstanding, AllIdle
  <2> QED
    BY <1>1, <1>3, <1>4, <2>1, <2>3, Frames DEF IInv, Types
<1> QED
  BY <1>5, <1>6

LEMMA DeviceMessageInv ==
    ASSUME IInv, DeviceMessage
    PROVE  IInv'
<1> DEFINE m == Head(inbound)
           d == m.from
<1>1. Types /\ SendInv /\ OneOutstanding /\ QueueOK /\ ThreadOK /\ DevOK
      /\ InboundOK /\ inbound # <<>> /\ d \in Known
  BY DEF IInv, Types, DeviceMessage
<1>2. m \in Messages /\ Tail(inbound) \in Seq(Messages)
  BY <1>1, FirstMessage
<1>3. InboundOK' /\ pc' = "scan" /\ UNCHANGED <<waitingForResponse, sending,
                                      link, line, repeats, level>>
  BY <1>2 DEF DeviceMessage, InboundOK, Goes, outside
<1>4. ThreadOK'
  BY <1>1, <1>3 DEF ThreadOK
<1>5. PICK last \in LastSent(d) :
          \/ UNCHANGED <<dev, commandQueue>>
          \/ /\ dev' = [dev EXCEPT ![d] = Handled(d, last, m)]
             /\ commandQueue' = commandQueue \o QueryAfterStop(d, m)
  BY DEF DeviceMessage
<1> HIDE DEF m
<1>6. CASE UNCHANGED <<dev, commandQueue>>
  <2>1. SendInv' /\ OneOutstanding'
    BY <1>1, <1>3, <1>6, SameInv
  <2> QED
    BY <1>1, <1>3, <1>4, <1>6, <2>1, Frames DEF IInv, Types
<1>7. CASE /\ dev' = [dev EXCEPT ![d] = Handled(d, last, m)]
           /\ commandQueue' = commandQueue \o QueryAfterStop(d, m)
  <2>1. /\ Handled(d, last, m) \in Object
        /\ Handled(d, last, m).status \in {"idle", dev[d].status}
    BY <1>1, <1>2, HandledObject
  <2>2. DevOK' /\ \A e \in Device : Waits(e)' => Waits(e)
    BY <1>1, <1>7, <2>1, ReplaceObject
  <2>3. d \in Device /\ <<"query">> \in Seq(DirectCommand)
    BY <1>1 DEF Known, DirectCommand
  <2>4. QueryAfterStop(d, m) \in Seq(Command)
    <3>1. To(d, <<"query">>) \in Seq(Command)
      BY <2>3, CommandsTo
    <3>2. <<>> \in Seq(Command)
      OBVIOUS
    <3> QED
      BY Zenon, <3>1, <3>2 DEF QueryAfterStop
  <2>5. QueueOK'
    BY <1>1, <1>3, <1>7, <2>4, QueueMore
  <2>6. SendInv' /\ OneOutstanding'
    BY <1>1, <1>3, <2>2, NobodyElseWaits
  <2> QED
    BY <1>1, <1>3, <1>4, <2>2, <2>5, <2>6, Frames DEF IInv, Types
<1> QED
  BY <1>5, <1>6, <1>7

LEMMA RecordMessageInv ==
    ASSUME IInv, RecordMessage
    PROVE  IInv'
<1>1. Types /\ SendInv /\ OneOutstanding /\ QueueOK /\ ThreadOK /\ InboundOK
  BY DEF IInv, Types
<1> DEFINE q == To(Modem, <<"next">>)
<1>2. q \in Seq(Command)
  BY CommandsToModem DEF ModemCommand
<1>3. commandQueue' = commandQueue \o q /\ waitingForResponse' = FALSE
  BY DEF RecordMessage
<1> HIDE DEF q
<1>4. commandQueue' \in Seq(Command)
  BY <1>1, <1>2, <1>3 DEF QueueOK
<1>5. QueueOK'
  BY Zenon, <1>3, <1>4 DEF QueueOK
<1>6. InboundOK' /\ ThreadOK'
  BY <1>1, FirstMessage DEF RecordMessage, Goes, InboundOK, ThreadOK
<1>7. UNCHANGED <<dev, link, line, repeats, level>>
      /\ ~waitingForResponse' /\ pc' = "scan"
  BY DEF RecordMessage, Goes, outside
<1>8. SendInv' /\ OneOutstanding'
  BY <1>1, <1>7, SameInv
<1> QED
  BY <1>1, <1>5, <1>6, <1>7, <1>8, Frames DEF IInv, Types

LEMMA ThreadInv ==
    ASSUME IInv, Thread
    PROVE  IInv'
<1>1. Types /\ SendInv /\ OneOutstanding /\ InboundOK
  BY DEF IInv, Types
<1>2. inbound # <<>> => Tail(inbound) \in Seq(Messages)
  BY <1>1, FirstMessage
<1>3. CASE Connect
  <2>1. UNCHANGED <<commandQueue, waitingForResponse, pc, sending, dev, line,
                    repeats, level, inbound>> /\ LinkOK'
    BY <1>3 DEF Connect, thread, outside, LinkOK
  <2>2. SendInv' /\ OneOutstanding'
    BY <1>1, <2>1, SameInv
  <2> QED
    BY <1>1, <2>1, <2>2, Frames DEF IInv, Types
<1>4. CASE EndOfStream
  <2>1. UNCHANGED <<commandQueue, waitingForResponse, pc, sending, dev, line,
                    repeats, level, inbound>> /\ LinkOK'
    BY <1>4 DEF EndOfStream, thread, outside, LinkOK
  <2>2. SendInv' /\ OneOutstanding'
    BY <1>1, <2>1, SameInv
  <2> QED
    BY <1>1, <2>1, <2>2, Frames DEF IInv, Types
<1>5. CASE NothingToSend \/ EchoTimeout \/ NothingToRead \/ StartMessage
  <2>1. UNCHANGED <<commandQueue, waitingForResponse, sending, dev, link,
                    outside, inbound>> /\ pc' \in {"scan", "read", "message"}
    BY <1>5 DEF NothingToSend, EchoTimeout, NothingToRead, StartMessage, Goes
  <2>2. InboundOK'
    BY <1>1, <2>1 DEF InboundOK
  <2> QED
    BY <2>1, <2>2, MovesOn
<1>6. CASE NakRead \/ ReadGarbage \/ UnknownMessage
  <2>1. /\ UNCHANGED <<commandQueue, waitingForResponse, sending, dev, link,
                       outside>>
        /\ pc' \in {"scan", "read"} /\ InboundOK'
    BY <1>2, <1>6 DEF NakRead, ReadGarbage, UnknownMessage, Goes, InboundOK
  <2> QED
    BY <2>1, MovesOn
<1>7. CASE Collide
  <2>1. /\ UNCHANGED <<commandQueue, waitingForResponse, sending, dev, link,
                       outside>>
        /\ pc' = "read" /\ inbound' = Spoilt(Tail(inbound))
    BY <1>7 DEF Collide, Goes
  <2> DEFINE q == Tail(inbound)
  <2>2. q \in Seq(Messages)
    BY <1>2, <1>7 DEF Collide
  <2> HIDE DEF q
  <2>3. /\ DOMAIN q = 1..Len(q) /\ Len(q) \in Nat
        /\ \A i \in 1..Len(q) : q[i] \in Messages
    BY <2>2
  <2>4. Spoilt(q) \in Seq(Messages)
    BY <2>3, PlainMessages DEF Spoilt
  <2>5. InboundOK'
    BY <2>1, <2>4 DEF InboundOK, q
  <2> QED
    BY <2>1, <2>5, MovesOn
<1> QED
  BY <1>3, <1>4, <1>5, <1>6, <1>7, ExpireInv, WriteInv, EchoReadInv,
     DeviceMessageInv, RecordMessageInv DEF Thread

-----------------------------------------------------------------------------
(* The modem, the powerline and the people *)

LEMMA OutsideInv ==
    ASSUME IInv, Outside
    PROVE  IInv'
<1>1. Types /\ SendInv /\ OneOutstanding /\ LineOK /\ InboundOK /\ LevelOK
  BY DEF IInv, Types
<1>2. ASSUME UNCHANGED thread, LinkOK', LineOK', InboundOK', LevelOK'
      PROVE  IInv'
  <2>1. SendInv' /\ OneOutstanding'
    BY <1>1, <1>2, SameInv DEF thread
  <2> QED
    BY <1>1, <1>2, <2>1, Frames DEF IInv, Types, thread
<1>3. UNCHANGED link => LinkOK'
  BY <1>1, Frames
<1>4. CASE Execute
  <2> DEFINE d == Head(line).to
             c == Head(line).cmd
             a == Answer(d, c)
             r == Report(d, c)
             n == Message("devnak", d, Cmd1(c), "off")
  <2>1. Head(line) \in Command /\ Tail(line) \in Seq(Command) /\ d \in Device
    BY <1>1, <1>4 DEF Execute, LineOK
  <2>2. c \in DirectCommand
    BY <2>1, DeviceAssumption DEF Command
  <2>3. level[d] \in Level
    BY <1>1, <2>1 DEF LevelOK
  <2>4. /\ UNCHANGED <<thread, link>> /\ line' = Tail(line)
        /\ level' \in {level, [level EXCEPT ![d] = After(d, c)]}
        /\ \/ UNCHANGED repeats
           \/ repeats' = repeats \cup {[a EXCEPT !.again = TRUE]}
        /\ \/ UNCHANGED inbound
           \/ Sent(<<a>> \o r) \/ Sent(r) \/ Sent(<<n>>)
    BY <1>4 DEF Execute
  <2> HIDE DEF d, c
  <2>5. After(d, c) \in Level
    BY <2>3 DEF After, Flip, Level
  <2>6. Cmd1(c) \in DirectCommand
    BY <2>2 DEF Cmd1, DirectCommand
  <2>7. a \in Messages /\ [a EXCEPT !.again = TRUE] \in Messages
    <3> DEFINE c1 == IF c = "query" THEN "zero" ELSE Cmd1(c)
               c2 == IF d \in IOLinc /\ c = "on" THEN "on" ELSE After(d, c)
    <3>1. c1 \in DirectCommand \cup {"zero"} /\ c2 \in Level
      BY <2>5, <2>6 DEF Level
    <3>2. a = Message("ack", d, c1, c2)
      BY DEF Answer
    <3> HIDE DEF a, c1, c2
    <3> QED
      BY <2>1, <3>1, <3>2 DEF Message, Messages, Kind
  <2>8. r \in Seq(Messages)
    <3> DEFINE p == Message("cleanup", d, After(d, c), "off")
    <3>1. p \in Messages
      BY <2>1, <2>5 DEF Message, Messages, Level
    <3>2. r \in {<<>>, <<p>>}
      BY DEF Report
    <3> HIDE DEF p, r
    <3>3. <<p>> \in Seq(Messages) /\ <<>> \in Seq(Messages)
      BY <3>1
    <3> QED
      BY Zenon, <3>2, <3>3
  <2>9. n \in Messages
    BY <2>1, <2>6 DEF Message, Messages, Kind, Level
  <2> HIDE DEF a, r, n
  <2>10. <<a>> \o r \in Seq(Messages) /\ <<n>> \in Seq(Messages)
    BY <2>7, <2>8, <2>9
  <2>11. LineOK'
    BY <1>1, <2>1, <2>4, <2>7 DEF LineOK
  <2>12. LevelOK'
    BY <1>1, <2>1, <2>4, <2>5 DEF LevelOK
  <2>13. InboundOK'
    <3>1. CASE UNCHANGED inbound
      BY <1>1, <3>1, Frames
    <3>2. CASE Sent(<<a>> \o r) \/ Sent(r) \/ Sent(<<n>>)
      BY <1>1, <2>8, <2>10, <3>2, SentMessages
    <3> QED
      BY <2>4, <3>1, <3>2
  <2> QED
    BY <1>2, <1>3, <2>4, <2>11, <2>12, <2>13
<1>5. CASE SendRecord
  <2>1. /\ UNCHANGED <<thread, link, level, repeats>> /\ line' = Tail(line)
        /\ Sent(<<Record>>) /\ line # <<>>
    BY <1>5 DEF SendRecord
  <2>2. <<Record>> \in Seq(Messages)
    BY PlainMessages
  <2>3. LineOK'
    BY <1>1, <2>1 DEF LineOK
  <2>4. LevelOK'
    BY <1>1, <2>1, Frames
  <2>5. InboundOK'
    BY <1>1, <2>1, <2>2, SentMessages
  <2> QED
    BY <1>2, <1>3, <2>1, <2>3, <2>4, <2>5
<1>6. ASSUME NEW m \in repeats, Retransmit(m)
      PROVE  IInv'
  <2>1. /\ UNCHANGED <<thread, link, level, line>> /\ Sent(<<m>>)
        /\ repeats' = repeats \ {m}
    BY <1>6 DEF Retransmit
  <2>2. m \in Messages
    BY <1>1 DEF LineOK
  <2>3. LineOK'
    BY <1>1, <2>1 DEF LineOK
  <2>4. LevelOK'
    BY <1>1, <2>1, Frames
  <2>5. <<m>> \in Seq(Messages)
    BY <2>2
  <2>6. InboundOK'
    BY <1>1, <2>1, <2>5, SentMessages
  <2> QED
    BY <1>2, <1>3, <2>1, <2>3, <2>4, <2>6
<1>7. ASSUME NEW d \in Device, Operate(d)
      PROVE  IInv'
  <2>1. /\ UNCHANGED <<thread, link, line, repeats>>
        /\ level' = [level EXCEPT ![d] = Flip(@)]
    BY <1>7 DEF Operate
  <2>2. level[d] \in Level /\ level'[d] \in Level /\ LevelOK'
    BY <1>1, <2>1 DEF LevelOK, Flip, Level
  <2>3. PICK kind \in {"cleanup", "stopped", "broadcast"} :
            Sent(<<Message(kind, d, level'[d], level'[d])>>)
    BY <1>7, DeviceAssumption DEF Operate, Device
  <2> DEFINE m == Message(kind, d, level'[d], level'[d])
  <2>4. m \in Messages
    BY <2>2 DEF Message, Messages, Kind, Level, DirectCommand
  <2>5. Sent(<<m>>)
    BY <2>3
  <2> HIDE DEF m
  <2>6. <<m>> \in Seq(Messages)
    BY <2>4
  <2>7. InboundOK'
    BY <1>1, <2>5, <2>6, SentMessages
  <2>8. LineOK'
    BY <1>1, <2>1, Frames
  <2> QED
    BY <1>2, <1>3, <2>1, <2>2, <2>7, <2>8
<1>8. CASE Disconnect
  <2>1. /\ LinkOK' /\ UNCHANGED <<thread, outside>>
        /\ inbound' \in {inbound, <<>>}
    BY <1>8 DEF Disconnect, LinkOK
  <2>2. <<>> \in Seq(Messages)
    OBVIOUS
  <2>3. InboundOK'
    BY Zenon, <1>1, <2>1, <2>2 DEF InboundOK
  <2>4. LineOK' /\ LevelOK'
    BY <1>1, <2>1, Frames DEF outside
  <2> QED
    BY <1>2, <2>1, <2>4, <2>3
<1> QED
  BY <1>4, <1>5, <1>6, <1>7, <1>8 DEF Outside

-----------------------------------------------------------------------------
(* The theorems *)

LEMMA StepInv == IInv /\ [Next]_vars => IInv'
<1> SUFFICES ASSUME IInv, [Next]_vars PROVE IInv'
  OBVIOUS
<1>1. CASE UNCHANGED vars
  <2>1. UNCHANGED <<commandQueue, waitingForResponse, pc, sending, dev, link,
                    line, repeats, level, inbound>>
    BY <1>1 DEF vars, thread, outside
  <2>2. Types /\ SendInv /\ OneOutstanding
    BY DEF IInv
  <2>3. SendInv' /\ OneOutstanding'
    BY <2>1, <2>2, SameInv
  <2> QED
    BY <2>1, <2>2, <2>3, Frames DEF IInv, Types
<1> QED
  BY <1>1, CallInv, ThreadInv, OutsideInv DEF Next

\* The inductive invariant (Insteon::run, InsteonModem::process).
THEOREM InsteonInvariance == Spec => []IInv
BY InitInv, StepInv, PTL DEF Spec

\* Every reachable state has the declared types: no message of the modem and
\* no answer of a device leads to an object with a level it cannot have.
THEOREM InsteonTypes == Spec => []TypeOK
<1>1. IInv => TypeOK
  <2> SUFFICES ASSUME IInv PROVE TypeOK
    OBVIOUS
  <2>1. QueueOK /\ ThreadOK /\ DevOK /\ LinkOK /\ LevelOK
    BY DEF IInv, Types
  <2>2. \A d \in Known : dev[d] \in Object
    BY <2>1, KnownObject DEF Known
  <2>3. \A o \in Object : /\ o.status \in {"idle", "waiting"}
                          /\ o.last \in DirectCommand \cup {"zero", "garbage"}
                          /\ o.param \in Level
                          /\ o.told \in Level \cup {"none"}
    BY DEF Object
  <2> QED
    BY <2>1, <2>2, <2>3 DEF TypeOK, QueueOK, ThreadOK, LinkOK, LevelOK
<1> QED
  BY <1>1, InsteonInvariance, PTL

\* One device at most owes an ACK, and none while the modem is asked for its
\* records, whatever is lost, repeated, late, refused or disconnected
\* (Insteon::run, InsteonModem::onInsteonMessageSent).
THEOREM OneOutstandingCommand == Spec => []OneOutstanding
<1>1. IInv => OneOutstanding
  BY DEF IInv
<1> QED
  BY <1>1, InsteonInvariance, PTL

-----------------------------------------------------------------------------
(* The levels *)

(***************************************************************************)
(* While nothing is excused, the level of a device is known from what is   *)
(* on its way: the last message of the device that its object takes a      *)
(* level from tells it; where there is none, the object holds it or the    *)
(* device is still to be asked.  That the object takes it rests on an      *)
(* answer being read while the object still has the command it is for:     *)
(* one command or answer at most is in flight for a device.                *)
(***************************************************************************)
Exact == excused = {}
What == {"level", "event"}

\* What the classes send, and what their devices send.
CommandsOf(d) == CASE d \in Switch -> {"on", "off", "query"}
                   [] d \in IOLinc -> {"on", "query"}
                   [] d \in EZFlora -> {"on", "off", "meter", "program"}
KindsOf(d) == {"ack", "devnak"} \cup
              CASE d \in Switch -> {"cleanup", "stopped"}
                [] d \in IOLinc -> {"cleanup"}
                [] d \in EZFlora -> {"broadcast"}
Fitting == {c \in Command : c.to \in Device => c.cmd \in CommandsOf(c.to)}
Proper == {m \in Messages :
             m.from \in Device => /\ m.kind \in KindsOf(m.from)
                                  /\ m.kind # "ack" => ~m.again}
Repeated == {m \in Proper : m.kind = "ack" /\ m.again}

\* The commands of ln for d, the answers of q from d: one at most, and that to
\* the command c.
NoLine(ln, d) == \A i \in DOMAIN ln : ln[i].to # d
LineOf(ln, d, c) ==
    \A i \in DOMAIN ln : ln[i].to = d =>
        ln[i].cmd = c /\ \A j \in DOMAIN ln : ln[j].to = d => i = j
Answers(m, d) == m.from = d /\ m.kind \in {"ack", "devnak"} /\ ~m.again
NoAnswer(q, d) == \A k \in DOMAIN q : ~Answers(q[k], d)
Acknowledges(m, d, c) ==
    m.kind = "ack" => /\ m.cmd1 = IF c = "query" THEN "zero" ELSE Cmd1(c)
                      /\ c \in Level /\ d \notin IOLinc => m.cmd2 = c
AnswerOf(q, d, c) ==
    \A k \in DOMAIN q : Answers(q[k], d) =>
        /\ c \in CommandsOf(d) /\ Acknowledges(q[k], d, c)
        /\ \A l \in DOMAIN q : Answers(q[l], d) => k = l
HasAck(q, d) == \E k \in DOMAIN q : Answers(q[k], d) /\ q[k].kind = "ack"

\* The messages of q that bear the level of d; but for those of a kind in mute,
\* the last one has the value v.
Bears(m, d) == /\ m.from = d /\ ~m.again
               /\ m.kind \in {"ack", "cleanup", "broadcast", "stopped"}
Value(m) == IF m.kind = "cleanup" THEN m.cmd1 ELSE m.cmd2
AllMute(q, d, mute) == \A k \in DOMAIN q : Bears(q[k], d) => q[k].kind \in mute
NewsOf(q, d, v, mute) ==
    \A k \in DOMAIN q :
        /\ Bears(q[k], d)
        /\ \A l \in DOMAIN q : k < l /\ Bears(q[l], d) => q[l].kind \in mute
        => Value(q[k]) = v

\* The queries among the commands q.
Asks(c, d) == c.to = d /\ c.cmd = "query"
Asking(q, d) == \E i \in DOMAIN q : Asks(q[i], d)
Twice(q, d) == \E i, j \in DOMAIN q : i < j /\ Asks(q[i], d) /\ Asks(q[j], d)

\* The echoes of q.
IsEcho(m) == m.kind \in {"echo", "nak"}
NoEcho(q) == \A k \in DOMAIN q : ~IsEcho(q[k])
NoNak(q) == \A k \in DOMAIN q : q[k].kind # "nak"
OneEcho(q) == \A k, l \in DOMAIN q : IsEcho(q[k]) /\ IsEcho(q[l]) => k = l

\* The command that the answer of d would be for, which the object has or will
\* have when the echo is read.
Written(d) == pc = "echo" /\ sending.to = d
Awaited(d) == IF Written(d) THEN sending.cmd ELSE dev[d].last
Awaits(d) == Written(d) \/ Waits(d)

\* An ACK that the object of d takes no level from, or tells the script of none.
Ignores(d, c, initialized, what) ==
    \/ c = "program"
    \/ d \in IOLinc /\ c = "on"
    \/ what = "event" /\ (c = "meter" \/ (c = "query" /\ initialized = FALSE))
Mute(d, what) ==
    IF d \in Known /\ Ignores(d, Awaited(d), dev[d].initialized, what)
    THEN {"ack"} ELSE {}

\* A query is still to be executed; so is one whose answer the script is told,
\* which is every one but the first.
Second(d) ==
    \/ dev[d].initialized = TRUE /\ (Asking(commandQueue, d) \/ Asking(line, d))
    \/ /\ Asking(commandQueue, d)
       /\ Asking(line, d) \/ (HasAck(inbound, d) /\ Awaited(d) = "query")
    \/ Twice(commandQueue, d)
Asked(d, what) ==
    IF what = "level" THEN Asking(commandQueue, d) \/ Asking(line, d)
                      ELSE Second(d)
Right(d, what) == IF what = "level" THEN Answered(d) => dev[d].param = level[d]
                  ELSE dev[d].told # "none" => dev[d].told = level[d]

ClassInv == /\ commandQueue \in Seq(Fitting) /\ line \in Seq(Fitting)
            /\ sending \in Fitting
KindInv == inbound \in Seq(Proper) /\ repeats \in SUBSET Repeated
ExcuseInv == excused \in {{}, {"level", "event"}}

\* A lost connection is excused.
LinkInv == /\ link # "broken"
           /\ link = "closed" => /\ pc = "scan" /\ line = <<>>
                                 /\ inbound = <<>> /\ repeats = {}

\* The thread waits for the one echo that is in transit; what the modem refused
\* is not sent to the device.
EchoInv ==
    /\ pc # "echo" => NoEcho(inbound)
    /\ OneEcho(inbound)
    /\ \/ NoNak(inbound)
       \/ sending.to \notin Known
       \/ NoLine(line, sending.to) /\ NoAnswer(inbound, sending.to)

FlightInv(d) ==
    /\ LineOf(line, d, Awaited(d)) /\ AnswerOf(inbound, d, Awaited(d))
    /\ NoLine(line, d) \/ NoAnswer(inbound, d)
    /\ Awaits(d) \/ (NoLine(line, d) /\ NoAnswer(inbound, d))
NewsInv(d) == \A what \in What : NewsOf(inbound, d, level[d], Mute(d, what))
HeldInv(d) == \A what \in What :
    AllMute(inbound, d, Mute(d, what)) => Right(d, what) \/ Asked(d, what)
FirstInv(d) ==
    d \notin EZFlora /\ dev[d].initialized = FALSE =>
        \/ Asking(commandQueue, d) \/ Asking(line, d)
        \/ HasAck(inbound, d) /\ Awaited(d) = "query"

DeviceInv(d) == /\ NewsInv(d)
                /\ d \in Known => FlightInv(d) /\ HeldInv(d) /\ FirstInv(d)
ExactInv == LinkInv /\ EchoInv /\ \A d \in Device : DeviceInv(d)
LevelInv == ClassInv /\ KindInv /\ ExcuseInv /\ (Exact => ExactInv)

-----------------------------------------------------------------------------
(* Messages and commands that come and go *)

LEMMA TailAt ==
    ASSUME NEW S, NEW q \in Seq(S), q # <<>>
    PROVE  /\ Tail(q) \in Seq(S) /\ Head(q) \in S
           /\ 1 \in DOMAIN q /\ q[1] = Head(q)
           /\ \A k \in DOMAIN q : k \in Nat /\ k >= 1
           /\ \A k \in DOMAIN Tail(q) :
                 k \in Nat /\ k >= 1 /\ k + 1 \in DOMAIN q
                 /\ Tail(q)[k] = q[k + 1]
           /\ \A k \in DOMAIN q :
                 k = 1 \/ (k - 1 \in DOMAIN Tail(q) /\ Tail(q)[k - 1] = q[k])
OBVIOUS

LEMMA AppendAt ==
    ASSUME NEW S, NEW q \in Seq(S), NEW m \in S
    PROVE  /\ Append(q, m) \in Seq(S)
           /\ Len(q) + 1 \in DOMAIN Append(q, m)
           /\ Append(q, m)[Len(q) + 1] = m
           /\ \A k \in DOMAIN q : k \in Nat /\ k < Len(q) + 1
           /\ \A k \in DOMAIN q : k \in DOMAIN Append(q, m)
                                  /\ Append(q, m)[k] = q[k]
           /\ \A k \in DOMAIN Append(q, m) :
                 \/ k \in DOMAIN q /\ Append(q, m)[k] = q[k]
                 \/ k = Len(q) + 1 /\ Append(q, m)[k] = m
OBVIOUS

LEMMA ConcatAt ==
    ASSUME NEW S, NEW q \in Seq(S), NEW r \in Seq(S)
    PROVE  /\ q \o r \in Seq(S)
           /\ \A k \in DOMAIN q : k \in DOMAIN (q \o r) /\ (q \o r)[k] = q[k]
OBVIOUS

LEMMA ElementOf ==
    ASSUME NEW S, NEW q \in Seq(S), NEW k \in DOMAIN q
    PROVE  q[k] \in S
OBVIOUS

\* The head of the commands, or of the messages, is handled.
LEMMA LineTail ==
    ASSUME NEW ln \in Seq(Command), ln # <<>>, NEW d
    PROVE  /\ NoLine(ln, d) => NoLine(Tail(ln), d)
           /\ \A c : LineOf(ln, d, c) => LineOf(Tail(ln), d, c)
           /\ \A c : LineOf(ln, d, c) /\ Head(ln).to = d =>
                        Head(ln).cmd = c /\ NoLine(Tail(ln), d)
           /\ NoLine(ln, d) => Head(ln).to # d
<1>1. NoLine(ln, d) => NoLine(Tail(ln), d)
  BY TailAt DEF NoLine
<1>2. ASSUME NEW c, LineOf(ln, d, c) PROVE LineOf(Tail(ln), d, c)
  BY <1>2, TailAt DEF LineOf
<1>3. ASSUME NEW c, LineOf(ln, d, c), Head(ln).to = d
      PROVE  Head(ln).cmd = c /\ NoLine(Tail(ln), d)
  BY <1>3, TailAt DEF LineOf, NoLine
<1>4. NoLine(ln, d) => Head(ln).to # d
  BY TailAt DEF NoLine
<1> QED
  BY <1>1, <1>2, <1>3, <1>4

LEMMA TwoQueries ==
    ASSUME NEW q, NEW d, NEW i \in DOMAIN q, NEW j \in DOMAIN q, i < j,
           Asks(q[i], d), Asks(q[j], d)
    PROVE  Twice(q, d)
BY DEF Twice

LEMMA QueriesTail ==
    ASSUME NEW q \in Seq(Command), q # <<>>, NEW d
    PROVE  /\ Asking(q, d) => Asks(Head(q), d) \/ Asking(Tail(q), d)
           /\ Twice(q, d) => Asking(Tail(q), d)
           /\ Twice(q, d) => Asks(Head(q), d) \/ Twice(Tail(q), d)
<1>1. Asking(q, d) => Asks(Head(q), d) \/ Asking(Tail(q), d)
  BY TailAt DEF Asking
<1>2. ASSUME NEW i \in DOMAIN q, NEW j \in DOMAIN q, i < j,
             Asks(q[i], d), Asks(q[j], d)
      PROVE  /\ Asking(Tail(q), d)
             /\ Asks(Head(q), d) \/ Twice(Tail(q), d)
  <2>1. i \in Nat /\ j \in Nat /\ i >= 1 /\ j >= 1 /\ j # 1
    BY <1>2, TailAt
  <2>2. j - 1 \in DOMAIN Tail(q) /\ Tail(q)[j - 1] = q[j]
    BY <2>1, TailAt
  <2>3. Asking(Tail(q), d)
    BY <1>2, <2>2 DEF Asking
  <2>4. i = 1 => Asks(Head(q), d)
    BY <1>2, TailAt
  <2>5. i # 1 => i - 1 \in DOMAIN Tail(q) /\ Tail(q)[i - 1] = q[i]
    BY TailAt
  <2>6. ASSUME i # 1 PROVE Twice(Tail(q), d)
    <3>1. i - 1 < j - 1
      BY <1>2, <2>1
    <3>2. Asks(Tail(q)[i - 1], d) /\ Asks(Tail(q)[j - 1], d)
      BY <1>2, <2>2, <2>5, <2>6
    <3>3. i - 1 \in DOMAIN Tail(q) /\ j - 1 \in DOMAIN Tail(q)
      BY <2>2, <2>5, <2>6
    <3> QED
      BY Zenon, <3>1, <3>2, <3>3, TwoQueries
  <2> QED
    BY <2>3, <2>4, <2>6
<1> QED
  BY <1>1, <1>2 DEF Twice

LEMMA QueriesMore ==
    ASSUME NEW q \in Seq(Command), NEW r \in Seq(Command), NEW d
    PROVE  /\ Asking(q, d) => Asking(q \o r, d)
           /\ Twice(q, d) => Twice(q \o r, d)
<1>1. Asking(q, d) => Asking(q \o r, d)
  BY ConcatAt DEF Asking
<1>2. Twice(q, d) => Twice(q \o r, d)
  BY ConcatAt DEF Twice
<1> QED
  BY <1>1, <1>2

LEMMA QueryAdded ==
    ASSUME NEW q \in Seq(Command), NEW c \in Command, NEW d, Asks(c, d)
    PROVE  /\ Asking(Append(q, c), d)
           /\ Asking(q, d) => Twice(Append(q, c), d)
<1>1. Asking(Append(q, c), d)
  BY AppendAt DEF Asking
<1>2. Asking(q, d) => Twice(Append(q, c), d)
  BY AppendAt DEF Asking, Twice
<1> QED
  BY <1>1, <1>2

LEMMA LineAppend ==
    ASSUME NEW ln \in Seq(Command), NEW c \in Command, NEW d
    PROVE  /\ c.to # d =>
                /\ NoLine(ln, d) => NoLine(Append(ln, c), d)
                /\ \A e : LineOf(ln, d, e) => LineOf(Append(ln, c), d, e)
           /\ c.to = d /\ NoLine(ln, d) => LineOf(Append(ln, c), d, c.cmd)
           /\ Asking(ln, d) => Asking(Append(ln, c), d)
<1>1. c.to # d /\ NoLine(ln, d) => NoLine(Append(ln, c), d)
  BY AppendAt DEF NoLine
<1>2. ASSUME c.to # d, NEW e, LineOf(ln, d, e) PROVE LineOf(Append(ln, c), d, e)
  BY <1>2, AppendAt DEF LineOf
<1>3. c.to = d /\ NoLine(ln, d) => LineOf(Append(ln, c), d, c.cmd)
  BY AppendAt DEF LineOf, NoLine
<1>4. Asking(ln, d) => Asking(Append(ln, c), d)
  BY AppendAt DEF Asking
<1> QED
  BY <1>1, <1>2, <1>3, <1>4

LEMMA AnswersTail ==
    ASSUME NEW q \in Seq(Messages), q # <<>>, NEW d
    PROVE  /\ NoAnswer(q, d) => NoAnswer(Tail(q), d) /\ ~Answers(Head(q), d)
           /\ \A c : AnswerOf(q, d, c) => AnswerOf(Tail(q), d, c)
           /\ \A c : AnswerOf(q, d, c) /\ Answers(Head(q), d) =>
                /\ c \in CommandsOf(d) /\ Acknowledges(Head(q), d, c)
                /\ NoAnswer(Tail(q), d)
           /\ HasAck(q, d) => \/ HasAck(Tail(q), d)
                              \/ Answers(Head(q), d) /\ Head(q).kind = "ack"
<1>1. NoAnswer(q, d) => NoAnswer(Tail(q), d) /\ ~Answers(Head(q), d)
  BY TailAt DEF NoAnswer
<1>2. ASSUME NEW c, AnswerOf(q, d, c) PROVE AnswerOf(Tail(q), d, c)
  BY <1>2, TailAt DEF AnswerOf
<1>3. ASSUME NEW c, AnswerOf(q, d, c), Answers(Head(q), d)
      PROVE  /\ c \in CommandsOf(d) /\ Acknowledges(Head(q), d, c)
             /\ NoAnswer(Tail(q), d)
  BY <1>3, TailAt DEF AnswerOf, NoAnswer
<1>4. ASSUME NEW k \in DOMAIN q, Answers(q[k], d), q[k].kind = "ack"
      PROVE  \/ HasAck(Tail(q), d)
             \/ Answers(Head(q), d) /\ Head(q).kind = "ack"
  <2>1. \/ k = 1 /\ q[1] = Head(q)
        \/ k - 1 \in DOMAIN Tail(q) /\ Tail(q)[k - 1] = q[k]
    BY TailAt
  <2> QED
    BY <1>4, <2>1 DEF HasAck
<1> QED
  BY <1>1, <1>2, <1>3, <1>4 DEF HasAck

LEMMA AnswersAppend ==
    ASSUME NEW q \in Seq(Messages), NEW m \in Messages, NEW d
    PROVE  /\ ~Answers(m, d) =>
                /\ NoAnswer(q, d) => NoAnswer(Append(q, m), d)
                /\ \A c : AnswerOf(q, d, c) => AnswerOf(Append(q, m), d, c)
           /\ \A c \in CommandsOf(d) :
                 NoAnswer(q, d) /\ Acknowledges(m, d, c) =>
                     AnswerOf(Append(q, m), d, c)
           /\ HasAck(q, d) => HasAck(Append(q, m), d)
           /\ Answers(m, d) /\ m.kind = "ack" => HasAck(Append(q, m), d)
<1>1. ~Answers(m, d) /\ NoAnswer(q, d) => NoAnswer(Append(q, m), d)
  BY AppendAt DEF NoAnswer
<1>2. ASSUME ~Answers(m, d), NEW c, AnswerOf(q, d, c)
      PROVE  AnswerOf(Append(q, m), d, c)
  BY <1>2, AppendAt DEF AnswerOf
<1>3. ASSUME NEW c \in CommandsOf(d), NoAnswer(q, d), Acknowledges(m, d, c)
      PROVE  AnswerOf(Append(q, m), d, c)
  BY <1>3, AppendAt DEF AnswerOf, NoAnswer
<1>4. /\ HasAck(q, d) => HasAck(Append(q, m), d)
      /\ Answers(m, d) /\ m.kind = "ack" => HasAck(Append(q, m), d)
  BY AppendAt DEF HasAck
<1> QED
  BY <1>1, <1>2, <1>3, <1>4

\* Without answers nothing is mute, and no answer is wrong.
LEMMA NothingMute ==
    ASSUME NEW q \in Seq(Messages), NEW d, NoAnswer(q, d)
    PROVE  /\ \A c : AnswerOf(q, d, c)
           /\ ~HasAck(q, d)
           /\ \A k \in DOMAIN q : Bears(q[k], d) => q[k].kind # "ack"
<1>1. \A c : AnswerOf(q, d, c)
  BY DEF NoAnswer, AnswerOf
<1>2. ~HasAck(q, d)
  BY DEF NoAnswer, HasAck
<1>3. \A k \in DOMAIN q : Bears(q[k], d) => q[k].kind # "ack"
  BY DEF NoAnswer, Bears, Answers
<1> QED
  BY <1>1, <1>2, <1>3

LEMMA MuteChanges ==
    ASSUME NEW q \in Seq(Messages), NEW d, NoAnswer(q, d),
           NEW a \in {{}, {"ack"}}, NEW b \in {{}, {"ack"}}
    PROVE  /\ \A v : NewsOf(q, d, v, a) => NewsOf(q, d, v, b)
           /\ AllMute(q, d, b) => AllMute(q, d, a)
<1>1. \A k \in DOMAIN q :
        Bears(q[k], d) => q[k].kind \notin a /\ q[k].kind \notin b
  BY NothingMute
<1>2. ASSUME NEW v, NewsOf(q, d, v, a) PROVE NewsOf(q, d, v, b)
  BY <1>1, <1>2 DEF NewsOf
<1>3. AllMute(q, d, b) => AllMute(q, d, a)
  BY <1>1 DEF AllMute
<1> QED
  BY <1>2, <1>3

LEMMA NewsTail ==
    ASSUME NEW q \in Seq(Messages), q # <<>>, NEW d, NEW mute
    PROVE  /\ \A v : NewsOf(q, d, v, mute) => NewsOf(Tail(q), d, v, mute)
           /\ \A v : NewsOf(q, d, v, mute) /\ Bears(Head(q), d)
                     /\ AllMute(Tail(q), d, mute) => Value(Head(q)) = v
           /\ AllMute(Tail(q), d, mute)
              /\ (Bears(Head(q), d) => Head(q).kind \in mute) =>
                     AllMute(q, d, mute)
           /\ AllMute(q, d, mute) => AllMute(Tail(q), d, mute)
<1>1. ASSUME NEW v, NewsOf(q, d, v, mute) PROVE NewsOf(Tail(q), d, v, mute)
  <2> SUFFICES ASSUME NEW k \in DOMAIN Tail(q), Bears(Tail(q)[k], d),
                      \A l \in DOMAIN Tail(q) : k < l /\ Bears(Tail(q)[l], d) =>
                                                Tail(q)[l].kind \in mute
               PROVE  Value(Tail(q)[k]) = v
    BY DEF NewsOf
  <2>1. k \in Nat /\ k + 1 \in DOMAIN q /\ Tail(q)[k] = q[k + 1]
    BY TailAt
  <2>2. ASSUME NEW l \in DOMAIN q, k + 1 < l, Bears(q[l], d)
        PROVE  q[l].kind \in mute
    <3>1. l \in Nat /\ l # 1
      BY <2>1, <2>2, TailAt
    <3>2. l - 1 \in DOMAIN Tail(q) /\ Tail(q)[l - 1] = q[l] /\ k < l - 1
      BY <2>1, <2>2, <3>1, TailAt
    <3> QED
      BY <2>2, <3>2
  <2> QED
    BY <1>1, <2>1, <2>2 DEF NewsOf
<1>2. ASSUME NEW v, NewsOf(q, d, v, mute), Bears(Head(q), d),
             AllMute(Tail(q), d, mute)
      PROVE  Value(Head(q)) = v
  <2>1. 1 \in DOMAIN q /\ q[1] = Head(q)
    BY TailAt
  <2>2. ASSUME NEW l \in DOMAIN q, 1 < l, Bears(q[l], d)
        PROVE  q[l].kind \in mute
    <3>1. l - 1 \in DOMAIN Tail(q) /\ Tail(q)[l - 1] = q[l]
      BY <2>2, TailAt
    <3> QED
      BY <1>2, <2>2, <3>1 DEF AllMute
  <2> QED
    BY <1>2, <2>1, <2>2 DEF NewsOf
<1>3. ASSUME AllMute(Tail(q), d, mute),
             Bears(Head(q), d) => Head(q).kind \in mute
      PROVE  AllMute(q, d, mute)
  BY <1>3, TailAt DEF AllMute
<1>4. AllMute(q, d, mute) => AllMute(Tail(q), d, mute)
  BY TailAt DEF AllMute
<1> QED
  BY <1>1, <1>2, <1>3, <1>4

LEMMA NewsAppend ==
    ASSUME NEW q \in Seq(Messages), NEW m \in Messages, NEW d, NEW mute
    PROVE  /\ ~Bears(m, d) =>
                \A v : NewsOf(q, d, v, mute) => NewsOf(Append(q, m), d, v, mute)
           /\ \A v : Value(m) = v /\ (m.kind \in mute => NewsOf(q, d, v, mute))
                     /\ Bears(m, d) => NewsOf(Append(q, m), d, v, mute)
           /\ AllMute(Append(q, m), d, mute) =>
                AllMute(q, d, mute) /\ (Bears(m, d) => m.kind \in mute)
<1> DEFINE r == Append(q, m)
           n == Len(q) + 1
<1>0. /\ n \in DOMAIN r /\ r[n] = m
      /\ \A k \in DOMAIN q : k \in Nat /\ k < n /\ k \in DOMAIN r /\ r[k] = q[k]
      /\ \A k \in DOMAIN r : \/ k \in DOMAIN q /\ r[k] = q[k]
                             \/ k = n /\ r[k] = m
  BY AppendAt
<1> HIDE DEF r, n
<1>1. ASSUME ~Bears(m, d), NEW v, NewsOf(q, d, v, mute)
      PROVE  NewsOf(r, d, v, mute)
  BY <1>0, <1>1 DEF NewsOf
<1>2. ASSUME NEW v, Value(m) = v, m.kind \in mute => NewsOf(q, d, v, mute),
             Bears(m, d)
      PROVE  NewsOf(r, d, v, mute)
  <2> SUFFICES ASSUME NEW k \in DOMAIN r, Bears(r[k], d), k \in DOMAIN q,
                      \A l \in DOMAIN r : k < l /\ Bears(r[l], d) =>
                                          r[l].kind \in mute
               PROVE  Value(r[k]) = v
    BY <1>0, <1>2 DEF NewsOf
  <2>1. m.kind \in mute /\ r[k] = q[k]
    BY <1>0, <1>2
  <2> QED
    BY <1>0, <1>2, <2>1 DEF NewsOf
<1>3. AllMute(r, d, mute) =>
          AllMute(q, d, mute) /\ (Bears(m, d) => m.kind \in mute)
  BY <1>0 DEF AllMute
<1> QED
  BY <1>1, <1>2, <1>3 DEF r

LEMMA EchoesTail ==
    ASSUME NEW q \in Seq(Messages), q # <<>>
    PROVE  /\ NoEcho(q) => NoEcho(Tail(q)) /\ ~IsEcho(Head(q))
           /\ OneEcho(q) => OneEcho(Tail(q))
           /\ OneEcho(q) /\ IsEcho(Head(q)) => NoEcho(Tail(q))
           /\ NoNak(q) => NoNak(Tail(q))
<1>1. NoEcho(q) => NoEcho(Tail(q)) /\ ~IsEcho(Head(q))
  BY TailAt DEF NoEcho
<1>2. ASSUME OneEcho(q) PROVE OneEcho(Tail(q))
  BY <1>2, TailAt DEF OneEcho
<1>3. ASSUME OneEcho(q), IsEcho(Head(q)) PROVE NoEcho(Tail(q))
  BY <1>3, TailAt DEF OneEcho, NoEcho
<1>4. NoNak(q) => NoNak(Tail(q))
  BY TailAt DEF NoNak
<1> QED
  BY <1>1, <1>2, <1>3, <1>4

LEMMA EchoesAppend ==
    ASSUME NEW q \in Seq(Messages), NEW m \in Messages
    PROVE  /\ NoEcho(q) => OneEcho(Append(q, m))
           /\ ~IsEcho(m) => /\ NoEcho(q) => NoEcho(Append(q, m))
                            /\ OneEcho(q) => OneEcho(Append(q, m))
           /\ m.kind # "nak" /\ NoNak(q) => NoNak(Append(q, m))
           /\ NoEcho(q) => NoNak(q)
<1>1. NoEcho(q) => OneEcho(Append(q, m))
  BY AppendAt DEF NoEcho, OneEcho
<1>2. ~IsEcho(m) /\ NoEcho(q) => NoEcho(Append(q, m))
  BY AppendAt DEF NoEcho
<1>3. ~IsEcho(m) /\ OneEcho(q) => OneEcho(Append(q, m))
  BY AppendAt DEF OneEcho
<1>4. m.kind # "nak" /\ NoNak(q) => NoNak(Append(q, m))
  BY AppendAt DEF NoNak
<1>5. NoEcho(q) => NoNak(q)
  BY DEF NoEcho, NoNak, IsEcho
<1> QED
  BY <1>1, <1>2, <1>3, <1>4, <1>5

-----------------------------------------------------------------------------
(* What a step leaves alone *)

QueueKeeps(d) == /\ Asking(commandQueue, d) => Asking(commandQueue', d)
                 /\ Twice(commandQueue, d) => Twice(commandQueue', d)
LineKeeps(d) == /\ NoLine(line, d) => NoLine(line', d)
                /\ \A c : LineOf(line, d, c) => LineOf(line', d, c)
                /\ Asking(line, d) => Asking(line', d)
NewsKeeps(d) ==
    /\ HasAck(inbound, d) => HasAck(inbound', d)
    /\ \A v, mute : NewsOf(inbound, d, v, mute) => NewsOf(inbound', d, v, mute)
    /\ \A mute : AllMute(inbound', d, mute) => AllMute(inbound, d, mute)
AnswersKeep(d) ==
    /\ NoAnswer(inbound, d) => NoAnswer(inbound', d)
    /\ \A c : AnswerOf(inbound, d, c) => AnswerOf(inbound', d, c)
InboundKeeps(d) == NewsKeeps(d) /\ AnswersKeep(d)

\* A message that says nothing of d.
Irrelevant(m, d) == ~Answers(m, d) /\ ~Bears(m, d)

LEMMA QueueKept ==
    ASSUME NEW d,
           \/ UNCHANGED commandQueue
           \/ /\ commandQueue \in Seq(Command)
              /\ \E cs \in Seq(Command) : commandQueue' = commandQueue \o cs
           \/ /\ commandQueue \in Seq(Command) /\ commandQueue # <<>>
              /\ commandQueue' = Tail(commandQueue)
              /\ ~Asks(Head(commandQueue), d)
    PROVE  QueueKeeps(d)
BY QueriesMore, QueriesTail DEF QueueKeeps

LEMMA LineKept ==
    ASSUME NEW d, line \in Seq(Command),
           \/ UNCHANGED line
           \/ \E c \in Command : c.to # d /\ line' = Append(line, c)
           \/ line # <<>> /\ line' = Tail(line) /\ Head(line).to # d
    PROVE  LineKeeps(d)
<1>1. CASE UNCHANGED line
  BY <1>1 DEF LineKeeps
<1>2. ASSUME NEW c \in Command, c.to # d, line' = Append(line, c)
      PROVE  LineKeeps(d)
  BY <1>2, LineAppend DEF LineKeeps
<1>3. CASE line # <<>> /\ line' = Tail(line) /\ Head(line).to # d
  <2>1. Asking(line, d) => Asking(Tail(line), d)
    BY <1>3, QueriesTail DEF Asks
  <2> QED
    BY <1>3, <2>1, LineTail DEF LineKeeps
<1> QED
  BY <1>1, <1>2, <1>3

LEMMA InboundKept ==
    ASSUME NEW d, inbound \in Seq(Messages),
           \/ UNCHANGED inbound
           \/ \E m \in Messages :
                 Irrelevant(m, d) /\ inbound' = Append(inbound, m)
           \/ /\ inbound # <<>> /\ inbound' = Tail(inbound)
              /\ ~Bears(Head(inbound), d)
    PROVE  InboundKeeps(d)
<1>1. CASE UNCHANGED inbound
  BY <1>1 DEF InboundKeeps, NewsKeeps, AnswersKeep
<1>2. ASSUME NEW m \in Messages, Irrelevant(m, d), inbound' = Append(inbound, m)
      PROVE  InboundKeeps(d)
  <2>1. /\ NoAnswer(inbound, d) => NoAnswer(inbound', d)
        /\ \A c : AnswerOf(inbound, d, c) => AnswerOf(inbound', d, c)
        /\ HasAck(inbound, d) => HasAck(inbound', d)
    BY <1>2, AnswersAppend DEF Irrelevant
  <2>2. ASSUME NEW v, NEW mute, NewsOf(inbound, d, v, mute)
        PROVE  NewsOf(inbound', d, v, mute)
    BY <1>2, <2>2, NewsAppend DEF Irrelevant
  <2>3. ASSUME NEW mute, AllMute(inbound', d, mute)
        PROVE  AllMute(inbound, d, mute)
    BY <1>2, <2>3, NewsAppend
  <2> QED
    BY <2>1, <2>2, <2>3 DEF InboundKeeps, NewsKeeps, AnswersKeep
<1>3. CASE /\ inbound # <<>> /\ inbound' = Tail(inbound)
           /\ ~Bears(Head(inbound), d)
  <2>1. /\ NoAnswer(inbound, d) => NoAnswer(inbound', d)
        /\ \A c : AnswerOf(inbound, d, c) => AnswerOf(inbound', d, c)
        /\ HasAck(inbound, d) => HasAck(inbound', d)
    BY <1>3, AnswersTail DEF Answers, Bears
  <2>2. ASSUME NEW v, NEW mute, NewsOf(inbound, d, v, mute)
        PROVE  NewsOf(inbound', d, v, mute)
    BY <1>3, <2>2, NewsTail
  <2>3. ASSUME NEW mute, AllMute(inbound', d, mute)
        PROVE  AllMute(inbound, d, mute)
    BY <1>3, <2>3, NewsTail
  <2> QED
    BY <2>1, <2>2, <2>3 DEF InboundKeeps, NewsKeeps, AnswersKeep
<1> QED
  BY <1>1, <1>2, <1>3

LEMMA MuteKinds ==
    ASSUME NEW d, NEW what
    PROVE  Mute(d, what) \in {{}, {"ack"}} /\ Mute(d, what)' \in {{}, {"ack"}}
BY DEF Mute

LEMMA NewsKept ==
    ASSUME NEW d \in Device, inbound \in Seq(Messages), NewsInv(d),
           NewsKeeps(d), level'[d] = level[d],
           NoAnswer(inbound, d)
           \/ \A what \in What : Mute(d, what)' = Mute(d, what)
    PROVE  NewsInv(d)'
<1> SUFFICES ASSUME NEW what \in What
             PROVE  NewsOf(inbound', d, level'[d], Mute(d, what)')
  BY DEF NewsInv
<1>1. NewsOf(inbound, d, level[d], Mute(d, what))
  BY DEF NewsInv
<1>2. NewsOf(inbound, d, level[d], Mute(d, what)')
  BY <1>1, MuteKinds, MuteChanges
<1> QED
  BY <1>2 DEF NewsKeeps

\* The object holds and has told what it did.
SameView(d) == /\ d \in Known /\ d \in Known'
               /\ dev'[d].param = dev[d].param /\ dev'[d].told = dev[d].told
               /\ dev'[d].initialized = dev[d].initialized

LEMMA HeldKept ==
    ASSUME NEW d \in Device, inbound \in Seq(Messages), HeldInv(d),
           NewsKeeps(d), level'[d] = level[d], SameView(d),
           NoAnswer(inbound, d)
           \/ \A what \in What : Mute(d, what)' = Mute(d, what),
           \A what \in What : Asked(d, what) => Asked(d, what)'
    PROVE  HeldInv(d)'
<1> SUFFICES ASSUME NEW what \in What, AllMute(inbound', d, Mute(d, what)')
             PROVE  Right(d, what)' \/ Asked(d, what)'
  BY DEF HeldInv
<1>1. AllMute(inbound, d, Mute(d, what)')
  BY DEF NewsKeeps
<1>2. AllMute(inbound, d, Mute(d, what))
  BY <1>1, MuteKinds, MuteChanges
<1>3. Right(d, what) \/ Asked(d, what)
  BY <1>2 DEF HeldInv
<1>4. Right(d, what) => Right(d, what)'
  BY DEF Right, SameView, Answered
<1> QED
  BY <1>3, <1>4

LEMMA SameMute ==
    ASSUME NEW d, d \in Known <=> d \in Known',
           d \in Known => SameView(d) /\ Awaited(d)' = Awaited(d)
    PROVE  \A what \in What : Mute(d, what)' = Mute(d, what)
BY DEF Mute, SameView

LEMMA AskedKept ==
    ASSUME NEW d, SameView(d), Awaited(d)' = Awaited(d), QueueKeeps(d),
           LineKeeps(d), HasAck(inbound, d) => HasAck(inbound', d)
    PROVE  /\ \A what \in What : Asked(d, what) => Asked(d, what)'
           /\ FirstInv(d) => FirstInv(d)'
<1>1. Second(d) => Second(d)'
  BY DEF Second, SameView, QueueKeeps, LineKeeps
<1>2. \A what \in What : Asked(d, what) => Asked(d, what)'
  BY <1>1 DEF Asked, QueueKeeps, LineKeeps
<1>3. FirstInv(d) => FirstInv(d)'
  BY DEF FirstInv, SameView, QueueKeeps, LineKeeps
<1> QED
  BY <1>2, <1>3

\* A step that says nothing of a device keeps what is known of it.
LEMMA Untouched ==
    ASSUME NEW d \in Device, inbound \in Seq(Messages), DeviceInv(d),
           QueueKeeps(d), LineKeeps(d), InboundKeeps(d),
           level'[d] = level[d], d \in Known <=> d \in Known',
           d \in Known => /\ SameView(d) /\ Awaited(d)' = Awaited(d)
                          /\ \/ Awaits(d) => Awaits(d)'
                             \/ NoLine(line, d) /\ NoAnswer(inbound, d)
                             \/ NoLine(line', d) /\ NoAnswer(inbound', d)
    PROVE  DeviceInv(d)'
<1>1. NewsInv(d)'
  BY NewsKept, SameMute DEF DeviceInv, InboundKeeps
<1>2. ASSUME d \in Known PROVE FlightInv(d)' /\ HeldInv(d)' /\ FirstInv(d)'
  <2>1. SameView(d) /\ Awaited(d)' = Awaited(d) /\ FlightInv(d) /\ HeldInv(d)
        /\ FirstInv(d)
    BY <1>2 DEF DeviceInv
  <2>2. FlightInv(d)'
    BY <1>2, <2>1 DEF FlightInv, LineKeeps, InboundKeeps, NewsKeeps, AnswersKeep
  <2>3. HasAck(inbound, d) => HasAck(inbound', d)
    BY DEF InboundKeeps, NewsKeeps, AnswersKeep
  <2>4. FirstInv(d)' /\ \A what \in What : Asked(d, what) => Asked(d, what)'
    BY <2>1, <2>3, AskedKept
  <2>5. HeldInv(d)'
    BY <2>1, <2>4, SameMute, HeldKept DEF InboundKeeps
  <2> QED
    BY <2>2, <2>4, <2>5
<1> QED
  BY <1>1, <1>2 DEF DeviceInv

\* The thread and its objects are left alone.
LEMMA SameThread ==
    ASSUME NEW d \in Device, DevOK, dev'[d] = dev[d], UNCHANGED <<pc, sending>>
    PROVE  /\ d \in Known <=> d \in Known'
           /\ d \in Known => /\ SameView(d) /\ Awaited(d)' = Awaited(d)
                             /\ Awaits(d) => Awaits(d)'
BY DEF Known, SameView, Awaited, Awaits, Written, Waits

-----------------------------------------------------------------------------
(* The levels: the service calls, and the steps that read no message for a   *)
(* device                                                                    *)

LEMMA LevelTypes ==
    ASSUME IInv
    PROVE  /\ inbound \in Seq(Messages) /\ commandQueue \in Seq(Command)
           /\ line \in Seq(Command) /\ sending \in Command /\ DevOK
           /\ level \in [Device -> Level]
           /\ pc \in {"scan", "echo", "read", "message"}
BY DEF IInv, Types, InboundOK, QueueOK, LineOK, ThreadOK, LevelOK

LEMMA Subtypes ==
    /\ Seq(Fitting) \subseteq Seq(Command)
    /\ Seq(Proper) \subseteq Seq(Messages)
    /\ Fitting \subseteq Command /\ Proper \subseteq Messages
<1>1. Fitting \subseteq Command /\ Proper \subseteq Messages
  BY DEF Fitting, Proper
<1>2. ASSUME NEW S, NEW T, S \subseteq T PROVE Seq(S) \subseteq Seq(T)
  BY <1>2
<1> QED
  BY <1>1, <1>2

LEMMA LevelFrames ==
    ASSUME LevelInv
    PROVE  /\ UNCHANGED <<commandQueue, line, sending>> => ClassInv'
           /\ UNCHANGED <<inbound, repeats>> => KindInv'
           /\ UNCHANGED excused => ExcuseInv' /\ (Exact' => Exact)
           /\ excused' = {"level", "event"} => ExcuseInv' /\ ~Exact'
           /\ \A e \in {{}, {"level", "event"}} :
                 excused' = excused \cup e =>
                     ExcuseInv' /\ (Exact' => Exact /\ e = {})
           /\ Exact => ExactInv
<1>1. UNCHANGED <<commandQueue, line, sending>> => ClassInv'
  BY DEF LevelInv, ClassInv
<1>2. UNCHANGED <<inbound, repeats>> => KindInv'
  BY DEF LevelInv, KindInv
<1>3. UNCHANGED excused => ExcuseInv' /\ (Exact' => Exact)
  BY DEF LevelInv, ExcuseInv, Exact
<1>4. excused' = {"level", "event"} => ExcuseInv' /\ ~Exact'
  BY DEF ExcuseInv, Exact
<1>5. excused \in {{}, {"level", "event"}}
  BY DEF LevelInv, ExcuseInv
<1>6. ASSUME NEW e \in {{}, {"level", "event"}}, excused' = excused \cup e
      PROVE  ExcuseInv' /\ (Exact' => Exact /\ e = {})
  BY <1>5, <1>6 DEF ExcuseInv, Exact
<1> QED
  BY <1>1, <1>2, <1>3, <1>4, <1>6 DEF LevelInv

LEMMA EchoKept ==
    ASSUME EchoInv, DevOK, UNCHANGED <<dev, sending>>,
           pc' = pc \/ (pc # "echo" /\ pc' # "echo"),
           NoEcho(inbound) => NoEcho(inbound'),
           OneEcho(inbound) => OneEcho(inbound'),
           NoNak(inbound) => NoNak(inbound'),
           \A d : NoLine(line, d) /\ NoAnswer(inbound, d) =>
                      NoLine(line', d) /\ NoAnswer(inbound', d)
    PROVE  EchoInv'
BY SameObjects DEF EchoInv

\* The thread moves on; a message that is for no object is dropped.
LEMMA Moves ==
    ASSUME IInv, ExactInv, UNCHANGED <<dev, line, level, sending>>, LinkInv',
           pc' = pc \/ (pc # "echo" /\ pc' # "echo"),
           \A d \in Device : QueueKeeps(d),
           \/ UNCHANGED inbound
           \/ /\ inbound # <<>> /\ inbound' = Tail(inbound)
              /\ \A d \in Known : Irrelevant(Head(inbound), d)
    PROVE  ExactInv'
<1>1. inbound \in Seq(Messages) /\ line \in Seq(Command) /\ DevOK
  BY LevelTypes
<1>2. EchoInv /\ \A d \in Device : DeviceInv(d)
  BY DEF ExactInv
<1>3. EchoInv'
  <2>1. CASE UNCHANGED inbound
    BY <1>1, <1>2, <2>1, EchoKept
  <2>2. CASE inbound # <<>> /\ inbound' = Tail(inbound)
    BY <1>1, <1>2, <2>2, EchoesTail, AnswersTail, EchoKept
  <2> QED
    BY <2>1, <2>2
<1>4. ASSUME NEW d \in Device PROVE DeviceInv(d)'
  <2>0. Known' = Known
    BY SameObjects
  <2>1. d \in Known => /\ SameView(d) /\ Awaited(d)' = Awaited(d)
                       /\ Awaits(d) => Awaits(d)'
    BY <2>0 DEF SameView, Awaited, Awaits, Written, Waits
  <2>2. DeviceInv(d) /\ QueueKeeps(d) /\ LineKeeps(d)
    BY <1>1, <1>2, LineKept
  <2>3. CASE InboundKeeps(d)
    BY <1>1, <2>0, <2>1, <2>2, <2>3, Untouched
  <2>4. CASE d \notin Known
    <3>1. NewsInv(d) /\ \A what \in What : Mute(d, what)' = Mute(d, what)
      BY <2>0, <2>2, <2>4 DEF DeviceInv, Mute
    <3>2. NewsInv(d)'
      <4>1. CASE UNCHANGED inbound
        BY <3>1, <4>1 DEF NewsInv
      <4>2. CASE inbound # <<>> /\ inbound' = Tail(inbound)
        BY <1>1, <3>1, <4>2, NewsTail DEF NewsInv
      <4> QED
        BY <4>1, <4>2
    <3> QED
      BY <2>0, <2>4, <3>2 DEF DeviceInv
  <2> QED
    BY <1>1, <2>3, <2>4, InboundKept DEF Irrelevant
<1> QED
  BY <1>3, <1>4 DEF ExactInv

\* The commands that the calls push are of the class of the device.
LEMMA FittingTo ==
    ASSUME NEW d \in Device, NEW cs \in Seq(CommandsOf(d))
    PROVE  To(d, cs) \in Seq(Fitting)
<1>1. /\ Len(cs) \in Nat /\ DOMAIN cs = 1..Len(cs)
      /\ \A i \in 1..Len(cs) : cs[i] \in CommandsOf(d)
  OBVIOUS
<1>2. CommandsOf(d) \subseteq DirectCommand
  BY DEF CommandsOf, DirectCommand, Device
<1>3. \A i \in 1..Len(cs) : [to |-> d, cmd |-> cs[i]] \in Fitting
  BY <1>1, <1>2 DEF Command, Fitting
<1> QED
  BY <1>1, <1>3 DEF To

LEMMA FittingModem ==
    ASSUME NEW c \in ModemCommand
    PROVE  To(Modem, <<c>>) \in Seq(Fitting)
<1> DEFINE q == <<c>>
<1>1. Len(q) = 1 /\ q[1] = c /\ DOMAIN q = 1..1
  OBVIOUS
<1>2. [to |-> Modem, cmd |-> c] \in Fitting
  BY DeviceAssumption DEF Command, Fitting
<1> HIDE DEF q
<1>3. To(Modem, q) = [i \in 1..1 |-> [to |-> Modem, cmd |-> c]]
  BY <1>1 DEF To
<1>4. To(Modem, q) \in Seq(Fitting)
  BY <1>2, <1>3
<1> QED
  BY <1>4 DEF q

LEMMA ClassCommands ==
    ASSUME NEW d \in Device
    PROVE  /\ d \in Switch => CommandsOf(d) = {"on", "off", "query"}
           /\ d \in IOLinc => CommandsOf(d) = {"on", "query"}
           /\ d \in EZFlora => CommandsOf(d) = {"on", "off", "meter", "program"}
BY DeviceAssumption DEF CommandsOf

LEMMA ClassKinds ==
    ASSUME NEW d \in Device
    PROVE  /\ d \in Switch =>
                KindsOf(d) = {"ack", "devnak", "cleanup", "stopped"}
           /\ d \in IOLinc => KindsOf(d) = {"ack", "devnak", "cleanup"}
           /\ d \in EZFlora => KindsOf(d) = {"ack", "devnak", "broadcast"}
<1>1. d \in Switch => KindsOf(d) = {"ack", "devnak"} \cup {"cleanup", "stopped"}
  BY DeviceAssumption DEF KindsOf
<1>2. d \in IOLinc => KindsOf(d) = {"ack", "devnak"} \cup {"cleanup"}
  BY DeviceAssumption DEF KindsOf
<1>3. d \in EZFlora => KindsOf(d) = {"ack", "devnak"} \cup {"broadcast"}
  BY DeviceAssumption DEF KindsOf
<1> QED
  BY <1>1, <1>2, <1>3

LEMMA SwitchCommands ==
    ASSUME NEW d \in Device, NEW cs \in {TurnOn(d), TurnOff(d), Toggle(d)}
    PROVE  cs \in Seq(CommandsOf(d))
<1>1. TurnOff(d) \in Seq(CommandsOf(d))
  BY ClassCommands DEF TurnOff, Device
<1>2. TurnOn(d) \in Seq(CommandsOf(d))
  <2>1. CASE d \in Switch
    BY <2>1, ClassCommands DEF TurnOn
  <2>2. CASE d \in IOLinc
    BY <2>2, ClassCommands, DeviceAssumption DEF TurnOn
  <2>3. CASE d \in EZFlora
    BY <2>3, ClassCommands, DeviceAssumption DEF TurnOn
  <2> QED
    BY <2>1, <2>2, <2>3 DEF Device
<1>3. Toggle(d) \in Seq(CommandsOf(d))
  <2>1. CASE d \in Switch
    BY <2>1, ClassCommands DEF Toggle
  <2>2. CASE d \in IOLinc
    BY <2>2, ClassCommands, DeviceAssumption DEF Toggle
  <2>3. CASE d \in EZFlora
    BY <2>3, <1>1, <1>2, DeviceAssumption DEF Toggle
  <2> QED
    BY <2>1, <2>2, <2>3 DEF Device
<1> QED
  BY <1>1, <1>2, <1>3

LEMMA QueueGrows ==
    ASSUME IInv, LevelInv, NEW cs \in Seq(Fitting),
           commandQueue' = commandQueue \o cs,
           UNCHANGED <<pc, sending, dev, link, line, repeats, level, inbound,
                       excused>>
    PROVE  LevelInv'
<1>1. cs \in Seq(Command) /\ commandQueue \in Seq(Command)
  BY Subtypes, LevelTypes
<1>2. ClassInv'
  BY DEF LevelInv, ClassInv
<1>3. KindInv' /\ ExcuseInv' /\ (Exact' => Exact) /\ (Exact => ExactInv)
  BY LevelFrames
<1>4. \A d \in Device : QueueKeeps(d)
  BY <1>1, QueueKept
<1>5. ASSUME ExactInv PROVE ExactInv'
  <2>1. LinkInv'
    BY <1>5 DEF ExactInv, LinkInv
  <2> QED
    BY <1>4, <1>5, <2>1, Moves
<1> QED
  BY <1>2, <1>3, <1>5 DEF LevelInv

LEMMA PushQuery ==
    ASSUME NEW d \in Device, NEW q \in Seq(Command)
    PROVE  /\ Asking(q \o To(d, <<"query">>), d)
           /\ Asking(q, d) => Twice(q \o To(d, <<"query">>), d)
<1> DEFINE c == [to |-> d, cmd |-> "query"]
<1>1. c \in Command /\ Asks(c, d)
  BY DEF Command, DirectCommand, Asks
<1>2. To(d, <<"query">>) = <<c>>
  BY DEF To
<1> HIDE DEF c
<1>3. q \o <<c>> = Append(q, c)
  BY <1>1
<1>4. q \o To(d, <<"query">>) = Append(q, c)
  BY Zenon, <1>2, <1>3
<1> QED
  BY <1>1, <1>4, QueryAdded

\* A fault excuses what it says, and nothing else excuses.
LEMMA FaultExcuse ==
    ASSUME LevelInv, NEW e \in {{}, {"level", "event"}}
    PROVE  /\ \A f : Fault(f, e) => ExcuseInv' /\ (Exact' => Exact /\ e = {})
           /\ NoFault => ExcuseInv' /\ (Exact' => Exact)
BY LevelFrames DEF Fault, NoFault

LEMMA AddModuleLevel ==
    ASSUME IInv, LevelInv, NEW d \in Device, AddModule(d)
    PROVE  LevelInv'
<1> DEFINE o == [known |-> TRUE, status |-> "idle", last |-> "garbage",
                 param |-> "off", initialized |-> FALSE, told |-> "none"]
           cs == <<IF d \in EZFlora THEN "meter" ELSE "query">>
           e == IF AnswerComes(d) THEN {"level", "event"} ELSE {}
<1>1. /\ dev' = [dev EXCEPT ![d] = o]
      /\ commandQueue' = commandQueue \o To(d, cs)
      /\ excused' = excused \cup e /\ d \notin Known
      /\ UNCHANGED <<pc, sending, link, line, repeats, level, inbound>>
  BY DEF AddModule, outside, Known
<1>2. inbound \in Seq(Messages) /\ commandQueue \in Seq(Command)
      /\ line \in Seq(Command) /\ DevOK
  BY LevelTypes
<1>3. cs \in Seq(CommandsOf(d))
  BY ClassCommands DEF Device
<1>4. To(d, cs) \in Seq(Fitting) /\ To(d, cs) \in Seq(Command)
  BY <1>3, FittingTo, Subtypes
<1>5. d \notin EZFlora => cs = <<"query">>
  OBVIOUS
<1>6. o.known = TRUE /\ o.initialized = FALSE /\ o.told = "none"
  OBVIOUS
<1> HIDE DEF cs, o
<1>7. ClassInv'
  BY <1>1, <1>4 DEF LevelInv, ClassInv
<1>8. KindInv' /\ ExcuseInv' /\ (Exact' => Exact /\ ~AnswerComes(d))
      /\ (Exact => ExactInv)
  BY <1>1, LevelFrames
<1>9. ASSUME ExactInv, ~AnswerComes(d) PROVE ExactInv'
  <2>1. LinkInv'
    BY <1>1, <1>9 DEF ExactInv, LinkInv
  <2>2. NoLine(line, d) /\ NoAnswer(inbound, d)
    BY <1>9 DEF AnswerComes, NoLine, NoAnswer, Answers
  <2>3. /\ dev'[d] = o /\ \A x \in Device \ {d} : dev'[x] = dev[x]
        /\ Known' = Known \cup {d}
    <3>1. dev'[d] = o /\ \A x \in Device \ {d} : dev'[x] = dev[x]
      BY <1>1, <1>2 DEF DevOK
    <3> QED
      BY <1>6, <3>1 DEF Known
  <2>4. EchoInv'
    BY <1>1, <1>9, <2>2, <2>3 DEF ExactInv, EchoInv
  <2>5. ASSUME NEW x \in Device PROVE DeviceInv(x)'
    <3>1. DeviceInv(x) /\ LineKeeps(x) /\ InboundKeeps(x) /\ QueueKeeps(x)
      BY <1>1, <1>2, <1>4, <1>9, LineKept, InboundKept, QueueKept DEF ExactInv
    <3>2. CASE x # d
      BY <1>1, <1>2, <2>3, <3>1, <3>2, SameThread, Untouched
    <3>3. CASE x = d
      <4>1. NewsInv(d)'
        BY <1>1, <1>2, <2>2, <3>1, <3>3, NewsKept DEF DeviceInv, InboundKeeps
      <4>2. FlightInv(d)'
        BY <1>1, <1>2, <2>2, NothingMute DEF FlightInv, LineOf, NoLine
      <4>3. Right(d, "level")' /\ Right(d, "event")'
        BY <1>6, <2>3 DEF Right, Answered
      <4>4. HeldInv(d)'
        BY <4>3 DEF HeldInv, What
      <4>5. FirstInv(d)'
        BY <1>1, <1>2, <1>5, PushQuery DEF FirstInv
      <4> QED
        BY <3>3, <4>1, <4>2, <4>4, <4>5 DEF DeviceInv
    <3> QED
      BY <3>2, <3>3
  <2> QED
    BY <2>1, <2>4, <2>5 DEF ExactInv
<1> QED
  BY <1>7, <1>8, <1>9 DEF LevelInv

LEMMA ClearModulesLevel ==
    ASSUME IInv, LevelInv, ClearModules
    PROVE  LevelInv'
<1>1. /\ dev' = [d \in Device |-> NoDevice] /\ pc = "scan"
      /\ UNCHANGED <<commandQueue, pc, sending, link, line, repeats, level,
                     inbound, excused>>
  BY DEF ClearModules, outside
<1>2. ClassInv' /\ KindInv' /\ ExcuseInv' /\ (Exact' => Exact)
      /\ (Exact => ExactInv)
  BY <1>1, LevelFrames
<1>3. Known' = {}
  BY <1>1 DEF Known, NoDevice
<1>4. ASSUME ExactInv PROVE ExactInv'
  <2>1. LinkInv' /\ EchoInv'
    BY <1>1, <1>3, <1>4 DEF ExactInv, LinkInv, EchoInv
  <2>2. ASSUME NEW d \in Device PROVE DeviceInv(d)'
    <3>1. NewsInv(d)
      BY <1>4 DEF ExactInv, DeviceInv
    <3>2. \A what : Mute(d, what)' = {}
      BY <1>3 DEF Mute
    <3>3. ASSUME NEW what \in What
          PROVE  NewsOf(inbound, d, level[d], {})
      <4>1. NewsOf(inbound, d, level[d], Mute(d, what))
        BY <3>1 DEF NewsInv
      <4> QED
        BY <4>1 DEF NewsOf
    <3>4. NewsInv(d)'
      BY <1>1, <3>2, <3>3 DEF NewsInv
    <3> QED
      BY <1>3, <3>4 DEF DeviceInv
  <2> QED
    BY <2>1, <2>2 DEF ExactInv
<1> QED
  BY <1>2, <1>4 DEF LevelInv

LEMMA CallLevel ==
    ASSUME IInv, LevelInv, Call
    PROVE  LevelInv'
<1>1. ASSUME NEW d \in Device, NEW cs \in Seq(CommandsOf(d)), Request(d, cs)
      PROVE  LevelInv'
  <2>1. To(d, cs) \in Seq(Fitting) /\ commandQueue' = commandQueue \o To(d, cs)
        /\ UNCHANGED <<pc, sending, dev, link, line, repeats, level, inbound,
                       excused>>
    BY <1>1, FittingTo DEF Request, outside
  <2> QED
    BY <2>1, QueueGrows
<1>2. ASSUME NEW d \in Device, SwitchCall(d) PROVE LevelInv'
  <2>1. PICK cs \in {TurnOn(d), TurnOff(d), Toggle(d)} : Request(d, cs)
    BY <1>2 DEF SwitchCall
  <2>2. cs \in Seq(CommandsOf(d))
    BY SwitchCommands
  <2> QED
    BY <1>1, <2>1, <2>2
<1>3. ASSUME NEW d \in EZFlora, EZFloraCall(d) PROVE LevelInv'
  <2>1. PICK c \in {"meter", "program"} : Request(d, <<c>>)
    BY <1>3 DEF EZFloraCall
  <2>2. d \in Device /\ <<c>> \in Seq(CommandsOf(d))
    BY ClassCommands DEF Device
  <2> QED
    BY <1>1, <2>1, <2>2
<1>4. CASE RefreshLinks
  <2>1. To(Modem, <<"first">>) \in Seq(Fitting)
    BY FittingModem DEF ModemCommand
  <2>2. commandQueue' = commandQueue \o To(Modem, <<"first">>)
        /\ UNCHANGED <<pc, sending, dev, link, line, repeats, level, inbound,
                       excused>>
    BY <1>4 DEF RefreshLinks, outside
  <2> QED
    BY <2>1, <2>2, QueueGrows
<1> QED
  BY <1>2, <1>3, <1>4, AddModuleLevel, ClearModulesLevel DEF Call

LEMMA ExpireLevel ==
    ASSUME IInv, LevelInv, NEW d \in Device, Expire(d)
    PROVE  LevelInv'
<1>1. /\ dev' = [dev EXCEPT ![d].status = "idle"] /\ d \in Known
      /\ IF AnswerComes(d) THEN Fault("late", {"level", "event"}) ELSE NoFault
      /\ UNCHANGED <<commandQueue, pc, sending, link, line, repeats, level,
                     inbound>>
  BY DEF Expire, outside, Waits
<1>2. inbound \in Seq(Messages) /\ commandQueue \in Seq(Command)
      /\ line \in Seq(Command) /\ DevOK
  BY LevelTypes
<1>3. ClassInv' /\ KindInv' /\ ExcuseInv'
      /\ (Exact' => Exact /\ ~AnswerComes(d))
      /\ (Exact => ExactInv)
  BY <1>1, LevelFrames, FaultExcuse
<1>4. ASSUME ExactInv, ~AnswerComes(d) PROVE ExactInv'
  <2>1. LinkInv'
    BY <1>1, <1>4 DEF ExactInv, LinkInv
  <2>2. NoLine(line, d) /\ NoAnswer(inbound, d)
    BY <1>4 DEF AnswerComes, NoLine, NoAnswer, Answers
  <2>3. /\ SameView(d) /\ dev'[d].last = dev[d].last /\ Known' = Known
        /\ \A x \in Device \ {d} : dev'[x] = dev[x]
    <3>1. dev[d] \in Object /\ d \in Device
      BY <1>1, <1>2, KnownObject
    <3>2. /\ dev'[d] = [dev[d] EXCEPT !.status = "idle"]
          /\ \A x \in Device \ {d} : dev'[x] = dev[x]
      BY <1>1, <1>2 DEF DevOK
    <3>3. /\ dev'[d].known = dev[d].known /\ dev'[d].last = dev[d].last
          /\ dev'[d].param = dev[d].param /\ dev'[d].told = dev[d].told
          /\ dev'[d].initialized = dev[d].initialized
      BY <3>1, <3>2 DEF Object
    <3> QED
      BY <1>1, <3>2, <3>3 DEF Known, SameView
  <2>4. EchoInv'
    BY <1>1, <1>4, <2>3 DEF ExactInv, EchoInv
  <2>5. ASSUME NEW x \in Device PROVE DeviceInv(x)'
    <3>1. DeviceInv(x) /\ LineKeeps(x) /\ InboundKeeps(x) /\ QueueKeeps(x)
      BY <1>1, <1>2, <1>4, LineKept, InboundKept, QueueKept DEF ExactInv
    <3>2. CASE x # d
      BY <1>1, <1>2, <2>3, <3>1, <3>2, SameThread, Untouched
    <3>3. CASE x = d
      <4>1. Awaited(d)' = Awaited(d)
        BY <1>1, <2>3 DEF Awaited, Written
      <4> QED
        BY <1>1, <1>2, <2>2, <2>3, <3>1, <3>3, <4>1, Untouched
    <3> QED
      BY <3>2, <3>3
  <2> QED
    BY <2>1, <2>4, <2>5 DEF ExactInv
<1> QED
  BY <1>3, <1>4 DEF LevelInv

\* What the modem says of a command, and not of a device.
LEMMA PlainProper ==
    ASSUME NEW m \in {Echo, Nak, Garbage, Record}
    PROVE  /\ m \in Proper /\ m \in Messages /\ \A d : Irrelevant(m, d)
           /\ m \in {Garbage, Record} => ~IsEcho(m) /\ m.kind # "nak"
<1>1. m \in Messages
  BY PlainMessages
<1>2. m.from = Modem /\ m.kind \in {"echo", "nak", "garbage", "record"}
      /\ (m \in {Garbage, Record} => m.kind \in {"garbage", "record"})
  BY DEF Echo, Nak, Garbage, Record, Plain
<1> QED
  BY <1>1, <1>2, DeviceAssumption
  DEF Proper, Irrelevant, Answers, Bears, IsEcho

LEMMA EchoKinds ==
    /\ Echo.kind = "echo" /\ Nak.kind = "nak" /\ IsEcho(Echo) /\ IsEcho(Nak)
    /\ \A q : NoEcho(q) => NoNak(q)
BY DEF Echo, Nak, Plain, IsEcho, NoEcho, NoNak

\* The thread writes only when nothing is in flight for the objects.
LEMMA IdleFree ==
    ASSUME ExactInv, AllIdle, pc # "echo", NEW d \in Known
    PROVE  NoLine(line, d) /\ NoAnswer(inbound, d)
BY DEF ExactInv, DeviceInv, FlightInv, Awaits, Written, AllIdle, Known

\* The device d when the command c is written, and m is the echo of the modem.
LEMMA WriteDevice ==
    ASSUME IInv, ExactInv, AllIdle, pc = "scan", pc' = "echo",
           NEW c \in Command, sending' = c, commandQueue # <<>>,
           c = Head(commandQueue), commandQueue' = Tail(commandQueue),
           UNCHANGED <<dev, level>>, NEW d \in Device,
           \/ line' = Append(line, c)
           \/ UNCHANGED line /\ ~Asks(c, d),
           NEW m \in {Echo, Nak}, inbound' = Append(inbound, m)
    PROVE  DeviceInv(d)'
<1>1. inbound \in Seq(Messages) /\ commandQueue \in Seq(Command)
      /\ line \in Seq(Command) /\ DevOK
  BY LevelTypes
<1>2. InboundKeeps(d)
  BY <1>1, PlainProper, InboundKept
<1>3. DeviceInv(d) /\ Known' = Known
  BY SameObjects DEF ExactInv
<1>4. CASE d \notin Known
  <2>1. \A what \in What : Mute(d, what)' = Mute(d, what)
    BY <1>3, <1>4 DEF Mute
  <2> QED
    BY <1>1, <1>2, <1>3, <1>4, <2>1, NewsKept DEF DeviceInv, InboundKeeps
<1>5. CASE d \in Known
  <2>1. NoLine(line, d) /\ NoAnswer(inbound, d) /\ NoAnswer(inbound', d)
    BY <1>2, <1>5, IdleFree DEF InboundKeeps, NewsKeeps, AnswersKeep
  <2>2. SameView(d)
    BY <1>3, <1>5 DEF SameView
  <2>3. NewsInv(d) /\ HeldInv(d) /\ FirstInv(d)
    BY <1>3, <1>5 DEF DeviceInv
  <2>4. NewsInv(d)'
    BY <1>1, <1>2, <2>1, <2>3, NewsKept DEF InboundKeeps
  <2>5. ~HasAck(inbound, d) /\ ~Asking(line, d)
    BY <1>1, <2>1, NothingMute DEF NoLine, Asking, Asks
  <2>6. ASSUME Asks(c, d) PROVE Asking(line', d)
    <3>1. line' = Append(line, c)
      BY <2>6
    <3>2. Asking(Append(line, c), d)
      BY <1>1, <2>6, QueryAdded
    <3> QED
      BY <3>1, <3>2
  <2>7. Asking(commandQueue, d) => Asking(commandQueue', d) \/ Asking(line', d)
    BY <1>1, <2>6, QueriesTail
  <2>8. Second(d) => Second(d)'
    BY <1>1, <2>5, <2>6, <2>7, QueriesTail DEF Second
  <2>9. \A what \in What : Asked(d, what) => Asked(d, what)'
    BY <2>5, <2>7, <2>8 DEF Asked
  <2>10. HeldInv(d)'
    BY <1>1, <1>2, <2>1, <2>2, <2>3, <2>9, HeldKept DEF InboundKeeps
  <2>11. FirstInv(d)'
    BY <2>3, <2>5, <2>7 DEF FirstInv
  <2>12. FlightInv(d)'
    <3>1. \A e : AnswerOf(inbound', d, e)
      BY <2>1 DEF AnswerOf, NoAnswer
    <3>2. CASE c.to = d
      <4>1. Awaited(d)' = c.cmd /\ Awaits(d)'
        BY <3>2 DEF Awaited, Awaits, Written
      <4>2. LineOf(Append(line, c), d, c.cmd)
        BY <1>1, <2>1, <3>2, LineAppend
      <4>3. LineOf(line, d, c.cmd)
        BY <2>1 DEF LineOf, NoLine
      <4>4. LineOf(line', d, c.cmd)
        BY <4>2, <4>3
      <4> QED
        BY <2>1, <3>1, <4>1, <4>4 DEF FlightInv
    <3>3. CASE c.to # d
      <4>1. NoLine(line', d)
        BY <1>1, <2>1, <3>3, LineAppend
      <4> QED
        BY <2>1, <3>1, <4>1 DEF FlightInv, LineOf, NoLine
    <3> QED
      BY <3>2, <3>3
  <2> QED
    BY <2>4, <2>10, <2>11, <2>12 DEF DeviceInv
<1> QED
  BY <1>4, <1>5

LEMMA WriteLevel ==
    ASSUME IInv, LevelInv, Write
    PROVE  LevelInv'
<1>1. inbound \in Seq(Messages) /\ commandQueue \in Seq(Command)
      /\ line \in Seq(Command) /\ DevOK
  BY LevelTypes
<1>2. PICK c : c = Head(commandQueue)
  OBVIOUS
<1>3. /\ pc = "scan" /\ pc' = "echo" /\ AllIdle /\ commandQueue # <<>>
      /\ sending' = c /\ commandQueue' = Tail(commandQueue)
      /\ UNCHANGED <<dev, link, level, repeats>>
      /\ \/ Accept(c) \/ Refuse(c)
         \/ link = "broken" /\ NoFault /\ UNCHANGED <<line, inbound>>
  BY <1>2 DEF Write, MaySend, Goes
<1>4. c \in Fitting /\ Tail(commandQueue) \in Seq(Fitting) /\ c \in Command
  BY <1>2, <1>3, Subtypes DEF LevelInv, ClassInv
<1>5. /\ \/ line' = Append(line, c) \/ UNCHANGED line
      /\ \/ UNCHANGED inbound
         \/ \E m \in {Echo, Nak} : inbound' = Append(inbound, m)
  BY <1>3 DEF Accept, Refuse
<1>6. ClassInv'
  <2>1. line \in Seq(Fitting)
    BY DEF LevelInv, ClassInv
  <2>2. Append(line, c) \in Seq(Fitting)
    BY <1>4, <2>1
  <2>3. line' \in Seq(Fitting)
    BY <1>5, <2>1, <2>2
  <2> QED
    BY <1>3, <1>4, <2>3 DEF ClassInv
<1>7. KindInv'
  <2>1. inbound \in Seq(Proper) /\ repeats \in SUBSET Repeated
    BY DEF LevelInv, KindInv
  <2>2. \A m \in {Echo, Nak} : Append(inbound, m) \in Seq(Proper)
    BY <2>1, PlainProper
  <2>3. inbound' \in Seq(Proper)
    BY <1>5, <2>1, <2>2
  <2> QED
    BY <1>3, <2>1, <2>3 DEF KindInv
<1>8. Exact => ExactInv
  BY DEF LevelInv
<1>9. ASSUME NEW m \in {Echo, Nak}, inbound' = Append(inbound, m), ExactInv,
             m = Nak => UNCHANGED line,
             \A d : line' = Append(line, c) \/ (UNCHANGED line /\ ~Asks(c, d))
      PROVE  ExactInv'
  <2>1. LinkInv'
    BY <1>3, <1>9 DEF ExactInv, LinkInv, Write
  <2>2. NoEcho(inbound) /\ Known' = Known
    BY <1>3, <1>9, SameObjects DEF ExactInv, EchoInv
  <2>3. m \in Messages /\ \A d : Irrelevant(m, d)
    BY PlainProper
  <2>4. OneEcho(inbound') /\ (m = Echo => NoNak(inbound'))
    BY <1>1, <1>9, <2>2, <2>3, EchoesAppend, EchoKinds
  <2>5. ASSUME m = Nak, c.to \in Known
        PROVE  NoLine(line', c.to) /\ NoAnswer(inbound', c.to)
    <3>1. NoLine(line, c.to) /\ NoAnswer(inbound, c.to)
      BY <1>3, <1>9, <2>5, IdleFree
    <3> QED
      BY <1>1, <1>9, <2>3, <2>5, <3>1, AnswersAppend DEF Irrelevant
  <2>6. EchoInv'
    BY <1>3, <2>2, <2>4, <2>5 DEF EchoInv
  <2>7. \A d \in Device : DeviceInv(d)'
    BY <1>2, <1>3, <1>4, <1>9, WriteDevice
  <2> QED
    BY <2>1, <2>6, <2>7 DEF ExactInv
<1>10. CASE Accept(c)
  <2>1. NoFault /\ inbound' = Append(inbound, Echo)
        /\ line' = IF c.cmd = "config" THEN line ELSE Append(line, c)
    BY <1>10 DEF Accept
  <2>2. ExcuseInv' /\ (Exact' => Exact)
    BY <2>1, FaultExcuse
  <2>3. ASSUME NEW d
        PROVE  line' = Append(line, c) \/ (UNCHANGED line /\ ~Asks(c, d))
    <3>1. c.cmd = "config" => ~Asks(c, d)
      BY DEF Asks
    <3> QED
      BY <2>1, <3>1
  <2>4. Echo # Nak
    BY EchoKinds
  <2>5. ExactInv => ExactInv'
    BY <1>9, <2>1, <2>3, <2>4
  <2> QED
    BY <1>6, <1>7, <1>8, <2>2, <2>5 DEF LevelInv
<1>11. CASE Refuse(c)
  <2>1. inbound' = Append(inbound, Nak) /\ UNCHANGED line
        /\ IF c.cmd \in {"first", "next"} /\ Left(c) = 0
           THEN NoFault ELSE Fault("modemnak", UnlessAnswered(c.cmd))
    BY <1>11 DEF Refuse
  <2>2. UnlessAnswered(c.cmd) \in {{}, {"level", "event"}}
        /\ (UnlessAnswered(c.cmd) = {} => c.cmd # "query")
    BY DEF UnlessAnswered
  <2>3. ExcuseInv' /\ (Exact' => Exact /\ c.cmd # "query")
    BY <2>1, <2>2, FaultExcuse
  <2>4. ExactInv /\ c.cmd # "query" => ExactInv'
    BY <1>9, <2>1 DEF Asks
  <2> QED
    BY <1>6, <1>7, <1>8, <2>3, <2>4 DEF LevelInv
<1>12. CASE link = "broken" /\ NoFault /\ UNCHANGED <<line, inbound>>
  <2>1. ExcuseInv' /\ (Exact' => Exact)
    BY <1>12, FaultExcuse
  <2>2. ~Exact
    BY <1>8, <1>12 DEF ExactInv, LinkInv
  <2> QED
    BY <1>6, <1>7, <2>1, <2>2 DEF LevelInv
<1> QED
  BY <1>3, <1>10, <1>11, <1>12

\* The echo that is read was the only one.
LEMMA EchoGone ==
    ASSUME inbound \in Seq(Messages), OneEcho(inbound), inbound # <<>>,
           IsEcho(Head(inbound)), inbound' = Tail(inbound), pc' # "echo"
    PROVE  EchoInv'
<1>1. NoEcho(inbound')
  BY EchoesTail
<1>2. OneEcho(inbound')
  BY EchoesTail
<1>3. NoNak(inbound')
  BY <1>1, EchoKinds
<1> QED
  BY <1>1, <1>2, <1>3 DEF EchoInv

LEMMA EchoReadLevel ==
    ASSUME IInv, LevelInv, EchoRead
    PROVE  LevelInv'
<1>1. /\ pc = "echo" /\ pc' = "read" /\ inbound # <<>> /\ Head(inbound) = Echo
      /\ inbound' = Tail(inbound)
      /\ UNCHANGED <<commandQueue, sending, link, line, repeats, level,
                     excused>>
  BY DEF EchoRead, outside, Goes
<1>2. inbound \in Seq(Messages) /\ line \in Seq(Command) /\ DevOK
  BY LevelTypes
<1>3. ClassInv' /\ ExcuseInv' /\ (Exact' => Exact) /\ (Exact => ExactInv)
  BY <1>1, LevelFrames
<1>4. KindInv'
  BY <1>1 DEF LevelInv, KindInv
<1>5. ASSUME ExactInv PROVE ExactInv'
  <2>1. LinkInv'
    BY <1>1, <1>5 DEF ExactInv, LinkInv
  <2>2. EchoInv'
    BY <1>1, <1>2, <1>5, EchoKinds, EchoGone DEF ExactInv, EchoInv
  <2>3. ASSUME NEW d \in Device PROVE DeviceInv(d)'
    <3>1. DeviceInv(d) /\ LineKeeps(d) /\ QueueKeeps(d) /\ InboundKeeps(d)
      BY <1>1, <1>2, <1>5, PlainProper, LineKept, InboundKept, QueueKept
      DEF ExactInv, Irrelevant
    <3>2. CASE sending.to \in Known /\ sending.to = d
      <4>1. dev[d] \in Object
        BY <1>2, <3>2, KnownObject
      <4>2. dev'[d] = [dev[d] EXCEPT !.last = sending.cmd, !.status = "waiting"]
        BY <1>2, <3>2 DEF EchoRead, DevOK
      <4>3. /\ dev'[d].known = dev[d].known /\ dev'[d].status = "waiting"
            /\ dev'[d].param = dev[d].param /\ dev'[d].told = dev[d].told
            /\ dev'[d].initialized = dev[d].initialized
            /\ dev'[d].last = sending.cmd
        BY <4>1, <4>2 DEF Object
      <4>4. d \in Known /\ d \in Known' /\ SameView(d)
        BY <3>2, <4>3 DEF Known, SameView
      <4>5. Awaited(d)' = Awaited(d) /\ Awaits(d)'
        BY <1>1, <3>2, <4>3, <4>4 DEF Awaited, Awaits, Written, Waits
      <4> QED
        BY <1>1, <1>2, <3>1, <4>4, <4>5, Untouched
    <3>3. CASE ~(sending.to \in Known /\ sending.to = d)
      <4>1. dev'[d] = dev[d]
        BY <1>2, <3>3 DEF EchoRead, DevOK
      <4>2. d \in Known <=> d \in Known'
        BY <4>1 DEF Known
      <4>3. d \in Known => /\ SameView(d) /\ Awaited(d)' = Awaited(d)
                           /\ Awaits(d) => Awaits(d)'
        BY <1>1, <3>3, <4>1, <4>2
        DEF SameView, Awaited, Awaits, Written, Waits
      <4> QED
        BY <1>1, <1>2, <3>1, <4>2, <4>3, Untouched
    <3> QED
      BY <3>2, <3>3
  <2> QED
    BY <2>1, <2>2, <2>3 DEF ExactInv
<1> QED
  BY <1>3, <1>4, <1>5 DEF LevelInv

\* A device for which nothing is in flight may await another command.
LEMMA FreeDevice ==
    ASSUME NEW d \in Known, inbound \in Seq(Messages), DeviceInv(d),
           SameView(d),
           NoLine(line, d), NoAnswer(inbound, d), QueueKeeps(d), LineKeeps(d),
           InboundKeeps(d), level'[d] = level[d]
    PROVE  DeviceInv(d)'
<1>1. d \in Device /\ NewsInv(d) /\ HeldInv(d) /\ FirstInv(d)
  BY DEF DeviceInv, Known
<1>2. NoLine(line', d) /\ NoAnswer(inbound', d)
  BY DEF LineKeeps, InboundKeeps, NewsKeeps, AnswersKeep
<1>3. ~HasAck(inbound, d)
  BY NothingMute
<1>4. NewsInv(d)'
  BY <1>1, NewsKept DEF InboundKeeps
<1>5. Second(d) => Second(d)'
  BY <1>3 DEF Second, SameView, QueueKeeps, LineKeeps
<1>6. \A what \in What : Asked(d, what) => Asked(d, what)'
  BY <1>5 DEF Asked, QueueKeeps, LineKeeps
<1>7. HeldInv(d)'
  BY <1>1, <1>6, HeldKept DEF InboundKeeps
<1>8. FirstInv(d)'
  BY <1>1, <1>3 DEF FirstInv, SameView, QueueKeeps, LineKeeps
<1>9. FlightInv(d)'
  BY <1>2 DEF FlightInv, NoLine, NoAnswer, LineOf, AnswerOf
<1> QED
  BY <1>4, <1>7, <1>8, <1>9 DEF DeviceInv

LEMMA NakReadLevel ==
    ASSUME IInv, LevelInv, NakRead
    PROVE  LevelInv'
<1>1. /\ pc = "echo" /\ pc' = "read" /\ inbound # <<>> /\ Head(inbound) = Nak
      /\ inbound' = Tail(inbound)
      /\ UNCHANGED <<commandQueue, sending, dev, link, line, repeats, level,
                     excused>>
  BY DEF NakRead, outside, Goes
<1>2. inbound \in Seq(Messages) /\ line \in Seq(Command) /\ DevOK
  BY LevelTypes
<1>3. ClassInv' /\ ExcuseInv' /\ (Exact' => Exact) /\ (Exact => ExactInv)
  BY <1>1, LevelFrames
<1>4. KindInv'
  BY <1>1 DEF LevelInv, KindInv
<1>5. ASSUME ExactInv PROVE ExactInv'
  <2>1. LinkInv'
    BY <1>1, <1>5 DEF ExactInv, LinkInv
  <2>2. EchoInv'
    BY <1>1, <1>2, <1>5, EchoKinds, EchoGone DEF ExactInv, EchoInv
  <2>3. ASSUME NEW d \in Device PROVE DeviceInv(d)'
    <3>1. DeviceInv(d) /\ LineKeeps(d) /\ QueueKeeps(d) /\ InboundKeeps(d)
      BY <1>1, <1>2, <1>5, PlainProper, LineKept, InboundKept, QueueKept
      DEF ExactInv, Irrelevant
    <3>2. (d \in Known <=> d \in Known') /\ (d \in Known => SameView(d))
      BY <1>1 DEF Known, SameView
    <3>3. CASE d \in Known /\ sending.to = d
      <4>1. ~NoNak(inbound)
        BY <1>1, <1>2, TailAt, EchoKinds DEF NoNak
      <4>2. NoLine(line, d) /\ NoAnswer(inbound, d)
        BY <1>5, <3>3, <4>1 DEF ExactInv, EchoInv
      <4> QED
        BY <1>1, <1>2, <3>1, <3>2, <3>3, <4>2, FreeDevice
    <3>4. CASE ~(d \in Known /\ sending.to = d)
      <4>1. d \in Known => /\ Awaited(d)' = Awaited(d)
                           /\ Awaits(d) => Awaits(d)'
        BY <1>1, <3>2, <3>4 DEF Awaited, Awaits, Written, Waits
      <4> QED
        BY <1>1, <1>2, <3>1, <3>2, <4>1, Untouched
    <3> QED
      BY <3>3, <3>4
  <2> QED
    BY <2>1, <2>2, <2>3 DEF ExactInv
<1> QED
  BY <1>3, <1>4, <1>5 DEF LevelInv

LEMMA CollideLevel ==
    ASSUME IInv, LevelInv, Collide
    PROVE  LevelInv'
<1>1. /\ inbound # <<>> /\ inbound' = Spoilt(Tail(inbound))
      /\ excused' = {"level", "event"}
      /\ UNCHANGED <<commandQueue, sending, line, repeats>>
  BY DEF Collide, outside
<1>2. ClassInv' /\ ExcuseInv' /\ ~Exact'
  BY <1>1, LevelFrames
<1> DEFINE q == Tail(inbound)
<1>3. q \in Seq(Proper) /\ repeats \in SUBSET Repeated
  BY <1>1 DEF LevelInv, KindInv
<1> HIDE DEF q
<1>4. /\ DOMAIN q = 1..Len(q) /\ Len(q) \in Nat
      /\ \A i \in 1..Len(q) : q[i] \in Proper
  BY <1>3
<1>5. Spoilt(q) \in Seq(Proper)
  BY <1>4, PlainProper DEF Spoilt
<1>6. KindInv'
  BY <1>1, <1>3, <1>5 DEF KindInv, q
<1> QED
  BY <1>2, <1>6 DEF LevelInv

\* A message that is for no object is dropped, and commands may be pushed.
LEMMA DropLevel ==
    ASSUME IInv, LevelInv, NEW cs \in Seq(Fitting), pc # "echo", pc' = "scan",
           UNCHANGED commandQueue \/ commandQueue' = commandQueue \o cs,
           inbound # <<>>, inbound' = Tail(inbound),
           ExactInv => \A d \in Known : Irrelevant(Head(inbound), d),
           UNCHANGED <<sending, dev, link, line, repeats, level, excused>>
    PROVE  LevelInv'
<1>1. cs \in Seq(Command) /\ commandQueue \in Seq(Command)
  BY Subtypes, LevelTypes
<1>2. commandQueue \in Seq(Fitting) /\ inbound \in Seq(Proper)
  BY DEF LevelInv, ClassInv, KindInv
<1>3. commandQueue' \in Seq(Fitting) /\ inbound' \in Seq(Proper)
  <2>1. commandQueue \o cs \in Seq(Fitting)
    BY <1>2
  <2>2. Tail(inbound) \in Seq(Proper)
    BY <1>2
  <2> QED
    BY <1>2, <2>1, <2>2
<1>4. ClassInv' /\ KindInv'
  BY <1>3 DEF LevelInv, ClassInv, KindInv
<1>5. ExcuseInv' /\ (Exact' => Exact) /\ (Exact => ExactInv)
  BY LevelFrames
<1>6. \A d \in Device : QueueKeeps(d)
  BY <1>1, QueueKept
<1>7. ASSUME ExactInv PROVE ExactInv'
  <2>1. LinkInv'
    BY <1>7 DEF ExactInv, LinkInv
  <2> QED
    BY <1>6, <1>7, <2>1, Moves
<1> QED
  BY <1>4, <1>5, <1>7 DEF LevelInv

\* Nothing is read, and the thread moves on.
LEMMA MoveLevel ==
    ASSUME IInv, LevelInv,
           UNCHANGED <<commandQueue, sending, dev, line, repeats, level, inbound,
                       excused>>,
           ExactInv => /\ LinkInv'
                       /\ pc' = pc \/ (pc # "echo" /\ pc' # "echo")
    PROVE  LevelInv'
<1>1. ClassInv' /\ KindInv' /\ ExcuseInv' /\ (Exact' => Exact)
      /\ (Exact => ExactInv)
  BY LevelFrames
<1>2. \A d \in Device : QueueKeeps(d)
  BY QueueKept
<1>3. ASSUME ExactInv PROVE ExactInv'
  BY <1>2, <1>3, Moves
<1> QED
  BY <1>1, <1>3 DEF LevelInv

LEMMA QuietThreadLevel ==
    ASSUME IInv, LevelInv,
           \/ Connect \/ NothingToSend \/ EchoTimeout \/ EndOfStream
           \/ NothingToRead \/ StartMessage
           \/ ReadGarbage \/ UnknownMessage \/ RecordMessage
    PROVE  LevelInv'
<1>1. CASE Connect \/ NothingToSend \/ EchoTimeout \/ EndOfStream
           \/ NothingToRead \/ StartMessage
  <2>1. UNCHANGED <<commandQueue, sending, dev, line, repeats, level, inbound,
                    excused>>
    BY <1>1 DEF Connect, NothingToSend, EchoTimeout, EndOfStream,
                NothingToRead, StartMessage, thread, outside
  <2>2. ASSUME ExactInv
        PROVE  LinkInv' /\ (pc' = pc \/ (pc # "echo" /\ pc' # "echo"))
    <3>1. LinkInv
      BY <2>2 DEF ExactInv
    <3>2. CASE Connect
      BY <3>1, <3>2 DEF LinkInv, Connect, thread
    <3>3. CASE EchoTimeout \/ EndOfStream
      BY <3>1, <3>3 DEF LinkInv, EchoTimeout, EndOfStream
    <3>4. CASE NothingToSend \/ NothingToRead \/ StartMessage
      BY <3>1, <3>4 DEF LinkInv, NothingToSend, NothingToRead, StartMessage,
                        Goes, outside
    <3> QED
      BY <1>1, <3>2, <3>3, <3>4
  <2> QED
    BY <2>1, <2>2, MoveLevel
<1>2. CASE ReadGarbage \/ UnknownMessage \/ RecordMessage
  <2> DEFINE cs == To(Modem, <<"next">>)
  <2>1. cs \in Seq(Fitting)
    BY FittingModem DEF ModemCommand
  <2>2. /\ pc # "echo" /\ pc' = "scan" /\ inbound # <<>>
        /\ inbound' = Tail(inbound)
        /\ UNCHANGED commandQueue \/ commandQueue' = commandQueue \o cs
        /\ UNCHANGED <<sending, dev, link, line, repeats, level, excused>>
    BY <1>2 DEF ReadGarbage, UnknownMessage, RecordMessage, Goes, outside
  <2>3. \/ Head(inbound).kind \in {"garbage", "record"}
        \/ Head(inbound).from \notin Known
    BY <1>2 DEF ReadGarbage, UnknownMessage, RecordMessage
  <2>4. \A d \in Known : Irrelevant(Head(inbound), d)
    BY <2>3 DEF Irrelevant, Answers, Bears
  <2> HIDE DEF cs
  <2> QED
    BY <2>1, <2>2, <2>4, DropLevel
<1> QED
  BY <1>1, <1>2

-----------------------------------------------------------------------------
(* The levels: a message of a device *)

\* What processEvent makes of an object, for the messages of its class.
LEMMA Events ==
    ASSUME DevOK, NEW d \in Known, NEW last, NEW m \in Proper, m.from = d,
           NEW o, o = ProcessEvent(d, last, m)
    PROVE  /\ m.kind \in {"stopped", "devnak"} => o = dev[d]
           /\ m.kind = "cleanup" => o = Learnt(dev[d], m.cmd1)
           /\ m.kind = "broadcast" /\ last # "program" =>
                 o = Learnt(dev[d], m.cmd2)
           /\ m.kind = "ack" /\ last \in CommandsOf(d)
              /\ Acknowledges(m, d, last) =>
                \/ last = "program" /\ o = dev[d]
                \/ d \in IOLinc /\ last = "on" /\ o = dev[d]
                \/ last = "meter" /\ o = [dev[d] EXCEPT !.param = m.cmd2]
                \/ last = "query" /\ o = Queried(dev[d], m.cmd2)
                \/ last \in Level /\ d \notin IOLinc /\ o = Learnt(dev[d], m.cmd2)
<1>1. d \in Device /\ m.kind \in KindsOf(d) /\ m \in Messages
  BY DEF Known, Proper
<1>2. m.kind = "cleanup" => m.cmd1 \in Level
  BY <1>1 DEF Messages
<1>3. m.kind = "ack" /\ Acknowledges(m, d, last) =>
        /\ m.cmd1 = IF last = "query" THEN "zero" ELSE Cmd1(last)
        /\ last \in Level /\ d \notin IOLinc => m.cmd2 = last
  BY DEF Acknowledges
<1>4. CASE d \in Switch
  <2>1. o = SwitchEvent(dev[d], last, m)
    BY <1>4, DeviceAssumption DEF ProcessEvent
  <2>2. /\ m.kind \in {"ack", "devnak", "cleanup", "stopped"}
        /\ CommandsOf(d) = {"on", "off", "query"} /\ d \notin IOLinc
    BY <1>1, <1>4, ClassCommands, ClassKinds, DeviceAssumption
  <2> QED
    BY <1>2, <1>3, <2>1, <2>2 DEF SwitchEvent, Cmd1, Level
<1>5. CASE d \in IOLinc
  <2>1. o = IOLincEvent(dev[d], last, m)
    BY <1>5, DeviceAssumption DEF ProcessEvent
  <2>2. /\ m.kind \in {"ack", "devnak", "cleanup"}
        /\ CommandsOf(d) = {"on", "query"}
    BY <1>1, <1>5, ClassCommands, ClassKinds
  <2> QED
    BY <1>5, <2>1, <2>2 DEF IOLincEvent
<1>6. CASE d \in EZFlora
  <2>1. o = EZFloraEvent(dev[d], last, m)
    BY <1>6, DeviceAssumption DEF ProcessEvent
  <2>2. /\ m.kind \in {"ack", "devnak", "broadcast"} /\ d \notin IOLinc
        /\ CommandsOf(d) = {"on", "off", "meter", "program"}
    BY <1>1, <1>6, ClassCommands, ClassKinds, DeviceAssumption
  <2> QED
    BY <1>3, <2>1, <2>2 DEF EZFloraEvent, Cmd1, Level
<1> QED
  BY <1>1, <1>4, <1>5, <1>6 DEF Device

LEMMA LearntFields ==
    ASSUME NEW o \in Object, NEW v \in Level
    PROVE  /\ Learnt(o, v).param = v /\ Learnt(o, v).told = v
           /\ Learnt(o, v).initialized = o.initialized
           /\ Learnt(o, v).last = o.last /\ Learnt(o, v).status = o.status
BY DEF Learnt, Object

LEMMA QueriedFields ==
    ASSUME NEW o \in Object, NEW v \in Level
    PROVE  /\ Queried(o, v).param = v /\ Queried(o, v).initialized = TRUE
           /\ o.initialized = TRUE => Queried(o, v).told = v
           /\ o.initialized = FALSE => Queried(o, v).told = o.told
<1>1. Queried(o, v).param = v /\ Queried(o, v).initialized = TRUE
  BY DEF Queried, Object
<1>2. o.initialized \in BOOLEAN
  BY DEF Object
<1>3. /\ o.initialized = TRUE => Queried(o, v).told = v
      /\ o.initialized = FALSE => Queried(o, v).told = o.told
  BY <1>2 DEF Queried, Object
<1> QED
  BY <1>1, <1>3

LEMMA MeteredFields ==
    ASSUME NEW o \in Object, NEW v \in Level
    PROVE  /\ [o EXCEPT !.param = v].param = v
           /\ [o EXCEPT !.param = v].told = o.told
           /\ [o EXCEPT !.param = v].initialized = o.initialized
BY DEF Object

\* What the object of d becomes, h, with the ACK m of the command c.
TakesAck(d, m, c, h) ==
    /\ h.status = "idle" /\ h.known = TRUE
    /\ c = "query" => h.initialized = TRUE
    /\ c # "query" => h.initialized = dev[d].initialized
    /\ Ignores(d, c, dev[d].initialized, "level") =>
         /\ h.param = dev[d].param /\ h.told = dev[d].told
         /\ h.initialized = dev[d].initialized
    /\ ~Ignores(d, c, dev[d].initialized, "level") => h.param = m.cmd2
    /\ Ignores(d, c, dev[d].initialized, "event") => h.told = dev[d].told
    /\ ~Ignores(d, c, dev[d].initialized, "event") => h.told = m.cmd2

\* The ACK of the command that the object has.
LEMMA AckFields ==
    ASSUME DevOK, NEW d \in Known, NEW m \in Proper, m.from = d, m.kind = "ack",
           NEW c \in CommandsOf(d), Acknowledges(m, d, c), c # "garbage",
           NEW h, h = Handled(d, c, m)
    PROVE  TakesAck(d, m, c, h)
<1>1. PICK o : o = ProcessEvent(d, c, m)
  OBVIOUS
<1>2. dev[d] \in Object /\ m \in Messages /\ m.cmd2 \in Level /\ d \in Device
  <2>1. d \in Device /\ m \in Messages
    BY Subtypes DEF Known
  <2> QED
    BY <2>1, KnownObject DEF Messages
<1>3. o \in Object
  BY <1>1, <1>2, EventObject
<1>4. h = [o EXCEPT !.status = "idle", !.last = "zero"]
  BY <1>1 DEF Handled
<1>5. /\ h.status = "idle" /\ h.known = TRUE /\ h.param = o.param
      /\ h.told = o.told /\ h.initialized = o.initialized
  BY <1>3, <1>4 DEF Object
<1>6. dev[d].initialized \in BOOLEAN
  BY <1>2 DEF Object
<1>7. \/ c = "program" /\ o = dev[d]
      \/ d \in IOLinc /\ c = "on" /\ o = dev[d]
      \/ c = "meter" /\ o = [dev[d] EXCEPT !.param = m.cmd2]
      \/ c = "query" /\ o = Queried(dev[d], m.cmd2)
      \/ c \in Level /\ d \notin IOLinc /\ o = Learnt(dev[d], m.cmd2)
  BY <1>1, Events
<1>8. CASE (c = "program" \/ (d \in IOLinc /\ c = "on")) /\ o = dev[d]
  BY <1>5, <1>8 DEF Ignores, TakesAck
<1>9. CASE c = "meter" /\ o = [dev[d] EXCEPT !.param = m.cmd2]
  BY <1>2, <1>5, <1>9, MeteredFields DEF Ignores, TakesAck
<1>10. CASE c = "query" /\ o = Queried(dev[d], m.cmd2)
  <2>1. /\ o.param = m.cmd2 /\ o.initialized = TRUE
        /\ dev[d].initialized = TRUE => o.told = m.cmd2
        /\ dev[d].initialized = FALSE => o.told = dev[d].told
    <3> DEFINE x == Queried(dev[d], m.cmd2)
    <3>1. /\ x.param = m.cmd2 /\ x.initialized = TRUE
          /\ dev[d].initialized = TRUE => x.told = m.cmd2
          /\ dev[d].initialized = FALSE => x.told = dev[d].told
      BY <1>2, QueriedFields
    <3> HIDE DEF x
    <3>2. o = x
      BY <1>10 DEF x
    <3> QED
      BY <3>1, <3>2
  <2>2. ~Ignores(d, c, dev[d].initialized, "level")
    BY <1>10 DEF Ignores
  <2>3. Ignores(d, c, dev[d].initialized, "event") <=>
            dev[d].initialized = FALSE
    BY <1>10 DEF Ignores
  <2> QED
    BY <1>5, <1>6, <1>10, <2>1, <2>2, <2>3 DEF TakesAck
<1>11. CASE c \in Level /\ d \notin IOLinc /\ o = Learnt(dev[d], m.cmd2)
  <2>1. /\ o.param = m.cmd2 /\ o.told = m.cmd2
        /\ o.initialized = dev[d].initialized
    BY Zenon, <1>2, <1>11, LearntFields
  <2>2. \A what : ~Ignores(d, c, dev[d].initialized, what)
    BY <1>11 DEF Ignores, Level
  <2>3. c # "query"
    BY <1>11 DEF Level
  <2> QED
    BY <1>5, <2>1, <2>2, <2>3 DEF TakesAck
<1> QED
  BY <1>7, <1>8, <1>9, <1>10, <1>11

LEMMA BooleanAgain ==
    ASSUME NEW m \in Proper
    PROVE  /\ m.again = TRUE \/ m.again = FALSE
           /\ m.from \in Device /\ m.kind # "ack" => m.again = FALSE
<1>1. m.again \in BOOLEAN
  BY DEF Proper, Messages
<1> QED
  BY <1>1 DEF Proper

\* What a message of d that was read leaves for d, when its object is h.
MessageRead(d, m, h) ==
    /\ pc = "message" /\ pc' = "scan" /\ inbound # <<>> /\ Head(inbound) = m
    /\ inbound' = Tail(inbound) /\ dev' = [dev EXCEPT ![d] = h]
    /\ UNCHANGED <<sending, link, line, level>>

\* The objects of the other devices are left alone.
LEMMA MessageRest ==
    ASSUME IInv, ExactInv, NEW d \in Known, NEW m, m.from = d, NEW h,
           h.known = TRUE, MessageRead(d, m, h), DeviceInv(d)',
           \A e \in Device : QueueKeeps(e)
    PROVE  ExactInv'
<1>1. inbound \in Seq(Messages) /\ line \in Seq(Command) /\ DevOK
  BY LevelTypes
<1>2. LinkInv'
  BY DEF ExactInv, LinkInv, MessageRead
<1>3. /\ d \in Device /\ dev'[d] = h
      /\ \A e \in Device \ {d} : dev'[e] = dev[e]
  BY <1>1 DEF MessageRead, DevOK, Known
<1>4. Known' = Known
  BY <1>3 DEF Known
<1>5. EchoInv'
  <2>1. NoEcho(inbound)
    BY DEF ExactInv, EchoInv, MessageRead
  <2>2. NoEcho(inbound') /\ pc' # "echo"
    BY <1>1, <2>1, EchoesTail DEF MessageRead
  <2> QED
    BY <2>2, EchoKinds DEF EchoInv, OneEcho, NoEcho
<1>6. ASSUME NEW e \in Device, e # d PROVE DeviceInv(e)'
  <2>1. ~Bears(Head(inbound), e)
    BY <1>6 DEF Bears, MessageRead
  <2>2. DeviceInv(e) /\ LineKeeps(e) /\ InboundKeeps(e)
    BY <1>1, <2>1, LineKept, InboundKept DEF ExactInv, MessageRead
  <2>3. (e \in Known <=> e \in Known') /\ (e \in Known => SameView(e))
    BY <1>3, <1>4, <1>6 DEF SameView
  <2>4. e \in Known => Awaited(e)' = Awaited(e) /\ (Awaits(e) => Awaits(e)')
    BY <1>3, <1>4, <1>6 DEF Awaited, Awaits, Written, Waits, MessageRead
  <2>5. level'[e] = level[e]
    BY DEF MessageRead
  <2> QED
    BY <1>1, <2>2, <2>3, <2>4, <2>5, Untouched
<1> QED
  BY <1>2, <1>5, <1>6 DEF ExactInv

\* A refusal ends the wait.
LEMMA DevnakRead ==
    ASSUME IInv, ExactInv, NEW d \in Known, NEW m \in Proper, m.from = d,
           m.kind = "devnak", QueueKeeps(d), NEW h \in Object,
           MessageRead(d, m, h),
           h.param = dev[d].param, h.told = dev[d].told, h.last = dev[d].last,
           h.initialized = dev[d].initialized
    PROVE  DeviceInv(d)'
<1>1. inbound \in Seq(Messages) /\ line \in Seq(Command) /\ DevOK
      /\ d \in Device
  BY LevelTypes DEF Known
<1>2. dev'[d] = h /\ h.known = TRUE
  BY <1>1 DEF MessageRead, DevOK, Object
<1>3. d \in Known' /\ SameView(d) /\ Awaited(d)' = Awaited(d)
  BY <1>1, <1>2 DEF Known, SameView, Awaited, Written, MessageRead
<1>4. DeviceInv(d) /\ LineKeeps(d) /\ InboundKeeps(d) /\ level'[d] = level[d]
  BY <1>1, LineKept, InboundKept DEF ExactInv, MessageRead, Bears
<1>5. m.again = FALSE /\ Answers(m, d)
  BY <1>1, BooleanAgain DEF Proper, Answers
<1>6. ~NoAnswer(inbound, d)
  BY <1>1, <1>5, AnswersTail DEF MessageRead
<1>7. FlightInv(d)
  BY <1>4 DEF DeviceInv
<1>8. NoLine(line', d)
  BY <1>6, <1>7 DEF FlightInv, MessageRead
<1>9. NoAnswer(inbound', d)
  BY <1>1, <1>5, <1>7, AnswersTail DEF FlightInv, MessageRead
<1> QED
  BY <1>1, <1>3, <1>4, <1>8, <1>9, Untouched

\* A report tells the level to the object, or makes it ask.
LEMMA ReportRead ==
    ASSUME IInv, ExactInv, NEW d \in Known, NEW m \in Proper, m.from = d,
           m.kind \in {"cleanup", "broadcast", "stopped"}, NEW h \in Object,
           MessageRead(d, m, h), QueueKeeps(d), h.last = dev[d].last,
           h.status = dev[d].status, h.initialized = dev[d].initialized,
           \/ h.param = Value(m) /\ h.told = Value(m)
           \/ /\ h.param = dev[d].param /\ h.told = dev[d].told
              /\ d \notin EZFlora /\ Asking(commandQueue', d)
              /\ Asking(commandQueue, d) => Twice(commandQueue', d)
    PROVE  DeviceInv(d)'
<1>1. inbound \in Seq(Messages) /\ line \in Seq(Command) /\ DevOK
      /\ d \in Device
  BY LevelTypes DEF Known
<1>2. dev'[d] = h /\ h.known = TRUE
  BY <1>1 DEF MessageRead, DevOK, Object
<1>3. /\ d \in Known' /\ Awaited(d)' = Awaited(d)
      /\ Awaits(d) => Awaits(d)'
  BY <1>1, <1>2 DEF Known, Awaited, Awaits, Written, Waits, MessageRead
<1>4. \A what : Mute(d, what)' = Mute(d, what)
  BY <1>2, <1>3 DEF Mute
<1>5. DeviceInv(d) /\ level'[d] = level[d] /\ line' = line
  BY <1>1 DEF ExactInv, MessageRead
<1>6. NewsInv(d) /\ FlightInv(d) /\ HeldInv(d) /\ FirstInv(d)
  BY <1>5 DEF DeviceInv
<1>7. m.again = FALSE /\ Bears(m, d) /\ ~Answers(m, d)
  BY <1>1, BooleanAgain DEF Proper, Answers, Bears
<1>8. inbound # <<>> /\ Head(inbound) = m /\ inbound' = Tail(inbound)
  BY DEF MessageRead
<1>9. NewsInv(d)'
  <2> SUFFICES ASSUME NEW what \in What
               PROVE  NewsOf(inbound', d, level'[d], Mute(d, what)')
    BY DEF NewsInv
  <2>1. NewsOf(inbound, d, level[d], Mute(d, what))
    BY <1>6 DEF NewsInv
  <2>2. NewsOf(Tail(inbound), d, level[d], Mute(d, what))
    BY <1>1, <1>8, <2>1, NewsTail
  <2>3. Mute(d, what)' = Mute(d, what)
    BY <1>4
  <2> QED
    BY <1>5, <1>8, <2>2, <2>3
<1>10. FlightInv(d)'
  BY <1>1, <1>3, <1>5, <1>6, <1>8, AnswersTail DEF FlightInv
<1>11. HasAck(inbound, d) => HasAck(inbound', d)
  BY <1>1, <1>7, <1>8, AnswersTail
<1>12. FirstInv(d)'
  BY <1>2, <1>3, <1>5, <1>6, <1>11 DEF FirstInv, QueueKeeps
<1>13. HeldInv(d)'
  <2> SUFFICES ASSUME NEW what \in What, AllMute(inbound', d, Mute(d, what)')
               PROVE  Right(d, what)' \/ Asked(d, what)'
    BY DEF HeldInv
  <2>1. CASE h.param = Value(m) /\ h.told = Value(m)
    <3>1. NewsOf(inbound, d, level[d], Mute(d, what))
      BY <1>6 DEF NewsInv
    <3>2. AllMute(Tail(inbound), d, Mute(d, what))
      BY <1>4, <1>8
    <3>3. Value(m) = level[d]
      BY <1>1, <1>7, <1>8, <3>1, <3>2, NewsTail
    <3> QED
      BY <1>2, <1>5, <2>1, <3>3 DEF Right
  <2>2. CASE /\ d \notin EZFlora /\ Asking(commandQueue', d)
             /\ Asking(commandQueue, d) => Twice(commandQueue', d)
    <3>1. CASE dev'[d].initialized = TRUE
      BY <2>2, <3>1 DEF Asked, Second
    <3>2. CASE dev'[d].initialized = FALSE
      <4>1. \/ Asking(commandQueue, d) \/ Asking(line, d)
            \/ HasAck(inbound, d) /\ Awaited(d) = "query"
        BY <1>2, <1>6, <2>2, <3>2 DEF FirstInv
      <4> QED
        BY <1>3, <1>5, <1>11, <2>2, <4>1 DEF Asked, Second
    <3>3. h.initialized \in BOOLEAN
      BY DEF Object
    <3> QED
      BY <1>2, <3>1, <3>2, <3>3
  <2> QED
    BY <2>1, <2>2
<1> QED
  BY <1>9, <1>10, <1>12, <1>13 DEF DeviceInv

\* The answer to the command c.
LEMMA AckRead ==
    ASSUME IInv, ExactInv, NEW d \in Known, NEW m \in Proper, m.from = d,
           m.kind = "ack", m.again = FALSE, QueueKeeps(d),
           NEW c, c = dev[d].last, NEW h, MessageRead(d, m, h),
           h = Handled(d, c, m)
    PROVE  DeviceInv(d)' /\ h.known = TRUE
<1>1. inbound \in Seq(Messages) /\ line \in Seq(Command) /\ DevOK
      /\ d \in Device
  BY LevelTypes DEF Known
<1>2. DeviceInv(d) /\ level'[d] = level[d] /\ line' = line
  BY <1>1 DEF ExactInv, MessageRead
<1>3. NewsInv(d) /\ FlightInv(d) /\ HeldInv(d) /\ FirstInv(d)
  BY <1>2 DEF DeviceInv
<1>4. inbound # <<>> /\ Head(inbound) = m /\ inbound' = Tail(inbound)
  BY DEF MessageRead
<1>5. Answers(m, d) /\ Bears(m, d) /\ Awaited(d) = c
  BY DEF Answers, Bears, Awaited, Written, MessageRead
<1>6. /\ c \in CommandsOf(d) /\ Acknowledges(m, d, c)
      /\ NoAnswer(inbound', d) /\ NoLine(line', d)
  BY <1>1, <1>2, <1>3, <1>4, <1>5, AnswersTail DEF FlightInv
<1>7. c # "garbage"
  BY <1>1, <1>6, ClassCommands DEF Device
<1>8. TakesAck(d, m, c, h)
  BY <1>1, <1>6, <1>7, AckFields
<1>9. dev'[d] = h /\ d \in Known'
  BY <1>1, <1>8 DEF MessageRead, DevOK, Known, TakesAck
<1>10. NewsInv(d)'
  <2> SUFFICES ASSUME NEW what \in What
               PROVE  NewsOf(inbound', d, level'[d], Mute(d, what)')
    BY DEF NewsInv
  <2>1. inbound' \in Seq(Messages)
    BY <1>1, <1>4
  <2>2. NewsOf(inbound', d, level[d], Mute(d, what))
    BY <1>1, <1>3, <1>4, NewsTail DEF NewsInv
  <2>3. PICK before : before = Mute(d, what)
    OBVIOUS
  <2>4. PICK after : after = Mute(d, what)'
    OBVIOUS
  <2>5. PICK q : q = inbound'
    OBVIOUS
  <2>6. before \in {{}, {"ack"}} /\ after \in {{}, {"ack"}}
    BY <2>3, <2>4, MuteKinds
  <2>7. /\ q \in Seq(Messages) /\ NoAnswer(q, d)
        /\ NewsOf(q, d, level[d], before)
    BY <1>6, <2>1, <2>2, <2>3, <2>5
  <2>8. NewsOf(q, d, level[d], after)
    BY <2>6, <2>7, MuteChanges
  <2> QED
    BY <1>2, <2>4, <2>5, <2>8
<1>11. FlightInv(d)'
  BY <1>6 DEF FlightInv, NoLine, NoAnswer, LineOf, AnswerOf
<1>12. ~Asking(line, d)
  BY <1>2, <1>6 DEF Asking, NoLine, Asks
<1>13. FirstInv(d)'
  <2>1. ASSUME d \notin EZFlora, h.initialized = FALSE
        PROVE  Asking(commandQueue', d)
    BY <1>3, <1>5, <1>8, <1>12, <2>1 DEF FirstInv, QueueKeeps, TakesAck
  <2> QED
    BY <1>9, <2>1 DEF FirstInv
<1>14. HeldInv(d)'
  <2> SUFFICES ASSUME NEW what \in What, AllMute(inbound', d, Mute(d, what)')
               PROVE  Right(d, what)' \/ Asked(d, what)'
    BY DEF HeldInv
  <2>1. AllMute(Tail(inbound), d, Mute(d, what))
    <3>1. inbound' \in Seq(Messages)
      BY <1>1, <1>4
    <3>2. AllMute(inbound', d, Mute(d, what))
      BY Zenon, <1>6, <3>1, MuteKinds, MuteChanges
    <3> QED
      BY <1>4, <3>2
  <2>2. CASE Ignores(d, c, dev[d].initialized, what)
    <3>1. m.kind \in Mute(d, what)
      BY <1>5, <2>2 DEF Mute
    <3>2. AllMute(inbound, d, Mute(d, what))
      BY <1>1, <1>4, <2>1, <3>1, NewsTail
    <3>3. Right(d, what) \/ Asked(d, what)
      BY <1>3, <3>2 DEF HeldInv
    <3>4. what = "level" => (Right(d, what) => Right(d, what)')
      BY <1>2, <1>8, <1>9, <2>2 DEF Right, Answered, TakesAck
    <3>5. what = "event" => (Right(d, what) => Right(d, what)')
      BY <1>2, <1>8, <1>9, <2>2 DEF Right, TakesAck
    <3>6. Second(d) => Second(d)'
      BY <1>5, <1>8, <1>9, <1>12 DEF Second, QueueKeeps, TakesAck
    <3>7. Asked(d, what) => Asked(d, what)'
      BY <1>12, <3>6 DEF Asked, QueueKeeps
    <3> QED
      BY <3>3, <3>4, <3>5, <3>7 DEF What
  <2>3. CASE ~Ignores(d, c, dev[d].initialized, what)
    <3>1. NewsOf(inbound, d, level[d], Mute(d, what))
      BY <1>3 DEF NewsInv
    <3>2. Value(m) = level[d]
      BY <1>1, <1>4, <1>5, <2>1, <3>1, NewsTail
    <3>3. m.cmd2 = level[d]
      BY <3>2 DEF Value
    <3>4. what = "level" => h.param = level[d]
      BY <1>8, <2>3, <3>3 DEF TakesAck
    <3>5. what = "event" => h.told = level[d]
      BY <1>8, <2>3, <3>3 DEF TakesAck
    <3> QED
      BY <1>2, <1>9, <3>4, <3>5 DEF Right, What
  <2> QED
    BY <2>2, <2>3
<1> QED
  BY <1>8, <1>10, <1>11, <1>13, <1>14 DEF DeviceInv, TakesAck

\* An ACK is for the command that the object has.
LEMMA OwnAck ==
    ASSUME IInv, ExactInv, pc = "message", inbound # <<>>, NEW d \in Known,
           NEW m \in Proper, m = Head(inbound), m.from = d, m.kind = "ack",
           m.again = FALSE, NEW last \in LastSent(d)
    PROVE  last = dev[d].last /\ ~IgnoresAck(last, m)
<1>1. inbound \in Seq(Messages) /\ d \in Device
  BY LevelTypes DEF Known
<1>2. AnswerOf(inbound, d, Awaited(d))
  BY <1>1 DEF ExactInv, DeviceInv, FlightInv
<1>3. Awaited(d) = dev[d].last /\ Answers(m, d)
  BY DEF Awaited, Written, Answers
<1>4. dev[d].last \in CommandsOf(d) /\ Acknowledges(m, d, dev[d].last)
  BY <1>1, <1>2, <1>3, AnswersTail
<1>5. dev[d].last # "garbage"
  BY <1>1, <1>4, ClassCommands DEF Device
<1>6. last = dev[d].last
  BY <1>5 DEF LastSent
<1>7. last # "query" => m.cmd1 = Cmd1(last)
  BY <1>4, <1>6 DEF Acknowledges
<1> QED
  BY <1>6, <1>7 DEF IgnoresAck

\* A message that the object takes.
LEMMA TakenRead ==
    ASSUME IInv, ExactInv, NEW d \in Known, NEW m \in Proper, m.from = d,
           NEW last \in LastSent(d), ~IgnoresAck(last, m),
           MessageExcuse(d, last, m) = {}, NEW h, h = Handled(d, last, m),
           MessageRead(d, m, h), QueueKeeps(d),
           commandQueue' = commandQueue \o QueryAfterStop(d, m)
    PROVE  DeviceInv(d)' /\ h.known = TRUE
<1>1. d \in Device /\ m \in Messages /\ DevOK /\ commandQueue \in Seq(Command)
  BY LevelTypes, Subtypes DEF Known
<1>2. dev[d] \in Object /\ m.kind \in KindsOf(d) /\ m.cmd2 \in Level
      /\ (m.kind = "cleanup" => m.cmd1 \in Level)
  BY <1>1, KnownObject DEF Proper, Messages
<1>3. PICK o : o = ProcessEvent(d, last, m)
  OBVIOUS
<1>4. h \in Object /\ h.known = TRUE
  <2>1. h \in Object
    BY <1>1, HandledObject
  <2> QED
    BY <2>1 DEF Object
<1>5. CASE m.kind = "ack"
  <2>1. m.again # TRUE
    <3>1. m.again = TRUE => Cmd1(last) \in {m.cmd1, "query"}
      BY <1>5 DEF IgnoresAck, Cmd1
    <3>2. m.again = TRUE => MessageExcuse(d, last, m) = {"level", "event"}
      BY <3>1 DEF MessageExcuse
    <3> QED
      BY <3>2
  <2>2. m.again = FALSE
    BY <2>1, BooleanAgain
  <2>3. last = dev[d].last
    BY <1>5, <2>2, OwnAck DEF MessageRead
  <2> QED
    BY <1>5, <2>2, <2>3, AckRead
<1>6. CASE m.kind = "devnak"
  <2>1. o = dev[d] /\ h = [o EXCEPT !.status = "idle"]
    BY <1>1, <1>3, <1>6, Events DEF Handled
  <2>2. /\ h.param = dev[d].param /\ h.told = dev[d].told
        /\ h.last = dev[d].last /\ h.initialized = dev[d].initialized
    BY <1>2, <2>1 DEF Object
  <2> QED
    BY <1>4, <1>6, <2>2, DevnakRead
<1>7. CASE m.kind \in {"cleanup", "broadcast"}
  <2>1. h = o
    BY <1>3, <1>7 DEF Handled
  <2>2. m.kind = "broadcast" => last # "program"
    <3>1. m.kind = "broadcast" => d \in EZFlora
      BY <1>1, <1>2, ClassKinds DEF Device
    <3> QED
      BY <3>1 DEF MessageExcuse
  <2>3. o = Learnt(dev[d], Value(m)) /\ Value(m) \in Level
    BY <1>1, <1>2, <1>3, <1>7, <2>2, Events DEF Value
  <2>4. /\ h.param = Value(m) /\ h.told = Value(m) /\ h.last = dev[d].last
        /\ h.initialized = dev[d].initialized /\ h.status = dev[d].status
    <3> DEFINE x == Learnt(dev[d], Value(m))
    <3>1. /\ x.param = Value(m) /\ x.told = Value(m) /\ x.last = dev[d].last
          /\ x.initialized = dev[d].initialized /\ x.status = dev[d].status
      BY <1>2, <2>3, LearntFields
    <3> HIDE DEF x
    <3>2. h = x
      BY <2>1, <2>3 DEF x
    <3> QED
      BY <3>1, <3>2
  <2> QED
    BY <1>4, <1>7, <2>4, ReportRead
<1>8. CASE m.kind = "stopped"
  <2>1. h = dev[d]
    BY <1>1, <1>3, <1>8, Events DEF Handled
  <2>2. d \in Switch /\ d \notin EZFlora
    BY <1>1, <1>2, <1>8, ClassKinds, DeviceAssumption DEF Device
  <2>3. commandQueue' = commandQueue \o To(d, <<"query">>)
    BY <1>8, <2>2 DEF QueryAfterStop
  <2>4. /\ Asking(commandQueue', d)
        /\ Asking(commandQueue, d) => Twice(commandQueue', d)
    BY <1>1, <2>3, PushQuery
  <2> QED
    BY <1>4, <1>8, <2>1, <2>2, <2>4, ReportRead
<1> QED
  BY <1>1, <1>2, <1>5, <1>6, <1>7, <1>8, ClassKinds DEF Device

LEMMA DeviceMessageLevel ==
    ASSUME IInv, LevelInv, DeviceMessage
    PROVE  LevelInv'
<1>1. PICK m : m = Head(inbound)
  OBVIOUS
<1>2. PICK d : d = m.from
  OBVIOUS
<1>3. /\ pc = "message" /\ pc' = "scan" /\ inbound # <<>> /\ d \in Known
      /\ inbound' = Tail(inbound)
      /\ UNCHANGED <<sending, link, line, repeats, level>>
  BY <1>1, <1>2 DEF DeviceMessage, Goes, outside
<1>4. PICK last \in LastSent(d) :
          IF IgnoresAck(last, m)
          THEN UNCHANGED <<dev, commandQueue, excused>>
          ELSE /\ dev' = [dev EXCEPT ![d] = Handled(d, last, m)]
               /\ commandQueue' = commandQueue \o QueryAfterStop(d, m)
               /\ excused' = excused \cup MessageExcuse(d, last, m)
  BY <1>1, <1>2 DEF DeviceMessage
<1>5. inbound \in Seq(Proper) /\ commandQueue \in Seq(Fitting)
      /\ commandQueue \in Seq(Command)
  BY LevelTypes DEF LevelInv, KindInv, ClassInv
<1>6. m \in Proper /\ Tail(inbound) \in Seq(Proper) /\ d \in Device
  BY <1>1, <1>3, <1>5 DEF Known
<1>7. CASE IgnoresAck(last, m)
  <2>1. m.kind = "ack" /\ UNCHANGED <<dev, commandQueue, excused>>
    BY <1>4, <1>7 DEF IgnoresAck
  <2>2. ASSUME ExactInv, NEW e \in Known
        PROVE  Irrelevant(Head(inbound), e)
    <3>1. m.again = TRUE
      BY <1>1, <1>2, <1>3, <1>6, <1>7, <2>1, <2>2, OwnAck, BooleanAgain
    <3> QED
      BY <1>1, <3>1 DEF Irrelevant, Answers, Bears
  <2>3. <<>> \in Seq(Fitting)
    OBVIOUS
  <2> QED
    BY <1>3, <2>1, <2>2, <2>3, DropLevel
<1>8. CASE ~IgnoresAck(last, m)
  <2>1. PICK h : h = Handled(d, last, m)
    OBVIOUS
  <2>2. PICK cs : cs = QueryAfterStop(d, m)
    OBVIOUS
  <2>3. /\ dev' = [dev EXCEPT ![d] = h] /\ commandQueue' = commandQueue \o cs
        /\ excused' = excused \cup MessageExcuse(d, last, m)
    BY <1>4, <1>8, <2>1, <2>2
  <2>4. cs \in Seq(Fitting)
    <3>1. CASE d \in Switch
      <4>1. <<"query">> \in Seq(CommandsOf(d))
        BY <1>6, <3>1, ClassCommands
      <4>2. To(d, <<"query">>) \in Seq(Fitting)
        BY <1>6, <4>1, FittingTo
      <4>3. <<>> \in Seq(Fitting)
        OBVIOUS
      <4> QED
        BY Zenon, <2>2, <4>2, <4>3 DEF QueryAfterStop
    <3>2. CASE d \notin Switch
      BY <2>2, <3>2 DEF QueryAfterStop
    <3> QED
      BY <3>1, <3>2
  <2>5. ClassInv' /\ KindInv'
    <3>1. commandQueue \o cs \in Seq(Fitting)
      BY <1>5, <2>4
    <3>2. ClassInv'
      BY <1>3, <2>3, <3>1 DEF LevelInv, ClassInv
    <3>3. KindInv'
      BY <1>3, <1>6 DEF LevelInv, KindInv
    <3> QED
      BY <3>2, <3>3
  <2>6. /\ ExcuseInv' /\ (Exact' => Exact /\ MessageExcuse(d, last, m) = {})
        /\ Exact => ExactInv
    <3>1. MessageExcuse(d, last, m) \in {{}, {"level", "event"}}
      BY DEF MessageExcuse
    <3> QED
      BY <2>3, <3>1, LevelFrames
  <2>7. MessageRead(d, m, h)
    BY <1>1, <1>3, <2>3 DEF MessageRead
  <2>8. \A e \in Device : QueueKeeps(e)
    BY <1>5, <2>3, <2>4, Subtypes, QueueKept
  <2>9. ASSUME ExactInv, MessageExcuse(d, last, m) = {} PROVE ExactInv'
    <3>1. DeviceInv(d)' /\ h.known = TRUE
      BY <1>2, <1>3, <1>6, <1>8, <2>1, <2>2, <2>3, <2>7, <2>8, <2>9, TakenRead
    <3> QED
      BY <1>2, <1>3, <2>7, <2>8, <2>9, <3>1, MessageRest
  <2> QED
    BY <2>5, <2>6, <2>9 DEF LevelInv
<1> QED
  BY <1>7, <1>8

LEMMA ThreadLevel ==
    ASSUME IInv, LevelInv, Thread
    PROVE  LevelInv'
BY ExpireLevel, WriteLevel, EchoReadLevel, NakReadLevel, CollideLevel,
   QuietThreadLevel, DeviceMessageLevel DEF Thread

-----------------------------------------------------------------------------
(* The levels: the modem, the powerline and the people *)

LEMMA SentOne ==
    ASSUME inbound \in Seq(Messages), NEW m \in Messages, Sent(<<m>>)
    PROVE  /\ inbound' = Append(inbound, m) \/ UNCHANGED inbound
           /\ link = "open" => inbound' = Append(inbound, m)
           /\ link # "open" => UNCHANGED inbound
<1>1. inbound \o <<m>> = Append(inbound, m)
  OBVIOUS
<1> QED
  BY Zenon, <1>1 DEF Sent

LEMMA EchoesAppended ==
    ASSUME NEW q \in Seq(Messages), NEW m \in Messages,
           m.kind \notin {"echo", "nak"},
           NEW r, r = q \/ r = Append(q, m)
    PROVE  /\ NoEcho(q) => NoEcho(r)
           /\ OneEcho(q) => OneEcho(r)
           /\ NoNak(q) => NoNak(r)
<1>1. ~IsEcho(m)
  BY DEF IsEcho
<1> QED
  BY <1>1, EchoesAppend

\* A message that is for no device changes nothing.
LEMMA NoiseLevel ==
    ASSUME IInv, LevelInv, NEW m \in Proper, Sent(<<m>>),
           \A d : Irrelevant(m, d), m.kind \notin {"echo", "nak"},
           UNCHANGED <<thread, link, level, excused>>,
           repeats' \subseteq repeats,
           \/ UNCHANGED line
           \/ line # <<>> /\ line' = Tail(line) /\ Head(line).to \notin Device
    PROVE  LevelInv'
<1>1. inbound \in Seq(Messages) /\ line \in Seq(Command) /\ m \in Messages
      /\ DevOK
  BY LevelTypes, Subtypes
<1>2. /\ inbound' = Append(inbound, m) \/ UNCHANGED inbound
      /\ link # "open" => UNCHANGED inbound
  BY <1>1, SentOne
<1>3. UNCHANGED <<commandQueue, pc, sending, dev>>
  BY DEF thread
<1>4. ClassInv'
  <2>1. line # <<>> => Tail(line) \in Seq(Fitting)
    BY DEF LevelInv, ClassInv
  <2> QED
    BY <1>3, <2>1 DEF LevelInv, ClassInv
<1>5. KindInv'
  BY <1>2 DEF LevelInv, KindInv
<1>6. ExcuseInv' /\ (Exact' => Exact) /\ (Exact => ExactInv)
  BY LevelFrames
<1>7. ASSUME ExactInv PROVE ExactInv'
  <2>1. LinkInv'
    BY <1>2, <1>3, <1>7 DEF ExactInv, LinkInv
  <2>2. /\ NoEcho(inbound) => NoEcho(inbound')
        /\ OneEcho(inbound) => OneEcho(inbound')
        /\ NoNak(inbound) => NoNak(inbound')
    BY <1>1, <1>2, EchoesAppended
  <2>3. \A d : InboundKeeps(d)
    BY <1>1, <1>2, InboundKept
  <2>4. \A d : NoLine(line, d) => NoLine(line', d)
    BY <1>1, LineTail
  <2>5. EchoInv'
    BY <1>1, <1>3, <1>7, <2>2, <2>3, <2>4, EchoKept
    DEF ExactInv, InboundKeeps, AnswersKeep
  <2>6. ASSUME NEW d \in Device PROVE DeviceInv(d)'
    <3>1. DeviceInv(d) /\ LineKeeps(d) /\ QueueKeeps(d)
      BY <1>1, <1>3, <1>7, LineKept, QueueKept DEF ExactInv
    <3> QED
      BY <1>1, <1>3, <2>3, <3>1, SameThread, Untouched
  <2> QED
    BY <2>1, <2>5, <2>6 DEF ExactInv
<1> QED
  BY <1>4, <1>5, <1>6, <1>7 DEF LevelInv

LEMMA OperateLevel ==
    ASSUME IInv, LevelInv, NEW d \in Device, Operate(d)
    PROVE  LevelInv'
<1>1. inbound \in Seq(Messages) /\ line \in Seq(Command) /\ DevOK
      /\ level \in [Device -> Level]
  BY LevelTypes
<1>2. PICK v : v = level'[d]
  OBVIOUS
<1>3. /\ UNCHANGED <<commandQueue, pc, sending, dev, link, line, repeats>>
      /\ level' = [level EXCEPT ![d] = Flip(@)]
      /\ excused' = IF link = "open" THEN excused ELSE {"level", "event"}
  BY DEF Operate, thread
<1>4. v \in Level /\ \A e \in Device \ {d} : level'[e] = level[e]
  BY <1>1, <1>2, <1>3 DEF Flip, Level
<1>5. PICK kind \in {"cleanup", "stopped", "broadcast"} :
          kind \in KindsOf(d) /\ Sent(<<Message(kind, d, v, v)>>)
  <2>1. CASE d \in Switch
    BY <1>2, <2>1, ClassKinds DEF Operate
  <2>2. CASE d \in IOLinc
    BY <1>2, <2>2, ClassKinds, DeviceAssumption DEF Operate
  <2>3. CASE d \in EZFlora
    BY <1>2, <2>3, ClassKinds, DeviceAssumption DEF Operate
  <2> QED
    BY <2>1, <2>2, <2>3 DEF Device
<1>6. PICK m : m = Message(kind, d, v, v)
  OBVIOUS
<1>7. /\ m.kind = kind /\ m.from = d /\ m.cmd1 = v /\ m.cmd2 = v
      /\ m.again = FALSE
  BY <1>6 DEF Message
<1>8. m \in Messages /\ m \in Proper
  <2>1. m \in Messages
    BY <1>4, <1>6 DEF Message, Messages, Kind, Level, DirectCommand
  <2> QED
    BY <1>5, <1>7, <2>1 DEF Proper
<1>9. /\ inbound' = Append(inbound, m) \/ UNCHANGED inbound
      /\ link = "open" => inbound' = Append(inbound, m)
  BY <1>1, <1>5, <1>6, <1>8, SentOne
<1>10. ClassInv' /\ KindInv'
  <2>1. ClassInv'
    BY <1>3, LevelFrames
  <2>2. inbound \in Seq(Proper)
    BY DEF LevelInv, KindInv
  <2>3. Append(inbound, m) \in Seq(Proper)
    BY <1>8, <2>2
  <2> QED
    BY <1>3, <1>9, <2>1, <2>2, <2>3 DEF LevelInv, KindInv
<1>11. ExcuseInv' /\ (Exact' => Exact /\ link = "open") /\ (Exact => ExactInv)
  BY <1>3, LevelFrames
<1>12. ASSUME ExactInv, link = "open" PROVE ExactInv'
  <2>1. inbound' = Append(inbound, m)
    BY <1>9, <1>12
  <2>2. LinkInv'
    BY <1>3, <1>12 DEF LinkInv
  <2>3. \A e : ~Answers(m, e)
    BY <1>5, <1>7 DEF Answers
  <2>4. EchoInv'
    <3>1. m.kind \notin {"echo", "nak"}
      BY <1>5, <1>7
    <3>2. /\ NoEcho(inbound) => NoEcho(inbound')
          /\ OneEcho(inbound) => OneEcho(inbound')
          /\ NoNak(inbound) => NoNak(inbound')
      BY <1>1, <1>8, <2>1, <3>1, EchoesAppended
    <3>3. \A e : NoAnswer(inbound, e) => NoAnswer(inbound', e)
      BY <1>1, <1>8, <2>1, <2>3, AnswersAppend
    <3> QED
      BY <1>1, <1>3, <1>12, <3>2, <3>3, EchoKept DEF ExactInv
  <2>5. ASSUME NEW e \in Device PROVE DeviceInv(e)'
    <3>1. DeviceInv(e) /\ LineKeeps(e) /\ QueueKeeps(e)
      BY <1>1, <1>3, <1>12, LineKept, QueueKept DEF ExactInv
    <3>2. CASE e # d
      <4>1. Irrelevant(m, e)
        BY <1>7, <2>3, <3>2 DEF Irrelevant, Bears
      <4>2. InboundKeeps(e)
        BY <1>1, <1>8, <2>1, <4>1, InboundKept
      <4> QED
        BY <1>1, <1>3, <1>4, <3>1, <3>2, <4>2, SameThread, Untouched
    <3>3. CASE e = d
      <4>1. /\ Bears(m, d) /\ Value(m) = v
            /\ \A what : m.kind \notin Mute(d, what)'
        BY <1>5, <1>7, MuteKinds DEF Bears, Value
      <4>2. NewsInv(d)'
        <5> SUFFICES ASSUME NEW what \in What
                     PROVE  NewsOf(inbound', d, level'[d], Mute(d, what)')
          BY DEF NewsInv
        <5> QED
          BY <1>1, <1>2, <1>8, <2>1, <4>1, NewsAppend
      <4>3. ASSUME d \in Known
            PROVE  FlightInv(d)' /\ HeldInv(d)' /\ FirstInv(d)'
        <5>1. /\ d \in Known' /\ SameView(d) /\ Awaited(d)' = Awaited(d)
              /\ Awaits(d) => Awaits(d)'
          BY <1>1, <1>3, <4>3, SameThread
        <5>2. FlightInv(d)
          BY <3>1, <3>3, <4>3 DEF DeviceInv
        <5>3. FlightInv(d)'
          BY <1>1, <1>3, <1>8, <2>1, <2>3, <5>1, <5>2, AnswersAppend
          DEF FlightInv
        <5>4. HasAck(inbound, d) => HasAck(inbound', d)
          BY <1>1, <1>8, <2>1, AnswersAppend
        <5>5. FirstInv(d)'
          BY <3>1, <3>3, <4>3, <5>1, <5>4, AskedKept DEF DeviceInv
        <5>6. \A what : ~AllMute(inbound', d, Mute(d, what)')
          BY <1>1, <1>8, <2>1, <4>1, NewsAppend
        <5>7. HeldInv(d)'
          BY <5>6 DEF HeldInv
        <5> QED
          BY <5>3, <5>5, <5>7
      <4>4. d \in Known' => d \in Known
        BY <1>3 DEF Known
      <4> QED
        BY <3>3, <4>2, <4>3, <4>4 DEF DeviceInv
    <3> QED
      BY <3>2, <3>3
  <2> QED
    BY <2>2, <2>4, <2>5 DEF ExactInv
<1> QED
  BY <1>10, <1>11, <1>12 DEF LevelInv

\* The messages that r has more than q say nothing of e.
Keeps(q, r, e) ==
    /\ NoAnswer(q, e) => NoAnswer(r, e)
    /\ \A c : AnswerOf(q, e, c) => AnswerOf(r, e, c)
    /\ HasAck(q, e) => HasAck(r, e)
    /\ \A v, mute : NewsOf(q, e, v, mute) => NewsOf(r, e, v, mute)
    /\ \A mute : AllMute(r, e, mute) => AllMute(q, e, mute)

\* What a device sends.
Of(d) == {m \in Messages : m.from = d /\ m.kind \notin {"echo", "nak"}}

LEMMA OthersKeep ==
    ASSUME NEW d, NEW m \in Of(d), NEW q \in Seq(Messages), NEW e, e # d
    PROVE  Keeps(q, Append(q, m), e)
<1>1. m \in Messages /\ ~Answers(m, e) /\ ~Bears(m, e)
  BY DEF Of, Answers, Bears
<1>2. /\ NoAnswer(q, e) => NoAnswer(Append(q, m), e)
      /\ \A c : AnswerOf(q, e, c) => AnswerOf(Append(q, m), e, c)
      /\ HasAck(q, e) => HasAck(Append(q, m), e)
  BY <1>1, AnswersAppend
<1>3. /\ \A v, mute : NewsOf(q, e, v, mute) => NewsOf(Append(q, m), e, v, mute)
      /\ \A mute : AllMute(Append(q, m), e, mute) => AllMute(q, e, mute)
  BY <1>1, NewsAppend
<1> QED
  BY <1>2, <1>3 DEF Keeps

\* The device d takes the command c from the line and says nothing, one thing
\* or two things.
Executes(d, c) ==
    /\ d \in Device /\ c \in CommandsOf(d) /\ line # <<>>
    /\ Head(line).to = d /\ Head(line).cmd = c /\ line' = Tail(line)
    /\ UNCHANGED <<commandQueue, pc, sending, dev, link>>
    /\ \A e \in Device \ {d} : level'[e] = level[e]
Says(d) == \/ UNCHANGED inbound
           \/ \E m \in Of(d) : inbound' = Append(inbound, m)
           \/ \E m, n \in Of(d) : inbound' = Append(Append(inbound, m), n)

LEMMA OthersHear ==
    ASSUME inbound \in Seq(Messages), NEW d, Says(d)
    PROVE  /\ \A e : e # d => InboundKeeps(e)
           /\ NoEcho(inbound) => NoEcho(inbound')
           /\ OneEcho(inbound) => OneEcho(inbound')
           /\ NoNak(inbound) => NoNak(inbound')
<1> DEFINE Fine(q, r) == /\ \A e : e # d => Keeps(q, r, e)
                         /\ NoEcho(q) => NoEcho(r)
                         /\ OneEcho(q) => OneEcho(r)
                         /\ NoNak(q) => NoNak(r)
<1>1. ASSUME NEW q \in Seq(Messages), NEW m \in Of(d)
      PROVE  Fine(q, Append(q, m)) /\ Append(q, m) \in Seq(Messages)
  <2>1. m \in Messages /\ m.kind \notin {"echo", "nak"}
    BY DEF Of
  <2>2. PICK r : r = Append(q, m)
    OBVIOUS
  <2>3. /\ NoEcho(q) => NoEcho(r)
        /\ OneEcho(q) => OneEcho(r)
        /\ NoNak(q) => NoNak(r)
    BY <2>1, <2>2, EchoesAppended
  <2>4. \A e : e # d => Keeps(q, Append(q, m), e)
    BY OthersKeep
  <2>5. Append(q, m) \in Seq(Messages)
    BY <2>1
  <2> QED
    BY <2>2, <2>3, <2>4, <2>5
<1>2. Fine(inbound, inbound)
  BY DEF Keeps
<1>3. ASSUME NEW q, NEW r, NEW s, Fine(q, r), Fine(r, s) PROVE Fine(q, s)
  BY <1>3 DEF Keeps
<1> HIDE DEF Fine
<1>4. Fine(inbound, inbound')
  <2>1. CASE UNCHANGED inbound
    BY <1>2, <2>1
  <2>2. CASE \E m \in Of(d) : inbound' = Append(inbound, m)
    BY <1>1, <2>2
  <2>3. CASE \E m, n \in Of(d) : inbound' = Append(Append(inbound, m), n)
    <3>1. PICK m \in Of(d), n \in Of(d) :
              inbound' = Append(Append(inbound, m), n)
      BY <2>3
    <3>2. PICK q : q = Append(inbound, m)
      OBVIOUS
    <3>3. Fine(inbound, q) /\ q \in Seq(Messages)
      BY <1>1, <3>2
    <3>4. Fine(q, inbound')
      BY <1>1, <3>1, <3>2, <3>3
    <3> QED
      BY <1>3, <3>3, <3>4
  <2> QED
    BY <2>1, <2>2, <2>3 DEF Says
<1> QED
  BY <1>4 DEF Fine, Keeps, InboundKeeps, NewsKeeps, AnswersKeep

\* The other devices, and the echo the thread waits for.
LEMMA ExecuteOthers ==
    ASSUME IInv, ExactInv, NEW d, NEW c, Executes(d, c), Says(d)
    PROVE  LinkInv' /\ EchoInv' /\ \A e \in Device \ {d} : DeviceInv(e)'
<1>1. inbound \in Seq(Messages) /\ line \in Seq(Command) /\ DevOK
  BY LevelTypes
<1>2. LinkInv'
  BY DEF Executes, ExactInv, LinkInv
<1>3. EchoInv'
  <2>1. ASSUME NEW x, NoLine(line, x), NoAnswer(inbound, x)
        PROVE  NoLine(line', x) /\ NoAnswer(inbound', x)
    <3>1. x # d /\ NoLine(line', x)
      BY <1>1, <2>1, LineTail DEF Executes
    <3> QED
      BY <1>1, <2>1, <3>1, OthersHear DEF InboundKeeps, AnswersKeep
  <2> QED
    BY <1>1, <2>1, OthersHear, EchoKept DEF Executes, ExactInv
<1>4. ASSUME NEW e \in Device \ {d} PROVE DeviceInv(e)'
  <2>1. DeviceInv(e) /\ LineKeeps(e) /\ QueueKeeps(e) /\ InboundKeeps(e)
    BY <1>1, LineKept, QueueKept, OthersHear DEF ExactInv, Executes
  <2> QED
    BY <1>1, <2>1, SameThread, Untouched DEF Executes
<1> QED
  BY <1>2, <1>3, <1>4

\* The ACK of the device, and the report of its sensor.
LEMMA AfterLevel ==
    ASSUME level \in [Device -> Level], NEW d \in Device,
           NEW c \in CommandsOf(d)
    PROVE  /\ After(d, c) \in Level
           /\ d \notin IOLinc /\ c \in Level => After(d, c) = c
           /\ c \notin Level => After(d, c) = level[d]
           /\ d \in IOLinc /\ c \in Level => c = "on"
<1>1. level[d] \in Level
  OBVIOUS
<1>2. d \in IOLinc /\ c \in Level => c = "on"
  BY ClassCommands DEF Level
<1>3. CASE d \in IOLinc /\ c = "on"
  BY <1>1, <1>2, <1>3 DEF After, Flip, Level
<1>4. CASE d \notin IOLinc /\ c \in Level
  BY <1>1, <1>2, <1>4 DEF After
<1>5. CASE c \notin Level
  BY <1>1, <1>5 DEF After, Level
<1> QED
  BY <1>2, <1>3, <1>4, <1>5

LEMMA AckMessage ==
    ASSUME NEW d \in Device, NEW c1 \in DirectCommand \cup {"zero"},
           NEW c2 \in Level
    PROVE  LET a == Message("ack", d, c1, c2)
           IN  a \in Messages /\ [a EXCEPT !.again = TRUE] \in Messages
BY DEF Message, Messages, Kind

LEMMA AnswerFields ==
    ASSUME level \in [Device -> Level], NEW d \in Device,
           NEW c \in CommandsOf(d),
           NEW a, a = Answer(d, c)
    PROVE  /\ a \in Of(d) /\ a \in Proper /\ a.kind = "ack"
           /\ Answers(a, d) /\ Bears(a, d) /\ Acknowledges(a, d, c)
           /\ ~(d \in IOLinc /\ c = "on") => Value(a) = After(d, c)
           /\ [a EXCEPT !.again = TRUE] \in Repeated
<1> DEFINE c1 == IF c = "query" THEN "zero" ELSE Cmd1(c)
           c2 == IF d \in IOLinc /\ c = "on" THEN "on" ELSE After(d, c)
<1>1. c \in DirectCommand
  BY DEF CommandsOf, DirectCommand, Device
<1>2. c1 \in DirectCommand \cup {"zero"}
  BY <1>1 DEF Cmd1, DirectCommand
<1>3. After(d, c) \in Level /\ c2 \in Level
  BY AfterLevel DEF Level
<1>4. c \in Level /\ d \notin IOLinc => c2 = c
  BY AfterLevel
<1>5. ~(d \in IOLinc /\ c = "on") => c2 = After(d, c)
  OBVIOUS
<1>6. a = [kind |-> "ack", from |-> d, cmd1 |-> c1, cmd2 |-> c2,
           again |-> FALSE]
  BY DEF Answer, Message
<1>7. Acknowledges([kind |-> "ack", from |-> d, cmd1 |-> c1, cmd2 |-> c2,
                    again |-> FALSE], d, c)
  BY <1>4 DEF Acknowledges
<1> HIDE DEF c1, c2
<1>8. a \in Messages /\ [a EXCEPT !.again = TRUE] \in Messages
  <2>1. a = Message("ack", d, c1, c2)
    BY <1>6 DEF Message
  <2> QED
    BY <1>2, <1>3, <2>1, AckMessage
<1>9. /\ a.kind = "ack" /\ a.from = d /\ a.again = FALSE /\ a.cmd2 = c2
      /\ [a EXCEPT !.again = TRUE].kind = "ack"
      /\ [a EXCEPT !.again = TRUE].from = d
      /\ [a EXCEPT !.again = TRUE].again = TRUE
  BY <1>6
<1>10. "ack" \in KindsOf(d)
  BY DEF KindsOf
<1>11. a \in Of(d) /\ a \in Proper /\ [a EXCEPT !.again = TRUE] \in Repeated
  BY <1>8, <1>9, <1>10 DEF Of, Proper, Repeated
<1>12. Answers(a, d) /\ Bears(a, d) /\ Value(a) = c2
  BY <1>9 DEF Answers, Bears, Value
<1> QED
  BY <1>5, <1>6, <1>7, <1>9, <1>11, <1>12

LEMMA ReportFields ==
    ASSUME level \in [Device -> Level], NEW d \in IOLinc, NEW c, c = "on",
           NEW p, p = Message("cleanup", d, After(d, c), "off")
    PROVE  /\ p \in Of(d) /\ p \in Proper /\ ~Answers(p, d) /\ Bears(p, d)
           /\ Value(p) = After(d, c) /\ p.kind = "cleanup"
<1>1. d \in Device /\ c \in CommandsOf(d) /\ "cleanup" \in KindsOf(d)
  BY ClassCommands, ClassKinds DEF Device
<1>2. After(d, c) \in Level
  BY <1>1, AfterLevel
<1>3. /\ p.kind = "cleanup" /\ p.from = d /\ p.cmd1 = After(d, c)
      /\ p.again = FALSE
  BY DEF Message
<1>4. p \in Messages
  BY <1>1, <1>2 DEF Message, Messages, Level
<1> QED
  BY <1>1, <1>3, <1>4 DEF Of, Proper, Answers, Bears, Value

LEMMA DevnakFields ==
    ASSUME NEW d \in Device, NEW c \in CommandsOf(d),
           NEW n, n = Message("devnak", d, Cmd1(c), "off")
    PROVE  n \in Of(d) /\ n \in Proper /\ ~Bears(n, d) /\ n.kind = "devnak"
<1>1. c \in DirectCommand
  BY DEF CommandsOf, DirectCommand, Device
<1>2. Cmd1(c) \in DirectCommand
  BY <1>1 DEF Cmd1, DirectCommand
<1>3. n.kind = "devnak" /\ n.from = d /\ n.again = FALSE
  BY DEF Message
<1>4. n \in Messages
  BY <1>2 DEF Message, Messages, Kind, Level
<1>5. "devnak" \in KindsOf(d)
  BY DEF KindsOf
<1> QED
  BY <1>3, <1>4, <1>5 DEF Of, Proper, Bears

\* The command of the object is off the line.
LEMMA TakesCommand ==
    ASSUME IInv, ExactInv, NEW d, NEW c, Executes(d, c), d \in Known
    PROVE  /\ c = Awaited(d) /\ NoLine(line', d) /\ NoAnswer(inbound, d)
           /\ Awaits(d) /\ Awaits(d)' /\ d \in Known' /\ SameView(d)
           /\ Awaited(d)' = Awaited(d)
<1>1. line \in Seq(Command) /\ DevOK
  BY LevelTypes
<1>2. FlightInv(d)
  BY DEF ExactInv, DeviceInv, Executes
<1>3. ~NoLine(line, d)
  BY <1>1, LineTail DEF Executes
<1>4. c = Awaited(d) /\ NoLine(line', d)
  BY <1>1, <1>2, LineTail DEF FlightInv, Executes
<1>5. NoAnswer(inbound, d) /\ Awaits(d)
  BY <1>2, <1>3 DEF FlightInv
<1> QED
  BY <1>1, <1>4, <1>5, SameThread DEF Executes

\* The device has answered, and its sensor reports nothing.
LEMMA AnsweredDevice ==
    ASSUME IInv, ExactInv, NEW d, NEW c, Executes(d, c),
           ~(d \in IOLinc /\ c = "on"), level'[d] = After(d, c),
           inbound' = Append(inbound, Answer(d, c))
    PROVE  DeviceInv(d)'
<1>1. /\ inbound \in Seq(Messages) /\ line \in Seq(Command) /\ DevOK
      /\ level \in [Device -> Level]
  BY LevelTypes
<1>2. d \in Device /\ c \in CommandsOf(d) /\ DeviceInv(d)
      /\ UNCHANGED commandQueue
  BY DEF Executes, ExactInv
<1>3. PICK a : a = Answer(d, c)
  OBVIOUS
<1>4. /\ a \in Messages /\ a.kind = "ack" /\ Answers(a, d) /\ Bears(a, d)
      /\ Acknowledges(a, d, c) /\ Value(a) = level'[d]
  BY <1>1, <1>2, <1>3, AnswerFields, Subtypes
<1>5. inbound' = Append(inbound, a)
  BY <1>3
<1>6. c \notin Level => level'[d] = level[d]
  BY <1>1, <1>2, AfterLevel
<1>7. d \in Known <=> d \in Known'
  BY <1>1, <1>2, SameThread DEF Executes
<1>8. \A what \in What : Mute(d, what)' = Mute(d, what)
  BY <1>7, TakesCommand, SameMute
<1>9. ASSUME NEW what \in What, "ack" \in Mute(d, what)
      PROVE  /\ d \in Known /\ level'[d] = level[d]
             /\ Ignores(d, c, dev[d].initialized, what)
             /\ \/ c \in {"program", "meter"}
                \/ c = "query" /\ dev[d].initialized = FALSE /\ what = "event"
             /\ what = "level" => c = "program"
  <2>1. d \in Known /\ Ignores(d, c, dev[d].initialized, what)
    BY <1>9, TakesCommand DEF Mute
  <2> QED
    BY <1>6, <2>1 DEF Ignores, What, Level
<1>10. NewsInv(d)'
  <2> SUFFICES ASSUME NEW what \in What
               PROVE  NewsOf(inbound', d, level'[d], Mute(d, what)')
    BY DEF NewsInv
  <2>1. NewsOf(inbound, d, level[d], Mute(d, what))
    BY <1>2 DEF DeviceInv, NewsInv
  <2>2. "ack" \in Mute(d, what) => NewsOf(inbound, d, level'[d], Mute(d, what))
    BY <1>9, <2>1
  <2> QED
    BY <1>1, <1>4, <1>5, <1>8, <2>2, NewsAppend
<1>11. ASSUME d \in Known PROVE FlightInv(d)' /\ HeldInv(d)' /\ FirstInv(d)'
  <2>1. /\ c = Awaited(d) /\ NoLine(line', d) /\ NoAnswer(inbound, d)
        /\ Awaits(d)' /\ SameView(d) /\ Awaited(d)' = Awaited(d)
    BY <1>11, TakesCommand
  <2>2. FlightInv(d)'
    <3>1. AnswerOf(inbound', d, Awaited(d)')
      BY <1>1, <1>2, <1>4, <1>5, <2>1, AnswersAppend
    <3>2. LineOf(line', d, Awaited(d)')
      BY <2>1 DEF NoLine, LineOf
    <3> QED
      BY <2>1, <3>1, <3>2 DEF FlightInv
  <2>3. HasAck(inbound', d)
    BY <1>1, <1>4, <1>5, AnswersAppend
  <2>4. c # "query" /\ Asking(line, d) => Asking(line', d)
    BY <1>1, QueriesTail DEF Executes, Asks
  <2>5. HeldInv(d)'
    <3> SUFFICES ASSUME NEW what \in What, AllMute(inbound', d, Mute(d, what)')
                 PROVE  Right(d, what)' \/ Asked(d, what)'
      BY DEF HeldInv
    <3>1. AllMute(inbound, d, Mute(d, what)) /\ "ack" \in Mute(d, what)
      BY <1>1, <1>4, <1>5, <1>8, NewsAppend
    <3>2. Right(d, what) \/ Asked(d, what)
      BY <1>2, <1>11, <3>1 DEF DeviceInv, HeldInv
    <3>3. Right(d, what) => Right(d, what)'
      BY <1>9, <2>1, <3>1 DEF Right, SameView, Answered
    <3>4. CASE c # "query"
      <4>1. Second(d) => Second(d)'
        BY <1>2, <2>1, <2>3, <2>4, <3>4 DEF Second, SameView
      <4> QED
        BY <1>2, <2>4, <3>2, <3>3, <3>4, <4>1 DEF Asked
    <3>5. CASE c = "query"
      <4>1. dev[d].initialized = FALSE /\ what = "event"
        BY <1>9, <3>1, <3>5
      <4>2. Second(d) => Second(d)'
        BY <1>2, <2>1, <2>3, <3>5, <4>1 DEF Second, SameView
      <4> QED
        BY <3>2, <3>3, <4>1, <4>2 DEF Asked
    <3> QED
      BY <3>4, <3>5
  <2>6. FirstInv(d)'
    <3>1. FirstInv(d)
      BY <1>2, <1>11 DEF DeviceInv
    <3> QED
      BY <1>2, <2>1, <2>3, <2>4, <3>1 DEF FirstInv, SameView
  <2> QED
    BY <2>2, <2>5, <2>6
<1> QED
  BY <1>7, <1>10, <1>11 DEF DeviceInv

\* The relay of an IOLinc has answered, and its sensor reports the door.
LEMMA ReportedDevice ==
    ASSUME IInv, ExactInv, NEW d, NEW c, Executes(d, c),
           d \in IOLinc, c = "on", level'[d] = After(d, c),
           NEW p, p = Message("cleanup", d, After(d, c), "off"),
           inbound' = Append(Append(inbound, Answer(d, c)), p)
    PROVE  DeviceInv(d)'
<1>1. /\ inbound \in Seq(Messages) /\ line \in Seq(Command) /\ DevOK
      /\ level \in [Device -> Level]
  BY LevelTypes
<1>2. d \in Device /\ c \in CommandsOf(d) /\ DeviceInv(d)
      /\ UNCHANGED commandQueue
  BY DEF Executes, ExactInv
<1>3. PICK a : a = Answer(d, c)
  OBVIOUS
<1>4. /\ a \in Messages /\ a.kind = "ack" /\ Answers(a, d)
      /\ Acknowledges(a, d, c)
  BY <1>1, <1>2, <1>3, AnswerFields, Subtypes
<1>5. /\ p \in Messages /\ ~Answers(p, d) /\ Bears(p, d)
      /\ Value(p) = level'[d] /\ p.kind = "cleanup"
  BY <1>1, ReportFields DEF Of
<1>6. PICK q : q = Append(inbound, a)
  OBVIOUS
<1>7. q \in Seq(Messages) /\ inbound' = Append(q, p)
  BY <1>1, <1>3, <1>4, <1>6
<1>8. d \in Known <=> d \in Known'
  BY <1>1, <1>2, SameThread DEF Executes
<1>9. \A what : "cleanup" \notin Mute(d, what)'
  BY MuteKinds
<1>10. NewsInv(d)'
  <2> SUFFICES ASSUME NEW what \in What
               PROVE  NewsOf(inbound', d, level'[d], Mute(d, what)')
    BY DEF NewsInv
  <2>1. PICK mute : mute = Mute(d, what)'
    OBVIOUS
  <2>2. NewsOf(Append(q, p), d, level'[d], mute)
    BY <1>5, <1>7, <1>9, <2>1, NewsAppend
  <2> QED
    BY <1>7, <2>1, <2>2
<1>11. ASSUME d \in Known PROVE FlightInv(d)' /\ HeldInv(d)' /\ FirstInv(d)'
  <2>1. /\ c = Awaited(d) /\ NoLine(line', d) /\ NoAnswer(inbound, d)
        /\ Awaits(d)' /\ SameView(d) /\ Awaited(d)' = Awaited(d)
    BY <1>11, TakesCommand
  <2>2. FlightInv(d)'
    <3>1. AnswerOf(q, d, Awaited(d)')
      BY <1>1, <1>2, <1>4, <1>6, <2>1, AnswersAppend
    <3>2. AnswerOf(inbound', d, Awaited(d)')
      BY <1>5, <1>7, <3>1, AnswersAppend
    <3>3. LineOf(line', d, Awaited(d)')
      BY <2>1 DEF NoLine, LineOf
    <3> QED
      BY <2>1, <3>2, <3>3 DEF FlightInv
  <2>3. HasAck(inbound, d) => HasAck(inbound', d)
    BY <1>1, <1>4, <1>5, <1>6, <1>7, AnswersAppend
  <2>4. Asking(line, d) => Asking(line', d)
    BY <1>1, QueriesTail DEF Executes, Asks
  <2>5. HeldInv(d)'
    <3> SUFFICES ASSUME NEW what \in What
                 PROVE  ~AllMute(inbound', d, Mute(d, what)')
      BY DEF HeldInv
    <3>1. PICK mute : mute = Mute(d, what)'
      OBVIOUS
    <3>2. ~AllMute(Append(q, p), d, mute)
      BY <1>5, <1>7, <1>9, <3>1, NewsAppend
    <3> QED
      BY <1>7, <3>1, <3>2
  <2>6. FirstInv(d)'
    <3>1. FirstInv(d)
      BY <1>2, <1>11 DEF DeviceInv
    <3> QED
      BY <1>2, <2>1, <2>3, <2>4, <3>1 DEF FirstInv, SameView
  <2> QED
    BY <2>2, <2>5, <2>6
<1> QED
  BY <1>8, <1>10, <1>11 DEF DeviceInv

\* The command is refused or lost, and was no question.
LEMMA RefusedDevice ==
    ASSUME IInv, ExactInv, NEW d, NEW c, Executes(d, c), c # "query",
           level'[d] = level[d],
           \/ UNCHANGED inbound
           \/ inbound' = Append(inbound, Message("devnak", d, Cmd1(c), "off"))
    PROVE  DeviceInv(d)'
<1>1. inbound \in Seq(Messages) /\ line \in Seq(Command) /\ DevOK
  BY LevelTypes
<1>2. d \in Device /\ c \in CommandsOf(d) /\ DeviceInv(d) /\ QueueKeeps(d)
  BY QueueKept DEF Executes, ExactInv
<1>3. LineKeeps(d)
  <2>1. Asking(line, d) => Asking(line', d)
    BY <1>1, QueriesTail DEF Executes, Asks
  <2> QED
    BY <1>1, <2>1, LineTail DEF Executes, LineKeeps
<1>4. d \in Known <=> d \in Known'
  BY <1>1, <1>2, SameThread DEF Executes
<1>5. d \in Known => /\ SameView(d) /\ Awaited(d)' = Awaited(d) /\ Awaits(d)'
  BY TakesCommand
<1>6. CASE UNCHANGED inbound
  <2>1. InboundKeeps(d)
    BY <1>1, <1>6, InboundKept
  <2> QED
    BY <1>1, <1>2, <1>3, <1>4, <1>5, <2>1, Untouched
<1>7. CASE inbound' = Append(inbound, Message("devnak", d, Cmd1(c), "off"))
  <2>1. PICK n : n = Message("devnak", d, Cmd1(c), "off")
    OBVIOUS
  <2>2. n \in Messages /\ ~Bears(n, d) /\ n.kind = "devnak"
    BY <1>2, <2>1, DevnakFields DEF Of
  <2>3. inbound' = Append(inbound, n)
    BY <1>7, <2>1
  <2>4. NewsKeeps(d)
    <3>1. HasAck(inbound, d) => HasAck(inbound', d)
      BY <1>1, <2>2, <2>3, AnswersAppend
    <3>2. \A v, mute :
             NewsOf(inbound, d, v, mute) => NewsOf(inbound', d, v, mute)
      BY <1>1, <2>2, <2>3, NewsAppend
    <3>3. \A mute : AllMute(inbound', d, mute) => AllMute(inbound, d, mute)
      BY <1>1, <2>2, <2>3, NewsAppend
    <3> QED
      BY <3>1, <3>2, <3>3 DEF NewsKeeps
  <2>5. \A what \in What : Mute(d, what)' = Mute(d, what)
    BY <1>4, <1>5, SameMute
  <2>6. NewsInv(d)'
    BY <1>1, <1>2, <2>4, <2>5, NewsKept DEF DeviceInv
  <2>7. ASSUME d \in Known PROVE FlightInv(d)' /\ HeldInv(d)' /\ FirstInv(d)'
    <3>1. /\ c = Awaited(d) /\ NoLine(line', d) /\ NoAnswer(inbound, d)
          /\ Awaits(d)' /\ SameView(d) /\ Awaited(d)' = Awaited(d)
      BY <2>7, TakesCommand
    <3>2. FlightInv(d)'
      <4>1. Acknowledges(n, d, c)
        BY <2>2 DEF Acknowledges
      <4>2. AnswerOf(inbound', d, Awaited(d)')
        BY <1>1, <1>2, <2>2, <2>3, <3>1, <4>1, AnswersAppend
      <4>3. LineOf(line', d, Awaited(d)')
        BY <3>1 DEF NoLine, LineOf
      <4> QED
        BY <3>1, <4>2, <4>3 DEF FlightInv
    <3>3. /\ \A what \in What : Asked(d, what) => Asked(d, what)'
          /\ FirstInv(d)'
      BY <1>2, <1>3, <2>4, <2>7, <3>1, AskedKept DEF DeviceInv, NewsKeeps
    <3>4. HeldInv(d)'
      BY <1>1, <1>2, <2>4, <2>5, <2>7, <3>1, <3>3, HeldKept DEF DeviceInv
    <3> QED
      BY <3>2, <3>3, <3>4
  <2> QED
    BY <1>4, <2>6, <2>7 DEF DeviceInv
<1> QED
  BY <1>6, <1>7

LEMMA SentProper ==
    ASSUME KindInv, NEW ms \in Seq(Proper), Sent(ms)
    PROVE  inbound' \in Seq(Proper)
<1>1. inbound \o ms \in Seq(Proper)
  BY DEF KindInv
<1> QED
  BY Zenon, <1>1 DEF KindInv, Sent

\* What a device sends when it has executed a command.
LEMMA SentAnswer ==
    ASSUME IInv, NEW d \in Device, NEW c \in CommandsOf(d)
    PROVE  /\ <<Answer(d, c)>> \o Report(d, c) \in Seq(Proper)
           /\ Report(d, c) \in Seq(Proper)
           /\ <<Message("devnak", d, Cmd1(c), "off")>> \in Seq(Proper)
           /\ link = "open" /\ Sent(<<Answer(d, c)>> \o Report(d, c)) =>
                inbound' = IF d \in IOLinc /\ c = "on"
                           THEN Append(Append(inbound, Answer(d, c)),
                                       Message("cleanup", d, After(d, c), "off"))
                           ELSE Append(inbound, Answer(d, c))
           /\ link = "open" /\ Sent(<<Message("devnak", d, Cmd1(c), "off")>>) =>
                inbound' = Append(inbound, Message("devnak", d, Cmd1(c), "off"))
<1>1. inbound \in Seq(Messages) /\ level \in [Device -> Level]
  BY LevelTypes
<1> DEFINE a == Answer(d, c)
           p == Message("cleanup", d, After(d, c), "off")
           n == Message("devnak", d, Cmd1(c), "off")
<1>2. a \in Proper
  BY <1>1, AnswerFields
<1>3. n \in Proper
  BY DevnakFields
<1>4. d \in IOLinc /\ c = "on" => p \in Proper
  BY <1>1, ReportFields
<1>5. Report(d, c) = IF d \in IOLinc /\ c = "on" THEN <<p>> ELSE <<>>
  BY DEF Report
<1> HIDE DEF a, p, n
<1>6. <<n>> \in Seq(Proper) /\ <<a>> \in Seq(Proper) /\ <<>> \in Seq(Proper)
      /\ (p \in Proper => <<p>> \in Seq(Proper))
  BY <1>2, <1>3
<1>7. Report(d, c) \in Seq(Proper)
  BY <1>4, <1>5, <1>6
<1>8. <<a>> \o Report(d, c) \in Seq(Proper)
  BY <1>6, <1>7
<1>9. /\ inbound \o (<<a>> \o <<p>>) = Append(Append(inbound, a), p)
      /\ inbound \o (<<a>> \o <<>>) = Append(inbound, a)
      /\ inbound \o <<n>> = Append(inbound, n)
  BY <1>1
<1>10. ASSUME link = "open", Sent(<<a>> \o Report(d, c))
       PROVE  inbound' = IF d \in IOLinc /\ c = "on"
                         THEN Append(Append(inbound, a), p)
                         ELSE Append(inbound, a)
  <2>1. inbound' = inbound \o (<<a>> \o Report(d, c))
    BY Zenon, <1>10 DEF Sent
  <2>2. CASE d \in IOLinc /\ c = "on"
    BY <1>5, <1>9, <2>1, <2>2
  <2>3. CASE ~(d \in IOLinc /\ c = "on")
    BY <1>5, <1>9, <2>1, <2>3
  <2> QED
    BY <2>2, <2>3
<1>11. ASSUME link = "open", Sent(<<n>>) PROVE inbound' = Append(inbound, n)
  BY Zenon, <1>9, <1>11 DEF Sent
<1> QED
  BY <1>6, <1>7, <1>8, <1>10, <1>11 DEF a, p, n

LEMMA ExecuteLevel ==
    ASSUME IInv, LevelInv, Execute
    PROVE  LevelInv'
<1>1. /\ inbound \in Seq(Messages) /\ line \in Seq(Command) /\ DevOK
      /\ level \in [Device -> Level] /\ line \in Seq(Fitting) /\ ClassInv
      /\ KindInv
  BY LevelTypes DEF LevelInv, ClassInv
<1>2. PICK d, c : d = Head(line).to /\ c = Head(line).cmd
  OBVIOUS
<1>3. d \in Device /\ c \in CommandsOf(d) /\ line # <<>>
  <2>1. line # <<>> /\ d \in Device
    BY <1>2 DEF Execute
  <2>2. Head(line) \in Fitting
    BY <1>1, <2>1
  <2> QED
    BY <1>2, <2>1, <2>2 DEF Fitting
<1>4. /\ line' = Tail(line)
      /\ UNCHANGED <<commandQueue, pc, sending, dev, link>>
  BY DEF Execute, thread
<1>5. \/ /\ level' = [level EXCEPT ![d] = After(d, c)]
         /\ Sent(<<Answer(d, c)>> \o Report(d, c))
         /\ \/ NoFault /\ UNCHANGED repeats
            \/ /\ Fault("again", {})
               /\ repeats' = repeats \cup {[Answer(d, c) EXCEPT !.again = TRUE]}
      \/ /\ Fault("noack", {"level", "event"})
         /\ level' = [level EXCEPT ![d] = After(d, c)]
         /\ Sent(Report(d, c)) /\ UNCHANGED repeats
      \/ /\ Fault("nak", UnlessAnswered(c))
         /\ Sent(<<Message("devnak", d, Cmd1(c), "off")>>)
         /\ UNCHANGED <<level, repeats>>
      \/ /\ Fault("lost", UnlessAnswered(c))
         /\ UNCHANGED <<level, inbound, repeats>>
  BY <1>2 DEF Execute
<1>6. ClassInv'
  <2>1. Tail(line) \in Seq(Fitting)
    BY <1>1, <1>3
  <2> QED
    BY <1>1, <1>4, <2>1 DEF ClassInv
<1>7. UnlessAnswered(c) \in {{}, {"level", "event"}}
      /\ (UnlessAnswered(c) = {} => c # "query")
  BY DEF UnlessAnswered
<1>8. Exact => ExactInv /\ link = "open"
  BY <1>3, LevelFrames DEF ExactInv, LinkInv, LevelInv, IInv, Types, LinkOK
<1>9. \A e \in Device \ {d} : level'[e] = level[e]
  BY <1>1, <1>5
<1>10. Executes(d, c)
  BY <1>2, <1>3, <1>4, <1>9 DEF Executes
<1>11. Says(d) /\ DeviceInv(d)' /\ ExactInv => ExactInv'
  <2> SUFFICES ASSUME Says(d), DeviceInv(d)', ExactInv PROVE ExactInv'
    OBVIOUS
  <2>1. LinkInv' /\ EchoInv' /\ \A e \in Device \ {d} : DeviceInv(e)'
    BY <1>10, ExecuteOthers
  <2> QED
    BY <2>1 DEF ExactInv
<1>12. CASE /\ level' = [level EXCEPT ![d] = After(d, c)]
            /\ Sent(<<Answer(d, c)>> \o Report(d, c))
            /\ \/ NoFault /\ UNCHANGED repeats
               \/ /\ Fault("again", {})
                  /\ repeats' = repeats \cup
                                 {[Answer(d, c) EXCEPT !.again = TRUE]}
  <2>1. ExcuseInv' /\ (Exact' => Exact)
    BY <1>12, FaultExcuse
  <2>2. KindInv'
    <3>1. inbound' \in Seq(Proper)
      BY <1>1, <1>3, <1>12, SentAnswer, SentProper
    <3>2. [Answer(d, c) EXCEPT !.again = TRUE] \in Repeated
      BY <1>1, <1>3, AnswerFields
    <3> QED
      BY <1>1, <1>12, <3>1, <3>2 DEF KindInv
  <2>3. ASSUME ExactInv, link = "open" PROVE ExactInv'
    <3>1. level'[d] = After(d, c)
      BY <1>1, <1>3, <1>12
    <3>2. Answer(d, c) \in Of(d)
      BY <1>1, <1>3, AnswerFields
    <3>3. CASE d \in IOLinc /\ c = "on"
      <4>1. PICK p : p = Message("cleanup", d, After(d, c), "off")
        OBVIOUS
      <4>2. inbound' = Append(Append(inbound, Answer(d, c)), p)
        BY <1>3, <1>12, <2>3, <3>3, <4>1, SentAnswer
      <4>3. p \in Of(d)
        BY <1>1, <3>3, <4>1, ReportFields
      <4>4. Says(d)
        BY <3>2, <4>2, <4>3 DEF Says
      <4>5. DeviceInv(d)'
        BY <1>10, <2>3, <3>1, <3>3, <4>1, <4>2, ReportedDevice
      <4> QED
        BY <1>11, <2>3, <4>4, <4>5
    <3>4. CASE ~(d \in IOLinc /\ c = "on")
      <4>1. inbound' = Append(inbound, Answer(d, c))
        BY <1>3, <1>12, <2>3, <3>4, SentAnswer
      <4>2. Says(d)
        BY <3>2, <4>1 DEF Says
      <4>3. DeviceInv(d)'
        BY <1>10, <2>3, <3>1, <3>4, <4>1, AnsweredDevice
      <4> QED
        BY <1>11, <2>3, <4>2, <4>3
    <3> QED
      BY <3>3, <3>4
  <2> QED
    BY <1>6, <1>8, <2>1, <2>2, <2>3 DEF LevelInv
<1>13. CASE /\ Fault("noack", {"level", "event"})
            /\ level' = [level EXCEPT ![d] = After(d, c)]
            /\ Sent(Report(d, c)) /\ UNCHANGED repeats
  <2>1. ExcuseInv' /\ ~Exact'
    BY <1>13, FaultExcuse
  <2>2. inbound' \in Seq(Proper)
    BY <1>1, <1>3, <1>13, SentAnswer, SentProper
  <2>3. KindInv'
    BY <1>1, <1>13, <2>2 DEF KindInv
  <2> QED
    BY <1>6, <2>1, <2>3 DEF LevelInv
<1>14. CASE /\ Fault("nak", UnlessAnswered(c))
            /\ Sent(<<Message("devnak", d, Cmd1(c), "off")>>)
            /\ UNCHANGED <<level, repeats>>
  <2>1. ExcuseInv' /\ (Exact' => Exact /\ c # "query")
    BY <1>7, <1>14, FaultExcuse
  <2>2. inbound' \in Seq(Proper)
    BY <1>1, <1>3, <1>14, SentAnswer, SentProper
  <2>3. KindInv'
    BY <1>1, <1>14, <2>2 DEF KindInv
  <2>4. ASSUME ExactInv, link = "open", c # "query" PROVE ExactInv'
    <3>1. inbound' = Append(inbound, Message("devnak", d, Cmd1(c), "off"))
      BY <1>3, <1>14, <2>4, SentAnswer
    <3>2. Says(d)
      BY <1>3, <3>1, DevnakFields DEF Says
    <3>3. DeviceInv(d)'
      BY <1>10, <1>14, <2>4, <3>1, RefusedDevice
    <3> QED
      BY <1>11, <2>4, <3>2, <3>3
  <2> QED
    BY <1>6, <1>8, <2>1, <2>3, <2>4 DEF LevelInv
<1>15. CASE /\ Fault("lost", UnlessAnswered(c))
            /\ UNCHANGED <<level, inbound, repeats>>
  <2>1. ExcuseInv' /\ (Exact' => Exact /\ c # "query") /\ KindInv'
    BY <1>7, <1>15, FaultExcuse, LevelFrames
  <2>2. ASSUME ExactInv, c # "query" PROVE ExactInv'
    <3>1. Says(d) /\ DeviceInv(d)'
      BY <1>10, <1>15, <2>2, RefusedDevice DEF Says
    <3> QED
      BY <1>11, <2>2, <3>1
  <2> QED
    BY <1>6, <1>8, <2>1, <2>2 DEF LevelInv
<1> QED
  BY <1>5, <1>12, <1>13, <1>14, <1>15

LEMMA SendRecordLevel ==
    ASSUME IInv, LevelInv, SendRecord
    PROVE  LevelInv'
<1>1. /\ UNCHANGED <<thread, link, level, repeats, excused>> /\ line # <<>>
      /\ line' = Tail(line) /\ Head(line).to \notin Device /\ Sent(<<Record>>)
  BY DeviceAssumption DEF SendRecord
<1>2. /\ Record \in Proper /\ \A d : Irrelevant(Record, d)
      /\ Record.kind \notin {"echo", "nak"}
  <2>1. Record \in {Echo, Nak, Garbage, Record} /\ Record \in {Garbage, Record}
    OBVIOUS
  <2> QED
    BY <2>1, PlainProper DEF IsEcho
<1>3. PICK m : m = Record
  OBVIOUS
<1>4. m \in Proper /\ (\A d : Irrelevant(m, d)) /\ m.kind \notin {"echo", "nak"}
      /\ Sent(<<m>>)
  BY <1>1, <1>2, <1>3
<1>5. repeats' \subseteq repeats
  BY <1>1
<1> QED
  BY <1>1, <1>4, <1>5, NoiseLevel

LEMMA RetransmitLevel ==
    ASSUME IInv, LevelInv, NEW m \in repeats, Retransmit(m)
    PROVE  LevelInv'
<1>1. /\ UNCHANGED <<thread, link, level, line, excused>>
      /\ repeats' \subseteq repeats /\ Sent(<<m>>)
  BY DEF Retransmit
<1>2. m \in Repeated
  BY DEF LevelInv, KindInv
<1>3. m \in Proper /\ (\A d : Irrelevant(m, d)) /\ m.kind \notin {"echo", "nak"}
  BY <1>2 DEF Repeated, Irrelevant, Answers, Bears
<1> QED
  BY <1>1, <1>3, NoiseLevel

LEMMA DisconnectLevel ==
    ASSUME IInv, LevelInv, Disconnect
    PROVE  LevelInv'
<1>1. /\ Fault("disconnect", {"level", "event"}) /\ inbound' \in {inbound, <<>>}
      /\ UNCHANGED <<commandQueue, sending, line, repeats>>
  BY DEF Disconnect, thread, outside
<1>2. ExcuseInv' /\ ~Exact'
  BY <1>1, FaultExcuse
<1>3. ClassInv'
  BY <1>1, LevelFrames
<1>4. KindInv'
  <2>1. inbound \in Seq(Proper) /\ <<>> \in Seq(Proper)
    BY DEF LevelInv, KindInv
  <2>2. inbound' \in Seq(Proper)
    BY Zenon, <1>1, <2>1
  <2> QED
    BY <1>1, <2>2 DEF LevelInv, KindInv
<1> QED
  BY <1>2, <1>3, <1>4 DEF LevelInv

LEMMA OutsideLevel ==
    ASSUME IInv, LevelInv, Outside
    PROVE  LevelInv'
BY ExecuteLevel, SendRecordLevel, RetransmitLevel, OperateLevel, DisconnectLevel
DEF Outside

-----------------------------------------------------------------------------
(* The levels: the theorems *)

LEMMA InitLevel == Init => LevelInv
<1> SUFFICES ASSUME Init PROVE LevelInv
  OBVIOUS
<1>1. /\ line = <<>> /\ inbound = <<>> /\ repeats = {} /\ excused = {}
      /\ link = "closed" /\ pc = "scan"
      /\ sending = [to |-> Modem, cmd |-> "config"]
      /\ commandQueue = <<[to |-> Modem, cmd |-> "config"]>>
  BY DEF Init
<1>2. [to |-> Modem, cmd |-> "config"] \in Fitting
  BY DeviceAssumption DEF Fitting, Command, ModemCommand
<1>3. <<[to |-> Modem, cmd |-> "config"]>> \in Seq(Fitting)
      /\ <<>> \in Seq(Fitting) /\ <<>> \in Seq(Proper)
  BY <1>2
<1>4. ClassInv /\ KindInv /\ ExcuseInv
  BY <1>1, <1>2, <1>3 DEF ClassInv, KindInv, ExcuseInv
<1>5. DOMAIN inbound = {}
  BY <1>1
<1>6. LinkInv /\ EchoInv
  BY <1>1, <1>5 DEF LinkInv, EchoInv, NoEcho, OneEcho, NoNak
<1>7. \A d \in Device : d \notin Known
  BY DEF Init, Known, NoDevice
<1>8. \A d \in Device : DeviceInv(d)
  BY <1>5, <1>7 DEF DeviceInv, NewsInv, NewsOf
<1> QED
  BY <1>4, <1>6, <1>8 DEF LevelInv, ExactInv

LEMMA LevelSame ==
    ASSUME IInv, LevelInv, UNCHANGED vars
    PROVE  LevelInv'
<1>1. UNCHANGED <<commandQueue, pc, sending, dev, link, line, repeats, level,
                  inbound, excused>>
  BY DEF vars, thread, outside
<1>2. ClassInv' /\ KindInv' /\ ExcuseInv' /\ (Exact' => Exact)
      /\ (Exact => ExactInv)
  BY <1>1, LevelFrames
<1>3. ASSUME ExactInv PROVE ExactInv'
  <2>1. LinkInv'
    BY <1>1, <1>3 DEF ExactInv, LinkInv
  <2>2. \A d \in Device : QueueKeeps(d)
    BY <1>1, QueueKept
  <2> QED
    BY <1>1, <1>3, <2>1, <2>2, Moves
<1> QED
  BY <1>2, <1>3 DEF LevelInv

LEMMA LevelStep == IInv /\ LevelInv /\ [Next]_vars => LevelInv'
BY LevelSame, CallLevel, ThreadLevel, OutsideLevel DEF Next

LEMMA LevelInvariance == Spec => []LevelInv
BY InitLevel, LevelStep, InsteonInvariance, PTL DEF Spec

\* Nothing is on its way for d.
LEMMA NothingAsked ==
    ASSUME Quiet, NEW d, HeldInv(d), NEW what \in What
    PROVE  Right(d, what)
<1>1. DOMAIN inbound = {} /\ DOMAIN commandQueue = {} /\ DOMAIN line = {}
  BY DEF Quiet
<1>2. AllMute(inbound, d, Mute(d, what))
  BY <1>1 DEF AllMute
<1>3. ~Asking(commandQueue, d) /\ ~Asking(line, d) /\ ~Twice(commandQueue, d)
  BY <1>1 DEF Asking, Twice
<1>4. ~Asked(d, what)
  BY <1>3 DEF Asked, Second
<1> QED
  BY <1>2, <1>4 DEF HeldInv

LEMMA QuietDevice ==
    ASSUME LevelInv, Quiet, NEW e \in What, e \notin excused, NEW d \in Known
    PROVE  \A what \in What : Right(d, what)
<1>1. Exact
  BY DEF LevelInv, ExcuseInv, Exact, What
<1>2. HeldInv(d)
  BY <1>1 DEF LevelInv, ExactInv, DeviceInv, Known
<1> QED
  BY <1>2, NothingAsked

\* When nothing is on its way every object holds the level of its device,
\* whatever commands, changes by hand and repeated ACKs went before
\* (InsteonDevice::onInsteonMessage and the processEvent of the classes).
THEOREM ObjectsKnowTheLevel == Spec => []LevelTracksDevice
<1>1. LevelInv => LevelTracksDevice
  <2> SUFFICES ASSUME LevelInv, Quiet, "level" \notin excused,
                      NEW d \in Device, Answered(d)
               PROVE  dev[d].param = level[d]
    BY DEF LevelTracksDevice
  <2>1. d \in Known /\ "level" \in What
    BY DEF Answered, What
  <2> QED
    BY <2>1, QuietDevice DEF Right
<1> QED
  BY <1>1, LevelInvariance, PTL

\* When nothing is on its way the last event that the script was given of a
\* device tells its level (SwitchDevice::processEvent and its like).
THEOREM ScriptKnowsTheLevel == Spec => []ScriptIsTold
<1>1. LevelInv => ScriptIsTold
  <2> SUFFICES ASSUME LevelInv, Quiet, "event" \notin excused,
                      NEW d \in Known, dev[d].told # "none"
               PROVE  dev[d].told = level[d]
    BY DEF ScriptIsTold
  <2>1. "event" \in What
    BY DEF What
  <2> QED
    BY <2>1, QuietDevice DEF Right, What
<1> QED
  BY <1>1, LevelInvariance, PTL
=============================================================================
