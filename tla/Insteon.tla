------------------------------ MODULE Insteon ------------------------------
(***************************************************************************)
(* The Insteon module: Insteon::run, InsteonModem and the device classes   *)
(* SwitchDevice, IOLinc and EZFloraDevice.                                 *)
(*                                                                         *)
(* REST calls and the devices push commands into mInsteonCommandQueue.     *)
(* The Insteon thread sends the next one when no device owes an ACK,       *)
(* waits for the echo of the modem and then reads one message.  The modem  *)
(* sends the command over the powerline; the device executes it and        *)
(* answers.  Devices are also operated by hand and report that themselves. *)
(*                                                                         *)
(* Messages are whole, the two levels of a device are "off" and "on", a    *)
(* command is named for what it does.  The modem and the devices are not   *)
(* part of the repository; they are modelled by what the code expects.     *)
(***************************************************************************)
EXTENDS Naturals, Sequences, SequencesExt

CONSTANTS Switch, IOLinc, EZFlora,  \* the devices, by class
          Modem,                    \* the destination 0
          Faults,                   \* what can go wrong, of AllFaults
          MaxRequests,              \* bound: calls of /insteon/switch etc.
          MaxManual,                \* bound: changes made by hand
          MaxFaults,                \* bound: faults
          MaxRecords                \* bound: records of the link database

Device == Switch \cup IOLinc \cup EZFlora
AllFaults == {"lost", "noack", "again", "nak", "modemnak", "late",
              "disconnect"}

ASSUME DeviceAssumption ==
    /\ Switch \cap IOLinc = {} /\ Switch \cap EZFlora = {}
    /\ IOLinc \cap EZFlora = {} /\ Modem \notin Device
ASSUME FaultAssumption == Faults \subseteq AllFaults
ASSUME BoundAssumption ==
    {MaxRequests, MaxManual, MaxFaults, MaxRecords} \subseteq Nat

Level == {"off", "on"}
\* cmd1 of a direct message: query is 0x19, meter is 0x44, program is 0x40
\* with extended data, on and off are what the class of the device calls so.
DirectCommand == {"on", "off", "query", "meter", "program"}
ModemCommand == {"config", "first", "next"}
Command == [to : Device, cmd : DirectCommand]
           \cup [to : {Modem}, cmd : ModemCommand]

\* What the modem sends: its echo of a command, the remains of an echo that
\* was not read in one piece, a record of its link database, a message.
Plain(kind) == [kind |-> kind, from |-> Modem, cmd1 |-> "zero",
                cmd2 |-> "off", again |-> FALSE]
Echo == Plain("echo")
Nak == Plain("nak")
Garbage == Plain("garbage")
Record == Plain("record")
Message(kind, d, c, v) == [kind |-> kind, from |-> d, cmd1 |-> c, cmd2 |-> v,
                           again |-> FALSE]

VARIABLES
    commandQueue,        \* mInsteonCommandQueue
    waitingForResponse,  \* mWaitingForResponse
    pc,                  \* where the Insteon thread is
    sending,             \* the command whose echo it waits for
    link,                \* the socket to the modem
    dev,                 \* the objects in mModules
    level,               \* the real state of the devices
    line,                \* commands on their way to the devices
    repeats,             \* ACKs that a device will retransmit
    inbound,             \* what the modem has sent and nobody has read
    records,             \* records the modem has still to send
    excused,             \* "level", "event": see the properties
    requests, manual, faults

thread == <<commandQueue, waitingForResponse, pc, sending, dev>>
outside == <<level, line, repeats, records>>
bounds == <<requests, manual, faults>>
vars == <<thread, link, outside, inbound, excused, bounds>>

NoDevice == [known |-> FALSE]
Known == {d \in Device : dev[d].known}

\* mWaitingForResponse is not initialised by the constructor of the modem,
\* which queues the configuration of the monitor mode.
Init ==
    /\ commandQueue = <<[to |-> Modem, cmd |-> "config"]>>
    /\ waitingForResponse \in BOOLEAN
    /\ pc = "scan" /\ sending = [to |-> Modem, cmd |-> "config"]
    /\ link = "closed"
    /\ dev = [d \in Device |-> NoDevice]
    /\ level \in [Device -> Level]
    /\ line = <<>> /\ repeats = {} /\ inbound = <<>> /\ records = MaxRecords
    /\ excused = {}
    /\ requests = 0 /\ manual = 0 /\ faults = 0

-----------------------------------------------------------------------------
(* Service calls *)

To(d, cs) == [i \in DOMAIN cs |-> [to |-> d, cmd |-> cs[i]]]

\* The answer to a command that was sent to d can still come.
AnswerComes(d) ==
    \/ \E i \in DOMAIN line : line[i].to = d
    \/ \E i \in DOMAIN inbound :
          inbound[i].from = d /\ inbound[i].kind \in {"ack", "devnak"}

\* addmodule, addiolinc, addezflora: a new object, whose constructor asks for
\* the state of the device.  mLastDirectMessageSent is not initialised.  It does
\* not know of a command that its predecessor has sent.
AddModule(d) ==
    /\ ~dev[d].known
    /\ dev' = [dev EXCEPT ![d] =
                 [known |-> TRUE, status |-> "idle", last |-> "garbage",
                  param |-> "off", initialized |-> FALSE, told |-> "none"]]
    /\ commandQueue' = commandQueue \o
                         To(d, <<IF d \in EZFlora THEN "meter" ELSE "query">>)
    /\ excused' = excused \cup IF AnswerComes(d) THEN {"level", "event"} ELSE {}
    /\ UNCHANGED <<waitingForResponse, pc, sending, link, outside,
                   inbound, bounds>>

\* clearmodules, while the thread is suspended between two rounds
ClearModules ==
    /\ pc = "scan" /\ requests < MaxRequests
    /\ requests' = requests + 1
    /\ dev' = [d \in Device |-> NoDevice]
    /\ UNCHANGED <<commandQueue, waitingForResponse, pc, sending, link, outside,
                   inbound, excused, manual, faults>>

\* turnOnOrOff of the three classes.  The two commands of EZFloraDevice are
\* pushed one after the other; nobody else's can matter between them.
TurnOn(d) ==
    CASE d \in Switch -> <<"on">>
      [] d \in IOLinc -> IF dev[d].param = "off" THEN <<>> ELSE <<"on">>
      [] d \in EZFlora -> <<"meter", "on">>

TurnOff(d) ==
    IF d \in IOLinc THEN IF dev[d].param = "off" THEN <<"on">> ELSE <<>>
                    ELSE <<"off">>

Toggle(d) ==
    CASE d \in Switch -> IF dev[d].param = "off" THEN <<"on">> ELSE <<"off">>
      [] d \in IOLinc -> <<"on">>
      [] d \in EZFlora -> IF dev[d].param = "on" THEN TurnOff(d) ELSE TurnOn(d)

Request(d, cs) ==
    /\ requests < MaxRequests
    /\ requests' = requests + 1
    /\ commandQueue' = commandQueue \o To(d, cs)
    /\ UNCHANGED <<waitingForResponse, pc, sending, dev, link, outside,
                   inbound, excused, manual, faults>>

\* /insteon/switch, and /insteon/ezflora/status and /setprogram
SwitchCall(d) ==
    d \in Known /\ \E cs \in {TurnOn(d), TurnOff(d), Toggle(d)} : Request(d, cs)
EZFloraCall(d) == \E c \in {"meter", "program"} : Request(d, <<c>>)

\* /insteon/refreshalllinksdatabase
RefreshLinks ==
    /\ requests < MaxRequests
    /\ requests' = requests + 1
    /\ commandQueue' = commandQueue \o To(Modem, <<"first">>)
    /\ UNCHANGED <<waitingForResponse, pc, sending, dev, link, outside,
                   inbound, excused, manual, faults>>

-----------------------------------------------------------------------------
(* Faults, and what the properties do not hold the code to after them *)

Fault(f, excuse) ==
    /\ f \in Faults /\ faults < MaxFaults
    /\ faults' = faults + 1
    /\ excused' = excused \cup excuse

NoFault == UNCHANGED <<faults, excused>>

Goes(p) == pc' = p

\* A command that asks for the state and is not answered leaves it unknown.
UnlessAnswered(c) == IF c \in {"query", "meter"} THEN {"level", "event"} ELSE {}

-----------------------------------------------------------------------------
(* The Insteon thread: Insteon::run and InsteonModem::process *)

Waits(d) == d \in Known /\ dev[d].status = "waiting"

\* Mutant: without the timeout only an answer makes a device idle.
NoTimeout(d) == FALSE

\* isIdle: two seconds after its message a device is idle again.
Expire(d) ==
    /\ pc = "scan" /\ Waits(d)
    /\ IF AnswerComes(d) THEN Fault("late", {"level", "event"}) ELSE NoFault
    /\ dev' = [dev EXCEPT ![d].status = "idle"]
    /\ UNCHANGED <<commandQueue, waitingForResponse, pc, sending, link,
                   outside, inbound, requests, manual>>

AllIdle == \A d \in Known : ~Waits(d)

\* Reconnect; the attempts that fail change nothing.
Connect ==
    /\ pc = "scan" /\ link = "closed"
    /\ link' = "open"
    /\ UNCHANGED <<thread, outside, inbound, excused, bounds>>

\* Mutant: run() does not ask the devices.
MayAlwaysSend == ~waitingForResponse /\ commandQueue # <<>>

MaySend == AllIdle /\ ~waitingForResponse /\ commandQueue # <<>>

\* The records that are left when the modem is asked for the first or the next.
Left(c) == IF c.cmd = "first" THEN MaxRecords ELSE records

\* The modem echoes a command and passes it on, or refuses it, as it does with
\* a request for a record it does not have.
Accept(c) ==
    /\ c.cmd \in {"first", "next"} => Left(c) > 0
    /\ inbound' = Append(inbound, Echo)
    /\ line' = IF c.cmd = "config" THEN line ELSE Append(line, c)
    /\ records' = IF c.cmd \in {"first", "next"} THEN Left(c) - 1 ELSE records
    /\ NoFault

Refuse(c) ==
    /\ IF c.cmd \in {"first", "next"} /\ Left(c) = 0
       THEN NoFault ELSE Fault("modemnak", UnlessAnswered(c.cmd))
    /\ inbound' = Append(inbound, Nak)
    /\ UNCHANGED <<line, records>>

\* sendCommand; what is written to a broken socket is lost.
Write ==
    /\ pc = "scan" /\ link # "closed" /\ MaySend
    /\ Goes("echo")
    /\ sending' = Head(commandQueue)
    /\ commandQueue' = Tail(commandQueue)
    /\ \/ link = "open" /\ (Accept(sending') \/ Refuse(sending'))
       \/ link = "broken" /\ NoFault /\ UNCHANGED <<line, records, inbound>>
    /\ UNCHANGED <<waitingForResponse, dev, link, level, repeats,
                   requests, manual>>

NothingToSend ==
    /\ pc = "scan" /\ link # "closed" /\ ~MaySend /\ Goes("read")
    /\ UNCHANGED <<commandQueue, waitingForResponse, sending, dev, link,
                   outside, inbound, excused, bounds>>

\* waitForReply and onInsteonMessageSent
EchoRead ==
    /\ pc = "echo" /\ inbound # <<>> /\ Head(inbound) = Echo
    /\ Goes("read")
    /\ inbound' = Tail(inbound)
    /\ waitingForResponse' =
         (waitingForResponse \/ sending.cmd \in {"first", "next"})
    /\ dev' = IF sending.to \in Known
              THEN [dev EXCEPT ![sending.to].last = sending.cmd,
                               ![sending.to].status = "waiting"]
              ELSE dev
    /\ UNCHANGED <<commandQueue, sending, link, outside, excused, bounds>>

NakRead ==
    /\ pc = "echo" /\ inbound # <<>> /\ Head(inbound) = Nak
    /\ Goes("read")
    /\ inbound' = Tail(inbound)
    /\ UNCHANGED <<commandQueue, waitingForResponse, sending, dev, link,
                   outside, excused, bounds>>

\* Anything else is taken for the echo and lost; so is the echo behind it,
\* whose bytes are out of step from then on.  The command counts as refused.
Spoilt(q) == [i \in DOMAIN q |-> IF q[i] \in {Echo, Nak} THEN Garbage ELSE q[i]]

Collide ==
    /\ pc = "echo" /\ inbound # <<>> /\ Head(inbound) \notin {Echo, Nak}
    /\ Goes("read")
    /\ inbound' = Spoilt(Tail(inbound))
    /\ excused' = {"level", "event"}
    /\ UNCHANGED <<commandQueue, waitingForResponse, sending, dev, link,
                   outside, bounds>>

\* Two seconds without an echo, which only a closed socket explains.
EchoTimeout ==
    /\ pc = "echo" /\ link = "closed"
    /\ Goes("read")
    /\ UNCHANGED <<commandQueue, waitingForResponse, sending, dev, link,
                   outside, inbound, excused, bounds>>

\* Read finds the end of the stream, whichever of its callers it is.
EndOfStream ==
    /\ pc \in {"echo", "read", "message"} /\ link = "broken" /\ inbound = <<>>
    /\ link' = "closed"
    /\ UNCHANGED <<thread, outside, inbound, excused, bounds>>

NothingToRead ==
    /\ pc = "read" /\ inbound = <<>>
    /\ Goes("scan")
    /\ UNCHANGED <<commandQueue, waitingForResponse, sending, dev, link,
                   outside, inbound, excused, bounds>>

ReadGarbage ==
    /\ pc = "read" /\ inbound # <<>> /\ Head(inbound).kind = "garbage"
    /\ Goes("scan")
    /\ inbound' = Tail(inbound)
    /\ UNCHANGED <<commandQueue, waitingForResponse, sending, dev, link,
                   outside, excused, bounds>>

\* The first byte of a message: waitForUnsolicitedMessage reads the others.
StartMessage ==
    /\ pc = "read" /\ inbound # <<>> /\ Head(inbound).kind # "garbage"
    /\ Goes("message")
    /\ UNCHANGED <<commandQueue, waitingForResponse, sending, dev, link,
                   outside, inbound, excused, bounds>>

-----------------------------------------------------------------------------
(* onInsteonMessage and the processEvent of the classes *)

\* The answer to a status query, and the two ways to learn a level.
Queried(o, v) == [o EXCEPT !.param = v, !.initialized = TRUE,
                           !.told = IF o.initialized THEN v ELSE @]

\* Mutant: a level that was learnt is kept from the script.
LearntQuietly(o, v) == [o EXCEPT !.param = v]

Learnt(o, v) == [o EXCEPT !.param = v, !.told = v]

\* Mutant: the level is read from the wrong byte.
SwitchEventCmd1(o, last, m) ==
    IF m.kind = "ack" /\ last = "query" THEN Queried(o, m.cmd1)
    ELSE IF m.kind \in {"ack", "cleanup"} /\ m.cmd1 \in Level
    THEN Learnt(o, m.cmd1) ELSE o

\* SwitchDevice::processEvent; last is cmd1 of mLastDirectMessageSent.
SwitchEvent(o, last, m) ==
    IF m.kind = "ack" /\ last = "query" THEN Queried(o, m.cmd2)
    ELSE IF m.kind \in {"ack", "cleanup"} /\ m.cmd1 \in Level
    THEN Learnt(o, m.cmd1) ELSE o

\* IOLinc::processEvent
IOLincEvent(o, last, m) ==
    CASE m.kind = "ack" /\ last = "query" -> Queried(o, m.cmd2)
      [] m.kind = "cleanup" -> Learnt(o, m.cmd1)
      [] OTHER -> o

\* EZFloraDevice::processEvent takes every reply after a program was sent for
\* the reply to the program.
EZFloraEvent(o, last, m) ==
    IF m.kind \notin {"ack", "broadcast"} \/ last = "program" THEN o
    ELSE IF m.kind = "ack" /\ m.cmd1 = "meter" THEN [o EXCEPT !.param = m.cmd2]
    ELSE Learnt(o, m.cmd2)

ProcessEvent(d, last, m) ==
    CASE d \in Switch -> SwitchEvent(dev[d], last, m)
      [] d \in IOLinc -> IOLincEvent(dev[d], last, m)
      [] d \in EZFlora -> EZFloraEvent(dev[d], last, m)

\* cmd1 of a command; that of a program is the one of "on".
Cmd1(c) == IF c = "program" THEN "on" ELSE c

\* A byte of memory: every value the comparisons tell apart.
LastSent(d) ==
    IF dev[d].last = "garbage" THEN DirectCommand \cup {"zero"}
                               ELSE {dev[d].last}

\* Mutant: a duplicate ACK is processed.
AcceptsEveryAck(last, m) == FALSE

IgnoresAck(last, m) ==
    m.kind = "ack" /\ Cmd1(last) # m.cmd1 /\ last # "query"

\* InsteonDevice::onInsteonMessage
Handled(d, last, m) ==
    LET o == ProcessEvent(d, last, m) IN
    CASE m.kind = "ack" -> [o EXCEPT !.status = "idle", !.last = "zero"]
      [] m.kind = "devnak" -> [o EXCEPT !.status = "idle"]
      [] OTHER -> o

\* A switch that was dimmed by hand does not tell to which level.
QueryAfterStop(d, m) ==
    IF d \in Switch /\ m.kind = "stopped" THEN To(d, <<"query">>) ELSE <<>>

\* A repeated ACK cannot be told from the ACK of a later query or a later
\* command with the same cmd1, nor from the first one if nothing was sent yet;
\* a valve that changes while a program is sent is missed.
MessageExcuse(d, last, m) ==
    IF \/ m.again /\ (dev[d].last = "garbage" \/ Cmd1(last) \in {m.cmd1, "query"})
       \/ d \in EZFlora /\ last = "program" /\ m.kind = "broadcast"
    THEN {"level", "event"} ELSE {}

DeviceMessage ==
    /\ pc = "message" /\ inbound # <<>>
    /\ LET m == Head(inbound)
           d == m.from
       IN  /\ d \in Known
           /\ \E last \in LastSent(d) :
                 IF IgnoresAck(last, m)
                 THEN UNCHANGED <<dev, commandQueue, excused>>
                 ELSE /\ dev' = [dev EXCEPT ![d] = Handled(d, last, m)]
                      /\ commandQueue' = commandQueue \o QueryAfterStop(d, m)
                      /\ excused' = excused \cup MessageExcuse(d, last, m)
    /\ inbound' = Tail(inbound)
    /\ Goes("scan")
    /\ UNCHANGED <<waitingForResponse, sending, link, outside, bounds>>

\* A device that was not added yet
UnknownMessage ==
    /\ pc = "message" /\ inbound # <<>>
    /\ Head(inbound).from \in Device \ Known
    /\ inbound' = Tail(inbound)
    /\ Goes("scan")
    /\ UNCHANGED <<commandQueue, waitingForResponse, sending, dev, link,
                   outside, excused, bounds>>

\* processAllLinkRecordResponse asks for the next record.
RecordMessage ==
    /\ pc = "message" /\ inbound # <<>>
    /\ Head(inbound).kind = "record"
    /\ waitingForResponse' = FALSE
    /\ commandQueue' = commandQueue \o To(Modem, <<"next">>)
    /\ inbound' = Tail(inbound)
    /\ Goes("scan")
    /\ UNCHANGED <<sending, dev, link, outside, excused, bounds>>

-----------------------------------------------------------------------------
(* The modem, the powerline and the people in the house *)

Sent(ms) == inbound' = IF link = "open" THEN inbound \o ms ELSE inbound

Flip(v) == IF v = "on" THEN "off" ELSE "on"

\* The level of a device after a command, its ACK, and the report of the
\* sensor of an IOLinc, whose relay moves a door from one end to the other.
After(d, c) ==
    CASE d \in IOLinc /\ c = "on" -> Flip(level[d])
      [] d \notin IOLinc /\ c \in Level -> c
      [] OTHER -> level[d]

Answer(d, c) ==
    Message("ack", d, IF c = "query" THEN "zero" ELSE Cmd1(c),
            IF d \in IOLinc /\ c = "on" THEN "on" ELSE After(d, c))

Report(d, c) ==
    IF d \in IOLinc /\ c = "on"
    THEN <<Message("cleanup", d, After(d, c), "off")>> ELSE <<>>

Execute ==
    /\ line # <<>> /\ Head(line).to \in Device
    /\ line' = Tail(line)
    /\ LET d == Head(line).to
           c == Head(line).cmd
       IN  \/ /\ level' = [level EXCEPT ![d] = After(d, c)]
              /\ Sent(<<Answer(d, c)>> \o Report(d, c))
              /\ \/ NoFault /\ UNCHANGED repeats
                 \/ /\ Fault("again", {})
                    /\ repeats' = repeats \cup
                                   {[Answer(d, c) EXCEPT !.again = TRUE]}
           \/ /\ Fault("noack", {"level", "event"})
              /\ level' = [level EXCEPT ![d] = After(d, c)]
              /\ Sent(Report(d, c)) /\ UNCHANGED repeats
           \/ /\ Fault("nak", UnlessAnswered(c))
              /\ Sent(<<Message("devnak", d, Cmd1(c), "off")>>)
              /\ UNCHANGED <<level, repeats>>
           \/ /\ Fault("lost", UnlessAnswered(c))
              /\ UNCHANGED <<level, inbound, repeats>>
    /\ UNCHANGED <<thread, link, records, requests, manual>>

SendRecord ==
    /\ line # <<>> /\ Head(line).to = Modem
    /\ line' = Tail(line)
    /\ Sent(<<Record>>)
    /\ UNCHANGED <<thread, link, level, repeats, records, excused, bounds>>

Retransmit(m) ==
    /\ m \in repeats
    /\ repeats' = repeats \ {m}
    /\ Sent(<<m>>)
    /\ UNCHANGED <<thread, link, level, line, records, excused, bounds>>

\* A switch, a door or a valve is operated by hand and reports it: the switch
\* its new state or, when it was dimmed, that the dimming stopped.  A report
\* that nobody is connected to is missed.
Operate(d) ==
    /\ manual < MaxManual
    /\ manual' = manual + 1
    /\ level' = [level EXCEPT ![d] = Flip(@)]
    /\ \E kind \in CASE d \in Switch -> {"cleanup", "stopped"}
                     [] d \in IOLinc -> {"cleanup"}
                     [] d \in EZFlora -> {"broadcast"} :
          Sent(<<Message(kind, d, level'[d], level'[d])>>)
    /\ excused' = IF link = "open" THEN excused ELSE {"level", "event"}
    /\ UNCHANGED <<thread, link, line, repeats, records, requests, faults>>

\* The peer closes the connection; a reset also discards what is unread.
Disconnect ==
    /\ link = "open"
    /\ Fault("disconnect", {"level", "event"})
    /\ link' = "broken"
    /\ inbound' \in {inbound, <<>>}
    /\ UNCHANGED <<thread, outside, requests, manual>>

-----------------------------------------------------------------------------
(* The specification *)

Call == \/ \E d \in Device : AddModule(d) \/ SwitchCall(d)
        \/ \E d \in EZFlora : EZFloraCall(d)
        \/ RefreshLinks
        \/ ClearModules

Thread == \/ \E d \in Device : Expire(d)
          \/ Connect \/ Write \/ NothingToSend
          \/ EchoRead \/ NakRead \/ Collide \/ EchoTimeout
          \/ EndOfStream \/ NothingToRead \/ ReadGarbage \/ StartMessage
          \/ DeviceMessage \/ UnknownMessage \/ RecordMessage

Outside == \/ Execute \/ SendRecord \/ Disconnect
           \/ \E m \in repeats : Retransmit(m)
           \/ \E d \in Device : Operate(d)

Next == Call \/ Thread \/ Outside

Spec == Init /\ [][Next]_vars

\* The loop of Insteon::run goes on, a command that was passed on is executed
\* or lost.  Expire is enabled in every round until its two seconds are over,
\* and then isIdle does not fail to take it: its fairness is strong.
Fairness == /\ WF_vars(Thread)
            /\ \A d \in Device : SF_vars(Expire(d))
            /\ WF_vars(Execute) /\ WF_vars(SendRecord)

FairSpec == Spec /\ Fairness

-----------------------------------------------------------------------------
(* Properties *)

\* The types of the variables.
TypeOK ==
    /\ commandQueue \in Seq(Command)
    /\ waitingForResponse \in BOOLEAN
    /\ pc \in {"scan", "echo", "read", "message"}
    /\ sending \in Command
    /\ link \in {"closed", "open", "broken"}
    /\ \A d \in Known : /\ dev[d].status \in {"idle", "waiting"}
                        /\ dev[d].last \in DirectCommand \cup {"zero", "garbage"}
                        /\ dev[d].param \in Level
                        /\ dev[d].told \in Level \cup {"none"}
    /\ level \in [Device -> Level]

\* run() asks every device before it sends: one device at most owes an ACK,
\* and while the modem is asked for its records none does.
OneOutstanding ==
    /\ \A d, e \in Known : Waits(d) /\ Waits(e) => d = e
    /\ waitingForResponse => AllIdle

\* Nothing is on its way, and the thread has nothing to do.
Quiet == /\ pc = "scan" /\ link = "open" /\ AllIdle
         /\ commandQueue = <<>> /\ line = <<>> /\ inbound = <<>>

\* The object of d has heard of the level of its device.
Answered(d) == d \in Known /\ (dev[d].initialized \/ dev[d].told # "none")

\* The level that an object holds, which decides what "toggle" sends and what
\* the REST calls list, is the level of its device whenever nothing is on its
\* way: whatever the order of the commands, of what people do by hand and of
\* the repeated ACKs that onInsteonMessage filters.  A command the powerline,
\* the device or the modem refuses changes neither.  Excused are the losses
\* nobody can hear of and the messages the code cannot tell apart.
LevelTracksDevice ==
    Quiet /\ "level" \notin excused =>
        \A d \in Device : Answered(d) => dev[d].param = level[d]

\* The last event that processEvent was given for a device tells its level, so
\* that a script that follows the events is not left behind.
ScriptIsTold ==
    Quiet /\ "event" \notin excused =>
        \A d \in Device : d \in Known /\ dev[d].told # "none" =>
                          dev[d].told = level[d]

\* waitForUnsolicitedMessage reads from a socket that nobody will open.
Stuck == pc = "message" /\ link = "closed"

\* What was queued is sent in the end, whatever is lost, refused or late: the
\* timeouts of isIdle and waitForReply keep the thread going.  Two things do
\* not pass: a socket that closes in the middle of a message, for getByte never
\* returns the -2 its loop waits for; and mWaitingForResponse, which has no
\* timeout and may start as TRUE.
CommandsDrain == \/ <>Stuck
                 \/ <>[]waitingForResponse
                 \/ []<>(commandQueue = <<>>)

\* "we never allow to send a command without getting an ACK first"
\* (InsteonDevice::onInsteonMessage): the device is sent a command only when
\* the one before was acknowledged, which sets cmd1 to zero.
AckBeforeNextCommand ==
    [][\A d \in Known :
          ~Waits(d) /\ Waits(d)' => dev[d].last \in {"zero", "garbage"}]_vars
=============================================================================
