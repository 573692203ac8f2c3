----------------------------- MODULE WifiNodes -----------------------------
(***************************************************************************)
(* DHASWifiNodesModule: the nodes that announce themselves, their          *)
(* connections, heartbeats, drivers and REST callbacks, composed with the  *)
(* drivers of module Sprinklers.                                           *)
(*                                                                         *)
(* The module's thread goes round its loop: events of epoll, the send      *)
(* queue, the heartbeats, run() of every driver.  Web threads, one at a    *)
(* time, list the nodes, send to one or are in a callback of one.  A node  *)
(* announces itself, reports its valve, beats once a period, falls silent  *)
(* or closes the connection.                                               *)
(***************************************************************************)
EXTENDS Sprinklers, FiniteSets

CONSTANTS MaxNodes,  \* MAX_NODES_COUNT (20 in the code)
          Silence,   \* periods without a heartbeat: 3
          Budgets    \* bound: what the environment may do

(* Room for one node at least, and time for one heartbeat.                 *)
ASSUME NodesAssumption == MaxNodes \in Nat \ {0} /\ Silence \in Nat \ {0}

(* What is told apart in what a controller sends is no valve.              *)
ASSUME MessagesAssumption ==
    {"nothing", "yo", "mixed"} \cap (Valves \cup {Closed}) = {}

(* Budgets count what each kind of event may still do.                     *)
ASSUME BudgetsAssumption ==
    Budgets \subseteq [calls : 0..MaxCalls, lists : Nat, adverts : Nat,
                       losses : Nat, steady : BOOLEAN, nodes : SUBSET Nodes,
                       ops : SUBSET {"on", "off", "sequence"}]

VARIABLES
    mNodes,        \* ip addresses in the map
    driver,        \* nodes whose driver exists
    callbacks,     \* nodes whose callbacks are in the REST engine
    mValveStatus,  \* the driver's idea of the open valve
    age,           \* periods begun since lastHeartBeat, up to Silence + 1
    valve,         \* what the controller has open
    inbox,         \* what it has sent and nobody has read
    edge,          \* nodes, and the multicast socket (NoOne), epoll reports
    adverts,       \* announcements that wait in the multicast socket
    peer,          \* the controller: "off", "up", "silent" or "closed"
    beaten,        \* controllers that have beaten in this period
    pc,            \* where the module's thread is in its loop
    current,       \* the node it is busy with
    todo,          \* what is left of the loop it is in
    back,          \* where it goes on after a removal
    turned,        \* it has finished a turn since the last period
    events,        \* "new" or "closed": the last event about a node
    budget,        \* what the environment may still do
    swallowed,     \* heartbeats and reports lost in a longer message
    delayed,       \* nodes that a blocking connect() has made look silent
    crashed        \* the daemon has used a driver that is no more

nodeVars == <<mNodes, driver, callbacks, mValveStatus, age, events>>
peerVars == <<valve, inbox, edge, adverts, peer, beaten>>
loopVars == <<pc, current, todo, back, turned>>
ghostVars == <<swallowed, delayed>>
vars == <<sprinklerVars, nodeVars, peerVars, loopVars, ghostVars, budget,
          crashed>>

(* What recv() finds: nothing, a heartbeat, a report of the open valve, or *)
(* several of these in one piece.                                          *)
Message == {"nothing", "yo", "mixed"} \cup Valves \cup {Closed}
LoopPC == {"wait", "events", "connect", "insert", "register", "unregister",
           "delete", "erase", "drain", "beats", "run"}

TypeOK ==
    /\ SprinklersTypeOK
    /\ mNodes \in SUBSET Nodes /\ Cardinality(mNodes) <= MaxNodes
    /\ driver \in SUBSET Nodes /\ callbacks \in SUBSET Nodes
    /\ mValveStatus \in [Nodes -> Valves \cup {Closed, NoOne}]
    /\ age \in [Nodes -> 0..Silence + 1]
    /\ valve \in [Nodes -> Valves \cup {Closed}]
    /\ inbox \in [Nodes -> Message]
    /\ edge \in SUBSET (Nodes \cup {NoOne})
    /\ adverts \in Seq(Nodes)
    /\ peer \in [Nodes -> {"off", "up", "silent", "closed"}]
    /\ beaten \in SUBSET Nodes
    /\ pc \in LoopPC /\ back \in {"events", "beats"}
    /\ current \in Nodes \cup {NoOne}
    /\ todo \in SUBSET (Nodes \cup {NoOne})
    /\ turned \in BOOLEAN /\ crashed \in BOOLEAN
    /\ events \in [Nodes -> {"none", "new", "closed"}]
    /\ swallowed \in SUBSET (Nodes \X {"beat", "report"})
    /\ delayed \in SUBSET Nodes

Init ==
    /\ SprinklersInit
    /\ mNodes = {} /\ driver = {} /\ callbacks = {}
    /\ mValveStatus = [n \in Nodes |-> NoOne]
    /\ age = [n \in Nodes |-> 0]
    /\ valve = [n \in Nodes |-> Closed]
    /\ inbox = [n \in Nodes |-> "nothing"] /\ edge = {} /\ adverts = <<>>
    /\ peer = [n \in Nodes |-> "off"] /\ beaten = {}
    /\ pc = "wait" /\ current = NoOne /\ todo = {} /\ back = "events"
    /\ turned = FALSE
    /\ events = [n \in Nodes |-> "none"]
    /\ budget \in Budgets
    /\ swallowed = {} /\ delayed = {}
    /\ crashed = FALSE

Spend(field) == /\ budget[field] > 0
                /\ budget' = [budget EXCEPT ![field] = @ - 1]

(***************************************************************************)
(* The controllers.  A connection is up from the end of connect() on.      *)
(***************************************************************************)
(* A controller multicasts its name.  One that is connected does so too.   *)
Advertise(n) ==
    /\ Spend("adverts") /\ n \in budget.nodes
    /\ adverts' = Append(adverts, n) /\ edge' = edge \cup {NoOne}
    /\ UNCHANGED <<sprinklerVars, nodeVars, valve, inbox, peer, beaten,
                   loopVars, ghostVars, crashed>>

Receive(n, m) ==
    /\ inbox' = [inbox EXCEPT ![n] = IF @ = "nothing" THEN m ELSE "mixed"]
    /\ edge' = edge \cup {n}

(* The controller's heartbeat, once a period.                              *)
Beat(n) ==
    /\ ~budget.steady /\ peer[n] = "up" /\ n \notin beaten
    /\ Receive(n, "yo")
    /\ beaten' = beaten \cup {n}
    /\ UNCHANGED <<sprinklerVars, nodeVars, valve, adverts, peer, loopVars,
                   ghostVars, budget, crashed>>

(* The controller loses power, and neither beats nor answers any more; or  *)
(* it closes its end, which epoll reports like data.                       *)
LosePeer(n) ==
    /\ Spend("losses")
    /\ peer[n] = "up"
    /\ \/ peer' = [peer EXCEPT ![n] = "silent"] /\ UNCHANGED edge
       \/ peer' = [peer EXCEPT ![n] = "closed"] /\ edge' = edge \cup {n}
    /\ UNCHANGED <<sprinklerVars, nodeVars, valve, inbox, adverts, beaten,
                   loopVars, ghostVars, crashed>>

(* A period goes by.  The thread has been round its loop in it, unless     *)
(* connect() keeps it; a controller that is up has beaten.  In a steady    *)
(* environment the period is a second: heartbeats come and are read, and   *)
(* connect() is quick.  The second period that a node spends in its own    *)
(* connect() is, like those its heartbeats wait in, no fault of its own.   *)
TimePasses ==
    /\ turned \/ pc = "connect"
    /\ \A n \in Nodes : peer[n] = "up" /\ ~budget.steady => n \in beaten
    /\ SecondPasses
    /\ age' = IF budget.steady THEN age
              ELSE [n \in Nodes |->
                       IF n \in mNodes \cup {current} /\ age[n] <= Silence
                       THEN age[n] + 1 ELSE age[n]]
    /\ beaten' = {}
    /\ turned' = FALSE
    /\ delayed' = IF pc = "connect"
                  THEN delayed \cup mNodes
                          \cup {n \in Nodes : n = current /\ age[n] >= 1}
                  ELSE delayed
    /\ UNCHANGED <<mpSequence, lastCall, request, torn, mpSendQueue, call,
                   run, refused, mNodes, driver, callbacks, mValveStatus,
                   events, valve, inbox, edge, adverts, peer, pc, current,
                   todo, back, swallowed, budget, crashed>>

(***************************************************************************)
(* The module's thread.                                                    *)
(***************************************************************************)
(* epoll_wait, with a timeout of a second.  The descriptors are edge       *)
(* triggered: what is not read now is reported again with the next data.   *)
EpollWait ==
    /\ pc = "wait"
    /\ pc' = "events" /\ todo' = edge /\ edge' = {}
    /\ UNCHANGED <<sprinklerVars, nodeVars, valve, inbox, adverts, peer,
                   beaten, current, back, turned, ghostVars, budget, crashed>>

EventsDone ==
    /\ pc = "events" /\ todo = {}
    /\ pc' = "drain"
    /\ UNCHANGED <<sprinklerVars, nodeVars, peerVars, current, todo, back,
                   turned, ghostVars, budget, crashed>>

(* Mutant: a node that is known is discovered again.                       *)
IsDiscoveredAgain(n) == Cardinality(mNodes) < MaxNodes

(* discoverNode ignores a node it knows and one too many.                  *)
IsDiscovered(n) == n \notin mNodes /\ Cardinality(mNodes) < MaxNodes

(* The new node's lastHeartBeat is taken before it is connected to.        *)
StartConnect(n) ==
    /\ age' = [age EXCEPT ![n] = 0]
    /\ delayed' = delayed \ {n}
    /\ pc' = "connect" /\ current' = n

(* processDataFromMulticastSocket reads one announcement per event.        *)
ReadAdvert ==
    /\ pc = "events" /\ NoOne \in todo /\ adverts # <<>>
    /\ adverts' = Tail(adverts)
    /\ todo' = todo \ {NoOne}
    /\ IF IsDiscovered(Head(adverts)) THEN StartConnect(Head(adverts))
       ELSE UNCHANGED <<age, delayed, pc, current>>
    /\ UNCHANGED <<sprinklerVars, mNodes, driver, callbacks, mValveStatus,
                   events, valve, inbox, edge, peer, beaten, back, turned,
                   swallowed, budget, crashed>>

(* connectNode blocks until the controller answers, or fails.  A new       *)
(* connection starts with nothing in it; its time in connect() has counted *)
(* as silence.                                                             *)
Connect ==
    /\ pc = "connect"
    /\ peer' = [peer EXCEPT ![current] = "up"]
    /\ inbox' = [inbox EXCEPT ![current] = "nothing"]
    /\ beaten' = beaten \ {current}
    /\ driver' = driver \cup {current}
    /\ NewDriver(current)
    /\ mValveStatus' = [mValveStatus EXCEPT ![current] = NoOne]
    /\ swallowed' = swallowed \ ({current} \X {"beat", "report"})
    /\ pc' = "insert"
    /\ UNCHANGED <<mpSendQueue, call, run, refused, mNodes, callbacks, age,
                   events, valve, edge, adverts, current, todo, back, turned,
                   delayed, budget, crashed>>

(* The driver of a node that does not answer is not deleted; nothing holds *)
(* it any more.                                                            *)
ConnectFails ==
    /\ pc = "connect"
    /\ pc' = "events" /\ current' = NoOne
    /\ UNCHANGED <<sprinklerVars, nodeVars, peerVars, todo, back, turned,
                   ghostVars, budget, crashed>>

InsertNode ==
    /\ pc = "insert"
    /\ mNodes' = mNodes \cup {current}
    /\ pc' = "register"
    /\ UNCHANGED <<sprinklerVars, driver, callbacks, mValveStatus, age,
                   events, peerVars, current, todo, back, turned, ghostVars,
                   budget, crashed>>

(* registerCallBacks, and the event "new".                                 *)
RegisterNode ==
    /\ pc = "register"
    /\ callbacks' = callbacks \cup {current}
    /\ events' = [events EXCEPT ![current] = "new"]
    /\ pc' = "events" /\ current' = NoOne
    /\ UNCHANGED <<sprinklerVars, mNodes, driver, mValveStatus, age,
                   peerVars, todo, back, turned, ghostVars, budget, crashed>>

(* receiveFromNode and checkHeartBeats remove a node in the same way: the  *)
(* socket is closed and the event "closed" raised...                       *)
StartRemoval(n, next) ==
    /\ events' = [events EXCEPT ![n] = "closed"]
    /\ peer' = [peer EXCEPT ![n] = "off"] /\ edge' = edge \ {n}
    /\ current' = n /\ back' = next
    /\ pc' = "unregister"

(* Mutant: the driver is deleted while its callbacks are still there.      *)
UnRegisterAfterDelete ==
    /\ pc = "unregister"
    /\ driver' = driver \ {current}
    /\ NewDriver(current)
    /\ mValveStatus' = [mValveStatus EXCEPT ![current] = NoOne]
    /\ call' = IF call.node = current THEN [call EXCEPT !.at = "deleted"]
               ELSE call
    /\ pc' = "delete"
    /\ UNCHANGED <<mpSendQueue, run, refused, mNodes, callbacks, age, events,
                   peerVars, current, todo, back, turned, ghostVars, budget,
                   crashed>>

(* ... the callbacks are taken from the REST engine...                     *)
UnRegisterCallBacks ==
    /\ pc = "unregister"
    /\ callbacks' = callbacks \ {current}
    /\ pc' = "delete"
    /\ UNCHANGED <<sprinklerVars, mNodes, driver, mValveStatus, age, events,
                   peerVars, current, todo, back, turned, ghostVars, budget,
                   crashed>>

(* ... the driver deleted: a web thread that is in one of its callbacks    *)
(* goes on with it...                                                      *)
DeleteDriver ==
    /\ pc = "delete"
    /\ driver' = driver \ {current}
    /\ NewDriver(current)
    /\ mValveStatus' = [mValveStatus EXCEPT ![current] = NoOne]
    /\ call' = IF call.node = current THEN [call EXCEPT !.at = "deleted"]
               ELSE call
    /\ pc' = "erase"
    /\ UNCHANGED <<mpSendQueue, run, refused, mNodes, callbacks, age, events,
                   peerVars, current, todo, back, turned, ghostVars, budget,
                   crashed>>

(* ... and the entry erased under the lock.  checkHeartBeats does so while *)
(* it iterates over the map, which is undefined: the loop may go on with   *)
(* all, some or none of the rest, or fault.                                *)
EraseNode ==
    /\ pc = "erase"
    /\ mNodes' = mNodes \ {current}
    /\ pc' = back /\ current' = NoOne
    /\ \/ back = "events" /\ UNCHANGED <<todo, crashed>>
       \/ back = "beats" /\ todo' \in SUBSET todo /\ UNCHANGED crashed
       \/ back = "beats" /\ crashed' = TRUE /\ UNCHANGED todo
    /\ UNCHANGED <<sprinklerVars, driver, callbacks, mValveStatus, age,
                   events, peerVars, back, turned, ghostVars, budget>>

(* Mutant: a report that names no valve is taken for none.                 *)
ProcessOpenValve(n, m) ==
    mValveStatus' = IF m \in Valves
                    THEN [mValveStatus EXCEPT ![n] = m] ELSE mValveStatus

(* SprinklersNode::processData: a report is two bytes long.                *)
ProcessData(n, m) ==
    mValveStatus' = IF m \in Valves \cup {Closed}
                    THEN [mValveStatus EXCEPT ![n] = m] ELSE mValveStatus

(* recv() takes all that is there.  A heartbeat alone is a heartbeat, a    *)
(* report alone is one; anything else is nothing to the driver.            *)
ReadNode(n) ==
    LET m == inbox[n]
        beat == m = "yo" IN
    /\ pc = "events" /\ n \in todo
    /\ m # "nothing"
    /\ todo' = todo \ {n}
    /\ inbox' = [inbox EXCEPT ![n] = "nothing"]
    /\ age' = IF beat THEN [age EXCEPT ![n] = 0] ELSE age
    /\ IF beat THEN UNCHANGED mValveStatus ELSE ProcessData(n, m)
    /\ swallowed' = CASE beat -> swallowed \ {<<n, "beat">>}
                      [] m = "mixed" ->
                            swallowed \cup ({n} \X {"beat", "report"})
                      [] OTHER -> swallowed \ {<<n, "report">>}
    /\ delayed' = IF beat THEN delayed \ {n} ELSE delayed
    /\ UNCHANGED <<sprinklerVars, mNodes, driver, callbacks, events, valve,
                   edge, adverts, peer, beaten, pc, current, back, turned,
                   budget, crashed>>

(* Nothing to read: the end of a closed connection, or EAGAIN.             *)
ReadEnd(n) ==
    /\ pc = "events" /\ n \in todo
    /\ inbox[n] = "nothing"
    /\ todo' = todo \ {n}
    /\ IF peer[n] = "closed" THEN StartRemoval(n, "events")
       ELSE UNCHANGED <<pc, current, back, events, peer, edge>>
    /\ UNCHANGED <<sprinklerVars, mNodes, driver, callbacks, mValveStatus,
                   age, valve, inbox, adverts, beaten, turned, ghostVars,
                   budget, crashed>>

(* The send queue: a command for a node that is gone is dropped, one whose *)
(* node does not answer is lost, one to a closed connection is refused     *)
(* with an event; else the valve moves and the move is reported.           *)
SendOne ==
    LET n == Head(mpSendQueue).node
        v == Head(mpSendQueue).valve IN
    /\ pc = "drain" /\ mpSendQueue # <<>>
    /\ mpSendQueue' = Tail(mpSendQueue)
    /\ IF n \in mNodes /\ peer[n] = "up"
       THEN /\ valve' = [valve EXCEPT ![n] = v]
            /\ IF valve[n] # v THEN Receive(n, v)
               ELSE UNCHANGED <<inbox, edge>>
       ELSE /\ edge' = IF n \in mNodes /\ peer[n] = "closed"
                       THEN edge \cup {n} ELSE edge
            /\ UNCHANGED <<valve, inbox>>
    /\ UNCHANGED <<driverVars, call, run, refused, nodeVars, adverts, peer,
                   beaten, loopVars, ghostVars, budget, crashed>>

SendsDone ==
    /\ pc = "drain" /\ mpSendQueue = <<>>
    /\ pc' = "beats" /\ todo' = mNodes
    /\ UNCHANGED <<sprinklerVars, nodeVars, peerVars, current, back, turned,
                   ghostVars, budget, crashed>>

(* Mutant: the time is compared for equality.                              *)
HeartBeatFailsOnce(n) == age[n] = Silence

(* Mutant: one missing heartbeat is enough.                                *)
HeartBeatFailsEarly(n) == age[n] >= 1

HeartBeatFails(n) == age[n] >= Silence

(* checkHeartBeats, for the node the iteration has come to.                *)
CheckHeartBeat(n) ==
    /\ pc = "beats" /\ n \in todo
    /\ todo' = todo \ {n}
    /\ IF HeartBeatFails(n) THEN StartRemoval(n, "beats")
       ELSE UNCHANGED <<pc, current, back, events, peer, edge>>
    /\ UNCHANGED <<sprinklerVars, mNodes, driver, callbacks, mValveStatus,
                   age, valve, inbox, adverts, beaten, turned, ghostVars,
                   budget, crashed>>

HeartBeatsDone ==
    /\ pc = "beats" /\ todo = {}
    /\ pc' = "run" /\ todo' = mNodes
    /\ UNCHANGED <<sprinklerVars, nodeVars, peerVars, current, back, turned,
                   ghostVars, budget, crashed>>

(* runNodes: every driver's run() in turn.                                 *)
RunNode(n) ==
    /\ pc = "run" /\ run.at = "no" /\ n \in todo
    /\ todo' = todo \ {n}
    /\ \/ RunIsDue(n)
       \/ mNextSequenceTime[n] # 0 /\ UNCHANGED sprinklerVars
    /\ UNCHANGED <<nodeVars, peerVars, pc, current, back, turned, ghostVars,
                   budget, crashed>>

InsideRun ==
    /\ pc = "run" /\ RunStep
    /\ UNCHANGED <<nodeVars, peerVars, loopVars, ghostVars, budget, crashed>>

TurnDone ==
    /\ pc = "run" /\ run.at = "no" /\ todo = {}
    /\ pc' = "wait" /\ turned' = TRUE
    /\ UNCHANGED <<sprinklerVars, nodeVars, peerVars, current, todo, back,
                   ghostVars, budget, crashed>>

ModuleThread ==
    \/ EpollWait \/ EventsDone \/ ReadAdvert \/ Connect \/ ConnectFails
    \/ InsertNode \/ RegisterNode \/ UnRegisterCallBacks \/ DeleteDriver
    \/ EraseNode \/ SendOne \/ SendsDone \/ HeartBeatsDone \/ InsideRun
    \/ TurnDone
    \/ \E n \in Nodes : ReadNode(n) \/ ReadEnd(n) \/ CheckHeartBeat(n)
                        \/ RunNode(n)

(***************************************************************************)
(* The web threads: a call at a time, under mInvocationLock.               *)
(***************************************************************************)
webUnchanged == <<nodeVars, peerVars, loopVars, ghostVars>>

(* A callback of node n is found in the REST engine, and entered.          *)
CallNode(n, op, items) ==
    /\ Spend("calls")
    /\ n \in callbacks /\ op \in budget.ops
    /\ EnterCallback(n, op, items, budget.calls)
    /\ UNCHANGED <<webUnchanged, crashed>>

InsideCallback ==
    /\ Callback
    /\ UNCHANGED <<webUnchanged, budget, crashed>>

(* The driver is deleted under the call: it may still send, do nothing     *)
(* that is seen, or fault.                                                 *)
DeletedCallback ==
    /\ call.at = "deleted"
    /\ call' = NoCall
    /\ \/ SendToNode(call.node, Closed) /\ UNCHANGED crashed
       \/ UNCHANGED <<mpSendQueue, refused, crashed>>
       \/ crashed' = TRUE /\ UNCHANGED <<mpSendQueue, refused>>
    /\ UNCHANGED <<driverVars, run, webUnchanged, budget>>

(* sendRaw_callback: any data to any address.                              *)
SendRaw(n, v) ==
    /\ call.at = "none"
    /\ Spend("lists")
    /\ SendToNode(n, v)
    /\ lastCall' = [lastCall EXCEPT ![n] = "on"]
    /\ UNCHANGED <<mpSequence, mNextSequenceTime, request, torn, call, run,
                   webUnchanged, crashed>>

(* getDevices_callback asks every driver of the map for its name, under    *)
(* mNodesListLock: the driver of a node that is being removed is gone.     *)
ListNodes ==
    /\ call.at = "none"
    /\ Spend("lists")
    /\ crashed' = ~(mNodes \subseteq driver)
    /\ UNCHANGED <<sprinklerVars, webUnchanged>>

WebThread ==
    \/ \E n \in Nodes : \/ CallNode(n, "off", <<>>)
                        \/ \E p \in Programs : CallNode(n, "sequence", p)
                        \/ \E v \in Valves :
                              \/ CallNode(n, "on", <<[valve |-> v,
                                                     seconds |-> 0]>>)
                              \/ SendRaw(n, v)
    \/ InsideCallback \/ DeletedCallback \/ ListNodes

Environment == \/ TimePasses
               \/ \E n \in Nodes : Advertise(n) \/ Beat(n) \/ LosePeer(n)

(* The daemon is gone.                                                     *)
Dead == crashed /\ UNCHANGED vars

Next == \/ ~crashed /\ (ModuleThread \/ WebThread \/ Environment)
        \/ Dead

(* The scheduler lets both threads go on, time passes, and a controller    *)
(* that is up keeps beating.                                               *)
Fairness ==
    /\ WF_vars(~crashed /\ ModuleThread)
    /\ WF_vars(~crashed /\ (InsideCallback \/ DeletedCallback))
    /\ WF_vars(~crashed /\ TimePasses)
    /\ \A n \in Nodes : WF_vars(~crashed /\ Beat(n))

Spec == Init /\ [][Next]_vars
FairSpec == Spec /\ Fairness

(***************************************************************************)
(* Properties.                                                             *)
(***************************************************************************)
(* A callback in the REST engine belongs to a driver that exists, and a    *)
(* node in the map has its driver, but for the moment between the deletion *)
(* and the erasure: outside it, /dwn/list meets no deleted driver.         *)
DriversOutliveCallbacks ==
    /\ callbacks \subseteq driver \cap mNodes
    /\ \A n \in mNodes \ driver : pc = "erase" /\ n = current

(* The events "new" and "closed" are raised in turn for a node: a script   *)
(* that follows them knows the nodes.                                      *)
EventsAlternate ==
    [][/\ pc = "register" /\ pc' # pc => events[current] # "new"
       /\ pc' = "unregister" /\ pc # pc' => events[current'] = "new"]_vars

(* A controller that is up and has beaten in every period is dropped only  *)
(* when one of its last heartbeats came in one piece with another message  *)
(* or waited while the thread was in connect(), or when it has not been    *)
(* heard yet and its own connect() took two periods: lastHeartBeat is      *)
(* taken before.  One period in connect() is no reason.                    *)
BeatingNodeStays ==
    [][\A n \in Nodes : pc = "beats" /\ pc' = "unregister" /\ current' = n
          => \/ peer[n] # "up"
             \/ <<n, "beat">> \in swallowed
             \/ n \in delayed]_vars

(* A node whose controller is gone is removed in the end, even when the    *)
(* end of its connection was reported together with data and lost.         *)
LostNodeIsRemoved ==
    \A n \in Nodes : peer[n] \in {"silent", "closed"} ~>
                        n \notin mNodes \/ crashed

(* When nothing is under way, the status the driver gives is the valve     *)
(* that is open, or none was reported since the node is known; unless the  *)
(* last reports came in one piece.                                         *)
StatusIsKnown ==
    \A n \in mNodes \cap driver :
        peer[n] = "up" /\ inbox[n] = "nothing"
        /\ <<n, "report">> \notin swallowed
            => mValveStatus[n] \in {NoOne, valve[n]}

(* Valve v is what a controller with valve open ends with, once it has got *)
(* the commands of queue that are for node n.                              *)
EndsWith(queue, n, open, v) ==
    LET mine == {i \in DOMAIN queue : queue[i].node = n} IN
    /\ mine = {} => open = v
    /\ \A i \in mine : (\A j \in mine : j <= i) => queue[i].valve = v

(* After "Turn off all sprinklers" has returned and before another call,   *)
(* nothing is left that opens a valve: no item, no time, no command after  *)
(* the closing one.  Except when the call met run() past its first test,   *)
(* the queue was full, or the node is not there to be told.                *)
StopIsFinal ==
    \A n \in mNodes : lastCall[n] = "off" /\ n \notin torn \cup refused =>
        /\ mpSequence[n] = <<>> /\ mNextSequenceTime[n] = TIMETMAX
        /\ peer[n] = "up" => EndsWith(mpSendQueue, n, valve[n], Closed)

(* A valve is opened only for the sequence asked for last, unless the call *)
(* that replaced it met run() with the item in hand.                       *)
NoStaleItem ==
    run.at \in {"next", "on"} /\ run.node \notin torn =>
        run.item.id = request[run.node]

(* A valve that a sequence has opened is closed, or another call decides:  *)
(* unless the queue refused a command, or the node is lost.                *)
SequenceEnds ==
    \A n \in Nodes : valve[n] # Closed /\ lastCall[n] = "sequence" ~>
        \/ valve[n] = Closed \/ lastCall[n] # "sequence"
        \/ peer[n] # "up" \/ n \in refused \/ crashed

(* The items of a sequence do not wait for ever in the ring, unless one    *)
(* was added while run() was about to give up the time.                    *)
ItemsArePlayed ==
    \A n \in Nodes : mpSequence[n] # <<>> ~>
        mpSequence[n] = <<>> \/ n \in torn \/ crashed

=============================================================================
