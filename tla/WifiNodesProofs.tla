--------------------------- MODULE WifiNodesProofs ---------------------------
(***************************************************************************)
(* What holds of WifiNodes for any number of controllers, valves, places   *)
(* in the queues and any environment: a callback has its driver, a stop is *)
(* final, and no item is played for a call that has been replaced.         *)
(***************************************************************************)
EXTENDS WifiNodes, FiniteSetTheorems, TLAPS

\* The types that TypeOK leaves open.
BudgetInv ==
    budget \in [calls : 0..MaxCalls, lists : Nat, adverts : Nat, losses : Nat,
                steady : BOOLEAN, nodes : SUBSET Nodes,
                ops : SUBSET {"on", "off", "sequence"}]
FiniteInv == IsFiniteSet(mNodes)

\* Where the module's thread is in the life of the node it is busy with.
Removing == pc \in {"unregister", "delete", "erase"}
LoopInv ==
    /\ pc \in {"connect", "insert", "register"} \/ Removing =>
          current \in Nodes
    /\ pc \in {"connect", "insert"} =>
          current \notin mNodes /\ Cardinality(mNodes) < MaxNodes
    /\ pc = "register" \/ Removing => current \in mNodes
    /\ pc = "beats" => todo \subseteq mNodes
    /\ Removing => /\ current \notin todo /\ peer[current] = "off"
                   /\ back = "beats" => todo \subseteq mNodes
    /\ \A n \in Nodes : peer[n] # "off" =>
          n \in mNodes \/ (pc = "insert" /\ n = current)
    /\ run.at # "no" => pc = "run" /\ run.node \in Nodes

\* A driver is there from before its node is in the map until the callbacks
\* are gone, and a call that has not lost its driver is in one.
DriverInv ==
    /\ \A n \in mNodes : n \in driver \/ (pc = "erase" /\ n = current)
    /\ \A n \in driver : n \in mNodes \/ (pc = "insert" /\ n = current)
    /\ \A n \in callbacks :
          n \in mNodes /\ ~(pc \in {"register", "delete", "erase"}
                            /\ n = current)
    /\ pc = "insert" => current \in driver
    /\ pc = "erase" => current \notin driver
    /\ call.at \notin {"none", "deleted"} => call.node \in driver

\* A script was told of the nodes of the map, but for the one that enters or
\* leaves it.
EventsInv ==
    \A n \in Nodes : events[n] = "new" <=>
        n \in mNodes /\ ~((pc = "register" \/ Removing) /\ n = current)

\* What a call carries through its callback, and run() through its round.
CallInv ==
    /\ call.at = "none" => call.node = NoOne
    /\ call.at # "none" =>
          /\ call.node \in Nodes /\ call.id \in 1..MaxCalls
          /\ lastCall[call.node] = "none"
    /\ call.at \in {"put", "test", "set"} =>
          call.items # <<>> /\ call.op = "sequence"
    /\ call.at \in {"clear", "drain", "put", "test", "set"} => call.op # "on"
    /\ call.at = "send" /\ call.op = "on" => call.items # <<>>
    /\ call.at \in {"drain", "put", "test", "set"} =>
          request[call.node] = call.id
    /\ run.at \in {"next", "on"} => run.item \in Item

\* Node n has no sequence, or is about to lose it: its time is cleared and
\* run() is not past its test of it.
Emptied(n) == \/ lastCall[n] = "off"
              \/ call.node = n /\ call.at = "send" /\ call.op = "off"
Draining(n) == call.node = n /\ call.at = "drain"
SequenceInv ==
    \A n \in Nodes \ torn :
        /\ Emptied(n) \/ Draining(n) =>
              /\ mNextSequenceTime[n] = TIMETMAX
              /\ ~(run.node = n /\ run.at \in {"get", "next", "on"})
        /\ Emptied(n) => mpSequence[n] = <<>>
        /\ ~Draining(n) => \A i \in DOMAIN mpSequence[n] :
                              mpSequence[n][i].id = request[n]

\* A stop is the last command of its node, sent or queued.
CloseInv ==
    \A n \in Nodes \ (torn \cup refused) :
        lastCall[n] = "off" /\ peer[n] = "up" =>
            EndsWith(mpSendQueue, n, valve[n], Closed)

IInv == /\ TypeOK /\ BudgetInv /\ FiniteInv /\ LoopInv /\ DriverInv
        /\ EventsInv /\ CallInv /\ SequenceInv /\ NoStaleItem /\ CloseInv

-----------------------------------------------------------------------------
(* Types *)

LEMMA InitInv == Init => IInv
<1> SUFFICES ASSUME Init PROVE IInv
  OBVIOUS
<1> USE ValvesAssumption, SizesAssumption, NodesAssumption, BudgetsAssumption
        DEF Init, SprinklersInit
<1>1. TypeOK /\ BudgetInv /\ FiniteInv
  <2>1. /\ mpSequence \in [Nodes -> Seq(Item)]
        /\ \A n \in Nodes : Len(mpSequence[n]) <= RingSize
        /\ mpSendQueue \in Seq(Command) /\ Len(mpSendQueue) <= QueueSize
    OBVIOUS
  <2>2. SprinklersTypeOK
    BY <2>1 DEF SprinklersTypeOK, NoCall, NotRunning, NoItem, CallPC, RunPC,
                TIMETMAX
  <2>3. IsFiniteSet(mNodes) /\ Cardinality(mNodes) <= MaxNodes
    BY FS_EmptySet
  <2>5. /\ age \in [Nodes -> 0..Silence + 1]
        /\ valve \in [Nodes -> Valves \cup {Closed}]
        /\ inbox \in [Nodes -> Message]
    BY DEF Message
  <2>6. /\ driver \in SUBSET Nodes /\ callbacks \in SUBSET Nodes
        /\ mNodes \in SUBSET Nodes /\ beaten \in SUBSET Nodes
        /\ edge \in SUBSET (Nodes \cup {NoOne}) /\ adverts \in Seq(Nodes)
        /\ todo \in SUBSET (Nodes \cup {NoOne}) /\ delayed \in SUBSET Nodes
        /\ swallowed \in SUBSET (Nodes \X {"beat", "report"})
    OBVIOUS
  <2>7. /\ mValveStatus \in [Nodes -> Valves \cup {Closed, NoOne}]
        /\ peer \in [Nodes -> {"off", "up", "silent", "closed"}]
        /\ events \in [Nodes -> {"none", "new", "closed"}]
    OBVIOUS
  <2>8. /\ pc \in LoopPC /\ back \in {"events", "beats"}
        /\ current \in Nodes \cup {NoOne}
        /\ turned \in BOOLEAN /\ crashed \in BOOLEAN
    BY DEF LoopPC
  <2>4. TypeOK
    BY ONLY <2>2, <2>3, <2>5, <2>6, <2>7, <2>8 DEF TypeOK
  <2> QED
    BY <2>3, <2>4 DEF BudgetInv, FiniteInv
<1>2. LoopInv /\ DriverInv /\ EventsInv /\ CallInv
  BY DEF LoopInv, Removing, DriverInv, EventsInv, CallInv, NoCall, NotRunning
<1>3. SequenceInv /\ NoStaleItem /\ CloseInv
  BY DEF SequenceInv, Emptied, Draining, NoStaleItem, CloseInv, NoCall,
     NotRunning
<1> QED
  BY <1>1, <1>2, <1>3 DEF IInv

\* The types of module Sprinklers, one variable at a time.
RingOK == /\ mpSequence \in [Nodes -> Seq(Item)]
          /\ \A n \in Nodes : Len(mpSequence[n]) <= RingSize
ClockOK == mNextSequenceTime \in [Nodes -> 0..TIMETMAX]
QueueOK == /\ mpSendQueue \in Seq(Command) /\ Len(mpSendQueue) <= QueueSize
           /\ refused \in SUBSET Nodes
CallOK == call \in [at : CallPC, node : Nodes \cup {NoOne}, id : 0..MaxCalls,
                    op : {"none", "on", "off", "sequence"},
                    items : Seq([valve : Valves, seconds : 0..MaxSeconds])]
RunOK == run \in [at : RunPC, node : Nodes \cup {NoOne},
                  item : Item \cup {NoItem}]
RequestOK == /\ lastCall \in [Nodes -> {"none", "on", "off", "sequence"}]
             /\ request \in [Nodes -> 0..MaxCalls]
             /\ torn \in SUBSET Nodes

LEMMA SprinklersParts ==
    /\ SprinklersTypeOK <=> /\ RingOK /\ ClockOK /\ QueueOK /\ CallOK /\ RunOK
                            /\ RequestOK
    /\ SprinklersTypeOK' <=> /\ RingOK' /\ ClockOK' /\ QueueOK' /\ CallOK'
                             /\ RunOK' /\ RequestOK'
BY DEF SprinklersTypeOK, RingOK, ClockOK, QueueOK, CallOK, RunOK, RequestOK

\* An item taken from a ring, a command from the queue: what is left is of
\* the same type and shorter.
LEMMA TailType ==
    ASSUME NEW S, NEW q \in Seq(S), q # <<>>
    PROVE  Head(q) \in S /\ Tail(q) \in Seq(S) /\ Len(Tail(q)) = Len(q) - 1
  OBVIOUS

LEMMA LongTail ==
    ASSUME NEW S, NEW q \in Seq(S), Len(q) > 1
    PROVE  Tail(q) # <<>>
<1>1. \A n \in Nat : n > 1 => n - 1 # 0
  OBVIOUS
<1>2. q # <<>> /\ Len(q) \in Nat /\ Len(<<>>) = 0
  OBVIOUS
<1>3. Len(Tail(q)) = Len(q) - 1
  BY <1>2, TailType
<1> QED
  BY <1>1, <1>2, <1>3, Zenon

LEMMA AppendType ==
    ASSUME NEW S, NEW q \in Seq(S), NEW e \in S
    PROVE  Append(q, e) \in Seq(S) /\ Len(Append(q, e)) = Len(q) + 1
  OBVIOUS

\* What a command does to the queue.
LEMMA SendType ==
    ASSUME QueueOK, NEW n \in Nodes, NEW v \in Valves \cup {Closed},
           SendToNode(n, v)
    PROVE  QueueOK'
<1> DEFINE c == [node |-> n, valve |-> v]
<1>1. c \in Command
  BY DEF Command
<1>2. Append(mpSendQueue, c) \in Seq(Command)
      /\ Len(Append(mpSendQueue, c)) = Len(mpSendQueue) + 1
  BY <1>1, AppendType DEF QueueOK
<1>3. CASE Len(mpSendQueue) < QueueSize
  <2>1. mpSendQueue' = Append(mpSendQueue, c) /\ refused' = refused
    BY <1>3, Zenon DEF SendToNode
  <2> HIDE DEF c
  <2> QED
    BY <1>2, <1>3, <2>1, SizesAssumption DEF QueueOK
<1>4. CASE ~(Len(mpSendQueue) < QueueSize)
  <2>1. mpSendQueue' = mpSendQueue /\ refused' = refused \cup {n}
    BY <1>4, Zenon DEF SendToNode
  <2> QED
    BY <2>1 DEF QueueOK
<1> QED
  BY <1>3, <1>4

\* The driver's variables keep their types in a new driver ...
LEMMA NewDriverType ==
    ASSUME RingOK, ClockOK, RequestOK, NEW n \in Nodes, NewDriver(n)
    PROVE  RingOK' /\ ClockOK' /\ RequestOK'
<1>1. <<>> \in Seq(Item) /\ Len(<<>>) = 0
  OBVIOUS
<1>2. RingOK'
  BY <1>1, SizesAssumption DEF NewDriver, RingOK
<1> QED
  BY <1>2, SizesAssumption DEF NewDriver, ClockOK, RequestOK, TIMETMAX

LEMMA NoCallType ==
    NoCall \in [at : CallPC, node : Nodes \cup {NoOne}, id : 0..MaxCalls,
                op : {"none", "on", "off", "sequence"},
                items : Seq([valve : Valves, seconds : 0..MaxSeconds])]
<1>1. <<>> \in Seq([valve : Valves, seconds : 0..MaxSeconds])
  OBVIOUS
<1> QED
  BY <1>1, SizesAssumption DEF NoCall, CallPC

\* ... in a callback ...
LEMMA CallbackType ==
    ASSUME SprinklersTypeOK, CallInv, Callback
    PROVE  SprinklersTypeOK'
<1> DEFINE n == call.node
<1>1. RingOK /\ ClockOK /\ QueueOK /\ CallOK /\ RunOK /\ RequestOK
  BY SprinklersParts
<1>2. n \in Nodes /\ call.id \in 1..MaxCalls
  BY DEF CallInv, Callback, ClearTime, DrainItem, Drained, PutItem, TestTime,
         SetTime, SendCommand
<1>3. RunOK'
  BY <1>1 DEF RunOK, Callback, ClearTime, TakeOver, DrainItem, Drained,
              AfterDrain, PutItem, TestTime, SetTime, SendCommand
<1>4. call' = NoCall => CallOK'
  BY NoCallType DEF CallOK
<1>5. CASE ClearTime
  <2>1. CallOK'
    BY <1>1, <1>5 DEF ClearTime, TakeOver, CallOK, CallPC
  <2>2. ClockOK' /\ RequestOK'
    BY <1>1, <1>2, <1>5, SizesAssumption
       DEF ClearTime, TakeOver, ClockOK, RequestOK, TIMETMAX
  <2>3. RingOK' /\ QueueOK'
    BY <1>1, <1>5 DEF ClearTime, TakeOver, RingOK, QueueOK
  <2> QED
    BY <1>3, <2>1, <2>2, <2>3, SprinklersParts
<1>6. CASE DrainItem
  <2>1. mpSequence[n] \in Seq(Item) /\ mpSequence[n] # <<>>
    BY <1>1, <1>2, <1>6 DEF DrainItem, RingOK
  <2>2. Tail(mpSequence[n]) \in Seq(Item)
        /\ Len(Tail(mpSequence[n])) = Len(mpSequence[n]) - 1
    BY <2>1, TailType
  <2>3. RingOK'
    BY <1>1, <1>2, <1>6, <2>2, SizesAssumption DEF DrainItem, RingOK
  <2>4. ClockOK' /\ RequestOK' /\ CallOK' /\ QueueOK'
    BY <1>1, <1>6 DEF DrainItem, ClockOK, RequestOK, CallOK, QueueOK
  <2> QED
    BY <1>3, <2>3, <2>4, SprinklersParts
<1>7. CASE Drained
  <2>1. CallOK'
    BY <1>1, <1>4, <1>7 DEF Drained, AfterDrain, CallOK, CallPC
  <2>2. RingOK' /\ ClockOK' /\ RequestOK' /\ QueueOK'
    BY <1>1, <1>7 DEF Drained, AfterDrain, RingOK, ClockOK, RequestOK, QueueOK
  <2> QED
    BY <1>3, <2>1, <2>2, SprinklersParts
<1>8. CASE PutItem
  <2> DEFINE item == [valve |-> Head(call.items).valve,
                      seconds |-> Head(call.items).seconds, id |-> call.id]
  <2>1. call.items # <<>>
        /\ call.items \in Seq([valve : Valves, seconds : 0..MaxSeconds])
    BY <1>1, <1>8 DEF PutItem, CallInv, CallOK
  <2>2. Head(call.items) \in [valve : Valves, seconds : 0..MaxSeconds]
    BY <2>1, TailType
  <2>3. item \in Item
    BY <1>2, <2>2 DEF Item
  <2>4. Append(mpSequence[n], item) \in Seq(Item)
        /\ Len(Append(mpSequence[n], item)) = Len(mpSequence[n]) + 1
    BY <1>1, <1>2, <2>3, AppendType DEF RingOK
  <2>5. mpSequence' = IF Len(mpSequence[n]) < RingSize
                      THEN [mpSequence EXCEPT ![n] =
                               Append(mpSequence[n], item)]
                      ELSE mpSequence
    BY <1>8, Zenon DEF PutItem
  <2> HIDE DEF item
  <2>6. RingOK'
    BY <1>1, <1>2, <2>4, <2>5, SizesAssumption DEF RingOK
  <2>7. ClockOK' /\ RequestOK' /\ QueueOK'
    BY <1>1, <1>8 DEF PutItem, ClockOK, RequestOK, QueueOK
  <2>8. CallOK'
    BY <1>1, <1>8 DEF PutItem, CallOK, CallPC
  <2> QED
    BY <1>3, <2>6, <2>7, <2>8, SprinklersParts
<1>9. CASE TestTime \/ SetTime
  <2>1. call.items # <<>>
        /\ call.items \in Seq([valve : Valves, seconds : 0..MaxSeconds])
    BY <1>1, <1>9 DEF TestTime, SetTime, CallInv, CallOK
  <2>2. Tail(call.items) \in Seq([valve : Valves, seconds : 0..MaxSeconds])
    BY <2>1, TailType
  <2>3. CallOK'
    BY <1>1, <1>4, <1>9, <2>2 DEF TestTime, SetTime, NextItem, Return, CallOK,
                                  CallPC
  <2>4. RequestOK'
    BY <1>1, <1>2, <1>9 DEF TestTime, SetTime, NextItem, Return, RequestOK,
                            CallOK
  <2>5. ClockOK'
    BY <1>1, <1>2, <1>9, SizesAssumption DEF TestTime, SetTime, ClockOK,
                                             TIMETMAX
  <2>6. RingOK' /\ QueueOK'
    BY <1>1, <1>9 DEF TestTime, SetTime, RingOK, QueueOK
  <2> QED
    BY <1>3, <2>3, <2>4, <2>5, <2>6, SprinklersParts
<1>10. CASE SendCommand
  <2> DEFINE v == IF call.op = "on" THEN Head(call.items).valve ELSE Closed
  <2>1. call.op = "on" =>
            Head(call.items) \in [valve : Valves, seconds : 0..MaxSeconds]
    BY <1>1, <1>10, TailType DEF SendCommand, CallInv, CallOK
  <2>2. v \in Valves \cup {Closed} /\ SendToNode(n, v)
    BY <1>10, <2>1 DEF SendCommand
  <2>3. QueueOK'
    BY <1>1, <1>2, <2>2, SendType
  <2>4. CallOK' /\ RequestOK'
    BY <1>1, <1>2, <1>4, <1>10 DEF SendCommand, Return, CallOK, RequestOK
  <2>5. RingOK' /\ ClockOK'
    BY <1>1, <1>10 DEF SendCommand, RingOK, ClockOK
  <2> QED
    BY <1>3, <2>3, <2>4, <2>5, SprinklersParts
<1> QED
  BY <1>5, <1>6, <1>7, <1>8, <1>9, <1>10 DEF Callback

\* ... and in run().
LEMMA RunType ==
    ASSUME SprinklersTypeOK, LoopInv, CallInv, RunStep
    PROVE  SprinklersTypeOK'
<1> DEFINE n == run.node
<1>1. RingOK /\ ClockOK /\ QueueOK /\ CallOK /\ RunOK /\ RequestOK
  BY SprinklersParts
<1>2. n \in Nodes
  BY DEF RunStep, GetItem, SendAllOff, SequenceComplete, SetNextTime, OpenValve,
         LoopInv
<1>3. CallOK' /\ RequestOK'
  BY <1>1 DEF RunStep, GetItem, SendAllOff, SequenceComplete, SetNextTime,
              OpenValve, driverVars, CallOK, RequestOK
<1>4. CASE GetItem
  <2>1. mpSequence[n] # <<>> =>
            /\ Head(mpSequence[n]) \in Item
            /\ Tail(mpSequence[n]) \in Seq(Item)
            /\ Len(Tail(mpSequence[n])) = Len(mpSequence[n]) - 1
    BY <1>1, <1>2, TailType DEF RingOK
  <2>5. mpSequence' = IF mpSequence[n] = <<>> THEN mpSequence
                      ELSE [mpSequence EXCEPT ![n] = Tail(mpSequence[n])]
    BY <1>4, Zenon DEF GetItem
  <2>2. RingOK'
    BY <1>1, <1>2, <2>1, <2>5, SizesAssumption DEF RingOK
  <2>3. RunOK'
    BY <1>1, <1>4, <2>1 DEF GetItem, RunOK, RunPC
  <2>4. ClockOK' /\ QueueOK'
    BY <1>1, <1>4 DEF GetItem, ClockOK, QueueOK
  <2> QED
    BY <1>3, <2>2, <2>3, <2>4, SprinklersParts
<1>5. CASE SendAllOff
  <2>1. QueueOK'
    BY <1>1, <1>2, <1>5, SendType DEF SendAllOff
  <2>2. RunOK' /\ RingOK' /\ ClockOK'
    BY <1>1, <1>5 DEF SendAllOff, driverVars, RunOK, RunPC, RingOK, ClockOK
  <2> QED
    BY <1>3, <2>1, <2>2, SprinklersParts
<1>6. CASE SequenceComplete
  <2>1. ClockOK'
    BY <1>1, <1>2, <1>6, SizesAssumption DEF SequenceComplete, ClockOK, TIMETMAX
  <2>2. RunOK' /\ RingOK' /\ QueueOK'
    BY <1>1, <1>6 DEF SequenceComplete, NotRunning, RunOK, RunPC, RingOK,
                      QueueOK
  <2> QED
    BY <1>3, <2>1, <2>2, SprinklersParts
<1>7. CASE SetNextTime
  <2>1. run.item.seconds \in 0..TIMETMAX
    BY <1>7, SizesAssumption DEF SetNextTime, CallInv, Item, TIMETMAX
  <2>2. ClockOK'
    BY <1>1, <1>2, <1>7, <2>1 DEF SetNextTime, ClockOK
  <2>3. RunOK' /\ RingOK' /\ QueueOK'
    BY <1>1, <1>7 DEF SetNextTime, RunOK, RunPC, RingOK, QueueOK
  <2> QED
    BY <1>3, <2>2, <2>3, SprinklersParts
<1>8. CASE OpenValve
  <2>1. run.item.valve \in Valves
    BY <1>8 DEF OpenValve, CallInv, Item
  <2>2. QueueOK'
    BY <1>1, <1>2, <1>8, <2>1, SendType DEF OpenValve
  <2>3. RunOK' /\ RingOK' /\ ClockOK'
    BY <1>1, <1>8 DEF OpenValve, driverVars, NotRunning, RunOK, RunPC, RingOK,
                      ClockOK
  <2> QED
    BY <1>3, <2>2, <2>3, SprinklersParts
<1> QED
  BY <1>4, <1>5, <1>6, <1>7, <1>8 DEF RunStep

\* Where the sprinklers are left alone, they keep their types.
LEMMA SprinklersStutter ==
    SprinklersTypeOK /\ UNCHANGED sprinklerVars => SprinklersTypeOK'
BY DEF SprinklersTypeOK, sprinklerVars, driverVars

\* Every step of the module's thread keeps the types ...
LEMMA ThreadType ==
    ASSUME TypeOK, FiniteInv, LoopInv, CallInv, ModuleThread
    PROVE  TypeOK' /\ FiniteInv'
<1> USE NodesAssumption, SprinklersStutter
        DEF TypeOK, nodeVars, peerVars, loopVars, ghostVars, Message, LoopPC,
            FiniteInv
<1>1. CASE EpollWait
  BY <1>1 DEF EpollWait
<1>2. CASE EventsDone
  BY <1>2 DEF EventsDone
<1>3. CASE ReadAdvert
  <2>1. Head(adverts) \in Nodes /\ Tail(adverts) \in Seq(Nodes)
    BY <1>3, TailType DEF ReadAdvert
  <2>2. SprinklersTypeOK'
    BY <1>3 DEF ReadAdvert
  <2>3. /\ age' \in [Nodes -> 0..Silence + 1] /\ delayed' \in SUBSET Nodes
        /\ pc' \in LoopPC /\ current' \in Nodes \cup {NoOne}
    <3> DEFINE m == Head(adverts)
    <3>1. m \in Nodes
      BY <2>1
    <3>2. \/ /\ age' = [age EXCEPT ![m] = 0] /\ delayed' = delayed \ {m}
             /\ pc' = "connect" /\ current' = m
          \/ UNCHANGED <<age, delayed, pc, current>>
      BY <1>3 DEF ReadAdvert, StartConnect
    <3>3. /\ age \in [Nodes -> 0..Silence + 1] /\ delayed \in SUBSET Nodes
          /\ pc \in LoopPC /\ current \in Nodes \cup {NoOne}
          /\ 0 \in 0..Silence + 1
      OBVIOUS
    <3> HIDE DEF m
    <3> QED
      BY ONLY <3>1, <3>2, <3>3 DEF LoopPC
  <2> QED
    BY <1>3, <2>1, <2>2, <2>3 DEF ReadAdvert
<1>4. CASE Connect
  <2>1. current \in Nodes /\ NewDriver(current)
    BY <1>4 DEF Connect, LoopInv
  <2>2. SprinklersTypeOK'
    <3>1. RingOK' /\ ClockOK' /\ RequestOK'
      BY <2>1, NewDriverType, SprinklersParts
    <3>2. QueueOK' /\ CallOK' /\ RunOK'
      BY <1>4, SprinklersParts DEF Connect, QueueOK, CallOK, RunOK
    <3> QED
      BY <3>1, <3>2, SprinklersParts
  <2> QED
    BY <1>4, <2>1, <2>2 DEF Connect
<1>5. CASE ConnectFails
  BY <1>5 DEF ConnectFails
<1>6. CASE InsertNode
  <2>1. /\ IsFiniteSet(mNodes') /\ Cardinality(mNodes') <= MaxNodes
        /\ mNodes' \in SUBSET Nodes
    <3>1. mNodes' = mNodes \cup {current} /\ current \in Nodes
          /\ current \notin mNodes /\ Cardinality(mNodes) < MaxNodes
      BY <1>6 DEF InsertNode, LoopInv
    <3>2. IsFiniteSet(mNodes) /\ Cardinality(mNodes) \in Nat
      BY FS_CardinalityType
    <3>3. Cardinality(mNodes') = Cardinality(mNodes) + 1
          /\ IsFiniteSet(mNodes')
      BY <3>1, <3>2, FS_AddElement
    <3> QED
      BY <3>1, <3>2, <3>3
  <2> QED
    BY <1>6, <2>1 DEF InsertNode
<1>7. CASE RegisterNode
  BY <1>7 DEF RegisterNode, LoopInv
<1>8. CASE UnRegisterCallBacks
  BY <1>8 DEF UnRegisterCallBacks
<1>9. CASE DeleteDriver
  <2>1. current \in Nodes /\ NewDriver(current)
    BY <1>9 DEF DeleteDriver, LoopInv, Removing
  <2>2. SprinklersTypeOK'
    <3>1. RingOK' /\ ClockOK' /\ RequestOK'
      BY <2>1, NewDriverType, SprinklersParts
    <3>2. CallOK'
      BY <1>9, SprinklersParts DEF DeleteDriver, CallOK, CallPC
    <3>3. QueueOK' /\ RunOK'
      BY <1>9, SprinklersParts DEF DeleteDriver, QueueOK, RunOK
    <3> QED
      BY <3>1, <3>2, <3>3, SprinklersParts
  <2> QED
    BY <1>9, <2>1, <2>2 DEF DeleteDriver
<1>10. CASE EraseNode
  <2>1. /\ IsFiniteSet(mNodes') /\ Cardinality(mNodes') <= MaxNodes
        /\ mNodes' \in SUBSET Nodes
    <3>1. mNodes' = mNodes \ {current}
      BY <1>10 DEF EraseNode
    <3>2. IsFiniteSet(mNodes) /\ Cardinality(mNodes) \in Nat
      BY FS_CardinalityType
    <3>3. /\ IsFiniteSet(mNodes')
          /\ Cardinality(mNodes') = IF current \in mNodes
                THEN Cardinality(mNodes) - 1 ELSE Cardinality(mNodes)
      BY <3>1, <3>2, FS_RemoveElement
    <3> QED
      BY <3>1, <3>2, <3>3
  <2> QED
    BY <1>10, <2>1 DEF EraseNode
<1>11. CASE SendOne
  <2>1. /\ Head(mpSendQueue) \in Command
        /\ Tail(mpSendQueue) \in Seq(Command)
        /\ Len(Tail(mpSendQueue)) = Len(mpSendQueue) - 1
    BY <1>11, TailType DEF SendOne, SprinklersTypeOK
  <2>2. Head(mpSendQueue).node \in Nodes
        /\ Head(mpSendQueue).valve \in Valves \cup {Closed}
    BY <2>1 DEF Command
  <2>3. SprinklersTypeOK'
    <3>1. QueueOK'
      BY <1>11, <2>1, SizesAssumption, SprinklersParts DEF SendOne, QueueOK
    <3>2. RingOK' /\ ClockOK' /\ CallOK' /\ RunOK' /\ RequestOK'
      BY <1>11, SprinklersParts DEF SendOne, driverVars, RingOK, ClockOK,
                                    CallOK, RunOK, RequestOK
    <3> QED
      BY <3>1, <3>2, SprinklersParts
  <2> QED
    BY <1>11, <2>2, <2>3 DEF SendOne, Receive
<1>12. CASE SendsDone
  BY <1>12 DEF SendsDone
<1>13. CASE HeartBeatsDone
  BY <1>13 DEF HeartBeatsDone
<1>14. CASE InsideRun
  BY <1>14, RunType DEF InsideRun
<1>15. CASE TurnDone
  BY <1>15 DEF TurnDone
<1>16. ASSUME NEW n \in Nodes, ReadNode(n) PROVE TypeOK' /\ FiniteInv'
  BY <1>16 DEF ReadNode, ProcessData
<1>17. ASSUME NEW n \in Nodes, ReadEnd(n) \/ CheckHeartBeat(n) PROVE TypeOK' /\ FiniteInv'
  BY <1>17 DEF ReadEnd, CheckHeartBeat, StartRemoval
<1>18. ASSUME NEW n \in Nodes, RunNode(n) PROVE TypeOK' /\ FiniteInv'
  <2>1. SprinklersTypeOK'
    <3>1. RunOK'
      BY <1>18, SprinklersParts DEF RunNode, RunIsDue, sprinklerVars, RunOK,
                                    RunPC
    <3>2. RingOK' /\ ClockOK' /\ QueueOK' /\ CallOK' /\ RequestOK'
      BY <1>18, SprinklersParts DEF RunNode, RunIsDue, sprinklerVars,
               driverVars, RingOK, ClockOK, QueueOK, CallOK, RequestOK
    <3> QED
      BY <3>1, <3>2, SprinklersParts
  <2> QED
    BY <1>18, <2>1 DEF RunNode
<1> QED
  BY <1>1, <1>2, <1>3, <1>4, <1>5, <1>6, <1>7, <1>8, <1>9, <1>10, <1>11, <1>12,
     <1>13, <1>14, <1>15, <1>16, <1>17, <1>18 DEF ModuleThread

\* ... and so does a call ...
LEMMA WebType ==
    ASSUME TypeOK, BudgetInv, CallInv, WebThread
    PROVE  TypeOK'
<1> USE SprinklersStutter
        DEF TypeOK, webUnchanged, nodeVars, peerVars, loopVars,
            ghostVars
<1>1. ASSUME NEW n \in Nodes, NEW op \in {"on", "off", "sequence"},
             NEW items \in Seq([valve : Valves, seconds : 0..MaxSeconds]),
             CallNode(n, op, items)
      PROVE  TypeOK'
  <2>1. SprinklersTypeOK'
    <3>1. budget.calls \in 1..MaxCalls
      BY <1>1, SizesAssumption DEF CallNode, Spend, BudgetInv
    <3>2. CallOK'
      BY <1>1, <3>1 DEF CallNode, EnterCallback, CallOK, CallPC
    <3>3. RequestOK'
      BY <1>1, SprinklersParts DEF CallNode, EnterCallback, RequestOK
    <3>4. RingOK' /\ ClockOK' /\ QueueOK' /\ RunOK'
      BY <1>1, SprinklersParts DEF CallNode, EnterCallback, RingOK, ClockOK,
                                   QueueOK, RunOK
    <3> QED
      BY <3>2, <3>3, <3>4, SprinklersParts
  <2> QED
    BY <1>1, <2>1 DEF CallNode
<1>2. \A v \in Valves : <<[valve |-> v, seconds |-> 0]>>
                           \in Seq([valve : Valves, seconds : 0..MaxSeconds])
  BY SizesAssumption
<1>3. CASE InsideCallback
  BY <1>3, CallbackType DEF InsideCallback
<1>4. CASE DeletedCallback
  <2>1. call.node \in Nodes
    BY <1>4 DEF DeletedCallback, CallInv
  <2>2. QueueOK'
    BY <1>4, <2>1, SendType, SprinklersParts DEF DeletedCallback, QueueOK
  <2>3. SprinklersTypeOK'
    <3>1. CallOK'
      BY <1>4, NoCallType DEF DeletedCallback, CallOK
    <3>2. RingOK' /\ ClockOK' /\ RunOK' /\ RequestOK'
      BY <1>4, SprinklersParts DEF DeletedCallback, driverVars, RingOK,
                                   ClockOK, RunOK, RequestOK
    <3> QED
      BY <2>2, <3>1, <3>2, SprinklersParts
  <2> QED
    BY <1>4, <2>3 DEF DeletedCallback
<1>5. ASSUME NEW n \in Nodes, NEW v \in Valves, SendRaw(n, v) PROVE TypeOK'
  <2>1. QueueOK'
    BY <1>5, SendType, SprinklersParts DEF SendRaw
  <2>2. SprinklersTypeOK'
    <3>1. RequestOK'
      BY <1>5, SprinklersParts DEF SendRaw, RequestOK
    <3>2. RingOK' /\ ClockOK' /\ CallOK' /\ RunOK'
      BY <1>5, SprinklersParts DEF SendRaw, RingOK, ClockOK, CallOK, RunOK
    <3> QED
      BY <2>1, <3>1, <3>2, SprinklersParts
  <2> QED
    BY <1>5, <2>2 DEF SendRaw
<1>6. CASE ListNodes
  BY <1>6 DEF ListNodes
<1>7. Programs \subseteq Seq([valve : Valves, seconds : 0..MaxSeconds])
  BY ProgramsAssumption
<1>8. <<>> \in Seq([valve : Valves, seconds : 0..MaxSeconds])
  OBVIOUS
<1> QED
  BY <1>1, <1>2, <1>3, <1>4, <1>5, <1>6, <1>7, <1>8 DEF WebThread

\* ... and a controller, and time.
LEMMA EnvironmentType ==
    ASSUME TypeOK, Environment
    PROVE  TypeOK'
<1> USE SprinklersStutter
        DEF TypeOK, nodeVars, peerVars, loopVars, ghostVars, Message
<1>1. CASE TimePasses
  <2>1. mNextSequenceTime' \in [Nodes -> 0..TIMETMAX]
    BY <1>1, SizesAssumption DEF TimePasses, SecondPasses, SprinklersTypeOK,
                                 TIMETMAX
  <2>2. SprinklersTypeOK'
    BY <1>1, <2>1 DEF TimePasses, SprinklersTypeOK
  <2>3. age' \in [Nodes -> 0..Silence + 1]
    BY <1>1, NodesAssumption DEF TimePasses
  <2> QED
    BY <1>1, <2>2, <2>3 DEF TimePasses
<1>2. ASSUME NEW n \in Nodes, Advertise(n) PROVE TypeOK'
  <2>1. adverts' \in Seq(Nodes)
    BY <1>2 DEF Advertise
  <2> QED
    BY <1>2, <2>1 DEF Advertise
<1>3. ASSUME NEW n \in Nodes, Beat(n) PROVE TypeOK'
  BY <1>3 DEF Beat, Receive
<1>4. ASSUME NEW n \in Nodes, LosePeer(n) PROVE TypeOK'
  BY <1>4 DEF LosePeer
<1> QED
  BY <1>1, <1>2, <1>3, <1>4 DEF Environment

\* What is spent was there.
LEMMA BudgetStep ==
    ASSUME BudgetInv, Next
    PROVE  BudgetInv'
<1>1. ASSUME NEW f \in {"calls", "lists", "adverts", "losses"}, Spend(f)
      PROVE  BudgetInv'
  BY <1>1, SizesAssumption DEF Spend, BudgetInv
<1>2. CASE UNCHANGED budget
  BY <1>2 DEF BudgetInv
<1>3. Environment => UNCHANGED budget \/ Spend("adverts") \/ Spend("losses")
  BY DEF Environment, TimePasses, Advertise, Beat, LosePeer
<1>4. WebThread => UNCHANGED budget \/ Spend("calls") \/ Spend("lists")
  BY DEF WebThread, CallNode, InsideCallback, DeletedCallback, SendRaw,
         ListNodes
<1>5. ModuleThread => UNCHANGED budget
  BY DEF ModuleThread, EpollWait, EventsDone, ReadAdvert, Connect,
         ConnectFails, InsertNode, RegisterNode, UnRegisterCallBacks,
         DeleteDriver, EraseNode, SendOne, SendsDone, HeartBeatsDone,
         InsideRun, TurnDone, ReadNode, ReadEnd, CheckHeartBeat, RunNode
<1>6. Dead => UNCHANGED budget
  BY DEF Dead, vars
<1> QED
  BY <1>1, <1>2, <1>3, <1>4, <1>5, <1>6 DEF Next

-----------------------------------------------------------------------------
(* Nodes, drivers, callbacks *)

\* A step of run() is of the driver it is in ...
LEMMA RunFrame ==
    ASSUME TypeOK, RunStep
    PROVE  /\ run.at # "no" /\ UNCHANGED call
           /\ run'.at = "no" \/ run'.node = run.node
<1>1. RunOK
  BY SprinklersParts DEF TypeOK
<1>2. CASE GetItem \/ SetNextTime
  BY <1>1, <1>2 DEF GetItem, SetNextTime, RunOK
<1>3. CASE SendAllOff
  BY <1>1, <1>3 DEF SendAllOff, driverVars, RunOK
<1>4. CASE SequenceComplete \/ OpenValve
  BY <1>4 DEF SequenceComplete, OpenValve, driverVars, NotRunning
<1> QED
  BY <1>2, <1>3, <1>4 DEF RunStep

\* ... and one of a callback too.
LEMMA CallbackFrame ==
    ASSUME TypeOK, Callback
    PROVE  /\ call.at \notin {"none", "deleted"} /\ UNCHANGED run
           /\ call'.at = "none" \/ call'.node = call.node
<1>1. CallOK
  BY SprinklersParts DEF TypeOK
<1>2. CASE ClearTime \/ DrainItem
  BY <1>1, <1>2 DEF ClearTime, TakeOver, DrainItem, CallOK
<1>3. CASE Drained
  BY <1>1, <1>3 DEF Drained, AfterDrain, NoCall, CallOK
<1>4. CASE PutItem
  BY <1>1, <1>4 DEF PutItem, CallOK
<1>5. CASE TestTime \/ SetTime
  <2>1. NextItem => call'.at = "none" \/ call'.node = call.node
    <3> DEFINE next == [call EXCEPT !.at = "put", !.items = Tail(@)]
    <3>1. NextItem => call' = NoCall \/ call' = next
      BY Zenon DEF NextItem, Return
    <3>2. next.node = call.node
      BY <1>1 DEF CallOK
    <3> HIDE DEF next
    <3> QED
      BY <3>1, <3>2 DEF NoCall
  <2>2. [call EXCEPT !.at = "set"].node = call.node
    BY <1>1 DEF CallOK
  <2> QED
    BY <1>5, <2>1, <2>2 DEF TestTime, SetTime
<1>6. CASE SendCommand
  BY <1>6 DEF SendCommand, Return, NoCall
<1> QED
  BY <1>2, <1>3, <1>4, <1>5, <1>6 DEF Callback

\* The module's thread takes a node through its life ...
LEMMA ThreadNodes ==
    ASSUME TypeOK, FiniteInv, LoopInv, DriverInv, EventsInv, ModuleThread
    PROVE  LoopInv' /\ DriverInv' /\ EventsInv'
<1>1. /\ peer \in [Nodes -> {"off", "up", "silent", "closed"}]
      /\ events \in [Nodes -> {"none", "new", "closed"}]
      /\ mNodes \subseteq Nodes /\ driver \subseteq Nodes
      /\ callbacks \subseteq Nodes /\ back \in {"events", "beats"}
      /\ adverts \in Seq(Nodes)
  BY DEF TypeOK
<1>2. CallOK /\ RunOK
  BY SprinklersParts DEF TypeOK
<1> USE <1>1 DEF LoopInv, DriverInv, EventsInv, Removing, nodeVars, peerVars,
                 loopVars, sprinklerVars
<1>3. CASE EpollWait \/ EventsDone \/ ConnectFails \/ SendsDone
           \/ HeartBeatsDone \/ TurnDone
  BY <1>3 DEF EpollWait, EventsDone, ConnectFails, SendsDone, HeartBeatsDone,
              TurnDone
<1>4. CASE ReadAdvert
  <2>1. Head(adverts) \in Nodes
    BY <1>4, TailType DEF ReadAdvert
  <2> QED
    BY <1>4, <2>1 DEF ReadAdvert, StartConnect, IsDiscovered
<1>5. CASE Connect
  BY <1>5 DEF Connect
<1>6. CASE InsertNode
  BY <1>6 DEF InsertNode
<1>7. CASE RegisterNode
  BY <1>7 DEF RegisterNode
<1>8. CASE UnRegisterCallBacks
  BY <1>8 DEF UnRegisterCallBacks
<1>9. CASE DeleteDriver
  BY <1>2, <1>9 DEF DeleteDriver, CallOK
<1>10. CASE EraseNode
  BY <1>10 DEF EraseNode
<1>11. CASE SendOne
  BY <1>11 DEF SendOne
<1>12. CASE InsideRun
  <2>1. run.at # "no" /\ UNCHANGED call
        /\ (run'.at = "no" \/ run'.node = run.node)
    BY <1>12, RunFrame DEF InsideRun
  <2> QED
    BY <1>12, <2>1 DEF InsideRun
<1>13. ASSUME NEW n \in Nodes, ReadNode(n)
       PROVE  LoopInv' /\ DriverInv' /\ EventsInv'
  BY <1>13 DEF ReadNode
<1>14. ASSUME NEW n \in Nodes, ReadEnd(n)
       PROVE  LoopInv' /\ DriverInv' /\ EventsInv'
  BY <1>14 DEF ReadEnd, StartRemoval
<1>15. ASSUME NEW n \in Nodes, CheckHeartBeat(n)
       PROVE  LoopInv' /\ DriverInv' /\ EventsInv'
  BY <1>15 DEF CheckHeartBeat, StartRemoval
<1>16. ASSUME NEW n \in Nodes, RunNode(n)
       PROVE  LoopInv' /\ DriverInv' /\ EventsInv'
  BY <1>16 DEF RunNode, RunIsDue, driverVars
<1> QED
  BY <1>3, <1>4, <1>5, <1>6, <1>7, <1>8, <1>9, <1>10, <1>11, <1>12, <1>13,
     <1>14, <1>15, <1>16 DEF ModuleThread

\* ... where calls and controllers do not disturb it.
LEMMA OthersNodes ==
    ASSUME TypeOK, LoopInv, DriverInv, EventsInv, WebThread \/ Environment
    PROVE  LoopInv' /\ DriverInv' /\ EventsInv'
<1>1. /\ peer \in [Nodes -> {"off", "up", "silent", "closed"}]
      /\ callbacks \subseteq driver
  BY DEF TypeOK, DriverInv
<1>2. CallOK
  BY SprinklersParts DEF TypeOK
<1> USE DEF LoopInv, DriverInv, EventsInv, Removing, nodeVars, peerVars,
            loopVars, sprinklerVars, webUnchanged
<1>3. CASE TimePasses
  BY <1>3 DEF TimePasses
<1>4. ASSUME NEW n \in Nodes, Advertise(n) \/ Beat(n) \/ LosePeer(n)
      PROVE  LoopInv' /\ DriverInv' /\ EventsInv'
  BY <1>1, <1>4 DEF Advertise, Beat, LosePeer
<1>5. ASSUME NEW n \in Nodes, NEW op, NEW items, CallNode(n, op, items)
      PROVE  LoopInv' /\ DriverInv' /\ EventsInv'
  BY <1>1, <1>5 DEF CallNode, EnterCallback
<1>6. CASE InsideCallback
  <2>1. call.at \notin {"none", "deleted"} /\ UNCHANGED run
        /\ (call'.at = "none" \/ call'.node = call.node)
    BY <1>6, CallbackFrame DEF InsideCallback
  <2> QED
    BY <1>6, <2>1 DEF InsideCallback
<1>7. CASE DeletedCallback
  BY <1>7 DEF DeletedCallback, NoCall
<1>8. ASSUME NEW n \in Nodes, NEW v \in Valves, SendRaw(n, v)
      PROVE  LoopInv' /\ DriverInv' /\ EventsInv'
  BY <1>8 DEF SendRaw
<1>9. CASE ListNodes
  BY <1>9 DEF ListNodes
<1> QED
  BY <1>3, <1>4, <1>5, <1>6, <1>7, <1>8, <1>9 DEF WebThread, Environment

-----------------------------------------------------------------------------
(* Sequences *)

\* What the thread does outside the drivers.
LEMMA ThreadFrame ==
    ASSUME ModuleThread
    PROVE  \/ UNCHANGED <<mpSequence, mNextSequenceTime, request, torn, call,
                          run, lastCall>>
           \/ Connect \/ DeleteDriver \/ InsideRun
           \/ \E n \in Nodes : RunNode(n)
BY DEF ModuleThread, EpollWait, EventsDone, ReadAdvert, ConnectFails,
       InsertNode, RegisterNode, UnRegisterCallBacks, EraseNode, SendOne,
       SendsDone, HeartBeatsDone, TurnDone, ReadNode, ReadEnd, CheckHeartBeat,
       sprinklerVars, driverVars

\* What NextItem makes of the call.
LEMMA NextItemCall ==
    ASSUME CallOK, NextItem
    PROVE  \/ /\ call' = NoCall
              /\ lastCall' = [lastCall EXCEPT ![call.node] = call.op]
           \/ /\ call'.at = "put" /\ call'.node = call.node
              /\ call'.op = call.op /\ call'.id = call.id
              /\ call'.items # <<>> /\ lastCall' = lastCall
<1> DEFINE next == [call EXCEPT !.at = "put", !.items = Tail(@)]
<1>1. CASE Len(call.items) > 1
  <2>1. call' = next /\ lastCall' = lastCall
    BY <1>1, Zenon DEF NextItem
  <2>2. /\ next.at = "put" /\ next.node = call.node /\ next.op = call.op
        /\ next.id = call.id
    BY DEF CallOK
  <2>3. next.items # <<>>
    <3>1. call.items \in Seq([valve : Valves, seconds : 0..MaxSeconds])
      BY DEF CallOK
    <3>2. Tail(call.items) # <<>>
      BY <1>1, <3>1, LongTail
    <3>3. next.items = Tail(call.items)
      BY DEF CallOK
    <3> QED
      BY <3>2, <3>3
  <2> HIDE DEF next
  <2> QED
    BY <2>1, <2>2, <2>3
<1>2. CASE ~(Len(call.items) > 1)
  BY <1>2, Zenon DEF NextItem, Return
<1> QED
  BY <1>1, <1>2

\* The call keeps what it carries.
LEMMA CallStep ==
    ASSUME TypeOK, BudgetInv, LoopInv, DriverInv, CallInv, Next
    PROVE  CallInv'
<1>1. CallOK /\ RunOK /\ RequestOK /\ RingOK
  BY SprinklersParts DEF TypeOK
<1>2. CASE UNCHANGED <<call, run, lastCall, request>>
  BY <1>2 DEF CallInv
<1>3. CASE Connect
  <2>1. call.at \notin {"none", "deleted"} => call.node # current
    BY <1>3 DEF Connect, LoopInv, DriverInv
  <2> QED
    BY <1>1, <1>3, <2>1 DEF Connect, NewDriver, CallInv, RequestOK, CallOK
<1>4. CASE DeleteDriver
  <2>1. CASE call.node = current
    <3>1. call.at # "none"
      BY <1>4, <2>1, ValvesAssumption DEF DeleteDriver, CallInv, LoopInv,
                                          Removing
    <3>2. call'.at = "deleted" /\ call'.node = call.node /\ call'.id = call.id
          /\ UNCHANGED run
      BY <1>1, <1>4, <2>1 DEF DeleteDriver, CallOK
    <3>3. lastCall'[call.node] = "none"
      BY <1>1, <1>4, <2>1, <3>1 DEF DeleteDriver, NewDriver, RequestOK, CallInv
    <3> QED
      BY <3>1, <3>2, <3>3 DEF CallInv
  <2>2. CASE call.node # current
    BY <1>1, <1>4, <2>2 DEF DeleteDriver, NewDriver, CallInv, RequestOK
  <2> QED
    BY <2>1, <2>2
<1>5. CASE InsideRun
  <2>1. UNCHANGED <<call, lastCall, request>>
    BY <1>5 DEF InsideRun, RunStep, GetItem, SendAllOff, SequenceComplete,
                SetNextTime, OpenValve, driverVars
  <2>2. CASE GetItem
    <3>1. mpSequence[run.node] # <<>> => Head(mpSequence[run.node]) \in Item
      BY <1>1, <1>5, <2>2, TailType DEF InsideRun, RingOK, LoopInv, GetItem
    <3> QED
      BY <1>1, <2>1, <2>2, <3>1 DEF GetItem, CallInv, RunOK
  <2>3. CASE SendAllOff \/ SequenceComplete \/ OpenValve
    BY <1>1, <2>1, <2>3 DEF SendAllOff, SequenceComplete, OpenValve, CallInv,
                            NotRunning, RunOK
  <2>4. CASE SetNextTime
    BY <1>1, <2>1, <2>4 DEF SetNextTime, CallInv, RunOK
  <2> QED
    BY <1>5, <2>2, <2>3, <2>4 DEF InsideRun, RunStep
<1>6. ASSUME NEW n \in Nodes, RunNode(n) PROVE CallInv'
  BY <1>6 DEF RunNode, RunIsDue, CallInv, sprinklerVars, driverVars
<1>7. ASSUME NEW n \in Nodes, NEW op \in {"on", "off", "sequence"},
             NEW items, op = "on" => items # <<>>, CallNode(n, op, items)
      PROVE  CallInv'
  <2>1. budget.calls \in 1..MaxCalls
    BY <1>7, SizesAssumption DEF CallNode, Spend, BudgetInv
  <2> QED
    BY <1>1, <1>7, <2>1 DEF CallNode, EnterCallback, CallInv, RequestOK
<1>8. CASE InsideCallback
  <2>1. UNCHANGED run /\ call.node \in Nodes /\ call.at # "none"
    BY <1>8, CallbackFrame DEF InsideCallback, CallInv
  <2>2. CASE ClearTime
    BY <1>1, <2>1, <2>2 DEF ClearTime, TakeOver, CallInv, CallOK, RequestOK
  <2>3. CASE DrainItem \/ PutItem
    BY <1>1, <2>1, <2>3 DEF DrainItem, PutItem, CallInv, CallOK
  <2>4. CASE Drained
    BY <1>1, <2>1, <2>4 DEF Drained, AfterDrain, NoCall, CallInv, CallOK
  <2>5. CASE TestTime \/ SetTime
    <3>1. CASE NextItem
      BY <1>1, <2>1, <2>5, <3>1, NextItemCall DEF TestTime, SetTime, NoCall,
                                                  CallInv
    <3>2. CASE call' = [call EXCEPT !.at = "set"] /\ UNCHANGED lastCall
      BY <1>1, <2>1, <2>5, <3>2 DEF TestTime, SetTime, CallInv, CallOK
    <3> QED
      BY <2>5, <3>1, <3>2 DEF TestTime, SetTime
  <2>6. CASE SendCommand
    BY <1>1, <2>1, <2>6 DEF SendCommand, Return, NoCall, CallInv
  <2> QED
    BY <1>8, <2>2, <2>3, <2>4, <2>5, <2>6 DEF InsideCallback, Callback
<1>9. CASE DeletedCallback
  BY <1>9 DEF DeletedCallback, NoCall, CallInv, driverVars
<1>10. ASSUME NEW n \in Nodes, NEW v \in Valves, SendRaw(n, v) PROVE CallInv'
  BY <1>10 DEF SendRaw, CallInv
<1>11. Environment \/ ListNodes \/ Dead =>
          UNCHANGED <<call, run, lastCall, request>>
  BY DEF Environment, TimePasses, Advertise, Beat, LosePeer, ListNodes, Dead,
         vars, sprinklerVars, driverVars
<1>12. \A v \in Valves : <<[valve |-> v, seconds |-> 0]>> # <<>>
  OBVIOUS
<1>13. ModuleThread => CallInv'
  BY <1>2, <1>3, <1>4, <1>5, <1>6, ThreadFrame
<1>14. WebThread => CallInv'
  BY <1>2, <1>7, <1>8, <1>9, <1>10, <1>11, <1>12 DEF WebThread
<1> QED
  BY <1>2, <1>11, <1>13, <1>14 DEF Next

\* The items of a ring that all come from one call: so do those of the ring
\* with one less, or with one more of that call.
LEMMA RingIds ==
    ASSUME NEW q \in Seq(Item), NEW r,
           \A i \in DOMAIN q : q[i].id = r
    PROVE  /\ q # <<>> => /\ Head(q).id = r
                         /\ \A i \in DOMAIN Tail(q) : Tail(q)[i].id = r
           /\ \A e \in Item : e.id = r =>
                 \A i \in DOMAIN Append(q, e) : Append(q, e)[i].id = r
<1>1. ASSUME q # <<>>
      PROVE  Head(q).id = r /\ \A i \in DOMAIN Tail(q) : Tail(q)[i].id = r
  BY <1>1
<1>2. ASSUME NEW e \in Item, e.id = r
      PROVE  \A i \in DOMAIN Append(q, e) : Append(q, e)[i].id = r
  BY <1>2
<1> QED
  BY <1>1, <1>2

\* The module's thread plays the items of the call that has filled the ring
\* last ...
LEMMA ThreadSequence ==
    ASSUME TypeOK, LoopInv, DriverInv, CallInv, SequenceInv, NoStaleItem,
           ModuleThread
    PROVE  SequenceInv' /\ NoStaleItem'
<1>1. CallOK /\ RunOK /\ RequestOK /\ RingOK /\ ClockOK
  BY SprinklersParts DEF TypeOK
<1> USE DEF SequenceInv, NoStaleItem, Emptied, Draining
<1>2. CASE UNCHANGED <<mpSequence, mNextSequenceTime, request, torn, call, run,
                       lastCall>>
  BY <1>2
<1>3. CASE Connect
  <2>1. run.at = "no" /\ NewDriver(current) /\ UNCHANGED <<call, run>>
    BY <1>3 DEF Connect, LoopInv
  <2> QED
    BY <1>1, <2>1 DEF NewDriver, RingOK, ClockOK, RequestOK
<1>4. CASE DeleteDriver
  <2>1. run.at = "no" /\ NewDriver(current) /\ UNCHANGED run
    BY <1>4 DEF DeleteDriver, LoopInv
  <2>2. call' = call \/ (call.node = current /\ call'.node = current
                         /\ call'.at = "deleted")
    BY <1>1, <1>4 DEF DeleteDriver, CallOK
  <2> QED
    BY <1>1, <2>1, <2>2 DEF NewDriver, RingOK, ClockOK, RequestOK
<1>5. ASSUME NEW n \in Nodes, RunNode(n) PROVE SequenceInv' /\ NoStaleItem'
  <2>1. CASE RunIsDue(n)
    <3>1. mNextSequenceTime[n] # TIMETMAX
      BY <2>1, SizesAssumption DEF RunIsDue, TIMETMAX
    <3> QED
      BY <2>1, <3>1 DEF RunIsDue, driverVars
  <2>2. CASE UNCHANGED sprinklerVars
    BY <2>2 DEF sprinklerVars, driverVars
  <2> QED
    BY <1>5, <2>1, <2>2 DEF RunNode
<1>6. CASE InsideRun
  <2> DEFINE n == run.node
  <2>1. n \in Nodes
    BY <1>6, RunFrame DEF InsideRun, LoopInv
  <2>2. CASE GetItem
    <3>1. CASE mpSequence[n] = <<>>
      BY <1>1, <2>2, <3>1 DEF GetItem, RunOK
    <3>2. CASE mpSequence[n] # <<>>
      <4>1. /\ mpSequence' = [mpSequence EXCEPT ![n] = Tail(mpSequence[n])]
            /\ run'.at = "next" /\ run'.item = Head(mpSequence[n])
            /\ run'.node = n
            /\ UNCHANGED <<mNextSequenceTime, lastCall, request, torn, call>>
        BY <1>1, <2>2, <3>2 DEF GetItem, RunOK
      <4>2. n \notin torn =>
               /\ run'.item.id = request[n]
               /\ \A i \in DOMAIN Tail(mpSequence[n]) :
                     Tail(mpSequence[n])[i].id = request[n]
        BY <1>1, <2>1, <2>2, <3>2, <4>1, RingIds DEF GetItem, RingOK
      <4>3. n \notin torn => ~Emptied(n) /\ ~Draining(n)
        BY <2>1, <2>2 DEF GetItem
      <4> QED
        BY <1>1, <2>1, <4>1, <4>2, <4>3 DEF RingOK
    <3> QED
      BY <3>1, <3>2
  <2>3. CASE SendAllOff
    BY <1>1, <2>3 DEF SendAllOff, RunOK, driverVars
  <2>4. CASE SequenceComplete
    BY <1>1, <2>1, <2>4 DEF SequenceComplete, NotRunning, ClockOK
  <2>5. CASE SetNextTime
    <3>1. n \notin torn => ~Emptied(n) /\ ~Draining(n)
      BY <2>1, <2>5 DEF SetNextTime
    <3>2. run'.at = "on" /\ run'.node = n /\ run'.item = run.item
      BY <1>1, <2>5 DEF SetNextTime, RunOK
    <3> QED
      BY <1>1, <2>1, <2>5, <3>1, <3>2 DEF SetNextTime, ClockOK
  <2>6. CASE OpenValve
    BY <2>6 DEF OpenValve, NotRunning, driverVars
  <2> QED
    BY <1>6, <2>2, <2>3, <2>4, <2>5, <2>6 DEF InsideRun, RunStep
<1> QED
  BY <1>2, <1>3, <1>4, <1>5, <1>6, ThreadFrame

\* ... while a callback empties the ring and fills it ...
LEMMA CallbackSequence ==
    ASSUME TypeOK, CallInv, SequenceInv, NoStaleItem, Callback
    PROVE  SequenceInv' /\ NoStaleItem'
<1>1. CallOK /\ RunOK /\ RequestOK /\ RingOK /\ ClockOK
  BY SprinklersParts DEF TypeOK
<1> DEFINE n == call.node
<1>2. /\ n \in Nodes /\ UNCHANGED run /\ call.id \in 1..MaxCalls
      /\ lastCall[n] = "none"
  BY CallbackFrame DEF CallInv
<1> USE DEF SequenceInv, NoStaleItem, Emptied, Draining
<1>3. CASE ClearTime
  <2>1. call'.at = "drain" /\ call'.node = n
    BY <1>1, <1>3 DEF ClearTime, TakeOver, CallOK
  <2> QED
    BY <1>1, <1>2, <1>3, <2>1 DEF ClearTime, TakeOver, ClockOK, RequestOK
<1>4. CASE DrainItem
  BY <1>1, <1>2, <1>4 DEF DrainItem, RingOK
<1>5. CASE Drained
  <2>1. \/ call'.at = "send" /\ call'.op = "off" /\ call'.node = n
        \/ call'.at = "put" /\ call'.node = n
        \/ call' = NoCall
    BY <1>1, <1>5 DEF Drained, AfterDrain, CallOK
  <2>2. UNCHANGED <<mpSequence, mNextSequenceTime, lastCall, request, torn>>
        /\ Draining(n) /\ mpSequence[n] = <<>>
    BY <1>5 DEF Drained, AfterDrain
  <2> QED
    BY <1>2, <2>1, <2>2 DEF NoCall
<1>6. CASE PutItem
  <2> DEFINE item == [valve |-> Head(call.items).valve,
                      seconds |-> Head(call.items).seconds, id |-> call.id]
  <2>1. call.items # <<>> /\ request[n] = call.id
        /\ call.items \in Seq([valve : Valves, seconds : 0..MaxSeconds])
    BY <1>1, <1>6 DEF PutItem, CallInv, CallOK
  <2>2. Head(call.items) \in [valve : Valves, seconds : 0..MaxSeconds]
    BY <2>1, TailType
  <2>3. item \in Item /\ item.id = request[n]
    BY <1>2, <2>1, <2>2 DEF Item
  <2>4. mpSequence' = IF Len(mpSequence[n]) < RingSize
                      THEN [mpSequence EXCEPT ![n] =
                               Append(mpSequence[n], item)]
                      ELSE mpSequence
    BY <1>6, Zenon DEF PutItem
  <2> HIDE DEF item
  <2>5. n \notin torn => \A i \in DOMAIN mpSequence'[n] :
                           mpSequence'[n][i].id = request[n]
    <3>1. mpSequence'[n] = mpSequence[n]
          \/ mpSequence'[n] = Append(mpSequence[n], item)
      BY <1>1, <1>2, <2>4 DEF RingOK
    <3>2. n \notin torn => \A i \in DOMAIN mpSequence[n] :
                             mpSequence[n][i].id = request[n]
      BY <1>2, <1>6 DEF PutItem
    <3>3. n \notin torn => \A i \in DOMAIN Append(mpSequence[n], item) :
                             Append(mpSequence[n], item)[i].id = request[n]
      BY <1>1, <1>2, <2>3, <3>2, RingIds DEF RingOK
    <3> QED
      BY <3>1, <3>2, <3>3
  <2>6. \A m \in Nodes \ {n} : mpSequence'[m] = mpSequence[m]
    BY <1>1, <2>4 DEF RingOK
  <2>7. call'.at = "test" /\ call'.node = n
        /\ UNCHANGED <<mNextSequenceTime, lastCall, request, torn>>
    BY <1>1, <1>6 DEF PutItem, CallOK
  <2> QED
    BY <1>2, <1>6, <2>5, <2>6, <2>7 DEF PutItem
<1>7. CASE TestTime \/ SetTime
  <2>1. /\ UNCHANGED <<mpSequence, request>> /\ torn \subseteq torn'
        /\ \A m \in Nodes \ {n} :
              /\ lastCall'[m] = lastCall[m]
              /\ mNextSequenceTime'[m] = mNextSequenceTime[m]
    BY <1>1, <1>7, NextItemCall DEF TestTime, SetTime, RequestOK, ClockOK
  <2>2. /\ call' = NoCall \/ (call'.node = n /\ call'.at \in {"put", "set"})
        /\ lastCall'[n] # "off"
    <3>1. call.op = "sequence"
      BY <1>7 DEF TestTime, SetTime, CallInv
    <3>2. CASE NextItem
      BY <1>1, <1>2, <3>1, <3>2, NextItemCall DEF RequestOK
    <3>3. CASE call' = [call EXCEPT !.at = "set"] /\ UNCHANGED lastCall
      BY <1>1, <1>2, <3>3 DEF CallOK
    <3> QED
      BY <1>7, <3>2, <3>3 DEF TestTime, SetTime
  <2> QED
    BY <1>2, <1>7, <2>1, <2>2 DEF NoCall, TestTime, SetTime
<1>8. CASE SendCommand
  BY <1>1, <1>2, <1>8 DEF SendCommand, Return, NoCall, RequestOK
<1> QED
  BY <1>3, <1>4, <1>5, <1>6, <1>7, <1>8 DEF Callback

\* ... and nobody else does.
LEMMA SequenceStep ==
    ASSUME TypeOK, LoopInv, DriverInv, CallInv, SequenceInv, NoStaleItem, Next
    PROVE  SequenceInv' /\ NoStaleItem'
<1>1. CallOK /\ RunOK /\ RequestOK /\ RingOK /\ ClockOK
  BY SprinklersParts DEF TypeOK
<1> USE DEF SequenceInv, NoStaleItem, Emptied, Draining
<1>2. CASE UNCHANGED <<mpSequence, mNextSequenceTime, request, torn, call, run,
                       lastCall>>
  BY <1>2
<1>3. ASSUME NEW n \in Nodes, NEW op \in {"on", "off", "sequence"}, NEW items,
             CallNode(n, op, items)
      PROVE  SequenceInv' /\ NoStaleItem'
  BY <1>1, <1>3 DEF CallNode, EnterCallback, RequestOK, CallInv
<1>4. CASE DeletedCallback
  BY <1>4 DEF DeletedCallback, NoCall, driverVars
<1>5. ASSUME NEW n \in Nodes, NEW v \in Valves, SendRaw(n, v)
      PROVE  SequenceInv' /\ NoStaleItem'
  BY <1>1, <1>5 DEF SendRaw, RequestOK
<1>6. CASE TimePasses
  BY <1>1, <1>6, SizesAssumption DEF TimePasses, SecondPasses, ClockOK, TIMETMAX
<1>7. Environment \/ ListNodes \/ Dead =>
         \/ TimePasses
         \/ UNCHANGED <<mpSequence, mNextSequenceTime, request, torn, call, run,
                       lastCall>>
  BY DEF Environment, Advertise, Beat, LosePeer, ListNodes, Dead, vars,
         sprinklerVars, driverVars
<1>8. InsideCallback => SequenceInv' /\ NoStaleItem'
  BY CallbackSequence DEF InsideCallback
<1>9. WebThread => SequenceInv' /\ NoStaleItem'
  BY <1>2, <1>3, <1>4, <1>5, <1>6, <1>7, <1>8 DEF WebThread
<1> QED
  BY <1>2, <1>6, <1>7, <1>9, ThreadSequence DEF Next

-----------------------------------------------------------------------------
(* Stops *)

\* A command that is queued is the last of its node, and of no other.
LEMMA EndsWithAppend ==
    ASSUME NEW q \in Seq(Command), NEW c \in Command, NEW n, NEW o, NEW v
    PROVE  /\ c.node = n /\ c.valve = v => EndsWith(Append(q, c), n, o, v)
           /\ c.node # n /\ EndsWith(q, n, o, v) =>
                  EndsWith(Append(q, c), n, o, v)
<1> DEFINE r == Append(q, c)
<1>1. /\ Len(q) \in Nat /\ DOMAIN q = 1..Len(q)
      /\ DOMAIN r = 1..Len(q) + 1 /\ r[Len(q) + 1] = c
      /\ \A i \in 1..Len(q) : r[i] = q[i]
  OBVIOUS
<1> HIDE DEF r
<1>2. ASSUME c.node = n, c.valve = v PROVE EndsWith(r, n, o, v)
  BY <1>1, <1>2 DEF EndsWith
<1>3. ASSUME c.node # n, EndsWith(q, n, o, v) PROVE EndsWith(r, n, o, v)
  <2> DEFINE mine == {i \in DOMAIN q : q[i].node = n}
  <2>1. {i \in DOMAIN r : r[i].node = n} = mine
    BY <1>1, <1>3
  <2>2. \A i \in mine : r[i] = q[i]
    BY <1>1
  <2>3. /\ mine = {} => o = v
        /\ \A i \in mine : (\A j \in mine : j <= i) => q[i].valve = v
    BY <1>3 DEF EndsWith
  <2> HIDE DEF mine
  <2> QED
    BY <2>1, <2>2, <2>3 DEF EndsWith
<1> QED
  BY <1>2, <1>3 DEF r

\* The oldest command becomes the open valve, and nothing changes for the
\* other nodes.
LEMMA EndsWithTail ==
    ASSUME NEW q \in Seq(Command), q # <<>>, NEW n, NEW o, NEW v,
           EndsWith(q, n, o, v)
    PROVE  /\ Head(q).node = n => EndsWith(Tail(q), n, Head(q).valve, v)
           /\ Head(q).node # n => EndsWith(Tail(q), n, o, v)
<1> DEFINE r == Tail(q)
           now == IF q[1].node = n THEN q[1].valve ELSE o
           mine == {i \in DOMAIN q : q[i].node = n}
           rest == {i \in DOMAIN r : r[i].node = n}
<1>0. PICK k \in Nat : /\ DOMAIN q = 1..k + 1
                       /\ DOMAIN r = 1..k /\ Head(q) = q[1]
                       /\ \A i \in 1..k : r[i] = q[i + 1]
  <2>1. /\ Len(q) - 1 \in Nat /\ DOMAIN q = 1..(Len(q) - 1) + 1
        /\ DOMAIN r = 1..Len(q) - 1 /\ Head(q) = q[1]
        /\ \A i \in 1..Len(q) - 1 : r[i] = q[i + 1]
    OBVIOUS
  <2> QED
    BY <2>1
<1>2. /\ mine = {} => o = v
      /\ \A i \in mine : (\A j \in mine : j <= i) => q[i].valve = v
  BY DEF EndsWith
<1> HIDE DEF r
<1>1. \A j \in mine : j # 1 => j - 1 \in rest
  BY <1>0
<1>6. 1 \in mine <=> q[1].node = n
  BY <1>0
<1>7. \A i \in rest : i + 1 \in mine /\ r[i] = q[i + 1] /\ i \in 1..k
  BY <1>0
<1>8. mine \subseteq Int
  BY <1>0
<1>3. rest = {} => now = v
  <2>1. CASE q[1].node = n
    <3>1. ASSUME rest = {} PROVE \A j \in mine : j <= 1
      BY <1>1, <3>1
    <3> QED
      BY <1>2, <1>6, <2>1, <3>1
  <2>2. CASE q[1].node # n
    <3>1. ASSUME rest = {} PROVE mine = {}
      BY <1>1, <1>6, <2>2, <3>1
    <3> QED
      BY <1>2, <2>2, <3>1
  <2> QED
    BY <2>1, <2>2
<1>4. ASSUME NEW i \in rest, \A j \in rest : j <= i PROVE r[i].valve = v
  <2>1. i + 1 \in mine /\ r[i] = q[i + 1]
    BY <1>7
  <2>2. ASSUME NEW j \in mine PROVE j <= i + 1
    <3>1. j = 1 \/ j - 1 <= i
      BY <1>1, <1>4
    <3> QED
      BY <1>7, <1>8, <3>1
  <2> QED
    BY <1>2, <2>1, <2>2
<1>5. EndsWith(r, n, now, v)
  BY <1>3, <1>4 DEF EndsWith
<1> QED
  BY <1>0, <1>5 DEF r

\* What a command does to the nodes that are to stay closed.
LEMMA SendClose ==
    ASSUME QueueOK, NEW m \in Nodes, NEW c \in Valves \cup {Closed},
           SendToNode(m, c), NEW n \in Nodes \ refused', NEW o,
           m = n => c = Closed, m = n \/ EndsWith(mpSendQueue, n, o, Closed)
    PROVE  n \notin refused /\ EndsWith(mpSendQueue', n, o, Closed)
<1> DEFINE command == [node |-> m, valve |-> c]
<1>1. command \in Command /\ command.node = m /\ command.valve = c
  BY DEF Command
<1>2. CASE Len(mpSendQueue) < QueueSize
  <2>1. mpSendQueue' = Append(mpSendQueue, command) /\ refused' = refused
    BY <1>2, Zenon DEF SendToNode
  <2> HIDE DEF command
  <2> QED
    BY <1>1, <2>1, EndsWithAppend DEF QueueOK
<1>3. CASE ~(Len(mpSendQueue) < QueueSize)
  <2>1. mpSendQueue' = mpSendQueue /\ refused' = refused \cup {m}
    BY <1>3, Zenon DEF SendToNode
  <2> QED
    BY <2>1
<1> QED
  BY <1>2, <1>3

\* A stop stays the last command of its node: nobody else sends to it.
LEMMA CloseStep ==
    ASSUME TypeOK, LoopInv, DriverInv, CallInv, SequenceInv, CloseInv, Next
    PROVE  CloseInv'
<1>1. CallOK /\ RunOK /\ RequestOK /\ QueueOK
      /\ peer \in [Nodes -> {"off", "up", "silent", "closed"}]
      /\ valve \in [Nodes -> Valves \cup {Closed}]
  BY SprinklersParts DEF TypeOK
<1> USE DEF CloseInv
<1>2. ASSUME UNCHANGED <<mpSendQueue, valve, refused>>,
             \A n \in Nodes \ torn' : lastCall'[n] = "off" /\ peer'[n] = "up"
                => n \notin torn /\ lastCall[n] = "off" /\ peer[n] = "up"
      PROVE  CloseInv'
  BY <1>2
<1>3. ASSUME NEW m \in Nodes, NEW c \in Valves \cup {Closed},
             SendToNode(m, c), UNCHANGED <<valve, peer, torn>>,
             m \notin torn /\ lastCall'[m] = "off" => c = Closed,
             \A n \in Nodes \ {m} : lastCall'[n] = lastCall[n]
      PROVE  CloseInv'
  <2> SUFFICES ASSUME NEW n \in Nodes \ (torn' \cup refused'),
                      lastCall'[n] = "off", peer'[n] = "up"
               PROVE  EndsWith(mpSendQueue', n, valve'[n], Closed)
    OBVIOUS
  <2>1. refused \subseteq refused'
    BY <1>3 DEF SendToNode
  <2>2. m = n \/ EndsWith(mpSendQueue, n, valve[n], Closed)
    BY <1>3, <2>1
  <2> QED
    BY <1>1, <1>3, <2>2, SendClose
<1>4. ModuleThread => CloseInv'
  <2>1. CASE EpollWait \/ EventsDone \/ ConnectFails \/ SendsDone
             \/ HeartBeatsDone \/ TurnDone \/ ReadAdvert \/ InsertNode
             \/ RegisterNode \/ UnRegisterCallBacks \/ EraseNode
    BY <1>2, <2>1 DEF EpollWait, EventsDone, ConnectFails, SendsDone,
       HeartBeatsDone, TurnDone, ReadAdvert, InsertNode, RegisterNode,
       UnRegisterCallBacks, EraseNode, sprinklerVars, driverVars, peerVars
  <2>2. CASE Connect
    <3>1. \A n \in Nodes \ torn' : lastCall'[n] = "off" /\ peer'[n] = "up"
             => n \notin torn /\ lastCall[n] = "off" /\ peer[n] = "up"
      BY <1>1, <2>2 DEF Connect, NewDriver, RequestOK, LoopInv
    <3> QED
      BY <1>2, <2>2, <3>1 DEF Connect
  <2>3. CASE DeleteDriver
    <3>1. \A n \in Nodes \ torn' : lastCall'[n] = "off" /\ peer'[n] = "up"
             => n \notin torn /\ lastCall[n] = "off" /\ peer[n] = "up"
      BY <1>1, <2>3 DEF DeleteDriver, NewDriver, RequestOK, LoopInv, Removing,
                        peerVars
    <3> QED
      BY <1>2, <2>3, <3>1 DEF DeleteDriver, peerVars
  <2>4. CASE SendOne
    <3> DEFINE m == Head(mpSendQueue).node
               c == Head(mpSendQueue).valve
    <3>1. /\ mpSendQueue' = Tail(mpSendQueue) /\ mpSendQueue # <<>>
          /\ UNCHANGED <<torn, refused, lastCall, peer>>
          /\ m \in mNodes /\ peer[m] = "up" =>
                valve' = [valve EXCEPT ![m] = c]
          /\ ~(m \in mNodes /\ peer[m] = "up") => valve' = valve
      BY <2>4 DEF SendOne, driverVars
    <3>2. \A n \in Nodes : peer[n] = "up" => n \in mNodes
      BY <2>4 DEF SendOne, LoopInv
    <3> SUFFICES ASSUME NEW n \in Nodes \ (torn' \cup refused'),
                        lastCall'[n] = "off", peer'[n] = "up"
                 PROVE  EndsWith(mpSendQueue', n, valve'[n], Closed)
      OBVIOUS
    <3>3. EndsWith(mpSendQueue, n, valve[n], Closed)
      BY <3>1
    <3>4. /\ m = n => EndsWith(Tail(mpSendQueue), n, c, Closed)
          /\ m # n => EndsWith(Tail(mpSendQueue), n, valve[n], Closed)
      BY <1>1, <3>1, <3>3, EndsWithTail DEF QueueOK
    <3>5. valve'[n] = IF m = n THEN c ELSE valve[n]
      BY <1>1, <3>1, <3>2
    <3> QED
      BY <3>1, <3>4, <3>5
  <2>5. CASE InsideRun
    <3>1. UNCHANGED <<valve, peer, lastCall, torn>> /\ run.node \in Nodes
      BY <2>5, RunFrame DEF InsideRun, LoopInv, peerVars, RunStep, GetItem,
         SendAllOff, SequenceComplete, SetNextTime, OpenValve, driverVars
    <3>2. CASE GetItem \/ SequenceComplete \/ SetNextTime
      BY <1>2, <3>1, <3>2 DEF GetItem, SequenceComplete, SetNextTime
    <3>3. CASE SendAllOff
      BY <1>3, <3>1, <3>3 DEF SendAllOff
    <3>4. CASE OpenValve
      <4>1. run.item.valve \in Valves
        BY <3>4 DEF OpenValve, CallInv, Item
      <4>2. run.node \notin torn => lastCall[run.node] # "off"
        BY <3>1, <3>4 DEF OpenValve, SequenceInv, Emptied
      <4> QED
        BY <1>3, <3>1, <3>4, <4>1, <4>2 DEF OpenValve
    <3> QED
      BY <2>5, <3>2, <3>3, <3>4 DEF InsideRun, RunStep
  <2>6. ASSUME NEW n \in Nodes, ReadNode(n) \/ RunNode(n)
        PROVE  CloseInv'
    BY <1>2, <2>6 DEF ReadNode, RunNode, RunIsDue, sprinklerVars, driverVars,
                      peerVars
  <2>7. ASSUME NEW n \in Nodes, ReadEnd(n) \/ CheckHeartBeat(n)
        PROVE  CloseInv'
    <3>1. /\ UNCHANGED <<mpSendQueue, valve, refused, torn, lastCall>>
          /\ \A m \in Nodes : peer'[m] = "up" => peer[m] = "up"
      BY <1>1, <2>7 DEF ReadEnd, CheckHeartBeat, StartRemoval, sprinklerVars,
                        driverVars
    <3> QED
      BY <1>2, <3>1
  <2> QED
    BY <2>1, <2>2, <2>3, <2>4, <2>5, <2>6, <2>7 DEF ModuleThread
<1>5. WebThread => CloseInv'
  <2> USE DEF webUnchanged, peerVars
  <2>1. ASSUME NEW n \in Nodes, NEW op, NEW items, CallNode(n, op, items)
        PROVE  CloseInv'
    BY <1>1, <1>2, <2>1 DEF CallNode, EnterCallback, RequestOK
  <2>2. CASE InsideCallback
    <3> DEFINE n == call.node
    <3>1. /\ n \in Nodes /\ lastCall[n] = "none" /\ UNCHANGED <<valve, peer>>
      BY <2>2, CallbackFrame DEF InsideCallback, CallInv
    <3>2. CASE SendCommand
      <4> DEFINE c == IF call.op = "on" THEN Head(call.items).valve ELSE Closed
      <4>1. call.op = "on" =>
              Head(call.items) \in [valve : Valves, seconds : 0..MaxSeconds]
        BY <1>1, <3>2, TailType DEF SendCommand, CallInv, CallOK
      <4>2. c \in Valves \cup {Closed} /\ SendToNode(n, c)
        BY <3>2, <4>1 DEF SendCommand
      <4>3. /\ UNCHANGED torn
            /\ lastCall' = [lastCall EXCEPT ![n] = call.op]
        BY <3>2 DEF SendCommand, Return
      <4>4. lastCall'[n] = "off" => c = Closed
        BY <1>1, <3>1, <4>3 DEF RequestOK
      <4>5. \A m \in Nodes \ {n} : lastCall'[m] = lastCall[m]
        BY <1>1, <4>3 DEF RequestOK
      <4> HIDE DEF c
      <4> QED
        BY <1>3, <3>1, <4>2, <4>3, <4>4, <4>5
    <3>3. CASE ClearTime \/ DrainItem \/ Drained \/ PutItem \/ TestTime
               \/ SetTime
      <4>1. UNCHANGED <<mpSendQueue, refused>>
        BY <3>3 DEF ClearTime, TakeOver, DrainItem, Drained, AfterDrain,
                    PutItem, TestTime, SetTime
      <4>2. \A m \in Nodes : lastCall'[m] = "off" => lastCall[m] = "off"
        <5>1. CASE TestTime \/ SetTime
          <6>1. call.op = "sequence"
            BY <5>1 DEF TestTime, SetTime, CallInv
          <6> QED
            BY <1>1, <5>1, <6>1, NextItemCall DEF TestTime, SetTime, RequestOK
        <5>2. CASE ClearTime \/ DrainItem \/ Drained \/ PutItem
          BY <5>2 DEF ClearTime, TakeOver, DrainItem, Drained, AfterDrain,
                      PutItem
        <5> QED
          BY <3>3, <5>1, <5>2
      <4>3. \A m \in Nodes \ torn' : m = n \/ m \notin torn
        BY <3>3 DEF ClearTime, TakeOver, DrainItem, Drained, AfterDrain,
                    PutItem, TestTime, SetTime
      <4> QED
        BY <1>2, <3>1, <4>1, <4>2, <4>3
    <3> QED
      BY <2>2, <3>2, <3>3 DEF InsideCallback, Callback
  <2>3. CASE DeletedCallback
    <3>1. call.node \in Nodes /\ UNCHANGED <<valve, peer, torn, lastCall>>
      BY <2>3 DEF DeletedCallback, CallInv, driverVars
    <3> QED
      BY <1>2, <1>3, <2>3, <3>1 DEF DeletedCallback
  <2>4. ASSUME NEW n \in Nodes, NEW v \in Valves, SendRaw(n, v)
        PROVE  CloseInv'
    <3>1. lastCall'[n] = "on"
          /\ \A m \in Nodes \ {n} : lastCall'[m] = lastCall[m]
      BY <1>1, <2>4 DEF SendRaw, RequestOK
    <3> QED
      BY <1>3, <2>4, <3>1 DEF SendRaw
  <2>5. CASE ListNodes
    BY <1>2, <2>5 DEF ListNodes, sprinklerVars, driverVars
  <2> QED
    BY <2>1, <2>2, <2>3, <2>4, <2>5 DEF WebThread
<1>6. CASE Environment
  <2>1. CASE TimePasses
    BY <1>2, <2>1 DEF TimePasses
  <2>2. ASSUME NEW n \in Nodes, Advertise(n) \/ Beat(n) PROVE CloseInv'
    BY <1>2, <2>2 DEF Advertise, Beat, sprinklerVars, driverVars
  <2>3. ASSUME NEW n \in Nodes, LosePeer(n) PROVE CloseInv'
    <3>1. /\ UNCHANGED <<mpSendQueue, valve, refused, torn, lastCall>>
          /\ \A m \in Nodes : peer'[m] = "up" => peer[m] = "up"
      BY <1>1, <2>3 DEF LosePeer, sprinklerVars, driverVars
    <3> QED
      BY <1>2, <3>1
  <2> QED
    BY <1>6, <2>1, <2>2, <2>3 DEF Environment
<1>7. CASE Dead
  BY <1>2, <1>7 DEF Dead, vars, sprinklerVars, driverVars, peerVars
<1> QED
  BY <1>4, <1>5, <1>6, <1>7 DEF Next

-----------------------------------------------------------------------------
(* Theorems *)

\* The map is written by the module's thread alone.
LEMMA OthersFinite ==
    FiniteInv /\ (WebThread \/ Environment) => FiniteInv'
BY DEF FiniteInv, WebThread, CallNode, InsideCallback, DeletedCallback, SendRaw,
       ListNodes, Environment, TimePasses, Advertise, Beat, LosePeer,
       webUnchanged, nodeVars

\* Where nothing happens, the invariant stays.
LEMMA VarsStutter == IInv /\ UNCHANGED vars => IInv'
<1> SUFFICES ASSUME IInv, UNCHANGED vars PROVE IInv'
  OBVIOUS
<1> USE DEF vars, nodeVars, peerVars, loopVars, ghostVars, sprinklerVars,
            driverVars
<1>1. TypeOK' /\ BudgetInv' /\ FiniteInv'
  BY SprinklersStutter DEF IInv, TypeOK, BudgetInv, FiniteInv
<1>2. LoopInv' /\ DriverInv' /\ EventsInv'
  BY DEF IInv, LoopInv, DriverInv, EventsInv, Removing
<1>3. CallInv' /\ SequenceInv' /\ NoStaleItem' /\ CloseInv'
  BY DEF IInv, CallInv, SequenceInv, Emptied, Draining, NoStaleItem, CloseInv
<1> QED
  BY <1>1, <1>2, <1>3 DEF IInv

\* The inductive invariant holds in every reachable state.
THEOREM WifiNodesInvariance == Spec => []IInv
<1>1. IInv /\ Next => IInv'
  <2> SUFFICES ASSUME IInv, Next PROVE IInv'
    OBVIOUS
  <2> USE DEF IInv
  <2>1. TypeOK' /\ FiniteInv'
    <3>1. CASE ModuleThread
      BY <3>1, ThreadType
    <3>2. CASE WebThread
      BY <3>2, WebType, OthersFinite
    <3>3. CASE Environment
      BY <3>3, EnvironmentType, OthersFinite
    <3>4. CASE Dead
      BY <3>4, VarsStutter DEF Dead
    <3> QED
      BY <3>1, <3>2, <3>3, <3>4 DEF Next
  <2>2. LoopInv' /\ DriverInv' /\ EventsInv'
    BY ThreadNodes, OthersNodes, VarsStutter DEF Next, Dead
  <2> QED
    BY <2>1, <2>2, BudgetStep, CallStep, SequenceStep, CloseStep
<1>2. IInv /\ UNCHANGED vars => IInv'
  BY VarsStutter
<1> QED
  BY InitInv, <1>1, <1>2, PTL DEF Spec

\* Types and the sizes of the map, the rings and the send queue.
THEOREM WifiNodesTypes == Spec => []TypeOK
<1>1. IInv => TypeOK
  BY DEF IInv
<1> QED
  BY <1>1, WifiNodesInvariance, PTL

\* A callback in the REST engine has its driver, and so has a node in the
\* map, but for the moment between its deletion and its erasure.
THEOREM DriversAreThere == Spec => []DriversOutliveCallbacks
<1>1. IInv => DriversOutliveCallbacks
  BY DEF IInv, DriverInv, DriversOutliveCallbacks
<1> QED
  BY <1>1, WifiNodesInvariance, PTL

\* No valve is opened for a sequence that has been replaced, unless the call
\* met run() with the item in hand.
THEOREM NoItemIsStale == Spec => []NoStaleItem
<1>1. IInv => NoStaleItem
  BY DEF IInv
<1> QED
  BY <1>1, WifiNodesInvariance, PTL

\* After "Turn off all sprinklers" nothing is left that opens a valve, unless
\* the call met run() or the queue was full.
THEOREM StopsAreFinal == Spec => []StopIsFinal
<1>1. IInv => StopIsFinal
  BY DEF IInv, TypeOK, SequenceInv, Emptied, CloseInv, StopIsFinal
<1> QED
  BY <1>1, WifiNodesInvariance, PTL

\* A node's events are "new" and "closed" in turn: EventsInv says which of
\* them was last where a node enters or leaves the map.
THEOREM NodeEventsAlternate == Spec => EventsAlternate
<1> DEFINE Alternate ==
      /\ pc = "register" /\ pc' # pc => events[current] # "new"
      /\ pc' = "unregister" /\ pc # pc' => events[current'] = "new"
<1>1. IInv /\ [Next]_vars => [Alternate]_vars
  <2> SUFFICES ASSUME IInv, Next PROVE Alternate
    OBVIOUS
  <2> USE DEF IInv, LoopInv, EventsInv, Removing
  <2>1. pc = "register" => events[current] # "new"
    OBVIOUS
  <2>2. ASSUME pc' = "unregister", pc # pc' PROVE events[current'] = "new"
    <3>1. \E n \in Nodes : ReadEnd(n) \/ CheckHeartBeat(n)
      BY <2>2 DEF Next, ModuleThread, EpollWait, EventsDone, ReadAdvert,
         StartConnect, Connect, ConnectFails, InsertNode, RegisterNode,
         UnRegisterCallBacks, DeleteDriver, EraseNode, SendOne, SendsDone, HeartBeatsDone,
         InsideRun, TurnDone, ReadNode, RunNode, WebThread, CallNode,
         InsideCallback, DeletedCallback, SendRaw, ListNodes, Environment,
         TimePasses, Advertise, Beat, LosePeer, Dead, vars, webUnchanged,
         loopVars, TypeOK
    <3>2. PICK n \in Nodes : ReadEnd(n) \/ CheckHeartBeat(n)
      BY <3>1
    <3>3. n \in mNodes /\ current' = n /\ pc \in {"events", "beats"}
      BY <2>2, <3>2 DEF ReadEnd, CheckHeartBeat, StartRemoval
    <3> QED
      BY <3>3
  <2> QED
    BY <2>1, <2>2
<1> QED
  BY <1>1, WifiNodesInvariance, PTL DEF Spec, EventsAlternate
=============================================================================
