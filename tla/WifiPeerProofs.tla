--------------------------- MODULE WifiPeerProofs ---------------------------
(***************************************************************************)
(* What the daemon knows of a controller it is connected to, in WifiNodes: *)
(* the valve that is open, and that it still beats.  The proofs use the    *)
(* invariant of WifiNodesProofs, and add what is on its way between the    *)
(* two.                                                                    *)
(***************************************************************************)
EXTENDS WifiNodesProofs

\* A report that waits is of the valve that is open now; where none waits or
\* was lost, the driver has been told, or nothing was moved since it exists.
KnownInv ==
    \A n \in Nodes : peer[n] = "up" =>
        /\ inbox[n] \in Valves \cup {Closed} => inbox[n] = valve[n]
        /\ inbox[n] \in {"nothing", "yo"} /\ <<n, "report">> \notin swallowed
              => mValveStatus[n] \in {NoOne, valve[n]}

\* The socket of n is among those this turn is still to read.
IsToRead(n) ==
    /\ n \in todo
    /\ \/ pc \in {"events", "connect", "insert", "register"}
       \/ Removing /\ back = "events"

\* The descriptors are edge triggered, and yet what has come is to be read.
EdgeInv ==
    \A n \in Nodes : peer[n] = "up" /\ inbox[n] # "nothing" =>
        n \in edge \/ IsToRead(n)

\* A heartbeat of n is in the socket.
Waits(n) == inbox[n] \in {"yo", "mixed"}

\* The heartbeats of n have come alone, and found the thread in its loop; so
\* did n itself, but for a period at most.
Beats(n) == peer[n] = "up" /\ <<n, "beat">> \notin swallowed /\ n \notin delayed

\* One period may have begun since the last heartbeat was read; one more when
\* a heartbeat waits that came after the sockets were read, and the turn that
\* missed it is not over.
AgeInv ==
    \A n \in Nodes : Beats(n) =>
        /\ ~Waits(n) => age[n] <= 1 /\ (n \in beaten => age[n] = 0)
        /\ Waits(n) /\ pc # "wait" /\ ~IsToRead(n) =>
              age[n] <= 2 /\ (turned => age[n] <= 1)

\* The age of a node counts from before its connection: the second period in
\* connect() is noted.
ConnectInv == pc = "connect" => age[current] <= 1 \/ current \in delayed

\* Where every heartbeat comes and is read within its period, none is late.
SteadyInv == budget.steady => \A n \in Nodes : age[n] = 0

PeerInv == KnownInv /\ EdgeInv /\ AgeInv /\ ConnectInv /\ SteadyInv

-----------------------------------------------------------------------------
(* Frames *)

\* The valve, and what the driver knows of it.
KnownStutter == UNCHANGED <<peer, inbox, valve, mValveStatus, swallowed>>

\* What a heartbeat depends on.
BeatStutter == UNCHANGED <<peer, inbox, edge, beaten, age, todo, pc, back,
                           turned, swallowed, delayed>>

LEMMA KnownFrame == KnownInv /\ KnownStutter => KnownInv'
BY DEF KnownInv, KnownStutter

LEMMA BeatFrame ==
    EdgeInv /\ AgeInv /\ BeatStutter => EdgeInv' /\ AgeInv'
BY DEF EdgeInv, AgeInv, BeatStutter, IsToRead, Removing, Waits, Beats

\* The types the proofs below use.
LEMMA PeerTypes ==
    ASSUME TypeOK
    PROVE  /\ mValveStatus \in [Nodes -> Valves \cup {Closed, NoOne}]
           /\ age \in [Nodes -> 0..Silence + 1]
           /\ valve \in [Nodes -> Valves \cup {Closed}]
           /\ inbox \in [Nodes -> Message]
           /\ peer \in [Nodes -> {"off", "up", "silent", "closed"}]
           /\ current \in Nodes \cup {NoOne}
           /\ back \in {"events", "beats"} /\ turned \in BOOLEAN
BY DEF TypeOK

\* Web threads do not meet the controllers ...
LEMMA WebPeers == WebThread => KnownStutter /\ BeatStutter
BY DEF WebThread, CallNode, InsideCallback, DeletedCallback, SendRaw,
       ListNodes, webUnchanged, nodeVars, peerVars, loopVars, ghostVars,
       KnownStutter, BeatStutter

\* ... and most steps of the module's thread do not either.
LEMMA ThreadPeers ==
    ASSUME ModuleThread
    PROVE  \/ KnownStutter
           \/ Connect \/ DeleteDriver \/ SendOne
           \/ \E n \in Nodes : ReadNode(n) \/ ReadEnd(n) \/ CheckHeartBeat(n)
BY DEF ModuleThread, EpollWait, EventsDone, ReadAdvert, ConnectFails,
       InsertNode, RegisterNode, UnRegisterCallBacks, EraseNode, SendsDone,
       HeartBeatsDone, InsideRun, TurnDone, RunNode, nodeVars, peerVars,
       ghostVars, KnownStutter

\* The steadiness of the environment is not spent.
LEMMA SteadyStep ==
    ASSUME BudgetInv, Next
    PROVE  budget'.steady = budget.steady
<1>1. ASSUME NEW f \in {"calls", "lists", "adverts", "losses"}, Spend(f)
      PROVE  budget'.steady = budget.steady
  BY <1>1 DEF Spend, BudgetInv
<1>2. Environment => UNCHANGED budget \/ Spend("adverts") \/ Spend("losses")
  BY DEF Environment, TimePasses, Advertise, Beat, LosePeer
<1>3. WebThread => UNCHANGED budget \/ Spend("calls") \/ Spend("lists")
  BY DEF WebThread, CallNode, InsideCallback, DeletedCallback, SendRaw,
         ListNodes
<1>4. ModuleThread => UNCHANGED budget
  BY DEF ModuleThread, EpollWait, EventsDone, ReadAdvert, Connect,
         ConnectFails, InsertNode, RegisterNode, UnRegisterCallBacks,
         DeleteDriver, EraseNode, SendOne, SendsDone, HeartBeatsDone,
         InsideRun, TurnDone, ReadNode, ReadEnd, CheckHeartBeat, RunNode
<1>5. Dead => UNCHANGED budget
  BY DEF Dead, vars
<1> QED
  BY <1>1, <1>2, <1>3, <1>4, <1>5 DEF Next

-----------------------------------------------------------------------------
(* The valve that is open *)

LEMMA KnownStep ==
    ASSUME TypeOK, LoopInv, KnownInv, Next
    PROVE  KnownInv'
<1> USE PeerTypes
<1>1. CASE Connect
  <2>1. current \in Nodes
    BY <1>1 DEF Connect, LoopInv
  <2> QED
    BY <1>1, <2>1, MessagesAssumption DEF Connect, KnownInv
<1>2. CASE DeleteDriver
  <2>1. current \in Nodes /\ peer[current] = "off"
    BY <1>2 DEF DeleteDriver, LoopInv, Removing
  <2> QED
    BY <1>2, <2>1 DEF DeleteDriver, KnownInv, peerVars, ghostVars
<1>3. CASE SendOne
  <2> DEFINE n == Head(mpSendQueue).node
             v == Head(mpSendQueue).valve
  <2>1. n \in Nodes /\ v \in Valves \cup {Closed}
    <3>1. mpSendQueue \in Seq(Command) /\ mpSendQueue # <<>>
      BY <1>3, SprinklersParts DEF SendOne, TypeOK, QueueOK
    <3>2. Head(mpSendQueue) \in Command
      BY <3>1, TailType
    <3> QED
      BY <3>2 DEF Command
  <2>2. UNCHANGED <<peer, mValveStatus, swallowed>>
    BY <1>3 DEF SendOne, nodeVars, ghostVars
  <2>3. CASE n \in mNodes /\ peer[n] = "up"
    <3>1. /\ valve' = [valve EXCEPT ![n] = v]
          /\ valve[n] # v => inbox' = [inbox EXCEPT ![n] =
                                IF @ = "nothing" THEN v ELSE "mixed"]
          /\ valve[n] = v => inbox' = inbox
      BY <1>3, <2>3 DEF SendOne, Receive
    <3> HIDE DEF n, v
    <3>2. CASE valve[n] = v
      BY <2>1, <2>2, <3>1, <3>2 DEF KnownInv
    <3>3. CASE valve[n] # v
      BY <2>1, <2>2, <3>1, <3>3, MessagesAssumption DEF KnownInv
    <3> QED
      BY <3>2, <3>3
  <2>4. CASE ~(n \in mNodes /\ peer[n] = "up")
    BY <1>3, <2>2, <2>4 DEF SendOne, KnownInv
  <2> QED
    BY <2>3, <2>4
<1>4. ASSUME NEW n \in Nodes, ReadNode(n) PROVE KnownInv'
  <2> DEFINE m == inbox[n]
  <2>1. /\ inbox' = [inbox EXCEPT ![n] = "nothing"] /\ m # "nothing"
        /\ UNCHANGED <<peer, valve>>
    BY <1>4 DEF ReadNode
  <2>2. CASE m = "yo"
    <3>1. mValveStatus' = mValveStatus
          /\ swallowed' = swallowed \ {<<n, "beat">>}
      BY <1>4, <2>2 DEF ReadNode
    <3> QED
      BY <2>1, <2>2, <3>1, MessagesAssumption DEF KnownInv
  <2>3. CASE m = "mixed"
    <3>1. mValveStatus' = mValveStatus
          /\ swallowed' = swallowed \cup ({n} \X {"beat", "report"})
      BY <1>4, <2>3, MessagesAssumption DEF ReadNode, ProcessData
    <3>2. <<n, "report">> \in swallowed'
      BY <3>1
    <3>3. \A k \in Nodes \ {n} : <<k, "report">> \in swallowed' <=>
                                 <<k, "report">> \in swallowed
      BY <3>1
    <3> QED
      BY <2>1, <3>1, <3>2, <3>3, MessagesAssumption DEF KnownInv
  <2>4. CASE m \in Valves \cup {Closed}
    <3>1. mValveStatus' = [mValveStatus EXCEPT ![n] = m]
          /\ swallowed' = swallowed \ {<<n, "report">>}
      BY <1>4, <2>4, MessagesAssumption DEF ReadNode, ProcessData
    <3> QED
      BY <2>1, <2>4, <3>1, MessagesAssumption DEF KnownInv
  <2> QED
    BY <2>1, <2>2, <2>3, <2>4 DEF Message
<1>5. ASSUME NEW n \in Nodes, ReadEnd(n) \/ CheckHeartBeat(n)
      PROVE  KnownInv'
  <2>1. UNCHANGED <<inbox, valve, mValveStatus, swallowed>>
        /\ (peer' = peer \/ peer' = [peer EXCEPT ![n] = "off"])
    BY <1>5 DEF ReadEnd, CheckHeartBeat, StartRemoval, ghostVars
  <2> QED
    BY <2>1 DEF KnownInv
<1>6. CASE TimePasses
  BY <1>6, KnownFrame DEF TimePasses, KnownStutter
<1>7. ASSUME NEW n \in Nodes, Advertise(n) PROVE KnownInv'
  BY <1>7, KnownFrame DEF Advertise, KnownStutter, nodeVars, ghostVars
<1>8. ASSUME NEW n \in Nodes, Beat(n) PROVE KnownInv'
  BY <1>8, MessagesAssumption DEF Beat, Receive, KnownInv, nodeVars, ghostVars
<1>9. ASSUME NEW n \in Nodes, LosePeer(n) PROVE KnownInv'
  BY <1>9 DEF LosePeer, KnownInv, nodeVars, ghostVars
<1>10. Dead => KnownStutter
  BY DEF Dead, vars, nodeVars, peerVars, ghostVars, KnownStutter
<1> QED
  BY <1>1, <1>2, <1>3, <1>4, <1>5, <1>6, <1>7, <1>8, <1>9, <1>10, KnownFrame,
     ThreadPeers, WebPeers DEF Next, Environment

-----------------------------------------------------------------------------
(* Heartbeats *)

\* The thread's steps and the controllers' keep heartbeats in time.
LEMMA ThreadBeats ==
    ASSUME TypeOK, LoopInv, EdgeInv, AgeInv, ConnectInv, ModuleThread
    PROVE  EdgeInv' /\ AgeInv'
<1> USE PeerTypes DEF EdgeInv, AgeInv, IsToRead, Removing, Waits, Beats
<1>1. CASE EpollWait
  BY <1>1 DEF EpollWait, nodeVars, ghostVars
<1>2. CASE EventsDone \/ ConnectFails \/ SendsDone \/ HeartBeatsDone
  <2>1. CASE EventsDone
    BY <2>1 DEF EventsDone, nodeVars, peerVars, ghostVars
  <2>2. CASE ConnectFails
    BY <2>2 DEF ConnectFails, nodeVars, peerVars, ghostVars
  <2>3. CASE SendsDone
    BY <2>3 DEF SendsDone, nodeVars, peerVars, ghostVars
  <2>4. CASE HeartBeatsDone
    BY <2>4 DEF HeartBeatsDone, nodeVars, peerVars, ghostVars
  <2> QED
    BY <1>2, <2>1, <2>2, <2>3, <2>4
<1>3. CASE ReadAdvert
  <2> DEFINE m == Head(adverts)
  <2>1. m \in Nodes /\ \A n \in Nodes : n # NoOne
    BY <1>3, TailType, ValvesAssumption DEF ReadAdvert, TypeOK
  <2>2. UNCHANGED <<peer, inbox, edge, beaten, back, turned, swallowed>>
        /\ todo' = todo \ {NoOne} /\ pc = "events"
    BY <1>3 DEF ReadAdvert
  <2>3. CASE IsDiscovered(m)
    <3>1. /\ age' = [age EXCEPT ![m] = 0] /\ delayed' = delayed \ {m}
          /\ pc' = "connect" /\ peer[m] = "off"
      BY <1>3, <2>1, <2>3 DEF ReadAdvert, StartConnect, IsDiscovered, LoopInv
    <3> HIDE DEF m
    <3> QED
      BY <2>1, <2>2, <3>1
  <2>4. CASE ~IsDiscovered(m)
    <3>1. UNCHANGED <<age, delayed, pc>>
      BY <1>3, <2>4 DEF ReadAdvert
    <3> HIDE DEF m
    <3> QED
      BY <2>1, <2>2, <3>1
  <2> QED
    BY <2>3, <2>4
<1>4. CASE Connect
  <2>1. current \in Nodes /\ (age[current] <= 1 \/ current \in delayed)
    BY <1>4 DEF Connect, LoopInv, ConnectInv
  <2> QED
    BY <1>4, <2>1, NodesAssumption DEF Connect
<1>5. CASE InsertNode \/ RegisterNode \/ UnRegisterCallBacks
  BY <1>5 DEF InsertNode, RegisterNode, UnRegisterCallBacks, peerVars,
              ghostVars
<1>6. CASE DeleteDriver
  BY <1>6 DEF DeleteDriver, peerVars, ghostVars
<1>7. CASE EraseNode
  BY <1>7 DEF EraseNode, peerVars, ghostVars
<1>8. CASE SendOne
  <2> DEFINE n == Head(mpSendQueue).node
             v == Head(mpSendQueue).valve
  <2>1. n \in Nodes /\ v \in Valves \cup {Closed}
    <3>1. mpSendQueue \in Seq(Command) /\ mpSendQueue # <<>>
      BY <1>8, SprinklersParts DEF SendOne, TypeOK, QueueOK
    <3>2. Head(mpSendQueue) \in Command
      BY <3>1, TailType
    <3> QED
      BY <3>2 DEF Command
  <2>2. UNCHANGED <<peer, beaten, age, todo, pc, back, turned, swallowed,
                    delayed>>
        /\ pc = "drain"
    BY <1>8 DEF SendOne, nodeVars, loopVars, ghostVars
  <2>3. \/ UNCHANGED inbox /\ edge \subseteq edge'
        \/ /\ inbox' = [inbox EXCEPT ![n] =
                            IF @ = "nothing" THEN v ELSE "mixed"]
           /\ edge' = edge \cup {n}
    BY <1>8 DEF SendOne, Receive
  <2> HIDE DEF n, v
  <2>4. EdgeInv'
    BY <2>1, <2>2, <2>3
  <2>5. \A k \in Nodes : inbox[k] \in {"yo", "mixed"} =>
                             inbox'[k] \in {"yo", "mixed"}
    BY <2>1, <2>3, MessagesAssumption
  <2>6. AgeInv'
    BY <2>2, <2>5
  <2> QED
    BY <2>4, <2>6
<1>9. ASSUME NEW n \in Nodes, ReadNode(n) PROVE EdgeInv' /\ AgeInv'
  BY <1>9 DEF ReadNode
<1>10. ASSUME NEW n \in Nodes, ReadEnd(n) PROVE EdgeInv' /\ AgeInv'
  BY <1>10 DEF ReadEnd, StartRemoval, ghostVars
<1>11. ASSUME NEW n \in Nodes, CheckHeartBeat(n) PROVE EdgeInv' /\ AgeInv'
  BY <1>11 DEF CheckHeartBeat, StartRemoval, ghostVars
<1>12. ASSUME NEW n \in Nodes, RunNode(n) PROVE EdgeInv' /\ AgeInv'
  BY <1>12 DEF RunNode, nodeVars, peerVars, ghostVars
<1>13. CASE InsideRun
  BY <1>13 DEF InsideRun, nodeVars, peerVars, ghostVars, loopVars
<1>14. CASE TurnDone
  BY <1>14 DEF TurnDone, nodeVars, peerVars, ghostVars
<1> QED
  BY <1>1, <1>2, <1>3, <1>4, <1>5, <1>6, <1>7, <1>8, <1>9, <1>10, <1>11,
     <1>12, <1>13, <1>14 DEF ModuleThread

LEMMA EnvironmentBeats ==
    ASSUME TypeOK, LoopInv, EdgeInv, AgeInv, SteadyInv, Environment
    PROVE  EdgeInv' /\ AgeInv'
<1> USE PeerTypes DEF EdgeInv, AgeInv, IsToRead, Removing, Waits, Beats
<1>1. CASE TimePasses
  BY <1>1, NodesAssumption DEF TimePasses, LoopInv, SteadyInv
<1>2. ASSUME NEW n \in Nodes, Advertise(n) PROVE EdgeInv' /\ AgeInv'
  BY <1>2 DEF Advertise, nodeVars, ghostVars, loopVars
<1>3. ASSUME NEW n \in Nodes, Beat(n) PROVE EdgeInv' /\ AgeInv'
  BY <1>3 DEF Beat, Receive, nodeVars, ghostVars, loopVars
<1>4. ASSUME NEW n \in Nodes, LosePeer(n) PROVE EdgeInv' /\ AgeInv'
  BY <1>4 DEF LosePeer, nodeVars, ghostVars, loopVars
<1> QED
  BY <1>1, <1>2, <1>3, <1>4 DEF Environment

LEMMA SteadyInvStep ==
    ASSUME TypeOK, BudgetInv, SteadyInv, Next
    PROVE  SteadyInv'
<1> USE PeerTypes, SteadyStep, NodesAssumption DEF SteadyInv
<1>1. CASE UNCHANGED age
  BY <1>1
<1>2. CASE ReadAdvert
  <2>1. age' = age \/ age' = [age EXCEPT ![Head(adverts)] = 0]
    BY <1>2 DEF ReadAdvert, StartConnect
  <2> QED
    BY <2>1
<1>3. ASSUME NEW n \in Nodes, ReadNode(n) PROVE SteadyInv'
  BY <1>3 DEF ReadNode
<1>4. CASE TimePasses
  BY <1>4 DEF TimePasses
<1>5. ModuleThread => \/ UNCHANGED age \/ ReadAdvert
                      \/ \E n \in Nodes : ReadNode(n)
  BY DEF ModuleThread, EpollWait, EventsDone, Connect, ConnectFails,
         InsertNode, RegisterNode, UnRegisterCallBacks, DeleteDriver,
         EraseNode, SendOne, SendsDone, HeartBeatsDone, InsideRun, TurnDone,
         ReadEnd, CheckHeartBeat, RunNode, nodeVars
<1>6. Environment => UNCHANGED age \/ TimePasses
  BY DEF Environment, Advertise, Beat, LosePeer, nodeVars
<1>7. WebThread \/ Dead => UNCHANGED age
  BY WebPeers DEF BeatStutter, Dead, vars, nodeVars
<1> QED
  BY <1>1, <1>2, <1>3, <1>4, <1>5, <1>6, <1>7 DEF Next

\* The thread comes to connect() only by an announcement, and stays there
\* while time passes and other controllers and callers do as they like.
LEMMA ConnectStep ==
    ASSUME TypeOK, LoopInv, ConnectInv, Next
    PROVE  ConnectInv'
<1> USE PeerTypes DEF ConnectInv
<1>1. CASE ReadAdvert
  <2>1. Head(adverts) \in Nodes
    BY <1>1, TailType DEF ReadAdvert, TypeOK
  <2>2. pc = "events"
    BY <1>1 DEF ReadAdvert
  <2>3. CASE IsDiscovered(Head(adverts))
    BY <1>1, <2>1, <2>3 DEF ReadAdvert, StartConnect
  <2>4. CASE ~IsDiscovered(Head(adverts))
    BY <1>1, <2>2, <2>4 DEF ReadAdvert
  <2> QED
    BY <2>3, <2>4
<1>2. ASSUME ModuleThread, ~ReadAdvert PROVE pc' # "connect"
  BY <1>2 DEF ModuleThread, EpollWait, EventsDone, Connect, ConnectFails,
     InsertNode, RegisterNode, UnRegisterCallBacks, DeleteDriver, EraseNode,
     SendOne, SendsDone, HeartBeatsDone, InsideRun, TurnDone, ReadNode,
     ReadEnd, CheckHeartBeat, RunNode, StartRemoval, loopVars
<1>3. CASE TimePasses
  <2> SUFFICES ASSUME pc = "connect"
               PROVE  age'[current] <= 1 \/ current \in delayed'
    BY <1>3 DEF TimePasses
  <2>1. current \in Nodes
    BY DEF LoopInv
  <2>2. CASE age[current] >= 1
    BY <1>3, <2>1, <2>2 DEF TimePasses
  <2>3. CASE ~(age[current] >= 1)
    BY <1>3, <2>1, <2>3 DEF TimePasses
  <2> QED
    BY <2>2, <2>3
<1>4. ASSUME NEW n \in Nodes, Advertise(n) \/ Beat(n) \/ LosePeer(n)
      PROVE  UNCHANGED <<pc, current, age, delayed>>
  BY <1>4 DEF Advertise, Beat, LosePeer, nodeVars, loopVars, ghostVars
<1>5. WebThread \/ Dead => UNCHANGED <<pc, current, age, delayed>>
  BY DEF WebThread, CallNode, InsideCallback, DeletedCallback, SendRaw,
     ListNodes, webUnchanged, nodeVars, loopVars, ghostVars, Dead, vars
<1> QED
  BY <1>1, <1>2, <1>3, <1>4, <1>5 DEF Next, Environment

-----------------------------------------------------------------------------
(* Theorems *)

LEMMA PeerInit == Init => PeerInv
BY NodesAssumption
   DEF Init, PeerInv, KnownInv, EdgeInv, AgeInv, ConnectInv, SteadyInv, Beats

LEMMA PeerStep == IInv /\ PeerInv /\ [Next]_vars => PeerInv'
<1> SUFFICES ASSUME IInv, PeerInv, [Next]_vars PROVE PeerInv'
  OBVIOUS
<1> USE DEF IInv, PeerInv
<1>1. CASE Next
  <2>1. KnownInv' /\ ConnectInv' /\ SteadyInv'
    BY <1>1, KnownStep, ConnectStep, SteadyInvStep
  <2>2. Dead => BeatStutter
    BY DEF Dead, vars, nodeVars, peerVars, loopVars, ghostVars, BeatStutter
  <2>3. EdgeInv' /\ AgeInv'
    BY <1>1, <2>2, ThreadBeats, EnvironmentBeats, WebPeers, BeatFrame DEF Next
  <2> QED
    BY <2>1, <2>3
<1>2. CASE UNCHANGED vars
  <2>1. KnownStutter /\ BeatStutter /\ UNCHANGED <<budget, age, current>>
    BY <1>2 DEF vars, nodeVars, peerVars, loopVars, ghostVars, BeatStutter,
                KnownStutter
  <2> QED
    BY <2>1, KnownFrame, BeatFrame DEF ConnectInv, SteadyInv, BeatStutter
<1> QED
  BY <1>1, <1>2

LEMMA PeerInvariance == Spec => [](IInv /\ PeerInv)
<1>1. Spec => []PeerInv
  BY WifiNodesInvariance, PeerInit, PeerStep, PTL DEF Spec
<1> QED
  BY <1>1, WifiNodesInvariance, PTL

\* When no report is on its way or was lost in another message, the status
\* that the driver gives is the valve that is open, or none was reported.
THEOREM StatusIsTrue == Spec => []StatusIsKnown
<1>1. IInv /\ PeerInv => StatusIsKnown
  BY DEF IInv, TypeOK, PeerInv, KnownInv, StatusIsKnown
<1> QED
  BY <1>1, PeerInvariance, PTL

\* With the three periods the code allows, or more, a controller that beats
\* once in each of them is not dropped, unless a heartbeat came in one piece
\* with another message or found the thread in connect(), or the controller
\* has not been heard yet and its own connect() took two periods or more.
THEOREM BeatingNodesStay ==
    ASSUME Silence >= 3
    PROVE  Spec => BeatingNodeStays
<1> DEFINE Stays ==
      \A n \in Nodes : pc = "beats" /\ pc' = "unregister" /\ current' = n
          => \/ peer[n] # "up"
             \/ <<n, "beat">> \in swallowed
             \/ n \in delayed
<1>1. ASSUME IInv, PeerInv, Next PROVE Stays
  <2> SUFFICES ASSUME NEW n \in Nodes, pc = "beats", pc' = "unregister",
                      current' = n, Beats(n)
               PROVE  FALSE
    BY DEF Beats
  <2>1. \E k \in Nodes : CheckHeartBeat(k)
    BY <1>1 DEF Next, ModuleThread, EpollWait, EventsDone, ReadAdvert,
       Connect, ConnectFails, InsertNode, RegisterNode, UnRegisterCallBacks,
       DeleteDriver, EraseNode, SendOne, SendsDone, HeartBeatsDone,
       InsideRun, TurnDone, ReadNode, ReadEnd, RunNode, WebThread, CallNode,
       InsideCallback, DeletedCallback, SendRaw, ListNodes, Environment,
       TimePasses, Advertise, Beat, LosePeer, Dead, vars, webUnchanged,
       loopVars
  <2>2. HeartBeatFails(n)
    BY <2>1 DEF CheckHeartBeat, StartRemoval
  <2>3. age[n] <= 2
    BY <1>1, PeerTypes, NodesAssumption
       DEF IInv, PeerInv, AgeInv, IsToRead, Removing
  <2> QED
    BY <1>1, <2>2, <2>3, PeerTypes, NodesAssumption DEF IInv, HeartBeatFails
<1>2. IInv /\ PeerInv /\ [Next]_vars => [Stays]_vars
  BY <1>1
<1> QED
  BY <1>2, PeerInvariance, PTL DEF Spec, BeatingNodeStays
=============================================================================
