----------------------------- MODULE Sprinklers -----------------------------
(***************************************************************************)
(* The driver of an irrigation controller (SprinklersNode) and the queue   *)
(* its commands go through (DWNSendQueue).                                 *)
(*                                                                         *)
(* Two threads share a driver without a lock.  A web thread, one at a time *)
(* under mInvocationLock, is in one of its REST callbacks: it empties or   *)
(* fills the sequence and writes mNextSequenceTime.  The module's thread   *)
(* calls run() on every turn of its loop: it reads the time, takes an item *)
(* and writes the time back.  Each access to mpSequence, mNextSequenceTime *)
(* or the send queue is a step.                                            *)
(***************************************************************************)
EXTENDS Naturals, Sequences, SequencesExt

CONSTANTS Nodes,      \* the controllers, each with one driver
          Valves,     \* valves of a controller
          Programs,   \* bound: the sequences the callers ask for
          RingSize,   \* places of mpSequence (100 in the code)
          QueueSize,  \* places of the send queue (500 in the code)
          MaxSeconds, \* the longest time an item keeps its valve open
          MaxCalls,   \* bound: REST calls
          Closed,     \* the command that closes every valve
          NoOne       \* no node

(* The controller knows the closing command from the name of a valve.      *)
ASSUME ValvesAssumption == Closed \notin Valves /\ NoOne \notin Nodes

(* The bounds on time and on calls are numbers.                            *)
ASSUME SizesAssumption == MaxSeconds \in Nat /\ MaxCalls \in Nat
                          /\ RingSize \in Nat /\ QueueSize \in Nat

(* A sequence is a list of valves, each with the time it stays open.       *)
ASSUME ProgramsAssumption ==
    Programs \subseteq Seq([valve : Valves, seconds : 0..MaxSeconds])

TIMETMAX == MaxSeconds + 1

VARIABLES
    mpSequence,         \* ring of items of each driver
    mNextSequenceTime,  \* 0 when it is due, else the time that is left
    mpSendQueue,        \* commands of all nodes, oldest first
    call,               \* the REST call that is in a driver
    run,                \* where the module's thread is in run()
    lastCall,           \* what the last call of a node asked, once it is done
    request,            \* the call that last emptied a node's sequence
    torn,               \* nodes where a call has met run() half way
    refused             \* nodes with a command the full queue refused

driverVars == <<mpSequence, mNextSequenceTime, lastCall, request, torn>>
sprinklerVars == <<driverVars, mpSendQueue, call, run, refused>>

Item == [valve : Valves, seconds : 0..MaxSeconds, id : 1..MaxCalls]
Command == [node : Nodes, valve : Valves \cup {Closed}]
CallPC == {"none", "clear", "drain", "put", "test", "set", "send", "deleted"}
RunPC == {"no", "get", "off", "idle", "next", "on"}
NoItem == [valve |-> Closed, seconds |-> 0, id |-> 0]
NoCall == [at |-> "none", node |-> NoOne, op |-> "none", id |-> 0,
           items |-> <<>>]
NotRunning == [at |-> "no", node |-> NoOne, item |-> NoItem]

SprinklersTypeOK ==
    /\ mpSequence \in [Nodes -> Seq(Item)]
    /\ \A n \in Nodes : Len(mpSequence[n]) <= RingSize
    /\ mNextSequenceTime \in [Nodes -> 0..TIMETMAX]
    /\ mpSendQueue \in Seq(Command) /\ Len(mpSendQueue) <= QueueSize
    /\ call \in [at : CallPC, node : Nodes \cup {NoOne}, id : 0..MaxCalls,
                 op : {"none", "on", "off", "sequence"},
                 items : Seq([valve : Valves, seconds : 0..MaxSeconds])]
    /\ run \in [at : RunPC, node : Nodes \cup {NoOne},
                item : Item \cup {NoItem}]
    /\ lastCall \in [Nodes -> {"none", "on", "off", "sequence"}]
    /\ request \in [Nodes -> 0..MaxCalls]
    /\ torn \in SUBSET Nodes /\ refused \in SUBSET Nodes

(* SprinklersNode::SprinklersNode: what the driver of node n starts with.  *)
NewDriver(n) ==
    /\ mpSequence' = [mpSequence EXCEPT ![n] = <<>>]
    /\ mNextSequenceTime' = [mNextSequenceTime EXCEPT ![n] = TIMETMAX]
    /\ lastCall' = [lastCall EXCEPT ![n] = "none"]
    /\ request' = [request EXCEPT ![n] = 0]
    /\ torn' = torn \ {n}

SprinklersInit ==
    /\ mpSequence = [n \in Nodes |-> <<>>]
    /\ mNextSequenceTime = [n \in Nodes |-> TIMETMAX]
    /\ mpSendQueue = <<>>
    /\ call = NoCall /\ run = NotRunning
    /\ lastCall = [n \in Nodes |-> "none"]
    /\ request = [n \in Nodes |-> 0]
    /\ torn = {} /\ refused = {}

(* Mutant: the queue takes whatever comes.                                 *)
SendToNodeUnbounded(n, valve) ==
    /\ mpSendQueue' = Append(mpSendQueue, [node |-> n, valve |-> valve])
    /\ UNCHANGED refused

(* DWNSendQueue::sendToNode: the result of put() is not looked at.  The    *)
(* write to the event descriptor only shortens the wait of the loop.       *)
SendToNode(n, valve) ==
    IF Len(mpSendQueue) < QueueSize
    THEN /\ mpSendQueue' = Append(mpSendQueue, [node |-> n, valve |-> valve])
         /\ UNCHANGED refused
    ELSE refused' = refused \cup {n} /\ UNCHANGED mpSendQueue

(***************************************************************************)
(* The web thread.                                                         *)
(***************************************************************************)
(* A web thread enters a callback of node n, having found it in the REST   *)
(* engine.                                                                 *)
EnterCallback(n, op, items, id) ==
    /\ call.at = "none"
    /\ call' = [at |-> IF op = "on" THEN "send" ELSE "clear", node |-> n,
                op |-> op, id |-> id, items |-> items]
    /\ lastCall' = [lastCall EXCEPT ![n] = "none"]
    /\ UNCHANGED <<mpSequence, mNextSequenceTime, request, torn, run,
                   mpSendQueue, refused>>

Return ==
    /\ call' = NoCall
    /\ lastCall' = [lastCall EXCEPT ![call.node] = call.op]

(* The call empties the sequence of its node from here on.  When run() is  *)
(* past its test of the time, it does not notice.                          *)
TakeOver ==
    LET n == call.node IN
    /\ request' = [request EXCEPT ![n] = call.id]
    /\ torn' = IF run.node = n /\ run.at \in {"get", "next", "on"}
               THEN torn \cup {n} ELSE torn \ {n}
    /\ call' = [call EXCEPT !.at = "drain"]
    /\ UNCHANGED <<mpSequence, lastCall, run, mpSendQueue, refused>>

(* Mutant: the time of the next item is left as it was.                    *)
ClearTimeForgotten ==
    call.at = "clear" /\ TakeOver /\ UNCHANGED mNextSequenceTime

(* clearSequence(), first half: no time for the next item.                 *)
ClearTime ==
    /\ call.at = "clear"
    /\ TakeOver
    /\ mNextSequenceTime' =
           [mNextSequenceTime EXCEPT ![call.node] = TIMETMAX]

(* clearSequence(), second half: one item per step.                        *)
DrainItem ==
    LET n == call.node IN
    /\ call.at = "drain" /\ mpSequence[n] # <<>>
    /\ mpSequence' = [mpSequence EXCEPT ![n] = Tail(@)]
    /\ UNCHANGED <<mNextSequenceTime, lastCall, request, torn, call, run,
                   mpSendQueue, refused>>

(* valveOff_callback goes on to send, sequence_callback to add its items.  *)
(* A text that is no sequence has none: it has stopped the sequence before *)
(* it, and leaves its valve open.                                          *)
AfterDrain ==
    /\ \/ call.op = "off" /\ call' = [call EXCEPT !.at = "send"]
          /\ UNCHANGED lastCall
       \/ call.op = "sequence" /\ call.items # <<>>
          /\ call' = [call EXCEPT !.at = "put"] /\ UNCHANGED lastCall
       \/ call.op = "sequence" /\ call.items = <<>>
          /\ call' = NoCall /\ UNCHANGED lastCall
    /\ UNCHANGED <<mpSequence, mNextSequenceTime, request, torn, run,
                   mpSendQueue, refused>>

(* Mutant: the items of the old sequence stay in the ring.                 *)
DrainedAtOnce == call.at = "drain" /\ AfterDrain

(* get() finds the ring empty.                                             *)
Drained == call.at = "drain" /\ mpSequence[call.node] = <<>> /\ AfterDrain

(* addInSequence(), the put: an item the full ring refuses is lost.        *)
PutItem ==
    LET n == call.node IN
    /\ call.at = "put"
    /\ mpSequence' = IF Len(mpSequence[n]) < RingSize
                     THEN [mpSequence EXCEPT ![n] =
                              Append(@, [valve |-> Head(call.items).valve,
                                         seconds |-> Head(call.items).seconds,
                                         id |-> call.id])]
                     ELSE mpSequence
    /\ call' = [call EXCEPT !.at = "test"]
    /\ UNCHANGED <<mNextSequenceTime, lastCall, request, torn, run,
                   mpSendQueue, refused>>

(* The callback has added its first item: the next one, or the answer.     *)
NextItem ==
    IF Len(call.items) > 1
    THEN /\ call' = [call EXCEPT !.at = "put", !.items = Tail(@)]
         /\ UNCHANGED lastCall
    ELSE Return

(* addInSequence(), the test of the time...                                *)
TestTime ==
    LET n == call.node IN
    /\ call.at = "test"
    /\ IF mNextSequenceTime[n] = TIMETMAX
       THEN call' = [call EXCEPT !.at = "set"] /\ UNCHANGED lastCall
       ELSE NextItem
    /\ torn' = IF run.node = n /\ run.at \in {"off", "idle"}
               THEN torn \cup {n} ELSE torn
    /\ UNCHANGED <<mpSequence, mNextSequenceTime, request, run, mpSendQueue,
                   refused>>

(* Mutant: the first item of a sequence does not start it.                 *)
SetTimeForgotten ==
    /\ call.at = "set"
    /\ NextItem
    /\ UNCHANGED <<mpSequence, mNextSequenceTime, request, torn, run,
                   mpSendQueue, refused>>

(* ... and its assignment.                                                 *)
SetTime ==
    /\ call.at = "set"
    /\ mNextSequenceTime' = [mNextSequenceTime EXCEPT ![call.node] = 0]
    /\ NextItem
    /\ UNCHANGED <<mpSequence, request, torn, run, mpSendQueue, refused>>

(* valveOn_callback and the end of valveOff_callback.                      *)
SendCommand ==
    /\ call.at = "send"
    /\ SendToNode(call.node, IF call.op = "on" THEN Head(call.items).valve
                             ELSE Closed)
    /\ Return
    /\ UNCHANGED <<mpSequence, mNextSequenceTime, request, torn, run>>

Callback == ClearTime \/ DrainItem \/ Drained \/ PutItem \/ TestTime
            \/ SetTime \/ SendCommand

(***************************************************************************)
(* The module's thread in SprinklersNode::run().                           *)
(***************************************************************************)
(* The time is due: run() goes on past its first line.                     *)
RunIsDue(n) ==
    /\ run.at = "no" /\ mNextSequenceTime[n] = 0
    /\ run' = [at |-> "get", node |-> n, item |-> NoItem]
    /\ UNCHANGED <<driverVars, mpSendQueue, call, refused>>

GetItem ==
    LET n == run.node IN
    /\ run.at = "get"
    /\ IF mpSequence[n] = <<>>
       THEN run' = [run EXCEPT !.at = "off"] /\ UNCHANGED mpSequence
       ELSE /\ run' = [run EXCEPT !.at = "next", !.item = Head(mpSequence[n])]
            /\ mpSequence' = [mpSequence EXCEPT ![n] = Tail(@)]
    /\ UNCHANGED <<mNextSequenceTime, lastCall, request, torn, mpSendQueue,
                   call, refused>>

(* Mutant: the last valve of a sequence is left open.                      *)
SendAllOffForgotten ==
    /\ run.at = "off"
    /\ run' = [run EXCEPT !.at = "idle"]
    /\ UNCHANGED <<driverVars, call, mpSendQueue, refused>>

(* No item is left: close all valves...                                    *)
SendAllOff ==
    /\ run.at = "off"
    /\ SendToNode(run.node, Closed)
    /\ run' = [run EXCEPT !.at = "idle"]
    /\ UNCHANGED <<driverVars, call>>

(* ... and wait for the next sequence.                                     *)
SequenceComplete ==
    /\ run.at = "idle"
    /\ mNextSequenceTime' = [mNextSequenceTime EXCEPT ![run.node] = TIMETMAX]
    /\ run' = NotRunning
    /\ UNCHANGED <<mpSequence, lastCall, request, torn, mpSendQueue, call,
                   refused>>

SetNextTime ==
    /\ run.at = "next"
    /\ mNextSequenceTime' = [mNextSequenceTime EXCEPT ![run.node] =
                                run.item.seconds]
    /\ run' = [run EXCEPT !.at = "on"]
    /\ UNCHANGED <<mpSequence, lastCall, request, torn, mpSendQueue, call,
                   refused>>

OpenValve ==
    /\ run.at = "on"
    /\ SendToNode(run.node, run.item.valve)
    /\ run' = NotRunning
    /\ UNCHANGED <<driverVars, call>>

RunStep == GetItem \/ SendAllOff \/ SequenceComplete \/ SetNextTime
           \/ OpenValve

(* A second goes by for the driver of every node.                          *)
SecondPasses ==
    mNextSequenceTime' = [n \in Nodes |->
        IF mNextSequenceTime[n] \in 1..MaxSeconds
        THEN mNextSequenceTime[n] - 1 ELSE mNextSequenceTime[n]]

=============================================================================
