----------------------------- MODULE PhoneProofs -----------------------------
(***************************************************************************)
(* What holds of Phone for any number of calls and actions, any chains and *)
(* any depth of the stack's way to ~Call: the actions of a call are        *)
(* invoked in order and once, and an action that was cleaned is gone and   *)
(* deleted by exactly one command.                                         *)
(***************************************************************************)
EXTENDS Phone, FiniteSetTheorems, TLAPS

\* What the SIP thread is in the middle of concerns a call.
FlowInv ==
    /\ sip.at # "free" => sip.call \in Calls
    /\ sip.at = "puts" => sip.left > 0
    /\ rest.left # <<>> => rest.call \in Calls

\* The actions that are not in their chain yet, posted or about to be.
Coming == {x \in ActionId : \/ \E k \in DOMAIN fifo : /\ fifo[k].op = "add"
                                                     /\ fifo[k].action.id = x
                            \/ \E j \in DOMAIN rest.left : rest.left[j].id = x}

\* They come in the order in which they were made.
ComingInv ==
    /\ \A k \in DOMAIN fifo : fifo[k].op = "add" =>
          /\ fifo[k].action \in Action
          /\ status[fifo[k].action.id] = "posted"
          /\ \A l \in DOMAIN fifo : k < l /\ fifo[l].op = "add" =>
                fifo[k].action.id < fifo[l].action.id
          /\ \A j \in DOMAIN rest.left :
                fifo[k].action.id < rest.left[j].id
    /\ \A j \in DOMAIN rest.left :
          /\ rest.left[j].id <= made /\ status[rest.left[j].id] = "none"
          /\ \A l \in DOMAIN rest.left :
                j < l => rest.left[j].id < rest.left[l].id
    /\ \A i \in ActionId : made < i => status[i] = "none"

\* A chain is in order, before whatever comes, and only its first action can
\* have been invoked.  No action is in two chains.
ChainInv ==
    /\ \A c \in Calls : \A i \in DOMAIN chain[c] :
          /\ \/ status[chain[c][i].id] = "added"
             \/ i = 1 /\ status[chain[c][i].id] = "invoked"
          /\ \A j \in DOMAIN chain[c] : i < j => chain[c][i].id < chain[c][j].id
          /\ \A x \in Coming : chain[c][i].id < x
    /\ \A c, d \in Calls : \A i \in DOMAIN chain[c], j \in DOMAIN chain[d] :
          chain[c][i].id = chain[d][j].id => c = d

\* What was invoked comes before what was not.
InvokedInv ==
    \A c \in Calls : \A k \in DOMAIN invoked[c] :
        /\ status[invoked[c][k]] \notin {"none", "posted"}
        /\ \A x \in Coming : invoked[c][k] < x
        /\ \A i \in DOMAIN chain[c] : status[chain[c][i].id] = "added" =>
              invoked[c][k] < chain[c][i].id

\* The action that hears of the player is the first of its chain.
ObserverInv ==
    \A c \in Calls : \A x \in mRtpObservers[c] :
        chain[c] # <<>> /\ x = Head(chain[c]).id /\ status[x] = "invoked"

\* A cleaned action has one command that deletes it, and no other has any.
DeleteInv ==
    /\ \A k \in DOMAIN fifo : fifo[k].op = "delete" =>
          /\ fifo[k].action \in Action
          /\ status[fifo[k].action.id] = "cleaned"
          /\ \A l \in DOMAIN fifo :
                fifo[l].op = "delete" /\ fifo[l].action.id = fifo[k].action.id
                => k = l
    /\ \A i \in ActionId : status[i] = "cleaned" =>
          \E k \in DOMAIN fifo : fifo[k].op = "delete" /\ fifo[k].action.id = i

CoreInv == ComingInv /\ ChainInv /\ InvokedInv /\ InvokedInOrder
           /\ ObserverInv /\ DeleteInv
IInv == TypeOK /\ FlowInv /\ CoreInv

-----------------------------------------------------------------------------
(* Types *)

CallsOK ==
    /\ life \in [Calls -> {"none", "dialing", "listed", "cancelling", "over",
                           "destroyed"}]
    /\ mCallState \in [Calls -> {"Initial", "Ringing", "Answered"}]
    /\ mIncomming \in SUBSET Calls
ChainOK == chain \in [Calls -> Seq(Action)]
ObserversOK == mRtpObservers \in [Calls -> SUBSET ActionId]
StatusOK == status \in [ActionId -> {"none", "posted", "added", "invoked",
                                    "cleaned", "deleted"}]
InvokedOK == invoked \in [Calls -> Seq(ActionId)] /\ empties \in [Calls -> Nat]
FifoOK == fifo \in Seq(Messages)
SipOK == sip \in [at : {"free", "puts", "join"}, call : Calls \cup {NoCall},
                 left : Nat]
RestOK == /\ rest \in [call : Calls \cup {NoCall}, left : Seq(Action)]
          /\ made \in 0..MaxActions
PlayerOK ==
    /\ player \in [Calls -> {"off", "test", "get", "sleepy", "wait", "ended"}]
    /\ mQueueWasEmpty \in [Calls -> BOOLEAN]
    /\ mStopping \in [Calls -> BOOLEAN]
    /\ sounds \in [Calls -> Nat]
OutsideOK ==
    /\ peer \in [Calls -> {"none", "calling", "invited", "ringing", "accepted",
                           "talking", "gone"}]
    /\ ronaArmed \in SUBSET Calls
GhostsOK == cleared \cup late \cup missed \cup deadUse \in SUBSET Calls

LEMMA Types ==
    TypeOK <=> /\ CallsOK /\ ChainOK /\ ObserversOK /\ StatusOK /\ InvokedOK
               /\ FifoOK /\ SipOK /\ RestOK /\ PlayerOK /\ OutsideOK /\ GhostsOK
BY ZenonT(60) DEF TypeOK, CallsOK, ChainOK, ObserversOK, StatusOK, InvokedOK, FifoOK,
   SipOK, RestOK, PlayerOK, OutsideOK, GhostsOK

(* What is unchanged keeps its type. *)
LEMMA Frames ==
    ASSUME TypeOK
    PROVE  /\ UNCHANGED callVars => CallsOK'
           /\ UNCHANGED chain => ChainOK'
           /\ UNCHANGED mRtpObservers => ObserversOK'
           /\ UNCHANGED status => StatusOK'
           /\ UNCHANGED <<invoked, empties>> => InvokedOK'
           /\ UNCHANGED fifo => FifoOK'
           /\ UNCHANGED sip => SipOK'
           /\ UNCHANGED <<rest, made>> => RestOK'
           /\ UNCHANGED playerVars => PlayerOK'
           /\ UNCHANGED outside => OutsideOK'
           /\ UNCHANGED ghosts => GhostsOK'
           /\ FlowInv /\ UNCHANGED <<sip, rest>> => FlowInv'
<1>1. UNCHANGED callVars => CallsOK'
  BY Types DEF callVars, CallsOK
<1>2. UNCHANGED playerVars => PlayerOK'
  BY Types DEF playerVars, PlayerOK
<1>3. UNCHANGED outside => OutsideOK'
  BY Types DEF outside, OutsideOK
<1>4. UNCHANGED ghosts => GhostsOK'
  BY Types DEF ghosts, GhostsOK
<1>5. /\ UNCHANGED chain => ChainOK'
      /\ UNCHANGED mRtpObservers => ObserversOK'
      /\ UNCHANGED status => StatusOK'
      /\ UNCHANGED <<invoked, empties>> => InvokedOK'
  BY Types DEF ChainOK, ObserversOK, StatusOK, InvokedOK
<1>6. /\ UNCHANGED fifo => FifoOK'
      /\ UNCHANGED sip => SipOK'
      /\ UNCHANGED <<rest, made>> => RestOK'
  BY Types DEF FifoOK, SipOK, RestOK
<1>7. FlowInv /\ UNCHANGED <<sip, rest>> => FlowInv'
  BY DEF FlowInv
<1> QED
  BY <1>1, <1>2, <1>3, <1>4, <1>5, <1>6, <1>7

(* The same of the next state. *)
LEMMA TypesNext ==
    ASSUME CallsOK', ChainOK', ObserversOK', StatusOK', InvokedOK', FifoOK',
           SipOK', RestOK', PlayerOK', OutsideOK', GhostsOK'
    PROVE  TypeOK'
BY ZenonT(60) DEF TypeOK, CallsOK, ChainOK, ObserversOK, StatusOK, InvokedOK, FifoOK,
   SipOK, RestOK, PlayerOK, OutsideOK, GhostsOK

(* A message to the SIP thread. *)
LEMMA MessageType ==
    ASSUME NEW op \in Op, NEW c \in Calls, NEW a \in Action \cup {NoAction}
    PROVE  /\ Message(op, c, a) \in Messages
           /\ Message(op, c, a).op = op
           /\ Message(op, c, a).action = a
BY PhoneAssumption DEF Message, Messages

LEMMA PostType ==
    ASSUME FifoOK, NEW m \in Messages, Post(m)
    PROVE  FifoOK'
BY DEF FifoOK, Post

LEMMA DoneType ==
    ASSUME FifoOK, fifo # <<>>
    PROVE  /\ Head(fifo) \in Messages /\ Tail(fifo) \in Seq(Messages)
           /\ Done => FifoOK'
           /\ \A ms \in Seq(Messages) : DoneThen(ms) => FifoOK'
<1>1. Head(fifo) \in Messages /\ Tail(fifo) \in Seq(Messages)
  BY DEF FifoOK
<1>2. ASSUME NEW ms \in Seq(Messages) PROVE Tail(fifo) \o ms \in Seq(Messages)
  BY <1>1, <1>2
<1> QED
  BY <1>1, <1>2 DEF FifoOK, Done, DoneThen

\* The first message concerns a call.
LEMMA HeadType ==
    ASSUME FifoOK, fifo # <<>>
    PROVE  /\ Head(fifo).call \in Calls /\ Head(fifo).op \in Op
           /\ Head(fifo).action \in Action \cup {NoAction}
           /\ Head(fifo).hop \in 0..Hops
BY DoneType DEF Messages

-----------------------------------------------------------------------------
(* What the actions keep of the types and of the flow. *)

LEMMA InitTypes == Init => TypeOK /\ FlowInv
<1> SUFFICES ASSUME Init PROVE TypeOK /\ FlowInv
  OBVIOUS
<1>1. CallsOK /\ ObserversOK /\ StatusOK /\ PlayerOK /\ OutsideOK /\ GhostsOK
  BY DEF Init, CallsOK, ObserversOK, StatusOK, PlayerOK, OutsideOK, GhostsOK
<1>2. ChainOK /\ InvokedOK /\ FifoOK
  BY DEF Init, ChainOK, InvokedOK, FifoOK
<1>3. SipOK /\ RestOK /\ FlowInv
  BY PhoneAssumption DEF Init, SipOK, RestOK, FlowInv, Idle, NoRest
<1> QED
  BY <1>1, <1>2, <1>3, Types

LEMMA ElementType ==
    ASSUME NEW S, NEW q \in Seq(S), NEW i \in DOMAIN q
    PROVE  q[i] \in S
OBVIOUS

LEMMA ActionAt ==
    ASSUME NEW q \in Seq(Action), NEW i \in DOMAIN q
    PROVE  q[i] \in Action /\ q[i].id \in ActionId
<1>1. q[i] \in Action
  BY ElementType
<1> QED
  BY <1>1 DEF Action

LEMMA AppendHead ==
    ASSUME NEW S, NEW q \in Seq(S), NEW a \in S, q # <<>>
    PROVE  Append(q, a) # <<>> /\ Head(Append(q, a)) = Head(q)
OBVIOUS

LEMMA StartPlanType ==
    ASSUME TypeOK, FlowInv, NEW c \in Calls, NEW p \in Plans, StartPlan(c, p)
    PROVE  RestOK' /\ (rest'.left # <<>> => rest'.call \in Calls)
<1>1. p \in Seq([kind : Kind, sounds : Nat])
  BY PhoneAssumption
<1>2. made \in Nat /\ Len(p) \in Nat /\ made' \in 0..MaxActions
  <2>1. made \in Nat
    BY PhoneAssumption, Types DEF RestOK
  <2>2. Len(p) \in Nat
    BY <1>1
  <2>3. made' = made + Len(p) /\ made' <= MaxActions
    BY <2>1, <2>2 DEF StartPlan
  <2> QED
    BY <2>1, <2>2, <2>3, PhoneAssumption
<1>3. ASSUME NEW i \in DOMAIN p
      PROVE  [id |-> made + i, kind |-> p[i].kind, sounds |-> p[i].sounds]
                \in Action
  <2>1. p[i] \in [kind : Kind, sounds : Nat]
    BY <1>1, <1>3, ElementType
  <2>2. made + i \in ActionId
    BY <1>1, <1>2, <1>3, PhoneAssumption DEF StartPlan, ActionId
  <2> QED
    BY <2>1, <2>2 DEF Action
<1>4. ActionsOf(p) \in Seq(Action)
  BY <1>1, <1>3 DEF ActionsOf
<1> QED
  BY <1>2, <1>4 DEF StartPlan, RestOK

LEMMA WebThreadTypes ==
    ASSUME TypeOK, FlowInv, WebThread
    PROVE  TypeOK' /\ FlowInv'
<1>1. ASSUME NEW c \in Calls, ReleaseCall(c)
      PROVE  TypeOK' /\ FlowInv'
  <2>1. Message("end", c, NoAction) \in Messages
    BY MessageType DEF Op
  <2>2. FifoOK'
    BY <1>1, <2>1, PostType, Types DEF ReleaseCall
  <2> QED
    BY <1>1, <2>2, Frames, TypesNext
     DEF ReleaseCall, callVars, chainVars, playerVars, outside, ghosts
<1>2. ASSUME NEW c \in Calls, NEW p \in Plans, MakeCall(c, p)
      PROVE  TypeOK' /\ FlowInv'
  <2>1. RestOK' /\ (rest'.left # <<>> => rest'.call \in Calls)
    BY <1>2, StartPlanType DEF MakeCall
  <2>2. CallsOK' /\ OutsideOK'
    BY <1>2, Types DEF MakeCall, callVars, CallsOK, OutsideOK
  <2>3. FlowInv'
    BY <1>2, <2>1 DEF MakeCall, FlowInv
  <2> QED
    BY <1>2, <2>1, <2>2, <2>3, Frames, TypesNext
     DEF MakeCall, chainVars, playerVars, ghosts
<1>3. ASSUME NEW c \in Calls, NEW p \in Plans, PlayOnCall(c, p)
      PROVE  TypeOK' /\ FlowInv'
  <2>1. RestOK' /\ (rest'.left # <<>> => rest'.call \in Calls)
    BY <1>3, StartPlanType DEF PlayOnCall
  <2>2. FlowInv'
    BY <1>3, <2>1 DEF PlayOnCall, FlowInv
  <2> QED
    BY <1>3, <2>1, <2>2, Frames, TypesNext
     DEF PlayOnCall, callVars, chainVars, playerVars, outside, ghosts
<1>4. CASE PostAdd
  <2> DEFINE c == rest.call
             a == Head(rest.left)
  <2>1. /\ c \in Calls /\ a \in Action /\ Tail(rest.left) \in Seq(Action)
    BY <1>4, Types DEF PostAdd, RestOK, FlowInv
  <2>2. Message("add", c, a) \in Messages
    BY <2>1, MessageType DEF Op
  <2>3. FifoOK'
    BY <1>4, <2>2, PostType, Types DEF PostAdd
  <2>4. RestOK' /\ (rest'.left # <<>> => rest'.call \in Calls)
    <3>1. CASE Len(rest.left) = 1
      BY <1>4, <3>1, Types DEF PostAdd, RestOK, NoRest
    <3>2. CASE Len(rest.left) # 1
      BY <1>4, <2>1, <3>2, Types DEF PostAdd, RestOK
    <3> QED
      BY <3>1, <3>2
  <2>5. StatusOK' /\ GhostsOK'
    BY <1>4, <2>1, Types DEF PostAdd, StatusOK, GhostsOK, Action
  <2>6. FlowInv'
    BY <1>4, <2>4 DEF PostAdd, FlowInv
  <2> QED
    BY <1>4, <2>3, <2>4, <2>5, <2>6, Frames, TypesNext
     DEF PostAdd, callVars, playerVars, outside
<1> QED
  BY <1>1, <1>2, <1>3, <1>4 DEF WebThread

LEMMA PeerTypes ==
    ASSUME TypeOK, FlowInv, NEW c \in Calls, NEW from, NEW op \in Op,
           NEW to \in {"none", "calling", "invited", "ringing", "accepted",
                       "talking", "gone"},
           PeerSends(c, from, op, to)
    PROVE  TypeOK' /\ FlowInv'
<1>1. Message(op, c, NoAction) \in Messages
  BY MessageType
<1>2. FifoOK' /\ OutsideOK'
  BY <1>1, PostType, Types DEF PeerSends, OutsideOK
<1> QED
  BY <1>2, Frames, TypesNext
     DEF PeerSends, callVars, chainVars, playerVars, ghosts

LEMMA OutsideTypes ==
    ASSUME TypeOK, FlowInv, Outside
    PROVE  TypeOK' /\ FlowInv'
<1> PICK c \in Calls : Ring(c) \/ PickUp(c) \/ Acknowledge(c) \/ HangUp(c)
                      \/ Press(c) \/ CallIn(c) \/ RonaFires(c)
  BY DEF Outside
<1>1. CASE RonaFires(c)
  <2>1. Message("rona", c, NoAction) \in Messages
    BY MessageType DEF Op
  <2>2. FifoOK' /\ OutsideOK'
    BY <1>1, <2>1, PostType, Types DEF RonaFires, OutsideOK
  <2> QED
    BY <1>1, <2>2, Frames, TypesNext
     DEF RonaFires, callVars, chainVars, playerVars, ghosts
<1>2. CASE Ring(c) \/ PickUp(c) \/ Acknowledge(c)
  BY <1>2, PeerTypes DEF Ring, PickUp, Acknowledge, Op
<1>3. CASE HangUp(c) \/ Press(c) \/ CallIn(c)
  BY <1>3, PeerTypes DEF HangUp, Press, CallIn, Op
<1> QED
  BY <1>1, <1>2, <1>3

LEMMA PlayerTypes ==
    ASSUME TypeOK, FlowInv, NEW c \in Calls, PlayerStep(c)
    PROVE  TypeOK' /\ FlowInv'
<1>1. FifoOK'
  <2>1. Message("empty", c, NoAction) \in Messages
    BY MessageType DEF Op
  <2>2. fifo' = fifo \/ Post(Message("empty", c, NoAction))
    BY DEF PlayerStep, TestStopping, TakeSound, QueueRunsOut, SetIdle
  <2> QED
    BY <2>1, <2>2, PostType, Frames, Types
<1>2. PlayerOK'
  <2>1. CASE TestStopping(c) \/ SetIdle(c)
    BY <2>1, Types DEF TestStopping, SetIdle, Moves, PlayerOK
  <2>2. CASE TakeSound(c)
    BY <2>2, Types DEF TakeSound, Moves, HasSound, PlayerOK
  <2>3. CASE QueueRunsOut(c)
    BY <2>3, Types DEF QueueRunsOut, Moves, PlayerOK
  <2> QED
    BY <2>1, <2>2, <2>3 DEF PlayerStep
<1>3. UNCHANGED playerOnly
  BY DEF PlayerStep, TestStopping, TakeSound, QueueRunsOut, SetIdle
<1> QED
  BY <1>1, <1>2, <1>3, Frames, TypesNext
     DEF playerOnly, callVars, chainVars, outside, ghosts

LEMMA DestroyTypes ==
    ASSUME TypeOK, FlowInv, NEW c \in Calls, PostDestroy(c)
    PROVE  TypeOK' /\ FlowInv'
<1>1. [Message("destroy", c, NoAction) EXCEPT !.hop = 1] \in Messages
  BY PhoneAssumption DEF Message, Messages, Op
<1>2. FifoOK'
  BY <1>1, PostType, Types DEF PostDestroy
<1> QED
  BY <1>2, Frames, TypesNext
     DEF PostDestroy, callVars, chainVars, playerVars, outside, ghosts

\* What the end of a session does to the player and to the SIP thread.
LEMMA TerminateTypes ==
    ASSUME TypeOK, FlowInv, NEW c \in Calls, Terminate(c) \/ KeepOn,
           UNCHANGED <<mQueueWasEmpty, sounds, cleared, late, deadUse, rest>>
    PROVE  SipOK' /\ PlayerOK' /\ GhostsOK' /\ FlowInv'
<1>1. CASE Terminate(c)
  <2>1. SipOK' /\ FlowInv'
    BY <1>1, Types DEF Terminate, SipOK, FlowInv
  <2>2. PlayerOK'
    <3>1. mStopping' \in [Calls -> BOOLEAN]
      BY <1>1, Types DEF Terminate, PlayerOK
    <3>2. player' = player \/ player' = [player EXCEPT ![c] = "test"]
      BY <1>1 DEF Terminate, SetWorking
    <3> QED
      BY <3>1, <3>2, Types DEF PlayerOK
  <2>3. GhostsOK'
    BY <1>1, Types DEF Terminate, GhostsOK
  <2> QED
    BY <2>1, <2>2, <2>3
<1>2. CASE KeepOn
  BY <1>2, Types DEF KeepOn, SipOK, PlayerOK, GhostsOK, FlowInv
<1> QED
  BY <1>1, <1>2

LEMMA StartPlayerTypes ==
    ASSUME TypeOK, NEW c \in Calls, StartPlayer(c), UNCHANGED sounds
    PROVE  /\ PlayerOK'
           /\ mCallState' \in [Calls -> {"Initial", "Ringing", "Answered"}]
BY Types DEF StartPlayer, PlayerOK, CallsOK

LEMMA RunCommandType ==
    ASSUME NEW c \in Calls
    PROVE  RunCommand(c) \in Messages /\ <<RunCommand(c)>> \in Seq(Messages)
           /\ RunCommand(c).op = "run"
BY MessageType DEF RunCommand, Op

\* The first action of a chain, and what follows it when it is over.
LEMMA ChainHead ==
    ASSUME TypeOK, NEW c \in Calls, chain[c] # <<>>
    PROVE  /\ Head(chain[c]) \in Action /\ Head(chain[c]).id \in ActionId
           /\ Head(chain[c]).sounds \in Nat
           /\ Tail(chain[c]) \in Seq(Action)
           /\ Terminated(c) \in Seq(Messages)
<1>1. Head(chain[c]) \in Action /\ Tail(chain[c]) \in Seq(Action)
  BY Types DEF ChainOK
<1>2. Message("delete", c, Head(chain[c])) \in Messages
  BY <1>1, MessageType DEF Op
<1> QED
  BY <1>1, <1>2, RunCommandType DEF Terminated, Action

\* An invocation lengthens the history of its call.
LEMMA InvokesType ==
    ASSUME TypeOK, NEW c \in Calls, NEW k, Invokes(c, k),
           Head(chain[c]).id \in ActionId
    PROVE  InvokedOK'
<1>1. invoked[c] \in Seq(ActionId) /\ empties[c] \in Nat
  BY Types DEF InvokedOK
<1>2. Append(invoked[c], Head(chain[c]).id) \in Seq(ActionId)
  BY <1>1
<1>3. invoked' \in [Calls -> Seq(ActionId)]
  BY <1>2, Types DEF Invokes, InvokedOK
<1>4. empties' \in [Calls -> Nat]
  BY <1>1, Types DEF Invokes, InvokedOK
<1> QED
  BY <1>3, <1>4 DEF InvokedOK

LEMMA CommandTypes ==
    ASSUME TypeOK, FlowInv, ComingInv,
           AddAction \/ RunNothing \/ RunPlay \/ RunEmptyPlay \/ RunRelease
           \/ PutSound \/ NotifySoundsEmpty \/ DeleteAction
    PROVE  TypeOK' /\ FlowInv'
<1> DEFINE c == Head(fifo).call
           a == Head(chain[c])
<1>0. ASSUME fifo # <<>> PROVE c \in Calls
  BY <1>0, HeadType, Types
<1>1. CASE AddAction
  <2> DEFINE b == Head(fifo).action
  <2>1. c \in Calls /\ fifo # <<>> /\ b \in Action \cup {NoAction}
    BY <1>1, <1>0, HeadType, Types DEF AddAction, Takes
  <2>2. FifoOK'
    BY <1>1, <2>1, DoneType, RunCommandType, Types DEF AddAction
  <2>3. GhostsOK'
    BY <1>1, <2>1, Types DEF AddAction, GhostsOK
  <2>4. StatusOK'
    BY <1>1, Types DEF AddAction, StatusOK
  <2>5. ChainOK'
    <3>0. Head(fifo).op = "add"
      BY <1>1 DEF AddAction, Takes
    <3>a. fifo \in Seq(Messages)
      BY Types DEF FifoOK
    <3>b. 1 \in DOMAIN fifo /\ fifo[1] = Head(fifo)
      BY <2>1, <3>a
    <3>1. b \in Action
      BY <3>0, <3>b DEF ComingInv
    <3>2. Append(chain[c], b) \in Seq(Action)
      BY <2>1, <3>1, Types DEF ChainOK
    <3> QED
      BY <1>1, <3>2, Types DEF AddAction, ChainOK
  <2> QED
    BY <1>1, <2>2, <2>3, <2>4, <2>5, Frames, TypesNext
       DEF AddAction, callVars, playerVars, outside
<1>2. CASE RunNothing
  <2>1. c \in Calls /\ fifo # <<>>
    BY <1>2, <1>0 DEF RunNothing, Takes
  <2>2. FifoOK' /\ GhostsOK'
    BY <1>2, <2>1, DoneType, Types DEF RunNothing, GhostsOK
  <2> QED
    BY <1>2, <2>2, Frames, TypesNext
       DEF RunNothing, callVars, chainVars, playerVars, outside
<1>3. CASE RunPlay
  <2>1. c \in Calls /\ fifo # <<>> /\ chain[c] # <<>>
    BY <1>3, <1>0 DEF RunPlay, Invokes, Takes, Runnable
  <2>2. FifoOK' /\ InvokedOK' /\ StatusOK' /\ ObserversOK'
    <3>1. Head(chain[c]).id \in ActionId
      BY <2>1, ChainHead
    <3>2. FifoOK'
      BY <1>3, <2>1, DoneType, Types DEF RunPlay
    <3>3. InvokedOK'
      BY <1>3, <2>1, <3>1, InvokesType DEF RunPlay
    <3>4. StatusOK'
      BY <1>3, <3>1, Types DEF RunPlay, StatusOK
    <3>5. ObserversOK'
      BY <1>3, <2>1, <3>1, Types DEF RunPlay, ObserversOK
    <3> QED
      BY <3>2, <3>3, <3>4, <3>5
  <2>3. SipOK' /\ FlowInv'
    <3>1. a.sounds \in Nat /\ rest' = rest
      BY <1>3, <2>1, ChainHead DEF RunPlay
    <3>2. sip' = IF a.sounds = 0 THEN Idle
                 ELSE [at |-> "puts", call |-> c, left |-> a.sounds]
      BY <1>3 DEF RunPlay
    <3>3. CASE a.sounds = 0
      BY <3>1, <3>2, <3>3 DEF SipOK, FlowInv, Idle
    <3>4. CASE a.sounds # 0
      BY <2>1, <3>1, <3>2, <3>4 DEF SipOK, FlowInv
    <3> QED
      BY <3>3, <3>4
  <2> QED
    BY <1>3, <2>2, <2>3, Frames, TypesNext
       DEF RunPlay, callVars, playerVars, outside, ghosts
<1>4. CASE RunEmptyPlay
  <2>1. c \in Calls /\ fifo # <<>> /\ chain[c] # <<>>
    BY <1>4, <1>0 DEF RunEmptyPlay, Invokes, Takes, Runnable
  <2>2. FifoOK' /\ InvokedOK' /\ StatusOK' /\ ChainOK'
    <3>1. /\ Head(chain[c]).id \in ActionId /\ Tail(chain[c]) \in Seq(Action)
          /\ Terminated(c) \in Seq(Messages)
      BY <2>1, ChainHead
    <3>2. FifoOK'
      BY <1>4, <2>1, <3>1, DoneType, Types DEF RunEmptyPlay
    <3>3. InvokedOK'
      BY <1>4, <2>1, <3>1, InvokesType DEF RunEmptyPlay
    <3>4. StatusOK'
      BY <1>4, <3>1, Types DEF RunEmptyPlay, StatusOK
    <3>5. ChainOK'
      BY <1>4, <2>1, <3>1, Types DEF RunEmptyPlay, ChainOK
    <3> QED
      BY <3>2, <3>3, <3>4, <3>5
  <2> QED
    BY <1>4, <2>2, Frames, TypesNext
       DEF RunEmptyPlay, callVars, playerVars, outside, ghosts
<1>5. CASE RunRelease
  <2>1. c \in Calls /\ fifo # <<>> /\ chain[c] # <<>>
    BY <1>5, <1>0 DEF RunRelease, Invokes, Takes, Runnable
  <2>2. <<Message("end", c, NoAction)>> \in Seq(Messages)
    BY <2>1, MessageType DEF Op
  <2>3. FifoOK'
    BY <1>5, <2>1, <2>2, DoneType, Types DEF RunRelease
  <2>4. InvokedOK' /\ StatusOK'
    <3>1. Head(chain[c]).id \in ActionId
      BY <2>1, ChainHead
    <3>2. InvokedOK'
      BY <1>5, <2>1, <3>1, InvokesType DEF RunRelease
    <3>3. StatusOK'
      BY <1>5, <3>1, Types DEF RunRelease, StatusOK
    <3> QED
      BY <3>2, <3>3
  <2> QED
    BY <1>5, <2>3, <2>4, Frames, TypesNext
       DEF RunRelease, callVars, playerVars, outside, ghosts
<1>6. CASE PutSound
  <2>1. sip.call \in Calls /\ sip.left \in Nat \ {0}
    BY <1>6, Types DEF PutSound, FlowInv, SipOK
  <2>2. SipOK' /\ FlowInv'
    <3>1. CASE sip.left = 1
      BY <1>6, <3>1, Types DEF PutSound, SipOK, FlowInv, Idle
    <3>2. CASE sip.left # 1
      BY <1>6, <2>1, <3>2, Types DEF PutSound, SipOK, FlowInv
    <3> QED
      BY <3>1, <3>2
  <2>3. PlayerOK'
    <3>1. sounds' \in [Calls -> Nat]
      <4>1. sounds \in [Calls -> Nat]
        BY Types DEF PlayerOK
      <4>2. sounds' = [sounds EXCEPT ![sip.call] = @ + 1]
        BY <1>6 DEF PutSound
      <4> QED
        BY <2>1, <4>1, <4>2
    <3>2. player' = player \/ player' = [player EXCEPT ![sip.call] = "test"]
      BY <1>6 DEF PutSound, SetWorking
    <3> QED
      BY <1>6, <3>1, <3>2, Types DEF PutSound, PlayerOK
  <2>4. GhostsOK'
    BY <1>6, <2>1, Types DEF PutSound, GhostsOK
  <2> QED
    BY <1>6, <2>2, <2>3, <2>4, Frames, TypesNext
       DEF PutSound, callVars, chainVars, outside
<1>7. CASE NotifySoundsEmpty
  <2>1. c \in Calls /\ fifo # <<>>
    BY <1>7, <1>0 DEF NotifySoundsEmpty, Takes
  <2>2. FifoOK' /\ ChainOK' /\ StatusOK'
    BY <1>7, <2>1, DoneType, ChainHead, Types
       DEF NotifySoundsEmpty, ChainOK, StatusOK
  <2>3. ObserversOK' /\ GhostsOK'
    BY <1>7, <2>1, Types
       DEF NotifySoundsEmpty, DropObserver, ObserversOK, GhostsOK
  <2> QED
    BY <1>7, <2>2, <2>3, Frames, TypesNext
       DEF NotifySoundsEmpty, callVars, playerVars, outside
<1>8. CASE DeleteAction
  <2>1. FifoOK' /\ StatusOK'
    BY <1>8, DoneType, Types DEF DeleteAction, Takes, StatusOK
  <2> QED
    BY <1>8, <2>1, Frames, TypesNext
       DEF DeleteAction, callVars, playerVars, outside, ghosts
<1> QED
  BY <1>1, <1>2, <1>3, <1>4, <1>5, <1>6, <1>7, <1>8

LEMMA SessionTypes ==
    ASSUME TypeOK, FlowInv,
           OnRinging \/ OnAnswer \/ OnInvite \/ OnConnected \/ OnDigit \/ OnBye
           \/ EndCommand \/ RonaCommand
    PROVE  TypeOK' /\ FlowInv'
<1> DEFINE c == Head(fifo).call
<1>0. /\ c \in Calls /\ fifo # <<>>
      /\ Done => FifoOK'
      /\ DoneThen(<<RunCommand(c)>>) => FifoOK'
  <2>1. fifo # <<>>
    BY DEF OnRinging, OnAnswer, OnInvite, OnConnected, OnDigit, OnBye,
       EndCommand, RonaCommand, Takes
  <2> QED
    BY <2>1, HeadType, DoneType, RunCommandType, Types
<1>1. CASE OnRinging
  <2>1. CallsOK' /\ OutsideOK' /\ FifoOK'
    BY <1>0, <1>1, Types DEF OnRinging, CallsOK, OutsideOK
  <2> QED
    BY <1>1, <2>1, Frames, TypesNext DEF OnRinging, chainVars, playerVars, ghosts
<1>2. CASE OnAnswer
  <2>1. FifoOK'
    BY <1>0, <1>2 DEF OnAnswer
  <2>2. CallsOK' /\ PlayerOK'
    <3>1. CASE StartPlayer(c)
      BY <1>0, <1>2, <3>1, StartPlayerTypes, Types DEF OnAnswer, CallsOK
    <3>2. CASE UNCHANGED <<life, mCallState, player, mQueueWasEmpty, mStopping>>
      BY <1>2, <3>2, Types DEF OnAnswer, CallsOK, PlayerOK
    <3> QED
      BY <1>2, <3>1, <3>2 DEF OnAnswer
  <2> QED
    BY <1>2, <2>1, <2>2, Frames, TypesNext DEF OnAnswer, chainVars, outside, ghosts
<1>3. CASE OnInvite
  <2>1. CallsOK' /\ OutsideOK' /\ FifoOK'
    BY <1>0, <1>3, Types DEF OnInvite, CallsOK, OutsideOK
  <2> QED
    BY <1>3, <2>1, Frames, TypesNext DEF OnInvite, chainVars, playerVars, ghosts
<1>4. CASE OnConnected
  <2>1. FifoOK' /\ UNCHANGED <<life, mIncomming, sounds, cleared, late, deadUse,
                              rest, made>>
        /\ UNCHANGED chainVars /\ UNCHANGED outside
    BY <1>0, <1>4 DEF OnConnected
  <2>2. CallsOK' /\ PlayerOK' /\ SipOK' /\ GhostsOK' /\ FlowInv'
    <3>1. CASE StartPlayer(c) /\ UNCHANGED <<sip, missed>>
      BY <1>0, <2>1, <3>1, StartPlayerTypes, Types
         DEF CallsOK, SipOK, GhostsOK, FlowInv
    <3>2. CASE /\ Terminate(c) \/ KeepOn
               /\ UNCHANGED <<mCallState, mQueueWasEmpty>>
      BY <1>0, <2>1, <3>2, TerminateTypes, Types DEF CallsOK
    <3> QED
      BY <1>4, <3>1, <3>2 DEF OnConnected
  <2> QED
    BY <2>1, <2>2, Frames, TypesNext DEF chainVars
<1>5. CASE OnDigit
  <2>1. PlayerOK' /\ GhostsOK' /\ FifoOK'
    BY <1>0, <1>5, Types DEF OnDigit, PlayerOK, GhostsOK
  <2> QED
    BY <1>5, <2>1, Frames, TypesNext DEF OnDigit, callVars, chainVars, outside
<1>6. CASE OnBye \/ EndCommand \/ RonaCommand
  <2>1. /\ FifoOK'
        /\ Terminate(c) \/ KeepOn
        /\ UNCHANGED terminateFrame
    BY <1>0, <1>6 DEF OnBye, EndCommand, RonaCommand, End
  <2>2. CallsOK'
    BY <1>6, Types DEF OnBye, EndCommand, RonaCommand, End, terminateFrame,
       CallsOK
  <2>3. SipOK' /\ PlayerOK' /\ GhostsOK' /\ FlowInv'
    BY <1>0, <2>1, TerminateTypes DEF terminateFrame
  <2> QED
    BY <2>1, <2>2, <2>3, Frames, TypesNext
       DEF terminateFrame, chainVars, outside
<1> QED
  BY <1>1, <1>2, <1>3, <1>4, <1>5, <1>6

LEMMA EndTypes ==
    ASSUME TypeOK, FlowInv, OnCallTerminated \/ DestroyHop \/ DestroyCall
    PROVE  TypeOK' /\ FlowInv'
<1> DEFINE c == Head(fifo).call
<1>1. CASE OnCallTerminated
  <2>1. CallsOK' /\ SipOK' /\ FlowInv'
    BY <1>1, Types DEF OnCallTerminated, CallsOK, SipOK, FlowInv, Idle
  <2> QED
    BY <1>1, <2>1, Frames, TypesNext
       DEF OnCallTerminated, chainVars, playerVars, outside, ghosts
<1>2. CASE DestroyHop
  <2>1. Head(fifo) \in Messages /\ Head(fifo).hop < Hops /\ fifo # <<>>
    BY <1>2, DoneType, Types DEF DestroyHop, Takes
  <2>2. [Head(fifo) EXCEPT !.hop = @ + 1] \in Messages
    BY <2>1, PhoneAssumption DEF Messages
  <2>3. FifoOK'
    <3>1. <<[Head(fifo) EXCEPT !.hop = @ + 1]>> \in Seq(Messages)
      BY <2>2
    <3> QED
      BY <1>2, <2>1, <3>1, DoneType, Types DEF DestroyHop
  <2> QED
    BY <1>2, <2>3, Frames, TypesNext
       DEF DestroyHop, callVars, chainVars, playerVars, outside, ghosts
<1>3. CASE DestroyCall
  <2> DEFINE deletes == [i \in DOMAIN chain[c] |->
                           Message("delete", c, chain[c][i])]
  <2>1. c \in Calls /\ fifo # <<>> /\ chain[c] \in Seq(Action)
    BY <1>3, HeadType, Types DEF DestroyCall, Takes, ChainOK
  <2>2. ASSUME NEW i \in DOMAIN chain[c]
        PROVE  Message("delete", c, chain[c][i]) \in Messages
    BY <2>1, <2>2, ElementType, MessageType DEF Op
  <2>3. deletes \in Seq(Messages)
    BY <2>1, <2>2
  <2>4. FifoOK'
    BY <1>3, <2>1, <2>3, DoneType, Types DEF DestroyCall
  <2>5. CallsOK' /\ StatusOK'
    BY <1>3, Types DEF DestroyCall, CallsOK, StatusOK
  <2>6. ChainOK'
    <3>1. <<>> \in Seq(Action) /\ chain' = [chain EXCEPT ![c] = <<>>]
      BY <1>3 DEF DestroyCall
    <3> QED
      BY <3>1, Types DEF ChainOK
  <2>7. ObserversOK'
    BY <1>3, Types DEF DestroyCall, ObserversOK
  <2> QED
    BY <1>3, <2>4, <2>5, <2>6, <2>7, Frames, TypesNext
       DEF DestroyCall, playerVars, outside, ghosts
<1> QED
  BY <1>1, <1>2, <1>3

LEMMA StepTypes ==
    ASSUME TypeOK, FlowInv, ComingInv, [Next]_vars
    PROVE  TypeOK' /\ FlowInv'
<1>1. CASE Next
  BY <1>1, WebThreadTypes, OutsideTypes, CommandTypes, SessionTypes, EndTypes,
     PlayerTypes, DestroyTypes DEF Next, SipThread
<1>2. CASE UNCHANGED vars
  BY <1>2, Frames, TypesNext
     DEF vars, callVars, chainVars, playerVars, outside, ghosts
<1> QED
  BY <1>1, <1>2

-----------------------------------------------------------------------------
(* The chains *)

LEMMA InitCore == Init => CoreInv
<1> SUFFICES ASSUME Init PROVE CoreInv
  OBVIOUS
<1>1. ComingInv /\ DeleteInv
  BY DEF Init, ComingInv, DeleteInv, NoRest
<1>2. ChainInv /\ InvokedInv /\ InvokedInOrder /\ ObserverInv
  BY DEF Init, ChainInv, InvokedInv, InvokedInOrder, ObserverInv
<1> QED
  BY <1>1, <1>2 DEF CoreInv

(* Where the messages are after one more is posted. *)
LEMMA PostAt ==
    ASSUME FifoOK, NEW m \in Messages, Post(m)
    PROVE  /\ \A k \in DOMAIN fifo : k \in DOMAIN fifo' /\ fifo'[k] = fifo[k]
           /\ \A k \in DOMAIN fifo' :
                 \/ k \in DOMAIN fifo /\ fifo'[k] = fifo[k]
                 \/ k = Len(fifo) + 1 /\ fifo'[k] = m
           /\ Len(fifo) + 1 \in DOMAIN fifo' /\ fifo'[Len(fifo) + 1] = m
           /\ DOMAIN fifo = 1..Len(fifo) /\ Len(fifo) \in Nat
BY DEF FifoOK, Post

(* Where they are after the first one was handled. *)
LEMMA DoneAt ==
    ASSUME FifoOK, fifo # <<>>, NEW ms \in Seq(Messages), DoneThen(ms)
    PROVE  /\ \A k \in DOMAIN fifo' :
                 \/ k < Len(fifo) /\ k + 1 \in DOMAIN fifo /\ fifo'[k] = fifo[k + 1]
                 \/ /\ k >= Len(fifo) /\ k + 1 - Len(fifo) \in DOMAIN ms
                    /\ fifo'[k] = ms[k + 1 - Len(fifo)]
           /\ \A k \in DOMAIN fifo : k # 1 =>
                 k - 1 \in DOMAIN fifo' /\ fifo'[k - 1] = fifo[k]
           /\ \A j \in DOMAIN ms :
                 Len(fifo) - 1 + j \in DOMAIN fifo'
                 /\ fifo'[Len(fifo) - 1 + j] = ms[j]
           /\ 1 \in DOMAIN fifo /\ fifo[1] = Head(fifo) /\ Len(fifo) \in Nat \ {0}
           /\ DOMAIN fifo = 1..Len(fifo) /\ DOMAIN ms = 1..Len(ms)
           /\ DOMAIN fifo' = 1..(Len(fifo) - 1 + Len(ms)) /\ Len(ms) \in Nat
<1> DEFINE t == Tail(fifo)
<1>1. t \in Seq(Messages) /\ Len(t) = Len(fifo) - 1 /\ Len(fifo) \in Nat \ {0}
      /\ \A k \in 1..Len(t) : t[k] = fifo[k + 1]
  BY DEF FifoOK
<1>2. fifo' = t \o ms
  BY DEF DoneThen
<1>3. Len(t \o ms) = Len(t) + Len(ms) /\ Len(ms) \in Nat /\ DOMAIN ms = 1..Len(ms)
      /\ DOMAIN (t \o ms) = 1..(Len(t) + Len(ms))
      /\ \A k \in 1..(Len(t) + Len(ms)) :
            (t \o ms)[k] = IF k <= Len(t) THEN t[k] ELSE ms[k - Len(t)]
  BY <1>1
<1>4. DOMAIN fifo = 1..Len(fifo) /\ fifo[1] = Head(fifo)
  BY DEF FifoOK
<1> HIDE DEF t
<1>5. DOMAIN fifo' = 1..(Len(fifo) - 1 + Len(ms))
  BY <1>1, <1>2, <1>3
<1>6. ASSUME NEW k \in DOMAIN fifo'
      PROVE  \/ k < Len(fifo) /\ k + 1 \in DOMAIN fifo /\ fifo'[k] = fifo[k + 1]
             \/ /\ k >= Len(fifo) /\ k + 1 - Len(fifo) \in DOMAIN ms
                /\ fifo'[k] = ms[k + 1 - Len(fifo)]
  <2>0. k \in 1..(Len(t) + Len(ms)) /\ k \in Nat
    BY <1>1, <1>3, <1>5, <1>6
  <2>1. CASE k < Len(fifo)
    BY <1>1, <1>2, <1>3, <1>4, <2>0, <2>1
  <2>2. CASE k >= Len(fifo)
    <3>1. ~(k <= Len(t)) /\ k - Len(t) = k + 1 - Len(fifo)
      BY <1>1, <2>0, <2>2
    <3>2. k + 1 - Len(fifo) \in 1..Len(ms)
      BY <1>1, <1>3, <2>0, <2>2
    <3>3. fifo'[k] = ms[k - Len(t)]
      BY <1>2, <1>3, <2>0, <3>1
    <3> QED
      BY <1>3, <2>2, <3>1, <3>2, <3>3
  <2> QED
    BY <1>1, <2>0, <2>1, <2>2
<1>7. ASSUME NEW k \in DOMAIN fifo, k # 1
      PROVE  k - 1 \in DOMAIN fifo' /\ fifo'[k - 1] = fifo[k]
  <2>1. k - 1 \in 1..Len(t) /\ k - 1 \in 1..(Len(t) + Len(ms))
        /\ (k - 1) + 1 = k /\ k - 1 <= Len(t)
    BY <1>1, <1>3, <1>4, <1>7
  <2>2. k - 1 \in DOMAIN fifo'
    BY <1>1, <1>5, <2>1
  <2> QED
    BY <1>1, <1>2, <1>3, <2>1, <2>2
<1>8. ASSUME NEW j \in DOMAIN ms
      PROVE  Len(fifo) - 1 + j \in DOMAIN fifo' /\ fifo'[Len(fifo) - 1 + j] = ms[j]
  <2>1. PICK k : k = Len(fifo) - 1 + j
    OBVIOUS
  <2>2. j \in Nat /\ 1 <= j /\ j <= Len(ms) /\ Len(t) \in Nat
    BY <1>1, <1>3, <1>8
  <2>3. k = Len(t) + j
    BY <1>1, <2>1, <2>2
  <2>4. k \in 1..(Len(t) + Len(ms)) /\ ~(k <= Len(t)) /\ k - Len(t) = j
    BY <1>3, <2>2, <2>3
  <2>5. (t \o ms)[k] = ms[j] /\ k \in DOMAIN (t \o ms)
    BY <1>3, <2>4
  <2> QED
    BY <1>2, <2>1, <2>5
<1> QED
  BY <1>1, <1>3, <1>4, <1>5, <1>6, <1>7, <1>8

LEMMA NothingMore ==
    ASSUME FifoOK, fifo # <<>>, Done
    PROVE  DoneThen(<<>>) /\ <<>> \in Seq(Messages)
BY DEF FifoOK, Done, DoneThen

coreVars == <<rest, made, status, chain, mRtpObservers, invoked>>

Quiet(m) == m.op \notin {"add", "delete"}

\* Messages of some kind, when none of that kind is posted.
LEMMA MovedFrom ==
    ASSUME FifoOK, fifo # <<>>, NEW O,
           NEW ms \in Seq(Messages), \A j \in DOMAIN ms : ms[j].op \notin O,
           DoneThen(ms)
    PROVE  \A k \in DOMAIN fifo' : fifo'[k].op \in O =>
                 k \in Nat \ {0} /\ k + 1 \in DOMAIN fifo /\ fifo'[k] = fifo[k + 1]
<1>1. ASSUME NEW k \in DOMAIN fifo', fifo'[k].op \in O
      PROVE  k \in Nat \ {0} /\ k + 1 \in DOMAIN fifo /\ fifo'[k] = fifo[k + 1]
  <2>1. k \in Nat \ {0}
    BY <1>1, DoneAt
  <2> QED
    BY <1>1, <2>1, DoneAt
<1> QED
  BY <1>1

\* And when none of that kind is handled either.
LEMMA Moved ==
    ASSUME FifoOK, fifo # <<>>, NEW O, Head(fifo).op \notin O,
           NEW ms \in Seq(Messages), \A j \in DOMAIN ms : ms[j].op \notin O,
           DoneThen(ms)
    PROVE  /\ \A k \in DOMAIN fifo' : fifo'[k].op \in O =>
                 k \in Nat /\ k + 1 \in DOMAIN fifo /\ fifo'[k] = fifo[k + 1]
           /\ \A k \in DOMAIN fifo : fifo[k].op \in O =>
                 k \in Nat /\ k - 1 \in DOMAIN fifo' /\ fifo'[k - 1] = fifo[k]
<1>1. ASSUME NEW k \in DOMAIN fifo', fifo'[k].op \in O
      PROVE  k \in Nat /\ k + 1 \in DOMAIN fifo /\ fifo'[k] = fifo[k + 1]
  <2>1. k \in Nat
    BY <1>1, DoneAt
  <2> QED
    BY <1>1, <2>1, DoneAt
<1>2. ASSUME NEW k \in DOMAIN fifo, fifo[k].op \in O
      PROVE  k \in Nat /\ k - 1 \in DOMAIN fifo' /\ fifo'[k - 1] = fifo[k]
  <2>1. k \in Nat /\ k # 1
    BY <1>2, DoneAt
  <2> QED
    BY <1>2, <2>1, DoneAt
<1> QED
  BY <1>1, <1>2

\* No action is added: those to come are the same, in the same order.
LEMMA NoAdd ==
    ASSUME FifoOK, RestOK, ComingInv, fifo # <<>>, Head(fifo).op # "add",
           NEW ms \in Seq(Messages), \A j \in DOMAIN ms : ms[j].op # "add",
           DoneThen(ms), UNCHANGED <<rest, made>>,
           \A i \in ActionId :
               status[i] \in {"none", "posted"} => status'[i] = status[i],
           \A i \in ActionId : status'[i] = "none" <=> status[i] = "none"
    PROVE  ComingInv' /\ Coming' = Coming
<1>1. /\ \A k \in DOMAIN fifo' : fifo'[k].op = "add" =>
            k \in Nat /\ k + 1 \in DOMAIN fifo /\ fifo'[k] = fifo[k + 1]
      /\ \A k \in DOMAIN fifo : fifo[k].op = "add" =>
            k \in Nat /\ k - 1 \in DOMAIN fifo' /\ fifo'[k - 1] = fifo[k]
  BY Moved, "add" \in {"add"}
<1>2. Coming' = Coming
  BY <1>1 DEF Coming
<1>3. ComingInv'
  <2>1. ASSUME NEW k \in DOMAIN fifo', fifo'[k].op = "add"
        PROVE  /\ fifo'[k].action \in Action
               /\ status'[fifo'[k].action.id] = "posted"
               /\ \A l \in DOMAIN fifo' : k < l /\ fifo'[l].op = "add" =>
                     fifo'[k].action.id < fifo'[l].action.id
               /\ \A j \in DOMAIN rest'.left :
                     fifo'[k].action.id < rest'.left[j].id
    <3>1. /\ k \in Nat /\ k + 1 \in DOMAIN fifo /\ fifo'[k] = fifo[k + 1]
          /\ fifo[k + 1].op = "add"
      BY <1>1, <2>1
    <3>2. fifo'[k].action \in Action /\ fifo'[k].action.id \in ActionId
      BY <3>1 DEF ComingInv, Action
    <3>3. status'[fifo'[k].action.id] = "posted"
      BY <3>1, <3>2 DEF ComingInv
    <3>4. ASSUME NEW l \in DOMAIN fifo', k < l, fifo'[l].op = "add"
          PROVE  fifo'[k].action.id < fifo'[l].action.id
      <4>1. /\ l \in Nat /\ l + 1 \in DOMAIN fifo /\ fifo'[l] = fifo[l + 1]
            /\ k + 1 < l + 1
        BY <1>1, <3>1, <3>4
      <4> QED
        BY <3>1, <3>4, <4>1 DEF ComingInv
    <3> QED
      BY <3>1, <3>2, <3>3, <3>4 DEF ComingInv
  <2>2. ASSUME NEW j \in DOMAIN rest'.left
        PROVE  /\ rest'.left[j].id <= made' /\ status'[rest'.left[j].id] = "none"
               /\ \A l \in DOMAIN rest'.left :
                     j < l => rest'.left[j].id < rest'.left[l].id
    <3>1. rest' = rest /\ rest.left[j].id \in ActionId
      BY <2>2, ActionAt DEF RestOK
    <3> QED
      BY <2>2, <3>1 DEF ComingInv
  <2> QED
    BY <2>1, <2>2 DEF ComingInv
<1> QED
  BY <1>2, <1>3

(* Messages that neither add nor delete an action change nothing here. *)
LEMMA QuietPost ==
    ASSUME TypeOK, CoreInv, NEW m \in Messages, Quiet(m), Post(m),
           UNCHANGED coreVars
    PROVE  CoreInv'
<1> USE DEF coreVars
<1>0. FifoOK
  BY Types
<1>1. Coming' = Coming
  BY <1>0, PostAt DEF Coming, Quiet
<1>2. ComingInv'
  BY <1>0, PostAt DEF CoreInv, ComingInv, Quiet
<1>3. DeleteInv'
  BY <1>0, PostAt DEF CoreInv, DeleteInv, Quiet
<1>4. ChainInv' /\ InvokedInv'
  BY <1>1 DEF CoreInv, ChainInv, InvokedInv
<1>5. InvokedInOrder' /\ ObserverInv'
  BY DEF CoreInv, InvokedInOrder, ObserverInv
<1> QED
  BY <1>2, <1>3, <1>4, <1>5 DEF CoreInv

\* No action is deleted: the commands that delete one are the same.
LEMMA NoDelete ==
    ASSUME FifoOK, DeleteInv, fifo # <<>>, Head(fifo).op # "delete",
           NEW ms \in Seq(Messages), \A j \in DOMAIN ms : ms[j].op # "delete",
           DoneThen(ms),
           \A i \in ActionId : status'[i] = "cleaned" <=> status[i] = "cleaned"
    PROVE  DeleteInv'
<1>1. /\ \A k \in DOMAIN fifo' : fifo'[k].op = "delete" =>
            k \in Nat /\ k + 1 \in DOMAIN fifo /\ fifo'[k] = fifo[k + 1]
      /\ \A k \in DOMAIN fifo : fifo[k].op = "delete" =>
            k \in Nat /\ k - 1 \in DOMAIN fifo' /\ fifo'[k - 1] = fifo[k]
  BY Moved, "delete" \in {"delete"}
<1>2. ASSUME NEW k \in DOMAIN fifo', fifo'[k].op = "delete"
      PROVE  /\ fifo'[k].action \in Action
             /\ status'[fifo'[k].action.id] = "cleaned"
             /\ \A l \in DOMAIN fifo' :
                   fifo'[l].op = "delete"
                   /\ fifo'[l].action.id = fifo'[k].action.id => k = l
  <2>1. /\ k \in Nat /\ k + 1 \in DOMAIN fifo /\ fifo'[k] = fifo[k + 1]
        /\ fifo[k + 1].op = "delete"
    BY <1>1, <1>2
  <2>2. fifo'[k].action \in Action /\ fifo'[k].action.id \in ActionId
    BY <2>1 DEF DeleteInv, Action
  <2>3. ASSUME NEW l \in DOMAIN fifo', fifo'[l].op = "delete",
               fifo'[l].action.id = fifo'[k].action.id
        PROVE  k = l
    <3>1. l \in Nat /\ l + 1 \in DOMAIN fifo /\ fifo'[l] = fifo[l + 1]
      BY <1>1, <2>3
    <3>2. k + 1 = l + 1
      BY <2>1, <2>3, <3>1 DEF DeleteInv
    <3> QED
      BY <2>1, <3>1, <3>2
  <2> QED
    BY <2>1, <2>2, <2>3 DEF DeleteInv
<1>3. ASSUME NEW i \in ActionId, status'[i] = "cleaned"
      PROVE  \E k \in DOMAIN fifo' : fifo'[k].op = "delete"
                                     /\ fifo'[k].action.id = i
  BY <1>1, <1>3 DEF DeleteInv
<1> QED
  BY <1>2, <1>3 DEF DeleteInv

LEMMA QuietDone ==
    ASSUME TypeOK, CoreInv, fifo # <<>>, Quiet(Head(fifo)),
           NEW ms \in Seq(Messages), \A j \in DOMAIN ms : Quiet(ms[j]),
           DoneThen(ms), UNCHANGED coreVars
    PROVE  CoreInv'
<1> USE DEF coreVars
<1>0. FifoOK /\ RestOK
  BY Types
<1>1. Coming' = Coming /\ ComingInv'
  BY <1>0, NoAdd DEF CoreInv, Quiet
<1>3. DeleteInv'
  BY <1>0, NoDelete DEF CoreInv, Quiet
<1>4. ChainInv' /\ InvokedInv'
  BY <1>1 DEF CoreInv, ChainInv, InvokedInv
<1>5. InvokedInOrder' /\ ObserverInv'
  BY DEF CoreInv, InvokedInOrder, ObserverInv
<1> QED
  BY <1>1, <1>3, <1>4, <1>5 DEF CoreInv

LEMMA Unchanged ==
    ASSUME CoreInv, UNCHANGED fifo, UNCHANGED coreVars
    PROVE  CoreInv'
BY DEF coreVars, CoreInv, Coming, ComingInv, DeleteInv, ChainInv, InvokedInv,
   InvokedInOrder, ObserverInv

\* Numbers that are not made yet belong to no action.
LEMMA OnlyMade ==
    ASSUME TypeOK, ComingInv
    PROVE  /\ made \in Nat /\ ActionId \subseteq Nat
           /\ \A i \in ActionId : status[i] # "none" => i <= made
<1>1. made \in Nat /\ ActionId \subseteq Nat
  BY PhoneAssumption, Types DEF RestOK, ActionId
<1>2. \A i \in ActionId : made < i => status[i] = "none"
  BY DEF ComingInv
<1> QED
  BY <1>1, <1>2

\* What is in a chain or was invoked was posted before, and added.
LEMMA WasAdded ==
    ASSUME TypeOK, CoreInv, NEW c \in Calls
    PROVE  /\ \A i \in DOMAIN chain[c] :
                 /\ chain[c][i] \in Action /\ chain[c][i].id \in ActionId
                 /\ status[chain[c][i].id] \in {"added", "invoked"}
                 /\ chain[c][i].id <= made
           /\ \A k \in DOMAIN invoked[c] :
                 invoked[c][k] \in ActionId /\ invoked[c][k] <= made
<1>1. ComingInv
  BY DEF CoreInv
<1>2. ASSUME NEW i \in DOMAIN chain[c]
      PROVE  /\ chain[c][i] \in Action /\ chain[c][i].id \in ActionId
             /\ status[chain[c][i].id] \in {"added", "invoked"}
             /\ chain[c][i].id <= made
  <2>1. chain[c][i] \in Action /\ chain[c][i].id \in ActionId
    BY <1>2, ActionAt, Types DEF ChainOK
  <2>2. status[chain[c][i].id] \in {"added", "invoked"}
    BY <1>2 DEF CoreInv, ChainInv
  <2> QED
    BY <1>1, <2>1, <2>2, OnlyMade
<1>3. ASSUME NEW k \in DOMAIN invoked[c]
      PROVE  invoked[c][k] \in ActionId /\ invoked[c][k] <= made
  <2>1. invoked[c][k] \in ActionId
    BY <1>3, ElementType, Types DEF InvokedOK
  <2>2. status[invoked[c][k]] \notin {"none", "posted"}
    BY <1>3 DEF CoreInv, InvokedInv
  <2> QED
    BY <1>1, <2>1, <2>2, OnlyMade
<1> QED
  BY <1>2, <1>3

(* The actions of a plan have numbers that were not used before. *)
LEMMA StartPlanCore ==
    ASSUME TypeOK, CoreInv, NEW c \in Calls, NEW p \in Plans, StartPlan(c, p),
           UNCHANGED <<fifo, status, chain, mRtpObservers, invoked>>
    PROVE  CoreInv'
<1>1. Len(p) \in Nat /\ DOMAIN p = 1..Len(p)
  <2>1. p \in Seq([kind : Kind, sounds : Nat])
    BY PhoneAssumption
  <2> QED
    BY <2>1
<1>2. made \in Nat /\ made' = made + Len(p) /\ made' <= MaxActions
      /\ made' \in Nat /\ ActionId \subseteq Nat
  BY <1>1, PhoneAssumption, Types DEF StartPlan, RestOK, ActionId
<1>3. rest.left = <<>>
  BY DEF StartPlan, NoRest
<1>4. /\ DOMAIN rest'.left = 1..Len(p)
      /\ \A j \in 1..Len(p) : rest'.left[j].id = made + j
  BY <1>1 DEF StartPlan, ActionsOf
<1>5. \A j \in DOMAIN rest'.left : /\ made < rest'.left[j].id
                                   /\ rest'.left[j].id <= made'
                                   /\ rest'.left[j].id \in ActionId
  <2>1. ASSUME NEW j \in 1..Len(p)
        PROVE  made < made + j /\ made + j <= made' /\ made + j \in ActionId
    BY <1>1, <1>2, <2>1, PhoneAssumption DEF ActionId
  <2> QED
    BY <1>4, <2>1
<1>6. \A k \in DOMAIN fifo : fifo[k].op = "add" =>
          fifo[k].action.id \in ActionId /\ fifo[k].action.id <= made
  <2>1. ASSUME NEW k \in DOMAIN fifo, fifo[k].op = "add"
        PROVE  fifo[k].action.id \in ActionId /\ fifo[k].action.id <= made
    <3>1. fifo[k].action.id \in ActionId /\ status[fifo[k].action.id] = "posted"
      BY <2>1 DEF CoreInv, ComingInv, Action
    <3> QED
      BY <3>1, OnlyMade DEF CoreInv
  <2> QED
    BY <2>1
<1>7. \A x \in Coming' : x \in Coming \/ (x \in Nat /\ made < x)
  BY <1>2, <1>5 DEF Coming
<1>8. ComingInv'
  <2>1. \A k \in DOMAIN fifo : fifo[k].op = "add" =>
            \A j \in DOMAIN rest'.left : fifo[k].action.id < rest'.left[j].id
    BY <1>2, <1>5, <1>6
  <2>2. \A j, l \in DOMAIN rest'.left :
            j < l => rest'.left[j].id < rest'.left[l].id
    BY <1>1, <1>2, <1>4
  <2>3. \A j \in DOMAIN rest'.left : status[rest'.left[j].id] = "none"
    BY <1>2, <1>5 DEF CoreInv, ComingInv
  <2>4. \A i \in ActionId : made' < i => status[i] = "none"
    <3>1. \A i \in ActionId : made' < i => made < i
      BY <1>1, <1>2
    <3> QED
      BY <3>1 DEF CoreInv, ComingInv
  <2> QED
    BY <1>5, <2>1, <2>2, <2>3, <2>4 DEF CoreInv, ComingInv
<1>9. ChainInv'
  <2>1. \A d \in Calls : \A i \in DOMAIN chain[d] : \A x \in Coming' :
            chain[d][i].id < x
    <3>1. \A d \in Calls : \A i \in DOMAIN chain[d] :
              chain[d][i].id \in Nat /\ chain[d][i].id <= made
      BY <1>2, WasAdded
    <3>2. \A d \in Calls : \A i \in DOMAIN chain[d] : \A x \in Coming :
              chain[d][i].id < x
      BY DEF CoreInv, ChainInv
    <3> QED
      BY <1>2, <1>7, <3>1, <3>2
  <2> QED
    BY <2>1 DEF CoreInv, ChainInv
<1>10. InvokedInv'
  <2>1. \A d \in Calls : \A k \in DOMAIN invoked[d] : \A x \in Coming' :
            invoked[d][k] < x
    <3>1. \A d \in Calls : \A k \in DOMAIN invoked[d] :
              invoked[d][k] \in Nat /\ invoked[d][k] <= made
      BY <1>2, WasAdded
    <3>2. \A d \in Calls : \A k \in DOMAIN invoked[d] : \A x \in Coming :
              invoked[d][k] < x
      BY DEF CoreInv, InvokedInv
    <3> QED
      BY <1>2, <1>7, <3>1, <3>2
  <2> QED
    BY <2>1 DEF CoreInv, InvokedInv
<1>11. InvokedInOrder' /\ ObserverInv' /\ DeleteInv'
  BY DEF CoreInv, InvokedInOrder, ObserverInv, DeleteInv
<1> QED
  BY <1>8, <1>9, <1>10, <1>11 DEF CoreInv

(* asyncAddAction: the first action to come is still the first one. *)
LEMMA PostAddCore ==
    ASSUME TypeOK, FlowInv, CoreInv, PostAdd
    PROVE  CoreInv'
<1> DEFINE c == rest.call
           a == Head(rest.left)
           n == Len(rest.left)
<1>1. /\ rest.left \in Seq(Action) /\ n \in Nat \ {0} /\ DOMAIN rest.left = 1..n
      /\ a = rest.left[1] /\ a \in Action /\ a.id \in ActionId /\ c \in Calls
  <2>1. rest.left \in Seq(Action) /\ rest.left # <<>> /\ c \in Calls
    BY Types DEF PostAdd, RestOK, FlowInv
  <2>2. n \in Nat \ {0} /\ DOMAIN rest.left = 1..n /\ a = rest.left[1]
    BY <2>1
  <2> QED
    BY <2>1, <2>2, ActionAt
<1>2. made \in Nat /\ ActionId \subseteq Nat /\ FifoOK /\ StatusOK
      /\ status' = [status EXCEPT ![a.id] = "posted"]
      /\ UNCHANGED <<made, chain, mRtpObservers, invoked>>
  BY PhoneAssumption, Types DEF RestOK, ActionId, PostAdd
<1>3. Message("add", c, a) \in Messages /\ Message("add", c, a).op = "add"
      /\ Message("add", c, a).action = a
  BY <1>1, MessageType DEF Op
<1>4. /\ DOMAIN rest'.left = 1..(n - 1)
      /\ \A j \in 1..(n - 1) : rest'.left[j] = rest.left[j + 1]
  <2>1. CASE n = 1
    BY <1>1, <2>1 DEF PostAdd, NoRest
  <2>2. CASE n # 1
    <3>1. rest'.left = Tail(rest.left)
      BY <2>2, Types DEF PostAdd, RestOK
    <3> QED
      BY <1>1, <3>1
  <2> QED
    BY <2>1, <2>2
<1>5. /\ \A k \in DOMAIN fifo : k \in DOMAIN fifo' /\ fifo'[k] = fifo[k]
      /\ \A k \in DOMAIN fifo' :
            \/ k \in DOMAIN fifo /\ fifo'[k] = fifo[k]
            \/ k = Len(fifo) + 1 /\ fifo'[k].op = "add" /\ fifo'[k].action = a
      /\ Len(fifo) + 1 \in DOMAIN fifo'
      /\ DOMAIN fifo = 1..Len(fifo) /\ Len(fifo) \in Nat
  BY <1>2, <1>3, PostAt DEF PostAdd
<1> HIDE DEF a, n, c
<1>6. status[a.id] = "none" /\ a.id <= made
      /\ \A j \in 1..(n - 1) : a.id < rest'.left[j].id
  <2>1. \A j \in 1..(n - 1) : j + 1 \in DOMAIN rest.left /\ 1 < j + 1
    BY <1>1
  <2>2. 1 \in DOMAIN rest.left
    BY <1>1
  <2> QED
    BY <1>1, <1>4, <2>1, <2>2 DEF CoreInv, ComingInv
<1>7. \A j \in 1..(n - 1) : j + 1 \in DOMAIN rest.left
                          /\ rest.left[j + 1].id \in ActionId
  <2>1. \A j \in 1..(n - 1) : j + 1 \in DOMAIN rest.left
    BY <1>1
  <2> QED
    BY <1>1, <2>1, ActionAt
<1>8. Coming' \subseteq Coming
  <2>1. a.id \in Coming
    BY <1>1 DEF Coming
  <2> QED
    BY <1>4, <1>5, <1>7, <2>1 DEF Coming
<1>9. ComingInv'
  <2>1. ASSUME NEW k \in DOMAIN fifo', fifo'[k].op = "add"
        PROVE  /\ fifo'[k].action \in Action
               /\ status'[fifo'[k].action.id] = "posted"
               /\ \A l \in DOMAIN fifo' : k < l /\ fifo'[l].op = "add" =>
                     fifo'[k].action.id < fifo'[l].action.id
               /\ \A j \in DOMAIN rest'.left :
                     fifo'[k].action.id < rest'.left[j].id
    <3>1. CASE k \in DOMAIN fifo /\ fifo'[k] = fifo[k]
      <4>1. /\ fifo[k].action \in Action
            /\ status[fifo[k].action.id] = "posted"
            /\ fifo[k].action.id < a.id
        BY <1>1, <2>1, <3>1 DEF CoreInv, ComingInv
      <4>2. status'[fifo[k].action.id] = "posted"
        BY <1>2, <4>1 DEF StatusOK
      <4>3. \A l \in DOMAIN fifo' : k < l /\ fifo'[l].op = "add" =>
                fifo[k].action.id < fifo'[l].action.id
        BY <1>5, <2>1, <3>1, <4>1 DEF CoreInv, ComingInv
      <4>4. \A j \in DOMAIN rest'.left : fifo[k].action.id < rest'.left[j].id
        BY <1>4, <1>7, <2>1, <3>1 DEF CoreInv, ComingInv
      <4> QED
        BY <3>1, <4>1, <4>2, <4>3, <4>4
    <3>2. CASE k = Len(fifo) + 1 /\ fifo'[k].action = a
      <4>1. status'[a.id] = "posted"
        BY <1>1, <1>2 DEF StatusOK
      <4>2. \A l \in DOMAIN fifo' : ~(k < l)
        BY <1>5, <3>2
      <4> QED
        BY <1>1, <1>4, <1>6, <3>2, <4>1, <4>2
    <3> QED
      BY <1>5, <3>1, <3>2
  <2>2. ASSUME NEW j \in DOMAIN rest'.left
        PROVE  /\ rest'.left[j].id <= made' /\ status'[rest'.left[j].id] = "none"
               /\ \A l \in DOMAIN rest'.left :
                     j < l => rest'.left[j].id < rest'.left[l].id
    <3>1. /\ j \in 1..(n - 1) /\ rest'.left[j] = rest.left[j + 1]
          /\ j + 1 \in DOMAIN rest.left /\ j \in Nat
      BY <1>1, <1>4, <1>7, <2>2
    <3>2. rest.left[j + 1].id # a.id /\ rest.left[j + 1].id \in ActionId
      <4>1. a.id < rest.left[j + 1].id /\ rest.left[j + 1].id \in ActionId
        BY <1>6, <1>7, <3>1
      <4>2. a.id \in Nat /\ rest.left[j + 1].id \in Nat
        BY <1>1, <1>2, <4>1
      <4> QED
        BY <4>1, <4>2
    <3>3. rest'.left[j].id <= made' /\ status'[rest'.left[j].id] = "none"
      BY <1>2, <3>1, <3>2 DEF CoreInv, ComingInv, StatusOK
    <3>4. ASSUME NEW l \in DOMAIN rest'.left, j < l
          PROVE  rest'.left[j].id < rest'.left[l].id
      <4>1. /\ rest'.left[l] = rest.left[l + 1] /\ l + 1 \in DOMAIN rest.left
            /\ j + 1 < l + 1
        BY <1>1, <1>4, <1>7, <3>1, <3>4
      <4> QED
        BY <3>1, <4>1 DEF CoreInv, ComingInv
    <3> QED
      BY <3>3, <3>4
  <2>3. ASSUME NEW i \in ActionId, made' < i
        PROVE  status'[i] = "none"
    BY <1>1, <1>2, <1>6, <2>3 DEF CoreInv, ComingInv, StatusOK
  <2> QED
    BY <2>1, <2>2, <2>3 DEF ComingInv
<1>10. \A i \in ActionId : status[i] # "none" => status'[i] = status[i]
  BY <1>2, <1>6 DEF StatusOK
<1>a. \A d \in Calls : \A i \in DOMAIN chain[d] :
          status'[chain[d][i].id] = status[chain[d][i].id]
  BY <1>10, WasAdded
<1>11. ChainInv'
  <2>1. ChainInv
    BY DEF CoreInv
  <2> QED
    BY <1>2, <1>8, <1>a, <2>1 DEF ChainInv
<1>b. \A d \in Calls : \A k \in DOMAIN invoked[d] :
          status'[invoked[d][k]] = status[invoked[d][k]]
  <2>1. InvokedInv
    BY DEF CoreInv
  <2> QED
    BY <1>10, <2>1, WasAdded DEF InvokedInv
<1>12. InvokedInv'
  <2>1. InvokedInv
    BY DEF CoreInv
  <2> QED
    BY <1>2, <1>8, <1>a, <1>b, <2>1 DEF InvokedInv
<1>13. InvokedInOrder' /\ ObserverInv'
  BY <1>2, <1>10, Types DEF CoreInv, InvokedInOrder, ObserverInv, ObserversOK
<1>14. DeleteInv'
  <2>1. \A i \in ActionId : status'[i] = "cleaned" <=> status[i] = "cleaned"
    BY <1>1, <1>2, <1>6 DEF StatusOK
  <2> QED
    BY <1>5, <2>1 DEF CoreInv, DeleteInv, Action
<1> QED
  BY <1>9, <1>11, <1>12, <1>13, <1>14 DEF CoreInv

(* appendAction: the first action to come is the last one of its chain. *)
LEMMA AddActionCore ==
    ASSUME TypeOK, CoreInv, AddAction
    PROVE  CoreInv'
<1> DEFINE c == Head(fifo).call
           a == Head(fifo).action
<1>1. /\ fifo # <<>> /\ FifoOK /\ StatusOK /\ c \in Calls
      /\ Head(fifo).op = "add" /\ fifo[1] = Head(fifo) /\ 1 \in DOMAIN fifo
      /\ UNCHANGED <<rest, made, mRtpObservers, invoked>>
  <2>1. fifo # <<>> /\ FifoOK /\ StatusOK
    BY Types DEF AddAction, Takes
  <2> QED
    BY <2>1, HeadType DEF AddAction, Takes, FifoOK
<1>2. a \in Action /\ a.id \in ActionId /\ status[a.id] = "posted"
  <2>1. a \in Action /\ status[a.id] = "posted"
    BY <1>1 DEF CoreInv, ComingInv
  <2> QED
    BY <2>1 DEF Action
<1>3. PICK ms \in Seq(Messages) :
         DoneThen(ms) /\ \A j \in DOMAIN ms : ms[j].op = "run"
  <2>1. <<>> \in Seq(Messages) /\ \A j \in DOMAIN <<>> : <<>>[j].op = "run"
    BY <1>1
  <2>2. \A j \in DOMAIN <<RunCommand(c)>> : <<RunCommand(c)>>[j].op = "run"
    BY <1>1, RunCommandType
  <2>3. Done => DoneThen(<<>>)
    BY <1>1, NothingMore
  <2>4. Done \/ DoneThen(<<RunCommand(c)>>)
    BY DEF AddAction
  <2>5. <<RunCommand(c)>> \in Seq(Messages)
    BY <1>1, RunCommandType
  <2> QED
    BY <2>1, <2>2, <2>3, <2>4, <2>5
<1>4. \A k \in DOMAIN fifo' : fifo'[k].op = "add" =>
          k \in Nat \ {0} /\ k + 1 \in DOMAIN fifo /\ fifo'[k] = fifo[k + 1]
  <2>1. \A j \in DOMAIN ms : ms[j].op \notin {"add"}
    BY <1>3
  <2> QED
    BY <1>1, <1>3, <2>1, MovedFrom
<1>5. Coming' \subseteq Coming /\ a.id \in Coming
      /\ \A x \in Coming' : a.id < x
  <2>1. a.id \in Coming
    BY <1>1, <1>2 DEF Coming
  <2>2. ASSUME NEW k \in DOMAIN fifo', fifo'[k].op = "add",
               fifo'[k].action.id \in ActionId
        PROVE  fifo'[k].action.id \in Coming /\ a.id < fifo'[k].action.id
    <3>1. /\ k + 1 \in DOMAIN fifo /\ fifo'[k] = fifo[k + 1] /\ 1 < k + 1
          /\ fifo[k + 1].op = "add"
      BY <1>4, <2>2
    <3>2. a.id < fifo[k + 1].action.id
      BY <1>1, <3>1 DEF CoreInv, ComingInv
    <3> QED
      BY <2>2, <3>1, <3>2 DEF Coming
  <2>3. ASSUME NEW j \in DOMAIN rest.left, rest.left[j].id \in ActionId
        PROVE  rest.left[j].id \in Coming /\ a.id < rest.left[j].id
    BY <1>1, <2>3 DEF Coming, CoreInv, ComingInv
  <2> QED
    BY <1>1, <2>1, <2>2, <2>3 DEF Coming
<1>6. /\ \A i \in ActionId : i # a.id => status'[i] = status[i]
      /\ status'[a.id] \in {"posted", "added"}
  BY <1>1, <1>2 DEF AddAction, StatusOK
<1>7. ComingInv'
  <2>1. ASSUME NEW k \in DOMAIN fifo', fifo'[k].op = "add"
        PROVE  /\ fifo'[k].action \in Action
               /\ status'[fifo'[k].action.id] = "posted"
               /\ \A l \in DOMAIN fifo' : k < l /\ fifo'[l].op = "add" =>
                     fifo'[k].action.id < fifo'[l].action.id
               /\ \A j \in DOMAIN rest'.left :
                     fifo'[k].action.id < rest'.left[j].id
    <3>1. /\ k \in Nat /\ k + 1 \in DOMAIN fifo /\ fifo'[k] = fifo[k + 1]
          /\ fifo[k + 1].op = "add" /\ 1 < k + 1
      BY <1>4, <2>1
    <3>2. /\ fifo'[k].action \in Action /\ status[fifo'[k].action.id] = "posted"
          /\ a.id < fifo'[k].action.id
      BY <1>1, <3>1 DEF CoreInv, ComingInv
    <3>3. fifo'[k].action.id \in ActionId /\ fifo'[k].action.id # a.id
      <4>1. fifo'[k].action.id \in ActionId
        BY <3>2 DEF Action
      <4>2. ~(a.id < a.id)
        BY <1>2 DEF ActionId
      <4> QED
        BY <3>2, <4>1, <4>2
    <3>4. status'[fifo'[k].action.id] = "posted"
      BY <1>6, <3>2, <3>3
    <3>5. ASSUME NEW l \in DOMAIN fifo', k < l, fifo'[l].op = "add"
          PROVE  fifo'[k].action.id < fifo'[l].action.id
      <4>1. /\ l \in Nat /\ l + 1 \in DOMAIN fifo /\ fifo'[l] = fifo[l + 1]
            /\ k + 1 < l + 1
        BY <1>4, <3>1, <3>5
      <4> QED
        BY <3>1, <3>5, <4>1 DEF CoreInv, ComingInv
    <3>6. \A j \in DOMAIN rest'.left : fifo'[k].action.id < rest'.left[j].id
      BY <1>1, <3>1 DEF CoreInv, ComingInv
    <3> QED
      BY <3>2, <3>4, <3>5, <3>6
  <2>2. ASSUME NEW j \in DOMAIN rest'.left
        PROVE  /\ rest'.left[j].id <= made' /\ status'[rest'.left[j].id] = "none"
               /\ \A l \in DOMAIN rest'.left :
                     j < l => rest'.left[j].id < rest'.left[l].id
    <3>1. rest.left[j].id \in ActionId /\ j \in DOMAIN rest.left
      BY <1>1, <2>2, ActionAt, Types DEF RestOK
    <3>2. status[rest.left[j].id] = "none"
      BY <3>1 DEF CoreInv, ComingInv
    <3>3. status'[rest.left[j].id] = "none"
      BY <1>2, <1>6, <3>1, <3>2
    <3> QED
      BY <1>1, <3>1, <3>3 DEF CoreInv, ComingInv
  <2>3. ASSUME NEW i \in ActionId, made' < i
        PROVE  status'[i] = "none"
    BY <1>1, <1>2, <1>6, <2>3 DEF CoreInv, ComingInv
  <2> QED
    BY <2>1, <2>2, <2>3 DEF ComingInv
<1>8. DeleteInv'
  <2>1. \A i \in ActionId : status'[i] = "cleaned" <=> status[i] = "cleaned"
    BY <1>2, <1>6
  <2>2. \A j \in DOMAIN ms : ms[j].op # "delete"
    BY <1>3
  <2> QED
    BY <1>1, <1>3, <2>1, <2>2, NoDelete DEF CoreInv
<1>a. \A d \in Calls : \A i \in DOMAIN chain[d] :
          /\ chain[d][i].id # a.id /\ chain[d][i].id < a.id
          /\ status'[chain[d][i].id] = status[chain[d][i].id]
  <2>1. \A d \in Calls : \A i \in DOMAIN chain[d] :
            chain[d][i].id # a.id /\ chain[d][i].id \in ActionId
    BY <1>2, WasAdded
  <2> QED
    BY <1>5, <1>6, <2>1 DEF CoreInv, ChainInv
<1>b. \A d \in Calls : \A k \in DOMAIN invoked[d] :
          /\ invoked[d][k] < a.id
          /\ status'[invoked[d][k]] = status[invoked[d][k]]
  <2>1. \A d \in Calls : \A k \in DOMAIN invoked[d] :
            invoked[d][k] # a.id /\ invoked[d][k] \in ActionId
    BY <1>2, WasAdded DEF CoreInv, InvokedInv
  <2> QED
    BY <1>5, <1>6, <2>1 DEF CoreInv, InvokedInv
<1>9. CASE ~Lives(c)
  <2>1. UNCHANGED chain
    BY <1>9 DEF AddAction
  <2>2. ChainInv'
    BY <1>5, <1>a, <2>1 DEF CoreInv, ChainInv
  <2>3. InvokedInv'
    BY <1>1, <1>5, <1>a, <1>b, <2>1 DEF CoreInv, InvokedInv
  <2>4. InvokedInOrder' /\ ObserverInv'
    BY <1>1, <1>2, <1>6, <2>1, Types DEF CoreInv, InvokedInOrder, ObserverInv,
       ObserversOK
  <2> QED
    BY <1>7, <1>8, <2>2, <2>3, <2>4 DEF CoreInv
<1>10. CASE Lives(c)
  <2> DEFINE n == Len(chain[c])
  <2>1. /\ chain' = [chain EXCEPT ![c] = Append(@, a)]
        /\ status'[a.id] = "added"
    BY <1>1, <1>2, <1>10 DEF AddAction, StatusOK
  <2>2. /\ chain[c] \in Seq(Action) /\ n \in Nat /\ DOMAIN chain[c] = 1..n
        /\ chain \in [Calls -> Seq(Action)]
    BY <1>1, Types DEF ChainOK
  <2>3. /\ DOMAIN chain'[c] = 1..(n + 1) /\ chain'[c][n + 1] = a
        /\ \A i \in 1..n : chain'[c][i] = chain[c][i]
    BY <1>1, <1>2, <2>1, <2>2
  <2>4. \A d \in Calls : d # c => chain'[d] = chain[d]
    BY <2>1, <2>2
  <2> HIDE DEF n
  <2>5. \A d \in Calls : \A i \in DOMAIN chain'[d] :
            \/ i \in DOMAIN chain[d] /\ chain'[d][i] = chain[d][i]
            \/ d = c /\ i = n + 1 /\ chain'[d][i] = a
    BY <2>2, <2>3, <2>4
  <2>6. \A d \in Calls : \A i \in DOMAIN chain[d] :
            i \in DOMAIN chain'[d] /\ chain'[d][i] = chain[d][i] /\ i \in Nat
    <3>1. \A d \in Calls : \A i \in DOMAIN chain[d] : i \in Nat
      BY Types DEF ChainOK
    <3> QED
      BY <2>2, <2>3, <2>4, <3>1
  <2>7. ChainInv'
    <3>1. ASSUME NEW d \in Calls, NEW i \in DOMAIN chain'[d]
          PROVE  /\ \/ status'[chain'[d][i].id] = "added"
                    \/ i = 1 /\ status'[chain'[d][i].id] = "invoked"
                 /\ \A j \in DOMAIN chain'[d] :
                       i < j => chain'[d][i].id < chain'[d][j].id
                 /\ \A x \in Coming' : chain'[d][i].id < x
      <4>1. CASE i \in DOMAIN chain[d] /\ chain'[d][i] = chain[d][i]
        <5>1. \/ status'[chain[d][i].id] = "added"
              \/ i = 1 /\ status'[chain[d][i].id] = "invoked"
          BY <1>a, <4>1 DEF CoreInv, ChainInv
        <5>2. \A x \in Coming' : chain[d][i].id < x
          BY <1>5, <4>1 DEF CoreInv, ChainInv
        <5>3. \A j \in DOMAIN chain'[d] : i < j => chain[d][i].id < chain'[d][j].id
          BY <1>a, <2>5, <4>1 DEF CoreInv, ChainInv
        <5> QED
          BY <4>1, <5>1, <5>2, <5>3
      <4>2. CASE d = c /\ i = n + 1 /\ chain'[d][i] = a
        <5>1. \A j \in DOMAIN chain'[d] : ~(i < j)
          BY <2>2, <2>3, <4>2
        <5> QED
          BY <1>5, <2>1, <4>2, <5>1
      <4> QED
        BY <2>5, <4>1, <4>2
    <3>2. ASSUME NEW d \in Calls, NEW e \in Calls, NEW i \in DOMAIN chain'[d],
                 NEW j \in DOMAIN chain'[e], chain'[d][i].id = chain'[e][j].id
          PROVE  d = e
      BY <1>a, <2>5, <3>2 DEF CoreInv, ChainInv
    <3> QED
      BY <3>1, <3>2 DEF ChainInv
  <2>8. InvokedInv'
    BY <1>1, <1>5, <1>a, <1>b, <2>5 DEF CoreInv, InvokedInv
  <2>9. InvokedInOrder'
    BY <1>1 DEF CoreInv, InvokedInOrder
  <2>10. ObserverInv'
    <3>1. ASSUME NEW d \in Calls, NEW x \in mRtpObservers[d]
          PROVE  chain'[d] # <<>> /\ x = Head(chain'[d]).id /\ status'[x] = "invoked"
      <4>1. /\ chain[d] # <<>> /\ x = Head(chain[d]).id /\ status[x] = "invoked"
            /\ x \in ActionId
        BY <3>1, Types DEF CoreInv, ObserverInv, ObserversOK
      <4>2. status'[x] = "invoked"
        BY <1>2, <1>6, <4>1
      <4>3. CASE d = c
        <5>1. chain'[c] = Append(chain[c], a)
          BY <1>1, <2>1, <2>2
        <5>2. chain[c] \in Seq(Action) /\ a \in Action /\ chain[c] # <<>>
          BY <1>2, <1>3, <2>1, <4>1, <4>3, Types DEF ChainOK
        <5>3. chain'[c] # <<>> /\ Head(chain'[c]) = Head(chain[c])
          BY <5>1, <5>2, AppendHead
        <5> QED
          BY <4>1, <4>2, <4>3, <5>3
      <4>4. CASE d # c
        BY <2>4, <4>1, <4>2, <4>4
      <4> QED
        BY <4>3, <4>4
    <3> QED
      BY <1>1, <3>1 DEF ObserverInv
  <2> QED
    BY <1>7, <1>8, <2>7, <2>8, <2>9, <2>10 DEF CoreInv
<1> QED
  BY <1>9, <1>10

\* The first action of a chain is in no other, nor does it come again.
LEMMA HeadOfChain ==
    ASSUME TypeOK, CoreInv, NEW c \in Calls, chain[c] # <<>>
    PROVE  LET h == Head(chain[c]).id IN
           /\ h \in ActionId /\ h \in Nat /\ h = chain[c][1].id
           /\ 1 \in DOMAIN chain[c] /\ status[h] \in {"added", "invoked"}
           /\ \A x \in Coming : h < x
           /\ \A i \in DOMAIN chain[c] : i # 1 =>
                 /\ h < chain[c][i].id /\ h # chain[c][i].id
                 /\ status[chain[c][i].id] = "added"
           /\ \A d \in Calls : d # c => \A i \in DOMAIN chain[d] :
                 chain[d][i].id # h
<1> DEFINE h == Head(chain[c]).id
<1>1. /\ 1 \in DOMAIN chain[c] /\ h = chain[c][1].id
      /\ \A i \in DOMAIN chain[c] : i # 1 => 1 < i
  BY Types DEF ChainOK
<1>2. h \in ActionId /\ h \in Nat /\ status[h] \in {"added", "invoked"}
  BY <1>1, WasAdded DEF ActionId
<1>3. \A x \in Coming : h < x
  BY <1>1 DEF CoreInv, ChainInv
<1>4. ASSUME NEW i \in DOMAIN chain[c], i # 1
      PROVE  /\ h < chain[c][i].id /\ h # chain[c][i].id
             /\ status[chain[c][i].id] = "added"
  <2>1. h < chain[c][i].id /\ status[chain[c][i].id] = "added"
    BY <1>1, <1>4 DEF CoreInv, ChainInv
  <2>2. chain[c][i].id \in Nat
    BY <1>4, WasAdded DEF ActionId
  <2> QED
    BY <1>2, <2>1, <2>2
<1>5. ASSUME NEW d \in Calls, d # c, NEW i \in DOMAIN chain[d]
      PROVE  chain[d][i].id # h
  BY <1>1, <1>5 DEF CoreInv, ChainInv
<1> HIDE DEF h
<1> QED
  BY <1>1, <1>2, <1>3, <1>4, <1>5 DEF h

\* Whoever hears of the player has been invoked.
LEMMA NotHeard ==
    ASSUME TypeOK, CoreInv, NEW c \in Calls, chain[c] # <<>>,
           status[Head(chain[c]).id] = "added"
    PROVE  mRtpObservers[c] = {}
BY DEF CoreInv, ObserverInv

(* invokeAction: the first action of a chain is invoked, and stays.        *)
LEMMA InvokeCore ==
    ASSUME TypeOK, CoreInv, NEW c \in Calls, chain[c] # <<>>,
           status[Head(chain[c]).id] = "added",
           status' = [status EXCEPT ![Head(chain[c]).id] = "invoked"],
           invoked' = [invoked EXCEPT ![c] = Append(@, Head(chain[c]).id)],
           mRtpObservers' \in
               {mRtpObservers,
                [mRtpObservers EXCEPT ![c] = @ \cup {Head(chain[c]).id}]},
           UNCHANGED <<rest, made, chain>>,
           fifo # <<>>, Quiet(Head(fifo)), NEW ms \in Seq(Messages),
           \A j \in DOMAIN ms : Quiet(ms[j]), DoneThen(ms)
    PROVE  CoreInv'
<1> DEFINE h == Head(chain[c]).id
<1>1. /\ h \in ActionId /\ h \in Nat /\ h = chain[c][1].id /\ 1 \in DOMAIN chain[c]
      /\ \A x \in Coming : h < x
      /\ \A i \in DOMAIN chain[c] : i # 1 =>
            /\ h < chain[c][i].id /\ h # chain[c][i].id
            /\ status[chain[c][i].id] = "added"
      /\ \A d \in Calls : d # c => \A i \in DOMAIN chain[d] : chain[d][i].id # h
  BY HeadOfChain
<1>2. /\ FifoOK /\ RestOK /\ status[h] = "added"
      /\ \A i \in ActionId : i # h => status'[i] = status[i]
      /\ status'[h] = "invoked"
  BY <1>1, Types DEF StatusOK
<1>3. ComingInv' /\ Coming' = Coming
  <2>1. \A j \in DOMAIN ms : ms[j].op # "add"
    BY DEF Quiet
  <2>2. Head(fifo).op # "add"
    BY DEF Quiet
  <2>3. /\ \A i \in ActionId :
              status[i] \in {"none", "posted"} => status'[i] = status[i]
        /\ \A i \in ActionId : status'[i] = "none" <=> status[i] = "none"
    BY <1>2
  <2> QED
    BY <1>2, <2>1, <2>2, <2>3, NoAdd DEF CoreInv
<1>4. DeleteInv'
  <2>1. \A j \in DOMAIN ms : ms[j].op # "delete"
    BY DEF Quiet
  <2>2. Head(fifo).op # "delete"
    BY DEF Quiet
  <2>3. \A i \in ActionId : status'[i] = "cleaned" <=> status[i] = "cleaned"
    BY <1>2
  <2> QED
    BY <1>2, <2>1, <2>2, <2>3, NoDelete DEF CoreInv
<1>5. \A d \in Calls : \A i \in DOMAIN chain[d] :
          d # c \/ i # 1 => status'[chain[d][i].id] = status[chain[d][i].id]
  <2>1. \A d \in Calls : \A i \in DOMAIN chain[d] :
            chain[d][i].id \in ActionId /\ (d # c \/ i # 1 => chain[d][i].id # h)
    BY <1>1, WasAdded
  <2> QED
    BY <1>2, <2>1
<1> HIDE DEF h
<1>6. ChainInv'
  BY <1>1, <1>2, <1>3, <1>5 DEF CoreInv, ChainInv
<1>7. /\ \A d \in Calls : d # c => invoked'[d] = invoked[d]
      /\ DOMAIN invoked'[c] = 1..(Len(invoked[c]) + 1)
      /\ DOMAIN invoked[c] = 1..Len(invoked[c]) /\ Len(invoked[c]) \in Nat
      /\ invoked'[c][Len(invoked[c]) + 1] = h
      /\ \A k \in 1..Len(invoked[c]) : invoked'[c][k] = invoked[c][k]
  <2>1. invoked \in [Calls -> Seq(ActionId)]
    BY Types DEF InvokedOK
  <2>2. invoked'[c] = Append(invoked[c], h) /\ invoked[c] \in Seq(ActionId)
    BY <2>1 DEF h
  <2>3. \A d \in Calls : d # c => invoked'[d] = invoked[d]
    BY <2>1
  <2> QED
    BY <1>1, <2>2, <2>3
<1>8. \A k \in DOMAIN invoked[c] : invoked[c][k] < h
  BY <1>1, <1>2 DEF CoreInv, InvokedInv
<1>9. \A d \in Calls : \A k \in DOMAIN invoked[d] :
          status'[invoked[d][k]] \notin {"none", "posted"}
  BY <1>2, WasAdded DEF CoreInv, InvokedInv
<1>10. InvokedInv'
  <2>1. ASSUME NEW d \in Calls, NEW k \in DOMAIN invoked'[d],
               k \in DOMAIN invoked[d], invoked'[d][k] = invoked[d][k]
        PROVE  /\ status'[invoked'[d][k]] \notin {"none", "posted"}
               /\ \A x \in Coming' : invoked'[d][k] < x
               /\ \A i \in DOMAIN chain'[d] :
                     status'[chain'[d][i].id] = "added" =>
                        invoked'[d][k] < chain'[d][i].id
    BY <1>1, <1>2, <1>3, <1>5, <1>9, <2>1 DEF CoreInv, InvokedInv
  <2>2. /\ status'[h] \notin {"none", "posted"}
        /\ \A x \in Coming' : h < x
        /\ \A i \in DOMAIN chain'[c] : status'[chain'[c][i].id] = "added" =>
              h < chain'[c][i].id
    BY <1>1, <1>2, <1>3
  <2>3. ASSUME NEW d \in Calls, NEW k \in DOMAIN invoked'[d]
        PROVE  \/ k \in DOMAIN invoked[d] /\ invoked'[d][k] = invoked[d][k]
               \/ d = c /\ invoked'[d][k] = h
    BY <1>7, <2>3
  <2> QED
    BY <2>1, <2>2, <2>3 DEF InvokedInv
<1>11. InvokedInOrder'
  <2>1. ASSUME NEW i \in DOMAIN invoked'[c], NEW j \in DOMAIN invoked'[c], i < j
        PROVE  invoked'[c][i] < invoked'[c][j]
    <3>1. i \in 1..Len(invoked[c])
      BY <1>7, <2>1
    <3>2. CASE j = Len(invoked[c]) + 1
      BY <1>7, <1>8, <3>1, <3>2
    <3>3. CASE j \in 1..Len(invoked[c])
      BY <1>7, <2>1, <3>1, <3>3 DEF CoreInv, InvokedInOrder
    <3> QED
      BY <1>7, <3>2, <3>3
  <2> QED
    BY <1>7, <2>1 DEF CoreInv, InvokedInOrder
<1>12. ObserverInv'
  <2>1. ASSUME NEW d \in Calls, NEW x \in mRtpObservers'[d]
        PROVE  chain'[d] # <<>> /\ x = Head(chain'[d]).id /\ status'[x] = "invoked"
    <3>1. CASE d = c
      <4>1. mRtpObservers[c] = {}
        BY NotHeard
      <4>2. x = h
        BY <2>1, <3>1, <4>1, Types DEF ObserversOK, h
      <4> QED
        BY <1>2, <3>1, <4>2 DEF h
    <3>2. CASE d # c
      <4>1. x \in mRtpObservers[d] /\ x \in ActionId
        BY <2>1, <3>2, Types DEF ObserversOK
      <4>2. chain[d] # <<>> /\ x = Head(chain[d]).id /\ status[x] = "invoked"
        BY <4>1 DEF CoreInv, ObserverInv
      <4>3. x # h
        BY <1>2, <4>2
      <4> QED
        BY <1>2, <4>1, <4>2, <4>3
    <3> QED
      BY <3>1, <3>2
  <2> QED
    BY <2>1 DEF ObserverInv
<1> QED
  BY <1>3, <1>4, <1>6, <1>10, <1>11, <1>12 DEF CoreInv

(* asyncDelAction for some actions of the chains, each once. *)
LEMMA MoreDeletes ==
    ASSUME TypeOK, CoreInv, fifo # <<>>, Quiet(Head(fifo)),
           NEW ms \in Seq(Messages), DoneThen(ms), NEW D \in SUBSET ActionId,
           \A j \in DOMAIN ms : ms[j].op = "delete" =>
               /\ ms[j].action \in Action /\ ms[j].action.id \in D
               /\ \A l \in DOMAIN ms :
                     ms[l].op = "delete" /\ ms[l].action.id = ms[j].action.id
                     => j = l,
           \A i \in D : \E j \in DOMAIN ms : ms[j].op = "delete"
                                             /\ ms[j].action.id = i,
           \A i \in D : status[i] \in {"added", "invoked"} /\ status'[i] = "cleaned",
           \A i \in ActionId \ D : status'[i] = status[i],
           \A j \in DOMAIN ms : ms[j].op # "add", UNCHANGED <<rest, made>>
    PROVE  DeleteInv' /\ ComingInv' /\ Coming' = Coming
<1>1. FifoOK /\ RestOK /\ Head(fifo).op # "add" /\ Head(fifo).op # "delete"
  BY Types DEF Quiet
<1>2. ComingInv' /\ Coming' = Coming
  <2>1. /\ \A i \in ActionId :
              status[i] \in {"none", "posted"} => status'[i] = status[i]
        /\ \A i \in ActionId : status'[i] = "none" <=> status[i] = "none"
    OBVIOUS
  <2> QED
    BY <1>1, <2>1, NoAdd DEF CoreInv
<1>3. ASSUME NEW k \in DOMAIN fifo', fifo'[k].op = "delete"
      PROVE  k \in Nat /\
             \/ /\ k < Len(fifo) /\ k + 1 \in DOMAIN fifo /\ fifo'[k] = fifo[k + 1]
                /\ fifo'[k].action.id \in ActionId \ D
                /\ status[fifo'[k].action.id] = "cleaned"
             \/ /\ k + 1 - Len(fifo) \in DOMAIN ms
                /\ fifo'[k] = ms[k + 1 - Len(fifo)]
                /\ fifo'[k].action.id \in D
  <2>0. k \in Nat
    BY <1>1, <1>3, DoneAt
  <2>1. CASE k < Len(fifo) /\ k + 1 \in DOMAIN fifo /\ fifo'[k] = fifo[k + 1]
    <3>1. fifo'[k].action \in Action /\ status[fifo'[k].action.id] = "cleaned"
      BY <1>3, <2>1 DEF CoreInv, DeleteInv
    <3>2. fifo'[k].action.id \in ActionId
      BY <3>1 DEF Action
    <3>3. fifo'[k].action.id \notin D
      BY <3>1
    <3> QED
      BY <2>0, <2>1, <3>1, <3>2, <3>3
  <2>2. CASE k + 1 - Len(fifo) \in DOMAIN ms /\ fifo'[k] = ms[k + 1 - Len(fifo)]
    BY <1>3, <2>0, <2>2
  <2> QED
    BY <1>1, <1>3, <2>1, <2>2, DoneAt
<1>4. ASSUME NEW k \in DOMAIN fifo', fifo'[k].op = "delete"
      PROVE  /\ fifo'[k].action \in Action
             /\ status'[fifo'[k].action.id] = "cleaned"
             /\ \A l \in DOMAIN fifo' :
                   fifo'[l].op = "delete"
                   /\ fifo'[l].action.id = fifo'[k].action.id => k = l
  <2>0. k \in Nat /\ Len(fifo) \in Nat
    BY <1>1, <1>3, <1>4, DoneAt
  <2>1. CASE k < Len(fifo) /\ k + 1 \in DOMAIN fifo /\ fifo'[k] = fifo[k + 1]
             /\ fifo'[k].action.id \in ActionId \ D
             /\ status[fifo'[k].action.id] = "cleaned"
    <3>1. fifo'[k].action \in Action /\ status'[fifo'[k].action.id] = "cleaned"
      BY <1>4, <2>1 DEF CoreInv, DeleteInv
    <3>2. ASSUME NEW l \in DOMAIN fifo', fifo'[l].op = "delete",
                 fifo'[l].action.id = fifo'[k].action.id
          PROVE  k = l
      <4>1. l \in Nat /\ l + 1 \in DOMAIN fifo /\ fifo'[l] = fifo[l + 1]
        BY <1>3, <2>1, <3>2
      <4>2. k + 1 = l + 1
        BY <1>4, <2>1, <3>2, <4>1 DEF CoreInv, DeleteInv
      <4> QED
        BY <2>0, <4>1, <4>2
    <3> QED
      BY <3>1, <3>2
  <2>2. CASE /\ k + 1 - Len(fifo) \in DOMAIN ms /\ fifo'[k] = ms[k + 1 - Len(fifo)]
             /\ fifo'[k].action.id \in D
    <3>1. fifo'[k].action \in Action /\ status'[fifo'[k].action.id] = "cleaned"
      BY <1>4, <2>2
    <3>2. ASSUME NEW l \in DOMAIN fifo', fifo'[l].op = "delete",
                 fifo'[l].action.id = fifo'[k].action.id
          PROVE  k = l
      <4>1. l \in Nat /\ l + 1 - Len(fifo) \in DOMAIN ms
            /\ fifo'[l] = ms[l + 1 - Len(fifo)]
        BY <1>3, <2>2, <3>2
      <4>2. k + 1 - Len(fifo) = l + 1 - Len(fifo)
        BY <1>4, <2>2, <3>2, <4>1
      <4> QED
        BY <2>0, <4>1, <4>2
    <3> QED
      BY <3>1, <3>2
  <2> QED
    BY <1>3, <1>4, <2>1, <2>2
<1>5. ASSUME NEW i \in ActionId, status'[i] = "cleaned"
      PROVE  \E k \in DOMAIN fifo' : fifo'[k].op = "delete"
                                     /\ fifo'[k].action.id = i
  <2>1. CASE i \in D
    <3>1. PICK j \in DOMAIN ms : ms[j].op = "delete" /\ ms[j].action.id = i
      BY <2>1
    <3> QED
      BY <1>1, <3>1, DoneAt
  <2>2. CASE i \notin D
    <3>1. PICK k \in DOMAIN fifo : fifo[k].op = "delete" /\ fifo[k].action.id = i
      BY <1>5, <2>2 DEF CoreInv, DeleteInv
    <3>2. k # 1
      BY <1>1, <3>1, DoneAt
    <3> QED
      BY <1>1, <3>1, <3>2, DoneAt
  <2> QED
    BY <2>1, <2>2
<1> QED
  BY <1>2, <1>4, <1>5 DEF DeleteInv

(* actionTerminated: the first action of a chain is cleaned and leaves it. *)
LEMMA EndActionCore ==
    ASSUME TypeOK, CoreInv, NEW c \in Calls, chain[c] # <<>>,
           status' = [status EXCEPT ![Head(chain[c]).id] = "cleaned"],
           chain' = [chain EXCEPT ![c] = Tail(@)],
           mRtpObservers'[c] = {},
           \A d \in Calls : d # c => mRtpObservers'[d] = mRtpObservers[d],
           \/ UNCHANGED invoked
           \/ /\ status[Head(chain[c]).id] = "added"
              /\ invoked' = [invoked EXCEPT ![c] = Append(@, Head(chain[c]).id)],
           UNCHANGED <<rest, made>>,
           fifo # <<>>, Quiet(Head(fifo)), DoneThen(Terminated(c))
    PROVE  CoreInv'
<1> DEFINE h == Head(chain[c]).id
           ms == Terminated(c)
           n == Len(chain[c])
<1>1. /\ h \in ActionId /\ h \in Nat /\ h = chain[c][1].id /\ 1 \in DOMAIN chain[c]
      /\ \A x \in Coming : h < x
      /\ \A i \in DOMAIN chain[c] : i # 1 =>
            /\ h < chain[c][i].id /\ h # chain[c][i].id
            /\ status[chain[c][i].id] = "added"
      /\ \A d \in Calls : d # c => \A i \in DOMAIN chain[d] : chain[d][i].id # h
      /\ status[h] \in {"added", "invoked"}
  BY HeadOfChain
<1>2. /\ \A i \in ActionId : i # h => status'[i] = status[i]
      /\ status'[h] = "cleaned"
  BY <1>1, Types DEF StatusOK
<1>3. /\ ms \in Seq(Messages) /\ 1 \in DOMAIN ms
      /\ ms[1].op = "delete" /\ ms[1].action = Head(chain[c])
      /\ \A j \in DOMAIN ms : j # 1 => ms[j].op = "run"
  <2> DEFINE del == Message("delete", c, Head(chain[c]))
             run == RunCommand(c)
  <2>1. /\ del \in Messages /\ del.op = "delete" /\ del.action = Head(chain[c])
        /\ run \in Messages /\ run.op = "run"
    BY ChainHead, MessageType, RunCommandType DEF Op
  <2>2. ms = <<del>> \o <<run>> \/ ms = <<del>> \o <<>>
    BY DEF Terminated
  <2> HIDE DEF del, run, ms
  <2>3. /\ <<del>> \in Seq(Messages) /\ Len(<<del>>) = 1 /\ <<del>>[1] = del
        /\ <<run>> \in Seq(Messages) /\ Len(<<run>>) = 1 /\ <<run>>[1] = run
        /\ <<>> \in Seq(Messages) /\ Len(<<>>) = 0
    BY <2>1
  <2>4. ASSUME NEW p \in Seq(Messages), NEW q \in Seq(Messages)
        PROVE  /\ p \o q \in Seq(Messages)
               /\ DOMAIN (p \o q) = 1..(Len(p) + Len(q))
               /\ \A i \in 1..(Len(p) + Len(q)) :
                     (p \o q)[i] = IF i <= Len(p) THEN p[i] ELSE q[i - Len(p)]
    OBVIOUS
  <2> DEFINE s == <<del>>
             r == <<run>>
             e == <<>>
  <2> HIDE DEF s, r, e
  <2>5. CASE ms = s \o r
    <3>1. s \in Seq(Messages) /\ r \in Seq(Messages) /\ Len(s) = 1 /\ Len(r) = 1
          /\ s[1] = del /\ r[1] = run
      BY <2>3 DEF s, r
    <3>2. /\ ms \in Seq(Messages) /\ DOMAIN ms = 1..2
          /\ ms[1] = s[1] /\ ms[2] = r[1]
      <4>1. /\ ms \in Seq(Messages) /\ DOMAIN ms = 1..(1 + 1)
            /\ \A i \in 1..(1 + 1) : ms[i] = IF i <= 1 THEN s[i] ELSE r[i - 1]
        BY <2>4, <2>5, <3>1
      <4> QED
        BY <4>1
    <3> QED
      BY <2>1, <3>1, <3>2
  <2>6. CASE ms = s \o e
    <3>1. s \in Seq(Messages) /\ e \in Seq(Messages) /\ Len(s) = 1 /\ Len(e) = 0
          /\ s[1] = del
      BY <2>3 DEF s, e
    <3>2. ms \in Seq(Messages) /\ DOMAIN ms = 1..1 /\ ms[1] = s[1]
      <4>1. /\ s \o e \in Seq(Messages)
            /\ DOMAIN (s \o e) = 1..(Len(s) + Len(e))
            /\ \A i \in 1..(Len(s) + Len(e)) :
                  (s \o e)[i] = IF i <= Len(s) THEN s[i] ELSE e[i - Len(s)]
        BY <2>4, <3>1
      <4>2. Len(s) + Len(e) = 1 /\ 1 \in 1..1 /\ 1 <= Len(s)
        BY <3>1
      <4>3. DOMAIN (s \o e) = 1..1 /\ (s \o e)[1] = s[1]
        BY <4>1, <4>2
      <4> QED
        BY <2>6, <4>1, <4>3
    <3> QED
      BY <2>1, <3>1, <3>2
  <2> QED
    BY <2>2, <2>5, <2>6 DEF s, r, e
<1>4. Head(chain[c]) \in Action
  BY ChainHead
<1> HIDE DEF ms
<1>5. DeleteInv' /\ ComingInv' /\ Coming' = Coming
  <2>1. \A j \in DOMAIN ms : ms[j].op = "delete" =>
            /\ ms[j].action \in Action /\ ms[j].action.id \in {h}
            /\ \A l \in DOMAIN ms :
                  ms[l].op = "delete" /\ ms[l].action.id = ms[j].action.id => j = l
    BY <1>3, <1>4
  <2>2. \A i \in {h} : \E j \in DOMAIN ms : ms[j].op = "delete"
                                          /\ ms[j].action.id = i
    BY <1>3
  <2>3. \A j \in DOMAIN ms : ms[j].op # "add"
    BY <1>3
  <2>4. {h} \in SUBSET ActionId
    BY <1>1
  <2>5. /\ \A i \in {h} : status[i] \in {"added", "invoked"} /\ status'[i] = "cleaned"
        /\ \A i \in ActionId \ {h} : status'[i] = status[i]
    BY <1>1, <1>2
  <2>6. DoneThen(ms)
    BY DEF ms
  <2> HIDE DEF h
  <2> QED
    BY <1>3, <2>1, <2>2, <2>3, <2>4, <2>5, <2>6, MoreDeletes
<1>6. /\ DOMAIN chain'[c] = 1..(n - 1) /\ DOMAIN chain[c] = 1..n /\ n \in Nat
      /\ \A i \in 1..(n - 1) : chain'[c][i] = chain[c][i + 1]
      /\ \A d \in Calls : d # c => chain'[d] = chain[d]
  <2>1. chain \in [Calls -> Seq(Action)]
    BY Types DEF ChainOK
  <2>2. chain'[c] = Tail(chain[c]) /\ chain[c] \in Seq(Action)
    BY <2>1
  <2>3. \A d \in Calls : d # c => chain'[d] = chain[d]
    BY <2>1
  <2>4. /\ DOMAIN Tail(chain[c]) = 1..(n - 1) /\ DOMAIN chain[c] = 1..n /\ n \in Nat
        /\ \A i \in 1..(n - 1) : Tail(chain[c])[i] = chain[c][i + 1]
    BY <2>2
  <2> HIDE DEF n
  <2> QED
    BY <2>2, <2>3, <2>4
<1> HIDE DEF n
<1>7. \A i \in DOMAIN chain'[c] :
          /\ i + 1 \in DOMAIN chain[c] /\ i + 1 # 1 /\ i \in Nat
          /\ chain'[c][i] = chain[c][i + 1]
  BY <1>6
<1>8. \A d \in Calls : \A i \in DOMAIN chain[d] :
          d # c \/ i # 1 => status'[chain[d][i].id] = status[chain[d][i].id]
  <2>1. \A d \in Calls : \A i \in DOMAIN chain[d] :
            chain[d][i].id \in ActionId /\ (d # c \/ i # 1 => chain[d][i].id # h)
    BY <1>1, WasAdded
  <2> QED
    BY <1>2, <2>1
<1>9. ChainInv'
  <2>1. ASSUME NEW d \in Calls, NEW i \in DOMAIN chain'[d]
        PROVE  /\ \/ status'[chain'[d][i].id] = "added"
                  \/ i = 1 /\ status'[chain'[d][i].id] = "invoked"
               /\ \A j \in DOMAIN chain'[d] :
                     i < j => chain'[d][i].id < chain'[d][j].id
               /\ \A x \in Coming' : chain'[d][i].id < x
    <3>1. CASE d # c
      BY <1>5, <1>6, <1>8, <2>1, <3>1 DEF CoreInv, ChainInv
    <3>2. CASE d = c
      <4>1. /\ i + 1 \in DOMAIN chain[c] /\ i + 1 # 1 /\ i \in Nat
            /\ chain'[c][i] = chain[c][i + 1]
        BY <1>7, <2>1, <3>2
      <4>2. status'[chain'[c][i].id] = "added"
        BY <1>1, <1>8, <4>1
      <4>3. \A x \in Coming' : chain'[c][i].id < x
        BY <1>5, <4>1 DEF CoreInv, ChainInv
      <4>4. ASSUME NEW j \in DOMAIN chain'[c], i < j
            PROVE  chain'[c][i].id < chain'[c][j].id
        <5>1. /\ j + 1 \in DOMAIN chain[c] /\ chain'[c][j] = chain[c][j + 1]
              /\ i + 1 < j + 1
          BY <1>7, <4>1, <4>4
        <5> QED
          BY <4>1, <5>1 DEF CoreInv, ChainInv
      <4> QED
        BY <3>2, <4>2, <4>3, <4>4
    <3> QED
      BY <3>1, <3>2
  <2>2. ASSUME NEW d \in Calls, NEW i \in DOMAIN chain'[d]
        PROVE  \E k \in DOMAIN chain[d] : chain'[d][i] = chain[d][k]
    <3>1. CASE d = c
      BY <1>7, <2>2, <3>1
    <3>2. CASE d # c
      BY <1>6, <2>2, <3>2
    <3> QED
      BY <3>1, <3>2
  <2>3. ASSUME NEW d \in Calls, NEW e \in Calls, NEW i \in DOMAIN chain'[d],
               NEW j \in DOMAIN chain'[e], chain'[d][i].id = chain'[e][j].id
        PROVE  d = e
    <3>1. PICK k \in DOMAIN chain[d] : chain'[d][i] = chain[d][k]
      BY <2>2
    <3>2. PICK l \in DOMAIN chain[e] : chain'[e][j] = chain[e][l]
      BY <2>2
    <3> QED
      BY <2>3, <3>1, <3>2 DEF CoreInv, ChainInv
  <2> QED
    BY <2>1, <2>3 DEF ChainInv
<1>10. \A d \in Calls : \A k \in DOMAIN invoked[d] :
           /\ status'[invoked[d][k]] \notin {"none", "posted"}
           /\ \A x \in Coming' : invoked[d][k] < x
           /\ \A i \in DOMAIN chain'[d] : status'[chain'[d][i].id] = "added" =>
                 invoked[d][k] < chain'[d][i].id
  <2>1. ASSUME NEW d \in Calls, NEW k \in DOMAIN invoked[d]
        PROVE  /\ status'[invoked[d][k]] \notin {"none", "posted"}
               /\ \A x \in Coming' : invoked[d][k] < x
    BY <1>2, <1>5, <2>1, WasAdded DEF CoreInv, InvokedInv
  <2>2. ASSUME NEW d \in Calls, NEW k \in DOMAIN invoked[d], NEW i \in DOMAIN chain'[d],
               status'[chain'[d][i].id] = "added"
        PROVE  invoked[d][k] < chain'[d][i].id
    <3>1. CASE d # c
      BY <1>6, <1>8, <2>2, <3>1 DEF CoreInv, InvokedInv
    <3>2. CASE d = c
      <4>1. /\ i + 1 \in DOMAIN chain[c] /\ i + 1 # 1
            /\ chain'[c][i] = chain[c][i + 1]
        BY <1>7, <2>2, <3>2
      <4>2. status[chain[c][i + 1].id] = "added"
        BY <1>1, <4>1
      <4> QED
        BY <2>2, <3>2, <4>1, <4>2 DEF CoreInv, InvokedInv
    <3> QED
      BY <3>1, <3>2
  <2> QED
    BY <2>1, <2>2
<1>11. InvokedInv' /\ InvokedInOrder'
  <2>1. CASE UNCHANGED invoked
    BY <1>10, <2>1 DEF CoreInv, InvokedInv, InvokedInOrder
  <2>2. CASE /\ status[h] = "added"
             /\ invoked' = [invoked EXCEPT ![c] = Append(@, h)]
    <3>1. /\ \A d \in Calls : d # c => invoked'[d] = invoked[d]
          /\ DOMAIN invoked'[c] = 1..(Len(invoked[c]) + 1)
          /\ DOMAIN invoked[c] = 1..Len(invoked[c]) /\ Len(invoked[c]) \in Nat
          /\ invoked'[c][Len(invoked[c]) + 1] = h
          /\ \A k \in 1..Len(invoked[c]) : invoked'[c][k] = invoked[c][k]
      <4>1. invoked \in [Calls -> Seq(ActionId)]
        BY Types DEF InvokedOK
      <4> HIDE DEF h
      <4>2. invoked'[c] = Append(invoked[c], h) /\ invoked[c] \in Seq(ActionId)
        BY <2>2, <4>1
      <4>3. \A d \in Calls : d # c => invoked'[d] = invoked[d]
        BY <2>2, <4>1
      <4> QED
        BY <1>1, <4>2, <4>3
    <3> HIDE DEF h
    <3>2. \A k \in DOMAIN invoked[c] : invoked[c][k] < h
      BY <1>1, <2>2 DEF CoreInv, InvokedInv
    <3>3. /\ status'[h] \notin {"none", "posted"}
          /\ \A x \in Coming' : h < x
          /\ \A i \in DOMAIN chain'[c] : h < chain'[c][i].id
      BY <1>1, <1>2, <1>5, <1>7
    <3>4. ASSUME NEW d \in Calls, NEW k \in DOMAIN invoked'[d]
          PROVE  \/ k \in DOMAIN invoked[d] /\ invoked'[d][k] = invoked[d][k]
                 \/ d = c /\ invoked'[d][k] = h
      <4>1. CASE d = c
        BY <3>1, <3>4, <4>1
      <4>2. CASE d # c
        BY <3>1, <3>4, <4>2
      <4> QED
        BY <4>1, <4>2
    <3>5. InvokedInv'
      BY <1>10, <3>3, <3>4 DEF InvokedInv
    <3>6. ASSUME NEW i \in DOMAIN invoked'[c], NEW j \in DOMAIN invoked'[c], i < j
          PROVE  invoked'[c][i] < invoked'[c][j]
      <4>1. i \in 1..Len(invoked[c])
        BY <3>1, <3>6
      <4>2. CASE j = Len(invoked[c]) + 1
        BY <3>1, <3>2, <4>1, <4>2
      <4>3. CASE j \in 1..Len(invoked[c])
        BY <3>1, <3>6, <4>1, <4>3 DEF CoreInv, InvokedInOrder
      <4> QED
        BY <3>1, <4>2, <4>3
    <3>7. InvokedInOrder'
      BY <3>1, <3>6 DEF CoreInv, InvokedInOrder
    <3> QED
      BY <3>5, <3>7
  <2> QED
    BY <2>1, <2>2
<1>12. ObserverInv'
  <2>1. ASSUME NEW d \in Calls, NEW x \in mRtpObservers'[d]
        PROVE  chain'[d] # <<>> /\ x = Head(chain'[d]).id /\ status'[x] = "invoked"
    <3>1. d # c /\ x \in mRtpObservers[d] /\ x \in ActionId
      BY <2>1, Types DEF ObserversOK
    <3>2. chain[d] # <<>> /\ x = Head(chain[d]).id /\ status[x] = "invoked"
      BY <3>1 DEF CoreInv, ObserverInv
    <3>3. 1 \in DOMAIN chain[d] /\ x = chain[d][1].id
      BY <3>2, Types DEF ChainOK
    <3>4. x # h
      BY <1>1, <3>1, <3>3
    <3> QED
      BY <1>2, <1>6, <3>1, <3>2, <3>4
  <2> QED
    BY <2>1 DEF ObserverInv
<1> QED
  BY <1>5, <1>9, <1>11, <1>12 DEF CoreInv

LEMMA DeleteActionCore ==
    ASSUME TypeOK, CoreInv, DeleteAction
    PROVE  CoreInv'
<1> DEFINE i == Head(fifo).action.id
<1>1. /\ fifo # <<>> /\ FifoOK /\ RestOK /\ StatusOK
      /\ Head(fifo).op = "delete" /\ fifo[1] = Head(fifo) /\ 1 \in DOMAIN fifo
      /\ UNCHANGED <<rest, made, chain, mRtpObservers, invoked>>
  <2>1. fifo # <<>> /\ FifoOK /\ RestOK /\ StatusOK
    BY Types DEF DeleteAction, Takes
  <2> QED
    BY <2>1 DEF DeleteAction, Takes, FifoOK
<1>2. /\ i \in ActionId /\ status[i] = "cleaned"
      /\ \A k \in DOMAIN fifo : fifo[k].op = "delete" /\ k # 1 =>
            fifo[k].action.id # i
  <2>1. fifo[1].action \in Action /\ status[i] = "cleaned"
    BY <1>1 DEF CoreInv, DeleteInv
  <2>2. \A k \in DOMAIN fifo : fifo[k].op = "delete" /\ k # 1 =>
            fifo[k].action.id # i
    BY <1>1 DEF CoreInv, DeleteInv
  <2> QED
    BY <1>1, <2>1, <2>2 DEF Action
<1>3. /\ \A j \in ActionId : j # i => status'[j] = status[j]
      /\ status'[i] = "deleted"
  BY <1>1, <1>2 DEF DeleteAction, StatusOK
<1>4. DoneThen(<<>>) /\ <<>> \in Seq(Messages)
      /\ (\A j \in DOMAIN <<>> : <<>>[j].op \notin {"add", "delete"})
      /\ (\A j \in DOMAIN <<>> : <<>>[j].op # "add")
      /\ (\A j \in DOMAIN <<>> : <<>>[j].op \notin {"delete"})
  BY <1>1, NothingMore DEF DeleteAction
<1>5. ComingInv' /\ Coming' = Coming
  <2>1. /\ \A j \in ActionId :
              status[j] \in {"none", "posted"} => status'[j] = status[j]
        /\ \A j \in ActionId : status'[j] = "none" <=> status[j] = "none"
    BY <1>2, <1>3
  <2>2. Head(fifo).op # "add"
    BY <1>1
  <2> QED
    BY <1>1, <1>4, <2>1, <2>2, NoAdd DEF CoreInv
<1> HIDE DEF i
<1>6. \A d \in Calls : \A k \in DOMAIN chain[d] :
          status'[chain[d][k].id] = status[chain[d][k].id]
  <2>1. \A d \in Calls : \A k \in DOMAIN chain[d] :
            chain[d][k].id \in ActionId /\ chain[d][k].id # i
    BY <1>2, WasAdded
  <2> QED
    BY <1>3, <2>1
<1>7. ChainInv'
  BY <1>1, <1>5, <1>6 DEF CoreInv, ChainInv
<1>8. InvokedInv' /\ InvokedInOrder'
  <2>1. \A d \in Calls : \A k \in DOMAIN invoked[d] :
            status'[invoked[d][k]] \notin {"none", "posted"}
    BY <1>3, WasAdded DEF CoreInv, InvokedInv
  <2> QED
    BY <1>1, <1>5, <1>6, <2>1 DEF CoreInv, InvokedInv, InvokedInOrder
<1>9. ObserverInv'
  <2>1. \A d \in Calls : \A x \in mRtpObservers[d] :
            x \in ActionId /\ status[x] = "invoked"
    BY Types DEF ObserversOK, CoreInv, ObserverInv
  <2> QED
    BY <1>1, <1>2, <1>3, <2>1 DEF CoreInv, ObserverInv
<1>10. DeleteInv'
  <2>1. \A k \in DOMAIN fifo' : fifo'[k].op = "delete" =>
            k \in Nat \ {0} /\ k + 1 \in DOMAIN fifo /\ fifo'[k] = fifo[k + 1]
    BY <1>1, <1>4, MovedFrom, "delete" \in {"delete"}
  <2>2. ASSUME NEW k \in DOMAIN fifo', fifo'[k].op = "delete"
        PROVE  /\ fifo'[k].action \in Action
               /\ status'[fifo'[k].action.id] = "cleaned"
               /\ \A l \in DOMAIN fifo' :
                     fifo'[l].op = "delete"
                     /\ fifo'[l].action.id = fifo'[k].action.id => k = l
    <3>1. /\ k \in Nat /\ k + 1 \in DOMAIN fifo /\ fifo'[k] = fifo[k + 1]
          /\ fifo[k + 1].op = "delete" /\ k + 1 # 1
      BY <2>1, <2>2
    <3>2. /\ fifo[k + 1].action \in Action
          /\ status[fifo[k + 1].action.id] = "cleaned"
          /\ fifo[k + 1].action.id # i
      BY <1>2, <3>1 DEF CoreInv, DeleteInv
    <3>3. status'[fifo'[k].action.id] = "cleaned"
      <4>1. fifo'[k].action.id \in ActionId
        BY <3>1, <3>2 DEF Action
      <4> QED
        BY <1>3, <3>1, <3>2, <4>1
    <3>4. ASSUME NEW l \in DOMAIN fifo', fifo'[l].op = "delete",
                 fifo'[l].action.id = fifo'[k].action.id
          PROVE  k = l
      <4>1. l \in Nat /\ l + 1 \in DOMAIN fifo /\ fifo'[l] = fifo[l + 1]
        BY <2>1, <3>4
      <4>2. k + 1 = l + 1
        BY <3>1, <3>4, <4>1 DEF CoreInv, DeleteInv
      <4> QED
        BY <3>1, <4>1, <4>2
    <3> QED
      BY <3>1, <3>2, <3>3, <3>4
  <2>3. ASSUME NEW j \in ActionId, status'[j] = "cleaned"
        PROVE  \E k \in DOMAIN fifo' : fifo'[k].op = "delete"
                                       /\ fifo'[k].action.id = j
    <3>1. j # i /\ status[j] = "cleaned"
      BY <1>3, <2>3
    <3>2. PICK k \in DOMAIN fifo : fifo[k].op = "delete" /\ fifo[k].action.id = j
      BY <3>1 DEF CoreInv, DeleteInv
    <3>3. k # 1
      BY <1>1, <3>1, <3>2 DEF i
    <3>4. k - 1 \in DOMAIN fifo' /\ fifo'[k - 1] = fifo[k]
      BY <1>1, <1>4, <3>3, DoneAt
    <3> QED
      BY <3>2, <3>4
  <2> QED
    BY <2>2, <2>3 DEF DeleteInv
<1> QED
  BY <1>5, <1>7, <1>8, <1>9, <1>10 DEF CoreInv

(* ~Call: all that is left of a chain is cleaned. *)
LEMMA DestroyCallCore ==
    ASSUME TypeOK, CoreInv, DestroyCall
    PROVE  CoreInv'
<1> DEFINE c == Head(fifo).call
           D == {i \in ActionId : \E a \in ToSet(chain[c]) : a.id = i}
           ms == [i \in DOMAIN chain[c] |-> Message("delete", c, chain[c][i])]
<1>1. /\ fifo # <<>> /\ c \in Calls /\ Quiet(Head(fifo)) /\ DoneThen(ms)
      /\ chain[c] \in Seq(Action) /\ chain' = [chain EXCEPT ![c] = <<>>]
      /\ mRtpObservers' = [mRtpObservers EXCEPT ![c] = {}]
      /\ UNCHANGED <<rest, made, invoked>>
  BY HeadType, Types DEF DestroyCall, Takes, Quiet, ChainOK
<1>2. \A i \in ActionId : status'[i] = IF i \in D THEN "cleaned" ELSE status[i]
  BY DEF DestroyCall
<1>3. D = {chain[c][i].id : i \in DOMAIN chain[c]}
  <2>1. ToSet(chain[c]) = {chain[c][i] : i \in DOMAIN chain[c]}
    BY DEF ToSet
  <2>2. \A i \in DOMAIN chain[c] : chain[c][i].id \in ActionId
    BY <1>1, ActionAt
  <2> QED
    BY <2>1, <2>2
<1>4. \A i \in DOMAIN chain[c] :
          /\ ms[i] \in Messages /\ ms[i].op = "delete" /\ ms[i].action = chain[c][i]
          /\ chain[c][i] \in Action
  BY <1>1, ActionAt, MessageType DEF Op
<1>5. ms \in Seq(Messages) /\ DOMAIN ms = DOMAIN chain[c]
  <2>1. Len(chain[c]) \in Nat /\ DOMAIN chain[c] = 1..Len(chain[c])
    BY <1>1
  <2>2. \A i \in DOMAIN chain[c] : Message("delete", c, chain[c][i]) \in Messages
    BY <1>4
  <2> HIDE DEF c
  <2> QED
    BY <2>1, <2>2
<1>6. \A i, j \in DOMAIN chain[c] : chain[c][i].id = chain[c][j].id => i = j
  <2>1. ASSUME NEW i \in DOMAIN chain[c], NEW j \in DOMAIN chain[c], i # j
        PROVE  chain[c][i].id # chain[c][j].id
    <3>1. i \in Nat /\ j \in Nat
      BY <1>1
    <3>2. chain[c][i].id \in Nat /\ chain[c][j].id \in Nat
      BY <1>1, WasAdded DEF ActionId
    <3>3. chain[c][i].id < chain[c][j].id \/ chain[c][j].id < chain[c][i].id
      BY <1>1, <2>1, <3>1 DEF CoreInv, ChainInv
    <3> QED
      BY <3>2, <3>3
  <2> QED
    BY <2>1
<1>7. \A i \in D : status[i] \in {"added", "invoked"}
  BY <1>1, <1>3, WasAdded
<1>8. D \in SUBSET ActionId
  OBVIOUS
<1> HIDE DEF D, ms, c
<1>9. DeleteInv' /\ ComingInv' /\ Coming' = Coming
  <2>1. \A j \in DOMAIN ms : ms[j].op = "delete" =>
            /\ ms[j].action \in Action /\ ms[j].action.id \in D
            /\ \A l \in DOMAIN ms :
                  ms[l].op = "delete" /\ ms[l].action.id = ms[j].action.id => j = l
    BY <1>3, <1>4, <1>5, <1>6
  <2>2. \A i \in D : \E j \in DOMAIN ms : ms[j].op = "delete"
                                        /\ ms[j].action.id = i
    BY <1>3, <1>4, <1>5
  <2>3. \A j \in DOMAIN ms : ms[j].op # "add"
    BY <1>4, <1>5
  <2>4. /\ \A i \in D : status[i] \in {"added", "invoked"} /\ status'[i] = "cleaned"
        /\ \A i \in ActionId \ D : status'[i] = status[i]
    BY <1>2, <1>7, <1>8
  <2>5. UNCHANGED <<rest, made>>
    BY <1>1
  <2> QED
    BY <1>1, <1>5, <1>8, <2>1, <2>2, <2>3, <2>4, <2>5, MoreDeletes
<1>10. /\ \A d \in Calls : d # c => chain'[d] = chain[d]
       /\ \A i \in DOMAIN chain'[c] : FALSE
       /\ \A d \in Calls : d # c => mRtpObservers'[d] = mRtpObservers[d]
       /\ mRtpObservers'[c] = {}
  BY <1>1, Types DEF ChainOK, ObserversOK
<1>11. \A d \in Calls : d # c => \A i \in DOMAIN chain[d] :
           status'[chain[d][i].id] = status[chain[d][i].id]
  <2>1. \A d \in Calls : d # c => \A i \in DOMAIN chain[d] :
            chain[d][i].id \in ActionId /\ chain[d][i].id \notin D
    BY <1>1, <1>3, WasAdded DEF CoreInv, ChainInv
  <2> QED
    BY <1>2, <2>1
<1>12. ChainInv'
  BY <1>9, <1>10, <1>11 DEF CoreInv, ChainInv
<1>13. InvokedInv' /\ InvokedInOrder'
  <2>1. \A d \in Calls : \A k \in DOMAIN invoked[d] :
            status'[invoked[d][k]] \notin {"none", "posted"}
    BY <1>2, WasAdded DEF CoreInv, InvokedInv
  <2> QED
    BY <1>1, <1>9, <1>10, <1>11, <2>1 DEF CoreInv, InvokedInv, InvokedInOrder
<1>14. ObserverInv'
  <2>1. ASSUME NEW d \in Calls, NEW x \in mRtpObservers'[d]
        PROVE  chain'[d] # <<>> /\ x = Head(chain'[d]).id /\ status'[x] = "invoked"
    <3>1. d # c /\ x \in mRtpObservers[d]
      BY <1>10, <2>1
    <3>2. chain[d] # <<>> /\ x = Head(chain[d]).id /\ status[x] = "invoked"
      BY <3>1 DEF CoreInv, ObserverInv
    <3>3. 1 \in DOMAIN chain[d] /\ x = chain[d][1].id
      BY <3>2, Types DEF ChainOK
    <3> QED
      BY <1>10, <1>11, <3>1, <3>2, <3>3
  <2> QED
    BY <2>1 DEF ObserverInv
<1> QED
  BY <1>9, <1>12, <1>13, <1>14 DEF CoreInv

LEMMA StepCore ==
    ASSUME TypeOK, FlowInv, CoreInv, [Next]_vars
    PROVE  CoreInv'
<1> DEFINE c == Head(fifo).call
           a == Head(chain[c])
<1>q. \A m \in Messages : m.op \notin {"add", "delete"} => Quiet(m)
  BY DEF Quiet
<1>n. <<>> \in Seq(Messages) /\ \A j \in DOMAIN <<>> : Quiet(<<>>[j])
  OBVIOUS
<1>d. ASSUME fifo # <<>>, Quiet(Head(fifo)), Done, UNCHANGED coreVars
      PROVE  CoreInv'
  <2>1. DoneThen(<<>>)
    BY <1>d, NothingMore, Types
  <2> QED
    BY <1>d, <1>n, <2>1, QuietDone
<1>1. CASE WebThread
  <2>1. ASSUME NEW d \in Calls, ReleaseCall(d)
        PROVE  CoreInv'
    <3>1. Message("end", d, NoAction) \in Messages
          /\ Quiet(Message("end", d, NoAction))
      BY MessageType DEF Op, Quiet
    <3> QED
      BY <2>1, <3>1, QuietPost DEF ReleaseCall, chainVars, coreVars
  <2>2. ASSUME NEW d \in Calls, NEW p \in Plans, MakeCall(d, p) \/ PlayOnCall(d, p)
        PROVE  CoreInv'
    BY <2>2, StartPlanCore DEF MakeCall, PlayOnCall, chainVars
  <2> QED
    BY <1>1, <2>1, <2>2, PostAddCore DEF WebThread
<1>2. CASE Outside
  <2>1. ASSUME NEW d \in Calls, NEW op \in Op \ {"add", "delete"},
               Post(Message(op, d, NoAction)), UNCHANGED coreVars
        PROVE  CoreInv'
    <3>1. Message(op, d, NoAction) \in Messages /\ Quiet(Message(op, d, NoAction))
      BY MessageType DEF Quiet
    <3> QED
      BY <2>1, <3>1, QuietPost
  <2>2. ASSUME NEW d \in Calls, NEW from, NEW op \in Op \ {"add", "delete"}, NEW to,
               PeerSends(d, from, op, to)
        PROVE  CoreInv'
    BY <2>1, <2>2 DEF PeerSends, chainVars, coreVars
  <2>3. PICK d \in Calls : Ring(d) \/ PickUp(d) \/ Acknowledge(d) \/ HangUp(d)
                          \/ Press(d) \/ CallIn(d) \/ RonaFires(d)
    BY <1>2 DEF Outside
  <2>4. CASE RonaFires(d)
    BY <2>1, <2>4 DEF RonaFires, chainVars, coreVars, Op
  <2>5. CASE Ring(d) \/ PickUp(d) \/ Acknowledge(d)
    BY <2>2, <2>5 DEF Ring, PickUp, Acknowledge, Op
  <2>6. CASE HangUp(d) \/ Press(d) \/ CallIn(d)
    BY <2>2, <2>6 DEF HangUp, Press, CallIn, Op
  <2> QED
    BY <2>3, <2>4, <2>5, <2>6
<1>3. ASSUME NEW d \in Calls, PlayerStep(d)
      PROVE  CoreInv'
  <2>1. Message("empty", d, NoAction) \in Messages
        /\ Quiet(Message("empty", d, NoAction))
    BY MessageType DEF Op, Quiet
  <2>2. /\ fifo' = fifo \/ Post(Message("empty", d, NoAction))
        /\ UNCHANGED playerOnly
    BY <1>3 DEF PlayerStep, TestStopping, TakeSound, QueueRunsOut, SetIdle
  <2>3. UNCHANGED coreVars
    BY <2>2 DEF playerOnly, chainVars, coreVars
  <2> QED
    BY <2>1, <2>2, <2>3, QuietPost, Unchanged
<1>4. ASSUME NEW d \in Calls, PostDestroy(d)
      PROVE  CoreInv'
  <2>1. [Message("destroy", d, NoAction) EXCEPT !.hop = 1] \in Messages
        /\ Quiet([Message("destroy", d, NoAction) EXCEPT !.hop = 1])
    BY PhoneAssumption DEF Message, Messages, Op, Quiet
  <2> QED
    BY <1>4, <2>1, QuietPost DEF PostDestroy, chainVars, coreVars
<1>5. CASE RunPlay \/ RunRelease
  <2>1. /\ fifo # <<>> /\ Quiet(Head(fifo)) /\ chain[c] # <<>>
        /\ status[a.id] = "added" /\ c \in Calls
    <3>1. fifo # <<>>
      BY <1>5 DEF RunPlay, RunRelease, Invokes, Takes
    <3> QED
      BY <1>5, <3>1, HeadType, Types
         DEF RunPlay, RunRelease, Invokes, Takes, Runnable, MayInvoke, Quiet
  <2>2. /\ status' = [status EXCEPT ![a.id] = "invoked"]
        /\ invoked' = [invoked EXCEPT ![c] = Append(@, a.id)]
        /\ mRtpObservers' \in
               {mRtpObservers, [mRtpObservers EXCEPT ![c] = @ \cup {a.id}]}
        /\ UNCHANGED <<rest, made, chain>>
    BY <1>5 DEF RunPlay, RunRelease, Invokes
  <2>3. \E ms \in Seq(Messages) : DoneThen(ms) /\ \A j \in DOMAIN ms : Quiet(ms[j])
    <3>1. CASE RunPlay
      <4>1. DoneThen(<<>>)
        BY <2>1, <3>1, NothingMore, Types DEF RunPlay
      <4> QED
        BY <1>n, <4>1
    <3>2. CASE RunRelease
      <4> DEFINE m == Message("end", c, NoAction)
      <4>1. m \in Messages /\ Quiet(m)
        BY <2>1, MessageType DEF Op, Quiet
      <4>2. DoneThen(<<m>>)
        BY <3>2 DEF RunRelease
      <4> HIDE DEF m
      <4>3. <<m>> \in Seq(Messages) /\ \A j \in DOMAIN <<m>> : Quiet(<<m>>[j])
        BY <4>1
      <4> QED
        BY <4>2, <4>3
    <3> QED
      BY <1>5, <3>1, <3>2
  <2> QED
    BY <2>1, <2>2, <2>3, InvokeCore
<1>6. CASE RunEmptyPlay
  <2>1. /\ fifo # <<>> /\ Quiet(Head(fifo)) /\ chain[c] # <<>>
        /\ status[a.id] = "added" /\ c \in Calls
    <3>1. fifo # <<>>
      BY <1>6 DEF RunEmptyPlay, Invokes, Takes
    <3> QED
      BY <1>6, <3>1, HeadType, Types
         DEF RunEmptyPlay, Invokes, Takes, Runnable, MayInvoke, Quiet
  <2>2. mRtpObservers'[c] = {}
        /\ \A d \in Calls : d # c => mRtpObservers'[d] = mRtpObservers[d]
    BY <1>6, <2>1, NotHeard DEF RunEmptyPlay
  <2> QED
    BY <1>6, <2>1, <2>2, EndActionCore DEF RunEmptyPlay, Invokes
<1>7. CASE NotifySoundsEmpty
  <2>1. fifo # <<>> /\ Quiet(Head(fifo)) /\ c \in Calls
    <3>1. fifo # <<>>
      BY <1>7 DEF NotifySoundsEmpty, Takes
    <3> QED
      BY <1>7, <3>1, HeadType, Types DEF NotifySoundsEmpty, Takes, Quiet
  <2>2. CASE Done /\ UNCHANGED <<chain, status, mRtpObservers>>
    BY <1>7, <1>d, <2>1, <2>2 DEF NotifySoundsEmpty, coreVars
  <2>3. CASE /\ chain[c] # <<>> /\ a.id \in mRtpObservers[c]
             /\ chain' = [chain EXCEPT ![c] = Tail(@)]
             /\ status' = [status EXCEPT ![a.id] = "cleaned"]
             /\ mRtpObservers' = [mRtpObservers EXCEPT ![c] = DropObserver(c)]
             /\ DoneThen(Terminated(c))
    <3>1. DropObserver(c) = {}
      BY <2>1 DEF DropObserver, CoreInv, ObserverInv
    <3>2. mRtpObservers'[c] = {}
          /\ \A d \in Calls : d # c => mRtpObservers'[d] = mRtpObservers[d]
      BY <2>1, <2>3, <3>1, Types DEF ObserversOK
    <3>3. UNCHANGED <<invoked, rest, made>>
      BY <1>7 DEF NotifySoundsEmpty
    <3> QED
      BY <2>1, <2>3, <3>2, <3>3, EndActionCore
  <2> QED
    BY <1>7, <2>2, <2>3 DEF NotifySoundsEmpty
<1>8. CASE RunNothing \/ OnRinging \/ OnInvite \/ OnDigit \/ OnBye
           \/ EndCommand \/ RonaCommand \/ OnConnected
  <2>1. fifo # <<>> /\ Quiet(Head(fifo)) /\ Done /\ UNCHANGED coreVars
    BY <1>8 DEF RunNothing, OnRinging, OnInvite, OnDigit, OnBye, EndCommand,
       RonaCommand, OnConnected, Takes, Quiet, terminateFrame, chainVars, coreVars
  <2> QED
    BY <1>d, <2>1
<1>9. CASE OnAnswer
  <2>1. /\ fifo # <<>> /\ Quiet(Head(fifo)) /\ UNCHANGED coreVars
        /\ Done \/ DoneThen(<<RunCommand(c)>>)
    BY <1>9 DEF OnAnswer, Takes, Quiet, chainVars, coreVars
  <2>2. c \in Calls
    BY <2>1, HeadType, Types
  <2>3. RunCommand(c) \in Messages /\ Quiet(RunCommand(c))
    BY <2>2, RunCommandType DEF Quiet
  <2>4. /\ <<RunCommand(c)>> \in Seq(Messages)
        /\ \A j \in DOMAIN <<RunCommand(c)>> : Quiet(<<RunCommand(c)>>[j])
    BY <2>3
  <2> QED
    BY <1>d, <2>1, <2>4, QuietDone
<1>10. CASE DestroyHop
  <2> DEFINE m == [Head(fifo) EXCEPT !.hop = @ + 1]
  <2>1. /\ fifo # <<>> /\ Quiet(Head(fifo)) /\ UNCHANGED coreVars
        /\ DoneThen(<<m>>) /\ Head(fifo).hop < Hops /\ Head(fifo).op = "destroy"
    BY <1>10 DEF DestroyHop, Takes, Quiet, chainVars, coreVars
  <2>2. m \in Messages /\ Quiet(m)
    <3>1. Head(fifo) \in Messages
      BY <2>1, DoneType, Types
    <3> QED
      BY <2>1, <3>1, PhoneAssumption DEF Messages, Quiet
  <2> HIDE DEF m
  <2>3. <<m>> \in Seq(Messages) /\ \A j \in DOMAIN <<m>> : Quiet(<<m>>[j])
    BY <2>2
  <2> QED
    BY <2>1, <2>3, QuietDone
<1>11. CASE PutSound \/ OnCallTerminated \/ UNCHANGED vars
  <2>1. UNCHANGED fifo /\ UNCHANGED coreVars
    BY <1>11 DEF PutSound, OnCallTerminated, vars, chainVars, coreVars
  <2> QED
    BY <2>1, Unchanged
<1> HIDE DEF c, a
<1> QED
  BY <1>1, <1>2, <1>3, <1>4, <1>5, <1>6, <1>7, <1>8, <1>9, <1>10, <1>11,
     AddActionCore, DeleteActionCore, DestroyCallCore DEF Next, SipThread

-----------------------------------------------------------------------------
(* What the invariant says of the properties. *)

LEMMA Gone == ASSUME TypeOK, CoreInv PROVE CleanedActionsAreGone
<1>1. ASSUME NEW i \in ActionId
      PROVE  Cardinality(Pending(i)) = IF status[i] = "cleaned" THEN 1 ELSE 0
  <2>1. CASE status[i] = "cleaned"
    <3>1. PICK k \in DOMAIN fifo : fifo[k].op = "delete" /\ fifo[k].action.id = i
      BY <2>1 DEF CoreInv, DeleteInv
    <3>2. Pending(i) = {k}
      BY <3>1 DEF Pending, CoreInv, DeleteInv
    <3> QED
      BY <2>1, <3>2, FS_Singleton
  <2>2. CASE status[i] # "cleaned"
    <3>1. Pending(i) = {}
      BY <2>2 DEF Pending, CoreInv, DeleteInv
    <3> QED
      BY <2>2, <3>1, FS_EmptySet
  <2> QED
    BY <2>1, <2>2
<1>2. ASSUME NEW i \in ActionId, status[i] \in {"cleaned", "deleted"}, NEW c \in Calls
      PROVE  i \notin mRtpObservers[c] /\ \A a \in ToSet(chain[c]) : a.id # i
  <2>1. i \notin mRtpObservers[c]
    BY <1>2 DEF CoreInv, ObserverInv
  <2>2. \A k \in DOMAIN chain[c] : chain[c][k].id # i
    BY <1>2, WasAdded
  <2> QED
    BY <2>1, <2>2 DEF ToSet
<1> QED
  BY <1>1, <1>2 DEF CleanedActionsAreGone

-----------------------------------------------------------------------------
(* The theorems *)

(* The inductive invariant: types, what the SIP thread is busy with, and   *)
(* the order and the place of every action.                                *)
THEOREM PhoneInvariance == Spec => []IInv
<1>1. Init => IInv
  BY InitTypes, InitCore DEF IInv
<1>2. IInv /\ [Next]_vars => IInv'
  <2> SUFFICES ASSUME IInv, [Next]_vars PROVE IInv'
    OBVIOUS
  <2>1. TypeOK /\ FlowInv /\ CoreInv /\ ComingInv
    BY DEF IInv, CoreInv
  <2> QED
    BY <2>1, StepTypes, StepCore DEF IInv
<1> QED
  BY <1>1, <1>2, PTL DEF Spec

(* Every variable keeps its type: no queue of sounds gets a negative       *)
(* length, and no message names what is not a call or an action.           *)
THEOREM PhoneTypes == Spec => []TypeOK
<1>1. IInv => TypeOK
  BY DEF IInv
<1> QED
  BY <1>1, PhoneInvariance, PTL

(* The actions of a call are invoked in the order in which they were asked *)
(* for, and none of them twice (ActionMachine::runAction).                 *)
THEOREM ActionsRunInOrder == Spec => []InvokedInOrder
<1>1. IInv => InvokedInOrder
  BY DEF IInv, CoreInv
<1> QED
  BY <1>1, PhoneInvariance, PTL

(* A cleaned action is in no chain, hears of no player and is deleted by   *)
(* exactly one command (ActionMachine::asyncDelAction).                    *)
THEOREM NothingReachesTheCleaned == Spec => []CleanedActionsAreGone
<1>1. IInv => CleanedActionsAreGone
  BY Gone DEF IInv
<1> QED
  BY <1>1, PhoneInvariance, PTL
=============================================================================
