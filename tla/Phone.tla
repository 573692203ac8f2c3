------------------------------- MODULE Phone -------------------------------
(***************************************************************************)
(* The phone module: calls (Call, SIPEngine, PhoneModule), the chain of    *)
(* actions of a call (ActionMachine, IPhoneAction) and the thread that     *)
(* plays its sounds (RTPSession).                                          *)
(*                                                                         *)
(* The SIP thread takes one message after the other from the fifo of the   *)
(* SIP stack: what the other party sends, timers, and the commands that    *)
(* this code posts to it.  Web threads, one at a time under                *)
(* mInvocationLock, make calls and post commands with a plain pointer to   *)
(* the call.  Each answered call has a player thread, which posts a        *)
(* command when its queue of sounds runs empty.                            *)
(*                                                                         *)
(* The stack (resiprocate) is external: a call that is over is destroyed   *)
(* by messages it posts to itself, one after the other: for the session,   *)
(* the dialog, the set of dialogs, and so for the call.                    *)
(***************************************************************************)
EXTENDS Naturals, Sequences, SequencesExt, FiniteSets

CONSTANTS Calls,       \* call objects
          Plans,       \* bound: the chains of actions asked for
          MaxActions,  \* bound: actions in all
          Hops,        \* messages from the end of a session to ~Call
          Budgets,     \* bound: what callers and other parties may do
          NoCall       \* no call

(* A plan is a chain of actions.  Play has a number of sounds that can be  *)
(* opened; "empty" plays an empty list.  Release stands for transfer too,  *)
(* which ends the call in the same way.                                    *)
Kind == {"play", "empty", "release"}
ASSUME PhoneAssumption ==
    /\ MaxActions \in Nat /\ Hops \in Nat \ {0} /\ NoCall \notin Calls
    /\ Plans \subseteq Seq([kind : Kind, sounds : Nat])

(* Budgets count what each kind of event may still do.                     *)
ASSUME PhoneBudgetsAssumption ==
    Budgets \subseteq [calls : Nat, plays : Nat, ends : Nat, digits : Nat,
                       incoming : Nat]

VARIABLES
    life,          \* none, dialing, listed, cancelling, over, destroyed
    mCallState,    \* Initial, Ringing or Answered
    mIncomming,    \* the calls from outside
    chain,         \* the actions of a call, the current one first
    mRtpObservers, \* the actions told when the sounds of a call run out
    status,        \* of every action
    fifo,          \* messages to the SIP thread
    sip,           \* what the SIP thread is in the middle of
    rest,          \* the REST call that is under way
    player,        \* where the player thread of a call is
    mQueueWasEmpty,
    mStopping,
    sounds,        \* sounds in mSoundQueue
    peer,          \* the other party of a call
    ronaArmed,     \* calls whose timer runs
    budget,        \* what callers and other parties may still do
    made,          \* actions made so far
    invoked,       \* the actions of a call in the order of their invocation
    empties,       \* how many of these had no sounds and ended at once
    cleared,       \* calls whose queue a digit has emptied
    late,          \* calls that were posted to after they were over
    missed,        \* calls whose player was notified before it waited
    deadUse        \* calls whose object was used after it was deleted

callVars == <<life, mCallState, mIncomming>>
chainVars == <<chain, mRtpObservers, status, invoked, empties>>
playerVars == <<player, mQueueWasEmpty, mStopping, sounds>>
outside == <<peer, ronaArmed>>
ghosts == <<cleared, late, missed, deadUse>>
vars == <<callVars, chainVars, fifo, sip, rest, playerVars, outside, budget,
          made, ghosts>>

ActionId == 1..MaxActions
Action == [id : ActionId, kind : Kind, sounds : Nat]
NoAction == [id |-> 0, kind |-> "empty", sounds |-> 0]
Op == {"add", "run", "delete", "empty", "end", "rona", "destroy",
       "ringing", "answer", "bye", "digit", "invite", "ack"}
Message(op, c, a) == [op |-> op, call |-> c, action |-> a, hop |-> 0]
Idle == [at |-> "free", call |-> NoCall, left |-> 0]
NoRest == [call |-> NoCall, left |-> <<>>]

Messages == [op : Op, call : Calls, action : Action \cup {NoAction},
             hop : 0..Hops]

TypeOK ==
    /\ life \in [Calls -> {"none", "dialing", "listed", "cancelling", "over",
                           "destroyed"}]
    /\ mCallState \in [Calls -> {"Initial", "Ringing", "Answered"}]
    /\ mIncomming \in SUBSET Calls
    /\ chain \in [Calls -> Seq(Action)]
    /\ mRtpObservers \in [Calls -> SUBSET ActionId]
    /\ status \in [ActionId -> {"none", "posted", "added", "invoked",
                                "cleaned", "deleted"}]
    /\ invoked \in [Calls -> Seq(ActionId)] /\ empties \in [Calls -> Nat]
    /\ fifo \in Seq(Messages)
    /\ sip \in [at : {"free", "puts", "join"}, call : Calls \cup {NoCall},
                left : Nat]
    /\ rest \in [call : Calls \cup {NoCall}, left : Seq(Action)]
    /\ player \in [Calls -> {"off", "test", "get", "sleepy", "wait", "ended"}]
    /\ mQueueWasEmpty \in [Calls -> BOOLEAN]
    /\ mStopping \in [Calls -> BOOLEAN]
    /\ sounds \in [Calls -> Nat]
    /\ peer \in [Calls -> {"none", "calling", "invited", "ringing", "accepted",
                           "talking", "gone"}]
    /\ ronaArmed \in SUBSET Calls
    /\ made \in 0..MaxActions
    /\ cleared \cup late \cup missed \cup deadUse \in SUBSET Calls

Init ==
    /\ life = [c \in Calls |-> "none"]
    /\ mCallState = [c \in Calls |-> "Initial"] /\ mIncomming = {}
    /\ chain = [c \in Calls |-> <<>>]
    /\ mRtpObservers = [c \in Calls |-> {}]
    /\ status = [i \in ActionId |-> "none"]
    /\ fifo = <<>> /\ sip = Idle /\ rest = NoRest
    /\ player = [c \in Calls |-> "off"]
    /\ mQueueWasEmpty = [c \in Calls |-> TRUE]
    /\ mStopping = [c \in Calls |-> FALSE]
    /\ sounds = [c \in Calls |-> 0]
    /\ peer = [c \in Calls |-> "none"] /\ ronaArmed = {}
    /\ budget \in Budgets /\ made = 0
    /\ invoked = [c \in Calls |-> <<>>] /\ empties = [c \in Calls |-> 0]
    /\ cleared = {} /\ late = {} /\ missed = {} /\ deadUse = {}

Spend(field) == /\ budget[field] > 0
                /\ budget' = [budget EXCEPT ![field] = @ - 1]

Post(m) == fifo' = Append(fifo, m)

(***************************************************************************)
(* The web threads.                                                        *)
(***************************************************************************)
(* The actions of a plan, made one after the other.                        *)
ActionsOf(plan) ==
    [i \in DOMAIN plan |-> [id |-> made + i, kind |-> plan[i].kind,
                            sounds |-> plan[i].sounds]]

StartPlan(c, plan) ==
    /\ rest = NoRest /\ made + Len(plan) <= MaxActions
    /\ rest' = [call |-> c, left |-> ActionsOf(plan)]
    /\ made' = made + Len(plan)

(* An object that was not used before.                                     *)
IsNew(c) ==
    LET new == {d \in Calls : life[d] = "none" /\ peer[d] = "none"} IN
    c \in new /\ c = CHOOSE d \in new : TRUE

(* PhoneModule::call and click2dial, once the user agent is registered.    *)
MakeCall(c, plan) ==
    /\ Spend("calls")
    /\ IsNew(c)
    /\ StartPlan(c, plan)
    /\ life' = [life EXCEPT ![c] = "dialing"]
    /\ peer' = [peer EXCEPT ![c] = "invited"]
    /\ UNCHANGED <<mCallState, mIncomming, chainVars, fifo, sip, playerVars,
                   ronaArmed, ghosts>>

(* mCallsList holds a call until the end of its session.                   *)
Listed(c) == life[c] \in {"listed", "cancelling"}

(* playOnCall looks the call up, and keeps the pointer.                    *)
PlayOnCall(c, plan) ==
    /\ Spend("plays")
    /\ Listed(c)
    /\ StartPlan(c, plan)
    /\ UNCHANGED <<callVars, chainVars, fifo, sip, playerVars, outside,
                   ghosts>>

(* asyncAddAction, for the next action of the plan.                        *)
PostAdd ==
    LET c == rest.call
        a == Head(rest.left) IN
    /\ rest.left # <<>>
    /\ Post(Message("add", c, a))
    /\ status' = [status EXCEPT ![a.id] = "posted"]
    /\ late' = IF life[c] \in {"over", "destroyed"} THEN late \cup {c}
               ELSE late
    /\ rest' = IF Len(rest.left) = 1 THEN NoRest
               ELSE [rest EXCEPT !.left = Tail(@)]
    /\ UNCHANGED <<callVars, chain, mRtpObservers, invoked, empties, sip,
                   playerVars, outside, budget, made, cleared, missed,
                   deadUse>>

(* releaseCall posts the end of the call with a handle.                    *)
ReleaseCall(c) ==
    /\ rest = NoRest
    /\ Spend("ends")
    /\ Listed(c)
    /\ Post(Message("end", c, NoAction))
    /\ UNCHANGED <<callVars, chainVars, sip, rest, playerVars, outside, made,
                   ghosts>>

WebThread ==
    \/ \E c \in Calls : \/ ReleaseCall(c)
                        \/ \E p \in Plans : MakeCall(c, p) \/ PlayOnCall(c, p)
    \/ PostAdd

(***************************************************************************)
(* The other party and the stack.  What they send waits in the fifo too.   *)
(***************************************************************************)
PeerSends(c, from, op, to) ==
    /\ peer[c] \in from
    /\ Post(Message(op, c, NoAction))
    /\ peer' = [peer EXCEPT ![c] = to]
    /\ UNCHANGED <<callVars, chainVars, sip, rest, playerVars, ronaArmed, made,
                   ghosts>>

Ring(c) == PeerSends(c, {"invited"}, "ringing", "ringing")
           /\ UNCHANGED budget
PickUp(c) == PeerSends(c, {"invited", "ringing"}, "answer", "talking")
             /\ UNCHANGED budget
Acknowledge(c) == PeerSends(c, {"accepted"}, "ack", "talking")
                  /\ UNCHANGED budget
HangUp(c) ==
    /\ PeerSends(c, {"invited", "ringing", "accepted", "talking"}, "bye",
                 "gone")
    /\ UNCHANGED budget
Press(c) == PeerSends(c, {"talking"}, "digit", "talking") /\ Spend("digits")
CallIn(c) == /\ IsNew(c)
             /\ PeerSends(c, {"none"}, "invite", "calling")
             /\ Spend("incoming")

(* The timer of an unanswered call.                                        *)
RonaFires(c) ==
    /\ c \in ronaArmed
    /\ ronaArmed' = ronaArmed \ {c}
    /\ Post(Message("rona", c, NoAction))
    /\ UNCHANGED <<callVars, chainVars, sip, rest, playerVars, peer, budget,
                   made, ghosts>>

Outside ==
    \/ \E c \in Calls : Ring(c) \/ PickUp(c) \/ Acknowledge(c) \/ HangUp(c)
                        \/ Press(c) \/ CallIn(c) \/ RonaFires(c)

(***************************************************************************)
(* The player thread.                                                      *)
(***************************************************************************)
Moves(c, from, to) == /\ player[c] = from
                      /\ player' = [player EXCEPT ![c] = to]

playerOnly == <<callVars, chainVars, sip, rest, outside, budget, made, ghosts>>

(* The test of mStopping before each piece of work.                        *)
TestStopping(c) ==
    /\ Moves(c, "test", IF mStopping[c] THEN "ended" ELSE "get")
    /\ UNCHANGED <<mQueueWasEmpty, mStopping, sounds, fifo, playerOnly>>

(* Mutant: a sound is taken whether there is one or not.                   *)
CanTake(c) == TRUE

HasSound(c) == sounds[c] > 0

(* A sound is taken and played to its end.                                 *)
TakeSound(c) ==
    /\ Moves(c, "get", "test")
    /\ HasSound(c)
    /\ sounds' = [sounds EXCEPT ![c] = @ - 1]
    /\ mQueueWasEmpty' = [mQueueWasEmpty EXCEPT ![c] = FALSE]
    /\ UNCHANGED <<mStopping, fifo, playerOnly>>

(* Mutant: an empty queue is not told.                                     *)
QueueRunsOutQuietly(c) ==
    /\ Moves(c, "get", "sleepy")
    /\ sounds[c] = 0
    /\ mQueueWasEmpty' = [mQueueWasEmpty EXCEPT ![c] = TRUE]
    /\ UNCHANGED <<mStopping, sounds, fifo, playerOnly>>

(* The queue is empty: that is told once, and the thread is about to wait. *)
QueueRunsOut(c) ==
    /\ Moves(c, "get", "sleepy")
    /\ sounds[c] = 0
    /\ IF mQueueWasEmpty[c] THEN UNCHANGED fifo
       ELSE Post(Message("empty", c, NoAction))
    /\ mQueueWasEmpty' = [mQueueWasEmpty EXCEPT ![c] = TRUE]
    /\ UNCHANGED <<mStopping, sounds, playerOnly>>

(* setIdle waits without looking at the queue or at mStopping again.       *)
SetIdle(c) ==
    /\ Moves(c, "sleepy", "wait")
    /\ UNCHANGED <<mQueueWasEmpty, mStopping, sounds, fifo, playerOnly>>

PlayerStep(c) ==
    TestStopping(c) \/ TakeSound(c) \/ QueueRunsOut(c) \/ SetIdle(c)

(* Mutant: nobody is notified.                                             *)
SetNothing(c) == player' = player

(* notify_all without the lock: it wakes a thread that waits, no other.    *)
SetWorking(c) ==
    player' = IF player[c] = "wait" THEN [player EXCEPT ![c] = "test"]
              ELSE player

(***************************************************************************)
(* The SIP thread: one message at a time.                                  *)
(***************************************************************************)
Takes(op) == sip = Idle /\ fifo # <<>> /\ Head(fifo).op = op
Done == fifo' = Tail(fifo)
DoneThen(ms) == fifo' = Tail(fifo) \o ms
Lives(c) == life[c] # "destroyed"
RunCommand(c) == Message("run", c, NoAction)

(* appendAction.  The call of a command may be deleted already.            *)
AddAction ==
    LET c == Head(fifo).call
        a == Head(fifo).action IN
    /\ Takes("add")
    /\ IF Lives(c)
       THEN /\ chain' = [chain EXCEPT ![c] = Append(@, a)]
            /\ status' = [status EXCEPT ![a.id] = "added"]
            /\ IF chain[c] = <<>> /\ mCallState[c] = "Answered"
               THEN DoneThen(<<RunCommand(c)>>) ELSE Done
            /\ UNCHANGED deadUse
       ELSE Done /\ deadUse' = deadUse \cup {c} /\ UNCHANGED <<chain, status>>
    /\ UNCHANGED <<callVars, mRtpObservers, invoked, empties, sip, rest,
                   playerVars, outside, budget, made, cleared, late, missed>>

(* What actionTerminated does for the current action of c: the next one is *)
(* current, this one is cleaned and its deletion posted, and the next run. *)
Terminated(c) ==
    <<Message("delete", c, Head(chain[c]))>>
    \o (IF Len(chain[c]) > 1 THEN <<RunCommand(c)>> ELSE <<>>)

(* Mutant: an action that was invoked is invoked again.                    *)
MayInvokeAgain(a) == TRUE

(* invokeAction is "smart enough to know not to be executed twice".        *)
MayInvoke(a) == status[a.id] = "added"

Runnable(c) == Lives(c) /\ chain[c] # <<>> /\ MayInvoke(Head(chain[c]))

(* The first action of the chain of c, of some kind, is invoked.           *)
Invokes(c, kind) ==
    /\ Takes("run") /\ Runnable(c) /\ Head(chain[c]).kind = kind
    /\ invoked' = [invoked EXCEPT ![c] = Append(@, Head(chain[c]).id)]
    /\ empties' = IF kind = "empty" THEN [empties EXCEPT ![c] = @ + 1]
                  ELSE empties

(* There is no action to run, or it was invoked before.                    *)
RunNothing ==
    LET c == Head(fifo).call IN
    /\ Takes("run")
    /\ ~Runnable(c)
    /\ deadUse' = IF Lives(c) THEN deadUse ELSE deadUse \cup {c}
    /\ Done
    /\ UNCHANGED <<callVars, chainVars, sip, rest, playerVars, outside,
                   budget, made, cleared, late, missed>>

RunPlay ==
    LET c == Head(fifo).call
        a == Head(chain[c]) IN
    /\ Invokes(c, "play")
    /\ status' = [status EXCEPT ![a.id] = "invoked"]
    /\ mRtpObservers' = [mRtpObservers EXCEPT ![c] = @ \cup {a.id}]
    /\ sip' = IF a.sounds = 0 THEN Idle
              ELSE [at |-> "puts", call |-> c, left |-> a.sounds]
    /\ Done
    /\ UNCHANGED <<callVars, chain, rest, playerVars, outside, budget, made,
                   ghosts>>

(* A list without sounds ends within its invocation.                       *)
RunEmptyPlay ==
    LET c == Head(fifo).call
        a == Head(chain[c]) IN
    /\ Invokes(c, "empty")
    /\ status' = [status EXCEPT ![a.id] = "cleaned"]
    /\ chain' = [chain EXCEPT ![c] = Tail(@)]
    /\ DoneThen(Terminated(c))
    /\ UNCHANGED <<callVars, mRtpObservers, sip, rest, playerVars, outside,
                   budget, made, ghosts>>

RunRelease ==
    LET c == Head(fifo).call
        a == Head(chain[c]) IN
    /\ Invokes(c, "release")
    /\ status' = [status EXCEPT ![a.id] = "invoked"]
    /\ DoneThen(<<Message("end", c, NoAction)>>)
    /\ UNCHANGED <<callVars, chain, mRtpObservers, sip, rest, playerVars,
                   outside, budget, made, ghosts>>

(* ISoundDevice::play: a sound is queued and the player notified.          *)
PutSound ==
    LET c == sip.call IN
    /\ sip.at = "puts"
    /\ sounds' = [sounds EXCEPT ![c] = @ + 1]
    /\ SetWorking(c)
    /\ missed' = IF player[c] = "sleepy" THEN missed \cup {c} ELSE missed
    /\ sip' = IF sip.left = 1 THEN Idle ELSE [sip EXCEPT !.left = @ - 1]
    /\ UNCHANGED <<callVars, chainVars, fifo, rest, mQueueWasEmpty, mStopping,
                   outside, budget, made, cleared, late, deadUse>>

(* Mutant: the action that has ended still hears of the player.            *)
KeepObserver(c) == mRtpObservers[c]

(* clean() of the action that has ended.                                   *)
DropObserver(c) == mRtpObservers[c] \ {Head(chain[c]).id}

(* notifySoundsEmpty: the play action that listens is over.                *)
NotifySoundsEmpty ==
    LET c == Head(fifo).call
        heard == Lives(c) /\ mRtpObservers[c] # {} IN
    /\ Takes("empty")
    /\ IF heard /\ chain[c] # <<>> /\ Head(chain[c]).id \in mRtpObservers[c]
       THEN /\ chain' = [chain EXCEPT ![c] = Tail(@)]
            /\ status' = [status EXCEPT ![Head(chain[c]).id] = "cleaned"]
            /\ mRtpObservers' = [mRtpObservers EXCEPT ![c] = DropObserver(c)]
            /\ DoneThen(Terminated(c))
       ELSE Done /\ UNCHANGED <<chain, status, mRtpObservers>>
    /\ deadUse' = IF Lives(c) THEN deadUse ELSE deadUse \cup {c}
    /\ UNCHANGED <<callVars, invoked, empties, sip, rest, playerVars, outside,
                   budget, made, cleared, late, missed>>

DeleteAction ==
    /\ Takes("delete")
    /\ status' = [status EXCEPT ![Head(fifo).action.id] = "deleted"]
    /\ Done
    /\ UNCHANGED <<callVars, chain, mRtpObservers, invoked, empties, sip, rest,
                   playerVars, outside, budget, made, ghosts>>

(* onNewSession and onProvisional.                                         *)
OnRinging ==
    LET c == Head(fifo).call IN
    /\ Takes("ringing")
    /\ life' = [life EXCEPT ![c] = "listed"]
    /\ mCallState' = [mCallState EXCEPT ![c] = "Ringing"]
    /\ ronaArmed' = ronaArmed \cup {c}
    /\ Done
    /\ UNCHANGED <<mIncomming, chainVars, sip, rest, playerVars, peer, budget,
                   made, ghosts>>

StartPlayer(c) ==
    /\ player' = [player EXCEPT ![c] = "test"]
    /\ mQueueWasEmpty' = [mQueueWasEmpty EXCEPT ![c] = TRUE]
    /\ mStopping' = [mStopping EXCEPT ![c] = FALSE]
    /\ mCallState' = [mCallState EXCEPT ![c] = "Answered"]

(* onAnswer, after onNewSession when nothing has rung: the player starts   *)
(* and the chain is run.  A call that is being cancelled is not answered.  *)
OnAnswer ==
    LET c == Head(fifo).call IN
    /\ Takes("answer")
    /\ IF life[c] \in {"dialing", "listed"}
       THEN /\ life' = [life EXCEPT ![c] = "listed"]
            /\ StartPlayer(c)
            /\ DoneThen(<<RunCommand(c)>>)
       ELSE Done /\ UNCHANGED <<life, mCallState, player, mQueueWasEmpty,
                                mStopping>>
    /\ UNCHANGED <<mIncomming, chainVars, sip, rest, sounds, outside, budget,
                   made, ghosts>>

(* onNewSession for a call from outside: a second one is refused, and a    *)
(* first one answered.  The other party acknowledges that.                 *)
OnInvite ==
    LET c == Head(fifo).call IN
    /\ Takes("invite") /\ Done
    /\ IF \E d \in mIncomming : Listed(d)
       THEN /\ life' = [life EXCEPT ![c] = "over"]
            /\ peer' = [peer EXCEPT ![c] = "gone"]
       ELSE /\ life' = [life EXCEPT ![c] = "listed"]
            /\ peer' = [peer EXCEPT ![c] = "accepted"]
    /\ mIncomming' = mIncomming \cup {c}
    /\ UNCHANGED <<mCallState, chainVars, sip, rest, playerVars, ronaArmed,
                   budget, made, ghosts>>

(* onDigit clears the queue of sounds.  What plays goes on: the flag that   *)
(* is set is hidden by one of RTPSession with the same name.               *)
OnDigit ==
    LET c == Head(fifo).call IN
    /\ Takes("digit")
    /\ IF life[c] = "listed"
       THEN sounds' = [sounds EXCEPT ![c] = 0] /\ cleared' = cleared \cup {c}
       ELSE UNCHANGED <<sounds, cleared>>
    /\ Done
    /\ UNCHANGED <<callVars, chainVars, sip, rest, player, mQueueWasEmpty,
                   mStopping, outside, budget, made, late, missed, deadUse>>

(* onTerminated stops the player, when there is one, and waits for it.     *)
Terminate(c) ==
    /\ sip' = [at |-> "join", call |-> c, left |-> 0]
    /\ IF player[c] \in {"off", "ended"}
       THEN UNCHANGED <<player, mStopping, missed>>
       ELSE /\ mStopping' = [mStopping EXCEPT ![c] = TRUE]
            /\ SetWorking(c)
            /\ missed' = IF player[c] \in {"get", "sleepy"}
                         THEN missed \cup {c} ELSE missed

terminateFrame == <<mIncomming, mCallState, chainVars, rest, mQueueWasEmpty,
                    sounds, outside, budget, made, cleared, late, deadUse>>

KeepOn == UNCHANGED <<sip, player, mStopping, missed>>

(* The other party has hung up, refused the call or seen it cancelled.     *)
OnBye ==
    LET c == Head(fifo).call IN
    /\ Takes("bye") /\ Done
    /\ IF life[c] \in {"dialing", "listed", "cancelling"} THEN Terminate(c)
       ELSE KeepOn
    /\ UNCHANGED <<life, terminateFrame>>

(* end() on a session: an answered one ends at once; one that rings is     *)
(* cancelled and ends when the other party says so, one that waits for its *)
(* acknowledgement ends with it.                                           *)
End(c) ==
    IF life[c] = "listed" /\ mCallState[c] = "Answered"
    THEN Terminate(c) /\ UNCHANGED life
    ELSE /\ life' = IF life[c] = "listed"
                    THEN [life EXCEPT ![c] = "cancelling"] ELSE life
         /\ KeepOn

(* The handle of a command is not valid once the call is destroyed.        *)
EndCommand ==
    /\ Takes("end") /\ Done
    /\ End(Head(fifo).call)
    /\ UNCHANGED terminateFrame

RonaCommand ==
    LET c == Head(fifo).call IN
    /\ Takes("rona") /\ Done
    /\ IF mCallState[c] = "Ringing" THEN End(c) ELSE KeepOn /\ UNCHANGED life
    /\ UNCHANGED terminateFrame

(* onConnected: an incoming call is acknowledged.  Its chain is not run.   *)
OnConnected ==
    LET c == Head(fifo).call IN
    /\ Takes("ack") /\ Done
    /\ \/ life[c] = "listed" /\ StartPlayer(c) /\ UNCHANGED <<sip, missed>>
       \/ /\ \/ life[c] = "cancelling" /\ Terminate(c)
             \/ ~Listed(c) /\ KeepOn
          /\ UNCHANGED <<mCallState, mQueueWasEmpty>>
    /\ UNCHANGED <<life, mIncomming, chainVars, rest, sounds, outside, budget,
                   made, cleared, late, deadUse>>

(* Mutant: the player is not waited for.                                   *)
Abandoned(c) == TRUE

Joined(c) == player[c] \in {"off", "ended"}

(* The player has ended: the call is removed from mCallsList.              *)
OnCallTerminated ==
    /\ sip.at = "join" /\ Joined(sip.call)
    /\ life' = [life EXCEPT ![sip.call] = "over"]
    /\ sip' = Idle
    /\ UNCHANGED <<mCallState, mIncomming, chainVars, fifo, rest, playerVars,
                   outside, budget, made, ghosts>>

(* The stack destroys the session, then what holds it, then the call.      *)
PostDestroy(c) ==
    /\ life[c] = "over"
    /\ ~\E i \in DOMAIN fifo : fifo[i].op = "destroy" /\ fifo[i].call = c
    /\ Post([Message("destroy", c, NoAction) EXCEPT !.hop = 1])
    /\ UNCHANGED <<callVars, chainVars, sip, rest, playerVars, outside,
                   budget, made, ghosts>>

DestroyHop ==
    /\ Takes("destroy") /\ Head(fifo).hop < Hops
    /\ DoneThen(<<[Head(fifo) EXCEPT !.hop = @ + 1]>>)
    /\ UNCHANGED <<callVars, chainVars, sip, rest, playerVars, outside,
                   budget, made, ghosts>>

(* ~Call and destroyChain: every action of the chain is cleaned and its    *)
(* deletion posted.                                                        *)
DestroyCall ==
    LET c == Head(fifo).call
        deletes == [i \in DOMAIN chain[c] |->
                      Message("delete", c, chain[c][i])] IN
    /\ Takes("destroy") /\ Head(fifo).hop = Hops
    /\ life' = [life EXCEPT ![c] = "destroyed"]
    /\ status' = [i \in ActionId |->
                     IF \E a \in ToSet(chain[c]) : a.id = i THEN "cleaned"
                     ELSE status[i]]
    /\ chain' = [chain EXCEPT ![c] = <<>>]
    /\ mRtpObservers' = [mRtpObservers EXCEPT ![c] = {}]
    /\ DoneThen(deletes)
    /\ UNCHANGED <<mCallState, mIncomming, invoked, empties, sip, rest,
                   playerVars, outside, budget, made, ghosts>>

SipThread ==
    \/ AddAction \/ RunNothing \/ RunPlay \/ RunEmptyPlay \/ RunRelease
    \/ PutSound \/ NotifySoundsEmpty \/ DeleteAction
    \/ OnRinging \/ OnAnswer \/ OnInvite \/ OnConnected \/ OnDigit \/ OnBye
    \/ EndCommand \/ RonaCommand \/ OnCallTerminated
    \/ DestroyHop \/ DestroyCall

Next == \/ WebThread \/ Outside \/ SipThread
        \/ \E c \in Calls : PlayerStep(c) \/ PostDestroy(c)

(* The loop of the SIP thread takes what is in the fifo; threads run; the  *)
(* other party answers a cancellation; timers fire.                        *)
Fairness ==
    /\ WF_vars(SipThread) /\ WF_vars(PostAdd)
    /\ \A c \in Calls :
          /\ WF_vars(PlayerStep(c)) /\ WF_vars(PostDestroy(c))
          /\ WF_vars(RonaFires(c))
          /\ WF_vars(life[c] = "cancelling" /\ HangUp(c))

Spec == Init /\ [][Next]_vars
FairSpec == Spec /\ Fairness

(***************************************************************************)
(* Properties.                                                             *)
(***************************************************************************)
(* The actions of a call are invoked in the order in which they were asked *)
(* for, and none of them twice, however many run commands are posted       *)
(* (ActionMachine::runAction).                                             *)
InvokedInOrder ==
    \A c \in Calls : \A i, j \in DOMAIN invoked[c] :
        i < j => invoked[c][i] < invoked[c][j]

(* A command meets a deleted call only when a web thread has posted it to  *)
(* a call that was over, or when plays without sounds, each of which posts *)
(* the command that runs the next action, are as many as the messages on   *)
(* the way to ~Call, less one.  No command of the player or of the stack   *)
(* comes too late (Call::onSoundQueueEmpty, ActionMachine, ~Call).         *)
DeadUseOnlyLate == \A c \in deadUse : c \in late \/ empties[c] >= Hops - 1

Pending(i) ==
    {k \in DOMAIN fifo : fifo[k].op = "delete" /\ fifo[k].action.id = i}

(* An action that was cleaned "wont get any callbacks": it is in no chain  *)
(* and hears of no player, and exactly one command deletes it              *)
(* (ActionMachine::asyncDelAction).                                        *)
CleanedActionsAreGone ==
    \A i \in ActionId :
        /\ Cardinality(Pending(i)) = IF status[i] = "cleaned" THEN 1 ELSE 0
        /\ status[i] \in {"cleaned", "deleted"} =>
              \A c \in Calls : /\ i \notin mRtpObservers[c]
                               /\ \A a \in ToSet(chain[c]) : a.id # i

Connected(c) == life[c] = "listed" /\ mCallState[c] = "Answered"

(* A call that was ended, that does not get an answer or whose other party *)
(* is gone, is destroyed, unless a player was notified just before it      *)
(* waited: the SIP thread then waits for that player (RTPSession::stop,    *)
(* SIPEngine::onTerminated).                                               *)
EveryCallEnds ==
    \A c \in Calls :
        \/ peer[c] = "gone" \/ mCallState[c] = "Ringing"
        \/ life[c] \in {"cancelling", "over"}
        ~> \/ life[c] = "destroyed"
           \/ Connected(c) /\ peer[c] # "gone"
           \/ missed # {}

(* A call that was acknowledged after its first action had been added: its *)
(* chain never runs.                                                       *)
NeverRun(c) ==
    /\ c \in mIncomming /\ chain[c] # <<>>
    /\ status[Head(chain[c]).id] = "added"
    /\ ~\E i \in DOMAIN fifo : fifo[i].op = "run" /\ fifo[i].call = c

(* A play action whose files cannot be opened waits for no sound.          *)
Soundless(c) == \E a \in ToSet(chain[c]) : a.kind = "play" /\ a.sounds = 0

Releasing(c) == \E a \in ToSet(chain[c]) : a.kind = "release"

(* An answered call with a release action ends, once its sounds are        *)
(* played, unless a digit took the sounds away, no sound could be opened,  *)
(* a player missed a notification or the chain was never run               *)
(* (PhoneModule::playOnCall, hangupAfterSounds).                           *)
ReleasedAfterSounds ==
    \A c \in Calls :
        (Connected(c) /\ Releasing(c))
        ~> \/ life[c] \in {"over", "destroyed"}
           \/ c \in cleared \/ Soundless(c) \/ missed # {} \/ NeverRun(c)
=============================================================================
