------------------------------ MODULE EventBus ------------------------------
(***************************************************************************)
(* What DHAS promises to one listener of its events: a reliable FIFO       *)
(* channel.  Whatever thread raises an event, each listener is notified of *)
(* every event, once, in the order in which the events were accepted.      *)
(*                                                                         *)
(* pending is what was accepted and not yet given to the listener, last is *)
(* the event the listener was given last.  There is no history variable:   *)
(* that every step is Post or Deliver says that nothing is lost, repeated  *)
(* or overtaken.                                                           *)
(***************************************************************************)
EXTENDS Sequences

CONSTANTS Event,    \* the events that modules and the timer can raise
          NoEvent   \* the listener has not been notified of anything yet

VARIABLES pending, last

vars == <<pending, last>>

Init ==
    /\ pending = <<>>
    /\ last = NoEvent

\* Some thread raises e (IEventProcessor::processEvent).
Post(e) ==
    /\ pending' = Append(pending, e)
    /\ UNCHANGED last

\* The listener is notified of the oldest event it has not seen.
Deliver ==
    /\ pending # <<>>
    /\ last' = Head(pending)
    /\ pending' = Tail(pending)

Next == Deliver \/ \E e \in Event : Post(e)

Spec == Init /\ [][Next]_vars
=============================================================================
