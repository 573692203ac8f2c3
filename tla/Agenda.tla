------------------------------- MODULE Agenda -------------------------------
(***************************************************************************)
(* What DHAS promises to who schedules events: an agenda on disk.  Storing *)
(* an event, dismissing one and taking out one that was raised are each a  *)
(* single step on what is stored, whatever threads do it.  Now and then    *)
(* everything that is due is picked at once; what was picked is raised in  *)
(* the order of the ids, and taken out of the agenda before the next is    *)
(* raised.  What was raised reaches the script in that order.  A crash     *)
(* costs what was picked and what waits for the script, never an entry.    *)
(*                                                                         *)
(* There is no lock, no thread, no copy in memory and no restart here.     *)
(***************************************************************************)
EXTENDS Naturals, Sequences

CONSTANTS Event,  \* the events that can be scheduled: records with an id and
                  \* a timeout
          Id      \* the ids of events

VARIABLES clock,    \* the minutes that have passed
          stored,   \* the agenda
          picked,   \* what was due and is to be raised
          handled,  \* the event that was raised and is to be taken out, if any
          waiting,  \* raised events that the script has not seen yet
          told      \* the events the script was notified of

vars == <<clock, stored, picked, handled, waiting, told>>

Init ==
    /\ clock = 0
    /\ stored = {} /\ picked = {} /\ handled = {}
    /\ waiting = <<>> /\ told = {}

Without(id) == {e \in stored : e.id # id}

Pass ==
    /\ clock' = clock + 1
    /\ UNCHANGED <<stored, picked, handled, waiting, told>>

\* An entry of the same id is replaced.
Store(e) ==
    /\ stored' = Without(e.id) \cup {e}
    /\ UNCHANGED <<clock, picked, handled, waiting, told>>

Dismiss(id) ==
    /\ stored' = Without(id)
    /\ UNCHANGED <<clock, picked, handled, waiting, told>>

\* All that was due at some minute t, which may have passed by now.
Pick(t) ==
    /\ picked = {} /\ handled = {}
    /\ picked' = {e \in stored : e.timeout <= t}
    /\ UNCHANGED <<clock, stored, handled, waiting, told>>

Raise(e) ==
    /\ handled = {} /\ \A f \in picked : e.id <= f.id
    /\ picked' = picked \ {e} /\ handled' = {e}
    /\ waiting' = Append(waiting, e)
    /\ UNCHANGED <<clock, stored, told>>

\* What has its id by now goes with it.
TakeOut(e) ==
    /\ handled' = {}
    /\ stored' = Without(e.id)
    /\ UNCHANGED <<clock, picked, waiting, told>>

Tell ==
    /\ waiting # <<>>
    /\ told' = told \cup {Head(waiting)}
    /\ waiting' = Tail(waiting)
    /\ UNCHANGED <<clock, stored, picked, handled>>

Crash ==
    /\ picked' = {} /\ handled' = {} /\ waiting' = <<>>
    /\ UNCHANGED <<clock, stored, told>>

Next ==
    \/ Pass \/ Tell \/ Crash
    \/ \E e \in Event : Store(e)
    \/ \E id \in Id : Dismiss(id)
    \/ \E t \in 0..clock : Pick(t)
    \/ \E e \in picked : Raise(e)
    \/ \E e \in handled : TakeOut(e)

Spec == Init /\ [][Next]_vars
=============================================================================
