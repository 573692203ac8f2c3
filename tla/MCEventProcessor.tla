-------------------------- MODULE MCEventProcessor --------------------------
(***************************************************************************)
(* Instance of EventProcessor for TLC: a module thread next to the main    *)
(* thread, and two listeners, so that one can be told before the other.    *)
(***************************************************************************)
EXTENDS EventProcessor

CONSTANTS m1, e1, e2, logger, script

OneModule == {m1}
TwoEvents == {e1, e2}
HupOnly == {"hup"}
TermOnly == {"term"}
HupAndTerm == {"hup", "term"}
OneListener == {script}
TwoListeners == {logger, script}
=============================================================================
