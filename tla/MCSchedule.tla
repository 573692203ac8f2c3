----------------------------- MODULE MCSchedule -----------------------------
(***************************************************************************)
(* Instance of Schedule for TLC: the web server and the script make calls. *)
(***************************************************************************)
EXTENDS Schedule

CONSTANTS web, main

Callers == {web, main}

(* Calls and crashes are not obliged to happen: at most three of them do.   *)
MCNext == Next /\ adds' + removes' + crashes' <= 3
MCSpec == Init /\ [][MCNext]_vars /\ Fairness
=============================================================================
