----------------------------- MODULE MCInsteon -----------------------------
(***************************************************************************)
(* Instance of Insteon for TLC: any fault may happen, at any moment.       *)
(***************************************************************************)
EXTENDS Insteon

EveryFault == AllFaults
=============================================================================
