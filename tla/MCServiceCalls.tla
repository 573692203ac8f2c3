--------------------------- MODULE MCServiceCalls ---------------------------
(***************************************************************************)
(* Instance of ServiceCalls for TLC: web clients and the script.           *)
(***************************************************************************)
EXTENDS ServiceCalls

CONSTANTS w1, w2

OneClient == {w1}
TwoClients == {w1, w2}
=============================================================================
