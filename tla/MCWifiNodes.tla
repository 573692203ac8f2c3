---------------------------- MODULE MCWifiNodes ----------------------------
(* Instances of WifiNodes for TLC.                                         *)
EXTENDS WifiNodes

CONSTANTS n1, n2, a, b

ItemOf(v, s) == [valve |-> v, seconds |-> s]

MCPrograms == {<<>>, <<ItemOf(a, 1)>>,
               <<ItemOf(a, 0), ItemOf(b, 1), ItemOf(a, 1)>>}

(* One controller that stays, and callers; or two that come and go.        *)
MCBudgets ==
    {[calls |-> 2, lists |-> 0, adverts |-> 1, losses |-> 0, nodes |-> {n1},
      ops |-> {"on", "off", "sequence"}, steady |-> TRUE],
     [calls |-> 1, lists |-> 1, adverts |-> 1, losses |-> 1, nodes |-> {n1},
      ops |-> {"off"}, steady |-> FALSE],
     [calls |-> 0, lists |-> 0, adverts |-> 2, losses |-> 0,
      nodes |-> {n1, n2}, ops |-> {}, steady |-> FALSE]}
=============================================================================
