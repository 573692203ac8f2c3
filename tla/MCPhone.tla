------------------------------ MODULE MCPhone ------------------------------
(* Instances of Phone for TLC.                                             *)
EXTENDS Phone

CONSTANTS c1, c2

Play(n) == [kind |-> "play", sounds |-> n]
Empty == [kind |-> "empty", sounds |-> 0]
Release == [kind |-> "release", sounds |-> 0]

(* A sound and a release; a list without sounds, alone or with a release;  *)
(* one that cannot be opened.                                              *)
MCPlans == {<<Play(1), Release>>, <<Empty>>, <<Empty, Release>>, <<Play(0)>>}

(* An outgoing call with a digit and an end, or played to a second time;   *)
(* an incoming one that is played to once or twice; two that meet.         *)
MCBudgets ==
    {[calls |-> 1, plays |-> 0, ends |-> 1, digits |-> 1, incoming |-> 0],
     [calls |-> 1, plays |-> 1, ends |-> 0, digits |-> 0, incoming |-> 0],
     [calls |-> 0, plays |-> 1, ends |-> 1, digits |-> 1, incoming |-> 1],
     [calls |-> 0, plays |-> 2, ends |-> 0, digits |-> 0, incoming |-> 1],
     [calls |-> 0, plays |-> 0, ends |-> 1, digits |-> 0, incoming |-> 2]}
=============================================================================
