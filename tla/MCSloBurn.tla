----------------------------- MODULE MCSloBurn -----------------------------
(* Values of the constants of SloBurn for TLC. *)
EXTENDS SloBurn

CONSTANTS a

Exhausted == [agent |-> a, sli |-> 1, trigger |-> "exhausted", seen |-> FALSE]
FastBurn  == [agent |-> a, sli |-> 2, trigger |-> "fast_burn", seen |-> TRUE]
Unread    == [agent |-> a, sli |-> 1, trigger |-> "fast_burn", seen |-> FALSE]

MCAgents == {a}
MCBurns  == {Exhausted, FastBurn, Unread}
=============================================================================
