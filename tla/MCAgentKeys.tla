---------------------------- MODULE MCAgentKeys ----------------------------
(* Values of the constants of AgentKeys for TLC. *)
EXTENDS AgentKeys, TLC

CONSTANTS a, b, t1, t2

Old   == [kid |-> a, x |-> 1]   \* the URL's key,
New   == [kid |-> a, x |-> 2]   \* replaced under the same kid,
Other == [kid |-> b, x |-> 1]   \* and another

MCTokens == {[jti |-> t1, key |-> Old, exp |-> 1], [jti |-> t2, key |-> Other, exp |-> 2]}

MCUrlSets  == {{Old}, {New}}
MCFileSets == {{Old, Other}}

Symmetry == Permutations(Callers)
=============================================================================
