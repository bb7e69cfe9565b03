--------------------------- MODULE MCAgentProofs ---------------------------
(* Values of the constants of AgentProofs for TLC. *)
EXTENDS AgentProofs, TLC

CONSTANTS p1, p2, k1, k2

\* A proof, another of the same holder that repeats its jti later, and one with
\* a jti of its own.
MCProofs == {[key |-> k1, iat |-> 1], [key |-> k1, iat |-> 2], [key |-> k2, iat |-> 2]}

\* Two instances set differently.
MCWindow == (p1 :> 1) @@ (p2 :> 2)

\* One instance.
OneWindow == (p1 :> 1)

Symmetry == Permutations(Callers)
=============================================================================
