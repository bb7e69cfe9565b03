--------------------------- MODULE MCPolicyAdmin ---------------------------
(* Values of the constants of PolicyAdmin for TLC. *)
EXTENDS PolicyAdmin, TLC

Symmetry ==
    Permutations(Procs) \cup Permutations(Handlers) \cup Permutations(Ids)
=============================================================================
