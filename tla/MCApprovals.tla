---------------------------- MODULE MCApprovals ----------------------------
(* Values of the constants of Approvals for TLC. *)
EXTENDS Approvals, TLC

CONSTANTS r1, r2, a1, a2, t1, t2, i1, i2, x1, x2, d1

Body(digest, cost) ==
    [agent |-> "agent", run |-> "run", tools |-> "tools",
     digest |-> digest, cost |-> cost]

\* One call, which the cost gate and the floor hold in turn.
OneAsk == {Body(d1, 1)}

\* Bound: any two of the handlers are under way at a time, of either kind.
TwoInFlight ==
    Cardinality({r \in Requests : req[r].pc # "idle"})
        + Cardinality({a \in Admins : adm[a].pc # "idle"}) <= 2

Symmetry ==
    Permutations(Requests) \cup Permutations(Admins)
        \cup Permutations(Tokens) \cup Permutations(Ids) \cup Permutations(Texts)
=============================================================================
