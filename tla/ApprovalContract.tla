-------------------------- MODULE ApprovalContract --------------------------
(***************************************************************************)
(* What the approval path promises, with no token, no store and no handler *)
(* in sight: a held request waits for a person, is decided once, and a     *)
(* grant releases one allow at most for each way of presenting it, of a    *)
(* request like the one held.                                              *)
(***************************************************************************)
EXTENDS Naturals

CONSTANTS
    Ids, Asks,
    Texts,  \* the ways in which one grant can be presented
    NoDigest, NoAsk

VARIABLES
    state,    \* of each approval: "absent", "pending", "grant" or "deny"
    held,     \* the request each approval was written for
    released  \* how many allows its grant has released in each text, and the last

cvars == <<state, held, released>>

\* What a grant of `one` covers: the same agent, run and tools, the same call if
\* it named one, at no higher cost.
Covers(one, ask) ==
    /\ <<ask.agent, ask.run, ask.tools>> = <<one.agent, one.run, one.tools>>
    /\ one.digest \in {NoDigest, ask.digest}
    /\ ask.cost <= one.cost

CInit ==
    /\ state = [i \in Ids |-> "absent"]
    /\ held = [i \in Ids |-> NoAsk]
    /\ released = [k \in Ids \X Texts |-> [n |-> 0, ask |-> NoAsk]]

Hold(i) ==
    /\ state[i] = "absent"
    /\ state' = [state EXCEPT ![i] = "pending"]
    /\ \E ask \in Asks : held' = [held EXCEPT ![i] = ask]
    /\ UNCHANGED released

Resolve(i) ==
    /\ state[i] = "pending"
    /\ \E d \in {"grant", "deny"} : state' = [state EXCEPT ![i] = d]
    /\ UNCHANGED <<held, released>>

Release(i, x) ==
    /\ state[i] = "grant" /\ released[<<i, x>>].n = 0
    /\ \E ask \in Asks :
         /\ Covers(held[i], ask)
         /\ released' = [released EXCEPT ![<<i, x>>] = [n |-> 1, ask |-> ask]]
    /\ UNCHANGED <<state, held>>

CNext == \E i \in Ids : Hold(i) \/ Resolve(i) \/ \E x \in Texts : Release(i, x)

CSpec == CInit /\ [][CNext]_cvars
=============================================================================
