-------------------------------- MODULE Pdp --------------------------------
(***************************************************************************)
(* The policy decision point of wardryx: the engine that answers requests  *)
(* by the set of policies in force, and the swap of that set.  What it     *)
(* answers is in PdpRules.  A decision loads the set once, so it is one    *)
(* step.                                                                   *)
(***************************************************************************)
EXTENDS PdpRules, FiniteSets

CONSTANTS
    MaxSet,    \* bound on the number of policies in force
    NoRequest

VARIABLES
    policies,  \* the set in force: the Engine's pointer
    req,       \* the request being answered
    answer     \* its DecideResponse

vars == <<policies, req, answer>>

ASSUME NoRequestAssumption == NoRequest \notin Requests \cup Answers

-----------------------------------------------------------------------------
(* The engine *)

Init ==
    /\ policies = {}
    /\ req = NoRequest
    /\ answer = NoRequest

\* SetPolicies: a write took policies out of the set, put some in, or both, and
\* the set that compiled replaces the one in force.
SetPolicies(gone, come) ==
    /\ req = NoRequest
    /\ \A p \in come : Compiles(p)
    /\ Cardinality((policies \ gone) \cup come) <= MaxSet
    /\ policies' = (policies \ gone) \cup come
    /\ UNCHANGED <<req, answer>>

\* A decision runs to its end on the set it loaded.
Ask(r) ==
    /\ req = NoRequest
    /\ req' = r
    /\ answer' = Decide(policies, r)
    /\ UNCHANGED policies

\* The answer leaves the engine.
Return ==
    /\ req # NoRequest
    /\ req' = NoRequest
    /\ answer' = NoRequest
    /\ UNCHANGED policies

Next ==
    \/ \E gone \in SUBSET policies, come \in {{}} \cup {{p} : p \in Policies} :
          SetPolicies(gone, come)
    \/ \E r \in Requests : Ask(r)
    \/ Return

Spec == Init /\ [][Next]_vars

-----------------------------------------------------------------------------
(* Properties *)

\* Type correctness: every policy in force has compiled, and there is an answer
\* exactly while there is a request.
TypeOK ==
    /\ policies \subseteq {p \in Policies : Compiles(p)}
    /\ req \in Requests \cup {NoRequest}
    /\ answer \in Answers \cup {NoRequest}
    /\ req = NoRequest <=> answer = NoRequest

Strictness == [allow |-> 0, hold |-> 1, deny |-> 2]
Stricter(d, e) == Strictness[d] >= Strictness[e]

\* allow_tool on a pinned target grants as well as it restricts.
Grants(p) == p.pins /\ (p.allowTool # {} \/ p.grantTool # {})

\* "Every other rule a policy adds can only narrow what passes" (Engine.Decide):
\* a policy that grants nothing, put in force, never makes a decision milder.
RestrictionsNarrow ==
    req # NoRequest =>
        \A p \in Policies :
            Compiles(p) /\ ~Grants(p) =>
                Stricter(Decide(policies \cup {p}, req).decision, answer.decision)

\* The cost gate takes a token granted with no call in view and allows before
\* rule 14 is reached, where a hold on an absent signal would not have.
CostGateFirst(set, r) ==
    /\ r.token = "unbound"
    /\ overThreshold(MatchIn(set, r), r)
    /\ callMustBeBound(MatchIn(set, r), r)

\* What is left of that: a policy that grants nothing narrows every decision but
\* the one above.  Two lists of one kind intersect, the lowest limit binds, and
\* no restriction reaches the floor's grants.
NarrowButForCostGate ==
    req # NoRequest =>
        \A p \in Policies :
            Compiles(p) /\ ~Grants(p) /\ ~CostGateFirst(policies \cup {p}, req) =>
                Stricter(Decide(policies \cup {p}, req).decision, answer.decision)

NoSignalRules(set) == {[p EXCEPT !.signal = NoRule] : p \in set}
NoFloors(set)      == {[p EXCEPT !.floor = FALSE] : p \in set}
NoGrantTools(set)  == {[p EXCEPT !.grantTool = {}] : p \in set}
NoToolLists(set)   == {[p EXCEPT !.denyTool = {}, !.allowTool = {}] : p \in set}

\* Rules 14 and 15 turn an allow into a hold and change nothing else: with their
\* policies' rules taken out, a deny is the same deny and a hold the same hold.  The
\* floor alone also refuses a token: one bound to no call, which the cost gate
\* would take for a call the floor does not hold.
GatesOnlyHold ==
    req # NoRequest =>
        LET unsignalled == Decide(NoSignalRules(policies), req).decision
            floorless   == Decide(NoFloors(policies), req)
        IN /\ \/ answer.decision = unsignalled
              \/ unsignalled = "allow" /\ answer.decision = "hold"
           /\ \/ answer.decision = floorless.decision
              \/ floorless.decision = "allow" /\ answer.decision = "hold"
              \/ /\ overThreshold(MatchIn(policies, req), req)
                 /\ floorless.tokenRequired /\ req.token = "unbound"
                 /\ answer.decision = "deny"

\* A grant lifts the floor and nothing else: taken out of the set, it changes
\* only decisions on a call that the floor then holds.
GrantsLiftTheFloorOnly ==
    req # NoRequest =>
        LET without == NoGrantTools(policies)
        IN \/ Decide(without, req).decision = answer.decision
           \/ heldWithoutGrant(MatchIn(without, req), req)

\* Decision == Allow && ApprovalTokenRequired is how internal/api knows an allow
\* that a token earned and that must be redeemed: it is one exactly when the same
\* request with no token would have been held, and no token turns a deny.
RedeemableExactly ==
    req # NoRequest =>
        LET tokenless == Decide(policies, [req EXCEPT !.token = "none"])
        IN /\ tokenless.decision = "deny" => answer.decision = "deny"
           /\ answer.decision = "allow" =>
                 (answer.tokenRequired <=> tokenless.decision = "hold")

\* /v1/filter and /v1/decide agree: a tool the filter drops denies the request
\* that names it, and a request denied for its tools names one that it drops.
FilterAgrees ==
    req # NoRequest =>
        LET offered == [req EXCEPT !.tools = requestedTools(req)]
            kept    == Filter(policies, offered)
        IN /\ kept # offered.tools => answer.decision = "deny"
           /\ answer.decision = "deny" /\ kept = offered.tools =>
                 Decide(NoToolLists(policies), req).decision = "deny"

\* What a decision cache may key on without reading more of the request.
SameKey(r, s) ==
    /\ r.agent = s.agent /\ r.tools = s.tools /\ r.attested = s.attested
    /\ r.org = s.org /\ (r.call = NoCall <=> s.call = NoCall)

WellFormed(r) == r.chain.length = 0 \/ r.chain.valid

\* Cacheable is "a pure function of (agent_id, tool set), independent of any
\* per-request value": attestation, which its comment asks a cache to key on,
\* the org and the presence of a call are held fixed as well, and so is that the
\* delegation chain is well formed, without which it is not so.
CacheableGivenChain ==
    req # NoRequest /\ answer.cacheable =>
        \A r \in Requests :
            SameKey(r, req) /\ WellFormed(r) => Decide(policies, r) = answer
=============================================================================
