------------------------------ MODULE PdpRules ------------------------------
(***************************************************************************)
(* The rules of the policy decision point: what Engine.Decide and          *)
(* Engine.Filter answer a request under a set of policies.                 *)
(*                                                                         *)
(* A policy is a record of the rules it sets.  Its target is the set of    *)
(* agents the glob matches, and any other list or glob is a set of model   *)
(* values.  A tool's name is spelled as the request or the policy has it   *)
(* and compared as containsFold does; any other name that the code folds   *)
(* or trims before it compares (a signal's, a source's, a model's) stands  *)
(* for all its spellings.                                                  *)
(* Which of several policies a reason names is left out, the decision      *)
(* never depends on it.  There is no state here: the engine that holds the *)
(* set is in Pdp, the path of a request through it in DecidePath.          *)
(***************************************************************************)
EXTENDS Integers

CONSTANTS
    Policies,  \* the policies an admin may put in force
    Requests,  \* the requests an agent may send to POST /v1/decide
    NoOrg,     \* the org of a policy that applies across orgs
    NoCall,    \* a request with no tool_call
    NoModel,   \* a model field that is blank, or that no list can name
    NoModelKey,\* a request with no model key at all
    NoRule,    \* a policy with no hold_if_signal
    NoLimit,   \* a policy with no ceiling or no threshold: a nil pointer
    AllTools,  \* the grant_tool entry for every tool
    Fold,      \* of each tool name, what it is with space trimmed and case folded
    Grantable, \* the tool names grant_tool may hold: not blank, no "*" in them
    Pinnable   \* the agents that a target of one trust domain can match: the id is
               \* agent:// and a domain with no glob in it, then the end or a path

\* What a policy and a request have; the values of the fields are data.
PolicyFields ==
    {"target", "org", "pins", "denyTool", "allowTool", "grantTool", "floor",
     "maxChainDepth", "roots", "denyIfUnproven", "denyIfUnattested", "sources",
     "models", "maxSteps", "domains", "denyAbove", "humanAbove", "signal"}
RequestFields ==
    {"agent", "org", "tools", "call", "cost", "chain", "proven", "attested",
     "source", "model", "steps", "domains", "signals", "token"}

ASSUME FieldsAssumption ==
    /\ \A p \in Policies : DOMAIN p = PolicyFields
    /\ \A r \in Requests : DOMAIN r = RequestFields

Answers ==
    [decision : {"allow", "deny", "hold"}, tokenRequired : BOOLEAN,
     noGrant : BOOLEAN, cacheable : BOOLEAN]

\* Compile: one policy is not both a floor and a grant, and a grant is on a
\* target that pins a trust domain and names tools, or is of every tool.  What
\* else is checked per field (a negative limit, a blank entry of another list, a
\* malformed glob) is no policy here at all.  PinsTrustDomain is a fact about the
\* target's text: such a target matches no id outside of its domain.
Compiles(p) ==
    /\ p.pins => p.target \subseteq Pinnable
    /\ p.grantTool # {} => p.pins /\ ~p.floor
    /\ \A t \in p.grantTool : t \in Grantable \/ Fold[t] = Fold[AllTools]

-----------------------------------------------------------------------------
(* Which policies govern a request, and which tools it names *)

MatchIn(set, r) == {p \in set : r.agent \in p.target /\ p.org \in {NoOrg, r.org}}

requestedTools(r) == r.tools \cup (IF r.call = NoCall THEN {} ELSE {r.call})

-----------------------------------------------------------------------------
(* Rules 2 to 12: each denies or declines.  M is what MatchIn returned. *)

containsFold(ss, v) == \E s \in ss : Fold[s] = Fold[v]

toolDenied(M, t)   == \E p \in M : containsFold(p.denyTool, t)
deniedTool(M, r)   == \E t \in requestedTools(r) : toolDenied(M, t)

\* Fault: a grant lifts the restriction of another policy's list.
refusedUnlessGranted(M, t) ==
    /\ \E p \in M : p.allowTool # {} /\ ~containsFold(p.allowTool, t)
    /\ ~\E p \in M : containsFold(p.grantTool, t)

allowToolRefused(M, t) ==
    \E p \in M : p.allowTool # {} /\ ~containsFold(p.allowTool, t)

\* Fault: the lists of two policies are united, where they intersect.
outsideEveryAllowTool(M, r) ==
    /\ \E p \in M : p.allowTool # {}
    /\ \E t \in requestedTools(r) : \A p \in M : ~containsFold(p.allowTool, t)

outsideAllowTool(M, r) == \E t \in requestedTools(r) : allowToolRefused(M, t)

chainDepthExceeded(M, r) ==
    \E p \in M : p.maxChainDepth > 0 /\ r.chain.length > p.maxChainDepth

\* A chain of nobody has no root, and a policy that requires one refuses it.
rootPrincipalRefused(M, r) ==
    \E p \in M : /\ p.roots # {}
                 /\ r.chain.length = 0 \/ r.chain.root \notin p.roots

chainUnproven(M, r) ==
    /\ r.chain.length > 0 /\ ~r.proven
    /\ \E p \in M : p.denyIfUnproven

unattestedDenied(M, r) == ~r.attested /\ \E p \in M : p.denyIfUnattested

identitySourceRefused(M, r) ==
    \E p \in M : p.sources # {} /\ r.source \notin p.sources

\* Only a model call is judged: no tool call, and a model key.
modelRefused(M, r) ==
    /\ r.call = NoCall /\ r.model # NoModelKey
    /\ \E p \in M : p.models # {} /\ r.model \notin p.models

exceededMaxSteps(M, r) == \E p \in M : p.maxSteps > 0 /\ r.steps >= p.maxSteps

deniedDomain(M, r) ==
    \E d \in r.domains : \E p \in M : p.domains # {} /\ d \notin p.domains

\* A limit of zero is a limit: any priced request exceeds it.
deniedAboveCeiling(M, r) ==
    \E p \in M : p.denyAbove # NoLimit /\ r.cost > p.denyAbove

Denied(M, r) ==
    \/ deniedTool(M, r) \/ outsideAllowTool(M, r)
    \/ chainDepthExceeded(M, r) \/ rootPrincipalRefused(M, r)
    \/ chainUnproven(M, r) \/ unattestedDenied(M, r)
    \/ identitySourceRefused(M, r) \/ modelRefused(M, r)
    \/ exceededMaxSteps(M, r) \/ deniedDomain(M, r) \/ deniedAboveCeiling(M, r)

-----------------------------------------------------------------------------
(* Rules 13 to 15: the gates *)

overThreshold(M, r) ==
    \E p \in M : p.humanAbove # NoLimit /\ r.cost > p.humanAbove

\* Signals of the rule's name the request carries.
Named(p, r) == {s \in r.signals : s.name = p.signal.name}

holdsOnSignal(p, r) ==
    /\ p.signal # NoRule
    /\ \E s \in Named(p, r) :
          s.value \in p.signal.values /\ s.probability >= p.signal.min

\* when_absent: hold.  A signal of that name with any value is an answer.
holdsOnAbsence(p, r) ==
    /\ p.signal # NoRule /\ p.signal.whenAbsent
    /\ r.call # NoCall /\ Named(p, r) = {}

heldBySignal(M, r) == \E p \in M : holdsOnSignal(p, r) \/ holdsOnAbsence(p, r)
callMustBeBound(M, r) == \E p \in M : holdsOnAbsence(p, r)

toolGranted(M, t) ==
    \E p \in M : p.pins /\ (\/ containsFold(p.allowTool, t)
                           \/ containsFold(p.grantTool, t)
                           \/ containsFold(p.grantTool, AllTools))

heldWithoutGrant(M, r) ==
    /\ r.call # NoCall
    /\ \E p \in M : p.floor
    /\ \E t \in requestedTools(r) : ~toolGranted(M, t)

\* The token presented, by what verification makes of it: VerifyForCall takes
\* one bound to the call or to none, VerifyBoundToCall the first only.
VerifyForCall(r)     == r.token \in {"unbound", "bound"}
VerifyBoundToCall(r) == r.token = "bound"

\* Fault: a token bound to no call will do for the call of the floor.
VerifyForAny(r, mustBind) == VerifyForCall(r)

Verify(r, mustBind) == IF mustBind THEN VerifyBoundToCall(r) ELSE VerifyForCall(r)

-----------------------------------------------------------------------------
(* Decide *)

\* Fault: domains are forgotten among the values a request brings along.
requestSpecificNoDomains(M, hasCall) ==
    \E p \in M :
        \/ p.maxSteps > 0 \/ p.humanAbove # NoLimit \/ p.denyAbove # NoLimit
        \/ p.allowTool # {} \/ p.denyIfUnproven
        \/ p.maxChainDepth > 0 \/ p.roots # {} \/ p.signal # NoRule
        \/ p.models # {} \/ p.sources # {} \/ p.floor \/ p.grantTool # {}
        \/ hasCall /\ p.denyTool # {}

\* Whether a matched policy reads a value that another request of the same
\* agent and tools may bring differently.
requestSpecific(M, hasCall) ==
    \E p \in M :
        \/ p.maxSteps > 0 \/ p.humanAbove # NoLimit \/ p.denyAbove # NoLimit
        \/ p.domains # {} \/ p.allowTool # {} \/ p.denyIfUnproven
        \/ p.maxChainDepth > 0 \/ p.roots # {} \/ p.signal # NoRule
        \/ p.models # {} \/ p.sources # {} \/ p.floor \/ p.grantTool # {}
        \/ hasCall /\ p.denyTool # {}

Respond(decision, tokenRequired, noGrant, cacheable) ==
    [decision |-> decision, tokenRequired |-> tokenRequired,
     noGrant |-> noGrant, cacheable |-> cacheable]

\* Fault: the field says that a token is missing, not that a gate stood.
costGateNoToken(M, r) ==
    IF Verify(r, heldWithoutGrant(M, r)) THEN [decision |-> "allow", required |-> FALSE]
    ELSE IF r.token = "none" THEN [decision |-> "hold", required |-> TRUE]
    ELSE [decision |-> "deny", required |-> TRUE]

\* Rule 13.  A token that does not verify is refused, not held.
costGate(M, r) ==
    IF Verify(r, heldWithoutGrant(M, r)) THEN [decision |-> "allow", required |-> TRUE]
    ELSE IF r.token = "none" THEN [decision |-> "hold", required |-> TRUE]
    ELSE [decision |-> "deny", required |-> TRUE]

\* Rule 14.  A token that does not verify holds again.
signalGate(M, r) ==
    IF Verify(r, callMustBeBound(M, r) \/ heldWithoutGrant(M, r)) THEN "allow" ELSE "hold"

\* Fault: as at the cost gate.
floorGateRefuses(r) ==
    IF VerifyBoundToCall(r) THEN "allow" ELSE IF r.token = "none" THEN "hold" ELSE "deny"

\* Rule 15: only an approval of this very call lifts the floor.
floorGate(r) == IF VerifyBoundToCall(r) THEN "allow" ELSE "hold"

\* Engine.Decide: the rules in their order.  A malformed delegation chain is
\* refused before any policy is matched.
Decide(set, r) ==
    LET M == MatchIn(set, r)
        c == ~requestSpecific(M, r.call # NoCall)
    IN IF r.chain.length > 0 /\ ~r.chain.valid THEN Respond("deny", FALSE, FALSE, FALSE)
       ELSE IF Denied(M, r) THEN Respond("deny", FALSE, FALSE, c)
       ELSE IF overThreshold(M, r)
         THEN Respond(costGate(M, r).decision, costGate(M, r).required, FALSE, c)
       ELSE IF heldBySignal(M, r) THEN Respond(signalGate(M, r), TRUE, FALSE, c)
       ELSE IF heldWithoutGrant(M, r) THEN Respond(floorGate(r), TRUE, TRUE, c)
       ELSE Respond("allow", FALSE, FALSE, c)

\* Fault: the offered tools are held against the deny lists alone.
FilterByDenyTool(set, r) ==
    LET M == MatchIn(set, r) IN {t \in r.tools : ~toolDenied(M, t)}

\* Engine.Filter: the offered tools that rules 2 and 3 let through one by one.
Filter(set, r) ==
    LET M == MatchIn(set, r)
    IN {t \in r.tools : ~toolDenied(M, t) /\ ~allowToolRefused(M, t)}
=============================================================================
