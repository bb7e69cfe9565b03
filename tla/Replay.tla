------------------------------- MODULE Replay -------------------------------
(***************************************************************************)
(* What a decision leaves on the record and what replay makes of it: the   *)
(* question as decisionInput writes it, the question as internal/replay    *)
(* reads it back, and the verdict on the row.                              *)
(*                                                                         *)
(* A version names a set of policies and the archive gives that set back:  *)
(* that it has it is PolicyAdmin's SetsInForceAreKept.  A reason is the    *)
(* rule that answered and what it says of the token; the rest of its text  *)
(* is a function of the recorded question.                                 *)
(***************************************************************************)
EXTENDS Pdp

\* The deny rules in the order Decide asks them.
DenyRules(M, r) ==
    <<deniedTool(M, r), outsideAllowTool(M, r), chainDepthExceeded(M, r),
      rootPrincipalRefused(M, r), chainUnproven(M, r), unattestedDenied(M, r),
      identitySourceRefused(M, r), modelRefused(M, r), exceededMaxSteps(M, r),
      deniedDomain(M, r), deniedAboveCeiling(M, r)>>

\* The rule that answers, and whether its reason speaks of a token.
RuleOf(set, r) ==
    LET M    == MatchIn(set, r)
        deny == DenyRules(M, r)
    IN IF r.chain.length > 0 /\ ~r.chain.valid THEN 1
       ELSE IF Denied(M, r)
         THEN CHOOSE i \in DOMAIN deny : deny[i] /\ \A j \in 1..(i - 1) : ~deny[j]
       ELSE IF overThreshold(M, r) THEN 13
       ELSE IF heldBySignal(M, r) THEN 14
       ELSE IF heldWithoutGrant(M, r) THEN 15
       ELSE 16

Phrase(resp) ==
    IF ~resp.tokenRequired THEN "none"
    ELSE CASE resp.decision = "allow" -> "via a valid approval_token"
           [] resp.decision = "hold"  -> "human approval required"
           [] resp.decision = "deny"  -> "ReasonApprovalRefused"

Reason(set, r) == <<RuleOf(set, r), Phrase(Decide(set, r))>>

ReasonApprovalSpent == <<0, "ReasonApprovalSpent">>

-----------------------------------------------------------------------------
(* The record *)

\* Fault: a call that came with no model is recorded with an empty one.
modelNeverAbsent(r) == FALSE

modelAbsent(r) == r.model = NoModelKey

\* What is kept of the question.  The token never is.
Fields(r) ==
    [agent |-> r.agent, chain |-> r.chain, org |-> r.org, tools |-> r.tools,
     domains |-> r.domains, steps |-> r.steps, cost |-> r.cost,
     attested |-> r.attested, source |-> r.source, proven |-> r.proven,
     model |-> IF r.model = NoModelKey THEN NoModel ELSE r.model,
     modelAbsent |-> modelAbsent(r),
     signals |-> r.signals, call |-> r.call]

\* The event of an answer.  A token that verified and was spent already turns
\* the allow into a hold with a reason of its own (handleDecide).
Event(set, r, spent) ==
    LET resp == Decide(set, r) IN
    [question |-> Fields(r), version |-> set,
     verdict  |-> IF spent THEN "hold" ELSE resp.decision,
     reason   |-> IF spent THEN ReasonApprovalSpent ELSE Reason(set, r),
     tokenRequired |-> resp.tokenRequired]

-----------------------------------------------------------------------------
(* Replay *)

\* question: the request as it can be asked again, with no token.
Question(ev) ==
    LET q == ev.question IN
    [agent |-> q.agent, chain |-> q.chain, org |-> q.org, tools |-> q.tools,
     domains |-> q.domains, steps |-> q.steps, cost |-> q.cost,
     attested |-> q.attested, source |-> q.source, proven |-> q.proven,
     model |-> IF q.modelAbsent THEN NoModelKey ELSE q.model,
     signals |-> q.signals, call |-> q.call, token |-> "none"]

\* The three differences that only an unrecorded token can make: the allow it
\* earned, the hold because it was spent, the refusal because it did not verify.
TokenMadeIt(ev) ==
    /\ ev.tokenRequired
    /\ \/ ev.verdict = "allow"
       \/ ev.verdict = "hold" /\ ev.reason = ReasonApprovalSpent
       \/ ev.verdict = "deny" /\ ev.reason[2] = "ReasonApprovalRefused"

\* replayOne, of an event whose version is archived: what became of the row, and
\* the verdict a candidate is compared against.
ReplayOne(ev) ==
    LET r     == Question(ev)
        again == Decide(ev.version, r)
    IN IF again.decision = ev.verdict /\ Reason(ev.version, r) = ev.reason
         THEN [fidelity |-> "reproduced", baseline |-> ev.verdict]
       ELSE IF TokenMadeIt(ev) /\ again.decision = "hold" /\ again.tokenRequired
         THEN [fidelity |-> "approval", baseline |-> "hold"]
       ELSE [fidelity |-> "diverged", baseline |-> ev.verdict]

\* Fault: only the tool the reason names, the first one found.
UngrantedFirst(set, r) ==
    LET M    == MatchIn(set, r)
        need == {t \in requestedTools(r) : ~toolGranted(M, t)}
    IN IF heldWithoutGrant(M, r) THEN {CHOOSE t \in need : TRUE} ELSE {}

\* Engine.Ungranted: every tool of the request the floor would hold.
Ungranted(set, r) ==
    LET M == MatchIn(set, r)
    IN IF heldWithoutGrant(M, r)
         THEN {t \in requestedTools(r) : ~toolGranted(M, t)} ELSE {}

-----------------------------------------------------------------------------
(* Properties *)

SpentOrNot(resp) ==
    IF resp.decision = "allow" /\ resp.tokenRequired THEN BOOLEAN ELSE {FALSE}

\* "A recorded question put to the same set must come back with the same answer"
\* (internal/replay): no decision, whatever token was presented and spent, replays
\* as diverged from its own set, and the verdict a candidate is compared against is
\* the one the PDP reaches with no token.
ReplayReproduces ==
    req # NoRequest =>
        \A spent \in SpentOrNot(answer) :
            LET row == ReplayOne(Event(policies, req, spent))
            IN /\ row.fidelity # "diverged"
               /\ row.baseline =
                    Decide(policies, [req EXCEPT !.token = "none"]).decision

\* The grant of tools to one agent, and to no other.
Grant(agent, tools) ==
    [target |-> {agent}, org |-> NoOrg, pins |-> TRUE,
     denyTool |-> {}, allowTool |-> {}, grantTool |-> tools, floor |-> FALSE,
     maxChainDepth |-> 0, roots |-> {}, denyIfUnproven |-> FALSE,
     denyIfUnattested |-> FALSE, sources |-> {}, models |-> {}, maxSteps |-> 0,
     domains |-> {}, denyAbove |-> NoLimit, humanAbove |-> NoLimit,
     signal |-> NoRule]

\* The tools replay lists under a floor are "what to grant so they do not" wait: a
\* grant that compiles lets the request pass exactly when it covers every tool on
\* the list, in whatever spelling, or is of every tool; and where the id is one
\* that "no grant can name", no policy put beside those in force lets it pass.
UngrantedSuffices ==
    req # NoRequest =>
        LET asked    == [req EXCEPT !.token = "none"]
            tools    == Ungranted(policies, asked)
            After(p) == Decide(policies \cup {p}, asked)
        IN Decide(policies, asked).noGrant =>
             /\ \A ts \in SUBSET DOMAIN Fold :
                   Compiles(Grant(req.agent, ts)) =>
                     IF \/ \A t \in tools : containsFold(ts, t)
                        \/ containsFold(ts, AllTools)
                     THEN After(Grant(req.agent, ts)).decision = "allow"
                     ELSE After(Grant(req.agent, ts)).noGrant
             /\ req.agent \notin Pinnable =>
                   \A p \in Policies :
                      Compiles(p) => After(p).decision # "allow"
=============================================================================
