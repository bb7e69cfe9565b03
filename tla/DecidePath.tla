----------------------------- MODULE DecidePath -----------------------------
(***************************************************************************)
(* POST /v1/decide from end to end: the engine decides a request by the    *)
(* set of policies in force, and the answer goes the way of Approvals,     *)
(* while the policies are replaced, admins grant what was held, and        *)
(* granted tokens come back under a set other than the one that held.      *)
(*                                                                         *)
(* Approvals leaves open which gate stands in front of a request, and      *)
(* PdpRules what the token of a request verifies as.  Here each is what    *)
(* the other says it is: the engine is asked about the token as it         *)
(* verifies now, and the handler reads of the answer what the code reads.  *)
(***************************************************************************)
EXTENDS Approvals

CONSTANTS
    Policies,  \* the policies an admin may put in force
    NoOrg, NoCall, NoModel, NoModelKey, NoRule, NoLimit, AllTools,
    Fold, Grantable, Pinnable,
    Sets,      \* the sets of them that the policy API may put in force
    Bodies,    \* what a request says: the question for the engine, the run, and
               \* the digest of its call: [question, run, digest]
    NoBasis

Engine == INSTANCE PdpRules WITH Requests <- {b.question : b \in Bodies}

\* What a hold of the request is an approval of.
AskOf(b) == [agent |-> b.question.agent, run |-> b.run, tools |-> b.question.tools,
             digest |-> b.digest, cost |-> b.question.cost]

ASSUME PathAssumption ==
    /\ Gates = HoldGates \cup {"free", "deny"}
    /\ Sets \subseteq SUBSET {p \in Policies : Engine!Compiles(p)}
    /\ \A b \in Bodies : /\ AskOf(b) \in Asks
                         /\ DOMAIN b.question = Engine!RequestFields
                         /\ b.digest = NoDigest <=> b.question.call = NoCall

VARIABLES
    inForce,  \* the set of policies in force: the Engine's pointer
    basis     \* history: the set and the body that an allow on its way out was
              \* decided by

pathVars == <<now, row, redeemed, minted, delivered, req, adm, allows, unlogged,
              inForce, basis>>

PathInit ==
    /\ Init
    /\ inForce \in Sets
    /\ basis = [r \in Requests |-> NoBasis]

-----------------------------------------------------------------------------
(* The engine's answer *)

\* What the engine learns of a token from Keys.VerifyForCall and VerifyBoundToCall.
TokenClass(t, ask) ==
    IF t = NoToken THEN "none"
    ELSE IF Lifts(t, ask, "floor") THEN "bound"
    ELSE IF Lifts(t, ask, "cost") THEN "unbound"
    ELSE "refused"

Presented(b, class) == [b.question EXCEPT !.token = class]

\* The first rule that stops the request, and whether its token must name the call.
GateOf(set, q) ==
    LET M == Engine!MatchIn(set, q)
        floorHolds == Engine!heldWithoutGrant(M, q)
    IN IF (q.chain.length > 0 /\ ~q.chain.valid) \/ Engine!Denied(M, q) THEN "deny"
       ELSE IF Engine!overThreshold(M, q)
         THEN IF floorHolds THEN "costBound" ELSE "cost"
       ELSE IF Engine!heldBySignal(M, q)
         THEN IF Engine!callMustBeBound(M, q) \/ floorHolds THEN "signalBound" ELSE "signal"
       ELSE IF floorHolds THEN "floor" ELSE "free"

\* Fault: whatever is allowed while single use is on goes to redemption.
DispatchAllows(resp) ==
    CASE resp.decision = "allow" -> IF SingleUse THEN "redeem" ELSE "record"
      [] resp.decision = "hold" -> "hold"
      [] resp.decision = "deny" -> "answer"

\* Where handleDecide goes with the answer: an allow that rests on a token is
\* redeemed first.
Dispatch(resp) ==
    CASE resp.decision = "allow" ->
           IF resp.tokenRequired /\ SingleUse THEN "redeem" ELSE "record"
      [] resp.decision = "hold" -> "hold"
      [] resp.decision = "deny" -> "answer"

\* The handler of a request whose answer is resp.
Slot(b, t, text, resp) ==
    IF resp.decision = "deny" \/ ~resp.tokenRequired
      THEN Answering(Dispatch(resp), resp.decision)
      ELSE [pc |-> Dispatch(resp), ask |-> AskOf(b), tok |-> t,
            text |-> TextOf(resp.decision, text),
            gate |-> GateOf(inForce, b.question),
            verdict |-> resp.decision, logged |-> FALSE]

\* handleDecide up to the engine's answer.  A decision loads the set in force once,
\* and reads one clock.
DecideRequest(r) ==
    /\ req[r].pc = "idle"
    /\ \E b \in Bodies, t \in delivered \cup {NoToken}, text \in Texts :
         LET resp == Engine!Decide(inForce, Presented(b, TokenClass(t, AskOf(b)))) IN
         /\ req' = [req EXCEPT ![r] = Slot(b, t, text, resp)]
         /\ basis' = [basis EXCEPT ![r] =
                        IF resp.decision = "allow" THEN [set |-> inForce, body |-> b]
                        ELSE NoBasis]
    /\ UNCHANGED <<now, row, redeemed, minted, delivered, adm, allows, unlogged, inForce>>

-----------------------------------------------------------------------------
(* Everything else *)

\* SetPolicies: a policy was written and the engine's pointer is swapped, whatever
\* is under way.
SetPolicies ==
    /\ inForce' \in Sets
    /\ UNCHANGED <<now, row, redeemed, minted, delivered, req, adm, allows, unlogged, basis>>

\* What Approvals has next after the verdict.
GoesOn ==
    /\ \/ \E r \in Requests : RequestStep(r) \/ CutRequest(r)
       \/ \E a \in Admins : Open(a) \/ DecisionStep(a) \/ CutDecision(a)
       \/ Tick \/ Restart
    /\ basis' = [r \in Requests |-> IF req'[r].verdict = "allow" THEN basis[r] ELSE NoBasis]
    /\ UNCHANGED inForce

PathNext ==
    \/ \E r \in Requests : DecideRequest(r)
    \/ SetPolicies
    \/ GoesOn

PathSpec == PathInit /\ [][PathNext]_pathVars

-----------------------------------------------------------------------------
(* Correctness *)

\* The approval path, with any gate in front of any request, is what this does with
\* the gates that the policies put there: handleDecide's reading of the engine's
\* answer (what is redeemed, what is held) is that of Approvals.
ImplementsApprovals == Spec

\* An allow on its way out is one that the set it was decided by gives without a token,
\* or one that this set holds for a person, and a person granted an approval of the
\* same agent, run and tools, at no lower cost, of this call or of no call, and of
\* this call where this set's floor stands in front of it.  So a grant made under
\* other policies passes no deny of the ones it meets, nor their floor, however
\* the set is swapped between the hold, the grant and the retry.
AllowsHaveGround ==
    \A r \in Requests :
        req[r].pc \in {"redeem", "record", "answer"} /\ req[r].verdict = "allow" =>
            LET set   == basis[r].set
                q     == Presented(basis[r].body, "none")
                ask   == AskOf(basis[r].body)
                alone == Engine!Decide(set, q).decision
                i     == minted[req[r].tok].id
                floor == Engine!heldWithoutGrant(Engine!MatchIn(set, q), q)
            IN \/ alone = "allow"
               \/ /\ alone = "hold"
                  /\ row[i].state \in {"grant", "lost"}
                  /\ Approves(row[i].ask, ask, IF floor THEN "floor" ELSE "cost")
=============================================================================
