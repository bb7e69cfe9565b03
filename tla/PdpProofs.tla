----------------------------- MODULE PdpProofs -----------------------------
(***************************************************************************)
(* What the decision point promises, for any policies and requests.        *)
(*                                                                         *)
(* A decision is one step, so the invariant is that the answer is the one  *)
(* of the policies in force; what is left is about Decide.  Each property  *)
(* compares two questions, of a set of policies and another with a rule    *)
(* taken out, or of a request and another with the token taken out: the    *)
(* rules that read what did not change answer both alike.                  *)
(***************************************************************************)
EXTENDS Replay, TLAPS

-----------------------------------------------------------------------------
(* What changes in a record whose one field is set *)

LEMMA TokenTaken ==
    ASSUME NEW r, DOMAIN r = RequestFields, NEW t
    PROVE  LET s == [r EXCEPT !.token = t] IN
             /\ DOMAIN s = RequestFields /\ s.token = t
             /\ s.agent = r.agent /\ s.org = r.org /\ s.tools = r.tools
             /\ s.call = r.call /\ s.cost = r.cost /\ s.chain = r.chain
             /\ s.proven = r.proven /\ s.attested = r.attested
             /\ s.source = r.source /\ s.model = r.model /\ s.steps = r.steps
             /\ s.domains = r.domains /\ s.signals = r.signals
  BY SMT DEF RequestFields

-----------------------------------------------------------------------------
(* The answer, rule by rule *)

Malformed(r) == r.chain.length > 0 /\ ~r.chain.valid

Refused(set, r) == Malformed(r) \/ Denied(MatchIn(set, r), r)
AtCost(set, r)  == ~Refused(set, r) /\ overThreshold(MatchIn(set, r), r)
AtSignal(set, r) ==
    /\ ~Refused(set, r) /\ ~overThreshold(MatchIn(set, r), r)
    /\ heldBySignal(MatchIn(set, r), r)
AtFloor(set, r) ==
    /\ ~Refused(set, r) /\ ~overThreshold(MatchIn(set, r), r)
    /\ ~heldBySignal(MatchIn(set, r), r) /\ heldWithoutGrant(MatchIn(set, r), r)
AtEnd(set, r) ==
    /\ ~Refused(set, r) /\ ~overThreshold(MatchIn(set, r), r)
    /\ ~heldBySignal(MatchIn(set, r), r) /\ ~heldWithoutGrant(MatchIn(set, r), r)

\* Which token the gate that a request stands at wants.
BindsAtCost(set, r)   == heldWithoutGrant(MatchIn(set, r), r)
BindsAtSignal(set, r) ==
    callMustBeBound(MatchIn(set, r), r) \/ heldWithoutGrant(MatchIn(set, r), r)

LEMMA AnswersOf ==
    ASSUME NEW set, NEW r
    PROVE  /\ Refused(set, r) =>
                /\ Decide(set, r).decision = "deny"
                /\ Decide(set, r).tokenRequired = FALSE /\ Decide(set, r).noGrant = FALSE
           /\ AtCost(set, r) =>
                /\ Decide(set, r).decision =
                     IF Verify(r, BindsAtCost(set, r)) THEN "allow"
                     ELSE IF r.token = "none" THEN "hold" ELSE "deny"
                /\ Decide(set, r).tokenRequired = TRUE /\ Decide(set, r).noGrant = FALSE
           /\ AtSignal(set, r) =>
                /\ Decide(set, r).decision =
                     IF Verify(r, BindsAtSignal(set, r)) THEN "allow" ELSE "hold"
                /\ Decide(set, r).tokenRequired = TRUE /\ Decide(set, r).noGrant = FALSE
           /\ AtFloor(set, r) =>
                /\ Decide(set, r).decision = IF r.token = "bound" THEN "allow" ELSE "hold"
                /\ Decide(set, r).tokenRequired = TRUE /\ Decide(set, r).noGrant = TRUE
           /\ AtEnd(set, r) =>
                /\ Decide(set, r).decision = "allow"
                /\ Decide(set, r).tokenRequired = FALSE /\ Decide(set, r).noGrant = FALSE
<1> DEFINE M == MatchIn(set, r)
           c == ~requestSpecific(M, r.call # NoCall)
<1>1. Malformed(r) => Decide(set, r) = Respond("deny", FALSE, FALSE, FALSE)
  BY DEF Decide, Malformed
<1>2. ~Malformed(r) /\ Denied(M, r) => Decide(set, r) = Respond("deny", FALSE, FALSE, c)
  BY DEF Decide, Malformed
<1>3. AtCost(set, r) =>
        Decide(set, r) = Respond(costGate(M, r).decision, costGate(M, r).required, FALSE, c)
  BY DEF Decide, AtCost, Refused, Malformed
<1>4. AtSignal(set, r) => Decide(set, r) = Respond(signalGate(M, r), TRUE, FALSE, c)
  BY DEF Decide, AtSignal, Refused, Malformed
<1>5. AtFloor(set, r) => Decide(set, r) = Respond(floorGate(r), TRUE, TRUE, c)
  BY DEF Decide, AtFloor, Refused, Malformed
<1>6. AtEnd(set, r) => Decide(set, r) = Respond("allow", FALSE, FALSE, c)
  BY DEF Decide, AtEnd, Refused, Malformed
<1>7. \A x, d, t, n, k : x = Respond(d, t, n, k) =>
        x.decision = d /\ x.tokenRequired = t /\ x.noGrant = n
  BY SMT DEF Respond
<1> HIDE DEF M, c
<1>8. /\ costGate(M, r).decision =
           IF Verify(r, heldWithoutGrant(M, r)) THEN "allow"
           ELSE IF r.token = "none" THEN "hold" ELSE "deny"
      /\ costGate(M, r).required = TRUE
  <2> DEFINE v == Verify(r, heldWithoutGrant(M, r))
             Pair(d) == [decision |-> d, required |-> TRUE]
  <2>1. costGate(M, r) = IF v THEN Pair("allow")
                         ELSE IF r.token = "none" THEN Pair("hold") ELSE Pair("deny")
    BY Zenon DEF costGate
  <2>2. \A d : Pair(d).decision = d /\ Pair(d).required = TRUE
    OBVIOUS
  <2> HIDE DEF v, Pair
  <2>3. CASE v                           BY <2>1, <2>2, <2>3 DEF v
  <2>4. CASE ~v /\ r.token = "none"      BY <2>1, <2>2, <2>4 DEF v
  <2>5. CASE ~v /\ r.token # "none"      BY <2>1, <2>2, <2>5 DEF v
  <2> QED BY <2>3, <2>4, <2>5
<1>9. signalGate(M, r) =
        IF Verify(r, callMustBeBound(M, r) \/ heldWithoutGrant(M, r)) THEN "allow" ELSE "hold"
  BY DEF signalGate
<1>10. floorGate(r) = IF r.token = "bound" THEN "allow" ELSE "hold"
  BY DEF floorGate, VerifyBoundToCall
<1>11. Refused(set, r) => \/ Decide(set, r) = Respond("deny", FALSE, FALSE, FALSE)
                          \/ Decide(set, r) = Respond("deny", FALSE, FALSE, c)
  BY <1>1, <1>2, Zenon DEF Refused, M
<1>12. BindsAtCost(set, r) <=> heldWithoutGrant(M, r)
  BY DEF BindsAtCost, M
<1>13. BindsAtSignal(set, r) <=> callMustBeBound(M, r) \/ heldWithoutGrant(M, r)
  BY DEF BindsAtSignal, M
<1>14. /\ Verify(r, BindsAtCost(set, r)) <=> Verify(r, heldWithoutGrant(M, r))
       /\ Verify(r, BindsAtSignal(set, r)) <=>
            Verify(r, callMustBeBound(M, r) \/ heldWithoutGrant(M, r))
  BY <1>12, <1>13, Zenon DEF Verify
<1>15. Refused(set, r) =>
         /\ Decide(set, r).decision = "deny"
         /\ Decide(set, r).tokenRequired = FALSE /\ Decide(set, r).noGrant = FALSE
  <2>1. CASE Decide(set, r) = Respond("deny", FALSE, FALSE, FALSE)
    BY <1>7, <2>1, Zenon
  <2>2. CASE Decide(set, r) = Respond("deny", FALSE, FALSE, c)
    BY <1>7, <2>2, Zenon
  <2> QED BY <1>11, <2>1, <2>2
<1>16. AtCost(set, r) =>
         /\ Decide(set, r).decision = costGate(M, r).decision
         /\ Decide(set, r).tokenRequired = costGate(M, r).required
         /\ Decide(set, r).noGrant = FALSE
  <2> DEFINE d == costGate(M, r).decision
             q == costGate(M, r).required
  <2>1. AtCost(set, r) => Decide(set, r) = Respond(d, q, FALSE, c)
    BY <1>3
  <2> HIDE DEF d, q
  <2>2. AtCost(set, r) =>
          Decide(set, r).decision = d /\ Decide(set, r).tokenRequired = q /\ Decide(set, r).noGrant = FALSE
    BY <1>7, <2>1, Zenon
  <2> QED BY <2>2 DEF d, q
<1>17. AtSignal(set, r) =>
         /\ Decide(set, r).decision = signalGate(M, r)
         /\ Decide(set, r).tokenRequired = TRUE /\ Decide(set, r).noGrant = FALSE
  BY <1>4, <1>7, Zenon
<1>18. AtFloor(set, r) =>
         /\ Decide(set, r).decision = floorGate(r)
         /\ Decide(set, r).tokenRequired = TRUE /\ Decide(set, r).noGrant = TRUE
  BY <1>5, <1>7, Zenon
<1>19. AtEnd(set, r) =>
         /\ Decide(set, r).decision = "allow"
         /\ Decide(set, r).tokenRequired = FALSE /\ Decide(set, r).noGrant = FALSE
  BY <1>6, <1>7, Zenon
<1> QED BY <1>8, <1>9, <1>10, <1>14, <1>15, <1>16, <1>17, <1>18, <1>19

LEMMA OneRuleAnswers ==
    ASSUME NEW set, NEW r
    PROVE  Refused(set, r) \/ AtCost(set, r) \/ AtSignal(set, r) \/ AtFloor(set, r) \/ AtEnd(set, r)
  BY DEF AtCost, AtSignal, AtFloor, AtEnd

-----------------------------------------------------------------------------
(* Rules of one set of policies that a second set has too *)

AskAlike(r, s) ==
    /\ s.call = r.call /\ s.cost = r.cost /\ s.chain = r.chain /\ s.proven = r.proven
    /\ s.attested = r.attested /\ s.source = r.source /\ s.model = r.model
    /\ s.steps = r.steps /\ s.domains = r.domains /\ s.signals = r.signals

\* What is neither a tool list nor a gate of rules 14 and 15.
RestAlike(p, q) ==
    /\ q.maxChainDepth = p.maxChainDepth /\ q.roots = p.roots
    /\ q.denyIfUnproven = p.denyIfUnproven /\ q.denyIfUnattested = p.denyIfUnattested
    /\ q.sources = p.sources /\ q.models = p.models /\ q.maxSteps = p.maxSteps
    /\ q.domains = p.domains /\ q.denyAbove = p.denyAbove /\ q.humanAbove = p.humanAbove

OtherDenied(M, r) ==
    \/ chainDepthExceeded(M, r) \/ rootPrincipalRefused(M, r)
    \/ chainUnproven(M, r) \/ unattestedDenied(M, r)
    \/ identitySourceRefused(M, r) \/ modelRefused(M, r)
    \/ exceededMaxSteps(M, r) \/ deniedDomain(M, r) \/ deniedAboveCeiling(M, r)

LEMMA DeniedSplits ==
    \A M, r : Denied(M, r) <=> deniedTool(M, r) \/ outsideAllowTool(M, r) \/ OtherDenied(M, r)
  BY Zenon DEF Denied, OtherDenied

LEMMA RestReaches ==
    ASSUME NEW M, NEW N, NEW r, NEW s, AskAlike(r, s),
           \A p \in M : \E q \in N : RestAlike(p, q)
    PROVE  /\ OtherDenied(M, r) => OtherDenied(N, s)
           /\ overThreshold(M, r) => overThreshold(N, s)
<1> USE DEF AskAlike, RestAlike
<1>1. chainDepthExceeded(M, r) => chainDepthExceeded(N, s)
  BY DEF chainDepthExceeded
<1>2. rootPrincipalRefused(M, r) => rootPrincipalRefused(N, s)
  BY DEF rootPrincipalRefused
<1>3. chainUnproven(M, r) => chainUnproven(N, s)
  BY DEF chainUnproven
<1>4. unattestedDenied(M, r) => unattestedDenied(N, s)
  BY DEF unattestedDenied
<1>5. identitySourceRefused(M, r) => identitySourceRefused(N, s)
  BY DEF identitySourceRefused
<1>6. modelRefused(M, r) => modelRefused(N, s)
  BY DEF modelRefused
<1>7. exceededMaxSteps(M, r) => exceededMaxSteps(N, s)
  BY DEF exceededMaxSteps
<1>8. deniedDomain(M, r) => deniedDomain(N, s)
  BY DEF deniedDomain
<1>9. deniedAboveCeiling(M, r) => deniedAboveCeiling(N, s)
  BY DEF deniedAboveCeiling
<1>10. overThreshold(M, r) => overThreshold(N, s)
  BY DEF overThreshold
<1> QED
  BY <1>1, <1>2, <1>3, <1>4, <1>5, <1>6, <1>7, <1>8, <1>9, <1>10 DEF OtherDenied

LEMMA EmptyNamesNone ==
    \A t : ~containsFold({}, t)
  BY DEF containsFold

LEMMA ListsReach ==
    ASSUME NEW M, NEW N, NEW r, NEW s, s.tools = r.tools, s.call = r.call,
           \A p \in M : \E q \in N : q.denyTool = p.denyTool /\ q.allowTool = p.allowTool
    PROVE  /\ deniedTool(M, r) => deniedTool(N, s)
           /\ outsideAllowTool(M, r) => outsideAllowTool(N, s)
<1>1. requestedTools(s) = requestedTools(r)
  BY DEF requestedTools
<1>2. \A t : /\ toolDenied(M, t) => toolDenied(N, t)
             /\ allowToolRefused(M, t) => allowToolRefused(N, t)
  BY DEF toolDenied, allowToolRefused
<1> QED BY <1>1, <1>2 DEF deniedTool, outsideAllowTool

LEMMA SignalsReach ==
    ASSUME NEW M, NEW N, NEW r, NEW s, s.signals = r.signals, s.call = r.call,
           \A p \in M : \E q \in N : q.signal = p.signal
    PROVE  /\ heldBySignal(M, r) => heldBySignal(N, s)
           /\ callMustBeBound(M, r) => callMustBeBound(N, s)
<1>1. \A p \in M : \E q \in N : /\ holdsOnSignal(p, r) => holdsOnSignal(q, s)
                                /\ holdsOnAbsence(p, r) => holdsOnAbsence(q, s)
  BY DEF holdsOnSignal, holdsOnAbsence, Named
<1>2. heldBySignal(M, r) => heldBySignal(N, s)
  BY <1>1, Zenon DEF heldBySignal
<1>3. callMustBeBound(M, r) => callMustBeBound(N, s)
  BY <1>1, Zenon DEF callMustBeBound
<1> QED BY <1>2, <1>3

\* What grants in one set grants in a set that keeps its lists.
LEMMA GrantsReach ==
    ASSUME NEW M, NEW N,
           \A p \in M : Grants(p) =>
              \E q \in N : /\ q.pins
                           /\ q.allowTool = p.allowTool \/ p.allowTool = {}
                           /\ q.grantTool = p.grantTool \/ p.grantTool = {}
    PROVE  \A t : toolGranted(M, t) => toolGranted(N, t)
<1> SUFFICES ASSUME NEW t, toolGranted(M, t)
             PROVE  toolGranted(N, t)
  OBVIOUS
<1> DEFINE By(p, q) == \/ containsFold(p.allowTool, t)
                       \/ containsFold(p.grantTool, t)
                       \/ containsFold(q.grantTool, AllTools)
<1>1. PICK p \in M : p.pins /\ By(p, p)
  BY DEF toolGranted
<1>2. Grants(p)
  BY <1>1, EmptyNamesNone DEF Grants
<1>3. PICK q \in N : /\ q.pins
                     /\ q.allowTool = p.allowTool \/ p.allowTool = {}
                     /\ q.grantTool = p.grantTool \/ p.grantTool = {}
  BY <1>2
<1>4. By(q, q)
  BY <1>1, <1>3, EmptyNamesNone
<1> QED BY <1>3, <1>4 DEF toolGranted

\* A floor that stands is reached if no more is granted.
LEMMA FloorsReach ==
    ASSUME NEW M, NEW N, NEW r, NEW s, s.tools = r.tools, s.call = r.call,
           \A p \in M : p.floor => \E q \in N : q.floor,
           \A t : toolGranted(N, t) => toolGranted(M, t)
    PROVE  heldWithoutGrant(M, r) => heldWithoutGrant(N, s)
<1>1. requestedTools(s) = requestedTools(r)
  BY DEF requestedTools
<1> QED BY <1>1, Zenon DEF heldWithoutGrant

-----------------------------------------------------------------------------
(* The token and what reads it *)

LEMMA OnlyGatesReadTokens ==
    ASSUME NEW set, NEW r, DOMAIN r = RequestFields, NEW t
    PROVE  LET s == [r EXCEPT !.token = t] IN
             /\ s.token = t
             /\ Refused(set, s) <=> Refused(set, r)
             /\ AtCost(set, s) <=> AtCost(set, r)
             /\ AtSignal(set, s) <=> AtSignal(set, r)
             /\ AtFloor(set, s) <=> AtFloor(set, r)
             /\ AtEnd(set, s) <=> AtEnd(set, r)
<1> DEFINE s == [r EXCEPT !.token = t]
           M == MatchIn(set, r)
<1>1. /\ s.token = t /\ s.agent = r.agent /\ s.org = r.org
      /\ s.tools = r.tools /\ s.call = r.call /\ s.chain = r.chain
      /\ s.signals = r.signals /\ AskAlike(r, s) /\ AskAlike(s, r)
  BY TokenTaken DEF AskAlike
<1> HIDE DEF s
<1>2. MatchIn(set, s) = M
  BY <1>1 DEF MatchIn
<1>3. Malformed(s) <=> Malformed(r)
  BY <1>1 DEF Malformed
<1>4. \A p \in M : RestAlike(p, p)
  BY DEF RestAlike
<1> HIDE DEF M
<1>5. /\ OtherDenied(M, s) <=> OtherDenied(M, r)
      /\ overThreshold(M, s) <=> overThreshold(M, r)
  BY <1>1, <1>4, RestReaches
<1>6. /\ deniedTool(M, s) <=> deniedTool(M, r)
      /\ outsideAllowTool(M, s) <=> outsideAllowTool(M, r)
  BY <1>1, ListsReach
<1>7. heldBySignal(M, s) <=> heldBySignal(M, r)
  BY <1>1, SignalsReach
<1>8. heldWithoutGrant(M, s) <=> heldWithoutGrant(M, r)
  BY <1>1, FloorsReach
<1>9. Refused(set, s) <=> Refused(set, r)
  BY <1>2, <1>3, <1>5, <1>6, DeniedSplits DEF Refused, M
<1> QED
  BY <1>1, <1>2, <1>5, <1>7, <1>8, <1>9 DEF AtCost, AtSignal, AtFloor, AtEnd, M, s

-----------------------------------------------------------------------------
(* The answer is the one of the policies in force *)

IInv ==
    /\ TypeOK
    /\ req # NoRequest => answer = Decide(policies, req)

LEMMA AnswersAreAnswers ==
    ASSUME NEW set, NEW r
    PROVE  Decide(set, r) \in Answers
<1> DEFINE c == ~requestSpecific(MatchIn(set, r), r.call # NoCall)
<1>1. Decide(set, r) = Respond("deny", FALSE, FALSE, FALSE) \/
        \E d, t, n : Decide(set, r) = Respond(d, t, n, c)
  BY Zenon DEF Decide
<1>2. c \in BOOLEAN
  BY Zenon DEF requestSpecific
<1> HIDE DEF c
<1>3. \E d, t, n : \E k \in BOOLEAN : Decide(set, r) = Respond(d, t, n, k)
  BY <1>1, <1>2, Zenon
<1>3a. PICK d, t, n : \E k \in BOOLEAN : Decide(set, r) = Respond(d, t, n, k)
  BY <1>3
<1>4. PICK k \in BOOLEAN : Decide(set, r) = Respond(d, t, n, k)
  BY <1>3a
<1>5. /\ Decide(set, r).decision = d /\ Decide(set, r).tokenRequired = t
      /\ Decide(set, r).noGrant = n
  BY <1>4 DEF Respond
<1>6. d \in {"allow", "deny", "hold"} /\ t \in BOOLEAN /\ n \in BOOLEAN
  BY <1>5, AnswersOf, OneRuleAnswers
<1> QED BY <1>4, <1>6 DEF Respond, Answers

LEMMA InitIInv == Init => IInv
  BY DEF Init, IInv, TypeOK

LEMMA NextIInv == IInv /\ [Next]_vars => IInv'
<1> SUFFICES ASSUME IInv, [Next]_vars PROVE IInv'
  OBVIOUS
<1> USE DEF IInv, TypeOK
<1>1. ASSUME NEW gone \in SUBSET policies, NEW come \in {{}} \cup {{p} : p \in Policies},
             SetPolicies(gone, come)
      PROVE  IInv'
  BY <1>1 DEF SetPolicies
<1>2. ASSUME NEW r \in Requests, Ask(r)
      PROVE  IInv'
  <2>1. Decide(policies, r) \in Answers
    BY AnswersAreAnswers
  <2>2. r # NoRequest /\ Decide(policies, r) # NoRequest
    BY <2>1, NoRequestAssumption
  <2> QED BY <1>2, <2>1, <2>2 DEF Ask
<1>3. CASE Return
  BY <1>3 DEF Return
<1>4. CASE UNCHANGED vars
  BY <1>4 DEF vars
<1> QED BY <1>1, <1>2, <1>3, <1>4 DEF Next

LEMMA Invariance == Spec => []IInv
  BY InitIInv, NextIInv, PTL DEF Spec

\* Every policy in force has compiled, and there is an answer exactly while a
\* request is answered (SetPolicies, Decide).
THEOREM TypeCorrect == Spec => []TypeOK
<1>1. IInv => TypeOK
  BY DEF IInv
<1> QED BY <1>1, Invariance, PTL

-----------------------------------------------------------------------------

\* An allow that the API redeems a token for is exactly one that the request would
\* not have had without (handleDecide of what Decide answers).
THEOREM AllowsKnowTheirToken == Spec => []RedeemableExactly
<1>1. ASSUME IInv PROVE RedeemableExactly
  <2> SUFFICES ASSUME req # NoRequest
               PROVE  LET tokenless == Decide(policies, [req EXCEPT !.token = "none"])
                      IN /\ tokenless.decision = "deny" => answer.decision = "deny"
                         /\ answer.decision = "allow" =>
                               (answer.tokenRequired <=> tokenless.decision = "hold")
    BY DEF RedeemableExactly
  <2> DEFINE s == [req EXCEPT !.token = "none"]
  <2>1. answer = Decide(policies, req) /\ DOMAIN req = RequestFields
    BY <1>1, FieldsAssumption DEF IInv, TypeOK
  <2>2. /\ s.token = "none"
        /\ Refused(policies, s) <=> Refused(policies, req)
        /\ AtCost(policies, s) <=> AtCost(policies, req)
        /\ AtSignal(policies, s) <=> AtSignal(policies, req)
        /\ AtFloor(policies, s) <=> AtFloor(policies, req)
        /\ AtEnd(policies, s) <=> AtEnd(policies, req)
    BY <2>1, OnlyGatesReadTokens
  <2> HIDE DEF s
  <2>3. ~Verify(s, BindsAtCost(policies, s)) /\ ~Verify(s, BindsAtSignal(policies, s))
    BY <2>2 DEF Verify, VerifyForCall, VerifyBoundToCall
  <2>4. CASE Refused(policies, req)
    BY <2>1, <2>2, <2>4, AnswersOf DEF s
  <2>5. CASE AtCost(policies, req)
    BY <2>1, <2>2, <2>3, <2>5, AnswersOf DEF s
  <2>6. CASE AtSignal(policies, req)
    BY <2>1, <2>2, <2>3, <2>6, AnswersOf DEF s
  <2>7. CASE AtFloor(policies, req)
    BY <2>1, <2>2, <2>7, AnswersOf DEF s
  <2>8. CASE AtEnd(policies, req)
    BY <2>1, <2>2, <2>8, AnswersOf DEF s
  <2> QED BY <2>4, <2>5, <2>6, <2>7, <2>8, OneRuleAnswers
<1> QED BY <1>1, Invariance, PTL

-----------------------------------------------------------------------------
(* Sets of policies with a rule taken out *)

\* What all the edits below leave alone.
Kept(p, q) == RestAlike(p, q) /\ q.target = p.target /\ q.org = p.org /\ q.pins = p.pins

NoSignal(p)    == [p EXCEPT !.signal = NoRule]
NoFloor(p)     == [p EXCEPT !.floor = FALSE]
NoGrantTool(p) == [p EXCEPT !.grantTool = {}]
NoToolList(p)  == [p EXCEPT !.denyTool = {}, !.allowTool = {}]

LEMMA SignalTaken ==
    ASSUME NEW p, DOMAIN p = PolicyFields
    PROVE  /\ Kept(p, NoSignal(p)) /\ NoSignal(p).signal = NoRule
           /\ NoSignal(p).denyTool = p.denyTool /\ NoSignal(p).allowTool = p.allowTool
           /\ NoSignal(p).grantTool = p.grantTool /\ NoSignal(p).floor = p.floor
  BY SMT DEF PolicyFields, Kept, RestAlike, NoSignal

LEMMA FloorTaken ==
    ASSUME NEW p, DOMAIN p = PolicyFields
    PROVE  /\ Kept(p, NoFloor(p)) /\ NoFloor(p).floor = FALSE
           /\ NoFloor(p).denyTool = p.denyTool /\ NoFloor(p).allowTool = p.allowTool
           /\ NoFloor(p).signal = p.signal
  BY SMT DEF PolicyFields, Kept, RestAlike, NoFloor

LEMMA GrantToolTaken ==
    ASSUME NEW p, DOMAIN p = PolicyFields
    PROVE  /\ Kept(p, NoGrantTool(p)) /\ NoGrantTool(p).grantTool = {}
           /\ NoGrantTool(p).denyTool = p.denyTool /\ NoGrantTool(p).allowTool = p.allowTool
           /\ NoGrantTool(p).signal = p.signal /\ NoGrantTool(p).floor = p.floor
  BY SMT DEF PolicyFields, Kept, RestAlike, NoGrantTool

LEMMA ToolListTaken ==
    ASSUME NEW p, DOMAIN p = PolicyFields
    PROVE  /\ Kept(p, NoToolList(p))
           /\ NoToolList(p).denyTool = {} /\ NoToolList(p).allowTool = {}
           /\ NoToolList(p).grantTool = p.grantTool
           /\ NoToolList(p).signal = p.signal /\ NoToolList(p).floor = p.floor
  BY SMT DEF PolicyFields, Kept, RestAlike, NoToolList

\* The matched policies of an edited set are the matched policies, edited.
LEMMA EditedMatches ==
    ASSUME NEW set, NEW f, NEW r, \A p \in set : Kept(p, f[p])
    PROVE  MatchIn({f[p] : p \in set}, r) = {f[p] : p \in MatchIn(set, r)}
  BY DEF MatchIn, Kept

\* Two sets that answer every rule alike decide alike.
LEMMA SameRules ==
    ASSUME NEW set, NEW other, NEW r,
           Refused(set, r) <=> Refused(other, r),
           overThreshold(MatchIn(set, r), r) <=> overThreshold(MatchIn(other, r), r),
           heldBySignal(MatchIn(set, r), r) <=> heldBySignal(MatchIn(other, r), r),
           callMustBeBound(MatchIn(set, r), r) <=> callMustBeBound(MatchIn(other, r), r),
           heldWithoutGrant(MatchIn(set, r), r) <=> heldWithoutGrant(MatchIn(other, r), r)
    PROVE  Decide(set, r).decision = Decide(other, r).decision
<1>1. /\ AtCost(set, r) <=> AtCost(other, r)
      /\ AtSignal(set, r) <=> AtSignal(other, r)
      /\ AtFloor(set, r) <=> AtFloor(other, r)
      /\ AtEnd(set, r) <=> AtEnd(other, r)
  BY DEF AtCost, AtSignal, AtFloor, AtEnd
<1>2. /\ Verify(r, BindsAtCost(set, r)) <=> Verify(r, BindsAtCost(other, r))
      /\ Verify(r, BindsAtSignal(set, r)) <=> Verify(r, BindsAtSignal(other, r))
  BY Zenon DEF Verify, BindsAtCost, BindsAtSignal
<1>3. CASE Refused(set, r)
  <2>1. Refused(other, r)
    BY <1>3
  <2>2. Decide(set, r).decision = "deny" BY <1>3, AnswersOf
  <2>3. Decide(other, r).decision = "deny" BY <2>1, AnswersOf
  <2> QED BY <2>2, <2>3
<1>4. CASE AtCost(set, r)
  <2>1. Decide(set, r).decision =
          IF Verify(r, BindsAtCost(set, r)) THEN "allow"
          ELSE IF r.token = "none" THEN "hold" ELSE "deny"
    BY <1>4, AnswersOf
  <2>2. Decide(other, r).decision =
          IF Verify(r, BindsAtCost(other, r)) THEN "allow"
          ELSE IF r.token = "none" THEN "hold" ELSE "deny"
    BY <1>1, <1>4, AnswersOf
  <2> QED BY <1>2, <2>1, <2>2
<1>5. CASE AtSignal(set, r)
  <2>1. Decide(set, r).decision = IF Verify(r, BindsAtSignal(set, r)) THEN "allow" ELSE "hold"
    BY <1>5, AnswersOf
  <2>2. Decide(other, r).decision = IF Verify(r, BindsAtSignal(other, r)) THEN "allow" ELSE "hold"
    BY <1>1, <1>5, AnswersOf
  <2> QED BY <1>2, <2>1, <2>2
<1>6. CASE AtFloor(set, r)
  <2>1. Decide(set, r).decision = IF r.token = "bound" THEN "allow" ELSE "hold"
    BY <1>6, AnswersOf
  <2>2. Decide(other, r).decision = IF r.token = "bound" THEN "allow" ELSE "hold"
    BY <1>1, <1>6, AnswersOf
  <2> QED BY <2>1, <2>2
<1>7. CASE AtEnd(set, r)
  <2>1. Decide(set, r).decision = "allow"
    BY <1>7, AnswersOf
  <2>2. Decide(other, r).decision = "allow"
    BY <1>1, <1>7, AnswersOf
  <2> QED BY <2>1, <2>2
<1> QED BY <1>3, <1>4, <1>5, <1>6, <1>7, OneRuleAnswers

\* What the rules of two sets that are alike but for some say of a request.
LEMMA RestIsKept ==
    ASSUME NEW M, NEW N, NEW r,
           \A p \in M : \E q \in N : Kept(p, q),
           \A q \in N : \E p \in M : Kept(p, q)
    PROVE  /\ OtherDenied(M, r) <=> OtherDenied(N, r)
           /\ overThreshold(M, r) <=> overThreshold(N, r)
<1>1. AskAlike(r, r)
  BY DEF AskAlike
<1>2. /\ \A p \in M : \E q \in N : RestAlike(p, q)
      /\ \A q \in N : \E p \in M : RestAlike(q, p)
  BY DEF Kept, RestAlike
<1> QED BY <1>1, <1>2, RestReaches

-----------------------------------------------------------------------------

\* A grant lifts the floor and nothing else: what it changes, the floor held
\* (toolGranted, heldWithoutGrant).
THEOREM GrantsLiftOnlyTheFloor == Spec => []GrantsLiftTheFloorOnly
<1>1. ASSUME IInv PROVE GrantsLiftTheFloorOnly
  <2> SUFFICES ASSUME req # NoRequest,
                      ~heldWithoutGrant(MatchIn(NoGrantTools(policies), req), req)
               PROVE  Decide(NoGrantTools(policies), req).decision = answer.decision
    BY DEF GrantsLiftTheFloorOnly
  <2> DEFINE f == [p \in policies |-> NoGrantTool(p)]
             M == MatchIn(policies, req)
             N == MatchIn(NoGrantTools(policies), req)
  <2>1. answer = Decide(policies, req) /\ \A p \in policies : DOMAIN p = PolicyFields
    BY <1>1, FieldsAssumption DEF IInv, TypeOK
  <2>2. \A p \in policies :
          /\ Kept(p, f[p]) /\ f[p].grantTool = {} /\ f[p].floor = p.floor
          /\ f[p].denyTool = p.denyTool /\ f[p].allowTool = p.allowTool
          /\ f[p].signal = p.signal
    BY <2>1, GrantToolTaken
  <2>3. NoGrantTools(policies) = {f[p] : p \in policies}
    BY DEF NoGrantTools, NoGrantTool
  <2> HIDE DEF f
  <2>4. N = {f[p] : p \in M} /\ M \subseteq policies
    <3>1. M \subseteq policies
      BY DEF MatchIn
    <3> QED BY <2>2, <2>3, <3>1, EditedMatches
  <2> HIDE DEF M, N
  <2>5. /\ \A p \in M : \E q \in N : Kept(p, q)
        /\ \A q \in N : \E p \in M : Kept(p, q)
    BY <2>2, <2>4
  <2>6. OtherDenied(M, req) <=> OtherDenied(N, req)
    BY <2>5, RestIsKept
  <2>7. overThreshold(M, req) <=> overThreshold(N, req)
    BY <2>5, RestIsKept
  <2>8. /\ deniedTool(M, req) <=> deniedTool(N, req)
        /\ outsideAllowTool(M, req) <=> outsideAllowTool(N, req)
    <3>1. /\ \A p \in M : \E q \in N : q.denyTool = p.denyTool /\ q.allowTool = p.allowTool
          /\ \A q \in N : \E p \in M : p.denyTool = q.denyTool /\ p.allowTool = q.allowTool
      BY <2>2, <2>4
    <3> QED BY <3>1, ListsReach
  <2>9. /\ heldBySignal(M, req) <=> heldBySignal(N, req)
        /\ callMustBeBound(M, req) <=> callMustBeBound(N, req)
    <3>1. /\ \A p \in M : \E q \in N : q.signal = p.signal
          /\ \A q \in N : \E p \in M : p.signal = q.signal
      BY <2>2, <2>4
    <3> QED BY <3>1, SignalsReach
  <2>10. ~heldWithoutGrant(M, req) /\ ~heldWithoutGrant(N, req)
    <3>1. \A p \in M : p.floor => \E q \in N : q.floor
      BY <2>2, <2>4
    <3>2. \A t : toolGranted(N, t) => toolGranted(M, t)
      <4>1. \A q \in N : Grants(q) =>
              \E p \in M : /\ p.pins
                           /\ p.allowTool = q.allowTool \/ q.allowTool = {}
                           /\ p.grantTool = q.grantTool \/ q.grantTool = {}
        BY <2>2, <2>4 DEF Grants, Kept
      <4> QED BY <4>1, GrantsReach
    <3>3. heldWithoutGrant(M, req) => heldWithoutGrant(N, req)
      BY <3>1, <3>2, FloorsReach
    <3> QED BY <3>3 DEF N
  <2>11. Refused(policies, req) <=> Refused(NoGrantTools(policies), req)
    BY <2>6, <2>8, DeniedSplits DEF Refused, M, N
  <2> QED BY <2>1, <2>7, <2>9, <2>10, <2>11, SameRules DEF M, N
<1> QED BY <1>1, Invariance, PTL

-----------------------------------------------------------------------------

LEMMA WithoutSignals ==
    ASSUME NEW set, \A p \in set : DOMAIN p = PolicyFields, NEW r
    PROVE  LET other == NoSignalRules(set)
               M == MatchIn(set, r)
               N == MatchIn(other, r)
           IN /\ Refused(other, r) <=> Refused(set, r)
              /\ overThreshold(N, r) <=> overThreshold(M, r)
              /\ heldWithoutGrant(N, r) <=> heldWithoutGrant(M, r)
              /\ ~heldBySignal(N, r) /\ ~callMustBeBound(N, r)
<1> DEFINE f == [p \in set |-> NoSignal(p)]
           M == MatchIn(set, r)
           N == MatchIn(NoSignalRules(set), r)
<1>1. \A p \in set : /\ Kept(p, f[p]) /\ f[p].signal = NoRule /\ f[p].floor = p.floor
                     /\ f[p].denyTool = p.denyTool /\ f[p].allowTool = p.allowTool
                     /\ f[p].grantTool = p.grantTool
  BY SignalTaken
<1>2. NoSignalRules(set) = {f[p] : p \in set}
  BY DEF NoSignalRules, NoSignal
<1> HIDE DEF f
<1>3. N = {f[p] : p \in M} /\ M \subseteq set
  <2>1. M \subseteq set
    BY DEF MatchIn
  <2> QED BY <1>1, <1>2, <2>1, EditedMatches
<1> HIDE DEF M, N
<1>4. /\ \A p \in M : \E q \in N : Kept(p, q)
      /\ \A q \in N : \E p \in M : Kept(p, q)
  BY <1>1, <1>3
<1>5. /\ OtherDenied(N, r) <=> OtherDenied(M, r)
      /\ overThreshold(N, r) <=> overThreshold(M, r)
  BY <1>4, RestIsKept
<1>6. /\ deniedTool(N, r) <=> deniedTool(M, r)
      /\ outsideAllowTool(N, r) <=> outsideAllowTool(M, r)
  <2>1. /\ \A p \in M : \E q \in N : q.denyTool = p.denyTool /\ q.allowTool = p.allowTool
        /\ \A q \in N : \E p \in M : p.denyTool = q.denyTool /\ p.allowTool = q.allowTool
    BY <1>1, <1>3
  <2> QED BY <2>1, ListsReach
<1>7. heldWithoutGrant(N, r) <=> heldWithoutGrant(M, r)
  <2>1. /\ \A p \in M : p.floor => \E q \in N : q.floor
        /\ \A q \in N : q.floor => \E p \in M : p.floor
    BY <1>1, <1>3
  <2>2. \A t : toolGranted(N, t) <=> toolGranted(M, t)
    BY <1>1, <1>3 DEF toolGranted, Kept
  <2> QED BY <2>1, <2>2, FloorsReach
<1>8. ~heldBySignal(N, r) /\ ~callMustBeBound(N, r)
  <2>1. \A q \in N : q.signal = NoRule
    BY <1>1, <1>3
  <2>2. \A q \in N : ~holdsOnSignal(q, r) /\ ~holdsOnAbsence(q, r)
    BY <2>1 DEF holdsOnSignal, holdsOnAbsence
  <2> QED BY <2>2 DEF heldBySignal, callMustBeBound
<1>9. Refused(NoSignalRules(set), r) <=> Refused(set, r)
  BY <1>5, <1>6, DeniedSplits DEF Refused, M, N
<1> QED BY <1>5, <1>7, <1>8, <1>9 DEF M, N

LEMMA WithoutFloors ==
    ASSUME NEW set, \A p \in set : DOMAIN p = PolicyFields, NEW r
    PROVE  LET other == NoFloors(set)
               M == MatchIn(set, r)
               N == MatchIn(other, r)
           IN /\ Refused(other, r) <=> Refused(set, r)
              /\ overThreshold(N, r) <=> overThreshold(M, r)
              /\ heldBySignal(N, r) <=> heldBySignal(M, r)
              /\ callMustBeBound(N, r) <=> callMustBeBound(M, r)
              /\ ~heldWithoutGrant(N, r)
<1> DEFINE f == [p \in set |-> NoFloor(p)]
           M == MatchIn(set, r)
           N == MatchIn(NoFloors(set), r)
<1>1. \A p \in set : /\ Kept(p, f[p]) /\ f[p].floor = FALSE /\ f[p].signal = p.signal
                     /\ f[p].denyTool = p.denyTool /\ f[p].allowTool = p.allowTool
  BY FloorTaken
<1>2. NoFloors(set) = {f[p] : p \in set}
  BY DEF NoFloors, NoFloor
<1> HIDE DEF f
<1>3. N = {f[p] : p \in M} /\ M \subseteq set
  <2>1. M \subseteq set
    BY DEF MatchIn
  <2> QED BY <1>1, <1>2, <2>1, EditedMatches
<1> HIDE DEF M, N
<1>4. /\ \A p \in M : \E q \in N : Kept(p, q)
      /\ \A q \in N : \E p \in M : Kept(p, q)
  BY <1>1, <1>3
<1>5. /\ OtherDenied(N, r) <=> OtherDenied(M, r)
      /\ overThreshold(N, r) <=> overThreshold(M, r)
  BY <1>4, RestIsKept
<1>6. /\ deniedTool(N, r) <=> deniedTool(M, r)
      /\ outsideAllowTool(N, r) <=> outsideAllowTool(M, r)
  <2>1. /\ \A p \in M : \E q \in N : q.denyTool = p.denyTool /\ q.allowTool = p.allowTool
        /\ \A q \in N : \E p \in M : p.denyTool = q.denyTool /\ p.allowTool = q.allowTool
    BY <1>1, <1>3
  <2> QED BY <2>1, ListsReach
<1>7. /\ heldBySignal(N, r) <=> heldBySignal(M, r)
      /\ callMustBeBound(N, r) <=> callMustBeBound(M, r)
  <2>1. /\ \A p \in M : \E q \in N : q.signal = p.signal
        /\ \A q \in N : \E p \in M : p.signal = q.signal
    BY <1>1, <1>3
  <2> QED BY <2>1, SignalsReach
<1>8. ~heldWithoutGrant(N, r)
  <2>1. \A q \in N : q.floor = FALSE
    BY <1>1, <1>3
  <2> QED BY <2>1 DEF heldWithoutGrant
<1>9. Refused(NoFloors(set), r) <=> Refused(set, r)
  BY <1>5, <1>6, DeniedSplits DEF Refused, M, N
<1> QED BY <1>5, <1>7, <1>8, <1>9 DEF M, N

\* Rules 14 and 15 only hold: their policies taken out, a deny stays a deny and a
\* hold a hold, but for the token bound to no call that the cost gate then takes.
THEOREM GatesHoldAndNoMore == Spec => []GatesOnlyHold
<1>1. ASSUME IInv PROVE GatesOnlyHold
  <2> DEFINE M == MatchIn(policies, req)
             Unsignalled == Decide(NoSignalRules(policies), req)
             Floorless   == Decide(NoFloors(policies), req)
  <2> SUFFICES ASSUME req # NoRequest
               PROVE  /\ \/ answer.decision = Unsignalled.decision
                         \/ Unsignalled.decision = "allow" /\ answer.decision = "hold"
                      /\ \/ answer.decision = Floorless.decision
                         \/ Floorless.decision = "allow" /\ answer.decision = "hold"
                         \/ /\ overThreshold(M, req)
                            /\ Floorless.tokenRequired /\ req.token = "unbound"
                            /\ answer.decision = "deny"
    BY Zenon DEF GatesOnlyHold
  <2>1. answer = Decide(policies, req) /\ \A p \in policies : DOMAIN p = PolicyFields
    BY <1>1, FieldsAssumption DEF IInv, TypeOK
  <2>2. \/ answer.decision = Unsignalled.decision
        \/ Unsignalled.decision = "allow" /\ answer.decision = "hold"
    <3> DEFINE other == NoSignalRules(policies)
               N == MatchIn(other, req)
    <3>1. /\ Refused(other, req) <=> Refused(policies, req)
          /\ overThreshold(N, req) <=> overThreshold(M, req)
          /\ heldWithoutGrant(N, req) <=> heldWithoutGrant(M, req)
          /\ ~heldBySignal(N, req) /\ ~callMustBeBound(N, req)
      BY <2>1, WithoutSignals
    <3>2. CASE ~AtSignal(policies, req)
      <4>1. Refused(policies, req) => answer.decision = "deny" /\ Unsignalled.decision = "deny"
        BY <2>1, <3>1, AnswersOf
      <4>2. AtCost(policies, req) => answer.decision = Unsignalled.decision
        <5> SUFFICES ASSUME AtCost(policies, req)
                     PROVE  answer.decision = Unsignalled.decision
          OBVIOUS
        <5>1. AtCost(other, req)
          BY <3>1 DEF AtCost
        <5>2. Verify(req, BindsAtCost(other, req)) <=> Verify(req, BindsAtCost(policies, req))
          BY <3>1, Zenon DEF Verify, BindsAtCost
        <5>3. answer.decision =
                IF Verify(req, BindsAtCost(policies, req)) THEN "allow"
                ELSE IF req.token = "none" THEN "hold" ELSE "deny"
          BY <2>1, AnswersOf
        <5>4. Unsignalled.decision =
                IF Verify(req, BindsAtCost(other, req)) THEN "allow"
                ELSE IF req.token = "none" THEN "hold" ELSE "deny"
          BY <5>1, AnswersOf
        <5> QED BY <5>2, <5>3, <5>4
      <4>3. AtFloor(policies, req) => answer.decision = Unsignalled.decision
        <5>1. AtFloor(policies, req) => AtFloor(other, req)
          BY <3>1 DEF AtFloor
        <5> QED BY <2>1, <5>1, AnswersOf
      <4>4. AtEnd(policies, req) => answer.decision = Unsignalled.decision
        <5>1. AtEnd(policies, req) => AtEnd(other, req)
          BY <3>1 DEF AtEnd
        <5> QED BY <2>1, <5>1, AnswersOf
      <4> QED BY <3>2, <4>1, <4>2, <4>3, <4>4, OneRuleAnswers
    <3>3. CASE AtSignal(policies, req)
      <4>1. answer.decision =
              IF Verify(req, BindsAtSignal(policies, req)) THEN "allow" ELSE "hold"
        BY <2>1, <3>3, AnswersOf
      <4>2. CASE heldWithoutGrant(M, req)
        <5>1. AtFloor(other, req)
          BY <3>1, <3>3, <4>2 DEF AtFloor, AtSignal
        <5>2. Unsignalled.decision = IF req.token = "bound" THEN "allow" ELSE "hold"
          BY <5>1, AnswersOf
        <5>3. Verify(req, BindsAtSignal(policies, req)) <=> req.token = "bound"
          BY <4>2, Zenon DEF Verify, BindsAtSignal, VerifyBoundToCall
        <5> QED BY <4>1, <5>2, <5>3
      <4>3. CASE ~heldWithoutGrant(M, req)
        <5>1. AtEnd(other, req)
          BY <3>1, <3>3, <4>3 DEF AtEnd, AtSignal
        <5>2. Unsignalled.decision = "allow"
          BY <5>1, AnswersOf
        <5> QED BY <4>1, <5>2
      <4> QED BY <4>2, <4>3
    <3> QED BY <3>2, <3>3
  <2>3. \/ answer.decision = Floorless.decision
        \/ Floorless.decision = "allow" /\ answer.decision = "hold"
        \/ /\ overThreshold(M, req)
           /\ Floorless.tokenRequired /\ req.token = "unbound"
           /\ answer.decision = "deny"
    <3> DEFINE other == NoFloors(policies)
               N == MatchIn(other, req)
    <3>1. /\ Refused(other, req) <=> Refused(policies, req)
          /\ overThreshold(N, req) <=> overThreshold(M, req)
          /\ heldBySignal(N, req) <=> heldBySignal(M, req)
          /\ callMustBeBound(N, req) <=> callMustBeBound(M, req)
          /\ ~heldWithoutGrant(N, req)
      BY <2>1, WithoutFloors
    <3>2. CASE Refused(policies, req)
      BY <2>1, <3>1, <3>2, AnswersOf
    <3>3. CASE AtCost(policies, req)
      <4>1. AtCost(other, req)
        BY <3>1, <3>3 DEF AtCost
      <4>2. Verify(req, BindsAtCost(other, req)) <=> req.token \in {"unbound", "bound"}
        BY <3>1, Zenon DEF Verify, BindsAtCost, VerifyForCall
      <4>3. \/ Verify(req, BindsAtCost(policies, req)) <=> req.token \in {"unbound", "bound"}
            \/ Verify(req, BindsAtCost(policies, req)) <=> req.token = "bound"
        BY Zenon DEF Verify, BindsAtCost, VerifyForCall, VerifyBoundToCall
      <4>4. answer.decision =
              IF Verify(req, BindsAtCost(policies, req)) THEN "allow"
              ELSE IF req.token = "none" THEN "hold" ELSE "deny"
        BY <2>1, <3>3, AnswersOf
      <4>5. /\ Floorless.decision =
                 IF Verify(req, BindsAtCost(other, req)) THEN "allow"
                 ELSE IF req.token = "none" THEN "hold" ELSE "deny"
            /\ Floorless.tokenRequired = TRUE
        BY <4>1, AnswersOf
      <4>6. overThreshold(M, req)
        BY <3>3 DEF AtCost
      <4> HIDE DEF Floorless, M
      <4>7. CASE req.token = "unbound"
        BY <4>2, <4>4, <4>5, <4>6, <4>7
      <4>8. CASE req.token # "unbound"
        BY <4>2, <4>3, <4>4, <4>5, <4>8
      <4> QED BY <4>7, <4>8
    <3>4. CASE AtSignal(policies, req)
      <4>1. AtSignal(other, req)
        BY <3>1, <3>4 DEF AtSignal
      <4>2. Verify(req, BindsAtSignal(policies, req)) => Verify(req, BindsAtSignal(other, req))
        BY <3>1, Zenon DEF Verify, BindsAtSignal, VerifyForCall, VerifyBoundToCall
      <4>3. answer.decision =
              IF Verify(req, BindsAtSignal(policies, req)) THEN "allow" ELSE "hold"
        BY <2>1, <3>4, AnswersOf
      <4>4. Floorless.decision =
              IF Verify(req, BindsAtSignal(other, req)) THEN "allow" ELSE "hold"
        BY <4>1, AnswersOf
      <4> QED BY <4>2, <4>3, <4>4
    <3>5. CASE AtFloor(policies, req)
      <4>1. AtEnd(other, req)
        BY <3>1, <3>5 DEF AtFloor, AtEnd
      <4>2. Floorless.decision = "allow"
        BY <4>1, AnswersOf
      <4>3. answer.decision \in {"allow", "hold"}
        BY <2>1, <3>5, AnswersOf
      <4> QED BY <4>2, <4>3
    <3>6. CASE AtEnd(policies, req)
      <4>1. AtEnd(other, req)
        BY <3>1, <3>6 DEF AtEnd
      <4> QED BY <2>1, <3>6, <4>1, AnswersOf
    <3> QED BY <3>2, <3>3, <3>4, <3>5, <3>6, OneRuleAnswers
  <2> QED BY <2>2, <2>3
<1> QED BY <1>1, Invariance, PTL

-----------------------------------------------------------------------------
(* The filter *)

LEMMA WithoutToolLists ==
    ASSUME NEW set, \A p \in set : DOMAIN p = PolicyFields, NEW r
    PROVE  LET other == NoToolLists(set)
               M == MatchIn(set, r)
               N == MatchIn(other, r)
           IN /\ OtherDenied(N, r) <=> OtherDenied(M, r)
              /\ overThreshold(N, r) <=> overThreshold(M, r)
              /\ heldWithoutGrant(M, r) => heldWithoutGrant(N, r)
<1> DEFINE f == [p \in set |-> NoToolList(p)]
           M == MatchIn(set, r)
           N == MatchIn(NoToolLists(set), r)
<1>1. \A p \in set : /\ Kept(p, f[p]) /\ f[p].floor = p.floor
                     /\ f[p].allowTool = {} /\ f[p].grantTool = p.grantTool
  BY ToolListTaken
<1>2. NoToolLists(set) = {f[p] : p \in set}
  BY DEF NoToolLists, NoToolList
<1> HIDE DEF f
<1>3. N = {f[p] : p \in M} /\ M \subseteq set
  <2>1. M \subseteq set
    BY DEF MatchIn
  <2> QED BY <1>1, <1>2, <2>1, EditedMatches
<1> HIDE DEF M, N
<1>4. /\ \A p \in M : \E q \in N : Kept(p, q)
      /\ \A q \in N : \E p \in M : Kept(p, q)
  BY <1>1, <1>3
<1>5. /\ OtherDenied(N, r) <=> OtherDenied(M, r)
      /\ overThreshold(N, r) <=> overThreshold(M, r)
  BY <1>4, RestIsKept
<1>6. heldWithoutGrant(M, r) => heldWithoutGrant(N, r)
  <2>1. \A p \in M : p.floor => \E q \in N : q.floor
    BY <1>1, <1>3
  <2>2. \A t : toolGranted(N, t) => toolGranted(M, t)
    <3>1. \A q \in N : Grants(q) =>
            \E p \in M : /\ p.pins
                         /\ p.allowTool = q.allowTool \/ q.allowTool = {}
                         /\ p.grantTool = q.grantTool \/ q.grantTool = {}
      BY <1>1, <1>3 DEF Grants, Kept
    <3> QED BY <3>1, GrantsReach
  <2> QED BY <2>1, <2>2, FloorsReach
<1> QED BY <1>5, <1>6 DEF M, N

LEMMA ToolsOffered ==
    ASSUME NEW r, DOMAIN r = RequestFields, NEW ts
    PROVE  LET s == [r EXCEPT !.tools = ts]
           IN s.tools = ts /\ s.agent = r.agent /\ s.org = r.org
  BY SMT DEF RequestFields

\* The filter drops no tool that a decision lets through, and drops the tool that a
\* decision is refused for (Engine.Filter beside rules 2 and 3 of Engine.Decide).
THEOREM FilterFollowsDecide == Spec => []FilterAgrees
<1>1. ASSUME IInv PROVE FilterAgrees
  <2> DEFINE offered == [req EXCEPT !.tools = requestedTools(req)]
             kept    == Filter(policies, offered)
             other   == NoToolLists(policies)
             M       == MatchIn(policies, req)
  <2> SUFFICES ASSUME req # NoRequest
               PROVE  /\ kept # offered.tools => answer.decision = "deny"
                      /\ answer.decision = "deny" /\ kept = offered.tools =>
                           Decide(other, req).decision = "deny"
    BY Zenon DEF FilterAgrees
  <2>1. /\ answer = Decide(policies, req) /\ DOMAIN req = RequestFields
        /\ \A p \in policies : DOMAIN p = PolicyFields
    BY <1>1, FieldsAssumption DEF IInv, TypeOK
  <2>2. /\ offered.tools = requestedTools(req)
        /\ offered.agent = req.agent /\ offered.org = req.org
    BY <2>1, ToolsOffered
  <2>3. MatchIn(policies, offered) = M
    BY <2>2 DEF MatchIn
  <2>4. kept = {t \in requestedTools(req) : ~toolDenied(M, t) /\ ~allowToolRefused(M, t)}
    BY <2>2, <2>3, Zenon DEF Filter
  <2>5. kept = offered.tools <=> ~deniedTool(M, req) /\ ~outsideAllowTool(M, req)
    BY <2>2, <2>4 DEF deniedTool, outsideAllowTool
  <2> HIDE DEF kept, offered
  <2>6. kept # offered.tools => answer.decision = "deny"
    <3>1. kept # offered.tools => Refused(policies, req)
      BY <2>5, DeniedSplits DEF Refused
    <3> QED BY <2>1, <3>1, AnswersOf
  <2>7. ASSUME answer.decision = "deny", kept = offered.tools
        PROVE  Decide(other, req).decision = "deny"
    <3> DEFINE N == MatchIn(other, req)
    <3>1. /\ OtherDenied(N, req) <=> OtherDenied(M, req)
          /\ overThreshold(N, req) <=> overThreshold(M, req)
          /\ heldWithoutGrant(M, req) => heldWithoutGrant(N, req)
      BY <2>1, WithoutToolLists
    <3>2. CASE Refused(other, req)
      BY <3>2, AnswersOf
    <3>3. CASE ~Refused(other, req)
      <4>1. ~Refused(policies, req)
        BY <2>5, <2>7, <3>1, <3>3, DeniedSplits DEF Refused
      <4>2. AtCost(policies, req)
        <5>1. AtSignal(policies, req) => answer.decision # "deny"
          BY <2>1, AnswersOf
        <5>2. AtFloor(policies, req) => answer.decision # "deny"
          BY <2>1, AnswersOf
        <5>3. AtEnd(policies, req) => answer.decision # "deny"
          BY <2>1, AnswersOf
        <5> QED BY <2>7, <4>1, <5>1, <5>2, <5>3, OneRuleAnswers
      <4>3. AtCost(other, req)
        BY <3>1, <3>3, <4>2 DEF AtCost
      <4>4. answer.decision =
              IF Verify(req, BindsAtCost(policies, req)) THEN "allow"
              ELSE IF req.token = "none" THEN "hold" ELSE "deny"
        BY <2>1, <4>2, AnswersOf
      <4>5. Verify(req, BindsAtCost(other, req)) => Verify(req, BindsAtCost(policies, req))
        BY <3>1, Zenon DEF Verify, BindsAtCost, VerifyForCall, VerifyBoundToCall
      <4>6. Decide(other, req).decision =
              IF Verify(req, BindsAtCost(other, req)) THEN "allow"
              ELSE IF req.token = "none" THEN "hold" ELSE "deny"
        BY <4>3, AnswersOf
      <4> QED BY <2>7, <4>4, <4>5, <4>6
    <3> QED BY <3>2, <3>3
  <2> QED BY <2>6, <2>7
<1> QED BY <1>1, Invariance, PTL

-----------------------------------------------------------------------------
(* What may be cached *)

LEMMA CacheableOf ==
    ASSUME NEW set, NEW r
    PROVE  /\ Malformed(r) => Decide(set, r).cacheable = FALSE
           /\ ~Malformed(r) =>
                Decide(set, r).cacheable = ~requestSpecific(MatchIn(set, r), r.call # NoCall)
<1> DEFINE c == ~requestSpecific(MatchIn(set, r), r.call # NoCall)
<1>1. Malformed(r) => Decide(set, r) = Respond("deny", FALSE, FALSE, FALSE)
  BY Zenon DEF Decide, Malformed
<1>2. ~Malformed(r) => \E d, t, n : Decide(set, r) = Respond(d, t, n, c)
  BY Zenon DEF Decide, Malformed
<1> HIDE DEF c
<1>3. \A x, d, t, n, k : x = Respond(d, t, n, k) => x.cacheable = k
  BY SMT DEF Respond
<1>4. Malformed(r) => Decide(set, r).cacheable = FALSE
  BY <1>1, <1>3, Zenon
<1>5. ~Malformed(r) => Decide(set, r).cacheable = c
  BY <1>2, <1>3, Zenon
<1> QED BY <1>4, <1>5 DEF c

\* No rule that a cacheable decision passes reads more than the agent, the tools and
\* the attestation.
LEMMA CacheableReadsNoMore ==
    ASSUME NEW M, NEW r, ~requestSpecific(M, r.call # NoCall)
    PROVE  /\ Denied(M, r) <=> deniedTool(M, r) \/ unattestedDenied(M, r)
           /\ r.call # NoCall => ~deniedTool(M, r)
           /\ ~overThreshold(M, r) /\ ~heldBySignal(M, r) /\ ~heldWithoutGrant(M, r)
<1>1. \A p \in M :
        /\ ~(p.maxSteps > 0) /\ p.humanAbove = NoLimit /\ p.denyAbove = NoLimit
        /\ p.domains = {} /\ p.allowTool = {} /\ ~p.denyIfUnproven
        /\ ~(p.maxChainDepth > 0) /\ p.roots = {} /\ p.signal = NoRule
        /\ p.models = {} /\ p.sources = {} /\ ~p.floor
        /\ r.call # NoCall => p.denyTool = {}
  BY Zenon DEF requestSpecific
<1>2. ~outsideAllowTool(M, r)
  BY <1>1 DEF outsideAllowTool, allowToolRefused
<1>3. ~chainDepthExceeded(M, r) /\ ~rootPrincipalRefused(M, r) /\ ~chainUnproven(M, r)
  BY <1>1 DEF chainDepthExceeded, rootPrincipalRefused, chainUnproven
<1>4. ~identitySourceRefused(M, r) /\ ~modelRefused(M, r) /\ ~exceededMaxSteps(M, r)
  BY <1>1 DEF identitySourceRefused, modelRefused, exceededMaxSteps
<1>5. ~deniedDomain(M, r) /\ ~deniedAboveCeiling(M, r) /\ ~overThreshold(M, r)
  BY <1>1 DEF deniedDomain, deniedAboveCeiling, overThreshold
<1>6. ~heldBySignal(M, r)
  BY <1>1 DEF heldBySignal, holdsOnSignal, holdsOnAbsence
<1>7. ~heldWithoutGrant(M, r)
  BY <1>1 DEF heldWithoutGrant
<1>8. r.call # NoCall => ~deniedTool(M, r)
  BY <1>1, EmptyNamesNone DEF deniedTool, toolDenied
<1> QED BY <1>2, <1>3, <1>4, <1>5, <1>6, <1>7, <1>8, Zenon DEF Denied

\* A decision marked cacheable is the decision of every request that a cache would
\* give it to (requestSpecific).
THEOREM CachedAnswersAreRight == Spec => []CacheableGivenChain
<1>1. ASSUME IInv PROVE CacheableGivenChain
  <2> SUFFICES ASSUME req # NoRequest, answer.cacheable, NEW r \in Requests,
                      SameKey(r, req), WellFormed(r)
               PROVE  Decide(policies, r) = answer
    BY DEF CacheableGivenChain
  <2> DEFINE M == MatchIn(policies, req)
  <2>1. answer = Decide(policies, req)
    BY <1>1 DEF IInv
  <2>2. ~Malformed(req) /\ ~Malformed(r)
    <3>1. ~Malformed(req)
      BY <2>1, CacheableOf
    <3>2. ~Malformed(r)
      BY DEF Malformed, WellFormed
    <3> QED BY <3>1, <3>2
  <2>3. MatchIn(policies, r) = M
    BY DEF MatchIn, SameKey
  <2>4. ~requestSpecific(M, req.call # NoCall)
    BY <2>1, <2>2, CacheableOf, Zenon
  <2>5. ~requestSpecific(M, r.call # NoCall)
    BY <2>4, Zenon DEF SameKey, requestSpecific
  <2> HIDE DEF M
  <2>6. unattestedDenied(M, r) <=> unattestedDenied(M, req)
    BY DEF unattestedDenied, SameKey
  <2>7. deniedTool(M, r) <=> deniedTool(M, req)
    <3>1. CASE req.call = NoCall
      <4>1. requestedTools(r) = requestedTools(req)
        BY <3>1 DEF requestedTools, SameKey
      <4> QED BY <4>1 DEF deniedTool
    <3>2. CASE req.call # NoCall
      <4>1. r.call # NoCall
        BY <3>2 DEF SameKey
      <4> QED BY <2>4, <2>5, <3>2, <4>1, CacheableReadsNoMore
    <3> QED BY <3>1, <3>2
  <2>8. Denied(M, r) <=> Denied(M, req)
    BY <2>4, <2>5, <2>6, <2>7, CacheableReadsNoMore
  <2>9. /\ Refused(policies, r) <=> Refused(policies, req)
        /\ ~Refused(policies, r) => AtEnd(policies, r)
        /\ ~Refused(policies, req) => AtEnd(policies, req)
    BY <2>2, <2>3, <2>4, <2>5, <2>8, CacheableReadsNoMore DEF Refused, AtEnd, M
  <2>10. /\ Decide(policies, r).decision = answer.decision
         /\ Decide(policies, r).tokenRequired = answer.tokenRequired
         /\ Decide(policies, r).noGrant = answer.noGrant
    <3>1. CASE Refused(policies, req)
      BY <2>1, <2>9, <3>1, AnswersOf
    <3>2. CASE ~Refused(policies, req)
      BY <2>1, <2>9, <3>2, AnswersOf
    <3> QED BY <3>1, <3>2
  <2>11. Decide(policies, r).cacheable = TRUE /\ answer.cacheable = TRUE
    <3>1. Decide(policies, r).cacheable
      BY <2>2, <2>3, <2>5, CacheableOf, Zenon
    <3> QED BY <2>1, <3>1, AnswersAreAnswers DEF Answers
  <2> QED BY <2>1, <2>10, <2>11, AnswersAreAnswers DEF Answers
<1> QED BY <1>1, Invariance, PTL

-----------------------------------------------------------------------------
(* A policy put in force beside the others *)

LEMMA StricterIs ==
    /\ \A d \in {"allow", "deny", "hold"} : Stricter(d, "allow") /\ Stricter("deny", d)
    /\ Stricter("hold", "hold")
  BY SMT DEF Stricter, Strictness

LEMMA OneMoreReaches ==
    ASSUME NEW set, NEW p, ~Grants(p), NEW r
    PROVE  LET other == set \cup {p}
               M == MatchIn(set, r)
               N == MatchIn(other, r)
           IN /\ Refused(set, r) => Refused(other, r)
              /\ overThreshold(M, r) => overThreshold(N, r)
              /\ heldBySignal(M, r) => heldBySignal(N, r)
              /\ callMustBeBound(M, r) => callMustBeBound(N, r)
              /\ heldWithoutGrant(M, r) => heldWithoutGrant(N, r)
<1> DEFINE M == MatchIn(set, r)
           N == MatchIn(set \cup {p}, r)
<1>1. M \subseteq N /\ \A q \in N : q \in M \/ q = p
  BY DEF MatchIn
<1> HIDE DEF M, N
<1>2. AskAlike(r, r) /\ \A q \in M : RestAlike(q, q)
  BY DEF AskAlike, RestAlike
<1>3. \A q \in M : \E n \in N : RestAlike(q, n)
  BY <1>1, <1>2
<1>4. /\ OtherDenied(M, r) => OtherDenied(N, r)
      /\ overThreshold(M, r) => overThreshold(N, r)
  BY <1>2, <1>3, RestReaches
<1>5. /\ deniedTool(M, r) => deniedTool(N, r)
      /\ outsideAllowTool(M, r) => outsideAllowTool(N, r)
  BY <1>1, ListsReach
<1>6. /\ heldBySignal(M, r) => heldBySignal(N, r)
      /\ callMustBeBound(M, r) => callMustBeBound(N, r)
  BY <1>1, SignalsReach
<1>7. heldWithoutGrant(M, r) => heldWithoutGrant(N, r)
  <2>1. \A t : toolGranted(N, t) => toolGranted(M, t)
    <3>1. \A q \in N : Grants(q) => q \in M
      BY <1>1
    <3> QED BY <3>1, GrantsReach DEF Grants
  <2> QED BY <1>1, <2>1, FloorsReach
<1>8. Refused(set, r) => Refused(set \cup {p}, r)
  BY <1>4, <1>5, DeniedSplits DEF Refused, M, N
<1> QED BY <1>4, <1>6, <1>7, <1>8 DEF M, N

\* A policy that grants nothing makes no decision milder, but where the cost gate
\* takes a token that rule 14 would not have (Engine.Decide).
THEOREM PoliciesNarrow == Spec => []NarrowButForCostGate
<1>1. ASSUME IInv PROVE NarrowButForCostGate
  <2> SUFFICES ASSUME req # NoRequest, NEW p \in Policies, ~Grants(p),
                      ~CostGateFirst(policies \cup {p}, req)
               PROVE  Stricter(Decide(policies \cup {p}, req).decision, answer.decision)
    BY DEF NarrowButForCostGate
  <2> DEFINE other == policies \cup {p}
             M == MatchIn(policies, req)
             N == MatchIn(other, req)
             before == Decide(policies, req).decision
             after  == Decide(other, req).decision
  <2>1. answer.decision = before
    BY <1>1 DEF IInv
  <2>2. /\ Refused(policies, req) => Refused(other, req)
        /\ overThreshold(M, req) => overThreshold(N, req)
        /\ heldBySignal(M, req) => heldBySignal(N, req)
        /\ callMustBeBound(M, req) => callMustBeBound(N, req)
        /\ heldWithoutGrant(M, req) => heldWithoutGrant(N, req)
    BY OneMoreReaches
  <2>3. before \in {"allow", "deny", "hold"} /\ after \in {"allow", "deny", "hold"}
    BY AnswersAreAnswers DEF Answers
  <2>4. SUFFICES ASSUME after # "deny", before # "allow"
                 PROVE  after = "hold" /\ before = "hold"
    BY <2>1, <2>3, StricterIs
  <2>5. ~Refused(other, req) /\ ~Refused(policies, req)
    BY <2>2, <2>4, AnswersOf
  <2>6. ~AtEnd(policies, req)
    BY <2>4, AnswersOf
  <2>7. CASE AtCost(policies, req)
    <3>1. AtCost(other, req)
      BY <2>2, <2>5, <2>7 DEF AtCost
    <3>2. Verify(req, BindsAtCost(other, req)) => Verify(req, BindsAtCost(policies, req))
      BY <2>2, Zenon DEF Verify, BindsAtCost, VerifyForCall, VerifyBoundToCall
    <3>3. before = IF Verify(req, BindsAtCost(policies, req)) THEN "allow"
                   ELSE IF req.token = "none" THEN "hold" ELSE "deny"
      BY <2>7, AnswersOf
    <3>4. after = IF Verify(req, BindsAtCost(other, req)) THEN "allow"
                  ELSE IF req.token = "none" THEN "hold" ELSE "deny"
      BY <3>1, AnswersOf
    <3> QED BY <2>4, <3>2, <3>3, <3>4
  <2>8. CASE AtSignal(policies, req)
    <3>1. before = IF Verify(req, BindsAtSignal(policies, req)) THEN "allow" ELSE "hold"
      BY <2>8, AnswersOf
    <3>2. ~Verify(req, BindsAtSignal(policies, req)) /\ before = "hold"
      BY <2>4, <3>1
    <3>3. CASE AtCost(other, req)
      <4>1. ~Verify(req, BindsAtCost(other, req))
        <5>1. CASE heldWithoutGrant(N, req)
          BY <3>2, <5>1, Zenon DEF Verify, BindsAtSignal, BindsAtCost, VerifyForCall, VerifyBoundToCall
        <5>2. CASE ~heldWithoutGrant(N, req) /\ ~callMustBeBound(M, req)
          BY <2>2, <3>2, <5>2, Zenon DEF Verify, BindsAtSignal, BindsAtCost
        <5>3. CASE ~heldWithoutGrant(N, req) /\ callMustBeBound(M, req)
          <6>1. req.token # "unbound"
            BY <2>2, <3>3, <5>3 DEF CostGateFirst, AtCost
          <6>2. req.token # "bound"
            BY <3>2, Zenon DEF Verify, VerifyForCall, VerifyBoundToCall
          <6> QED BY <5>3, <6>1, <6>2 DEF Verify, BindsAtCost, VerifyForCall, VerifyBoundToCall
        <5> QED BY <5>1, <5>2, <5>3
      <4>2. after = IF Verify(req, BindsAtCost(other, req)) THEN "allow"
                    ELSE IF req.token = "none" THEN "hold" ELSE "deny"
        BY <3>3, AnswersOf
      <4> QED BY <2>4, <3>2, <4>1, <4>2
    <3>4. CASE AtSignal(other, req)
      <4>1. Verify(req, BindsAtSignal(other, req)) => Verify(req, BindsAtSignal(policies, req))
        BY <2>2, Zenon DEF Verify, BindsAtSignal, VerifyForCall, VerifyBoundToCall
      <4>2. after = IF Verify(req, BindsAtSignal(other, req)) THEN "allow" ELSE "hold"
        BY <3>4, AnswersOf
      <4> QED BY <3>2, <4>1, <4>2
    <3> QED BY <2>2, <2>5, <2>8, <3>3, <3>4 DEF AtCost, AtSignal
  <2>9. CASE AtFloor(policies, req)
    <3>1. req.token # "bound" /\ before = "hold"
      BY <2>4, <2>9, AnswersOf
    <3>2. heldWithoutGrant(N, req)
      BY <2>2, <2>9 DEF AtFloor
    <3>3. CASE AtCost(other, req)
      <4>1. ~Verify(req, BindsAtCost(other, req))
        BY <3>1, <3>2, Zenon DEF Verify, BindsAtCost, VerifyBoundToCall
      <4>2. after = IF Verify(req, BindsAtCost(other, req)) THEN "allow"
                    ELSE IF req.token = "none" THEN "hold" ELSE "deny"
        BY <3>3, AnswersOf
      <4> QED BY <2>4, <3>1, <4>1, <4>2
    <3>4. CASE AtSignal(other, req)
      <4>1. ~Verify(req, BindsAtSignal(other, req))
        BY <3>1, <3>2, Zenon DEF Verify, BindsAtSignal, VerifyBoundToCall
      <4>2. after = IF Verify(req, BindsAtSignal(other, req)) THEN "allow" ELSE "hold"
        BY <3>4, AnswersOf
      <4> QED BY <3>1, <4>1, <4>2
    <3>5. CASE AtFloor(other, req)
      BY <3>1, <3>5, AnswersOf
    <3> QED BY <2>5, <3>2, <3>3, <3>4, <3>5 DEF AtCost, AtSignal, AtFloor
  <2> QED BY <2>5, <2>6, <2>7, <2>8, <2>9, OneRuleAnswers
<1> QED BY <1>1, Invariance, PTL

-----------------------------------------------------------------------------
(* Replay *)

LEMMA RuleReadsNoToken ==
    ASSUME NEW set, NEW r, DOMAIN r = RequestFields
    PROVE  RuleOf(set, [r EXCEPT !.token = "none"]) = RuleOf(set, r)
<1> DEFINE s == [r EXCEPT !.token = "none"]
           M == MatchIn(set, r)
<1>1. /\ s.agent = r.agent /\ s.org = r.org /\ s.tools = r.tools /\ s.call = r.call
      /\ s.cost = r.cost /\ s.chain = r.chain /\ s.proven = r.proven
      /\ s.attested = r.attested /\ s.source = r.source /\ s.model = r.model
      /\ s.steps = r.steps /\ s.domains = r.domains /\ s.signals = r.signals
  BY TokenTaken
<1>2. MatchIn(set, s) = M
  BY <1>1 DEF MatchIn
<1> HIDE DEF s, M
<1>3. requestedTools(s) = requestedTools(r)
  BY <1>1 DEF requestedTools
<1>4. deniedTool(M, s) = deniedTool(M, r) /\ outsideAllowTool(M, s) = outsideAllowTool(M, r)
  BY <1>3 DEF deniedTool, outsideAllowTool
<1>5. /\ chainDepthExceeded(M, s) = chainDepthExceeded(M, r)
      /\ rootPrincipalRefused(M, s) = rootPrincipalRefused(M, r)
      /\ chainUnproven(M, s) = chainUnproven(M, r)
  BY <1>1 DEF chainDepthExceeded, rootPrincipalRefused, chainUnproven
<1>6. /\ unattestedDenied(M, s) = unattestedDenied(M, r)
      /\ identitySourceRefused(M, s) = identitySourceRefused(M, r)
      /\ modelRefused(M, s) = modelRefused(M, r)
  BY <1>1 DEF unattestedDenied, identitySourceRefused, modelRefused
<1>7. /\ exceededMaxSteps(M, s) = exceededMaxSteps(M, r)
      /\ deniedDomain(M, s) = deniedDomain(M, r)
      /\ deniedAboveCeiling(M, s) = deniedAboveCeiling(M, r)
  BY <1>1 DEF exceededMaxSteps, deniedDomain, deniedAboveCeiling
<1>8. DenyRules(M, s) = DenyRules(M, r)
  BY <1>4, <1>5, <1>6, <1>7 DEF DenyRules
<1>9. Denied(M, s) <=> Denied(M, r)
  BY <1>4, <1>5, <1>6, <1>7, Zenon DEF Denied
<1>10. overThreshold(M, s) <=> overThreshold(M, r)
  BY <1>1 DEF overThreshold
<1>11. heldBySignal(M, s) <=> heldBySignal(M, r)
  BY <1>1, SignalsReach
<1>12. heldWithoutGrant(M, s) <=> heldWithoutGrant(M, r)
  BY <1>1, FloorsReach
<1>13. RuleOf(set, s) = RuleOf(set, r)
  BY <1>1, <1>2, <1>8, <1>9, <1>10, <1>11, <1>12 DEF RuleOf, M
<1> QED BY <1>13 DEF s

\* The question on the record, read back, is the request with no token.
LEMMA QuestionIsKept ==
    ASSUME NEW set, NEW r, DOMAIN r = RequestFields, NEW spent
    PROVE  Question(Event(set, r, spent)) = [r EXCEPT !.token = "none"]
<1> DEFINE q == Event(set, r, spent).question
           s == [r EXCEPT !.token = "none"]
           m == IF q.modelAbsent THEN NoModelKey ELSE q.model
<1>1. q = Fields(r)
  BY DEF Event
<1>2. m = r.model
  <2> DEFINE c == modelAbsent(r)
             n == IF r.model = NoModelKey THEN NoModel ELSE r.model
  <2>1. q = [agent |-> r.agent, chain |-> r.chain, org |-> r.org, tools |-> r.tools,
             domains |-> r.domains, steps |-> r.steps, cost |-> r.cost,
             attested |-> r.attested, source |-> r.source, proven |-> r.proven,
             model |-> n, modelAbsent |-> c, signals |-> r.signals, call |-> r.call]
    BY <1>1, Zenon DEF Fields
  <2>2. c <=> r.model = NoModelKey
    BY DEF modelAbsent
  <2> HIDE DEF q, c, n
  <2>3. q.modelAbsent = c /\ q.model = n
    BY <2>1
  <2>4. CASE r.model = NoModelKey
    <3>1. q.modelAbsent
      BY <2>2, <2>3, <2>4, Zenon
    <3> QED BY <2>4, <3>1, Zenon
  <2>5. CASE r.model # NoModelKey
    <3>1. ~q.modelAbsent
      BY <2>2, <2>3, <2>5, Zenon
    <3> QED BY <2>3, <2>5, <3>1, Zenon DEF n
  <2> QED BY <2>4, <2>5
<1>3. /\ q.agent = r.agent /\ q.chain = r.chain /\ q.org = r.org /\ q.tools = r.tools
      /\ q.domains = r.domains /\ q.steps = r.steps /\ q.cost = r.cost
      /\ q.attested = r.attested /\ q.source = r.source /\ q.proven = r.proven
      /\ q.signals = r.signals /\ q.call = r.call
  BY <1>1 DEF Fields
<1>4. Question(Event(set, r, spent)) =
        [agent |-> q.agent, chain |-> q.chain, org |-> q.org, tools |-> q.tools,
         domains |-> q.domains, steps |-> q.steps, cost |-> q.cost,
         attested |-> q.attested, source |-> q.source, proven |-> q.proven,
         model |-> m, signals |-> q.signals, call |-> q.call, token |-> "none"]
  BY Zenon DEF Question
<1> HIDE DEF q, m
<1>5. s = [agent |-> r.agent, chain |-> r.chain, org |-> r.org, tools |-> r.tools,
           domains |-> r.domains, steps |-> r.steps, cost |-> r.cost,
           attested |-> r.attested, source |-> r.source, proven |-> r.proven,
           model |-> r.model, signals |-> r.signals, call |-> r.call, token |-> "none"]
  BY SMT DEF RequestFields
<1> QED BY <1>2, <1>3, <1>4, <1>5

\* A decision on the record, asked again of the set that made it with no token, is
\* never found to part from it, and is compared against what the set says with no
\* token (question, replayOne).
THEOREM ReplayIsFaithful == Spec => []ReplayReproduces
<1>1. ASSUME IInv PROVE ReplayReproduces
  <2> DEFINE s == [req EXCEPT !.token = "none"]
             again == Decide(policies, s)
             ev(spent) == Event(policies, req, spent)
             row(spent) == ReplayOne(ev(spent))
  <2> SUFFICES ASSUME req # NoRequest, NEW spent \in SpentOrNot(answer)
               PROVE  /\ row(spent).fidelity # "diverged"
                      /\ row(spent).baseline = again.decision
    BY DEF ReplayReproduces
  <2>1. answer = Decide(policies, req) /\ DOMAIN req = RequestFields
    BY <1>1, FieldsAssumption DEF IInv, TypeOK
  <2>2. Question(ev(spent)) = s
    BY <2>1, QuestionIsKept
  <2>3. /\ ev(spent).version = policies
        /\ ev(spent).verdict = IF spent THEN "hold" ELSE answer.decision
        /\ ev(spent).reason = IF spent THEN ReasonApprovalSpent ELSE Reason(policies, req)
        /\ ev(spent).tokenRequired = answer.tokenRequired
    BY <2>1 DEF Event
  <2>4. /\ answer.tokenRequired = again.tokenRequired
        /\ answer.tokenRequired \in BOOLEAN
        /\ answer.tokenRequired => again.decision = "hold"
        /\ ~answer.tokenRequired => again.decision = answer.decision
    <3>1. /\ s.token = "none"
          /\ Refused(policies, s) <=> Refused(policies, req)
          /\ AtCost(policies, s) <=> AtCost(policies, req)
          /\ AtSignal(policies, s) <=> AtSignal(policies, req)
          /\ AtFloor(policies, s) <=> AtFloor(policies, req)
          /\ AtEnd(policies, s) <=> AtEnd(policies, req)
      BY <2>1, OnlyGatesReadTokens
    <3> HIDE DEF s
    <3>2. ~Verify(s, BindsAtCost(policies, s)) /\ ~Verify(s, BindsAtSignal(policies, s))
      BY <3>1 DEF Verify, VerifyForCall, VerifyBoundToCall
    <3>3. CASE Refused(policies, req)
      BY <2>1, <3>1, <3>3, AnswersOf
    <3>4. CASE AtCost(policies, req)
      BY <2>1, <3>1, <3>2, <3>4, AnswersOf
    <3>5. CASE AtSignal(policies, req)
      BY <2>1, <3>1, <3>2, <3>5, AnswersOf
    <3>6. CASE AtFloor(policies, req)
      BY <2>1, <3>1, <3>6, AnswersOf
    <3>7. CASE AtEnd(policies, req)
      BY <2>1, <3>1, <3>7, AnswersOf
    <3> QED BY <3>3, <3>4, <3>5, <3>6, <3>7, OneRuleAnswers
  <2>5. RuleOf(policies, s) = RuleOf(policies, req)
    BY <2>1, RuleReadsNoToken
  <2>6. answer.decision \in {"allow", "deny", "hold"}
    BY <2>1, AnswersAreAnswers DEF Answers
  <2>7. row(spent) =
          IF again.decision = ev(spent).verdict /\ Reason(policies, s) = ev(spent).reason
            THEN [fidelity |-> "reproduced", baseline |-> ev(spent).verdict]
          ELSE IF TokenMadeIt(ev(spent)) /\ again.decision = "hold" /\ again.tokenRequired
            THEN [fidelity |-> "approval", baseline |-> "hold"]
          ELSE [fidelity |-> "diverged", baseline |-> ev(spent).verdict]
    BY <2>2, <2>3, Zenon DEF ReplayOne
  <2>8. Reason(policies, s) = <<RuleOf(policies, s), Phrase(again)>>
        /\ Reason(policies, req) = <<RuleOf(policies, req), Phrase(answer)>>
    BY <2>1, Zenon DEF Reason
  <2> HIDE DEF ev, s, again, row
  <2>9. \/ again.decision = ev(spent).verdict /\ Reason(policies, s) = ev(spent).reason
        \/ TokenMadeIt(ev(spent)) /\ again.decision = "hold" /\ again.tokenRequired
    <3>1. CASE spent
      <4>1. answer.decision = "allow" /\ answer.tokenRequired
        BY <3>1 DEF SpentOrNot
      <4> QED BY <2>3, <2>4, <3>1, <4>1 DEF TokenMadeIt
    <3>2. CASE ~spent /\ again.decision = answer.decision
      <4>1. Phrase(again) = Phrase(answer)
        BY <2>4, <3>2, Zenon DEF Phrase
      <4> QED BY <2>3, <2>5, <2>8, <3>2, <4>1
    <3>3. CASE ~spent /\ again.decision # answer.decision
      <4>1. answer.tokenRequired /\ again.tokenRequired /\ again.decision = "hold"
        BY <2>4, <3>3
      <4>2. CASE answer.decision = "allow"
        BY <2>3, <3>3, <4>1, <4>2 DEF TokenMadeIt
      <4>3. CASE answer.decision = "deny"
        <5>1. Phrase(answer) = "ReasonApprovalRefused"
          BY <4>1, <4>3 DEF Phrase
        <5>2. ev(spent).reason[2] = "ReasonApprovalRefused"
          BY <2>3, <2>8, <3>3, <5>1
        <5> QED BY <2>3, <3>3, <4>1, <4>3, <5>2 DEF TokenMadeIt
      <4> QED BY <2>6, <3>3, <4>1, <4>2, <4>3
    <3> QED BY <3>1, <3>2, <3>3
  <2>10. CASE again.decision = ev(spent).verdict /\ Reason(policies, s) = ev(spent).reason
    BY <2>7, <2>10
  <2>11. CASE ~(again.decision = ev(spent).verdict /\ Reason(policies, s) = ev(spent).reason)
    BY <2>7, <2>9, <2>11
  <2> QED BY <2>10, <2>11
<1> QED BY <1>1, Invariance, PTL

-----------------------------------------------------------------------------

LEMMA GrantsOnlyGrant ==
    ASSUME NEW set, NEW r, NEW ts
    PROVE  LET g == Grant(r.agent, ts)
               M == MatchIn(set, r)
               N == MatchIn(set \cup {g}, r)
           IN /\ Refused(set \cup {g}, r) <=> Refused(set, r)
              /\ overThreshold(N, r) <=> overThreshold(M, r)
              /\ heldBySignal(N, r) <=> heldBySignal(M, r)
              /\ \A t : toolGranted(N, t) <=>
                         \/ toolGranted(M, t)
                         \/ containsFold(ts, t) \/ containsFold(ts, AllTools)
              /\ (\E p \in M : p.floor) => \E p \in N : p.floor
<1> DEFINE g == Grant(r.agent, ts)
           M == MatchIn(set, r)
           N == MatchIn(set \cup {g}, r)
<1>1. /\ g.target = {r.agent} /\ g.org = NoOrg /\ g.pins = TRUE
      /\ g.denyTool = {} /\ g.allowTool = {} /\ g.grantTool = ts /\ g.floor = FALSE
      /\ g.maxChainDepth = 0 /\ g.roots = {} /\ g.denyIfUnproven = FALSE
      /\ g.denyIfUnattested = FALSE /\ g.sources = {} /\ g.models = {} /\ g.maxSteps = 0
      /\ g.domains = {} /\ g.denyAbove = NoLimit /\ g.humanAbove = NoLimit
      /\ g.signal = NoRule
  BY SMT DEF Grant
<1> HIDE DEF g
<1>2. N = M \cup {g}
  BY <1>1 DEF MatchIn
<1> HIDE DEF M, N
<1>3. chainDepthExceeded(N, r) <=> chainDepthExceeded(M, r)
  BY <1>1, <1>2 DEF chainDepthExceeded
<1>4. rootPrincipalRefused(N, r) <=> rootPrincipalRefused(M, r)
  BY <1>1, <1>2 DEF rootPrincipalRefused
<1>5. chainUnproven(N, r) <=> chainUnproven(M, r)
  BY <1>1, <1>2 DEF chainUnproven
<1>6. unattestedDenied(N, r) <=> unattestedDenied(M, r)
  BY <1>1, <1>2 DEF unattestedDenied
<1>7. identitySourceRefused(N, r) <=> identitySourceRefused(M, r)
  BY <1>1, <1>2 DEF identitySourceRefused
<1>8. modelRefused(N, r) <=> modelRefused(M, r)
  BY <1>1, <1>2 DEF modelRefused
<1>9. exceededMaxSteps(N, r) <=> exceededMaxSteps(M, r)
  BY <1>1, <1>2 DEF exceededMaxSteps
<1>10. deniedDomain(N, r) <=> deniedDomain(M, r)
  BY <1>1, <1>2 DEF deniedDomain
<1>11. deniedAboveCeiling(N, r) <=> deniedAboveCeiling(M, r)
  BY <1>1, <1>2 DEF deniedAboveCeiling
<1>2a. \A t : /\ toolDenied(N, t) <=> toolDenied(M, t)
              /\ allowToolRefused(N, t) <=> allowToolRefused(M, t)
  BY <1>1, <1>2, EmptyNamesNone DEF toolDenied, allowToolRefused
<1>12. deniedTool(N, r) <=> deniedTool(M, r)
  BY <1>2a DEF deniedTool
<1>13. outsideAllowTool(N, r) <=> outsideAllowTool(M, r)
  BY <1>2a DEF outsideAllowTool
<1>14. Denied(N, r) <=> Denied(M, r)
  BY <1>3, <1>4, <1>5, <1>6, <1>7, <1>8, <1>9, <1>10, <1>11, <1>12, <1>13, Zenon DEF Denied
<1>15. overThreshold(N, r) <=> overThreshold(M, r)
  BY <1>1, <1>2 DEF overThreshold
<1>16. heldBySignal(N, r) <=> heldBySignal(M, r)
  BY <1>1, <1>2 DEF heldBySignal, holdsOnSignal, holdsOnAbsence
<1>17. \A t : toolGranted(N, t) <=>
               \/ toolGranted(M, t)
               \/ containsFold(ts, t) \/ containsFold(ts, AllTools)
  BY <1>1, <1>2, EmptyNamesNone DEF toolGranted
<1>18. Refused(set \cup {g}, r) <=> Refused(set, r)
  BY <1>14, Zenon DEF Refused, M, N
<1> QED BY <1>2, <1>15, <1>16, <1>17, <1>18, Zenon DEF M, N, g

\* What grants no tool leaves the floor where it is: no policy that compiles and
\* matches an agent with no trust domain in its id pins one.
LEMMA NoGrantReaches ==
    ASSUME NEW set, NEW r, r.agent \notin Pinnable, NEW p, Compiles(p),
           heldWithoutGrant(MatchIn(set, r), r)
    PROVE  heldWithoutGrant(MatchIn(set \cup {p}, r), r)
<1> DEFINE M == MatchIn(set, r)
           N == MatchIn(set \cup {p}, r)
<1>1. p \in N => ~p.pins
  BY DEF Compiles, MatchIn
<1>2. M \subseteq N /\ N \subseteq M \cup {p}
  BY DEF MatchIn
<1> HIDE DEF M, N
<1>3. \A t : toolGranted(N, t) => toolGranted(M, t)
  BY <1>1, <1>2 DEF toolGranted
<1>4. \A q \in M : q.floor => \E o \in N : o.floor
  BY <1>2
<1>5. heldWithoutGrant(M, r) => heldWithoutGrant(N, r)
  BY <1>3, <1>4, FloorsReach
<1> QED BY <1>5 DEF M, N

\* Granting what replay lists, in whatever spelling, is what lets a request of the
\* floor pass, and nothing less is; and a request of an agent that no grant can name
\* passes under no policy put beside those in force (Engine.Ungranted, reason).
THEOREM UngrantedToolsSuffice == Spec => []UngrantedSuffices
<1>1. ASSUME IInv PROVE UngrantedSuffices
  <2> DEFINE asked == [req EXCEPT !.token = "none"]
             tools == Ungranted(policies, asked)
             M     == MatchIn(policies, asked)
             more(ts) == policies \cup {Grant(req.agent, ts)}
             Covers(ts) == \/ \A t \in tools : containsFold(ts, t)
                           \/ containsFold(ts, AllTools)
  <2> SUFFICES ASSUME req # NoRequest, Decide(policies, asked).noGrant
               PROVE  /\ \A ts : IF Covers(ts)
                                  THEN Decide(more(ts), asked).decision = "allow"
                                  ELSE Decide(more(ts), asked).noGrant
                      /\ req.agent \notin Pinnable =>
                           \A p : Compiles(p) =>
                              Decide(policies \cup {p}, asked).decision # "allow"
    BY Zenon DEF UngrantedSuffices
  <2>1. DOMAIN req = RequestFields
    BY <1>1, FieldsAssumption DEF IInv, TypeOK
  <2>2. asked.agent = req.agent /\ asked.token = "none"
    BY <2>1, TokenTaken
  <2> HIDE DEF asked
  <2>3. AtFloor(policies, asked)
    BY AnswersOf, OneRuleAnswers
  <2>4. /\ heldWithoutGrant(M, asked)
        /\ tools = {t \in requestedTools(asked) : ~toolGranted(M, t)}
    BY <2>3 DEF AtFloor, Ungranted
  <2>5. \E p \in M : p.floor /\ asked.call # NoCall
    BY <2>4 DEF heldWithoutGrant
  <2> HIDE DEF M, tools
  <2>6. ASSUME NEW ts
        PROVE  IF Covers(ts) THEN AtEnd(more(ts), asked) ELSE AtFloor(more(ts), asked)
    <3> DEFINE N == MatchIn(more(ts), asked)
    <3>1. /\ Refused(more(ts), asked) <=> Refused(policies, asked)
          /\ overThreshold(N, asked) <=> overThreshold(M, asked)
          /\ heldBySignal(N, asked) <=> heldBySignal(M, asked)
          /\ \A t : toolGranted(N, t) <=>
                     \/ toolGranted(M, t)
                     \/ containsFold(ts, t) \/ containsFold(ts, AllTools)
          /\ (\E p \in M : p.floor) => \E p \in N : p.floor
      <4> DEFINE o == policies \cup {Grant(asked.agent, ts)}
                 K == MatchIn(o, asked)
      <4>1. o = more(ts)
        BY <2>2
      <4>2. /\ Refused(o, asked) <=> Refused(policies, asked)
            /\ overThreshold(K, asked) <=> overThreshold(M, asked)
            /\ heldBySignal(K, asked) <=> heldBySignal(M, asked)
            /\ \A t : toolGranted(K, t) <=>
                       \/ toolGranted(M, t)
                       \/ containsFold(ts, t) \/ containsFold(ts, AllTools)
            /\ (\E p \in M : p.floor) => \E p \in K : p.floor
        BY GrantsOnlyGrant, Zenon DEF M
      <4> HIDE DEF o, more
      <4> QED BY <4>1, <4>2
    <3> HIDE DEF N
    <3>2. heldWithoutGrant(N, asked) <=>
            \E t \in requestedTools(asked) : ~toolGranted(N, t)
      BY <2>5, <3>1, Zenon DEF heldWithoutGrant
    <3>3. heldWithoutGrant(N, asked) <=> ~Covers(ts)
      BY <2>4, <3>1, <3>2, Zenon
    <3>4. /\ AtFloor(more(ts), asked) <=> heldWithoutGrant(N, asked)
          /\ AtEnd(more(ts), asked) <=> ~heldWithoutGrant(N, asked)
      BY <2>3, <3>1, Zenon DEF AtFloor, AtEnd, M, N
    <3> HIDE DEF more, Covers
    <3> QED BY <3>3, <3>4, Zenon
  <2>7. ASSUME NEW ts
        PROVE  IF Covers(ts) THEN Decide(more(ts), asked).decision = "allow"
               ELSE Decide(more(ts), asked).noGrant
    <3> HIDE DEF more, Covers
    <3>1. /\ AtEnd(more(ts), asked) => Decide(more(ts), asked).decision = "allow"
          /\ AtFloor(more(ts), asked) => Decide(more(ts), asked).noGrant
      BY AnswersOf
    <3> QED BY <2>6, <3>1, Zenon
  <2>8. ASSUME req.agent \notin Pinnable, NEW p, Compiles(p)
        PROVE  Decide(policies \cup {p}, asked).decision # "allow"
    <3> DEFINE set == policies \cup {p}
    <3>1. heldWithoutGrant(MatchIn(set, asked), asked)
      BY <2>2, <2>4, <2>8, NoGrantReaches DEF M
    <3> HIDE DEF set
    <3>2. ~AtEnd(set, asked)
      BY <3>1 DEF AtEnd
    <3>3. ~VerifyForCall(asked) /\ ~VerifyBoundToCall(asked)
      BY <2>2 DEF VerifyForCall, VerifyBoundToCall
    <3>4. \A b : ~Verify(asked, b)
      BY <3>3, Zenon DEF Verify
    <3>5. CASE Refused(set, asked)
      BY <3>5, AnswersOf DEF set
    <3>6. CASE AtCost(set, asked)
      BY <2>2, <3>4, <3>6, AnswersOf DEF set
    <3>7. CASE AtSignal(set, asked)
      BY <3>4, <3>7, AnswersOf DEF set
    <3>8. CASE AtFloor(set, asked)
      BY <2>2, <3>8, AnswersOf DEF set
    <3> QED BY <3>2, <3>5, <3>6, <3>7, <3>8, OneRuleAnswers
  <2> QED BY <2>7, <2>8
<1> QED BY <1>1, Invariance, PTL

=============================================================================
