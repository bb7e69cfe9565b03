-------------------------- MODULE ApprovalsProofs --------------------------
(***************************************************************************)
(* Proofs about Approvals, for every number of requests, admins, approvals *)
(* and tokens, every set of request bodies and every combination of        *)
(* faults: what a release rests on, how often a grant releases, the        *)
(* contract, the queue of approvals and the record of the answers; and     *)
(* about DecidePath, for every set of policies, that Approvals behind the  *)
(* engine of PdpRules is Approvals still, and what an allow rests on then. *)
(* What is said of Spec uses nothing of DecidePath.                        *)
(***************************************************************************)
EXTENDS DecidePath, TLAPS, FiniteSetTheorems

-----------------------------------------------------------------------------
(* The inductive invariant, part by part *)

\* A row that is there was written for a request.
RowsHaveAsks == \A i \in Ids : row[i].state # "absent" => row[i].ask \in Asks

\* A signed token carries what its approval was held for.
TokensMatchRows ==
    \A t \in Tokens : minted[t] # NoClaims =>
        /\ row[minted[t].id].state # "absent"
        /\ minted[t].ask = row[minted[t].id].ask

\* What a decision handler knows at each of its steps.
DecisionsInOrder ==
    \A a \in Admins :
        /\ adm[a].pc # "idle" =>
             adm[a].id \in Ids /\ row[adm[a].id].state # "absent"
        /\ adm[a].pc \in {"read", "mint"} =>
             adm[a].decision = "grant" /\ adm[a].tok = NoToken
        /\ adm[a].pc = "reply" => row[adm[a].id].state = adm[a].decision
        /\ adm[a].pc \in {"write", "reply"} /\ adm[a].decision = "grant" =>
             adm[a].tok # NoToken
        /\ adm[a].tok # NoToken =>
             /\ adm[a].pc \in {"write", "reply"} /\ adm[a].decision = "grant"
             /\ minted[adm[a].tok] # NoClaims
             /\ minted[adm[a].tok].id = adm[a].id
             /\ adm[a].tok \notin delivered

\* A token that has not left is in the hands of one handler.
OneHandlerPerToken ==
    \A a, b \in Admins :
        adm[a].tok # NoToken /\ adm[a].tok = adm[b].tok => a = b

\* A token that has left is of an approval that was granted.
DeliveredAreGranted ==
    \A t \in delivered :
        minted[t] # NoClaims /\ row[minted[t].id].state \in {"grant", "lost"}

\* What a /v1/decide handler knows at each of its steps.
InOrder(x) ==
    /\ x.tok # NoToken => x.tok \in delivered
    /\ x.pc = "hold" => x.ask \in Asks
    /\ x.pc = "redeem" => x.verdict = "allow" /\ x.gate \in HoldGates
    /\ x.pc \in {"redeem", "record", "answer"}
       /\ x.verdict = "allow" /\ x.gate \in HoldGates =>
         /\ x.tok # NoToken /\ x.text \in Texts
         /\ x.ask \in Asks
         /\ Approves(minted[x.tok].ask, x.ask, x.gate)

RequestsInOrder == \A r \in Requests : InOrder(req[r])

Structure ==
    /\ TypeOK /\ RowsHaveAsks /\ TokensMatchRows
    /\ DecisionsInOrder /\ OneHandlerPerToken /\ DeliveredAreGranted
    /\ RequestsInOrder

-----------------------------------------------------------------------------

\* A server that has served nothing satisfies every part of Structure.
LEMMA InitStructure == Init => Structure
  BY ConstantsAssumption
  DEF Init, Structure, TypeOK, RowsHaveAsks, TokensMatchRows, DecisionsInOrder,
      OneHandlerPerToken, DeliveredAreGranted, RequestsInOrder, InOrder, ByToken, Row, RowStates, Claims, ReqSlot,
      ReqPCs, AdmSlot, AdmPCs, IdleReq, IdleAdm, NoRow

\* The slot a request enters when it is asked.
LEMMA AskedSlot ==
    ASSUME TypeOK, NEW r \in Requests, Ask(r)
    PROVE  \E x \in ReqSlot : req' = [req EXCEPT ![r] = x]
<1>1. PICK ask \in Asks, t \in delivered \cup {NoToken},
           text \in Texts, gate \in Gates :
        req' = [req EXCEPT ![r] =
                  IF Verdict(ask, t, gate) = "deny" \/ gate = "free"
                    THEN Answering(After(Verdict(ask, t, gate), gate),
                                   Verdict(ask, t, gate))
                    ELSE [pc |-> After(Verdict(ask, t, gate), gate), ask |-> ask,
                          tok |-> t, text |-> TextOf(Verdict(ask, t, gate), text),
                          gate |-> gate,
                          verdict |-> Verdict(ask, t, gate), logged |-> FALSE]]
  BY DEF Ask
<1>2. Verdict(ask, t, gate) \in {"allow", "deny", "hold"}
  BY DEF Verdict
<1>3. After(Verdict(ask, t, gate), gate) \in ReqPCs
  BY DEF After, ReqPCs
<1>4. t \in Tokens \cup {NoToken}
  BY DEF TypeOK
<1> DEFINE x == IF Verdict(ask, t, gate) = "deny" \/ gate = "free"
                  THEN Answering(After(Verdict(ask, t, gate), gate),
                                 Verdict(ask, t, gate))
                  ELSE [pc |-> After(Verdict(ask, t, gate), gate), ask |-> ask,
                        tok |-> t, text |-> TextOf(Verdict(ask, t, gate), text),
                        gate |-> gate,
                        verdict |-> Verdict(ask, t, gate), logged |-> FALSE]
<1>5. TextOf(Verdict(ask, t, gate), text) \in Texts \cup {NoText}
  BY DEF TextOf
<1>6. x \in ReqSlot
  BY <1>2, <1>3, <1>4, <1>5 DEF Answering, IdleReq, ReqSlot
<1> QED
  BY <1>1, <1>6

\* The values the steps write are of the type of the slot or row they go to.
LEMMA WrittenTypes ==
    /\ IdleReq \in ReqSlot
    /\ Answering("record", "hold") \in ReqSlot
    /\ IdleAdm \in AdmSlot
    /\ \A ask \in Asks, once \in BOOLEAN : NewRow(ask, once) \in Row
  BY ConstantsAssumption
  DEF IdleReq, ReqSlot, ReqPCs, Answering, IdleAdm, AdmSlot, AdmPCs, NewRow, Row,
      RowStates

\* A decision writes a state a row can be in.
LEMMA DecidedRow ==
    ASSUME TypeOK, NEW a \in Admins, NEW i
    PROVE  [row EXCEPT ![i].state = adm[a].decision] \in [Ids -> Row]
<1>1. row \in [Ids -> Row] /\ adm[a].decision \in RowStates
  BY DEF TypeOK, RowStates, AdmSlot
<1>2. \A j \in Ids : [row[j] EXCEPT !.state = adm[a].decision] \in Row
  BY <1>1 DEF Row
<1> QED BY <1>1, <1>2

\* A decision goes from one step of its handler to the next.
LEMMA StepOfDecision ==
    ASSUME TypeOK, NEW a \in Admins, NEW pc \in AdmPCs
    PROVE  [adm EXCEPT ![a].pc = pc] \in [Admins -> AdmSlot]
<1>1. adm \in [Admins -> AdmSlot]
  BY DEF TypeOK
<1>2. adm[a] \in AdmSlot
  BY <1>1
<1>3. [adm[a] EXCEPT !.pc = pc] \in AdmSlot
  BY <1>2 DEF AdmSlot
<1> QED BY <1>1, <1>3

\* A row is written, and its request goes on to the record.
LEMMA WrittenRow ==
    ASSUME TypeOK, NEW i \in Ids, NEW x \in Row
    PROVE  [row EXCEPT ![i] = x] \in [Ids -> Row]
  BY DEF TypeOK

LEMMA HeldRequest ==
    ASSUME TypeOK, NEW r \in Requests, Held(r)
    PROVE  req' \in [Requests -> ReqSlot]
<1>1. req \in [Requests -> ReqSlot]
  BY DEF TypeOK
<1> QED BY <1>1, WrittenTypes DEF Held

\* It ends.
LEMMA EndOfDecision ==
    ASSUME TypeOK, NEW a \in Admins
    PROVE  [adm EXCEPT ![a] = IdleAdm] \in [Admins -> AdmSlot]
<1>1. adm \in [Admins -> AdmSlot]
  BY DEF TypeOK
<1> QED BY <1>1, WrittenTypes

\* Type correctness is preserved by each step; Mint needs to know that the row
\* it signs for holds a request.
LEMMA TypeStep ==
    ASSUME Structure, [Next]_vars
    PROVE  TypeOK'
<1>0. TypeOK /\ RowsHaveAsks /\ DecisionsInOrder /\ RequestsInOrder
  BY DEF Structure
<1>1. ASSUME NEW r \in Requests, Ask(r) PROVE TypeOK'
  <2>1. PICK x \in ReqSlot : req' = [req EXCEPT ![r] = x]
    BY <1>0, <1>1, AskedSlot
  <2> QED BY <1>0, <1>1, <2>1 DEF Ask, TypeOK
<1>2. ASSUME NEW r \in Requests, Redeem(r) PROVE TypeOK'
  <2>1. req[r] \in ReqSlot /\ RedemptionKey(r) \in Tokens \X Texts
    BY <1>0, <1>2 DEF TypeOK, RequestsInOrder, InOrder, Redeem, RedemptionKey
  <2>2. /\ [req[r] EXCEPT !.pc = "record"] \in ReqSlot
        /\ [req[r] EXCEPT !.pc = "hold", !.verdict = "hold", !.tok = NoToken,
                                !.text = NoText]
             \in ReqSlot
    BY <2>1 DEF ReqSlot, ReqPCs
  <2>3. req' \in [Requests -> ReqSlot]
    BY <1>0, <1>2, <2>2 DEF Redeem, TypeOK
  <2> QED BY <1>0, <1>2, <2>1, <2>3 DEF Redeem, TypeOK
<1>3. ASSUME NEW r \in Requests, RedeemFails(r) PROVE TypeOK'
  <2>1. RedemptionKey(r) \in Tokens \X Texts
    BY <1>0, <1>3 DEF TypeOK, RequestsInOrder, InOrder, RedeemFails, RedemptionKey
  <2> QED BY <1>0, <1>3, <2>1, WrittenTypes DEF RedeemFails, TypeOK
<1>4. ASSUME NEW r \in Requests, Request(r) PROVE TypeOK'
  <2>1. NewRow(req[r].ask, FALSE) \in Row
    BY <1>0, <1>4, WrittenTypes DEF Request, RequestsInOrder, InOrder
  <2>2. req' \in [Requests -> ReqSlot]
    BY <1>0, <1>4, HeldRequest DEF Request
  <2>3. row' \in [Ids -> Row]
    BY <1>0, <1>4, <2>1, WrittenRow DEF Request
  <2> QED BY <1>0, <1>4, <2>2, <2>3 DEF Request, TypeOK
<1>5. ASSUME NEW r \in Requests, RequestOnce(r) PROVE TypeOK'
  <2>1. NewRow(req[r].ask, TRUE) \in Row
    BY <1>0, <1>5, WrittenTypes DEF RequestOnce, RequestsInOrder, InOrder
  <2>2. row' \in [Ids -> Row]
    BY <1>0, <1>5, <2>1, WrittenRow DEF RequestOnce, TypeOK
  <2>3. req' \in [Requests -> ReqSlot]
    BY <1>0, <1>5, HeldRequest DEF RequestOnce
  <2> QED BY <1>0, <1>5, <2>2, <2>3 DEF RequestOnce, TypeOK
<1>6. ASSUME NEW r \in Requests, RequestFails(r) PROVE TypeOK'
  <2>1. NewRow(req[r].ask, req[r].gate = "floor") \in Row
    BY <1>0, <1>6, WrittenTypes DEF RequestFails, RequestsInOrder, InOrder
  <2> QED BY <1>0, <1>6, <2>1, WrittenTypes DEF RequestFails, TypeOK
<1>7. ASSUME NEW r \in Requests, Record(r) PROVE TypeOK'
  <2>1. req[r] \in ReqSlot
    BY <1>0 DEF TypeOK
  <2>2. /\ [req[r] EXCEPT !.pc = "answer"] \in ReqSlot
        /\ [req[r] EXCEPT !.pc = "answer", !.logged = TRUE] \in ReqSlot
    BY <2>1 DEF ReqSlot, ReqPCs
  <2>3. req' \in [Requests -> ReqSlot]
    BY <1>0, <1>7, <2>2, WrittenTypes DEF Record, TypeOK
  <2> QED BY <1>0, <1>7, <2>3 DEF Record, TypeOK
<1>8. ASSUME NEW r \in Requests, Answer(r) PROVE TypeOK'
  <2>1. req' \in [Requests -> ReqSlot]
    BY <1>0, <1>8, WrittenTypes DEF Answer, TypeOK
  <2>2. /\ req[r].verdict \in {"allow", "deny", "hold"}
        /\ req[r].ask \in Asks \cup {NoAsk}
    BY <1>0 DEF TypeOK, ReqSlot
  <2>3. \A c \in [n : 0..MaxAllows, ask : Asks \cup {NoAsk}] :
          [n   |-> IF c.n < MaxAllows THEN c.n + 1 ELSE c.n,
           ask |-> req[r].ask] \in [n : 0..MaxAllows, ask : Asks \cup {NoAsk}]
    BY <2>2, ConstantsAssumption
  <2>4. allows' \in [Ids \X Texts -> [n : 0..MaxAllows, ask : Asks \cup {NoAsk}]]
    BY <1>0, <1>8, <2>3 DEF Answer, TypeOK
  <2> QED BY <1>0, <1>8, <2>1, <2>2, <2>4 DEF Answer, TypeOK
<1>9. ASSUME NEW r \in Requests, CutRequest(r) PROVE TypeOK'
  BY <1>0, <1>9, WrittenTypes DEF CutRequest, TypeOK
<1>10. ASSUME NEW a \in Admins, Open(a) PROVE TypeOK'
  BY <1>0, <1>10 DEF TypeOK, Open, AdmSlot, AdmPCs
<1>11. ASSUME NEW a \in Admins, ReadRow(a) PROVE TypeOK'
  <2>1. adm' \in [Admins -> AdmSlot]
    <3>1. "mint" \in AdmPCs
      BY DEF AdmPCs
    <3>2. \/ adm' = [adm EXCEPT ![a].pc = "mint"]
          \/ adm' = [adm EXCEPT ![a] = IdleAdm]
      BY <1>11 DEF ReadRow
    <3> QED BY <1>0, <3>1, <3>2, StepOfDecision, EndOfDecision
  <2> QED BY <1>0, <1>11, <2>1 DEF ReadRow, TypeOK
<1>12. ASSUME NEW a \in Admins, Mint(a) PROVE TypeOK'
  <2>1. adm[a] \in AdmSlot /\ adm[a].id \in Ids /\ row[adm[a].id].ask \in Asks
    BY <1>0, <1>12 DEF TypeOK, RowsHaveAsks, DecisionsInOrder, Mint
  <2>2. [id |-> adm[a].id, ask |-> row[adm[a].id].ask, exp |-> now + TTL]
          \in Claims
    BY <1>0, <2>1, ConstantsAssumption DEF Claims, TypeOK
  <2>3. minted' \in [Tokens -> Claims \cup {NoClaims}]
    BY <1>0, <1>12, <2>2 DEF Mint, TypeOK
  <2>4. \A t \in Tokens : [adm[a] EXCEPT !.pc = "write", !.tok = t] \in AdmSlot
    BY <2>1 DEF AdmSlot, AdmPCs
  <2>5. adm' \in [Admins -> AdmSlot]
    <3>1. CASE \E t \in Tokens : adm' = [adm EXCEPT ![a].pc = "write", ![a].tok = t]
      BY <1>0, <2>4, <3>1 DEF TypeOK
    <3>2. CASE adm' = [adm EXCEPT ![a] = IdleAdm]
      BY <1>0, <3>2, EndOfDecision
    <3> QED BY <1>12, <3>1, <3>2 DEF Mint
  <2> QED BY <1>0, <1>12, <2>3, <2>5 DEF Mint, TypeOK
<1>13. ASSUME NEW a \in Admins, Decide(a) PROVE TypeOK'
  <2>1. adm' \in [Admins -> AdmSlot]
    <3>1. "reply" \in AdmPCs
      BY DEF AdmPCs
    <3>2. \/ adm' = [adm EXCEPT ![a].pc = "reply"]
          \/ adm' = [adm EXCEPT ![a] = IdleAdm]
      BY <1>13 DEF Decide
    <3> QED BY <1>0, <3>1, <3>2, StepOfDecision, EndOfDecision
  <2>2. row' \in [Ids -> Row]
    <3>1. row' = row \/ row' = [row EXCEPT ![adm[a].id].state = adm[a].decision]
      BY <1>13 DEF Decide
    <3>2. row \in [Ids -> Row]
      BY <1>0 DEF TypeOK
    <3> QED BY <1>0, <3>1, <3>2, DecidedRow
  <2> QED BY <1>0, <1>13, <2>1, <2>2 DEF Decide, TypeOK
<1>14. ASSUME NEW a \in Admins, DecideFails(a) PROVE TypeOK'
  BY <1>0, <1>14, WrittenTypes DEF DecideFails, TypeOK
<1>15. ASSUME NEW a \in Admins, ReadbackFails(a) PROVE TypeOK'
  <2>1. row' \in [Ids -> Row]
    BY <1>0, <1>15, DecidedRow DEF ReadbackFails
  <2> QED BY <1>0, <1>15, <2>1, WrittenTypes DEF ReadbackFails, TypeOK
<1>16. ASSUME NEW a \in Admins, Reply(a) PROVE TypeOK'
  <2>1. adm[a].decision = "grant" => adm[a].tok \in Tokens
    BY <1>0, <1>16 DEF TypeOK, DecisionsInOrder, Reply, AdmSlot
  <2> QED BY <1>0, <1>16, <2>1, WrittenTypes DEF Reply, TypeOK
<1>17. ASSUME NEW a \in Admins, CutDecision(a) PROVE TypeOK'
  BY <1>0, <1>17, WrittenTypes DEF CutDecision, TypeOK
<1>18. CASE Tick
  BY <1>0, <1>18, ConstantsAssumption DEF TypeOK, Tick
<1>19. CASE Restart
  <2>1. row' \in [Ids -> Row]
    <3>1. \A i \in Ids : row[i] \in Row /\ [row[i] EXCEPT !.state = "lost"] \in Row
      <4>1. \A i \in Ids : row[i] \in Row
        BY <1>0 DEF TypeOK
      <4>2. \A w \in Row : [w EXCEPT !.state = "lost"] \in Row
        BY DEF Row, RowStates
      <4> QED BY <4>1, <4>2
    <3>2. CASE row' = row
      BY <1>0, <3>2 DEF TypeOK
    <3>3. CASE row' = [i \in Ids |-> IF row[i].state = "absent" THEN row[i]
                                     ELSE [row[i] EXCEPT !.state = "lost"]]
      BY <3>1, <3>3
    <3> QED BY <1>19, <3>2, <3>3 DEF Restart
  <2> QED BY <1>0, <1>19, <2>1, WrittenTypes DEF Restart, TypeOK
<1>20. CASE UNCHANGED vars
  BY <1>0, <1>20 DEF TypeOK, vars
<1> QED
  BY <1>1, <1>2, <1>3, <1>4, <1>5, <1>6, <1>7, <1>8, <1>9, <1>10, <1>11, <1>12,
     <1>13, <1>14, <1>15, <1>16, <1>17, <1>18, <1>19, <1>20
  DEF Next, RequestStep, DecisionStep

-----------------------------------------------------------------------------
(* What a step can do to the rows, to the tokens and to what was handed out *)

\* A row keeps its request for good, and its decision too unless a restart
\* loses the row.
LEMMA RowStep ==
    ASSUME Structure, [Next]_vars, NEW i \in Ids
    PROVE  /\ row[i].state # "absent" =>
                row'[i].state # "absent" /\ row'[i].ask = row[i].ask
           /\ row[i].state \notin {"absent", "pending"} =>
                \/ row'[i].state = row[i].state
                \/ Restart /\ row'[i].state = "lost"
           /\ row'[i].state # "absent" => row'[i].ask \in Asks
<1> DEFINE Goal ==
        /\ row[i].state # "absent" =>
             row'[i].state # "absent" /\ row'[i].ask = row[i].ask
        /\ row[i].state \notin {"absent", "pending"} =>
             \/ row'[i].state = row[i].state
             \/ Restart /\ row'[i].state = "lost"
        /\ row'[i].state # "absent" => row'[i].ask \in Asks
<1>0. /\ row \in [Ids -> Row]
      /\ row[i].state # "absent" => row[i].ask \in Asks
  BY DEF Structure, TypeOK, RowsHaveAsks
<1>1. CASE row' = row
  BY <1>0, <1>1
<1>2. ASSUME NEW j \in Ids, NEW ask \in Asks, NEW once \in BOOLEAN,
             row[j].state = "absent",
             row' = [row EXCEPT ![j] = NewRow(ask, once)]
      PROVE  Goal
  BY <1>0, <1>2 DEF NewRow
<1>3. ASSUME NEW r \in Requests, Request(r) \/ RequestOnce(r) \/ RequestFails(r)
      PROVE  Goal
  <2>1. req[r].ask \in Asks
    BY <1>3 DEF Structure, RequestsInOrder, InOrder, Request, RequestOnce, RequestFails
  <2>2. CASE Request(r)
    BY <2>1, <2>2, <1>2 DEF Request
  <2>3. CASE RequestOnce(r)
    BY <2>1, <2>3, <1>1, <1>2 DEF RequestOnce
  <2>4. CASE RequestFails(r)
    BY <2>1, <2>4, <1>1, <1>2 DEF RequestFails
  <2> QED BY <1>3, <2>2, <2>3, <2>4
<1>4. ASSUME NEW a \in Admins, Decide(a) \/ ReadbackFails(a)
      PROVE  Goal
  <2>1. adm[a].id \in Ids /\ adm[a].decision \in {"grant", "deny"}
    BY <1>4 DEF Structure, TypeOK, AdmSlot, DecisionsInOrder, Decide, ReadbackFails
  <2>2. CASE row[adm[a].id].state = "pending"
             /\ row' = [row EXCEPT ![adm[a].id].state = adm[a].decision]
    BY <1>0, <2>1, <2>2 DEF Row
  <2> QED BY <1>1, <1>4, <2>2 DEF Decide, ReadbackFails
<1>5. CASE Restart
  BY <1>0, <1>5 DEF Restart, Row
<1>6. row' = row \/ Restart
      \/ (\E r \in Requests : Request(r) \/ RequestOnce(r) \/ RequestFails(r))
      \/ (\E a \in Admins : Decide(a) \/ ReadbackFails(a))
  BY DEF Next, vars, RequestStep, DecisionStep, Ask, Redeem, RedeemFails, Record,
         Answer, CutRequest, Open, ReadRow, Mint, DecideFails, Reply,
         CutDecision, Tick
<1> QED BY <1>1, <1>3, <1>4, <1>5, <1>6

\* A signed token stays what it is; a new one is signed by one handler, for the
\* row it read, and changes neither rows nor requests.
LEMMA MintingStep ==
    ASSUME Structure, [Next]_vars, NEW t \in Tokens
    PROVE  \/ minted'[t] = minted[t]
           \/ /\ minted[t] = NoClaims
              /\ row' = row
              /\ \E a \in Admins :
                   /\ adm[a].pc = "mint"
                   /\ minted'[t] = [id |-> adm[a].id, ask |-> row[adm[a].id].ask,
                                    exp |-> now + TTL]
<1>1. CASE \E a \in Admins : Mint(a)
  BY <1>1 DEF Mint, Structure, TypeOK
<1>2. minted' = minted \/ \E a \in Admins : Mint(a)
  BY DEF Next, vars, RequestStep, DecisionStep, Ask, Redeem, RedeemFails, Request,
         RequestOnce, RequestFails, Record, Answer, CutRequest, Open, ReadRow,
         Decide, DecideFails, ReadbackFails, Reply, CutDecision, Tick, Restart
<1> QED BY <1>1, <1>2

\* A token leaves with the answer of the grant it was signed for.
LEMMA DeliveringStep ==
    ASSUME Structure, [Next]_vars
    PROVE  \/ delivered' = delivered
           \/ \E a \in Admins :
                /\ adm[a].pc = "reply" /\ adm[a].decision = "grant"
                /\ delivered' = delivered \cup {adm[a].tok}
                /\ adm' = [adm EXCEPT ![a] = IdleAdm]
                /\ row' = row /\ minted' = minted
<1>1. CASE \E a \in Admins : Reply(a)
  BY <1>1 DEF Reply
<1>2. delivered' = delivered \/ \E a \in Admins : Reply(a)
  BY DEF Next, vars, RequestStep, DecisionStep, Ask, Redeem, RedeemFails, Request,
         RequestOnce, RequestFails, Record, Answer, CutRequest, Open, ReadRow,
         Mint, Decide, DecideFails, ReadbackFails, CutDecision, Tick, Restart
<1> QED BY <1>1, <1>2

-----------------------------------------------------------------------------
(* The parts of the invariant that follow from these three *)

\* A step signs a token for the row it read, and no step changes the row a token
\* was signed for: what DecideWith signs stays what the person decided.
LEMMA TokensStep ==
    ASSUME Structure, [Next]_vars
    PROVE  TokensMatchRows'
<1>1. SUFFICES ASSUME NEW t \in Tokens, minted'[t] # NoClaims
               PROVE  /\ row'[minted'[t].id].state # "absent"
                      /\ minted'[t].ask = row'[minted'[t].id].ask
  BY DEF TokensMatchRows
<1>2. CASE minted'[t] = minted[t]
  <2>1. minted[t] # NoClaims /\ minted[t].id \in Ids
    BY <1>1, <1>2 DEF Structure, TypeOK, Claims
  <2>2. row[minted[t].id].state # "absent" /\ minted[t].ask = row[minted[t].id].ask
    BY <2>1 DEF Structure, TokensMatchRows
  <2> QED BY <1>2, <2>1, <2>2, RowStep
<1>3. ASSUME NEW a \in Admins, adm[a].pc = "mint", row' = row,
             minted'[t] = [id |-> adm[a].id, ask |-> row[adm[a].id].ask,
                           exp |-> now + TTL]
      PROVE  /\ row'[minted'[t].id].state # "absent"
             /\ minted'[t].ask = row'[minted'[t].id].ask
  BY <1>3 DEF Structure, DecisionsInOrder
<1> QED BY <1>2, <1>3, MintingStep

\* A token leaves with the answer of a grant, and a granted row is never decided
\* again, so what was handed out stays granted.
LEMMA DeliveredStep ==
    ASSUME Structure, [Next]_vars
    PROVE  DeliveredAreGranted'
<1>1. SUFFICES ASSUME NEW t \in delivered'
               PROVE  /\ minted'[t] # NoClaims
                      /\ row'[minted'[t].id].state \in {"grant", "lost"}
  BY DEF DeliveredAreGranted
<1>2. CASE t \in delivered
  <2>1. /\ t \in Tokens /\ minted[t] # NoClaims
        /\ row[minted[t].id].state \in {"grant", "lost"}
    BY <1>2 DEF Structure, TypeOK, DeliveredAreGranted
  <2>2. minted[t].id \in Ids
    BY <2>1 DEF Structure, TypeOK, Claims
  <2>3. minted'[t] = minted[t]
    BY <2>1, MintingStep
  <2> QED BY <2>1, <2>2, <2>3, RowStep
<1>3. ASSUME NEW a \in Admins, adm[a].pc = "reply", adm[a].decision = "grant",
             t = adm[a].tok, row' = row, minted' = minted
      PROVE  /\ minted'[t] # NoClaims
             /\ row'[minted'[t].id].state \in {"grant", "lost"}
  BY <1>3 DEF Structure, DecisionsInOrder
<1> QED BY <1>1, <1>2, <1>3, DeliveringStep

\* What was handed out before the step is signed, and stays what it is.
LEMMA DeliveredKept ==
    ASSUME Structure, [Next]_vars, NEW t \in delivered
    PROVE  t \in Tokens /\ t \in delivered' /\ minted'[t] = minted[t]
<1>1. t \in Tokens /\ minted[t] # NoClaims
  BY DEF Structure, TypeOK, DeliveredAreGranted
<1> QED BY <1>1, MintingStep, DeliveringStep

\* A handler that has just decided knows what its gate and its token imply.
LEMMA AskedInOrder ==
    ASSUME Structure, NEW r \in Requests, Ask(r)
    PROVE  InOrder(req'[r]) /\ \A s \in Requests \ {r} : req'[s] = req[s]
<1>0. req \in [Requests -> ReqSlot] /\ NoToken \notin Tokens
  BY ConstantsAssumption DEF Structure, TypeOK
<1>1. PICK ask \in Asks, t \in delivered \cup {NoToken},
           text \in Texts, gate \in Gates :
        /\ CanMeet(ask, t, gate)
        /\ req' = [req EXCEPT ![r] =
                  IF Verdict(ask, t, gate) = "deny" \/ gate = "free"
                    THEN Answering(After(Verdict(ask, t, gate), gate),
                                   Verdict(ask, t, gate))
                    ELSE [pc |-> After(Verdict(ask, t, gate), gate), ask |-> ask,
                          tok |-> t, text |-> TextOf(Verdict(ask, t, gate), text),
                          gate |-> gate,
                          verdict |-> Verdict(ask, t, gate), logged |-> FALSE]]
  BY DEF Ask
<1> DEFINE v == Verdict(ask, t, gate)
<1>2. CASE v = "deny" \/ gate = "free"
  <2>1. req'[r] = Answering(After(v, gate), v)
    BY <1>0, <1>1, <1>2
  <2>2. /\ req'[r].tok = NoToken /\ req'[r].gate = "free"
        /\ req'[r].pc = After(v, gate)
    BY <2>1 DEF Answering, IdleReq
  <2>3. "free" \notin HoldGates
    BY DEF HoldGates, BoundGates
  <2>4. After(v, gate) \notin {"hold", "redeem"}
    BY <1>2, <2>3 DEF After, Verdict
  <2> QED BY <1>0, <1>1, <2>2, <2>3, <2>4 DEF InOrder
<1>3. CASE v # "deny" /\ gate # "free"
  <2>1. req'[r] = [pc |-> After(v, gate), ask |-> ask, tok |-> t,
                   text |-> TextOf(v, text), gate |-> gate,
                   verdict |-> v, logged |-> FALSE]
    BY <1>0, <1>1, <1>3
  <2>2. After(v, gate) = "hold" => v # "allow"
    BY DEF After
  <2>3. After(v, gate) = "redeem" => v = "allow" /\ gate \in HoldGates
    BY DEF After
  <2>4. v = "allow" => Lifts(t, ask, gate)
    BY <1>3 DEF Verdict
  <2>5. v = "allow" => t # NoToken /\ Approves(minted[t].ask, ask, gate)
    BY <1>0, <2>4 DEF Lifts, Matches, Approves
  <2>6. v = "allow" => TextOf(v, text) \in Texts
    BY DEF TextOf
  <2> HIDE DEF v
  <2> QED BY <1>0, <1>1, <2>1, <2>2, <2>3, <2>5, <2>6 DEF InOrder
<1> QED BY <1>2, <1>3

-----------------------------------------------------------------------------
(* The handlers *)

\* A slot with nothing in it, and one with a hold on its way out.
LEMMA EmptySlots ==
    /\ IdleReq.pc = "idle" /\ IdleReq.tok = NoToken
    /\ Answering("record", "hold").pc = "record"
    /\ Answering("record", "hold").verdict = "hold"
    /\ Answering("record", "hold").tok = NoToken
  BY DEF IdleReq, Answering

\* What can become of one /v1/decide handler.
LEMMA RequestSlotStep ==
    ASSUME Structure, [Next]_vars, NEW r \in Requests
    PROVE  \/ req'[r] = req[r] \/ req'[r] = IdleReq
           \/ req'[r] = Answering("record", "hold")
           \/ Ask(r) \/ Redeem(r) \/ Record(r)
<1>0. req \in [Requests -> ReqSlot]
  BY DEF Structure, TypeOK
<1>1. CASE req' = req
  BY <1>1
<1>2. CASE Restart
  BY <1>2 DEF Restart
<1>3. ASSUME NEW s \in Requests, Ask(s) \/ Redeem(s) \/ Record(s)
      PROVE  req'[r] = req[r] \/ Ask(r) \/ Redeem(r) \/ Record(r)
  <2>1. CASE s = r
    BY <1>3, <2>1
  <2>2. ASSUME NEW x, req' = [req EXCEPT ![s] = x], s # r
        PROVE  req'[r] = req[r]
    BY <1>0, <2>2
  <2>3. \E x : req' = [req EXCEPT ![s] = x]
    <3>1. CASE Ask(s)
      BY <3>1 DEF Ask
    <3>2. CASE Redeem(s)
      BY <3>2 DEF Redeem
    <3>3. CASE Record(s)
      BY <3>3 DEF Record
    <3> QED BY <1>3, <3>1, <3>2, <3>3
  <2> QED BY <2>1, <2>2, <2>3
<1>4. ASSUME NEW s \in Requests,
             \/ RedeemFails(s) \/ Request(s) \/ RequestOnce(s)
             \/ RequestFails(s) \/ Answer(s) \/ CutRequest(s)
      PROVE  \/ req'[r] = req[r] \/ req'[r] = IdleReq
             \/ req'[r] = Answering("record", "hold")
  BY <1>0, <1>4 DEF RedeemFails, Request, RequestOnce, RequestFails, Held,
                    Answer, CutRequest
<1>5. \/ req' = req \/ Restart
      \/ \E s \in Requests : Ask(s) \/ RequestStep(s) \/ CutRequest(s)
  BY DEF Next, vars, DecisionStep, Open, ReadRow, Mint, Decide, DecideFails,
         ReadbackFails, Reply, CutDecision, Tick
<1> QED BY <1>1, <1>2, <1>3, <1>4, <1>5 DEF RequestStep

\* A step leaves every /v1/decide handler knowing what its place implies.
LEMMA RequestsStep ==
    ASSUME Structure, [Next]_vars
    PROVE  RequestsInOrder'
<1>0. /\ req \in [Requests -> ReqSlot] /\ NoToken \notin Tokens
      /\ \A r \in Requests : InOrder(req[r])
  BY ConstantsAssumption DEF Structure, TypeOK, RequestsInOrder
<1>1. SUFFICES ASSUME NEW r \in Requests PROVE InOrder(req[r])'
  BY DEF RequestsInOrder
<1>2. ASSUME req'[r].tok = req[r].tok, req'[r].text = req[r].text, req'[r].ask = req[r].ask,
             req'[r].gate = req[r].gate, req'[r].verdict = req[r].verdict,
             \/ req'[r].pc = req[r].pc
             \/ /\ req'[r].pc \in {"record", "answer"}
                /\ req[r].pc \in {"redeem", "record"}
      PROVE  InOrder(req[r])'
  <2>1. InOrder(req[r])
    BY <1>0
  <2>2. req[r].tok # NoToken =>
          req[r].tok \in delivered' /\ minted'[req[r].tok] = minted[req[r].tok]
    BY <2>1, DeliveredKept DEF InOrder
  <2> QED BY <1>2, <2>1, <2>2 DEF InOrder, Approves
<1>3. CASE req'[r] = IdleReq \/ req'[r] = Answering("record", "hold")
  BY <1>3, EmptySlots DEF InOrder
<1>4. CASE Ask(r)
  BY <1>4, AskedInOrder DEF Ask, InOrder
<1>5. CASE Redeem(r)
  <2>1. CASE req' = [req EXCEPT ![r].pc = "record"]
    <3>1. /\ req'[r].tok = req[r].tok /\ req'[r].text = req[r].text
          /\ req'[r].ask = req[r].ask
          /\ req'[r].gate = req[r].gate /\ req'[r].verdict = req[r].verdict
          /\ req'[r].pc = "record"
      BY <1>0, <2>1 DEF ReqSlot
    <3> QED BY <1>2, <1>5, <3>1 DEF Redeem
  <2>2. CASE req' = [req EXCEPT ![r].pc = "hold", ![r].verdict = "hold",
                                ![r].tok = NoToken, ![r].text = NoText]
    <3> DEFINE x == [req[r] EXCEPT !.pc = "hold", !.verdict = "hold",
                                   !.tok = NoToken, !.text = NoText]
    <3>0. req'[r] = x
      BY <1>0, <2>2
    <3>1. /\ req'[r].tok = NoToken /\ req'[r].ask = req[r].ask
          /\ req'[r].verdict = "hold" /\ req'[r].pc = "hold"
      <4>1. req[r] \in ReqSlot
        BY <1>0
      <4>2. x.tok = NoToken /\ x.ask = req[r].ask /\ x.verdict = "hold" /\ x.pc = "hold"
        BY <4>1 DEF ReqSlot
      <4> QED BY <3>0, <4>2
    <3>2. req[r].ask \in Asks
      BY <1>0, <1>5 DEF InOrder, Redeem
    <3> QED BY <3>1, <3>2 DEF InOrder
  <2> QED BY <1>5, <2>1, <2>2 DEF Redeem
<1>6. CASE Record(r)
  <2>1. CASE req' = [req EXCEPT ![r].pc = "answer", ![r].logged = TRUE]
             \/ req' = [req EXCEPT ![r].pc = "answer"]
    <3>1. /\ req'[r].tok = req[r].tok /\ req'[r].text = req[r].text
          /\ req'[r].ask = req[r].ask
          /\ req'[r].gate = req[r].gate /\ req'[r].verdict = req[r].verdict
          /\ req'[r].pc = "answer"
      BY <1>0, <2>1 DEF ReqSlot
    <3> QED BY <1>2, <1>6, <3>1 DEF Record
  <2>2. CASE req' = [req EXCEPT ![r] = IdleReq]
    BY <1>0, <1>3, <2>2
  <2> QED BY <1>6, <2>1, <2>2 DEF Record
<1> QED BY <1>2, <1>3, <1>4, <1>5, <1>6, RequestSlotStep

\* What can become of one decision handler.
LEMMA HandlerStep ==
    ASSUME Structure, [Next]_vars, NEW a \in Admins
    PROVE  \/ adm'[a] = adm[a] /\ ~Restart
           \/ adm'[a] = IdleAdm
           \/ Open(a) \/ ReadRow(a) \/ Mint(a) \/ Decide(a)
<1>1. adm \in [Admins -> AdmSlot]
  BY DEF Structure, TypeOK
<1>2. CASE Restart
  BY <1>1, <1>2 DEF Restart
<1>3. CASE adm' = adm /\ ~Restart
  BY <1>3
<1>4. ASSUME NEW b \in Admins, Open(b) \/ ReadRow(b) \/ Mint(b) \/ Decide(b),
             ~Restart
      PROVE  adm'[a] = adm[a] \/ Open(a) \/ ReadRow(a) \/ Mint(a) \/ Decide(a)
  BY <1>1, <1>4 DEF Open, ReadRow, Mint, Decide
<1>5. ASSUME NEW b \in Admins,
             DecideFails(b) \/ ReadbackFails(b) \/ Reply(b) \/ CutDecision(b)
      PROVE  adm'[a] = adm[a] \/ adm'[a] = IdleAdm
  BY <1>1, <1>5 DEF DecideFails, ReadbackFails, Reply, CutDecision
<1>6. \/ adm' = adm \/ Restart
      \/ \E b \in Admins : Open(b) \/ DecisionStep(b) \/ CutDecision(b)
  BY DEF Next, vars, RequestStep, Ask, Redeem, RedeemFails, Request, RequestOnce,
         RequestFails, Record, Answer, CutRequest, Tick
<1> QED BY <1>2, <1>3, <1>4, <1>5, <1>6 DEF DecisionStep

\* A step leaves every decision handler with the row, the decision and the token
\* that its place implies.
LEMMA DecisionsStep ==
    ASSUME Structure, [Next]_vars
    PROVE  DecisionsInOrder'
<1>0. /\ adm \in [Admins -> AdmSlot] /\ NoToken \notin Tokens
      /\ DecisionsInOrder /\ OneHandlerPerToken /\ DeliveredAreGranted
  BY ConstantsAssumption DEF Structure, TypeOK
<1> DEFINE Goal(a) ==
        /\ adm[a].pc # "idle" =>
             adm[a].id \in Ids /\ row[adm[a].id].state # "absent"
        /\ adm[a].pc \in {"read", "mint"} =>
             adm[a].decision = "grant" /\ adm[a].tok = NoToken
        /\ adm[a].pc = "reply" => row[adm[a].id].state = adm[a].decision
        /\ adm[a].pc \in {"write", "reply"} /\ adm[a].decision = "grant" =>
             adm[a].tok # NoToken
        /\ adm[a].tok # NoToken =>
             /\ adm[a].pc \in {"write", "reply"} /\ adm[a].decision = "grant"
             /\ minted[adm[a].tok] # NoClaims
             /\ minted[adm[a].tok].id = adm[a].id
             /\ adm[a].tok \notin delivered
<1>1. SUFFICES ASSUME NEW a \in Admins PROVE Goal(a)'
  BY DEF DecisionsInOrder
<1>2. Goal(a) /\ adm[a] \in AdmSlot
  BY <1>0 DEF DecisionsInOrder
<1>3. CASE adm'[a] = IdleAdm
  BY <1>3 DEF IdleAdm
<1>4. CASE adm'[a] = adm[a] /\ ~Restart
  <2>1. adm[a].pc = "reply" => row'[adm[a].id].state = row[adm[a].id].state
    BY <1>2, <1>4, RowStep DEF AdmSlot
  <2>2. adm[a].pc # "idle" => row'[adm[a].id].state # "absent"
    BY <1>2, RowStep
  <2>3. ASSUME adm[a].tok # NoToken
        PROVE  minted'[adm[a].tok] = minted[adm[a].tok] /\ adm[a].tok \notin delivered'
    <3>1. adm[a].tok \in Tokens
      BY <1>2, <2>3 DEF AdmSlot
    <3>2. ASSUME NEW b \in Admins, delivered' = delivered \cup {adm[b].tok},
                 adm' = [adm EXCEPT ![b] = IdleAdm]
          PROVE  adm[b].tok # adm[a].tok
      <4>1. a # b
        BY <1>0, <1>4, <2>3, <3>2 DEF IdleAdm
      <4> QED BY <1>0, <2>3, <4>1 DEF OneHandlerPerToken
    <3> QED BY <1>2, <2>3, <3>1, <3>2, MintingStep, DeliveringStep
  <2> QED BY <1>2, <1>4, <2>1, <2>2, <2>3
<1>5. CASE Open(a)
  <2>1. PICK i \in Ids, d \in {"grant", "deny"} :
          /\ row[i].state \in {"pending", "grant", "deny"}
          /\ adm' = [adm EXCEPT ![a] =
                       [pc |-> IF d = "grant" THEN "read" ELSE "write",
                        id |-> i, decision |-> d, tok |-> NoToken]]
    BY <1>5 DEF Open
  <2>2. row' = row /\ minted' = minted
    BY <1>5 DEF Open
  <2> QED BY <1>0, <2>1, <2>2
<1>6. CASE ReadRow(a)
  <2>1. adm'[a] = IdleAdm \/ adm'[a] = [adm[a] EXCEPT !.pc = "mint"]
    BY <1>0, <1>6 DEF ReadRow
  <2>2. CASE adm'[a] = [adm[a] EXCEPT !.pc = "mint"]
    <3>1. /\ adm'[a].pc = "mint" /\ adm'[a].id = adm[a].id
          /\ adm'[a].decision = adm[a].decision /\ adm'[a].tok = adm[a].tok
      BY <1>2, <2>2 DEF AdmSlot
    <3>2. adm[a].pc = "read" /\ row' = row /\ minted' = minted
      BY <1>6 DEF ReadRow
    <3> QED BY <1>2, <3>1, <3>2
  <2> QED BY <1>3, <2>1, <2>2
<1>7. CASE Mint(a)
  <2>1. CASE adm' = [adm EXCEPT ![a] = IdleAdm]
    BY <1>0, <1>3, <2>1
  <2>2. ASSUME NEW t \in Tokens, minted[t] = NoClaims,
               minted' = [minted EXCEPT ![t] =
                            [id |-> adm[a].id, ask |-> row[adm[a].id].ask,
                             exp |-> now + TTL]],
               adm' = [adm EXCEPT ![a].pc = "write", ![a].tok = t]
        PROVE  Goal(a)'
    <3> DEFINE x == [adm[a] EXCEPT !.pc = "write", !.tok = t]
    <3>1. x.pc = "write" /\ x.id = adm[a].id /\ x.decision = adm[a].decision
          /\ x.tok = t
      BY <1>2 DEF AdmSlot
    <3>2. adm'[a] = x
      BY <1>0, <2>2
    <3>3. adm[a].pc = "mint" /\ row' = row /\ delivered' = delivered
      BY <1>7 DEF Mint
    <3>4. t \notin delivered
      BY <1>0, <2>2 DEF DeliveredAreGranted
    <3>5. minted'[t] # NoClaims /\ minted'[t].id = adm[a].id
      <4>1. minted \in [Tokens -> Claims \cup {NoClaims}]
        BY DEF Structure, TypeOK
      <4>2. adm[a].id \in Ids /\ row[adm[a].id].ask \in Asks
        BY <1>2, <3>3 DEF Structure, RowsHaveAsks
      <4>3. [id |-> adm[a].id, ask |-> row[adm[a].id].ask, exp |-> now + TTL]
              \in [id : Ids, ask : Asks, exp : Nat]
        BY <4>2, ConstantsAssumption DEF Structure, TypeOK
      <4> QED BY <2>2, <4>1, <4>3, ConstantsAssumption
    <3> HIDE DEF x
    <3> QED BY <1>0, <1>2, <3>1, <3>2, <3>3, <3>4, <3>5
  <2> QED BY <1>7, <2>1, <2>2 DEF Mint
<1>8. CASE Decide(a)
  <2>1. CASE adm' = [adm EXCEPT ![a] = IdleAdm]
    BY <1>0, <1>3, <2>1
  <2>2. CASE /\ row' = [row EXCEPT ![adm[a].id].state = adm[a].decision]
             /\ adm' = [adm EXCEPT ![a].pc = "reply"]
    <3> DEFINE x == [adm[a] EXCEPT !.pc = "reply"]
    <3>1. x.pc = "reply" /\ x.id = adm[a].id /\ x.decision = adm[a].decision
          /\ x.tok = adm[a].tok
      BY <1>2 DEF AdmSlot
    <3>2. adm'[a] = x
      BY <1>0, <2>2
    <3>3. adm[a].pc = "write" /\ minted' = minted /\ delivered' = delivered
      BY <1>8 DEF Decide
    <3>4. row'[adm[a].id].state = adm[a].decision
      <4>1. row \in [Ids -> Row] /\ adm[a].id \in Ids
        BY <1>2, <3>3 DEF Structure, TypeOK
      <4> QED BY <2>2, <4>1 DEF Row
    <3>5. adm[a].decision # "absent"
      BY <1>2 DEF AdmSlot
    <3> HIDE DEF x
    <3> QED BY <1>2, <3>1, <3>2, <3>3, <3>4, <3>5
  <2> QED BY <1>8, <2>1, <2>2 DEF Decide
<1> QED BY <1>3, <1>4, <1>5, <1>6, <1>7, <1>8, HandlerStep

\* A handler that decides goes on to answer, or finds the row decided.
LEMMA DecidingSlot ==
    ASSUME TypeOK, NEW a \in Admins, Decide(a)
    PROVE  /\ \/ adm'[a] = IdleAdm
              \/ /\ row[adm[a].id].state = "pending"
                 /\ adm'[a].pc = "reply"
                 /\ adm'[a].tok = adm[a].tok /\ adm'[a].id = adm[a].id
                 /\ adm'[a].decision = adm[a].decision
           /\ \A b \in Admins \ {a} : adm'[b] = adm[b]
<1>0. adm \in [Admins -> AdmSlot]
  BY DEF TypeOK
<1> DEFINE x == [adm[a] EXCEPT !.pc = "reply"]
<1>1. /\ x.pc = "reply" /\ x.tok = adm[a].tok /\ x.id = adm[a].id
      /\ x.decision = adm[a].decision
  BY <1>0 DEF AdmSlot
<1> HIDE DEF x
<1>2. CASE adm' = [adm EXCEPT ![a] = IdleAdm]
  BY <1>0, <1>2
<1>3. CASE row[adm[a].id].state = "pending" /\ adm' = [adm EXCEPT ![a].pc = "reply"]
  <2>1. adm' = [adm EXCEPT ![a] = x]
    BY <1>3 DEF x
  <2> QED BY <1>0, <1>1, <1>3, <2>1
<1> QED BY <1>2, <1>3 DEF Decide

\* No step hands a token that one decision handler holds to another one.
LEMMA OneHandlerStep ==
    ASSUME Structure, [Next]_vars
    PROVE  OneHandlerPerToken'
<1>0. /\ adm \in [Admins -> AdmSlot] /\ DecisionsInOrder /\ OneHandlerPerToken
  BY DEF Structure, TypeOK
<1>1. ASSUME NEW a \in Admins
      PROVE  \/ adm'[a].tok \in {adm[a].tok, NoToken}
             \/ /\ minted[adm'[a].tok] = NoClaims
                /\ \A b \in Admins \ {a} : adm'[b] = adm[b]
  <2>1. CASE adm'[a] = adm[a] \/ adm'[a] = IdleAdm
    BY <2>1 DEF IdleAdm
  <2>2. CASE Open(a)
    BY <1>0, <2>2 DEF Open
  <2>3. CASE ReadRow(a)
    <3>1. [adm[a] EXCEPT !.pc = "mint"].tok = adm[a].tok
      BY <1>0 DEF AdmSlot
    <3> QED BY <1>0, <2>3, <3>1 DEF ReadRow, IdleAdm
  <2>4. CASE Mint(a)
    <3>1. CASE adm' = [adm EXCEPT ![a] = IdleAdm]
      BY <1>0, <3>1 DEF IdleAdm
    <3>2. ASSUME NEW t \in Tokens, minted[t] = NoClaims,
                 adm' = [adm EXCEPT ![a].pc = "write", ![a].tok = t]
          PROVE  minted[adm'[a].tok] = NoClaims
                 /\ \A b \in Admins \ {a} : adm'[b] = adm[b]
      <4>1. [adm[a] EXCEPT !.pc = "write", !.tok = t].tok = t
        BY <1>0 DEF AdmSlot
      <4> QED BY <1>0, <3>2, <4>1
    <3> QED BY <2>4, <3>1, <3>2 DEF Mint
  <2>5. CASE Decide(a)
    <3>1. TypeOK
      BY DEF Structure
    <3> QED BY <2>5, <3>1, DecidingSlot DEF IdleAdm
  <2> QED BY <2>1, <2>2, <2>3, <2>4, <2>5, HandlerStep
<1>2. \A a \in Admins : adm[a].tok # NoToken => minted[adm[a].tok] # NoClaims
  BY <1>0 DEF DecisionsInOrder
<1> QED BY <1>0, <1>1, <1>2 DEF OneHandlerPerToken

\* Every step keeps Structure: the inductive step, put together from its parts.
LEMMA StructureStep ==
    ASSUME Structure, [Next]_vars
    PROVE  Structure'
<1>1. RowsHaveAsks'
  BY RowStep DEF RowsHaveAsks
<1> QED BY <1>1, TypeStep, TokensStep, DecisionsStep, OneHandlerStep,
           DeliveredStep, RequestsStep DEF Structure

-----------------------------------------------------------------------------
(* Theorems *)

\* Every behaviour keeps the structure above.
THEOREM StructureHolds == Spec => []Structure
<1>1. Init => Structure
  BY InitStructure
<1>2. Structure /\ [Next]_vars => Structure'
  BY StructureStep
<1> QED BY <1>1, <1>2, PTL DEF Spec

\* Every value stays of its type, and every count within its bound.
THEOREM TypeCorrect == Spec => []TypeOK
<1>1. Structure => TypeOK
  BY DEF Structure
<1> QED BY <1>1, StructureHolds, PTL

\* No allow that a gate stood in front of leaves without a person's grant of
\* what it allows: the token behind it was handed out by a decision that granted
\* its approval, and binds what that approval was held for.
THEOREM OnlyHumanApproved == Spec => []HumanApproved
<1>1. ASSUME Structure PROVE HumanApproved
  <2>1. SUFFICES ASSUME NEW r \in Requests,
                        req[r].pc \in {"redeem", "record", "answer"}, ByToken(r)
                 PROVE  LET i == minted[req[r].tok].id
                        IN /\ row[i].state \in {"grant", "lost"}
                           /\ Approves(row[i].ask, req[r].ask, req[r].gate)
    BY DEF HumanApproved
  <2>2. /\ req[r].tok \in delivered
        /\ Approves(minted[req[r].tok].ask, req[r].ask, req[r].gate)
    BY <1>1, <2>1 DEF Structure, RequestsInOrder, InOrder, ByToken
  <2>3. /\ req[r].tok \in Tokens /\ minted[req[r].tok] # NoClaims
        /\ row[minted[req[r].tok].id].state \in {"grant", "lost"}
    BY <1>1, <2>2 DEF Structure, TypeOK, DeliveredAreGranted
  <2>4. minted[req[r].tok].ask = row[minted[req[r].tok].id].ask
    BY <1>1, <2>3 DEF Structure, TokensMatchRows
  <2> QED BY <2>2, <2>3, <2>4
<1> QED BY <1>1, StructureHolds, PTL

-----------------------------------------------------------------------------
(* One token per grant *)

\* Whoever decides finds the row pending; a token is out, or about to be, only
\* of a row that is not.
LEMMA OneTokenStep ==
    ASSUME Structure, Structure', OneTokenPerGrant, [Next]_vars
    PROVE  OneTokenPerGrant'
<1> DEFINE Out(t) == t \in delivered \/ InReply(t)
<1>0. /\ adm \in [Admins -> AdmSlot] /\ minted \in [Tokens -> Claims \cup {NoClaims}]
      /\ DecisionsInOrder /\ DeliveredAreGranted /\ OneHandlerPerToken
      /\ NoToken \notin Tokens
  BY ConstantsAssumption DEF Structure, TypeOK
<1>1. ASSUME NEW t \in Tokens, Out(t)
      PROVE  /\ minted[t] # NoClaims /\ minted[t].id \in Ids
             /\ row[minted[t].id].state \in {"grant", "lost"}
  <2>1. CASE t \in delivered
    BY <1>0, <1>1, <2>1 DEF DeliveredAreGranted, Claims
  <2>2. CASE InReply(t)
    BY <1>0, <1>1, <2>2 DEF InReply, DecisionsInOrder, Claims
  <2> QED BY <1>1, <2>1, <2>2
<1>2. ASSUME NEW a \in Admins
      PROVE  \/ adm'[a].pc # "reply"
             \/ adm'[a] = adm[a] /\ ~Restart
             \/ /\ Decide(a) /\ row[adm[a].id].state = "pending"
                /\ adm'[a].pc = "reply"
                /\ adm'[a].tok = adm[a].tok /\ adm'[a].decision = adm[a].decision
                /\ adm'[a].id = adm[a].id
                /\ \A b \in Admins \ {a} : adm'[b] = adm[b]
  <2>1. CASE adm'[a] = IdleAdm
    BY <2>1 DEF IdleAdm
  <2>2. CASE Open(a)
    BY <1>0, <2>2 DEF Open
  <2>3. CASE ReadRow(a)
    <3>1. [adm[a] EXCEPT !.pc = "mint"].pc = "mint"
      BY <1>0 DEF AdmSlot
    <3> QED BY <1>0, <2>3, <3>1 DEF ReadRow, IdleAdm
  <2>4. CASE Mint(a)
    <3>1. CASE adm' = [adm EXCEPT ![a] = IdleAdm]
      BY <1>0, <3>1 DEF IdleAdm
    <3>2. ASSUME NEW t \in Tokens,
                 adm' = [adm EXCEPT ![a].pc = "write", ![a].tok = t]
          PROVE  adm'[a].pc # "reply"
      <4>1. [adm[a] EXCEPT !.pc = "write", !.tok = t].pc = "write"
        BY <1>0 DEF AdmSlot
      <4> QED BY <1>0, <3>2, <4>1
    <3> QED BY <2>4, <3>1, <3>2 DEF Mint
  <2>5. CASE Decide(a)
    <3>1. TypeOK
      BY DEF Structure
    <3> QED BY <2>5, <3>1, DecidingSlot DEF IdleAdm
  <2> QED BY <2>1, <2>2, <2>3, <2>4, <2>5, HandlerStep
<1>3. ASSUME NEW t \in Tokens, Out(t)'
      PROVE  \/ Out(t) /\ minted'[t] = minted[t]
             \/ \E a \in Admins :
                  /\ Decide(a) /\ row[adm[a].id].state = "pending"
                  /\ t = adm[a].tok /\ minted[t].id = adm[a].id
                  /\ minted'[t] = minted[t]
                  /\ delivered' = delivered
                  /\ adm'[a].tok = t
                  /\ \A b \in Admins \ {a} : adm'[b] = adm[b]
  <2>1. CASE t \in delivered
    BY <2>1, DeliveredKept
  <2>2. CASE t \in delivered' /\ t \notin delivered
    BY <1>3, <2>2, DeliveringStep DEF InReply
  <2>3. CASE InReply(t)'
    <3>1. PICK a \in Admins : adm'[a].pc = "reply" /\ adm'[a].decision = "grant"
                              /\ adm'[a].tok = t
      BY <2>3 DEF InReply
    <3>2. CASE adm'[a] = adm[a] /\ ~Restart
      <4>1. InReply(t) /\ minted[t] # NoClaims
        BY <1>0, <1>3, <3>1, <3>2 DEF InReply, DecisionsInOrder
      <4> QED BY <4>1, MintingStep
    <3>3. CASE Decide(a) /\ row[adm[a].id].state = "pending"
               /\ adm'[a].tok = adm[a].tok /\ adm'[a].decision = adm[a].decision
               /\ \A b \in Admins \ {a} : adm'[b] = adm[b]
      <4>1. minted[t].id = adm[a].id
        BY <1>0, <1>3, <3>1, <3>3 DEF DecisionsInOrder
      <4> QED BY <3>1, <3>3, <4>1 DEF Decide
    <3> QED BY <1>2, <3>1, <3>2, <3>3
  <2> QED BY <1>3, <2>1, <2>2, <2>3
<1>4. SUFFICES ASSUME NEW t \in Tokens, NEW u \in Tokens, Out(t)', Out(u)',
                      minted'[t].id = minted'[u].id
               PROVE  t = u
  BY DEF OneTokenPerGrant
<1>5. CASE Out(t) /\ Out(u) /\ minted'[t] = minted[t] /\ minted'[u] = minted[u]
  BY <1>4, <1>5 DEF OneTokenPerGrant
\* One of them is new: the row of its approval was pending, so the other is not out.
<1>6. ASSUME NEW x \in Tokens, NEW y \in Tokens, NEW a \in Admins, Out(x)', Out(y)',
             minted'[x].id = minted'[y].id,
             row[adm[a].id].state = "pending", x = adm[a].tok,
             minted[x].id = adm[a].id, minted'[x] = minted[x],
             \A b \in Admins \ {a} : adm'[b] = adm[b], Decide(a), adm'[a].tok = x
      PROVE  x = y
  <2>1. ~(Out(y) /\ minted'[y] = minted[y])
    BY <1>1, <1>6
  <2>2. PICK b \in Admins : /\ Decide(b) /\ y = adm[b].tok /\ adm'[b].tok = y
                            /\ \A c \in Admins \ {b} : adm'[c] = adm[c]
    BY <1>3, <1>6, <2>1
  <2>3. CASE a = b
    BY <1>6, <2>2, <2>3
  <2>4. CASE a # b
    \* Decide changes the handler it is a step of, and no other.
    <3>1. adm'[a] = adm[a] /\ adm[a].pc = "write"
      BY <1>6, <2>2, <2>4 DEF Decide
    <3>2. adm'[a].pc # "write"
      BY <1>6, DecidingSlot DEF Structure, IdleAdm
    <3> QED BY <3>1, <3>2
  <2> QED BY <2>3, <2>4
<1>7. CASE \E a \in Admins :
             /\ Decide(a) /\ row[adm[a].id].state = "pending"
             /\ t = adm[a].tok /\ minted[t].id = adm[a].id
             /\ minted'[t] = minted[t] /\ adm'[a].tok = t
             /\ \A b \in Admins \ {a} : adm'[b] = adm[b]
  BY <1>4, <1>6, <1>7
<1>8. CASE \E a \in Admins :
             /\ Decide(a) /\ row[adm[a].id].state = "pending"
             /\ u = adm[a].tok /\ minted[u].id = adm[a].id
             /\ minted'[u] = minted[u] /\ adm'[a].tok = u
             /\ \A b \in Admins \ {a} : adm'[b] = adm[b]
  BY <1>4, <1>6, <1>8
<1> QED BY <1>3, <1>4, <1>5, <1>7, <1>8

\* Of one approval one token at most ever leaves, however many admins grant it at
\* once: DecideApproval lets one of them find the row pending.
THEOREM OneTokenLeaves == Spec => []OneTokenPerGrant
<1>1. Init => OneTokenPerGrant
  BY DEF Init, OneTokenPerGrant, InReply, IdleAdm
<1>2. Structure /\ Structure' /\ OneTokenPerGrant /\ [Next]_vars => OneTokenPerGrant'
  BY OneTokenStep
<1> QED BY <1>1, <1>2, StructureHolds, PTL DEF Spec

-----------------------------------------------------------------------------
(* One allow per text of a token, with single use and a store that survives *)

\* A handler whose allow has spent its token and is not answered yet.
Spends(r) == ByToken(r) /\ req[r].pc \in {"record", "answer"}

\* What its allow is counted under: the approval, and the text its token came in.
Earned(r) == <<minted[req[r].tok].id, req[r].text>>

SpentOnce ==
    /\ \A r \in Requests : Spends(r) =>
         RedemptionKey(r) \in redeemed /\ allows[Earned(r)].n = 0
    /\ \A r, s \in Requests :
         Spends(r) /\ Spends(s) /\ RedemptionKey(r) = RedemptionKey(s) => r = s
    /\ \A i \in Ids, x \in Texts : allows[<<i, x>>].n # 0 =>
         /\ allows[<<i, x>>].n = 1
         /\ \E t \in delivered : <<t, x>> \in redeemed /\ minted[t].id = i

\* What such a handler holds.
LEMMA SpentToken ==
    ASSUME Structure, NEW r \in Requests, Spends(r) \/ req[r].pc = "redeem"
    PROVE  /\ req[r].tok \in delivered /\ req[r].tok \in Tokens
           /\ minted[req[r].tok].id \in Ids /\ req[r].text \in Texts
<1>1. req[r].tok \in delivered /\ req[r].text \in Texts
  BY DEF Structure, RequestsInOrder, InOrder, Spends, ByToken
<1>2. req[r].tok \in Tokens /\ minted[req[r].tok] # NoClaims
  BY <1>1 DEF Structure, TypeOK, DeliveredAreGranted
<1> QED BY <1>1, <1>2 DEF Structure, TypeOK, Claims

\* With single use on, the only way there is the redemption.
LEMMA SpendingStep ==
    ASSUME Structure, [Next]_vars, SingleUse, NEW r \in Requests
    PROVE  \/ ~Spends(r)'
           \/ Spends(r) /\ req'[r].tok = req[r].tok /\ req'[r].text = req[r].text
           \/ /\ req[r].pc = "redeem" /\ RedemptionKey(r) \notin redeemed
              /\ redeemed' = redeemed \cup {RedemptionKey(r)}
              /\ req'[r].tok = req[r].tok /\ req'[r].text = req[r].text
              /\ \A s \in Requests \ {r} : req'[s] = req[s]
              /\ allows' = allows
<1>0. req \in [Requests -> ReqSlot]
  BY DEF Structure, TypeOK
<1>1. CASE req'[r] = req[r]
  BY <1>1 DEF Spends, ByToken
<1>2. CASE req'[r] = IdleReq \/ req'[r] = Answering("record", "hold")
  BY <1>2, EmptySlots DEF Spends, ByToken
<1>3. CASE Ask(r)
  <2>1. PICK ask \in Asks, t \in delivered \cup {NoToken},
           text \in Texts, gate \in Gates :
        req' = [req EXCEPT ![r] =
                  IF Verdict(ask, t, gate) = "deny" \/ gate = "free"
                    THEN Answering(After(Verdict(ask, t, gate), gate),
                                   Verdict(ask, t, gate))
                    ELSE [pc |-> After(Verdict(ask, t, gate), gate), ask |-> ask,
                          tok |-> t, text |-> TextOf(Verdict(ask, t, gate), text),
                          gate |-> gate,
                          verdict |-> Verdict(ask, t, gate), logged |-> FALSE]]
    BY <1>3 DEF Ask
  <2> DEFINE v == Verdict(ask, t, gate)
  <2>2. CASE v = "deny" \/ gate = "free"
    <3>1. req'[r].gate = "free"
      <4>1. Answering(After(v, gate), v).gate = "free"
        BY DEF Answering, IdleReq
      <4> QED BY <1>0, <2>1, <2>2, <4>1
    <3> QED BY <3>1 DEF Spends, ByToken, HoldGates, BoundGates
  <2>3. CASE v # "deny" /\ gate # "free"
    <3>1. req'[r] = [pc |-> After(v, gate), ask |-> ask, tok |-> t,
                     text |-> TextOf(v, text), gate |-> gate,
                     verdict |-> v, logged |-> FALSE]
      BY <1>0, <2>1, <2>3
    <3>2. v = "allow" /\ gate \in HoldGates => After(v, gate) = "redeem"
      BY DEF After
    <3> QED BY <3>1, <3>2 DEF Spends, ByToken
  <2> QED BY <2>2, <2>3
<1>4. CASE Redeem(r)
  <2>1. CASE /\ RedemptionKey(r) \notin redeemed
             /\ redeemed' = redeemed \cup {RedemptionKey(r)}
             /\ req' = [req EXCEPT ![r].pc = "record"]
    <3>1. /\ [req[r] EXCEPT !.pc = "record"].tok = req[r].tok
          /\ [req[r] EXCEPT !.pc = "record"].text = req[r].text
      BY <1>0 DEF ReqSlot
    <3> QED BY <1>0, <1>4, <2>1, <3>1 DEF Redeem
  <2>2. CASE req' = [req EXCEPT ![r].pc = "hold", ![r].verdict = "hold",
                                ![r].tok = NoToken, ![r].text = NoText]
    <3>1. [req[r] EXCEPT !.pc = "hold", !.verdict = "hold", !.tok = NoToken,
                     !.text = NoText].pc = "hold"
      BY <1>0 DEF ReqSlot
    <3> QED BY <1>0, <2>2, <3>1 DEF Spends
  <2> QED BY <1>4, <2>1, <2>2 DEF Redeem
<1>5. CASE Record(r)
  <2>1. CASE req' = [req EXCEPT ![r].pc = "answer", ![r].logged = TRUE]
             \/ req' = [req EXCEPT ![r].pc = "answer"]
    <3>1. /\ req'[r].tok = req[r].tok /\ req'[r].text = req[r].text
          /\ req'[r].gate = req[r].gate /\ req'[r].verdict = req[r].verdict
      BY <1>0, <2>1 DEF ReqSlot
    <3> QED BY <1>5, <3>1 DEF Record, Spends, ByToken
  <2>2. CASE req' = [req EXCEPT ![r] = IdleReq]
    BY <1>0, <1>2, <2>2
  <2> QED BY <1>5, <2>1, <2>2 DEF Record
<1> QED BY <1>1, <1>2, <1>3, <1>4, <1>5, RequestSlotStep

\* What else a step may do to the redemptions and to the count of allows.
LEMMA AnsweringStep ==
    ASSUME Structure, [Next]_vars, Durable
    PROVE  /\ redeemed \subseteq redeemed'
           /\ \/ allows' = allows
              \/ \E r \in Requests :
                   /\ Spends(r) /\ ~Spends(r)'
                   /\ allows' = [allows EXCEPT ![Earned(r)] =
                           [n   |-> IF @.n < MaxAllows THEN @.n + 1 ELSE @.n,
                            ask |-> req[r].ask]]
                   /\ minted' = minted /\ redeemed' = redeemed
                   /\ delivered' = delivered
                   /\ \A s \in Requests \ {r} : req'[s] = req[s]
<1>0. req \in [Requests -> ReqSlot]
  BY DEF Structure, TypeOK
<1>1. ASSUME NEW r \in Requests, Answer(r)
      PROVE  /\ redeemed' = redeemed
             /\ \/ allows' = allows
                \/ /\ Spends(r) /\ ~Spends(r)'
                   /\ allows' = [allows EXCEPT ![Earned(r)] =
                           [n   |-> IF @.n < MaxAllows THEN @.n + 1 ELSE @.n,
                            ask |-> req[r].ask]]
                   /\ minted' = minted /\ delivered' = delivered
                   /\ \A s \in Requests \ {r} : req'[s] = req[s]
  <2>1. req'[r] = IdleReq /\ \A s \in Requests \ {r} : req'[s] = req[s]
    BY <1>0, <1>1 DEF Answer
  <2>2. ~Spends(r)'
    BY <2>1 DEF Spends, IdleReq
  <2>3. CASE ByToken(r)
    <3>1. Spends(r)
      BY <1>1, <2>3 DEF Answer, Spends
    <3> QED BY <1>1, <2>1, <2>2, <2>3, <3>1 DEF Answer, Earned
  <2> QED BY <1>1, <2>3 DEF Answer
<1>2. \/ allows' = allows /\ redeemed \subseteq redeemed'
      \/ \E r \in Requests : Answer(r)
  BY DEF Next, vars, RequestStep, DecisionStep, Ask, Redeem, RedeemFails, Request,
         RequestOnce, RequestFails, Record, CutRequest, Open, ReadRow, Mint,
         Decide, DecideFails, ReadbackFails, Reply, CutDecision, Tick, Restart
<1> QED BY <1>1, <1>2

\* Every step keeps SpentOnce: the handler whose redemption succeeded is the only
\* one that can still answer an allow on the token.
LEMMA SpentOnceStep ==
    ASSUME Structure, OneTokenPerGrant, SpentOnce, [Next]_vars, SingleUse, Durable
    PROVE  SpentOnce'
<1>0. /\ allows \in [Ids \X Texts -> [n : 0..MaxAllows, ask : Asks \cup {NoAsk}]]
      /\ MaxAllows \in Nat \ {0, 1}
  BY ConstantsAssumption DEF Structure, TypeOK
\* Two tokens that were handed out for one approval are the same.
<1>1. ASSUME NEW t \in delivered, NEW u \in delivered, minted[t].id = minted[u].id
      PROVE  t = u
  BY <1>1 DEF OneTokenPerGrant, Structure, TypeOK
<1>2. ASSUME NEW r \in Requests, Spends(r)'
      PROVE  /\ req'[r].tok = req[r].tok /\ req'[r].text = req[r].text
             /\ req[r].tok \in delivered /\ req[r].text \in Texts
             /\ minted'[req[r].tok] = minted[req[r].tok]
             /\ minted[req[r].tok].id \in Ids
             /\ RedemptionKey(r) \in redeemed'
             /\ allows[Earned(r)].n = 0
             /\ \/ Spends(r)
                \/ /\ RedemptionKey(r) \notin redeemed /\ allows' = allows
                   /\ \A s \in Requests \ {r} : req'[s] = req[s]
  <2>1. CASE Spends(r) /\ req'[r].tok = req[r].tok /\ req'[r].text = req[r].text
    BY <2>1, SpentToken, DeliveredKept, AnsweringStep DEF SpentOnce
  <2>2. CASE /\ req[r].pc = "redeem" /\ RedemptionKey(r) \notin redeemed
             /\ redeemed' = redeemed \cup {RedemptionKey(r)}
             /\ req'[r].tok = req[r].tok /\ req'[r].text = req[r].text
             /\ \A s \in Requests \ {r} : req'[s] = req[s]
             /\ allows' = allows
    <3>1. /\ req[r].tok \in delivered /\ minted[req[r].tok].id \in Ids
          /\ req[r].text \in Texts
          /\ minted'[req[r].tok] = minted[req[r].tok]
      BY <2>2, SpentToken, DeliveredKept
    <3>2. ASSUME allows[Earned(r)].n # 0 PROVE FALSE
      <4>1. PICK t \in delivered :
              <<t, req[r].text>> \in redeemed /\ minted[t].id = minted[req[r].tok].id
        BY <3>1, <3>2 DEF SpentOnce, Earned
      <4>2. t = req[r].tok
        BY <1>1, <3>1, <4>1
      <4> QED BY <2>2, <4>1, <4>2 DEF RedemptionKey
    <3> QED BY <2>2, <3>1, <3>2
  <2> QED BY <1>2, <2>1, <2>2, SpendingStep
\* So its key, and what its allow will be counted under, are the same after the step.
<1>3. ASSUME NEW r \in Requests, Spends(r)'
      PROVE  RedemptionKey(r)' = RedemptionKey(r) /\ Earned(r)' = Earned(r)
  BY <1>2, <1>3 DEF RedemptionKey, Earned
<1>4. ASSUME NEW r \in Requests, Spends(r)', NEW s \in Requests, Spends(s)',
             RedemptionKey(r)' = RedemptionKey(s)'
      PROVE  r = s
  <2>1. CASE Spends(r) /\ Spends(s)
    BY <1>3, <1>4, <2>1 DEF SpentOnce
  <2>2. ASSUME NEW x \in Requests, NEW y \in Requests, Spends(x)', Spends(y)',
               RedemptionKey(x)' = RedemptionKey(y)', ~Spends(x), x # y
        PROVE  FALSE
    <3>1. RedemptionKey(x) \notin redeemed /\ req'[y] = req[y]
      BY <1>2, <2>2
    <3>2. Spends(y) /\ RedemptionKey(y) = RedemptionKey(x)
      BY <1>3, <2>2, <3>1 DEF Spends, ByToken
    <3> QED BY <3>1, <3>2 DEF SpentOnce
  <2> QED BY <1>4, <2>1, <2>2
<1>5. CASE allows' = allows
  <2>1. ASSUME NEW i \in Ids, NEW x \in Texts, allows[<<i, x>>].n # 0
        PROVE  /\ allows[<<i, x>>].n = 1
               /\ \E t \in delivered' : <<t, x>> \in redeemed' /\ minted'[t].id = i
    <3>1. allows[<<i, x>>].n = 1
      BY <2>1 DEF SpentOnce
    <3>2. PICK t \in delivered : <<t, x>> \in redeemed /\ minted[t].id = i
      BY <2>1 DEF SpentOnce
    <3>3. t \in delivered' /\ minted'[t] = minted[t]
      BY DeliveredKept
    <3>4. <<t, x>> \in redeemed'
      BY <3>2, AnsweringStep
    <3> QED BY <3>1, <3>2, <3>3, <3>4
  <2>2. \A r \in Requests : Spends(r)' =>
          RedemptionKey(r)' \in redeemed' /\ allows'[Earned(r)'].n = 0
    BY <1>2, <1>3, <1>5
  <2> QED BY <1>4, <1>5, <2>1, <2>2 DEF SpentOnce
<1>6. ASSUME NEW r \in Requests, Spends(r), ~Spends(r)',
             allows' = [allows EXCEPT ![Earned(r)] =
                          [n   |-> IF @.n < MaxAllows THEN @.n + 1 ELSE @.n,
                           ask |-> req[r].ask]],
             minted' = minted, redeemed' = redeemed, delivered' = delivered,
             \A s \in Requests \ {r} : req'[s] = req[s]
      PROVE  SpentOnce'
  <2>1. /\ req[r].tok \in delivered /\ minted[req[r].tok].id \in Ids
        /\ req[r].text \in Texts
        /\ RedemptionKey(r) \in redeemed /\ allows[Earned(r)].n = 0
    BY <1>6, SpentToken DEF SpentOnce
  <2>2. Earned(r) \in Ids \X Texts
    BY <2>1 DEF Earned
  <2>3. /\ allows'[Earned(r)].n = 1
        /\ \A k \in (Ids \X Texts) \ {Earned(r)} : allows'[k] = allows[k]
    BY <1>0, <1>6, <2>1, <2>2
  <2>4. ASSUME NEW s \in Requests, Spends(s)'
        PROVE  /\ RedemptionKey(s)' \in redeemed'
               /\ allows'[Earned(s)'].n = 0
    <3>1. s # r
      BY <1>6, <2>4
    <3>2. Spends(s) /\ req'[s] = req[s]
      BY <1>6, <2>4, <3>1 DEF Spends, ByToken
    <3>3. RedemptionKey(s) # RedemptionKey(r)
      BY <1>6, <3>1, <3>2 DEF SpentOnce
    <3>4. /\ req[s].tok \in delivered /\ minted[req[s].tok].id \in Ids
          /\ req[s].text \in Texts
      BY <3>2, SpentToken
    <3>5. Earned(s) # Earned(r)
      BY <1>1, <2>1, <3>3, <3>4 DEF Earned, RedemptionKey
    <3>6. RedemptionKey(s) \in redeemed /\ allows[Earned(s)].n = 0
      BY <3>2 DEF SpentOnce
    <3>7. Earned(s) \in Ids \X Texts
      BY <3>4 DEF Earned
    <3>8. allows'[Earned(s)] = allows[Earned(s)]
      BY <2>3, <3>5, <3>7
    <3> QED BY <1>3, <1>6, <2>4, <3>6, <3>8
  <2>5. ASSUME NEW i \in Ids, NEW x \in Texts, allows'[<<i, x>>].n # 0
        PROVE  /\ allows'[<<i, x>>].n = 1
               /\ \E t \in delivered' : <<t, x>> \in redeemed' /\ minted'[t].id = i
    <3>1. CASE <<i, x>> = Earned(r)
      <4>1. req[r].tok \in delivered' /\ <<req[r].tok, x>> \in redeemed'
            /\ minted'[req[r].tok].id = i
        BY <1>6, <2>1, <3>1 DEF Earned, RedemptionKey
      <4> QED BY <2>3, <3>1, <4>1
    <3>2. CASE <<i, x>> # Earned(r)
      <4>1. allows'[<<i, x>>] = allows[<<i, x>>]
        BY <2>3, <3>2
      <4> QED BY <1>6, <2>5, <4>1 DEF SpentOnce
    <3> QED BY <3>1, <3>2
  <2> QED BY <1>4, <2>4, <2>5 DEF SpentOnce
<1> QED BY <1>5, <1>6, AnsweringStep

\* With single use on and a store that survives, one grant releases at most one
\* allow in each text of its token: the text is redeemed before its allow is
\* recorded, and an approval has one token at most.  Where a token has one text,
\* as in version 2, a grant releases one allow at most.
THEOREM OneAllowPerText == Spec => []TextReleasesOneAllow
<1>1. Init => (SingleUse /\ Durable => SpentOnce)
  <2>1. Init => \A r \in Requests : ~Spends(r)
    BY EmptySlots DEF Init, Spends
  <2> QED BY <2>1 DEF Init, SpentOnce
<1>2. /\ Structure /\ OneTokenPerGrant /\ [Next]_vars
      /\ (SingleUse /\ Durable => SpentOnce)
      => (SingleUse /\ Durable => SpentOnce)'
  BY SpentOnceStep
<1>3. Structure /\ (SingleUse /\ Durable => SpentOnce) => TextReleasesOneAllow
  <2>1. ASSUME Structure, SpentOnce, NEW i \in Ids, NEW x \in Texts
        PROVE  allows[<<i, x>>].n <= 1
    <3>1. allows[<<i, x>>].n = 0 \/ allows[<<i, x>>].n = 1
      BY <2>1 DEF SpentOnce
    <3> QED BY <3>1
  <2> QED BY <2>1 DEF TextReleasesOneAllow
<1> QED BY <1>1, <1>2, <1>3, StructureHolds, OneTokenLeaves, PTL DEF Spec

-----------------------------------------------------------------------------
(* The contract *)

\* A store that survives loses no row.
NothingLost == \A i \in Ids : row[i].state # "lost"

\* Of the contract a step of the path makes at most one, and it is of one approval.
HoldsRow(i)    == /\ row[i].state = "absent"
                  /\ \E ask \in Asks, once \in BOOLEAN :
                       row' = [row EXCEPT ![i] = NewRow(ask, once)]
ResolvesRow(i) == /\ row[i].state = "pending"
                  /\ \E d \in {"grant", "deny"} : row' = [row EXCEPT ![i].state = d]

LEMMA RowsStep ==
    ASSUME Structure, [Next]_vars, Durable
    PROVE  row' = row \/ (allows' = allows /\ \E i \in Ids : HoldsRow(i) \/ ResolvesRow(i))
<1>1. ASSUME NEW r \in Requests, Request(r) \/ RequestOnce(r) \/ RequestFails(r)
      PROVE  row' = row \/ (allows' = allows /\ \E i \in Ids : HoldsRow(i))
  <2>1. req[r].ask \in Asks
    BY <1>1 DEF Structure, RequestsInOrder, InOrder, Request, RequestOnce, RequestFails
  <2>2. allows' = allows
    BY <1>1 DEF Request, RequestOnce, RequestFails
  <2>3. \/ row' = row
        \/ \E i \in Ids, once \in BOOLEAN :
             /\ row[i].state = "absent"
             /\ row' = [row EXCEPT ![i] = NewRow(req[r].ask, once)]
    BY <1>1 DEF Request, RequestOnce, RequestFails
  <2> QED BY <2>1, <2>2, <2>3 DEF HoldsRow
<1>2. ASSUME NEW a \in Admins, Decide(a) \/ ReadbackFails(a)
      PROVE  row' = row \/ (allows' = allows /\ \E i \in Ids : ResolvesRow(i))
  <2>1. adm[a].id \in Ids /\ adm[a].decision \in {"grant", "deny"}
    BY <1>2 DEF Structure, TypeOK, AdmSlot, DecisionsInOrder, Decide, ReadbackFails
  <2> QED BY <1>2, <2>1 DEF Decide, ReadbackFails, ResolvesRow
<1>3. row' = row
      \/ (\E r \in Requests : Request(r) \/ RequestOnce(r) \/ RequestFails(r))
      \/ (\E a \in Admins : Decide(a) \/ ReadbackFails(a))
  BY DEF Next, vars, RequestStep, DecisionStep, Ask, Redeem, RedeemFails, Record,
         Answer, CutRequest, Open, ReadRow, Mint, DecideFails, Reply,
         CutDecision, Tick, Restart
<1> QED BY <1>1, <1>2, <1>3

\* A row that is written is a Hold, one that is decided a Resolve.
LEMMA RowsFollowContract ==
    ASSUME Structure, NEW i \in Ids, HoldsRow(i) \/ ResolvesRow(i), allows' = allows
    PROVE  Contract!Hold(i) \/ Contract!Resolve(i)
<1>0. row \in [Ids -> Row]
  BY DEF Structure, TypeOK
<1>1. CASE HoldsRow(i)
  <2>1. PICK ask \in Asks, once \in BOOLEAN :
          row' = [row EXCEPT ![i] = NewRow(ask, once)]
    BY <1>1 DEF HoldsRow
  <2>2. /\ \A j \in Ids \ {i} : row'[j] = row[j]
        /\ row'[i].state = "pending" /\ row'[i].ask = ask
    BY <1>0, <2>1 DEF NewRow
  <2>3. /\ [j \in Ids |-> row'[j].state]
             = [[j \in Ids |-> row[j].state] EXCEPT ![i] = "pending"]
        /\ [j \in Ids |-> row'[j].ask] = [[j \in Ids |-> row[j].ask] EXCEPT ![i] = ask]
    BY <2>2
  <2> QED BY <1>1, <2>3 DEF HoldsRow, Contract!Hold
<1>2. CASE ResolvesRow(i)
  <2>1. PICK d \in {"grant", "deny"} : row' = [row EXCEPT ![i].state = d]
    BY <1>2 DEF ResolvesRow
  <2>2. /\ \A j \in Ids \ {i} : row'[j] = row[j]
        /\ row'[i].state = d /\ row'[i].ask = row[i].ask
    BY <1>0, <2>1 DEF Row
  <2>3. /\ [j \in Ids |-> row'[j].state]
             = [[j \in Ids |-> row[j].state] EXCEPT ![i] = d]
        /\ [j \in Ids |-> row'[j].ask] = [j \in Ids |-> row[j].ask]
    BY <2>2
  <2> QED BY <1>2, <2>3 DEF ResolvesRow, Contract!Resolve
<1> QED BY <1>1, <1>2

\* An allow that a token earned is a Release: its approval was granted for such a
\* request, and has released nothing.
LEMMA AllowsFollowContract ==
    ASSUME Structure, HumanApproved, SpentOnce, NothingLost, NEW r \in Requests, Spends(r),
           row' = row,
           allows' = [allows EXCEPT ![Earned(r)] =
                        [n   |-> IF @.n < MaxAllows THEN @.n + 1 ELSE @.n,
                         ask |-> req[r].ask]]
    PROVE  \E i \in Ids, x \in Texts : Contract!Release(i, x)
<1> DEFINE i == minted[req[r].tok].id
           x == req[r].text
<1>1. i \in Ids /\ x \in Texts
  BY SpentToken
<1>2. row[i].state = "grant" /\ Approves(row[i].ask, req[r].ask, req[r].gate)
  BY <1>1 DEF HumanApproved, Spends, NothingLost
<1>3. req[r].ask \in Asks
  BY DEF Structure, RequestsInOrder, InOrder, Spends, ByToken
<1>4. Earned(r) = <<i, x>>
  BY DEF Earned
<1>5. allows[<<i, x>>].n = 0
  BY <1>4 DEF SpentOnce
<1>6. allows' = [allows EXCEPT ![<<i, x>>] = [n |-> 1, ask |-> req[r].ask]]
  <2>1. (IF allows[<<i, x>>].n < MaxAllows THEN allows[<<i, x>>].n + 1
         ELSE allows[<<i, x>>].n) = 1
    <3>1. MaxAllows \in Nat /\ 0 < MaxAllows
      BY ConstantsAssumption
    <3> HIDE DEF i, x
    <3> QED BY <1>5, <3>1
  <2> QED BY <1>4, <2>1
<1>7. Contract!Covers(row[i].ask, req[r].ask)
  BY <1>2 DEF Approves, Contract!Covers
<1> HIDE DEF i, x
<1>8. Contract!Release(i, x)
  <2>1. UNCHANGED <<[j \in Ids |-> row[j].state], [j \in Ids |-> row[j].ask]>>
    OBVIOUS
  <2>2. /\ [j \in Ids |-> row[j].state][i] = "grant"
        /\ Contract!Covers([j \in Ids |-> row[j].ask][i], req[r].ask)
    BY <1>1, <1>2, <1>7
  <2> QED BY <1>3, <1>5, <1>6, <2>1, <2>2 DEF Contract!Release
<1> QED BY <1>1, <1>8

LEMMA ContractStep ==
    ASSUME Structure, HumanApproved, SpentOnce, NothingLost, [Next]_vars, Durable
    PROVE  [Contract!CNext]_(Contract!cvars)
<1>1. CASE row' # row
  <2>1. PICK i \in Ids : HoldsRow(i) \/ ResolvesRow(i)
    BY <1>1, RowsStep
  <2>2. allows' = allows
    BY <1>1, RowsStep
  <2> QED BY <2>1, <2>2, RowsFollowContract DEF Contract!CNext
<1>2. CASE row' = row /\ allows' # allows
  BY <1>2, AnsweringStep, AllowsFollowContract DEF Contract!CNext
<1>3. CASE row' = row /\ allows' = allows
  BY <1>3 DEF Contract!cvars
<1> QED BY <1>1, <1>2, <1>3

LEMMA NothingLostStep ==
    ASSUME Structure, NothingLost, [Next]_vars, Durable PROVE NothingLost'
<1>1. ASSUME NEW i \in Ids, HoldsRow(i) \/ ResolvesRow(i) PROVE NothingLost'
  BY <1>1 DEF Structure, TypeOK, Row, NothingLost, HoldsRow, ResolvesRow, NewRow
<1>2. CASE row' = row
  BY <1>2 DEF NothingLost
<1> QED BY <1>1, <1>2, RowsStep

\* With single use on and a store that survives, the path implements the contract:
\* a held request waits for a person, is decided once, and its grant releases one
\* allow in each text of its token, of a request like the one held.
THEOREM ContractHolds ==
    ASSUME SingleUse, Durable
    PROVE  Spec => ImplementsContract
<1>1. Init => NothingLost /\ SpentOnce /\ Contract!CInit
  <2>1. Init => \A r \in Requests : ~Spends(r)
    BY EmptySlots DEF Init, Spends
  <2> QED BY <2>1 DEF Init, SpentOnce, NothingLost, NoRow, Contract!CInit
<1>2. Structure /\ NothingLost /\ [Next]_vars => NothingLost'
  BY NothingLostStep
<1>3. Structure /\ OneTokenPerGrant /\ SpentOnce /\ [Next]_vars => SpentOnce'
  BY SpentOnceStep
<1>4. Structure /\ HumanApproved /\ SpentOnce /\ NothingLost /\ [Next]_vars
      => [Contract!CNext]_(Contract!cvars)
  BY ContractStep
<1> QED BY <1>1, <1>2, <1>3, <1>4, StructureHolds, OneTokenLeaves, OnlyHumanApproved, PTL
        DEF Spec, ImplementsContract, Contract!CSpec

-----------------------------------------------------------------------------
(* What a step can do to the queue *)

\* A row is written for a held request, and by the floor only if its call has no
\* pending row and, in memory, its agent's queue has room.
Joins(i) ==
    /\ row[i].state = "absent"
    /\ \E ask \in Asks, once \in BOOLEAN :
         /\ once => SameCall(ask) = {} /\ (Durable \/ ~AtLimit(ask))
         /\ row' = [row EXCEPT ![i] = NewRow(ask, once)]

LEMMA RowMoves ==
    ASSUME Structure, [Next]_vars
    PROVE  \/ row' = row \/ Restart
           \/ \E i \in Ids : Joins(i)
           \/ \E a \in Admins : Decide(a) \/ ReadbackFails(a)
<1>1. ASSUME NEW r \in Requests, Request(r) \/ RequestOnce(r) \/ RequestFails(r)
      PROVE  row' = row \/ \E i \in Ids : Joins(i)
  <2>1. req[r].ask \in Asks
    BY <1>1 DEF Structure, RequestsInOrder, InOrder, Request, RequestOnce, RequestFails
  <2>2. CASE Request(r)
    BY <2>1, <2>2 DEF Request, Joins
  <2>3. CASE RequestOnce(r)
    BY <2>1, <2>3 DEF RequestOnce, Joins
  <2>4. CASE RequestFails(r)
    BY <2>1, <2>4 DEF RequestFails, Joins
  <2> QED BY <1>1, <2>2, <2>3, <2>4
<1>2. row' = row \/ Restart
      \/ (\E r \in Requests : Request(r) \/ RequestOnce(r) \/ RequestFails(r))
      \/ (\E a \in Admins : Decide(a) \/ ReadbackFails(a))
  BY DEF Next, vars, RequestStep, DecisionStep, Ask, Redeem, RedeemFails, Record,
         Answer, CutRequest, Open, ReadRow, Mint, DecideFails, Reply,
         CutDecision, Tick
<1> QED BY <1>1, <1>2

LEMMA QueueStep ==
    ASSUME Structure, [Next]_vars
    PROVE  \/ row' = row \/ Restart
           \/ \E i \in Ids : Joins(i) \/ ResolvesRow(i)
<1>1. ASSUME NEW a \in Admins, Decide(a) \/ ReadbackFails(a)
      PROVE  row' = row \/ \E i \in Ids : ResolvesRow(i)
  <2>1. adm[a].id \in Ids /\ adm[a].decision \in {"grant", "deny"}
    BY <1>1 DEF Structure, TypeOK, AdmSlot, DecisionsInOrder, Decide, ReadbackFails
  <2> QED BY <1>1, <2>1 DEF Decide, ReadbackFails, ResolvesRow
<1> QED BY <1>1, RowMoves

\* The rows a join, a decision and a restart leave.
LEMMA Joined ==
    ASSUME Structure, NEW i \in Ids, NEW ask \in Asks, NEW once \in BOOLEAN,
           row' = [row EXCEPT ![i] = NewRow(ask, once)]
    PROVE  /\ \A j \in Ids \ {i} : row'[j] = row[j]
           /\ row'[i].state = "pending" /\ row'[i].ask = ask /\ row'[i].once = once
  BY DEF Structure, TypeOK, NewRow

LEMMA Resolved ==
    ASSUME Structure, NEW i \in Ids, ResolvesRow(i)
    PROVE  /\ \A j \in Ids \ {i} : row'[j] = row[j]
           /\ row'[i].state # "pending"
  BY DEF Structure, TypeOK, Row, ResolvesRow

LEMMA Lost ==
    ASSUME Structure, Restart, row' # row
    PROVE  \A i \in Ids : row'[i].state # "pending"
  BY DEF Structure, TypeOK, Row, Restart

-----------------------------------------------------------------------------
(* One pending row for a call *)

LEMMA OnePendingStep ==
    ASSUME Structure, OnePendingPerCall, [Next]_vars
    PROVE  OnePendingPerCall'
<1>1. CASE row' = row
  BY <1>1 DEF OnePendingPerCall, SameCall
<1>2. CASE Restart /\ row' # row
  BY <1>2, Lost DEF OnePendingPerCall
<1>3. ASSUME NEW i \in Ids, Joins(i) PROVE OnePendingPerCall'
  <2>1. PICK ask \in Asks, once \in BOOLEAN :
          /\ once => SameCall(ask) = {}
          /\ row' = [row EXCEPT ![i] = NewRow(ask, once)]
    BY <1>3 DEF Joins
  <2>2. /\ \A j \in Ids \ {i} : row'[j] = row[j]
        /\ row'[i].state = "pending" /\ row'[i].ask = ask /\ row'[i].once = once
    BY <2>1, Joined
  <2>3. once => \A j \in Ids \ {i} :
                  ~(/\ row[j].state = "pending" /\ row[j].once
                    /\ row[j].ask.agent = ask.agent /\ row[j].ask.run = ask.run
                    /\ row[j].ask.digest = ask.digest)
    BY <2>1 DEF SameCall
  <2> QED BY <2>2, <2>3 DEF OnePendingPerCall, SameCall
<1>4. ASSUME NEW i \in Ids, ResolvesRow(i) PROVE OnePendingPerCall'
  BY <1>4, Resolved DEF OnePendingPerCall, SameCall
<1> QED BY <1>1, <1>2, <1>3, <1>4, QueueStep

\* Of the concurrent holds of one call by one agent and run, one writes a row
\* (CreateApprovalOnce), whatever fails or restarts.
THEOREM OnePendingRow == Spec => []OnePendingPerCall
<1>1. Init => OnePendingPerCall
  BY DEF Init, OnePendingPerCall, NoRow
<1>2. Structure /\ OnePendingPerCall /\ [Next]_vars => OnePendingPerCall'
  BY OnePendingStep
<1> QED BY <1>1, <1>2, StructureHolds, PTL DEF Spec

-----------------------------------------------------------------------------
(* The queue of an agent in memory *)

\* The floor's rows in an agent's queue.
Floors(ask) == {i \in Waiting(ask) : row[i].once}

QueueBounded ==
    ~Durable => \A ask \in Asks :
        IsFiniteSet(Waiting(ask)) /\ Cardinality(Floors(ask)) <= PendingLimit

LEMMA NoneWaiting == (\A i \in Ids : row[i].state # "pending") => QueueBounded
<1> SUFFICES ASSUME \A i \in Ids : row[i].state # "pending" PROVE QueueBounded
  OBVIOUS
<1>1. ASSUME NEW ask \in Asks PROVE Waiting(ask) = {} /\ Floors(ask) = {}
  BY DEF Waiting, Floors
<1>2. IsFiniteSet({}) /\ Cardinality({}) <= PendingLimit
  <2>1. IsFiniteSet({}) /\ Cardinality({}) = 0 /\ 0 <= PendingLimit
    BY FS_EmptySet, ConstantsAssumption
  <2> QED BY <2>1
<1> QED BY <1>1, <1>2 DEF QueueBounded

LEMMA QueueBoundedStep ==
    ASSUME Structure, QueueBounded, [Next]_vars
    PROVE  QueueBounded'
<1>1. CASE row' = row
  BY <1>1 DEF QueueBounded, Waiting, Floors
<1>2. CASE Restart /\ row' # row
  <2>1. (\A i \in Ids : row[i].state # "pending")'
    BY <1>2, Lost
  <2> QED BY <2>1, NoneWaiting, PTL
<1>3. ASSUME NEW i \in Ids, Joins(i), ~Durable, NEW ask \in Asks
      PROVE  IsFiniteSet(Waiting(ask)') /\ Cardinality(Floors(ask)') <= PendingLimit
  <2>1. PICK one \in Asks, once \in BOOLEAN :
          /\ once => ~AtLimit(one)
          /\ row' = [row EXCEPT ![i] = NewRow(one, once)]
    BY <1>3 DEF Joins
  <2>2. /\ \A j \in Ids \ {i} : row'[j] = row[j]
        /\ row'[i].state = "pending" /\ row'[i].ask = one /\ row'[i].once = once
    BY <2>1, Joined
  <2>3. /\ IsFiniteSet(Waiting(ask)) /\ Cardinality(Floors(ask)) <= PendingLimit
        /\ Floors(ask) \in SUBSET Waiting(ask) /\ row[i].state = "absent"
    BY <1>3 DEF QueueBounded, Floors, Joins
  <2>4. /\ IsFiniteSet(Floors(ask))
        /\ Cardinality(Floors(ask)) <= Cardinality(Waiting(ask))
        /\ Cardinality(Floors(ask)) \in Nat /\ Cardinality(Waiting(ask)) \in Nat
        /\ PendingLimit \in Nat
    BY <2>3, FS_Subset, FS_CardinalityType, ConstantsAssumption
  <2>5. /\ i \notin Waiting(ask)
        /\ Waiting(ask)' = Waiting(ask) \/ Waiting(ask)' = Waiting(ask) \cup {i}
    BY <2>2, <2>3 DEF Waiting
  <2>6. IsFiniteSet(Waiting(ask)')
    BY <2>3, <2>5, FS_AddElement
  <2>7. CASE once /\ one.agent = ask.agent
    <3>1. Floors(ask)' = Floors(ask) \cup {i} /\ i \notin Floors(ask)
      BY <2>2, <2>3, <2>7 DEF Floors, Waiting
    <3>2. Waiting(one) = Waiting(ask)
      BY <2>7 DEF Waiting
    <3>3. ~(Cardinality(Waiting(ask)) >= PendingLimit)
      BY <2>1, <2>7, <3>2 DEF AtLimit
    <3>4. Cardinality(Floors(ask) \cup {i}) = Cardinality(Floors(ask)) + 1
      BY <2>4, <3>1, FS_AddElement
    <3> QED BY <2>4, <2>6, <3>1, <3>3, <3>4
  <2>8. CASE ~(once /\ one.agent = ask.agent)
    <3>1. Floors(ask)' = Floors(ask)
      BY <2>2, <2>3, <2>8 DEF Floors, Waiting
    <3> QED BY <2>3, <2>6, <3>1
  <2> QED BY <2>7, <2>8
<1>4. ASSUME NEW i \in Ids, ResolvesRow(i), ~Durable, NEW ask \in Asks
      PROVE  IsFiniteSet(Waiting(ask)') /\ Cardinality(Floors(ask)') <= PendingLimit
  <2>1. /\ \A j \in Ids \ {i} : row'[j] = row[j]
        /\ row'[i].state # "pending"
    BY <1>4, Resolved
  <2>2. Waiting(ask)' \in SUBSET Waiting(ask) /\ Floors(ask)' \in SUBSET Floors(ask)
    BY <2>1 DEF Waiting, Floors
  <2>3. /\ IsFiniteSet(Waiting(ask)) /\ Cardinality(Floors(ask)) <= PendingLimit
        /\ Floors(ask) \in SUBSET Waiting(ask)
    BY <1>4 DEF QueueBounded, Floors
  <2>4. IsFiniteSet(Floors(ask)) /\ IsFiniteSet(Waiting(ask)')
    BY <2>2, <2>3, FS_Subset
  <2>5. /\ IsFiniteSet(Floors(ask)')
        /\ Cardinality(Floors(ask)') <= Cardinality(Floors(ask))
    BY <2>2, <2>4, FS_Subset
  <2>6. /\ Cardinality(Floors(ask)) \in Nat /\ Cardinality(Floors(ask)') \in Nat
        /\ PendingLimit \in Nat
    BY <2>4, <2>5, FS_CardinalityType, ConstantsAssumption
  <2> QED BY <2>3, <2>4, <2>5, <2>6
<1>5. (\E i \in Ids : Joins(i) \/ ResolvesRow(i)) => QueueBounded'
  BY <1>3, <1>4 DEF QueueBounded
<1> QED BY <1>1, <1>2, <1>5, QueueStep

\* In memory, an agent all of whose pending rows are the floor's has no more of
\* them than WARDRYX_PENDING_PER_AGENT.
THEOREM QueueKeepsItsLimit == Spec => []QueueWithinLimit
<1>1. Init => QueueBounded
  BY NoneWaiting DEF Init, NoRow
<1>2. Structure /\ QueueBounded /\ [Next]_vars => QueueBounded'
  BY QueueBoundedStep
<1>3. QueueBounded => QueueWithinLimit
  <2>1. SUFFICES ASSUME QueueBounded, ~Durable, NEW ask \in Asks,
                        \A i \in Waiting(ask) : row[i].once
                 PROVE  Cardinality(Waiting(ask)) <= PendingLimit
    BY DEF QueueWithinLimit
  <2>2. Floors(ask) = Waiting(ask)
    BY <2>1 DEF Floors
  <2> QED BY <2>1, <2>2 DEF QueueBounded
<1> QED BY <1>1, <1>2, <1>3, StructureHolds, PTL DEF Spec

-----------------------------------------------------------------------------
(* The record of the answers *)

\* Under the closed mode a handler that answers an allow or a hold has recorded it.
Recorded ==
    ~RecordOpen =>
        /\ unlogged = {}
        /\ \A r \in Requests :
             req[r].pc = "answer" => req[r].verdict = "deny" \/ req[r].logged

LEMMA RecordedStep ==
    ASSUME Structure, Recorded, [Next]_vars
    PROVE  Recorded'
<1>0. req \in [Requests -> ReqSlot]
  BY DEF Structure, TypeOK
<1>1. ASSUME ~RecordOpen PROVE unlogged' = {}
  <2>1. unlogged' = unlogged \/ \E r \in Requests : Answer(r)
    BY DEF Next, vars, RequestStep, DecisionStep, Ask, Redeem, RedeemFails, Request,
           RequestOnce, RequestFails, Record, CutRequest, Open, ReadRow, Mint, Decide,
           DecideFails, ReadbackFails, Reply, CutDecision, Tick, Restart
  <2> QED BY <1>1, <2>1 DEF Recorded, Answer
<1>2. ASSUME ~RecordOpen, NEW r \in Requests, req'[r].pc = "answer"
      PROVE  req'[r].verdict = "deny" \/ req'[r].logged
  <2>1. CASE req'[r] = req[r]
    BY <1>2, <2>1 DEF Recorded
  <2>2. CASE req'[r] = IdleReq \/ req'[r] = Answering("record", "hold")
    BY <1>2, <2>2, EmptySlots
  <2>3. CASE Ask(r)
    <3>1. PICK ask \in Asks, t \in delivered \cup {NoToken},
           text \in Texts, gate \in Gates :
            LET v == Verdict(ask, t, gate) IN
            req' = [req EXCEPT ![r] =
                  IF v = "deny" \/ gate = "free"
                    THEN Answering(After(v, gate), v)
                    ELSE [pc |-> After(v, gate), ask |-> ask, tok |-> t,
                          text |-> TextOf(v, text), gate |-> gate, verdict |-> v,
                          logged |-> FALSE]]
      BY <2>3 DEF Ask
    <3> DEFINE v == Verdict(ask, t, gate)
               pc == After(v, gate)
    <3>2. v \in {"allow", "deny", "hold"}
      BY DEF Verdict
    <3>3. v # "deny" => pc # "answer"
      BY <3>2 DEF After
    <3>4. /\ Answering(pc, v).pc = pc /\ Answering(pc, v).verdict = v
          /\ [pc |-> pc, ask |-> ask, tok |-> t, text |-> TextOf(v, text), gate |-> gate,
              verdict |-> v, logged |-> FALSE].pc = pc
      BY DEF Answering, IdleReq
    <3>5. req'[r] = IF v = "deny" \/ gate = "free" THEN Answering(pc, v)
                    ELSE [pc |-> pc, ask |-> ask, tok |-> t, text |-> TextOf(v, text),
                          gate |-> gate, verdict |-> v, logged |-> FALSE]
      BY <1>0, <3>1
    <3> HIDE DEF v, pc
    <3> QED BY <1>2, <3>2, <3>3, <3>4, <3>5
  <2>4. CASE Redeem(r)
    <3>1. req'[r] = [req[r] EXCEPT !.pc = "record"]
          \/ req'[r] = [req[r] EXCEPT !.pc = "hold", !.verdict = "hold", !.tok = NoToken,
                                !.text = NoText]
      BY <1>0, <2>4 DEF Redeem
    <3>2. req[r] \in ReqSlot
      BY <1>0
    <3> QED BY <1>2, <3>1, <3>2 DEF ReqSlot
  <2>5. CASE Record(r)
    <3>1. \/ req'[r] = [req[r] EXCEPT !.pc = "answer", !.logged = TRUE]
          \/ req'[r] = IdleReq
      BY <1>0, <1>2, <2>5 DEF Record
    <3>2. req[r] \in ReqSlot
      BY <1>0
    <3> QED BY <1>2, <3>1, <3>2, EmptySlots DEF ReqSlot
  <2> QED BY <2>1, <2>2, <2>3, <2>4, <2>5, RequestSlotStep
<1> QED BY <1>1, <1>2 DEF Recorded

\* Under the closed fail mode no allow and no hold is answered that the record lacks.
THEOREM NothingUnrecorded == Spec => []AnswersAreRecorded
<1>1. Init => Recorded
  BY EmptySlots DEF Init, Recorded
<1>2. Structure /\ Recorded /\ [Next]_vars => Recorded'
  BY RecordedStep
<1>3. Recorded => AnswersAreRecorded
  BY DEF Recorded, AnswersAreRecorded
<1> QED BY <1>1, <1>2, <1>3, StructureHolds, PTL DEF Spec

-----------------------------------------------------------------------------
(* The token of a grant *)

\* What takes a grant's token away: an answer that does not arrive, and, where the
\* row outlives it, a handler that dies or reads nothing back once the row is decided.
GrantsKept == /\ "reply" \notin Faults
              /\ Durable => {"readback", "cut"} \cap Faults = {}

\* A handler that answers a grant leaves its token with the caller.
LEMMA AnsweredSlot ==
    ASSUME Structure, [Next]_vars, GrantsKept, NEW a \in Admins,
           adm[a].pc = "reply", adm[a].tok # NoToken
    PROVE  adm'[a] = adm[a] \/ adm[a].tok \in delivered' \/ Restart
<1>1. adm \in [Admins -> AdmSlot] /\ adm[a].decision = "grant"
  BY DEF Structure, TypeOK, DecisionsInOrder
<1>2. ASSUME NEW b \in Admins, b # a, Open(b) \/ DecisionStep(b) \/ CutDecision(b)
      PROVE  adm'[a] = adm[a]
  BY <1>1, <1>2 DEF Open, DecisionStep, ReadRow, Mint, Decide, DecideFails,
                    ReadbackFails, Reply, CutDecision
<1>3. CASE Open(a) \/ DecisionStep(a)
  <2>1. Reply(a)
    BY <1>3 DEF Open, DecisionStep, ReadRow, Mint, Decide, DecideFails, ReadbackFails
  <2> QED BY <1>1, <2>1 DEF Reply, GrantsKept
<1>4. ~CutDecision(a)
  BY DEF CutDecision, GrantsKept
<1>5. \/ adm' = adm \/ Restart
      \/ \E b \in Admins : Open(b) \/ DecisionStep(b) \/ CutDecision(b)
  BY DEF Next, vars, RequestStep, Ask, Redeem, RedeemFails, Request, RequestOnce,
         RequestFails, Record, Answer, CutRequest, Tick
<1> QED BY <1>2, <1>3, <1>4, <1>5

\* A row becomes granted by a handler that goes on to answer.
LEMMA GrantedStep ==
    ASSUME Structure, [Next]_vars, GrantsKept, NEW i \in Ids,
           row[i].state # "grant", row'[i].state = "grant"
    PROVE  \E a \in Admins : /\ Decide(a) /\ adm[a].id = i
                             /\ adm[a].decision = "grant"
                             /\ adm'[a].pc = "reply" /\ adm'[a].tok = adm[a].tok
<1>0. row \in [Ids -> Row]
  BY DEF Structure, TypeOK
<1>1. ~Restart
  BY <1>0 DEF Restart, Row
<1>2. ASSUME NEW j \in Ids, Joins(j) PROVE FALSE
  BY <1>0, <1>2 DEF Joins, NewRow
<1>3. PICK a \in Admins : Decide(a)
  <2>1. ASSUME NEW a \in Admins PROVE ~ReadbackFails(a)
    BY DEF ReadbackFails, GrantsKept
  <2>2. row' # row
    OBVIOUS
  <2> QED BY <1>1, <1>2, <2>1, <2>2, RowMoves
<1>4. row' # row
  OBVIOUS
<1>5. row' = [row EXCEPT ![adm[a].id].state = adm[a].decision] /\ adm'[a] # IdleAdm
  <2>1. adm \in [Admins -> AdmSlot]
    BY DEF Structure, TypeOK
  <2>2. [adm[a] EXCEPT !.pc = "reply"] # IdleAdm
    BY <2>1 DEF AdmSlot, IdleAdm
  <2> QED BY <1>3, <1>4, <2>1, <2>2 DEF Decide
<1>6. adm[a].id = i /\ adm[a].decision = "grant"
  BY <1>0, <1>5
<1>7. TypeOK
  BY DEF Structure
<1> QED BY <1>3, <1>5, <1>6, <1>7, DecidingSlot

LEMMA GrantTokenStep ==
    ASSUME Structure, GrantKeepsItsToken, [Next]_vars, GrantsKept
    PROVE  GrantKeepsItsToken'
<1>0. adm \in [Admins -> AdmSlot] /\ DecisionsInOrder
  BY DEF Structure, TypeOK
<1> SUFFICES ASSUME NEW i \in Ids, row'[i].state = "grant"
             PROVE  \E t \in delivered' \cup
                             {adm'[a].tok : a \in {b \in Admins : adm'[b].pc = "reply"}} :
                      t # NoToken /\ minted'[t].id = i
  BY DEF GrantKeepsItsToken
<1>1. ~Restart
  <2> SUFFICES ASSUME Restart PROVE FALSE
    OBVIOUS
  <2>1. row \in [Ids -> Row]
    BY DEF Structure, TypeOK
  <2>2. ~Durable
    BY DEF Restart, GrantsKept
  <2> QED BY <2>1, <2>2 DEF Restart, Row
<1>2. CASE row[i].state = "grant"
  <2>1. PICK t \in delivered \cup
                     {adm[a].tok : a \in {b \in Admins : adm[b].pc = "reply"}} :
               t # NoToken /\ minted[t].id = i
    BY <1>2 DEF GrantKeepsItsToken
  <2>2. CASE t \in delivered
    BY <2>1, <2>2, DeliveredKept
  <2>3. ASSUME NEW a \in Admins, adm[a].pc = "reply", t = adm[a].tok
        PROVE  minted'[t] = minted[t] /\ (adm'[a] = adm[a] \/ t \in delivered')
    <3>1. t \in Tokens /\ minted[t] # NoClaims
      BY <1>0, <2>1, <2>3 DEF AdmSlot, DecisionsInOrder
    <3> QED BY <1>1, <2>1, <2>3, <3>1, MintingStep, AnsweredSlot
  <2> QED BY <2>1, <2>2, <2>3
<1>3. CASE row[i].state # "grant"
  <2>1. PICK a \in Admins : /\ Decide(a) /\ adm[a].id = i
                            /\ adm[a].decision = "grant"
                            /\ adm'[a].pc = "reply" /\ adm'[a].tok = adm[a].tok
    BY <1>3, GrantedStep
  <2>2. /\ adm[a].pc = "write" /\ minted' = minted
        /\ adm[a].tok # NoToken /\ minted[adm[a].tok].id = i
    BY <1>0, <2>1 DEF Decide, DecisionsInOrder
  <2> QED BY <2>1, <2>2
<1> QED BY <1>2, <1>3

\* A recorded grant has its token, with whoever asked for the decision or with the
\* handler about to answer it, unless the answer is lost, or the handler between the
\* UPDATE and its answer; no error of the store before the UPDATE, no failure to
\* sign and no race of two admins takes it away.
THEOREM GrantHasToken ==
    ASSUME GrantsKept
    PROVE  Spec => []GrantKeepsItsToken
<1>1. Init => GrantKeepsItsToken
  BY DEF Init, GrantKeepsItsToken, NoRow
<1>2. Structure /\ GrantKeepsItsToken /\ [Next]_vars => GrantKeepsItsToken'
  BY GrantTokenStep
<1> QED BY <1>1, <1>2, StructureHolds, PTL DEF Spec

-----------------------------------------------------------------------------
(* What the contract gives the code *)

\* A release was of a request that the held one covers, and its approval was granted.
ReleasedWasGranted ==
    \A i \in Ids, x \in Texts : allows[<<i, x>>].n # 0 =>
        /\ row[i].state = "grant"
        /\ Contract!Covers(row[i].ask, allows[<<i, x>>].ask)

\* A step of the contract changes no decision that was made.
DecisionStands ==
    \A i \in Ids : row[i].state \in {"grant", "deny"} => row'[i].state = row[i].state
                                                         /\ row'[i].ask = row[i].ask

LEMMA ReleasedStep ==
    ASSUME TypeOK, ReleasedWasGranted, [Contract!CNext]_(Contract!cvars)
    PROVE  ReleasedWasGranted'
<1> DEFINE state == [i \in Ids |-> row[i].state]
           held  == [i \in Ids |-> row[i].ask]
<1>0. allows \in [Ids \X Texts -> [n : 0..MaxAllows, ask : Asks \cup {NoAsk}]]
  BY DEF TypeOK
<1>1. CASE UNCHANGED <<state, held, allows>>
  <2>1. \A i \in Ids : state'[i] = state[i] /\ held'[i] = held[i]
    BY <1>1
  <2>2. \A i \in Ids : row'[i].state = row[i].state /\ row'[i].ask = row[i].ask
    BY <2>1
  <2> QED BY <1>1, <2>2 DEF ReleasedWasGranted
<1>2. ASSUME NEW i \in Ids, Contract!Hold(i) \/ Contract!Resolve(i)
      PROVE  ReleasedWasGranted'
  <2>1. /\ allows' = allows /\ state[i] \in {"absent", "pending"}
        /\ \A j \in Ids \ {i} : state'[j] = state[j] /\ held'[j] = held[j]
    BY <1>2 DEF Contract!Hold, Contract!Resolve
  <2>2. /\ row[i].state \in {"absent", "pending"}
        /\ \A j \in Ids \ {i} : row'[j].state = row[j].state /\ row'[j].ask = row[j].ask
    BY <2>1
  <2> QED BY <2>1, <2>2 DEF ReleasedWasGranted
<1>3. ASSUME NEW i \in Ids, NEW x \in Texts, Contract!Release(i, x)
      PROVE  ReleasedWasGranted'
  <2>1. PICK ask \in Asks :
          /\ state[i] = "grant" /\ state' = state /\ held' = held
          /\ Contract!Covers(held[i], ask)
          /\ allows' = [allows EXCEPT ![<<i, x>>] = [n |-> 1, ask |-> ask]]
    BY <1>3 DEF Contract!Release
  <2>2. \A j \in Ids : row'[j].state = row[j].state /\ row'[j].ask = row[j].ask
    <3>1. \A j \in Ids : state'[j] = state[j] /\ held'[j] = held[j]
      BY <2>1
    <3> QED BY <3>1
  <2>3. row[i].state = "grant" /\ Contract!Covers(row[i].ask, ask)
    BY <2>1
  <2>4. /\ allows'[<<i, x>>].ask = ask
        /\ \A j \in Ids, y \in Texts : <<j, y>> # <<i, x>> =>
             allows'[<<j, y>>] = allows[<<j, y>>]
    BY <1>0, <2>1
  <2>5. ASSUME NEW j \in Ids, NEW y \in Texts, allows'[<<j, y>>].n # 0
        PROVE  row'[j].state = "grant" /\ Contract!Covers(row'[j].ask, allows'[<<j, y>>].ask)
    <3>1. CASE <<j, y>> = <<i, x>>
      BY <2>2, <2>3, <2>4, <3>1
    <3>2. CASE <<j, y>> # <<i, x>>
      BY <2>2, <2>4, <2>5, <3>2 DEF ReleasedWasGranted
    <3> QED BY <3>1, <3>2
  <2> QED BY <2>5 DEF ReleasedWasGranted
<1> QED BY <1>1, <1>2, <1>3 DEF Contract!CNext, Contract!cvars

\* With single use on and a store that survives: what a grant released is of a
\* request that the one held covers, and the approval of a release stays granted.
THEOREM ReleasesWereGranted ==
    ASSUME SingleUse, Durable
    PROVE  Spec => []ReleasedWasGranted
<1>1. Init => ReleasedWasGranted
  BY DEF Init, ReleasedWasGranted
<1>2. TypeOK /\ ReleasedWasGranted /\ [Contract!CNext]_(Contract!cvars)
      => ReleasedWasGranted'
  BY ReleasedStep
<1> QED BY <1>1, <1>2, TypeCorrect, ContractHolds, PTL
        DEF Spec, ImplementsContract, Contract!CSpec

\* In a store that survives no step, of whatever handlers race, changes a decision
\* once it is made, or what it was made about.
THEOREM DecisionsStand ==
    ASSUME Durable
    PROVE  Spec => [][DecisionStands]_vars
<1>1. Structure /\ [Next]_vars => DecisionStands
  <2> SUFFICES ASSUME Structure, [Next]_vars PROVE DecisionStands
    OBVIOUS
  <2>0. row \in [Ids -> Row]
    BY DEF Structure, TypeOK
  <2>1. ASSUME NEW i \in Ids, HoldsRow(i) \/ ResolvesRow(i) PROVE DecisionStands
    BY <2>0, <2>1 DEF HoldsRow, ResolvesRow, DecisionStands
  <2> QED BY <2>1, RowsStep DEF DecisionStands
<1> QED BY <1>1, StructureHolds, PTL DEF Spec
-----------------------------------------------------------------------------
(* The engine's answer and the gates of the approval path *)

\* No rule before the gates reads the token of a question, nor does what puts a
\* gate there.
LEMMA GatesReadNoToken ==
    ASSUME NEW b \in Bodies, NEW class, NEW set
    PROVE  LET p == Presented(b, class)
               q == b.question
           IN /\ p.token = class
              /\ Engine!MatchIn(set, p) = Engine!MatchIn(set, q)
              /\ \A M : Engine!heldWithoutGrant(M, p) <=> Engine!heldWithoutGrant(M, q)
              /\ GateOf(set, p) = GateOf(set, q)
<1> DEFINE p == Presented(b, class)
           q == b.question
<1>1. /\ p.token = class
      /\ p.agent = q.agent /\ p.org = q.org /\ p.tools = q.tools /\ p.call = q.call
      /\ p.cost = q.cost /\ p.chain = q.chain /\ p.proven = q.proven
      /\ p.attested = q.attested /\ p.source = q.source /\ p.model = q.model
      /\ p.steps = q.steps /\ p.domains = q.domains /\ p.signals = q.signals
  <2>1. DOMAIN q = {"agent", "org", "tools", "call", "cost", "chain", "proven", "attested",
                    "source", "model", "steps", "domains", "signals", "token"}
    BY PathAssumption DEF Engine!RequestFields
  <2> HIDE DEF q
  <2>2. p = [q EXCEPT !.token = class]
    BY DEF Presented, q
  <2> HIDE DEF p
  <2> QED BY <2>1, <2>2, SMT
<1> HIDE DEF p, q
<1>2. Engine!MatchIn(set, p) = Engine!MatchIn(set, q)
  BY <1>1 DEF Engine!MatchIn
<1>3. Engine!requestedTools(p) = Engine!requestedTools(q)
  BY <1>1 DEF Engine!requestedTools
<1>4. ASSUME NEW M
      PROVE  /\ Engine!Denied(M, p) <=> Engine!Denied(M, q)
             /\ Engine!overThreshold(M, p) <=> Engine!overThreshold(M, q)
             /\ Engine!heldBySignal(M, p) <=> Engine!heldBySignal(M, q)
             /\ Engine!callMustBeBound(M, p) <=> Engine!callMustBeBound(M, q)
             /\ Engine!heldWithoutGrant(M, p) <=> Engine!heldWithoutGrant(M, q)
  <2>1. /\ Engine!deniedTool(M, p) <=> Engine!deniedTool(M, q)
        /\ Engine!outsideAllowTool(M, p) <=> Engine!outsideAllowTool(M, q)
    BY <1>3 DEF Engine!deniedTool, Engine!outsideAllowTool
  <2>2. /\ Engine!chainDepthExceeded(M, p) <=> Engine!chainDepthExceeded(M, q)
        /\ Engine!rootPrincipalRefused(M, p) <=> Engine!rootPrincipalRefused(M, q)
        /\ Engine!chainUnproven(M, p) <=> Engine!chainUnproven(M, q)
    BY <1>1 DEF Engine!chainDepthExceeded, Engine!rootPrincipalRefused, Engine!chainUnproven
  <2>3. /\ Engine!unattestedDenied(M, p) <=> Engine!unattestedDenied(M, q)
        /\ Engine!identitySourceRefused(M, p) <=> Engine!identitySourceRefused(M, q)
        /\ Engine!modelRefused(M, p) <=> Engine!modelRefused(M, q)
    BY <1>1 DEF Engine!unattestedDenied, Engine!identitySourceRefused, Engine!modelRefused
  <2>4. /\ Engine!exceededMaxSteps(M, p) <=> Engine!exceededMaxSteps(M, q)
        /\ Engine!deniedDomain(M, p) <=> Engine!deniedDomain(M, q)
        /\ Engine!deniedAboveCeiling(M, p) <=> Engine!deniedAboveCeiling(M, q)
        /\ Engine!overThreshold(M, p) <=> Engine!overThreshold(M, q)
    BY <1>1 DEF Engine!exceededMaxSteps, Engine!deniedDomain, Engine!deniedAboveCeiling,
                Engine!overThreshold
  <2>5. Engine!Denied(M, p) <=> Engine!Denied(M, q)
    BY <2>1, <2>2, <2>3, <2>4, Zenon DEF Engine!Denied
  <2>6. \A pol : /\ Engine!holdsOnSignal(pol, p) <=> Engine!holdsOnSignal(pol, q)
                 /\ Engine!holdsOnAbsence(pol, p) <=> Engine!holdsOnAbsence(pol, q)
    BY <1>1 DEF Engine!holdsOnSignal, Engine!holdsOnAbsence, Engine!Named
  <2>7. /\ Engine!heldBySignal(M, p) <=> Engine!heldBySignal(M, q)
        /\ Engine!callMustBeBound(M, p) <=> Engine!callMustBeBound(M, q)
    BY <2>6, Zenon DEF Engine!heldBySignal, Engine!callMustBeBound
  <2>8. Engine!heldWithoutGrant(M, p) <=> Engine!heldWithoutGrant(M, q)
    BY <1>1, <1>3 DEF Engine!heldWithoutGrant
  <2> QED BY <2>4, <2>5, <2>7, <2>8
<1>5. GateOf(set, p) = GateOf(set, q)
  <2> DEFINE M == Engine!MatchIn(set, q)
  <2>1. Engine!MatchIn(set, p) = M
    BY <1>2
  <2> HIDE DEF M
  <2>2. /\ Engine!Denied(M, p) <=> Engine!Denied(M, q)
        /\ Engine!overThreshold(M, p) <=> Engine!overThreshold(M, q)
        /\ Engine!heldBySignal(M, p) <=> Engine!heldBySignal(M, q)
        /\ Engine!callMustBeBound(M, p) <=> Engine!callMustBeBound(M, q)
        /\ Engine!heldWithoutGrant(M, p) <=> Engine!heldWithoutGrant(M, q)
    BY <1>4
  <2>3. GateOf(set, p) =
          IF (q.chain.length > 0 /\ ~q.chain.valid) \/ Engine!Denied(M, p) THEN "deny"
          ELSE IF Engine!overThreshold(M, p)
            THEN IF Engine!heldWithoutGrant(M, p) THEN "costBound" ELSE "cost"
          ELSE IF Engine!heldBySignal(M, p)
            THEN IF Engine!callMustBeBound(M, p) \/ Engine!heldWithoutGrant(M, p)
                   THEN "signalBound" ELSE "signal"
          ELSE IF Engine!heldWithoutGrant(M, p) THEN "floor" ELSE "free"
    BY <1>1, <2>1, Zenon DEF GateOf
  <2>4. GateOf(set, q) =
          IF (q.chain.length > 0 /\ ~q.chain.valid) \/ Engine!Denied(M, q) THEN "deny"
          ELSE IF Engine!overThreshold(M, q)
            THEN IF Engine!heldWithoutGrant(M, q) THEN "costBound" ELSE "cost"
          ELSE IF Engine!heldBySignal(M, q)
            THEN IF Engine!callMustBeBound(M, q) \/ Engine!heldWithoutGrant(M, q)
                   THEN "signalBound" ELSE "signal"
          ELSE IF Engine!heldWithoutGrant(M, q) THEN "floor" ELSE "free"
    BY Zenon DEF GateOf, M
  <2> QED BY <2>2, <2>3, <2>4
<1> QED BY <1>1, <1>2, <1>4, <1>5 DEF p, q

\* What the engine answers a question at each gate.
LEMMA AnswersAtGates ==
    ASSUME NEW set, NEW q
    PROVE  LET gate == GateOf(set, q)
               resp == Engine!Decide(set, q)
               lifted == Engine!Verify(q, gate \in BoundGates)
           IN /\ gate \in HoldGates \cup {"free", "deny"}
              /\ gate = "free" => resp.decision = "allow"
              /\ gate = "deny" => resp.decision = "deny"
              /\ gate \in CostGates =>
                   resp.decision = IF lifted THEN "allow"
                                   ELSE IF q.token = "none" THEN "hold" ELSE "deny"
              /\ gate \in {"signal", "signalBound", "floor"} =>
                   resp.decision = IF lifted THEN "allow" ELSE "hold"
              /\ resp.tokenRequired <=> gate \in HoldGates
              /\ resp.noGrant <=> gate = "floor"
<1> DEFINE M == Engine!MatchIn(set, q)
           c == ~Engine!requestSpecific(M, q.call # NoCall)
           bad == q.chain.length > 0 /\ ~q.chain.valid
           denied == Engine!Denied(M, q)
           cost == Engine!overThreshold(M, q)
           signal == Engine!heldBySignal(M, q)
           bound == Engine!callMustBeBound(M, q)
           floor == Engine!heldWithoutGrant(M, q)
           gate == GateOf(set, q)
           resp == Engine!Decide(set, q)
           lifted == Engine!Verify(q, gate \in BoundGates)
           costResp == Engine!costGate(M, q)
<1>1. gate = IF bad \/ denied THEN "deny"
             ELSE IF cost THEN IF floor THEN "costBound" ELSE "cost"
             ELSE IF signal THEN IF bound \/ floor THEN "signalBound" ELSE "signal"
             ELSE IF floor THEN "floor" ELSE "free"
  BY Zenon DEF GateOf
<1>2. resp = IF bad THEN Engine!Respond("deny", FALSE, FALSE, FALSE)
             ELSE IF denied THEN Engine!Respond("deny", FALSE, FALSE, c)
             ELSE IF cost THEN Engine!Respond(costResp.decision, costResp.required, FALSE, c)
             ELSE IF signal THEN Engine!Respond(Engine!signalGate(M, q), TRUE, FALSE, c)
             ELSE IF floor THEN Engine!Respond(Engine!floorGate(q), TRUE, TRUE, c)
             ELSE Engine!Respond("allow", FALSE, FALSE, c)
  BY Zenon DEF Engine!Decide
<1>3. ASSUME NEW d, NEW t, NEW n, NEW k, resp = Engine!Respond(d, t, n, k)
      PROVE  resp.decision = d /\ resp.tokenRequired = t /\ resp.noGrant = n
  <2> HIDE DEF resp
  <2> QED BY <1>3 DEF Engine!Respond
<1>4. /\ "costBound" \in BoundGates /\ "signalBound" \in BoundGates /\ "floor" \in BoundGates
      /\ "cost" \notin BoundGates /\ "signal" \notin BoundGates
  BY DEF BoundGates
<1>5. /\ \A g : g \in HoldGates <=> g \in {"cost", "costBound", "signal", "signalBound", "floor"}
      /\ \A g : g \in CostGates <=> g \in {"cost", "costBound"}
  BY DEF HoldGates, BoundGates, CostGates
<1>6. CASE bad \/ denied
  <2>1. gate = "deny"
    BY <1>1, <1>6, Zenon
  <2>2. \/ resp = Engine!Respond("deny", FALSE, FALSE, FALSE)
        \/ resp = Engine!Respond("deny", FALSE, FALSE, c)
    BY <1>2, <1>6, Zenon
  <2>3. resp.decision = "deny" /\ resp.tokenRequired = FALSE /\ resp.noGrant = FALSE
    BY <1>3, <2>2, Zenon
  <2> HIDE DEF gate, resp, lifted
  <2> QED BY <1>5, <2>1, <2>3 DEF gate, resp, lifted
<1>7. CASE ~(bad \/ denied) /\ cost
  <2>1. gate = IF floor THEN "costBound" ELSE "cost"
    BY <1>1, <1>7, Zenon
  <2>2. resp = Engine!Respond(costResp.decision, costResp.required, FALSE, c)
    BY <1>2, <1>7, Zenon
  <2>3. /\ resp.decision = costResp.decision /\ resp.tokenRequired = costResp.required
        /\ resp.noGrant = FALSE
    BY <1>3, <2>2, Zenon
  <2>4. lifted <=> Engine!Verify(q, floor)
    <3>1. CASE floor
      <4>1. gate \in BoundGates
        BY <1>4, <2>1, <3>1, Zenon
      <4> QED BY <3>1, <4>1, Zenon DEF Engine!Verify
    <3>2. CASE ~floor
      <4>1. gate \notin BoundGates
        BY <1>4, <2>1, <3>2, Zenon
      <4> QED BY <3>2, <4>1, Zenon DEF Engine!Verify
    <3> QED BY <3>1, <3>2
  <2>5. costResp = IF Engine!Verify(q, floor) THEN [decision |-> "allow", required |-> TRUE]
                   ELSE IF q.token = "none" THEN [decision |-> "hold", required |-> TRUE]
                   ELSE [decision |-> "deny", required |-> TRUE]
    BY Zenon DEF Engine!costGate
  <2> DEFINE verified == Engine!Verify(q, floor)
  <2> HIDE DEF gate, resp, lifted, costResp, verified, floor
  <2>6. /\ costResp.decision = IF verified THEN "allow"
                               ELSE IF q.token = "none" THEN "hold" ELSE "deny"
        /\ costResp.required = TRUE
    BY <2>5 DEF verified
  <2>7. gate \in {"cost", "costBound"}
    BY <2>1
  <2> QED BY <1>5, <2>3, <2>4, <2>6, <2>7 DEF verified, gate, resp, lifted
<1>8. CASE ~(bad \/ denied) /\ ~cost /\ signal
  <2>1. gate = IF bound \/ floor THEN "signalBound" ELSE "signal"
    BY <1>1, <1>8, Zenon
  <2>2. resp = Engine!Respond(Engine!signalGate(M, q), TRUE, FALSE, c)
    BY <1>2, <1>8, Zenon
  <2>3. /\ resp.decision = Engine!signalGate(M, q) /\ resp.tokenRequired = TRUE
        /\ resp.noGrant = FALSE
    BY <1>3, <2>2, Zenon
  <2>4. lifted <=> Engine!Verify(q, bound \/ floor)
    <3>1. CASE bound \/ floor
      <4>1. gate \in BoundGates
        BY <1>4, <2>1, <3>1, Zenon
      <4> QED BY <3>1, <4>1, Zenon DEF Engine!Verify
    <3>2. CASE ~(bound \/ floor)
      <4>1. gate \notin BoundGates
        BY <1>4, <2>1, <3>2, Zenon
      <4> QED BY <3>2, <4>1, Zenon DEF Engine!Verify
    <3> QED BY <3>1, <3>2
  <2>5. resp.decision = IF lifted THEN "allow" ELSE "hold"
    BY <2>3, <2>4, Zenon DEF Engine!signalGate
  <2> HIDE DEF gate, resp, lifted, bound, floor
  <2>6. gate \in {"signal", "signalBound"}
    BY <2>1
  <2> QED BY <1>5, <2>3, <2>5, <2>6 DEF gate, resp, lifted
<1>9. CASE ~(bad \/ denied) /\ ~cost /\ ~signal /\ floor
  <2>1. gate = "floor"
    BY <1>1, <1>9, Zenon
  <2>2. resp = Engine!Respond(Engine!floorGate(q), TRUE, TRUE, c)
    BY <1>2, <1>9, Zenon
  <2>3. /\ resp.decision = Engine!floorGate(q) /\ resp.tokenRequired = TRUE
        /\ resp.noGrant = TRUE
    BY <1>3, <2>2, Zenon
  <2>4. gate \in BoundGates
    BY <1>4, <2>1, Zenon
  <2>5. resp.decision = IF lifted THEN "allow" ELSE "hold"
    BY <2>3, <2>4, Zenon DEF Engine!floorGate, Engine!Verify
  <2> HIDE DEF gate, resp, lifted
  <2> QED BY <1>5, <2>1, <2>3, <2>5 DEF gate, resp, lifted
<1>10. CASE ~(bad \/ denied) /\ ~cost /\ ~signal /\ ~floor
  <2>1. gate = "free"
    BY <1>1, <1>10, Zenon
  <2>2. resp = Engine!Respond("allow", FALSE, FALSE, c)
    BY <1>2, <1>10, Zenon
  <2>3. resp.decision = "allow" /\ resp.tokenRequired = FALSE /\ resp.noGrant = FALSE
    BY <1>3, <2>2, Zenon
  <2> HIDE DEF gate, resp, lifted
  <2> QED BY <1>5, <2>1, <2>3 DEF gate, resp, lifted
<1> HIDE DEF bad, denied, cost, signal, floor, gate, resp, lifted
<1> QED BY <1>6, <1>7, <1>8, <1>9, <1>10, Zenon DEF gate, resp, lifted

\* What the engine learns of a token is what Approvals lifts a gate by.
LEMMA TokensVerify ==
    ASSUME NEW b \in Bodies, NEW t \in Tokens \cup {NoToken}, NEW gate, NEW q,
           q = Presented(b, TokenClass(t, AskOf(b)))
    PROVE  /\ Engine!Verify(q, gate \in BoundGates) <=> Lifts(t, AskOf(b), gate)
           /\ q.token = "none" <=> t = NoToken
<1> DEFINE ask == AskOf(b)
           loose == Lifts(t, ask, "cost")
           strict == Lifts(t, ask, "floor")
<1>1. q.token = TokenClass(t, ask)
  BY GatesReadNoToken
<1>2. /\ strict => loose
      /\ gate \in BoundGates => (Lifts(t, ask, gate) <=> strict)
      /\ gate \notin BoundGates => (Lifts(t, ask, gate) <=> loose)
      /\ t = NoToken => ~loose
  BY ConstantsAssumption DEF Lifts, BoundGates
<1> HIDE DEF ask, loose, strict
<1>3. q.token = IF t = NoToken THEN "none"
                ELSE IF strict THEN "bound" ELSE IF loose THEN "unbound" ELSE "refused"
  BY <1>1, Zenon DEF TokenClass, ask, loose, strict
<1>4. /\ Engine!VerifyBoundToCall(q) <=> strict
      /\ Engine!VerifyForCall(q) <=> loose
      /\ q.token = "none" <=> t = NoToken
  BY <1>2, <1>3 DEF Engine!VerifyBoundToCall, Engine!VerifyForCall
<1>5. Engine!Verify(q, gate \in BoundGates) <=>
        IF gate \in BoundGates THEN Engine!VerifyBoundToCall(q) ELSE Engine!VerifyForCall(q)
  BY Zenon DEF Engine!Verify
<1> QED BY <1>2, <1>4, <1>5 DEF ask

\* A gate that wants a token bound to the call stands in front of a call only.
LEMMA BoundGatesHaveCalls ==
    ASSUME NEW b \in Bodies, NEW set
    PROVE  /\ GateOf(set, b.question) \in BoundGates => AskOf(b).digest # NoDigest
           /\ Engine!heldWithoutGrant(Engine!MatchIn(set, b.question), b.question)
              /\ GateOf(set, b.question) \in HoldGates
              => GateOf(set, b.question) \in BoundGates
<1> DEFINE q == b.question
           M == Engine!MatchIn(set, q)
           gate == GateOf(set, q)
<1>1. gate \in BoundGates => Engine!heldWithoutGrant(M, q) \/ Engine!callMustBeBound(M, q)
  BY DEF GateOf, BoundGates
<1>2. Engine!heldWithoutGrant(M, q) /\ gate \in HoldGates => gate \in BoundGates
  BY DEF GateOf, BoundGates, HoldGates
<1>3. Engine!heldWithoutGrant(M, q) \/ Engine!callMustBeBound(M, q) => q.call # NoCall
  BY DEF Engine!heldWithoutGrant, Engine!callMustBeBound, Engine!holdsOnAbsence
<1>4. q.call # NoCall => b.digest # NoDigest
  BY PathAssumption
<1>5. AskOf(b).digest = b.digest
  BY DEF AskOf
<1> QED BY <1>1, <1>2, <1>3, <1>4, <1>5

\* The two halves of a decision agree: what the engine answers a request with some
\* token is the verdict that Approvals gives at the gate the rules put there; the
\* allow that handleDecide redeems (approval_token_required) is the one that a
\* gate stood before, and the hold it files once (HoldKind) is the floor's.
THEOREM EngineAnswersThePath ==
    ASSUME NEW b \in Bodies, NEW t \in Tokens \cup {NoToken}, NEW set
    PROVE  LET gate == GateOf(set, b.question)
               resp == Engine!Decide(set, Presented(b, TokenClass(t, AskOf(b))))
           IN /\ resp.decision = Verdict(AskOf(b), t, gate)
              /\ resp.tokenRequired <=> gate \in HoldGates
              /\ resp.noGrant <=> gate = "floor"
              /\ gate \in Gates
              /\ gate \in BoundGates => AskOf(b).digest # NoDigest
<1> DEFINE q == Presented(b, TokenClass(t, AskOf(b)))
           gate == GateOf(set, b.question)
           resp == Engine!Decide(set, q)
           lifted == Lifts(t, AskOf(b), gate)
           verdict == Verdict(AskOf(b), t, gate)
<1>1. GateOf(set, q) = gate
  BY GatesReadNoToken
<1>2. /\ Engine!Verify(q, gate \in BoundGates) <=> lifted
      /\ q.token = "none" <=> t = NoToken
  BY TokensVerify
<1>3. verdict = IF gate = "free" \/ (gate \in HoldGates /\ lifted) THEN "allow"
                ELSE IF gate = "deny" \/ (gate \in CostGates /\ t # NoToken) THEN "deny"
                ELSE "hold"
  BY Zenon DEF Verdict
<1> DEFINE verified == Engine!Verify(q, gate \in BoundGates)
<1>4. /\ gate \in HoldGates \cup {"free", "deny"}
      /\ gate = "free" => resp.decision = "allow"
      /\ gate = "deny" => resp.decision = "deny"
      /\ gate \in CostGates =>
           resp.decision = IF verified THEN "allow"
                           ELSE IF q.token = "none" THEN "hold" ELSE "deny"
      /\ gate \in {"signal", "signalBound", "floor"} =>
           resp.decision = IF verified THEN "allow" ELSE "hold"
      /\ resp.tokenRequired <=> gate \in HoldGates
      /\ resp.noGrant <=> gate = "floor"
  BY <1>1, AnswersAtGates
<1>5. gate \in BoundGates => AskOf(b).digest # NoDigest
  BY BoundGatesHaveCalls
<1> HIDE DEF q, gate, resp, lifted, verdict, verified
<1>6. resp.decision = verdict
  <2>1. verified <=> lifted
    BY <1>2 DEF verified
  <2>2. CASE gate \in {"free", "deny"}
    BY <1>3, <1>4, <2>2 DEF HoldGates, BoundGates, CostGates
  <2>3. CASE gate \in CostGates
    BY <1>2, <1>3, <1>4, <2>1, <2>3 DEF HoldGates, BoundGates, CostGates
  <2>4. CASE gate \in {"signal", "signalBound", "floor"}
    BY <1>3, <1>4, <2>1, <2>4 DEF HoldGates, BoundGates, CostGates
  <2> QED BY <1>4, <2>2, <2>3, <2>4 DEF HoldGates, BoundGates, CostGates
<1>7. gate \in Gates
  BY <1>4, PathAssumption
<1> QED BY <1>4, <1>5, <1>6, <1>7, Zenon DEF q, gate, resp, verdict

-----------------------------------------------------------------------------
(* The composed system is the approval path *)

\* A handler that the engine has answered is a handler of Approvals at a gate.
LEMMA SlotsAgree ==
    ASSUME NEW b \in Bodies, NEW t \in Tokens \cup {NoToken}, NEW text \in Texts
    PROVE  LET gate == GateOf(inForce, b.question)
               resp == Engine!Decide(inForce, Presented(b, TokenClass(t, AskOf(b))))
               v == Verdict(AskOf(b), t, gate)
           IN Slot(b, t, text, resp) =
                IF v = "deny" \/ gate = "free"
                  THEN Answering(After(v, gate), v)
                  ELSE [pc |-> After(v, gate), ask |-> AskOf(b), tok |-> t, text |-> TextOf(v, text),
                        gate |-> gate, verdict |-> v, logged |-> FALSE]
<1> DEFINE gate == GateOf(inForce, b.question)
           resp == Engine!Decide(inForce, Presented(b, TokenClass(t, AskOf(b))))
           v == Verdict(AskOf(b), t, gate)
<1>1. /\ resp.decision = v
      /\ resp.tokenRequired <=> gate \in HoldGates
      /\ gate \in Gates
  BY EngineAnswersThePath
<1>2. v = IF gate = "free" \/ (gate \in HoldGates /\ Lifts(t, AskOf(b), gate)) THEN "allow"
          ELSE IF gate = "deny" \/ (gate \in CostGates /\ t # NoToken) THEN "deny"
          ELSE "hold"
  BY Zenon DEF Verdict
<1>3. gate \in HoldGates \cup {"free", "deny"} /\ {"free", "deny"} \cap HoldGates = {}
  BY <1>1, PathAssumption DEF HoldGates, BoundGates
<1> HIDE DEF gate, resp, v
<1>4. v = "deny" \/ gate = "free" <=> resp.decision = "deny" \/ ~resp.tokenRequired
  BY <1>1, <1>2, <1>3
<1>5. v \in {"allow", "deny", "hold"}
  BY <1>2
<1>6. Dispatch(resp) = After(v, gate)
  <2>1. CASE v = "allow"
    BY <1>1, <2>1 DEF Dispatch, After
  <2>2. CASE v = "hold"
    BY <1>1, <2>2 DEF Dispatch, After
  <2>3. CASE v = "deny"
    BY <1>1, <2>3 DEF Dispatch, After
  <2> QED BY <1>5, <2>1, <2>2, <2>3
<1>7. Slot(b, t, text, resp) =
        IF resp.decision = "deny" \/ ~resp.tokenRequired
          THEN Answering(Dispatch(resp), resp.decision)
          ELSE [pc |-> Dispatch(resp), ask |-> AskOf(b), tok |-> t,
                text |-> TextOf(resp.decision, text), gate |-> gate,
                verdict |-> resp.decision, logged |-> FALSE]
  BY Zenon DEF Slot, gate
<1>8. Slot(b, t, text, resp) =
        IF v = "deny" \/ gate = "free"
          THEN Answering(After(v, gate), v)
          ELSE [pc |-> After(v, gate), ask |-> AskOf(b), tok |-> t, text |-> TextOf(v, text),
                gate |-> gate, verdict |-> v, logged |-> FALSE]
  BY <1>1, <1>4, <1>6, <1>7
<1> QED BY <1>8, Zenon DEF gate, resp, v

LEMMA DecidesByAsking ==
    ASSUME TypeOK, NEW r \in Requests, DecideRequest(r)
    PROVE  Ask(r)
<1>1. PICK b \in Bodies, t \in delivered \cup {NoToken}, text \in Texts :
         req' = [req EXCEPT ![r] =
                   Slot(b, t, text, Engine!Decide(inForce, Presented(b, TokenClass(t, AskOf(b)))))]
  BY Zenon DEF DecideRequest
<1> DEFINE ask == AskOf(b)
           gate == GateOf(inForce, b.question)
           looked == IF gate \in {"free", "deny"} THEN NoToken ELSE t
           SlotOf(u) ==
             LET v == Verdict(ask, u, gate) IN
             IF v = "deny" \/ gate = "free"
               THEN Answering(After(v, gate), v)
               ELSE [pc |-> After(v, gate), ask |-> ask, tok |-> u, text |-> TextOf(v, text),
                     gate |-> gate, verdict |-> v, logged |-> FALSE]
<1>2. t \in Tokens \cup {NoToken} /\ looked \in delivered \cup {NoToken}
  BY DEF TypeOK
<1>3. req' = [req EXCEPT ![r] = SlotOf(t)]
  <2>1. Slot(b, t, text, Engine!Decide(inForce, Presented(b, TokenClass(t, ask)))) = SlotOf(t)
    BY <1>2, SlotsAgree, Zenon
  <2> QED BY <1>1, <2>1
<1>4. /\ gate \in Gates /\ ask \in Asks
      /\ gate \in BoundGates => ask.digest # NoDigest
  BY <1>2, EngineAnswersThePath, PathAssumption
<1>5. CanMeet(ask, looked, gate)
  BY <1>4 DEF CanMeet
<1>6. SlotOf(looked) = SlotOf(t)
  <2>1. CASE gate \in {"free", "deny"}
    <3>1. gate \notin HoldGates /\ gate \notin CostGates
      BY <2>1 DEF HoldGates, BoundGates, CostGates
    <3>2. \A u : Verdict(ask, u, gate) = IF gate = "free" THEN "allow" ELSE "deny"
      BY <2>1, <3>1 DEF Verdict
    <3> HIDE DEF gate, looked
    <3> QED BY <2>1, <3>2
  <2>2. CASE gate \notin {"free", "deny"}
    BY <2>2
  <2> QED BY <2>1, <2>2
<1>7. req' = [req EXCEPT ![r] = SlotOf(looked)]
  BY <1>3, <1>6
<1>8. /\ req[r].pc = "idle"
      /\ UNCHANGED <<now, row, redeemed, minted, delivered, adm, allows, unlogged>>
  BY DEF DecideRequest
<1> HIDE DEF ask, gate, looked
<1> QED BY <1>2, <1>4, <1>5, <1>7, <1>8, Zenon DEF Ask

LEMMA PathSteps ==
    ASSUME TypeOK, [PathNext]_pathVars
    PROVE  [Next]_vars
<1>1. ASSUME NEW r \in Requests, DecideRequest(r) PROVE Next
  BY <1>1, DecidesByAsking DEF Next
<1>2. CASE SetPolicies
  BY <1>2 DEF SetPolicies, vars
<1>3. CASE GoesOn
  BY <1>3 DEF GoesOn, Next
<1>4. CASE UNCHANGED pathVars
  BY <1>4 DEF pathVars, vars
<1> QED BY <1>1, <1>2, <1>3, <1>4 DEF PathNext

\* Every behaviour of the engine and the handlers together is one of Approvals: its
\* theorems hold of them, whatever policies are put in force and when.
THEOREM PathImplementsApprovals == PathSpec => ImplementsApprovals
<1>1. PathInit => Init
  BY DEF PathInit
<1>2. Structure => TypeOK
  BY DEF Structure
<1>3. TypeOK /\ [PathNext]_pathVars => [Next]_vars
  BY PathSteps
<1>4. Structure /\ [Next]_vars => Structure'
  BY StructureStep
<1>5. Init => Structure
  BY InitStructure
<1> QED BY <1>1, <1>2, <1>3, <1>4, <1>5, PTL DEF PathSpec, ImplementsApprovals, Spec

\* What is remembered of an allow under way: its handler stands at the gate that the
\* set it was decided by puts in front of what the request said, and that gate is not
\* a deny.
BasisHolds ==
    /\ DOMAIN basis = Requests
    /\ \A r \in Requests : req[r].verdict = "allow" =>
         /\ basis[r].body \in Bodies
         /\ req[r].gate = GateOf(basis[r].set, basis[r].body.question)
         /\ req[r].gate \in HoldGates \cup {"free"}
         /\ req[r].gate \in HoldGates => req[r].ask = AskOf(basis[r].body)

\* After the verdict an allow stays what it was, or is one no longer.
LEMMA AllowsGoOn ==
    ASSUME TypeOK, GoesOn, NEW r \in Requests, req'[r].verdict = "allow"
    PROVE  /\ req[r].verdict = "allow"
           /\ req'[r].gate = req[r].gate /\ req'[r].ask = req[r].ask
<1>0. req \in [Requests -> ReqSlot]
  BY DEF TypeOK
<1>1. IdleReq.verdict # "allow" /\ \A pc : Answering(pc, "hold").verdict # "allow"
  BY DEF IdleReq, Answering
<1>2. ASSUME NEW s \in Requests, RequestStep(s) \/ CutRequest(s) PROVE
        \/ req' = [req EXCEPT ![s] = IdleReq]
        \/ req' = [req EXCEPT ![s] = Answering("record", "hold")]
        \/ \E pc \in ReqPCs, l \in BOOLEAN :
             req' = [req EXCEPT ![s] = [req[s] EXCEPT !.pc = pc, !.logged = l]]
        \/ req' = [req EXCEPT ![s].pc = "hold", ![s].verdict = "hold", ![s].tok = NoToken,
                           ![s].text = NoText]
  <2>0. req[s] \in ReqSlot
    BY <1>0
  <2>1. ASSUME NEW pc \in ReqPCs, req' = [req EXCEPT ![s].pc = pc]
        PROVE  \E l \in BOOLEAN :
                 req' = [req EXCEPT ![s] = [req[s] EXCEPT !.pc = pc, !.logged = l]]
    <3>1. req[s].logged \in BOOLEAN
      BY <2>0 DEF ReqSlot
    <3>2. [req[s] EXCEPT !.pc = pc] = [req[s] EXCEPT !.pc = pc, !.logged = req[s].logged]
      BY <2>0 DEF ReqSlot
    <3> QED BY <2>1, <3>1, <3>2
  <2>2. CASE Redeem(s)
    BY <2>1, <2>2 DEF Redeem, ReqPCs
  <2>3. CASE RedeemFails(s) \/ RequestFails(s) \/ Answer(s) \/ CutRequest(s)
    BY <2>3 DEF RedeemFails, RequestFails, Answer, CutRequest
  <2>4. CASE Request(s) \/ RequestOnce(s)
    BY <2>4 DEF Request, RequestOnce, Held
  <2>5. CASE Record(s)
    <3>1. CASE req' = [req EXCEPT ![s].pc = "answer", ![s].logged = TRUE]
      BY <3>1 DEF ReqPCs
    <3>2. CASE req' = [req EXCEPT ![s].pc = "answer"]
      BY <2>1, <3>2 DEF ReqPCs
    <3>3. CASE req' = [req EXCEPT ![s] = IdleReq]
      BY <3>3
    <3> QED BY <2>5, <3>1, <3>2, <3>3 DEF Record
  <2> QED BY <1>2, <2>2, <2>3, <2>4, <2>5 DEF RequestStep
<1>3. ASSUME NEW s \in Requests, RequestStep(s) \/ CutRequest(s)
      PROVE  /\ req[r].verdict = "allow"
             /\ req'[r].gate = req[r].gate /\ req'[r].ask = req[r].ask
  <2>0. req[s] \in ReqSlot
    BY <1>0
  <2>1. CASE r # s
    <3>1. \A v : req' = [req EXCEPT ![s] = v] => req'[r] = req[r]
      BY <1>0, <2>1
    <3>2. CASE req' = [req EXCEPT ![s].pc = "hold", ![s].verdict = "hold",
                                  ![s].tok = NoToken, ![s].text = NoText]
      BY <1>0, <2>1, <3>2
    <3> QED BY <1>2, <1>3, <3>1, <3>2, Zenon
  <2>2. CASE r = s
    <3>1. PICK pc \in ReqPCs, l \in BOOLEAN :
            req' = [req EXCEPT ![s] = [req[s] EXCEPT !.pc = pc, !.logged = l]]
      <4>1. CASE req' = [req EXCEPT ![s] = IdleReq]
        BY <1>0, <1>1, <2>2, <4>1
      <4>2. CASE req' = [req EXCEPT ![s] = Answering("record", "hold")]
        BY <1>0, <1>1, <2>2, <4>2
      <4>3. CASE req' = [req EXCEPT ![s].pc = "hold", ![s].verdict = "hold",
                                    ![s].tok = NoToken, ![s].text = NoText]
        BY <1>0, <2>0, <2>2, <4>3 DEF ReqSlot
      <4> QED BY <1>2, <1>3, <4>1, <4>2, <4>3
    <3>2. req'[r] = [req[r] EXCEPT !.pc = pc, !.logged = l]
      BY <1>0, <2>2, <3>1
    <3> QED BY <1>0, <3>2 DEF ReqSlot
  <2> QED BY <2>1, <2>2
<1>4. CASE req' = req
  BY <1>4
<1>5. CASE Restart
  BY <1>1, <1>5 DEF Restart
<1>6. ASSUME NEW a \in Admins, Open(a) \/ DecisionStep(a) \/ CutDecision(a)
      PROVE  req' = req
  BY <1>6 DEF Open, DecisionStep, CutDecision, ReadRow, Mint, Decide, DecideFails,
              ReadbackFails, Reply
<1>7. CASE Tick
  BY <1>7 DEF Tick
<1> QED BY <1>3, <1>4, <1>5, <1>6, <1>7 DEF GoesOn

LEMMA DecidedBasis ==
    ASSUME TypeOK, BasisHolds, NEW r \in Requests, DecideRequest(r)
    PROVE  BasisHolds'
<1>1. PICK b \in Bodies, t \in delivered \cup {NoToken}, text \in Texts :
         LET resp == Engine!Decide(inForce, Presented(b, TokenClass(t, AskOf(b)))) IN
         /\ req' = [req EXCEPT ![r] = Slot(b, t, text, resp)]
         /\ basis' = [basis EXCEPT ![r] =
                        IF resp.decision = "allow" THEN [set |-> inForce, body |-> b]
                        ELSE NoBasis]
  BY Zenon DEF DecideRequest
<1> DEFINE resp == Engine!Decide(inForce, Presented(b, TokenClass(t, AskOf(b))))
           gate == GateOf(inForce, b.question)
           v == Verdict(AskOf(b), t, gate)
           slot == Slot(b, t, text, resp)
           based == IF v = "allow" THEN [set |-> inForce, body |-> b] ELSE NoBasis
<1>2. t \in Tokens \cup {NoToken}
  BY DEF TypeOK
<1>3. resp.decision = v
  BY <1>2, EngineAnswersThePath
<1>4. slot = IF v = "deny" \/ gate = "free"
               THEN Answering(After(v, gate), v)
               ELSE [pc |-> After(v, gate), ask |-> AskOf(b), tok |-> t, text |-> TextOf(v, text),
                     gate |-> gate, verdict |-> v, logged |-> FALSE]
  BY <1>2, SlotsAgree, Zenon
<1>5. v = "allow" => gate \in HoldGates \cup {"free"}
  BY DEF Verdict
<1>6. \A pc : LET s == Answering(pc, v) IN s.verdict = v /\ s.gate = "free"
  BY DEF Answering, IdleReq
<1>7. "free" \notin HoldGates
  BY DEF HoldGates, BoundGates
<1>8. req' = [req EXCEPT ![r] = slot] /\ basis' = [basis EXCEPT ![r] = based]
  BY <1>1, <1>3
<1>9. UNCHANGED inForce
  BY DEF DecideRequest
<1> HIDE DEF resp, gate, v, slot
<1>10. v = "allow" => /\ slot.verdict = "allow" /\ slot.gate = gate
                      /\ gate \in HoldGates => slot.ask = AskOf(b)
  <2>1. CASE gate = "free"
    BY <1>4, <1>6, <1>7, <2>1
  <2>2. CASE gate # "free"
    BY <1>4, <2>2
  <2> QED BY <2>1, <2>2
<1>11. slot.verdict = v
  BY <1>4, <1>6
<1>12. v = "allow" => based.set = inForce /\ based.body = b
  OBVIOUS
<1> HIDE DEF based
<1>13. /\ DOMAIN basis' = Requests
       /\ basis'[r] = based /\ req'[r] = slot
       /\ \A s \in Requests \ {r} : basis'[s] = basis[s] /\ req'[s] = req[s]
  BY <1>8 DEF BasisHolds, TypeOK
<1>14. v = "allow" => gate = GateOf(based.set, b.question)
  BY <1>12 DEF gate
<1>15. ASSUME NEW s \in Requests, req'[s].verdict = "allow"
       PROVE  /\ basis'[s].body \in Bodies
              /\ req'[s].gate = GateOf(basis'[s].set, basis'[s].body.question)
              /\ req'[s].gate \in HoldGates \cup {"free"}
              /\ req'[s].gate \in HoldGates => req'[s].ask = AskOf(basis'[s].body)
  <2>1. CASE s = r
    BY <1>5, <1>10, <1>11, <1>12, <1>13, <1>14, <1>15, <2>1
  <2>2. CASE s # r
    BY <1>13, <1>15, <2>2 DEF BasisHolds
  <2> QED BY <2>1, <2>2
<1> QED BY <1>13, <1>15 DEF BasisHolds, GateOf, AskOf

LEMMA BasisStep ==
    ASSUME TypeOK, BasisHolds, [PathNext]_pathVars
    PROVE  BasisHolds'
<1>1. ASSUME NEW r \in Requests, DecideRequest(r) PROVE BasisHolds'
  BY <1>1, DecidedBasis
<1>2. CASE UNCHANGED <<req, basis>>
  BY <1>2 DEF BasisHolds
<1>3. CASE GoesOn
  <2>1. DOMAIN basis' = Requests
    BY <1>3 DEF GoesOn
  <2>2. ASSUME NEW r \in Requests, req'[r].verdict = "allow"
        PROVE  /\ req[r].verdict = "allow"
               /\ req'[r].gate = req[r].gate /\ req'[r].ask = req[r].ask
               /\ basis'[r] = basis[r]
    BY <1>3, <2>2, AllowsGoOn DEF GoesOn
  <2> QED BY <2>1, <2>2 DEF BasisHolds
<1>4. SetPolicies => UNCHANGED <<req, basis>>
  BY DEF SetPolicies
<1>5. UNCHANGED pathVars => UNCHANGED <<req, basis>>
  BY DEF pathVars
<1> QED BY <1>1, <1>2, <1>3, <1>4, <1>5 DEF PathNext

\* The gate that the set puts in front of a body is what an allow of it rests on.
LEMMA BasisGrounds ==
    ASSUME BasisHolds, HumanApproved
    PROVE  AllowsHaveGround
<1> SUFFICES ASSUME NEW r \in Requests,
                    req[r].pc \in {"redeem", "record", "answer"}, req[r].verdict = "allow"
             PROVE  LET set   == basis[r].set
                        q     == Presented(basis[r].body, "none")
                        ask   == AskOf(basis[r].body)
                        alone == Engine!Decide(set, q).decision
                        i     == minted[req[r].tok].id
                        floor == Engine!heldWithoutGrant(Engine!MatchIn(set, q), q)
                    IN \/ alone = "allow"
                       \/ /\ alone = "hold"
                          /\ row[i].state \in {"grant", "lost"}
                          /\ Approves(row[i].ask, ask, IF floor THEN "floor" ELSE "cost")
  BY Zenon DEF AllowsHaveGround
<1> DEFINE set   == basis[r].set
           b     == basis[r].body
           q     == Presented(b, "none")
           ask   == AskOf(b)
           gate  == req[r].gate
           alone == Engine!Decide(set, q).decision
           i     == minted[req[r].tok].id
           floor == Engine!heldWithoutGrant(Engine!MatchIn(set, q), q)
<1>1. /\ b \in Bodies /\ gate = GateOf(set, b.question)
      /\ gate \in HoldGates \cup {"free"}
      /\ gate \in HoldGates => req[r].ask = ask
  BY DEF BasisHolds
<1>2. /\ q.token = "none" /\ GateOf(set, q) = gate
      /\ floor <=> Engine!heldWithoutGrant(Engine!MatchIn(set, b.question), b.question)
  BY <1>1, GatesReadNoToken
<1>3. ~Engine!Verify(q, gate \in BoundGates)
  BY <1>2 DEF Engine!Verify, Engine!VerifyForCall, Engine!VerifyBoundToCall
<1> DEFINE lifted == Engine!Verify(q, gate \in BoundGates)
<1>4. /\ gate = "free" => alone = "allow"
      /\ gate \in CostGates =>
           alone = IF lifted THEN "allow" ELSE IF q.token = "none" THEN "hold" ELSE "deny"
      /\ gate \in {"signal", "signalBound", "floor"} =>
           alone = IF lifted THEN "allow" ELSE "hold"
  BY <1>2, AnswersAtGates
<1>5. floor /\ gate \in HoldGates => gate \in BoundGates
  BY <1>1, <1>2, BoundGatesHaveCalls
<1>6. gate \in HoldGates =>
        /\ row[i].state \in {"grant", "lost"}
        /\ Approves(row[i].ask, req[r].ask, gate)
  BY DEF HumanApproved, ByToken
<1> HIDE DEF set, b, q, ask, gate, alone, i, floor, lifted
<1>7. CASE gate = "free"
  BY <1>4, <1>7 DEF alone, set, q, b
<1>8. CASE gate \in HoldGates
  <2>1. alone = "hold"
    BY <1>2, <1>3, <1>4, <1>8 DEF HoldGates, BoundGates, CostGates, lifted
  <2>2. Approves(row[i].ask, ask, IF floor THEN "floor" ELSE "cost")
    BY <1>1, <1>5, <1>6, <1>8 DEF Approves, BoundGates
  <2>3. /\ alone = "hold" /\ row[i].state \in {"grant", "lost"}
        /\ Approves(row[i].ask, ask, IF floor THEN "floor" ELSE "cost")
    BY <1>6, <1>8, <2>1, <2>2
  <2> QED BY <2>3, Zenon DEF set, b, q, ask, alone, i, floor
<1> QED BY <1>1, <1>7, <1>8

\* Whatever policies are put in force between a hold, its grant and the retry, an
\* allow on its way out is one its set gives to anyone, or one that set holds for a
\* person and a person approved for this request.
THEOREM AllowsAreGrounded == PathSpec => []AllowsHaveGround
<1>1. PathInit => BasisHolds
  BY DEF PathInit, Init, IdleReq, BasisHolds
<1>2. TypeOK /\ BasisHolds /\ [PathNext]_pathVars => BasisHolds'
  BY BasisStep
<1>3. BasisHolds /\ HumanApproved => AllowsHaveGround
  BY BasisGrounds
<1>4. PathSpec => []TypeOK /\ []HumanApproved
  BY PathImplementsApprovals, TypeCorrect, OnlyHumanApproved, PTL DEF ImplementsApprovals
<1> QED BY <1>1, <1>2, <1>3, <1>4, PTL DEF PathSpec

-----------------------------------------------------------------------------
(* What the engine and the handlers together promise *)

\* The handlers keep their promises with the engine in front of them, whichever
\* policies are replaced while a request is held, granted and retried: one token of a
\* grant and one allow of each of its texts, answers on the record, one pending row
\* of a held call.
THEOREM PathKeepsItsPromises ==
    PathSpec => [](/\ OneTokenPerGrant /\ TextReleasesOneAllow /\ HumanApproved
                   /\ AnswersAreRecorded /\ OnePendingPerCall /\ QueueWithinLimit)
<1>1. Spec => [](/\ OneTokenPerGrant /\ TextReleasesOneAllow /\ HumanApproved
                 /\ AnswersAreRecorded /\ OnePendingPerCall /\ QueueWithinLimit)
  BY OneTokenLeaves, OneAllowPerText, OnlyHumanApproved, NothingUnrecorded, OnePendingRow,
     QueueKeepsItsLimit, PTL
<1> QED BY <1>1, PathImplementsApprovals DEF ImplementsApprovals

\* With single use on and a store that survives, POST /v1/decide with its engine is an
\* implementation of the contract, and no decision of a person is changed: the two
\* refinements compose.
THEOREM PathMeetsTheContract ==
    ASSUME SingleUse, Durable
    PROVE  PathSpec => /\ ImplementsContract /\ []ReleasedWasGranted
                       /\ [][DecisionStands]_vars
<1>1. Spec => /\ ImplementsContract /\ []ReleasedWasGranted
              /\ [][DecisionStands]_vars
  BY ContractHolds, ReleasesWereGranted, DecisionsStand
<1> QED BY <1>1, PathImplementsApprovals DEF ImplementsApprovals
=============================================================================
