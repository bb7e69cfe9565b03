----------------------------- MODULE Approvals -----------------------------
(***************************************************************************)
(* The human-in-the-loop path of wardryx: what happens between a held      *)
(* POST /v1/decide and the allow a person's grant releases.                *)
(*                                                                         *)
(* A request that a gate stops is answered "hold" at once and leaves a     *)
(* pending row in the store.  An admin decides the row through             *)
(* POST /v1/approvals/{id}/decide; a grant signs a token bound to what was *)
(* held and hands it out.  The agent presents the token with its next      *)
(* request; the token is verified without the store, redeemed once in the  *)
(* store, the decision is recorded, and only then is the allow returned.   *)
(*                                                                         *)
(* Handlers run concurrently, in one process or in several over one        *)
(* Postgres.  Every store call, every record write and the answer itself   *)
(* are separate steps, so that any two handlers interleave between them.   *)
(***************************************************************************)
EXTENDS Integers, FiniteSets

CONSTANTS
    Requests,     \* slots for /v1/decide requests in flight
    Admins,       \* slots for approval decisions in flight
    Ids,          \* approval ids; newApprovalID draws one never drawn before.
                  \* Their number bounds the holds a behaviour may write
    Tokens,       \* approval tokens; the nonce makes each mint another one.
                  \* Their number bounds the grants a behaviour may sign
    Texts,        \* the strings a token verifies as: its signature of version 2
                  \* has one, that of version 3 may have several
    Asks,         \* request bodies: [agent, run, tools, digest, cost]
    Gates,        \* the gates the policies in force can put in the way
    TTL,          \* lifetime of a token
    MaxTime,      \* bound on the clock
    PendingLimit, \* WARDRYX_PENDING_PER_AGENT
    MaxAllows,    \* bound on the count of answered allows of one approval
    SingleUse,    \* WARDRYX_APPROVAL_SINGLE_USE
    RecordOpen,   \* WARDRYX_RECORD_FAIL_MODE=open
    Durable,      \* TRUE: Postgres; FALSE: the in-memory store
    Faults,       \* which of "store", "readback", "record", "signer",
                  \* "cut", "reply" can happen
    NoDigest, NoAsk, NoId, NoToken, NoText, NoClaims

\* The gates of pdp.Decide that decide the outcome of a request.  "free": no
\* rule fires; "deny": one of the unconditional rules 1 to 12 does; "cost" is
\* rule 13 and "signal" rule 14.  The "bound" ones are lifted only by a token
\* that binds the call: rule 13 on a call the floor would hold as well, rule 14
\* on an absent signal or on such a call, and rule 15, the floor itself.
BoundGates == {"costBound", "signalBound", "floor"}
CostGates  == {"cost", "costBound"}
HoldGates  == BoundGates \cup {"cost", "signal"}

ASSUME ConstantsAssumption ==
    /\ Gates \subseteq HoldGates \cup {"free", "deny"}
    /\ TTL \in Nat /\ MaxTime \in Nat /\ PendingLimit \in Nat
    /\ MaxAllows \in Nat \ {0, 1}
    /\ SingleUse \in BOOLEAN /\ RecordOpen \in BOOLEAN /\ Durable \in BOOLEAN
    /\ NoAsk \notin Asks /\ NoId \notin Ids /\ NoToken \notin Tokens
    /\ Texts # {} /\ NoText \notin Texts
    /\ NoClaims \notin [id : Ids, ask : Asks, exp : Nat]
    /\ \A ask \in Asks : ask.cost \in Nat

VARIABLES
    now,       \* the clock every instance reads
    row,       \* the approvals table: id -> [state, ask, once]
    redeemed,  \* the redemption keys claimed so far: a token, and the text it came in
    minted,    \* claims signed into each token: id, ask held, expiry
    delivered, \* tokens an answered grant has handed out
    req,       \* the /v1/decide handlers
    adm,       \* the approval-decision handlers
    allows,    \* history: how many allows were returned on the grant of each
               \* approval, by the text its token came in, and what the last
               \* of them was for
    unlogged   \* history: allows and holds returned with no record

vars == <<now, row, redeemed, minted, delivered, req, adm, allows, unlogged>>

-----------------------------------------------------------------------------
(* The data *)

RowStates == {"absent", "pending", "grant", "deny", "lost"}
Row       == [state : RowStates, ask : Asks \cup {NoAsk}, once : BOOLEAN]
Claims    == [id : Ids, ask : Asks, exp : Nat]

ReqPCs == {"idle", "redeem", "hold", "record", "answer"}
ReqSlot ==
    [pc      : ReqPCs,
     ask     : Asks \cup {NoAsk},
     tok     : Tokens \cup {NoToken},
     text    : Texts \cup {NoText},
     gate    : Gates \cup {"free"},
     verdict : {"allow", "deny", "hold"},
     logged  : BOOLEAN]

AdmPCs == {"idle", "read", "mint", "write", "reply"}
AdmSlot ==
    [pc       : AdmPCs,
     id       : Ids \cup {NoId},
     decision : {"grant", "deny"},
     tok      : Tokens \cup {NoToken}]

IdleReq == [pc |-> "idle", ask |-> NoAsk, tok |-> NoToken, text |-> NoText,
            gate |-> "free", verdict |-> "deny", logged |-> FALSE]
IdleAdm == [pc |-> "idle", id |-> NoId, decision |-> "deny", tok |-> NoToken]
NoRow   == [state |-> "absent", ask |-> NoAsk, once |-> FALSE]

\* Type correctness: what the rows, the handlers and the histories range over.
TypeOK ==
    /\ now \in 0..MaxTime
    /\ row \in [Ids -> Row]
    /\ redeemed \subseteq Tokens \X Texts
    /\ minted \in [Tokens -> Claims \cup {NoClaims}]
    /\ delivered \subseteq Tokens
    /\ req \in [Requests -> ReqSlot]
    /\ adm \in [Admins -> AdmSlot]
    /\ allows \in [Ids \X Texts -> [n : 0..MaxAllows, ask : Asks \cup {NoAsk}]]
    /\ unlogged \subseteq {"allow", "hold"}

Init ==
    /\ now = 0
    /\ row = [i \in Ids |-> NoRow]
    /\ redeemed = {}
    /\ minted = [t \in Tokens |-> NoClaims]
    /\ delivered = {}
    /\ req = [r \in Requests |-> IdleReq]
    /\ adm = [a \in Admins |-> IdleAdm]
    /\ allows = [k \in Ids \X Texts |-> [n |-> 0, ask |-> NoAsk]]
    /\ unlogged = {}

-----------------------------------------------------------------------------
(* Verification: Keys.VerifyForCall and VerifyBoundToCall.  Only claims that *)
(* were signed have a valid signature, and they are read after that.  What   *)
(* is read is the same in each text of a token: parseV2 compares the whole   *)
(* of it, parseV3 takes the signature as it decodes.                         *)

\* Fault: the ceiling a person approved is not compared.
MatchesAnyCost(c, ask) ==
    /\ now <= c.exp
    /\ c.ask.agent = ask.agent
    /\ c.ask.run = ask.run
    /\ c.ask.tools = ask.tools
    /\ c.ask.digest # NoDigest => c.ask.digest = ask.digest

Matches(c, ask) ==
    /\ now <= c.exp
    /\ c.ask.agent = ask.agent
    /\ c.ask.run = ask.run
    /\ c.ask.tools = ask.tools
    /\ c.ask.digest # NoDigest => c.ask.digest = ask.digest
    /\ ask.cost <= c.ask.cost

Lifts(t, ask, gate) ==
    /\ t \in Tokens
    /\ minted[t] # NoClaims
    /\ Matches(minted[t], ask)
    /\ gate \in BoundGates => minted[t].ask.digest # NoDigest

\* pdp.Decide from rule 13 on, the gate being the first that fires.  Only the
\* cost gate turns a token that does not verify into a deny.
Verdict(ask, t, gate) ==
    IF gate = "free" \/ (gate \in HoldGates /\ Lifts(t, ask, gate))
      THEN "allow"
      ELSE IF gate = "deny" \/ (gate \in CostGates /\ t # NoToken)
        THEN "deny"
        ELSE "hold"

\* A gate that needs a tool call is met only by a request that carries one.
\* Where no gate stands in front of the call, no token is looked at.
CanMeet(ask, t, gate) ==
    /\ gate \in BoundGates => ask.digest # NoDigest
    /\ gate \in {"free", "deny"} => t = NoToken

-----------------------------------------------------------------------------
(* POST /v1/decide *)

\* What a handler does next once its verdict is known.
After(verdict, gate) ==
    CASE verdict = "allow" /\ gate \in HoldGates /\ SingleUse -> "redeem"
      [] verdict = "hold" -> "hold"
      [] verdict = "deny" -> "answer"
      [] OTHER -> "record"

\* The text is kept where it is read again: to redeem the allow it earned.
TextOf(verdict, text) == IF verdict = "allow" THEN text ELSE NoText

\* A handler with a verdict that no later step reads the request for.
Answering(pc, verdict) == [IdleReq EXCEPT !.pc = pc, !.verdict = verdict]

\* An agent asks, with no token or with one that was handed out, in a text it
\* verifies as; the engine decides against one policy set and one clock reading.
Ask(r) ==
    /\ req[r].pc = "idle"
    /\ \E ask \in Asks, t \in delivered \cup {NoToken},
          text \in Texts, gate \in Gates :
         /\ CanMeet(ask, t, gate)
         /\ LET v == Verdict(ask, t, gate) IN
            req' = [req EXCEPT ![r] =
                  IF v = "deny" \/ gate = "free"
                    THEN Answering(After(v, gate), v)
                    ELSE [pc |-> After(v, gate), ask |-> ask, tok |-> t,
                          text |-> TextOf(v, text), gate |-> gate, verdict |-> v,
                          logged |-> FALSE]]
    /\ UNCHANGED <<now, row, redeemed, minted, delivered, adm, allows, unlogged>>

\* The string that was presented: it is what is claimed, not the grant it is of.
RedemptionKey(r) == <<req[r].tok, req[r].text>>

\* Fault: the claim is looked up and not written.
RedeemReadOnly(r) ==
    /\ req[r].pc = "redeem"
    /\ RedemptionKey(r) \notin redeemed
    /\ req' = [req EXCEPT ![r].pc = "record"]
    /\ UNCHANGED <<now, row, redeemed, minted, delivered, adm, allows, unlogged>>

\* TryRedeem claims the key, or finds it claimed and the allow becomes a hold.
Redeem(r) ==
    /\ req[r].pc = "redeem"
    /\ \/ /\ RedemptionKey(r) \notin redeemed
          /\ redeemed' = redeemed \cup {RedemptionKey(r)}
          /\ req' = [req EXCEPT ![r].pc = "record"]
       \/ /\ RedemptionKey(r) \in redeemed
          /\ req' = [req EXCEPT ![r].pc = "hold", ![r].verdict = "hold",
                                ![r].tok = NoToken, ![r].text = NoText]
          /\ UNCHANGED redeemed
    /\ UNCHANGED <<now, row, minted, delivered, adm, allows, unlogged>>

\* TryRedeem fails: the claim may have been applied, and the answer is a 500.
RedeemFails(r) ==
    /\ req[r].pc = "redeem"
    /\ Durable /\ "store" \in Faults
    /\ redeemed' \in {redeemed, redeemed \cup {RedemptionKey(r)}}
    /\ req' = [req EXCEPT ![r] = IdleReq]
    /\ UNCHANGED <<now, row, minted, delivered, adm, allows, unlogged>>

\* The pending row of the same agent, run and call, if a floor hold wrote one.
\* The key leaves out the tool list and the cost.
SameCall(ask) ==
    {i \in Ids : /\ row[i].state = "pending" /\ row[i].once
                 /\ row[i].ask.agent = ask.agent
                 /\ row[i].ask.run = ask.run
                 /\ row[i].ask.digest = ask.digest}

\* Every pending approval of the agent counts, whichever gate held it.
Waiting(ask) ==
    {i \in Ids : row[i].state = "pending" /\ row[i].ask.agent = ask.agent}

\* Fault: one row too many.
PastLimit(ask) == Cardinality(Waiting(ask)) > PendingLimit

AtLimit(ask) == Cardinality(Waiting(ask)) >= PendingLimit

NewRow(ask, once) == [state |-> "pending", ask |-> ask, once |-> once]

Held(r) == req' = [req EXCEPT ![r] = Answering("record", "hold")]

\* requestApproval for every gate but the floor: a new row each time.
Request(r) ==
    /\ req[r].pc = "hold" /\ req[r].gate # "floor"
    /\ \E i \in Ids :
         /\ row[i].state = "absent"
         /\ row' = [row EXCEPT ![i] = NewRow(req[r].ask, FALSE)]
         /\ Held(r)
    /\ UNCHANGED <<now, redeemed, minted, delivered, adm, allows, unlogged>>

\* Fault: the pending row of the call is not looked for.
RequestAlways(r) ==
    /\ req[r].pc = "hold" /\ req[r].gate = "floor"
    /\ \E i \in Ids :
         /\ row[i].state = "absent"
         /\ row' = [row EXCEPT ![i] = NewRow(req[r].ask, TRUE)]
         /\ Held(r)
    /\ UNCHANGED <<now, redeemed, minted, delivered, adm, allows, unlogged>>

\* requestApproval for the floor: CreateApprovalOnce.  Postgres reads the count
\* in a snapshot and looks for the pending row in a later statement, so there
\* the limit may be passed, or reported although room has just been made.
RequestOnce(r) ==
    /\ req[r].pc = "hold" /\ req[r].gate = "floor"
    /\ LET ask == req[r].ask IN
       \/ SameCall(ask) # {} /\ Held(r) /\ UNCHANGED row
       \/ /\ SameCall(ask) = {}
          /\ Durable \/ AtLimit(ask)
          /\ Held(r) /\ UNCHANGED row
       \/ /\ SameCall(ask) = {}
          /\ Durable \/ ~AtLimit(ask)
          /\ \E i \in Ids :
               /\ row[i].state = "absent"
               /\ row' = [row EXCEPT ![i] = NewRow(ask, TRUE)]
               /\ Held(r)
    /\ UNCHANGED <<now, redeemed, minted, delivered, adm, allows, unlogged>>

\* Writing the row fails: it may be there all the same, and the answer is 500.
RequestFails(r) ==
    /\ req[r].pc = "hold"
    /\ Durable /\ "store" \in Faults
    /\ \/ UNCHANGED row
       \/ /\ req[r].gate = "floor" => SameCall(req[r].ask) = {}
          /\ \E i \in Ids :
               /\ row[i].state = "absent"
               /\ row' = [row EXCEPT ![i] =
                            NewRow(req[r].ask, req[r].gate = "floor")]
    /\ req' = [req EXCEPT ![r] = IdleReq]
    /\ UNCHANGED <<now, redeemed, minted, delivered, adm, allows, unlogged>>

\* Fault: the answer goes out whether or not the write succeeded.
RecordRegardless(r) ==
    /\ req[r].pc = "record"
    /\ \/ req' = [req EXCEPT ![r].pc = "answer", ![r].logged = TRUE]
       \/ /\ "record" \in Faults
          /\ req' = [req EXCEPT ![r].pc = "answer"]
    /\ UNCHANGED <<now, row, redeemed, minted, delivered, adm, allows, unlogged>>

\* recordDecision: an allow or a hold is written to the record first.  When the
\* write fails the answer is a 503 under the closed mode; the token stays spent
\* and the row stays pending.  Under the open mode the answer goes out.
Record(r) ==
    /\ req[r].pc = "record"
    /\ \/ req' = [req EXCEPT ![r].pc = "answer", ![r].logged = TRUE]
       \/ /\ "record" \in Faults /\ RecordOpen
          /\ req' = [req EXCEPT ![r].pc = "answer"]
       \/ /\ "record" \in Faults /\ ~RecordOpen
          /\ req' = [req EXCEPT ![r] = IdleReq]
    /\ UNCHANGED <<now, row, redeemed, minted, delivered, adm, allows, unlogged>>

\* The allow of request r was earned by a token.
ByToken(r) == req[r].verdict = "allow" /\ req[r].gate \in HoldGates

\* The verdict is written to the caller.
Answer(r) ==
    /\ req[r].pc = "answer"
    /\ allows' = IF ByToken(r)
                   THEN [allows EXCEPT ![<<minted[req[r].tok].id, req[r].text>>] =
                           [n   |-> IF @.n < MaxAllows THEN @.n + 1 ELSE @.n,
                            ask |-> req[r].ask]]
                   ELSE allows
    /\ unlogged' = IF req[r].verdict = "deny" \/ req[r].logged
                     THEN unlogged
                     ELSE unlogged \cup {req[r].verdict}
    /\ req' = [req EXCEPT ![r] = IdleReq]
    /\ UNCHANGED <<now, row, redeemed, minted, delivered, adm>>

-----------------------------------------------------------------------------
(* POST /v1/approvals/{id}/decide *)

\* The row is there and belongs to the admin's org; anything else is a 404.
Open(a) ==
    /\ adm[a].pc = "idle"
    /\ \E i \in Ids, d \in {"grant", "deny"} :
         /\ row[i].state \in {"pending", "grant", "deny"}
         /\ adm' = [adm EXCEPT ![a] =
                      [pc |-> IF d = "grant" THEN "read" ELSE "write",
                       id |-> i, decision |-> d, tok |-> NoToken]]
    /\ UNCHANGED <<now, row, redeemed, minted, delivered, req, allows, unlogged>>

\* DecideWith reads the row again; one already decided is a 409.
ReadRow(a) ==
    /\ adm[a].pc = "read"
    /\ adm' = IF row[adm[a].id].state = "pending"
                THEN [adm EXCEPT ![a].pc = "mint"]
                ELSE [adm EXCEPT ![a] = IdleAdm]
    /\ UNCHANGED <<now, row, redeemed, minted, delivered, req, allows, unlogged>>

\* Fault: a grant goes on without the token the signer did not make.
MintOrGoOn(a) ==
    /\ adm[a].pc = "mint"
    /\ "signer" \in Faults
    /\ adm' = [adm EXCEPT ![a].pc = "write"]
    /\ UNCHANGED <<now, row, redeemed, minted, delivered, req, allows, unlogged>>

\* The token is signed before anything is written, bound to the held request.
Mint(a) ==
    /\ adm[a].pc = "mint"
    /\ \/ \E t \in Tokens :
            /\ minted[t] = NoClaims
            /\ minted' = [minted EXCEPT ![t] =
                            [id |-> adm[a].id, ask |-> row[adm[a].id].ask,
                             exp |-> now + TTL]]
            /\ adm' = [adm EXCEPT ![a].pc = "write", ![a].tok = t]
       \/ /\ "signer" \in Faults
          /\ adm' = [adm EXCEPT ![a] = IdleAdm]
          /\ UNCHANGED minted
    /\ UNCHANGED <<now, row, redeemed, delivered, req, allows, unlogged>>

\* Fault: the decision is written over whatever is there.
DecideOverwrites(a) ==
    /\ adm[a].pc = "write"
    /\ row' = [row EXCEPT ![adm[a].id].state = adm[a].decision]
    /\ adm' = [adm EXCEPT ![a].pc = "reply"]
    /\ UNCHANGED <<now, redeemed, minted, delivered, req, allows, unlogged>>

\* DecideApproval: the row is decided if nobody decided it first.
Decide(a) ==
    /\ adm[a].pc = "write"
    /\ \/ /\ row[adm[a].id].state = "pending"
          /\ row' = [row EXCEPT ![adm[a].id].state = adm[a].decision]
          /\ adm' = [adm EXCEPT ![a].pc = "reply"]
       \/ /\ row[adm[a].id].state # "pending"
          /\ adm' = [adm EXCEPT ![a] = IdleAdm]
          /\ UNCHANGED row
    /\ UNCHANGED <<now, redeemed, minted, delivered, req, allows, unlogged>>

\* The UPDATE fails and was not applied.
DecideFails(a) ==
    /\ adm[a].pc = "write"
    /\ Durable /\ "store" \in Faults
    /\ adm' = [adm EXCEPT ![a] = IdleAdm]
    /\ UNCHANGED <<now, row, redeemed, minted, delivered, req, allows, unlogged>>

\* The UPDATE was applied, and then its answer was lost or the row could not be
\* read back: DecideApproval returns an error, and DecideWith drops the token.
ReadbackFails(a) ==
    /\ adm[a].pc = "write"
    /\ Durable /\ "readback" \in Faults
    /\ row[adm[a].id].state = "pending"
    /\ row' = [row EXCEPT ![adm[a].id].state = adm[a].decision]
    /\ adm' = [adm EXCEPT ![a] = IdleAdm]
    /\ UNCHANGED <<now, redeemed, minted, delivered, req, allows, unlogged>>

\* Fault: whatever token the handler has is answered, a deny's too.
ReplyAnyToken(a) ==
    /\ adm[a].pc = "reply"
    /\ delivered' = delivered \cup {adm[a].tok}
    /\ adm' = [adm EXCEPT ![a] = IdleAdm]
    /\ UNCHANGED <<now, row, redeemed, minted, req, allows, unlogged>>

\* The decision is answered; a grant's answer carries the token.  The answer
\* may not reach the caller.
Reply(a) ==
    /\ adm[a].pc = "reply"
    /\ \/ delivered' = IF adm[a].decision = "grant"
                         THEN delivered \cup {adm[a].tok} ELSE delivered
       \/ "reply" \in Faults /\ UNCHANGED delivered
    /\ adm' = [adm EXCEPT ![a] = IdleAdm]
    /\ UNCHANGED <<now, row, redeemed, minted, req, allows, unlogged>>

-----------------------------------------------------------------------------
(* The environment *)

Tick ==
    /\ now < MaxTime
    /\ now' = now + 1
    /\ UNCHANGED <<row, redeemed, minted, delivered, req, adm, allows, unlogged>>

\* The process of a handler dies, or its request is cancelled.
CutRequest(r) ==
    /\ Durable /\ "cut" \in Faults
    /\ req[r].pc # "idle"
    /\ req' = [req EXCEPT ![r] = IdleReq]
    /\ UNCHANGED <<now, row, redeemed, minted, delivered, adm, allows, unlogged>>

CutDecision(a) ==
    /\ Durable /\ "cut" \in Faults
    /\ adm[a].pc # "idle"
    /\ adm' = [adm EXCEPT ![a] = IdleAdm]
    /\ UNCHANGED <<now, row, redeemed, minted, delivered, req, allows, unlogged>>

\* The process restarts, or all of them do, and every handler is gone.  Postgres keeps
\* its rows; with the in-memory store the approvals and the redemptions are gone as
\* well, and the tokens it signed still verify.
Restart ==
    /\ "cut" \in Faults
    /\ \/ Durable /\ UNCHANGED <<row, redeemed>>
       \/ /\ ~Durable
          /\ row' = [i \in Ids |->
                       IF row[i].state = "absent" THEN row[i]
                       ELSE [row[i] EXCEPT !.state = "lost"]]
          /\ redeemed' = {}
    /\ req' = [r \in Requests |-> IdleReq]
    /\ adm' = [a \in Admins |-> IdleAdm]
    /\ UNCHANGED <<now, minted, delivered, allows, unlogged>>

-----------------------------------------------------------------------------

RequestStep(r) ==
    \/ Redeem(r) \/ RedeemFails(r)
    \/ Request(r) \/ RequestOnce(r) \/ RequestFails(r)
    \/ Record(r) \/ Answer(r)

DecisionStep(a) ==
    \/ ReadRow(a) \/ Mint(a) \/ Decide(a) \/ DecideFails(a)
    \/ ReadbackFails(a) \/ Reply(a)

Next ==
    \/ \E r \in Requests : Ask(r) \/ RequestStep(r) \/ CutRequest(r)
    \/ \E a \in Admins : Open(a) \/ DecisionStep(a) \/ CutDecision(a)
    \/ Tick \/ Restart

Spec == Init /\ [][Next]_vars

-----------------------------------------------------------------------------
(* Correctness *)

\* The token a handler of a grant is about to hand out.
InReply(t) == \E a \in Admins : /\ adm[a].pc = "reply"
                                /\ adm[a].decision = "grant"
                                /\ adm[a].tok = t

\* Of one approval, one token at most ever leaves the process, however many
\* admins grant it at once: each of them has signed a token before
\* DecideApproval says who was first, and the others must drop theirs.
OneTokenPerGrant ==
    \A t, u \in Tokens :
        /\ t \in delivered \/ InReply(t)
        /\ u \in delivered \/ InReply(u)
        /\ minted[t].id = minted[u].id
        => t = u

\* What a person who granted `held` has approved: the same agent, run and tools,
\* at no higher cost, and the same call wherever the hold named one or the gate
\* asks for one.
Approves(held, ask, gate) ==
    /\ held.agent = ask.agent /\ held.run = ask.run
    /\ held.tools = ask.tools /\ ask.cost <= held.cost
    /\ held.digest \in {NoDigest, ask.digest}
    /\ gate \in BoundGates => held.digest # NoDigest

\* An allow on its way out that a gate stood in front of rests on an approval a
\* person granted and that approves it.  The in-memory store may have lost the
\* row since.
HumanApproved ==
    \A r \in Requests :
        req[r].pc \in {"redeem", "record", "answer"} /\ ByToken(r) =>
            LET i == minted[req[r].tok].id
            IN /\ row[i].state \in {"grant", "lost"}
               /\ Approves(row[i].ask, req[r].ask, req[r].gate)

\* With single use on and a store that survives, a grant releases one allow at
\* most in each text of its token, whatever races, retries, failed writes and
\* restarts come between.  A grant of one text, as every token of version 2 is,
\* releases one.  That a token can "allow at most once" (handleDecide) is more than
\* this where it has several.
TextReleasesOneAllow ==
    SingleUse /\ Durable => \A i \in Ids, x \in Texts : allows[<<i, x>>].n <= 1

\* Under the closed fail mode no allow and no hold is returned that the record
\* does not hold (recordDecision).
AnswersAreRecorded == ~RecordOpen => unlogged = {}

\* An agent that repeats a held call has one pending row for it: of concurrent
\* holds of one call by one agent and run, one writes (CreateApprovalOnce).
OnePendingPerCall ==
    \A i, j \in Ids :
        /\ row[i].state = "pending" /\ row[i].once
        /\ j \in SameCall(row[i].ask)
        => i = j

\* In the in-memory store the check and the write are one step, so an agent all
\* of whose pending rows are the floor's never has more than the limit: the other
\* gates write rows past it, and the floor writes none while those wait.
QueueWithinLimit ==
    ~Durable => \A ask \in Asks :
        (\A i \in Waiting(ask) : row[i].once)
            => Cardinality(Waiting(ask)) <= PendingLimit

\* A recorded grant has the token it was for: either an answer has handed it
\* out or the handler that decided is about to.
GrantKeepsItsToken ==
    \A i \in Ids : row[i].state = "grant" =>
        \E t \in delivered \cup {adm[a].tok : a \in {b \in Admins : adm[b].pc = "reply"}} :
            t # NoToken /\ minted[t].id = i

\* The approval path implements the contract.
Contract == INSTANCE ApprovalContract WITH
    state    <- [i \in Ids |-> row[i].state],
    held     <- [i \in Ids |-> row[i].ask],
    released <- allows

ImplementsContract == Contract!CSpec
=============================================================================
