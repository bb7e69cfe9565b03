---------------------------- MODULE ApprovalKeys ----------------------------
(***************************************************************************)
(* The keys of v3 approval tokens: Keyryx, which publishes keys and signs  *)
(* with one of them, the key set each process keeps from what Keyryx       *)
(* published, and a grant's two calls to Keyryx while the key may rotate.  *)
(*                                                                         *)
(* A token is the kid its header names and the key that signed it.  Its    *)
(* claims, and its exp, are those of a v2 token and belong to Approvals.   *)
(* Keyryx is modelled from what its client relies on.                      *)
(***************************************************************************)
EXTENDS Integers

CONSTANTS
    Keys,     \* the keys Keyryx ever has; a kid is its key's thumbprint
    First,    \* the key that signs at the beginning
    Procs,    \* processes of wardryx
    Grants,   \* grants that are made, each in one process
    Lead,     \* how long a key is published, at least, before it signs
    MaxTime,  \* bound on the clock
    NoKid, NoToken, NoFetch

ASSUME ConstantsAssumption ==
    /\ First \in Keys
    /\ Lead \in Nat /\ MaxTime \in Nat
    /\ NoKid \notin Keys
    /\ NoToken \notin [kid : Keys, key : Keys]
    /\ NoFetch \notin [at : Nat, keys : SUBSET Keys]

VARIABLES
    now,
    phase,      \* what Keyryx does with each key
    published,  \* when it began to publish it
    cache,      \* the key set of each process: Cache.keys
    fetch,      \* the set on its way to the process
    fetched,    \* history: when the set in its cache was read
    grant,      \* the grants: mintV3
    token       \* the token of each grant

vars == <<now, phase, published, cache, fetch, fetched, grant, token>>

Phases == {"new", "waiting", "active", "retired", "withdrawn"}

\* A grant knows the kid its next header will name.
GrantPCs == {"new", "sign", "again", "done", "failed"}
Grant    == [pc : GrantPCs, kid : Keys \cup {NoKid}]

\* Type correctness: a process that has read no set has no key and says so.
TypeOK ==
    /\ now \in Nat
    /\ phase \in [Keys -> Phases]
    /\ published \in [Keys -> Nat]
    /\ cache \in [Procs -> SUBSET Keys]
    /\ fetch \in [Procs -> [at : Nat, keys : SUBSET Keys] \cup {NoFetch}]
    /\ fetched \in [Procs -> Nat \cup {-1}]
    /\ grant \in [Grants -> Grant]
    /\ token \in [Grants -> [kid : Keys, key : Keys] \cup {NoToken}]
    /\ \A p \in Procs : fetched[p] = -1 => cache[p] = {}
    /\ \A h \in Grants : grant[h].pc = "done" <=> token[h] # NoToken

\* The first key has been published long enough.
Init ==
    /\ now = Lead
    /\ phase = [k \in Keys |-> IF k = First THEN "active" ELSE "new"]
    /\ published = [k \in Keys |-> 0]
    /\ cache = [p \in Procs |-> {}]
    /\ fetch = [p \in Procs |-> NoFetch]
    /\ fetched = [p \in Procs |-> -1]
    /\ grant = [h \in Grants |-> [pc |-> "new", kid |-> NoKid]]
    /\ token = [h \in Grants |-> NoToken]

-----------------------------------------------------------------------------
(* Keyryx *)

\* GET /v1/jwks/wardryx-approval.
InSet(k)  == phase[k] \in {"waiting", "active", "retired"}
Published == {k \in Keys : InSet(k)}

Publish(k) ==
    /\ phase[k] = "new"
    /\ phase' = [phase EXCEPT ![k] = "waiting"]
    /\ published' = [published EXCEPT ![k] = now]
    /\ UNCHANGED <<now, cache, fetch, fetched, grant, token>>

\* The key that signs is another, published for Lead.
Rotate(k) ==
    /\ phase[k] = "waiting" /\ now - published[k] >= Lead
    /\ phase' = [j \in Keys |-> IF j = k THEN "active"
                                ELSE IF phase[j] = "active" THEN "retired"
                                ELSE phase[j]]
    /\ UNCHANGED <<now, published, cache, fetch, fetched, grant, token>>

\* A key that no longer signs leaves the published set.
Withdraw(k) ==
    /\ phase[k] = "retired"
    /\ phase' = [phase EXCEPT ![k] = "withdrawn"]
    /\ UNCHANGED <<now, published, cache, fetch, fetched, grant, token>>

Tick ==
    /\ now < MaxTime
    /\ now' = now + 1
    /\ UNCHANGED <<phase, published, cache, fetch, fetched, grant, token>>

-----------------------------------------------------------------------------
(* The key set of a process: Cache.Refresh, by the one goroutine of Cache.Run *)

\* Keyryx answers with its set of that moment.
Fetch(p) ==
    /\ fetch[p] = NoFetch
    /\ fetch' = [fetch EXCEPT ![p] = [at |-> now, keys |-> Published]]
    /\ UNCHANGED <<now, phase, published, cache, fetched, grant, token>>

\* Fault: the keys of the answer join those there are.
InstallMore(p) ==
    /\ fetch[p] # NoFetch
    /\ cache' = [cache EXCEPT ![p] = @ \cup fetch[p].keys]
    /\ fetched' = [fetched EXCEPT ![p] = fetch[p].at]
    /\ fetch' = [fetch EXCEPT ![p] = NoFetch]
    /\ UNCHANGED <<now, phase, published, grant, token>>

\* The set replaces the one in the cache.
Install(p) ==
    /\ fetch[p] # NoFetch
    /\ cache' = [cache EXCEPT ![p] = fetch[p].keys]
    /\ fetched' = [fetched EXCEPT ![p] = fetch[p].at]
    /\ fetch' = [fetch EXCEPT ![p] = NoFetch]
    /\ UNCHANGED <<now, phase, published, grant, token>>

\* Fault: a set that could not be read leaves none.
DiscardAll(p) ==
    /\ fetch[p] # NoFetch
    /\ fetch' = [fetch EXCEPT ![p] = NoFetch]
    /\ cache' = [cache EXCEPT ![p] = {}]
    /\ UNCHANGED <<now, phase, published, fetched, grant, token>>

\* The answer does not arrive, is not a 200, or has a member that does not verify
\* (parseSet): the cache stays as it was.
Discard(p) ==
    /\ fetch[p] # NoFetch
    /\ fetch' = [fetch EXCEPT ![p] = NoFetch]
    /\ UNCHANGED <<now, phase, published, cache, fetched, grant, token>>

\* The process is started again, with an empty cache.
Restart(p) ==
    /\ cache' = [cache EXCEPT ![p] = {}]
    /\ fetch' = [fetch EXCEPT ![p] = NoFetch]
    /\ fetched' = [fetched EXCEPT ![p] = -1]
    /\ UNCHANGED <<now, phase, published, grant, token>>

-----------------------------------------------------------------------------
(* A grant: mintV3 *)

\* Client.Current: the one active key of the inventory.
Current(h) ==
    /\ grant[h].pc = "new"
    /\ \E k \in Keys :
         /\ phase[k] = "active"
         /\ grant' = [grant EXCEPT ![h] = [pc |-> "sign", kid |-> k]]
    /\ UNCHANGED <<now, phase, published, cache, fetch, fetched, token>>

\* Fault: whichever key signed, the header that was signed goes out.
SignUnchecked(h) ==
    /\ grant[h].pc \in {"sign", "again"}
    /\ \E k \in Keys :
         /\ phase[k] = "active"
         /\ grant' = [grant EXCEPT ![h].pc = "done"]
         /\ token' = [token EXCEPT ![h] = [kid |-> grant[h].kid, key |-> k]]
    /\ UNCHANGED <<now, phase, published, cache, fetch, fetched>>

\* Fault: after the second call the grant goes on, signed or not.
SignTwice(h) ==
    /\ grant[h].pc \in {"sign", "again"}
    /\ \E k \in Keys :
         /\ phase[k] = "active"
         /\ grant' = [grant EXCEPT
              ![h].pc = IF grant[h].pc = "sign" /\ k # grant[h].kid
                          THEN "again" ELSE "done",
              ![h].kid = k]
         /\ token' = IF k = grant[h].kid
                       THEN [token EXCEPT ![h] = [kid |-> k, key |-> k]] ELSE token
    /\ UNCHANGED <<now, phase, published, cache, fetch, fetched>>

\* Client.Sign: Keyryx signs a header that names grant[h].kid with the key that is
\* active by now.  When that is another, its kid goes into the header and is
\* signed again; a second move fails the grant (mintV3).
Sign(h) ==
    /\ grant[h].pc \in {"sign", "again"}
    /\ \E k \in Keys :
         /\ phase[k] = "active"
         /\ \/ /\ k = grant[h].kid
               /\ grant' = [grant EXCEPT ![h].pc = "done"]
               /\ token' = [token EXCEPT ![h] = [kid |-> grant[h].kid, key |-> k]]
            \/ /\ k # grant[h].kid
               /\ grant' = [grant EXCEPT
                    ![h].pc = IF grant[h].pc = "sign" THEN "again" ELSE "failed",
                    ![h].kid = k]
               /\ UNCHANGED token
    /\ UNCHANGED <<now, phase, published, cache, fetch, fetched>>

\* One of the calls fails, and the approval stays pending (ErrSigner).
SignerFails(h) ==
    /\ grant[h].pc \in {"new", "sign", "again"}
    /\ grant' = [grant EXCEPT ![h].pc = "failed"]
    /\ UNCHANGED <<now, phase, published, cache, fetch, fetched, token>>

-----------------------------------------------------------------------------

Next ==
    \/ \E k \in Keys : Publish(k) \/ Rotate(k) \/ Withdraw(k)
    \/ \E p \in Procs : Fetch(p) \/ Install(p) \/ Discard(p) \/ Restart(p)
    \/ \E h \in Grants : Current(h) \/ Sign(h) \/ SignerFails(h)
    \/ Tick

Spec == Init /\ [][Next]_vars

\* Cache.Run fetches every minute for as long as the process runs, and Keyryx is
\* not unreachable forever.
FairSpec ==
    Spec /\ \A p \in Procs : WF_vars(Fetch(p)) /\ SF_vars(Install(p))

-----------------------------------------------------------------------------
(* Correctness *)

\* parseV3: the key under the kid of the header, and the signature under that key.
Verifies(p, t) == t.kid \in cache[p] /\ t.key = t.kid

\* A process whose key set was read less than Lead ago verifies every token whose
\* key is still published, whichever rotations, failed refreshes and other
\* processes' grants came between: "Keyryx publishes a new key at least 15 minutes
\* before it signs with it, so a minute is far inside that window"
\* (keyryxRefreshEvery).  A process that has just started has read none.
FreshSetVerifies ==
    \A p \in Procs, h \in Grants :
        /\ token[h] # NoToken /\ InSet(token[h].key)
        /\ fetched[p] # -1 /\ now - fetched[p] < Lead
        => Verifies(p, token[h])

\* A key that Keyryx withdraws verifies nothing any more in the end, although a
\* refresh may be lost and one that was in flight still brings it.
WithdrawnKeysLeave ==
    \A p \in Procs, k \in Keys : phase[k] = "withdrawn" ~> k \notin cache[p]
=============================================================================
