------------------------- MODULE ApprovalKeysProofs -------------------------
(***************************************************************************)
(* A process with a fresh key set verifies every token of a published key, *)
(* for any number of keys, processes and grants and however long Keyryx    *)
(* publishes a key before it signs with it.                                *)
(***************************************************************************)
EXTENDS ApprovalKeys, TLAPS

\* A key that has signed was published for Lead before it did.
KeysAreAged ==
    \A k \in Keys : phase[k] \in {"active", "retired", "withdrawn"} => published[k] + Lead <= now

\* A set read at a time holds every key that was published before and still is.
Complete(keys, at) ==
    /\ at <= now
    /\ \A k \in Keys : InSet(k) /\ published[k] < at => k \in keys

FetchesAreComplete ==
    \A p \in Procs : fetch[p] # NoFetch => Complete(fetch[p].keys, fetch[p].at)

CachesAreComplete ==
    \A p \in Procs : fetched[p] # -1 => Complete(cache[p], fetched[p])

\* A token names the key that signed it, which was active then.
TokensAreSigned ==
    \A h \in Grants : token[h] # NoToken =>
        /\ token[h].kid = token[h].key
        /\ phase[token[h].key] \in {"active", "retired", "withdrawn"}

IInv == TypeOK /\ KeysAreAged /\ FetchesAreComplete /\ CachesAreComplete /\ TokensAreSigned

-----------------------------------------------------------------------------

\* At the beginning nothing is signed and no set is read; the first key is aged.
LEMMA InitIInv == Init => IInv
BY ConstantsAssumption, SMT
   DEF Init, IInv, TypeOK, KeysAreAged, FetchesAreComplete, CachesAreComplete,
       TokensAreSigned, Phases, GrantPCs, Grant

\* Keyryx publishes, rotates and withdraws: a key that joins a set later than it was
\* read was published later, and one that left it for good is asked of no set.
LEMMA KeyryxKeepsIInv ==
    ASSUME IInv, NEW k \in Keys, Publish(k) \/ Rotate(k) \/ Withdraw(k)
    PROVE  IInv'
<1> USE DEF IInv
<1>1. TypeOK'
  BY SMT DEF TypeOK, Publish, Rotate, Withdraw, Phases
<1>2. KeysAreAged'
  BY ConstantsAssumption, SMT DEF TypeOK, KeysAreAged, Publish, Rotate, Withdraw, Phases
<1>3. FetchesAreComplete'
  BY SMT DEF TypeOK, FetchesAreComplete, Complete, InSet, Publish, Rotate, Withdraw, Phases
<1>4. CachesAreComplete'
  BY SMT DEF TypeOK, CachesAreComplete, Complete, InSet, Publish, Rotate, Withdraw, Phases
<1>5. TokensAreSigned'
  BY SMT DEF TypeOK, TokensAreSigned, Publish, Rotate, Withdraw, Phases
<1>6. QED
  BY <1>1, <1>2, <1>3, <1>4, <1>5

\* A process reads a set, installs or loses it, or starts again.
LEMMA CacheKeepsIInv ==
    ASSUME IInv, NEW p \in Procs, Fetch(p) \/ Install(p) \/ Discard(p) \/ Restart(p)
    PROVE  IInv'
<1> USE DEF IInv
<1>1. TypeOK'
  <2>1. CASE Fetch(p)
    BY <2>1, ConstantsAssumption, SMT DEF TypeOK, Fetch, Published
  <2>2. CASE Install(p)
    BY <2>2, ConstantsAssumption, SMT DEF TypeOK, Install
  <2>3. CASE Discard(p) \/ Restart(p)
    BY <2>3, SMT DEF TypeOK, Discard, Restart
  <2>4. QED
    BY <2>1, <2>2, <2>3
<1>2. KeysAreAged' /\ TokensAreSigned'
  BY SMT DEF KeysAreAged, TokensAreSigned, Fetch, Install, Discard, Restart
<1>3. FetchesAreComplete'
  BY SMT DEF TypeOK, FetchesAreComplete, Complete, InSet, Published, Fetch, Install, Discard,
             Restart
<1>4. CachesAreComplete'
  BY SMT DEF TypeOK, FetchesAreComplete, CachesAreComplete, Complete, InSet, Fetch, Install,
             Discard, Restart
<1>5. QED
  BY <1>1, <1>2, <1>3, <1>4

\* A grant asks for the active key, signs, signs again or fails.
LEMMA GrantKeepsIInv ==
    ASSUME IInv, NEW h \in Grants, Current(h) \/ Sign(h) \/ SignerFails(h)
    PROVE  IInv'
<1> USE DEF IInv
<1>1. TypeOK'
  <2>1. CASE Current(h)
    BY <2>1, SMT DEF TypeOK, Current, Grant, GrantPCs
  <2>2. CASE Sign(h)
    <3>1. PICK k \in Keys :
            \/ /\ k = grant[h].kid
               /\ grant' = [grant EXCEPT ![h].pc = "done"]
               /\ token' = [token EXCEPT ![h] = [kid |-> k, key |-> k]]
            \/ /\ grant' = [grant EXCEPT
                    ![h].pc = IF grant[h].pc = "sign" THEN "again" ELSE "failed", ![h].kid = k]
               /\ UNCHANGED token
      BY <2>2 DEF Sign
    <3>2. grant[h].pc \in {"sign", "again"}
          /\ UNCHANGED <<now, phase, published, cache, fetch, fetched>>
      BY <2>2 DEF Sign
    <3>3. grant' \in [Grants -> Grant]
      <4>1. CASE grant' = [grant EXCEPT ![h].pc = "done"]
        BY <4>1, SMT DEF TypeOK, Grant, GrantPCs
      <4>2. CASE grant' = [grant EXCEPT
                    ![h].pc = IF grant[h].pc = "sign" THEN "again" ELSE "failed", ![h].kid = k]
        <5>1. PICK r \in Grant : grant' = [grant EXCEPT ![h] = r]
          <6>1. grant[h] \in Grant
            BY DEF TypeOK
          <6>2. [grant[h] EXCEPT !.pc = IF grant[h].pc = "sign" THEN "again" ELSE "failed",
                                 !.kid = k] \in Grant
            BY <6>1 DEF Grant, GrantPCs
          <6>3. QED
            BY <4>2, <6>2, Zenon DEF TypeOK
        <5>2. QED
          BY <5>1 DEF TypeOK
      <4>3. QED
        BY <3>1, <4>1, <4>2
    <3>4. [kid |-> k, key |-> k] \in [kid : Keys, key : Keys]
      OBVIOUS
    <3>5. token' \in [Grants -> [kid : Keys, key : Keys] \cup {NoToken}]
      BY <3>1, <3>4 DEF TypeOK
    <3>6. \A g \in Grants : grant'[g].pc = "done" <=> token'[g] # NoToken
      <4>1. [kid |-> k, key |-> k] # NoToken
        BY <3>4, ConstantsAssumption
      <4>2. QED
        BY <3>1, <3>2, <4>1, SMT DEF TypeOK, Grant
    <3>7. QED
      BY <3>2, <3>3, <3>5, <3>6 DEF TypeOK
  <2>3. CASE SignerFails(h)
    BY <2>3, SMT DEF TypeOK, SignerFails, Grant, GrantPCs
  <2>4. QED
    BY <2>1, <2>2, <2>3
<1>2. KeysAreAged' /\ FetchesAreComplete' /\ CachesAreComplete'
  BY SMT DEF KeysAreAged, FetchesAreComplete, CachesAreComplete, Complete, InSet, Current, Sign,
             SignerFails
<1>3. TokensAreSigned'
  BY SMT DEF TypeOK, TokensAreSigned, Current, Sign, SignerFails
<1>4. QED
  BY <1>1, <1>2, <1>3

\* Every step keeps the invariant.
LEMMA NextIInv == IInv /\ [Next]_vars => IInv'
<1> SUFFICES ASSUME IInv, [Next]_vars PROVE IInv'
  OBVIOUS
<1>1. CASE \E k \in Keys : Publish(k) \/ Rotate(k) \/ Withdraw(k)
  BY <1>1, KeyryxKeepsIInv
<1>2. CASE \E p \in Procs : Fetch(p) \/ Install(p) \/ Discard(p) \/ Restart(p)
  BY <1>2, CacheKeepsIInv
<1>3. CASE \E h \in Grants : Current(h) \/ Sign(h) \/ SignerFails(h)
  BY <1>3, GrantKeepsIInv
<1>4. CASE Tick
  BY <1>4, ConstantsAssumption, SMT
     DEF IInv, TypeOK, KeysAreAged, FetchesAreComplete, CachesAreComplete, Complete, InSet,
         TokensAreSigned, Tick
<1>5. CASE UNCHANGED vars
  BY <1>5, SMT
     DEF IInv, TypeOK, KeysAreAged, FetchesAreComplete, CachesAreComplete, Complete, InSet,
         TokensAreSigned, vars
<1>6. QED
  BY <1>1, <1>2, <1>3, <1>4, <1>5 DEF Next

\* A key that signed was published Lead before the token, so before a set read less
\* than Lead ago.
LEMMA IInvFresh == IInv => FreshSetVerifies
BY ConstantsAssumption, SMT
   DEF IInv, TypeOK, KeysAreAged, CachesAreComplete, Complete, TokensAreSigned,
       FreshSetVerifies, InSet, Verifies

\* The model's state is always of its type: no process that has read no set has a key,
\* and a grant has a token exactly when it is done (mintV3, Cache).
THEOREM TypeCorrect == Spec => []TypeOK
<1>1. IInv => TypeOK
  BY DEF IInv
<1>2. QED
  BY InitIInv, NextIInv, <1>1, PTL DEF Spec

\* A process whose key set was read less than Lead ago verifies every token whose key
\* is still published (Cache.Refresh, mintV3, keyryxRefreshEvery).
THEOREM FreshSetsVerify == Spec => []FreshSetVerifies
BY InitIInv, NextIInv, IInvFresh, PTL DEF Spec
-----------------------------------------------------------------------------
(* What WithdrawnKeysLeave rests on besides fairness *)

\* The key is withdrawn, and neither in the key set of the process nor in an answer
\* that is on its way to it.
GoneFrom(p, k) ==
    /\ phase[k] = "withdrawn"
    /\ k \notin cache[p]
    /\ fetch[p] # NoFetch => k \notin fetch[p].keys

\* An answer that Keyryx gives once a key is withdrawn does not bring that key, and
\* after the answer on its way there is none that does.
StaysGone(p, k) ==
    /\ GoneFrom(p, k) => GoneFrom(p, k)'
    /\ phase[k] = "withdrawn" /\ Fetch(p) => k \notin fetch'[p].keys
    /\ phase[k] = "withdrawn" /\ Install(p) /\ k \notin fetch[p].keys => GoneFrom(p, k)'

\* Keyryx publishes no key again.
LEMMA WithdrawnStays ==
    ASSUME TypeOK, [Next]_vars, NEW k \in Keys, phase[k] = "withdrawn"
    PROVE  phase'[k] = "withdrawn"
<1>1. ASSUME NEW j \in Keys, Publish(j) \/ Rotate(j) \/ Withdraw(j)
      PROVE  phase'[k] = "withdrawn"
  BY <1>1, SMT DEF TypeOK, Publish, Rotate, Withdraw
<1>2. ASSUME \/ \E p \in Procs : Fetch(p) \/ Install(p) \/ Discard(p) \/ Restart(p)
             \/ \E h \in Grants : Current(h) \/ Sign(h) \/ SignerFails(h)
             \/ Tick \/ UNCHANGED vars
      PROVE  phase' = phase
  BY <1>2 DEF Fetch, Install, Discard, Restart, Current, Sign, SignerFails, Tick, vars
<1>3. QED
  BY <1>1, <1>2 DEF Next

LEMMA GoneStep ==
    ASSUME TypeOK, [Next]_vars, NEW p \in Procs, NEW k \in Keys
    PROVE  StaysGone(p, k)
<1>1. phase[k] = "withdrawn" => k \notin Published
  BY DEF Published, InSet
<1>2. phase[k] = "withdrawn" /\ Fetch(p) => k \notin fetch'[p].keys
  BY <1>1 DEF TypeOK, Fetch
<1>3. phase[k] = "withdrawn" /\ Install(p) /\ k \notin fetch[p].keys => GoneFrom(p, k)'
  BY WithdrawnStays DEF TypeOK, Install, GoneFrom
<1>4. ASSUME GoneFrom(p, k) PROVE GoneFrom(p, k)'
  <2>1. phase'[k] = "withdrawn"
    BY <1>4, WithdrawnStays DEF GoneFrom
  <2>2. ASSUME NEW q \in Procs, Fetch(q) PROVE GoneFrom(p, k)'
    <3>1. cache' = cache /\ fetch' = [fetch EXCEPT ![q] = [at |-> now, keys |-> Published]]
      BY <2>2 DEF Fetch
    <3>2. QED
      BY <1>1, <1>4, <2>1, <3>1 DEF TypeOK, GoneFrom
  <2>3. ASSUME NEW q \in Procs, Install(q) PROVE GoneFrom(p, k)'
    BY <1>4, <2>1, <2>3 DEF TypeOK, Install, GoneFrom
  <2>4. ASSUME NEW q \in Procs, Discard(q) \/ Restart(q) PROVE GoneFrom(p, k)'
    BY <1>4, <2>1, <2>4 DEF TypeOK, Discard, Restart, GoneFrom
  <2>5. ASSUME UNCHANGED <<cache, fetch>> PROVE GoneFrom(p, k)'
    BY <1>4, <2>1, <2>5 DEF GoneFrom
  <2>6. ASSUME \/ \E j \in Keys : Publish(j) \/ Rotate(j) \/ Withdraw(j)
               \/ \E h \in Grants : Current(h) \/ Sign(h) \/ SignerFails(h)
               \/ Tick \/ UNCHANGED vars
        PROVE  UNCHANGED <<cache, fetch>>
    BY <2>6 DEF Publish, Rotate, Withdraw, Current, Sign, SignerFails, Tick, vars
  <2>7. QED
    BY <2>2, <2>3, <2>4, <2>5, <2>6 DEF Next
<1>5. QED
  BY <1>2, <1>3, <1>4 DEF StaysGone

\* A withdrawn key comes back into the key set of a process by no refresh, restart or
\* rotation, once it is out of it and of the answer on its way; and the first answer
\* read since it was withdrawn takes it out (Cache.Refresh replaces the set).
THEOREM WithdrawnKeysStayGone ==
    Spec => [][\A p \in Procs, k \in Keys : StaysGone(p, k)]_vars
<1>1. TypeOK /\ [Next]_vars => [\A p \in Procs, k \in Keys : StaysGone(p, k)]_vars
  BY GoneStep
<1>2. QED
  BY <1>1, TypeCorrect, PTL DEF Spec

\* No token under such a key verifies there at any later time, whenever it was signed
\* (parseV3).
THEOREM WithdrawnKeysVerifyNothing ==
    ASSUME NEW p \in Procs, NEW k \in Keys
    PROVE  Spec => [](GoneFrom(p, k) => [](\A h \in Grants :
             token[h] # NoToken /\ token[h].key = k => ~Verifies(p, token[h])))
<1>1. TypeOK /\ GoneFrom(p, k) /\ [Next]_vars => GoneFrom(p, k)'
  BY GoneStep DEF StaysGone
<1>2. IInv /\ GoneFrom(p, k) =>
        \A h \in Grants : token[h] # NoToken /\ token[h].key = k => ~Verifies(p, token[h])
  BY DEF GoneFrom, Verifies
<1>3. Spec => []IInv
  BY InitIInv, NextIInv, PTL DEF Spec
<1>4. QED
  BY <1>1, <1>2, <1>3, TypeCorrect, PTL DEF Spec
=============================================================================
