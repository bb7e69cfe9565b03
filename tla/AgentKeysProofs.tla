-------------------------- MODULE AgentKeysProofs --------------------------
(***************************************************************************)
(* A token that is accepted verified under the set its request read, and a *)
(* revocation takes effect in time, for any number of requests and tokens, *)
(* any key sets, and whatever comes between the steps of a verification.   *)
(***************************************************************************)
EXTENDS AgentKeys, FiniteSetTheorems, TLAPS

-----------------------------------------------------------------------------
(* The inductive invariant, part by part *)

\* An entry of the cache carries the generation that is held, whose set has its key.
CacheIsCurrent ==
    /\ IsFiniteSet(Cached)
    /\ \A t \in Tokens : cache[t] = Never \/ (cache[t] = generation /\ t.key \in keys)

\* What a request read: the set of its generation, at a time that has come; and what
\* is known of its token at each step.
RequestKnows(s) ==
    s.pc # "idle" =>
        /\ s.token \in Tokens /\ s.clock <= now
        /\ s.gen <= generation /\ (s.gen = generation => s.keys = keys)
        /\ s.pc # "verify" => s.token.key \in s.keys /\ s.clock <= s.token.exp + Leeway
        /\ s.pc \in {"store", "accepted"} /\ revokedAt[s.token] # Never =>
             s.clock <= revokedAt[s.token] + MaxAge
RequestsKnow == \A c \in Callers : RequestKnows(slot[c])

\* A revocation list names every token that was revoked before it was asked for.
Full(l) ==
    l.at # Never =>
        /\ l.at <= now
        /\ \A t \in Tokens : revokedAt[t] # Never /\ revokedAt[t] < l.at => t \in l.revoked
ListsAreFull == Full(list) /\ Full(poll)

IInv == TypeOK /\ CacheIsCurrent /\ RequestsKnow /\ ListsAreFull /\ SourcesInForce

-----------------------------------------------------------------------------
(* Facts about the parts *)

LEMMA IdleKnows == Idle \in Slot /\ RequestKnows(Idle) /\ RequestKnows(Idle)'
BY DEF Idle, Slot, RequestKnows

LEMMA EmptyCacheIsEmpty ==
    /\ EmptyCache \in [Tokens -> Nat \cup {Never}]
    /\ {t \in Tokens : EmptyCache[t] # Never} = {}
    /\ IsFiniteSet({}) /\ Cardinality({}) = 0 /\ 0 <= MaxCached
BY FS_EmptySet, ConstantsAssumption DEF EmptyCache

\* Nothing but the poll and the installed set is what SourcesInForce reads.
LEMMA SourcesStay ==
    ASSUME SourcesInForce, UNCHANGED <<fromURL, fromFile, keys, poll>>
    PROVE  SourcesInForce'
BY DEF SourcesInForce, Conflict

LEMMA InitIInv == Init => IInv
<1> SUFFICES ASSUME Init PROVE IInv
  OBVIOUS
<1>1. TypeOK
  <2>1. /\ cache \in [Tokens -> Nat \cup {Never}]
        /\ Cardinality({t \in Tokens : cache[t] # Never}) <= MaxCached
    <3>1. cache = EmptyCache
      BY DEF Init
    <3>2. QED
      BY <3>1, EmptyCacheIsEmpty
  <2>2. /\ now \in 0..MaxTime /\ generation \in 0..MaxGeneration
        /\ slot \in [Callers -> Slot]
    BY IdleKnows, ConstantsAssumption DEF Init
  <2>3. /\ list \in [revoked : SUBSET Tokens, at : Nat \cup {Never}]
        /\ poll \in [pc : Polls, revoked : SUBSET Tokens, at : Nat \cup {Never}]
    BY DEF Init, NoList, At, Polls
  <2>4. /\ fromURL \in UrlSets \cup {{}} /\ fromFile \in FileSets \cup {{}}
        /\ keys \subseteq Keys /\ up \in BOOLEAN
        /\ revokedAt \in [Tokens -> Nat \cup {Never}]
    BY DEF Init
  <2>5. QED
    BY <2>1, <2>2, <2>3, <2>4 DEF TypeOK
<1>2. CacheIsCurrent
  BY EmptyCacheIsEmpty DEF Init, CacheIsCurrent, Cached, EmptyCache
<1>3. RequestsKnow
  BY IdleKnows DEF Init, RequestsKnow
<1>4. ListsAreFull /\ SourcesInForce
  BY DEF Init, ListsAreFull, Full, NoList, At, SourcesInForce
<1>5. QED
  BY <1>1, <1>2, <1>3, <1>4 DEF IInv

-----------------------------------------------------------------------------
(* The poll *)

LEMMA PollKeepsIInv == ASSUME IInv, PollURL \/ PollFile \/ AskList PROVE IInv'
<1>1. /\ UNCHANGED <<now, keys, generation, cache, list, up, slot, revokedAt>>
      /\ fromURL' \in UrlSets \cup {{}} /\ fromFile' \in FileSets \cup {{}}
      /\ \/ poll' = At("file") \/ poll' = At("install")
         \/ /\ poll' = [pc |-> "answer", revoked |-> RevokedNow, at |-> now]
            /\ poll.pc = "list" /\ UNCHANGED <<fromURL, fromFile>>
  BY DEF IInv, TypeOK, PollURL, PollFile, AskList
<1>2. now \in Nat /\ RevokedNow \subseteq Tokens
  BY ConstantsAssumption DEF IInv, TypeOK, RevokedNow
<1>3. TypeOK'
  BY <1>1, <1>2 DEF IInv, TypeOK, At, Polls
<1>4. (CacheIsCurrent /\ RequestsKnow)'
  BY <1>1 DEF IInv, CacheIsCurrent, Cached, RequestsKnow, RequestKnows
<1>5. ListsAreFull'
  BY <1>1, <1>2, ConstantsAssumption DEF IInv, ListsAreFull, Full, At, RevokedNow
<1>6. SourcesInForce'
  BY <1>1 DEF IInv, SourcesInForce, At, Conflict
<1>7. QED
  BY <1>3, <1>4, <1>5, <1>6 DEF IInv

\* An install drops the cache with the set, and no request in flight has read the
\* new generation.
LEMMA InstallKeepsIInv == ASSUME IInv, Install PROVE IInv'
<1> DEFINE set == fromURL \cup fromFile
<1>1. /\ poll' = At("list")
      /\ UNCHANGED <<now, fromURL, fromFile, list, up, slot, revokedAt>>
  BY DEF Install
<1>2. ListsAreFull'
  BY <1>1 DEF IInv, ListsAreFull, Full, At
<1>3. CASE Conflict(fromURL, fromFile) \/ set = keys
  <2>1. UNCHANGED <<keys, generation, cache>>
    BY <1>3 DEF Install
  <2>2. TypeOK'
    BY <1>1, <2>1 DEF IInv, TypeOK, At, Polls
  <2>3. (CacheIsCurrent /\ RequestsKnow)'
    BY <1>1, <2>1 DEF IInv, CacheIsCurrent, Cached, RequestsKnow, RequestKnows
  <2>4. SourcesInForce'
    BY <1>1, <1>3, <2>1 DEF IInv, SourcesInForce, Conflict
  <2>5. QED
    BY <1>2, <2>2, <2>3, <2>4 DEF IInv
<1>4. CASE ~(Conflict(fromURL, fromFile) \/ set = keys)
  <2>1. /\ generation < MaxGeneration /\ keys' = set
        /\ generation' = generation + 1 /\ cache' = EmptyCache
    BY <1>4 DEF Install
  <2>2. set \subseteq Keys
    BY DEF IInv, TypeOK, Keys
  <2>3. generation \in 0..MaxGeneration /\ MaxGeneration \in Nat
    BY ConstantsAssumption DEF IInv, TypeOK
  <2>4. TypeOK'
    <3>1. /\ cache' \in [Tokens -> Nat \cup {Never}]
          /\ Cardinality({t \in Tokens : cache'[t] # Never}) <= MaxCached
      BY <2>1, EmptyCacheIsEmpty
    <3>2. generation' \in 0..MaxGeneration
      BY <2>1, <2>3
    <3>3. QED
      BY <1>1, <2>1, <2>2, <3>1, <3>2 DEF IInv, TypeOK, At, Polls
  <2>5. CacheIsCurrent'
    BY <2>1, EmptyCacheIsEmpty DEF CacheIsCurrent, Cached, EmptyCache
  <2>6. RequestsKnow'
    <3>1. ASSUME NEW c \in Callers PROVE RequestKnows(slot[c])'
      <4>1. slot[c].gen \in Nat /\ RequestKnows(slot[c])
        BY DEF IInv, TypeOK, Slot, RequestsKnow
      <4>2. slot[c].gen <= generation =>
              slot[c].gen <= generation' /\ slot[c].gen # generation'
        BY <2>1, <2>3, <4>1
      <4>3. slot'[c] = slot[c] /\ now' = now /\ revokedAt' = revokedAt
        BY <1>1
      <4>4. QED
        BY <4>1, <4>2, <4>3 DEF RequestKnows
    <3>2. QED
      BY <3>1 DEF RequestsKnow
  <2>7. \A j, k \in set : j.kid = k.kid => j = k
    <3>1. SUFFICES ASSUME NEW j \in set, NEW k \in set, j.kid = k.kid PROVE j = k
      OBVIOUS
    <3>2. /\ fromURL \in UrlSets \cup {{}} /\ fromFile \in FileSets \cup {{}}
          /\ \A l \in fromURL, m \in fromFile : l.kid = m.kid => l.x = m.x
      BY <1>4 DEF IInv, TypeOK, Conflict
    <3>3. CASE (j \in fromURL /\ k \in fromURL) \/ (j \in fromFile /\ k \in fromFile)
      BY <3>1, <3>2, <3>3, KeySetsAssumption
    <3>4. CASE (j \in fromURL /\ k \in fromFile) \/ (j \in fromFile /\ k \in fromURL)
      <4>1. j.x = k.x
        BY <3>1, <3>2, <3>4
      <4>2. j \in UNION (UrlSets \cup FileSets) /\ k \in UNION (UrlSets \cup FileSets)
        BY <3>2, <3>4
      <4>3. QED
        BY <3>1, <4>1, <4>2, KeySetsAssumption
    <3>5. QED
      BY <3>3, <3>4
  <2>8. SourcesInForce'
    BY <1>1, <2>1, <2>7 DEF SourcesInForce, At
  <2>9. QED
    BY <1>2, <2>4, <2>5, <2>6, <2>8 DEF IInv
<1>5. QED
  BY <1>3, <1>4

LEMMA ListArrivesKeepsIInv == ASSUME IInv, ListArrives PROVE IInv'
<1>1. /\ poll.pc = "answer" /\ poll' = At("url") /\ up' = TRUE
      /\ UNCHANGED <<now, fromURL, fromFile, keys, generation, cache, slot, revokedAt>>
      /\ \/ list' = list
         \/ list' = [revoked |-> poll.revoked, at |-> poll.at]
         \/ list' = [revoked |-> RevokedNow, at |-> poll.at]
  BY DEF ListArrives
<1>2. poll.revoked \subseteq Tokens /\ poll.at \in Nat \cup {Never} /\ RevokedNow \subseteq Tokens
  BY DEF IInv, TypeOK, RevokedNow
<1>3. TypeOK'
  BY <1>1, <1>2 DEF IInv, TypeOK, At, Polls
<1>4. (CacheIsCurrent /\ RequestsKnow)'
  BY <1>1 DEF IInv, CacheIsCurrent, Cached, RequestsKnow, RequestKnows
<1>5. ListsAreFull'
  BY <1>1, <1>2 DEF IInv, ListsAreFull, Full, At, RevokedNow
<1>6. SourcesInForce'
  BY <1>1 DEF IInv, SourcesInForce, At, Conflict
<1>7. QED
  BY <1>3, <1>4, <1>5, <1>6 DEF IInv

-----------------------------------------------------------------------------
(* The requests *)

\* A request that goes on leaves the others as they were.
LEMMA RequestGoesOn ==
    ASSUME IInv, NEW c \in Callers, NEW next \in Slot, RequestKnows(next),
           slot' = [slot EXCEPT ![c] = next],
           UNCHANGED <<now, fromURL, fromFile, keys, generation, cache, list, poll, up,
                       revokedAt>>
    PROVE  IInv'
<1>1. TypeOK'
  BY DEF IInv, TypeOK
<1>2. (CacheIsCurrent /\ ListsAreFull)'
  BY DEF IInv, CacheIsCurrent, Cached, ListsAreFull, Full
<1>3. RequestsKnow'
  <2>1. ASSUME NEW d \in Callers PROVE RequestKnows(slot[d])'
    <3>1. /\ slot'[d] = IF d = c THEN next ELSE slot[d]
          /\ RequestKnows(slot[d]) /\ RequestKnows(next)
      BY DEF IInv, TypeOK, RequestsKnow
    <3>2. QED
      BY <3>1 DEF RequestKnows
  <2>2. QED
    BY <2>1 DEF RequestsKnow
<1>4. SourcesInForce'
  BY SourcesStay DEF IInv
<1>5. QED
  BY <1>1, <1>2, <1>3, <1>4 DEF IInv

\* A token that the list does not name, on a list that is young enough, was not
\* revoked longer than MaxAge ago.
LEMMA UnrevokedIsTimely ==
    ASSUME IInv, NEW t \in Tokens, NEW clock \in Nat, ~Revoked(t, clock),
           revokedAt[t] # Never
    PROVE  clock <= revokedAt[t] + MaxAge
<1>1. /\ list.at \in Nat /\ revokedAt[t] \in Nat /\ MaxAge \in Nat
      /\ clock - list.at <= MaxAge /\ t \notin list.revoked
  BY ConstantsAssumption DEF IInv, TypeOK, Revoked
<1>2. list.at # Never
  BY <1>1, ConstantsAssumption
<1>3. ~(revokedAt[t] < list.at)
  BY <1>1, <1>2 DEF IInv, ListsAreFull, Full
<1>4. QED
  BY <1>1, <1>3

\* What a request carries, at any step but idle.
LEMMA InFlight ==
    ASSUME IInv, NEW c \in Callers, slot[c].pc # "idle"
    PROVE  /\ slot[c] \in Slot /\ RequestKnows(slot[c])
           /\ slot[c].token \in Tokens /\ slot[c].clock \in Nat
BY DEF IInv, TypeOK, Slot, RequestsKnow, RequestKnows

LEMMA AskKeepsIInv == ASSUME IInv, NEW c \in Callers, Ask(c) PROVE IInv'
<1>1. PICK t \in Tokens :
        slot' = [slot EXCEPT ![c] = [pc |-> IF Hit(t) THEN "cached" ELSE "verify",
                                     token |-> t, clock |-> now,
                                     keys |-> keys, gen |-> generation]]
  BY DEF Ask
<1> DEFINE next == [pc |-> IF Hit(t) THEN "cached" ELSE "verify", token |-> t,
                    clock |-> now, keys |-> keys, gen |-> generation]
<1>2. now \in Nat /\ generation \in Nat /\ keys \subseteq Keys
      /\ t.exp \in Nat /\ Leeway \in Nat
  BY ConstantsAssumption DEF IInv, TypeOK
<1>3. next \in Slot
  BY <1>2 DEF Slot
<1>4. Hit(t) => t.key \in keys /\ now <= t.exp + Leeway
  <2>1. SUFFICES ASSUME cache[t] = generation, now < t.exp
                 PROVE  t.key \in keys /\ now <= t.exp + Leeway
    BY DEF Hit
  <2>2. cache[t] # Never
    BY <1>2, <2>1, ConstantsAssumption
  <2>3. t.key \in keys
    BY <2>2 DEF IInv, CacheIsCurrent
  <2>4. QED
    BY <1>2, <2>1, <2>3
<1>5. RequestKnows(next)
  BY <1>2, <1>4 DEF RequestKnows
<1>6. UNCHANGED <<now, fromURL, fromFile, keys, generation, cache, list, poll, up,
                  revokedAt>>
  BY DEF Ask
<1> HIDE DEF next
<1>7. slot' = [slot EXCEPT ![c] = next]
  BY <1>1 DEF next
<1>8. QED
  BY <1>3, <1>5, <1>6, <1>7, RequestGoesOn

\* The checks of a request, and its end.
LEMMA CheckKeepsIInv ==
    ASSUME IInv, NEW c \in Callers, VerifyCached(c) \/ VerifyToken(c) \/ Done(c)
    PROVE  IInv'
<1> DEFINE s == slot[c]
<1>1. UNCHANGED <<now, fromURL, fromFile, keys, generation, cache, list, poll, up,
                  revokedAt>>
  BY DEF VerifyCached, VerifyToken, Done
<1>2. /\ s.pc # "idle" /\ s \in Slot /\ RequestKnows(s)
      /\ s.token \in Tokens /\ s.clock \in Nat
  BY InFlight DEF VerifyCached, VerifyToken, Done
<1>3. \/ slot' = [slot EXCEPT ![c] = Idle]
      \/ /\ s.pc = "cached" /\ ~Revoked(s.token, s.clock)
         /\ slot' = [slot EXCEPT ![c] = [s EXCEPT !.pc = "accepted"]]
      \/ /\ s.pc = "verify" /\ Verifies(s) /\ ~Revoked(s.token, s.clock)
         /\ slot' = [slot EXCEPT ![c] = [s EXCEPT !.pc = "store"]]
  BY DEF VerifyCached, VerifyToken, Done, Go
<1>4. CASE slot' = [slot EXCEPT ![c] = Idle]
  BY <1>1, <1>4, IdleKnows, RequestGoesOn
<1>5. ASSUME NEW pc \in {"store", "accepted"}, ~Revoked(s.token, s.clock),
             s.pc = "cached" \/ Verifies(s),
             slot' = [slot EXCEPT ![c] = [s EXCEPT !.pc = pc]]
      PROVE  IInv'
  <2> DEFINE next == [s EXCEPT !.pc = pc]
  <2>1. next \in Slot
    BY <1>2, <1>5 DEF Slot
  <2>2. revokedAt[s.token] # Never => s.clock <= revokedAt[s.token] + MaxAge
    BY <1>2, <1>5, UnrevokedIsTimely
  <2>3. s.token.key \in s.keys /\ s.clock <= s.token.exp + Leeway
    BY <1>2, <1>5 DEF RequestKnows, Verifies
  <2>4. /\ next.token = s.token /\ next.clock = s.clock /\ next.keys = s.keys
        /\ next.gen = s.gen
    BY <1>2 DEF Slot
  <2>5. RequestKnows(next)
    <3> HIDE DEF next
    <3> QED
      BY <1>2, <2>2, <2>3, <2>4 DEF RequestKnows
  <2>6. slot' = [slot EXCEPT ![c] = next]
    BY <1>5
  <2> HIDE DEF next
  <2>7. QED
    BY <1>1, <2>1, <2>5, <2>6, RequestGoesOn
<1>6. QED
  BY <1>3, <1>4, <1>5

\* An entry is written only while the set it verified under is held.
LEMMA StoreKeepsIInv == ASSUME IInv, NEW c \in Callers, Store(c) PROVE IInv'
<1> DEFINE s == slot[c]
           next == [s EXCEPT !.pc = "accepted"]
<1>1. /\ s.pc = "store"
      /\ UNCHANGED <<now, fromURL, fromFile, keys, generation, list, poll, up, revokedAt>>
      /\ slot' = [slot EXCEPT ![c] = next]
  BY DEF Store, Go
<1>2. s \in Slot /\ RequestKnows(s) /\ s.token \in Tokens
  BY <1>1, InFlight
<1>3. next \in Slot /\ RequestKnows(next)
  <2>1. /\ next \in Slot /\ next.pc = "accepted" /\ next.token = s.token
        /\ next.clock = s.clock /\ next.keys = s.keys /\ next.gen = s.gen
    BY <1>2 DEF Slot
  <2> HIDE DEF next
  <2>2. QED
    BY <1>1, <1>2, <2>1 DEF RequestKnows
<1>4. /\ CacheIsCurrent'
      /\ cache' \in [Tokens -> Nat \cup {Never}]
      /\ Cardinality({t \in Tokens : cache'[t] # Never}) <= MaxCached
  <2>1. CASE s.gen = generation /\ Cardinality(Cached) < MaxCached
    <3>1. cache' = [cache EXCEPT ![s.token] = s.gen] /\ generation \in Nat
      BY <2>1 DEF Store, IInv, TypeOK
    <3>2. s.token.key \in keys
      BY <1>1, <1>2, <2>1 DEF RequestKnows
    <3>3. /\ IsFiniteSet(Cached) /\ cache \in [Tokens -> Nat \cup {Never}]
          /\ MaxCached \in Nat
      BY ConstantsAssumption DEF IInv, TypeOK, CacheIsCurrent
    <3>4. {t \in Tokens : cache'[t] # Never} = Cached \cup {s.token}
      BY <1>2, <2>1, <3>1, <3>3, ConstantsAssumption DEF Cached
    <3>5. /\ IsFiniteSet(Cached \cup {s.token})
          /\ Cardinality(Cached \cup {s.token}) <= MaxCached
      <4>1. /\ IsFiniteSet(Cached \cup {s.token})
            /\ \/ Cardinality(Cached \cup {s.token}) = Cardinality(Cached)
               \/ Cardinality(Cached \cup {s.token}) = Cardinality(Cached) + 1
        BY <3>3, FS_AddElement
      <4>2. Cardinality(Cached) \in Nat
        BY <3>3, FS_CardinalityType
      <4>3. QED
        BY <2>1, <3>3, <4>1, <4>2
    <3>6. \A t \in Tokens :
            cache'[t] = Never \/ (cache'[t] = generation' /\ t.key \in keys')
      BY <1>1, <2>1, <3>1, <3>2, <3>3 DEF IInv, CacheIsCurrent
    <3>7. cache' \in [Tokens -> Nat \cup {Never}]
      BY <2>1, <3>1, <3>3
    <3>8. QED
      BY <3>4, <3>5, <3>6, <3>7 DEF CacheIsCurrent, Cached
  <2>2. CASE ~(s.gen = generation /\ Cardinality(Cached) < MaxCached)
    <3>1. cache' = cache
      BY <2>2 DEF Store
    <3>2. QED
      BY <1>1, <3>1 DEF IInv, TypeOK, CacheIsCurrent, Cached
  <2>3. QED
    BY <2>1, <2>2
<1> HIDE DEF next
<1>5. TypeOK'
  BY <1>1, <1>3, <1>4 DEF IInv, TypeOK
<1>6. RequestsKnow'
  <2>1. ASSUME NEW d \in Callers PROVE RequestKnows(slot[d])'
    <3>1. /\ slot'[d] = IF d = c THEN next ELSE slot[d]
          /\ RequestKnows(slot[d]) /\ RequestKnows(next)
      BY <1>1, <1>3 DEF IInv, TypeOK, RequestsKnow
    <3>2. QED
      BY <1>1, <3>1 DEF RequestKnows
  <2>2. QED
    BY <2>1 DEF RequestsKnow
<1>7. (ListsAreFull /\ SourcesInForce)'
  BY <1>1, SourcesStay DEF IInv, ListsAreFull, Full
<1>8. QED
  BY <1>4, <1>5, <1>6, <1>7 DEF IInv

-----------------------------------------------------------------------------
(* The issuer, the clock, and a restart *)

\* What is revoked now is revoked no earlier than any list was asked for, and no
\* earlier than any request came in.
LEMMA RevokeKeepsIInv == ASSUME IInv, NEW t \in Tokens, Revoke(t) PROVE IInv'
<1>1. /\ revokedAt' = [revokedAt EXCEPT ![t] = now] /\ revokedAt[t] = Never
      /\ UNCHANGED <<now, fromURL, fromFile, keys, generation, cache, list, poll, up, slot>>
  BY DEF Revoke
<1>2. now \in Nat /\ MaxAge \in Nat /\ revokedAt \in [Tokens -> Nat \cup {Never}]
  BY ConstantsAssumption DEF IInv, TypeOK
<1>3. (TypeOK /\ CacheIsCurrent /\ SourcesInForce)'
  BY <1>1, <1>2, SourcesStay DEF IInv, TypeOK, CacheIsCurrent, Cached
<1>4. RequestsKnow'
  <2>1. ASSUME NEW c \in Callers, slot[c].pc # "idle" PROVE RequestKnows(slot[c])'
    <3>1. RequestKnows(slot[c]) /\ slot[c].token \in Tokens /\ slot[c].clock \in Nat
      BY <2>1, InFlight
    <3>2. revokedAt'[slot[c].token] =
            IF slot[c].token = t THEN now ELSE revokedAt[slot[c].token]
      BY <1>1, <1>2, <3>1
    <3>3. slot[c].clock <= now => slot[c].clock <= now + MaxAge
      BY <1>2, <3>1
    <3>4. QED
      BY <1>1, <3>1, <3>2, <3>3 DEF RequestKnows
  <2>2. QED
    BY <1>1, <2>1 DEF RequestsKnow, RequestKnows
<1>5. ListsAreFull'
  <2>1. ASSUME NEW l \in {list, poll}, Full(l), l.at \in Nat \cup {Never}
        PROVE  /\ l.at # Never =>
                    \A u \in Tokens : revokedAt'[u] # Never /\ revokedAt'[u] < l.at
                      => u \in l.revoked
    BY <1>1, <1>2, <2>1 DEF Full
  <2>2. list.at \in Nat \cup {Never} /\ poll.at \in Nat \cup {Never}
    BY DEF IInv, TypeOK
  <2>3. QED
    BY <1>1, <2>1, <2>2 DEF IInv, ListsAreFull, Full
<1>6. QED
  BY <1>3, <1>4, <1>5 DEF IInv

LEMMA TickKeepsIInv == ASSUME IInv, Tick PROVE IInv'
<1>1. /\ now < MaxTime /\ now' = now + 1
      /\ UNCHANGED <<fromURL, fromFile, keys, generation, cache, list, poll, up, slot,
                     revokedAt>>
  BY DEF Tick
<1>2. now \in 0..MaxTime /\ MaxTime \in Nat
  BY ConstantsAssumption DEF IInv, TypeOK
<1>3. (TypeOK /\ CacheIsCurrent /\ SourcesInForce)'
  BY <1>1, <1>2, SourcesStay DEF IInv, TypeOK, CacheIsCurrent, Cached
<1>4. RequestsKnow'
  <2>1. ASSUME NEW c \in Callers, slot[c].pc # "idle" PROVE RequestKnows(slot[c])'
    <3>1. RequestKnows(slot[c]) /\ slot[c].clock \in Nat
      BY <2>1, InFlight
    <3>2. slot[c].clock <= now => slot[c].clock <= now'
      BY <1>1, <1>2, <3>1
    <3>3. QED
      BY <1>1, <3>1, <3>2 DEF RequestKnows
  <2>2. QED
    BY <1>1, <2>1 DEF RequestsKnow, RequestKnows
<1>5. ListsAreFull'
  <2>1. list.at \in Nat \cup {Never} /\ poll.at \in Nat \cup {Never}
    BY DEF IInv, TypeOK
  <2>2. QED
    BY <1>1, <1>2, <2>1 DEF IInv, ListsAreFull, Full
<1>6. QED
  BY <1>3, <1>4, <1>5 DEF IInv

LEMMA RestartKeepsIInv == ASSUME IInv, Restart PROVE IInv'
<1>1. /\ fromURL' = {} /\ fromFile' = {} /\ keys' = {} /\ generation' = 0
      /\ cache' = EmptyCache /\ list' = NoList /\ poll' = At("url") /\ up' = FALSE
      /\ slot' = [c \in Callers |-> Idle] /\ now' = now /\ revokedAt' = revokedAt
  BY DEF Restart
<1>2. /\ cache' \in [Tokens -> Nat \cup {Never}]
      /\ Cardinality({t \in Tokens : cache'[t] # Never}) <= MaxCached
  BY <1>1, EmptyCacheIsEmpty
<1>3. /\ generation' \in 0..MaxGeneration /\ slot' \in [Callers -> Slot]
  BY <1>1, IdleKnows, ConstantsAssumption
<1>4. TypeOK'
  BY <1>1, <1>2, <1>3 DEF IInv, TypeOK, NoList, At, Polls
<1>5. CacheIsCurrent'
  BY <1>1, EmptyCacheIsEmpty DEF CacheIsCurrent, Cached, EmptyCache
<1>6. RequestsKnow'
  BY <1>1 DEF RequestsKnow, RequestKnows, Idle
<1>7. (ListsAreFull /\ SourcesInForce)'
  BY <1>1 DEF ListsAreFull, Full, NoList, At, SourcesInForce
<1>8. QED
  BY <1>4, <1>5, <1>6, <1>7 DEF IInv

-----------------------------------------------------------------------------
(* The invariant, and what it gives *)

LEMMA NextIInv == IInv /\ [Next]_vars => IInv'
<1> SUFFICES ASSUME IInv, [Next]_vars PROVE IInv'
  OBVIOUS
<1>1. CASE PollURL \/ PollFile \/ AskList
  BY <1>1, PollKeepsIInv
<1>2. CASE Install
  BY <1>2, InstallKeepsIInv
<1>3. CASE ListArrives
  BY <1>3, ListArrivesKeepsIInv
<1>4. ASSUME NEW c \in Callers, Ask(c) PROVE IInv'
  BY <1>4, AskKeepsIInv
<1>5. ASSUME NEW c \in Callers, VerifyCached(c) \/ VerifyToken(c) \/ Done(c) PROVE IInv'
  BY <1>5, CheckKeepsIInv
<1>6. ASSUME NEW c \in Callers, Store(c) PROVE IInv'
  BY <1>6, StoreKeepsIInv
<1>7. ASSUME NEW t \in Tokens, Revoke(t) PROVE IInv'
  BY <1>7, RevokeKeepsIInv
<1>8. CASE Tick
  BY <1>8, TickKeepsIInv
<1>9. CASE Restart
  BY <1>9, RestartKeepsIInv
<1>10. CASE UNCHANGED vars
  BY <1>10, SourcesStay DEF vars, IInv, TypeOK, CacheIsCurrent, Cached, RequestsKnow,
                            RequestKnows, ListsAreFull, Full
<1>11. QED
  BY <1>1, <1>2, <1>3, <1>4, <1>5, <1>6, <1>7, <1>8, <1>9, <1>10 DEF Next

LEMMA SpecIInv == Spec => []IInv
BY InitIInv, NextIInv, PTL DEF Spec

\* The sources, the cache, the list and the requests have their types, and the cache
\* is never fuller than maxCached.
THEOREM TypeCorrect == Spec => []TypeOK
<1>1. IInv => TypeOK
  BY DEF IInv
<1>2. QED
  BY <1>1, SpecIInv, PTL

\* A cached token was verified by the set its request read, and is not past its exp.
THEOREM AcceptedTokensVerify == Spec => []AcceptedAsVerified
<1>1. IInv => AcceptedAsVerified
  <2>1. SUFFICES ASSUME IInv, NEW c \in Callers, slot[c].pc = "accepted"
                 PROVE  /\ slot[c].token.key \in slot[c].keys
                        /\ slot[c].clock <= slot[c].token.exp + Leeway
    BY DEF AcceptedAsVerified
  <2>2. QED
    BY <2>1, InFlight DEF RequestKnows
<1>2. QED
  BY <1>1, SpecIInv, PTL

\* No token is accepted later than MaxAge after its revocation.
THEOREM RevocationsAreTimely == Spec => []RevocationIsTimely
<1>1. IInv => RevocationIsTimely
  <2>1. SUFFICES ASSUME IInv, NEW c \in Callers, slot[c].pc = "accepted",
                        revokedAt[slot[c].token] # Never
                 PROVE  slot[c].clock <= revokedAt[slot[c].token] + MaxAge
    BY DEF RevocationIsTimely
  <2>2. QED
    BY <2>1, InFlight DEF RequestKnows
<1>2. QED
  BY <1>1, SpecIInv, PTL

\* The installed set is what the sources hold, unless they contradict each other,
\* and has one key to a kid.
THEOREM InstalledSetIsTheSources == Spec => []SourcesInForce
<1>1. IInv => SourcesInForce
  BY DEF IInv
<1>2. QED
  BY <1>1, SpecIInv, PTL
\* A key that leaves the installed set takes the tokens that verified under it out of
\* the cache with it, although a request may write the cache after the install
\* (install, cacheEntry): no entry is of a key that is not held.
CachedUnderHeldKeys == \A t \in Cached : t.key \in keys

THEOREM KeysTakeTheirTokens == Spec => []CachedUnderHeldKeys
<1>1. IInv => CachedUnderHeldKeys
  BY DEF IInv, CacheIsCurrent, CachedUnderHeldKeys, Cached
<1>2. QED
  BY <1>1, SpecIInv, PTL

-----------------------------------------------------------------------------
(* A revocation that has reached the process *)

\* The list that is held was not of a later moment than the one on its way, and names
\* revoked tokens only.
ListsGrow ==
    /\ list.revoked \subseteq RevokedNow
    /\ poll.pc = "answer" => /\ list.revoked \subseteq poll.revoked
                             /\ poll.revoked \subseteq RevokedNow

\* The issuer has revoked the token, and any list there is or that is on its way says
\* so.
Known(t) ==
    /\ revokedAt[t] # Never
    /\ list.at # Never => t \in list.revoked
    /\ poll.pc = "answer" => t \in poll.revoked

LEMMA RevokedStays ==
    ASSUME TypeOK, [Next]_vars
    PROVE  RevokedNow \subseteq RevokedNow'
<1>1. ASSUME NEW t \in Tokens, Revoke(t) PROVE RevokedNow \subseteq RevokedNow'
  <2>1. revokedAt' = [revokedAt EXCEPT ![t] = now] /\ revokedAt[t] = Never
    BY <1>1 DEF Revoke
  <2>2. QED
    BY <2>1 DEF RevokedNow, TypeOK
<1>2. ASSUME UNCHANGED revokedAt PROVE RevokedNow \subseteq RevokedNow'
  BY <1>2 DEF RevokedNow
<1>3. QED
  BY <1>1, <1>2
     DEF Next, vars, PollURL, PollFile, Install, AskList, ListArrives, Ask, VerifyCached,
         VerifyToken, Store, Done, Tick, Restart

\* What a step does to the lists.
LEMMA ListSteps ==
    ASSUME TypeOK, [Next]_vars
    PROVE  \/ UNCHANGED <<list, poll>>
           \/ poll'.pc # "answer" /\ list' = list
           \/ /\ poll'.revoked = RevokedNow /\ list' = list
           \/ /\ poll.pc = "answer" /\ poll'.pc # "answer"
              /\ \/ list' = list
                 \/ list'.revoked \in {poll.revoked, RevokedNow}
           \/ list' = NoList /\ poll'.pc # "answer"
<1>1. CASE PollURL \/ PollFile \/ Install
  BY <1>1 DEF PollURL, PollFile, Install, At
<1>2. CASE AskList
  BY <1>2 DEF AskList
<1>3. CASE ListArrives
  BY <1>3 DEF ListArrives, At
<1>4. CASE Restart
  BY <1>4 DEF Restart, At
<1>5. ASSUME NEW c \in Callers,
             Ask(c) \/ VerifyCached(c) \/ VerifyToken(c) \/ Store(c) \/ Done(c)
      PROVE  UNCHANGED <<list, poll>>
  BY <1>5 DEF Ask, VerifyCached, VerifyToken, Store, Done
<1>6. ASSUME (\E t \in Tokens : Revoke(t)) \/ Tick \/ UNCHANGED vars
      PROVE  UNCHANGED <<list, poll>>
  BY <1>6 DEF Revoke, Tick, vars
<1>7. QED
  BY <1>1, <1>2, <1>3, <1>4, <1>5, <1>6 DEF Next

LEMMA ListsGrowStep ==
    ASSUME TypeOK, ListsGrow, [Next]_vars PROVE ListsGrow'
BY ListSteps, RevokedStays DEF ListsGrow, NoList

LEMMA KnownStep ==
    ASSUME TypeOK, NEW t \in Tokens, Known(t), [Next]_vars PROVE Known(t)'
<1>1. t \in RevokedNow /\ t \in RevokedNow'
  BY RevokedStays DEF Known, RevokedNow
<1>2. revokedAt'[t] # Never
  BY <1>1 DEF RevokedNow
<1>3. /\ list'.at # Never => t \in list'.revoked
      /\ poll'.pc = "answer" => t \in poll'.revoked
  BY <1>1, ListSteps DEF Known, NoList
<1>4. QED
  BY <1>2, <1>3 DEF Known

\* Once the list of a process has named a token, no check of it passes at any later
\* time, whatever polls fail or are overtaken and however often the process starts
\* again: every list it holds from then on names it, and with none it refuses
\* (Revocations.Check under FailClosed).
THEOREM RevocationsStick ==
    ASSUME NEW t \in Tokens
    PROVE  Spec => [](t \in list.revoked => [](\A clock \in Nat : Revoked(t, clock)))
<1>1. Init => ListsGrow
  BY DEF Init, ListsGrow, NoList, At
<1>2. IInv => TypeOK
  BY DEF IInv
<1>3. TypeOK /\ ListsGrow /\ t \in list.revoked => Known(t)
  BY DEF ListsGrow, Known, RevokedNow
<1>4. TypeOK /\ Known(t) /\ [Next]_vars => Known(t)'
  BY KnownStep
<1>5. Known(t) => \A clock \in Nat : Revoked(t, clock)
  BY DEF Known, Revoked
<1>6. TypeOK /\ ListsGrow /\ [Next]_vars => ListsGrow'
  BY ListsGrowStep
<1>7. QED
  BY <1>1, <1>2, <1>3, <1>4, <1>5, <1>6, SpecIInv, PTL DEF Spec
=============================================================================
