----------------------------- MODULE AgentKeys -----------------------------
(***************************************************************************)
(* Which agent tokens verify: the key set merged from two sources, the     *)
(* cache of verified tokens, and the revocation list, while one goroutine  *)
(* polls the sources and requests verify tokens.                           *)
(*                                                                         *)
(* Verify reads the cache and the key set under a lock, verifies without   *)
(* it, and writes the cache under it again; an install, a poll and other   *)
(* requests come between.  What the issuer, the audience and the other     *)
(* claims say is left out: a token that fails on them verifies nowhere.    *)
(***************************************************************************)
EXTENDS Integers, FiniteSets

CONSTANTS
    Callers,       \* slots for requests that carry a token
    Tokens,        \* tokens: [jti, key, exp]; the key that signed it is [kid, x]
    UrlSets,       \* key sets the URL may serve
    FileSets,      \* key sets the file may hold; one that is malformed is no
                   \* key set, and reading it fails
    MaxAge,        \* delegation.DefaultRevocationMaxAge
    Leeway,        \* delegation.AgentTokenLeeway
    MaxCached,     \* maxCached
    MaxGeneration, \* bound on the installs of a process
    MaxTime,       \* bound on the clock
    NoToken, Never

\* What is read of a set is not empty and has one key to a kid, or it is not read
\* (parseSet); a key is its kid and its coordinates.
ASSUME KeySetsAssumption ==
    /\ \A set \in UrlSets \cup FileSets :
         set # {} /\ \A j, k \in set : j.kid = k.kid => j = k
    /\ \A j, k \in UNION (UrlSets \cup FileSets) : j.kid = k.kid /\ j.x = k.x => j = k

ASSUME ConstantsAssumption ==
    /\ MaxAge \in Nat /\ Leeway \in Nat /\ MaxCached \in Nat
    /\ MaxGeneration \in Nat /\ MaxTime \in Nat
    /\ NoToken \notin Tokens /\ Never \notin Nat
    /\ \A t \in Tokens : t.exp \in Nat

VARIABLES
    now,        \* the clock
    fromURL,    \* the last set the URL served
    fromFile,   \* the last set the file held
    keys,       \* the installed set
    generation, \* of the installed set
    cache,      \* the verified tokens, each with the generation it verified under
    list,       \* the revocation list: the tokens on it, and when it was asked for
    poll,       \* where the goroutine that polls is: its step, what it waits for
    up,         \* the process has loaded a key set and serves
    slot,       \* the requests in flight
    revokedAt   \* the issuer's: when each token was revoked

vars == <<now, fromURL, fromFile, keys, generation, cache, list, poll, up, slot,
          revokedAt>>

Keys == UNION (UrlSets \cup FileSets) \cup {t.key : t \in Tokens}

Polls == {"url", "file", "install", "list", "answer"}

Slot == [pc    : {"idle", "cached", "verify", "store", "accepted"},
         token : Tokens \cup {NoToken},
         clock : Nat,          \* the time the request was verified for
         keys  : SUBSET Keys,  \* the set installed when the request read it,
         gen   : Nat]          \* and its generation
Idle == [pc |-> "idle", token |-> NoToken, clock |-> 0, keys |-> {}, gen |-> 0]

NoList == [revoked |-> {}, at |-> Never]

\* Type correctness, and the bound on the cache.
TypeOK ==
    /\ now \in 0..MaxTime
    /\ fromURL \in UrlSets \cup {{}} /\ fromFile \in FileSets \cup {{}}
    /\ keys \subseteq Keys
    /\ generation \in 0..MaxGeneration
    /\ cache \in [Tokens -> Nat \cup {Never}]
    /\ Cardinality({t \in Tokens : cache[t] # Never}) <= MaxCached
    /\ list \in [revoked : SUBSET Tokens, at : Nat \cup {Never}]
    /\ poll \in [pc : Polls, revoked : SUBSET Tokens, at : Nat \cup {Never}]
    /\ up \in BOOLEAN
    /\ slot \in [Callers -> Slot]
    /\ revokedAt \in [Tokens -> Nat \cup {Never}]

At(pc)   == [pc |-> pc, revoked |-> {}, at |-> Never]
EmptyCache == [t \in Tokens |-> Never]

Init ==
    /\ now = 0
    /\ fromURL = {} /\ fromFile = {} /\ keys = {} /\ generation = 0
    /\ cache = EmptyCache
    /\ list = NoList
    /\ poll = At("url")
    /\ up = FALSE
    /\ slot = [c \in Callers |-> Idle]
    /\ revokedAt = [t \in Tokens |-> Never]

-----------------------------------------------------------------------------
(* Refresh: the steps of one poll, in their order.  A source that fails keeps *)
(* what it had.                                                               *)

PollURL ==
    /\ poll.pc = "url"
    /\ fromURL' \in UrlSets \cup {fromURL}
    /\ poll' = At("file")
    /\ UNCHANGED <<now, fromFile, keys, generation, cache, list, up, slot, revokedAt>>

PollFile ==
    /\ poll.pc = "file"
    /\ fromFile' \in FileSets \cup {fromFile}
    /\ poll' = At("install")
    /\ UNCHANGED <<now, fromURL, keys, generation, cache, list, up, slot, revokedAt>>

\* Fault: the sources are not held against each other.
NoConflict(one, two) == FALSE

\* A kid that both sources name with different keys.
Conflict(one, two) == \E j \in one, k \in two : j.kid = k.kid /\ j.x # k.x

\* install: a set that differs from the one held (in its keys; their order, which
\* the code compares too, is left out) replaces it, and the cache with
\* it is dropped; sources that disagree leave both alone.
Install ==
    /\ poll.pc = "install"
    /\ poll' = At("list")
    /\ LET set == fromURL \cup fromFile IN
       IF Conflict(fromURL, fromFile) \/ set = keys
         THEN UNCHANGED <<keys, generation, cache>>
         ELSE /\ generation < MaxGeneration
              /\ keys' = set
              /\ generation' = generation + 1
              /\ cache' = EmptyCache
    /\ UNCHANGED <<now, fromURL, fromFile, list, up, slot, revokedAt>>

RevokedNow == {t \in Tokens : revokedAt[t] # Never}

\* The list is asked for; its age counts from here.
AskList ==
    /\ poll.pc = "list"
    /\ poll' = [pc |-> "answer", revoked |-> RevokedNow, at |-> now]
    /\ UNCHANGED <<now, fromURL, fromFile, keys, generation, cache, list, up, slot,
                   revokedAt>>

\* It arrives, as it was when it was asked for or as it is now, or it does not.
\* After the first poll the process serves; with no key set it exits (Load).
ListArrives ==
    /\ poll.pc = "answer" /\ keys # {}
    /\ list' \in {list} \cup {[revoked |-> r, at |-> poll.at] : r \in {poll.revoked, RevokedNow}}
    /\ poll' = At("url")
    /\ up' = TRUE
    /\ UNCHANGED <<now, fromURL, fromFile, keys, generation, cache, slot, revokedAt>>

-----------------------------------------------------------------------------
(* Verify *)

\* Fault: a cached token is used past its exp.
HitPastExp(t) == cache[t] = generation

\* A token verified before, under the set that is still held, and before its exp.
Hit(t) == cache[t] = generation /\ now < t.exp

Ask(c) ==
    /\ slot[c].pc = "idle" /\ up
    /\ \E t \in Tokens :
         slot' = [slot EXCEPT ![c] = [pc |-> IF Hit(t) THEN "cached" ELSE "verify",
                                      token |-> t, clock |-> now,
                                      keys |-> keys, gen |-> generation]]
    /\ UNCHANGED <<now, fromURL, fromFile, keys, generation, cache, list, poll, up,
                   revokedAt>>

\* Fault: a list that has grown old is still relied on.
RevokedFailOpen(t, clock) == list.at = Never \/ t \in list.revoked

\* Revocations.Check under FailClosed: with no list, or one grown old, every token
\* is revoked.
Revoked(t, clock) ==
    list.at = Never \/ clock - list.at > MaxAge \/ t \in list.revoked

Go(c, pc) == slot' = [slot EXCEPT ![c] = IF pc = "idle" THEN Idle ELSE [@ EXCEPT !.pc = pc]]

\* A cached token is still asked the revocation question.
VerifyCached(c) ==
    /\ slot[c].pc = "cached"
    /\ Go(c, IF Revoked(slot[c].token, slot[c].clock) THEN "idle" ELSE "accepted")
    /\ UNCHANGED <<now, fromURL, fromFile, keys, generation, cache, list, poll, up,
                   revokedAt>>

\* VerifyRelayedAccess, on the set the request read.
Verifies(s) == s.token.key \in s.keys /\ s.clock <= s.token.exp + Leeway

VerifyToken(c) ==
    /\ slot[c].pc = "verify"
    /\ Go(c, IF Verifies(slot[c]) /\ ~Revoked(slot[c].token, slot[c].clock)
               THEN "store" ELSE "idle")
    /\ UNCHANGED <<now, fromURL, fromFile, keys, generation, cache, list, poll, up,
                   revokedAt>>

Cached == {t \in Tokens : cache[t] # Never}

\* Fault: the entry carries the generation of the moment it is written.
StoreAsCurrent(c) ==
    /\ slot[c].pc = "store"
    /\ cache' = IF Cardinality(Cached) < MaxCached
                  THEN [cache EXCEPT ![slot[c].token] = generation] ELSE cache
    /\ Go(c, "accepted")
    /\ UNCHANGED <<now, fromURL, fromFile, keys, generation, list, poll, up, revokedAt>>

\* Fault: a full cache takes one more.
StoreAlways(c) ==
    /\ slot[c].pc = "store"
    /\ cache' = IF slot[c].gen = generation
                  THEN [cache EXCEPT ![slot[c].token] = generation] ELSE cache
    /\ Go(c, "accepted")
    /\ UNCHANGED <<now, fromURL, fromFile, keys, generation, list, poll, up, revokedAt>>

\* The token is cached if the set it verified under is still held; a full cache
\* takes nothing, not even an entry again.
Store(c) ==
    /\ slot[c].pc = "store"
    /\ cache' = IF slot[c].gen = generation /\ Cardinality(Cached) < MaxCached
                  THEN [cache EXCEPT ![slot[c].token] = slot[c].gen] ELSE cache
    /\ Go(c, "accepted")
    /\ UNCHANGED <<now, fromURL, fromFile, keys, generation, list, poll, up, revokedAt>>

\* identitySourceFor goes on with the verified token.
Done(c) ==
    /\ slot[c].pc = "accepted"
    /\ Go(c, "idle")
    /\ UNCHANGED <<now, fromURL, fromFile, keys, generation, cache, list, poll, up,
                   revokedAt>>

-----------------------------------------------------------------------------
(* The issuer, the clock, and a restart *)

Revoke(t) ==
    /\ revokedAt[t] = Never
    /\ revokedAt' = [revokedAt EXCEPT ![t] = now]
    /\ UNCHANGED <<now, fromURL, fromFile, keys, generation, cache, list, poll, up, slot>>

Tick ==
    /\ now < MaxTime
    /\ now' = now + 1
    /\ UNCHANGED <<fromURL, fromFile, keys, generation, cache, list, poll, up, slot,
                   revokedAt>>

\* The process dies, or exits at its start, and is started again.
Restart ==
    /\ fromURL' = {} /\ fromFile' = {} /\ keys' = {} /\ generation' = 0
    /\ cache' = EmptyCache
    /\ list' = NoList
    /\ poll' = At("url")
    /\ up' = FALSE
    /\ slot' = [c \in Callers |-> Idle]
    /\ UNCHANGED <<now, revokedAt>>

-----------------------------------------------------------------------------

Next ==
    \/ PollURL \/ PollFile \/ Install \/ AskList \/ ListArrives
    \/ \E c \in Callers :
         Ask(c) \/ VerifyCached(c) \/ VerifyToken(c) \/ Store(c) \/ Done(c)
    \/ \E t \in Tokens : Revoke(t)
    \/ Tick \/ Restart

Spec == Init /\ [][Next]_vars

-----------------------------------------------------------------------------
(* Correctness *)

\* A token is accepted only if the key that signed it was in the set held when
\* the request came in, and before its exp and the leeway, through the cache as
\* well: no entry outlives its token or the set it verified under, whatever
\* installs come between the check and the write (cacheEntry).
AcceptedAsVerified ==
    \A c \in Callers :
        slot[c].pc = "accepted" =>
            /\ slot[c].token.key \in slot[c].keys
            /\ slot[c].clock <= slot[c].token.exp + Leeway

\* A revocation takes effect within MaxAge of the issuer's, whatever polls failed,
\* was in flight or is cached: a token is not accepted at a time later than that
\* (FailClosed; "a revocation takes effect at the next call, not at the token's
\* exp").
RevocationIsTimely ==
    \A c \in Callers :
        LET s == slot[c] IN
        s.pc = "accepted" /\ revokedAt[s.token] # Never =>
            s.clock <= revokedAt[s.token] + MaxAge

\* Between polls the installed set is what the two sources hold, with one key to a
\* kid; only sources that contradict each other keep an older set, which has one
\* key to a kid as well.
SourcesInForce ==
    /\ \A j, k \in keys : j.kid = k.kid => j = k
    /\ poll.pc \in {"list", "answer", "url"} =>
          keys = fromURL \cup fromFile \/ Conflict(fromURL, fromFile)
=============================================================================
