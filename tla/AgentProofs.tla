---------------------------- MODULE AgentProofs ----------------------------
(***************************************************************************)
(* Single use of the DPoP proof that comes with an agent token on          *)
(* POST /v1/decide: Verifier.CheckProof and the record of accepted proofs, *)
(* shared in Postgres or held by one process.                              *)
(*                                                                         *)
(* A handler reads its clock, checks the proof's window against that       *)
(* reading, and then asks the record; other handlers, ticks of the clock,  *)
(* a purge and a restart come between.  A proof that fails any other check *)
(* (signature, cnf.jkt, ath, door) is refused before the record is asked   *)
(* and changes nothing; it is left out.                                    *)
(***************************************************************************)
EXTENDS Integers, FiniteSets

CONSTANTS
    Procs,    \* instances of wardryx
    Callers,  \* slots for requests that carry a proof
    Proofs,   \* proofs: [key, iat]; key stands for the digest of jkt and jti
    Window,   \* the proof window of each instance: ProofMaxAge
    MaxAge,   \* maxProofAge: the longest window there is
    Grace,    \* proofPurgeGrace
    Timeout,  \* storeTimeout
    Lag,      \* bound on how far an instance's clock is from the record's
    Cap,      \* maxProofReplays
    MaxTime   \* bound on the clock

ASSUME ConstantsAssumption ==
    /\ Window \in [Procs -> Nat] /\ \A p \in Procs : Window[p] <= MaxAge
    /\ MaxAge \in Nat /\ Grace \in Nat /\ Timeout \in Nat /\ Lag \in Nat
    /\ Cap \in Nat /\ MaxTime \in Nat
    /\ \A q \in Proofs : q.iat \in Int

\* What proofPurgeGrace is there for: an instance whose clock is behind, and the
\* time a claim may take to reach the record.
ASSUME GraceAssumption == Lag + Timeout <= Grace

VARIABLES
    now,     \* the record's clock
    shared,  \* TRUE: the record is Postgres; FALSE: each instance's own.  Fixed
    skew,    \* what each instance's clock is ahead of now.  Fixed
    rows,    \* the shared record: [key, until]
    local,   \* the record of each instance
    slot,    \* the requests in flight
    spent,   \* history: the proofs each instance accepted, since its start
             \* if the record is its own
    again    \* history: a proof was accepted that the record's scope had
             \* accepted before, and whether the handler had been overtaken

vars == <<now, shared, skew, rows, local, slot, spent, again>>

Keys    == {q.key : q \in Proofs}
Entries == [key : Keys, until : Int]

Slot == [pc    : {"record"},
         proc  : Procs,
         proof : Proofs,
         clock : Int,       \* the handler's reading of its instance's clock
         late  : BOOLEAN]   \* history: the record was pruned by a later reading
Slots   == Slot \cup [pc : {"idle", "refused"}]
Idle    == [pc |-> "idle"]      \* no request, or one that goes on to the decision
Refused == [pc |-> "refused"]   \* the last request was answered 403

\* Type correctness, and the bound on a record of one instance.
TypeOK ==
    /\ now \in 0..MaxTime
    /\ shared \in BOOLEAN
    /\ skew \in [Procs -> -Lag..Lag]
    /\ rows \subseteq Entries
    /\ local \in [Procs -> SUBSET Entries]
    /\ \A p \in Procs : Cardinality(local[p]) <= Cap
    /\ slot \in [Callers -> Slots]
    /\ spent \in [Procs -> SUBSET Proofs]
    /\ again \subseteq BOOLEAN

Init ==
    /\ now = 0
    /\ shared \in BOOLEAN
    /\ skew \in [Procs -> -Lag..Lag]
    /\ rows = {}
    /\ local = [p \in Procs |-> {}]
    /\ slot = [c \in Callers |-> Idle]
    /\ spent = [p \in Procs |-> {}]
    /\ again = {}

-----------------------------------------------------------------------------
(* A request that carries a proof *)

Clock(p) == now + skew[p]

\* The proof's iat is within the window of the instance, either way.
InWindow(p, q, clock) == clock - q.iat \in -Window[p]..Window[p]

\* The handler reads the clock, and the proof passes every check but the record's.
Present(c) ==
    /\ slot[c].pc # "record"
    /\ \E p \in Procs, q \in Proofs :
         /\ InWindow(p, q, Clock(p))
         /\ slot' = [slot EXCEPT ![c] = [pc |-> "record", proc |-> p, proof |-> q,
                                         clock |-> Clock(p), late |-> FALSE]]
    /\ UNCHANGED <<now, shared, skew, rows, local, spent, again>>

\* The proofs the record of instance p answers for.
Accepted(p) == IF shared THEN UNION {spent[o] : o \in Procs} ELSE spent[p]

Accept(c) ==
    LET s == slot[c] IN
    /\ spent' = [spent EXCEPT ![s.proc] = @ \cup {s.proof}]
    /\ again' = IF s.proof \in Accepted(s.proc) THEN again \cup {s.late} ELSE again

Refuse == UNCHANGED <<spent, again>>

\* Fault: entries are never dropped.
PrunedNever(p, clock) == local[p]

\* Fault: an entry is dropped in the last second of its window.
PrunedEarly(p, clock) == {e \in local[p] : e.until > clock}

\* The entries whose window is open at the reading, or opens later.
Pruned(p, clock) == {e \in local[p] : e.until >= clock}

\* Fault: one entry too many.
PastFull(entries) == Cardinality(entries) > Cap

Full(entries) == Cardinality(entries) >= Cap

\* The other requests of p that read the clock before this one.
Overtaken(c) ==
    {d \in Callers \ {c} : /\ slot[d].pc = "record"
                           /\ slot[d].proc = slot[c].proc
                           /\ slot[d].clock < slot[c].clock}

Leave(c, result) ==
    slot' = [d \in Callers |->
               IF d = c THEN result
               ELSE IF d \in Overtaken(c) THEN [slot[d] EXCEPT !.late = TRUE]
               ELSE slot[d]]

\* recordProof with the record of this process: the pruning, the check and the
\* insert are one step under proofMu, with the clock as it was read before.
RecordHere(c) ==
    /\ slot[c].pc = "record" /\ ~shared
    /\ LET s    == slot[c]
           open == Pruned(s.proc, s.clock)
       IN IF (\E e \in open : e.key = s.proof.key) \/ Full(open)
            THEN /\ Leave(c, Refused)
                 /\ local' = [local EXCEPT ![s.proc] = open]
                 /\ Refuse
            ELSE /\ Leave(c, Idle)
                 /\ local' = [local EXCEPT ![s.proc] = open \cup
                       {[key |-> s.proof.key, until |-> s.proof.iat + Window[s.proc]]}]
                 /\ Accept(c)
    /\ UNCHANGED <<now, shared, skew, rows>>

\* The row lasts for the longest window there is, whatever this instance's.
Claim(q) == [key |-> q.key, until |-> q.iat + MaxAge]

Claimed(q) == \E e \in rows : e.key = q.key

\* The time since the handler read its clock.
Elapsed(c) == Clock(slot[c].proc) - slot[c].clock

\* TryRecordProof: the insert claims the key or finds it claimed.
RecordShared(c) ==
    /\ slot[c].pc = "record" /\ shared
    /\ Elapsed(c) <= Timeout
    /\ IF Claimed(slot[c].proof)
         THEN /\ slot' = [slot EXCEPT ![c] = Refused]
              /\ Refuse /\ UNCHANGED rows
         ELSE /\ slot' = [slot EXCEPT ![c] = Idle]
              /\ rows' = rows \cup {Claim(slot[c].proof)}
              /\ Accept(c)
    /\ UNCHANGED <<now, shared, skew, local>>

\* The record fails or does not answer in time.  The claim may have been written;
\* the proof is refused either way (ErrProofRecord: a 503 or a 500).
RecordFails(c) ==
    /\ slot[c].pc = "record" /\ shared
    /\ slot' = [slot EXCEPT ![c] = Idle]
    /\ \/ UNCHANGED rows
       \/ /\ ~Claimed(slot[c].proof)
          /\ rows' = rows \cup {Claim(slot[c].proof)}
    /\ UNCHANGED <<now, shared, skew, local, spent, again>>

-----------------------------------------------------------------------------
(* The record and the processes *)

\* Fault: a row goes as soon as its time has passed.
PurgeAtOnce ==
    /\ \E e \in rows : e.until < now
    /\ rows' = {e \in rows : e.until >= now}
    /\ UNCHANGED <<now, shared, skew, local, slot, spent, again>>

\* Fault: the longest window is counted twice, in the row and in the purge.
PurgeLate ==
    /\ \E e \in rows : e.until < now - Grace - MaxAge
    /\ rows' = {e \in rows : e.until >= now - Grace - MaxAge}
    /\ UNCHANGED <<now, shared, skew, local, slot, spent, again>>

\* PurgeProofs, run by any instance, by the record's clock.
Purge ==
    /\ \E e \in rows : e.until < now - Grace
    /\ rows' = {e \in rows : e.until >= now - Grace}
    /\ UNCHANGED <<now, shared, skew, local, slot, spent, again>>

\* An instance restarts: its requests are cut off, and a record of its own is
\* empty again.
Restart(p) ==
    /\ local' = [local EXCEPT ![p] = {}]
    /\ spent' = IF shared THEN spent ELSE [spent EXCEPT ![p] = {}]
    /\ slot' = [c \in Callers |->
                  IF slot[c].pc = "record" /\ slot[c].proc = p THEN Idle ELSE slot[c]]
    /\ UNCHANGED <<now, shared, skew, rows, again>>

Tick ==
    /\ now < MaxTime
    /\ now' = now + 1
    /\ UNCHANGED <<shared, skew, rows, local, slot, spent, again>>

-----------------------------------------------------------------------------

Next ==
    \/ \E c \in Callers :
         Present(c) \/ RecordHere(c) \/ RecordShared(c) \/ RecordFails(c)
    \/ \E p \in Procs : Restart(p)
    \/ Purge \/ Tick

Spec == Init /\ [][Next]_vars

\* RunProofPurge purges at start and every minute for as long as an instance runs;
\* a purge that fails is tried again at the next.
FairSpec == Spec /\ WF_vars(Purge)

-----------------------------------------------------------------------------
(* Correctness *)

\* With the shared record a proof is accepted once at most, on any instance, across
\* restarts and purges, with windows that differ and clocks that are apart
\* (TryRecordProof, proofPurgeGrace).  With a record of its own, an instance accepts
\* a proof a second time only if, between the reading of the clock and the record,
\* a request with a later reading pruned the record: single use, as recordProof
\* promises it, but for that race.
AcceptedOnce == again \subseteq IF shared THEN {} ELSE {TRUE}

\* A proof that passed every check of its own is refused by a record only if its
\* key is in it, or the record of the process is full of entries whose windows
\* are open: no entry whose window is closed keeps another proof out.
RefusedForCause ==
    [][ \A c \in Callers :
          LET s    == slot[c]
              open == {e \in local[s.proc] : e.until >= s.clock}
          IN slot[c].pc = "record" /\ slot'[c].pc = "refused" =>
               IF shared THEN \E e \in rows : e.key = s.proof.key
               ELSE \/ \E e \in open : e.key = s.proof.key
                    \/ Cardinality(open) >= Cap ]_vars

\* Every row of the shared record is dropped once its time and the grace are past,
\* so the table does not grow for ever (RunProofPurge).
RowsAreDropped ==
    \A k \in Keys :
        (\E e \in rows : e.key = k /\ e.until < now - Grace)
            ~> ~\E e \in rows : e.key = k /\ e.until < now - Grace
=============================================================================
