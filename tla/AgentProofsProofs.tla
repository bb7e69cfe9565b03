------------------------- MODULE AgentProofsProofs -------------------------
(***************************************************************************)
(* A proof is accepted once, for any number of instances, requests and     *)
(* proofs, whatever windows the instances have, and while their clocks are *)
(* no further from the record's than the grace of the purge allows.        *)
(***************************************************************************)
EXTENDS AgentProofs, FiniteSetTheorems, TLAPS

-----------------------------------------------------------------------------
(* The inductive invariant, part by part *)

\* A request at the record read its clock before now, and its proof was within its
\* window then.
RequestsInWindow ==
    \A c \in Callers : slot[c].pc = "record" =>
        /\ slot[c].clock <= Clock(slot[c].proc)
        /\ InWindow(slot[c].proc, slot[c].proof, slot[c].clock)

\* A proof that was accepted is in the shared record until no instance's clock can
\* be in its window any more.
RowsOutlastWindows ==
    shared => \A p \in Procs : \A q \in spent[p] :
                Claim(q) \in rows \/ q.iat + MaxAge < now - Grace

Entry(p, q) == [key |-> q.key, until |-> q.iat + Window[p]]

\* A proof that an instance accepted is in its record, or its window is closed, and
\* a request that still thinks otherwise has been overtaken.
EntriesOutlastWindows ==
    ~shared => \A p \in Procs : \A q \in spent[p] :
        \/ Entry(p, q) \in local[p]
        \/ /\ q.iat + Window[p] < Clock(p)
           /\ \A c \in Callers :
                slot[c].pc = "record" /\ slot[c].proc = p /\ slot[c].clock <= q.iat + Window[p]
                  => slot[c].late

RecordsAreFinite == \A p \in Procs : IsFiniteSet(local[p])

IInv ==
    /\ TypeOK /\ RequestsInWindow /\ RowsOutlastWindows /\ EntriesOutlastWindows
    /\ RecordsAreFinite /\ AcceptedOnce

-----------------------------------------------------------------------------

\* What a request at the record is.
LEMMA AtRecord ==
    ASSUME IInv, NEW c \in Callers, slot[c].pc = "record"
    PROVE  /\ slot[c] \in Slot
           /\ slot[c].proc \in Procs /\ slot[c].proof \in Proofs /\ slot[c].clock \in Int
           /\ slot[c].late \in BOOLEAN
           /\ slot[c].proof.iat \in Int /\ slot[c].proof.key \in Keys
           /\ Window[slot[c].proc] \in Nat /\ Window[slot[c].proc] <= MaxAge
           /\ skew[slot[c].proc] \in -Lag..Lag
           /\ slot[c].clock <= now + skew[slot[c].proc]
           /\ slot[c].clock <= slot[c].proof.iat + Window[slot[c].proc]
<1>1. slot[c] \in Slot
  BY DEF IInv, TypeOK, Slots
<1>2. /\ slot[c].proc \in Procs /\ slot[c].proof \in Proofs /\ slot[c].clock \in Int
      /\ slot[c].late \in BOOLEAN
  BY <1>1 DEF Slot
<1>3. slot[c].proof.iat \in Int /\ slot[c].proof.key \in Keys
  BY <1>2, ConstantsAssumption DEF Keys
<1>4. Window[slot[c].proc] \in Nat /\ Window[slot[c].proc] <= MaxAge
  BY <1>2, ConstantsAssumption
<1>5. skew[slot[c].proc] \in -Lag..Lag
  BY <1>2 DEF IInv, TypeOK
<1>6. slot[c].clock <= now + skew[slot[c].proc]
  BY DEF IInv, RequestsInWindow, Clock
<1>7. slot[c].clock - slot[c].proof.iat \in -Window[slot[c].proc]..Window[slot[c].proc]
  BY DEF IInv, RequestsInWindow, InWindow
<1>8. slot[c].clock <= slot[c].proof.iat + Window[slot[c].proc]
  BY <1>2, <1>3, <1>4, <1>7
<1>9. QED
  BY <1>1, <1>2, <1>3, <1>4, <1>5, <1>6, <1>8

LEMMA IdleIsSlot == Idle \in Slots /\ Refused \in Slots /\ Idle.pc = "idle" /\ Refused.pc = "refused"
BY DEF Idle, Refused, Slots

\* The proofs of a history have a time.
LEMMA SpentAreProofs ==
    ASSUME IInv, NEW p \in Procs, NEW q \in spent[p]
    PROVE  q \in Proofs /\ q.iat \in Int /\ q.key \in Keys /\ Window[p] \in Nat
           /\ skew[p] \in Int /\ now \in Int
BY ConstantsAssumption DEF IInv, TypeOK, Keys

-----------------------------------------------------------------------------
(* Each step *)

LEMMA PresentKeepsIInv ==
    ASSUME IInv, NEW c \in Callers, Present(c) PROVE IInv'
<1>1. PICK p \in Procs, q \in Proofs :
        /\ InWindow(p, q, Clock(p))
        /\ slot' = [slot EXCEPT ![c] = [pc |-> "record", proc |-> p, proof |-> q,
                                        clock |-> Clock(p), late |-> FALSE]]
  BY DEF Present
<1>2. UNCHANGED <<now, shared, skew, rows, local, spent, again>>
  BY DEF Present
<1>3. Clock(p) \in Int
  BY DEF IInv, TypeOK, Clock
<1>4. /\ slot'[c] = [pc |-> "record", proc |-> p, proof |-> q, clock |-> Clock(p), late |-> FALSE]
      /\ \A d \in Callers \ {c} : slot'[d] = slot[d]
      /\ slot' \in [Callers -> Slots]
  BY <1>1, <1>3 DEF IInv, TypeOK, Slots, Slot
<1>5. TypeOK'
  BY <1>2, <1>4 DEF IInv, TypeOK
<1>6. RequestsInWindow'
  BY <1>1, <1>2, <1>3, <1>4 DEF IInv, RequestsInWindow, InWindow, Clock
<1>7. (RowsOutlastWindows /\ RecordsAreFinite /\ AcceptedOnce)'
  BY <1>2 DEF IInv, RowsOutlastWindows, RecordsAreFinite, AcceptedOnce, Claim
<1>8. EntriesOutlastWindows'
  <2>1. SUFFICES ASSUME ~shared, NEW o \in Procs, NEW a \in spent[o],
                        Entry(o, a) \notin local[o]
                 PROVE  /\ a.iat + Window[o] < Clock(o)
                        /\ \A d \in Callers :
                             slot'[d].pc = "record" /\ slot'[d].proc = o
                             /\ slot'[d].clock <= a.iat + Window[o] => slot'[d].late
    BY <1>2 DEF EntriesOutlastWindows, Entry, Clock
  <2>2. /\ a.iat + Window[o] < Clock(o)
        /\ \A d \in Callers :
             slot[d].pc = "record" /\ slot[d].proc = o
             /\ slot[d].clock <= a.iat + Window[o] => slot[d].late
    BY <2>1 DEF IInv, EntriesOutlastWindows
  <2>3. slot'[c].proc = o => ~(slot'[c].clock <= a.iat + Window[o])
    BY <1>3, <1>4, <2>1, <2>2, SpentAreProofs
  <2>4. QED
    BY <1>4, <2>2, <2>3
<1>9. QED
  BY <1>5, <1>6, <1>7, <1>8 DEF IInv

\* The record of the process: the proof is there, or its window has closed and the
\* request has been overtaken.
LEMMA RecordHereKeepsIInv ==
    ASSUME IInv, NEW c \in Callers, RecordHere(c) PROVE IInv'
<1> DEFINE s    == slot[c]
           open == Pruned(s.proc, s.clock)
           e    == [key |-> s.proof.key, until |-> s.proof.iat + Window[s.proc]]
<1>1. /\ s.pc = "record" /\ ~shared
      /\ UNCHANGED <<now, shared, skew, rows>>
  BY DEF RecordHere
<1>2. /\ s \in Slot /\ s.proc \in Procs /\ s.proof \in Proofs /\ s.clock \in Int
      /\ s.late \in BOOLEAN
      /\ s.proof.iat \in Int /\ s.proof.key \in Keys
      /\ Window[s.proc] \in Nat
      /\ skew[s.proc] \in -Lag..Lag
      /\ s.clock <= now + skew[s.proc]
      /\ s.clock <= s.proof.iat + Window[s.proc]
  BY <1>1, AtRecord
<1>3. PICK result \in {Idle, Refused} :
        slot' = [d \in Callers |->
                   IF d = c THEN result
                   ELSE IF d \in Overtaken(c) THEN [slot[d] EXCEPT !.late = TRUE]
                   ELSE slot[d]]
  BY DEF RecordHere, Leave
<1>4. /\ slot'[c].pc \in {"idle", "refused"}
      /\ \A d \in Callers \ {c} :
           /\ slot'[d].pc = slot[d].pc
           /\ slot[d].pc = "record" =>
                /\ slot'[d] \in Slot
                /\ slot'[d].proc = slot[d].proc /\ slot'[d].proof = slot[d].proof
                /\ slot'[d].clock = slot[d].clock
                /\ slot[d].late => slot'[d].late
                /\ slot[d].proc = s.proc /\ slot[d].clock < s.clock => slot'[d].late
           /\ slot[d].pc # "record" => slot'[d] = slot[d]
  <2>1. slot'[c].pc \in {"idle", "refused"}
    BY <1>3, IdleIsSlot
  <2>2. ASSUME NEW d \in Callers \ {c}, slot[d].pc = "record"
        PROVE  /\ slot'[d] \in Slot /\ slot'[d].pc = slot[d].pc
               /\ slot'[d].proc = slot[d].proc /\ slot'[d].proof = slot[d].proof
               /\ slot'[d].clock = slot[d].clock
               /\ slot[d].late => slot'[d].late
               /\ slot[d].proc = s.proc /\ slot[d].clock < s.clock => slot'[d].late
    <3>1. slot[d] \in Slot
      BY <2>2, AtRecord
    <3>2. d \in Overtaken(c) <=> slot[d].proc = s.proc /\ slot[d].clock < s.clock
      BY <2>2 DEF Overtaken
    <3>3. slot'[d] = IF d \in Overtaken(c) THEN [slot[d] EXCEPT !.late = TRUE] ELSE slot[d]
      BY <1>3
    <3>4. CASE d \in Overtaken(c)
      <4>1. slot'[d] = [slot[d] EXCEPT !.late = TRUE]
        BY <3>3, <3>4
      <4>2. /\ slot'[d] \in Slot /\ slot'[d].pc = slot[d].pc
            /\ slot'[d].proc = slot[d].proc /\ slot'[d].proof = slot[d].proof
            /\ slot'[d].clock = slot[d].clock /\ slot'[d].late
        BY <3>1, <4>1 DEF Slot
      <4>3. QED
        BY <4>2
    <3>5. CASE d \notin Overtaken(c)
      <4>1. slot'[d] = slot[d]
        BY <3>3, <3>5
      <4>2. QED
        BY <3>1, <3>2, <3>5, <4>1
    <3>6. QED
      BY <3>4, <3>5
  <2>3. ASSUME NEW d \in Callers \ {c}, slot[d].pc # "record" PROVE slot'[d] = slot[d]
    BY <1>3, <2>3 DEF Overtaken
  <2>4. QED
    BY <2>1, <2>2, <2>3
<1>5. slot' \in [Callers -> Slots]
  <2>1. \A d \in Callers : slot'[d] \in Slots
    BY <1>3, <1>4, IdleIsSlot DEF IInv, TypeOK, Slots
  <2>2. QED
    BY <1>3, <2>1
<1>6. /\ open \subseteq local[s.proc] /\ IsFiniteSet(open) /\ Cardinality(open) \in Nat
      /\ Cardinality(open) <= Cap
  <2>1. open \subseteq local[s.proc] /\ IsFiniteSet(local[s.proc])
        /\ Cardinality(local[s.proc]) <= Cap
    BY <1>2 DEF Pruned, IInv, RecordsAreFinite, TypeOK
  <2>2. /\ IsFiniteSet(open) /\ Cardinality(open) <= Cardinality(local[s.proc])
        /\ Cardinality(open) \in Nat /\ Cardinality(local[s.proc]) \in Nat
    BY <2>1, FS_Subset, FS_CardinalityType
  <2>3. QED
    BY <2>1, <2>2, ConstantsAssumption
<1>7. RequestsInWindow'
  BY <1>1, <1>4 DEF IInv, RequestsInWindow, InWindow, Clock
<1>8. RowsOutlastWindows'
  BY <1>1 DEF RowsOutlastWindows
<1>9. ASSUME NEW set, local' = [local EXCEPT ![s.proc] = set], open \subseteq set,
             NEW o \in Procs, NEW a \in spent[o], Entry(o, a) \notin local'[o]
      PROVE  /\ a.iat + Window[o] < Clock(o)
             /\ \A d \in Callers :
                  slot'[d].pc = "record" /\ slot'[d].proc = o
                  /\ slot'[d].clock <= a.iat + Window[o] => slot'[d].late
  <2>1. a.iat \in Int /\ Window[o] \in Nat /\ skew[o] \in Int /\ now \in Int
    BY SpentAreProofs
  <2>2. CASE Entry(o, a) \notin local[o]
    BY <1>1, <1>4, <2>2 DEF IInv, EntriesOutlastWindows
  <2>3. CASE Entry(o, a) \in local[o]
    <3>1. o = s.proc /\ Entry(o, a) \notin open
      BY <1>2, <1>9, <2>3 DEF IInv, TypeOK
    <3>2. a.iat + Window[o] < s.clock
      BY <1>2, <2>1, <2>3, <3>1 DEF Pruned, Entry
    <3>3. a.iat + Window[o] < Clock(o)
      BY <1>2, <2>1, <3>1, <3>2 DEF Clock
    <3>4. ASSUME NEW d \in Callers, slot'[d].pc = "record", slot'[d].proc = o,
                 slot'[d].clock <= a.iat + Window[o]
          PROVE  slot'[d].late
      <4>1. d # c /\ slot[d].pc = "record"
        BY <1>4, <3>4
      <4>2. slot[d].clock \in Int
        BY <4>1, AtRecord
      <4>3. slot[d].clock < s.clock /\ slot[d].proc = s.proc
        BY <1>2, <1>4, <2>1, <3>1, <3>2, <3>4, <4>1, <4>2
      <4>4. QED
        BY <1>4, <4>1, <4>3
    <3>5. QED
      BY <3>3, <3>4
  <2>4. QED
    BY <2>2, <2>3
<1>10. CASE (\E x \in open : x.key = s.proof.key) \/ Full(open)
  <2>1. local' = [local EXCEPT ![s.proc] = open] /\ UNCHANGED <<spent, again>>
    BY <1>10 DEF RecordHere, Refuse
  <2>2. /\ local' \in [Procs -> SUBSET Entries]
        /\ \A p \in Procs : IsFiniteSet(local'[p]) /\ Cardinality(local'[p]) <= Cap
    BY <1>2, <1>6, <2>1 DEF IInv, TypeOK, RecordsAreFinite
  <2>3. (TypeOK /\ RecordsAreFinite)'
    BY <1>1, <1>5, <2>1, <2>2 DEF IInv, TypeOK, RecordsAreFinite
  <2>4. EntriesOutlastWindows'
    <3>1. ASSUME NEW o \in Procs, NEW a \in spent[o], Entry(o, a) \notin local'[o]
          PROVE  /\ a.iat + Window[o] < Clock(o)
                 /\ \A d \in Callers :
                      slot'[d].pc = "record" /\ slot'[d].proc = o
                      /\ slot'[d].clock <= a.iat + Window[o] => slot'[d].late
      BY <1>9, <2>1, <3>1
    <3>2. QED
      BY <1>1, <2>1, <3>1 DEF EntriesOutlastWindows, Entry, Clock
  <2>5. AcceptedOnce'
    BY <1>1, <2>1 DEF IInv, AcceptedOnce
  <2>6. QED
    BY <1>7, <1>8, <2>3, <2>4, <2>5 DEF IInv
<1>11. CASE ~((\E x \in open : x.key = s.proof.key) \/ Full(open))
  <2>1. /\ local' = [local EXCEPT ![s.proc] = open \cup {e}]
        /\ spent' = [spent EXCEPT ![s.proc] = spent[s.proc] \cup {s.proof}]
        /\ again' = IF s.proof \in Accepted(s.proc) THEN again \cup {s.late} ELSE again
    <3>1. spent \in [Procs -> SUBSET Proofs]
      BY DEF IInv, TypeOK
    <3>2. QED
      BY <1>2, <1>11, <3>1 DEF RecordHere, Accept
  <2>2. /\ e \in Entries
        /\ IsFiniteSet(open \cup {e}) /\ Cardinality(open \cup {e}) <= Cap
    <3>1. e \in Entries
      BY <1>2 DEF Entries
    <3>2. e \notin open
      BY <1>11
    <3>3. IsFiniteSet(open \cup {e}) /\ Cardinality(open \cup {e}) = Cardinality(open) + 1
      BY <1>6, <3>2, FS_AddElement
    <3>4. Cardinality(open) < Cap
      BY <1>6, <1>11, ConstantsAssumption DEF Full
    <3>5. QED
      BY <1>6, <3>1, <3>3, <3>4, ConstantsAssumption
  <2>3. /\ local' \in [Procs -> SUBSET Entries] /\ local'[s.proc] = open \cup {e}
        /\ \A p \in Procs : IsFiniteSet(local'[p]) /\ Cardinality(local'[p]) <= Cap
    BY <1>2, <1>6, <2>1, <2>2 DEF IInv, TypeOK, RecordsAreFinite
  <2>4. s.proof \in spent[s.proc] => s.late
    <3>1. CASE Entry(s.proc, s.proof) \in local[s.proc]
      <4>1. e \in open
        BY <1>2, <3>1 DEF Pruned, Entry
      <4>2. QED
        BY <1>11, <4>1
    <3>2. CASE Entry(s.proc, s.proof) \notin local[s.proc]
      BY <1>1, <1>2, <3>2 DEF IInv, EntriesOutlastWindows
    <3>3. QED
      BY <3>1, <3>2
  <2>5. again' \subseteq {TRUE}
    <3>1. again \subseteq {TRUE}
      BY <1>1 DEF IInv, AcceptedOnce
    <3>2. s.proof \in Accepted(s.proc) => s.late = TRUE
      BY <1>1, <1>2, <2>4 DEF Accepted
    <3>3. QED
      BY <2>1, <3>1, <3>2
  <2>6. (TypeOK /\ RecordsAreFinite)'
    BY <1>1, <1>2, <1>5, <2>1, <2>3, <2>5 DEF IInv, TypeOK, RecordsAreFinite
  <2>7. EntriesOutlastWindows'
    <3>1. ASSUME NEW o \in Procs, NEW a \in spent'[o], Entry(o, a) \notin local'[o]
          PROVE  /\ a.iat + Window[o] < Clock(o)
                 /\ \A d \in Callers :
                      slot'[d].pc = "record" /\ slot'[d].proc = o
                      /\ slot'[d].clock <= a.iat + Window[o] => slot'[d].late
      <4>1. a \in spent[o]
        <5>1. a \in spent[o] \/ (o = s.proc /\ a = s.proof)
          BY <1>2, <2>1, <3>1 DEF IInv, TypeOK
        <5>2. Entry(s.proc, s.proof) \in local'[s.proc]
          BY <2>3 DEF Entry
        <5>3. QED
          BY <3>1, <5>1, <5>2
      <4>2. QED
        BY <1>9, <2>1, <3>1, <4>1
    <3>2. QED
      BY <1>1, <3>1 DEF EntriesOutlastWindows, Entry, Clock
  <2>8. AcceptedOnce'
    BY <1>1, <2>5 DEF AcceptedOnce
  <2>9. QED
    BY <1>7, <1>8, <2>6, <2>7, <2>8 DEF IInv
<1>12. QED
  BY <1>10, <1>11

\* The shared record still has the row of a proof that any instance's window takes.
LEMMA RecordSharedKeepsIInv ==
    ASSUME IInv, NEW c \in Callers, RecordShared(c) PROVE IInv'
<1> DEFINE s == slot[c]
<1>1. /\ s.pc = "record" /\ shared /\ Elapsed(c) <= Timeout
      /\ UNCHANGED <<now, shared, skew, local>>
  BY DEF RecordShared
<1>2. /\ s.proc \in Procs /\ s.proof \in Proofs /\ s.clock \in Int
      /\ s.late \in BOOLEAN
      /\ s.proof.iat \in Int /\ s.proof.key \in Keys
      /\ Window[s.proc] \in Nat /\ Window[s.proc] <= MaxAge
      /\ skew[s.proc] \in -Lag..Lag
      /\ s.clock <= s.proof.iat + Window[s.proc]
      /\ now \in Int /\ MaxAge \in Nat
  BY <1>1, AtRecord, ConstantsAssumption DEF IInv, TypeOK
<1>3. \/ slot' = [slot EXCEPT ![c] = Idle]
      \/ slot' = [slot EXCEPT ![c] = Refused]
  BY DEF RecordShared
<1>4. /\ slot' \in [Callers -> Slots] /\ slot'[c].pc # "record"
      /\ \A d \in Callers \ {c} : slot'[d] = slot[d]
  BY <1>3, IdleIsSlot DEF IInv, TypeOK
<1>5. /\ RequestsInWindow' /\ RecordsAreFinite' /\ EntriesOutlastWindows'
  BY <1>1, <1>4 DEF IInv, RequestsInWindow, RecordsAreFinite, EntriesOutlastWindows,
                    InWindow, Clock
<1>6. CASE Claimed(s.proof)
  <2>1. UNCHANGED <<rows, spent, again>>
    BY <1>6 DEF RecordShared, Refuse
  <2>2. (TypeOK /\ RowsOutlastWindows /\ AcceptedOnce)'
    BY <1>1, <1>4, <2>1 DEF IInv, TypeOK, RowsOutlastWindows, AcceptedOnce, Claim
  <2>3. QED
    BY <1>5, <2>2 DEF IInv
<1>7. CASE ~Claimed(s.proof)
  <2>1. /\ rows' = rows \cup {Claim(s.proof)}
        /\ spent' = [spent EXCEPT ![s.proc] = spent[s.proc] \cup {s.proof}]
        /\ again' = IF s.proof \in Accepted(s.proc) THEN again \cup {s.late} ELSE again
    <3>1. spent \in [Procs -> SUBSET Proofs]
      BY DEF IInv, TypeOK
    <3>2. QED
      BY <1>2, <1>7, <3>1 DEF RecordShared, Accept
  <2>2. Claim(s.proof) \in Entries /\ Claim(s.proof).key = s.proof.key
    BY <1>2 DEF Claim, Entries
  <2>3. ~(s.proof.iat + MaxAge < now - Grace)
    <3>1. (now + skew[s.proc]) - s.clock <= Timeout
      BY DEF RecordShared, Elapsed, Clock
    <3>2. /\ Lag \in Nat /\ Timeout \in Nat /\ Grace \in Nat /\ Lag + Timeout <= Grace
      BY ConstantsAssumption, GraceAssumption
    <3>3. -Lag <= skew[s.proc] /\ skew[s.proc] \in Int
      BY <1>2, <3>2
    <3>4. now <= s.clock + Lag + Timeout
      BY <1>2, <3>1, <3>2, <3>3
    <3>5. s.clock <= s.proof.iat + MaxAge
      BY <1>2
    <3>6. QED
      BY <1>2, <3>2, <3>4, <3>5
  <2>4. s.proof \notin Accepted(s.proc)
    <3>1. SUFFICES ASSUME NEW o \in Procs, s.proof \in spent[o] PROVE FALSE
      BY <1>1 DEF Accepted
    <3>2. Claim(s.proof) \in rows
      BY <1>1, <2>3, <3>1 DEF IInv, RowsOutlastWindows
    <3>3. QED
      BY <1>7, <2>2, <3>2 DEF Claimed
  <2>5. (TypeOK /\ AcceptedOnce)'
    BY <1>1, <1>2, <1>4, <2>1, <2>2, <2>4 DEF IInv, TypeOK, AcceptedOnce
  <2>6. RowsOutlastWindows'
    <3>1. ASSUME NEW p \in Procs, NEW q \in spent'[p]
          PROVE  Claim(q) \in rows' \/ q.iat + MaxAge < now - Grace
      <4>1. q \in spent[p] \/ q = s.proof
        BY <1>2, <2>1, <3>1 DEF IInv, TypeOK
      <4>2. QED
        BY <1>1, <2>1, <4>1 DEF IInv, RowsOutlastWindows
    <3>2. QED
      BY <1>1, <3>1 DEF RowsOutlastWindows, Claim
  <2>7. QED
    BY <1>5, <2>5, <2>6 DEF IInv
<1>8. QED
  BY <1>6, <1>7

LEMMA RecordFailsKeepsIInv ==
    ASSUME IInv, NEW c \in Callers, RecordFails(c) PROVE IInv'
<1>1. /\ slot[c].pc = "record" /\ shared
      /\ slot' = [slot EXCEPT ![c] = Idle]
      /\ rows' = rows \/ rows' = rows \cup {Claim(slot[c].proof)}
      /\ UNCHANGED <<now, shared, skew, local, spent, again>>
  BY DEF RecordFails
<1>2. slot[c].proof.iat \in Int /\ slot[c].proof.key \in Keys
  BY <1>1, AtRecord
<1>3. /\ slot' \in [Callers -> Slots] /\ slot'[c].pc # "record"
      /\ \A d \in Callers \ {c} : slot'[d] = slot[d]
  BY <1>1, IdleIsSlot DEF IInv, TypeOK
<1>4. rows \subseteq rows' /\ rows' \subseteq Entries
  BY <1>1, <1>2, ConstantsAssumption DEF IInv, TypeOK, Claim, Entries
<1>5. TypeOK'
  BY <1>1, <1>3, <1>4 DEF IInv, TypeOK
<1>6. (RequestsInWindow /\ RecordsAreFinite /\ EntriesOutlastWindows)'
  BY <1>1, <1>3 DEF IInv, RequestsInWindow, RecordsAreFinite, EntriesOutlastWindows,
                    InWindow, Clock
<1>7. (RowsOutlastWindows /\ AcceptedOnce)'
  BY <1>1, <1>4 DEF IInv, RowsOutlastWindows, AcceptedOnce, Claim
<1>8. QED
  BY <1>5, <1>6, <1>7 DEF IInv

\* A purge leaves every row that a window may still ask for.
LEMMA PurgeKeepsIInv == ASSUME IInv, Purge PROVE IInv'
<1>1. /\ rows' = {e \in rows : e.until >= now - Grace}
      /\ UNCHANGED <<now, shared, skew, local, slot, spent, again>>
  BY DEF Purge
<1>2. TypeOK'
  BY <1>1 DEF IInv, TypeOK
<1>3. RowsOutlastWindows'
  <2>1. ASSUME shared, NEW p \in Procs, NEW q \in spent[p]
        PROVE  Claim(q) \in rows' \/ q.iat + MaxAge < now - Grace
    <3>1. q.iat \in Int /\ now \in Int /\ MaxAge \in Nat /\ Grace \in Nat
      BY <2>1, SpentAreProofs, ConstantsAssumption
    <3>2. Claim(q).until = q.iat + MaxAge
      BY DEF Claim
    <3>3. CASE Claim(q) \in rows
      BY <1>1, <3>1, <3>2, <3>3
    <3>4. CASE Claim(q) \notin rows
      BY <2>1, <3>4 DEF IInv, RowsOutlastWindows
    <3>5. QED
      BY <3>3, <3>4
  <2>2. QED
    BY <1>1, <2>1 DEF RowsOutlastWindows, Claim
<1>4. (RequestsInWindow /\ RecordsAreFinite /\ EntriesOutlastWindows /\ AcceptedOnce)'
  BY <1>1 DEF IInv, RequestsInWindow, RecordsAreFinite, EntriesOutlastWindows, AcceptedOnce,
              InWindow, Clock, Entry
<1>5. QED
  BY <1>2, <1>3, <1>4 DEF IInv

LEMMA RestartKeepsIInv == ASSUME IInv, NEW p \in Procs, Restart(p) PROVE IInv'
<1>1. /\ local' = [local EXCEPT ![p] = {}]
      /\ spent' = IF shared THEN spent ELSE [spent EXCEPT ![p] = {}]
      /\ slot' = [c \in Callers |->
                    IF slot[c].pc = "record" /\ slot[c].proc = p THEN Idle ELSE slot[c]]
      /\ UNCHANGED <<now, shared, skew, rows, again>>
  BY DEF Restart
<1>2. /\ slot' \in [Callers -> Slots]
      /\ \A c \in Callers : slot'[c].pc = "record" =>
           slot'[c] = slot[c] /\ slot[c].proc # p
  BY <1>1, IdleIsSlot DEF IInv, TypeOK
<1>3. IsFiniteSet({}) /\ Cardinality({}) = 0
  BY FS_EmptySet
<1>4. /\ local' \in [Procs -> SUBSET Entries] /\ local'[p] = {}
      /\ \A o \in Procs \ {p} : local'[o] = local[o]
  BY <1>1 DEF IInv, TypeOK
<1>5. \A o \in Procs : IsFiniteSet(local'[o]) /\ Cardinality(local'[o]) <= Cap
  <2>1. IsFiniteSet(local'[p]) /\ Cardinality(local'[p]) <= Cap
    <3>1. 0 <= Cap
      BY ConstantsAssumption
    <3>2. QED
      BY <1>3, <1>4, <3>1, Zenon
  <2>2. ASSUME NEW o \in Procs \ {p}
        PROVE  IsFiniteSet(local'[o]) /\ Cardinality(local'[o]) <= Cap
    <3>1. IsFiniteSet(local[o]) /\ Cardinality(local[o]) <= Cap
      BY DEF IInv, TypeOK, RecordsAreFinite
    <3>2. local'[o] = local[o]
      BY <1>4
    <3>3. QED
      BY <3>1, <3>2, Zenon
  <2>3. QED
    BY <2>1, <2>2, Zenon
<1>6. (TypeOK /\ RecordsAreFinite)'
  BY <1>1, <1>2, <1>4, <1>5 DEF IInv, TypeOK, RecordsAreFinite
<1>7. (RequestsInWindow /\ AcceptedOnce)'
  BY <1>1, <1>2 DEF IInv, RequestsInWindow, AcceptedOnce, InWindow, Clock
<1>8. RowsOutlastWindows'
  BY <1>1 DEF IInv, RowsOutlastWindows, Claim
<1>9. EntriesOutlastWindows'
  <2>1. ASSUME ~shared, NEW o \in Procs, NEW q \in spent'[o]
        PROVE  o # p /\ q \in spent[o]
    BY <1>1, <2>1 DEF IInv, TypeOK
  <2>2. QED
    BY <1>1, <1>2, <1>4, <2>1 DEF IInv, EntriesOutlastWindows, Entry, Clock
<1>10. QED
  BY <1>6, <1>7, <1>8, <1>9 DEF IInv

LEMMA TickKeepsIInv == ASSUME IInv, Tick PROVE IInv'
<1>1. /\ now < MaxTime /\ now' = now + 1
      /\ UNCHANGED <<shared, skew, rows, local, slot, spent, again>>
  BY DEF Tick
<1>2. now \in 0..MaxTime /\ MaxTime \in Nat
  BY ConstantsAssumption DEF IInv, TypeOK
<1>3. TypeOK'
  BY <1>1, <1>2 DEF IInv, TypeOK
<1>4. \A p \in Procs : Clock(p) \in Int /\ Clock(p)' = Clock(p) + 1
  BY <1>1, <1>2 DEF IInv, TypeOK, Clock
<1>5. RequestsInWindow'
  <2>1. ASSUME NEW c \in Callers, slot[c].pc = "record"
        PROVE  slot[c].clock <= Clock(slot[c].proc)'
    <3>1. /\ slot[c].clock \in Int /\ slot[c].proc \in Procs
          /\ skew[slot[c].proc] \in -Lag..Lag /\ Lag \in Nat
          /\ slot[c].clock <= now + skew[slot[c].proc]
      BY <2>1, AtRecord, ConstantsAssumption
    <3>2. Clock(slot[c].proc)' = (now + 1) + skew[slot[c].proc]
      BY <1>1 DEF Clock
    <3>3. slot[c].clock <= (now + 1) + skew[slot[c].proc]
      BY <1>2, <3>1
    <3>4. QED
      BY <3>2, <3>3
  <2>2. QED
    BY <1>1, <2>1 DEF IInv, RequestsInWindow, InWindow, Clock
<1>6. RowsOutlastWindows'
  <2>1. ASSUME shared, NEW p \in Procs, NEW q \in spent[p]
        PROVE  Claim(q) \in rows \/ q.iat + MaxAge < now' - Grace
    <3>1. q.iat \in Int /\ MaxAge \in Nat /\ Grace \in Nat
      BY <2>1, SpentAreProofs, ConstantsAssumption
    <3>2. Claim(q) \in rows \/ q.iat + MaxAge < now - Grace
      BY <2>1 DEF IInv, RowsOutlastWindows
    <3>3. QED
      BY <1>1, <1>2, <3>1, <3>2
  <2>2. QED
    BY <1>1, <2>1 DEF RowsOutlastWindows, Claim
<1>7. EntriesOutlastWindows'
  <2>1. ASSUME ~shared, NEW p \in Procs, NEW q \in spent[p], Entry(p, q) \notin local[p]
        PROVE  q.iat + Window[p] < Clock(p) + 1
    BY <1>4, <2>1, SpentAreProofs DEF IInv, EntriesOutlastWindows
  <2>2. QED
    BY <1>1, <1>4, <2>1 DEF IInv, EntriesOutlastWindows, Entry
<1>8. (RecordsAreFinite /\ AcceptedOnce)'
  BY <1>1 DEF IInv, RecordsAreFinite, AcceptedOnce
<1>9. QED
  BY <1>3, <1>5, <1>6, <1>7, <1>8 DEF IInv

-----------------------------------------------------------------------------
(* The theorems *)

LEMMA InitIInv == Init => IInv
<1>1. SUFFICES ASSUME Init PROVE IInv
  OBVIOUS
<1>2. IsFiniteSet({}) /\ Cardinality({}) = 0
  BY FS_EmptySet
<1>3. TypeOK /\ RecordsAreFinite
  BY <1>1, <1>2, IdleIsSlot, ConstantsAssumption DEF Init, TypeOK, RecordsAreFinite
<1>4. RequestsInWindow
  BY <1>1, IdleIsSlot DEF Init, RequestsInWindow
<1>5. RowsOutlastWindows /\ EntriesOutlastWindows /\ AcceptedOnce
  BY <1>1 DEF Init, RowsOutlastWindows, EntriesOutlastWindows, AcceptedOnce
<1>6. QED
  BY <1>3, <1>4, <1>5 DEF IInv

LEMMA NextIInv == IInv /\ [Next]_vars => IInv'
<1> SUFFICES ASSUME IInv, [Next]_vars PROVE IInv'
  OBVIOUS
<1>1. ASSUME NEW c \in Callers, Present(c) PROVE IInv'
  BY <1>1, PresentKeepsIInv
<1>2. ASSUME NEW c \in Callers, RecordHere(c) PROVE IInv'
  BY <1>2, RecordHereKeepsIInv
<1>3. ASSUME NEW c \in Callers, RecordShared(c) PROVE IInv'
  BY <1>3, RecordSharedKeepsIInv
<1>4. ASSUME NEW c \in Callers, RecordFails(c) PROVE IInv'
  BY <1>4, RecordFailsKeepsIInv
<1>5. ASSUME NEW p \in Procs, Restart(p) PROVE IInv'
  BY <1>5, RestartKeepsIInv
<1>6. CASE Purge
  BY <1>6, PurgeKeepsIInv
<1>7. CASE Tick
  BY <1>7, TickKeepsIInv
<1>8. CASE UNCHANGED vars
  <2>1. UNCHANGED <<now, shared, skew, rows, local, slot, spent, again>>
    BY <1>8 DEF vars
  <2>2. (TypeOK /\ RequestsInWindow /\ RowsOutlastWindows /\ RecordsAreFinite /\ AcceptedOnce)'
    BY <2>1 DEF IInv, TypeOK, RequestsInWindow, RowsOutlastWindows, RecordsAreFinite, AcceptedOnce,
                InWindow, Clock, Claim
  <2>3. EntriesOutlastWindows'
    BY <2>1 DEF IInv, EntriesOutlastWindows, Entry, Clock
  <2>4. QED
    BY <2>2, <2>3 DEF IInv
<1>9. QED
  BY <1>1, <1>2, <1>3, <1>4, <1>5, <1>6, <1>7, <1>8 DEF Next

LEMMA SpecIInv == Spec => []IInv
BY InitIInv, NextIInv, PTL DEF Spec

\* The records, the requests and the history have their types, and the record of an
\* instance is never fuller than its bound.
THEOREM TypeCorrect == Spec => []TypeOK
<1>1. IInv => TypeOK
  BY DEF IInv
<1>2. QED
  BY <1>1, SpecIInv, PTL

\* Single use: with the shared record always, with an instance's own record unless
\* the request was overtaken between its clock and the record.
THEOREM ProofsAreAcceptedOnce == Spec => []AcceptedOnce
<1>1. IInv => AcceptedOnce
  BY DEF IInv
<1>2. QED
  BY <1>1, SpecIInv, PTL

\* A request that was refused at the record was refused by its own step.
LEMMA RefusedByItsRecord ==
    ASSUME IInv, [Next]_vars, NEW c \in Callers, slot[c].pc = "record",
           slot'[c].pc = "refused"
    PROVE  RecordHere(c) \/ RecordShared(c)
<1>1. slot \in [Callers -> Slots]
  BY DEF IInv, TypeOK
<1>2. ASSUME NEW d \in Callers, Present(d) PROVE FALSE
  BY <1>1, <1>2 DEF Present
<1>3. ASSUME NEW d \in Callers, RecordFails(d) PROVE FALSE
  BY <1>1, <1>3, IdleIsSlot DEF RecordFails
<1>4. ASSUME NEW d \in Callers, RecordHere(d) PROVE d = c
  <2>1. ASSUME d # c PROVE FALSE
    <3>1. slot'[c] \in {slot[c], [slot[c] EXCEPT !.late = TRUE]}
      BY <1>4, <2>1 DEF RecordHere, Leave
    <3>2. slot[c] \in Slot
      BY AtRecord
    <3>3. QED
      BY <3>1, <3>2 DEF Slot
  <2>2. QED
    BY <2>1
<1>5. ASSUME NEW d \in Callers, RecordShared(d) PROVE d = c
  BY <1>1, <1>5 DEF RecordShared
<1>6. ASSUME NEW p \in Procs, Restart(p) PROVE FALSE
  BY <1>6, IdleIsSlot DEF Restart
<1>7. CASE Purge \/ Tick \/ UNCHANGED vars
  BY <1>7 DEF Purge, Tick, vars
<1>8. QED
  BY <1>2, <1>3, <1>4, <1>5, <1>6, <1>7 DEF Next

\* No proof is refused by a record for an entry whose window is closed.
THEOREM RefusalsHaveACause == Spec => RefusedForCause
<1> DEFINE Caused ==
      \A c \in Callers :
          LET s    == slot[c]
              open == {e \in local[s.proc] : e.until >= s.clock}
          IN slot[c].pc = "record" /\ slot'[c].pc = "refused" =>
               IF shared THEN \E e \in rows : e.key = s.proof.key
               ELSE \/ \E e \in open : e.key = s.proof.key
                    \/ Cardinality(open) >= Cap
<1>1. IInv /\ [Next]_vars => Caused
  <2>1. SUFFICES ASSUME IInv, [Next]_vars, NEW c \in Callers,
                        slot[c].pc = "record", slot'[c].pc = "refused"
                 PROVE  LET s    == slot[c]
                            open == {e \in local[s.proc] : e.until >= s.clock}
                        IN IF shared THEN \E e \in rows : e.key = s.proof.key
                           ELSE \/ \E e \in open : e.key = s.proof.key
                                \/ Cardinality(open) >= Cap
    OBVIOUS
  <2>2. slot \in [Callers -> Slots]
    BY <2>1 DEF IInv, TypeOK
  <2>3. CASE RecordHere(c)
    BY <2>1, <2>2, <2>3, IdleIsSlot DEF RecordHere, Leave, Pruned, Full
  <2>4. CASE RecordShared(c)
    BY <2>1, <2>2, <2>4, IdleIsSlot DEF RecordShared, Claimed
  <2>5. QED
    BY <2>1, <2>3, <2>4, RefusedByItsRecord
<1>2. IInv /\ [Next]_vars => [Caused]_vars
  BY <1>1
<1>3. QED
  BY <1>2, SpecIInv, PTL DEF Spec, RefusedForCause
-----------------------------------------------------------------------------
(* The records: one entry to a key, kept for its time *)

OneToAKey(entries) == \A e, f \in entries : e.key = f.key => e = f

\* A key has one row of the shared record, as the primary key has it, and one entry of
\* an instance's record, which is a map.
RecordsAreKeyed == OneToAKey(rows) /\ \A p \in Procs : OneToAKey(local[p])

\* Only what no proof of the key had recorded is recorded.
LEMMA KeyedStep ==
    ASSUME IInv, RecordsAreKeyed, [Next]_vars PROVE RecordsAreKeyed'
<1>1. ASSUME NEW S, NEW T, OneToAKey(S), T \subseteq S PROVE OneToAKey(T)
  BY <1>1 DEF OneToAKey
<1>2. ASSUME NEW S, NEW k, NEW u, OneToAKey(S), ~\E e \in S : e.key = k
      PROVE  OneToAKey(S \cup {[key |-> k, until |-> u]})
  BY <1>2 DEF OneToAKey
<1>3. ASSUME NEW c \in Callers, RecordHere(c) PROVE RecordsAreKeyed'
  <2> DEFINE p    == slot[c].proc
             open == Pruned(p, slot[c].clock)
             new  == [key |-> slot[c].proof.key, until |-> slot[c].proof.iat + Window[p]]
  <2>1. /\ rows' = rows
        /\ \/ local' = [local EXCEPT ![p] = open]
           \/ /\ ~\E e \in open : e.key = slot[c].proof.key
              /\ local' = [local EXCEPT ![p] = open \cup {new}]
    BY <1>3 DEF RecordHere
  <2>2. OneToAKey(open)
    <3>1. p \in Procs /\ open \subseteq local[p]
      BY <1>3, AtRecord DEF RecordHere, Pruned
    <3> QED BY <1>1, <3>1 DEF RecordsAreKeyed
  <2>3. (~\E e \in open : e.key = slot[c].proof.key) => OneToAKey(open \cup {new})
    BY <1>2, <2>2
  <2> HIDE DEF open, new
  <2>4. \A o \in Procs : OneToAKey(local'[o])
    BY <2>1, <2>2, <2>3 DEF IInv, TypeOK, RecordsAreKeyed
  <2> QED BY <2>1, <2>4 DEF RecordsAreKeyed
<1>4. ASSUME NEW c \in Callers, RecordShared(c) \/ RecordFails(c) PROVE RecordsAreKeyed'
  <2>1. /\ local' = local
        /\ \/ rows' = rows
           \/ ~Claimed(slot[c].proof) /\ rows' = rows \cup {Claim(slot[c].proof)}
    BY <1>4, Zenon DEF RecordShared, RecordFails
  <2>2. ASSUME ~Claimed(slot[c].proof)
        PROVE  OneToAKey(rows \cup {Claim(slot[c].proof)})
    <3>1. OneToAKey(rows) /\ ~\E e \in rows : e.key = slot[c].proof.key
      BY <2>2 DEF RecordsAreKeyed, Claimed
    <3> QED BY <1>2, <3>1 DEF Claim
  <2>3. OneToAKey(rows')
    BY <2>1, <2>2 DEF RecordsAreKeyed
  <2> QED BY <2>1, <2>3 DEF RecordsAreKeyed
<1>5. ASSUME NEW p \in Procs, Restart(p) PROVE RecordsAreKeyed'
  BY <1>5 DEF Restart, RecordsAreKeyed, OneToAKey, IInv, TypeOK
<1>6. CASE Purge
  BY <1>6 DEF Purge, RecordsAreKeyed, OneToAKey
<1>7. ASSUME (\E c \in Callers : Present(c)) \/ Tick \/ UNCHANGED vars PROVE RecordsAreKeyed'
  BY <1>7 DEF Present, Tick, vars, RecordsAreKeyed
<1> QED BY <1>3, <1>4, <1>5, <1>6, <1>7 DEF Next

LEMMA SpecKeyed == Spec => []RecordsAreKeyed
<1>1. Init => RecordsAreKeyed
  BY DEF Init, RecordsAreKeyed, OneToAKey
<1> QED BY <1>1, SpecIInv, KeyedStep, PTL DEF Spec

\* When the record of a proof that p accepted may be gone.
RecordMayBeGone(p, q) ==
    IF shared THEN q.iat + MaxAge < now - Grace ELSE q.iat + Window[p] < Clock(p)

\* Two proofs that one record answers for and that have one jti of one key are of one
\* time, for as long as their records are kept: what is spent is the jti, so a proof
\* that was signed anew with an old jti is no second proof.
OneProofToAKey ==
    \A p, o \in Procs : \A q \in spent[p], r \in spent[o] :
        /\ q.key = r.key
        /\ shared \/ p = o
        /\ ~RecordMayBeGone(p, q) /\ ~RecordMayBeGone(o, r)
        => q.iat = r.iat

\* The record claims the digest of jkt and jti, whatever the iat beside it
\* (proofKey, recordProof, TryRecordProof).
THEOREM JtiIsSpentOnce == Spec => []OneProofToAKey
<1>1. IInv /\ RecordsAreKeyed => OneProofToAKey
  <2> SUFFICES ASSUME IInv, RecordsAreKeyed,
                      NEW p \in Procs, NEW o \in Procs, NEW q \in spent[p], NEW r \in spent[o],
                      q.key = r.key, shared \/ p = o,
                      ~RecordMayBeGone(p, q), ~RecordMayBeGone(o, r)
               PROVE  q.iat = r.iat
    BY DEF OneProofToAKey
  <2>0. q.iat \in Int /\ r.iat \in Int /\ Window[p] \in Nat /\ MaxAge \in Nat
    BY SpentAreProofs, ConstantsAssumption
  <2>1. CASE shared
    <3>1. Claim(q) \in rows /\ Claim(r) \in rows
      BY <2>1 DEF IInv, RowsOutlastWindows, RecordMayBeGone
    <3>2. Claim(q) = Claim(r)
      BY <3>1 DEF RecordsAreKeyed, OneToAKey, Claim
    <3>3. q.iat + MaxAge = r.iat + MaxAge
      BY <3>2 DEF Claim
    <3> QED BY <2>0, <3>3
  <2>2. CASE ~shared
    <3>1. p = o /\ Entry(p, q) \in local[p] /\ Entry(p, r) \in local[p]
      BY <2>2 DEF IInv, EntriesOutlastWindows, RecordMayBeGone
    <3>2. Entry(p, q) = Entry(p, r)
      BY <3>1 DEF RecordsAreKeyed, OneToAKey, Entry
    <3>3. q.iat + Window[p] = r.iat + Window[p]
      BY <3>2 DEF Entry
    <3> QED BY <2>0, <3>3
  <2> QED BY <2>1, <2>2
<1> QED BY <1>1, SpecIInv, SpecKeyed, PTL

\* A row of the shared record goes only once no instance's clock can be in the window
\* of its proof, a purge leaves no row whose time is past, and an acceptance writes
\* none: what RowsAreDropped rests on besides fairness.  Only a claim whose answer was
\* lost may come so late that it is overdue at once.
RowsKeepTheirTime ==
    [][ /\ \A e \in rows : e \notin rows' => e.until < now - Grace
        /\ Purge => ~\E e \in rows' : e.until < now' - Grace
        /\ spent' # spent => \A e \in rows' \ rows : e.until >= now' - Grace ]_vars

LEMMA RowsStep ==
    ASSUME IInv, Next
    PROVE  /\ \A e \in rows : e \notin rows' => e.until < now - Grace
           /\ Purge => ~\E e \in rows' : e.until < now' - Grace
           /\ spent' # spent => \A e \in rows' \ rows : e.until >= now' - Grace
<1>0. now \in Int /\ Grace \in Int /\ \A e \in rows : e.until \in Int
  BY ConstantsAssumption DEF IInv, TypeOK, Entries
<1>1. ASSUME NEW c \in Callers, RecordShared(c)
      PROVE  /\ rows \subseteq rows' /\ now' = now
             /\ spent' # spent => \A e \in rows' \ rows : e.until >= now - Grace
  <2>1. slot[c].pc = "record" /\ Elapsed(c) <= Timeout /\ now' = now
    BY <1>1 DEF RecordShared
  <2>2. rows' = rows \/ rows' = rows \cup {Claim(slot[c].proof)}
    BY <1>1 DEF RecordShared
  <2>3. Claim(slot[c].proof).until >= now - Grace
    <3> DEFINE s == slot[c]
    <3>1. /\ s.proc \in Procs /\ s.clock \in Int /\ s.proof.iat \in Int
          /\ Window[s.proc] \in Nat /\ Window[s.proc] <= MaxAge
          /\ skew[s.proc] \in -Lag..Lag
      BY <2>1, AtRecord
    <3>2. s.clock - s.proof.iat \in -Window[s.proc]..Window[s.proc]
      BY <2>1 DEF IInv, RequestsInWindow, InWindow
    <3>3. (now + skew[s.proc]) - s.clock <= Timeout
      BY <2>1 DEF Elapsed, Clock
    <3>4. /\ MaxAge \in Nat /\ Lag \in Nat /\ Timeout \in Nat /\ Grace \in Nat
          /\ Lag + Timeout <= Grace
      BY ConstantsAssumption, GraceAssumption
    <3>5. s.proof.iat + MaxAge >= now - Grace
      <4> HIDE DEF s
      <4> QED BY <1>0, <3>1, <3>2, <3>3, <3>4
    <3> QED BY <3>5 DEF Claim
  <2> QED BY <2>1, <2>2, <2>3
<1>2. CASE Purge
  BY <1>0, <1>2 DEF Purge
<1>3. ASSUME NEW c \in Callers, RecordFails(c) PROVE rows \subseteq rows' /\ spent' = spent
  BY <1>3 DEF RecordFails
<1>4. ASSUME \/ \E c \in Callers : Present(c) \/ RecordHere(c)
             \/ \E p \in Procs : Restart(p)
             \/ Tick
      PROVE  rows' = rows
  BY <1>4 DEF Present, RecordHere, Restart, Tick
<1>5. Purge => rows' # rows /\ spent' = spent /\ now' = now
  BY <1>0 DEF Purge
<1>6. ASSUME NEW c \in Callers, RecordShared(c) \/ RecordFails(c) PROVE ~Purge
  <2>1. ASSUME Purge PROVE FALSE
    BY <1>1, <1>3, <1>5, <1>6, <2>1 DEF Purge
  <2> QED BY <2>1
<1> QED BY <1>1, <1>2, <1>3, <1>4, <1>5, <1>6 DEF Next

THEOREM RowsAreKeptInTime == Spec => RowsKeepTheirTime
<1> DEFINE Kept ==
      /\ \A e \in rows : e \notin rows' => e.until < now - Grace
      /\ Purge => ~\E e \in rows' : e.until < now' - Grace
      /\ spent' # spent => \A e \in rows' \ rows : e.until >= now' - Grace
<1>1. IInv /\ [Next]_vars => [Kept]_vars
  BY RowsStep, Zenon
<1> QED BY <1>1, SpecIInv, PTL DEF Spec, RowsKeepTheirTime
=============================================================================
