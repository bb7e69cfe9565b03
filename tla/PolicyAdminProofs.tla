------------------------- MODULE PolicyAdminProofs -------------------------
(***************************************************************************)
(* What a process decides under is whole in its archive, and is what the   *)
(* store holds unless a write was overtaken, for any number of processes,  *)
(* writes in flight, policies and orgs and for every combination of        *)
(* faults.                                                                 *)
(***************************************************************************)
EXTENDS PolicyAdmin, FiniteSetTheorems, TLAPS

-----------------------------------------------------------------------------
(* The inductive invariant, part by part *)

\* A write is in flight only in a process that serves.
FlightsAreServed ==
    \A h \in Handlers : slot[h].pc # "idle" =>
        /\ slot[h].proc \in Procs /\ Up(slot[h].proc)
        /\ slot[h].id \in Ids

\* What is about to be stored or in force is kept, and so is what is in force.
SetsAreKept ==
    /\ \A h \in Handlers : slot[h].pc \in {"write", "swap"} => Kept(slot[h].proc, slot[h].cand)
    /\ \A p \in Procs :
         /\ boot[p].pc \in {"restore", "up"} => Kept(p, engine[p])
         /\ boot[p].pc = "set" => Kept(p, boot[p].set)

\* A start keeps the set of the file, which is in force meanwhile, and then that of
\* the store.
StartsInOrder ==
    \A p \in Procs :
        /\ boot[p].pc \in {"keep", "place"} /\ boot[p].from = "file" =>
             engine[p] = EmptySet /\ boot[p].set = EmptySet
        /\ boot[p].pc = "restore" => engine[p] = EmptySet
        /\ boot[p].pc = "set" => boot[p].from = "store"

\* A write that was not overtaken still knows what is stored, and may write it.
WritesKnowTheStore ==
    \A h \in Handlers : h \notin overtaken =>
        /\ slot[h].pc \in {"keep", "place", "write"} =>
             /\ slot[h].cand = Candidate(slot[h].id, slot[h].pol)
             /\ stored[slot[h].id] # NoPolicy =>
                  CanWrite(slot[h].who, stored[slot[h].id].org)
        /\ slot[h].pc = "swap" => slot[h].cand = SetOf(stored)

\* So does a start behind which nobody wrote.
StartsKnowTheStore ==
    \A p \in Procs \ behind :
        boot[p].pc \in {"keep", "place", "set"} /\ boot[p].from = "store" =>
            boot[p].set = SetOf(stored)

IInv ==
    /\ TypeOK /\ FlightsAreServed /\ SetsAreKept /\ StartsInOrder
    /\ WritesKnowTheStore /\ StartsKnowTheStore /\ PartsOnlyWhenOvertaken

-----------------------------------------------------------------------------
(* Sets, files and slots *)

\* The set of any stored policies is a set of the model.
LEMMA SetOfIsSet == ASSUME NEW s PROVE SetOf(s) \in Sets
<1>1. SUFFICES ASSUME NEW p \in Policies
               PROVE  Cardinality({i \in Ids : s[i] = p}) \in 0..Cardinality(Ids)
  BY DEF SetOf, Sets
<1>2. /\ IsFiniteSet({i \in Ids : s[i] = p})
      /\ Cardinality({i \in Ids : s[i] = p}) <= Cardinality(Ids)
  BY ConstantsAssumption, FS_Subset
<1>3. Cardinality({i \in Ids : s[i] = p}) \in Nat /\ Cardinality(Ids) \in Nat
  BY <1>2, ConstantsAssumption, FS_CardinalityType
<1>4. QED
  BY <1>2, <1>3, SMT

LEMMA EmptySetIsSet == EmptySet \in Sets
BY ConstantsAssumption, FS_CardinalityType, SMT DEF EmptySet, Sets

\* The set of no policies is empty.
LEMMA SetOfNone ==
    ASSUME NEW s, \A i \in Ids : s[i] = NoPolicy PROVE SetOf(s) = EmptySet
<1>1. \A p \in Policies : {i \in Ids : s[i] = p} = {}
  BY ConstantsAssumption DEF Policies
<1>2. \A p \in Policies : Cardinality({i \in Ids : s[i] = p}) = 0
  BY <1>1, FS_EmptySet
<1>3. QED
  BY <1>2 DEF SetOf, EmptySet

\* What is kept stays kept when another set is placed.
LEMMA PlacedKeeps ==
    ASSUME TypeOK, NEW p \in Procs, NEW set \in Sets, Placed(p, set)
    PROVE  /\ files' \in [Procs -> SUBSET Files]
           /\ Kept(p, set)'
           /\ \A q \in Procs, other \in Sets : Kept(q, other) => Kept(q, other)'
<1>1. /\ files' = [files EXCEPT ![p] = (files[p] \ {Partial(set)}) \cup {Whole(set)}]
      /\ files \in [Procs -> SUBSET Files]
  BY DEF Placed, TypeOK
<1>2. Whole(set) \in Files
  BY DEF Whole, Files
<1>3. \A other : Whole(other) # Partial(set)
  BY DEF Whole, Partial
<1>4. QED
  BY <1>1, <1>2, <1>3 DEF Kept

\* A write goes on to its next step.
LEMMA SlotMoves ==
    ASSUME TypeOK, NEW h \in Handlers, NEW x \in {"place", "write", "swap"},
           slot' = [slot EXCEPT ![h].pc = x]
    PROVE  /\ slot' \in [Handlers -> Slot]
           /\ \A g \in Handlers \ {h} : slot'[g] = slot[g]
           /\ slot'[h].pc = x /\ slot'[h].proc = slot[h].proc /\ slot'[h].who = slot[h].who
           /\ slot'[h].id = slot[h].id /\ slot'[h].pol = slot[h].pol
           /\ slot'[h].cand = slot[h].cand
<1>1. slot \in [Handlers -> Slot]
  BY DEF TypeOK
<1>2. slot' = [slot EXCEPT ![h] = [slot[h] EXCEPT !.pc = x]]
  BY <1>1
<1>3. [slot[h] EXCEPT !.pc = x] \in Slot
  BY <1>1 DEF Slot
<1>4. QED
  BY <1>1, <1>2, <1>3 DEF Slot

LEMMA IdleIsSlot == Idle \in Slot
BY EmptySetIsSet DEF Idle, Slot

\* A write leaves: nothing that is said of writes in flight is said of it.
LEMMA LeaveKeepsIInv ==
    ASSUME IInv, NEW h \in Handlers, Leave(h), slot[h].pc # "swap",
           UNCHANGED <<stored, engine, files, boot, behind>>
    PROVE  IInv'
<1>1. /\ slot' = [slot EXCEPT ![h] = Idle] /\ overtaken' = overtaken \ {h}
      /\ slot \in [Handlers -> Slot]
  BY DEF Leave, IInv, TypeOK
<1>2. /\ slot'[h].pc = "idle"
      /\ \A g \in Handlers \ {h} : slot'[g] = slot[g] /\ (g \in overtaken' <=> g \in overtaken)
  BY <1>1 DEF Idle
<1>3. TypeOK'
  BY <1>1, IdleIsSlot DEF IInv, TypeOK
<1>4. (FlightsAreServed /\ SetsAreKept)'
  BY <1>2 DEF IInv, FlightsAreServed, SetsAreKept, Up, Kept
<1>5. (StartsInOrder /\ StartsKnowTheStore)'
  BY DEF IInv, StartsInOrder, StartsKnowTheStore
<1>6. WritesKnowTheStore'
  BY <1>2 DEF IInv, WritesKnowTheStore, Candidate
<1>7. PartsOnlyWhenOvertaken'
  BY <1>2 DEF IInv, PartsOnlyWhenOvertaken, Settled, Up
<1>8. QED
  BY <1>3, <1>4, <1>5, <1>6, <1>7 DEF IInv

-----------------------------------------------------------------------------
(* The steps of a write *)

\* A write reads the store, and that it may write what it found there.
LEMMA EnterKeepsIInv ==
    ASSUME IInv, NEW h \in Handlers, Put(h) \/ Delete(h)
    PROVE  IInv'
<1>1. PICK p \in Procs, who \in Principals, id \in Ids, pol \in Policies \cup {NoPolicy} :
        /\ Up(p)
        /\ stored[id] # NoPolicy => CanWrite(who, stored[id].org)
        /\ slot' = [slot EXCEPT ![h] = [pc |-> "keep", proc |-> p, who |-> who, id |-> id,
                                       pol |-> pol, cand |-> Candidate(id, pol)]]
  <2>1. CASE Put(h)
    <3>1. PICK p \in Procs, who \in Principals, id \in Ids, body \in Policies :
            /\ Up(p)
            /\ stored[id] # NoPolicy => CanWrite(who, stored[id].org)
            /\ Enter(h, p, who, id, IF who.cross THEN body ELSE [body EXCEPT !.org = who.org])
      BY <2>1 DEF Put
    <3>2. (IF who.cross THEN body ELSE [body EXCEPT !.org = who.org]) \in Policies
      BY DEF Policies, Principals
    <3>3. QED
      BY <3>1, <3>2 DEF Enter
  <2>2. CASE Delete(h)
    BY <2>2 DEF Delete, Enter
  <2>3. QED
    BY <2>1, <2>2
<1>2. UNCHANGED <<stored, engine, files, boot, behind, overtaken>>
  BY DEF Put, Delete
<1>3. slot'[h] \in Slot
  <2>1. Candidate(id, pol) \in Sets
    BY SetOfIsSet DEF Candidate
  <2>2. QED
    BY <1>1, <2>1 DEF Slot, IInv, TypeOK
<1>4. /\ slot'[h] = [pc |-> "keep", proc |-> p, who |-> who, id |-> id, pol |-> pol,
                     cand |-> Candidate(id, pol)]
      /\ \A g \in Handlers \ {h} : slot'[g] = slot[g]
      /\ slot' \in [Handlers -> Slot]
  BY <1>1, <1>3 DEF IInv, TypeOK
<1>5. TypeOK'
  BY <1>2, <1>4 DEF IInv, TypeOK
<1>6. (FlightsAreServed /\ SetsAreKept)'
  BY <1>1, <1>2, <1>4 DEF IInv, FlightsAreServed, SetsAreKept, Up, Kept
<1>7. (StartsInOrder /\ StartsKnowTheStore)'
  BY <1>2 DEF IInv, StartsInOrder, StartsKnowTheStore
<1>8. WritesKnowTheStore'
  BY <1>1, <1>2, <1>4 DEF IInv, WritesKnowTheStore, Candidate
<1>9. PartsOnlyWhenOvertaken'
  <2>1. slot[h].pc = "idle"
    BY DEF Put, Delete
  <2>2. \A q \in Procs : Settled(q)' => Settled(q)
    BY <1>4, <2>1 DEF Settled
  <2>3. QED
    BY <1>2, <2>2 DEF IInv, PartsOnlyWhenOvertaken, Up
<1>10. QED
  BY <1>5, <1>6, <1>7, <1>8, <1>9 DEF IInv

\* The archive has the set, or is about to.
LEMMA KeepKeepsIInv ==
    ASSUME IInv, NEW h \in Handlers, Keep(h) PROVE IInv'
<1>1. CASE Leave(h)
  BY <1>1, LeaveKeepsIInv DEF Keep
<1>2. CASE ~Leave(h)
  <2>1. PICK x \in {"place", "write"} :
          /\ slot' = [slot EXCEPT ![h].pc = x]
          /\ x = "write" => Kept(slot[h].proc, slot[h].cand)
    BY <1>2 DEF Keep
  <2>2. slot[h].pc = "keep" /\ UNCHANGED <<stored, engine, files, boot, behind, overtaken>>
    BY <1>2 DEF Keep
  <2>3. /\ slot' \in [Handlers -> Slot]
        /\ \A g \in Handlers \ {h} : slot'[g] = slot[g]
        /\ slot'[h].pc = x /\ slot'[h].proc = slot[h].proc /\ slot'[h].who = slot[h].who
        /\ slot'[h].id = slot[h].id /\ slot'[h].pol = slot[h].pol
        /\ slot'[h].cand = slot[h].cand
    BY <2>1, SlotMoves DEF IInv
  <2>4. TypeOK'
    BY <2>2, <2>3 DEF IInv, TypeOK
  <2>5. (FlightsAreServed /\ SetsAreKept)'
    BY <2>1, <2>2, <2>3 DEF IInv, FlightsAreServed, SetsAreKept, Up, Kept
  <2>6. (StartsInOrder /\ StartsKnowTheStore)'
    BY <2>2 DEF IInv, StartsInOrder, StartsKnowTheStore
  <2>7. WritesKnowTheStore'
    BY <2>2, <2>3 DEF IInv, WritesKnowTheStore, Candidate
  <2>8. PartsOnlyWhenOvertaken'
    BY <2>2, <2>3 DEF IInv, PartsOnlyWhenOvertaken, Settled, Up
  <2>9. QED
    BY <2>4, <2>5, <2>6, <2>7, <2>8 DEF IInv
<1>3. QED
  BY <1>1, <1>2

\* The set gets its file, or the write gives up.
LEMMA PlaceKeepsIInv ==
    ASSUME IInv, NEW h \in Handlers, Place(h) PROVE IInv'
<1>1. CASE Leave(h) /\ UNCHANGED files
  BY <1>1, LeaveKeepsIInv DEF Place
<1>2. CASE Placed(slot[h].proc, slot[h].cand) /\ slot' = [slot EXCEPT ![h].pc = "write"]
  <2>1. slot[h].pc = "place" /\ UNCHANGED <<stored, engine, boot, behind>>
    BY DEF Place
  <2>2. slot[h].proc \in Procs /\ slot[h].cand \in Sets
    BY <2>1 DEF IInv, TypeOK, FlightsAreServed, Slot
  <2>3. /\ files' \in [Procs -> SUBSET Files]
        /\ Kept(slot[h].proc, slot[h].cand)'
        /\ \A q \in Procs, other \in Sets : Kept(q, other) => Kept(q, other)'
    <3>1. PICK p \in Procs, set \in Sets : p = slot[h].proc /\ set = slot[h].cand
      BY <2>2
    <3>2. slot'[h].proc = p /\ slot'[h].cand = set
      BY <1>2, <3>1, SlotMoves DEF IInv
    <3>3. Placed(p, set)
      BY <1>2, <3>1 DEF Placed
    <3>4. QED
      BY <3>1, <3>2, <3>3, PlacedKeeps DEF IInv, Kept
  <2>4. /\ slot' \in [Handlers -> Slot]
        /\ \A g \in Handlers \ {h} : slot'[g] = slot[g]
        /\ slot'[h].pc = "write" /\ slot'[h].proc = slot[h].proc /\ slot'[h].who = slot[h].who
        /\ slot'[h].id = slot[h].id /\ slot'[h].pol = slot[h].pol
        /\ slot'[h].cand = slot[h].cand
    BY <1>2, SlotMoves DEF IInv
  <2>5. overtaken' = overtaken
    <3>1. ~Leave(h)
      BY <2>4 DEF Leave, Idle, IInv, TypeOK
    <3>2. QED
      BY <3>1 DEF Place
  <2>6. TypeOK'
    BY <2>1, <2>3, <2>4, <2>5 DEF IInv, TypeOK
  <2>7. FlightsAreServed'
    BY <2>1, <2>4 DEF IInv, FlightsAreServed, Up
  <2>8. SetsAreKept'
    <3>1. \A g \in Handlers : slot'[g].pc \in {"write", "swap"} =>
            Kept(slot[g].proc, slot[g].cand)'
      BY <2>3, <2>4 DEF IInv, TypeOK, FlightsAreServed, SetsAreKept, Slot, Kept
    <3>2. \A p \in Procs : engine[p] \in Sets /\ boot[p].set \in Sets
      BY DEF IInv, TypeOK, Boot
    <3>3. QED
      BY <2>1, <2>3, <2>4, <3>1, <3>2 DEF IInv, SetsAreKept, Kept
  <2>9. (StartsInOrder /\ StartsKnowTheStore)'
    BY <2>1 DEF IInv, StartsInOrder, StartsKnowTheStore
  <2>10. WritesKnowTheStore'
    BY <2>1, <2>4, <2>5 DEF IInv, WritesKnowTheStore, Candidate
  <2>11. PartsOnlyWhenOvertaken'
    BY <2>1, <2>4 DEF IInv, PartsOnlyWhenOvertaken, Settled, Up
  <2>12. QED
    BY <2>6, <2>7, <2>8, <2>9, <2>10, <2>11 DEF IInv
<1>3. QED
  BY <1>1, <1>2 DEF Place

\* The row is written: who else is in flight has read what was there before.
LEMMA WriteKeepsIInv ==
    ASSUME IInv, NEW h \in Handlers, Write(h) PROVE IInv'
<1>1. /\ slot[h].pc = "write"
      /\ stored' = [stored EXCEPT ![slot[h].id] = slot[h].pol]
      /\ slot' = [slot EXCEPT ![h].pc = "swap"]
      /\ overtaken' = overtaken \cup Overtaking(h)
      /\ behind' = behind \cup (Procs \ {slot[h].proc})
      /\ UNCHANGED <<engine, files, boot>>
  BY DEF Write, Apply
<1>2. /\ slot' \in [Handlers -> Slot]
      /\ \A g \in Handlers \ {h} : slot'[g] = slot[g]
      /\ slot'[h].pc = "swap" /\ slot'[h].proc = slot[h].proc /\ slot'[h].who = slot[h].who
      /\ slot'[h].id = slot[h].id /\ slot'[h].pol = slot[h].pol
      /\ slot'[h].cand = slot[h].cand
  BY <1>1, SlotMoves DEF IInv
<1>3. slot[h].proc \in Procs /\ Up(slot[h].proc) /\ slot[h].id \in Ids
      /\ slot[h].pol \in Policies \cup {NoPolicy}
  BY <1>1 DEF IInv, TypeOK, FlightsAreServed, Slot
<1>4. TypeOK'
  BY <1>1, <1>2, <1>3 DEF IInv, TypeOK, Overtaking
<1>5. (FlightsAreServed /\ SetsAreKept /\ StartsInOrder)'
  BY <1>1, <1>2 DEF IInv, FlightsAreServed, SetsAreKept, StartsInOrder, Up, Kept
<1>6. WritesKnowTheStore'
  <2>1. ASSUME NEW g \in Handlers \ {h}, g \notin overtaken' PROVE slot'[g].pc = "idle"
    BY <1>1, <1>2, <2>1 DEF Overtaking
  <2>2. h \notin overtaken => slot[h].cand = SetOf(stored')
    BY <1>1 DEF IInv, WritesKnowTheStore, Candidate
  <2>3. QED
    BY <1>1, <1>2, <2>1, <2>2 DEF WritesKnowTheStore
<1>7. StartsKnowTheStore'
  BY <1>1, <1>3 DEF StartsKnowTheStore, Up
<1>8. PartsOnlyWhenOvertaken'
  BY <1>1, <1>2 DEF PartsOnlyWhenOvertaken, Settled
<1>9. QED
  BY <1>4, <1>5, <1>6, <1>7, <1>8 DEF IInv

\* The row is written and the answer lost: every process may have parted.
LEMMA WriteLostKeepsIInv ==
    ASSUME IInv, NEW h \in Handlers, WriteLost(h) PROVE IInv'
<1>1. /\ slot[h].pc = "write"
      /\ stored' = [stored EXCEPT ![slot[h].id] = slot[h].pol]
      /\ slot' = [slot EXCEPT ![h] = Idle]
      /\ overtaken' = (overtaken \cup Overtaking(h)) \ {h}
      /\ behind' = Procs
      /\ UNCHANGED <<engine, files, boot>>
  BY DEF WriteLost, Apply
<1>2. /\ slot' \in [Handlers -> Slot] /\ slot'[h] = Idle
      /\ \A g \in Handlers \ {h} : slot'[g] = slot[g]
  BY <1>1, IdleIsSlot DEF IInv, TypeOK
<1>3. slot[h].id \in Ids /\ slot[h].pol \in Policies \cup {NoPolicy}
  BY <1>1 DEF IInv, TypeOK, FlightsAreServed, Slot
<1>4. TypeOK'
  BY <1>1, <1>2, <1>3 DEF IInv, TypeOK, Overtaking
<1>5. (FlightsAreServed /\ SetsAreKept /\ StartsInOrder)'
  BY <1>1, <1>2 DEF IInv, FlightsAreServed, SetsAreKept, StartsInOrder, Up, Kept, Idle
<1>6. WritesKnowTheStore'
  <2>1. ASSUME NEW g \in Handlers, g \notin overtaken' PROVE slot'[g].pc = "idle"
    BY <1>1, <1>2, <2>1 DEF Overtaking, Idle
  <2>2. QED
    BY <2>1 DEF WritesKnowTheStore
<1>7. (StartsKnowTheStore /\ PartsOnlyWhenOvertaken)'
  BY <1>1 DEF StartsKnowTheStore, PartsOnlyWhenOvertaken
<1>8. QED
  BY <1>4, <1>5, <1>6, <1>7 DEF IInv

\* The engine is swapped, for what is stored unless the write was overtaken.
LEMMA SwapKeepsIInv ==
    ASSUME IInv, NEW h \in Handlers, Swap(h) PROVE IInv'
<1> DEFINE p == slot[h].proc
<1>1. /\ slot[h].pc = "swap"
      /\ engine' = [engine EXCEPT ![p] = slot[h].cand]
      /\ behind' = IF h \in overtaken THEN behind \cup {p} ELSE behind \ {p}
      /\ slot' = [slot EXCEPT ![h] = Idle] /\ overtaken' = overtaken \ {h}
      /\ UNCHANGED <<stored, files, boot>>
  BY DEF Swap, Leave
<1>2. p \in Procs /\ Up(p) /\ slot[h].cand \in Sets /\ Kept(p, slot[h].cand)
  BY <1>1 DEF IInv, TypeOK, FlightsAreServed, SetsAreKept, Slot
<1>3. /\ slot' \in [Handlers -> Slot] /\ slot'[h].pc = "idle"
      /\ \A g \in Handlers \ {h} : slot'[g] = slot[g]
  BY <1>1, IdleIsSlot DEF IInv, TypeOK, Idle
<1>4. engine'[p] = slot[h].cand /\ \A q \in Procs \ {p} : engine'[q] = engine[q]
  BY <1>1, <1>2 DEF IInv, TypeOK
<1>5. TypeOK'
  BY <1>1, <1>2, <1>3 DEF IInv, TypeOK
<1>6. (FlightsAreServed /\ SetsAreKept)'
  BY <1>1, <1>2, <1>3, <1>4 DEF IInv, FlightsAreServed, SetsAreKept, Up, Kept
<1>7. (StartsInOrder /\ StartsKnowTheStore)'
  BY <1>1, <1>2, <1>4 DEF IInv, StartsInOrder, StartsKnowTheStore, Up
<1>8. WritesKnowTheStore'
  BY <1>1, <1>3 DEF IInv, WritesKnowTheStore, Candidate
<1>9. PartsOnlyWhenOvertaken'
  <2>1. ASSUME NEW q \in Procs, Up(q)', Settled(q)', q \notin behind' PROVE engine'[q] = SetOf(stored)'
    <3>1. CASE q = p
      BY <1>1, <1>4, <2>1, <3>1 DEF IInv, WritesKnowTheStore
    <3>2. CASE q # p
      <4>1. Settled(q)
        BY <1>3, <2>1, <3>2 DEF Settled
      <4>2. QED
        BY <1>1, <1>4, <2>1, <3>2, <4>1 DEF IInv, PartsOnlyWhenOvertaken, Up
    <3>3. QED
      BY <3>1, <3>2
  <2>2. QED
    BY <2>1 DEF PartsOnlyWhenOvertaken
<1>10. QED
  BY <1>5, <1>6, <1>7, <1>8, <1>9 DEF IInv

-----------------------------------------------------------------------------
(* The steps of a start, and a crash *)

\* A process that is not up serves no write, and a start changes none.
LEMMA StartKeepsWrites ==
    ASSUME IInv, NEW p \in Procs, ~Up(p), UNCHANGED <<stored, slot, overtaken>>,
           \A q \in Procs \ {p} : boot'[q] = boot[q],
           \A q \in Procs, set \in Sets : Kept(q, set) => Kept(q, set)'
    PROVE  /\ FlightsAreServed' /\ WritesKnowTheStore'
           /\ \A h \in Handlers :
                slot'[h].pc \in {"write", "swap"} => Kept(slot[h].proc, slot[h].cand)'
           /\ \A q \in Procs : Settled(q)' <=> Settled(q)
<1>1. FlightsAreServed'
  BY DEF IInv, FlightsAreServed, Up
<1>2. WritesKnowTheStore'
  BY DEF IInv, WritesKnowTheStore, Candidate
<1>3. \A h \in Handlers :
        slot'[h].pc \in {"write", "swap"} => Kept(slot[h].proc, slot[h].cand)'
  BY DEF IInv, TypeOK, FlightsAreServed, SetsAreKept, Slot, Kept
<1>4. \A q \in Procs : Settled(q)' <=> Settled(q)
  BY DEF Settled
<1>5. QED
  BY <1>1, <1>2, <1>3, <1>4

\* What a start has in hand, step by step.
LEMMA StartKeepsIInv ==
    ASSUME IInv, NEW p \in Procs,
           Load(p) \/ BootKeep(p) \/ BootPlace(p) \/ Restore(p) \/ RestoreSet(p)
    PROVE  IInv'
<1>1. ~Up(p) /\ UNCHANGED <<stored, slot, overtaken>>
  BY DEF Up, Load, BootKeep, BootPlace, Restore, RestoreSet
<1>2. boot[p] \in Boot /\ boot[p].set \in Sets /\ SetOf(stored) \in Sets /\ EmptySet \in Sets
  BY SetOfIsSet, EmptySetIsSet DEF IInv, TypeOK, Boot
<1>3. /\ files' \in [Procs -> SUBSET Files]
      /\ \A q \in Procs, set \in Sets : Kept(q, set) => Kept(q, set)'
      /\ BootPlace(p) => Kept(p, boot[p].set)'
  <2>1. CASE BootPlace(p)
    <3>1. PICK set \in Sets : set = boot[p].set /\ Placed(p, set)
      BY <1>2, <2>1 DEF BootPlace, Placed
    <3>2. Kept(p, set)'
      BY <3>1, PlacedKeeps DEF IInv
    <3>3. boot'[p].set = boot[p].set
      BY <2>1 DEF BootPlace, IInv, TypeOK, Boot
    <3>4. QED
      BY <3>1, <3>2, <3>3, PlacedKeeps DEF IInv, Kept
  <2>2. CASE ~BootPlace(p)
    BY <2>2 DEF Load, BootKeep, Restore, RestoreSet, IInv, TypeOK, Kept
  <2>3. QED
    BY <2>1, <2>2
<1> DEFINE Says(b, e) ==
             /\ boot' = [boot EXCEPT ![p] = b] /\ engine' = [engine EXCEPT ![p] = e]
             /\ b.pc \in {"restore", "up"} => Kept(p, e)'
             /\ b.pc = "set" => b.from = "store" /\ Kept(p, b.set)'
             /\ b.pc \in {"keep", "place"} /\ b.from = "file" => e = EmptySet /\ b.set = EmptySet
             /\ b.pc = "restore" => e = EmptySet
             /\ b.pc \in {"keep", "place", "set"} /\ b.from = "store" /\ p \notin behind' =>
                  b.set = SetOf(stored)
             /\ b.pc = "up" /\ p \notin behind' => e = SetOf(stored)
<1>4. \E b \in Boot, e \in Sets : Says(b, e)
  <2>1. CASE Load(p)
    <3>1. [Down EXCEPT !.pc = "keep"] = [pc |-> "keep", set |-> EmptySet, from |-> "file"]
      BY DEF Down
    <3>2. [pc |-> "keep", set |-> EmptySet, from |-> "file"] \in Boot
      BY <1>2 DEF Boot, BootPCs
    <3>3. Says([pc |-> "keep", set |-> EmptySet, from |-> "file"], EmptySet)
      BY <2>1, <3>1 DEF Load
    <3>4. QED
      BY <1>2, <3>2, <3>3
  <2>2. CASE BootKeep(p)
    <3>1. PICK x \in {"place", "restore", "set"} :
            /\ boot' = [boot EXCEPT ![p].pc = x] /\ boot[p].pc = "keep"
            /\ x # "place" => Kept(p, boot[p].set) /\ x = AfterKeep(p)
      BY <2>2 DEF BootKeep, AfterKeep
    <3>2. UNCHANGED <<engine, files, behind>>
      BY <2>2 DEF BootKeep
    <3>3. boot' = [boot EXCEPT ![p] = [boot[p] EXCEPT !.pc = x]]
      BY <3>1 DEF IInv, TypeOK
    <3>4. [boot[p] EXCEPT !.pc = x] \in Boot
      BY <1>2 DEF Boot, BootPCs
    <3>5. engine[p] \in Sets /\ engine' = [engine EXCEPT ![p] = engine[p]]
      BY <3>2 DEF IInv, TypeOK
    <3>6. PICK b \in Boot : b = [boot[p] EXCEPT !.pc = x]
      BY <3>4
    <3>7. b.pc = x /\ b.set = boot[p].set /\ b.from = boot[p].from
      BY <1>2, <3>6 DEF Boot
    <3>8. PICK e \in Sets : e = engine[p]
      BY <3>5
    <3>9. Says(b, e)
      <4>1. x \in {"restore", "set"} => Kept(p, boot[p].set)'
        BY <1>2, <1>3, <3>1
      <4>2. boot[p].from = "file" => engine[p] = EmptySet /\ boot[p].set = EmptySet
        BY <3>1 DEF IInv, StartsInOrder
      <4>3. boot[p].from \in {"file", "store"}
        BY <1>2 DEF Boot
      <4>4. x = "restore" => Kept(p, e)'
        BY <1>1, <1>2, <3>1, <3>2, <3>8, <4>2 DEF AfterKeep, Kept
      <4>5. x = "set" => Kept(p, b.set)'
        BY <3>1, <3>2, <3>7 DEF Kept
      <4>6. boot[p].from = "store" /\ p \notin behind => boot[p].set = SetOf(stored)
        BY <3>1 DEF IInv, StartsKnowTheStore
      <4>7. QED
        BY <3>1, <3>2, <3>3, <3>5, <3>6, <3>7, <3>8, <4>2, <4>3, <4>4, <4>5, <4>6 DEF AfterKeep
    <3>10. QED
      BY <3>9
  <2>3. CASE BootPlace(p)
    <3>1. PICK x \in {"restore", "set"} :
            /\ boot' = [boot EXCEPT ![p].pc = x] /\ boot[p].pc = "place" /\ x = AfterKeep(p)
      BY <2>3 DEF BootPlace, AfterKeep
    <3>2. UNCHANGED <<engine, behind>>
      BY <2>3 DEF BootPlace
    <3>3. boot' = [boot EXCEPT ![p] = [boot[p] EXCEPT !.pc = x]]
      BY <3>1 DEF IInv, TypeOK
    <3>4. PICK b \in Boot : b = [boot[p] EXCEPT !.pc = x]
      BY <1>2 DEF Boot, BootPCs
    <3>5. b.pc = x /\ b.set = boot[p].set /\ b.from = boot[p].from
      BY <1>2, <3>4 DEF Boot
    <3>6. engine[p] \in Sets /\ engine' = [engine EXCEPT ![p] = engine[p]]
      BY <3>2 DEF IInv, TypeOK
    <3>7. Whole(boot[p].set) \in files'[p]
      BY <1>2, <2>3 DEF BootPlace, Placed, IInv, TypeOK
    <3>8. boot[p].from = "file" => engine[p] = EmptySet /\ boot[p].set = EmptySet
      BY <3>1 DEF IInv, StartsInOrder
    <3>9. boot[p].from = "store" /\ p \notin behind => boot[p].set = SetOf(stored)
      BY <3>1 DEF IInv, StartsKnowTheStore
    <3>10. boot[p].from \in {"file", "store"}
      BY <1>2 DEF Boot
    <3>11. PICK e \in Sets : e = engine[p]
      BY <3>6
    <3>12. Says(b, e)
      <4>1. x = "restore" => Kept(p, e)'
        BY <3>1, <3>2, <3>7, <3>8, <3>11 DEF AfterKeep, Kept
      <4>2. x = "set" => Kept(p, b.set)'
        BY <3>5, <3>7 DEF Kept
      <4>3. QED
        BY <3>1, <3>2, <3>3, <3>4, <3>5, <3>6, <3>8, <3>9, <3>10, <3>11, <4>1, <4>2 DEF AfterKeep
    <3>13. QED
      BY <3>12
  <2>4. CASE Restore(p)
    <3>1. /\ boot[p].pc = "restore" /\ UNCHANGED <<engine, files>> /\ behind' = behind \ {p}
          /\ engine[p] = EmptySet /\ Kept(p, engine[p])
      BY <2>4 DEF Restore, IInv, StartsInOrder, SetsAreKept
    <3>2. Kept(p, engine[p])'
      BY <3>1 DEF Kept
    <3>3. engine' = [engine EXCEPT ![p] = EmptySet]
      BY <3>1 DEF IInv, TypeOK
    <3>4. CASE \A i \in Ids : stored[i] = NoPolicy
      <4>1. PICK b \in Boot : b = [pc |-> "up", set |-> EmptySet, from |-> "file"]
        BY <1>2 DEF Boot, BootPCs
      <4>2. boot' = [boot EXCEPT ![p] = b]
        <5>1. [Down EXCEPT !.pc = "up"] = b
          BY <4>1 DEF Down
        <5>2. QED
          BY <2>4, <3>4, <5>1 DEF Restore
      <4>3. SetOf(stored) = EmptySet
        BY <3>4, SetOfNone
      <4>4. Says(b, EmptySet)
        BY <3>1, <3>2, <3>3, <4>1, <4>2, <4>3 DEF Kept
      <4>5. QED
        BY <1>2, <4>4
    <3>5. CASE ~\A i \in Ids : stored[i] = NoPolicy
      <4>1. PICK b \in Boot : b = [pc |-> "keep", set |-> SetOf(stored), from |-> "store"]
        BY <1>2 DEF Boot, BootPCs
      <4>2. boot' = [boot EXCEPT ![p] = b]
        BY <2>4, <3>5, <4>1 DEF Restore
      <4>3. Says(b, EmptySet)
        BY <3>3, <4>1, <4>2
      <4>4. QED
        BY <1>2, <4>3
    <3>6. QED
      BY <3>4, <3>5
  <2>5. CASE RestoreSet(p)
    <3>1. PICK b \in Boot : b = [pc |-> "up", set |-> EmptySet, from |-> "file"]
      BY <1>2 DEF Boot, BootPCs
    <3>2. boot' = [boot EXCEPT ![p] = b] /\ engine' = [engine EXCEPT ![p] = boot[p].set]
      <4>1. [Down EXCEPT !.pc = "up"] = b
        BY <3>1 DEF Down
      <4>2. QED
        BY <2>5, <4>1 DEF RestoreSet
    <3>3. /\ boot[p].from = "store" /\ Kept(p, boot[p].set) /\ UNCHANGED <<files, behind>>
          /\ p \notin behind => boot[p].set = SetOf(stored)
      BY <2>5 DEF RestoreSet, IInv, StartsInOrder, SetsAreKept, StartsKnowTheStore
    <3>4. PICK e \in Sets : e = boot[p].set
      BY <1>2
    <3>5. Kept(p, e)'
      BY <3>3, <3>4 DEF Kept
    <3>6. Says(b, e)
      BY <3>1, <3>2, <3>3, <3>4, <3>5
    <3>7. QED
      BY <3>6
  <2>6. QED
    BY <2>1, <2>2, <2>3, <2>4, <2>5
<1>5. PICK b \in Boot, e \in Sets : Says(b, e)
  BY <1>4
<1>6. /\ boot' \in [Procs -> Boot] /\ boot'[p] = b
      /\ \A q \in Procs \ {p} : boot'[q] = boot[q]
      /\ engine' \in [Procs -> Sets] /\ engine'[p] = e
      /\ \A q \in Procs \ {p} : engine'[q] = engine[q]
  BY <1>5 DEF IInv, TypeOK
<1>7. /\ behind' \subseteq Procs
      /\ \A q \in Procs \ {p} : q \in behind' <=> q \in behind
  BY DEF Load, BootKeep, BootPlace, Restore, RestoreSet, IInv, TypeOK
<1>8. TypeOK'
  BY <1>1, <1>3, <1>6, <1>7 DEF IInv, TypeOK
<1>9. /\ FlightsAreServed' /\ WritesKnowTheStore'
      /\ \A h \in Handlers :
           slot'[h].pc \in {"write", "swap"} => Kept(slot[h].proc, slot[h].cand)'
      /\ \A q \in Procs : Settled(q)' <=> Settled(q)
  BY <1>1, <1>3, <1>6, StartKeepsWrites
<1>10. SetsAreKept'
  <2>1. \A q \in Procs : engine[q] \in Sets /\ boot[q].set \in Sets
    BY DEF IInv, TypeOK, Boot
  <2>2. ASSUME NEW q \in Procs
        PROVE  /\ boot'[q].pc \in {"restore", "up"} => Kept(q, engine[q])'
               /\ boot'[q].pc = "set" => Kept(q, boot[q].set)'
    <3>1. CASE q = p
      BY <1>5, <1>6, <3>1 DEF Kept
    <3>2. CASE q # p
      BY <1>3, <1>6, <2>1, <3>2 DEF IInv, SetsAreKept, Kept
    <3>3. QED
      BY <3>1, <3>2
  <2>3. QED
    BY <1>9, <2>2 DEF SetsAreKept
<1>11. StartsInOrder'
  BY <1>5, <1>6 DEF IInv, StartsInOrder
<1>12. StartsKnowTheStore'
  BY <1>1, <1>5, <1>6, <1>7 DEF IInv, StartsKnowTheStore
<1>13. PartsOnlyWhenOvertaken'
  BY <1>1, <1>5, <1>6, <1>7, <1>9 DEF IInv, PartsOnlyWhenOvertaken, Up
<1>14. QED
  BY <1>8, <1>9, <1>10, <1>11, <1>12, <1>13 DEF IInv

\* A process dies with its writes.
LEMMA CrashKeepsIInv ==
    ASSUME IInv, NEW p \in Procs, Crash(p) PROVE IInv'
<1>1. /\ boot' = [boot EXCEPT ![p] = Down]
      /\ slot' = [h \in Handlers |-> IF slot[h].proc = p THEN Idle ELSE slot[h]]
      /\ overtaken' = overtaken \ {h \in Handlers : slot[h].proc = p}
      /\ UNCHANGED <<stored, engine, files, behind>>
  BY DEF Crash
<1>2. Down \in Boot /\ Down.pc = "down"
  BY EmptySetIsSet DEF Down, Boot, BootPCs
<1>3. /\ boot' \in [Procs -> Boot] /\ boot'[p].pc = "down"
      /\ \A q \in Procs \ {p} : boot'[q] = boot[q]
  BY <1>1, <1>2 DEF IInv, TypeOK
<1>4. /\ slot' \in [Handlers -> Slot]
      /\ \A h \in Handlers : IF slot[h].proc = p THEN slot'[h].pc = "idle" ELSE slot'[h] = slot[h]
  BY <1>1, IdleIsSlot DEF IInv, TypeOK, Idle
<1>5. TypeOK'
  BY <1>1, <1>3, <1>4 DEF IInv, TypeOK
<1>6. (FlightsAreServed /\ SetsAreKept)'
  BY <1>1, <1>3, <1>4 DEF IInv, FlightsAreServed, SetsAreKept, Up, Kept
<1>7. (StartsInOrder /\ StartsKnowTheStore)'
  BY <1>1, <1>3 DEF IInv, StartsInOrder, StartsKnowTheStore
<1>8. WritesKnowTheStore'
  BY <1>1, <1>4 DEF IInv, WritesKnowTheStore, Candidate
<1>9. PartsOnlyWhenOvertaken'
  <2>1. ASSUME NEW q \in Procs, Up(q)', Settled(q)'
        PROVE  Up(q) /\ Settled(q)
    BY <1>3, <1>4, <2>1 DEF Up, Settled
  <2>2. QED
    BY <1>1, <2>1 DEF IInv, PartsOnlyWhenOvertaken
<1>10. QED
  BY <1>5, <1>6, <1>7, <1>8, <1>9 DEF IInv

-----------------------------------------------------------------------------
(* The theorems *)

LEMMA InitIInv == Init => IInv
<1>1. SUFFICES ASSUME Init PROVE IInv
  OBVIOUS
<1>2. Idle \in Slot /\ Idle.pc = "idle" /\ Down \in Boot /\ Down.pc = "down" /\ EmptySet \in Sets
  BY EmptySetIsSet, IdleIsSlot DEF Idle, Down, Boot, BootPCs
<1>3. TypeOK
  BY <1>1, <1>2 DEF Init, TypeOK
<1>4. FlightsAreServed /\ SetsAreKept /\ StartsInOrder /\ WritesKnowTheStore
  BY <1>1, <1>2 DEF Init, FlightsAreServed, SetsAreKept, StartsInOrder, WritesKnowTheStore
<1>5. StartsKnowTheStore /\ PartsOnlyWhenOvertaken
  BY <1>1, <1>2 DEF Init, StartsKnowTheStore, PartsOnlyWhenOvertaken, Up
<1>6. QED
  BY <1>3, <1>4, <1>5 DEF IInv

LEMMA NextIInv == IInv /\ [Next]_vars => IInv'
<1> SUFFICES ASSUME IInv, [Next]_vars PROVE IInv'
  OBVIOUS
<1>1. ASSUME NEW h \in Handlers, Put(h) \/ Delete(h) PROVE IInv'
  BY <1>1, EnterKeepsIInv
<1>2. ASSUME NEW h \in Handlers, Keep(h) PROVE IInv'
  BY <1>2, KeepKeepsIInv
<1>3. ASSUME NEW h \in Handlers, Place(h) PROVE IInv'
  BY <1>3, PlaceKeepsIInv
<1>4. ASSUME NEW h \in Handlers, Write(h) PROVE IInv'
  BY <1>4, WriteKeepsIInv
<1>5. ASSUME NEW h \in Handlers, WriteFails(h) PROVE IInv'
  BY <1>5, LeaveKeepsIInv DEF WriteFails
<1>6. ASSUME NEW h \in Handlers, WriteLost(h) PROVE IInv'
  BY <1>6, WriteLostKeepsIInv
<1>7. ASSUME NEW h \in Handlers, Swap(h) PROVE IInv'
  BY <1>7, SwapKeepsIInv
<1>8. ASSUME NEW p \in Procs,
             Load(p) \/ BootKeep(p) \/ BootPlace(p) \/ Restore(p) \/ RestoreSet(p)
      PROVE  IInv'
  BY <1>8, StartKeepsIInv
<1>9. ASSUME NEW p \in Procs, Crash(p) PROVE IInv'
  BY <1>9, CrashKeepsIInv
<1>10. CASE UNCHANGED vars
  <2>1. UNCHANGED <<stored, engine, files, boot, slot, behind, overtaken>>
    BY <1>10 DEF vars
  <2>2. (TypeOK /\ FlightsAreServed /\ SetsAreKept /\ StartsInOrder)'
    BY <2>1 DEF IInv, TypeOK, FlightsAreServed, SetsAreKept, StartsInOrder, Up, Kept
  <2>3. (WritesKnowTheStore /\ StartsKnowTheStore /\ PartsOnlyWhenOvertaken)'
    BY <2>1 DEF IInv, WritesKnowTheStore, StartsKnowTheStore, PartsOnlyWhenOvertaken,
                Candidate, Settled, Up
  <2>4. QED
    BY <2>2, <2>3 DEF IInv
<1>11. QED
  BY <1>1, <1>2, <1>3, <1>4, <1>5, <1>6, <1>7, <1>8, <1>9, <1>10 DEF Next

LEMMA SpecIInv == Spec => []IInv
<1>1. QED
  BY InitIInv, NextIInv, PTL DEF Spec

\* The store, the engines, the archives and the writes in flight have their types.
THEOREM TypeCorrect == Spec => []TypeOK
<1>1. IInv => TypeOK
  BY DEF IInv
<1>2. QED
  BY <1>1, SpecIInv, PTL

\* The set a process decides under is whole in its archive, whatever was refused,
\* failed, lost or cut off by a crash: handlePutPolicy archives before it stores,
\* and a start archives what it restores.
THEOREM SetsInForceStayKept == Spec => []SetsInForceAreKept
<1>1. IInv => SetsInForceAreKept
  BY DEF IInv, SetsAreKept, SetsInForceAreKept, Up
<1>2. QED
  BY <1>1, SpecIInv, PTL

\* A process that nobody overtook decides under what is stored.
THEOREM EnginesPartOnlyWhenOvertaken == Spec => []PartsOnlyWhenOvertaken
<1>1. IInv => PartsOnlyWhenOvertaken
  BY DEF IInv
<1>2. QED
  BY <1>1, SpecIInv, PTL

\* A step that a write in flight takes at the store is its own: what the others have
\* in hand stays as it was.
LEMMA WritesAreTheirOwn ==
    ASSUME IInv, [Next]_vars, NEW h \in Handlers, slot[h].pc = "write",
           slot'[h] # slot[h], stored' # stored
    PROVE  stored' = [stored EXCEPT ![slot[h].id] = slot[h].pol]
<1>1. ASSUME NEW g \in Handlers, Write(g) \/ WriteLost(g) PROVE g = h
  <2>1. slot \in [Handlers -> Slot]
    BY DEF IInv, TypeOK
  <2>2. \A k \in Handlers \ {g} : slot'[k] = slot[k]
    BY <1>1, <2>1 DEF Write, WriteLost
  <2>3. QED
    BY <2>2
<1>2. \E g \in Handlers : Write(g) \/ WriteLost(g)
  BY DEF Next, vars, Put, Delete, Keep, Place, WriteFails, Swap,
         Load, BootKeep, BootPlace, Restore, RestoreSet, Crash
<1>3. QED
  BY <1>1, <1>2 DEF Write, WriteLost, Apply

\* A write replaces or removes only what its principal may write, unless the row
\* changed after it was read: canWrite is asked of what the handler read.
THEOREM PrincipalsWriteTheirOwn == Spec => WritesOwnPolicies
<1> DEFINE Owned ==
      \A h \in Handlers, i \in Ids :
          /\ slot[h].pc = "write" /\ slot'[h] # slot[h]
          /\ stored[i] # NoPolicy /\ stored'[i] # stored[i]
          /\ h \notin overtaken
          => CanWrite(slot[h].who, stored[i].org)
<1>1. IInv /\ [Next]_vars => Owned
  <2>1. SUFFICES ASSUME IInv, [Next]_vars, NEW h \in Handlers, NEW i \in Ids,
                        slot[h].pc = "write", slot'[h] # slot[h],
                        stored[i] # NoPolicy, stored'[i] # stored[i], h \notin overtaken
                 PROVE  CanWrite(slot[h].who, stored[i].org)
    OBVIOUS
  <2>2. stored' = [stored EXCEPT ![slot[h].id] = slot[h].pol]
    BY <2>1, WritesAreTheirOwn
  <2>3. i = slot[h].id
    BY <2>1, <2>2 DEF IInv, TypeOK
  <2>4. QED
    BY <2>1, <2>3 DEF IInv, WritesKnowTheStore
<1>2. IInv /\ [Next]_vars => [Owned]_vars
  BY <1>1
<1>3. QED
  BY <1>2, SpecIInv, PTL DEF Spec, WritesOwnPolicies
-----------------------------------------------------------------------------
(* The archive keeps what it has *)

\* No write, start, failure or crash takes a whole set from an archive: what a rename
\* replaces is the file of its own set.
LEMMA KeptStays ==
    ASSUME IInv, [Next]_vars, NEW p \in Procs, NEW set \in Sets, Kept(p, set)
    PROVE  Kept(p, set)'
<1>1. ASSUME files' = files PROVE Kept(p, set)'
  BY <1>1 DEF Kept
<1>2. ASSUME NEW h \in Handlers, Place(h) PROVE Kept(p, set)'
  <2>1. slot[h].pc = "place" /\ slot[h] \in Slot
    BY <1>2 DEF Place, IInv, TypeOK
  <2>2. slot[h].proc \in Procs /\ slot[h].cand \in Sets
    BY <2>1 DEF IInv, FlightsAreServed, Slot
  <2>3. files' = files \/ Placed(slot[h].proc, slot[h].cand)
    BY <1>2 DEF Place
  <2>4. QED
    BY <1>1, <2>2, <2>3, PlacedKeeps DEF IInv
<1>3. ASSUME NEW q \in Procs, BootPlace(q) PROVE Kept(p, set)'
  <2>1. boot[q].set \in Sets /\ Placed(q, boot[q].set)
    BY <1>3 DEF BootPlace, IInv, TypeOK, Boot
  <2>2. QED
    BY <2>1, PlacedKeeps DEF IInv
<1>4. ASSUME \/ UNCHANGED vars
             \/ \E h \in Handlers : \/ Put(h) \/ Delete(h) \/ Keep(h)
                                    \/ Write(h) \/ WriteFails(h) \/ WriteLost(h) \/ Swap(h)
             \/ \E q \in Procs : Load(q) \/ BootKeep(q) \/ Restore(q) \/ RestoreSet(q) \/ Crash(q)
      PROVE  files' = files
  BY <1>4 DEF vars, Put, Delete, Keep, Write, WriteFails, WriteLost, Swap, Load, BootKeep,
              Restore, RestoreSet, Crash
<1>5. QED
  BY <1>1, <1>2, <1>3, <1>4 DEF Next

\* Whatever set a process has decided under, its archive has whole from then on,
\* through every later write, failure and crash, so the version that a decision
\* recorded can be produced at any later time (the comment on Keep in
\* handlePutPolicy).
THEOREM VersionsStayProducible ==
    ASSUME NEW p \in Procs, NEW set \in Sets
    PROVE  Spec => [](Up(p) /\ engine[p] = set => []Kept(p, set))
<1>1. IInv /\ Kept(p, set) /\ [Next]_vars => Kept(p, set)'
  BY KeptStays
<1>2. IInv /\ Up(p) /\ engine[p] = set => Kept(p, set)
  BY DEF IInv, SetsAreKept, Up
<1>3. QED
  BY <1>1, <1>2, SpecIInv, PTL DEF Spec
=============================================================================
