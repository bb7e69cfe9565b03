---------------------------- MODULE PolicyAdmin ----------------------------
(***************************************************************************)
(* The admin policy API: PUT and DELETE /v1/policies/{id}, the archive of  *)
(* policy sets, the set each process decides under, and what a start       *)
(* restores.                                                               *)
(*                                                                         *)
(* A write reads every stored policy, compiles the set that would result,  *)
(* archives it, writes one row and swaps the engine.  No lock is held from *)
(* the read to the swap, and processes that share the store swap only      *)
(* their own engine, so the set in force and the stored policies can part. *)
(* The history variables say when: a write by someone else landed between  *)
(* the read and the swap, or the answer of a write was lost.               *)
(*                                                                         *)
(* The archive of a process is a directory in which the file of a set has   *)
(* the set's digest for its name: two sets never share a name here.         *)
(* A Keep looks for the file, writes a temporary one and renames it, and a  *)
(* crash may come between.  A temporary file has a name nobody reads, so    *)
(* one in use belongs to its writer and one left behind is not modelled.    *)
(*                                                                         *)
(* The policies loaded from the file are part of every set and are left    *)
(* out.  A refusal (400, 403, 404), of a policy that does not compile among *)
(* others, changes nothing and is no step here.                            *)
(***************************************************************************)
EXTENDS Integers, FiniteSets

CONSTANTS
    Procs,       \* processes over one store, each with an archive of its own
    Handlers,    \* slots for policy writes in flight, in any process
    Ids,         \* policy ids
    Orgs,        \* orgs of the admins
    Rules,       \* what a policy may say; each compiles on its own and so in any set
    CrossAdmins, \* whether a key of the cross-org role exists
    Faults,      \* which of "store", "archive", "crash" can happen
    NoOrg, NoPolicy

ASSUME ConstantsAssumption ==
    /\ IsFiniteSet(Ids)
    /\ NoOrg \notin Orgs
    /\ NoPolicy \notin [org : Orgs \cup {NoOrg}, rule : Rules]
    /\ CrossAdmins \in BOOLEAN

Policies   == [org : Orgs \cup {NoOrg}, rule : Rules]
Principals == [org : Orgs, cross : {FALSE} \cup {CrossAdmins}]

VARIABLES
    stored,    \* the policies table
    engine,    \* the set each process decides under
    files,     \* the files in the archive of each process
    boot,      \* where each process is in its start
    slot,      \* the policy writes in flight
    behind,    \* history: processes whose set may differ from the store's
    overtaken  \* history: writes in flight that read the store before
               \* another write changed it

vars == <<stored, engine, files, boot, slot, behind, overtaken>>

\* A compiled set is the policies in it, with no ids, in a fixed order: how many
\* there are of each.
SetOf(s) == [p \in Policies |-> Cardinality({i \in Ids : s[i] = p})]

Sets     == [Policies -> 0..Cardinality(Ids)]
EmptySet == [p \in Policies |-> 0]

\* A file that was cut off in the middle of its writing is not whole.
Files   == [set : Sets, whole : BOOLEAN]
Whole(set) == [set |-> set, whole |-> TRUE]
Partial(set) == [set |-> set, whole |-> FALSE]

\* What a start keeps comes from the policy file first, then from the store.
BootPCs == {"down", "keep", "place", "restore", "set", "up"}
Boot    == [pc : BootPCs, set : Sets, from : {"file", "store"}]
Down    == [pc |-> "down", set |-> EmptySet, from |-> "file"]

Slot == [pc   : {"idle", "keep", "place", "write", "swap"},
         proc : Procs \cup {NoPolicy},
         who  : Principals \cup {NoPolicy},
         id   : Ids \cup {NoPolicy},
         pol  : Policies \cup {NoPolicy},   \* NoPolicy: a DELETE
         cand : Sets]
Idle == [pc |-> "idle", proc |-> NoPolicy, who |-> NoPolicy, id |-> NoPolicy,
         pol |-> NoPolicy, cand |-> EmptySet]

\* Type correctness: what the store, the engines, the archives and the handlers
\* range over.
TypeOK ==
    /\ stored \in [Ids -> Policies \cup {NoPolicy}]
    /\ engine \in [Procs -> Sets]
    /\ files \in [Procs -> SUBSET Files]
    /\ boot \in [Procs -> Boot]
    /\ slot \in [Handlers -> Slot]
    /\ behind \subseteq Procs
    /\ overtaken \subseteq Handlers

Init ==
    /\ stored = [i \in Ids |-> NoPolicy]
    /\ engine = [p \in Procs |-> EmptySet]
    /\ files = [p \in Procs |-> {}]
    /\ boot = [p \in Procs |-> Down]
    /\ slot = [h \in Handlers |-> Idle]
    /\ behind = {}
    /\ overtaken = {}

-----------------------------------------------------------------------------
(* The archive of a process *)

Kept(p, set)    == Whole(set) \in files[p]
Cut(p, set)     == Partial(set) \in files[p]
Missing(p, set) == ~Kept(p, set) /\ ~Cut(p, set)

\* A rename replaces what has the name.
Placed(p, set) ==
    files' = [files EXCEPT ![p] = (@ \ {Partial(set)}) \cup {Whole(set)}]

-----------------------------------------------------------------------------
(* PUT and DELETE /v1/policies/{id} *)

\* canWrite: one's own org's policies, or any with the cross-org role.
CanWrite(who, org) == org = who.org \/ who.cross

Up(p) == boot[p].pc = "up"

\* The set that would result from writing pol under id (NoPolicy: removing it).
Candidate(id, pol) == SetOf([stored EXCEPT ![id] = pol])

Enter(h, p, who, id, pol) ==
    slot' = [slot EXCEPT ![h] = [pc |-> "keep", proc |-> p, who |-> who, id |-> id,
                                 pol |-> pol, cand |-> Candidate(id, pol)]]

\* Fault: whose policy is replaced is not looked at, only whose replaces it.
PutTakesOver(h) ==
    /\ slot[h].pc = "idle"
    /\ \E p \in Procs, who \in Principals, id \in Ids, body \in Policies :
         /\ Up(p)
         /\ who.cross \/ body.org \in {NoOrg, who.org}
         /\ Enter(h, p, who, id,
                  IF who.cross THEN body ELSE [body EXCEPT !.org = who.org])
    /\ UNCHANGED <<stored, engine, files, boot, behind, overtaken>>

\* A PUT reads the store and compiles what would result.  The policy of an org's
\* admin is its org's; the one it replaces must be the writer's to change.
Put(h) ==
    /\ slot[h].pc = "idle"
    /\ \E p \in Procs, who \in Principals, id \in Ids, body \in Policies :
         /\ Up(p)
         /\ who.cross \/ body.org \in {NoOrg, who.org}
         /\ stored[id] # NoPolicy => CanWrite(who, stored[id].org)
         /\ Enter(h, p, who, id,
                  IF who.cross THEN body ELSE [body EXCEPT !.org = who.org])
    /\ UNCHANGED <<stored, engine, files, boot, behind, overtaken>>

Delete(h) ==
    /\ slot[h].pc = "idle"
    /\ \E p \in Procs, who \in Principals, id \in Ids :
         /\ Up(p)
         /\ stored[id] # NoPolicy
         /\ CanWrite(who, stored[id].org)
         /\ Enter(h, p, who, id, NoPolicy)
    /\ UNCHANGED <<stored, engine, files, boot, behind, overtaken>>

\* Nothing a handler holds outlives it.
Leave(h) == /\ slot' = [slot EXCEPT ![h] = Idle]
            /\ overtaken' = overtaken \ {h}

\* Fault: an archive that failed is taken for one that kept the set.
PlaceOrGoOn(h) ==
    /\ slot[h].pc = "place"
    /\ slot' = [slot EXCEPT ![h].pc = "write"]
    /\ \/ Placed(slot[h].proc, slot[h].cand)
       \/ "archive" \in Faults /\ UNCHANGED files
    /\ UNCHANGED <<stored, engine, boot, behind, overtaken>>

\* The set is archived before it is stored and before it is in force.  With a
\* whole file there is nothing to do; a file of the name with other bytes is
\* refused, and so is one that cannot be read; without one the set is written
\* to a temporary file, which may fail.
Keep(h) ==
    /\ slot[h].pc = "keep"
    /\ \/ /\ Kept(slot[h].proc, slot[h].cand)
          /\ slot' = [slot EXCEPT ![h].pc = "write"]
          /\ UNCHANGED overtaken
       \/ /\ Missing(slot[h].proc, slot[h].cand)
          /\ slot' = [slot EXCEPT ![h].pc = "place"]
          /\ UNCHANGED overtaken
       \/ /\ "archive" \in Faults \/ Cut(slot[h].proc, slot[h].cand)
          /\ Leave(h)
    /\ UNCHANGED <<stored, engine, files, boot, behind>>

\* The rename, which may fail and then leaves the name as it was.
Place(h) ==
    /\ slot[h].pc = "place"
    /\ \/ /\ Placed(slot[h].proc, slot[h].cand)
          /\ slot' = [slot EXCEPT ![h].pc = "write"]
          /\ UNCHANGED overtaken
       \/ /\ "archive" \in Faults
          /\ Leave(h)
          /\ UNCHANGED files
    /\ UNCHANGED <<stored, engine, boot, behind>>

\* DELETE finds the row or fails; PUT replaces whatever is there.
Writable(h) == slot[h].pol = NoPolicy => stored[slot[h].id] # NoPolicy

\* The row is written; every other write in flight has read what was before.
Apply(h) ==
    /\ Writable(h)
    /\ stored' = [stored EXCEPT ![slot[h].id] = slot[h].pol]

Overtaking(h) ==
    {g \in Handlers \ {h} : slot[g].pc # "idle"}

Write(h) ==
    /\ slot[h].pc = "write"
    /\ Apply(h)
    /\ slot' = [slot EXCEPT ![h].pc = "swap"]
    /\ overtaken' = overtaken \cup Overtaking(h)
    /\ behind' = behind \cup (Procs \ {slot[h].proc})
    /\ UNCHANGED <<engine, files, boot>>

\* Fault: the engine is swapped whether or not the write succeeded.
WriteFailsGoesOn(h) ==
    /\ slot[h].pc = "write"
    /\ "store" \in Faults
    /\ slot' = [slot EXCEPT ![h].pc = "swap"]
    /\ UNCHANGED <<stored, engine, files, boot, behind, overtaken>>

\* The store answers with an error, or there is no row to delete: the engine is
\* left alone, and the caller is told that the change is not in force.
WriteFails(h) ==
    /\ slot[h].pc = "write"
    /\ "store" \in Faults \/ ~Writable(h)
    /\ Leave(h)
    /\ UNCHANGED <<stored, engine, files, boot, behind>>

\* The same answer, when the store applied the write after all.
WriteLost(h) ==
    /\ slot[h].pc = "write"
    /\ "store" \in Faults
    /\ Apply(h)
    /\ slot' = [slot EXCEPT ![h] = Idle]
    /\ overtaken' = (overtaken \cup Overtaking(h)) \ {h}
    /\ behind' = Procs
    /\ UNCHANGED <<engine, files, boot>>

\* Engine.SetPolicies.
Swap(h) ==
    /\ slot[h].pc = "swap"
    /\ LET p == slot[h].proc IN
         /\ engine' = [engine EXCEPT ![p] = slot[h].cand]
         /\ behind' = IF h \in overtaken THEN behind \cup {p} ELSE behind \ {p}
    /\ Leave(h)
    /\ UNCHANGED <<stored, files, boot>>

-----------------------------------------------------------------------------
(* The start of a process *)

\* The engine has the set of the policy file, which is archived.
Load(p) ==
    /\ boot[p].pc = "down"
    /\ engine' = [engine EXCEPT ![p] = EmptySet]
    /\ boot' = [boot EXCEPT ![p] = [Down EXCEPT !.pc = "keep"]]
    /\ UNCHANGED <<stored, files, slot, behind, overtaken>>

\* Keep, and what follows it: the stored policies, or their set put in force.
AfterKeep(p) == IF boot[p].from = "file" THEN "restore" ELSE "set"

\* Fault: the file is written in place, and one of the name is taken for kept.
BootKeepExclusive(p) ==
    /\ boot[p].pc = "keep"
    /\ boot' = [boot EXCEPT ![p].pc =
                  IF Missing(p, boot[p].set) THEN "place" ELSE AfterKeep(p)]
    /\ files' = IF Missing(p, boot[p].set)
                  THEN [files EXCEPT ![p] = @ \cup {Partial(boot[p].set)}]
                  ELSE files
    /\ UNCHANGED <<stored, engine, slot, behind, overtaken>>

BootKeep(p) ==
    /\ boot[p].pc = "keep"
    /\ ~Cut(p, boot[p].set)
    /\ boot' = [boot EXCEPT ![p].pc =
                  IF Kept(p, boot[p].set) THEN AfterKeep(p) ELSE "place"]
    /\ UNCHANGED <<stored, engine, files, slot, behind, overtaken>>

BootPlace(p) ==
    /\ boot[p].pc = "place"
    /\ Placed(p, boot[p].set)
    /\ boot' = [boot EXCEPT ![p].pc = AfterKeep(p)]
    /\ UNCHANGED <<stored, engine, slot, behind, overtaken>>

\* The stored policies are read; with none there is nothing to restore.
Restore(p) ==
    /\ boot[p].pc = "restore"
    /\ boot' = [boot EXCEPT ![p] =
                  IF \A i \in Ids : stored[i] = NoPolicy
                    THEN [Down EXCEPT !.pc = "up"]
                    ELSE [pc |-> "keep", set |-> SetOf(stored), from |-> "store"]]
    /\ behind' = behind \ {p}
    /\ UNCHANGED <<stored, engine, files, slot, overtaken>>

RestoreSet(p) ==
    /\ boot[p].pc = "set"
    /\ engine' = [engine EXCEPT ![p] = boot[p].set]
    /\ boot' = [boot EXCEPT ![p] = [Down EXCEPT !.pc = "up"]]
    /\ UNCHANGED <<stored, files, slot, behind, overtaken>>

\* The process dies with every write in it, or a start that failed gives up.
Crash(p) ==
    /\ "crash" \in Faults
    /\ boot[p].pc # "down"
    /\ boot' = [boot EXCEPT ![p] = Down]
    /\ LET gone == {h \in Handlers : slot[h].proc = p} IN
         /\ slot' = [h \in Handlers |-> IF h \in gone THEN Idle ELSE slot[h]]
         /\ overtaken' = overtaken \ gone
    /\ UNCHANGED <<stored, engine, files, behind>>

-----------------------------------------------------------------------------

Next ==
    \/ \E h \in Handlers :
         \/ Put(h) \/ Delete(h) \/ Keep(h) \/ Place(h)
         \/ Write(h) \/ WriteFails(h) \/ WriteLost(h) \/ Swap(h)
    \/ \E p \in Procs :
         \/ Load(p) \/ BootKeep(p) \/ BootPlace(p)
         \/ Restore(p) \/ RestoreSet(p) \/ Crash(p)

Spec == Init /\ [][Next]_vars

-----------------------------------------------------------------------------
(* Correctness *)

\* A set that decides is whole in the archive, so that the version a decision
\* records can be produced later: after any failed archive, failed write, race,
\* or crash in the middle of a Keep (the comments on Keep in handlePutPolicy and
\* on the temporary file in Keep).
SetsInForceAreKept ==
    \A p \in Procs : Up(p) => Kept(p, engine[p])

\* No write of p's is between the store and the engine.
Settled(p) == \A h \in Handlers : slot[h].pc = "swap" => slot[h].proc # p

\* A process decides under the stored policies unless a write landed between
\* the read and the swap of the last change to its engine, another process
\* wrote, or the answer of a write was lost; the next write that is not
\* overtaken, or the next start, ends it.
PartsOnlyWhenOvertaken ==
    \A p \in Procs :
        Up(p) /\ Settled(p) /\ p \notin behind => engine[p] = SetOf(stored)

\* A stored policy is replaced or removed by a principal that may write it,
\* unless the row changed after the handler read it: the check is on what the
\* handler read.
WritesOwnPolicies ==
    [][ \A h \in Handlers, i \in Ids :
          /\ slot[h].pc = "write" /\ slot'[h] # slot[h]
          /\ stored[i] # NoPolicy /\ stored'[i] # stored[i]
          /\ h \notin overtaken
          => CanWrite(slot[h].who, stored[i].org) ]_vars

\* With no write in flight and no fault, the process decides under the stored
\* policies: what the comments on handlePutPolicy and on the restore say.
EngineMatchesStore ==
    (\A h \in Handlers : slot[h].pc = "idle") =>
        \A p \in Procs : Up(p) => engine[p] = SetOf(stored)
=============================================================================
