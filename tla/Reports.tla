------------------------------ MODULE Reports ------------------------------
(***************************************************************************)
(* What a process reports besides its answers: the sweep of holds nobody   *)
(* decided, the news that an agent's queue is full, and what /readyz says  *)
(* of the record.  All of it is in memory and ends with the process.       *)
(*                                                                         *)
(* A write to the record and the note that recordHealth takes of it are    *)
(* two steps, so notes of concurrent writers may arrive in another order   *)
(* than their writes.  The rows are decided by anyone: another handler,    *)
(* another process, or straight in the store.                              *)
(***************************************************************************)
EXTENDS Integers, FiniteSets

CONSTANTS
    Ids,         \* approval ids
    Agents,      \* agents whose queue may be full
    Handlers,    \* request handlers of the process
    Sweeper,     \* the goroutine of WatchUnansweredApprovals
    MaxRestarts, \* bound on the restarts of the process
    NoEvent

Writers == Handlers \cup {Sweeper}

ASSUME ConstantsAssumption ==
    /\ Sweeper \notin Handlers
    /\ Ids \cap Agents = {}
    /\ {NoEvent, "decision"} \cap (Ids \cup Agents) = {}
    /\ NoEvent # "decision"
    /\ MaxRestarts \in Nat

VARIABLES
    row,      \* the approvals, by what a sweep makes of them
    sweep,    \* the sweep: what it listed, and what of that is still to do
    seen,     \* unansweredSeen
    full,     \* queueFullSeen
    writer,   \* the event each writer is about to write or has just written
    failing,  \* recordHealth
    restarts,
    written,  \* history: the events of this process on the record, up to two
    tried,    \* history: the holds whose event was written or failed to be
    last,     \* history: whether the last write succeeded, and whose it was
    overtaken \* history: the note taken last was not of the last write

vars == <<row, sweep, seen, full, writer, failing, restarts, written, tried,
          last, overtaken>>

\* An event about a hold or an agent is named for it.
Events == {"decision"} \cup Ids \cup Agents

Sweep  == [pc : {"wait", "list", "each", "emit"}, listed : SUBSET Ids, todo : SUBSET Ids]
Writer == [pc : {"idle", "write", "note"}, event : Events \cup {NoEvent}, ok : BOOLEAN]

Asleep == [pc |-> "wait", listed |-> {}, todo |-> {}]
Quiet  == [pc |-> "idle", event |-> NoEvent, ok |-> TRUE]

\* Type correctness.  Between sweeps no marker is kept of a hold the last one did
\* not list, so the markers do not pile up for the life of the process.
TypeOK ==
    /\ row \in [Ids -> {"absent", "fresh", "overdue", "decided"}]
    /\ sweep \in Sweep
    /\ seen \subseteq Ids
    /\ full \subseteq Agents
    /\ writer \in [Writers -> Writer]
    /\ failing \in BOOLEAN
    /\ restarts \in 0..MaxRestarts
    /\ written \in [Events -> 0..2]
    /\ tried \subseteq Ids
    /\ last \in [ok : BOOLEAN, by : Writers \cup {NoEvent}]
    /\ overtaken \in BOOLEAN
    /\ sweep.pc \in {"each", "emit"} => sweep.todo \subseteq sweep.listed
    /\ sweep.pc = "wait" => seen \subseteq sweep.listed

Unreported == [e \in Events |-> 0]

Init ==
    /\ row = [i \in Ids |-> "absent"]
    /\ sweep = Asleep
    /\ seen = {} /\ full = {}
    /\ writer = [w \in Writers |-> Quiet]
    /\ failing = FALSE
    /\ restarts = 0
    /\ written = Unreported /\ tried = {}
    /\ last = [ok |-> TRUE, by |-> NoEvent]
    /\ overtaken = FALSE

-----------------------------------------------------------------------------
(* The approvals *)

Pending(i) == row[i] \in {"fresh", "overdue"}

\* A hold is written, waits longer than unansweredAfter, is decided.
Age(i) ==
    /\ \/ row[i] = "absent"  /\ row' = [row EXCEPT ![i] = "fresh"]
       \/ row[i] = "fresh"   /\ row' = [row EXCEPT ![i] = "overdue"]
       \/ Pending(i)         /\ row' = [row EXCEPT ![i] = "decided"]
    /\ UNCHANGED <<sweep, seen, full, writer, failing, restarts, written, tried,
                   last, overtaken>>

-----------------------------------------------------------------------------
(* The record: writeRecord *)

Writing(w, e) == writer' = [writer EXCEPT ![w] = [pc |-> "write", event |-> e, ok |-> TRUE]]

\* ChainedWriter.Write, one writer at a time; it may fail.
Write(w) ==
    /\ writer[w].pc = "write"
    /\ \E ok \in BOOLEAN :
         /\ writer' = [writer EXCEPT ![w].pc = "note", ![w].ok = ok]
         /\ written' = IF ok /\ written[writer[w].event] < 2
                         THEN [written EXCEPT ![writer[w].event] = @ + 1] ELSE written
         /\ last' = [ok |-> ok, by |-> w]
    /\ tried' = tried \cup ({writer[w].event} \cap Ids)
    /\ UNCHANGED <<row, sweep, seen, full, failing, restarts, overtaken>>

\* A queue-full event goes before the record of the hold that met it.
AfterNote(w) ==
    IF writer[w].event \in Agents
      THEN [pc |-> "write", event |-> "decision", ok |-> TRUE] ELSE Quiet

\* Fault: emit, whose failure no decision depends on, takes no note of it.
NoteOfDecisions(w) ==
    /\ writer[w].pc = "note"
    /\ failing' = IF writer[w].event = "decision" \/ writer[w].ok
                    THEN ~writer[w].ok ELSE failing
    /\ overtaken' = (last.by # w)
    /\ writer' = [writer EXCEPT ![w] = AfterNote(w)]
    /\ UNCHANGED <<row, sweep, seen, full, restarts, written, tried, last>>

\* recordHealth.failed or recordHealth.recovered, after the write.
Note(w) ==
    /\ writer[w].pc = "note"
    /\ failing' = ~writer[w].ok
    /\ overtaken' = (last.by # w)
    /\ writer' = [writer EXCEPT ![w] = AfterNote(w)]
    /\ UNCHANGED <<row, sweep, seen, full, restarts, written, tried, last>>

-----------------------------------------------------------------------------
(* The handlers *)

\* recordDecision, emit of a deny, a grant or a policy write.
Decision(h) ==
    /\ writer[h].pc = "idle"
    /\ Writing(h, "decision")
    /\ UNCHANGED <<row, sweep, seen, full, failing, restarts, written, tried, last,
                   overtaken>>

\* Fault: the agent is not marked.
QueueFullUnmarked(h) ==
    /\ writer[h].pc = "idle"
    /\ \E a \in Agents : Writing(h, IF a \in full THEN "decision" ELSE a)
    /\ UNCHANGED <<row, sweep, seen, full, failing, restarts, written, tried, last,
                   overtaken>>

\* A hold of the floor finds the queue full: reportQueueFull marks the agent under
\* the mutex and reports the first time only.
QueueFull(h) ==
    /\ writer[h].pc = "idle"
    /\ \E a \in Agents :
         /\ full' = full \cup {a}
         /\ Writing(h, IF a \in full THEN "decision" ELSE a)
    /\ UNCHANGED <<row, sweep, seen, failing, restarts, written, tried, last, overtaken>>

-----------------------------------------------------------------------------
(* The sweep: sweepUnansweredApprovals *)

\* The ticker fires: what is overdue is overdue at this reading of the clock.
Wake ==
    /\ sweep.pc = "wait"
    /\ sweep' = [sweep EXCEPT !.pc = "list",
                              !.todo = {i \in Ids : row[i] = "overdue"}]
    /\ UNCHANGED <<row, seen, full, writer, failing, restarts, written, tried, last,
                   overtaken>>

\* Fault: a hold is marked before its age is looked at.
ListMarks ==
    /\ sweep.pc = "list"
    /\ LET pending == {i \in Ids : Pending(i)} IN
         /\ sweep' = [pc |-> "each", listed |-> pending, todo |-> sweep.todo \cap pending]
         /\ seen' = seen \cup (pending \ sweep.todo)
    /\ UNCHANGED <<row, full, writer, failing, restarts, written, tried, last, overtaken>>

\* ListPendingApprovals.
List ==
    /\ sweep.pc = "list"
    /\ LET pending == {i \in Ids : Pending(i)} IN
         sweep' = [pc |-> "each", listed |-> pending, todo |-> sweep.todo \cap pending]
    /\ UNCHANGED <<row, seen, full, writer, failing, restarts, written, tried, last,
                   overtaken>>

\* Fault: a store that cannot be listed is taken for one with nothing pending.
ListFailsForgets ==
    /\ sweep.pc = "list"
    /\ sweep' = [pc |-> "each", listed |-> {}, todo |-> {}]
    /\ UNCHANGED <<row, seen, full, writer, failing, restarts, written, tried, last,
                   overtaken>>

\* The store cannot be listed: the sweep gives up and the next one tries again.
ListFails ==
    /\ sweep.pc = "list"
    /\ sweep' = [sweep EXCEPT !.pc = "wait", !.todo = {}]
    /\ UNCHANGED <<row, seen, full, writer, failing, restarts, written, tried, last,
                   overtaken>>

\* A hold that is overdue and was not seen is marked and reported.
Mark(i) ==
    /\ sweep.pc = "each" /\ i \in sweep.todo
    /\ sweep' = [sweep EXCEPT !.todo = @ \ {i},
                              !.pc = IF i \in seen THEN "each" ELSE "emit"]
    /\ seen' = seen \cup {i}
    /\ IF i \in seen THEN UNCHANGED writer ELSE Writing(Sweeper, i)
    /\ UNCHANGED <<row, full, failing, restarts, written, tried, last, overtaken>>

\* emit has returned.
Emitted ==
    /\ sweep.pc = "emit" /\ writer[Sweeper].pc = "idle"
    /\ sweep' = [sweep EXCEPT !.pc = "each"]
    /\ UNCHANGED <<row, seen, full, writer, failing, restarts, written, tried, last,
                   overtaken>>

\* Fault: the markers are never dropped.
ForgetNone ==
    /\ sweep.pc = "each" /\ sweep.todo = {}
    /\ sweep' = [sweep EXCEPT !.pc = "wait"]
    /\ UNCHANGED <<row, seen, full, writer, failing, restarts, written, tried, last,
                   overtaken>>

\* forgetDecidedApprovals: the markers of holds that were not listed go.
Forget ==
    /\ sweep.pc = "each" /\ sweep.todo = {}
    /\ sweep' = [sweep EXCEPT !.pc = "wait"]
    /\ seen' = seen \cap sweep.listed
    /\ UNCHANGED <<row, full, writer, failing, restarts, written, tried, last, overtaken>>

-----------------------------------------------------------------------------

\* The process dies and is started again, with nothing marked and nothing failing.
Restart ==
    /\ restarts < MaxRestarts
    /\ restarts' = restarts + 1
    /\ sweep' = Asleep
    /\ seen' = {} /\ full' = {}
    /\ writer' = [w \in Writers |-> Quiet]
    /\ failing' = FALSE
    /\ written' = Unreported /\ tried' = {}
    /\ last' = [ok |-> TRUE, by |-> NoEvent]
    /\ overtaken' = FALSE
    /\ UNCHANGED row

SweepStep ==
    \/ Wake \/ Emitted \/ Forget
    \/ \E i \in Ids : Mark(i)
    \/ Write(Sweeper) \/ Note(Sweeper)

Next ==
    \/ \E i \in Ids : Age(i)
    \/ \E h \in Handlers : Decision(h) \/ QueueFull(h) \/ Write(h) \/ Note(h)
    \/ SweepStep \/ List \/ ListFails
    \/ Restart

Spec == Init /\ [][Next]_vars

\* The sweep runs for as long as the process does; the store can be listed now and
\* then.
FairSpec == Spec /\ WF_vars(SweepStep) /\ SF_vars(List)

-----------------------------------------------------------------------------
(* Correctness *)

\* "One event per hold per process lifetime" (WatchUnansweredApprovals), although
\* markers are dropped and holds decided meanwhile, and one queue-full event per
\* agent, whoever meets the full queue (reportQueueFull).
ReportedOnce == \A e \in Ids \cup Agents : written[e] <= 1

\* A write that was not noted yet.
Unnoted == \E w \in Writers : writer[w].pc = "note"

\* /readyz says that the record is failing exactly while the last write of any
\* writer, decision or not, failed ("until a write succeeds again",
\* SetRecordFailOpen), unless the note of an earlier write came after the note of
\* the last one.
ReadyUnlessOvertaken ==
    ~Unnoted /\ ~overtaken => failing = ~last.ok

\* The hold that nobody answered is the hold nobody asks about: with no request at
\* all, its event is written or fails to be, unless it is decided first.
OverdueIsReported ==
    \A i \in Ids : row[i] = "overdue" ~> i \in tried \/ row[i] = "decided"
=============================================================================
