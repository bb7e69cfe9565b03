--------------------------- MODULE ReportsProofs ---------------------------
(***************************************************************************)
(* A hold is reported once and a full queue is reported once, for any      *)
(* number of holds, agents, handlers and restarts.                         *)
(***************************************************************************)
EXTENDS Reports, TLAPS

-----------------------------------------------------------------------------
(* The inductive invariant, part by part *)

IsWriting(w, e) == writer[w].pc = "write" /\ writer[w].event = e

\* Who writes what: only the sweep reports holds, only handlers anything else.
WritersKnow ==
    /\ \A w \in Writers : writer[w].pc # "idle" => writer[w].event \in Events
    /\ \A h \in Handlers : writer[h].event \notin Ids
    /\ writer[Sweeper].event \notin Agents
    /\ sweep.pc # "emit" => writer[Sweeper].pc = "idle"

\* What a sweep still has to look at.
SweepInOrder ==
    /\ sweep.pc \in {"each", "emit"} => sweep.todo \subseteq sweep.listed
    /\ sweep.pc \in {"wait", "list"} => seen \subseteq sweep.listed
    /\ \A i \in sweep.todo : row[i] \in {"overdue", "decided"}

\* A hold that is reported or about to be is marked until it is decided, and the
\* marker goes only after a sweep that did not list it.
HoldsAreMarked ==
    \A i \in Ids : written[i] # 0 \/ IsWriting(Sweeper, i) =>
        /\ row[i] \in {"overdue", "decided"}
        /\ i \in seen \/ row[i] = "decided"
        /\ sweep.pc \in {"each", "emit"} =>
             /\ i \in seen \/ i \notin sweep.todo
             /\ i \in sweep.listed \/ row[i] = "decided"

HoldsOnce ==
    \A i \in Ids : /\ written[i] <= 1
                   /\ IsWriting(Sweeper, i) => written[i] = 0

\* An agent that is reported or about to be is marked, and one handler reports it.
AgentsOnce ==
    \A a \in Agents :
        /\ written[a] <= 1
        /\ written[a] # 0 => a \in full
        /\ \A h \in Handlers : IsWriting(h, a) =>
             /\ a \in full /\ written[a] = 0
             /\ \A g \in Handlers : IsWriting(g, a) => g = h

IInv == TypeOK /\ WritersKnow /\ SweepInOrder /\ HoldsAreMarked /\ HoldsOnce /\ AgentsOnce

-----------------------------------------------------------------------------

\* A process that starts has nothing to report.
LEMMA InitIInv == Init => IInv
<1> SUFFICES ASSUME Init PROVE IInv
  OBVIOUS
<1>1. Quiet \in Writer /\ Asleep \in Sweep /\ Unreported \in [Events -> 0..2]
  BY SMT DEF Quiet, Writer, Asleep, Sweep, Unreported
<1>2. TypeOK
  <2>1. last \in [ok : BOOLEAN, by : Writers \cup {NoEvent}]
    BY DEF Init
  <2>2. /\ row \in [Ids -> {"absent", "fresh", "overdue", "decided"}]
        /\ writer \in [Writers -> Writer]
    BY <1>1 DEF Init
  <2>3. restarts \in 0..MaxRestarts
    BY ConstantsAssumption, SMT DEF Init
  <2>4. QED
    BY <1>1, <2>1, <2>2, <2>3 DEF Init, TypeOK, Asleep
<1>3. WritersKnow /\ SweepInOrder
  BY ConstantsAssumption, SMT
     DEF Init, WritersKnow, SweepInOrder, Writers, Quiet, Asleep, Events
<1>4. HoldsAreMarked /\ HoldsOnce /\ AgentsOnce
  BY SMT
     DEF Init, HoldsAreMarked, HoldsOnce, AgentsOnce, IsWriting, Writers, Quiet, Unreported,
         Events
<1>5. QED
  BY <1>2, <1>3, <1>4 DEF IInv

\* A hold grows old or is decided.
LEMMA AgeKeepsIInv == ASSUME IInv, NEW i \in Ids, Age(i) PROVE IInv'
<1>1. TypeOK'
  BY SMT DEF IInv, TypeOK, Age, Pending
<1>2. (WritersKnow /\ SweepInOrder)'
  BY SMT DEF IInv, TypeOK, WritersKnow, SweepInOrder, Age, Pending, Sweep
<1>3. (HoldsAreMarked /\ HoldsOnce /\ AgentsOnce)'
  BY SMT DEF IInv, TypeOK, HoldsAreMarked, HoldsOnce, AgentsOnce, IsWriting, Age, Pending
<1>4. QED
  BY <1>1, <1>2, <1>3 DEF IInv

\* A handler begins to write: a decision, or the news of a queue that was not known to
\* be full.
LEMMA HandlerKeepsIInv ==
    ASSUME IInv, NEW h \in Handlers, Decision(h) \/ QueueFull(h)
    PROVE  IInv'
<1>1. PICK e \in {"decision"} \cup Agents :
        /\ writer' = [writer EXCEPT ![h] = [pc |-> "write", event |-> e, ok |-> TRUE]]
        /\ full \subseteq full' /\ full' \subseteq Agents
        /\ e \in Agents => e \notin full /\ e \in full'
  <2>1. CASE Decision(h)
    BY <2>1, ConstantsAssumption DEF IInv, TypeOK, Decision, Writing
  <2>2. CASE QueueFull(h)
    <3>1. PICK a \in Agents :
            /\ full' = full \cup {a}
            /\ writer' = [writer EXCEPT ![h] = [pc |-> "write", ok |-> TRUE,
                                               event |-> IF a \in full THEN "decision" ELSE a]]
      BY <2>2, Zenon DEF QueueFull, Writing
    <3>2. full' \subseteq Agents /\ full \subseteq full'
      BY <3>1 DEF IInv, TypeOK
    <3>3. CASE a \in full
      BY <3>1, <3>2, <3>3, ConstantsAssumption
    <3>4. CASE a \notin full
      BY <3>1, <3>2, <3>4
    <3>5. QED
      BY <3>3, <3>4
  <2>3. QED
    BY <2>1, <2>2
<1>2. /\ writer[h].pc = "idle"
      /\ UNCHANGED <<row, sweep, seen, failing, restarts, written, tried, last, overtaken>>
  BY DEF Decision, QueueFull
<1>3. writer' \in [Writers -> Writer]
  BY <1>1, SMT DEF IInv, TypeOK, Writers, Writer, Events
<1>4. TypeOK'
  BY <1>1, <1>2, <1>3, SMT DEF IInv, TypeOK
<1>5. (WritersKnow /\ SweepInOrder)'
  BY <1>1, <1>2, ConstantsAssumption, SMT
     DEF IInv, TypeOK, WritersKnow, SweepInOrder, Writers, Events
<1>6. (HoldsAreMarked /\ HoldsOnce)'
  BY <1>1, <1>2, ConstantsAssumption, SMT
     DEF IInv, TypeOK, HoldsAreMarked, HoldsOnce, IsWriting, Writers
<1>7. AgentsOnce'
  BY <1>1, <1>2, ConstantsAssumption, SMT DEF IInv, TypeOK, AgentsOnce, IsWriting, Writers
<1>8. QED
  BY <1>4, <1>5, <1>6, <1>7 DEF IInv

\* A write succeeds or fails; it is counted once, and nobody writes that event again.
LEMMA WriteKeepsIInv == ASSUME IInv, NEW w \in Writers, Write(w) PROVE IInv'
<1> DEFINE e == writer[w].event
<1>1. PICK ok \in BOOLEAN :
        /\ writer' = [writer EXCEPT ![w].pc = "note", ![w].ok = ok]
        /\ written' = IF ok /\ written[e] < 2 THEN [written EXCEPT ![e] = @ + 1] ELSE written
        /\ last' = [ok |-> ok, by |-> w]
  BY DEF Write
<1>2. /\ writer[w].pc = "write" /\ tried' = tried \cup ({e} \cap Ids)
      /\ UNCHANGED <<row, sweep, seen, full, failing, restarts, overtaken>>
  BY DEF Write
<1>3. e \in Events /\ writer[w] \in Writer
  BY <1>2 DEF IInv, TypeOK, WritersKnow
<1>4. writer' \in [Writers -> Writer]
  <2>1. [writer[w] EXCEPT !.pc = "note", !.ok = ok] \in Writer
    BY <1>3 DEF Writer
  <2>2. QED
    BY <1>1, <2>1, Zenon DEF IInv, TypeOK
<1>5. \A v \in Writers : /\ writer'[v].event = writer[v].event
                         /\ v # w => writer'[v] = writer[v]
                         /\ writer'[w].pc = "note"
  BY <1>1, SMT DEF IInv, TypeOK, Writer
<1>6. /\ written' \in [Events -> 0..2]
      /\ \A d \in Events : d # e => written'[d] = written[d]
      /\ written'[e] <= written[e] + 1
  BY <1>1, <1>3, SMT DEF IInv, TypeOK
<1>7. TypeOK'
  BY <1>1, <1>2, <1>4, <1>6, SMT DEF IInv, TypeOK
<1>8. (WritersKnow /\ SweepInOrder)'
  BY <1>2, <1>3, <1>5, SMT DEF IInv, TypeOK, WritersKnow, SweepInOrder, Writers
<1>9. \A d \in Ids \cup Agents : written'[d] # written[d] =>
        d = e /\ written[d] = 0 /\ written'[d] = 1 /\ (d \in Ids <=> w = Sweeper)
  <2>1. written[e] = 0 \/ e = "decision"
    BY <1>2, <1>3 DEF IInv, WritersKnow, HoldsOnce, AgentsOnce, IsWriting, Writers, Events
  <2>2. e \in Ids => w = Sweeper
    BY DEF IInv, WritersKnow, Writers
  <2>3. e \in Agents => w # Sweeper
    BY DEF IInv, WritersKnow, Writers
  <2>4. written'[e] \in 0..2 /\ written[e] \in 0..2
    BY <1>3, <1>6 DEF IInv, TypeOK
  <2>5. \A d \in Ids \cup Agents : d \in Events /\ d # "decision"
    BY ConstantsAssumption DEF Events
  <2>6. written'[e] = 1 \/ written'[e] = written[e] \/ e = "decision"
    BY <1>6, <2>1, <2>4
  <2>7. QED
    BY <1>6, <2>1, <2>2, <2>3, <2>5, <2>6, ConstantsAssumption
<1>10. /\ \A i \in Ids : written'[i] # written[i] => IsWriting(Sweeper, i)
       /\ \A i \in Ids : IsWriting(Sweeper, i)' =>
            IsWriting(Sweeper, i) /\ written'[i] = written[i]
  BY <1>2, <1>5, <1>9 DEF IsWriting, Writers
<1>11. (HoldsAreMarked /\ HoldsOnce)'
  <2>1. HoldsAreMarked'
    BY <1>2, <1>10 DEF IInv, HoldsAreMarked
  <2>2. HoldsOnce'
    BY <1>9, <1>10, SMT DEF IInv, HoldsOnce
  <2>3. QED
    BY <2>1, <2>2
<1>12. AgentsOnce'
  <2>1. \A a \in Agents : written'[a] # written[a] => w \in Handlers /\ IsWriting(w, a)
    BY <1>2, <1>9, ConstantsAssumption DEF IsWriting, Writers
  <2>2. \A a \in Agents, h \in Handlers :
          IsWriting(h, a)' => IsWriting(h, a) /\ h # w
    BY <1>5 DEF IsWriting, Writers
  <2>3. QED
    BY <1>2, <1>9, <2>1, <2>2, SMT DEF IInv, AgentsOnce
<1>13. QED
  BY <1>7, <1>8, <1>11, <1>12 DEF IInv

\* The note is taken; what was written for an agent is followed by the decision.
LEMMA NoteKeepsIInv == ASSUME IInv, NEW w \in Writers, Note(w) PROVE IInv'
<1>1. /\ writer[w].pc = "note"
      /\ failing' \in BOOLEAN /\ overtaken' \in BOOLEAN
      /\ writer' = [writer EXCEPT ![w] = AfterNote(w)]
      /\ UNCHANGED <<row, sweep, seen, full, restarts, written, tried, last>>
  BY DEF Note, IInv, TypeOK, Writer
<1>2. /\ AfterNote(w) \in Writer
      /\ AfterNote(w).event \in {"decision", NoEvent}
      /\ AfterNote(w).pc # "idle" => AfterNote(w).event = "decision"
      /\ w = Sweeper => AfterNote(w) = Quiet
  BY SMT DEF AfterNote, Quiet, Writer, Events, IInv, WritersKnow
<1>3. TypeOK'
  BY <1>1, <1>2 DEF IInv, TypeOK
<1>4. (WritersKnow /\ SweepInOrder)'
  BY <1>1, <1>2, ConstantsAssumption, SMT
     DEF IInv, TypeOK, WritersKnow, SweepInOrder, Writers, Events, Quiet
<1>5. (HoldsAreMarked /\ HoldsOnce /\ AgentsOnce)'
  BY <1>1, <1>2, ConstantsAssumption, SMT
     DEF IInv, TypeOK, HoldsAreMarked, HoldsOnce, AgentsOnce, IsWriting, Writers
<1>6. QED
  BY <1>3, <1>4, <1>5 DEF IInv

\* The sweep wakes, lists or gives up, comes back from a report, drops markers.
LEMMA SweepKeepsIInv ==
    ASSUME IInv, Wake \/ List \/ ListFails \/ Emitted \/ Forget
    PROVE  IInv'
<1>1. UNCHANGED <<row, full, writer, failing, restarts, written, tried, last, overtaken>>
  BY DEF Wake, List, ListFails, Emitted, Forget
<1> DEFINE overdue == {i \in Ids : row[i] = "overdue"}
<1>2. Wake => sweep.pc = "wait" /\ UNCHANGED seen /\
              sweep' = [pc |-> "list", listed |-> sweep.listed, todo |-> overdue]
  BY DEF Wake, IInv, TypeOK, Sweep
<1>3. ListFails => sweep.pc = "list" /\ UNCHANGED seen /\
                   sweep' = [pc |-> "wait", listed |-> sweep.listed, todo |-> {}]
  BY DEF ListFails, IInv, TypeOK, Sweep
<1>4. sweep' \in Sweep /\ seen' \subseteq Ids /\ SweepInOrder'
  <2>1. CASE Wake
    BY <1>1, <1>2, <2>1, SMT DEF IInv, TypeOK, SweepInOrder, Sweep
  <2>2. CASE List
    BY <2>2, SMT DEF IInv, TypeOK, SweepInOrder, Sweep, List, Pending
  <2>3. CASE ListFails
    BY <1>1, <1>3, <2>3, SMT DEF IInv, TypeOK, SweepInOrder, Sweep
  <2>4. CASE Emitted
    BY <2>4, SMT DEF IInv, TypeOK, SweepInOrder, Sweep, Emitted
  <2>5. CASE Forget
    BY <2>5, SMT DEF IInv, TypeOK, SweepInOrder, Sweep, Forget
  <2>6. QED
    BY <2>1, <2>2, <2>3, <2>4, <2>5
<1>5. TypeOK'
  BY <1>1, <1>4 DEF IInv, TypeOK, SweepInOrder
<1>6. WritersKnow'
  BY <1>1, SMT DEF IInv, TypeOK, WritersKnow, Sweep, Wake, List, ListFails, Emitted, Forget
<1>7. HoldsAreMarked'
  <2>1. CASE Wake \/ ListFails
    BY <1>1, <1>2, <1>3, <2>1, SMT DEF IInv, HoldsAreMarked, IsWriting
  <2>2. CASE List
    BY <1>1, <2>2, SMT
       DEF IInv, TypeOK, WritersKnow, HoldsAreMarked, IsWriting, List, Pending
  <2>3. CASE Emitted
    BY <1>1, <2>3, SMT DEF IInv, TypeOK, HoldsAreMarked, IsWriting, Sweep, Emitted
  <2>4. CASE Forget
    BY <1>1, <2>4, SMT DEF IInv, TypeOK, HoldsAreMarked, IsWriting, Sweep, Forget
  <2>5. QED
    BY <2>1, <2>2, <2>3, <2>4
<1>8. (HoldsOnce /\ AgentsOnce)'
  BY <1>1 DEF IInv, HoldsOnce, AgentsOnce, IsWriting
<1>9. QED
  BY <1>4, <1>5, <1>6, <1>7, <1>8 DEF IInv

\* A hold that is not marked was not reported.
LEMMA MarkKeepsIInv == ASSUME IInv, NEW i \in Ids, Mark(i) PROVE IInv'
<1>1. /\ sweep.pc = "each" /\ i \in sweep.todo
      /\ sweep'.todo = sweep.todo \ {i} /\ sweep'.listed = sweep.listed
      /\ sweep'.pc = IF i \in seen THEN "each" ELSE "emit"
      /\ sweep' \in Sweep
      /\ seen' = seen \cup {i}
      /\ UNCHANGED <<row, full, failing, restarts, written, tried, last, overtaken>>
  <2>1. sweep' = [pc |-> IF i \in seen THEN "each" ELSE "emit", listed |-> sweep.listed,
                  todo |-> sweep.todo \ {i}]
    BY DEF Mark, IInv, TypeOK, Sweep
  <2>2. sweep' \in Sweep
    BY <2>1 DEF IInv, TypeOK, Sweep
  <2>3. QED
    BY <2>1, <2>2 DEF Mark
<1>2. CASE i \in seen
  <2>1. UNCHANGED writer
    BY <1>2 DEF Mark
  <2>2. QED
    BY <1>1, <1>2, <2>1, SMT
       DEF IInv, TypeOK, WritersKnow, SweepInOrder, HoldsAreMarked, HoldsOnce, AgentsOnce,
           IsWriting
<1>3. CASE i \notin seen
  <2>1. writer' = [writer EXCEPT ![Sweeper] = [pc |-> "write", event |-> i, ok |-> TRUE]]
    BY <1>3 DEF Mark, Writing
  <2>2. writer' \in [Writers -> Writer]
    BY <2>1, SMT DEF IInv, TypeOK, Writers, Writer, Events
  <2>3. TypeOK'
    BY <1>1, <2>2, SMT DEF IInv, TypeOK
  <2>4. (WritersKnow /\ SweepInOrder)'
    BY <1>1, <1>3, <2>1, ConstantsAssumption, SMT
       DEF IInv, TypeOK, WritersKnow, SweepInOrder, Writers, Events
  <2>5. written[i] = 0
    BY <1>1, <1>3, SMT DEF IInv, HoldsAreMarked
  <2>6. (HoldsAreMarked /\ HoldsOnce)'
    BY <1>1, <1>3, <2>1, <2>5, ConstantsAssumption, SMT
       DEF IInv, TypeOK, SweepInOrder, HoldsAreMarked, HoldsOnce, IsWriting, Writers
  <2>7. AgentsOnce'
    BY <1>1, <2>1, ConstantsAssumption, SMT
       DEF IInv, TypeOK, AgentsOnce, IsWriting, Writers
  <2>8. QED
    BY <2>3, <2>4, <2>6, <2>7 DEF IInv
<1>4. QED
  BY <1>2, <1>3

\* A process that starts again has nothing marked and has reported nothing.
LEMMA RestartKeepsIInv == ASSUME IInv, Restart PROVE IInv'
<1>1. Quiet \in Writer /\ Asleep \in Sweep /\ Unreported \in [Events -> 0..2]
  BY SMT DEF Quiet, Writer, Asleep, Sweep, Unreported
<1>2. TypeOK'
  <2>1. last' \in [ok : BOOLEAN, by : Writers \cup {NoEvent}]
    BY DEF Restart
  <2>2. writer' \in [Writers -> Writer]
    BY <1>1 DEF Restart
  <2>3. restarts' \in 0..MaxRestarts
    BY ConstantsAssumption, SMT DEF IInv, TypeOK, Restart
  <2>4. QED
    BY <1>1, <2>1, <2>2, <2>3 DEF IInv, Restart, TypeOK, Asleep
<1>3. (WritersKnow /\ SweepInOrder)'
  BY ConstantsAssumption, SMT
     DEF Restart, WritersKnow, SweepInOrder, Writers, Quiet, Asleep, Events
<1>4. (HoldsAreMarked /\ HoldsOnce /\ AgentsOnce)'
  BY SMT
     DEF Restart, HoldsAreMarked, HoldsOnce, AgentsOnce, IsWriting, Writers, Quiet, Unreported,
         Events
<1>5. QED
  BY <1>2, <1>3, <1>4 DEF IInv

\* Every step keeps the invariant.
LEMMA NextIInv == IInv /\ [Next]_vars => IInv'
<1> SUFFICES ASSUME IInv, [Next]_vars PROVE IInv'
  OBVIOUS
<1>1. CASE \E i \in Ids : Age(i)
  BY <1>1, AgeKeepsIInv
<1>2. CASE \E h \in Handlers : Decision(h) \/ QueueFull(h)
  BY <1>2, HandlerKeepsIInv
<1>3. CASE \E w \in Writers : Write(w) \/ Note(w)
  BY <1>3, WriteKeepsIInv, NoteKeepsIInv
<1>4. CASE Wake \/ List \/ ListFails \/ Emitted \/ Forget
  BY <1>4, SweepKeepsIInv
<1>5. CASE \E i \in Ids : Mark(i)
  BY <1>5, MarkKeepsIInv
<1>6. CASE Restart
  BY <1>6, RestartKeepsIInv
<1>7. CASE UNCHANGED vars
  BY <1>7
     DEF vars, IInv, TypeOK, WritersKnow, SweepInOrder, HoldsAreMarked, HoldsOnce, AgentsOnce,
         IsWriting
<1>8. QED
  BY <1>1, <1>2, <1>3, <1>4, <1>5, <1>6, <1>7 DEF Next, SweepStep, Writers

\* The model's state is always of its type, and between sweeps no marker is kept of a
\* hold that the last one did not list (forgetDecidedApprovals).
THEOREM TypeCorrect == Spec => []TypeOK
<1>1. IInv => TypeOK
  BY DEF IInv
<1>2. QED
  BY InitIInv, NextIInv, <1>1, PTL DEF Spec

\* One event per hold and one per agent in the life of a process
\* (WatchUnansweredApprovals, reportQueueFull).
THEOREM EventsAreReportedOnce == Spec => []ReportedOnce
<1>1. IInv => ReportedOnce
  BY SMT DEF IInv, HoldsOnce, AgentsOnce, ReportedOnce
<1>2. QED
  BY InitIInv, NextIInv, <1>1, PTL DEF Spec

-----------------------------------------------------------------------------
(* What /readyz says of the record *)

\* The writer of the last write has not forgotten how it went.
LastIsKnown ==
    \A w \in Writers :
        writer[w].pc = "note" /\ last.by = w => writer[w].ok = last.ok

RInv == LastIsKnown /\ ReadyUnlessOvertaken

\* A step that neither ends a write of this writer nor takes its note.
SameNote(w) ==
    \/ writer'[w] = writer[w]
    \/ writer[w].pc # "note" /\ writer'[w].pc # "note"

\* Whatever is not a write or a note of one leaves the notes as they are.
LEMMA OthersKeepRInv ==
    ASSUME TypeOK, RInv, UNCHANGED <<failing, last, overtaken>>,
           \A w \in Writers : SameNote(w)
    PROVE  RInv'
<1>1. LastIsKnown'
  BY DEF RInv, LastIsKnown, SameNote
<1>2. Unnoted' <=> Unnoted
  BY DEF Unnoted, SameNote
<1>3. ReadyUnlessOvertaken'
  BY <1>2 DEF RInv, ReadyUnlessOvertaken
<1>4. QED
  BY <1>1, <1>3 DEF RInv

\* A write is unnoted, and the last; a note settles it unless another came after it.
LEMMA WritesKeepRInv ==
    ASSUME TypeOK, RInv, NEW w \in Writers, Write(w) \/ Note(w)
    PROVE  RInv'
<1>1. CASE Write(w)
  <2>1. PICK ok \in BOOLEAN :
          /\ writer' = [writer EXCEPT ![w].pc = "note", ![w].ok = ok]
          /\ last' = [ok |-> ok, by |-> w]
    BY <1>1 DEF Write
  <2>2. /\ writer'[w].pc = "note" /\ writer'[w].ok = ok
        /\ \A v \in Writers : v # w => writer'[v] = writer[v]
    BY <2>1 DEF TypeOK, Writer
  <2>3. LastIsKnown'
    BY <2>1, <2>2 DEF LastIsKnown
  <2>4. Unnoted'
    BY <2>2 DEF Unnoted
  <2>5. QED
    BY <2>3, <2>4 DEF RInv, ReadyUnlessOvertaken
<1>2. CASE Note(w)
  <2>1. /\ writer[w].pc = "note" /\ UNCHANGED last
        /\ failing' = ~writer[w].ok
        /\ overtaken' = (last.by # w)
        /\ writer' = [writer EXCEPT ![w] = AfterNote(w)]
    BY <1>2 DEF Note
  <2>2. AfterNote(w).pc # "note"
    BY DEF AfterNote, Quiet
  <2>3. LastIsKnown'
    BY <2>1, <2>2 DEF LastIsKnown, RInv, TypeOK
  <2>4. last.by = w => failing' = ~last'.ok
    BY <2>1 DEF RInv, LastIsKnown
  <2>5. QED
    BY <2>1, <2>3, <2>4 DEF RInv, ReadyUnlessOvertaken
<1>3. QED
  BY <1>1, <1>2

\* Every step keeps it.
LEMMA NextRInv == IInv /\ RInv /\ [Next]_vars => RInv'
<1> SUFFICES ASSUME IInv, RInv, [Next]_vars PROVE RInv'
  OBVIOUS
<1> TypeOK /\ WritersKnow
  BY DEF IInv
<1>1. CASE \E w \in Writers : Write(w) \/ Note(w)
  BY <1>1, WritesKeepRInv
<1>2. CASE \E h \in Handlers : Decision(h) \/ QueueFull(h)
  <2>1. PICK h \in Handlers :
          /\ writer[h].pc = "idle" /\ UNCHANGED <<failing, last, overtaken>>
          /\ \E e : writer' = [writer EXCEPT ![h] = [pc |-> "write", event |-> e, ok |-> TRUE]]
    BY <1>2, Zenon DEF Decision, QueueFull, Writing
  <2>2. \A w \in Writers : SameNote(w)
    BY <2>1 DEF TypeOK, SameNote
  <2>3. QED
    BY <2>1, <2>2, OthersKeepRInv
<1>3. CASE \E i \in Ids : Mark(i)
  <2>1. PICK i \in Ids : /\ UNCHANGED <<failing, last, overtaken>>
                         /\ sweep.pc = "each"
                         /\ \/ UNCHANGED writer
                            \/ writer' = [writer EXCEPT ![Sweeper] =
                                             [pc |-> "write", event |-> i, ok |-> TRUE]]
    BY <1>3, Zenon DEF Mark, Writing
  <2>2. \A w \in Writers : SameNote(w)
    BY <2>1 DEF TypeOK, SameNote, WritersKnow
  <2>3. QED
    BY <2>1, <2>2, OthersKeepRInv
<1>4. CASE (\E i \in Ids : Age(i)) \/ Wake \/ List \/ ListFails \/ Emitted \/ Forget
           \/ UNCHANGED vars
  <2>1. UNCHANGED <<failing, last, overtaken, writer>>
    BY <1>4 DEF Age, Wake, List, ListFails, Emitted, Forget, vars
  <2>2. QED
    BY <2>1, OthersKeepRInv DEF SameNote
<1>5. CASE Restart
  BY <1>5 DEF Restart, RInv, LastIsKnown, ReadyUnlessOvertaken, Quiet
<1>6. QED
  BY <1>1, <1>2, <1>3, <1>4, <1>5 DEF Next, SweepStep, Writers

\* /readyz says what the last write came to, unless an older note came after its own
\* (recordHealth).
THEOREM ReadinessIsTheLastWrite == Spec => []ReadyUnlessOvertaken
<1>1. Init => RInv
  <2>1. Init => \A w \in Writers : writer[w].pc # "note"
    BY DEF Init, Quiet
  <2>2. Init => ReadyUnlessOvertaken
    <3>1. Init => last.ok /\ failing = FALSE
      BY DEF Init
    <3>2. QED
      BY <3>1, Zenon DEF ReadyUnlessOvertaken
  <2>3. QED
    BY <2>1, <2>2 DEF RInv, LastIsKnown
<1>2. RInv => ReadyUnlessOvertaken
  BY DEF RInv
<1>3. QED
  BY InitIInv, NextIInv, NextRInv, <1>1, <1>2, PTL DEF Spec
-----------------------------------------------------------------------------
(* Nothing is passed over: what OverdueIsReported rests on besides fairness *)

\* A marker stands for a report that was made, failed, or is being made: a hold is not
\* marked and then forgotten (the marker is set before emit is called).
MarkedAreTried == \A i \in seen : i \in tried \/ IsWriting(Sweeper, i)

\* What a sweep found overdue it marks, unless the hold was decided, the store could
\* not be listed, or the process was started again.
NothingIsPassedOver ==
    [][ \A i \in sweep.todo :
          i \notin sweep'.todo => \/ i \in seen' \/ row[i] = "decided"
                                  \/ ListFails \/ Restart ]_vars

\* Only a sweep marks, and what was tried stays tried until the process ends.
LEMMA MarkedStep ==
    ASSUME IInv, MarkedAreTried, [Next]_vars PROVE MarkedAreTried'
<1>1. ASSUME NEW i \in Ids, Mark(i) PROVE MarkedAreTried'
  <2>1. seen' = seen \cup {i} /\ tried' = tried /\ sweep.pc = "each"
    BY <1>1 DEF Mark
  <2>2. CASE i \in seen
    <3>1. UNCHANGED writer
      BY <1>1, <2>2 DEF Mark
    <3> QED BY <2>1, <2>2, <3>1 DEF MarkedAreTried, IsWriting
  <2>3. CASE i \notin seen
    <3>1. writer' = [writer EXCEPT ![Sweeper] = [pc |-> "write", event |-> i, ok |-> TRUE]]
      BY <1>1, <2>3 DEF Mark, Writing
    <3>2. IsWriting(Sweeper, i)'
      BY <3>1 DEF IInv, TypeOK, IsWriting, Writers
    <3>3. \A j \in seen : ~IsWriting(Sweeper, j)
      BY <2>1 DEF IInv, WritersKnow, IsWriting
    <3> QED BY <2>1, <3>2, <3>3 DEF MarkedAreTried
  <2> QED BY <2>2, <2>3
<1>2. ASSUME NEW w \in Writers, Write(w) PROVE MarkedAreTried'
  <2>1. /\ seen' = seen /\ tried' = tried \cup ({writer[w].event} \cap Ids)
        /\ \A v \in Writers : v # w => writer'[v] = writer[v]
    BY <1>2 DEF Write, IInv, TypeOK
  <2>2. \A i \in Ids : IsWriting(Sweeper, i) => i \in tried' \/ IsWriting(Sweeper, i)'
    BY <2>1 DEF IsWriting, Writers
  <2>3. seen \subseteq Ids
    BY DEF IInv, TypeOK
  <2> QED BY <2>1, <2>2, <2>3 DEF MarkedAreTried
<1>3. ASSUME NEW w \in Writers, \/ Note(w)
                                \/ w \in Handlers /\ (Decision(w) \/ QueueFull(w))
      PROVE  MarkedAreTried'
  <2>1. /\ UNCHANGED <<seen, tried>> /\ ~(writer[w].pc = "write")
        /\ \A v \in Writers : v # w => writer'[v] = writer[v]
    BY <1>3, Zenon DEF Note, Decision, QueueFull, Writing, IInv, TypeOK
  <2>2. \A i \in Ids : IsWriting(Sweeper, i) => IsWriting(Sweeper, i)'
    BY <2>1 DEF IsWriting, Writers
  <2>3. seen \subseteq Ids
    BY DEF IInv, TypeOK
  <2> QED BY <2>1, <2>2, <2>3 DEF MarkedAreTried
<1>4. ASSUME \/ \E i \in Ids : Age(i)
             \/ Wake \/ List \/ ListFails \/ Emitted \/ Forget \/ UNCHANGED vars
      PROVE  MarkedAreTried'
  <2>1. seen' \subseteq seen /\ UNCHANGED <<tried, writer>>
    BY <1>4 DEF Age, Wake, List, ListFails, Emitted, Forget, vars
  <2> QED BY <2>1 DEF MarkedAreTried, IsWriting
<1>5. CASE Restart
  BY <1>5 DEF Restart, MarkedAreTried
<1> QED BY <1>1, <1>2, <1>3, <1>4, <1>5 DEF Next, SweepStep, Writers

\* A hold that is marked has been reported, as far as the record allowed, or is about
\* to be (sweepUnansweredApprovals, emit).
THEOREM MarkersStandForReports == Spec => []MarkedAreTried
<1>1. Init => MarkedAreTried
  BY DEF Init, MarkedAreTried
<1> QED BY <1>1, InitIInv, NextIInv, MarkedStep, PTL DEF Spec

\* A sweep leaves nothing that it found overdue behind: with MarkersStandForReports,
\* an overdue hold is waited for, decided or reported, and only a failing list or a
\* restart puts it off to the next sweep.
THEOREM SweepsPassNothingOver == Spec => NothingIsPassedOver
<1> DEFINE Kept == \A i \in sweep.todo :
                     i \notin sweep'.todo => \/ i \in seen' \/ row[i] = "decided"
                                             \/ ListFails \/ Restart
<1>1. IInv /\ Next => Kept
  <2> SUFFICES ASSUME IInv, Next, NEW i \in sweep.todo, i \notin sweep'.todo,
                      ~ListFails, ~Restart
               PROVE  i \in seen' \/ row[i] = "decided"
    OBVIOUS
  <2>0. sweep \in Sweep /\ i \in Ids /\ row[i] \in {"overdue", "decided"}
    BY DEF IInv, TypeOK, Sweep, SweepInOrder
  <2>1. CASE Wake
    BY <2>0, <2>1 DEF Wake, Sweep
  <2>2. CASE List
    BY <2>0, <2>2 DEF List, Pending, Sweep
  <2>3. ASSUME NEW j \in Ids, Mark(j) PROVE i \in seen'
    <3>1. seen' = seen \cup {j} /\ sweep'.todo = sweep.todo \ {j}
      BY <2>0, <2>3 DEF Mark, Sweep
    <3> QED BY <3>1
  <2>4. ASSUME Emitted \/ Forget PROVE FALSE
    BY <2>0, <2>4 DEF Emitted, Forget, Sweep
  <2>5. ASSUME UNCHANGED sweep PROVE FALSE
    BY <2>5
  <2>6. ASSUME NEW w \in Writers, Write(w) \/ Note(w) PROVE FALSE
    BY <2>5, <2>6 DEF Write, Note
  <2>7. ASSUME NEW h \in Handlers, Decision(h) \/ QueueFull(h) PROVE FALSE
    BY <2>5, <2>7 DEF Decision, QueueFull
  <2>8. ASSUME NEW j \in Ids, Age(j) PROVE FALSE
    BY <2>5, <2>8 DEF Age
  <2> QED BY <2>1, <2>2, <2>3, <2>4, <2>6, <2>7, <2>8 DEF Next, SweepStep, Writers
<1>2. IInv /\ [Next]_vars => [Kept]_vars
  BY <1>1
<1> QED BY <1>2, InitIInv, NextIInv, PTL DEF Spec, NothingIsPassedOver
=============================================================================
