------------------------------ MODULE SloBurn ------------------------------
(***************************************************************************)
(* The standing slo_burn signal: a goroutine reads the quality plane's     *)
(* event file again and again while that file is appended to, edited, cut  *)
(* short, replaced or swapped for a pipe, and decide requests ask the last *)
(* reading about their agent.                                              *)
(*                                                                         *)
(* The file is a chain: a line carries the hash of the line before it.     *)
(* The hash of a line is modelled as all that it covers, the events up to  *)
(* and with its own, so two lines have one hash only if they end the same  *)
(* history.  A line is read in one piece; a cut through one leaves a line  *)
(* that is no event.  Events of other types are left out: they are links   *)
(* of the chain and signal nobody.                                         *)
(***************************************************************************)
EXTENDS Integers, Sequences, SequencesExt, FiniteSets, FiniteSetsExt

CONSTANTS
    Agents,
    Indicators,  \* in the order that their names sort in
    Burns,       \* what the quality plane may say: [agent, sli, trigger, seen]
    MaxAge,      \* how long after its time an event signals
    ClockLeeway,
    MaxLines,    \* MaxFileBytes
    MaxChanges,  \* bound on the changes of the file and the failures to read it
    MaxTime,     \* bound on the clock
    Junk         \* what is in a line that is no event

ASSUME ConstantsAssumption ==
    /\ Indicators \subseteq Nat
    /\ Burns \subseteq [agent : Agents, sli : Indicators,
                        trigger : {"exhausted", "fast_burn", "other"}, seen : BOOLEAN]
    /\ {MaxAge, ClockLeeway, MaxLines, MaxChanges, MaxTime} \subseteq Nat

VARIABLES
    now,     \* the clock
    disk,    \* what is at the path
    changes,
    reader,  \* Refresh: where it is, the clock it read, the file it has open
    data,    \* the lines it has read of it
    last,    \* Reader.last: the reading that was parsed last, if any was
    view,    \* Reader.cur
    during,  \* history: the chains that the open file was while it was read; none if it
             \* was no chain at some moment
    believed \* history: the view is of the file as it was, unless it was edited meanwhile

vars == <<now, disk, changes, reader, data, last, view, during, believed>>

\* An event may be dated ahead of the clock.
Times == 0..MaxTime

Event == {[burn |-> b, ts |-> t] : b \in Burns, t \in Times}
Hash(line) == Append(line.prev, line.event)

Line == [event : Event \cup {Junk}, prev : Seq(Event \cup {Junk})]

Plain(lines, torn) == [kind |-> "plain", lines |-> lines, torn |-> torn]
Odd(kind)          == [kind |-> kind, lines |-> <<>>, torn |-> FALSE]

\* The lines of a file that end in a newline.
Whole(file) == IF file.torn THEN Front(file.lines) ELSE file.lines

NotOpen == [pc |-> "idle", clock |-> 0, linked |-> FALSE, file |-> Odd("none")]
NoView  == [state |-> "unreadable", p |-> <<>>]

\* Type correctness.  No more of a file is held than the cap and what is past it, and
\* lines to decide by only while the file is believed.
TypeOK ==
    /\ now \in 0..MaxTime /\ changes \in 0..MaxChanges
    /\ disk.kind \in {"plain", "none", "pipe"} /\ disk.lines \in Seq(Line)
    /\ disk.torn \in BOOLEAN /\ (disk.torn => disk.lines # <<>>)
    /\ reader.pc \in {"idle", "open", "blocked", "read"}
    /\ reader.clock \in 0..MaxTime /\ reader.linked \in BOOLEAN
    /\ data \in Seq(Line) /\ Len(data) <= MaxLines + 1
    /\ \A l \in last : l.lines \in Seq(Line) /\ Len(l.lines) <= MaxLines /\ l.torn \in BOOLEAN
    /\ Cardinality(last) <= 1
    /\ view.state \in {"ok", "unreadable", "broken"}
    /\ view.state # "ok" => view.p = <<>>
    /\ reader.pc # "read" => data = <<>> /\ during = {}

Init ==
    /\ now = 0
    /\ disk \in {Odd("none")} \cup
                {Plain(<<[event |-> [burn |-> b, ts |-> 0], prev |-> <<>>]>>, FALSE) : b \in Burns}
    /\ changes = 0
    /\ reader = NotOpen
    /\ data = <<>>
    /\ last = {}
    /\ view = NoView
    /\ during = {} /\ believed = TRUE

\* Fault: only the head is looked for.
HeadOnly(lines) ==
    /\ \A i \in DOMAIN lines : lines[i].event # Junk
    /\ lines # <<>> => lines[1].prev = <<>>

\* event.VerifyChain: the first line is a head, each other carries the hash of the
\* one before it, and all of them are events.
Chained(lines) ==
    \A i \in DOMAIN lines :
      /\ lines[i].event # Junk
      /\ lines[i].prev = IF i = 1 THEN <<>> ELSE Hash(lines[i - 1])

-----------------------------------------------------------------------------
(* The clock, the quality plane, and whoever else may write where the file is *)

Tick ==
    /\ now < MaxTime
    /\ now' = now + 1
    /\ UNCHANGED <<disk, changes, reader, data, last, view, during, believed>>

Change ==
    /\ changes < MaxChanges
    /\ changes' = changes + 1
    /\ UNCHANGED <<now, data, last, view, believed>>

\* The file itself is written: whoever has it open reads on in what it now holds.
Rewritten(file) ==
    /\ disk.kind = "plain"
    /\ disk' = file
    /\ during' = IF ~(reader.pc = "read" /\ reader.linked) THEN during
                 ELSE IF during # {} /\ Chained(file.lines) THEN during \cup {file.lines}
                 ELSE {}
    /\ UNCHANGED reader

\* Something else is put at the path: whoever has the file open keeps what it was.
Replaced(file) ==
    /\ disk' = file
    /\ reader' = IF reader.pc = "read" /\ reader.linked
                   THEN [reader EXCEPT !.linked = FALSE, !.file = disk] ELSE reader
    /\ UNCHANGED during

\* The quality plane appends, which a reader may find half done, for good if the
\* writer dies.  What is appended to half a line is junk.
AppendEvent(b, ts) ==
    /\ Change
    /\ LET prev == IF disk.lines = <<>> THEN <<>> ELSE Hash(Last(disk.lines))
           line == [event |-> [burn |-> b, ts |-> ts], prev |-> prev] IN
         \E torn \in BOOLEAN :
           Rewritten(IF disk.torn
             THEN Plain(Append(Front(disk.lines), [Last(disk.lines) EXCEPT !.event = Junk]), FALSE)
             ELSE Plain(Append(disk.lines, line), torn))

EndLine ==
    /\ disk.torn
    /\ UNCHANGED <<now, changes, data, last, view, believed>>
    /\ Rewritten([disk EXCEPT !.torn = FALSE])

\* A line is edited in place.
Edit(i, b) ==
    /\ Change
    /\ i \in DOMAIN Whole(disk) /\ disk.lines[i].event # Junk /\ disk.lines[i].event.burn # b
    /\ Rewritten([disk EXCEPT !.lines[i].event.burn = b])

\* Lines are cut from the end.
Cut(n) ==
    /\ Change
    /\ n < Len(disk.lines)
    /\ Rewritten(Plain(SubSeq(disk.lines, 1, n), FALSE))

\* Lines are cut from the start.
Rotate ==
    /\ Change
    /\ Len(disk.lines) > 1
    /\ Replaced([disk EXCEPT !.lines = Tail(@)])

\* The file is removed, begun anew, or swapped for a named pipe.
Swap == Change /\ \E file \in {Odd("none"), Plain(<<>>, FALSE), Odd("pipe")} : Replaced(file)

-----------------------------------------------------------------------------
(* What a reading says *)

\* parse, and the check of Refresh that no event is dated ahead of its clock.
Sound(lines, clock) ==
    /\ Chained(lines)
    /\ \A i \in DOMAIN lines : lines[i].event.ts <= clock + ClockLeeway

View(lines, clock) ==
    IF Sound(lines, clock) THEN [state |-> "ok", p |-> lines] ELSE [state |-> "broken", p |-> <<>>]

\* interpret.  A rate that was not measured establishes no burn.
Interpret(b) ==
    CASE b.trigger = "exhausted"            -> "exhausted"
      [] b.trigger = "fast_burn" /\ b.seen  -> "fast_burn"
      [] OTHER                              -> "unmeasured"

Rank == [exhausted |-> 3, fast_burn |-> 2, unmeasured |-> 1]
RankOf(line) == Rank[Interpret(line.event.burn)]

\* Fault: an agent's newest event, whatever its indicator.
NewestOfAgent(p, a) ==
    LET of == SelectSeq(p, LAMBDA line : line.event.burn.agent = a) IN
      IF of = <<>> THEN {} ELSE {Last(of)}

\* byAgent: line by line, the newest of each indicator of the agent.
Newest(p, a) ==
    LET newest[n \in 0..Len(p)] ==
          IF n = 0 THEN [i \in Indicators |-> {}]
          ELSE IF p[n].event.burn.agent = a
            THEN [newest[n - 1] EXCEPT ![p[n].event.burn.sli] = {p[n]}]
            ELSE newest[n - 1]
    IN UNION {newest[Len(p)][i] : i \in Indicators}

\* For: the most severe that is live at this reading of the clock, the first
\* indicator of several.
For(a) ==
    LET live == {line \in Newest(view.p, a) : now - line.event.ts <= MaxAge}
        worse(l, m) == \/ RankOf(l) > RankOf(m)
                       \/ RankOf(l) = RankOf(m) /\ l.event.burn.sli <= m.event.burn.sli
    IN IF live = {}
         THEN [value |-> "none",
               answer |-> IF view.p = <<>> THEN <<>> ELSE Hash(Last(view.p))]
         ELSE LET best == CHOOSE l \in live : \A m \in live : worse(l, m) IN
                [value |-> Interpret(best.event.burn), answer |-> Hash(best)]

-----------------------------------------------------------------------------
(* Refresh, at the start and every PollEvery *)

\* cur.Store.
Store(v) ==
    /\ view' = v
    /\ reader' = NotOpen
    /\ data' = <<>> /\ during' = {}
    /\ believed' = (v.state = "ok" /\ during # {} => \E lines \in during : IsPrefix(v.p, lines))
    /\ UNCHANGED <<now, disk>>

\* The clock is read, and the path looked at before it is opened.
Refresh ==
    /\ reader.pc = "idle"
    /\ IF disk.kind = "plain"
         THEN /\ reader' = [NotOpen EXCEPT !.pc = "open", !.clock = now]
              /\ UNCHANGED <<now, disk, changes, data, last, view, during, believed>>
         ELSE Store(NoView) /\ UNCHANGED <<changes, last>>

\* It is opened; opening a pipe waits for a writer.
Open ==
    /\ reader.pc = "open"
    /\ CASE disk.kind = "none"  -> Store(NoView) /\ UNCHANGED <<changes, last>>
         [] disk.kind = "pipe"  ->
              /\ reader' = [reader EXCEPT !.pc = "blocked"]
              /\ UNCHANGED <<now, disk, changes, data, last, view, during, believed>>
         [] disk.kind = "plain" ->
              /\ reader' = [reader EXCEPT !.pc = "read", !.linked = TRUE]
              /\ during' = {lines \in {disk.lines} : Chained(lines)}
              /\ UNCHANGED <<now, disk, changes, data, last, view, believed>>

\* Someone opens the pipe to write; it is not a plain file.
PipeOpened ==
    /\ reader.pc = "blocked"
    /\ Store(NoView)
    /\ UNCHANGED <<changes, last>>

Opened == IF reader.linked THEN disk ELSE reader.file

\* Fault: the cap is looked at only once the file is read.
AtEndOfAll == Len(data) >= Len(Whole(Opened))

\* The end of the file, or one byte past the cap.
AtEnd == Len(data) >= Len(Whole(Opened)) \/ Len(data) > MaxLines

Read ==
    /\ reader.pc = "read" /\ ~AtEnd
    /\ data' = Append(data, Opened.lines[Len(data) + 1])
    /\ UNCHANGED <<now, disk, changes, reader, last, view, during, believed>>

\* The digest of the bytes is the one of the last parse.
Unchanged(sum) == last = {sum}

\* Fault: an unchanged file leaves the view as it is.
EndOfUnchanged ==
    /\ reader.pc = "read" /\ AtEnd
    /\ LET torn == Opened.torn /\ Len(data) + 1 = Len(Opened.lines)
           sum  == [lines |-> data, torn |-> torn] IN
         IF Len(data) + (IF torn THEN 1 ELSE 0) > MaxLines
           THEN Store([state |-> "broken", p |-> <<>>]) /\ UNCHANGED last
           ELSE /\ last' = {sum}
                /\ Store(IF Unchanged(sum) THEN view ELSE View(data, reader.clock))
    /\ UNCHANGED changes

\* The end of the file: a line with no newline is left for the next poll, and what
\* was parsed before is not parsed again.
EndOfFile ==
    /\ reader.pc = "read" /\ AtEnd
    /\ LET torn == Opened.torn /\ Len(data) + 1 = Len(Opened.lines)
           sum  == [lines |-> data, torn |-> torn] IN
         IF Len(data) + (IF torn THEN 1 ELSE 0) > MaxLines
           THEN Store([state |-> "broken", p |-> <<>>]) /\ UNCHANGED last
           ELSE /\ last' = IF Unchanged(sum) THEN last ELSE {sum}
                /\ \E l \in last' : Store(View(l.lines, reader.clock))
    /\ UNCHANGED changes

\* An open or a read fails.
Fails ==
    /\ reader.pc \in {"open", "read"}
    /\ changes < MaxChanges
    /\ changes' = changes + 1
    /\ Store(NoView)
    /\ UNCHANGED last

-----------------------------------------------------------------------------

Poll == Refresh \/ Open \/ Read \/ EndOfFile

Next ==
    \/ Tick
    \/ \E b \in Burns, ts \in {now, now + ClockLeeway + 1} \cap Times :
         AppendEvent(b, ts)
    \/ EndLine
    \/ \E i \in 1..(MaxLines + 1), b \in Burns : Edit(i, b)
    \/ \E n \in 0..MaxLines : Cut(n)
    \/ Rotate \/ Swap
    \/ Poll \/ PipeOpened \/ Fails

\* The poll goes on for as long as the process does.
Spec == Init /\ [][Next]_vars /\ WF_vars(Poll)

-----------------------------------------------------------------------------
(* Correctness *)

\* The lines of an agent that nothing later in the file replaces and that are not
\* too old.
Standing(a) ==
    LET p == view.p IN
    {i \in DOMAIN p : /\ p[i].event.burn.agent = a
                      /\ now - p[i].event.ts <= MaxAge
                      /\ \A j \in DOMAIN p : j > i => \/ p[j].event.burn.agent # a
                                                      \/ p[j].event.burn.sli # p[i].event.burn.sli}

\* What a decision hears of the file was on the file: a reading that is believed is
\* how the file began at one moment of the read, though it was appended to, cut or
\* written anew meanwhile (parse, load), unless it was edited in place and was no
\* chain itself at some moment of the read, and the signal of an agent is the worst that stands there about it
\* and names a line that says so; it is "none" only where nothing stands (For).
SignalStandsOnTheFile ==
    /\ believed
    /\ view.state = "ok" =>
         \A a \in Agents :
           LET signal == For(a)
               worst  == Max({0} \cup {RankOf(view.p[i]) : i \in Standing(a)}) IN
             IF worst = 0 THEN signal.value = "none"
             ELSE \E i \in Standing(a) : /\ RankOf(view.p[i]) = worst
                                         /\ signal.answer = Hash(view.p[i])
                                         /\ signal.value = Interpret(view.p[i].event.burn)

\* What a look at the file gives now.
Fresh == IF disk.kind # "plain" THEN NoView
         ELSE IF Len(disk.lines) > MaxLines THEN [state |-> "broken", p |-> <<>>]
         ELSE View(Whole(disk), now)

\* Once the file is left alone, the signal follows it: a broken file signals nobody
\* and a mended one signals again, with no restart (Run, Refresh).  The exception is
\* a pipe put in place of the file between the look at it and its opening, which
\* holds the reader for as long as nobody writes to it, and the last view stands.
FollowsTheFile == <>[](view = Fresh \/ reader.pc = "blocked")
=============================================================================
