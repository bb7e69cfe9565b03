--------------------------- MODULE SloBurnProofs ---------------------------
(***************************************************************************)
(* Proofs about SloBurn, for every set of agents, indicators and events,   *)
(* every cap and every number of changes of the file: what a decision      *)
(* hears of the file was on the file.                                      *)
(*                                                                         *)
(* Two arguments go along a sequence.  Neither is an induction theorem of  *)
(* the library: each takes a least counterexample, which a set of natural  *)
(* numbers has because < is well founded.                                  *)
(***************************************************************************)
EXTENDS SloBurn, FiniteSetTheorems, SequenceTheorems, WellFoundedInduction, TLAPS

-----------------------------------------------------------------------------
(* Sequences and numbers *)

LEMMA LeastNatural ==
    ASSUME NEW T, T \subseteq Nat, T # {}
    PROVE  \E x \in T : \A y \in T : x <= y
<1>1. PICK x \in T : \A y \in T : ~(<<y, x>> \in OpToRel(<, Nat))
  BY NatLessThanWellFounded, WFMin
<1>2. \A y \in T : ~(y < x)
  BY <1>1 DEF OpToRel
<1> QED BY <1>2

\* An appended sequence is taken apart in one way.
LEMMA AppendParts ==
    ASSUME NEW S, NEW s \in Seq(S), NEW t \in Seq(S), NEW e \in S, NEW f \in S,
           Append(s, e) = Append(t, f)
    PROVE  s = t /\ e = f
<1>1. /\ Len(Append(s, e)) = Len(s) + 1 /\ Len(Append(t, f)) = Len(t) + 1
      /\ Len(s) \in Nat /\ Len(t) \in Nat
  OBVIOUS
<1>2. Len(s) = Len(t)
  BY <1>1
<1>3. e = f
  <2>1. Append(s, e)[Len(s) + 1] = e /\ Append(t, f)[Len(t) + 1] = f
    OBVIOUS
  <2> QED BY <1>2, <2>1, Zenon
<1>4. \A i \in 1..Len(s) : s[i] = t[i]
  <2>1. ASSUME NEW i \in 1..Len(s) PROVE Append(s, e)[i] = s[i]
    OBVIOUS
  <2>2. ASSUME NEW i \in 1..Len(t) PROVE Append(t, f)[i] = t[i]
    OBVIOUS
  <2> QED BY <1>2, <2>1, <2>2, Zenon
<1>5. s = t
  BY <1>2, <1>4, SeqEqual
<1> QED BY <1>3, <1>5

\* A line is what its event and the events before it are.
LEMMA SameHash ==
    ASSUME NEW l \in Line, NEW m \in Line, Hash(l) = Hash(m)
    PROVE  l = m
<1> DEFINE S == Event \cup {Junk}
           s == l.prev
           t == m.prev
           e == l.event
           f == m.event
<1>1. s \in Seq(S) /\ t \in Seq(S) /\ e \in S /\ f \in S
  BY DEF Line
<1>2. Append(s, e) = Append(t, f)
  BY DEF Hash
<1>3. s = t /\ e = f
  <2> HIDE DEF S, s, t, e, f
  <2> QED BY <1>1, <1>2, AppendParts
<1> QED BY <1>3 DEF Line

\* Two chains that have one line in common at one place are the same up to there.
LEMMA ChainsAgree ==
    ASSUME NEW s \in Seq(Line), NEW t \in Seq(Line), Chained(s), Chained(t),
           NEW n \in 1..Len(s), n <= Len(t), s[n] = t[n]
    PROVE  \A i \in 1..n : s[i] = t[i]
<1> DEFINE T == {d \in 0..(n - 1) : s[n - d] # t[n - d]}
<1>1. SUFFICES ASSUME T # {} PROVE FALSE
  <2>1. ASSUME NEW i \in 1..n, T = {} PROVE s[i] = t[i]
    <3>1. n - i \in 0..(n - 1) /\ n - (n - i) = i
      OBVIOUS
    <3> QED BY <2>1, <3>1
  <2> QED BY <2>1
<1>2. PICK d \in T : \A e \in T : d <= e
  <2>1. T \subseteq Nat
    OBVIOUS
  <2> HIDE DEF T
  <2> QED BY <1>1, <2>1, LeastNatural
<1> DEFINE i == n - d
<1>3. /\ d \in 1..(n - 1) /\ i \in 1..(n - 1) /\ s[i] # t[i]
  BY <1>2
<1>4. s[i + 1] = t[i + 1]
  <2>1. d - 1 \in 0..(n - 1) /\ ~(d <= d - 1) /\ n - (d - 1) = i + 1
    BY <1>3
  <2>2. d - 1 \notin T
    BY <1>2, <2>1
  <2> QED BY <2>1, <2>2
<1>5. /\ i + 1 \in DOMAIN s /\ i + 1 \in DOMAIN t /\ i + 1 # 1 /\ (i + 1) - 1 = i
      /\ s[i] \in Line /\ t[i] \in Line
  BY <1>3
<1>6. Hash(s[i]) = Hash(t[i])
  <2>1. s[i + 1].prev = Hash(s[(i + 1) - 1]) /\ t[i + 1].prev = Hash(t[(i + 1) - 1])
    BY <1>5 DEF Chained
  <2> QED BY <1>4, <1>5, <2>1
<1> QED BY <1>3, <1>5, <1>6, SameHash

\* So a chain whose last line is on another one is a prefix of it.
LEMMA LastLineMakesPrefix ==
    ASSUME NEW s \in Seq(Line), NEW t \in Seq(Line), Chained(s), Chained(t),
           s # <<>>, Len(s) <= Len(t), t[Len(s)] = s[Len(s)]
    PROVE  IsPrefix(s, t)
<1>1. Len(s) \in 1..Len(s)
  OBVIOUS
<1>2. \A i \in 1..Len(s) : s[i] = t[i]
  BY <1>1, ChainsAgree
<1>3. SubSeq(s, 1, Len(s)) = SubSeq(t, 1, Len(s))
  <2>1. /\ SubSeq(s, 1, Len(s)) = [i \in 1..Len(s) |-> s[i]]
        /\ SubSeq(t, 1, Len(s)) = [i \in 1..Len(s) |-> t[i]]
    OBVIOUS
  <2> QED BY <1>2, <2>1
<1> QED BY <1>3 DEF IsPrefix

-----------------------------------------------------------------------------
(* What the view says of an agent *)

\* The line at i is of the agent and the indicator; no later one of the first n is.
Of(p, a, i, j)       == p[j].event.burn.agent = a /\ p[j].event.burn.sli = i
LastOf(p, a, i, n)   == {j \in 1..n : /\ Of(p, a, i, j)
                                      /\ \A k \in 1..n : k > j => ~Of(p, a, i, k)}
NewestOf(p, a, n)    == [i \in Indicators |-> {p[j] : j \in LastOf(p, a, i, n)}]

\* A view is of lines that are events of the quality plane.
Events(p) == /\ p \in Seq(Line)
             /\ \A j \in 1..Len(p) : p[j].event \in Event

LEMMA EventsAreBurns ==
    ASSUME NEW p, Events(p), NEW j \in 1..Len(p)
    PROVE  /\ p[j] \in Line
           /\ p[j].event.burn \in Burns
           /\ p[j].event.burn.sli \in Indicators
           /\ p[j].event.ts \in Times
<1>1. p[j] \in Line /\ p[j].event \in Event
  BY DEF Events
<1>2. PICK b \in Burns, t \in Times : p[j].event = [burn |-> b, ts |-> t]
  BY <1>1 DEF Event
<1>3. b.sli \in Indicators
  BY ConstantsAssumption
<1> QED BY <1>1, <1>2, <1>3

\* One more line replaces what there was of its agent and indicator.
LEMMA OneMoreLine ==
    ASSUME NEW p, Events(p), NEW a, NEW n \in 1..Len(p)
    PROVE  NewestOf(p, a, n) =
             IF p[n].event.burn.agent = a
               THEN [NewestOf(p, a, n - 1) EXCEPT ![p[n].event.burn.sli] = {p[n]}]
               ELSE NewestOf(p, a, n - 1)
<1> DEFINE s == p[n].event.burn.sli
<1>1. s \in Indicators
  BY EventsAreBurns
<1>2. ASSUME NEW i \in Indicators, ~Of(p, a, i, n)
      PROVE  LastOf(p, a, i, n) = LastOf(p, a, i, n - 1)
  <2>1. 1..n = (1..(n - 1)) \cup {n}
    OBVIOUS
  <2> QED BY <1>2, <2>1 DEF LastOf
<1>3. ASSUME NEW i \in Indicators, Of(p, a, i, n)
      PROVE  LastOf(p, a, i, n) = {n}
  <2>1. n \in 1..n /\ (\A k \in 1..n : ~(k > n)) /\ (\A k \in 1..n : k # n => n > k)
    OBVIOUS
  <2> QED BY <1>3, <2>1 DEF LastOf
<1>4. CASE p[n].event.burn.agent # a
  <2>1. \A i \in Indicators : LastOf(p, a, i, n) = LastOf(p, a, i, n - 1)
    BY <1>2, <1>4 DEF Of
  <2> QED BY <1>4, <2>1 DEF NewestOf
<1>5. CASE p[n].event.burn.agent = a
  <2>1. \A i \in Indicators \ {s} : LastOf(p, a, i, n) = LastOf(p, a, i, n - 1)
    BY <1>2 DEF Of
  <2>2. LastOf(p, a, s, n) = {n}
    BY <1>1, <1>3, <1>5 DEF Of
  <2>3. {p[j] : j \in LastOf(p, a, s, n)} = {p[n]}
    BY <2>2
  <2>4. NewestOf(p, a, n) = [NewestOf(p, a, n - 1) EXCEPT ![s] = {p[n]}]
    BY <1>1, <2>1, <2>3 DEF NewestOf
  <2> QED BY <1>5, <2>4
<1> QED BY <1>4, <1>5

\* byAgent, line by line, is the last line of each indicator: the table that is
\* said in one go satisfies the equations, and they have no other solution.
LEMMA NewestIsLast ==
    ASSUME NEW p, Events(p), NEW a
    PROVE  Newest(p, a) = UNION {NewestOf(p, a, Len(p))[i] : i \in Indicators}
<1> DEFINE next(f, n) == IF n = 0 THEN [i \in Indicators |-> {}]
                         ELSE IF p[n].event.burn.agent = a
                           THEN [f[n - 1] EXCEPT ![p[n].event.burn.sli] = {p[n]}]
                           ELSE f[n - 1]
           good == [n \in 0..Len(p) |-> NewestOf(p, a, n)]
           made == CHOOSE f : f = [n \in 0..Len(p) |-> next(f, n)]
<1>0. Len(p) \in Nat
  BY DEF Events
<1>1. good = [n \in 0..Len(p) |-> next(good, n)]
  <2>1. ASSUME NEW n \in 0..Len(p) PROVE good[n] = next(good, n)
    <3>1. CASE n = 0
      <4>1. \A i \in Indicators : LastOf(p, a, i, 0) = {}
        BY DEF LastOf
      <4> QED BY <3>1, <4>1 DEF NewestOf
    <3>2. CASE n # 0
      <4>1. n \in 1..Len(p) /\ n - 1 \in 0..Len(p)
        BY <1>0, <3>2
      <4> QED BY <3>2, <4>1, OneMoreLine
    <3> QED BY <3>1, <3>2
  <2> QED BY <2>1
<1>2. made = [n \in 0..Len(p) |-> next(made, n)]
  BY <1>1
<1>3. \A n \in 0..Len(p) : made[n] = good[n]
  <2> DEFINE T == {n \in 0..Len(p) : made[n] # good[n]}
  <2>1. SUFFICES ASSUME T # {} PROVE FALSE
    OBVIOUS
  <2>2. PICK n \in T : \A m \in T : n <= m
    <3>1. T \subseteq Nat
      OBVIOUS
    <3> HIDE DEF T
    <3> QED BY <2>1, <3>1, LeastNatural
  <2>3. n \in 0..Len(p) /\ made[n] # good[n]
    BY <2>2
  <2>4. made[n] = next(made, n) /\ good[n] = next(good, n)
    <3> HIDE DEF made, good, next
    <3> QED BY <1>1, <1>2, <2>3
  <2>5. n # 0
    BY <2>3, <2>4
  <2>6. n - 1 \in 0..Len(p) /\ ~(n <= n - 1)
    <3>1. n \in 0..Len(p)
      BY <2>3
    <3> HIDE DEF T, made, good, next
    <3> QED BY <1>0, <2>5, <3>1
  <2>7. made[n - 1] = good[n - 1]
    BY <2>2, <2>6
  <2>8. next(made, n) = next(good, n)
    <3> HIDE DEF made, good
    <3> QED BY <2>5, <2>7, Zenon
  <2> HIDE DEF made, good, next
  <2> QED BY <2>3, <2>4, <2>8, Zenon
<1>4. Newest(p, a) = UNION {made[Len(p)][i] : i \in Indicators}
  BY DEF Newest
<1>5. Len(p) \in 0..Len(p)
  BY <1>0
<1>6. good[Len(p)] = NewestOf(p, a, Len(p))
  BY <1>5
<1> HIDE DEF made, good
<1>7. made[Len(p)] = NewestOf(p, a, Len(p))
  BY <1>3, <1>5, <1>6
<1> QED BY <1>4, <1>7

\* The places in a file of the last line of each indicator of an agent.
LastPlaces(p, a) ==
    {k \in 1..Len(p) :
        /\ p[k].event.burn.agent = a
        /\ \A m \in 1..Len(p) : m > k =>
             \/ p[m].event.burn.agent # a
             \/ p[m].event.burn.sli # p[k].event.burn.sli}

\* The lines that the view has of an agent are the last of each indicator.
LEMMA NewestLines ==
    ASSUME NEW p, Events(p), NEW a
    PROVE  Newest(p, a) = {p[j] : j \in LastPlaces(p, a)}
<1>1. ASSUME NEW i \in Indicators, NEW j \in LastOf(p, a, i, Len(p)) PROVE j \in LastPlaces(p, a)
  BY DEF LastPlaces, LastOf, Of
<1>2. ASSUME NEW j \in LastPlaces(p, a)
      PROVE  /\ p[j].event.burn.sli \in Indicators
             /\ j \in LastOf(p, a, p[j].event.burn.sli, Len(p))
  BY EventsAreBurns DEF LastPlaces, LastOf, Of
<1>3. Newest(p, a)
        = UNION {{p[j] : j \in LastOf(p, a, i, Len(p))} : i \in Indicators}
  BY NewestIsLast DEF NewestOf
<1>4. ASSUME NEW l \in Newest(p, a) PROVE \E j \in LastPlaces(p, a) : l = p[j]
  <2>1. PICK i \in Indicators : l \in {p[j] : j \in LastOf(p, a, i, Len(p))}
    BY <1>3
  <2> QED BY <1>1, <2>1
<1>5. ASSUME NEW j \in LastPlaces(p, a) PROVE p[j] \in Newest(p, a)
  BY <1>2, <1>3
<1> QED BY <1>4, <1>5

\* How bad a line is goes from 1 to 3.
LEMMA Ranks ==
    ASSUME NEW l
    PROVE  RankOf(l) \in 1..3
<1>1. Interpret(l.event.burn) \in {"exhausted", "fast_burn", "unmeasured"}
  BY DEF Interpret
<1> QED BY <1>1 DEF RankOf, Rank

\* Of lines there are, For takes one that none is worse than.
LEMMA WorstLine ==
    ASSUME NEW S, S # {}, \A l \in S : l.event.burn.sli \in Nat
    PROVE  \E l \in S : \A m \in S :
             /\ RankOf(l) >= RankOf(m)
             /\ \/ RankOf(l) > RankOf(m)
                \/ RankOf(l) = RankOf(m) /\ l.event.burn.sli <= m.event.burn.sli
<1>1. PICK l \in S : \A m \in S : RankOf(l) >= RankOf(m)
  <2> DEFINE T == {3 - RankOf(l) : l \in S}
  <2>1. T \subseteq Nat /\ T # {}
    BY Ranks
  <2>2. PICK d \in T : \A e \in T : d <= e
    <3> HIDE DEF T
    <3> QED BY <2>1, LeastNatural
  <2>3. PICK l \in S : d = 3 - RankOf(l)
    OBVIOUS
  <2>4. ASSUME NEW m \in S PROVE 3 - RankOf(l) <= 3 - RankOf(m)
    BY <2>2, <2>3
  <2> QED BY <2>4, Ranks
<1> DEFINE W == {m \in S : RankOf(m) = RankOf(l)}
           U == {m.event.burn.sli : m \in W}
<1>2. U \subseteq Nat /\ U # {}
  OBVIOUS
<1>3. PICK i \in U : \A j \in U : i <= j
  <2> HIDE DEF U
  <2> QED BY <1>2, LeastNatural
<1>4. PICK w \in W : i = w.event.burn.sli
  OBVIOUS
<1>5. ASSUME NEW m \in S
      PROVE  /\ RankOf(w) >= RankOf(m)
             /\ \/ RankOf(w) > RankOf(m)
                \/ RankOf(w) = RankOf(m) /\ w.event.burn.sli <= m.event.burn.sli
  <2>1. RankOf(w) = RankOf(l) /\ RankOf(w) \in 1..3 /\ RankOf(m) \in 1..3
    BY Ranks
  <2>2. RankOf(w) >= RankOf(m)
    BY <1>1, <2>1
  <2>3. RankOf(m) = RankOf(w) => w.event.burn.sli <= m.event.burn.sli
    <3>1. RankOf(m) = RankOf(w) => m \in W
      BY <2>1
    <3> QED BY <1>3, <1>4, <3>1
  <2> QED BY <2>1, <2>2, <2>3
<1> QED BY <1>5

\* The greatest of a set of numbers is the one that is no less than any.
LEMMA MaxIs ==
    ASSUME NEW S, S \subseteq Nat, NEW x \in S, \A y \in S : x >= y
    PROVE  Max(S) = x
<1>1. Max(S) \in S /\ \A y \in S : Max(S) >= y
  <2>1. \E z \in S : \A y \in S : z >= y
    OBVIOUS
  <2> QED BY <2>1, Zenon DEF Max
<1>2. x >= Max(S) /\ Max(S) >= x /\ x \in Nat /\ Max(S) \in Nat
  BY <1>1
<1> QED BY <1>2

\* For says of an agent the worst that stands about it, of whatever lines the view is.
LEMMA ForIsWorst ==
    ASSUME Events(view.p), NEW a
    PROVE  LET signal == For(a)
               worst  == Max({0} \cup {RankOf(view.p[i]) : i \in Standing(a)}) IN
             IF worst = 0 THEN signal.value = "none"
             ELSE \E i \in Standing(a) : /\ RankOf(view.p[i]) = worst
                                         /\ signal.answer = Hash(view.p[i])
                                         /\ signal.value = Interpret(view.p[i].event.burn)
<1> DEFINE live == {line \in Newest(view.p, a) : now - line.event.ts <= MaxAge}
           worse(l, m) == \/ RankOf(l) > RankOf(m)
                          \/ RankOf(l) = RankOf(m) /\ l.event.burn.sli <= m.event.burn.sli
           best == CHOOSE l \in live : \A m \in live : worse(l, m)
           ranks == {0} \cup {RankOf(view.p[i]) : i \in Standing(a)}
<1>1. DOMAIN view.p = 1..Len(view.p)
  BY DEF Events
<1>2. live = {view.p[i] : i \in Standing(a)}
  <2>1. Newest(view.p, a) = {view.p[j] : j \in LastPlaces(view.p, a)}
    BY NewestLines
  <2>2. Standing(a) = {j \in LastPlaces(view.p, a) : now - view.p[j].event.ts <= MaxAge}
    BY <1>1 DEF Standing, LastPlaces
  <2> QED BY <2>1, <2>2
<1>3. ranks \subseteq Nat
  BY Ranks
<1>4. CASE live = {}
  <2>1. ranks = {0}
    BY <1>2, <1>4
  <2>2. Max(ranks) = 0
    BY <2>1, MaxIs
  <2>3. For(a).value = "none"
    BY <1>4 DEF For
  <2> QED BY <2>2, <2>3
<1>5. CASE live # {}
  <2>1. \A l \in live : l.event.burn.sli \in Nat
    <3>1. ASSUME NEW i \in Standing(a) PROVE view.p[i].event.burn.sli \in Nat
      BY <1>1, EventsAreBurns, ConstantsAssumption DEF Standing
    <3> QED BY <1>2, <3>1
  <2>2. best \in live /\ \A m \in live : worse(best, m)
    <3>1. \E l \in live : \A m \in live : worse(l, m)
      <4> HIDE DEF live
      <4> QED BY <1>5, <2>1, WorstLine
    <3> HIDE DEF live, worse
    <3> QED BY <3>1
  <2>3. PICK i \in Standing(a) : best = view.p[i]
    <3> HIDE DEF best, live
    <3> QED BY <1>2, <2>2
  <2>4. ASSUME NEW j \in Standing(a) PROVE RankOf(best) >= RankOf(view.p[j])
    <3>1. view.p[j] \in live
      BY <1>2
    <3>2. worse(best, view.p[j])
      BY <2>2, <3>1
    <3> HIDE DEF best
    <3> QED BY <3>2, Ranks
  <2>5. RankOf(best) \in ranks /\ RankOf(best) \in 1..3
    <3> HIDE DEF best
    <3> QED BY <2>3, Ranks
  <2>6. Max(ranks) = RankOf(best)
    <3>1. \A r \in ranks : RankOf(best) >= r
      <4> HIDE DEF best
      <4> QED BY <2>4, <2>5
    <3> HIDE DEF ranks, best
    <3> QED BY <1>3, <2>5, <3>1, MaxIs
  <2>7. For(a).value = Interpret(best.event.burn) /\ For(a).answer = Hash(best)
    BY <1>5 DEF For
  <2> HIDE DEF best, live, worse
  <2>8. /\ RankOf(view.p[i]) = Max(ranks)
        /\ For(a).answer = Hash(view.p[i])
        /\ For(a).value = Interpret(view.p[i].event.burn)
    BY <2>3, <2>6, <2>7
  <2>9. Max(ranks) # 0
    BY <2>5, <2>6
  <2> QED BY <2>8, <2>9, Zenon
<1> QED BY <1>4, <1>5

-----------------------------------------------------------------------------
(* The inductive invariant *)

File    == [kind : {"plain", "none", "pipe"}, lines : Seq(Line), torn : BOOLEAN]
Reading == [lines : Seq(Line), torn : BOOLEAN]
ViewType == [state : {"ok", "unreadable", "broken"}, p : Seq(Line)]

\* A reader that reads nothing has nothing open.
Typed ==
    /\ now \in 0..MaxTime /\ changes \in 0..MaxChanges
    /\ disk \in File /\ (disk.torn => disk.lines # <<>>)
    /\ reader \in [pc : {"idle", "open", "blocked", "read"}, clock : 0..MaxTime,
                   linked : BOOLEAN, file : File]
    /\ data \in Seq(Line) /\ Len(data) <= MaxLines + 1
    /\ last \subseteq Reading /\ \A l, m \in last : l = m
    /\ \A l \in last : Len(l.lines) <= MaxLines
    /\ view \in ViewType /\ (view.state # "ok" => view.p = <<>>)
    /\ during \subseteq Seq(Line)
    /\ reader.pc # "read" => data = <<>> /\ during = {}

\* What is known of a read so far: the file that is open is one of the chains that it
\* was, and so is the last line that was read, at its place.  The lines before it need
\* not be: they may have been read of what the file was before.
ReadsChains ==
    /\ \A lines \in during : Chained(lines)
    /\ during # {} => Opened.lines \in during
    /\ during # {} /\ data # <<>> =>
         \E lines \in during : Len(data) <= Len(lines) /\ lines[Len(data)] = data[Len(data)]

\* The view in force is a chain, and is believed.
ViewHolds == Chained(view.p) /\ believed

SInv == Typed /\ ReadsChains /\ ViewHolds

-----------------------------------------------------------------------------
(* The file changes *)

\* A file that may be: half a line is a line.
IsFile(f) == f \in File /\ (f.torn => f.lines # <<>>)

\* Whoever has the file open goes on in a file that is one of the chains it was, or
\* in one that is known to have been none.
LEMMA RewrittenKeeps ==
    ASSUME SInv, NEW file, IsFile(file), Rewritten(file), changes' \in 0..MaxChanges,
           UNCHANGED <<now, data, last, view, believed>>
    PROVE  SInv'
<1>1. Typed'
  BY DEF SInv, Typed, IsFile, Rewritten, File
<1>2. ReadsChains'
  <2>1. CASE reader.pc = "read" /\ reader.linked
    <3>1. Opened' = file
      BY <2>1 DEF Rewritten, Opened
    <3>2. during' = {} \/ (during # {} /\ Chained(file.lines) /\ during' = during \cup {file.lines})
      BY <2>1 DEF Rewritten
    <3>3. CASE during' = {}
      BY <3>3 DEF ReadsChains
    <3>4. CASE during # {} /\ Chained(file.lines) /\ during' = during \cup {file.lines}
      BY <3>1, <3>4 DEF SInv, ReadsChains
    <3> QED BY <3>2, <3>3, <3>4
  <2>2. CASE reader.pc = "read" /\ ~reader.linked
    <3>1. during' = during /\ Opened' = Opened
      BY <2>2 DEF Rewritten, Opened
    <3> QED BY <3>1 DEF SInv, ReadsChains
  <2>3. CASE reader.pc # "read"
    <3>1. during' = {}
      BY <2>3 DEF Rewritten, SInv, Typed
    <3> QED BY <3>1 DEF ReadsChains
  <2> QED BY <2>1, <2>2, <2>3
<1>3. ViewHolds'
  BY DEF SInv, ViewHolds, Chained
<1> QED BY <1>1, <1>2, <1>3 DEF SInv

LEMMA ReplacedKeeps ==
    ASSUME SInv, NEW file, IsFile(file), Replaced(file), changes' \in 0..MaxChanges,
           UNCHANGED <<now, data, last, view, believed>>
    PROVE  SInv'
<1>0. /\ reader \in [pc : {"idle", "open", "blocked", "read"}, clock : 0..MaxTime,
                     linked : BOOLEAN, file : File]
      /\ disk \in File
  BY DEF SInv, Typed
<1>1. reader'.pc = reader.pc
  BY <1>0 DEF Replaced
<1>2. reader' \in [pc : {"idle", "open", "blocked", "read"}, clock : 0..MaxTime,
                   linked : BOOLEAN, file : File]
  BY <1>0 DEF Replaced
<1>3. Typed'
  BY <1>1, <1>2 DEF SInv, Typed, IsFile, Replaced
<1>4. ReadsChains'
  <2>1. CASE reader.pc = "read"
    <3>1. Opened' = Opened
      <4>1. CASE reader.linked
        <5>1. reader' = [reader EXCEPT !.linked = FALSE, !.file = disk]
          BY <2>1, <4>1 DEF Replaced
        <5>2. reader'.linked = FALSE /\ reader'.file = disk
          BY <1>0, <5>1
        <5> QED BY <4>1, <5>2 DEF Opened
      <4>2. CASE ~reader.linked
        BY <2>1, <4>2 DEF Replaced, Opened
      <4> QED BY <4>1, <4>2
    <3> QED BY <3>1 DEF SInv, ReadsChains, Replaced
  <2>2. CASE reader.pc # "read"
    <3>1. during' = {}
      BY <2>2 DEF Replaced, SInv, Typed
    <3> QED BY <3>1 DEF ReadsChains
  <2> QED BY <2>1, <2>2
<1>5. ViewHolds'
  BY DEF SInv, ViewHolds, Chained
<1> QED BY <1>3, <1>4, <1>5 DEF SInv

LEMMA ChangeKeeps ==
    ASSUME SInv, Change
    PROVE  changes' \in 0..MaxChanges /\ UNCHANGED <<now, data, last, view, believed>>
  BY ConstantsAssumption DEF Change, SInv, Typed

\* What each change leaves at the path is a file.
LEMMA FilesOfLines ==
    /\ \A lines \in Seq(Line) : IsFile(Plain(lines, FALSE))
    /\ \A lines \in Seq(Line), torn \in BOOLEAN :
         lines # <<>> => IsFile(Plain(lines, torn))
    /\ IsFile(Odd("none")) /\ IsFile(Odd("pipe"))
  BY DEF IsFile, File, Plain, Odd

LEMMA AppendEventKeeps ==
    ASSUME SInv, NEW b \in Burns, NEW ts \in Times, AppendEvent(b, ts)
    PROVE  SInv'
<1> DEFINE prev == IF disk.lines = <<>> THEN <<>> ELSE Hash(Last(disk.lines))
           line == [event |-> [burn |-> b, ts |-> ts], prev |-> prev]
           junk == [Last(disk.lines) EXCEPT !.event = Junk]
<1>0. disk.lines \in Seq(Line) /\ (disk.torn => disk.lines # <<>>) /\ disk.torn \in BOOLEAN
  BY DEF SInv, Typed, File
<1>1. disk.lines # <<>> => Last(disk.lines) \in Line
  BY <1>0 DEF Last
<1>2. line \in Line
  <2>1. prev \in Seq(Event \cup {Junk})
    BY <1>1 DEF Hash, Line
  <2>2. [burn |-> b, ts |-> ts] \in Event
    BY DEF Event
  <2> HIDE DEF prev
  <2> QED BY <2>1, <2>2 DEF Line
<1>3. Append(disk.lines, line) \in Seq(Line) /\ Append(disk.lines, line) # <<>>
  <2> HIDE DEF line
  <2> QED BY <1>0, <1>2, AppendProperties
<1>4. disk.torn => Append(Front(disk.lines), junk) \in Seq(Line)
  <2>1. disk.torn => junk \in Line
    BY <1>0, <1>1 DEF Line
  <2>2. disk.torn => Front(disk.lines) \in Seq(Line)
    BY <1>0 DEF Front
  <2> HIDE DEF junk
  <2> QED BY <2>1, <2>2
<1>5. PICK torn \in BOOLEAN :
        Rewritten(IF disk.torn THEN Plain(Append(Front(disk.lines), junk), FALSE)
                  ELSE Plain(Append(disk.lines, line), torn))
  BY DEF AppendEvent
<1> DEFINE file == IF disk.torn THEN Plain(Append(Front(disk.lines), junk), FALSE)
                   ELSE Plain(Append(disk.lines, line), torn)
<1> HIDE DEF line, junk
<1>6. IsFile(file)
  BY <1>3, <1>4, FilesOfLines
<1>7. Rewritten(file)
  BY <1>5
<1>8. changes' \in 0..MaxChanges /\ UNCHANGED <<now, data, last, view, believed>>
  BY ChangeKeeps DEF AppendEvent
<1> HIDE DEF file
<1> QED BY <1>6, <1>7, <1>8, RewrittenKeeps

LEMMA EndLineKeeps ==
    ASSUME SInv, EndLine
    PROVE  SInv'
<1>1. IsFile([disk EXCEPT !.torn = FALSE])
  BY DEF SInv, Typed, IsFile, File
<1>2. changes' \in 0..MaxChanges /\ UNCHANGED <<now, data, last, view, believed>>
  BY DEF EndLine, SInv, Typed
<1> QED BY <1>1, <1>2, RewrittenKeeps DEF EndLine

LEMMA EditKeeps ==
    ASSUME SInv, NEW i, NEW b \in Burns, Edit(i, b)
    PROVE  SInv'
<1> DEFINE event == [disk.lines[i].event EXCEPT !.burn = b]
           line  == [disk.lines[i] EXCEPT !.event = event]
           lines == [disk.lines EXCEPT ![i] = line]
<1>0. disk \in File /\ (disk.torn => disk.lines # <<>>)
  BY DEF SInv, Typed
<1>1. i \in 1..Len(disk.lines)
  <2>1. i \in DOMAIN Whole(disk)
    BY DEF Edit
  <2>2. DOMAIN Whole(disk) \subseteq 1..Len(disk.lines)
    BY <1>0 DEF Whole, Front, File
  <2> QED BY <2>1, <2>2
<1>2. disk.lines[i] \in Line /\ disk.lines[i].event \in Event
  <2>1. disk.lines[i] \in Line
    BY <1>0, <1>1 DEF File
  <2>2. disk.lines[i].event # Junk
    BY DEF Edit
  <2> QED BY <2>1, <2>2 DEF Line
<1>3. event \in Event
  <2>1. PICK c \in Burns, t \in Times : disk.lines[i].event = [burn |-> c, ts |-> t]
    BY <1>2 DEF Event
  <2>2. event = [burn |-> b, ts |-> t]
    BY <2>1
  <2> QED BY <2>2 DEF Event
<1>4. line \in Line
  <2> HIDE DEF event
  <2> QED BY <1>2, <1>3 DEF Line
<1>5. lines \in Seq(Line) /\ (disk.lines # <<>> => lines # <<>>)
  <2> HIDE DEF line
  <2> QED BY <1>0, <1>1, <1>4 DEF File
<1>6. [disk EXCEPT !.lines = lines] = [disk EXCEPT !.lines[i].event.burn = b]
  OBVIOUS
<1>7. IsFile([disk EXCEPT !.lines = lines])
  <2> HIDE DEF lines
  <2> QED BY <1>0, <1>5 DEF IsFile, File
<1>8. Rewritten([disk EXCEPT !.lines = lines])
  BY <1>6 DEF Edit
<1>9. changes' \in 0..MaxChanges /\ UNCHANGED <<now, data, last, view, believed>>
  BY ChangeKeeps DEF Edit
<1> HIDE DEF lines
<1> QED BY <1>7, <1>8, <1>9, RewrittenKeeps

LEMMA CutKeeps ==
    ASSUME SInv, NEW n \in Nat, Cut(n)
    PROVE  SInv'
<1>1. IsFile(Plain(SubSeq(disk.lines, 1, n), FALSE))
  <2>1. SubSeq(disk.lines, 1, n) \in Seq(Line)
    BY DEF SInv, Typed, File, Cut
  <2> QED BY <2>1, FilesOfLines
<1>2. changes' \in 0..MaxChanges /\ UNCHANGED <<now, data, last, view, believed>>
  BY ChangeKeeps DEF Cut
<1> QED BY <1>1, <1>2, RewrittenKeeps DEF Cut

LEMMA RotateKeeps ==
    ASSUME SInv, Rotate
    PROVE  SInv'
<1>1. IsFile([disk EXCEPT !.lines = Tail(@)])
  <2>1. disk \in File /\ Len(disk.lines) > 1
    BY DEF SInv, Typed, Rotate
  <2>2. Tail(disk.lines) \in Seq(Line) /\ Tail(disk.lines) # <<>>
    <3>1. Tail(disk.lines) \in Seq(Line) /\ Len(Tail(disk.lines)) = Len(disk.lines) - 1
      BY <2>1 DEF File
    <3>2. Len(disk.lines) \in Nat
      BY <2>1 DEF File
    <3>3. \A k \in Nat : k > 1 => k - 1 # 0
      OBVIOUS
    <3>4. Len(Tail(disk.lines)) # 0
      BY <2>1, <3>1, <3>2, <3>3, Zenon
    <3> QED BY <3>1, <3>4, EmptySeq
  <2> QED BY <2>1, <2>2 DEF IsFile, File
<1>2. changes' \in 0..MaxChanges /\ UNCHANGED <<now, data, last, view, believed>>
  BY ChangeKeeps DEF Rotate
<1> QED BY <1>1, <1>2, ReplacedKeeps DEF Rotate

LEMMA SwapKeeps ==
    ASSUME SInv, Swap
    PROVE  SInv'
<1>1. PICK file \in {Odd("none"), Plain(<<>>, FALSE), Odd("pipe")} : Replaced(file)
  BY DEF Swap
<1>2. IsFile(file)
  <2>1. <<>> \in Seq(Line)
    OBVIOUS
  <2> QED BY <2>1, FilesOfLines
<1>3. changes' \in 0..MaxChanges /\ UNCHANGED <<now, data, last, view, believed>>
  BY ChangeKeeps DEF Swap
<1> QED BY <1>1, <1>2, <1>3, ReplacedKeeps

-----------------------------------------------------------------------------
(* The reader *)

\* What was read, if it is a chain, is how the file began when its last line was read.
LEMMA ReadIsPrefix ==
    ASSUME SInv, Chained(data), during # {}
    PROVE  \E lines \in during : IsPrefix(data, lines)
<1>0. data \in Seq(Line) /\ during \subseteq Seq(Line)
  BY DEF SInv, Typed
<1>1. CASE data = <<>>
  <2>1. PICK lines \in during : TRUE
    OBVIOUS
  <2>2. lines \in Seq(Line)
    BY <1>0
  <2>3. IsPrefix(data, lines)
    <3>1. Len(data) = 0 /\ SubSeq(data, 1, Len(data)) = <<>> /\ SubSeq(lines, 1, Len(data)) = <<>>
      BY <1>0, <1>1, <2>2
    <3>2. Len(lines) \in Nat
      BY <2>2
    <3> QED BY <3>1, <3>2 DEF IsPrefix
  <2> QED BY <2>3
<1>2. CASE data # <<>>
  <2>1. PICK lines \in during : Len(data) <= Len(lines) /\ lines[Len(data)] = data[Len(data)]
    BY <1>2 DEF SInv, ReadsChains
  <2>2. lines \in Seq(Line) /\ Chained(lines)
    BY <1>0 DEF SInv, ReadsChains
  <2> QED BY <1>0, <1>2, <2>1, <2>2, LastLineMakesPrefix
<1> QED BY <1>1, <1>2

\* A view that is stored is of a chain that one of the chains of the file began with.
LEMMA StoreKeeps ==
    ASSUME SInv, NEW v \in ViewType, v.state # "ok" => v.p = <<>>, Chained(v.p),
           v.state = "ok" /\ during # {} => \E lines \in during : IsPrefix(v.p, lines),
           Store(v), changes' \in 0..MaxChanges,
           last' \subseteq Reading, \A l, m \in last' : l = m,
           \A l \in last' : Len(l.lines) <= MaxLines
    PROVE  SInv'
<1>1. /\ view' = v /\ reader' = NotOpen /\ data' = <<>> /\ during' = {}
      /\ now' = now /\ disk' = disk
  BY DEF Store
<1>2. believed'
  BY DEF Store
<1>3. NotOpen \in [pc : {"idle", "open", "blocked", "read"}, clock : 0..MaxTime,
                   linked : BOOLEAN, file : File]
  <2>1. 0 \in 0..MaxTime
    BY ConstantsAssumption
  <2>2. Odd("none") \in File
    BY FilesOfLines DEF IsFile
  <2> QED BY <2>1, <2>2 DEF NotOpen
<1>4. <<>> \in Seq(Line) /\ Len(<<>>) <= MaxLines + 1
  BY ConstantsAssumption
<1>5. Typed'
  BY <1>1, <1>3, <1>4 DEF SInv, Typed
<1>6. ReadsChains'
  BY <1>1 DEF ReadsChains
<1>7. ViewHolds'
  BY <1>1, <1>2 DEF ViewHolds, Chained
<1> QED BY <1>5, <1>6, <1>7 DEF SInv

\* A view of nothing, unreadable or broken.
LEMMA EmptyViews ==
    ASSUME NEW s \in {"unreadable", "broken"}
    PROVE  LET v == [state |-> s, p |-> <<>>] IN
             v \in ViewType /\ v.state # "ok" /\ v.p = <<>> /\ Chained(v.p)
<1>1. <<>> \in Seq(Line) /\ DOMAIN <<>> = {}
  OBVIOUS
<1> QED BY <1>1 DEF ViewType, Chained

LEMMA NoViewKeeps ==
    ASSUME SInv, Store(NoView), changes' \in 0..MaxChanges, last' = last
    PROVE  SInv'
<1>1. NoView \in ViewType /\ NoView.state # "ok" /\ NoView.p = <<>> /\ Chained(NoView.p)
  BY EmptyViews DEF NoView
<1>2. /\ last \subseteq Reading /\ (\A l, m \in last : l = m)
      /\ \A l \in last : Len(l.lines) <= MaxLines
  BY DEF SInv, Typed
<1> QED BY <1>1, <1>2, StoreKeeps

LEMMA RefreshKeeps ==
    ASSUME SInv, Refresh
    PROVE  SInv'
<1>1. CASE disk.kind = "plain"
  <2>0. now \in 0..MaxTime
    BY DEF SInv, Typed
  <2>1. /\ reader'.pc = "open"
        /\ reader' \in [pc : {"idle", "open", "blocked", "read"}, clock : 0..MaxTime,
                        linked : BOOLEAN, file : File]
    <3>1. Odd("none") \in File
      BY FilesOfLines DEF IsFile
    <3> QED BY <1>1, <2>0, <3>1 DEF Refresh, NotOpen
  <2>2. data = <<>> /\ during = {}
    BY DEF SInv, Typed, Refresh
  <2>3. UNCHANGED <<now, disk, changes, data, last, view, during, believed>>
    BY <1>1 DEF Refresh
  <2>4. Typed'
    BY <2>1, <2>2, <2>3 DEF SInv, Typed
  <2>5. ReadsChains' /\ ViewHolds'
    BY <2>2, <2>3 DEF SInv, ReadsChains, ViewHolds, Chained
  <2> QED BY <2>4, <2>5 DEF SInv
<1>2. CASE disk.kind # "plain"
  <2>1. Store(NoView) /\ last' = last /\ changes' \in 0..MaxChanges
    BY <1>2 DEF Refresh, SInv, Typed
  <2> QED BY <2>1, NoViewKeeps
<1> QED BY <1>1, <1>2

LEMMA OpenKeeps ==
    ASSUME SInv, Open
    PROVE  SInv'
<1>0. /\ reader \in [pc : {"idle", "open", "blocked", "read"}, clock : 0..MaxTime,
                     linked : BOOLEAN, file : File]
      /\ disk \in File /\ reader.pc = "open" /\ data = <<>> /\ during = {}
  BY DEF SInv, Typed, Open
<1>1. CASE disk.kind = "none"
  <2>1. Store(NoView) /\ last' = last /\ changes' \in 0..MaxChanges
    BY <1>1 DEF Open, SInv, Typed
  <2> QED BY <2>1, NoViewKeeps
<1>2. CASE disk.kind = "pipe"
  <2>1. /\ reader' = [reader EXCEPT !.pc = "blocked"]
        /\ UNCHANGED <<now, disk, changes, data, last, view, during, believed>>
    BY <1>2 DEF Open
  <2>2. /\ reader'.pc = "blocked"
        /\ reader' \in [pc : {"idle", "open", "blocked", "read"}, clock : 0..MaxTime,
                        linked : BOOLEAN, file : File]
    BY <1>0, <2>1
  <2>3. Typed'
    BY <1>0, <2>1, <2>2 DEF SInv, Typed
  <2>4. ReadsChains' /\ ViewHolds'
    BY <1>0, <2>1 DEF SInv, ReadsChains, ViewHolds, Chained
  <2> QED BY <2>3, <2>4 DEF SInv
<1>3. CASE disk.kind = "plain"
  <2>1. /\ reader' = [reader EXCEPT !.pc = "read", !.linked = TRUE]
        /\ during' = {lines \in {disk.lines} : Chained(lines)}
        /\ UNCHANGED <<now, disk, changes, data, last, view, believed>>
    BY <1>3 DEF Open
  <2>2. /\ reader'.pc = "read" /\ reader'.linked
        /\ reader' \in [pc : {"idle", "open", "blocked", "read"}, clock : 0..MaxTime,
                        linked : BOOLEAN, file : File]
    BY <1>0, <2>1
  <2>3. during' \subseteq Seq(Line)
    BY <1>0, <2>1 DEF File
  <2>4. Typed'
    BY <1>0, <2>1, <2>2, <2>3 DEF SInv, Typed
  <2>5. Opened' = disk
    BY <2>1, <2>2 DEF Opened
  <2>6. ReadsChains'
    BY <1>0, <2>1, <2>5 DEF ReadsChains
  <2>7. ViewHolds'
    BY <2>1 DEF SInv, ViewHolds, Chained
  <2> QED BY <2>4, <2>6, <2>7 DEF SInv
<1> QED BY <1>0, <1>1, <1>2, <1>3 DEF File

LEMMA PipeOpenedKeeps ==
    ASSUME SInv, PipeOpened
    PROVE  SInv'
<1>1. changes' \in 0..MaxChanges
  BY DEF PipeOpened, SInv, Typed
<1> QED BY <1>1, NoViewKeeps DEF PipeOpened

LEMMA FailsKeeps ==
    ASSUME SInv, Fails
    PROVE  SInv'
<1>1. changes' \in 0..MaxChanges
  BY ConstantsAssumption DEF Fails, SInv, Typed
<1> QED BY <1>1, NoViewKeeps DEF Fails

\* One more line, of a file that is one of the chains of the read.
LEMMA ReadKeeps ==
    ASSUME SInv, Read
    PROVE  SInv'
<1> DEFINE file == Opened
           n == Len(data) + 1
<1>0. /\ data \in Seq(Line) /\ Len(data) \in Nat /\ MaxLines \in Nat
      /\ disk \in File /\ reader.file \in File
  BY ConstantsAssumption DEF SInv, Typed
<1>1. file.lines \in Seq(Line) /\ Len(Whole(file)) <= Len(file.lines)
  <2>1. file \in File
    BY <1>0 DEF Opened
  <2> HIDE DEF file
  <2>2. file.lines \in Seq(Line)
    BY <2>1 DEF File
  <2>3. Len(Whole(file)) <= Len(file.lines)
    BY <2>2, SubSeqProperties DEF Whole, Front
  <2> QED BY <2>2, <2>3
<1>2. Len(data) < Len(Whole(file)) /\ Len(data) <= MaxLines
  <2>1. Len(Whole(file)) \in Nat
    <3> HIDE DEF file
    <3> QED BY <1>1, SubSeqProperties DEF Whole, Front
  <2>2. ~(Len(data) >= Len(Whole(file))) /\ ~(Len(data) > MaxLines)
    BY DEF Read, AtEnd
  <2> HIDE DEF file
  <2> QED BY <1>0, <2>1, <2>2
<1>3. /\ n \in 1..Len(file.lines) /\ file.lines[n] \in Line
      /\ data' = Append(data, file.lines[n])
      /\ UNCHANGED <<now, disk, changes, reader, last, view, during, believed>>
  <2>1. n \in 1..Len(file.lines)
    <3> HIDE DEF file
    <3> QED BY <1>0, <1>1, <1>2
  <2>2. data' = Append(data, file.lines[n])
        /\ UNCHANGED <<now, disk, changes, reader, last, view, during, believed>>
    BY DEF Read
  <2> HIDE DEF file
  <2> QED BY <1>1, <2>1, <2>2
<1>4. data' \in Seq(Line) /\ Len(data') = n /\ data'[n] = file.lines[n]
  <2> HIDE DEF file
  <2> QED BY <1>0, <1>3, AppendProperties
<1>5. Len(data') <= MaxLines + 1
  BY <1>0, <1>2, <1>4
<1>6. Typed'
  <2>1. reader'.pc = "read"
    BY <1>3 DEF Read
  <2> QED BY <1>3, <1>4, <1>5, <2>1 DEF SInv, Typed
<1>7. ReadsChains'
  <2>1. Opened' = file
    BY <1>3 DEF Opened
  <2>2. ASSUME during # {} PROVE file.lines \in during /\ n <= Len(file.lines)
    BY <1>3, <2>2 DEF SInv, ReadsChains
  <2> HIDE DEF file
  <2> QED BY <1>3, <1>4, <2>1, <2>2 DEF SInv, ReadsChains
<1>8. ViewHolds'
  BY <1>3 DEF SInv, ViewHolds, Chained
<1> QED BY <1>6, <1>7, <1>8 DEF SInv

LEMMA EndOfFileKeeps ==
    ASSUME SInv, EndOfFile
    PROVE  SInv'
<1> DEFINE torn == Opened.torn /\ Len(data) + 1 = Len(Opened.lines)
           sum  == [lines |-> data, torn |-> torn]
<1>0. data \in Seq(Line) /\ changes' \in 0..MaxChanges
  BY DEF SInv, Typed, EndOfFile
<1>1. CASE Len(data) + (IF torn THEN 1 ELSE 0) > MaxLines
  <2>1. Store([state |-> "broken", p |-> <<>>]) /\ last' = last
    BY <1>1 DEF EndOfFile
  <2>2. LET v == [state |-> "broken", p |-> <<>>] IN
          v \in ViewType /\ v.state # "ok" /\ v.p = <<>> /\ Chained(v.p)
    BY EmptyViews
  <2>3. /\ last \subseteq Reading /\ (\A l, m \in last : l = m)
        /\ \A l \in last : Len(l.lines) <= MaxLines
    BY DEF SInv, Typed
  <2> QED BY <1>0, <2>1, <2>2, <2>3, StoreKeeps
<1>2. CASE ~(Len(data) + (IF torn THEN 1 ELSE 0) > MaxLines)
  <2>1. last' = {sum} /\ Store(View(data, reader.clock))
    <3>1. last' = IF Unchanged(sum) THEN last ELSE {sum}
      BY <1>2 DEF EndOfFile
    <3>2. last' = {sum}
      BY <3>1 DEF Unchanged
    <3>3. \E l \in last' : Store(View(l.lines, reader.clock))
      BY <1>2 DEF EndOfFile
    <3>4. sum.lines = data
      OBVIOUS
    <3> HIDE DEF sum
    <3> QED BY <3>2, <3>3, <3>4
  <2>2. sum \in Reading /\ Len(sum.lines) <= MaxLines
    <3>1. torn \in BOOLEAN
      BY DEF SInv, Typed, File, Opened
    <3>2. Len(data) \in Nat /\ MaxLines \in Nat /\ Len(data) <= MaxLines
      BY <1>0, <1>2, ConstantsAssumption
    <3> HIDE DEF torn
    <3> QED BY <1>0, <3>1, <3>2 DEF Reading
  <2> DEFINE v == View(data, reader.clock)
  <2>3. /\ v \in ViewType /\ (v.state # "ok" => v.p = <<>>) /\ Chained(v.p)
        /\ v.state = "ok" => v.p = data /\ Chained(data)
    <3>1. CASE Sound(data, reader.clock)
      BY <1>0, <3>1 DEF View, ViewType, Sound
    <3>2. CASE ~Sound(data, reader.clock)
      BY <3>2, EmptyViews DEF View
    <3> QED BY <3>1, <3>2
  <2>4. v.state = "ok" /\ during # {} => \E lines \in during : IsPrefix(v.p, lines)
    <3> HIDE DEF v
    <3> QED BY <2>3, ReadIsPrefix
  <2> HIDE DEF v, sum
  <2>5. /\ last' \subseteq Reading /\ (\A l, m \in last' : l = m)
        /\ \A l \in last' : Len(l.lines) <= MaxLines
    BY <2>1, <2>2
  <2>6. Store(v)
    BY <2>1 DEF v
  <2> QED BY <1>0, <2>3, <2>4, <2>5, <2>6, StoreKeeps
<1> QED BY <1>1, <1>2

LEMMA SInvStep ==
    ASSUME SInv, [Next]_vars
    PROVE  SInv'
<1>1. CASE Tick
  <2>1. now' \in 0..MaxTime
    BY <1>1, ConstantsAssumption DEF Tick, SInv, Typed
  <2>2. UNCHANGED <<disk, changes, reader, data, last, view, during, believed>>
    BY <1>1 DEF Tick
  <2> QED BY <2>1, <2>2 DEF SInv, Typed, ReadsChains, ViewHolds, Chained, Opened
<1>2. CASE UNCHANGED vars
  BY <1>2 DEF vars, SInv, Typed, ReadsChains, ViewHolds, Chained, Opened
<1>3. ASSUME NEW n \in 0..MaxLines, Cut(n) PROVE SInv'
  BY <1>3, ConstantsAssumption, CutKeeps
<1> QED BY <1>1, <1>2, <1>3, AppendEventKeeps, EndLineKeeps, EditKeeps, RotateKeeps,
           SwapKeeps, RefreshKeeps, OpenKeeps, ReadKeeps, EndOfFileKeeps,
           PipeOpenedKeeps, FailsKeeps DEF Next, Poll

LEMMA InitSInv == Init => SInv
<1> SUFFICES ASSUME Init PROVE SInv
  OBVIOUS
<1>1. IsFile(disk)
  <2>1. ASSUME NEW b \in Burns
        PROVE  <<[event |-> [burn |-> b, ts |-> 0], prev |-> <<>>]>> \in Seq(Line)
    <3>1. [burn |-> b, ts |-> 0] \in Event
      BY ConstantsAssumption DEF Event, Times
    <3>2. [event |-> [burn |-> b, ts |-> 0], prev |-> <<>>] \in Line
      BY <3>1 DEF Line
    <3> QED BY <3>2
  <2> QED BY <2>1, FilesOfLines DEF Init
<1>2. Odd("none") \in File
  BY FilesOfLines DEF IsFile
<1>3. /\ 0 \in 0..MaxTime /\ 0 \in 0..MaxChanges /\ <<>> \in Seq(Line)
      /\ Len(<<>>) <= MaxLines + 1 /\ DOMAIN <<>> = {}
  BY ConstantsAssumption
<1>4. Typed
  BY <1>1, <1>2, <1>3 DEF Init, Typed, IsFile, NotOpen, NoView, ViewType
<1>5. ReadsChains
  BY DEF Init, ReadsChains
<1>6. ViewHolds
  BY <1>3 DEF Init, ViewHolds, NoView, Chained
<1> QED BY <1>4, <1>5, <1>6 DEF SInv

\* Every behaviour keeps what is known of the file, of the read and of the view.
THEOREM SloBurnInvariant == Spec => []SInv
<1>1. Init => SInv
  BY InitSInv
<1>2. SInv /\ [Next]_vars => SInv'
  BY SInvStep
<1> QED BY <1>1, <1>2, PTL DEF Spec

-----------------------------------------------------------------------------
(* Theorems *)

\* Every value stays of its type: no more than one line past the cap is held, the
\* digest is of one reading, and a file that is not believed leaves no lines.
THEOREM SloBurnTypeCorrect == Spec => []TypeOK
<1>1. SInv => TypeOK
  <2> SUFFICES ASSUME SInv PROVE TypeOK
    OBVIOUS
  <2>1. Cardinality(last) <= 1
    <3>1. CASE last = {}
      BY <3>1, FS_EmptySet
    <3>2. CASE last # {}
      <4>1. PICK l \in last : last = {l}
        BY <3>2 DEF SInv, Typed
      <4>2. Cardinality({l}) = 1
        BY FS_Singleton
      <4> QED BY <4>1, <4>2
    <3> QED BY <3>1, <3>2
  <2>2. \A l \in last : l.lines \in Seq(Line) /\ Len(l.lines) <= MaxLines /\ l.torn \in BOOLEAN
    BY DEF SInv, Typed, Reading
  <2> QED BY <2>1, <2>2 DEF SInv, Typed, TypeOK, File, ViewType
<1> QED BY <1>1, SloBurnInvariant, PTL

\* What a decision hears of the file was on the file: a view that is believed is how
\* the file began at one moment of the read, since a line carries the hash of all that
\* is before it, and the signal of an agent is the worst that stands there about it.
THEOREM SignalStands == Spec => []SignalStandsOnTheFile
<1>1. SInv => SignalStandsOnTheFile
  <2> SUFFICES ASSUME SInv PROVE SignalStandsOnTheFile
    OBVIOUS
  <2>1. Events(view.p)
    <3>1. view.p \in Seq(Line) /\ Chained(view.p)
      BY DEF SInv, Typed, ViewType, ViewHolds
    <3>2. ASSUME NEW j \in 1..Len(view.p) PROVE view.p[j].event \in Event
      <4>1. view.p[j] \in Line /\ j \in DOMAIN view.p
        BY <3>1
      <4>2. view.p[j].event # Junk
        BY <3>1, <4>1 DEF Chained
      <4> QED BY <4>1, <4>2 DEF Line
    <3> QED BY <3>1, <3>2 DEF Events
  <2>2. believed
    BY DEF SInv, ViewHolds
  <2> QED BY <2>1, <2>2, ForIsWorst, Zenon DEF SignalStandsOnTheFile
<1> QED BY <1>1, SloBurnInvariant, PTL
-----------------------------------------------------------------------------
(* A file that is left alone: what FollowsTheFile rests on besides fairness *)

\* What a look at the file gives by this clock.
Look(clock) == IF disk.kind # "plain" THEN NoView
               ELSE IF Len(disk.lines) > MaxLines THEN [state |-> "broken", p |-> <<>>]
               ELSE View(Whole(disk), clock)

\* A poll has seen nothing of the file but what it is: it was found plain, is still at
\* the path, and what was read of it is what it begins with.  Between polls this is so.
SeenAsItIs ==
    /\ reader.pc # "blocked"
    /\ reader.pc \in {"open", "read"} => disk.kind = "plain"
    /\ reader.pc = "read" =>
         /\ reader.linked
         /\ Len(data) <= Len(Whole(disk))
         /\ \A i \in 1..Len(data) : data[i] = Whole(disk)[i]

\* Nobody touches the file, and it can be read.  Time may pass.
LeftAlone == disk' = disk /\ changes' = changes

\* The end of a poll: it is one that was under way, or found no file to open.
Ends == \/ reader.pc # "idle" /\ reader'.pc = "idle"
        \/ Refresh /\ disk.kind # "plain"

\* How many steps a poll has left.
StepsLeft == CASE reader.pc = "idle" -> Len(Whole(disk)) + 2
               [] reader.pc = "open" -> Len(Whole(disk)) + 1
               [] OTHER              -> Len(Whole(disk)) - Len(data)

\* In a file left alone a poll goes on in what it is, it comes to its end, and what it
\* leaves is that file's view by the clock it read, whatever the view, the digest and
\* the file were before: that of a broken file or one past the cap as well as of a
\* mended one.
FollowsWhenLeftAlone ==
    LeftAlone /\ SeenAsItIs =>
        /\ SeenAsItIs' /\ StepsLeft \in Nat
        /\ Poll => Ends \/ StepsLeft' < StepsLeft
        /\ Ends => view' = Look(IF reader.pc = "idle" THEN now ELSE reader.clock)
        /\ ~Ends => view' = view

\* Half a line at the end is what a file has besides its whole lines.
LEMMA WholeLines ==
    ASSUME SInv
    PROVE  /\ Whole(disk) \in Seq(Line)
           /\ Len(disk.lines) \in Nat /\ Len(Whole(disk)) \in Nat
           /\ Len(disk.lines) = Len(Whole(disk)) + (IF disk.torn THEN 1 ELSE 0)
           /\ \A i \in 1..Len(Whole(disk)) : Whole(disk)[i] = disk.lines[i]
           /\ disk.torn \in BOOLEAN
<1>1. disk.lines \in Seq(Line) /\ disk.torn \in BOOLEAN /\ (disk.torn => disk.lines # <<>>)
  BY DEF SInv, Typed, File
<1>2. CASE ~disk.torn
  BY <1>1, <1>2 DEF Whole
<1>3. CASE disk.torn
  <2>1. Len(disk.lines) \in Nat /\ Len(disk.lines) - 1 \in 0..Len(disk.lines)
    BY <1>1, <1>3, EmptySeq
  <2>2. Whole(disk) = SubSeq(disk.lines, 1, Len(disk.lines) - 1)
    BY <1>3 DEF Whole, Front
  <2>3. /\ Whole(disk) \in Seq(Line) /\ Len(Whole(disk)) = Len(disk.lines) - 1
        /\ \A i \in 1..Len(Whole(disk)) : Whole(disk)[i] = disk.lines[i]
    BY <1>1, <2>1, <2>2
  <2> QED BY <1>1, <1>3, <2>1, <2>3
<1> QED BY <1>1, <1>2, <1>3

\* The end of a read of such a file stores its view.
LEMMA EndSeesTheFile ==
    ASSUME SInv, SeenAsItIs, EndOfFile
    PROVE  view' = Look(reader.clock) /\ reader' = NotOpen /\ data' = <<>>
<1> DEFINE torn == Opened.torn /\ Len(data) + 1 = Len(Opened.lines)
           sum  == [lines |-> data, torn |-> torn]
           t    == IF torn THEN 1 ELSE 0
<1>1. /\ reader.pc = "read" /\ disk.kind = "plain" /\ Opened = disk
      /\ Len(data) <= Len(Whole(disk))
      /\ \A i \in 1..Len(data) : data[i] = Whole(disk)[i]
      /\ Len(data) >= Len(Whole(disk)) \/ Len(data) > MaxLines
  BY DEF EndOfFile, SeenAsItIs, Opened, AtEnd
<1>2. /\ data \in Seq(Line) /\ Len(data) \in Nat /\ MaxLines \in Nat
  BY ConstantsAssumption DEF SInv, Typed
<1>3. torn <=> disk.torn /\ Len(data) + 1 = Len(disk.lines)
  BY <1>1
<1>4. CASE Len(data) + t > MaxLines
  <2>1. Store([state |-> "broken", p |-> <<>>])
    BY <1>4 DEF EndOfFile
  <2>2. Len(disk.lines) > MaxLines
    <3> HIDE DEF torn
    <3> QED BY <1>1, <1>2, <1>3, <1>4, WholeLines
  <2> QED BY <1>1, <2>1, <2>2 DEF Store, Look
<1>5. CASE ~(Len(data) + t > MaxLines)
  <2>1. last' = {sum} /\ Store(View(data, reader.clock))
    <3>1. last' = IF Unchanged(sum) THEN last ELSE {sum}
      BY <1>5 DEF EndOfFile
    <3>2. last' = {sum}
      BY <3>1 DEF Unchanged
    <3>3. \E l \in last' : Store(View(l.lines, reader.clock))
      BY <1>5 DEF EndOfFile
    <3>4. sum.lines = data
      OBVIOUS
    <3> HIDE DEF sum
    <3> QED BY <3>2, <3>3, <3>4
  <2>2. Len(data) = Len(Whole(disk)) /\ Len(disk.lines) <= MaxLines
    <3> HIDE DEF torn
    <3> QED BY <1>1, <1>2, <1>3, <1>5, WholeLines
  <2>3. data = Whole(disk)
    BY <1>1, <1>2, <2>2, WholeLines
  <2>4. ~(Len(disk.lines) > MaxLines)
    BY <1>2, <2>2, WholeLines
  <2> QED BY <1>1, <2>1, <2>3, <2>4 DEF Store, Look
<1> QED BY <1>4, <1>5

\* What writes the file, or fails, changes it or counts.
LEMMA OthersTouchIt ==
    ASSUME SInv, Next, LeftAlone
    PROVE  Poll \/ PipeOpened \/ Tick
<1>1. changes \in Int /\ disk.torn \in BOOLEAN
  BY ConstantsAssumption DEF SInv, Typed, File
<1>2. ASSUME Change \/ Fails PROVE FALSE
  BY <1>1, <1>2 DEF Change, Fails, LeftAlone
<1>3. ASSUME EndLine PROVE FALSE
  <2>1. disk.torn /\ disk' = [disk EXCEPT !.torn = FALSE]
    BY <1>3 DEF EndLine, Rewritten
  <2>2. disk \in File
    BY DEF SInv, Typed
  <2> QED BY <2>1, <2>2 DEF LeftAlone, File
<1> QED BY <1>2, <1>3 DEF Next, AppendEvent, Edit, Cut, Rotate, Swap

LEMMA FollowsStep ==
    ASSUME SInv, Next PROVE FollowsWhenLeftAlone
<1> SUFFICES ASSUME LeftAlone, SeenAsItIs
             PROVE  /\ SeenAsItIs' /\ StepsLeft \in Nat
                    /\ Poll => Ends \/ StepsLeft' < StepsLeft
                    /\ Ends => view' = Look(IF reader.pc = "idle" THEN now ELSE reader.clock)
                    /\ ~Ends => view' = view
  BY DEF FollowsWhenLeftAlone
<1>0. /\ reader.pc \in {"idle", "open", "read"} /\ disk' = disk
      /\ Whole(disk)' = Whole(disk) /\ data \in Seq(Line) /\ Len(data) \in Nat
      /\ Len(Whole(disk)) \in Nat
  BY WholeLines DEF SInv, Typed, SeenAsItIs, LeftAlone, Whole
<1>1. StepsLeft \in Nat
  BY <1>0 DEF StepsLeft, SeenAsItIs
<1>2. NotOpen.pc = "idle" /\ NotOpen.clock = 0
  BY DEF NotOpen
<1>3. CASE Refresh /\ disk.kind # "plain"
  <2>1. reader' = NotOpen /\ view' = NoView
    BY <1>3 DEF Refresh, Store
  <2>2. Ends /\ reader.pc = "idle"
    BY <1>3 DEF Ends, Refresh
  <2> QED BY <1>1, <1>2, <1>3, <2>1, <2>2 DEF SeenAsItIs, Look
<1>4. CASE Refresh /\ disk.kind = "plain"
  <2>1. /\ reader.pc = "idle" /\ reader'.pc = "open"
        /\ view' = view
    BY <1>4 DEF Refresh, NotOpen
  <2>2. ~Ends
    BY <1>4, <2>1 DEF Ends
  <2>3. StepsLeft' < StepsLeft
    BY <1>0, <2>1 DEF StepsLeft
  <2>4. SeenAsItIs'
    BY <1>0, <1>4, <2>1 DEF SeenAsItIs
  <2> QED BY <1>1, <2>1, <2>2, <2>3, <2>4
<1>5. CASE Open
  <2>1. /\ reader.pc = "open" /\ disk.kind = "plain"
        /\ reader' = [reader EXCEPT !.pc = "read", !.linked = TRUE]
        /\ data' = data /\ view' = view
    BY <1>5 DEF Open, SeenAsItIs
  <2>2. reader'.pc = "read" /\ reader'.linked
    BY <2>1 DEF SInv, Typed
  <2>3. data = <<>> /\ Len(data) = 0
    BY <2>1 DEF SInv, Typed
  <2>4. ~Ends
    BY <2>1, <2>2 DEF Ends, Refresh
  <2>5. StepsLeft' < StepsLeft
    BY <1>0, <2>1, <2>2, <2>3 DEF StepsLeft
  <2>6. SeenAsItIs'
    BY <1>0, <2>1, <2>2, <2>3 DEF SeenAsItIs
  <2> QED BY <1>1, <2>1, <2>4, <2>5, <2>6
<1>6. CASE Read
  <2>1. /\ reader.pc = "read" /\ reader' = reader /\ view' = view /\ Opened = disk
        /\ data' = Append(data, disk.lines[Len(data) + 1])
        /\ ~(Len(data) >= Len(Whole(disk)))
    BY <1>6 DEF Read, AtEnd, SeenAsItIs, Opened
  <2>2. Len(data) + 1 \in 1..Len(Whole(disk))
    BY <1>0, <2>1
  <2>3. /\ Len(data') = Len(data) + 1
        /\ data'[Len(data) + 1] = Whole(disk)[Len(data) + 1]
        /\ \A i \in 1..Len(data) : data'[i] = data[i]
    <3>1. Whole(disk)[Len(data) + 1] = disk.lines[Len(data) + 1]
      BY <2>2, WholeLines
    <3>2. disk.lines[Len(data) + 1] \in Line
      BY <2>2, <3>1, WholeLines
    <3> QED BY <1>0, <2>1, <3>1, <3>2, AppendProperties
  <2>4. SeenAsItIs'
    <3>1. \A i \in 1..Len(data') : data'[i] = Whole(disk)[i]
      <4>1. \A i \in 1..(Len(data) + 1) : i \in 1..Len(data) \/ i = Len(data) + 1
        BY <1>0
      <4> QED BY <2>1, <2>3, <4>1 DEF SeenAsItIs
    <3>2. Len(data') <= Len(Whole(disk))
      BY <2>2, <2>3
    <3> QED BY <1>0, <2>1, <3>1, <3>2 DEF SeenAsItIs
  <2>5. StepsLeft' < StepsLeft
    BY <1>0, <2>1, <2>2, <2>3 DEF StepsLeft
  <2>6. ~Ends
    BY <2>1 DEF Ends, Refresh
  <2> QED BY <1>1, <2>1, <2>4, <2>5, <2>6
<1>7. CASE EndOfFile
  <2>1. reader.pc = "read"
    BY <1>7 DEF EndOfFile
  <2>2. view' = Look(reader.clock) /\ reader'.pc = "idle"
    BY <1>2, <1>7, EndSeesTheFile
  <2>3. Ends /\ SeenAsItIs'
    BY <2>1, <2>2 DEF Ends, SeenAsItIs
  <2> QED BY <1>1, <2>1, <2>2, <2>3
<1>8. ASSUME PipeOpened PROVE FALSE
  BY <1>8 DEF PipeOpened, SeenAsItIs
<1>9. CASE Tick /\ ~Poll
  <2>1. UNCHANGED <<disk, reader, data, view>>
    BY <1>9 DEF Tick
  <2>2. ~Ends
    BY <1>9, <2>1 DEF Ends, Poll
  <2>3. SeenAsItIs'
    BY <1>0, <2>1 DEF SeenAsItIs
  <2> QED BY <1>1, <1>9, <2>1, <2>2, <2>3
<1> QED BY <1>3, <1>4, <1>5, <1>6, <1>7, <1>8, <1>9, OthersTouchIt DEF Poll

\* Refresh, load and parse on a file that nobody touches: every poll ends, after as
\* many steps as the file has lines and two, and leaves what the file says.
THEOREM PollsFollowTheFile == Spec => [][FollowsWhenLeftAlone]_vars
<1>1. SInv /\ [Next]_vars => [FollowsWhenLeftAlone]_vars
  BY FollowsStep
<1> QED BY <1>1, SloBurnInvariant, PTL DEF Spec
=============================================================================
