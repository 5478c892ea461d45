------------------------- MODULE MatchHistoryProofs -------------------------
(***************************************************************************)
(* Proofs about MatchHistory, for any number of matches, players, maps and *)
(* entries of the list.  The invariant ties four orders together: the      *)
(* matches by their starts, the lines that are left by their matches, the  *)
(* entries of the list by both, and what was stored or queued for storing, *)
(* which is behind all of them.  A step that leaves the list and the       *)
(* tables alone is an instance of Grows; what the handlers do to the list  *)
(* is StepSame, StepOpen, StepCreate or StepLose; what fills the tables is *)
(* StoreKeeps.                                                             *)
(***************************************************************************)
EXTENDS MatchHistory, TLAPS

Lines == [kind : {"start", "end"}, match : MatchNums, time : Times]
Matches == [map : Maps, start : Times, ended : BOOLEAN]
Entries ==
    [name : Maps \cup {Unknown, NoMap}, start : Times \cup {None}, end : Times \cup {None},
     guessed : BOOLEAN, scores : ScoreMaps, match : MatchNums, row : {0}]

\* What the sequences and sets hold; a game may have another row.
TypeInv ==
    /\ now \in Times /\ zeroed \in BOOLEAN /\ loop \in {"lines", "players"}
    /\ match \in Seq(Matches) /\ Len(match) <= MaxMatches
    /\ lines \in Seq(Lines)
    /\ history \in Seq(Entries) /\ Len(history) <= MaxLen
    /\ queue \subseteq [due : Nat, info : Entries]
    /\ \A g \in games :
          /\ g.name \in Maps \cup {Unknown, NoMap} /\ g.start \in Times \cup {None}
          /\ g.guessed \in BOOLEAN /\ g.scores \in ScoreMaps /\ g.match \in MatchNums
    /\ \A s \in stats : s.game \in games /\ s.player \in Players /\ s.combat \in 0 .. MaxScore
    /\ score \in ScoreMaps /\ fetched \in ScoreMaps /\ best \in [MatchNums -> ScoreMaps]
    /\ faults \in 0 .. MaxFaults /\ opened \subseteq MatchNums /\ lost \subseteq MatchNums

\* The matches start one after the other.
MatchInv ==
    /\ \A i, j \in DOMAIN match : i < j => match[i].start < match[j].start
    /\ \A i \in DOMAIN match : match[i].start <= now

Pending == {lines[i] : i \in DOMAIN lines}

Before(k, l) == k.time <= l.time /\ k.match <= l.match /\ (l.kind = "start" => k.match < l.match)

\* The lines that are left tell of them in that order.
LineInv ==
    /\ \A i, j \in DOMAIN lines : i < j => Before(lines[i], lines[j])
    /\ \A l \in Pending :
          /\ l.match <= Len(match) /\ match[l.match].start <= l.time /\ l.time <= now
          /\ l.kind = "start" => l.time = match[l.match].start

\* An entry is of a match that no line left is about, but for its end.
EntryInv(h) ==
    /\ h.match <= Len(match)
    /\ h.start # None => h.start = match[h.match].start
    /\ h.end # None => h.end <= now
    /\ \A l \in Pending :
          /\ h.match <= l.match /\ (l.kind = "start" => h.match < l.match)
          /\ h.end # None => h.end <= l.time
    /\ h.start # None /\ h.end # None /\ h.end < h.start =>
          \E m \in DOMAIN match :
              match[m].start > h.start /\ match[m].start < h.start + EndGuess
    /\ h.guessed \/ \E m \in DOMAIN match :
          /\ m >= h.match /\ match[m].map = h.name
          /\ match[m].start <= match[h.match].start + FreshStart

\* The entries follow each other; only an entry made for an end has no start,
\* and only the oldest can be one.
InOrder(list) ==
    /\ \A i \in DOMAIN list : EntryInv(list[i])
    /\ \A i, j \in DOMAIN list : i < j => list[j].match < list[i].match
    /\ \A i \in 2 .. Len(list) :
          list[i - 1].start # None /\ list[i].end # None /\ list[i].end <= list[i - 1].start

HistoryInv == InOrder(history)

\* What is not the newest entry, or was not when it was queued.
Settled ==
    {history[i] : i \in 2 .. Len(history)} \cup {j.info : j \in queue} \cup games

NoLaterLost(m) == \A n \in lost : n <= m

\* Such an entry does not change, unless a later one is lost.
Past(x) ==
    /\ x.match < Len(match) /\ \A l \in Pending : x.match < l.match
    /\ x.start # None => x.start = match[x.match].start

SettledInv ==
    /\ \A x \in Settled : Past(x)
    /\ \A x, y \in Settled : x.match = y.match /\ NoLaterLost(x.match) => SameGame(x, y)
    /\ \A i \in DOMAIN history, x \in Settled :
          i = 1 /\ x.match = history[i].match => ~NoLaterLost(x.match)
    /\ \A g \in games : g.start # None
    /\ \A g, h \in games : g.match = h.match /\ NoLaterLost(g.match) => g = h
    /\ \A s, t \in stats : s.game = t.game /\ s.player = t.player => s = t

\* Whose scores they are that the server tells, and that the loop has fetched.
Of(scores, m) == \A p \in Players : IF m = 0 THEN scores[p] = 0 ELSE scores[p] <= best[m][p]
JustStarted == match # <<>> /\ Current.start = now

ScoreInv ==
    /\ IF zeroed THEN Of(score, Len(match)) ELSE JustStarted /\ Of(score, Len(match) - 1)
    /\ \A m \in MatchNums : m > Len(match) => \A p \in Players : best[m][p] = 0
    /\ JustStarted => \A p \in Players : best[Len(match)][p] = 0
    /\ loop = "players" =>
          /\ Of(fetched, Len(match)) \/ (JustStarted /\ Of(fetched, Len(match) - 1))
          /\ \A l \in Pending : l.time = now

Entered == opened \ lost

\* No entry is left out between one in the list and the next.
OpenedInv ==
    /\ \A m \in opened, l \in Pending : m <= l.match /\ (l.kind = "start" => m < l.match)
    /\ \A m \in opened : m <= Len(match)
    /\ \A m \in Entered, i \in DOMAIN history :
          m <= history[i].match \/ \E j \in DOMAIN history : j < i /\ history[j].match = m

\* Match k is credited with score v of p: a match that has or will have no entry
\* of its own stands for it.
Backed(k, p, v) ==
    \E m \in MatchNums :
        /\ k <= m /\ m <= Len(match) /\ (k + 1) .. m \cap Entered = {}
        /\ v <= best[m][p]
        /\ \A l \in Pending : l.kind = "start" => m < l.match

BackedInv ==
    /\ \A i \in DOMAIN history, p \in Players :
          Backed(history[i].match, p, history[i].scores[p])
    /\ \A j \in queue, p \in Players : Backed(j.info.match, p, j.info.scores[p])
    /\ \A s \in stats : Backed(s.game.match, s.player, s.combat)

IInv ==
    /\ TypeInv /\ MatchInv /\ LineInv /\ HistoryInv /\ SettledInv
    /\ ScoreInv /\ OpenedInv /\ BackedInv

-----------------------------------------------------------------------------
(* What is known of the constants, and of the operators.                   *)

LEMMA Numbers ==
    /\ {EndGuess, FreshStart, FreshEnd, JobDelay, MaxMatches, MaxClock, MaxScore, MaxFaults,
        WarmUp, MaxLen} \subseteq Nat
    /\ WarmUp >= 1 /\ MaxLen >= 2
    /\ None = MaxClock + 1 /\ None \notin Times /\ Times \subseteq Nat
    /\ MatchNums \subseteq Nat /\ 0 \in 0 .. MaxScore /\ 0 \in Times
BY HistoryAssumption DEF None, Times, MatchNums

LEMMA Scores ==
    ASSUME NEW s \in ScoreMaps, NEW p \in Players
    PROVE  s[p] \in Nat /\ s[p] <= MaxScore
BY Numbers DEF ScoreMaps

\* A new entry is in front, and the oldest may be dropped.
LEMMA AddFacts ==
    ASSUME NEW list \in Seq(Entries), Len(list) <= MaxLen, NEW info \in Entries
    PROVE  LET new == add(info, list) IN
           /\ new \in Seq(Entries) /\ Len(new) <= MaxLen
           /\ 1 <= Len(new) /\ Len(new) <= Len(list) + 1 /\ (Len(list) > 0 => Len(new) > 1)
           /\ new[1] = info /\ \A i \in 2 .. Len(new) : new[i] = list[i - 1]
<1> DEFINE all == <<info>> \o list
           n == IF Len(list) < MaxLen THEN Len(list) + 1 ELSE MaxLen
<1>1. all \in Seq(Entries) /\ Len(all) = Len(list) + 1 /\ all[1] = info
    OBVIOUS
<1>2. \A i \in 2 .. Len(list) + 1 : all[i] = list[i - 1]
    OBVIOUS
<1>3. n \in 1 .. Len(list) + 1 /\ n <= MaxLen /\ (Len(list) > 0 => n > 1)
    BY Numbers
<1>4. add(info, list) = SubSeq(all, 1, n)
    BY DEF add
<1> HIDE DEF all, n
<1>5. /\ SubSeq(all, 1, n) \in Seq(Entries) /\ Len(SubSeq(all, 1, n)) = n
      /\ \A i \in 1 .. n : SubSeq(all, 1, n)[i] = all[i]
    BY <1>1, <1>3
<1> QED BY <1>1, <1>2, <1>3, <1>4, <1>5

\* The newest entry gets its end.
LEMMA EndFacts ==
    ASSUME NEW list \in Seq(Entries), list # <<>>, NEW name, NEW ts \in Times, NEW m
    PROVE  LET new == save_map_end(list, name, ts, m) IN
           /\ new \in Seq(Entries) /\ Len(new) = Len(list)
           /\ new[1] = [list[1] EXCEPT !.end = ts]
           /\ \A i \in 2 .. Len(list) : new[i] = list[i]
<1>1. save_map_end(list, name, ts, m) = [list EXCEPT ![1] = [list[1] EXCEPT !.end = ts]]
    BY DEF save_map_end
<1>2. 1 \in DOMAIN list /\ list[1] \in Entries
    OBVIOUS
<1>3. [list[1] EXCEPT !.end = ts] \in Entries
    BY <1>2 DEF Entries
<1> QED BY <1>1, <1>2, <1>3

\* The line that is handled is the first of those that are left.
LEMMA TakeFacts ==
    ASSUME TypeInv, LineInv, NEW kind, Take(kind)
    PROVE  /\ Head(lines) \in Lines /\ Head(lines) \in Pending /\ Head(lines).kind = kind
           /\ lines' \in Seq(Lines) /\ Pending' \subseteq Pending
           /\ \A l \in Pending' : Before(Head(lines), l)
           /\ \A i, j \in DOMAIN lines' : i < j => Before(lines'[i], lines'[j])
<1>1. lines \in Seq(Lines) /\ lines # <<>> /\ lines' = Tail(lines) /\ Head(lines).kind = kind
    BY DEF TypeInv, Take
<1>2. /\ Head(lines) = lines[1] /\ 1 \in DOMAIN lines /\ lines[1] \in Lines
      /\ lines' \in Seq(Lines) /\ DOMAIN lines' = 1 .. Len(lines) - 1 /\ Len(lines) \in Nat
      /\ DOMAIN lines = 1 .. Len(lines)
      /\ \A i \in 1 .. Len(lines) - 1 : lines'[i] = lines[i + 1]
    BY <1>1
<1>3. \A i \in DOMAIN lines' : i + 1 \in DOMAIN lines /\ 1 < i + 1 /\ lines'[i] = lines[i + 1]
    BY <1>2
<1>4. \A l \in Pending' : \E i \in DOMAIN lines : 1 < i /\ l = lines[i]
    BY <1>3 DEF Pending
<1>5. \A l \in Pending' : Before(Head(lines), l)
    BY <1>2, <1>4 DEF LineInv
<1>6. ASSUME NEW i \in DOMAIN lines', NEW j \in DOMAIN lines', i < j
      PROVE  Before(lines'[i], lines'[j])
  <2>1. i + 1 < j + 1
      BY <1>2, <1>6
  <2> QED BY <1>3, <2>1 DEF LineInv
<1>7. Pending' \subseteq Pending /\ Head(lines) \in Pending
    BY <1>2, <1>4 DEF Pending
<1> QED BY <1>1, <1>2, <1>5, <1>6, <1>7

\* A line that is new comes last.
LEMMA NewLineFacts ==
    ASSUME TypeInv, LineInv, NEW l \in Lines, lines' = Append(lines, l),
           \A k \in Pending : Before(k, l)
    PROVE  /\ lines' \in Seq(Lines) /\ Pending' = Pending \cup {l}
           /\ \A i, j \in DOMAIN lines' : i < j => Before(lines'[i], lines'[j])
<1>1. /\ lines \in Seq(Lines) /\ DOMAIN lines = 1 .. Len(lines) /\ Len(lines) \in Nat
      /\ lines' \in Seq(Lines) /\ DOMAIN lines' = 1 .. Len(lines) + 1
      /\ \A i \in 1 .. Len(lines) : lines'[i] = lines[i]
      /\ lines'[Len(lines) + 1] = l
    BY DEF TypeInv
<1>2. \A i \in DOMAIN lines' : i = Len(lines) + 1 \/ i \in DOMAIN lines
    BY <1>1
<1>3. \A i \in DOMAIN lines : lines[i] \in Pending /\ lines'[i] = lines[i] /\ i \in DOMAIN lines'
    BY <1>1 DEF Pending
<1>4. Pending' = Pending \cup {l}
  <2>1. Len(lines) + 1 \in DOMAIN lines'
      BY <1>1
  <2> QED BY <1>1, <1>2, <1>3, <2>1 DEF Pending
<1>5. ASSUME NEW i \in DOMAIN lines', NEW j \in DOMAIN lines', i < j
      PROVE  Before(lines'[i], lines'[j])
  <2>1. i \in DOMAIN lines
      BY <1>1, <1>5
  <2>2. CASE j \in DOMAIN lines
      BY <1>3, <1>5, <2>1, <2>2 DEF LineInv
  <2>3. CASE j = Len(lines) + 1
      BY <1>1, <1>3, <2>1, <2>3
  <2> QED BY <1>2, <2>2, <2>3
<1> QED BY <1>1, <1>4, <1>5

-----------------------------------------------------------------------------
(* Steps that leave the list and the tables alone.                         *)

\* Time passes, matches and lines are added.
Grows ==
    /\ Len(match) <= Len(match') /\ now' \in Nat /\ now <= now'
    /\ \A i \in DOMAIN match :
          /\ i \in DOMAIN match'
          /\ match'[i].start = match[i].start /\ match'[i].map = match[i].map
    /\ \A l \in Pending' :
          \/ l \in Pending
          \/ /\ l.time = now /\ Len(match) <= l.match
             /\ l.kind = "start" => Len(match) < l.match
    /\ Pending' \subseteq Lines
    /\ UNCHANGED <<history, queue, tables, ghosts>>

LEMMA LineFacts ==
    ASSUME NEW l \in Lines
    PROVE  l.match \in Nat /\ l.match >= 1 /\ l.match \in MatchNums /\ l.time \in Nat
BY Numbers DEF Lines, MatchNums, Times

LEMMA NowFacts ==
    ASSUME TypeInv
    PROVE  now \in Nat
BY Numbers DEF TypeInv

LEMMA MatchFacts ==
    ASSUME TypeInv
    PROVE  /\ DOMAIN match = 1 .. Len(match) /\ Len(match) \in Nat
           /\ \A i \in DOMAIN match : match[i] \in Matches /\ match[i].start \in Nat
<1>1. match \in Seq(Matches)
    BY DEF TypeInv
<1>2. \A x \in Matches : x.start \in Nat
    BY Numbers DEF Matches
<1>3. DOMAIN match = 1 .. Len(match) /\ Len(match) \in Nat /\ \A i \in DOMAIN match : match[i] \in Matches
    BY <1>1
<1> QED BY <1>2, <1>3

LEMMA EntryFacts ==
    ASSUME NEW h \in Entries
    PROVE  /\ h.match \in Nat /\ h.match >= 1 /\ h.match \in MatchNums /\ h.scores \in ScoreMaps
           /\ h.start # None => h.start \in Nat
           /\ h.end # None => h.end \in Nat
BY Numbers DEF Entries, MatchNums, Times

LEMMA EntryGrows ==
    ASSUME TypeInv, Grows, NEW h \in Entries, EntryInv(h)
    PROVE  EntryInv(h)'
<1>1. /\ Len(match) \in Nat /\ now \in Nat /\ now' >= now /\ DOMAIN match = 1 .. Len(match)
      /\ h.match \in DOMAIN match
  <2>1. h.match \in Nat /\ h.match >= 1 /\ h.match <= Len(match)
      BY EntryFacts DEF EntryInv
  <2>2. now' >= now
      BY NowFacts DEF Grows
  <2> QED BY <2>1, <2>2, MatchFacts, NowFacts
<1>2. h.match <= Len(match') /\ (h.start # None => h.start = match'[h.match].start)
    BY <1>1, MatchFacts, EntryFacts DEF Grows, EntryInv, TypeInv
<1>3. \A l \in Pending' :
          /\ h.match <= l.match /\ (l.kind = "start" => h.match < l.match)
          /\ h.end # None => h.end <= l.time
  <2> TAKE l \in Pending'
  <2>1. l.match \in Nat /\ l.time \in Nat
      BY LineFacts DEF Grows
  <2>2. h.match \in Nat /\ h.match <= Len(match) /\ (h.end # None => h.end \in Nat /\ h.end <= now)
      BY EntryFacts DEF EntryInv
  <2>3. CASE l \in Pending
      BY <2>3 DEF EntryInv
  <2>4. CASE l \notin Pending
    <3>1. l.time = now /\ Len(match) <= l.match /\ (l.kind = "start" => Len(match) < l.match)
        BY <2>4 DEF Grows
    <3> QED BY <1>1, <2>1, <2>2, <3>1
  <2> QED BY <2>3, <2>4
<1>4. h.start # None /\ h.end # None /\ h.end < h.start =>
          \E m \in DOMAIN match' :
              match'[m].start > h.start /\ match'[m].start < h.start + EndGuess
    BY DEF Grows, EntryInv
<1>5. h.guessed \/ \E m \in DOMAIN match' :
          /\ m >= h.match /\ match'[m].map = h.name
          /\ match'[m].start <= match'[h.match].start + FreshStart
    BY <1>1 DEF Grows, EntryInv
<1>6. h.end # None => h.end <= now'
  <2>1. h.end # None => h.end \in Nat /\ h.end <= now
      BY EntryFacts DEF EntryInv
  <2> QED BY <1>1, <2>1 DEF Grows
<1> QED BY <1>2, <1>3, <1>4, <1>5, <1>6 DEF EntryInv

LEMMA SettledType ==
    ASSUME TypeInv, NEW x \in Settled
    PROVE  /\ x.match \in Nat /\ x.match >= 1 /\ x.match \in MatchNums
           /\ x.start # None => x.start \in Nat
<1>1. CASE x \in {history[i] : i \in 2 .. Len(history)}
  <2>1. x \in Entries
      BY <1>1 DEF TypeInv
  <2> QED BY <2>1, EntryFacts
<1>2. CASE x \in {j.info : j \in queue}
  <2>1. x \in Entries
      BY <1>2 DEF TypeInv
  <2> QED BY <2>1, EntryFacts
<1>3. CASE x \in games
  <2>1. x.start \in Times \cup {None} /\ x.match \in MatchNums
      BY <1>3 DEF TypeInv
  <2>2. x.start # None => x.start \in Nat
      BY <2>1, Numbers
  <2>3. x.match \in Nat /\ x.match >= 1 /\ x.match \in MatchNums
      BY <2>1, Numbers DEF MatchNums
  <2> QED BY <2>2, <2>3
<1> QED BY <1>1, <1>2, <1>3 DEF Settled

LEMMA PastGrows ==
    ASSUME TypeInv, Grows, NEW x \in Settled, Past(x)
    PROVE  Past(x)'
<1>1. /\ Len(match) \in Nat /\ x.match \in DOMAIN match /\ x.match \in Nat
    BY MatchFacts, SettledType DEF Past
<1>2. x.match < Len(match') /\ (x.start # None => x.start = match'[x.match].start)
    BY <1>1, MatchFacts DEF Grows, Past, TypeInv
<1>3. \A l \in Pending' : x.match < l.match
  <2> TAKE l \in Pending'
  <2>1. l.match \in Nat
      BY LineFacts DEF Grows
  <2>2. CASE l \in Pending
      BY <2>2 DEF Past
  <2>3. CASE l \notin Pending
    <3>1. Len(match) <= l.match
        BY <2>3 DEF Grows
    <3> QED BY <1>1, <2>1, <3>1 DEF Past
  <2> QED BY <2>2, <2>3
<1> QED BY <1>2, <1>3 DEF Past

LEMMA GrowsKeeps ==
    ASSUME TypeInv, HistoryInv, SettledInv, OpenedInv, Grows
    PROVE  HistoryInv' /\ SettledInv' /\ OpenedInv'
<1>1. UNCHANGED <<history, queue, games, stats, opened, lost>>
    BY DEF Grows, tables, ghosts
<1>2. HistoryInv'
  <2>1. \A i \in DOMAIN history : history[i] \in Entries /\ EntryInv(history[i])
      BY DEF TypeInv, HistoryInv, InOrder
  <2>2. \A i \in DOMAIN history : EntryInv(history[i])'
    <3> TAKE i \in DOMAIN history
    <3> DEFINE h == history[i]
    <3>1. h \in Entries /\ EntryInv(h)
        BY <2>1
    <3> QED BY <1>1, <3>1, EntryGrows
  <2> QED BY <1>1, <2>2 DEF HistoryInv, InOrder
<1>3. SettledInv'
  <2>1. Settled' = Settled
      BY <1>1 DEF Settled
  <2>2. \A x \in Settled : Past(x)'
      BY PastGrows DEF SettledInv
  <2>3. \A m : NoLaterLost(m)' <=> NoLaterLost(m)
      BY <1>1 DEF NoLaterLost
  <2> QED BY <1>1, <2>1, <2>2, <2>3 DEF SettledInv, SameGame, NoLaterLost
<1>4. OpenedInv'
  <2>1. \A m \in opened : m \in Nat /\ m <= Len(match)
      BY Numbers DEF TypeInv, OpenedInv
  <2>2. Len(match) \in Nat /\ Len(match') \in Nat /\ Len(match) <= Len(match')
      BY MatchFacts DEF Grows, TypeInv
  <2>3. \A m \in opened, l \in Pending' : m <= l.match /\ (l.kind = "start" => m < l.match)
    <3> TAKE m \in opened, l \in Pending'
    <3>1. l.match \in Nat
        BY LineFacts DEF Grows
    <3>2. CASE l \in Pending
        BY <3>2 DEF OpenedInv
    <3>3. CASE l \notin Pending
      <4>1. Len(match) <= l.match /\ (l.kind = "start" => Len(match) < l.match)
          BY <3>3 DEF Grows
      <4> QED BY <2>1, <2>2, <3>1, <4>1
    <3> QED BY <3>2, <3>3
  <2>4. \A m \in opened : m <= Len(match')
      BY <2>1, <2>2 DEF OpenedInv
  <2> QED BY <1>1, <2>3, <2>4 DEF OpenedInv, Entered
<1> QED BY <1>2, <1>3, <1>4

LEMMA BackedGrows ==
    ASSUME TypeInv, Grows, best' \in [MatchNums -> ScoreMaps], NEW p \in Players,
           \A m \in MatchNums : best[m][p] <= best'[m][p],
           NEW k, NEW v \in Nat, Backed(k, p, v)
    PROVE  Backed(k, p, v)'
<1>1. PICK m \in MatchNums :
          /\ k <= m /\ m <= Len(match) /\ (k + 1) .. m \cap Entered = {}
          /\ v <= best[m][p]
          /\ \A l \in Pending : l.kind = "start" => m < l.match
    BY DEF Backed
<1>2. m \in Nat /\ Len(match) \in Nat /\ Len(match') >= Len(match) /\ Len(match') \in Nat
    BY MatchFacts, Numbers DEF Grows
<1>3. best[m] \in ScoreMaps /\ best'[m] \in ScoreMaps
    BY DEF TypeInv
<1>4. v <= best'[m][p]
    BY <1>1, <1>3, Scores
<1>5. \A l \in Pending' : l.kind = "start" => m < l.match
  <2> TAKE l \in Pending'
  <2>1. l.match \in Nat
      BY LineFacts DEF Grows
  <2> QED BY <1>1, <1>2, <2>1 DEF Grows
<1>6. Entered' = Entered
    BY DEF Grows, ghosts, Entered
<1>7. m <= Len(match')
    BY <1>1, <1>2
<1> QED BY <1>1, <1>4, <1>5, <1>6, <1>7 DEF Backed

LEMMA RowFacts ==
    ASSUME TypeInv
    PROVE  /\ \A i \in DOMAIN history : history[i] \in Entries
           /\ \A j \in queue : j.info \in Entries
           /\ \A s \in stats : s.game \in games /\ s.player \in Players /\ s.combat \in Nat
<1>1. history \in Seq(Entries) /\ queue \subseteq [due : Nat, info : Entries]
    BY DEF TypeInv
<1>2. \A s \in stats : s.game \in games /\ s.player \in Players /\ s.combat \in 0 .. MaxScore
    BY DEF TypeInv
<1>3. \A j \in queue : j.info \in Entries
    BY <1>1
<1>4. \A i \in DOMAIN history : history[i] \in Entries
    BY <1>1
<1> QED BY <1>2, <1>3, <1>4, Numbers

LEMMA GrowsKeepsBacked ==
    ASSUME TypeInv, BackedInv, Grows, best' \in [MatchNums -> ScoreMaps],
           \A m \in MatchNums, p \in Players : best[m][p] <= best'[m][p]
    PROVE  BackedInv'
<1>1. UNCHANGED <<history, queue, games, stats, opened, lost>>
    BY DEF Grows, tables, ghosts
<1>2. ASSUME NEW i \in DOMAIN history, NEW p \in Players
      PROVE  Backed(history[i].match, p, history[i].scores[p])'
  <2> DEFINE k == history[i].match
             v == history[i].scores[p]
  <2>1. Backed(k, p, v)
      BY DEF BackedInv
  <2>2. v \in Nat
      BY RowFacts, EntryFacts, Scores
  <2>3. UNCHANGED k /\ UNCHANGED v
      BY <1>1
  <2> HIDE DEF k, v
  <2>4. ASSUME NEW a, NEW b \in Nat, Backed(a, p, b) PROVE Backed(a, p, b)'
      BY <2>4, BackedGrows
  <2>5. ASSUME NEW a, NEW b, a = k, b = v PROVE Backed(a, p, b)'
      BY <2>1, <2>2, <2>4, <2>5 DEF Backed
  <2> QED BY <2>3, <2>5 DEF k, v, Backed
<1>3. ASSUME NEW j \in queue, NEW p \in Players
      PROVE  Backed(j.info.match, p, j.info.scores[p])'
  <2>1. j.info.scores[p] \in Nat /\ Backed(j.info.match, p, j.info.scores[p])
      BY RowFacts, EntryFacts, Scores DEF BackedInv
  <2> QED BY <2>1, BackedGrows
<1>4. ASSUME NEW s \in stats
      PROVE  Backed(s.game.match, s.player, s.combat)'
  <2>1. s.player \in Players /\ s.combat \in Nat /\ Backed(s.game.match, s.player, s.combat)
      BY RowFacts DEF BackedInv
  <2> QED BY <2>1, BackedGrows
<1> QED BY <1>1, <1>2, <1>3, <1>4 DEF BackedInv

LEMMA GrowsKeepsAll ==
    ASSUME IInv, Grows, TypeInv', MatchInv', LineInv', ScoreInv',
           \A m \in MatchNums, p \in Players : best[m][p] <= best'[m][p]
    PROVE  IInv'
<1>1. HistoryInv' /\ SettledInv' /\ OpenedInv'
    BY GrowsKeeps DEF IInv
<1>2. BackedInv'
    BY GrowsKeepsBacked DEF IInv, TypeInv
<1> QED BY <1>1, <1>2 DEF IInv

LEMMA BestFacts ==
    ASSUME TypeInv
    PROVE  \A m \in MatchNums, p \in Players : best[m][p] \in Nat /\ best[m][p] <= best[m][p]
<1>1. \A m \in MatchNums : best[m] \in ScoreMaps
    BY DEF TypeInv
<1> QED BY <1>1, Scores

LEMMA PendingFacts ==
    ASSUME TypeInv
    PROVE  Pending \subseteq Lines
BY DEF TypeInv, Pending

LEMMA TickKeeps ==
    ASSUME IInv, Tick
    PROVE  IInv'
<1>1. /\ TypeInv /\ MatchInv /\ LineInv /\ ScoreInv
      /\ now < MaxClock /\ loop = "lines" /\ now' = now + 1
      /\ JustStarted => zeroed
      /\ UNCHANGED <<match, zeroed, score, lines, best, history, iteration, queue, tables,
                     faults, ghosts>>
    BY DEF IInv, Tick, JustStarted
<1>2. now \in Nat /\ now' \in Times
    BY <1>1, Numbers, NowFacts DEF Times
<1>3. TypeInv'
    BY <1>1, <1>2 DEF TypeInv, iteration, tables, ghosts
<1>4. MatchInv'
    BY <1>1, <1>2, MatchFacts DEF MatchInv
<1>5. LineInv'
  <2>1. Pending' = Pending /\ \A l \in Pending : l.time \in Nat
      BY <1>1, PendingFacts, LineFacts DEF Pending
  <2> QED BY <1>1, <1>2, <2>1 DEF LineInv, Before
<1>6. zeroed /\ ~JustStarted'
  <2>1. zeroed
      BY <1>1 DEF ScoreInv
  <2>2. match # <<>> => Len(match) \in DOMAIN match
      BY <1>1, MatchFacts DEF TypeInv
  <2>3. match # <<>> => Current.start \in Nat /\ Current.start <= now
      BY <1>1, <2>2, MatchFacts DEF MatchInv, Current
  <2> QED BY <1>1, <1>2, <2>1, <2>3 DEF JustStarted, Current
<1>7. ScoreInv'
    BY <1>1, <1>6 DEF ScoreInv, Of, iteration
<1>8. Grows
    BY <1>1, <1>2, MatchFacts, PendingFacts DEF Grows, Pending
<1> QED BY <1>1, <1>3, <1>4, <1>5, <1>7, <1>8, BestFacts, GrowsKeepsAll

LEMMA CurrentFacts ==
    ASSUME TypeInv, MatchInv, match # <<>>
    PROVE  /\ Len(match) \in DOMAIN match /\ Len(match) \in MatchNums /\ Len(match) >= 1
           /\ Current \in Matches /\ Current.start \in Nat /\ Current.start <= now
<1>1. Len(match) \in DOMAIN match /\ Len(match) >= 1 /\ Len(match) \in Nat /\ Len(match) <= MaxMatches
    BY MatchFacts DEF TypeInv
<1>2. Len(match) \in MatchNums
    BY <1>1, Numbers DEF MatchNums
<1> QED BY <1>1, <1>2, MatchFacts DEF MatchInv, Current

\* A line that is written now comes after those that are left.
LEMMA NowIsLast ==
    ASSUME TypeInv, LineInv, NEW l \in Lines, l.time = now, l.match >= Len(match),
           l.kind = "start" => l.match > Len(match), NEW k \in Pending
    PROVE  Before(k, l)
<1>1. k \in Lines /\ k.match <= Len(match) /\ k.time <= now
    BY PendingFacts DEF LineInv
<1> QED BY <1>1, LineFacts, MatchFacts, NowFacts DEF Before

LEMMA StartMatchKeeps ==
    ASSUME IInv, NEW map \in Rotation, StartMatch(map)
    PROVE  IInv'
<1> DEFINE n == Len(match) + 1
           new == [map |-> map, start |-> now, ended |-> FALSE]
           line == [kind |-> "start", match |-> n, time |-> now]
<1>1. /\ TypeInv /\ MatchInv /\ LineInv /\ ScoreInv
      /\ Len(match) < MaxMatches /\ (match # <<>> => now > Current.start)
      /\ match' = Append(match, new) /\ lines' = Append(lines, line) /\ zeroed' = FALSE
      /\ UNCHANGED <<now, score, best, history, iteration, queue, tables, faults, ghosts>>
    BY DEF IInv, StartMatch
<1>2. /\ Len(match) \in Nat /\ now \in Nat /\ now \in Times /\ n \in MatchNums
      /\ n \in Nat /\ n <= MaxMatches /\ map \in Maps
  <2>1. Len(match) \in Nat /\ now \in Nat /\ now \in Times
      BY <1>1, MatchFacts, NowFacts DEF TypeInv
  <2>2. MaxMatches \in Nat /\ n \in Nat /\ n >= 1 /\ n <= MaxMatches
    <3>1. Len(match) < MaxMatches /\ MaxMatches \in Nat
        BY <1>1, Numbers
    <3> QED BY <2>1, <3>1
  <2>3. n \in MatchNums
      BY <2>2 DEF MatchNums
  <2>4. map \in Maps
      BY <1>1, HistoryAssumption
  <2> QED BY <2>1, <2>2, <2>3, <2>4
<1>3. new \in Matches /\ line \in Lines
    BY <1>2 DEF Matches, Lines
<1>4. line.kind = "start" /\ line.match = n /\ line.time = now /\ new.start = now
    OBVIOUS
<1> HIDE DEF new, line
<1>5. /\ match' \in Seq(Matches) /\ Len(match') = n /\ DOMAIN match' = 1 .. n
      /\ \A i \in DOMAIN match : i \in DOMAIN match' /\ match'[i] = match[i]
      /\ match'[n] = new /\ \A i \in DOMAIN match' : i = n \/ i \in DOMAIN match
  <2>1. match \in Seq(Matches)
      BY <1>1 DEF TypeInv
  <2> QED BY <1>1, <1>3, <2>1
<1>6. /\ lines' \in Seq(Lines) /\ Pending' = Pending \cup {line}
      /\ \A i, j \in DOMAIN lines' : i < j => Before(lines'[i], lines'[j])
  <2>1. \A k \in Pending : Before(k, line)
      BY <1>1, <1>2, <1>3, <1>4, NowIsLast
  <2> QED BY <1>1, <1>3, <2>1, NewLineFacts
<1>7. TypeInv'
    BY <1>1, <1>2, <1>5, <1>6 DEF TypeInv, iteration, tables, ghosts
<1>8. MatchInv'
  <2>1. \A i \in DOMAIN match : match[i].start <= now /\ match[i].start < now
    <3> TAKE i \in DOMAIN match
    <3>1. match # <<>> /\ i <= Len(match) /\ i \in Nat
        BY <1>1, MatchFacts
    <3>2. Current.start < now /\ Current.start \in Nat /\ match[i].start \in Nat
        BY <1>1, <3>1, CurrentFacts, MatchFacts
    <3>3. match[i].start <= Current.start
        BY <1>1, <3>1, <3>2, CurrentFacts DEF MatchInv, Current
    <3> QED BY <1>2, <3>2, <3>3
  <2> QED BY <1>1, <1>2, <1>4, <1>5, <2>1, MatchFacts DEF MatchInv
<1>9. LineInv'
  <2>1. \A l \in Pending' :
          /\ l.match <= Len(match') /\ match'[l.match].start <= l.time /\ l.time <= now'
          /\ l.kind = "start" => l.time = match'[l.match].start
    <3>1. ASSUME NEW l \in Pending
          PROVE  /\ l.match <= Len(match') /\ match'[l.match].start <= l.time /\ l.time <= now'
                 /\ l.kind = "start" => l.time = match'[l.match].start
      <4>1. l.match \in DOMAIN match
          BY <1>1, PendingFacts, LineFacts, MatchFacts DEF LineInv
      <4>2. match'[l.match] = match[l.match]
          BY <1>5, <4>1
      <4>3. l.match \in Nat
          BY <1>1, PendingFacts, LineFacts
      <4> QED BY <1>1, <1>2, <1>5, <4>2, <4>3 DEF LineInv
    <3>2. /\ line.match <= Len(match') /\ match'[line.match].start <= line.time
          /\ line.time <= now' /\ line.time = match'[line.match].start
        BY <1>1, <1>2, <1>4, <1>5
    <3> QED BY <1>6, <3>1, <3>2
  <2> QED BY <1>6, <2>1 DEF LineInv
<1>10. ~JustStarted
    BY <1>1, <1>2, CurrentFacts DEF JustStarted
<1>11. JustStarted'
    BY <1>1, <1>2, <1>4, <1>5 DEF JustStarted, Current
<1>12. Len(match') - 1 = Len(match)
    BY <1>2, <1>5
<1>13. ScoreInv'
  <2>1. zeroed /\ Of(score, Len(match))
      BY <1>1, <1>10 DEF ScoreInv
  <2>2. ~zeroed' /\ JustStarted' /\ Of(score, Len(match) - 1)'
      BY <1>1, <1>11, <1>12, <2>1 DEF Of
  <2>3. \A m \in MatchNums : m > Len(match) => \A p \in Players : best'[m][p] = 0
      BY <1>1 DEF ScoreInv
  <2>4. \A m \in MatchNums : m > Len(match') => \A p \in Players : best'[m][p] = 0
    <3> TAKE m \in MatchNums
    <3>1. m \in Nat /\ (m > n => m > Len(match))
        BY <1>2, Numbers
    <3> QED BY <1>5, <2>3, <3>1
  <2>5. \A p \in Players : best'[Len(match')][p] = 0
      BY <1>2, <1>5, <2>3
  <2>6. ASSUME loop' = "players"
        PROVE  JustStarted' /\ Of(fetched, Len(match) - 1)' /\ \A l \in Pending' : l.time = now'
    <3>1. loop = "players"
        BY <1>1, <2>6 DEF iteration
    <3>2. Of(fetched, Len(match)) /\ \A l \in Pending : l.time = now
        BY <1>1, <1>10, <3>1 DEF ScoreInv
    <3>3. fetched' = fetched
        BY <1>1 DEF iteration
    <3> QED BY <1>1, <1>4, <1>6, <1>11, <1>12, <3>2, <3>3 DEF Of
  <2> QED BY <2>2, <2>4, <2>5, <2>6 DEF ScoreInv
<1>14. Grows
    BY <1>1, <1>2, <1>3, <1>4, <1>5, <1>6, PendingFacts DEF Grows
<1> QED BY <1>1, <1>7, <1>8, <1>9, <1>13, <1>14, BestFacts, GrowsKeepsAll

LEMMA EndMatchKeeps ==
    ASSUME IInv, EndMatch
    PROVE  IInv'
<1> DEFINE n == Len(match)
           line == [kind |-> "end", match |-> n, time |-> now]
<1>1. /\ TypeInv /\ MatchInv /\ LineInv /\ ScoreInv /\ match # <<>>
      /\ match' = [match EXCEPT ![n].ended = TRUE] /\ lines' = Append(lines, line)
      /\ UNCHANGED <<now, zeroed, score, best, history, iteration, queue, tables, faults, ghosts>>
    BY DEF IInv, EndMatch, Playing
<1>2. n \in Nat /\ now \in Nat /\ now \in Times /\ n \in MatchNums /\ n \in DOMAIN match
    BY <1>1, MatchFacts, NowFacts, CurrentFacts DEF TypeInv
<1>3. line \in Lines /\ line.kind = "end" /\ line.match = n /\ line.time = now
    BY <1>2 DEF Lines
<1> HIDE DEF line
<1>4. /\ match' \in Seq(Matches) /\ Len(match') = n /\ DOMAIN match' = DOMAIN match
      /\ \A i \in DOMAIN match : match'[i].start = match[i].start /\ match'[i].map = match[i].map
  <2>1. match \in Seq(Matches) /\ match[n] \in Matches
      BY <1>1, <1>2, MatchFacts DEF TypeInv
  <2>2. match' = [match EXCEPT ![n] = [match[n] EXCEPT !.ended = TRUE]]
      BY <1>1
  <2>3. /\ [match[n] EXCEPT !.ended = TRUE] \in Matches
        /\ [match[n] EXCEPT !.ended = TRUE].start = match[n].start
        /\ [match[n] EXCEPT !.ended = TRUE].map = match[n].map
      BY <2>1 DEF Matches
  <2>4. match' \in Seq(Matches) /\ Len(match') = n /\ DOMAIN match' = DOMAIN match
      BY <1>2, <2>1, <2>2, <2>3
  <2>5. \A i \in DOMAIN match : match'[i] = IF i = n THEN [match[n] EXCEPT !.ended = TRUE] ELSE match[i]
      BY <1>2, <2>1, <2>2
  <2> QED BY <2>3, <2>4, <2>5
<1>5. /\ lines' \in Seq(Lines) /\ Pending' = Pending \cup {line}
      /\ \A i, j \in DOMAIN lines' : i < j => Before(lines'[i], lines'[j])
  <2>1. \A k \in Pending : Before(k, line)
      BY <1>1, <1>2, <1>3, NowIsLast
  <2> QED BY <1>1, <1>3, <2>1, NewLineFacts
<1>6. TypeInv'
    BY <1>1, <1>4, <1>5 DEF TypeInv, iteration, tables, ghosts
<1>7. MatchInv'
    BY <1>1, <1>4 DEF MatchInv
<1>8. LineInv'
  <2>1. \A l \in Pending : l.match \in DOMAIN match
      BY <1>1, PendingFacts, LineFacts, MatchFacts DEF LineInv
  <2>2. match[n].start <= now
      BY <1>1, <1>2 DEF MatchInv
  <2>3. \A l \in Pending' :
          /\ l.match <= Len(match') /\ match'[l.match].start <= l.time /\ l.time <= now'
          /\ l.kind = "start" => l.time = match'[l.match].start
      BY <1>1, <1>2, <1>3, <1>4, <1>5, <2>1, <2>2 DEF LineInv
  <2> QED BY <1>5, <2>3 DEF LineInv
<1>9. JustStarted' <=> JustStarted
  <2>1. match' # <<>>
      BY <1>2, <1>4, <1>1, CurrentFacts
  <2> QED BY <2>1, <1>1, <1>2, <1>4 DEF JustStarted, Current
<1>10. ScoreInv'
    BY <1>1, <1>3, <1>4, <1>5, <1>9 DEF ScoreInv, Of, iteration
<1>11. Grows
    BY <1>1, <1>2, <1>3, <1>4, <1>5, PendingFacts DEF Grows
<1> QED BY <1>1, <1>6, <1>7, <1>8, <1>10, <1>11, BestFacts, GrowsKeepsAll

\* Only scores change.
LEMMA ScoresOnlyGrow ==
    ASSUME IInv, UNCHANGED <<now, match, lines, history, queue, tables, faults, ghosts>>,
           zeroed' \in BOOLEAN, loop' \in {"lines", "players"},
           score' \in ScoreMaps, fetched' \in ScoreMaps, best' \in [MatchNums -> ScoreMaps],
           \A m \in MatchNums, p \in Players : best[m][p] <= best'[m][p],
           ScoreInv'
    PROVE  IInv'
<1>1. /\ TypeInv /\ MatchInv /\ LineInv
      /\ UNCHANGED <<now, match, lines, history, queue, games, stats, faults, opened, lost>>
    BY DEF IInv, tables, ghosts
<1>2. TypeInv'
    BY <1>1 DEF TypeInv
<1>3. MatchInv'
    BY <1>1 DEF MatchInv
<1>4. Pending' = Pending
    BY <1>1 DEF Pending
<1>5. LineInv'
    BY <1>1, <1>4 DEF LineInv, Before
<1>6. Grows
    BY <1>1, <1>4, MatchFacts, NowFacts, PendingFacts DEF Grows, tables, ghosts
<1> QED BY <1>2, <1>3, <1>5, <1>6, GrowsKeepsAll

LEMMA ZeroFacts ==
    /\ [p \in Players |-> 0] \in ScoreMaps
    /\ \A p \in Players : [q \in Players |-> 0][p] = 0
BY Numbers DEF ScoreMaps

LEMMA ZeroKeeps ==
    ASSUME IInv, Zero
    PROVE  IInv'
<1>1. /\ TypeInv /\ MatchInv /\ ScoreInv /\ zeroed' = TRUE /\ score' = [p \in Players |-> 0]
      /\ UNCHANGED <<now, match, lines, best, history, iteration, queue, tables, faults, ghosts>>
    BY DEF IInv, Zero
<1>2. score' \in ScoreMaps /\ \A p \in Players : score'[p] = 0
    BY <1>1, ZeroFacts
<1>3. Of(score, Len(match))'
  <2>1. Len(match) # 0 => Len(match) \in MatchNums
    <3>1. Len(match) # 0 => match # <<>>
        BY <1>1 DEF TypeInv
    <3> QED BY <1>1, <3>1, CurrentFacts
  <2> QED BY <1>1, <1>2, <2>1, BestFacts DEF Of
<1>4. (JustStarted' <=> JustStarted) /\ Pending' = Pending
    BY <1>1 DEF JustStarted, Current, Pending
<1>5. ScoreInv'
    BY <1>1, <1>3, <1>4 DEF ScoreInv, Of, iteration
<1> QED BY <1>1, <1>2, <1>5, BestFacts, ScoresOnlyGrow DEF TypeInv, iteration

LEMMA ReconnectKeeps ==
    ASSUME IInv, NEW p \in Players, Reconnect(p)
    PROVE  IInv'
<1>1. /\ TypeInv /\ MatchInv /\ ScoreInv /\ score' = [score EXCEPT ![p] = 0]
      /\ UNCHANGED <<now, match, zeroed, lines, best, history, iteration, queue, tables, faults,
                     ghosts>>
    BY DEF IInv, Reconnect
<1>2. /\ score' \in ScoreMaps /\ score \in [Players -> 0 .. MaxScore]
      /\ \A q \in Players : score'[q] \in {score[q], 0}
    BY <1>1, Numbers DEF TypeInv, ScoreMaps
<1>3. ASSUME NEW m, m # 0 => m \in MatchNums, Of(score, m) PROVE Of(score', m)
    BY <1>2, <1>3, <1>1, BestFacts DEF Of
<1>4. /\ Len(match) # 0 => Len(match) \in MatchNums
      /\ JustStarted /\ Len(match) - 1 # 0 => Len(match) - 1 \in MatchNums
  <2>1. Len(match) # 0 => match # <<>>
      BY <1>1 DEF TypeInv
  <2>2. ASSUME match # <<>>
        PROVE  Len(match) \in MatchNums /\ (Len(match) - 1 # 0 => Len(match) - 1 \in MatchNums)
    <3>1. Len(match) \in 1 .. MaxMatches /\ MaxMatches \in Nat
        BY <1>1, <2>2, CurrentFacts, Numbers DEF MatchNums
    <3>2. Len(match) - 1 # 0 => Len(match) - 1 \in 1 .. MaxMatches
      <4>1. \A n \in 1 .. MaxMatches : n - 1 # 0 => n - 1 \in 1 .. MaxMatches
          BY <3>1
      <4> QED BY <3>1, <4>1
    <3> QED BY <3>1, <3>2 DEF MatchNums
  <2> QED BY <2>1, <2>2 DEF JustStarted
<1>5. (JustStarted' <=> JustStarted) /\ Pending' = Pending
    BY <1>1 DEF JustStarted, Current, Pending
<1>6. ScoreInv'
  <2>1. IF zeroed THEN Of(score', Len(match)) ELSE JustStarted /\ Of(score', Len(match) - 1)
      BY <1>1, <1>3, <1>4 DEF ScoreInv
  <2> QED BY <1>1, <1>5, <2>1 DEF ScoreInv, Of, iteration
<1> QED BY <1>1, <1>2, <1>6, BestFacts, ScoresOnlyGrow DEF TypeInv, iteration

LEMMA PointKeeps ==
    ASSUME IInv, NEW p \in Players, Point(p)
    PROVE  IInv'
<1> DEFINE n == Len(match)
<1>1. /\ TypeInv /\ MatchInv /\ ScoreInv /\ match # <<>> /\ zeroed
      /\ now >= Current.start + WarmUp /\ score[p] < MaxScore
      /\ score' = [score EXCEPT ![p] = score[p] + 1]
      /\ best' = [best EXCEPT ![n] = [best[n] EXCEPT ![p] =
                     IF score'[p] > best[n][p] THEN score'[p] ELSE best[n][p]]]
      /\ UNCHANGED <<now, match, zeroed, lines, history, iteration, queue, tables, faults, ghosts>>
    BY DEF IInv, Point, Playing
<1>2. n \in MatchNums /\ n # 0 /\ ~JustStarted
  <2>1. Current.start \in Nat /\ now \in Nat /\ WarmUp \in Nat /\ WarmUp >= 1
      BY <1>1, CurrentFacts, NowFacts, Numbers
  <2> QED BY <1>1, <2>1, CurrentFacts, Numbers DEF JustStarted
<1>3. /\ score' \in ScoreMaps /\ score'[p] = score[p] + 1 /\ score'[p] \in 0 .. MaxScore
      /\ \A q \in Players \ {p} : score'[q] = score[q]
  <2>1. score \in [Players -> 0 .. MaxScore] /\ score[p] + 1 \in 0 .. MaxScore
    <3>1. score \in [Players -> 0 .. MaxScore] /\ MaxScore \in Nat
        BY <1>1, Numbers DEF TypeInv, ScoreMaps
    <3>2. score[p] \in 0 .. MaxScore
        BY <3>1
    <3> QED BY <1>1, <3>1, <3>2
  <2> QED BY <1>1, <2>1 DEF ScoreMaps
<1>4. /\ best' \in [MatchNums -> ScoreMaps]
      /\ \A m \in MatchNums \ {n} : best'[m] = best[m]
      /\ score'[p] <= best'[n][p] /\ \A q \in Players : best[n][q] <= best'[n][q]
  <2> DEFINE b == IF score'[p] > best[n][p] THEN score'[p] ELSE best[n][p]
             new == [best[n] EXCEPT ![p] = b]
  <2>1. best[n] \in [Players -> 0 .. MaxScore] /\ best \in [MatchNums -> ScoreMaps]
      BY <1>1, <1>2 DEF TypeInv, ScoreMaps
  <2>2. b \in 0 .. MaxScore /\ score'[p] <= b /\ best[n][p] <= b
    <3>1. best[n][p] \in 0 .. MaxScore /\ MaxScore \in Nat
        BY <2>1, Numbers
    <3> QED BY <1>3, <3>1
  <2>3. best' = [best EXCEPT ![n] = new]
      BY <1>1
  <2> HIDE DEF b
  <2>4. new \in ScoreMaps /\ new[p] = b /\ \A q \in Players \ {p} : new[q] = best[n][q]
      BY <2>1, <2>2 DEF ScoreMaps
  <2> HIDE DEF new
  <2>5. /\ best' \in [MatchNums -> ScoreMaps] /\ best'[n] = new
        /\ \A m \in MatchNums \ {n} : best'[m] = best[m]
      BY <1>2, <2>1, <2>3, <2>4
  <2>6. \A q \in Players : best[n][q] \in Nat
      BY <1>1, <1>2, BestFacts
  <2> QED BY <2>2, <2>4, <2>5, <2>6
<1>5. \A m \in MatchNums, q \in Players : best[m][q] <= best'[m][q]
    BY <1>1, <1>4, BestFacts
<1>6. (JustStarted' <=> JustStarted) /\ Pending' = Pending
    BY <1>1 DEF JustStarted, Current, Pending
<1>7. Of(score, n)'
  <2>1. Of(score, n)
      BY <1>1 DEF ScoreInv
  <2>2. \A q \in Players : score[q] \in Nat /\ score'[q] \in Nat /\ best[n][q] \in Nat /\ best'[n][q] \in Nat
      BY <1>1, <1>2, <1>3, <1>4, BestFacts, Scores DEF TypeInv
  <2>3. \A q \in Players : score'[q] <= best'[n][q]
    <3> TAKE q \in Players
    <3>1. CASE q = p
        BY <1>4, <3>1
    <3>2. CASE q # p
        BY <1>2, <1>3, <1>5, <2>1, <2>2, <3>2 DEF Of
    <3> QED BY <3>1, <3>2
  <2> QED BY <1>1, <1>2, <2>3 DEF Of
<1>8. loop' = "players" => Of(fetched, n)' /\ \A l \in Pending' : l.time = now'
  <2> SUFFICES ASSUME loop' = "players" PROVE Of(fetched, n)' /\ \A l \in Pending' : l.time = now'
      OBVIOUS
  <2>1. Of(fetched, n) /\ \A l \in Pending : l.time = now
      BY <1>1, <1>2 DEF ScoreInv, iteration
  <2>2. \A q \in Players : fetched[q] \in Nat /\ best[n][q] \in Nat /\ best'[n][q] \in Nat
      BY <1>1, <1>2, <1>4, BestFacts, Scores DEF TypeInv
  <2>3. \A q \in Players : fetched[q] <= best'[n][q]
      BY <1>2, <1>5, <2>1, <2>2 DEF Of
  <2> QED BY <1>1, <1>2, <1>6, <2>1, <2>3 DEF Of, iteration
<1>9. \A m \in MatchNums : m > n => \A q \in Players : best'[m][q] = 0
  <2> TAKE m \in MatchNums
  <2>1. m > n => m # n
      BY <1>2, Numbers
  <2> QED BY <1>1, <1>4, <2>1 DEF ScoreInv
<1>10. ScoreInv'
    BY <1>1, <1>2, <1>6, <1>7, <1>8, <1>9 DEF ScoreInv, Of
<1> QED BY <1>1, <1>3, <1>4, <1>5, <1>10, ScoresOnlyGrow DEF TypeInv, iteration

LEMMA FetchKeeps ==
    ASSUME IInv, FetchPlayers
    PROVE  IInv'
<1>1. /\ TypeInv /\ MatchInv /\ ScoreInv /\ (\A i \in DOMAIN lines : lines[i].time = now)
      /\ loop' = "players" /\ fetched' = score
      /\ UNCHANGED <<now, match, zeroed, score, lines, best, history, queue, tables, faults, ghosts>>
    BY DEF IInv, FetchPlayers, server
<1>2. (JustStarted' <=> JustStarted) /\ Pending' = Pending /\ \A l \in Pending : l.time = now
    BY <1>1 DEF JustStarted, Current, Pending
<1>3. ScoreInv'
    BY <1>1, <1>2 DEF ScoreInv, Of
<1> QED BY <1>1, <1>3, BestFacts, ScoresOnlyGrow DEF TypeInv

-----------------------------------------------------------------------------
(* The newest entry gets scores.                                           *)

\* The list differs in the newest entry only, which is of the same match.
Alike(list, new) ==
    /\ new \in Seq(Entries) /\ Len(new) = Len(list)
    /\ \A i \in 2 .. Len(list) : new[i] = list[i]
    /\ list # <<>> => new[1].match = list[1].match

LEMMA AlikeFacts ==
    ASSUME NEW list \in Seq(Entries), NEW new, Alike(list, new)
    PROVE  /\ DOMAIN new = DOMAIN list /\ \A i \in DOMAIN list : new[i].match = list[i].match
           /\ {new[i] : i \in 2 .. Len(new)} = {list[i] : i \in 2 .. Len(list)}
<1>1. /\ DOMAIN new = 1 .. Len(new) /\ DOMAIN list = 1 .. Len(list) /\ Len(list) \in Nat
      /\ Len(new) = Len(list) /\ \A i \in 2 .. Len(list) : new[i] = list[i]
    BY DEF Alike
<1>2. 1 \in DOMAIN list => new[1].match = list[1].match
  <2>1. 1 \in DOMAIN list => list # <<>>
      OBVIOUS
  <2> QED BY <2>1 DEF Alike
<1>3. ASSUME NEW i \in DOMAIN list PROVE new[i].match = list[i].match
  <2>1. i = 1 \/ i \in 2 .. Len(list)
      BY <1>1
  <2> QED BY <1>1, <1>2, <2>1
<1> QED BY <1>1, <1>3

LEMMA RecordKeeps ==
    ASSUME IInv, record_player_stats
    PROVE  IInv'
<1> DEFINE zeros == [p \in Players |-> 0]
<1>1. /\ TypeInv /\ MatchInv /\ LineInv /\ HistoryInv /\ SettledInv /\ ScoreInv /\ OpenedInv
      /\ BackedInv /\ loop = "players" /\ loop' = "lines" /\ fetched' = zeros
      /\ UNCHANGED <<now, match, zeroed, score, lines, best, queue, games, stats, faults, opened,
                     lost>>
    BY DEF IInv, record_player_stats, server, tables, ghosts
<1>2. (JustStarted' <=> JustStarted) /\ Pending' = Pending /\ Entered' = Entered
    BY <1>1 DEF JustStarted, Current, Pending, Entered
<1>3. ScoreInv'
    BY <1>1, <1>2 DEF ScoreInv, Of
<1>4. zeros \in ScoreMaps
    BY ZeroFacts
<1>5. CASE history' = history
    BY <1>1, <1>3, <1>4, <1>5, BestFacts, ScoresOnlyGrow DEF TypeInv, tables, ghosts
<1>6. CASE history' # history
  <2> DEFINE h == history[1]
             new == [h EXCEPT !.scores = Higher(fetched, h.scores)]
  <2>1. /\ history # <<>> /\ h.start # None /\ ~(h.start + 1 > now)
        /\ history' = [history EXCEPT ![1] = new]
      BY <1>6 DEF record_player_stats
  <2>2. history \in Seq(Entries) /\ h \in Entries /\ 1 \in DOMAIN history /\ fetched \in ScoreMaps
      BY <1>1, <2>1 DEF TypeInv
  <2>3. /\ Higher(fetched, h.scores) \in ScoreMaps
        /\ \A p \in Players : Higher(fetched, h.scores)[p] =
                                 IF fetched[p] > h.scores[p] THEN fetched[p] ELSE h.scores[p]
      BY <2>2 DEF Entries, ScoreMaps, Higher
  <2> DEFINE s == Higher(fetched, h.scores)
  <2> HIDE DEF s
  <2>4. /\ new \in Entries /\ new.match = h.match /\ new.start = h.start /\ new.end = h.end
        /\ new.name = h.name /\ new.guessed = h.guessed /\ new.scores = s
      BY <2>2, <2>3 DEF Entries, s
  <2> HIDE DEF new
  <2>5. /\ history' \in Seq(Entries) /\ Len(history') = Len(history) /\ history'[1] = new
        /\ DOMAIN history' = DOMAIN history
        /\ \A i \in 2 .. Len(history) : history'[i] = history[i]
        /\ \A i \in DOMAIN history : history'[i] = IF i = 1 THEN new ELSE history[i]
      BY <2>1, <2>2, <2>4
  <2>6. Alike(history, history')
      BY <2>4, <2>5 DEF Alike
  <2>7. TypeInv'
      BY <1>1, <1>4, <2>5 DEF TypeInv
  <2>8. MatchInv' /\ LineInv'
      BY <1>1, <1>2 DEF MatchInv, LineInv, Before
  <2>9. \A i \in DOMAIN history :
          /\ history'[i].match = history[i].match /\ history'[i].start = history[i].start
          /\ history'[i].end = history[i].end /\ history'[i].name = history[i].name
          /\ history'[i].guessed = history[i].guessed
      BY <2>4, <2>5
  <2>10. HistoryInv'
    <3>1. \A i \in DOMAIN history : EntryInv(history[i])
        BY <1>1 DEF HistoryInv, InOrder
    <3>2. ASSUME NEW i \in DOMAIN history PROVE EntryInv(history[i])'
      <4>1. EntryInv(history[i])
          BY <3>1
      <4> QED BY <1>1, <1>2, <2>9, <4>1 DEF EntryInv
    <3>3. DOMAIN history = 1 .. Len(history) /\ Len(history) \in Nat
        BY <2>2
    <3>4. \A i \in 2 .. Len(history) : i \in DOMAIN history /\ i - 1 \in DOMAIN history
        BY <3>3
    <3> QED BY <1>1, <2>5, <2>9, <3>2, <3>4 DEF HistoryInv, InOrder
  <2>11. SettledInv'
    <3>1. Settled' = Settled
        BY <1>1, <2>2, <2>6, AlikeFacts DEF Settled
    <3>2. \A x : Past(x)' <=> Past(x)
        BY <1>1, <1>2 DEF Past
    <3> QED BY <1>1, <2>5, <2>9, <3>1, <3>2 DEF SettledInv, SameGame, NoLaterLost
  <2>12. OpenedInv'
      BY <1>1, <1>2, <2>5, <2>9 DEF OpenedInv
  <2>13. \A k, p, v : Backed(k, p, v)' <=> Backed(k, p, v)
      BY <1>1, <1>2 DEF Backed
  <2>14. ASSUME NEW p \in Players PROVE Backed(h.match, p, s[p])
    <3>1. Backed(h.match, p, h.scores[p])
        BY <1>1, <2>2 DEF BackedInv
    <3>2. /\ fetched[p] \in Nat /\ h.scores[p] \in Nat
          /\ s[p] = IF fetched[p] > h.scores[p] THEN fetched[p] ELSE h.scores[p]
        BY <2>2, <2>3, EntryFacts, Scores DEF s
    <3>3. SUFFICES ASSUME fetched[p] > h.scores[p] PROVE Backed(h.match, p, fetched[p])
        BY <3>1, <3>2
    <3>4. fetched[p] # 0
        BY <3>2, <3>3
    <3>5. EntryInv(h) /\ h.match \in Nat /\ h.match >= 1 /\ h.match <= Len(match) /\ h.start \in Nat
        BY <1>1, <2>1, <2>2, EntryFacts DEF HistoryInv, InOrder, EntryInv
    <3>6. /\ DOMAIN match = 1 .. Len(match) /\ Len(match) \in Nat /\ now \in Nat /\ match # <<>>
          /\ h.match \in DOMAIN match /\ h.start = match[h.match].start /\ h.start < now
      <4>1. DOMAIN match = 1 .. Len(match) /\ Len(match) \in Nat /\ now \in Nat
          BY <1>1, MatchFacts, NowFacts
      <4> QED BY <2>1, <3>5, <4>1 DEF EntryInv
    <3>7. \A m \in Entered : m \in Nat /\ m <= h.match
      <4>1. \A m \in Entered : m \in Nat
          BY <1>1, Numbers DEF TypeInv, Entered
      <4>2. \A m \in Entered : m <= h.match \/ \E j \in DOMAIN history : j < 1 /\ history[j].match = m
          BY <1>1, <2>2 DEF OpenedInv
      <4>3. \A j \in DOMAIN history : ~(j < 1)
          BY <2>2
      <4> QED BY <4>1, <4>2, <4>3
    <3>13. ASSUME NEW n \in Nat PROVE (h.match + 1) .. n \cap Entered = {}
      <4>1. \A m \in (h.match + 1) .. n : ~(m <= h.match)
          BY <3>5
      <4>2. \A m \in (h.match + 1) .. n : m \notin Entered
          BY <3>5, <3>7, <4>1
      <4> QED BY <4>2
    <3>8. \A l \in Pending : l.kind = "start" => l.match \in DOMAIN match /\ match[l.match].start = now
      <4>1. \A l \in Pending : l.match \in Nat /\ l.match >= 1 /\ l.match <= Len(match)
          BY <1>1, PendingFacts, LineFacts DEF LineInv
      <4> QED BY <1>1, <3>6, <4>1 DEF LineInv, ScoreInv
    <3>9. CASE Of(fetched, Len(match))
      <4>1. fetched[p] <= best[Len(match)][p]
          BY <3>4, <3>9 DEF Of
      <4>2. ~JustStarted
        <5>1. JustStarted => best[Len(match)][p] = 0
            BY <1>1 DEF ScoreInv
        <5> QED BY <3>2, <3>4, <4>1, <5>1
      <4>3. \A i \in DOMAIN match : match[i].start < now
        <5> TAKE i \in DOMAIN match
        <5>1. Current.start \in Nat /\ Current.start < now /\ Len(match) \in DOMAIN match
            BY <1>1, <3>6, <4>2, CurrentFacts DEF JustStarted
        <5>2. match[i].start \in Nat /\ match[i].start <= Current.start
            BY <1>1, <3>6, <5>1, MatchFacts DEF MatchInv, Current
        <5> QED BY <3>6, <5>1, <5>2
      <4>4. \A l \in Pending : l.kind # "start"
          BY <3>6, <3>8, <4>3
      <4>5. Len(match) \in MatchNums
          BY <1>1, <3>6, CurrentFacts
      <4>6. (h.match + 1) .. Len(match) \cap Entered = {}
          BY <3>6, <3>13
      <4> QED BY <3>5, <4>1, <4>4, <4>5, <4>6 DEF Backed
    <3>10. CASE JustStarted /\ Of(fetched, Len(match) - 1)
      <4> DEFINE n == Len(match) - 1
      <4>1. n # 0 /\ fetched[p] <= best[n][p]
          BY <3>4, <3>10 DEF Of
      <4>2. match[Len(match)].start = now /\ h.match # Len(match)
          BY <3>6, <3>10 DEF JustStarted, Current
      <4>3. n \in Nat /\ h.match <= n /\ n <= Len(match)
          BY <3>5, <3>6, <4>2
      <4>4. n \in MatchNums
        <5>1. Len(match) \in 1 .. MaxMatches /\ MaxMatches \in Nat
            BY <1>1, <3>6, CurrentFacts, Numbers DEF MatchNums
        <5>2. n \in 1 .. MaxMatches
            BY <3>5, <4>3, <5>1
        <5> QED BY <5>2 DEF MatchNums
      <4>5. (h.match + 1) .. n \cap Entered = {}
          BY <3>13, <4>3
      <4>6. ASSUME NEW l \in Pending, l.kind = "start" PROVE n < l.match
        <5>1. l.match \in DOMAIN match /\ match[l.match].start = now
            BY <3>8, <4>6
        <5>2. ~(l.match < Len(match))
          <6>1. Len(match) \in DOMAIN match
              BY <1>1, <3>6, CurrentFacts
          <6>2. l.match < Len(match) => match[l.match].start < match[Len(match)].start
              BY <1>1, <5>1, <6>1 DEF MatchInv
          <6> QED BY <3>6, <4>2, <5>1, <6>2
        <5> QED BY <3>6, <5>1, <5>2
      <4> QED BY <4>1, <4>3, <4>4, <4>5, <4>6 DEF Backed
    <3> QED BY <1>1, <3>9, <3>10 DEF ScoreInv
  <2>15. BackedInv'
    <3>1. ASSUME NEW i \in DOMAIN history, NEW p \in Players
          PROVE  Backed(history'[i].match, p, history'[i].scores[p])
      <4>1. CASE i = 1
          BY <2>4, <2>5, <2>14, <4>1
      <4>2. CASE i # 1
          BY <1>1, <2>5, <4>2 DEF BackedInv
      <4> QED BY <4>1, <4>2
    <3>2. ASSUME NEW i \in DOMAIN history, NEW p \in Players
          PROVE  Backed(history[i].match, p, history[i].scores[p])'
        BY <1>1, <1>2, <3>1 DEF Backed
    <3> QED BY <1>1, <2>5, <2>13, <3>2 DEF BackedInv
  <2> QED BY <1>3, <2>7, <2>8, <2>10, <2>11, <2>12, <2>15 DEF IInv
<1> QED BY <1>5, <1>6

-----------------------------------------------------------------------------
(* The lines are handled.                                                  *)

\* What a line that is handled leaves alone.
Handled(kind) ==
    /\ Take(kind)
    /\ UNCHANGED <<now, match, zeroed, score, best, loop, fetched, games, stats>>
    /\ faults' \in 0 .. MaxFaults

LEMMA HandledKeeps ==
    ASSUME IInv, NEW kind, Handled(kind)
    PROVE  /\ MatchInv' /\ LineInv' /\ ScoreInv' /\ Pending' \subseteq Pending
           /\ lines' \in Seq(Lines)
           /\ \A h : EntryInv(h) => EntryInv(h)'
           /\ \A x : Past(x) => Past(x)'
<1>1. /\ TypeInv /\ MatchInv /\ LineInv /\ ScoreInv /\ loop = "lines"
      /\ UNCHANGED <<now, match, zeroed, score, best, loop>> /\ Take(kind)
    BY DEF IInv, Handled, Take
<1>2. /\ lines' \in Seq(Lines) /\ Pending' \subseteq Pending
      /\ \A i, j \in DOMAIN lines' : i < j => Before(lines'[i], lines'[j])
    BY <1>1, TakeFacts
<1>3. MatchInv'
    BY <1>1 DEF MatchInv
<1>4. LineInv'
    BY <1>1, <1>2 DEF LineInv
<1>5. JustStarted' <=> JustStarted
    BY <1>1 DEF JustStarted, Current
<1>6. ScoreInv'
    BY <1>1, <1>5 DEF ScoreInv, Of
<1>7. ASSUME NEW h, EntryInv(h) PROVE EntryInv(h)'
    BY <1>1, <1>2, <1>7 DEF EntryInv
<1>8. ASSUME NEW x, Past(x) PROVE Past(x)'
    BY <1>1, <1>2, <1>8 DEF Past
<1> QED BY <1>2, <1>3, <1>4, <1>6, <1>7, <1>8

\* The newest entry gets an end at a time that is past and before the lines
\* that are left.
LEMMA EndInOrder ==
    ASSUME IInv, history # <<>>, NEW name, NEW m, NEW ts \in Times,
           ts <= now, \A l \in Pending : ts <= l.time,
           history[1].start # None /\ ts < history[1].start =>
              \E k \in DOMAIN match : /\ match[k].start > history[1].start
                                      /\ match[k].start < history[1].start + EndGuess
    PROVE  LET new == save_map_end(history, name, ts, m) IN
           /\ InOrder(new) /\ Alike(history, new) /\ new[1].end # None
           /\ \A i \in DOMAIN history : new[i].scores = history[i].scores
<1> DEFINE new == save_map_end(history, name, ts, m)
           h == history[1]
           e == [h EXCEPT !.end = ts]
<1>1. history \in Seq(Entries) /\ h \in Entries /\ HistoryInv /\ TypeInv
    BY DEF IInv, TypeInv
<1>2. /\ new \in Seq(Entries) /\ Len(new) = Len(history) /\ new[1] = e
      /\ \A i \in 2 .. Len(history) : new[i] = history[i]
    BY <1>1, EndFacts
<1>3. /\ e.match = h.match /\ e.start = h.start /\ e.name = h.name /\ e.guessed = h.guessed
      /\ e.scores = h.scores /\ e.end = ts /\ ts # None
    BY <1>1, Numbers DEF Entries
<1> HIDE DEF new, e
<1>4. /\ DOMAIN new = 1 .. Len(history) /\ DOMAIN history = 1 .. Len(history)
      /\ Len(history) \in Nat /\ 1 \in DOMAIN history
      /\ \A i \in DOMAIN history : i = 1 \/ i \in 2 .. Len(history)
    BY <1>1, <1>2
<1>5. EntryInv(e)
  <2>1. EntryInv(h)
      BY <1>1, <1>4 DEF HistoryInv, InOrder
  <2> QED BY <1>3, <2>1 DEF EntryInv
<1>6. \A i \in DOMAIN history : new[i].match = history[i].match /\ new[i].start = history[i].start
                                /\ new[i].scores = history[i].scores
    BY <1>2, <1>3, <1>4
<1>7. InOrder(new)
  <2>1. \A i \in DOMAIN new : EntryInv(new[i])
      BY <1>1, <1>2, <1>4, <1>5 DEF HistoryInv, InOrder
  <2>2. \A i \in 2 .. Len(history) : i - 1 \in DOMAIN history
      BY <1>4
  <2>3. \A i \in 2 .. Len(new) :
          new[i - 1].start # None /\ new[i].end # None /\ new[i].end <= new[i - 1].start
      BY <1>1, <1>2, <1>6, <2>2 DEF HistoryInv, InOrder
  <2> QED BY <1>1, <1>4, <1>6, <2>1, <2>3 DEF HistoryInv, InOrder
<1>8. Alike(history, new)
    BY <1>2, <1>4, <1>6 DEF Alike
<1> QED BY <1>2, <1>3, <1>6, <1>7, <1>8 DEF new

\* The entry that is still open when the next match starts is closed.
LEMMA CloseInOrder ==
    ASSUME IInv, Take("start")
    PROVE  LET new == CloseOpen(history, Head(lines)) IN
           /\ InOrder(new) /\ Alike(history, new) /\ (new # <<>> => new[1].end # None)
           /\ \A i \in DOMAIN history : new[i].scores = history[i].scores
<1> DEFINE line == Head(lines)
           ts == Max0(line.time, EndGuess)
           h == history[1]
<1>1. TypeInv /\ LineInv /\ HistoryInv /\ MatchInv /\ history \in Seq(Entries)
    BY DEF IInv, TypeInv
<1>2. CASE history = <<>> \/ history[1].end # None
    BY <1>1, <1>2 DEF CloseOpen, Alike, HistoryInv
<1>3. CASE history # <<>> /\ history[1].end = None
  <2>1. /\ line \in Lines /\ line \in Pending /\ line.kind = "start"
        /\ \A l \in Pending : l = line \/ Before(line, l)
    <3>1. /\ line \in Lines /\ line \in Pending /\ line.kind = "start"
        BY <1>1, TakeFacts
    <3>2. lines \in Seq(Lines) /\ lines # <<>> /\ line = lines[1]
        BY <1>1 DEF TypeInv, Take
    <3>3. \A i \in DOMAIN lines : i = 1 \/ Before(line, lines[i])
        BY <1>1, <3>2 DEF LineInv
    <3> QED BY <3>1, <3>2, <3>3 DEF Pending
  <2>2. /\ line.time \in Nat /\ line.time <= now /\ line.time = match[line.match].start
        /\ line.match \in DOMAIN match /\ now \in Nat /\ now <= MaxClock /\ EndGuess \in Nat
    <3>1. now \in Nat /\ now <= MaxClock
      <4>1. now \in Times
          BY <1>1 DEF TypeInv
      <4> QED BY <4>1, Numbers DEF Times
    <3>2. line.match \in Nat /\ line.match >= 1 /\ line.time \in Nat
        BY <2>1, LineFacts
    <3>3. /\ line.time <= now /\ line.match <= Len(match)
          /\ line.time = match[line.match].start
        BY <1>1, <2>1 DEF LineInv
    <3>4. line.match \in DOMAIN match
        BY <1>1, <3>2, <3>3, MatchFacts
    <3> QED BY <3>1, <3>2, <3>3, <3>4, Numbers
  <2>3. ts \in Times /\ ts <= line.time /\ ts <= now
      BY <2>2, Numbers DEF Max0, Times
  <2>4. ASSUME NEW l \in Pending PROVE ts <= l.time
    <3>1. l.time \in Nat
        BY <1>1, PendingFacts, LineFacts
    <3>2. line.time <= l.time
        BY <2>1, <2>2 DEF Before
    <3> QED BY <2>2, <2>3, <3>1, <3>2, Numbers DEF Times
  <2>5. ASSUME h.start # None, ts < h.start
        PROVE  match[line.match].start > h.start /\ match[line.match].start < h.start + EndGuess
    <3>1. h \in Entries /\ EntryInv(h)
        BY <1>1, <1>3 DEF HistoryInv, InOrder
    <3>2. /\ h.start = match[h.match].start /\ h.match < line.match
          /\ h.match \in DOMAIN match /\ h.start \in Nat
        BY <1>1, <2>1, <2>5, <3>1, EntryFacts, MatchFacts DEF EntryInv
    <3>3. h.start < line.time
        BY <1>1, <2>2, <3>2 DEF MatchInv
    <3>4. line.time < h.start + EndGuess
        BY <2>2, <2>5, <3>2 DEF Max0
    <3> QED BY <2>2, <3>3, <3>4
  <2> HIDE DEF line, ts
  <2>6. CloseOpen(history, line) = save_map_end(history, history[1].name, ts, line.match)
      BY <1>3 DEF CloseOpen, ts, line
  <2> QED BY <1>3, <2>2, <2>3, <2>4, <2>5, <2>6, EndInOrder DEF line
<1> QED BY <1>2, <1>3

\* A line that is left to be handled is not about what is settled.
LEMMA HeadFacts ==
    ASSUME IInv, NEW kind, Take(kind)
    PROVE  LET line == Head(lines) IN
           /\ line \in Lines /\ line.kind = kind /\ line \in Pending
           /\ line.match \in Nat /\ line.match >= 1 /\ line.match \in MatchNums
           /\ line.match <= Len(match) /\ line.match \in DOMAIN match
           /\ line.time \in Nat /\ line.time \in Times /\ line.time <= now
           /\ match[line.match].start <= line.time
           /\ kind = "start" => line.time = match[line.match].start
           /\ \A l \in Pending' : /\ line.match <= l.match /\ line.time <= l.time
                                  /\ l.kind = "start" => line.match < l.match
           /\ \A l \in Pending : line.time <= l.time
<1> DEFINE line == Head(lines)
<1>1. TypeInv /\ LineInv
    BY DEF IInv
<1>2. line \in Lines /\ line \in Pending /\ line.kind = kind /\ \A l \in Pending' : Before(line, l)
    BY <1>1, TakeFacts
<1>3. \A l \in Pending : line.time <= l.time
  <2>1. lines \in Seq(Lines) /\ lines # <<>> /\ line = lines[1]
      BY <1>1 DEF TypeInv, Take
  <2>2. \A i \in DOMAIN lines : i = 1 \/ Before(line, lines[i])
      BY <1>1, <2>1 DEF LineInv
  <2>3. line.time \in Nat
      BY <1>2, LineFacts
  <2> QED BY <2>1, <2>2, <2>3 DEF Pending, Before
<1>4. line.time \in Times
    BY <1>2 DEF Lines
<1> HIDE DEF line
<1>5. line.match \in Nat /\ line.match >= 1 /\ line.match \in MatchNums /\ line.time \in Nat
    BY <1>2, LineFacts
<1>6. /\ line.match <= Len(match) /\ match[line.match].start <= line.time /\ line.time <= now
      /\ kind = "start" => line.time = match[line.match].start
    BY <1>1, <1>2 DEF LineInv
<1>7. line.match \in DOMAIN match
    BY <1>1, <1>5, <1>6, MatchFacts
<1> QED BY <1>2, <1>3, <1>4, <1>5, <1>6, <1>7 DEF Before, line

\* The jobs there are, and perhaps one for the entry before the newest.
Queues(list) ==
    /\ queue' \subseteq queue \cup {[due |-> now + JobDelay, info |-> list[2]]}
    /\ Len(list) < 2 => queue' = queue

LEMMA QueueFacts ==
    ASSUME IInv, NEW list \in Seq(Entries), Queues(list)
    PROVE  /\ queue' \subseteq [due : Nat, info : Entries]
           /\ \A j \in queue' : j \in queue \/ (Len(list) >= 2 /\ 2 \in 2 .. Len(list) /\ j.info = list[2])
<1>1. queue \subseteq [due : Nat, info : Entries] /\ now + JobDelay \in Nat
  <2>1. TypeInv
      BY DEF IInv
  <2>2. queue \subseteq [due : Nat, info : Entries]
      BY <2>1 DEF TypeInv
  <2>3. now \in Nat /\ JobDelay \in Nat
      BY <2>1, NowFacts, Numbers
  <2> QED BY <2>2, <2>3
<1>2. Len(list) \in Nat
    OBVIOUS
<1>3. CASE Len(list) < 2
  <2>1. queue' = queue
      BY <1>3 DEF Queues
  <2> QED BY <1>1, <2>1
<1>4. CASE Len(list) >= 2
  <2>1. list[2] \in Entries /\ 2 \in 2 .. Len(list)
      BY <1>2, <1>4
  <2> QED BY <1>1, <1>4, <2>1 DEF Queues
<1> QED BY <1>2, <1>3, <1>4

\* The list keeps its entries, and the newest of them may get an end.
LEMMA StepSame ==
    ASSUME IInv, NEW kind, Handled(kind), UNCHANGED ghosts,
           InOrder(history'), Alike(history, history'), Queues(history'),
           \A i \in DOMAIN history : history'[i].scores = history[i].scores
    PROVE  IInv'
<1>1. /\ TypeInv /\ HistoryInv /\ SettledInv /\ OpenedInv /\ BackedInv
      /\ history \in Seq(Entries) /\ Len(history) \in Nat /\ history' \in Seq(Entries)
      /\ UNCHANGED <<now, match, zeroed, score, best, loop, fetched, games, stats, opened, lost>>
    BY DEF IInv, TypeInv, Handled, Alike, ghosts
<1>2. /\ MatchInv' /\ LineInv' /\ ScoreInv' /\ Pending' \subseteq Pending /\ lines' \in Seq(Lines)
      /\ \A h : EntryInv(h) => EntryInv(h)'
      /\ \A x : Past(x) => Past(x)'
    BY HandledKeeps
<1>3. /\ DOMAIN history' = DOMAIN history /\ \A i \in DOMAIN history : history'[i].match = history[i].match
      /\ {history'[i] : i \in 2 .. Len(history')} = {history[i] : i \in 2 .. Len(history)}
      /\ Len(history') = Len(history)
  <2>1. ASSUME NEW list \in Seq(Entries), NEW new, Alike(list, new)
        PROVE  /\ DOMAIN new = DOMAIN list /\ \A i \in DOMAIN list : new[i].match = list[i].match
               /\ {new[i] : i \in 2 .. Len(new)} = {list[i] : i \in 2 .. Len(list)}
      BY <2>1, AlikeFacts
  <2>2. Len(history') = Len(history)
      BY DEF Alike
  <2> QED BY <1>1, <2>1, <2>2
<1>4. /\ queue' \subseteq [due : Nat, info : Entries]
      /\ \A j \in queue' : j \in queue \/ (2 \in 2 .. Len(history) /\ j.info = history[2])
  <2>1. \A i \in 2 .. Len(history) : history'[i] = history[i]
      BY DEF Alike
  <2> QED BY <1>1, <1>3, <2>1, QueueFacts
<1>5. TypeInv'
    BY <1>1, <1>2, <1>3, <1>4 DEF TypeInv, Handled
<1>6. HistoryInv'
    BY <1>1, <1>2 DEF HistoryInv, InOrder
<1>7. Settled' \subseteq Settled
    BY <1>1, <1>3, <1>4 DEF Settled
<1>8. \A m : NoLaterLost(m)' <=> NoLaterLost(m)
    BY <1>1 DEF NoLaterLost
<1>9. SettledInv'
  <2>1. \A i \in DOMAIN history', x \in Settled' :
          i = 1 /\ x.match = history'[i].match => ~NoLaterLost(x.match)
      BY <1>1, <1>3, <1>7 DEF SettledInv
  <2> QED BY <1>1, <1>2, <1>7, <1>8, <2>1 DEF SettledInv, SameGame, NoLaterLost
<1>10. OpenedInv'
    BY <1>1, <1>2, <1>3 DEF OpenedInv, Entered
<1>11. \A k, p, v : Backed(k, p, v) => Backed(k, p, v)'
    BY <1>1, <1>2 DEF Backed, Entered
<1>12. BackedInv'
  <2>1. ASSUME NEW i \in DOMAIN history, NEW p \in Players
        PROVE  Backed(history'[i].match, p, history'[i].scores[p])
      BY <1>1, <1>3, <2>1 DEF BackedInv
  <2>2. ASSUME NEW j \in queue', NEW p \in Players
        PROVE  Backed(j.info.match, p, j.info.scores[p])
    <3>1. 2 \in 2 .. Len(history) => 2 \in DOMAIN history
        BY <1>1
    <3> QED BY <1>1, <1>4, <3>1 DEF BackedInv
  <2>3. \A i \in DOMAIN history, p \in Players :
          Backed(history[i].match, p, history[i].scores[p])'
      BY <1>1, <1>2, <2>1 DEF Backed, Entered
  <2> QED BY <1>1, <1>3, <1>11, <2>2, <2>3 DEF BackedInv
<1> QED BY <1>2, <1>5, <1>6, <1>9, <1>10, <1>12 DEF IInv

\* The newest entry is lost.
LEMMA StepLose ==
    ASSUME IInv, NEW kind, Handled(kind), history # <<>>, LoseNewest, UNCHANGED queue
    PROVE  IInv'
<1>1. /\ TypeInv /\ HistoryInv /\ SettledInv /\ OpenedInv /\ BackedInv
      /\ history \in Seq(Entries) /\ Len(history) \in Nat /\ Len(history) >= 1
      /\ Len(history) <= MaxLen /\ opened \subseteq MatchNums /\ lost \subseteq MatchNums
      /\ UNCHANGED <<now, match, zeroed, score, best, loop, fetched, games, stats, opened, queue>>
    BY DEF IInv, TypeInv, Handled, LoseNewest
<1>2. /\ MatchInv' /\ LineInv' /\ ScoreInv' /\ Pending' \subseteq Pending /\ lines' \in Seq(Lines)
      /\ \A h : EntryInv(h) => EntryInv(h)'
      /\ \A x : Past(x) => Past(x)'
    BY HandledKeeps
<1>3. /\ history' \in Seq(Entries) /\ Len(history') = Len(history) - 1
      /\ DOMAIN history' = 1 .. Len(history) - 1 /\ DOMAIN history = 1 .. Len(history)
      /\ \A i \in 1 .. Len(history) - 1 : history'[i] = history[i + 1]
    BY <1>1 DEF LoseNewest
<1>4. /\ \A i \in DOMAIN history' : i + 1 \in 2 .. Len(history) /\ i + 1 \in DOMAIN history
                                    /\ history'[i] = history[i + 1] /\ 1 < i + 1
      /\ \A i \in 2 .. Len(history') : i + 1 \in 2 .. Len(history) /\ i - 1 \in DOMAIN history'
                                       /\ i \in DOMAIN history' /\ (i - 1) + 1 = (i + 1) - 1
      /\ 1 \in DOMAIN history
    BY <1>1, <1>3
<1>5. /\ history[1].match \in MatchNums /\ lost' = lost \cup {history[1].match}
      /\ \A i \in DOMAIN history' : history'[i].match < history[1].match
      /\ \A i \in DOMAIN history : history[i].match \in Nat
  <2>1. lost' = lost \cup {history[1].match}
      BY <1>1 DEF LoseNewest
  <2>2. \A i \in DOMAIN history : history[i].match \in Nat /\ history[i].match \in MatchNums
    <3>1. \A i \in DOMAIN history : history[i] \in Entries
        BY <1>1
    <3> QED BY <3>1, EntryFacts
  <2>3. \A i \in DOMAIN history' : history'[i].match < history[1].match
      BY <1>1, <1>4 DEF HistoryInv, InOrder
  <2> QED BY <1>4, <2>1, <2>2, <2>3
<1>6. TypeInv'
  <2>1. Len(history') <= MaxLen
      BY <1>1, <1>3, Numbers
  <2>2. lost \subseteq MatchNums /\ lost' \subseteq MatchNums
      BY <1>1, <1>5 DEF TypeInv
  <2> QED BY <1>1, <1>2, <1>3, <2>1, <2>2 DEF TypeInv, Handled
<1>7. HistoryInv'
  <2>1. \A i \in DOMAIN history' : EntryInv(history'[i])
      BY <1>1, <1>4 DEF HistoryInv, InOrder
  <2>2. ASSUME NEW i \in DOMAIN history', NEW j \in DOMAIN history', i < j
        PROVE  history'[j].match < history'[i].match
    <3>1. i + 1 < j + 1
        BY <1>1, <1>3, <2>2
    <3> QED BY <1>1, <1>4, <3>1 DEF HistoryInv, InOrder
  <2>3. ASSUME NEW i \in 2 .. Len(history')
        PROVE  history'[i - 1].start # None /\ history'[i].end # None
               /\ history'[i].end <= history'[i - 1].start
    <3>1. history'[i - 1] = history[(i + 1) - 1] /\ history'[i] = history[i + 1]
        BY <1>4
    <3> QED BY <1>1, <1>4, <3>1 DEF HistoryInv, InOrder
  <2> QED BY <1>2, <2>1, <2>2, <2>3 DEF HistoryInv, InOrder
<1>8. Settled' \subseteq Settled
  <2>1. {history'[i] : i \in 2 .. Len(history')} \subseteq {history[i] : i \in 2 .. Len(history)}
      BY <1>4
  <2> QED BY <1>1, <2>1 DEF Settled
<1>9. /\ \A m : NoLaterLost(m)' => NoLaterLost(m)
      /\ \A m : m < history[1].match => ~NoLaterLost(m)' \/ m \notin Nat
  <2>1. \A m \in Nat : m < history[1].match => ~(history[1].match <= m)
      BY <1>4, <1>5
  <2> QED BY <1>5, <2>1 DEF NoLaterLost
<1>10. SettledInv'
  <2>1. ASSUME NEW i \in DOMAIN history', NEW x \in Settled', i = 1, x.match = history'[i].match
        PROVE  ~NoLaterLost(x.match)'
    <3>1. x.match < history[1].match /\ x.match \in Nat
        BY <1>4, <1>5, <2>1
    <3>2. ~(history[1].match <= x.match)
        BY <1>4, <1>5, <3>1
    <3>3. x.match = history[i + 1].match /\ history[i + 1].match < history[1].match
        BY <1>4, <1>5, <2>1
    <3> QED BY <1>5, <3>2, <1>1 DEF NoLaterLost
  <2>2. /\ \A x \in Settled' : Past(x)'
        /\ \A x, y \in Settled' : x.match = y.match /\ NoLaterLost(x.match)' => SameGame(x, y)
        /\ \A g, h \in games' : g.match = h.match /\ NoLaterLost(g.match)' => g = h
    <3>1. \A x \in Settled' : Past(x)'
        BY <1>1, <1>2, <1>8 DEF SettledInv
    <3>2. \A x, y \in Settled' : x.match = y.match /\ NoLaterLost(x.match)' => SameGame(x, y)
        BY <1>1, <1>5, <1>8 DEF SettledInv, NoLaterLost
    <3>3. \A g, h \in games' : g.match = h.match /\ NoLaterLost(g.match)' => g = h
        BY <1>1, <1>5 DEF SettledInv, NoLaterLost
    <3> QED BY <3>1, <3>2, <3>3
  <2> QED BY <1>1, <2>1, <2>2 DEF SettledInv, SameGame, NoLaterLost
<1>11. OpenedInv'
  <2>1. ASSUME NEW m \in Entered', NEW i \in DOMAIN history'
        PROVE  m <= history'[i].match \/ \E j \in DOMAIN history' : j < i /\ history'[j].match = m
    <3>1. m \in Entered /\ m # history[1].match
        BY <1>1, <1>5, <2>1 DEF Entered
    <3>2. i + 1 \in DOMAIN history /\ history'[i] = history[i + 1]
        BY <1>4
    <3>3. m <= history[i + 1].match \/ \E j \in DOMAIN history : j < i + 1 /\ history[j].match = m
        BY <1>1, <3>1, <3>2 DEF OpenedInv
    <3>4. ASSUME NEW j \in DOMAIN history, j < i + 1, history[j].match = m
          PROVE  \E k \in DOMAIN history' : k < i /\ history'[k].match = m
      <4>1. j # 1
          BY <3>1, <3>4
      <4>2. j - 1 \in DOMAIN history' /\ j - 1 < i /\ (j - 1) + 1 = j
          BY <1>1, <1>3, <3>4, <4>1
      <4>3. history'[j - 1] = history[j]
          BY <1>4, <4>2
      <4> QED BY <3>4, <4>2, <4>3
    <3> QED BY <3>2, <3>3, <3>4
  <2> QED BY <1>1, <1>2, <2>1 DEF OpenedInv
<1>12. BackedInv'
  <2>1. Entered' \subseteq Entered
      BY <1>1, <1>5 DEF Entered
  <2>2. \A k, p, v : Backed(k, p, v) => Backed(k, p, v)'
    <3> TAKE k, p, v
    <3> SUFFICES ASSUME Backed(k, p, v) PROVE Backed(k, p, v)'
        OBVIOUS
    <3>1. PICK m \in MatchNums :
            /\ k <= m /\ m <= Len(match) /\ (k + 1) .. m \cap Entered = {}
            /\ v <= best[m][p]
            /\ \A l \in Pending : l.kind = "start" => m < l.match
        BY DEF Backed
    <3>2. (k + 1) .. m \cap Entered' = {}
        BY <2>1, <3>1
    <3> QED BY <1>1, <1>2, <3>1, <3>2 DEF Backed
  <2>3. ASSUME NEW i \in DOMAIN history', NEW p \in Players
        PROVE  Backed(history'[i].match, p, history'[i].scores[p])
      BY <1>1, <1>4 DEF BackedInv
  <2>4. ASSUME NEW k, NEW v, NEW i \in DOMAIN history', NEW p \in Players,
               k = history'[i].match, v = history'[i].scores[p]
        PROVE  Backed(k, p, v)'
      BY <2>2, <2>3, <2>4
  <2>5. \A i \in DOMAIN history', p \in Players : Backed(history[i].match, p, history[i].scores[p])'
      BY <2>4 DEF Backed
  <2> QED BY <1>1, <2>2, <2>5 DEF BackedInv
<1> QED BY <1>2, <1>6, <1>7, <1>10, <1>11, <1>12 DEF IInv

\* The entry of the match whose start line is handled comes in front of a list
\* whose newest entry has its end.
LEMMA StepOpen ==
    ASSUME IInv, Handled("start"), NEW list, InOrder(list), Alike(history, list),
           \A i \in DOMAIN history : list[i].scores = history[i].scores,
           list # <<>> => list[1].end # None,
           NEW info \in Entries, info.match = Head(lines).match,
           info.start = Head(lines).time, info.end = None, \A p \in Players : info.scores[p] = 0,
           info.guessed \/ \E m \in DOMAIN match :
              /\ m >= info.match /\ match[m].map = info.name
              /\ match[m].start <= match[info.match].start + FreshStart,
           history' = add(info, list), Queues(history'),
           opened' = opened \cup {Head(lines).match}, lost' = lost
    PROVE  IInv'
<1> DEFINE n == Head(lines).match
           t == Head(lines).time
<1>1. /\ TypeInv /\ HistoryInv /\ SettledInv /\ OpenedInv /\ BackedInv /\ Take("start")
      /\ history \in Seq(Entries) /\ Len(history) \in Nat /\ list \in Seq(Entries)
      /\ Len(history) <= MaxLen /\ Len(list) = Len(history) /\ opened \subseteq MatchNums
      /\ UNCHANGED <<now, match, zeroed, score, best, loop, fetched, games, stats, lost>>
    BY DEF IInv, TypeInv, Handled, Alike
<1>2. /\ MatchInv' /\ LineInv' /\ ScoreInv' /\ Pending' \subseteq Pending /\ lines' \in Seq(Lines)
      /\ \A h : EntryInv(h) => EntryInv(h)'
      /\ \A x : Past(x) => Past(x)'
    BY HandledKeeps
<1>3. /\ Head(lines) \in Pending /\ Head(lines).kind = "start"
      /\ n \in Nat /\ n >= 1 /\ n \in MatchNums /\ n <= Len(match) /\ n \in DOMAIN match
      /\ t \in Times /\ t \in Nat /\ t = match[n].start /\ t <= now
      /\ \A l \in Pending' : n <= l.match /\ (l.kind = "start" => n < l.match) /\ t <= l.time
    BY <1>1, HeadFacts
<1>4. /\ DOMAIN list = DOMAIN history /\ \A i \in DOMAIN history : list[i].match = history[i].match
      /\ {list[i] : i \in 2 .. Len(list)} = {history[i] : i \in 2 .. Len(history)}
  <2>1. ASSUME NEW a \in Seq(Entries), NEW b, Alike(a, b)
        PROVE  /\ DOMAIN b = DOMAIN a /\ \A i \in DOMAIN a : b[i].match = a[i].match
               /\ {b[i] : i \in 2 .. Len(b)} = {a[i] : i \in 2 .. Len(a)}
      BY <2>1, AlikeFacts
  <2> QED BY <1>1, <2>1
<1>5. /\ history' \in Seq(Entries) /\ Len(history') <= MaxLen /\ Len(history') \in Nat
      /\ 1 <= Len(history') /\ Len(history') <= Len(list) + 1
      /\ history'[1] = info /\ \A i \in 2 .. Len(history') : history'[i] = list[i - 1]
      /\ DOMAIN history' = 1 .. Len(history') /\ DOMAIN list = 1 .. Len(list)
  <2>1. Len(list) <= MaxLen
      BY <1>1
  <2> DEFINE new == add(info, list)
  <2>2. /\ new \in Seq(Entries) /\ Len(new) <= MaxLen
        /\ 1 <= Len(new) /\ Len(new) <= Len(list) + 1
        /\ new[1] = info /\ \A i \in 2 .. Len(new) : new[i] = list[i - 1]
      BY <1>1, <2>1, AddFacts
  <2>3. history' = new
      OBVIOUS
  <2> HIDE DEF new
  <2> QED BY <1>1, <2>2, <2>3
<1> HIDE DEF n, t
<1>6. /\ \A i \in 2 .. Len(history') : i - 1 \in DOMAIN list /\ history'[i] = list[i - 1]
                                       /\ i \in DOMAIN history'
      /\ \A i \in DOMAIN history' : i = 1 \/ i \in 2 .. Len(history')
      /\ 1 \in DOMAIN history' /\ info = history'[1]
  <2>1. \A i \in 2 .. Len(history') : i - 1 \in 1 .. Len(list)
      BY <1>1, <1>5
  <2>2. \A i \in DOMAIN history' : i = 1 \/ i \in 2 .. Len(history')
      BY <1>5
  <2> QED BY <1>5, <2>1, <2>2
<1>7. \A i \in DOMAIN list : /\ EntryInv(list[i]) /\ list[i] \in Entries
                             /\ list[i].match < n /\ list[i].match \in Nat
                             /\ list[i].end # None => list[i].end <= t
  <2>1. \A i \in DOMAIN list : EntryInv(list[i]) /\ list[i] \in Entries
      BY <1>1 DEF InOrder
  <2> QED BY <1>3, <2>1, EntryFacts DEF EntryInv, n, t
<1>8. \A i \in DOMAIN list : list[i].end # None
  <2>1. \A i \in 2 .. Len(list) : list[i].end # None
      BY DEF InOrder
  <2>2. \A i \in DOMAIN list : i = 1 \/ i \in 2 .. Len(list)
      BY <1>5
  <2>3. 1 \in DOMAIN list => list # <<>>
      BY <1>1
  <2> QED BY <2>1, <2>2, <2>3
<1>9. \A j \in queue' : j \in queue \/ (2 \in 2 .. Len(history') /\ j.info = history'[2])
    BY <1>5, QueueFacts
<1>10. TypeInv'
  <2>1. queue' \subseteq [due : Nat, info : Entries]
      BY <1>5, QueueFacts
  <2>2. opened' \subseteq MatchNums
      BY <1>1, <1>3 DEF n
  <2> QED BY <1>1, <1>2, <1>5, <2>1, <2>2 DEF TypeInv, Handled
<1>11. EntryInv(info)'
    BY <1>1, <1>3 DEF EntryInv, n, t
<1>12. HistoryInv'
  <2>1. ASSUME NEW h, NEW i \in DOMAIN history', h = history'[i] PROVE EntryInv(h)'
    <3>1. CASE i = 1
        BY <1>6, <1>11, <2>1, <3>1 DEF EntryInv
    <3>2. CASE i # 1
        BY <1>2, <1>6, <1>7, <2>1, <3>2
    <3> QED BY <3>1, <3>2
  <2>2. ASSUME NEW i \in DOMAIN history', NEW j \in DOMAIN history', i < j
        PROVE  history'[j].match < history'[i].match
    <3>1. j \in 2 .. Len(history') /\ j - 1 \in DOMAIN list /\ history'[j] = list[j - 1]
        BY <1>5, <1>6, <2>2
    <3>2. CASE i = 1
        BY <1>6, <1>7, <3>1, <3>2 DEF n
    <3>3. CASE i # 1
      <4>1. i - 1 \in DOMAIN list /\ history'[i] = list[i - 1] /\ i - 1 < j - 1
          BY <1>5, <1>6, <2>2, <3>3
      <4> QED BY <3>1, <4>1 DEF InOrder
    <3> QED BY <3>2, <3>3
  <2>3. ASSUME NEW i \in 2 .. Len(history')
        PROVE  history'[i - 1].start # None /\ history'[i].end # None
               /\ history'[i].end <= history'[i - 1].start
    <3>1. i - 1 \in DOMAIN list /\ history'[i] = list[i - 1]
        BY <1>6
    <3>2. CASE i = 2
      <4>1. history'[i - 1] = info /\ info.start = t
        <5>1. i - 1 = 1
            BY <3>2
        <5> QED BY <1>6, <5>1 DEF t
      <4>2. t # None
        <5>1. t \in Times
            BY <1>3
        <5> HIDE DEF t
        <5> QED BY <5>1, Numbers
      <4> QED BY <1>7, <1>8, <3>1, <4>1, <4>2
    <3>3. CASE i # 2
      <4>1. i - 1 \in 2 .. Len(history') /\ i - 1 \in 2 .. Len(list)
          BY <1>1, <1>5, <3>3
      <4>2. history'[i - 1] = list[(i - 1) - 1]
          BY <1>6, <4>1
      <4> QED BY <3>1, <4>1, <4>2 DEF InOrder
    <3> QED BY <3>2, <3>3
  <2>4. \A i \in DOMAIN history' : EntryInv(history[i])'
      BY <2>1
  <2> QED BY <2>2, <2>3, <2>4 DEF HistoryInv, InOrder
<1>13. \A x \in Settled' : x \in Settled \/ (x = list[1] /\ 1 \in DOMAIN list)
  <2>1. ASSUME NEW i \in 2 .. Len(history')
        PROVE  history'[i] \in Settled \/ (history'[i] = list[1] /\ 1 \in DOMAIN list)
    <3>1. i - 1 \in DOMAIN list /\ history'[i] = list[i - 1]
        BY <1>6
    <3>2. i - 1 = 1 \/ i - 1 \in 2 .. Len(list)
        BY <1>5, <3>1
    <3>3. i - 1 \in 2 .. Len(list) => history'[i] \in {list[k] : k \in 2 .. Len(list)}
        BY <3>1
    <3> QED BY <1>4, <3>1, <3>2, <3>3 DEF Settled
  <2>2. ASSUME NEW j \in queue' PROVE j.info \in Settled \/ \E i \in 2 .. Len(history') : j.info = history'[i]
      BY <1>9 DEF Settled
  <2> QED BY <1>1, <2>1, <2>2 DEF Settled
<1>14. \A x \in Settled' : Past(x)' /\ x.match < n
  <2>1. ASSUME NEW x \in Settled PROVE Past(x)' /\ x.match < n
      BY <1>1, <1>2, <1>3 DEF SettledInv, Past, n
  <2>2. ASSUME 1 \in DOMAIN list, NEW x, x = list[1] PROVE Past(x)' /\ x.match < n
    <3>1. x.match < n /\ EntryInv(x) /\ x.match \in Nat
        BY <1>7, <2>2
    <3>2. Len(match) \in Nat
        BY <1>1, MatchFacts
    <3>3. x.match < Len(match)
        BY <1>3, <3>1, <3>2
    <3>4. \A l \in Pending' : l.match \in Nat
        BY <1>1, <1>2, PendingFacts, LineFacts
    <3>5. \A l \in Pending' : x.match < l.match
        BY <1>3, <3>1, <3>4
    <3> QED BY <1>1, <3>1, <3>3, <3>5 DEF Past, EntryInv
  <2> QED BY <1>13, <2>1, <2>2
<1>15. SettledInv'
  <2>1. \A m : NoLaterLost(m)' <=> NoLaterLost(m)
      BY <1>1 DEF NoLaterLost
  <2>2. ASSUME NEW x \in Settled', NEW y \in Settled', x.match = y.match, NoLaterLost(x.match)
        PROVE  SameGame(x, y)
    <3>1. ASSUME NEW z \in Settled, 1 \in DOMAIN list, z.match = list[1].match
          PROVE  ~NoLaterLost(z.match)
        BY <1>1, <1>4, <3>1 DEF SettledInv
    <3>2. CASE x \in Settled /\ y \in Settled
        BY <1>1, <2>2, <3>2 DEF SettledInv
    <3>3. CASE x \notin Settled /\ y \in Settled
        BY <1>13, <2>2, <3>1, <3>3
    <3>4. CASE x \in Settled /\ y \notin Settled
        BY <1>13, <2>2, <3>1, <3>4
    <3>5. CASE x \notin Settled /\ y \notin Settled
        BY <1>13, <3>5 DEF SameGame
    <3> QED BY <3>2, <3>3, <3>4, <3>5
  <2>3. ASSUME NEW i \in DOMAIN history', NEW x \in Settled', i = 1
        PROVE  x.match # history'[i].match
    <3>1. history'[i].match = n
        BY <1>6, <2>3 DEF n
    <3> QED BY <1>3, <1>14, <3>1
  <2> QED BY <1>1, <1>14, <2>1, <2>2, <2>3 DEF SettledInv, SameGame, NoLaterLost
<1>16. Entered' \subseteq Entered \cup {n}
    BY <1>1 DEF Entered, n
<1>17. OpenedInv'
  <2>1. \A m \in opened : m \in Nat /\ m <= n
      BY <1>1, <1>3, Numbers DEF OpenedInv, n
  <2>2. \A m \in opened', l \in Pending' : m <= l.match /\ (l.kind = "start" => m < l.match)
      BY <1>1, <1>2, <1>3 DEF OpenedInv, n
  <2>3. \A m \in opened' : m <= Len(match')
      BY <1>1, <1>3 DEF OpenedInv, n
  <2>4. ASSUME NEW m \in Entered', NEW i \in DOMAIN history'
        PROVE  m <= history'[i].match \/ \E j \in DOMAIN history' : j < i /\ history'[j].match = m
    <3>1. CASE i = 1
      <4>1. history'[i].match = n
          BY <1>6, <3>1 DEF n
      <4>2. m <= n
          BY <1>3, <1>16, <2>1, <2>4 DEF Entered
      <4> QED BY <4>1, <4>2
    <3>2. CASE i # 1
      <4>1. /\ i - 1 \in DOMAIN history /\ history'[i].match = history[i - 1].match
            /\ i \in Nat /\ 1 < i
          BY <1>4, <1>5, <1>6, <3>2
      <4>2. CASE m = n
          BY <1>6, <4>1, <4>2 DEF n
      <4>3. CASE m \in Entered
        <5>1. m <= history[i - 1].match \/ \E j \in DOMAIN history : j < i - 1 /\ history[j].match = m
            BY <1>1, <4>1, <4>3 DEF OpenedInv
        <5>2. ASSUME NEW j \in DOMAIN history, j < i - 1, history[j].match = m
              PROVE  \E k \in DOMAIN history' : k < i /\ history'[k].match = m
          <6>1. j + 1 \in 2 .. Len(history') /\ j + 1 < i /\ (j + 1) - 1 = j
              BY <1>1, <1>4, <1>5, <4>1, <5>2
          <6>2. history'[j + 1] = list[j] /\ j + 1 \in DOMAIN history'
              BY <1>6, <6>1
          <6> QED BY <1>4, <5>2, <6>1, <6>2
        <5> QED BY <4>1, <5>1, <5>2
      <4> QED BY <1>16, <4>2, <4>3
    <3> QED BY <3>1, <3>2
  <2> QED BY <2>2, <2>3, <2>4 DEF OpenedInv
<1>18. ASSUME NEW k, NEW p, NEW v, Backed(k, p, v) PROVE Backed(k, p, v)'
  <2>1. PICK m \in MatchNums :
            /\ k <= m /\ m <= Len(match) /\ (k + 1) .. m \cap Entered = {}
            /\ v <= best[m][p]
            /\ \A l \in Pending : l.kind = "start" => m < l.match
      BY <1>18 DEF Backed
  <2>2. m < n /\ m \in Nat
      BY <1>3, <2>1, Numbers DEF n
  <2>3. n \notin (k + 1) .. m
      BY <1>3, <2>2
  <2>4. (k + 1) .. m \cap Entered' = {}
      BY <1>16, <2>1, <2>3
  <2> QED BY <1>1, <1>2, <2>1, <2>4 DEF Backed
<1>19. ASSUME NEW p \in Players, NEW k, k = n PROVE Backed(k, p, 0)'
  <2>1. best[n][p] \in Nat
      BY <1>1, <1>3, BestFacts
  <2>2. (n + 1) .. n \cap Entered' = {}
      BY <1>3
  <2> QED BY <1>1, <1>3, <1>19, <2>1, <2>2 DEF Backed
<1>20. BackedInv'
  <2>1. ASSUME NEW i \in DOMAIN list, NEW p \in Players
        PROVE  Backed(list[i].match, p, list[i].scores[p])
      BY <1>1, <1>4, <2>1 DEF BackedInv
  <2>2. ASSUME NEW k, NEW v, NEW i \in DOMAIN history', NEW p \in Players,
               k = history'[i].match, v = history'[i].scores[p]
        PROVE  Backed(k, p, v)'
    <3>1. CASE i = 1
      <4>1. k = n /\ v = 0
          BY <1>6, <2>2, <3>1 DEF n
      <4> QED BY <1>19, <4>1
    <3>2. CASE i # 1
        BY <1>6, <1>18, <2>1, <2>2, <3>2
    <3> QED BY <3>1, <3>2
  <2>3. \A i \in DOMAIN history', p \in Players : Backed(history[i].match, p, history[i].scores[p])'
      BY <2>2 DEF Backed
  <2>4. ASSUME NEW j \in queue', NEW p \in Players PROVE Backed(j.info.match, p, j.info.scores[p])'
      BY <1>1, <1>6, <1>9, <1>18, <2>1, <2>4 DEF BackedInv
  <2>5. \A s \in stats : Backed(s.game.match, s.player, s.combat)'
      BY <1>1, <1>18 DEF BackedInv
  <2> QED BY <1>1, <2>3, <2>4, <2>5 DEF BackedInv
<1> QED BY <1>2, <1>10, <1>12, <1>15, <1>17, <1>20 DEF IInv

\* An end line finds the list empty.
LEMMA StepCreate ==
    ASSUME IInv, Handled("end"), UNCHANGED <<ghosts, queue>>, history = <<>>, NEW name,
           name \in Maps,
           history' = save_map_end(history, name, Head(lines).time, Head(lines).match)
    PROVE  IInv'
<1> DEFINE n == Head(lines).match
           t == Head(lines).time
           e == [Info(name, None, TRUE, n) EXCEPT !.end = t]
<1>1. /\ TypeInv /\ SettledInv /\ OpenedInv /\ BackedInv /\ Take("end")
      /\ UNCHANGED <<now, match, zeroed, score, best, loop, fetched, games, stats, opened, lost,
                     queue>>
    BY DEF IInv, Handled, ghosts
<1>2. /\ MatchInv' /\ LineInv' /\ ScoreInv' /\ Pending' \subseteq Pending /\ lines' \in Seq(Lines)
      /\ \A x : Past(x) => Past(x)'
    BY HandledKeeps
<1>3. /\ Head(lines) \in Pending
      /\ n \in Nat /\ n >= 1 /\ n \in MatchNums /\ n <= Len(match) /\ n \in DOMAIN match
      /\ t \in Times /\ t \in Nat /\ t <= now
      /\ \A l \in Pending' : n <= l.match /\ (l.kind = "start" => n < l.match) /\ t <= l.time
    BY <1>1, HeadFacts
<1>4. history' = <<e>>
    BY DEF save_map_end
<1>5. /\ e \in Entries /\ e.match = n /\ e.start = None /\ e.end = t /\ e.guessed = TRUE
      /\ \A p \in Players : e.scores[p] = 0
    BY <1>3, ZeroFacts DEF Info, Entries
<1> HIDE DEF e, n, t
<1>6. /\ history' \in Seq(Entries) /\ Len(history') = 1 /\ DOMAIN history' = {1}
      /\ history'[1] = e
  <2>1. <<e>> \in Seq(Entries) /\ Len(<<e>>) = 1 /\ <<e>>[1] = e
      BY <1>5
  <2>2. DOMAIN <<e>> = 1 .. 1
      OBVIOUS
  <2>3. 1 .. 1 = {1}
      OBVIOUS
  <2> QED BY <1>4, <2>1, <2>2, <2>3
<1>7. TypeInv'
  <2>1. 1 <= MaxLen
      BY Numbers
  <2> QED BY <1>1, <1>2, <1>6, <2>1 DEF TypeInv, Handled
<1>9. HistoryInv'
  <2>1. ASSUME NEW h, h = e PROVE EntryInv(h)'
      BY <1>1, <1>3, <1>5, <2>1 DEF EntryInv
  <2>2. \A i \in DOMAIN history' : EntryInv(history[i])'
      BY <1>6, <2>1
  <2>3. 2 .. 1 = {} /\ ~(1 < 1)
      OBVIOUS
  <2> QED BY <1>6, <2>2, <2>3 DEF HistoryInv, InOrder
<1>10. Settled' \subseteq Settled
  <2>1. 2 .. 1 = {}
      OBVIOUS
  <2>2. {history'[i] : i \in 2 .. Len(history')} = {}
      BY <1>6, <2>1
  <2> QED BY <1>1, <2>2 DEF Settled
<1>11. SettledInv'
  <2>1. \A m : NoLaterLost(m)' <=> NoLaterLost(m)
      BY <1>1 DEF NoLaterLost
  <2>2. \A x \in Settled : x.match \in Nat /\ x.match < n
      BY <1>1, <1>3, SettledType DEF SettledInv, Past, n
  <2>3. \A x \in Settled' : x.match # history'[1].match
      BY <1>3, <1>5, <1>6, <1>10, <2>2
  <2> QED BY <1>1, <1>2, <1>6, <1>10, <2>1, <2>3 DEF SettledInv, SameGame, NoLaterLost
<1>12. OpenedInv'
  <2>1. \A m \in opened : m <= n
      BY <1>1, <1>3 DEF OpenedInv, n
  <2> QED BY <1>1, <1>2, <1>5, <1>6, <2>1 DEF OpenedInv, Entered
<1>13. \A k, p, v : Backed(k, p, v) => Backed(k, p, v)'
    BY <1>1, <1>2 DEF Backed, Entered
<1>14. ASSUME NEW p \in Players, NEW k, k = n PROVE Backed(k, p, 0)'
  <2>1. best[n][p] \in Nat
      BY <1>1, <1>3, BestFacts
  <2>2. (n + 1) .. n \cap Entered' = {}
      BY <1>3
  <2> QED BY <1>1, <1>3, <1>14, <2>1, <2>2 DEF Backed
<1>15. BackedInv'
  <2>1. ASSUME NEW k, NEW v, NEW i \in DOMAIN history', NEW p \in Players,
               k = history'[i].match, v = history'[i].scores[p]
        PROVE  Backed(k, p, v)'
    <3>1. k = n /\ v = 0
        BY <1>5, <1>6, <2>1
    <3> QED BY <1>14, <3>1
  <2>2. \A i \in DOMAIN history', p \in Players : Backed(history[i].match, p, history[i].scores[p])'
      BY <2>1 DEF Backed
  <2> QED BY <1>1, <1>13, <2>2 DEF BackedInv
<1> QED BY <1>2, <1>7, <1>9, <1>11, <1>12, <1>15 DEF IInv

\* The entry that a start line opens.
LEMMA OpenKeeps ==
    ASSUME IInv, Handled("start"), OpenEntry, Queues(history')
    PROVE  IInv'
<1> DEFINE line == Head(lines)
<1>1. TypeInv /\ MatchInv /\ Take("start")
    BY DEF IInv, Handled
<1>2. PICK current \in MapsTold :
          history' = add(Info(NameOf(line, current).name, line.time, NameOf(line, current).guessed,
                              line.match), CloseOpen(history, line))
    BY DEF OpenEntry
<1> DEFINE name == NameOf(line, current).name
           guessed == NameOf(line, current).guessed
           info == Info(name, line.time, guessed, line.match)
           list == CloseOpen(history, line)
<1>3. /\ InOrder(list) /\ Alike(history, list) /\ (list # <<>> => list[1].end # None)
      /\ \A i \in DOMAIN history : list[i].scores = history[i].scores
    BY <1>1, CloseInOrder
<1>4. /\ line.match \in MatchNums /\ line.match \in DOMAIN match /\ line.match <= Len(match)
      /\ line.time \in Times /\ line.time \in Nat /\ line.time <= now
      /\ line.time = match[line.match].start
    BY <1>1, HeadFacts
<1>5. match # <<>> /\ Current \in Matches /\ Current.start <= now /\ Current.start \in Nat
      /\ Len(match) \in DOMAIN match /\ match[Len(match)] = Current
  <2>1. match # <<>>
      BY <1>1, <1>4, MatchFacts DEF TypeInv
  <2> QED BY <1>1, <2>1, CurrentFacts DEF Current
<1>6. /\ current \in Maps \cup {NoMap} /\ (current \in Maps => current = Current.map)
      /\ LogMap[match[line.match].map] \in Maps \cup {Unknown}
  <2>1. match[line.match].map \in Maps /\ Current.map \in Maps
      BY <1>1, <1>4, <1>5, MatchFacts DEF Matches
  <2> QED BY <2>1, HistoryAssumption DEF MapsTold
<1>7. /\ name \in Maps \cup {Unknown, NoMap} /\ guessed \in BOOLEAN
      /\ ~guessed => name = current /\ current \in Maps /\ now - line.time < FreshStart
    BY <1>6 DEF NameOf
<1> HIDE DEF name, guessed, list
<1>8. /\ info \in Entries /\ info.match = line.match /\ info.start = line.time
      /\ info.end = None /\ (\A p \in Players : info.scores[p] = 0)
      /\ info.guessed = guessed /\ info.name = name
    BY <1>4, <1>7, ZeroFacts DEF Info, Entries
<1> HIDE DEF info
<1>9. info.guessed \/ \E m \in DOMAIN match :
          /\ m >= info.match /\ match[m].map = info.name
          /\ match[m].start <= match[info.match].start + FreshStart
  <2> SUFFICES ASSUME ~guessed PROVE \E m \in DOMAIN match :
          /\ m >= info.match /\ match[m].map = info.name
          /\ match[m].start <= match[info.match].start + FreshStart
      BY <1>8
  <2>1. Current.map = info.name
      BY <1>6, <1>7, <1>8
  <2>2. now <= line.time + FreshStart
    <3>1. now \in Nat /\ FreshStart \in Nat /\ line.time \in Nat /\ now - line.time < FreshStart
        BY <1>1, <1>4, <1>7, NowFacts, Numbers
    <3> HIDE DEF line
    <3> QED BY <3>1
  <2>3. Current.start <= match[info.match].start + FreshStart
    <3>1. match[info.match].start = line.time
        BY <1>4, <1>8
    <3>2. /\ now \in Nat /\ Current.start \in Nat /\ Current.start <= now
          /\ line.time \in Nat /\ FreshStart \in Nat
        BY <1>1, <1>4, <1>5, NowFacts, Numbers
    <3> HIDE DEF line
    <3>3. Current.start <= line.time + FreshStart
        BY <2>2, <3>2
    <3> QED BY <3>1, <3>3
  <2>4. Len(match) >= info.match
      BY <1>4, <1>8, <1>1, MatchFacts, Numbers
  <2> QED BY <1>5, <2>1, <2>3, <2>4
<1>10. history' = add(info, list)
    BY <1>2 DEF info, list, name, guessed
<1>11. opened' = opened \cup {line.match} /\ lost' = lost
    BY DEF OpenEntry
<1> QED BY <1>3, <1>8, <1>9, <1>10, <1>11, StepOpen

LEMMA HandleStartKeeps ==
    ASSUME IInv, HandleStart
    PROVE  IInv'
<1>1. Handled("start") /\ OpenEntry
    BY DEF IInv, TypeInv, HandleStart, Handled, iteration, tables
<1>2. Queues(history')
    BY DEF HandleStart, QueuePrevious, Queues
<1> QED BY <1>1, <1>2, OpenKeeps

\* A fault more.
LEMMA FaultFacts ==
    ASSUME TypeInv, faults < MaxFaults
    PROVE  faults + 1 \in 0 .. MaxFaults
<1>1. faults \in 0 .. MaxFaults
    BY DEF TypeInv
<1> QED BY <1>1, Numbers

\* The handler fails before it has an entry to save.
LEMMA FailKeeps ==
    ASSUME IInv, Handled("start"), UNCHANGED ghosts,
           history' \in {history, CloseOpen(history, Head(lines))}, Queues(history')
    PROVE  IInv'
<1>1. Take("start")
    BY DEF Handled
<1>2. CASE history' = history
  <2>1. history \in Seq(Entries) /\ HistoryInv
      BY DEF IInv, TypeInv
  <2>2. Alike(history, history') /\ InOrder(history')
      BY <1>2, <2>1 DEF Alike, HistoryInv
  <2>3. \A i \in DOMAIN history : history'[i].scores = history[i].scores
      BY <1>2
  <2> QED BY <2>2, <2>3, StepSame
<1>3. CASE history' = CloseOpen(history, Head(lines))
  <2>1. /\ InOrder(history') /\ Alike(history, history')
        /\ \A i \in DOMAIN history : history'[i].scores = history[i].scores
      BY <1>1, <1>3, CloseInOrder
  <2> QED BY <2>1, StepSame
<1> QED BY <1>2, <1>3

LEMMA StartRaisesKeeps ==
    ASSUME IInv, StartRaises
    PROVE  IInv'
<1>1. TypeInv /\ faults < MaxFaults /\ faults' = faults + 1
    BY DEF IInv, StartRaises
<1>2. Handled("start")
    BY <1>1, FaultFacts DEF StartRaises, Handled, iteration, tables
<1>3. Queues(history')
    BY DEF StartRaises, QueuePrevious, Queues
<1> QED BY <1>2, <1>3, FailKeeps DEF StartRaises

LEMMA CrashInStartKeeps ==
    ASSUME IInv, CrashInStart
    PROVE  IInv'
<1>1. TypeInv /\ faults < MaxFaults /\ faults' = faults + 1
    BY DEF IInv, CrashInStart
<1>2. Handled("start")
    BY <1>1, FaultFacts DEF CrashInStart, Handled, iteration, tables
<1>3. UNCHANGED queue /\ Queues(history')
    BY DEF CrashInStart, Queues
<1>4. CASE history' \in {history, CloseOpen(history, Head(lines))} /\ UNCHANGED ghosts
    BY <1>2, <1>3, <1>4, FailKeeps
<1>5. CASE CloseOpen(history, Head(lines)) # history /\ LoseNewest
  <2>1. history # <<>>
      BY <1>5 DEF CloseOpen
  <2> QED BY <1>2, <1>3, <1>5, <2>1, StepLose
<1>6. CASE OpenEntry
    BY <1>2, <1>3, <1>6, OpenKeeps
<1> QED BY <1>4, <1>5, <1>6 DEF CrashInStart

LEMMA HandleEndKeeps ==
    ASSUME IInv, HandleEnd
    PROVE  IInv'
<1> DEFINE line == Head(lines)
<1>1. /\ TypeInv /\ MatchInv /\ HistoryInv /\ Handled("end") /\ Take("end")
      /\ UNCHANGED <<ghosts, queue>> /\ Queues(history')
    BY DEF IInv, TypeInv, HandleEnd, Handled, iteration, tables, Queues
<1>2. PICK current \in MapsTold :
          history' = IF EndCounts(line, current)
                     THEN save_map_end(history, current, line.time, line.match)
                     ELSE history
    BY DEF HandleEnd
<1>3. CASE ~EndCounts(line, current)
  <2>1. history' = history /\ history \in Seq(Entries)
      BY <1>1, <1>2, <1>3 DEF TypeInv
  <2>2. Alike(history, history') /\ InOrder(history')
      BY <1>1, <2>1 DEF Alike, HistoryInv
  <2>3. \A i \in DOMAIN history : history'[i].scores = history[i].scores
      BY <2>1
  <2> QED BY <1>1, <2>2, <2>3, StepSame
<1>4. CASE EndCounts(line, current) /\ history = <<>>
  <2>1. current \in Maps
      BY <1>4 DEF EndCounts
  <2> QED BY <1>1, <1>2, <1>4, <2>1, StepCreate
<1>5. CASE EndCounts(line, current) /\ history # <<>>
  <2> DEFINE h == history[1]
  <2>1. /\ line.time \in Times /\ line.time <= now /\ line \in Pending
        /\ line.match \in DOMAIN match /\ line.time \in Nat
        /\ match[line.match].start <= line.time /\ \A l \in Pending : line.time <= l.time
      BY <1>1, HeadFacts
  <2>2. ASSUME h.start # None PROVE ~(line.time < h.start)
    <3>1. h \in Entries /\ EntryInv(h)
        BY <1>1, <1>5 DEF HistoryInv, InOrder, TypeInv
    <3>2. h.start = match[h.match].start /\ h.match <= line.match /\ h.match \in DOMAIN match
        BY <1>1, <2>1, <2>2, <3>1, EntryFacts, MatchFacts DEF EntryInv
    <3>3. h.start <= match[line.match].start /\ h.start \in Nat /\ match[line.match].start \in Nat
        BY <1>1, <2>1, <3>2, MatchFacts DEF MatchInv
    <3> QED BY <2>1, <3>3
  <2>3. /\ InOrder(history') /\ Alike(history, history')
        /\ \A i \in DOMAIN history : history'[i].scores = history[i].scores
      BY <1>2, <1>5, <2>1, <2>2, EndInOrder
  <2> QED BY <1>1, <2>3, StepSame
<1> QED BY <1>3, <1>4, <1>5

LEMMA CrashInEndKeeps ==
    ASSUME IInv, CrashInEnd
    PROVE  IInv'
<1>1. TypeInv /\ faults < MaxFaults /\ faults' = faults + 1
    BY DEF IInv, CrashInEnd
<1>2. Handled("end")
    BY <1>1, FaultFacts DEF CrashInEnd, Handled, iteration, tables
<1> QED BY <1>2, StepLose DEF CrashInEnd

-----------------------------------------------------------------------------
(* The games are stored.                                                   *)

\* Only the tables and the queue change: a game that is stored is that of a
\* job, and none there is has its key.
LEMMA StoreKeeps ==
    ASSUME IInv, UNCHANGED <<server, history, iteration, ghosts>>, queue' \subseteq queue,
           faults' \in 0 .. MaxFaults,
           \A g \in games' : g \in games \/
              \E j \in queue : g = NewRow(j.info) /\ j.info.start # None
                               /\ \A k \in games : ~SameGame(k, j.info),
           games \subseteq games', \A g, h \in games' \ games : g = h,
           \A s \in stats' : /\ s.game \in games' /\ s.player \in Players
                             /\ s.combat \in 0 .. MaxScore
                             /\ Backed(s.game.match, s.player, s.combat),
           \A s, t \in stats' : s.game = t.game /\ s.player = t.player => s = t
    PROVE  IInv'
<1>1. /\ TypeInv /\ MatchInv /\ LineInv /\ HistoryInv /\ SettledInv /\ ScoreInv /\ OpenedInv
      /\ BackedInv
      /\ UNCHANGED <<now, match, zeroed, score, lines, best, history, loop, fetched, opened, lost>>
    BY DEF IInv, server, iteration, ghosts
<1>2. Pending' = Pending /\ Entered' = Entered /\ (JustStarted' <=> JustStarted)
    BY <1>1 DEF Pending, Entered, JustStarted, Current
<1>3. MatchInv' /\ LineInv' /\ ScoreInv' /\ OpenedInv'
    BY <1>1, <1>2 DEF MatchInv, LineInv, ScoreInv, Of, OpenedInv
<1>4. HistoryInv'
    BY <1>1, <1>2 DEF HistoryInv, InOrder, EntryInv
<1>5. \A j \in queue : j.info \in Entries /\ j.info \in Settled
    BY <1>1 DEF TypeInv, Settled
<1>6. ASSUME NEW info \in Entries
      PROVE  LET g == NewRow(info) IN
             /\ g.match = info.match /\ g.start = info.start /\ g.end = info.end
             /\ g.name = info.name /\ g.guessed = info.guessed /\ g.scores = info.scores
    BY DEF NewRow, Entries
<1>7. ASSUME NEW g \in games', g \notin games
      PROVE  \E x \in Settled : /\ SameGame(g, x) /\ SameGame(x, g) /\ g.match = x.match
                                /\ g.start # None /\ \A k \in games : ~SameGame(k, x)
                                /\ g.name \in Maps \cup {Unknown, NoMap}
                                /\ g.start \in Times \cup {None}
                                /\ g.guessed \in BOOLEAN /\ g.scores \in ScoreMaps
                                /\ g.match \in MatchNums
  <2>1. PICK j \in queue : g = NewRow(j.info) /\ j.info.start # None
                           /\ \A k \in games : ~SameGame(k, j.info)
      BY <1>7
  <2> DEFINE x == j.info
  <2>2. x \in Entries /\ x \in Settled
      BY <1>5
  <2> HIDE DEF x
  <2>3. /\ g.match = x.match /\ g.start = x.start /\ g.end = x.end /\ g.name = x.name
        /\ g.guessed = x.guessed /\ g.scores = x.scores
      BY <1>6, <2>1, <2>2 DEF x
  <2>4. /\ x.name \in Maps \cup {Unknown, NoMap} /\ x.start \in Times \cup {None}
        /\ x.guessed \in BOOLEAN /\ x.scores \in ScoreMaps /\ x.match \in MatchNums
      BY <2>2 DEF Entries
  <2>5. x.start # None /\ \A k \in games : ~SameGame(k, x)
      BY <2>1 DEF x
  <2> QED BY <2>2, <2>3, <2>4, <2>5 DEF SameGame
<1>8. TypeInv'
  <2>1. \A g \in games' :
          /\ g.name \in Maps \cup {Unknown, NoMap} /\ g.start \in Times \cup {None}
          /\ g.guessed \in BOOLEAN /\ g.scores \in ScoreMaps /\ g.match \in MatchNums
    <3> TAKE g \in games'
    <3>1. CASE g \in games
        BY <1>1, <3>1 DEF TypeInv
    <3>2. CASE g \notin games
        BY <1>7, <3>2
    <3> QED BY <3>1, <3>2
  <2> QED BY <1>1, <2>1 DEF TypeInv
<1>9. \A x \in Settled' : x \in Settled \/ (x \in games' /\ x \notin games)
  <2>1. {j.info : j \in queue'} \subseteq {j.info : j \in queue}
      OBVIOUS
  <2> QED BY <1>1, <2>1 DEF Settled
<1>10. ASSUME NEW x \in Settled' PROVE \E y \in Settled : SameGame(x, y) /\ SameGame(y, x)
                                                            /\ x.match = y.match
  <2>1. CASE x \in Settled
      BY <2>1 DEF SameGame
  <2>2. CASE x \notin Settled
      BY <1>7, <1>9, <2>2
  <2> QED BY <2>1, <2>2
<1>11. SettledInv'
  <2>1. \A m : NoLaterLost(m)' <=> NoLaterLost(m)
      BY <1>1 DEF NoLaterLost
  <2>2. ASSUME NEW x \in Settled' PROVE Past(x)'
    <3>1. PICK y \in Settled : SameGame(x, y) /\ x.match = y.match
        BY <1>10
    <3>2. Past(y)
        BY <1>1 DEF SettledInv
    <3> QED BY <1>1, <1>2, <3>1, <3>2 DEF Past, SameGame
  <2>3. ASSUME NEW x \in Settled', NEW y \in Settled', x.match = y.match, NoLaterLost(x.match)
        PROVE  SameGame(x, y)
    <3>1. PICK a \in Settled : SameGame(x, a) /\ SameGame(a, x) /\ x.match = a.match
        BY <1>10
    <3>2. PICK b \in Settled : SameGame(y, b) /\ SameGame(b, y) /\ y.match = b.match
        BY <1>10
    <3>3. SameGame(a, b)
        BY <1>1, <2>3, <3>1, <3>2 DEF SettledInv
    <3> QED BY <3>1, <3>2, <3>3 DEF SameGame
  <2>4. ASSUME NEW i \in DOMAIN history, NEW x \in Settled', i = 1, x.match = history[i].match
        PROVE  ~NoLaterLost(x.match)
    <3>1. PICK y \in Settled : x.match = y.match
        BY <1>10
    <3> QED BY <1>1, <2>4, <3>1 DEF SettledInv
  <2>5. \A g \in games' : g.start # None
      BY <1>1, <1>7 DEF SettledInv
  <2>6. ASSUME NEW g \in games', NEW h \in games, g \notin games, g.match = h.match
        PROVE  ~NoLaterLost(g.match)
    <3>1. PICK x \in Settled : g.match = x.match /\ \A k \in games : ~SameGame(k, x)
        BY <1>7, <2>6
    <3>2. h \in Settled /\ ~SameGame(h, x)
        BY <3>1 DEF Settled
    <3> QED BY <1>1, <2>6, <3>1, <3>2 DEF SettledInv
  <2>7. ASSUME NEW g \in games', NEW h \in games', g.match = h.match, NoLaterLost(g.match)
        PROVE  g = h
    <3>1. CASE g \in games /\ h \in games
        BY <1>1, <2>7, <3>1 DEF SettledInv
    <3>2. CASE g \notin games /\ h \notin games
        BY <3>2
    <3> QED BY <2>6, <2>7, <3>1, <3>2
  <2> QED BY <1>1, <2>1, <2>2, <2>3, <2>4, <2>5, <2>7 DEF SettledInv, SameGame, NoLaterLost
<1>12. \A k, p, v : Backed(k, p, v)' <=> Backed(k, p, v)
    BY <1>1, <1>2 DEF Backed
<1>13. BackedInv'
  <2>1. \A i \in DOMAIN history, p \in Players :
          Backed(history[i].match, p, history[i].scores[p])'
      BY <1>1, <1>2 DEF BackedInv, Backed
  <2>2. \A j \in queue, p \in Players : Backed(j.info.match, p, j.info.scores[p])'
      BY <1>1, <1>12 DEF BackedInv
  <2>3. \A s \in stats' : Backed(s.game.match, s.player, s.combat)'
      BY <1>12
  <2>4. \A s \in stats' : Backed(s.game.match, s.player, s.combat)
      OBVIOUS
  <2> QED BY <1>1, <1>12, <2>1, <2>2, <2>4 DEF BackedInv
<1> QED BY <1>3, <1>4, <1>8, <1>11, <1>13 DEF IInv

\* The rows that are written: a player has the score that is given, else the
\* score it had, else none.
LEMMA WrittenFacts ==
    ASSUME NEW game, NEW seen \in SUBSET Players, NEW given, NEW force \in BOOLEAN,
           \A s, t \in stats : s.game = t.game /\ s.player = t.player => s = t
    PROVE  LET new == record_stats_from_map(game, seen, given, force) IN
           /\ \A s \in new : s \in stats \/
                 /\ s.game = game /\ s.player \in Players
                 /\ s.player \in DOMAIN given => s.combat = given[s.player]
                 /\ s.player \notin DOMAIN given =>
                       \/ s.combat = 0
                       \/ \E t \in stats : t.game = game /\ t.player = s.player /\ t.combat = s.combat
           /\ \A s, t \in new : s.game = t.game /\ s.player = t.player => s = t
           /\ DOMAIN given = {} \/ ~force =>
                 \A s \in stats : \E t \in new :
                    t.game = s.game /\ t.player = s.player /\ t.combat = s.combat
<1> DEFINE updated == {p \in seen : force \/ RowsOf(game, p) = {}}
           Combat(p) == IF p \in DOMAIN given THEN given[p]
                        ELSE IF RowsOf(game, p) # {}
                             THEN (CHOOSE s \in RowsOf(game, p) : TRUE).combat
                             ELSE 0
           kept == {s \in stats : ~(s.game = game /\ s.player \in updated)}
           Row(p) == [game |-> game, player |-> p, combat |-> Combat(p)]
           new == kept \cup {Row(p) : p \in updated}
<1>1. record_stats_from_map(game, seen, given, force) = new
    BY DEF record_stats_from_map
<1>2. \A p \in updated : p \in Players /\ (force \/ RowsOf(game, p) = {})
    OBVIOUS
<1>3. ASSUME NEW p, p \notin DOMAIN given
      PROVE  Combat(p) = 0 \/ \E t \in stats : t.game = game /\ t.player = p /\ t.combat = Combat(p)
  <2>1. CASE RowsOf(game, p) = {}
      BY <1>3, <2>1
  <2>2. CASE RowsOf(game, p) # {}
    <3> DEFINE s == CHOOSE s \in RowsOf(game, p) : TRUE
    <3>1. s \in RowsOf(game, p) /\ Combat(p) = s.combat
        BY <1>3, <2>2
    <3> QED BY <3>1 DEF RowsOf
  <2> QED BY <2>1, <2>2
<1>4. ASSUME NEW s \in stats, s.game = game, s.player \notin DOMAIN given
      PROVE  Combat(s.player) = s.combat
  <2> DEFINE t == CHOOSE t \in RowsOf(game, s.player) : TRUE
  <2>1. s \in RowsOf(game, s.player)
      BY <1>4 DEF RowsOf
  <2>2. t \in RowsOf(game, s.player) /\ Combat(s.player) = t.combat
      BY <1>4, <2>1
  <2> QED BY <1>4, <2>2 DEF RowsOf
<1>5. \A p \in updated : p \in DOMAIN given => Combat(p) = given[p]
    OBVIOUS
<1> HIDE DEF Combat, updated
<1>6. \A p : Row(p).game = game /\ Row(p).player = p /\ Row(p).combat = Combat(p)
    OBVIOUS
<1> HIDE DEF Row
<1>7. \A s \in new : s \in stats \/
         /\ s.game = game /\ s.player \in Players
         /\ s.player \in DOMAIN given => s.combat = given[s.player]
         /\ s.player \notin DOMAIN given =>
               \/ s.combat = 0
               \/ \E t \in stats : t.game = game /\ t.player = s.player /\ t.combat = s.combat
  <2> SUFFICES ASSUME NEW p \in updated
               PROVE  /\ Row(p).game = game /\ Row(p).player \in Players
                      /\ Row(p).player \in DOMAIN given => Row(p).combat = given[Row(p).player]
                      /\ Row(p).player \notin DOMAIN given =>
                            \/ Row(p).combat = 0
                            \/ \E t \in stats : /\ t.game = game /\ t.player = Row(p).player
                                                /\ t.combat = Row(p).combat
      OBVIOUS
  <2>1. Row(p).game = game /\ Row(p).player = p /\ Row(p).combat = Combat(p) /\ p \in Players
      BY <1>2, <1>6
  <2> QED BY <1>3, <1>5, <2>1
<1>8. ASSUME NEW s \in new, NEW t \in new, s.game = t.game, s.player = t.player
      PROVE  s = t
  <2>1. \A r \in new : \/ r \in stats /\ ~(r.game = game /\ r.player \in updated)
                       \/ \E p \in updated : r = Row(p)
      OBVIOUS
  <2> HIDE DEF new
  <2>2. \A r \in new : (\E p \in updated : r = Row(p)) => r = Row(r.player) /\ r.game = game
                                                            /\ r.player \in updated
      BY <1>6
  <2> QED BY <1>8, <2>1, <2>2
<1>9. ASSUME DOMAIN given = {} \/ ~force, NEW s \in stats
      PROVE  \E t \in new : t.game = s.game /\ t.player = s.player /\ t.combat = s.combat
  <2>1. CASE ~(s.game = game /\ s.player \in updated)
      BY <2>1
  <2>2. CASE s.game = game /\ s.player \in updated
    <3>1. s \in RowsOf(game, s.player)
        BY <2>2 DEF RowsOf
    <3>2. force
        BY <1>2, <2>2, <3>1
    <3>3. Row(s.player) \in new
        BY <2>2
    <3>4. Combat(s.player) = s.combat
        BY <1>4, <1>9, <2>2, <3>2
    <3> QED BY <1>6, <2>2, <3>3, <3>4
  <2> QED BY <2>1, <2>2
<1> HIDE DEF new
<1> QED BY <1>1, <1>7, <1>8, <1>9

\* Two entries of one key are of one match, for no two matches start together.
LEMMA OneMatchPerKey ==
    ASSUME TypeInv, MatchInv, SettledInv, NEW x \in Settled, NEW y \in Settled,
           x.start # None, x.start = y.start
    PROVE  x.match = y.match
<1>1. /\ Past(x) /\ Past(y) /\ x.match \in Nat /\ y.match \in Nat /\ x.match >= 1 /\ y.match >= 1
    BY SettledType DEF SettledInv
<1>2. DOMAIN match = 1 .. Len(match) /\ Len(match) \in Nat
    BY MatchFacts
<1>3. x.match \in DOMAIN match /\ y.match \in DOMAIN match
    BY <1>1, <1>2 DEF Past
<1>4. match[x.match].start = match[y.match].start /\ match[x.match].start \in Nat
    BY <1>1, <1>3, MatchFacts DEF Past
<1>5. ~(x.match < y.match) /\ ~(y.match < x.match)
    BY <1>3, <1>4 DEF MatchInv
<1> QED BY <1>1, <1>5

\* The game of a job: one there is of its match, or a new one.
LEMMA GameFacts ==
    ASSUME IInv, NEW j \in queue, j.info.start # None
    PROVE  LET game == get_or_create_map(j.info) IN
           /\ game.match = j.info.match
           /\ \/ game \in games
              \/ game = NewRow(j.info) /\ \A g \in games : ~SameGame(g, j.info)
<1> DEFINE info == j.info
<1>1. TypeInv /\ MatchInv /\ SettledInv /\ info \in Entries /\ info \in Settled
    BY DEF IInv, TypeInv, Settled
<1>2. CASE \E g \in games : SameGame(g, info)
  <2> DEFINE game == CHOOSE g \in games : SameGame(g, info)
  <2>1. game \in games /\ SameGame(game, info) /\ get_or_create_map(info) = game
      BY <1>2 DEF get_or_create_map
  <2>2. game \in Settled /\ game.start = info.start
      BY <2>1 DEF Settled, SameGame
  <2>3. game.match = info.match
      BY <1>1, <2>2, OneMatchPerKey
  <2> QED BY <2>1, <2>3
<1>3. CASE ~\E g \in games : SameGame(g, info)
  <2>1. get_or_create_map(info) = NewRow(info)
      BY <1>3 DEF get_or_create_map
  <2>2. NewRow(info).match = info.match
      BY <1>1 DEF NewRow, Entries
  <2> QED BY <1>3, <2>1, <2>2
<1> QED BY <1>2, <1>3

\* No score at all is backed by the match itself, once it is past.
LEMMA NoScoreBacked ==
    ASSUME IInv, NEW x \in Settled, NEW p \in Players
    PROVE  Backed(x.match, p, 0)
<1> DEFINE m == x.match
<1>1. TypeInv /\ Past(x) /\ m \in Nat /\ m \in MatchNums
    BY SettledType DEF IInv, SettledInv
<1>2. best[m][p] \in Nat
    BY <1>1, BestFacts
<1>3. m <= Len(match) /\ \A l \in Pending : m < l.match
    BY <1>1, MatchFacts DEF Past
<1>4. (m + 1) .. m \cap Entered = {}
    BY <1>1
<1>5. 0 <= best[m][p] /\ m <= m
    BY <1>1, <1>2
<1> QED BY <1>1, <1>3, <1>4, <1>5 DEF Backed

LEMMA RecordStatsKeeps ==
    ASSUME IInv, RecordStats
    PROVE  IInv'
<1>1. PICK job \in queue :
        /\ queue' = queue \ {job}
        /\ IF None \in {job.info.start, job.info.end} THEN UNCHANGED <<tables, faults>>
           ELSE LET game == get_or_create_map(job.info) IN
                /\ games' = games \cup {game}
                /\ \/ /\ \E seen \in Seen(game) :
                            stats' = record_stats_from_map(game, seen, job.info.scores, FALSE)
                      /\ UNCHANGED faults
                   \/ faults < MaxFaults /\ faults' = faults + 1 /\ UNCHANGED stats
        /\ UNCHANGED <<server, history, iteration, ghosts>>
    BY DEF RecordStats
<1>2. TypeInv /\ SettledInv /\ BackedInv /\ queue' \subseteq queue
    BY <1>1 DEF IInv
<1>3. /\ \A s \in stats : /\ s.game \in games /\ s.player \in Players
                          /\ s.combat \in 0 .. MaxScore
                          /\ Backed(s.game.match, s.player, s.combat)
      /\ \A s, t \in stats : s.game = t.game /\ s.player = t.player => s = t
    BY <1>2 DEF TypeInv, SettledInv, BackedInv
<1>4. CASE UNCHANGED <<tables, faults>>
  <2>1. UNCHANGED <<games, stats, faults>> /\ faults' \in 0 .. MaxFaults
      BY <1>2, <1>4 DEF tables, TypeInv
  <2> QED BY <1>1, <1>2, <1>3, <2>1, StoreKeeps
<1>5. CASE None \notin {job.info.start, job.info.end}
  <2> DEFINE info == job.info
             game == get_or_create_map(info)
  <2>1. info.start # None /\ info \in Entries /\ info.scores \in ScoreMaps
      BY <1>2, <1>5 DEF TypeInv, Entries
  <2>2. /\ game.match = info.match
        /\ game \in games \/ (game = NewRow(info) /\ \A g \in games : ~SameGame(g, info))
      BY <2>1, GameFacts
  <2> HIDE DEF game
  <2>3. games' = games \cup {game}
      BY <1>1, <1>5 DEF game
  <2>4. /\ \A g \in games' : g \in games \/
              \E j \in queue : g = NewRow(j.info) /\ j.info.start # None
                               /\ \A k \in games : ~SameGame(k, j.info)
        /\ games \subseteq games' /\ \A g, h \in games' \ games : g = h
      BY <2>1, <2>2, <2>3
  <2>5. CASE stats' = stats /\ faults' = faults + 1 /\ faults < MaxFaults
    <3>1. faults' \in 0 .. MaxFaults
        BY <1>2, <2>5, FaultFacts
    <3>2. \A s \in stats' : /\ s.game \in games' /\ s.player \in Players
                            /\ s.combat \in 0 .. MaxScore
                            /\ Backed(s.game.match, s.player, s.combat)
        BY <1>3, <2>4, <2>5
    <3> QED BY <1>1, <1>2, <1>3, <2>4, <2>5, <3>1, <3>2, StoreKeeps
  <2>6. ASSUME NEW seen \in Seen(game), UNCHANGED faults,
               stats' = record_stats_from_map(game, seen, info.scores, FALSE)
        PROVE  IInv'
    <3>1. seen \in SUBSET Players
        BY <2>6 DEF Seen
    <3>2. DOMAIN info.scores = Players
        BY <2>1 DEF ScoreMaps
    <3> DEFINE force == FALSE
    <3>8. force \in BOOLEAN
        OBVIOUS
    <3> HIDE DEF force
    <3> DEFINE new == record_stats_from_map(game, seen, info.scores, force)
    <3>3. /\ \A s \in new : s \in stats \/
                /\ s.game = game /\ s.player \in Players
                /\ s.player \in DOMAIN info.scores => s.combat = info.scores[s.player]
          /\ \A s, t \in new : s.game = t.game /\ s.player = t.player => s = t
        BY <1>3, <3>1, <3>8, WrittenFacts
    <3> HIDE DEF new
    <3>4. stats' = new
        BY <2>6 DEF new, force
    <3>5. ASSUME NEW s \in stats'
          PROVE  /\ s.game \in games' /\ s.player \in Players /\ s.combat \in 0 .. MaxScore
                 /\ Backed(s.game.match, s.player, s.combat)
      <4>1. CASE s \in stats
          BY <1>3, <2>4, <4>1
      <4>2. CASE s \notin stats
        <5>1. s.game = game /\ s.player \in Players /\ s.combat = info.scores[s.player]
            BY <3>2, <3>3, <3>4, <4>2
        <5>2. s.combat \in 0 .. MaxScore
            BY <2>1, <5>1 DEF ScoreMaps
        <5>3. Backed(info.match, s.player, info.scores[s.player])
            BY <1>2, <5>1 DEF BackedInv
        <5> QED BY <2>2, <2>3, <5>1, <5>2, <5>3
      <4> QED BY <4>1, <4>2
    <3>6. faults' \in 0 .. MaxFaults
        BY <1>2, <2>6 DEF TypeInv
    <3>7. \A s, t \in stats' : s.game = t.game /\ s.player = t.player => s = t
        BY <3>3, <3>4
    <3> QED BY <1>1, <1>2, <2>4, <3>5, <3>6, <3>7, StoreKeeps
  <2> QED BY <1>1, <1>5, <2>5, <2>6 DEF game
<1> QED BY <1>1, <1>4, <1>5

LEMMA ProcessGamesKeeps ==
    ASSUME IInv, NEW force \in BOOLEAN, process_games(force)
    PROVE  IInv'
<1>0. PICK game \in games : \E seen \in Seen(game) :
          stats' = record_stats_from_map(game, seen, <<>>, force)
    BY DEF process_games
<1>1. PICK seen \in Seen(game) : stats' = record_stats_from_map(game, seen, <<>>, force)
    BY <1>0
<1>2. /\ TypeInv /\ SettledInv /\ BackedInv
      /\ UNCHANGED <<server, history, iteration, queue, games, faults, ghosts>>
    BY DEF IInv, process_games
<1>3. /\ \A s \in stats : /\ s.game \in games /\ s.player \in Players
                          /\ s.combat \in 0 .. MaxScore
                          /\ Backed(s.game.match, s.player, s.combat)
      /\ \A s, t \in stats : s.game = t.game /\ s.player = t.player => s = t
    BY <1>2 DEF TypeInv, SettledInv, BackedInv
<1>4. seen \in SUBSET Players /\ DOMAIN <<>> = {}
    BY DEF Seen
<1> DEFINE given == <<>>
<1>5. DOMAIN given = {}
    BY <1>4
<1> HIDE DEF given
<1> DEFINE new == record_stats_from_map(game, seen, given, force)
<1>6. /\ \A s \in new : s \in stats \/
            /\ s.game = game /\ s.player \in Players
            /\ s.player \notin DOMAIN given =>
                  \/ s.combat = 0
                  \/ \E t \in stats : t.game = game /\ t.player = s.player /\ t.combat = s.combat
      /\ \A s, t \in new : s.game = t.game /\ s.player = t.player => s = t
    BY <1>3, <1>4, WrittenFacts
<1> HIDE DEF new
<1>7. stats' = new
    BY <1>1 DEF new, given
<1>8. ASSUME NEW s \in stats'
      PROVE  /\ s.game \in games /\ s.player \in Players /\ s.combat \in 0 .. MaxScore
             /\ Backed(s.game.match, s.player, s.combat)
  <2>1. CASE s \in stats
      BY <1>3, <2>1
  <2>2. CASE s \notin stats
    <3>1. /\ s.game = game /\ s.player \in Players
          /\ \/ s.combat = 0
             \/ \E t \in stats : t.game = game /\ t.player = s.player /\ t.combat = s.combat
        BY <1>5, <1>6, <1>7, <2>2
    <3>2. CASE s.combat = 0
        BY <3>1, <3>2, Numbers, NoScoreBacked DEF Settled
    <3>3. ASSUME NEW t \in stats, t.game = game, t.player = s.player, t.combat = s.combat
          PROVE  s.combat \in 0 .. MaxScore /\ Backed(s.game.match, s.player, s.combat)
        BY <1>3, <3>1, <3>3
    <3> QED BY <3>1, <3>2, <3>3
  <2> QED BY <2>1, <2>2
<1>9. UNCHANGED <<games, queue>> /\ faults' \in 0 .. MaxFaults
    BY <1>2 DEF TypeInv
<1>10. \A s, t \in stats' : s.game = t.game /\ s.player = t.player => s = t
    BY <1>6, <1>7
<1> QED BY <1>2, <1>8, <1>9, <1>10, StoreKeeps

-----------------------------------------------------------------------------
(* The invariant.                                                          *)

LEMMA InitIInv ==
    ASSUME Init
    PROVE  IInv
<1>1. /\ now = 0 /\ match = <<>> /\ zeroed = TRUE /\ score = [p \in Players |-> 0]
      /\ lines = <<>> /\ history = <<>> /\ queue = {} /\ loop = "lines" /\ fetched = score
      /\ games = {} /\ stats = {} /\ faults = 0 /\ opened = {} /\ lost = {}
      /\ best = [m \in MatchNums |-> [p \in Players |-> 0]]
    BY DEF Init
<1>2. score \in ScoreMaps /\ \A p \in Players : score[p] = 0
    BY <1>1, ZeroFacts
<1>3. best \in [MatchNums -> ScoreMaps] /\ \A m \in MatchNums, p \in Players : best[m][p] = 0
    BY <1>1, ZeroFacts
<1>4. /\ DOMAIN <<>> = {} /\ Len(<<>>) = 0 /\ 2 .. 0 = {} /\ <<>> \in Seq(Entries)
      /\ <<>> \in Seq(Lines) /\ <<>> \in Seq(Matches)
    OBVIOUS
<1>5. TypeInv
  <2>1. 0 <= MaxMatches /\ 0 <= MaxLen /\ 0 \in 0 .. MaxFaults
      BY Numbers
  <2> QED BY <1>1, <1>2, <1>3, <1>4, <2>1, Numbers DEF TypeInv
<1>6. Pending = {}
    BY <1>1, <1>4 DEF Pending
<1>7. MatchInv /\ LineInv /\ HistoryInv
    BY <1>1, <1>4, <1>6 DEF MatchInv, LineInv, HistoryInv, InOrder
<1>8. Settled = {}
    BY <1>1, <1>4 DEF Settled
<1>9. SettledInv
    BY <1>1, <1>4, <1>8 DEF SettledInv
<1>10. ScoreInv
    BY <1>1, <1>2, <1>3, <1>4 DEF ScoreInv, Of, JustStarted
<1>11. OpenedInv /\ BackedInv
    BY <1>1, <1>4 DEF OpenedInv, BackedInv, Entered
<1> QED BY <1>5, <1>7, <1>9, <1>10, <1>11 DEF IInv

LEMMA NextIInv ==
    ASSUME IInv, Next
    PROVE  IInv'
<1>1. CASE Tick
    BY <1>1, TickKeeps
<1>2. CASE EndMatch
    BY <1>2, EndMatchKeeps
<1>3. CASE Zero
    BY <1>3, ZeroKeeps
<1>4. CASE \E map \in Rotation : StartMatch(map)
    BY <1>4, StartMatchKeeps
<1>5. CASE \E p \in Players : Point(p) \/ Reconnect(p)
    BY <1>5, PointKeeps, ReconnectKeeps
<1>6. CASE HandleStart
    BY <1>6, HandleStartKeeps
<1>7. CASE StartRaises
    BY <1>7, StartRaisesKeeps
<1>8. CASE CrashInStart
    BY <1>8, CrashInStartKeeps
<1>9. CASE HandleEnd
    BY <1>9, HandleEndKeeps
<1>10. CASE CrashInEnd
    BY <1>10, CrashInEndKeeps
<1>11. CASE FetchPlayers
    BY <1>11, FetchKeeps
<1>12. CASE record_player_stats
    BY <1>12, RecordKeeps
<1>13. CASE RecordStats
    BY <1>13, RecordStatsKeeps
<1>14. CASE \E force \in BOOLEAN : process_games(force)
    BY <1>14, ProcessGamesKeeps
<1> QED
    BY <1>1, <1>2, <1>3, <1>4, <1>5, <1>6, <1>7, <1>8, <1>9, <1>10, <1>11, <1>12, <1>13, <1>14
    DEF Next

LEMMA StutterIInv ==
    ASSUME IInv, UNCHANGED vars
    PROVE  IInv'
<1>1. UNCHANGED <<now, match, lines, zeroed, score, best, history, queue, tables, faults, ghosts,
                  loop, fetched>>
    BY DEF vars, server, iteration
<1>2. TypeInv /\ ScoreInv
    BY DEF IInv
<1>3. ScoreInv'
    BY <1>1, <1>2 DEF ScoreInv, Of, JustStarted, Current, Pending
<1> QED BY <1>1, <1>2, <1>3, BestFacts, ScoresOnlyGrow DEF TypeInv

\* In every behaviour, what the log loop, the worker and the command do keeps
\* the matches, the list, the jobs and the tables in step.
THEOREM HistoryInvariant == Spec => []IInv
<1>1. IInv /\ [Next]_vars => IInv'
    BY NextIInv, StutterIInv
<1> QED BY <1>1, InitIInv, PTL DEF Spec

-----------------------------------------------------------------------------
(* The properties.                                                         *)

\* Every variable keeps its type, whatever the server, the log loop, the
\* worker and the command do.
THEOREM HistoryTypeCorrect == Spec => []TypeOK
<1>1. IInv => TypeOK
  <2> SUFFICES ASSUME IInv PROVE TypeOK
      OBVIOUS
  <2>1. TypeInv
      BY DEF IInv
  <2>2. \A l \in {lines[i] : i \in DOMAIN lines} :
          l.kind \in {"start", "end"} /\ l.match \in MatchNums /\ l.time \in Times
      BY <2>1, PendingFacts DEF Pending, Lines
  <2>3. \A h \in {history[i] : i \in DOMAIN history} \cup {j.info : j \in queue} \cup games :
          /\ h.name \in Maps \cup {Unknown, NoMap} /\ h.start \in Times \cup {None}
          /\ h.guessed \in BOOLEAN /\ h.scores \in ScoreMaps /\ h.match \in MatchNums
    <3>1. \A h \in Entries :
            /\ h.name \in Maps \cup {Unknown, NoMap} /\ h.start \in Times \cup {None}
            /\ h.guessed \in BOOLEAN /\ h.scores \in ScoreMaps /\ h.match \in MatchNums
        BY DEF Entries
    <3>2. /\ {history[i] : i \in DOMAIN history} \subseteq Entries
          /\ {j.info : j \in queue} \subseteq Entries
        BY <2>1, RowFacts
    <3> QED BY <2>1, <3>1, <3>2 DEF TypeInv
  <2>4. match \in Seq([map : Maps, start : Times, ended : BOOLEAN])
      BY <2>1 DEF TypeInv, Matches
  <2> QED BY <2>1, <2>2, <2>3, <2>4 DEF TypeInv, TypeOK
<1> QED BY <1>1, HistoryInvariant, PTL

\* save_map_end and save_new_map leave one open entry at most, and entries
\* that do not overlap, whatever starts and ends the lines tell of, in
\* whatever time they are handled and wherever the process ends.
THEOREM HistoryIsInOrder == Spec => []HistoryInOrder
<1>1. IInv => HistoryInOrder
  <2> SUFFICES ASSUME IInv, NEW i \in 2 .. Len(history)
               PROVE  /\ history[i].end # None
                      /\ history[i - 1].start # None => history[i].end <= history[i - 1].start
                      /\ history[i].start # None /\ history[i].end < history[i].start =>
                            \E m \in DOMAIN match :
                                /\ match[m].start > history[i].start
                                /\ match[m].start < history[i].start + EndGuess
      BY DEF HistoryInOrder
  <2>1. HistoryInv /\ i \in DOMAIN history
      BY DEF IInv, TypeInv
  <2>2. EntryInv(history[i])
      BY <2>1 DEF HistoryInv, InOrder
  <2> QED BY <2>1, <2>2 DEF HistoryInv, InOrder, EntryInv
<1> QED BY <1>1, HistoryInvariant, PTL

\* handle_new_match_start calls a name certain only if the server played it
\* then.
THEOREM CertainNamesArePlayed == Spec => []NotGuessedWasPlayed
<1>1. IInv => NotGuessedWasPlayed
    BY DEF IInv, HistoryInv, InOrder, EntryInv, NotGuessedWasPlayed
<1> QED BY <1>1, HistoryInvariant, PTL

\* get_or_create_map stores a match once, for any number of jobs that are
\* queued for it, as long as no entry of a later match is lost.
THEOREM GamesAreStoredOnce == Spec => []GameStoredOnce
<1>1. IInv => GameStoredOnce
    BY DEF IInv, SettledInv, NoLaterLost, GameStoredOnce
<1> QED BY <1>1, HistoryInvariant, PTL

\* record_player_stats credits no match with a score of an earlier one, nor
\* with one of a later match that has an entry of its own.
THEOREM ScoresAreOwn == Spec => []NoForeignScore
<1>1. ASSUME NEW k, NEW p, NEW v, Backed(k, p, v)
      PROVE  \E m \in MatchNums : /\ m >= k /\ (k + 1) .. m \cap (opened \ lost) = {}
                                  /\ v <= best[m][p]
    BY <1>1 DEF Backed, Entered
<1>2. IInv => NoForeignScore
  <2> SUFFICES ASSUME IInv PROVE NoForeignScore
      OBVIOUS
  <2>1. BackedInv
      BY DEF IInv
  <2>2. \A i \in DOMAIN history, p \in Players :
          \E m \in Credited(history[i]) : history[i].scores[p] <= best[m][p]
      BY <1>1, <2>1 DEF BackedInv, Credited
  <2>3. \A s \in stats : \E m \in Credited(s.game) : s.combat <= best[m][s.player]
      BY <1>1, <2>1 DEF BackedInv, Credited
  <2> QED BY <2>2, <2>3 DEF NoForeignScore
<1> QED BY <1>2, HistoryInvariant, PTL

\* No step takes a recorded score away, nor changes it: not the job that comes
\* twice, and not the command, with or without force.
THEOREM RecordedScoresAreKept == Spec => RecordedScoresStay
<1> DEFINE Kept == \A s \in stats : \E t \in stats' :
                      t.game = s.game /\ t.player = s.player /\ t.combat = s.combat
<1>1. UNCHANGED stats => Kept
    OBVIOUS
<1>2. ASSUME IInv, Next PROVE Kept
  <2>1. \A s, t \in stats : s.game = t.game /\ s.player = t.player => s = t
      BY <1>2 DEF IInv, SettledInv
  <2>2. CASE RecordStats
    <3>1. PICK job \in queue :
            \/ UNCHANGED stats
            \/ \E seen \in Seen(get_or_create_map(job.info)) :
                  stats' = record_stats_from_map(get_or_create_map(job.info), seen,
                                                 job.info.scores, FALSE)
        BY <2>2 DEF RecordStats, tables
    <3> DEFINE game == get_or_create_map(job.info)
               given == job.info.scores
               force == FALSE
    <3>2. force \in BOOLEAN /\ ~force
        OBVIOUS
    <3>3. \A seen \in Seen(game) : seen \in SUBSET Players
        BY DEF Seen
    <3> HIDE DEF game, given, force
    <3>4. ASSUME NEW seen \in Seen(game), stats' = record_stats_from_map(game, seen, given, force)
          PROVE  Kept
        BY <2>1, <3>2, <3>3, <3>4, WrittenFacts
    <3> QED BY <1>1, <3>1, <3>4 DEF game, given, force
  <2>3. ASSUME NEW force \in BOOLEAN, process_games(force) PROVE Kept
    <3>1. PICK game \in games : \E seen \in Seen(game) :
              stats' = record_stats_from_map(game, seen, <<>>, force)
        BY <2>3 DEF process_games
    <3>2. PICK seen \in Seen(game) : stats' = record_stats_from_map(game, seen, <<>>, force)
        BY <3>1
    <3> DEFINE given == <<>>
    <3>3. seen \in SUBSET Players /\ DOMAIN given = {}
        BY DEF Seen
    <3> HIDE DEF given
    <3>4. stats' = record_stats_from_map(game, seen, given, force)
        BY <3>2 DEF given
    <3> QED BY <2>1, <3>3, <3>4, WrittenFacts
  <2>4. CASE ~RecordStats /\ ~\E force \in BOOLEAN : process_games(force)
    <3>1. UNCHANGED stats
        BY <1>2, <2>4 DEF Next, Tick, EndMatch, Zero, StartMatch, Point, Reconnect, HandleStart,
                          StartRaises, CrashInStart, HandleEnd, CrashInEnd, FetchPlayers,
                          record_player_stats, tables
    <3> QED BY <1>1, <3>1
  <2> QED BY <2>2, <2>3, <2>4
<1>3. IInv /\ [Next]_vars => [Kept]_vars
    BY <1>2
<1> QED BY <1>3, HistoryInvariant, PTL DEF Spec, RecordedScoresStay

=============================================================================
