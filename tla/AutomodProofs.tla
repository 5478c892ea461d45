---------------------------- MODULE AutomodProofs ---------------------------
(***************************************************************************)
(* Proofs about Automod for every set of moderators, squads and players    *)
(* and every setting of the ladder.                                        *)
(*                                                                         *)
(* That a kick has been earned is seen only when it is decided, but rests  *)
(* on what became of every punish since the watch began.  The invariant    *)
(* Accounted says it: a punish on record was received, or is the last one  *)
(* of a player whose punish this round has still to deliver, or was lost   *)
(* with a round that was cut short.                                        *)
(***************************************************************************)
EXTENDS Automod, TLAPS

Punished(m, q, p) == watch[m][q][p].punished

\* Where the punishes on record come from.  Nothing is ever recorded of a
\* step that is switched off.
Sound(m, q, p) ==
    /\ Config[m].punishments = 0 => Punished(m, q, p) = <<>>
    /\ \A i \in 1 .. Len(Punished(m, q, p)) :
          \/ Punished(m, q, p)[i].fate = "landed"
          \/ Punished(m, q, p)[i].fate = "lost" /\ aborted
          \/ /\ Punished(m, q, p)[i].fate = "pending"
             /\ p \in punish /\ view[p] = q /\ <<m, q>> \notin todo
             /\ i = Len(Punished(m, q, p))

Accounted == \A m \in Mods, q \in Squads, p \in Players : Sound(m, q, p)

IdleIsEmpty == pc = "idle" => punish = {}

IInv == TypeOK /\ Accounted /\ IdleIsEmpty

-----------------------------------------------------------------------------
(* The operators the steps are built from.                                 *)

\* Settle changes fates and nothing else.
LEMMA SettleFacts ==
    ASSUME NEW s \in Seq(Entry), NEW fate \in Fates
    PROVE  /\ Settle(s, fate) \in Seq(Entry)
           /\ Len(Settle(s, fate)) = Len(s)
           /\ \A i \in 1 .. Len(s) :
                 Settle(s, fate)[i].fate =
                    IF s[i].fate = "pending" THEN fate ELSE s[i].fate
<1> DEFINE T(i) == IF s[i].fate = "pending" THEN [s[i] EXCEPT !.fate = fate] ELSE s[i]
<1>1. Len(s) \in Nat /\ \A i \in 1 .. Len(s) : s[i] \in Entry
    OBVIOUS
<1>2. \A i \in 1 .. Len(s) :
          /\ T(i) \in Entry
          /\ T(i).fate = IF s[i].fate = "pending" THEN fate ELSE s[i].fate
    BY <1>1 DEF Entry
<1>3. Settle(s, fate) = [i \in 1 .. Len(s) |-> T(i)]
    BY DEF Settle
<1> HIDE DEF T
<1> QED
    BY <1>1, <1>2, <1>3

\* Older changes ages and nothing else.
LEMMA OlderFacts ==
    ASSUME NEW s \in Seq(Entry)
    PROVE  /\ Older(s) \in Seq(Entry)
           /\ Len(Older(s)) = Len(s)
           /\ \A i \in 1 .. Len(s) : Older(s)[i].fate = s[i].fate
<1> DEFINE T(i) == [s[i] EXCEPT !.age = IF @ < Cap THEN @ + 1 ELSE @]
<1>1. Len(s) \in Nat /\ \A i \in 1 .. Len(s) : s[i] \in Entry
    OBVIOUS
<1>2. ASSUME NEW i \in 1 .. Len(s)
      PROVE  T(i) \in Entry /\ T(i).fate = s[i].fate
  <2>1. s[i] \in Entry /\ s[i].age \in 0 .. Cap
      BY <1>1 DEF Entry
  <2> QED
      BY <2>1, TimeAssumption, SMTT(30) DEF Entry
<1>3. Older(s) = [i \in 1 .. Len(s) |-> T(i)]
    BY DEF Older
<1> HIDE DEF T
<1> QED
    BY <1>1, <1>2, <1>3

\* DropLast keeps all but the last element.
LEMMA DropLastFacts ==
    ASSUME NEW s \in Seq(Entry)
    PROVE  /\ DropLast(s) \in Seq(Entry)
           /\ Len(DropLast(s)) = IF s = <<>> THEN 0 ELSE Len(s) - 1
           /\ \A i \in 1 .. Len(DropLast(s)) : DropLast(s)[i] = s[i]
<1>1. CASE s = <<>>
    BY <1>1 DEF DropLast
<1>2. CASE s # <<>>
  <2> DEFINE n == Len(s) - 1
  <2>1. n \in Nat /\ \A i \in 1 .. n : s[i] \in Entry
      BY <1>2
  <2>2. DropLast(s) = [i \in 1 .. n |-> s[i]]
      BY <1>2, <2>1 DEF DropLast
  <2> HIDE DEF n
  <2>3. DropLast(s) \in Seq(Entry) /\ Len(DropLast(s)) = n
      BY <2>1, <2>2
  <2>4. \A i \in 1 .. n : DropLast(s)[i] = s[i]
      BY <2>2
  <2> QED
      BY <1>2, <2>3, <2>4 DEF n
<1> QED
    BY <1>1, <1>2

\* A new entry is well formed, and appending it changes no other.
LEMMA AppendFacts ==
    ASSUME NEW s \in Seq(Entry), NEW fate \in Fates
    PROVE  /\ Append(s, Now(fate)) \in Seq(Entry)
           /\ Len(Append(s, Now(fate))) = Len(s) + 1
           /\ \A i \in 1 .. Len(s) : Append(s, Now(fate))[i] = s[i]
           /\ Append(s, Now(fate))[Len(s) + 1].fate = fate
<1>1. Now(fate) \in Entry /\ Now(fate).fate = fate
    BY TimeAssumption DEF Now, Entry
<1> QED
    BY <1>1

LEMMA FreshIsStatus == Fresh \in Status /\ Fresh.punished = <<>>
BY DEF Fresh, Status

\* A decision is recorded in one list; the others stay.
LEMMA NotedFacts ==
    ASSUME NEW s \in Status, NEW step
    PROVE  /\ Noted(s, step) \in Status
           /\ step # "punish" => Noted(s, step).punished = s.punished
           /\ step = "punish" =>
                 Noted(s, step).punished = Append(s.punished, Now("pending"))
<1>0. /\ s.noted \in Seq(Entry) /\ s.warned \in Seq(Entry)
      /\ s.punished \in Seq(Entry)
      /\ "landed" \in Fates /\ "pending" \in Fates
    BY DEF Status, Fates
<1>1. CASE step = "note"
    BY <1>0, <1>1, AppendFacts DEF Noted, Status
<1>2. CASE step = "warn"
    BY <1>0, <1>2, AppendFacts DEF Noted, Status
<1>3. CASE step = "punish"
    BY <1>0, <1>3, AppendFacts DEF Noted, Status
<1>4. CASE step \notin {"note", "warn", "punish"}
    BY <1>4 DEF Noted
<1> QED
    BY <1>1, <1>2, <1>3, <1>4

\* Skipping the warnings touches no punish.
LEMMA SkippedFacts ==
    ASSUME NEW s \in Status, NEW m \in Mods
    PROVE  Skipped(m, s) \in Status /\ Skipped(m, s).punished = s.punished
<1>1. CASE Config[m].warnings > 0
  <2>1. Config[m].warnings \in Nat
      BY <1>1, ConfigAssumption DEF Settings
  <2>2. [age |-> Cap, fate |-> "skipped"] \in Entry
      BY TimeAssumption DEF Entry, Fates
  <2>3. [i \in 1 .. Config[m].warnings |-> [age |-> Cap, fate |-> "skipped"]]
            \in Seq(Entry)
      BY <2>1, <2>2
  <2> QED
      BY <1>1, <2>3 DEF Skipped, Status
<1>2. CASE ~(Config[m].warnings > 0)
    BY <1>2 DEF Skipped
<1> QED
    BY <1>1, <1>2

\* Only members of the squad are judged.
LEMMA VerdictFacts ==
    ASSUME NEW m \in Mods, NEW members \in SUBSET Players,
           NEW v \in Verdicts(m, members)
    PROVE  /\ v.judged \subseteq members
           /\ v.skip \subseteq members
<1>1. v \in NoLeaderVerdicts(members) =>
          v.judged \subseteq members /\ v.skip \subseteq members
    BY DEF NoLeaderVerdicts
<1>2. v \in SeedingVerdicts(members) =>
          v.judged \subseteq members /\ v.skip \subseteq members
    BY DEF SeedingVerdicts
<1>3. v \in LevelVerdicts(members) =>
          v.judged \subseteq members /\ v.skip \subseteq members
    BY DEF LevelVerdicts
<1>4. v \in SoloTankVerdicts(members) =>
          v.judged \subseteq members /\ v.skip \subseteq members
    BY DEF SoloTankVerdicts
<1> QED
    BY <1>1, <1>2, <1>3, <1>4 DEF Verdicts

\* A punish is decided only where the step is on.
LEMMA PunishMeansOn ==
    ASSUME NEW m \in Mods, NEW v, NEW s, NEW p, Decide(m, v, s, p) = "punish"
    PROVE  Config[m].punishments # 0
<1>1. should_punish_player(m, v, s, p) = "APPLY"
    BY DEF Decide
<1> QED
    BY <1>1 DEF should_punish_player

\* The ladder ends in a kick only past number_of_punishments punishes and
\* the grace period.
LEMMA KickMeansEarned ==
    ASSUME NEW m \in Mods, NEW v, NEW s \in Status, NEW p,
           Decide(m, v, s, p) = "kick",
           Config[m].punishments = 0 => s.punished = <<>>
    PROVE  /\ Config[m].punishments >= 1
           /\ Len(s.punished) >= Config[m].punishments
           /\ Final(s.punished).age >= Config[m].grace
<1>1. /\ Passes(should_punish_player(m, v, s, p))
      /\ should_kick_player(m, v, s, p) = "APPLY"
    BY DEF Decide
<1>2. s.punished # <<>> /\ Final(s.punished).age >= Config[m].grace
    BY <1>1 DEF should_kick_player
<1>3. Config[m].punishments \in Nat \cup {-1} /\ Config[m].punishments # 0
    BY <1>2, ConfigAssumption DEF Settings
<1>4. Rung(s.punished, Config[m].punishments, Config[m].punishEvery)
          = "GO_TO_NEXT_STEP"
    BY <1>1, <1>3 DEF should_punish_player, Passes, Rung
<1>5. Len(s.punished) \in Nat
    BY DEF Status
<1>6. /\ ~(Len(s.punished) < Config[m].punishments)
      /\ Config[m].punishments # -1
    BY <1>3, <1>4 DEF Rung
<1> QED
    BY <1>2, <1>3, <1>5, <1>6

-----------------------------------------------------------------------------
(* One lemma for each way a step rewrites the watches.                     *)

LEMMA TypeFacts ==
    ASSUME TypeOK, NEW m \in Mods, NEW q \in Squads, NEW p \in Players
    PROVE  /\ watch[m][q][p] \in Status
           /\ watch[m][q][p].noted \in Seq(Entry)
           /\ watch[m][q][p].warned \in Seq(Entry)
           /\ watch[m][q][p].punished \in Seq(Entry)
           /\ ttl[m][q] \in 0 .. ResetTime
           /\ Len(Punished(m, q, p)) \in Nat
BY DEF TypeOK, Status, Punished

LEMMA JudgeFacts ==
    ASSUME TypeOK, Accounted, NEW m \in Mods, NEW q \in Squads, Judge(m, q)
    PROVE  /\ watch' \in [Mods -> [Squads -> [Players -> Status]]]
           /\ \A n \in Mods, r \in Squads, p \in Players :
                 <<n, r>> # <<m, q>> => watch'[n][r][p] = watch[n][r][p]
           /\ \A p \in Players :
                 \/ Punished(m, q, p)' = Punished(m, q, p)
                 \/ /\ Punished(m, q, p)' = Append(Punished(m, q, p), Now("pending"))
                    /\ p \in punish' /\ view[p] = q
                    /\ Config[m].punishments # 0
           /\ punish \subseteq punish' /\ punish' \subseteq Players
           /\ \A p \in punish' \ punish :
                 /\ view[p] = q
                 /\ Punished(m, q, p)' = Append(Punished(m, q, p), Now("pending"))
           /\ kick' \subseteq Kicks
           /\ warning' \subseteq Mods \X Players
           /\ \A k \in kick' \ kick :
                 /\ k \in Kicks /\ k.mod = m
                 /\ ~k.forced =>
                       /\ view[k.player] = q
                       /\ Config[m].punishments >= 1
                       /\ Len(Record(k)) >= Config[m].punishments
                       /\ Final(Record(k)).age >= Config[m].grace
<1> DEFINE before(v) == [p \in Players |-> IF p \in v.skip
                            THEN Skipped(m, watch[m][q][p]) ELSE watch[m][q][p]]
           step(v) == [p \in Players |-> IF p \in v.judged
                            THEN Decide(m, v, before(v)[p], p) ELSE "none"]
           Taking(v, name) == {p \in Players : step(v)[p] = name}
<1>1. PICK v \in Verdicts(m, Members(q)) :
          /\ watch' = [watch EXCEPT ![m][q] =
                           [p \in Players |-> Noted(before(v)[p], step(v)[p])]]
          /\ warning' = warning \cup {<<m, p>> : p \in Taking(v, "warn")}
          /\ punish' = punish \cup Taking(v, "punish")
          /\ kick' = kick \cup
                {k \in Kicks : /\ k.mod = m /\ ~(\E l \in kick : l.player = k.player)
                               /\ IF k.forced THEN k.player \in v.forced
                                  ELSE k.player \in Taking(v, "kick")}
    BY DEF Judge
<1> DEFINE b == before(v)
           st == step(v)
<1>2. \A p \in Players : b[p] \in Status /\ b[p].punished = Punished(m, q, p)
    BY TypeFacts, SkippedFacts DEF Punished
<1>3. \A p \in Players : st[p] = "none" \/
          /\ p \in v.judged /\ st[p] = Decide(m, v, b[p], p)
          /\ view[p] = q
    BY VerdictFacts DEF Members
<1> HIDE DEF b, st
<1>4. /\ watch' = [watch EXCEPT ![m][q] = [p \in Players |-> Noted(b[p], st[p])]]
      /\ warning' = warning \cup {<<m, p>> : p \in {p \in Players : st[p] = "warn"}}
      /\ punish' = punish \cup {p \in Players : st[p] = "punish"}
      /\ \A k \in kick' \ kick : /\ k \in Kicks /\ k.mod = m
                                 /\ ~k.forced => st[k.player] = "kick"
      /\ kick' \subseteq kick \cup Kicks
    BY <1>1 DEF b, st
<1> HIDE DEF before, step, Taking
<1>5. [p \in Players |-> Noted(b[p], st[p])] \in [Players -> Status]
    BY <1>2, NotedFacts
<1>6. watch' \in [Mods -> [Squads -> [Players -> Status]]]
    BY <1>4, <1>5 DEF TypeOK
<1>7. \A p \in Players : watch'[m][q][p] = Noted(b[p], st[p])
    BY <1>4 DEF TypeOK
<1>8. \A n \in Mods, r \in Squads, p \in Players :
          <<n, r>> # <<m, q>> => watch'[n][r][p] = watch[n][r][p]
    BY <1>4 DEF TypeOK
<1>9. \A p \in Players :
          \/ Punished(m, q, p)' = Punished(m, q, p)
          \/ /\ Punished(m, q, p)' = Append(Punished(m, q, p), Now("pending"))
             /\ p \in punish' /\ view[p] = q
             /\ Config[m].punishments # 0
  <2> SUFFICES ASSUME NEW p \in Players
               PROVE  \/ Punished(m, q, p)' = Punished(m, q, p)
                      \/ /\ Punished(m, q, p)'
                              = Append(Punished(m, q, p), Now("pending"))
                         /\ p \in punish' /\ view[p] = q
                         /\ Config[m].punishments # 0
      OBVIOUS
  <2>1. Punished(m, q, p)' = Noted(b[p], st[p]).punished
      BY <1>7 DEF Punished
  <2>2. CASE st[p] # "punish"
      BY <2>1, <2>2, <1>2, NotedFacts
  <2>3. CASE st[p] = "punish"
    <3>1. Punished(m, q, p)' = Append(Punished(m, q, p), Now("pending"))
        BY <2>1, <2>3, <1>2, NotedFacts
    <3>2. Config[m].punishments # 0
        BY <2>3, <1>3, PunishMeansOn
    <3> QED
        BY <3>1, <3>2, <2>3, <1>3, <1>4
  <2> QED
      BY <2>2, <2>3
<1>10. \A k \in kick' \ kick :
          /\ k \in Kicks /\ k.mod = m
          /\ ~k.forced =>
                /\ view[k.player] = q
                /\ Config[m].punishments >= 1
                /\ Len(Record(k)) >= Config[m].punishments
                /\ Final(Record(k)).age >= Config[m].grace
  <2> SUFFICES ASSUME NEW k \in kick' \ kick, ~k.forced
               PROVE  /\ view[k.player] = q
                      /\ Config[m].punishments >= 1
                      /\ Len(Record(k)) >= Config[m].punishments
                      /\ Final(Record(k)).age >= Config[m].grace
      BY <1>4
  <2>1. k.player \in Players /\ k.mod = m /\ st[k.player] = "kick"
      BY <1>4 DEF Kicks
  <2>2. view[k.player] = q /\ Decide(m, v, b[k.player], k.player) = "kick"
      BY <2>1, <1>3
  <2>3. Record(k) = b[k.player].punished
      BY <2>1, <2>2, <1>2 DEF Record, Punished
  <2>4. Config[m].punishments = 0 => b[k.player].punished = <<>>
    <3>1. Sound(m, q, k.player)
        BY <2>1 DEF Accounted
    <3> QED
        BY <2>1, <3>1, <1>2 DEF Sound
  <2> QED
      BY <2>1, <2>2, <2>3, <2>4, <1>2, KickMeansEarned
<1>11. \A p \in punish' \ punish :
          /\ view[p] = q
          /\ Punished(m, q, p)' = Append(Punished(m, q, p), Now("pending"))
  <2> TAKE p \in punish' \ punish
  <2>1. p \in Players /\ st[p] = "punish" /\ view[p] = q
      BY <1>3, <1>4
  <2>2. Punished(m, q, p)' = Noted(b[p], st[p]).punished
      BY <2>1, <1>7 DEF Punished
  <2> QED
      BY <2>1, <2>2, <1>2, NotedFacts
<1>12. /\ punish \subseteq punish' /\ punish' \subseteq Players
       /\ kick' \subseteq Kicks /\ warning' \subseteq Mods \X Players
    BY <1>4 DEF TypeOK
<1> QED
    BY <1>6, <1>8, <1>9, <1>10, <1>11, <1>12

\* What a moderator judges it writes to its own record of the squad.
LEMMA JudgeElsewhere ==
    ASSUME TypeOK, Accounted, NEW m \in Mods, NEW q \in Squads, Judge(m, q),
           NEW n \in Mods, NEW r \in Squads, NEW p \in Players, ~(n = m /\ r = q)
    PROVE  Punished(n, r, p)' = Punished(n, r, p)
<1>1. <<n, r>> # <<m, q>>
    OBVIOUS
<1>2. watch'[n][r][p] = watch[n][r][p]
    BY <1>1, JudgeFacts, SMTT(60)
<1> QED
    BY <1>2 DEF Punished

WatchType == [Mods -> [Squads -> [Players -> Status]]]

LEMMA WarnFacts ==
    ASSUME TypeOK, NEW m \in Mods, NEW p \in Players, Warn(m, p)
    PROVE  /\ watch' \in WatchType
           /\ \A n \in Mods, q \in Squads, r \in Players :
                 Punished(n, q, r)' = Punished(n, q, r)
<1>1. PICK fate \in {"landed", "failed"} :
          watch' = [n \in Mods |-> [q \in Squads |-> [r \in Players |->
                       IF n = m /\ r = p /\ view[p] = q
                       THEN [watch[n][q][r] EXCEPT !.warned = Settle(@, fate)]
                       ELSE watch[n][q][r]]]]
    BY DEF Warn
<1> DEFINE W(n, q, r) == IF n = m /\ r = p /\ view[p] = q
                THEN [watch[n][q][r] EXCEPT !.warned = Settle(@, fate)]
                ELSE watch[n][q][r]
<1>2. watch' = [n \in Mods |-> [q \in Squads |-> [r \in Players |-> W(n, q, r)]]]
    BY <1>1
<1>3. \A n \in Mods, q \in Squads, r \in Players :
          W(n, q, r) \in Status /\ W(n, q, r).punished = watch[n][q][r].punished
  <2> TAKE n \in Mods, q \in Squads, r \in Players
  <2>1. fate \in Fates
      BY DEF Fates
  <2>2. Settle(watch[n][q][r].warned, fate) \in Seq(Entry)
      BY <2>1, TypeFacts, SettleFacts
  <2> QED
      BY <2>2, TypeFacts DEF Status
<1> HIDE DEF W
<1> QED
    BY <1>2, <1>3 DEF WatchType, Punished

LEMMA PunishLandsFacts ==
    ASSUME TypeOK, NEW p \in Players, PunishLands(p)
    PROVE  /\ watch' \in WatchType
           /\ \A n \in Mods, q \in Squads, r \in Players :
                 Punished(n, q, r)' = IF r = p /\ view[p] = q
                                      THEN Settle(Punished(n, q, r), "landed")
                                      ELSE Punished(n, q, r)
<1> DEFINE W(m, q, r) == IF r = p /\ view[p] = q
               THEN [watch[m][q][r] EXCEPT !.punished = Settle(@, "landed")]
               ELSE watch[m][q][r]
<1>1. watch' = [m \in Mods |-> [q \in Squads |-> [r \in Players |-> W(m, q, r)]]]
    BY DEF PunishLands
<1>2. \A m \in Mods, q \in Squads, r \in Players :
          /\ W(m, q, r) \in Status
          /\ W(m, q, r).punished = IF r = p /\ view[p] = q
                                   THEN Settle(watch[m][q][r].punished, "landed")
                                   ELSE watch[m][q][r].punished
  <2> TAKE m \in Mods, q \in Squads, r \in Players
  <2>1. "landed" \in Fates
      BY DEF Fates
  <2>2. Settle(watch[m][q][r].punished, "landed") \in Seq(Entry)
      BY <2>1, TypeFacts, SettleFacts
  <2> QED
      BY <2>2, TypeFacts DEF Status
<1> HIDE DEF W
<1> QED
    BY <1>1, <1>2 DEF WatchType, Punished

LEMMA PunishFailsFacts ==
    ASSUME TypeOK, NEW p \in Players, PunishFails(p)
    PROVE  /\ watch' \in WatchType
           /\ ttl' \in [Mods -> [Squads -> 0 .. ResetTime]]
           /\ \A n \in Mods, q \in Squads, r \in Players :
                 Punished(n, q, r)' = IF r = p /\ view[p] = q
                                      THEN DropLast(Punished(n, q, r))
                                      ELSE Punished(n, q, r)
<1> DEFINE W(m, q, r) == IF r = p /\ view[p] = q
               THEN [watch[m][q][r] EXCEPT !.punished = DropLast(@)]
               ELSE watch[m][q][r]
<1>1. watch' = [m \in Mods |-> [q \in Squads |-> [r \in Players |-> W(m, q, r)]]]
    BY DEF PunishFails
<1>2. \A m \in Mods, q \in Squads, r \in Players :
          /\ W(m, q, r) \in Status
          /\ W(m, q, r).punished = IF r = p /\ view[p] = q
                                   THEN DropLast(watch[m][q][r].punished)
                                   ELSE watch[m][q][r].punished
  <2> TAKE m \in Mods, q \in Squads, r \in Players
  <2>1. DropLast(watch[m][q][r].punished) \in Seq(Entry)
      BY TypeFacts, DropLastFacts
  <2> QED
      BY <2>1, TypeFacts DEF Status
<1> HIDE DEF W
<1>3. ttl' \in [Mods -> [Squads -> 0 .. ResetTime]]
    BY TypeFacts, TimeAssumption DEF PunishFails, Setex
<1> QED
    BY <1>1, <1>2, <1>3 DEF WatchType, Punished

LEMMA AbortFacts ==
    ASSUME TypeOK, Abort
    PROVE  /\ watch' \in WatchType
           /\ \A n \in Mods, q \in Squads, r \in Players :
                 Punished(n, q, r)' = Settle(Punished(n, q, r), "lost")
<1> DEFINE W(m, q, r) ==
        [watch[m][q][r] EXCEPT !.warned = Settle(@, "lost"),
                               !.punished = Settle(@, "lost")]
<1>1. watch' = [m \in Mods |-> [q \in Squads |-> [r \in Players |-> W(m, q, r)]]]
    BY DEF Abort
<1>2. \A m \in Mods, q \in Squads, r \in Players :
          /\ W(m, q, r) \in Status
          /\ W(m, q, r).punished = Settle(watch[m][q][r].punished, "lost")
  <2> TAKE m \in Mods, q \in Squads, r \in Players
  <2>1. "lost" \in Fates
      BY DEF Fates
  <2>2. /\ Settle(watch[m][q][r].punished, "lost") \in Seq(Entry)
        /\ Settle(watch[m][q][r].warned, "lost") \in Seq(Entry)
      BY <2>1, TypeFacts, SettleFacts
  <2> QED
      BY <2>2, TypeFacts DEF Status
<1> HIDE DEF W
<1> QED
    BY <1>1, <1>2 DEF WatchType, Punished

LEMMA TickFacts ==
    ASSUME TypeOK, Tick
    PROVE  /\ watch' \in WatchType
           /\ ttl' \in [Mods -> [Squads -> 0 .. ResetTime]]
           /\ \A n \in Mods, q \in Squads, r \in Players :
                 \/ Punished(n, q, r)' = <<>>  /\ ttl'[n][q] = 0
                 \/ Punished(n, q, r)' = Older(Punished(n, q, r))
<1> DEFINE W(m, q, r) ==
        IF ttl[m][q] <= 1 THEN Fresh
        ELSE [noted |-> Older(watch[m][q][r].noted),
              warned |-> Older(watch[m][q][r].warned),
              punished |-> Older(watch[m][q][r].punished)]
<1>1. watch' = [m \in Mods |-> [q \in Squads |-> [r \in Players |-> W(m, q, r)]]]
    BY DEF Tick
<1>2. \A m \in Mods, q \in Squads, r \in Players :
          /\ W(m, q, r) \in Status
          /\ \/ W(m, q, r).punished = <<>> /\ ttl[m][q] <= 1
             \/ W(m, q, r).punished = Older(watch[m][q][r].punished)
  <2> TAKE m \in Mods, q \in Squads, r \in Players
  <2>1. /\ Older(watch[m][q][r].noted) \in Seq(Entry)
        /\ Older(watch[m][q][r].warned) \in Seq(Entry)
        /\ Older(watch[m][q][r].punished) \in Seq(Entry)
      BY TypeFacts, OlderFacts
  <2> QED
      BY <2>1, FreshIsStatus DEF Status
<1> HIDE DEF W
<1>3. \A m \in Mods, q \in Squads :
          (IF ttl[m][q] = 0 THEN 0 ELSE ttl[m][q] - 1) \in 0 .. ResetTime
  <2> TAKE m \in Mods, q \in Squads
  <2>1. ttl[m][q] \in 0 .. ResetTime
      BY DEF TypeOK
  <2> QED
      BY <2>1, TimeAssumption
<1>4. ttl' \in [Mods -> [Squads -> 0 .. ResetTime]]
    BY <1>3 DEF Tick
<1>5. \A m \in Mods, q \in Squads : ttl[m][q] <= 1 => ttl'[m][q] = 0
  <2> TAKE m \in Mods, q \in Squads
  <2>1. ttl[m][q] \in 0 .. ResetTime
      BY DEF TypeOK
  <2>2. ttl'[m][q] = IF ttl[m][q] = 0 THEN 0 ELSE ttl[m][q] - 1
      BY DEF Tick
  <2> QED
      BY <2>1, <2>2, TimeAssumption
<1> QED
    BY <1>1, <1>2, <1>4, <1>5 DEF WatchType, Punished

LEMMA ClearFacts ==
    ASSUME TypeOK, NEW m \in Mods, NEW q \in Squads, Clear(m, q)
    PROVE  /\ watch' \in WatchType
           /\ ttl' \in [Mods -> [Squads -> 0 .. ResetTime]]
           /\ \A n \in Mods, r \in Squads, p \in Players :
                 \/ Punished(n, r, p)' = <<>> /\ ttl'[n][r] = 0
                 \/ Punished(n, r, p)' = Punished(n, r, p)
<1>1. NoWatch \in [Players -> Status] /\ \A p \in Players : NoWatch[p].punished = <<>>
    BY FreshIsStatus DEF NoWatch
<1>2. watch' = [watch EXCEPT ![m][q] = NoWatch] /\ ttl' = [ttl EXCEPT ![m][q] = 0]
    BY DEF Clear
<1>3. ttl' \in [Mods -> [Squads -> 0 .. ResetTime]]
    BY <1>2, TimeAssumption DEF TypeOK
<1> QED
    BY <1>1, <1>2, <1>3 DEF TypeOK, WatchType, Punished

-----------------------------------------------------------------------------
(* The invariant.                                                          *)

\* What holds of every step that decides, delivers and abandons no punish.
LEMMA NothingDecided ==
    ASSUME TypeOK, Accounted,
           punish' = punish, view' = view, aborted' = aborted, todo' \subseteq todo,
           \A m \in Mods, q \in Squads, p \in Players :
              \/ Punished(m, q, p)' = <<>>
              \/ Punished(m, q, p)' = Punished(m, q, p)
              \/ Punished(m, q, p)' = Older(Punished(m, q, p))
    PROVE  Accounted'
<1> SUFFICES ASSUME NEW m \in Mods, NEW q \in Squads, NEW p \in Players
             PROVE  Sound(m, q, p)'
    BY DEF Accounted
<1>1. CASE Punished(m, q, p)' = <<>>
    BY <1>1 DEF Sound
<1>2. CASE Punished(m, q, p)' = Punished(m, q, p)
    BY <1>2 DEF Accounted, Sound
<1>3. CASE Punished(m, q, p)' = Older(Punished(m, q, p))
  <2>1. Punished(m, q, p) \in Seq(Entry)
      BY TypeFacts DEF Punished
  <2>2. /\ Len(Punished(m, q, p)') = Len(Punished(m, q, p))
        /\ \A i \in 1 .. Len(Punished(m, q, p)) :
              Punished(m, q, p)'[i].fate = Punished(m, q, p)[i].fate
        /\ Punished(m, q, p)' \in Seq(Entry)
      BY <1>3, <2>1, OlderFacts
  <2>3. Punished(m, q, p) = <<>> => Punished(m, q, p)' = <<>>
      BY <2>1, <2>2
  <2> QED
      BY <2>2, <2>3 DEF Accounted, Sound
<1> QED
    BY <1>1, <1>2, <1>3

LEMMA InitEstablishes == Init => IInv
<1> SUFFICES ASSUME Init PROVE IInv
    OBVIOUS
<1>1. \A m \in Mods, q \in Squads, p \in Players : watch[m][q][p] = Fresh
    BY DEF Init, NoWatch
<1>2. TypeOK
  <2>1. NoWatch \in [Players -> Status]
      BY FreshIsStatus DEF NoWatch
  <2>2. 0 \in 0 .. ResetTime
      BY TimeAssumption
  <2>3. watch \in [Mods -> [Squads -> [Players -> Status]]]
      BY <2>1 DEF Init
  <2>4. ttl \in [Mods -> [Squads -> 0 .. ResetTime]]
      BY <2>2 DEF Init
  <2> QED
      BY <2>3, <2>4 DEF Init, TypeOK
<1> QED
    BY <1>1, <1>2, FreshIsStatus
    DEF Init, IInv, Accounted, Sound, IdleIsEmpty, Punished

LEMMA JudgePreserves ==
    ASSUME IInv, NEW m \in Mods, NEW q \in Squads, Judge(m, q)
    PROVE  IInv'
<1> USE DEF IInv
<1>1. TypeOK'
  <2>1. ttl' = [ttl EXCEPT ![m][q] = ResetTime] /\ todo' = todo \ {<<m, q>>}
        /\ UNCHANGED <<place, pc, view, aborted>>
      BY DEF Judge, Setex
  <2> QED
      BY <2>1, JudgeFacts, SMTT(60), TimeAssumption DEF TypeOK
<1>2. /\ pc = "evaluate" /\ <<m, q>> \in todo /\ todo' = todo \ {<<m, q>>}
      /\ UNCHANGED <<pc, view, aborted>>
    BY DEF Judge
<1>3. ASSUME NEW n \in Mods, NEW r \in Squads, NEW p \in Players
      PROVE  Sound(n, r, p)'
  <2>1. CASE Punished(n, r, p)' = Punished(n, r, p)
      BY <2>1, <1>2, JudgeFacts, SMTT(60) DEF Accounted, Sound
  <2>2. CASE Punished(n, r, p)' # Punished(n, r, p)
    <3>1. n = m /\ r = q
        BY <2>2, JudgeElsewhere
    <3>2. /\ Punished(n, r, p)' = Append(Punished(n, r, p), Now("pending"))
          /\ p \in punish' /\ view[p] = r /\ Config[n].punishments # 0
        BY <2>2, <3>1, JudgeFacts, SMTT(60)
    <3>3. Punished(n, r, p) \in Seq(Entry) /\ "pending" \in Fates
        BY TypeFacts DEF Punished, Fates
    <3>4. \A i \in 1 .. Len(Punished(n, r, p)) :
              \/ Punished(n, r, p)[i].fate = "landed"
              \/ Punished(n, r, p)[i].fate = "lost" /\ aborted
        BY <1>2, <3>1 DEF Accounted, Sound
    <3> HIDE DEF Punished
    <3>5. /\ Len(Punished(n, r, p)') = Len(Punished(n, r, p)) + 1
          /\ \A i \in 1 .. Len(Punished(n, r, p)) :
                Punished(n, r, p)'[i] = Punished(n, r, p)[i]
          /\ Punished(n, r, p)'[Len(Punished(n, r, p)) + 1].fate = "pending"
          /\ Len(Punished(n, r, p)) \in Nat
        BY <3>2, <3>3, AppendFacts
    <3> QED
        BY <1>2, <3>1, <3>2, <3>4, <3>5 DEF Sound
  <2> QED
      BY <2>1, <2>2
<1>4. Accounted'
    BY <1>3 DEF Accounted
<1>5. IdleIsEmpty'
    BY <1>2 DEF IdleIsEmpty
<1> QED
    BY <1>1, <1>4, <1>5

LEMMA PunishLandsPreserves ==
    ASSUME IInv, NEW p \in Players, PunishLands(p)
    PROVE  IInv'
<1> USE DEF IInv
<1>1. /\ pc = "deliver" /\ punish' = punish \ {p}
      /\ UNCHANGED <<ttl, place, pc, view, todo, warning, kick, aborted>>
    BY DEF PunishLands
<1>2. TypeOK'
    BY <1>1, PunishLandsFacts DEF TypeOK, WatchType
<1>3. ASSUME NEW n \in Mods, NEW r \in Squads, NEW o \in Players
      PROVE  Sound(n, r, o)'
  <2>1. CASE o = p /\ view[p] = r
    <3>1. Punished(n, r, o) \in Seq(Entry) /\ "landed" \in Fates
        BY TypeFacts DEF Punished, Fates
    <3>2. Punished(n, r, o)' = Settle(Punished(n, r, o), "landed")
        BY <2>1, PunishLandsFacts
    <3>3. /\ Punished(n, r, o)' \in Seq(Entry)
          /\ Len(Punished(n, r, o)') = Len(Punished(n, r, o))
          /\ \A i \in 1 .. Len(Punished(n, r, o)) :
                Punished(n, r, o)'[i].fate =
                   IF Punished(n, r, o)[i].fate = "pending" THEN "landed"
                   ELSE Punished(n, r, o)[i].fate
      <4>1. ASSUME NEW s, s \in Seq(Entry), NEW t, t = Settle(s, "landed")
            PROVE  /\ t \in Seq(Entry) /\ Len(t) = Len(s)
                   /\ \A i \in 1 .. Len(s) :
                         t[i].fate = IF s[i].fate = "pending" THEN "landed" ELSE s[i].fate
          BY <3>1, <4>1, SettleFacts
      <4> QED BY <3>1, <3>2, <4>1
    <3>4. Punished(n, r, o) = <<>> => Punished(n, r, o)' = <<>>
        BY <3>1, <3>3
    <3> QED
        BY <1>1, <3>3, <3>4 DEF Accounted, Sound
  <2>2. CASE ~(o = p /\ view[p] = r)
    <3>1. Punished(n, r, o)' = Punished(n, r, o)
        BY <2>2, PunishLandsFacts
    <3> QED
        BY <1>1, <2>2, <3>1 DEF Accounted, Sound
  <2> QED
      BY <2>1, <2>2
<1>4. Accounted'
    BY <1>3 DEF Accounted
<1>5. IdleIsEmpty'
    BY <1>1 DEF IdleIsEmpty
<1> QED
    BY <1>2, <1>4, <1>5

LEMMA PunishFailsPreserves ==
    ASSUME IInv, NEW p \in Players, PunishFails(p)
    PROVE  IInv'
<1> USE DEF IInv
<1>1. /\ pc = "deliver" /\ punish' = punish \ {p}
      /\ UNCHANGED <<place, pc, view, todo, warning, kick, aborted>>
    BY DEF PunishFails
<1>2. TypeOK'
    BY <1>1, PunishFailsFacts DEF TypeOK, WatchType
<1>3. ASSUME NEW n \in Mods, NEW r \in Squads, NEW o \in Players
      PROVE  Sound(n, r, o)'
  <2>1. CASE o = p /\ view[p] = r
    <3>1. Punished(n, r, o) \in Seq(Entry)
        BY TypeFacts DEF Punished
    <3>2. Punished(n, r, o)' = DropLast(Punished(n, r, o))
        BY <2>1, PunishFailsFacts
    <3>3. CASE Punished(n, r, o) = <<>>
        BY <3>2, <3>3 DEF DropLast, Sound
    <3>4. CASE Punished(n, r, o) # <<>>
      <4>1. /\ Len(Punished(n, r, o)') = Len(Punished(n, r, o)) - 1
            /\ \A i \in 1 .. Len(Punished(n, r, o)') :
                  Punished(n, r, o)'[i] = Punished(n, r, o)[i]
            /\ Len(Punished(n, r, o)) \in Nat
          BY <3>1, <3>2, <3>4, DropLastFacts
      <4>2. Config[n].punishments # 0
          BY <3>4 DEF Accounted, Sound
      <4>3. \A i \in 1 .. Len(Punished(n, r, o)') :
                i \in 1 .. Len(Punished(n, r, o)) /\ i # Len(Punished(n, r, o))
          BY <4>1
      <4> QED
          BY <1>1, <4>1, <4>2, <4>3 DEF Accounted, Sound
    <3> QED
        BY <3>3, <3>4
  <2>2. CASE ~(o = p /\ view[p] = r)
    <3>1. Punished(n, r, o)' = Punished(n, r, o)
        BY <2>2, PunishFailsFacts
    <3> QED
        BY <1>1, <2>2, <3>1 DEF Accounted, Sound
  <2> QED
      BY <2>1, <2>2
<1>4. Accounted'
    BY <1>3 DEF Accounted
<1>5. IdleIsEmpty'
    BY <1>1 DEF IdleIsEmpty
<1> QED
    BY <1>2, <1>4, <1>5

LEMMA AbortPreserves ==
    ASSUME IInv, Abort
    PROVE  IInv'
<1> USE DEF IInv
<1>1. /\ pc' = "idle" /\ todo' = {} /\ warning' = {} /\ punish' = {} /\ kick' = {}
      /\ aborted' = TRUE /\ UNCHANGED <<ttl, place, view>>
    BY DEF Abort
<1>2. TypeOK'
    BY <1>1, AbortFacts DEF TypeOK, WatchType
<1>3. ASSUME NEW n \in Mods, NEW r \in Squads, NEW o \in Players
      PROVE  Sound(n, r, o)'
  <2>1. Punished(n, r, o) \in Seq(Entry) /\ "lost" \in Fates
      BY TypeFacts DEF Punished, Fates
  <2>2. Punished(n, r, o)' = Settle(Punished(n, r, o), "lost")
      BY AbortFacts
  <2>3. /\ Punished(n, r, o)' \in Seq(Entry)
        /\ Len(Punished(n, r, o)') = Len(Punished(n, r, o))
        /\ \A i \in 1 .. Len(Punished(n, r, o)) :
              Punished(n, r, o)'[i].fate =
                 IF Punished(n, r, o)[i].fate = "pending" THEN "lost"
                 ELSE Punished(n, r, o)[i].fate
      BY <2>1, <2>2, SettleFacts
  <2>4. Punished(n, r, o) = <<>> => Punished(n, r, o)' = <<>>
      BY <2>1, <2>3
  <2>5. Sound(n, r, o)
      BY DEF Accounted
  <2> QED
      BY <1>1, <2>1, <2>3, <2>4, <2>5 DEF Sound
<1>4. Accounted'
    BY <1>3 DEF Accounted
<1>5. IdleIsEmpty'
    BY <1>1 DEF IdleIsEmpty
<1> QED
    BY <1>2, <1>4, <1>5

\* The steps that decide, deliver and abandon no punish.
LEMMA QuietPreserves ==
    ASSUME IInv,
           \/ StartRound \/ StartDelivery \/ EndRound \/ Tick
           \/ \E m \in Mods, q \in Squads : Clear(m, q) \/ PassOver(m, q)
           \/ \E m \in Mods, p \in Players : Warn(m, p)
           \/ \E k \in kick : Kick(k)
           \/ \E p \in Players : Move(p)
           \/ UNCHANGED vars
    PROVE  IInv'
<1> USE DEF IInv
<1>1. CASE StartRound
  <2>1. /\ pc = "idle" /\ punish = {} /\ view' = place /\ pc' = "evaluate"
        /\ todo' \subseteq Mods \X Squads
        /\ UNCHANGED <<memory, place, lists, aborted>>
      BY <1>1 DEF StartRound, IdleIsEmpty
  <2>2. TypeOK'
      BY <2>1 DEF TypeOK, memory, lists
  <2>3. ASSUME NEW m \in Mods, NEW q \in Squads, NEW p \in Players
        PROVE  Sound(m, q, p)'
    <3>1. Sound(m, q, p)
        BY DEF Accounted
    <3> QED
        BY <2>1, <3>1 DEF Sound, Punished, memory, lists
  <2> QED
      BY <2>1, <2>2, <2>3 DEF Accounted, IdleIsEmpty
<1>2. CASE StartDelivery \/ EndRound
  <2>1. TypeOK' /\ IdleIsEmpty'
      BY <1>2 DEF StartDelivery, EndRound, TypeOK, IdleIsEmpty, memory, lists
  <2>2. Accounted'
      BY <1>2, NothingDecided
      DEF StartDelivery, EndRound, Punished, memory, lists
  <2> QED
      BY <2>1, <2>2
<1>3. CASE Tick
  <2>1. TypeOK' /\ IdleIsEmpty'
      BY <1>3, TickFacts DEF Tick, TypeOK, IdleIsEmpty, lists, WatchType
  <2>2. punish' = punish /\ view' = view /\ aborted' = aborted /\ todo' \subseteq todo
      BY <1>3 DEF Tick, lists
  <2> QED
      BY <1>3, <2>1, <2>2, TickFacts, NothingDecided
<1>4. ASSUME NEW m \in Mods, NEW q \in Squads, Clear(m, q) PROVE IInv'
  <2>1. todo' \subseteq todo /\ UNCHANGED <<place, pc, view, lists, aborted>>
      BY <1>4 DEF Clear
  <2>2. TypeOK' /\ IdleIsEmpty'
      BY <2>1, <1>4, ClearFacts DEF TypeOK, IdleIsEmpty, lists, WatchType
  <2> QED
      BY <1>4, <2>1, <2>2, ClearFacts, NothingDecided DEF lists
<1>5. ASSUME NEW m \in Mods, NEW q \in Squads, PassOver(m, q) PROVE IInv'
  <2>1. /\ todo' \subseteq todo
        /\ UNCHANGED <<memory, place, pc, view, lists, aborted>>
      BY <1>5 DEF PassOver
  <2>2. TypeOK' /\ IdleIsEmpty'
      BY <2>1 DEF TypeOK, IdleIsEmpty, lists, memory
  <2> QED
      BY <2>1, <2>2, NothingDecided DEF lists, memory, Punished
<1>6. ASSUME NEW m \in Mods, NEW p \in Players, Warn(m, p) PROVE IInv'
  <2>1. /\ warning' \subseteq warning
        /\ UNCHANGED <<ttl, place, pc, view, todo, punish, kick, aborted>>
      BY <1>6 DEF Warn
  <2>2. TypeOK' /\ IdleIsEmpty'
      BY <2>1, <1>6, WarnFacts DEF TypeOK, IdleIsEmpty, WatchType
  <2> QED
      BY <1>6, <2>1, <2>2, WarnFacts, NothingDecided
<1>7. ASSUME NEW k \in kick, Kick(k) PROVE IInv'
  <2>1. /\ kick' \subseteq kick
        /\ place' \in {place, [place EXCEPT ![k.player] = NoSquad]}
        /\ UNCHANGED <<memory, pc, view, todo, warning, punish, aborted>>
      BY <1>7 DEF Kick
  <2>2. TypeOK' /\ IdleIsEmpty'
      BY <2>1 DEF TypeOK, IdleIsEmpty, memory
  <2> QED
      BY <2>1, <2>2, NothingDecided DEF memory, Punished
<1>8. ASSUME NEW p \in Players, Move(p) PROVE IInv'
  <2>1. /\ place' \in [Players -> Squads \cup {NoSquad}]
        /\ UNCHANGED <<memory, pc, view, todo, lists, aborted>>
      BY <1>8 DEF Move, TypeOK
  <2>2. TypeOK' /\ IdleIsEmpty'
      BY <2>1 DEF TypeOK, IdleIsEmpty, memory, lists
  <2> QED
      BY <2>1, <2>2, NothingDecided DEF memory, lists, Punished
<1>9. CASE UNCHANGED vars
  <2>1. TypeOK' /\ IdleIsEmpty'
      BY <1>9 DEF vars, TypeOK, IdleIsEmpty
  <2> QED
      BY <1>9, <2>1, NothingDecided DEF vars, Punished
<1> QED
    BY <1>1, <1>2, <1>3, <1>4, <1>5, <1>6, <1>7, <1>8, <1>9

LEMMA NextPreserves == IInv /\ [Next]_vars => IInv'
<1> SUFFICES ASSUME IInv, [Next]_vars PROVE IInv'
    OBVIOUS
<1>1. CASE \E m \in Mods, q \in Squads : Judge(m, q)
    BY <1>1, JudgePreserves
<1>2. CASE \E p \in Players : PunishLands(p)
    BY <1>2, PunishLandsPreserves
<1>3. CASE \E p \in Players : PunishFails(p)
    BY <1>3, PunishFailsPreserves
<1>4. CASE Abort
    BY <1>4, AbortPreserves
<1>5. CASE \/ StartRound \/ StartDelivery \/ EndRound \/ Tick
           \/ \E m \in Mods, q \in Squads : Clear(m, q) \/ PassOver(m, q)
           \/ \E m \in Mods, p \in Players : Warn(m, p)
           \/ \E k \in kick : Kick(k)
           \/ \E p \in Players : Move(p)
           \/ UNCHANGED vars
    BY <1>5, QuietPreserves
<1> QED
    BY <1>1, <1>2, <1>3, <1>4, <1>5 DEF Next, Round

LEMMA Inductive == Spec => []IInv
<1> QED
    BY InitEstablishes, NextPreserves, PTL DEF Spec

-----------------------------------------------------------------------------
(* Results.                                                                *)

\* The watches, the lists and the clocks keep their types in every run.
THEOREM TypeCorrect == Spec => []TypeOK
<1>1. IInv => TypeOK
    BY DEF IInv
<1> QED
    BY <1>1, Inductive, PTL

\* A step other than Judge puts nobody on the list of kicks.
LEMMA OnlyJudgeKicks ==
    ASSUME [Next]_vars, NEW k \in kick' \ kick
    PROVE  \E m \in Mods, q \in Squads : Judge(m, q)
BY DEF Next, Round, vars, lists, StartRound, StartDelivery, EndRound, Abort,
       Clear, PassOver, Warn, PunishLands, PunishFails, Kick, Tick, Move

\* Whatever the moderators, the squads and the settings, and however rounds,
\* commands, moves and time interleave: unless a round was cut short, the
\* ladder kicks only players who received every punish they were to receive.
THEOREM KicksAreEarned == Spec => KickIsEarned
<1>1. ASSUME IInv, [Next]_vars, NEW k \in kick' \ kick, ~k.forced, ~aborted
      PROVE  /\ Config[k.mod].punishments >= 1
             /\ Len(Record(k)) >= Config[k.mod].punishments
             /\ \A i \in 1 .. Len(Record(k)) : Record(k)[i].fate = "landed"
             /\ Final(Record(k)).age >= Config[k.mod].grace
  <2>1. PICK m \in Mods, q \in Squads : Judge(m, q)
      BY <1>1, OnlyJudgeKicks
  <2>2. /\ k \in Kicks /\ k.mod = m /\ view[k.player] = q
        /\ Config[m].punishments >= 1
        /\ Len(Record(k)) >= Config[m].punishments
        /\ Final(Record(k)).age >= Config[m].grace
      BY <1>1, <2>1, JudgeFacts, SMTT(60) DEF IInv
  <2>3. k.player \in Players /\ Record(k) = Punished(m, q, k.player)
      BY <2>2 DEF Kicks, Record, Punished
  <2>4. <<m, q>> \in todo
      BY <2>1 DEF Judge
  <2>5. Sound(m, q, k.player)
      BY <1>1, <2>3 DEF IInv, Accounted
  <2> QED
      BY <1>1, <2>2, <2>3, <2>4, <2>5 DEF Sound
<1>2. IInv /\ [Next]_vars =>
          [\A k \in kick' \ kick :
             ~k.forced /\ ~aborted =>
               /\ Config[k.mod].punishments >= 1
               /\ Len(Record(k)) >= Config[k.mod].punishments
               /\ \A i \in 1 .. Len(Record(k)) : Record(k)[i].fate = "landed"
               /\ Final(Record(k)).age >= Config[k.mod].grace]_vars
    BY <1>1
<1> QED
    BY <1>2, Inductive, PTL DEF Spec, KickIsEarned

-----------------------------------------------------------------------------
(* Refunds.                                                                *)

\* With a single moderator, a player on the list of punishes is there on its
\* behalf: his last punish on record is the one to be delivered, unless the
\* watch has expired meanwhile.
SoleAsker ==
    \A m \in Mods : Mods = {m} =>
        \A p \in punish :
            /\ view[p] \in Squads /\ <<m, view[p]>> \notin todo
            /\ LET s == Punished(m, view[p], p)
               IN  s = <<>> \/ s[Len(s)].fate = "pending"

LEMMA SoleAskerQuiet ==
    ASSUME TypeOK, SoleAsker,
           punish' \subseteq punish, view' = view, todo' \subseteq todo,
           \A m \in Mods, q \in Squads, p \in punish' :
              \/ Punished(m, q, p)' = <<>>
              \/ Punished(m, q, p)' = Punished(m, q, p)
              \/ Punished(m, q, p)' = Older(Punished(m, q, p))
    PROVE  SoleAsker'
<1> SUFFICES ASSUME NEW m \in Mods, Mods = {m}, NEW p \in punish'
             PROVE  /\ view[p] \in Squads /\ <<m, view[p]>> \notin todo'
                    /\ \/ Punished(m, view[p], p)' = <<>>
                       \/ Punished(m, view[p], p)'[Len(Punished(m, view[p], p)')].fate
                              = "pending"
    BY DEF SoleAsker
<1> DEFINE s == Punished(m, view[p], p)
<1>1. /\ p \in Players /\ view[p] \in Squads /\ <<m, view[p]>> \notin todo'
      /\ s = <<>> \/ s[Len(s)].fate = "pending"
    BY DEF SoleAsker, TypeOK
<1>2. s \in Seq(Entry)
    BY <1>1, TypeFacts DEF Punished
<1>3. CASE Punished(m, view[p], p)' = <<>> \/ Punished(m, view[p], p)' = s
    BY <1>1, <1>3
<1>4. CASE Punished(m, view[p], p)' = Older(s)
  <2>1. /\ Older(s) \in Seq(Entry) /\ Len(Older(s)) = Len(s)
        /\ \A i \in 1 .. Len(s) : Older(s)[i].fate = s[i].fate
      BY <1>2, OlderFacts
  <2>2. CASE s = <<>>
    <3>1. Older(s) = <<>>
        BY <2>1, <2>2
    <3> QED
        BY <1>1, <1>4, <3>1
  <2>3. CASE s # <<>>
    <3>1. Len(s) \in 1 .. Len(s)
        BY <1>2, <2>3
    <3> QED
        BY <1>1, <1>4, <2>1, <2>3, <3>1
  <2> QED
      BY <2>2, <2>3
<1> QED
    BY <1>1, <1>3, <1>4

LEMMA SoleAskerPreserved == IInv /\ SoleAsker /\ [Next]_vars => SoleAsker'
<1> SUFFICES ASSUME IInv, SoleAsker, [Next]_vars PROVE SoleAsker'
    OBVIOUS
<1> USE DEF IInv
<1>1. ASSUME NEW n \in Mods, NEW q \in Squads, Judge(n, q) PROVE SoleAsker'
  <2>0. todo' \subseteq todo /\ <<n, q>> \in todo /\ <<n, q>> \notin todo'
        /\ view' = view
      BY <1>1 DEF Judge
  <2> SUFFICES ASSUME NEW m \in Mods, Mods = {m}, NEW p \in punish'
               PROVE  /\ view[p] \in Squads /\ <<m, view[p]>> \notin todo'
                      /\ \/ Punished(m, view[p], p)' = <<>>
                         \/ Punished(m, view[p], p)'[Len(Punished(m, view[p], p)')].fate
                                = "pending"
      BY <2>0 DEF SoleAsker
  <2>1. p \in Players /\ n = m
      BY <1>1, JudgeFacts, SMTT(60)
  <2>2. CASE p \in punish
    <3>1. /\ view[p] \in Squads /\ <<m, view[p]>> \notin todo
          /\ LET s == Punished(m, view[p], p)
             IN  s = <<>> \/ s[Len(s)].fate = "pending"
        BY <2>2 DEF SoleAsker
    <3>2. view[p] # q
        BY <2>0, <2>1, <3>1
    <3>3. Punished(m, view[p], p)' = Punished(m, view[p], p)
        BY <1>1, <2>0, <2>1, <3>1, <3>2, JudgeElsewhere
    <3> QED
        BY <2>0, <3>1, <3>3
  <2>3. CASE p \notin punish
    <3>1. /\ view[p] = q
          /\ Punished(m, q, p)' = Append(Punished(m, q, p), Now("pending"))
        BY <1>1, <2>1, <2>3, JudgeFacts, SMTT(60)
    <3>2. Punished(m, q, p) \in Seq(Entry) /\ "pending" \in Fates
        BY <2>1, TypeFacts DEF Punished, Fates
    <3>3. /\ Len(Punished(m, q, p)') = Len(Punished(m, q, p)) + 1
          /\ Punished(m, q, p)'[Len(Punished(m, q, p)) + 1].fate = "pending"
        BY <3>1, <3>2, AppendFacts
    <3> QED
        BY <2>0, <2>1, <3>1, <3>3
  <2> QED
      BY <2>2, <2>3
<1>2. ASSUME NEW p \in Players, PunishLands(p) PROVE SoleAsker'
  <2>1. punish' = punish \ {p} /\ view' = view /\ todo' = todo
      BY <1>2 DEF PunishLands
  <2>2. \A m \in Mods, q \in Squads, o \in punish' :
            Punished(m, q, o)' = Punished(m, q, o)
      BY <1>2, <2>1, PunishLandsFacts DEF TypeOK
  <2> QED
      BY <2>1, <2>2, SoleAskerQuiet
<1>3. ASSUME NEW p \in Players, PunishFails(p) PROVE SoleAsker'
  <2>1. punish' = punish \ {p} /\ view' = view /\ todo' = todo
      BY <1>3 DEF PunishFails
  <2>2. \A m \in Mods, q \in Squads, o \in punish' :
            Punished(m, q, o)' = Punished(m, q, o)
      BY <1>3, <2>1, PunishFailsFacts DEF TypeOK
  <2> QED
      BY <2>1, <2>2, SoleAskerQuiet
<1>4. CASE Abort \/ StartRound
    BY <1>4 DEF Abort, StartRound, IdleIsEmpty, SoleAsker, lists
<1>5. CASE StartDelivery \/ EndRound
    BY <1>5, SoleAskerQuiet DEF StartDelivery, EndRound, Punished, memory, lists
<1>6. CASE Tick
  <2>1. punish' = punish /\ view' = view /\ todo' = todo
      BY <1>6 DEF Tick, lists
  <2> QED
      BY <1>6, <2>1, TickFacts, SoleAskerQuiet DEF TypeOK
<1>7. ASSUME NEW m \in Mods, NEW q \in Squads, Clear(m, q) PROVE SoleAsker'
  <2>1. punish' = punish /\ view' = view /\ todo' \subseteq todo
      BY <1>7 DEF Clear, lists
  <2> QED
      BY <1>7, <2>1, ClearFacts, SoleAskerQuiet DEF TypeOK
<1>8. ASSUME NEW m \in Mods, NEW q \in Squads, PassOver(m, q) PROVE SoleAsker'
    BY <1>8, SoleAskerQuiet DEF PassOver, Punished, memory, lists
<1>9. ASSUME NEW m \in Mods, NEW p \in Players, Warn(m, p) PROVE SoleAsker'
  <2>1. punish' = punish /\ view' = view /\ todo' = todo
      BY <1>9 DEF Warn
  <2> QED
      BY <1>9, <2>1, WarnFacts, SoleAskerQuiet DEF TypeOK
<1>10. ASSUME NEW k \in kick, Kick(k) PROVE SoleAsker'
    BY <1>10, SoleAskerQuiet DEF Kick, Punished, memory
<1>11. ASSUME NEW p \in Players, Move(p) PROVE SoleAsker'
    BY <1>11, SoleAskerQuiet DEF Move, Punished, memory, lists
<1>12. CASE UNCHANGED vars
    BY <1>12, SoleAskerQuiet DEF vars, Punished
<1> QED
    BY <1>1, <1>2, <1>3, <1>4, <1>5, <1>6, <1>7, <1>8, <1>9, <1>10, <1>11, <1>12
    DEF Next, Round

\* No punish is taken off a record, or only with the whole watch, or by
\* player_punish_failed.
LEMMA WhoTakesBack ==
    ASSUME IInv, [Next]_vars, NEW m \in Mods, NEW q \in Squads, NEW r \in Players
    PROVE  \/ ttl'[m][q] = 0
           \/ Len(Punished(m, q, r)') >= Len(Punished(m, q, r))
           \/ \E p \in Players : /\ PunishFails(p) /\ r = p /\ view[p] = q
                                /\ Punished(m, q, r)' = DropLast(Punished(m, q, r))
<1> USE DEF IInv
<1>0. Punished(m, q, r) \in Seq(Entry) /\ Len(Punished(m, q, r)) \in Nat
    BY TypeFacts DEF Punished
<1>1. ASSUME NEW n \in Mods, NEW o \in Squads, Judge(n, o)
      PROVE  Len(Punished(m, q, r)') >= Len(Punished(m, q, r))
  <2>1. \/ Punished(m, q, r)' = Punished(m, q, r)
        \/ Punished(m, q, r)' = Append(Punished(m, q, r), Now("pending"))
    <3>1. CASE n = m /\ o = q
        BY <1>1, <3>1, JudgeFacts, SMTT(60)
    <3>2. CASE ~(n = m /\ o = q)
        BY <1>1, <3>2, JudgeElsewhere
    <3> QED
        BY <3>1, <3>2
  <2>2. "pending" \in Fates
      BY DEF Fates
  <2> QED
      BY <1>0, <2>1, <2>2, AppendFacts
<1>2. ASSUME NEW p \in Players, PunishLands(p)
      PROVE  Len(Punished(m, q, r)') >= Len(Punished(m, q, r))
  <2>1. "landed" \in Fates
      BY DEF Fates
  <2> QED
      BY <1>0, <1>2, <2>1, PunishLandsFacts, SettleFacts
<1>3. ASSUME NEW p \in Players, PunishFails(p)
      PROVE  \/ Len(Punished(m, q, r)') >= Len(Punished(m, q, r))
             \/ /\ PunishFails(p) /\ r = p /\ view[p] = q
                /\ Punished(m, q, r)' = DropLast(Punished(m, q, r))
    BY <1>0, <1>3, PunishFailsFacts
<1>4. CASE Abort
  <2>1. "lost" \in Fates
      BY DEF Fates
  <2> QED
      BY <1>0, <1>4, <2>1, AbortFacts, SettleFacts
<1>5. CASE Tick
    BY <1>0, <1>5, TickFacts, OlderFacts
<1>6. ASSUME NEW n \in Mods, NEW o \in Squads, Clear(n, o)
      PROVE  ttl'[m][q] = 0 \/ Len(Punished(m, q, r)') >= Len(Punished(m, q, r))
    BY <1>0, <1>6, ClearFacts
<1>7. ASSUME NEW n \in Mods, NEW p \in Players, Warn(n, p)
      PROVE  Len(Punished(m, q, r)') >= Len(Punished(m, q, r))
    BY <1>0, <1>7, WarnFacts
<1>8. CASE \/ StartRound \/ StartDelivery \/ EndRound \/ UNCHANGED vars
           \/ \E n \in Mods, o \in Squads : PassOver(n, o)
           \/ \E k \in kick : Kick(k)
           \/ \E p \in Players : Move(p)
  <2>1. watch' = watch
      BY <1>8 DEF StartRound, StartDelivery, EndRound, PassOver, Kick, Move,
                  vars, memory
  <2> QED
      BY <1>0, <2>1 DEF Punished
<1> QED
    BY <1>1, <1>2, <1>3, <1>4, <1>5, <1>6, <1>7, <1>8 DEF Next, Round

\* Every punish that player_punish_failed takes back from a moderator that had
\* asked for one, or from the only moderator, is one the player did not receive.
THEOREM RefundsAreExact == Spec => RefundIsExact
<1>1. Init => SoleAsker
    BY DEF Init, SoleAsker
<1>2. ASSUME IInv, SoleAsker, [Next]_vars,
             NEW m \in Mods, NEW q \in Squads, NEW r \in Players,
             Mods = {m} \/ Asked(m, q, r)
      PROVE  ReceivedStays(m, q, r)
  <2> DEFINE old == Punished(m, q, r)
             new == Punished(m, q, r)'
  <2>2. ReceivedStays(m, q, r) <=>
            (ttl'[m][q] # 0 =>
               \A i \in Len(new) + 1 .. Len(old) : old[i].fate # "landed")
      BY DEF ReceivedStays, Punished
  <2>3. old \in Seq(Entry) /\ Len(old) \in Nat
      BY <1>2, TypeFacts DEF IInv, Punished
  <2>4. new \in Seq(Entry) /\ Len(new) \in Nat
    <3>1. TypeOK'
        BY <1>2, NextPreserves DEF IInv
    <3> QED
        BY <3>1 DEF TypeOK, Status, Punished
  <2>5. CASE ttl'[m][q] = 0 \/ Len(new) >= Len(old)
      BY <2>2, <2>3, <2>4, <2>5
  <2>6. CASE \E p \in Players : /\ PunishFails(p) /\ r = p /\ view[p] = q
                                /\ new = DropLast(old)
    <3>1. r \in punish /\ view[r] = q
        BY <2>6 DEF PunishFails
    <3>2. old = <<>> \/ old[Len(old)].fate = "pending"
      <4>1. CASE Mods = {m}
          BY <3>1, <4>1, <1>2 DEF SoleAsker
      <4>2. CASE Asked(m, q, r)
          BY <4>2 DEF Asked, Final, Punished
      <4> QED
          BY <1>2, <4>1, <4>2
    <3>3. Len(new) = IF old = <<>> THEN 0 ELSE Len(old) - 1
        BY <2>3, <2>6, DropLastFacts
    <3>4. \A i \in Len(new) + 1 .. Len(old) : i = Len(old) /\ old # <<>>
        BY <2>3, <3>3
    <3>5. "pending" # "landed"
        OBVIOUS
    <3> QED
        BY <2>2, <3>2, <3>4, <3>5
  <2> QED
      BY <1>2, <2>5, <2>6, WhoTakesBack
<1>3. IInv /\ SoleAsker /\ [Next]_vars =>
          [\A m \in Mods, q \in Squads, p \in Players :
              Mods = {m} \/ Asked(m, q, p) => ReceivedStays(m, q, p)]_vars
    BY <1>2
<1> QED
    BY <1>1, <1>3, Inductive, SoleAskerPreserved, PTL DEF Spec, RefundIsExact
=============================================================================
