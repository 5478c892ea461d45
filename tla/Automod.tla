------------------------------ MODULE Automod -------------------------------
(***************************************************************************)
(* The automod process (rcon/automods): every round it looks at the squads *)
(* of both teams, lets each enabled moderator move the players who break   *)
(* its rule one rung up the ladder note - warn - punish - kick, and then   *)
(* delivers what the moderators decided, one RCON command after another.   *)
(*                                                                         *)
(* What a moderator remembers of a squad is one Redis value with a time to *)
(* live (watch_state).  It is written when a step is decided, before it is *)
(* delivered, and outlives the process.  Times are kept as ages, cut off   *)
(* at Cap.  What a recorded step came to (its fate) is history: the code   *)
(* keeps no such thing and no guard reads it.                              *)
(***************************************************************************)
EXTENDS Integers, Sequences, FiniteSets

CONSTANTS
    Mods,       \* enabled_moderators()
    Squads,     \* squads of the two teams
    Players,
    NoSquad,    \* "is in none of Squads"
    Config,     \* the settings of each moderator
    ResetTime,  \* the time to live of a watch, 120 seconds
    Cap         \* ages are not told apart from here on

Moderators == {"no_leader", "seeding_rules", "level_thresholds", "solo_tank"}

\* -1 stands for "no limit", 0 for "skip this step".
Settings == [notes : Nat, warnings : Nat \cup {-1}, punishments : Nat \cup {-1},
             noteEvery : Nat, warnEvery : Nat, punishEvery : Nat,
             grace : Nat, kicks : BOOLEAN]

ASSUME ModsAssumption == Mods \subseteq Moderators
ASSUME ConfigAssumption == Config \in [Mods -> Settings]
ASSUME NoSquadAssumption == NoSquad \notin Squads
ASSUME TimeAssumption ==
    /\ ResetTime \in Nat \ {0}
    /\ Cap \in Nat
    /\ \A m \in Mods : Config[m].noteEvery <= Cap /\ Config[m].warnEvery <= Cap
    /\ \A m \in Mods : Config[m].punishEvery <= Cap /\ Config[m].grace <= Cap

VARIABLES
    watch,      \* WatchStatus of each moderator, squad and player
    ttl,        \* time to live of the Redis value, 0 when there is none
    place,      \* the squad each player is in
    pc,         \* where the process is in its round
    view,       \* get_team_view(): the squads at the start of the round
    todo,       \* pairs of a moderator and a squad still to be looked at
    warning,    \* PunitionsToApply.warning
    punish,     \* PunitionsToApply.punish
    kick,       \* PunitionsToApply.kick
    aborted     \* history: a round has been cut short

memory == <<watch, ttl>>
lists == <<warning, punish, kick>>
vars == <<watch, ttl, place, pc, view, todo, warning, punish, kick, aborted>>

\* landed     the player got the message or was punished
\* pending    on the list of this round
\* failed     a warning that the game server refused to deliver
\* lost       the round was cut short before the outcome was dealt with
\* skipped    never sent: enforce_cap_fight.skip_warning
Fates == {"landed", "pending", "failed", "lost", "skipped"}
Entry == [age : 0 .. Cap, fate : Fates]
Status == [noted : Seq(Entry), warned : Seq(Entry), punished : Seq(Entry)]
Fresh == [noted |-> <<>>, warned |-> <<>>, punished |-> <<>>]

NoWatch == [p \in Players |-> Fresh]
Kicks == [player : Players, mod : Mods, forced : BOOLEAN]

TypeOK ==
    /\ watch \in [Mods -> [Squads -> [Players -> Status]]]
    /\ ttl \in [Mods -> [Squads -> 0 .. ResetTime]]
    /\ place \in [Players -> Squads \cup {NoSquad}]
    /\ pc \in {"idle", "evaluate", "deliver"}
    /\ view \in [Players -> Squads \cup {NoSquad}]
    /\ todo \subseteq Mods \X Squads
    /\ warning \subseteq Mods \X Players
    /\ punish \subseteq Players
    /\ kick \subseteq Kicks
    /\ aborted \in BOOLEAN

Init ==
    /\ watch = [m \in Mods |-> [q \in Squads |-> NoWatch]]
    /\ ttl = [m \in Mods |-> [q \in Squads |-> 0]]
    /\ place \in [Players -> Squads \cup {NoSquad}]
    /\ pc = "idle"
    /\ view = [p \in Players |-> NoSquad]
    /\ todo = {}
    /\ warning = {} /\ punish = {} /\ kick = {}
    /\ aborted = FALSE

-----------------------------------------------------------------------------
(* The ladder.                                                             *)

Final(s) == s[Len(s)]
Now(fate) == [age |-> 0, fate |-> fate]

IsTime(times, interval) == times = <<>> \/ Final(times).age >= interval

\* PunishStepState of one step: number and interval are its settings.
Rung(times, number, interval) ==
    IF number = 0 THEN "DISABLED"
    ELSE IF ~IsTime(times, interval) THEN "WAIT"
    ELSE IF Len(times) < number \/ number = -1 THEN "APPLY"
    ELSE "GO_TO_NEXT_STEP"

should_note_player(m, s) == Rung(s.noted, Config[m].notes, Config[m].noteEvery)

should_warn_player(m, v, s, p) ==
    IF Config[m].warnings # 0 /\ p \in v.immune THEN "IMMUNED"
    ELSE Rung(s.warned, Config[m].warnings, Config[m].warnEvery)

should_punish_player(m, v, s, p) ==
    IF Config[m].punishments = 0 THEN "DISABLED"
    ELSE IF ~v.mayPunish THEN "WAIT"
    ELSE IF p \in v.immune THEN "IMMUNED"
    ELSE Rung(s.punished, Config[m].punishments, Config[m].punishEvery)

\* A variant that kicks without the grace period and the prior punishes.
KickAtOnce(m, v, s, p) ==
    IF Config[m].kicks /\ v.mayKick /\ p \notin v.immune
    THEN "APPLY" ELSE "WAIT"

should_kick_player(m, v, s, p) ==
    IF /\ Config[m].kicks /\ v.mayKick
       /\ p \notin v.immune
       /\ s.punished # <<>>
       /\ Final(s.punished).age >= Config[m].grace
    THEN "APPLY" ELSE "WAIT"

Passes(state) == state \in {"DISABLED", "GO_TO_NEXT_STEP"}

\* The step that is decided for player p, the first that does not pass.
Decide(m, v, s, p) ==
    LET note == should_note_player(m, s)
        warn == should_warn_player(m, v, s, p)
        pun == should_punish_player(m, v, s, p)
    IN  IF ~Passes(note) THEN IF note = "APPLY" THEN "note" ELSE "none"
        ELSE IF ~Passes(warn) THEN IF warn = "APPLY" THEN "warn" ELSE "none"
        ELSE IF ~Passes(pun) THEN IF pun = "APPLY" THEN "punish" ELSE "none"
        ELSE IF should_kick_player(m, v, s, p) = "APPLY" THEN "kick" ELSE "none"

\* What is written down with the decision.
Noted(s, step) ==
    CASE step = "note" -> [s EXCEPT !.noted = Append(@, Now("landed"))]
      [] step = "warn" -> [s EXCEPT !.warned = Append(@, Now("pending"))]
      [] step = "punish" -> [s EXCEPT !.punished = Append(@, Now("pending"))]
      [] OTHER -> s

\* enforce_cap_fight.skip_warning adds number_of_warnings old warnings each
\* time: that there are enough of them and that the last is old is all that counts.
Skipped(m, s) ==
    IF Config[m].warnings > 0
    THEN [s EXCEPT !.warned =
             [i \in 1 .. Config[m].warnings |-> [age |-> Cap, fate |-> "skipped"]]]
    ELSE s

\* setex: the watch is written and lives for ResetTime from now on.
Setex(left) == ResetTime

-----------------------------------------------------------------------------
(* What a moderator makes of a squad whose players are members.            *)
(* judged: go up the ladder.  forced: kicked whatever the ladder says.     *)

\* No officer: every member.  Levels and roles can be immune, punishes and
\* kicks need enough players in the squad and on the server.
NoLeaderVerdicts(members) ==
    [judged : {members}, forced : {{}}, skip : {{}}, immune : SUBSET members,
     mayPunish : BOOLEAN, mayKick : BOOLEAN]

\* A disallowed role, or winning ground in the cap fight.
SeedingVerdicts(members) ==
    {v \in [judged : SUBSET members, forced : {{}}, skip : SUBSET members,
            immune : {{}}, mayPunish : {TRUE}, mayKick : {TRUE}] :
        v.skip \subseteq v.judged}

\* A level too low for the role, or outside the server's limits.
LevelVerdicts(members) ==
    {v \in [judged : SUBSET members, forced : SUBSET members, skip : {{}},
            immune : {{}}, mayPunish : {TRUE}, mayKick : {TRUE}] :
        v.forced \cap v.judged = {}}

\* The single member of an armor squad.
SoloTankVerdicts(members) ==
    {v \in [judged : {members}, forced : {{}}, skip : {{}}, immune : {{}},
            mayPunish : BOOLEAN, mayKick : BOOLEAN] :
        Cardinality(v.judged) = 1}

Verdicts(m, members) ==
    CASE m = "no_leader" -> NoLeaderVerdicts(members)
      [] m = "seeding_rules" -> SeedingVerdicts(members)
      [] m = "level_thresholds" -> LevelVerdicts(members)
      [] OTHER -> SoloTankVerdicts(members)

\* SquadHasLeader and NoSoloTanker delete the watch; nothing else does.
Clearing == {"no_leader", "solo_tank"}

-----------------------------------------------------------------------------
(* A round.                                                                *)

Members(q) == {p \in Players : view[p] = q}

StartRound ==
    /\ pc = "idle"
    /\ pc' = "evaluate"
    /\ view' = place
    /\ todo' = {mq \in Mods \X Squads : \E p \in Players : place[p] = mq[2]}
    /\ UNCHANGED <<memory, place, lists, aborted>>

\* punitions_to_apply of moderator m for squad q, and the merge of its result:
\* punishes and kicks are merged by player, warnings are not.
Judge(m, q) ==
    /\ pc = "evaluate" /\ <<m, q>> \in todo
    /\ todo' = todo \ {<<m, q>>}
    /\ \E v \in Verdicts(m, Members(q)) :
          LET before == [p \in Players |-> IF p \in v.skip
                            THEN Skipped(m, watch[m][q][p]) ELSE watch[m][q][p]]
              step == [p \in Players |-> IF p \in v.judged
                            THEN Decide(m, v, before[p], p) ELSE "none"]
              Taking(name) == {p \in Players : step[p] = name}
              Kicked(p) == \E k \in kick : k.player = p
          IN  /\ watch' = [watch EXCEPT ![m][q] =
                               [p \in Players |-> Noted(before[p], step[p])]]
              /\ warning' = warning \cup {<<m, p>> : p \in Taking("warn")}
              /\ punish' = punish \cup Taking("punish")
              /\ kick' = kick \cup
                    {k \in Kicks : /\ k.mod = m /\ ~Kicked(k.player)
                                   /\ IF k.forced THEN k.player \in v.forced
                                      ELSE k.player \in Taking("kick")}
    /\ ttl' = [ttl EXCEPT ![m][q] = Setex(@)]
    /\ UNCHANGED <<place, pc, view, aborted>>

\* The squad keeps the rule now: forget everything about it.
Clear(m, q) ==
    /\ pc = "evaluate" /\ <<m, q>> \in todo /\ m \in Clearing
    /\ todo' = todo \ {<<m, q>>}
    /\ watch' = [watch EXCEPT ![m][q] = NoWatch]
    /\ ttl' = [ttl EXCEPT ![m][q] = 0]
    /\ UNCHANGED <<place, pc, view, lists, aborted>>

\* Too few players on the server (no_leader), or the commander's own squad.
PassOver(m, q) ==
    /\ pc = "evaluate" /\ <<m, q>> \in todo /\ m \in Clearing
    /\ todo' = todo \ {<<m, q>>}
    /\ UNCHANGED <<memory, place, pc, view, lists, aborted>>

StartDelivery ==
    /\ pc = "evaluate" /\ todo = {}
    /\ pc' = "deliver"
    /\ UNCHANGED <<memory, place, view, todo, lists, aborted>>

\* The watch after the pending entries of p have met their fate.
Settle(s, fate) ==
    [i \in 1 .. Len(s) |-> IF s[i].fate = "pending"
                           THEN [s[i] EXCEPT !.fate = fate] ELSE s[i]]

\* A warning is delivered or refused: either way it stays on record.
Warn(m, p) ==
    /\ pc = "deliver" /\ <<m, p>> \in warning
    /\ warning' = warning \ {<<m, p>>}
    /\ \E fate \in {"landed", "failed"} :
          watch' = [n \in Mods |-> [q \in Squads |-> [r \in Players |->
                       IF n = m /\ r = p /\ view[p] = q
                       THEN [watch[n][q][r] EXCEPT !.warned = Settle(@, fate)]
                       ELSE watch[n][q][r]]]]
    /\ UNCHANGED <<ttl, place, pc, view, todo, punish, kick, aborted>>

\* The punish is carried out, for every moderator that asked for it.
PunishLands(p) ==
    /\ pc = "deliver" /\ warning = {} /\ p \in punish
    /\ punish' = punish \ {p}
    /\ watch' = [m \in Mods |-> [q \in Squads |-> [r \in Players |->
                    IF r = p /\ view[p] = q
                    THEN [watch[m][q][r] EXCEPT !.punished = Settle(@, "landed")]
                    ELSE watch[m][q][r]]]]
    /\ UNCHANGED <<ttl, place, pc, view, todo, warning, kick, aborted>>

\* A variant that empties the player's list.
DropAll(s) == <<>>

\* player_punish_failed: "del punishes[-1]".
DropLast(s) == IF s = <<>> THEN s ELSE SubSeq(s, 1, Len(s) - 1)

\* A variant without player_punish_failed: the punish stays on record.
PunishFailsForgotten(p) ==
    /\ pc = "deliver" /\ warning = {} /\ p \in punish
    /\ punish' = punish \ {p}
    /\ UNCHANGED <<memory, place, pc, view, todo, warning, kick, aborted>>

\* CommandFailedError: every enabled moderator takes back its last punish.
PunishFails(p) ==
    /\ pc = "deliver" /\ warning = {} /\ p \in punish
    /\ punish' = punish \ {p}
    /\ watch' = [m \in Mods |-> [q \in Squads |-> [r \in Players |->
                    IF r = p /\ view[p] = q
                    THEN [watch[m][q][r] EXCEPT !.punished = DropLast(@)]
                    ELSE watch[m][q][r]]]]
    /\ ttl' = [m \in Mods |-> [q \in Squads |->
                    IF view[p] = q THEN Setex(ttl[m][q]) ELSE ttl[m][q]]]
    /\ UNCHANGED <<place, pc, view, todo, warning, kick, aborted>>

\* A kick that fails is decided again in the next round.
Kick(k) ==
    /\ pc = "deliver" /\ warning = {} /\ punish = {} /\ k \in kick
    /\ kick' = kick \ {k}
    /\ place' \in {place, [place EXCEPT ![k.player] = NoSquad]}
    /\ UNCHANGED <<memory, pc, view, todo, warning, punish, aborted>>

EndRound ==
    /\ pc = "deliver" /\ warning = {} /\ punish = {} /\ kick = {}
    /\ pc' = "idle"
    /\ UNCHANGED <<memory, place, view, todo, lists, aborted>>

\* Any other exception ends the process (BrokenHllConnection, a lost Redis,
\* a webhook that does not answer), and so does a restart.  supervisord
\* starts it again; what had been decided is forgotten, its record is not.
Abort ==
    /\ pc # "idle"
    /\ pc' = "idle"
    /\ todo' = {} /\ warning' = {} /\ punish' = {} /\ kick' = {}
    /\ watch' = [m \in Mods |-> [q \in Squads |-> [r \in Players |->
                    [watch[m][q][r] EXCEPT !.warned = Settle(@, "lost"),
                                           !.punished = Settle(@, "lost")]]]]
    /\ aborted' = TRUE
    /\ UNCHANGED <<ttl, place, view>>

-----------------------------------------------------------------------------
(* The world.                                                              *)

\* Players change squads, leave and come back.
Move(p) ==
    /\ place' \in {[place EXCEPT ![p] = q] : q \in Squads \cup {NoSquad}}
    /\ UNCHANGED <<memory, pc, view, todo, lists, aborted>>

Older(s) ==
    [i \in 1 .. Len(s) |-> [s[i] EXCEPT !.age = IF @ < Cap THEN @ + 1 ELSE @]]

\* Time passes; Redis drops what has reached the end of its time to live.
Tick ==
    /\ watch' = [m \in Mods |-> [q \in Squads |-> [p \in Players |->
                    IF ttl[m][q] <= 1 THEN Fresh
                    ELSE [noted |-> Older(watch[m][q][p].noted),
                          warned |-> Older(watch[m][q][p].warned),
                          punished |-> Older(watch[m][q][p].punished)]]]]
    /\ ttl' = [m \in Mods |-> [q \in Squads |->
                    IF ttl[m][q] = 0 THEN 0 ELSE ttl[m][q] - 1]]
    /\ UNCHANGED <<place, pc, view, todo, lists, aborted>>

Round ==
    \/ StartRound \/ StartDelivery \/ EndRound \/ Abort
    \/ \E m \in Mods, q \in Squads : Judge(m, q) \/ Clear(m, q) \/ PassOver(m, q)
    \/ \E m \in Mods, p \in Players : Warn(m, p)
    \/ \E p \in Players : PunishLands(p) \/ PunishFails(p)
    \/ \E k \in kick : Kick(k)

Next == Round \/ Tick \/ \E p \in Players : Move(p)

Spec == Init /\ [][Next]_vars

-----------------------------------------------------------------------------
(* Properties                                                              *)

Record(k) == watch[k.mod][view[k.player]][k.player].punished

\* A player is put on the list of kicks by the ladder of a moderator only if
\* that moderator has number_of_punishments punishes of him on record, at
\* least one, every one of which he really received, and the last of them is
\* older than the grace period.  Refunds by other moderators, punishes merged
\* between moderators, changes of squad and expired watches do not break it;
\* only a round that was cut short does (KicksAreDeserved).
KickIsEarned ==
    [][\A k \in kick' \ kick :
          ~k.forced /\ ~aborted =>
             /\ Config[k.mod].punishments >= 1
             /\ Len(Record(k)) >= Config[k.mod].punishments
             /\ \A i \in 1 .. Len(Record(k)) : Record(k)[i].fate = "landed"
             /\ Final(Record(k)).age >= Config[k.mod].grace]_vars

\* A step that keeps the watch takes no punish off a record that the player
\* has really received.
ReceivedStays(m, q, p) ==
    LET old == watch[m][q][p].punished
        new == watch'[m][q][p].punished
    IN  ttl'[m][q] # 0 =>
            \A i \in Len(new) + 1 .. Len(old) : old[i].fate # "landed"

\* The last punish on record is one that this round is to carry out.
Asked(m, q, p) ==
    LET s == watch[m][q][p].punished IN s # <<>> /\ Final(s).fate = "pending"

\* player_punish_failed takes back the punish that failed and no other from
\* every moderator that had asked for it, and from one that is alone even when
\* its watch expired or the player changed squads in the meantime.  One that
\* had asked for nothing loses a punish the player received
\* (ReceivedPunishesStay).
RefundIsExact ==
    [][\A m \in Mods, q \in Squads, p \in Players :
          Mods = {m} \/ Asked(m, q, p) => ReceivedStays(m, q, p)]_vars

(* What the documentation and the log say, and the code does not do.       *)

\* autoMods.js:260, "Set to 1 or Z to apply Z punishes before we move to the
\* next step (the kicks)".
KicksAreDeserved ==
    [][\A k \in kick' \ kick :
          ~k.forced => /\ Len(Record(k)) >= Config[k.mod].punishments
                       /\ \A i \in 1 .. Len(Record(k)) :
                              Record(k)[i].fate = "landed"]_vars

\* autoMods.js:260 again: what a moderator counts as one of the Z
\* punishes is taken back only if it failed.  _do_punitions tells every
\* moderator, also those that had asked for nothing.
ReceivedPunishesStay ==
    [][\A m \in Mods, q \in Squads, p \in Players : ReceivedStays(m, q, p)]_vars

\* automod.py:110, "Couldn't MESSAGE player. Will retry.", and autoMods.js:236,
\* "warn squad Y times before we move on to the punish step".
WarningsAreRetried ==
    [][\A m \in Mods, q \in Squads, p \in Players :
          Len(watch'[m][q][p].punished) > Len(watch[m][q][p].punished) =>
             \A i \in 1 .. Len(watch[m][q][p].warned) :
                 watch[m][q][p].warned[i].fate # "failed"]_vars
=============================================================================
