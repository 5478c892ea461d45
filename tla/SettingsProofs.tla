--------------------------- MODULE SettingsProofs ---------------------------
(***************************************************************************)
(* Proofs about the settings that several parts of the program set: the    *)
(* rules and edits of AutoSettings, the calls of MapShuffle, the texts of  *)
(* Messages, and the configurations of UserSettings.  Each part is an      *)
(* inductive invariant and what follows.                                   *)
(***************************************************************************)
EXTENDS AutoSettings, Messages, MapShuffle, UserSettings, TLAPS

-----------------------------------------------------------------------------
(* Edits: what one request leaves undone another one is still to do.       *)

\* The process and what supervisor says of it.
ServiceInv ==
    /\ stored \in Configs /\ config \in Configs \cup {NoConfig}
    /\ service \in {"stopped", "starting", "running"}
    /\ at \in {"none", "boot", "first", "rules", "last", "sleep"}
    /\ request \in [Requests -> {"none", "info", "stop", "start"}]
    /\ service = "stopped" <=> at = "none"
    /\ config = NoConfig <=> at \in {"none", "boot"}

\* An old configuration does not stay.
EditInv ==
    config \notin {NoConfig, stored} /\ ~skipped
        => \E r \in Requests : request[r] \in {"info", "stop"}

IInv == ServiceInv /\ EditInv /\ OffIsWanted

LEMMA InitIInv == AutoInit => IInv
BY AutoAssumption DEF AutoInit, IInv, ServiceInv, EditInv, OffIsWanted

\* The loop itself does not change what the invariant is about.
LEMMA LoopKeepsIInv ==
    ASSUME IInv, LoopNext, UNCHANGED <<service, serviceVars>>
    PROVE  IInv'
<1>1. config' = config
  BY DEF LoopNext, Begin, RuleHolds, RuleFails, NoRuleLeft, DefaultsDone, Wake, Run, RunFails,
    SetByOthers
<1>2. \/ at' = at
      \/ at \notin {"none", "boot"} /\ at' \in {"first", "rules", "last", "sleep"}
  BY DEF LoopNext, Begin, RuleHolds, RuleFails, NoRuleLeft, DefaultsDone, Wake, Run, RunFails,
    SetByOthers
<1> QED
  BY <1>1, <1>2 DEF IInv, ServiceInv, EditInv, OffIsWanted, serviceVars

\* So does every step of supervisor and of the requests.
LEMMA ServiceKeepsIInv ==
    ASSUME IInv, ServiceNext
    PROVE  IInv'
<1> USE AutoAssumption DEF IInv, ServiceInv, EditInv, OffIsWanted, serviceVars, loopVars
<1>1. CASE Load
  BY <1>1 DEF Load
<1>2. CASE Exit
  BY <1>2 DEF Exit, Process
<1>3. CASE Up
  BY <1>3 DEF Up
<1>4. CASE StartService
  BY <1>4 DEF StartService, Launch, Process
<1>5. CASE StopService
  BY <1>5 DEF StopService, Halt, Process
<1>6. ASSUME NEW r \in Requests, NEW c \in Edits, NEW restart \in BOOLEAN, Save(r, c, restart)
      PROVE  IInv'
  BY <1>6 DEF Save, Proceeds
<1>7. ASSUME NEW r \in Requests, Info(r) PROVE IInv'
  BY <1>7 DEF Info, ReadEarly, Proceeds
<1>8. ASSUME NEW r \in Requests, Stop(r) PROVE IInv'
  BY <1>8 DEF Stop, Proceeds, Halt, Process
<1>9. ASSUME NEW r \in Requests, Start(r) PROVE IInv'
  BY <1>9 DEF Start, Proceeds, Launch, Process
<1>10. ASSUME NEW r \in Requests, CutShort(r) PROVE IInv'
  <2>1. /\ request' = [request EXCEPT ![r] = "none"]
        /\ skipped' = TRUE /\ stored' = stored
    BY <1>10 DEF CutShort, Proceeds
  <2>2. CASE /\ leftOff' = (leftOff \/ (request[r] = "start" /\ service = "stopped"))
             /\ UNCHANGED <<loopVars, service, wantedOff>>
    <3>1. ServiceInv' /\ EditInv'
      BY <2>1, <2>2
    <3>2. ASSUME service = "stopped", ~wantedOff, ~leftOff'
          PROVE  \E s \in Requests : request'[s] = "start"
      <4>1. PICK s \in Requests : request[s] = "start"
        BY <2>2, <3>2
      <4>2. s # r
        BY <2>2, <3>2, <4>1
      <4> QED
        BY <2>1, <4>1, <4>2
    <3> QED
      BY <2>2, <3>1, <3>2
  <2>3. CASE Halt /\ leftOff' = TRUE
    BY <2>1, <2>3 DEF Halt, Process
  <2>4. CASE Launch
    BY <2>1, <2>4 DEF Launch, Process
  <2> QED
    BY <1>10, <2>2, <2>3, <2>4 DEF CutShort
<1>11. CASE GiveUp
  BY <1>11 DEF GiveUp, Process
<1> QED
  BY <1>1, <1>2, <1>3, <1>4, <1>5, <1>6, <1>7, <1>8, <1>9, <1>10, <1>11 DEF ServiceNext

\* The inductive invariant, for every set of requests and of configurations.
THEOREM EditsInvariant == AutoSpec => []IInv
<1>1. IInv /\ [AutoNext]_autoVars => IInv'
  <2> SUFFICES ASSUME IInv, [AutoNext]_autoVars PROVE IInv'
    OBVIOUS
  <2>1. CASE UNCHANGED autoVars
    BY <2>1 DEF autoVars, loopVars, serviceVars, IInv, ServiceInv, EditInv, OffIsWanted
  <2> QED
    BY <2>1, LoopKeepsIInv, ServiceKeepsIInv DEF AutoNext
<1> QED
  BY <1>1, InitIInv, PTL DEF AutoSpec

\* When all requests are done the process runs the configuration saved last, for
\* any number of them, of crashes, and of stops and starts by hand, unless since
\* it was read one of them asked for no restart, was cut short, or asked for the
\* state of a process that was starting still.
THEOREM EditsAreRun == AutoSpec => []EditIsRun
<1>1. IInv => EditIsRun
  BY DEF IInv, ServiceInv, EditInv, EditIsRun
<1> QED
  BY <1>1, EditsInvariant, PTL

\* Requests that restart the service at once do not leave it off, for any number
\* of them, unless one is cut short or supervisor gives up.
THEOREM RestartsEnd == AutoSpec => []OffIsWanted
<1>1. IInv => OffIsWanted
  BY DEF IInv
<1> QED
  BY <1>1, EditsInvariant, PTL

-----------------------------------------------------------------------------
(* Rules: what one iteration has sent so far, and what is left to send.    *)

\* What a setting is to be when the commands in todo are carried out.
Pending(n) == IF n \in DOMAIN todo THEN todo[n] ELSE effect[n]

\* The defaults that have been sent or are about to be: those of other names at
\* the beginning, the saved ones with the first rule, all that count at the end.
DefaultSent(n) ==
    /\ n \in DOMAIN config.defaults
    /\ IF at = "rules" THEN config.always /\ (n \in OtherNames \/ matched # <<>>)
       ELSE config.always \/ matched = <<>>

\* What it may be at this point of the iteration.
SoFar(n) ==
    IF Setting(MatchedRules, n) # {}
    THEN {config.rules[LastOf(Setting(MatchedRules, n))].commands[n]}
    ELSE IF DefaultSent(n) THEN {config.defaults[n]} ELSE Values \cup {Unset}

Deciding == at \in {"rules", "last", "sleep"}

RulesInv ==
    /\ AutoTypeOK
    /\ config = NoConfig => at \in {"none", "boot"}
    /\ at \in {"none", "boot"} => rule = 1
    /\ at \in {"none", "boot", "first", "sleep"} => DOMAIN todo = {}
    /\ matched \in Seq(Nat)
    /\ Deciding => \A i \in MatchedRules : i \in 1 .. Len(config.rules) /\ i < rule
    /\ at = "last" => matched = <<>>
    /\ at = "rules" /\ ~config.multiple /\ matched # <<>> => rule = Len(config.rules) + 1
    /\ Deciding /\ ~(config.always /\ config.multiple)
          => \A n \in Names \ touched : Pending(n) \in SoFar(n)

LEMMA NothingFacts == DOMAIN Nothing = {} /\ Nothing \in Commands
<1>1. Nothing \in [{} -> Values]
    BY DEF Nothing
<1>2. {} \in SUBSET Names
    OBVIOUS
<1> QED BY <1>1, <1>2 DEF Nothing, Commands

LEMMA CommandsType ==
    ASSUME NEW f \in Commands
    PROVE  DOMAIN f \subseteq Names /\ \A n \in DOMAIN f : f[n] \in Values
BY DEF Commands

LEMMA OnlyFacts ==
    ASSUME NEW f \in Commands, NEW N
    PROVE  /\ Only(f, N) \in Commands /\ DOMAIN Only(f, N) = DOMAIN f \cap N
           /\ \A n \in DOMAIN f \cap N : Only(f, N)[n] = f[n]
<1>1. /\ DOMAIN Only(f, N) = DOMAIN f \cap N
      /\ \A n \in DOMAIN f \cap N : Only(f, N)[n] = f[n]
    BY DEF Only
<1>2. Only(f, N) \in [DOMAIN f \cap N -> Values] /\ DOMAIN f \cap N \in SUBSET Names
    BY CommandsType DEF Only
<1> QED BY <1>1, <1>2 DEF Commands

LEMMA OverFacts ==
    ASSUME NEW f \in Commands, NEW g \in Commands
    PROVE  /\ Over(f, g) \in Commands /\ DOMAIN Over(f, g) = DOMAIN f \cup DOMAIN g
           /\ \A n \in DOMAIN f : Over(f, g)[n] = f[n]
           /\ \A n \in DOMAIN g \ DOMAIN f : Over(f, g)[n] = g[n]
<1>1. /\ DOMAIN Over(f, g) = DOMAIN f \cup DOMAIN g
      /\ \A n \in DOMAIN f : Over(f, g)[n] = f[n]
      /\ \A n \in DOMAIN g \ DOMAIN f : Over(f, g)[n] = g[n]
    BY DEF Over
<1>2. DOMAIN f \subseteq Names /\ \A n \in DOMAIN f : f[n] \in Values
    BY CommandsType
<1>3. DOMAIN g \subseteq Names /\ \A n \in DOMAIN g : g[n] \in Values
    BY CommandsType
<1>4. Over(f, g) \in [DOMAIN f \cup DOMAIN g -> Values]
    BY <1>2, <1>3 DEF Over
<1>5. DOMAIN f \cup DOMAIN g \in SUBSET Names
    BY <1>2, <1>3
<1> QED BY <1>1, <1>4, <1>5 DEF Commands

LEMMA SavedFacts ==
    ASSUME config.defaults \in Commands
    PROVE  /\ SavedCommands \in Commands
           /\ DOMAIN SavedCommands = DOMAIN config.defaults \cap SetNames
           /\ \A n \in DOMAIN SavedCommands : SavedCommands[n] = config.defaults[n]
<1>1. SavedCommands = Only(config.defaults, SetNames)
    BY DEF SavedCommands
<1>2. /\ Only(config.defaults, SetNames) \in Commands
      /\ DOMAIN Only(config.defaults, SetNames) = DOMAIN config.defaults \cap SetNames
      /\ \A n \in DOMAIN config.defaults \cap SetNames :
            Only(config.defaults, SetNames)[n] = config.defaults[n]
    BY OnlyFacts
<1> QED BY <1>1, <1>2

\* What a rule sends for a setting.
LEMMA SendsFacts ==
    ASSUME config.defaults \in Commands, NEW commands \in Commands
    PROVE  /\ Sends(commands) \in Commands
           /\ \A n \in DOMAIN commands :
                 n \in DOMAIN Sends(commands) /\ Sends(commands)[n] = commands[n]
           /\ \A n : n \notin DOMAIN commands =>
                 IF config.always /\ n \in DOMAIN config.defaults /\ n \in SetNames
                 THEN n \in DOMAIN Sends(commands) /\ Sends(commands)[n] = config.defaults[n]
                 ELSE n \notin DOMAIN Sends(commands)
<1>1. /\ SavedCommands \in Commands
      /\ DOMAIN SavedCommands = DOMAIN config.defaults \cap SetNames
      /\ \A n \in DOMAIN SavedCommands : SavedCommands[n] = config.defaults[n]
    BY SavedFacts
<1>2. CASE config.always
  <2>1. Sends(commands) = Over(commands, SavedCommands)
      BY <1>2 DEF Sends
  <2>2. /\ Over(commands, SavedCommands) \in Commands
        /\ DOMAIN Over(commands, SavedCommands) = DOMAIN commands \cup DOMAIN SavedCommands
        /\ \A n \in DOMAIN commands : Over(commands, SavedCommands)[n] = commands[n]
        /\ \A n \in DOMAIN SavedCommands \ DOMAIN commands :
              Over(commands, SavedCommands)[n] = SavedCommands[n]
      BY <1>1, OverFacts
  <2> QED BY <1>1, <1>2, <2>1, <2>2
<1>3. CASE ~config.always
    BY <1>3 DEF Sends
<1> QED BY <1>2, <1>3

LEMMA ConfigFacts ==
    ASSUME NEW c \in Configs
    PROVE  /\ c.always \in BOOLEAN /\ c.multiple \in BOOLEAN /\ c.defaults \in Commands
           /\ Len(c.rules) \in Nat
           /\ \A i \in 1 .. Len(c.rules) : c.rules[i].commands \in Commands
<1> DEFINE R == [conditional : BOOLEAN, commands : Commands]
<1>1. c.rules \in Seq(R)
    BY AutoAssumption
<1>2. \A r \in R : r.commands \in Commands
    OBVIOUS
<1> HIDE DEF R
<1>3. Len(c.rules) \in Nat /\ \A i \in 1 .. Len(c.rules) : c.rules[i] \in R
    BY <1>1
<1> QED BY <1>2, <1>3, AutoAssumption

\* A rule that comes after all in I is the last one with them.
LEMMA LastIsNew ==
    ASSUME NEW I \in SUBSET Nat, NEW j \in Nat, \A i \in I : i < j
    PROVE  LastOf(I \cup {j}) = j
<1>1. \A i \in I \cup {j} : i <= j
    OBVIOUS
<1>2. \A k \in I \cup {j} : (\A i \in I \cup {j} : i <= k) => k = j
    OBVIOUS
<1> QED BY <1>1, <1>2 DEF LastOf

LEMMA InitRulesInv == AutoInit => RulesInv
<1> SUFFICES ASSUME AutoInit PROVE RulesInv
    OBVIOUS
<1>1. AutoTypeOK
    BY NothingFacts DEF AutoInit, AutoTypeOK
<1> QED BY <1>1, NothingFacts DEF AutoInit, RulesInv, Deciding

\* One command is carried out, or fails.
LEMMA RunKeepsRulesInv ==
    ASSUME RulesInv, NEW n \in Names, Run(n) \/ RunFails(n), UNCHANGED <<service, serviceVars>>
    PROVE  RulesInv'
<1>1. /\ todo \in Commands /\ n \in DOMAIN todo /\ todo' = Only(todo, Names \ {n})
      /\ effect' \in {effect, [effect EXCEPT ![n] = todo[n]]}
      /\ UNCHANGED <<config, at, rule, matched>>
      /\ \/ effect' = [effect EXCEPT ![n] = todo[n]] /\ touched' = touched
         \/ touched' = touched \cup {n}
    BY DEF RulesInv, AutoTypeOK, Run, RunFails
<1>2. /\ todo' \in Commands /\ DOMAIN todo' = DOMAIN todo \ {n}
      /\ \A k \in DOMAIN todo \ {n} : todo'[k] = todo[k]
  <2>1. DOMAIN todo \cap (Names \ {n}) = DOMAIN todo \ {n}
      BY <1>1, CommandsType
  <2>2. /\ Only(todo, Names \ {n}) \in Commands
        /\ DOMAIN Only(todo, Names \ {n}) = DOMAIN todo \cap (Names \ {n})
        /\ \A k \in DOMAIN todo \cap (Names \ {n}) : Only(todo, Names \ {n})[k] = todo[k]
      BY <1>1, OnlyFacts
  <2> QED BY <1>1, <2>1, <2>2
<1>3. todo[n] \in Values
    BY <1>1, CommandsType
<1>4. effect \in [Names -> Values \cup {Unset}]
    BY DEF RulesInv, AutoTypeOK
<1>5. effect' \in [Names -> Values \cup {Unset}] /\ touched' \subseteq Names
    BY <1>1, <1>3, <1>4 DEF RulesInv, AutoTypeOK
<1>6. AutoTypeOK'
    BY <1>1, <1>2, <1>5 DEF RulesInv, AutoTypeOK, serviceVars
<1>7. \A k \in Names \ touched' : Pending(k)' = Pending(k) /\ k \in Names \ touched
  <2>1. \A k \in Names \ {n} : effect'[k] = effect[k]
      BY <1>1, <1>4
  <2>2. n \notin touched' => effect'[n] = todo[n]
      BY <1>1, <1>4
  <2>3. touched \subseteq touched'
      BY <1>1
  <2> QED BY <1>1, <1>2, <2>1, <2>2, <2>3 DEF Pending
<1>8. \A k : SoFar(k)' = SoFar(k)
    BY <1>1 DEF SoFar, Setting, MatchedRules, DefaultSent
<1> QED BY <1>1, <1>2, <1>6, <1>7, <1>8 DEF RulesInv, Deciding, MatchedRules

LEMMA SetByOthersKeepsRulesInv ==
    ASSUME RulesInv, NEW n \in Names, SetByOthers(n), UNCHANGED <<service, serviceVars>>
    PROVE  RulesInv'
<1>1. /\ effect' = [effect EXCEPT ![n] = Unset] /\ touched' = touched \cup {n}
      /\ UNCHANGED <<config, at, rule, todo, matched>>
    BY DEF SetByOthers
<1>2. effect \in [Names -> Values \cup {Unset}]
    BY DEF RulesInv, AutoTypeOK
<1>3. AutoTypeOK'
    BY <1>1, <1>2 DEF RulesInv, AutoTypeOK, serviceVars
<1>4. \A k \in Names \ touched' : Pending(k)' = Pending(k) /\ k \in Names \ touched
    BY <1>1, <1>2 DEF Pending
<1>5. \A k : SoFar(k)' = SoFar(k)
    BY <1>1 DEF SoFar, Setting, MatchedRules, DefaultSent
<1> QED BY <1>1, <1>3, <1>4, <1>5 DEF RulesInv, Deciding, MatchedRules

LEMMA BeginKeepsRulesInv ==
    ASSUME RulesInv, Begin, UNCHANGED <<service, serviceVars>>
    PROVE  RulesInv'
<1>1. /\ at = "first" /\ at' = "rules" /\ rule' = 1 /\ matched' = <<>> /\ touched' = {}
      /\ todo' = (IF config.always THEN Only(config.defaults, OtherNames) ELSE Nothing)
      /\ UNCHANGED <<config, effect>>
    BY DEF Begin
<1>2. config \in Configs /\ effect \in [Names -> Values \cup {Unset}]
    BY <1>1 DEF RulesInv, AutoTypeOK
<1>3. config.defaults \in Commands /\ Len(config.rules) \in Nat /\ config.always \in BOOLEAN
    BY <1>2, ConfigFacts
<1>4. /\ todo' \in Commands
      /\ \A n : n \in DOMAIN todo' <=>
            config.always /\ n \in DOMAIN config.defaults /\ n \in OtherNames
      /\ \A n \in DOMAIN todo' : todo'[n] = config.defaults[n]
  <2>1. CASE config.always
    <3>1. /\ Only(config.defaults, OtherNames) \in Commands
          /\ DOMAIN Only(config.defaults, OtherNames) = DOMAIN config.defaults \cap OtherNames
          /\ \A n \in DOMAIN config.defaults \cap OtherNames :
                Only(config.defaults, OtherNames)[n] = config.defaults[n]
        BY <1>3, OnlyFacts
    <3> QED BY <1>1, <2>1, <3>1
  <2>2. CASE ~config.always
      BY <1>1, <2>2, NothingFacts
  <2> QED BY <2>1, <2>2
<1>5. AutoTypeOK'
    BY <1>1, <1>2, <1>3, <1>4 DEF RulesInv, AutoTypeOK, serviceVars
<1>6. MatchedRules' = {} /\ matched' \in Seq(Nat)
    BY <1>1 DEF MatchedRules
<1>7. ASSUME NEW n \in Names PROVE Pending(n)' \in SoFar(n)'
  <2>2. Setting(MatchedRules, n)' = {}
      BY <1>6 DEF Setting
  <2>3. CASE config.always /\ n \in DOMAIN config.defaults /\ n \in OtherNames
    <3>1. Pending(n)' = config.defaults[n]
        BY <1>1, <1>4, <2>3 DEF Pending
    <3>2. DefaultSent(n)'
        BY <1>1, <2>3 DEF DefaultSent
    <3> QED BY <1>1, <2>2, <3>1, <3>2 DEF SoFar
  <2>4. CASE ~(config.always /\ n \in DOMAIN config.defaults /\ n \in OtherNames)
    <3>1. Pending(n)' = effect[n]
        BY <1>1, <1>4, <2>4 DEF Pending
    <3>2. ~DefaultSent(n)'
        BY <1>1, <2>4 DEF DefaultSent
    <3> QED BY <1>2, <2>2, <3>1, <3>2 DEF SoFar
  <2> QED BY <2>3, <2>4
<1> QED BY <1>1, <1>2, <1>5, <1>6, <1>7, AutoAssumption DEF RulesInv, Deciding

\* A rule holds: it comes after those that held, so it is the last.
LEMMA RuleHoldsKeepsRulesInv ==
    ASSUME RulesInv, RuleHolds, UNCHANGED <<service, serviceVars>>
    PROVE  RulesInv'
<1>1. /\ at = "rules" /\ todo = Nothing /\ rule <= Len(config.rules)
      /\ todo' = Sends(config.rules[rule].commands)
      /\ matched' = Append(matched, rule)
      /\ rule' = IF config.multiple THEN rule + 1 ELSE Len(config.rules) + 1
      /\ UNCHANGED <<config, at, effect, touched>>
    BY DEF RuleHolds, AtRule
<1>2. /\ config \in Configs /\ config # NoConfig /\ effect \in [Names -> Values \cup {Unset}]
      /\ rule \in 1 .. Len(config.rules) + 1 /\ matched \in Seq(Nat)
    BY <1>1 DEF RulesInv, AutoTypeOK
<1> DEFINE commands == config.rules[rule].commands
<1>3. /\ config.defaults \in Commands /\ Len(config.rules) \in Nat
      /\ config.always \in BOOLEAN /\ config.multiple \in BOOLEAN
      /\ rule \in 1 .. Len(config.rules) /\ rule \in Nat
    BY <1>1, <1>2, ConfigFacts
<1>4. commands \in Commands
    BY <1>2, <1>3, ConfigFacts
<1>6. /\ todo' \in Commands
      /\ \A n \in DOMAIN commands : n \in DOMAIN todo' /\ todo'[n] = commands[n]
      /\ \A n : n \notin DOMAIN commands =>
            IF config.always /\ n \in DOMAIN config.defaults /\ n \in SetNames
            THEN n \in DOMAIN todo' /\ todo'[n] = config.defaults[n]
            ELSE n \notin DOMAIN todo'
  <2> HIDE DEF commands
  <2> USE <1>4
  <2>1. /\ Sends(commands) \in Commands
        /\ \A n \in DOMAIN commands :
              n \in DOMAIN Sends(commands) /\ Sends(commands)[n] = commands[n]
        /\ \A n : n \notin DOMAIN commands =>
              IF config.always /\ n \in DOMAIN config.defaults /\ n \in SetNames
              THEN n \in DOMAIN Sends(commands) /\ Sends(commands)[n] = config.defaults[n]
              ELSE n \notin DOMAIN Sends(commands)
      BY <1>3, <1>4, SendsFacts
  <2>2. todo' = Sends(commands)
      BY <1>1 DEF commands
  <2> QED BY <2>1, <2>2
<1>7. rule' \in 1 .. Len(config.rules) + 1 /\ rule < rule'
    BY <1>1, <1>3
<1>8. AutoTypeOK'
    BY <1>1, <1>2, <1>6, <1>7 DEF RulesInv, AutoTypeOK, serviceVars
<1>9. /\ matched' \in Seq(Nat) /\ matched' # <<>>
      /\ MatchedRules' = MatchedRules \cup {rule}
  <2>1. /\ matched' \in Seq(Nat) /\ DOMAIN matched' = 1 .. Len(matched) + 1
        /\ DOMAIN matched = 1 .. Len(matched) /\ Len(matched) \in Nat
        /\ \A k \in 1 .. Len(matched) : matched'[k] = matched[k]
        /\ matched'[Len(matched) + 1] = rule
      BY <1>1, <1>2, <1>3
  <2>2. \A i : i \in MatchedRules' <=> i \in MatchedRules \/ i = rule
    <3>1. Len(matched) + 1 \in DOMAIN matched' /\ \A k \in DOMAIN matched : k \in DOMAIN matched'
        BY <2>1
    <3>2. \A k \in DOMAIN matched' : k \in DOMAIN matched \/ k = Len(matched) + 1
        BY <2>1
    <3> QED BY <2>1, <3>1, <3>2 DEF MatchedRules
  <2> QED BY <2>1, <2>2
<1>10. \A i \in MatchedRules : i \in 1 .. Len(config.rules) /\ i < rule
    BY <1>1 DEF RulesInv, Deciding
<1>11. \A i \in MatchedRules' : i \in 1 .. Len(config.rules) /\ i < rule'
    BY <1>3, <1>7, <1>9, <1>10
<1>12. ASSUME NEW n \in Names \ touched, ~(config.always /\ config.multiple)
       PROVE  Pending(n)' \in SoFar(n)'
  <2>1. Setting(MatchedRules, n)' =
            Setting(MatchedRules, n) \cup (IF n \in DOMAIN commands THEN {rule} ELSE {})
      BY <1>1, <1>9 DEF Setting
  <2>2. CASE n \in DOMAIN commands
    <3>1. Pending(n)' = commands[n]
        BY <1>6, <2>2 DEF Pending
    <3>2. Setting(MatchedRules, n) \in SUBSET Nat /\ \A i \in Setting(MatchedRules, n) : i < rule
        BY <1>3, <1>10 DEF Setting
    <3>3. LastOf(Setting(MatchedRules, n) \cup {rule}) = rule
        BY <1>3, <3>2, LastIsNew
    <3>4. LastOf(Setting(MatchedRules, n))' = LastOf(Setting(MatchedRules, n)')
        BY DEF LastOf
    <3> QED BY <1>1, <2>1, <2>2, <3>1, <3>3, <3>4 DEF SoFar
  <2>3. CASE n \notin DOMAIN commands
    <3>1. Setting(MatchedRules, n)' = Setting(MatchedRules, n)
        BY <2>1, <2>3
    <3>2. Pending(n) = effect[n] /\ Pending(n) \in SoFar(n)
        BY <1>1, <1>12, NothingFacts DEF RulesInv, Deciding, Pending
    <3>3. CASE config.always /\ n \in DOMAIN config.defaults /\ n \in SetNames
      <4>1. Pending(n)' = config.defaults[n]
          BY <1>6, <2>3, <3>3 DEF Pending
      <4>2. Setting(MatchedRules, n) = {}
        <5>1. matched = <<>>
            BY <1>1, <1>3, <1>12, <3>3 DEF RulesInv
        <5> QED BY <5>1 DEF Setting, MatchedRules
      <4>3. DefaultSent(n)'
          BY <1>1, <1>9, <3>3 DEF DefaultSent
      <4> QED BY <1>1, <3>1, <4>1, <4>2, <4>3 DEF SoFar
    <3>4. CASE ~(config.always /\ n \in DOMAIN config.defaults /\ n \in SetNames)
      <4>1. Pending(n)' = effect[n]
          BY <1>1, <1>6, <2>3, <3>4 DEF Pending
      <4>2. DefaultSent(n)' <=> DefaultSent(n)
          BY <1>1, <1>9, <3>4 DEF DefaultSent, Names
      <4>3. LastOf(Setting(MatchedRules, n))' = LastOf(Setting(MatchedRules, n))
          BY <3>1 DEF LastOf
      <4> QED BY <1>1, <3>1, <3>2, <4>1, <4>2, <4>3 DEF SoFar
    <3> QED BY <3>3, <3>4
  <2> QED BY <2>2, <2>3
<1>13. ~config.multiple => rule' = Len(config.rules) + 1
    BY <1>1
<1> QED BY <1>1, <1>2, <1>8, <1>9, <1>11, <1>12, <1>13 DEF RulesInv, Deciding

LEMMA OtherLoopStepsKeepRulesInv ==
    ASSUME RulesInv, RuleFails \/ NoRuleLeft \/ DefaultsDone \/ Wake,
           UNCHANGED <<service, serviceVars>>
    PROVE  RulesInv'
<1>1. /\ config \in Configs \cup {NoConfig} /\ effect \in [Names -> Values \cup {Unset}]
      /\ matched \in Seq(Nat)
    BY DEF RulesInv, AutoTypeOK
<1>2. UNCHANGED <<config, effect, matched, touched>>
    BY DEF RuleFails, NoRuleLeft, DefaultsDone, Wake
<1>3. config \in Configs
    BY <1>1 DEF RulesInv, RuleFails, AtRule, NoRuleLeft, DefaultsDone, Wake
<1>4. /\ config.defaults \in Commands /\ Len(config.rules) \in Nat /\ config # NoConfig
      /\ config.always \in BOOLEAN /\ config.multiple \in BOOLEAN
      /\ rule \in 1 .. Len(config.rules) + 1
    BY <1>3, ConfigFacts, AutoAssumption DEF RulesInv, AutoTypeOK
<1>5. \A n : Setting(MatchedRules, n)' = Setting(MatchedRules, n)
    BY <1>2 DEF Setting, MatchedRules
<1>6. CASE RuleFails
  <2>1. /\ at = "rules" /\ rule <= Len(config.rules) /\ rule' = rule + 1
        /\ UNCHANGED <<config, at, todo, effect, matched, touched>>
      BY <1>6 DEF RuleFails, AtRule
  <2>2. rule' \in 1 .. Len(config.rules) + 1 /\ rule \in Nat
      BY <1>4, <2>1
  <2>3. AutoTypeOK'
      BY <2>1, <2>2 DEF RulesInv, AutoTypeOK, serviceVars
  <2>4. \A n : Pending(n)' = Pending(n) /\ SoFar(n)' = SoFar(n)
      BY <2>1 DEF Pending, SoFar, Setting, MatchedRules, DefaultSent
  <2>5. MatchedRules' = MatchedRules /\ \A i \in MatchedRules : i \in Nat /\ i < rule'
    <3>1. \A i \in MatchedRules : i \in Nat /\ i < rule
        BY <2>1 DEF RulesInv, Deciding
    <3>2. MatchedRules' = MatchedRules
        BY <2>1 DEF MatchedRules
    <3> QED BY <2>1, <2>2, <3>1, <3>2
  <2>6. ~config.multiple /\ matched # <<>> => FALSE
      BY <1>4, <2>1 DEF RulesInv
  <2> QED BY <2>1, <2>2, <2>3, <2>4, <2>5, <2>6 DEF RulesInv, Deciding
<1>7. CASE NoRuleLeft
  <2>1. /\ at = "rules" /\ todo = Nothing /\ UNCHANGED <<config, rule, effect, matched, touched>>
        /\ IF matched = <<>>
           THEN at' = "last" /\ todo' = IF config.always THEN SavedCommands ELSE config.defaults
           ELSE at' = "sleep" /\ todo' = todo
      BY <1>7 DEF NoRuleLeft
  <2>2. SavedCommands \in Commands /\ DOMAIN SavedCommands = DOMAIN config.defaults \cap SetNames
        /\ \A n \in DOMAIN SavedCommands : SavedCommands[n] = config.defaults[n]
      BY <1>4, SavedFacts
  <2>3. AutoTypeOK'
      BY <1>4, <2>1, <2>2 DEF RulesInv, AutoTypeOK, serviceVars
  <2>4. ASSUME NEW n \in Names \ touched, ~(config.always /\ config.multiple)
        PROVE  Pending(n)' \in SoFar(n)'
    <3>1. Pending(n) = effect[n] /\ Pending(n) \in SoFar(n)
        BY <2>1, <2>4, NothingFacts DEF RulesInv, Deciding, Pending
    <3>2. LastOf(Setting(MatchedRules, n))' = LastOf(Setting(MatchedRules, n))
        BY <1>5 DEF LastOf
    <3>3. CASE matched # <<>>
      <4>1. Pending(n)' = Pending(n)
          BY <2>1, <3>3 DEF Pending
      <4>2. DefaultSent(n)' <=> DefaultSent(n)
          BY <2>1, <3>3 DEF DefaultSent
      <4> QED BY <1>2, <1>5, <3>1, <3>2, <4>1, <4>2 DEF SoFar
    <3>4. CASE matched = <<>>
      <4>1. Setting(MatchedRules, n)' = {}
          BY <1>5, <3>4 DEF Setting, MatchedRules
      <4>2. DefaultSent(n)' <=> n \in DOMAIN config.defaults
          BY <2>1, <3>4 DEF DefaultSent
      <4>3. CASE n \in DOMAIN todo'
        <5>1. Pending(n)' = config.defaults[n] /\ n \in DOMAIN config.defaults
            BY <2>1, <2>2, <3>4, <4>3 DEF Pending
        <5> QED BY <1>2, <4>1, <4>2, <5>1 DEF SoFar
      <4>4. CASE n \notin DOMAIN todo' /\ n \in DOMAIN config.defaults
        <5>1. config.always /\ n \in OtherNames
            BY <1>4, <2>1, <2>2, <3>4, <4>4 DEF Names
        <5>2. Pending(n) = config.defaults[n]
            BY <1>5, <2>1, <3>1, <4>1, <4>4, <5>1 DEF SoFar, DefaultSent
        <5>3. Pending(n)' = config.defaults[n]
            BY <1>2, <3>1, <4>4, <5>2 DEF Pending
        <5> QED BY <1>2, <4>1, <4>2, <4>4, <5>3 DEF SoFar
      <4>5. CASE n \notin DOMAIN todo' /\ n \notin DOMAIN config.defaults
        <5>1. Pending(n)' \in Values \cup {Unset}
            BY <1>1, <1>2, <4>5 DEF Pending
        <5> QED BY <4>1, <4>2, <4>5, <5>1 DEF SoFar
      <4> QED BY <4>3, <4>4, <4>5
    <3> QED BY <3>3, <3>4
  <2>5. MatchedRules' = MatchedRules
      BY <1>2 DEF MatchedRules
  <2> QED BY <1>4, <2>1, <2>3, <2>4, <2>5, NothingFacts DEF RulesInv, Deciding
<1>8. CASE DefaultsDone
  <2>1. /\ at = "last" /\ at' = "sleep" /\ todo = Nothing
        /\ UNCHANGED <<config, rule, todo, effect, matched, touched>>
      BY <1>8 DEF DefaultsDone
  <2>2. AutoTypeOK'
      BY <2>1 DEF RulesInv, AutoTypeOK, serviceVars
  <2>3. \A n : Pending(n)' = Pending(n) /\ SoFar(n)' = SoFar(n)
      BY <2>1 DEF Pending, SoFar, Setting, MatchedRules, DefaultSent
  <2>4. MatchedRules' = MatchedRules
      BY <2>1 DEF MatchedRules
  <2> QED BY <1>4, <2>1, <2>2, <2>3, <2>4, NothingFacts DEF RulesInv, Deciding
<1>9. CASE Wake
  <2>1. /\ at = "sleep" /\ at' = "first"
        /\ UNCHANGED <<config, rule, todo, effect, matched, touched>>
      BY <1>9 DEF Wake
  <2>2. AutoTypeOK'
      BY <2>1 DEF RulesInv, AutoTypeOK, serviceVars
  <2> QED BY <1>4, <2>1, <2>2 DEF RulesInv, Deciding
<1> QED BY <1>6, <1>7, <1>8, <1>9

\* The process is gone, or another one is there.
LEMMA ProcessKeepsRulesInv ==
    ASSUME RulesInv, NEW where \in {"none", "boot"}, Process(where),
           stored' = stored, service' \in {"stopped", "starting", "running"},
           {wantedOff', leftOff', skipped'} \subseteq BOOLEAN,
           request' \in [Requests -> {"none", "info", "stop", "start"}]
    PROVE  RulesInv'
<1>1. /\ at' = where /\ config' = NoConfig /\ rule' = 1 /\ todo' = Nothing /\ matched' = <<>>
      /\ UNCHANGED <<effect, touched>>
    BY DEF Process
<1>2. DOMAIN todo' = {} /\ todo' \in Commands /\ matched' \in Seq(Nat)
    BY <1>1, NothingFacts
<1>3. AutoTypeOK'
    BY <1>1, <1>2 DEF RulesInv, AutoTypeOK
<1> QED BY <1>1, <1>2, <1>3 DEF RulesInv, Deciding

\* What the iteration is made of stays.
LEMMA OthersKeepRulesInv ==
    ASSUME RulesInv, UNCHANGED loopVars, stored' \in Configs,
           service' \in {"stopped", "starting", "running"},
           {wantedOff', leftOff', skipped'} \subseteq BOOLEAN,
           request' \in [Requests -> {"none", "info", "stop", "start"}]
    PROVE  RulesInv'
<1>1. UNCHANGED <<config, at, rule, todo, effect, matched, touched>>
    BY DEF loopVars
<1>2. AutoTypeOK'
    BY <1>1 DEF RulesInv, AutoTypeOK
<1>3. \A n : Pending(n)' = Pending(n) /\ SoFar(n)' = SoFar(n)
    BY <1>1 DEF Pending, SoFar, Setting, MatchedRules, DefaultSent
<1>4. MatchedRules' = MatchedRules
    BY <1>1 DEF MatchedRules
<1> QED BY <1>1, <1>2, <1>3, <1>4 DEF RulesInv, Deciding

LEMMA LoadKeepsRulesInv ==
    ASSUME RulesInv, Load
    PROVE  RulesInv'
<1>1. /\ at = "boot" /\ config' = stored /\ at' = "first" /\ skipped' = FALSE
      /\ UNCHANGED <<stored, service, request, wantedOff, leftOff, rule, todo, effect,
                     matched, touched>>
    BY DEF Load
<1>2. stored \in Configs /\ Len(stored.rules) \in Nat /\ stored # NoConfig
    BY ConfigFacts, AutoAssumption DEF RulesInv, AutoTypeOK
<1>3. rule = 1 /\ DOMAIN todo = {}
    BY <1>1 DEF RulesInv
<1>4. rule' \in 1 .. Len(config'.rules) + 1
    BY <1>1, <1>2, <1>3
<1>5. /\ todo \in Commands /\ effect \in [Names -> Values \cup {Unset}] /\ touched \subseteq Names
      /\ service \in {"stopped", "starting", "running"}
      /\ {wantedOff, leftOff} \subseteq BOOLEAN
      /\ request \in [Requests -> {"none", "info", "stop", "start"}]
    BY DEF RulesInv, AutoTypeOK
<1>6. AutoTypeOK'
    BY <1>1, <1>2, <1>4, <1>5 DEF AutoTypeOK
<1> QED BY <1>1, <1>2, <1>3, <1>6 DEF RulesInv, Deciding

LEMMA ServiceKeepsRulesInv ==
    ASSUME RulesInv, ServiceNext
    PROVE  RulesInv'
<1>1. /\ stored \in Configs /\ service \in {"stopped", "starting", "running"}
      /\ {wantedOff, leftOff, skipped} \subseteq BOOLEAN
      /\ request \in [Requests -> {"none", "info", "stop", "start"}]
    BY DEF RulesInv, AutoTypeOK
<1>2. ASSUME NEW r \in Requests, NEW to \in {"none", "info", "stop", "start"}, Proceeds(r, to)
      PROVE  request' \in [Requests -> {"none", "info", "stop", "start"}]
    BY <1>1, <1>2 DEF Proceeds
<1>3. CASE Load
    BY <1>3, LoadKeepsRulesInv
<1>4. CASE Exit
    BY <1>1, <1>4, ProcessKeepsRulesInv DEF Exit, serviceVars
<1>5. CASE Up
    BY <1>1, <1>5, OthersKeepRulesInv DEF Up, serviceVars
<1>6. CASE StartService
    BY <1>1, <1>6, ProcessKeepsRulesInv DEF StartService, Launch
<1>7. CASE StopService
    BY <1>1, <1>7, ProcessKeepsRulesInv DEF StopService, Halt
<1>8. ASSUME NEW r \in Requests, NEW c \in Edits, NEW restart \in BOOLEAN, Save(r, c, restart)
      PROVE  RulesInv'
  <2>1. /\ stored' \in Configs /\ skipped' \in BOOLEAN
        /\ UNCHANGED <<loopVars, service, wantedOff, leftOff>>
      BY <1>1, <1>8, AutoAssumption DEF Save
  <2>2. request' \in [Requests -> {"none", "info", "stop", "start"}]
      BY <1>2, <1>8 DEF Save
  <2> QED BY <1>1, <2>1, <2>2, OthersKeepRulesInv
<1>9. ASSUME NEW r \in Requests, Info(r)
      PROVE  RulesInv'
  <2>1. request' \in [Requests -> {"none", "info", "stop", "start"}]
      BY <1>2, <1>9 DEF Info
  <2>2. skipped' \in BOOLEAN
      BY <1>1, <1>9 DEF Info
  <2> QED BY <1>1, <1>9, <2>1, <2>2, OthersKeepRulesInv DEF Info
<1>10. ASSUME NEW r \in Requests, Stop(r)
       PROVE  RulesInv'
  <2>1. request' \in [Requests -> {"none", "info", "stop", "start"}]
      BY <1>2, <1>10 DEF Stop
  <2>2. CASE service = "stopped"
      BY <1>1, <1>10, <2>1, <2>2, OthersKeepRulesInv DEF Stop
  <2>3. CASE service # "stopped"
      BY <1>1, <1>10, <2>1, <2>3, ProcessKeepsRulesInv DEF Stop, Halt
  <2> QED BY <2>2, <2>3
<1>11. ASSUME NEW r \in Requests, Start(r)
       PROVE  RulesInv'
  <2>1. request' \in [Requests -> {"none", "info", "stop", "start"}]
      BY <1>2, <1>11 DEF Start
  <2>2. CASE service = "stopped"
      BY <1>1, <1>11, <2>1, <2>2, ProcessKeepsRulesInv DEF Start, Launch
  <2>3. CASE service # "stopped"
      BY <1>1, <1>11, <2>1, <2>3, OthersKeepRulesInv DEF Start
  <2> QED BY <2>2, <2>3
<1>12. ASSUME NEW r \in Requests, CutShort(r)
       PROVE  RulesInv'
  <2>1. request' \in [Requests -> {"none", "info", "stop", "start"}]
      BY <1>2, <1>12 DEF CutShort
  <2>2. stored' = stored /\ skipped' \in BOOLEAN
      BY <1>12 DEF CutShort
  <2>3. CASE UNCHANGED <<loopVars, service, wantedOff>> /\ leftOff' \in BOOLEAN
      BY <1>1, <2>1, <2>2, <2>3, OthersKeepRulesInv
  <2>4. CASE Halt /\ leftOff' = TRUE /\ UNCHANGED wantedOff
      BY <1>1, <2>1, <2>2, <2>4, ProcessKeepsRulesInv DEF Halt
  <2>5. CASE Launch
      BY <1>1, <2>1, <2>2, <2>5, ProcessKeepsRulesInv DEF Launch
  <2> QED BY <1>1, <1>12, <2>3, <2>4, <2>5 DEF CutShort
<1>13. CASE GiveUp
    BY <1>1, <1>13, ProcessKeepsRulesInv DEF GiveUp
<1> QED
    BY <1>3, <1>4, <1>5, <1>6, <1>7, <1>8, <1>9, <1>10, <1>11, <1>12, <1>13 DEF ServiceNext

LEMMA StepRulesInv == RulesInv /\ [AutoNext]_autoVars => RulesInv'
<1> SUFFICES ASSUME RulesInv, [AutoNext]_autoVars PROVE RulesInv'
    OBVIOUS
<1>1. CASE LoopNext /\ UNCHANGED <<service, serviceVars>>
  <2>1. CASE Begin
      BY <1>1, <2>1, BeginKeepsRulesInv
  <2>2. CASE RuleHolds
      BY <1>1, <2>2, RuleHoldsKeepsRulesInv
  <2>3. CASE RuleFails \/ NoRuleLeft \/ DefaultsDone \/ Wake
      BY <1>1, <2>3, OtherLoopStepsKeepRulesInv
  <2>4. ASSUME NEW n \in Names, Run(n) \/ RunFails(n) PROVE RulesInv'
      BY <1>1, <2>4, RunKeepsRulesInv
  <2>5. ASSUME NEW n \in Names, SetByOthers(n) PROVE RulesInv'
      BY <1>1, <2>5, SetByOthersKeepsRulesInv
  <2> QED BY <1>1, <2>1, <2>2, <2>3, <2>4, <2>5 DEF LoopNext
<1>2. CASE ServiceNext
    BY <1>2, ServiceKeepsRulesInv
<1>3. CASE UNCHANGED autoVars
  <2>1. UNCHANGED loopVars /\ UNCHANGED <<service, serviceVars>>
      BY <1>3 DEF autoVars
  <2> QED BY <2>1, OthersKeepRulesInv DEF RulesInv, AutoTypeOK, serviceVars
<1> QED BY <1>1, <1>2, <1>3 DEF AutoNext

\* Between two commands of an iteration every setting is, or is about to be, as
\* the last rule that has held wants it, or else as the defaults sent do.
THEOREM RulesInvariant == AutoSpec => []RulesInv
<1>1. AutoInit => RulesInv
    BY InitRulesInv
<1>2. RulesInv /\ [AutoNext]_autoVars => RulesInv'
    BY StepRulesInv
<1> QED BY <1>1, <1>2, PTL DEF AutoSpec

\* The loop keeps to one configuration, sends only commands of its settings, and
\* looks at rules that it has (AutoTypeOK).
THEOREM AutoTypeCorrect == AutoSpec => []AutoTypeOK
<1>1. RulesInv => AutoTypeOK
    BY DEF RulesInv
<1> QED BY <1>1, RulesInvariant, PTL

\* When an iteration is done each setting is as the last rule that held, or else
\* the defaults, want it: whatever the rules, the settings they share, and the
\* crashes, stops and edits before it (RulesWin).
THEOREM RulesDecide == AutoSpec => []RulesWin
<1>1. RulesInv => RulesWin
  <2> SUFFICES ASSUME RulesInv, at = "sleep", ~(config.always /\ config.multiple),
                      NEW n \in Names \ touched
               PROVE  effect[n] \in Outcome(n)
      BY DEF RulesWin
  <2>1. Pending(n) \in SoFar(n) /\ Pending(n) = effect[n]
      BY DEF RulesInv, Deciding, Pending
  <2>2. SoFar(n) = Outcome(n)
      BY DEF SoFar, Outcome, DefaultSent, DefaultCounts
  <2> QED BY <2>1, <2>2
<1> QED BY <1>1, RulesInvariant, PTL

-----------------------------------------------------------------------------
(* Map shuffle: what a call knows is so while it is alone.                 *)

Sets(c) == wanted[c] \in BOOLEAN

\* Who does more than ask wants something.
SettersWant ==
    \A c \in Callers : step[c] \in {"clear", "toggle", "clearAgain"} => Sets(c)

\* While a call is sole, nobody else is at work.
Alone ==
    \A c, d \in Callers : sole[c] /\ step[c] # "none" /\ d # c => step[d] = "none"

\* Then the cache stays cleared until it has asked, what it was told is so, and
\* it toggles away from what it does not want.
KnowsShuffle ==
    \A c \in Callers : sole[c] =>
        /\ step[c] = "ask" /\ Sets(c) => cached = Unknown
        /\ step[c] = "read" => current[c] = Unknown
        /\ step[c] = "store" => current[c] = shuffle
        /\ step[c] = "toggle" => wanted[c] # shuffle
        /\ step[c] = "clearAgain" /\ ~toggledTwice[c] => wanted[c] = shuffle

ShuffleInv == ShuffleTypeOK /\ SettersWant /\ Alone /\ KnowsShuffle

LEMMA InitShuffleInv == ShuffleInit => ShuffleInv
BY ShuffleAssumption DEF ShuffleInit, ShuffleInv, ShuffleTypeOK, SettersWant, Alone,
    KnowsShuffle, Answers, Sets

\* Every step keeps ShuffleInv.
LEMMA StepShuffleInv == ShuffleInv /\ [ShuffleNext]_shuffleVars => ShuffleInv'
<1> SUFFICES ASSUME ShuffleInv, [ShuffleNext]_shuffleVars PROVE ShuffleInv'
  OBVIOUS
<1> USE ShuffleAssumption DEF ShuffleInv, ShuffleTypeOK, SettersWant, Alone, KnowsShuffle,
      Answers, Sets, Goes
<1>1. CASE UNCHANGED shuffleVars
  BY <1>1 DEF shuffleVars
<1>2. ASSUME NEW c \in Callers, NEW w \in Answers, Call(c, w) PROVE ShuffleInv'
  BY <1>2 DEF Call
<1>3. ASSUME NEW c \in Callers, Clear(c) PROVE ShuffleInv'
  BY <1>3 DEF Clear
<1>4. ASSUME NEW c \in Callers, ClearFails(c) PROVE ShuffleInv'
  BY <1>4 DEF ClearFails
<1>5. ASSUME NEW c \in Callers, Ask(c) PROVE ShuffleInv'
  BY <1>5 DEF Ask, Decides
<1>6. ASSUME NEW c \in Callers, Read(c) PROVE ShuffleInv'
  BY <1>6 DEF Read
<1>7. ASSUME NEW c \in Callers, Store(c) PROVE ShuffleInv'
  BY <1>7 DEF Store, Decides
<1>8. ASSUME NEW c \in Callers, Toggle(c) PROVE ShuffleInv'
  BY <1>8 DEF Toggle
<1>9. ASSUME NEW c \in Callers, Raise(c) PROVE ShuffleInv'
  BY <1>9 DEF Raise
<1>10. CASE Lapse
  BY <1>10 DEF Lapse
<1> QED
  BY <1>1, <1>2, <1>3, <1>4, <1>5, <1>6, <1>7, <1>8, <1>9, <1>10 DEF ShuffleNext

\* The inductive invariant, for every set of processes.
THEOREM ShuffleInvariant == ShuffleSpec => []ShuffleInv
BY InitShuffleInv, StepShuffleInv, PTL DEF ShuffleSpec

\* The type invariant of the processes that set map shuffle.
THEOREM ShuffleTypeCorrect == ShuffleSpec => []ShuffleTypeOK
<1>1. ShuffleInv => ShuffleTypeOK
  BY DEF ShuffleInv
<1> QED
  BY <1>1, ShuffleInvariant, PTL

\* A call of set_map_shuffle_enabled that is alone, whose cache was cleared and
\* whose toggle was not repeated leaves map shuffle as it was wanted.
THEOREM ShuffleIsAsWanted == ShuffleSpec => ShuffleAsWanted
<1> DEFINE Granted ==
      \A c \in Callers :
          SetReturns(c) /\ sole[c] /\ ~toggledTwice[c] => shuffle = wanted[c]
<1>1. ShuffleInv /\ [ShuffleNext]_shuffleVars => [Granted]_shuffleVars
  BY DEF ShuffleInv, KnowsShuffle, SetReturns
<1> QED
  BY <1>1, ShuffleInvariant, PTL DEF ShuffleSpec, ShuffleAsWanted

-----------------------------------------------------------------------------
(* Messages: a temporary text leads to another, a lasting one is saved.    *)

Stays(m) == m \in Lasting \cup {Blank}
Saving(t) == call[t].at = "send" /\ call[t].save

\* Only texts that are set to stay are saved, and so put back.
OnlyLasting ==
    /\ Stays(saved) /\ \A m \in DOMAIN jobs : Stays(m)
    /\ \A t \in threads : Stays(call[t].prev) /\ (call[t].save => Stays(call[t].msg))
    /\ \A t \in threads :
          /\ call[t].at = "enqueue" => ~call[t].save
          /\ call[t].at = "send" /\ ~call[t].save => call[t].msg \in Temporary

\* A temporary text that is shown has a job, or a thread that is about to make
\* one, or another text is on its way.
WillEnd ==
    ~broken /\ shown \in Temporary =>
        \/ jobs # EmptyBag
        \/ \E t \in threads : call[t].at = "enqueue" \/ Saving(t)

\* One text to stay is on its way at a time, and it is the one that is saved.
OneOnItsWay ==
    ~broken /\ ~lapsed /\ ~raced =>
        /\ \A t, u \in threads : Saving(t) /\ Saving(u) => t = u
        /\ \A t \in threads : Saving(t) => saved = call[t].msg
        /\ (\A t \in threads : ~Saving(t)) => shown = saved \/ shown \in Temporary

MessageInv == MessageTypeOK /\ OnlyLasting /\ WillEnd /\ OneOnItsWay

LEMMA JobsFacts ==
    ASSUME NEW bag, IsABag(bag), NEW m
    PROVE  /\ IsABag(bag (+) SetToBag({m})) /\ DOMAIN (bag (+) SetToBag({m})) = DOMAIN bag \cup {m}
           /\ IsABag(bag (-) SetToBag({m})) /\ DOMAIN (bag (-) SetToBag({m})) \subseteq DOMAIN bag
           /\ bag = EmptyBag <=> DOMAIN bag = {}
<1>1. IsABag(bag (+) SetToBag({m})) /\ DOMAIN (bag (+) SetToBag({m})) = DOMAIN bag \cup {m}
    BY DEF (+), SetToBag, IsABag
<1>2. IsABag(bag (-) SetToBag({m}))
    BY DEF (-), SetToBag, IsABag
<1>3. DOMAIN (bag (-) SetToBag({m})) \subseteq DOMAIN bag
    BY DEF (-), SetToBag
<1>4. DOMAIN bag = {} => bag = EmptyBag
    BY DEF EmptyBag, SetToBag, IsABag
<1>5. DOMAIN EmptyBag = {}
    BY DEF EmptyBag, SetToBag
<1> QED BY <1>1, <1>2, <1>3, <1>4, <1>5

LEMMA InitMessageInv == MessageInit => MessageInv
<1> SUFFICES ASSUME MessageInit PROVE MessageInv
    OBVIOUS
<1>1. IsABag(EmptyBag) /\ DOMAIN EmptyBag = {}
    BY DEF EmptyBag, SetToBag, IsABag
<1>2. MessageTypeOK
    BY <1>1 DEF MessageInit, MessageTypeOK, Texts, NoCall, Frame
<1>3. \A t \in threads : call[t] = NoCall
    BY DEF MessageInit
<1> QED
    BY <1>1, <1>2, <1>3, MessagesAssumption
    DEF MessageInit, MessageInv, OnlyLasting, WillEnd, OneOnItsWay, Stays, Saving, NoCall, Frame

\* The thread that starts to set a text; RunJob has taken the job already.
LEMMA SwapKeepsMessageInv ==
    ASSUME MessageInv, NEW t \in threads, call[t] = NoCall, NEW m \in Texts, NEW save \in BOOLEAN,
           save => Stays(m), ~save => m \in Temporary, Swap(t, m, save),
           shown' = shown, lapsed' = lapsed,
           IsABag(jobs'), DOMAIN jobs' \subseteq DOMAIN jobs,
           jobs' = jobs \/ save
    PROVE  MessageInv'
<1> USE DEF MessageInv
<1>1. PICK prev \in {saved, Blank} :
      /\ saved' \in {saved, m} /\ (~save => saved' = saved)
      /\ call' = [call EXCEPT ![t] = Frame("send", m, prev, save)]
      /\ broken' = broken \/ broken' = TRUE
      /\ ~broken' => saved' = (IF save THEN m ELSE saved)
      /\ raced' = (raced \/ (save /\ \E u \in threads : Saving(u)))
    BY DEF Swap, Saves, Frame, MessageTypeOK, Saving
<1>2. /\ call'[t].at = "send" /\ call'[t].msg = m /\ call'[t].save = save
      /\ call'[t].prev = prev
      /\ \A u \in threads \ {t} : call'[u] = call[u]
    BY <1>1 DEF Frame, MessageTypeOK
<1>3. /\ call[t].at = "none" /\ ~Saving(t)
    BY DEF NoCall, Frame, Saving
<1>4. MessageTypeOK'
  <2>1. prev \in Texts /\ saved' \in Texts
      BY <1>1 DEF MessageTypeOK, Texts
  <2>2. Frame("send", m, prev, save) \in [at : {"none", "send", "enqueue"}, msg : Texts,
                                          prev : Texts, save : BOOLEAN]
      BY <2>1 DEF Frame
  <2>3. broken' \in BOOLEAN /\ raced' \in BOOLEAN
      BY <1>1 DEF MessageTypeOK
  <2>4. DOMAIN jobs' \subseteq Texts
      BY DEF MessageTypeOK
  <2> QED BY <1>1, <2>1, <2>2, <2>3, <2>4 DEF MessageTypeOK
<1>5. OnlyLasting'
    BY <1>1, <1>2 DEF OnlyLasting, Stays
<1>6. \A u \in threads : Saving(u)' <=> (u = t /\ save) \/ Saving(u)
    BY <1>2, <1>3 DEF Saving
<1>7. WillEnd'
  <2> SUFFICES ASSUME ~broken', shown \in Temporary
               PROVE  jobs' # EmptyBag \/ \E u \in threads : call'[u].at = "enqueue" \/ Saving(u)'
      BY DEF WillEnd
  <2>1. CASE save
      BY <1>6, <2>1
  <2>2. CASE ~save
    <3>1. jobs' = jobs /\ ~broken
        BY <1>1, <2>2 DEF MessageTypeOK
    <3>2. \A u \in threads : call[u].at = "enqueue" => call'[u].at = "enqueue"
        BY <1>2, <1>3
    <3> QED BY <1>6, <3>1, <3>2 DEF WillEnd
  <2> QED BY <2>1, <2>2
<1>8. OneOnItsWay'
  <2> SUFFICES ASSUME ~broken', ~lapsed, ~raced'
               PROVE  /\ \A u, v \in threads : Saving(u)' /\ Saving(v)' => u = v
                      /\ \A u \in threads : Saving(u)' => saved' = call'[u].msg
                      /\ (\A u \in threads : ~Saving(u)') => shown = saved' \/ shown \in Temporary
      BY DEF OneOnItsWay
  <2>1. ~broken /\ ~raced
      BY <1>1 DEF MessageTypeOK
  <2>2. CASE save
    <3>1. \A u \in threads : ~Saving(u)
        BY <1>1, <2>2
    <3> QED BY <1>1, <1>2, <1>6, <2>2, <3>1
  <2>3. CASE ~save
    <3>1. saved' = saved /\ \A u \in threads : Saving(u)' <=> Saving(u)
        BY <1>1, <1>6, <2>3
    <3>2. \A u \in threads : Saving(u) => call'[u].msg = call[u].msg
        BY <1>2, <1>3
    <3> QED BY <2>1, <3>1, <3>2 DEF OneOnItsWay
  <2> QED BY <2>2, <2>3
<1> QED BY <1>4, <1>5, <1>7, <1>8

LEMMA StepMessageInv ==
    ASSUME MessageInv, [MessageNext]_messageVars
    PROVE  MessageInv'
<1> USE DEF MessageInv
<1>0. IsABag(jobs) /\ DOMAIN jobs \subseteq Texts /\ Setters \subseteq threads /\ Worker \in threads
    BY DEF MessageTypeOK, threads
<1>1. CASE UNCHANGED messageVars
  <2>1. shown' = shown /\ saved' = saved /\ jobs' = jobs /\ call' = call /\ broken' = broken
        /\ lapsed' = lapsed /\ raced' = raced
      BY <1>1 DEF messageVars
  <2> QED BY <2>1 DEF MessageTypeOK, OnlyLasting, WillEnd, OneOnItsWay, Saving
<1>2. ASSUME NEW t \in Setters, NEW m \in Lasting, Set(t, m) PROVE MessageInv'
    BY <1>0, <1>2, SwapKeepsMessageInv DEF Set, Texts, Stays
<1>3. ASSUME NEW t \in Setters, NEW m \in Temporary, SetTemporary(t, m) PROVE MessageInv'
    BY <1>0, <1>3, SwapKeepsMessageInv DEF SetTemporary, Texts
<1>4. ASSUME NEW m \in Texts, RunJob(m) PROVE MessageInv'
  <2>1. IsABag(jobs') /\ DOMAIN jobs' \subseteq DOMAIN jobs /\ m \in DOMAIN jobs
      BY <1>0, <1>4, JobsFacts DEF RunJob, BagIn, BagToSet
  <2>2. Stays(m)
      BY <2>1 DEF OnlyLasting
  <2> QED BY <1>0, <1>4, <2>1, <2>2, SwapKeepsMessageInv DEF RunJob
<1>5. ASSUME NEW t \in threads, Send(t) PROVE MessageInv'
  <2>1. /\ call[t].at = "send" /\ shown' = call[t].msg
        /\ UNCHANGED <<saved, jobs, broken, lapsed, raced>>
      BY <1>5 DEF Send
  <2>2. CASE call[t].save
    <3>1. call' = [call EXCEPT ![t] = NoCall] /\ Stays(call[t].msg)
        BY <1>5, <2>2 DEF Send, Returns, OnlyLasting
    <3>2. call'[t] = NoCall /\ \A u \in threads \ {t} : call'[u] = call[u]
        BY <3>1 DEF MessageTypeOK
    <3>3. shown' \notin Temporary /\ Saving(t)
        BY <2>1, <2>2, <3>1, MessagesAssumption DEF Stays, Saving
    <3>4. MessageTypeOK'
        BY <2>1, <3>1 DEF MessageTypeOK, Texts, NoCall, Frame
    <3>5. OnlyLasting'
        BY <2>1, <3>2 DEF OnlyLasting, Stays, NoCall, Frame
    <3>6. OneOnItsWay'
        BY <2>1, <3>2, <3>3 DEF OneOnItsWay, Saving, NoCall, Frame
    <3> QED BY <3>3, <3>4, <3>5, <3>6 DEF WillEnd
  <2>3. CASE ~call[t].save
    <3>1. call' = [call EXCEPT ![t].at = "enqueue"]
        BY <1>5, <2>3 DEF Send
    <3>2. /\ call'[t].at = "enqueue" /\ call'[t].save = call[t].save /\ call'[t].prev = call[t].prev
          /\ call'[t].msg = call[t].msg /\ \A u \in threads \ {t} : call'[u] = call[u]
        BY <3>1 DEF MessageTypeOK
    <3>3. MessageTypeOK'
        BY <2>1, <3>1 DEF MessageTypeOK
    <3>4. OnlyLasting'
        BY <2>1, <2>3, <3>2 DEF OnlyLasting
    <3>5. WillEnd'
        BY <3>2 DEF WillEnd
    <3>6. shown' \in Temporary
        BY <2>1, <2>3 DEF OnlyLasting
    <3>7. \A u \in threads : Saving(u)' <=> Saving(u)
        BY <2>1, <2>3, <3>2 DEF Saving
    <3>8. OneOnItsWay'
        BY <2>1, <2>3, <3>2, <3>6, <3>7 DEF OneOnItsWay, Saving
    <3> QED BY <3>3, <3>4, <3>5, <3>8
  <2> QED BY <2>2, <2>3
<1>6. ASSUME NEW t \in threads, SendFails(t) PROVE MessageInv'
  <2>1. /\ shown' \in {shown, call[t].msg} /\ call' = [call EXCEPT ![t] = NoCall] /\ broken' = TRUE
        /\ UNCHANGED <<saved, jobs, lapsed, raced>>
      BY <1>6 DEF SendFails, Returns
  <2>2. MessageTypeOK'
      BY <2>1 DEF MessageTypeOK, Texts, NoCall, Frame
  <2>3. OnlyLasting'
      BY <2>1 DEF MessageTypeOK, OnlyLasting, Stays, NoCall, Frame
  <2> QED BY <2>1, <2>2, <2>3 DEF WillEnd, OneOnItsWay
<1>7. ASSUME NEW t \in Setters, Enqueue(t) PROVE MessageInv'
  <2>1. /\ call[t].at = "enqueue" /\ jobs' = jobs (+) SetToBag({call[t].prev})
        /\ call' = [call EXCEPT ![t] = NoCall]
        /\ UNCHANGED <<shown, saved, broken, lapsed, raced>>
      BY <1>7 DEF Enqueue, Returns
  <2>2. call'[t] = NoCall /\ \A u \in threads \ {t} : call'[u] = call[u]
      BY <1>0, <2>1 DEF MessageTypeOK
  <2>3. IsABag(jobs') /\ DOMAIN jobs' = DOMAIN jobs \cup {call[t].prev} /\ jobs' # EmptyBag
    <3> DEFINE m == call[t].prev
    <3> HIDE DEF m
    <3>1. /\ IsABag(jobs (+) SetToBag({m})) /\ DOMAIN (jobs (+) SetToBag({m})) = DOMAIN jobs \cup {m}
        BY <1>0, JobsFacts
    <3>2. jobs (+) SetToBag({m}) # EmptyBag
        BY <3>1, JobsFacts
    <3> QED BY <2>1, <3>1, <3>2 DEF m
  <2>4. MessageTypeOK'
      BY <1>0, <2>1, <2>3 DEF MessageTypeOK, Texts, NoCall, Frame
  <2>5. OnlyLasting'
      BY <1>0, <2>1, <2>2, <2>3 DEF OnlyLasting, Stays, NoCall, Frame
  <2>6. OneOnItsWay'
      BY <2>1, <2>2 DEF OneOnItsWay, Saving, NoCall, Frame
  <2> QED BY <2>3, <2>4, <2>5, <2>6 DEF WillEnd
<1>8. ASSUME NEW t \in Setters, EnqueueFails(t) PROVE MessageInv'
  <2>1. /\ call' = [call EXCEPT ![t] = NoCall] /\ broken' = TRUE
        /\ UNCHANGED <<shown, saved, jobs, lapsed, raced>>
      BY <1>8 DEF EnqueueFails, Returns
  <2>2. MessageTypeOK'
      BY <2>1 DEF MessageTypeOK, Texts, NoCall, Frame
  <2>3. OnlyLasting'
      BY <2>1 DEF MessageTypeOK, OnlyLasting, Stays, NoCall, Frame
  <2> QED BY <2>1, <2>2, <2>3 DEF WillEnd, OneOnItsWay
<1>9. CASE Expire
  <2>1. saved' = Blank /\ lapsed' = TRUE /\ UNCHANGED <<shown, jobs, call, broken, raced>>
      BY <1>9 DEF Expire
  <2> QED BY <2>1 DEF MessageTypeOK, Texts, OnlyLasting, Stays, WillEnd, OneOnItsWay, Saving
<1> QED
    BY <1>1, <1>2, <1>3, <1>4, <1>5, <1>6, <1>7, <1>8, <1>9 DEF MessageNext

THEOREM MessagesInvariant == MessageSpec => []MessageInv
BY InitMessageInv, StepMessageInv, PTL DEF MessageSpec

\* Temporary texts end, for any number of threads, texts and jobs.
THEOREM TemporaryTextsEnd == MessageSpec => []TemporaryEnds
<1>1. MessageInv => TemporaryEnds
  <2> SUFFICES ASSUME MessageInv, Quiet, ~broken, shown \in Temporary PROVE FALSE
      BY DEF TemporaryEnds
  <2>1. \A t \in threads : call[t].at = "none" /\ ~Saving(t)
      BY DEF Quiet, NoCall, Frame, Saving
  <2> QED BY <2>1 DEF MessageInv, WillEnd, Quiet
<1> QED BY <1>1, MessagesInvariant, PTL

\* In between, the game server shows what Redis has.
THEOREM ShownTextIsSaved == MessageSpec => []ShownIsSaved
<1>1. MessageInv => ShownIsSaved
  <2> SUFFICES ASSUME MessageInv, Quiet, ~broken, ~lapsed, ~raced PROVE shown = saved
      BY DEF ShownIsSaved
  <2>1. \A t \in threads : call[t].at = "none" /\ ~Saving(t)
      BY DEF Quiet, NoCall, Frame, Saving
  <2>2. shown \notin Temporary
      BY <2>1 DEF MessageInv, WillEnd, Quiet
  <2> QED BY <2>1, <2>2 DEF MessageInv, OneOnItsWay
<1> QED BY <1>1, MessagesInvariant, PTL

-----------------------------------------------------------------------------
(***************************************************************************)
(* The configurations, for every number of requests and every set of keys  *)
(* an administrator may choose, over all of the thirty endpoints.          *)
(*                                                                         *)
(* ChangeIsTold is not inductive as it stands.  It needs that an           *)
(* undisturbed set holds, until it saves, what a load would see now, and   *)
(* then what its own change is to be told as is what it is about to tell   *)
(* (RequestInv); and that what it loaded is a value of its class, whose    *)
(* keys are empty at the endpoints no row of audit_log is written for      *)
(* (TypeOK, UnrecordedHaveNoFreeKeys).                                     *)
(***************************************************************************)

\* What the invariant says of one request.
RequestInv(r) ==
    /\ pc[r] = "idle" => op[r] = "get"
    /\ pc[r] \in {"load", "diff"} => op[r] = "set"
    /\ pc[r] \in {"idle", "load", "save"} => due[r] = {}
    /\ op[r] = "set" /\ pc[r] = "record" => endpoints.setRecorded
    /\ op[r] = "set" /\ r \notin disturbed =>
          /\ pc[r] = "save" => old[r] = Loaded
          /\ pc[r] = "diff" => due[r] = Told(old[r], Loaded)
          /\ pc[r] \in {"record", "done"} => message[r] = due[r]
          /\ pc[r] = "done" /\ message[r] = NoMessage => r \in recorded \cup rowLost

ConfigInv == TypeOK /\ \A r \in HttpRequests : RequestInv(r)

-------------------------------------------------------------------------------
(* The endpoints.                                                          *)

\* A class whose dictionaries have the administrator's keys is only edited by
\* endpoints whose set is recorded: the other sets can tell their differences.
LEMMA UnrecordedHaveNoFreeKeys ==
    \A e \in AllEndpoints : ~e.setRecorded => ~e.class.freeKeys
    BY DEF AllEndpoints, Endpoints, Class,
           auto_broadcasts_config, votekick_autotoggle_config,
           auto_mod_level_config, auto_mod_no_leader_config,
           auto_mod_seeding_config, auto_mod_solo_tank_config,
           tk_ban_on_connect_config, camera_notification_config,
           expired_vip_config, server_name_change_config,
           log_line_webhook_config, name_kick_config,
           rcon_connection_settings_config, rcon_server_settings_config,
           scorebot_config, standard_broadcast_messages,
           standard_punishments_messages, standard_welcome_messages,
           steam_config, vac_game_bans_config,
           admin_pings_discord_webhooks_config, audit_discord_webhooks_config,
           camera_discord_webhooks_config, chat_discord_webhooks_config,
           kills_discord_webhooks_config, watchlist_discord_webhooks_config,
           chat_commands_config, log_stream_config, votemap_config,
           real_vip_config, AdminPingWebhooksUserConfig,
           AutoBroadcastUserConfig, AutoModLevelUserConfig,
           AutoModNoLeaderUserConfig, AutoModNoSoloTankUserConfig,
           AutoModSeedingUserConfig, AutoVoteKickUserConfig,
           BanTeamKillOnConnectUserConfig, BaseMentionWebhookUserConfig,
           BaseStandardMessageUserConfig, BaseWebhookUserConfig,
           CameraNotificationUserConfig, ChatCommandsUserConfig,
           ChatWebhooksUserConfig, ExpiredVipsUserConfig,
           GtxServerNameChangeUserConfig, KillsWebhooksUserConfig,
           LogLineWebhookUserConfig, LogStreamUserConfig, NameKickUserConfig,
           RconConnectionSettingsUserConfig, RconServerSettingsUserConfig,
           RealVipUserConfig, ScorebotUserConfig, SteamUserConfig,
           VacGameBansUserConfig, VoteMapUserConfig

\* The default instance is a value of every class.
LEMMA DefaultIsAValue ==
    ASSUME NEW cl
    PROVE  Default \in ValuesOf(cl)
<1> DEFINE KeySets == IF cl.freeKeys THEN SUBSET FreeKeys ELSE {{}}
<1>1. {} \in KeySets
    OBVIOUS
<1>2. Value(0, {}) \in {Value(c, ks) : c \in {0, 1}, ks \in KeySets}
    BY <1>1
<1> QED
    BY <1>2 DEF Default, ValuesOf

\* Whatever the database answers, what is loaded is a value of the class.
LEMMA LoadedIsAValue ==
    ASSUME TypeOK, NEW blind \in BOOLEAN
    PROVE  load_from_db(row, blind) \in ValuesOf(class)
<1>1. Default \in ValuesOf(class)
    BY DefaultIsAValue
<1> QED
    BY <1>1 DEF TypeOK, load_from_db, SelectSees, Absent

\* The value a request stores is a value of the class.
LEMMA StoredIsAValue ==
    ASSUME TypeOK, NEW r \in HttpRequests, NEW value \in Stores(r)
    PROVE  value \in ValuesOf(class)
<1>1. Default \in ValuesOf(class)
    BY DefaultIsAValue
<1>2. ASSUME NEW p \in Payloads(class) PROVE p.value \in ValuesOf(class)
  <2>1. CASE p = ToDefault
      BY <1>1, <2>1 DEF ToDefault
  <2>2. CASE p # ToDefault
      BY <2>2 DEF Payloads
  <2> QED BY <2>1, <2>2
<1>3. payload[r].value \in ValuesOf(class)
    BY <1>2 DEF TypeOK
<1> QED
    BY <1>1, <1>3 DEF Stores

\* The seeding of a stored row leaves it.
LEMMA SeedLeavesStored ==
    ASSUME SeedDb
    PROVE  row # Absent => row' = row
BY DEF SeedDb, SetDefault, SelectSees, CommitFails

\* Nor does it change what a load sees.
LEMMA SeedLeavesLoaded ==
    ASSUME SeedDb
    PROVE  Loaded' = Loaded
BY DEF SeedDb, SetDefault, SelectSees, CommitFails, Loaded, load_from_db

\* What is told of two values; there is nothing to tell of twice the same.
LEMMA TellingFacts ==
    ASSUME NEW from, NEW to
    PROVE  /\ Told(from, to) \in {NoMessage, {}, {"content"}}
           /\ Told(from, from) = {}
           /\ ~LookupFails(from, to) => Told(from, to) # NoMessage
BY DEF Told, LookupFails, dict_differences, NoMessage

\* Where set is not recorded the differences can be told.
LEMMA DifferencesCanBeTold ==
    ASSUME TypeOK, ~endpoints.setRecorded,
           NEW r \in HttpRequests, NEW blind \in BOOLEAN
    PROVE  ~LookupFails(old[r], load_from_db(row, blind))
<1>1. ~class.freeKeys
    BY UnrecordedHaveNoFreeKeys DEF TypeOK, class
<1>2. \A v \in ValuesOf(class) : v.keys = {}
    BY <1>1 DEF ValuesOf, Value
<1>3. old[r].keys = {} /\ load_from_db(row, blind).keys = {}
    BY <1>2, LoadedIsAValue DEF TypeOK
<1> QED
    BY <1>3 DEF LookupFails

-------------------------------------------------------------------------------
(* The invariant.                                                          *)

LEMMA InitConfigInv == Init => ConfigInv
<1> SUFFICES ASSUME Init PROVE ConfigInv
    OBVIOUS
<1>1. Default \in ValuesOf(class)
    BY DefaultIsAValue
<1>2. [value |-> Default, kind |-> "good", reset |-> FALSE] \in Payloads(class)
    BY <1>1 DEF Payloads, PayloadKinds
<1>3. TypeOK
    BY <1>1, <1>2 DEF Init, TypeOK, NoMessage
<1> QED
    BY <1>3 DEF Init, ConfigInv, RequestInv

\* Every step keeps the types; the endpoints are never changed.
LEMMA StepTypeOK ==
    ASSUME TypeOK, Next
    PROVE  TypeOK'
<1> DEFINE PCs == {"idle", "load", "save", "diff", "record", "done", "killed"}
<1> DEFINE Replies == {"none", "ok", "failed", "raised"}
<1>0. endpoints' = endpoints /\ class' = class
    BY DEF Next, SeedDb, GetConfig, Validate, SetConfig, LoadOld, LoadRaises, Refuse,
           SaveConfig, TellDifferences, TellRaises, RecordAudit, Killed, class
<1>1. CASE SeedDb
  <2>1. row' \in ValuesOf(class) \cup {Absent}
    <3>1. Default \in ValuesOf(class)
        BY DefaultIsAValue
    <3> QED BY <1>1, <3>1 DEF SeedDb, SetDefault, TypeOK
  <2> QED BY <1>0, <1>1, <2>1 DEF SeedDb, TypeOK, traces, history
<1>2. ASSUME NEW r \in HttpRequests, GetConfig(r) PROVE TypeOK'
    BY <1>0, <1>2 DEF GetConfig, Goto, AnswerWith, TypeOK, traces, history
<1>3. ASSUME NEW r \in HttpRequests, Validate(r) PROVE TypeOK'
    BY <1>0, <1>3 DEF Validate, Goto, TypeOK, traces, history
<1>4. ASSUME NEW r \in HttpRequests, SetConfig(r) PROVE TypeOK'
    BY <1>0, <1>4 DEF SetConfig, Goto, TypeOK, traces, history
<1>5. ASSUME NEW r \in HttpRequests, LoadOld(r) PROVE TypeOK'
  <2>1. PICK blind \in BOOLEAN :
           /\ old' = [old EXCEPT ![r] = load_from_db(row, blind)]
           /\ disturbed' \in {disturbed, disturbed \cup {r}}
      BY <1>5 DEF LoadOld
  <2>2. old' \in [HttpRequests -> ValuesOf(class)] /\ disturbed' \subseteq HttpRequests
      BY <2>1, LoadedIsAValue DEF TypeOK
  <2> QED BY <1>0, <1>5, <2>2 DEF LoadOld, Goto, TypeOK, traces
<1>6. ASSUME NEW r \in HttpRequests, LoadRaises(r) \/ TellRaises(r) PROVE TypeOK'
    BY <1>0, <1>6 DEF LoadRaises, TellRaises, AfterSet, Goto, AnswerWith, TypeOK, traces
<1>7. ASSUME NEW r \in HttpRequests, Refuse(r) PROVE TypeOK'
    BY <1>0, <1>7 DEF Refuse, AfterSave, Goto, AnswerWith, TypeOK, traces, history
<1>8. ASSUME NEW r \in HttpRequests, SaveConfig(r) PROVE TypeOK'
  <2>1. row' \in ValuesOf(class) \cup {Absent}
      BY <1>8, StoredIsAValue DEF SaveConfig, set_user_config, TypeOK
  <2>2. disturbed' \subseteq HttpRequests
      BY <1>8 DEF SaveConfig, Between, TypeOK
  <2>3. answer' \in [HttpRequests -> Replies]
      BY <1>8 DEF SaveConfig, AnswerWith, TypeOK
  <2>4. pc' \in [HttpRequests -> PCs]
      BY <1>8 DEF SaveConfig, Goto, AfterSave, TypeOK
  <2>5. due' \in [HttpRequests -> {NoMessage, {}, {"content"}}]
      BY <1>8, TellingFacts DEF SaveConfig, TypeOK
  <2> QED BY <1>0, <1>8, <2>1, <2>2, <2>3, <2>4, <2>5 DEF SaveConfig, TypeOK, traces
<1>9. ASSUME NEW r \in HttpRequests, TellDifferences(r) PROVE TypeOK'
  <2>1. message' \in [HttpRequests -> {NoMessage, {}, {"content"}}]
      BY <1>9, TellingFacts DEF TellDifferences, TypeOK
  <2>2. answer' \in [HttpRequests -> Replies]
      BY <1>9 DEF TellDifferences, AnswerWith, TypeOK
  <2>3. pc' \in [HttpRequests -> PCs]
      BY <1>9 DEF TellDifferences, AfterSet, Goto, TypeOK
  <2>4. disturbed' \subseteq HttpRequests
      BY <1>9 DEF TellDifferences, TypeOK
  <2> QED BY <1>0, <1>9, <2>1, <2>2, <2>3, <2>4 DEF TellDifferences, TypeOK
<1>10. ASSUME NEW r \in HttpRequests, RecordAudit(r) PROVE TypeOK'
    BY <1>0, <1>10 DEF RecordAudit, Goto, AnswerWith, TypeOK, history
<1>11. ASSUME NEW r \in HttpRequests, Killed(r) PROVE TypeOK'
    BY <1>0, <1>11 DEF Killed, Goto, TypeOK, traces, history
<1> QED
    BY <1>1, <1>2, <1>3, <1>4, <1>5, <1>6, <1>7, <1>8, <1>9, <1>10, <1>11 DEF Next

\* A step of request r leaves what the invariant says of the others, and leaves
\* what a load sees or disturbs those that are between their loads.
OthersUntouched(r) ==
    \A s \in HttpRequests \ {r} :
        /\ pc'[s] = pc[s] /\ op'[s] = op[s] /\ old'[s] = old[s]
        /\ message'[s] = message[s] /\ due'[s] = due[s]
        /\ s \in recorded' <=> s \in recorded
        /\ s \in rowLost' <=> s \in rowLost
        /\ s \in disturbed => s \in disturbed'
        /\ op[s] = "set" /\ pc[s] \in {"save", "diff"} => Loaded' = Loaded \/ s \in disturbed'

LEMMA OneRequestSteps ==
    ASSUME ConfigInv, TypeOK', endpoints' = endpoints, NEW r \in HttpRequests,
           OthersUntouched(r), RequestInv(r)'
    PROVE  ConfigInv'
<1> HIDE DEF Loaded
<1>1. ASSUME NEW s \in HttpRequests \ {r} PROVE RequestInv(s)'
  <2>1. RequestInv(s)
      BY DEF ConfigInv
  <2>2. CASE op[s] = "set" /\ pc[s] \in {"save", "diff"} /\ s \notin disturbed'
    <3>1. Loaded' = Loaded
        BY <2>2 DEF OthersUntouched
    <3>2. Told(old[s], Loaded)' = Told(old[s], Loaded)
        BY <3>1 DEF OthersUntouched, Told, LookupFails, dict_differences
    <3> QED BY <2>1, <2>2, <3>1, <3>2 DEF OthersUntouched, RequestInv
  <2>3. CASE ~(op[s] = "set" /\ pc[s] \in {"save", "diff"} /\ s \notin disturbed')
      BY <2>1, <2>3 DEF OthersUntouched, RequestInv
  <2> QED BY <2>2, <2>3
<1> QED
    BY <1>1 DEF ConfigInv

LEMMA StepConfigInv ==
    ASSUME ConfigInv, Next
    PROVE  ConfigInv'
<1>0. TypeOK /\ TypeOK' /\ endpoints' = endpoints
    BY StepTypeOK DEF ConfigInv, Next, SeedDb, GetConfig, Validate, SetConfig, LoadOld,
       LoadRaises, Refuse, SaveConfig, TellDifferences, TellRaises, RecordAudit, Killed
<1>1. CASE SeedDb
  <2>1. Loaded' = Loaded
      BY <1>1, SeedLeavesLoaded
  <2>2. UNCHANGED <<endpoints, pc, op, old, message, recorded, rowLost, due, disturbed>>
      BY <1>1 DEF SeedDb, traces, history
  <2> QED BY <1>0, <2>1, <2>2 DEF ConfigInv, RequestInv, Told, LookupFails, dict_differences
<1>2. ASSUME NEW r \in HttpRequests,
             \/ GetConfig(r) \/ Validate(r) \/ SetConfig(r) \/ LoadOld(r) \/ LoadRaises(r)
             \/ Refuse(r) \/ SaveConfig(r) \/ TellDifferences(r) \/ TellRaises(r)
             \/ RecordAudit(r) \/ Killed(r)
      PROVE  ConfigInv'
  <2>0. RequestInv(r)
      BY DEF ConfigInv
  <2>1. CASE GetConfig(r)
    <3>1. OthersUntouched(r) /\ RequestInv(r)'
        BY <1>0, <2>0, <2>1 DEF GetConfig, Goto, traces, history, TypeOK, Loaded,
           OthersUntouched, RequestInv
    <3> QED BY <1>0, <3>1, OneRequestSteps
  <2>2. CASE Validate(r)
    <3>1. OthersUntouched(r) /\ RequestInv(r)'
        BY <1>0, <2>0, <2>2 DEF Validate, Goto, traces, history, TypeOK, Loaded,
           OthersUntouched, RequestInv
    <3> QED BY <1>0, <3>1, OneRequestSteps
  <2>3. CASE SetConfig(r)
    <3>1. OthersUntouched(r) /\ RequestInv(r)'
        BY <1>0, <2>0, <2>3 DEF SetConfig, Goto, traces, history, TypeOK, Loaded,
           OthersUntouched, RequestInv
    <3> QED BY <1>0, <3>1, OneRequestSteps
  <2>4. CASE LoadOld(r)
    \* It holds what a load sees now, or is disturbed.
    <3>1. PICK blind \in BOOLEAN :
             /\ old' = [old EXCEPT ![r] = load_from_db(row, blind)]
             /\ disturbed' = IF load_from_db(row, blind) = Loaded THEN disturbed
                             ELSE disturbed \cup {r}
        BY <2>4 DEF LoadOld
    <3>2. Loaded' = Loaded /\ UNCHANGED <<op, due, message, recorded, rowLost>>
        BY <2>4 DEF LoadOld, traces, Loaded
    <3>3. pc[r] = "load" /\ pc' = [pc EXCEPT ![r] = "save"]
        BY <2>4 DEF LoadOld, Goto
    <3>4. old'[r] = Loaded \/ r \in disturbed'
        BY <1>0, <3>1 DEF TypeOK
    <3> HIDE DEF Loaded
    <3>5. OthersUntouched(r)
        BY <1>0, <3>1, <3>2, <3>3 DEF TypeOK, OthersUntouched
    <3>6. RequestInv(r)'
        BY <1>0, <2>0, <3>2, <3>3, <3>4 DEF TypeOK, RequestInv
    <3> QED BY <1>0, <3>5, <3>6, OneRequestSteps
  <2>5. CASE LoadRaises(r) \/ TellRaises(r)
    <3>1. OthersUntouched(r) /\ RequestInv(r)'
        BY <1>0, <2>0, <2>5 DEF LoadRaises, TellRaises, AfterSet, Goto, traces, TypeOK,
           Loaded, OthersUntouched, RequestInv
    <3> QED BY <1>0, <3>1, OneRequestSteps
  <2>6. CASE Refuse(r)
    \* It has changed nothing, and there is nothing to be told.
    <3>1. /\ pc[r] = "save" /\ pc' = [pc EXCEPT ![r] = AfterSave(r)]
          /\ Loaded' = Loaded
          /\ UNCHANGED <<op, old, due, disturbed, message, recorded, rowLost>>
        BY <2>6 DEF Refuse, Goto, traces, history, Loaded
    <3>2. Told(Loaded, Loaded) = {}
        BY TellingFacts
    <3> HIDE DEF Loaded
    <3>3. OthersUntouched(r)
        BY <1>0, <3>1 DEF TypeOK, OthersUntouched
    <3>4. CASE op[r] = "set"
      <4>1. pc'[r] = "diff" /\ op'[r] = "set"
          BY <1>0, <3>1, <3>4 DEF AfterSave, TypeOK
      <4>2. r \notin disturbed' => due'[r] = Told(old[r], Loaded)'
          BY <2>0, <3>1, <3>2, <3>4 DEF RequestInv, Told, LookupFails, dict_differences
      <4>3. RequestInv(r)'
          BY <4>1, <4>2 DEF RequestInv
      <4> QED BY <1>0, <3>3, <4>3, OneRequestSteps
    <3>5. CASE op[r] # "set"
      <4>1. RequestInv(r)'
          BY <1>0, <2>0, <3>1, <3>5 DEF AfterSave, TypeOK, RequestInv
      <4> QED BY <1>0, <3>3, <4>1, OneRequestSteps
    <3> QED BY <3>4, <3>5
  <2>7. CASE SaveConfig(r)
    \* An undisturbed set held what was there, and its change begins from that.
    <3>1. /\ pc[r] = "save" /\ pc' = [pc EXCEPT ![r] = AfterSave(r)]
          /\ due' = [due EXCEPT ![r] = Told(Loaded, Loaded')]
          /\ disturbed' = IF Loaded' = Loaded THEN disturbed ELSE disturbed \cup Between(r)
          /\ UNCHANGED <<op, old, message, recorded, rowLost>>
        BY <2>7 DEF SaveConfig, Goto, traces
    <3> HIDE DEF Loaded
    <3>2. OthersUntouched(r)
        BY <1>0, <3>1 DEF Between, TypeOK, OthersUntouched
    <3>3. r \in disturbed' <=> r \in disturbed
        BY <3>1 DEF Between
    <3>4. CASE op[r] = "set"
      <4>1. pc'[r] = "diff" /\ op'[r] = "set"
          BY <1>0, <3>1, <3>4 DEF AfterSave, TypeOK
      <4>2. r \notin disturbed => due'[r] = Told(old[r], Loaded')
          BY <1>0, <2>0, <3>1, <3>4 DEF TypeOK, RequestInv
      <4>3. Told(old[r], Loaded') = Told(old[r], Loaded)'
          BY <3>1 DEF Told, LookupFails, dict_differences
      <4>4. RequestInv(r)'
          BY <3>3, <4>1, <4>2, <4>3 DEF RequestInv
      <4> QED BY <1>0, <3>2, <4>4, OneRequestSteps
    <3>5. CASE op[r] # "set"
      <4>1. RequestInv(r)'
          BY <1>0, <2>0, <3>1, <3>5 DEF AfterSave, TypeOK, RequestInv
      <4> QED BY <1>0, <3>2, <4>1, OneRequestSteps
    <3> QED BY <3>4, <3>5
  <2>8. CASE TellDifferences(r)
    <3>1. PICK blind \in BOOLEAN :
             /\ message' = [message EXCEPT ![r] = Told(old[r], load_from_db(row, blind))]
             /\ disturbed' = IF load_from_db(row, blind) = Loaded THEN disturbed
                             ELSE disturbed \cup {r}
        BY <2>8 DEF TellDifferences
    <3>2. /\ pc[r] = "diff" /\ pc' = [pc EXCEPT ![r] = AfterSet]
          /\ Loaded' = Loaded /\ UNCHANGED <<op, old, due, recorded, rowLost>>
        BY <2>8 DEF TellDifferences, Goto, history, Loaded
    <3>3. ~endpoints.setRecorded => message'[r] # NoMessage
        BY <1>0, <3>1, DifferencesCanBeTold, TellingFacts DEF TypeOK
    <3>4. r \notin disturbed' => message'[r] = Told(old[r], Loaded) /\ r \notin disturbed
        BY <1>0, <3>1 DEF TypeOK
    <3> HIDE DEF Loaded
    <3>5. OthersUntouched(r)
        BY <1>0, <3>1, <3>2 DEF TypeOK, OthersUntouched
    <3>6. r \notin disturbed' => message'[r] = due'[r]
        BY <2>0, <3>2, <3>4 DEF RequestInv
    <3>7. pc'[r] = IF endpoints.setRecorded THEN "record" ELSE "done"
        BY <1>0, <3>2 DEF AfterSet, TypeOK
    <3>8. RequestInv(r)'
        BY <1>0, <2>0, <3>2, <3>3, <3>6, <3>7 DEF RequestInv
    <3> QED BY <1>0, <3>5, <3>8, OneRequestSteps
  <2>9. CASE RecordAudit(r)
    <3>1. OthersUntouched(r) /\ RequestInv(r)'
        BY <1>0, <2>0, <2>9 DEF RecordAudit, Goto, history, TypeOK, Loaded,
           OthersUntouched, RequestInv
    <3> QED BY <1>0, <3>1, OneRequestSteps
  <2>10. CASE Killed(r)
    <3>1. OthersUntouched(r) /\ RequestInv(r)'
        BY <1>0, <2>0, <2>10 DEF Killed, Goto, traces, history, TypeOK, Loaded,
           OthersUntouched, RequestInv
    <3> QED BY <1>0, <3>1, OneRequestSteps
  <2> QED
      BY <1>2, <2>1, <2>2, <2>3, <2>4, <2>5, <2>6, <2>7, <2>8, <2>9, <2>10
<1> QED
    BY <1>1, <1>2 DEF Next

\* The invariant holds of every state the handlers can reach.
THEOREM ConfigInvariant == Spec => []ConfigInv
<1>1. ConfigInv /\ UNCHANGED vars => ConfigInv'
  <2> SUFFICES ASSUME ConfigInv, UNCHANGED vars PROVE ConfigInv'
      OBVIOUS
  <2>1. TypeOK'
      BY DEF vars, ConfigInv, TypeOK, class
  <2>2. Loaded' = Loaded
      BY DEF vars, Loaded
  <2>3. ASSUME NEW r \in HttpRequests PROVE RequestInv(r)'
      BY <2>2 DEF vars, ConfigInv, RequestInv, Told, LookupFails, dict_differences
  <2> QED BY <2>1, <2>3 DEF ConfigInv
<1>2. ConfigInv /\ [Next]_vars => ConfigInv'
    BY <1>1, StepConfigInv
<1> QED
    BY InitConfigInv, <1>2, PTL DEF Spec

\* Every variable has its type: above all, what is stored and what is loaded
\* is always a value of the endpoints' class, whoever saves, seeds or restarts.
THEOREM ConfigTypeCorrect == Spec => []TypeOK
<1>1. ConfigInv => TypeOK
    BY DEF ConfigInv
<1> QED
    BY ConfigInvariant, <1>1, PTL

\* What a set tells is the change its own transaction made, however the commit
\* went and whatever was answered, unless its loads were disturbed; and where a
\* key is gone and nothing can be told, record_audit wraps the endpoint.
THEOREM ChangesAreTold == Spec => []ChangeIsTold
<1>1. ConfigInv => ChangeIsTold
    BY DEF ConfigInv, RequestInv, ChangeIsTold
<1> QED
    BY ConfigInvariant, <1>1, PTL

\* A stored configuration is only ever replaced by what a request stores: not
\* by the seeding, not by a load, and not where the database did not answer.
THEOREM OutageKeepsStored == Spec => OutageNeverResets
<1>1. ASSUME TypeOK, Next, row' # row, row # Absent
      PROVE  \E r \in HttpRequests : pc[r] = "save" /\ pc'[r] # "save" /\ row' \in Stores(r)
  <2>1. ~SeedDb
      BY <1>1, SeedLeavesStored
  <2>2. PICK r \in HttpRequests : SaveConfig(r)
      BY <1>1, <2>1 DEF Next, GetConfig, Validate, SetConfig, LoadOld, LoadRaises, Refuse,
         TellDifferences, TellRaises, RecordAudit, Killed
  <2>3. row' \in Stores(r)
      BY <1>1, <2>2 DEF SaveConfig, set_user_config
  <2>4. pc[r] = "save" /\ pc'[r] # "save"
      BY <1>1, <2>2 DEF SaveConfig, Goto, AfterSave, TypeOK
  <2> QED BY <2>3, <2>4
<1>2. TypeOK /\ [Next]_vars =>
        [row' # row /\ row # Absent =>
           \E r \in HttpRequests : pc[r] = "save" /\ pc'[r] # "save" /\ row' \in Stores(r)]_vars
    BY <1>1
<1> QED
    BY ConfigTypeCorrect, <1>2, PTL DEF Spec, OutageNeverResets

=============================================================================
