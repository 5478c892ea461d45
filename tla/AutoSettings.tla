---------------------------- MODULE AutoSettings ----------------------------
(***************************************************************************)
(* The automatic settings: the service that applies the commands of the    *)
(* rules whose conditions hold, over and over (rcon/auto_settings.py), and *)
(* the requests that edit its configuration, which it reads once, and so   *)
(* restart it (rconweb/api/auto_settings.py).  Supervisor starts the       *)
(* process again when it exits with an error (config/supervisord.conf).    *)
(***************************************************************************)
EXTENDS Sequences, Naturals

CONSTANTS
    SetNames,    \* settings whose commands have names that start with set_
    OtherNames,  \* settings whose commands do not, as do_set_map_whitelist
    Values,      \* their values
    Unset,       \* whatever another value there is
    Configs,     \* configurations
    Edits,       \* those that requests save
    Requests,    \* threads of requests that save them
    NoConfig     \* none is loaded

Names == SetNames \cup OtherNames
Commands == UNION {[N -> Values] : N \in SUBSET Names}

ASSUME AutoAssumption ==
    /\ SetNames \cap OtherNames = {} /\ Unset \notin Values /\ NoConfig \notin Configs
    /\ Edits \subseteq Configs
    /\ \A c \in Configs :
          /\ {c.always, c.multiple} \subseteq BOOLEAN /\ c.defaults \in Commands
          /\ c.rules \in Seq([conditional : BOOLEAN, commands : Commands])

VARIABLES
    stored,     \* the configuration in the database
    service,    \* the state supervisor has for the process
    config,     \* the configuration the process has read
    at,         \* where run() is
    rule,       \* the next rule it looks at
    todo,       \* the commands do_run_commands has left
    effect,     \* [Names -> the value on the game server, or in the vote map]
    matched,    \* the rules that held in this iteration
    touched,    \* history: settings that failed or that others set since it began
    request,    \* [Requests -> the next step of its set_auto_settings]
    wantedOff,  \* history: nobody has started it since an administrator stopped it
    leftOff,    \* history: nor since a request was cut short that had stopped it,
                \* or since supervisor gave it up
    skipped     \* history: since the configuration was read a request saved one and
                \* asked for no restart, was cut short, or came too early for one

loopVars == <<config, at, rule, todo, effect, matched, touched>>
serviceVars == <<stored, request, wantedOff, leftOff, skipped>>
autoVars == <<loopVars, service, serviceVars>>

AutoTypeOK ==
    /\ stored \in Configs /\ config \in Configs \cup {NoConfig}
    /\ service \in {"stopped", "starting", "running"}
    /\ at \in {"none", "boot", "first", "rules", "last", "sleep"}
    /\ config # NoConfig => rule \in 1..Len(config.rules) + 1
    /\ todo \in Commands /\ effect \in [Names -> Values \cup {Unset}]
    /\ touched \subseteq Names
    /\ request \in [Requests -> {"none", "info", "stop", "start"}]
    /\ {wantedOff, leftOff, skipped} \subseteq BOOLEAN

Nothing == <<>>

AutoInit ==
    /\ stored \in Configs
    /\ service = "stopped" /\ config = NoConfig /\ at = "none"
    /\ rule = 1 /\ todo = Nothing /\ matched = <<>> /\ touched = {}
    /\ effect = [n \in Names |-> Unset]
    /\ request = [r \in Requests |-> "none"]
    /\ wantedOff = TRUE /\ leftOff = FALSE /\ skipped = FALSE

-----------------------------------------------------------------------------
(* run                                                                     *)

Only(commands, N) == [n \in DOMAIN commands \cap N |-> commands[n]]
SavedCommands == Only(config.defaults, SetNames)

\* dict.update: what of both they set is as commands say.
Over(commands, others) ==
    [n \in DOMAIN commands \cup DOMAIN others |->
        IF n \in DOMAIN commands THEN commands[n] ELSE others[n]]

\* get_settings, once, as soon as the imports are done: whether supervisor says
\* by then that the process is running, which it does after startsecs, or that
\* it is starting still.
Load ==
    /\ at = "boot"
    /\ config' = stored /\ at' = "first"
    /\ skipped' = FALSE
    /\ UNCHANGED <<stored, service, request, wantedOff, leftOff, rule, todo, effect,
                   matched, touched>>

\* An iteration begins.
Begin ==
    /\ at = "first"
    /\ at' = "rules" /\ rule' = 1
    /\ todo' = IF config.always THEN Only(config.defaults, OtherNames) ELSE Nothing
    /\ matched' = <<>> /\ touched' = {}
    /\ UNCHANGED <<config, effect>>

\* do_run_commands, one of its commands.
Run(n) ==
    /\ n \in DOMAIN todo
    /\ effect' = [effect EXCEPT ![n] = todo[n]]
    /\ todo' = Only(todo, Names \ {n})
    /\ UNCHANGED <<config, at, rule, matched, touched>>

\* The command raises, whether or not it was carried out; the next one follows.
RunFails(n) ==
    /\ n \in DOMAIN todo
    /\ effect' \in {effect, [effect EXCEPT ![n] = todo[n]]}
    /\ todo' = Only(todo, Names \ {n})
    /\ touched' = touched \cup {n}
    /\ UNCHANGED <<config, at, rule, matched>>

AtRule == at = "rules" /\ todo = Nothing /\ rule <= Len(config.rules)

\* A variant in which the saved defaults come after the rule.
DefaultsAgain(commands) ==
    IF config.always THEN Over(SavedCommands, commands) ELSE commands

\* What a rule that holds sends: its commands over the saved defaults.
Sends(commands) == IF config.always THEN Over(commands, SavedCommands) ELSE commands

\* All its conditions hold, or it has none that can be created.
RuleHolds ==
    /\ AtRule
    /\ todo' = Sends(config.rules[rule].commands)
    /\ matched' = Append(matched, rule)
    /\ rule' = IF config.multiple THEN rule + 1 ELSE Len(config.rules) + 1
    /\ UNCHANGED <<config, at, effect, touched>>

RuleFails ==
    /\ AtRule /\ config.rules[rule].conditional
    /\ rule' = rule + 1
    /\ UNCHANGED <<config, at, todo, effect, matched, touched>>

\* After the rules.
NoRuleLeft ==
    /\ at = "rules" /\ todo = Nothing /\ rule > Len(config.rules)
    /\ IF matched = <<>>
       THEN at' = "last" /\ todo' = IF config.always THEN SavedCommands ELSE config.defaults
       ELSE at' = "sleep" /\ UNCHANGED todo
    /\ UNCHANGED <<config, rule, effect, matched, touched>>

DefaultsDone ==
    /\ at = "last" /\ todo = Nothing
    /\ at' = "sleep"
    /\ UNCHANGED <<config, rule, todo, effect, matched, touched>>

Wake ==
    /\ at = "sleep"
    /\ at' = "first"
    /\ UNCHANGED <<config, rule, todo, effect, matched, touched>>

\* A request, or a routine such as toggle_votekick, gives a setting another value.
SetByOthers(n) ==
    /\ effect' = [effect EXCEPT ![n] = Unset]
    /\ touched' = touched \cup {n}
    /\ UNCHANGED <<config, at, rule, todo, matched>>

LoopNext ==
    \/ Begin \/ RuleHolds \/ RuleFails \/ NoRuleLeft \/ DefaultsDone \/ Wake
    \/ \E n \in Names : Run(n) \/ RunFails(n) \/ SetByOthers(n)

-----------------------------------------------------------------------------
(* Supervisor                                                              *)

\* The process is gone, or there is another one.
Process(where) ==
    /\ at' = where /\ config' = NoConfig /\ rule' = 1 /\ todo' = Nothing
    /\ matched' = <<>>
    /\ UNCHANGED <<effect, touched>>

\* A variant in which the process exits with 0.
ExitQuietly ==
    /\ at \in {"boot", "rules"} /\ service # "stopped"
    /\ service' = "stopped" /\ Process("none")
    /\ UNCHANGED serviceVars

\* The database, or the metric of a condition, raises: run() ends with it, the
\* process exits with 1 and is started again.
Exit ==
    /\ at \in {"boot", "rules"} /\ service # "stopped"
    /\ service' = "starting" /\ Process("boot")
    /\ UNCHANGED serviceVars

\* It has been up for startsecs.
Up ==
    /\ service = "starting"
    /\ service' = "running"
    /\ UNCHANGED <<loopVars, serviceVars>>

\* It has exited within startsecs of each of its starts, startretries times.
GiveUp ==
    /\ service = "starting" /\ at = "boot"
    /\ service' = "stopped" /\ Process("none")
    /\ leftOff' = TRUE
    /\ UNCHANGED <<stored, request, wantedOff, skipped>>

\* startProcess is carried out.
Launch ==
    /\ service' = "starting" /\ Process("boot")
    /\ wantedOff' = FALSE /\ leftOff' = FALSE

\* stopProcess is carried out.
Halt == service' = "stopped" /\ Process("none")

\* do_service
StartService ==
    /\ service = "stopped"
    /\ Launch
    /\ UNCHANGED <<stored, request, skipped>>

StopService ==
    /\ service # "stopped"
    /\ Halt
    /\ wantedOff' = TRUE
    /\ UNCHANGED <<stored, request, leftOff, skipped>>

-----------------------------------------------------------------------------
(* set_auto_settings                                                       *)

Proceeds(r, to) == request' = [request EXCEPT ![r] = to]

\* restart_service is a parameter of the request.  enter_session swallows some
\* errors of the commit: nothing is stored then, and the request goes on.
Save(r, c, restart) ==
    /\ request[r] = "none"
    /\ stored' \in {stored, c}
    /\ Proceeds(r, IF restart THEN "info" ELSE "none")
    /\ skipped' = (skipped \/ ~restart)
    /\ UNCHANGED <<loopVars, service, wantedOff, leftOff>>

\* A process that has read its configuration within startsecs.
ReadEarly == service = "starting" /\ config # NoConfig

\* A variant that takes another code of a state for that of a running process.
InfoOfStarting(r) ==
    /\ request[r] = "info"
    /\ Proceeds(r, IF service = "starting" THEN "stop" ELSE "none")
    /\ skipped' = (skipped \/ ReadEarly)
    /\ UNCHANGED <<loopVars, service, stored, wantedOff, leftOff>>

\* getProcessInfo: only a running process is restarted, and not one that is
\* starting but has read the old configuration already.
Info(r) ==
    /\ request[r] = "info"
    /\ Proceeds(r, IF service = "running" THEN "stop" ELSE "none")
    /\ skipped' = (skipped \/ ReadEarly)
    /\ UNCHANGED <<loopVars, service, stored, wantedOff, leftOff>>

\* stopProcess, which raises when it has been stopped meanwhile.
Stop(r) ==
    /\ request[r] = "stop"
    /\ IF service = "stopped"
       THEN Proceeds(r, "none") /\ UNCHANGED <<loopVars, service>>
       ELSE Proceeds(r, "start") /\ Halt
    /\ UNCHANGED <<stored, wantedOff, leftOff, skipped>>

\* startProcess, which raises when it has been started meanwhile.
Start(r) ==
    /\ request[r] = "start"
    /\ Proceeds(r, "none")
    /\ IF service = "stopped" THEN Launch
       ELSE wantedOff' = FALSE /\ leftOff' = FALSE /\ UNCHANGED <<loopVars, service>>
    /\ UNCHANGED <<stored, skipped>>

\* A request is cut short: it is killed between two of its calls, or one of them
\* raises, as when another thread uses the connection of the ServerProxy they
\* share.  What it called for may have been carried out.
CutShort(r) ==
    /\ request[r] # "none"
    /\ Proceeds(r, "none")
    /\ skipped' = TRUE
    /\ \/ /\ leftOff' = (leftOff \/ (request[r] = "start" /\ service = "stopped"))
          /\ UNCHANGED <<loopVars, service, wantedOff>>
       \/ /\ request[r] = "stop" /\ service # "stopped"
          /\ Halt /\ leftOff' = TRUE
          /\ UNCHANGED wantedOff
       \/ request[r] = "start" /\ service = "stopped" /\ Launch
    /\ UNCHANGED stored

ServiceNext ==
    \/ Load \/ Exit \/ Up \/ GiveUp \/ StartService \/ StopService
    \/ \E r \in Requests :
          \/ \E c \in Edits, restart \in BOOLEAN : Save(r, c, restart)
          \/ Info(r) \/ Stop(r) \/ Start(r) \/ CutShort(r)

AutoNext == (LoopNext /\ UNCHANGED <<service, serviceVars>>) \/ ServiceNext

AutoSpec == AutoInit /\ [][AutoNext]_autoVars

-----------------------------------------------------------------------------
(* Properties                                                              *)

\* The rules in M that set n, of which the last one counts.
Setting(M, n) == {i \in M : n \in DOMAIN config.rules[i].commands}
LastOf(I) == CHOOSE i \in I : \A j \in I : j <= i

MatchedRules == {matched[k] : k \in DOMAIN matched}
DefaultCounts(n) ==
    n \in DOMAIN config.defaults /\ (config.always \/ matched = <<>>)

\* What a setting is to be when an iteration is done.
Outcome(n) ==
    IF Setting(MatchedRules, n) # {}
    THEN {config.rules[LastOf(Setting(MatchedRules, n))].commands[n]}
    ELSE IF DefaultCounts(n) THEN {config.defaults[n]} ELSE Values \cup {Unset}

\* When an iteration is done every setting that no command failed for, and that
\* nobody else has set, is as the last rule that held and that sets it wants it,
\* or else as the defaults do, whatever the order the commands were sent in.
\* That is not so when both always_apply_defaults and can_invoke_multiple_rules
\* are on (auto_settings.py:216-257).
RulesWin ==
    at = "sleep" /\ ~(config.always /\ config.multiple)
        => \A n \in Names \ touched : effect[n] \in Outcome(n)

\* Once all requests are done, the process runs the configuration that was saved
\* last, whatever requests at once, crashes, stops and starts came between,
\* provided that since it read its configuration none of them (1) asked for no
\* restart, (2) was cut short, or (3) asked for the state of the process within
\* startsecs, when it is not restarted, though it had read the old
\* configuration already (auto_settings.py:92): the code does not exclude
\* these, and with any of them an old configuration may stay.
EditIsRun ==
    /\ config # NoConfig /\ ~skipped
    /\ \A r \in Requests : request[r] = "none"
    => config = stored

\* Requests that restart the service at once do not leave it off, nor do its
\* crashes: it is off only after an administrator has stopped it, after
\* supervisor gave it up, or after a request was cut short between its
\* stopProcess and its startProcess, and then until somebody starts it; or for
\* as long as a request takes to start it again.  An error or a kill between the
\* two calls does leave it off (api/auto_settings.py:93-94): leftOff says so.
OffIsWanted ==
    service = "stopped" /\ ~wantedOff /\ ~leftOff => \E r \in Requests : request[r] = "start"

(* What is hoped, and the code does not do.                                *)

\* RulesWin, whatever the configuration: a second rule that holds sends the
\* saved defaults again, over what the first has set, though they are saved
\* to be sent once in an iteration (auto_settings.py:216-217).
RulesAlwaysWin ==
    at = "sleep" => \A n \in Names \ touched : effect[n] \in Outcome(n)

\* A service that an administrator has stopped stays so until one starts it: a
\* request that restarts it does not see that.
StopStays ==
    [][\A r \in Requests : Start(r) /\ service = "stopped" => ~wantedOff]_autoVars
=============================================================================
