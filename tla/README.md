# A verification development of hll_rcon_tool

CRCON drives a Hell Let Loose game server through its RCON port: it follows the
log of the game, reacts to it with hooks, moderates players by rules, runs the
vote for the next map, keeps statistics and offers all of it in a web
interface. This directory holds TLA+ models of its core, the TLC configurations
that check them on small instances, and proofs that the TLA+ proof system
checks for all instances.

1. [The system](#1-the-system)
2. [The modules](#2-the-modules)
3. [The runs](#3-the-runs)
4. [What the code does not do](#4-what-the-code-does-not-do)
5. [The proofs](#5-the-proofs)
6. [Limits](#6-limits)
7. [Plan](#7-plan)

## 1. The system

`config/supervisord.conf` starts one process per service, all over the same
Redis and Postgres and the same game server; Django (`rconweb`) adds the web
server's workers. Nothing coordinates these processes but Redis keys, single
Redis commands and database transactions.

| component | source | state | operations | talks to |
|---|---|---|---|---|
| connection pool | `rcon/commands.py` `ServerCtl` | `mu`, `idles`, `numOpen` in each process | `with_connection`, `_auto_retry` | threads of the process, the game server |
| command exchange | `rcon/commands.py`, `rcon/connection.py` | one socket, XOR key | `_str_request`, `_read_list` | the pool |
| Rcon facade, cache | `rcon/rcon.py`, `rcon/cache_utils.py` | cached results in Redis | `RedisCached.__call__`, `clear_all`, `invalidates` | everybody |
| map rotation | `rcon/rcon.py`, `rcon/vote_map.py` | rotation on the game server, its cached copy | `set_maprotation`, `do_add_map(s)_to_rotation`, `do_remove_map(s)_from_rotation`, `apply_results` | hooks, web, automatic settings |
| vote map | `rcon/vote_map.py` | `VOTES`, `MAP_SELECTION`, whitelist, last reminder | `handle_vote_command`, `gen_selection`, `apply_results`, `apply_with_retry`, reminders | hooks, routines, web |
| automods | `rcon/automods` | one watch per moderator, team and squad in Redis with a time to live | `punish_squads`, `punitions_to_apply`, `_do_punitions`, `player_punish_failed`, hooks | its own process, the log loop |
| log loop | `rcon/game_logs.py` `LogLoop` | `unique_logs`, `log_history` | `run`, `record_line`, `cleanup`, `process_hooks` | hooks, recorder, web |
| log recorder | `LogRecorder` | table `log_lines` | `_get_new_logs`, `_save_logs` | the history of the log loop |
| log stream | `LogStream`, `rconweb/api/log_stream.py` | Redis stream, a cursor per client | `run`, `logs_since`, `receive_json` | websocket clients |
| match history | `rcon/utils.py` `MapsHistory`, `rcon/workers.py` | list of matches with player statistics, tables `map_history`, `player_stats` | `save_new_map`, `save_map_end`, `record_player_stats`, `record_stats`, `process_games` | hooks, log loop, rq workers |
| hooks on players | `rcon/hooks.py`, `rcon/watchlist.py`, `rcon/auto_kick.py` | `pendingTimers`, VIP slots | bans, name checks, real VIPs, camera, watchlist | the log loop |
| player history | `rcon/player_history.py` | players, sessions, flags, blacklist | `save_player`, `save_start_player_session`, `save_end_player_session` | hooks, web |
| workers | `rcon/workers.py` | delayed rq jobs | `temporary_broadcast`, `temporary_welcome`, bulk VIPs | rq |
| expiring VIPs | `rcon/expiring_vips` | VIP list, table `player_vip` | `remove_expired_vips` | its own process, web |
| automatic settings | `rcon/auto_settings.py`, `rconweb/api/auto_settings.py`, `rconweb/api/services.py` | rules and defaults in a row, the configuration its process has read, the process under supervisor | `run`, `do_run_commands`, `set_auto_settings`, `do_service` | its own process, web |
| routines, broadcasts | `rcon/routines.py`, `rcon/broadcast.py` | votekick switch, broadcast texts | `toggle_votekick`, `run` | their own processes |
| teamkill ban | `rcon/game_logs.py` | none | `auto_ban_if_tks_right_after_connection` | the log history |
| map suggestions | `rcon/vote_map.py`, `rcon/maps.py` | none | `suggest_next_maps`, filters, sorting | the vote map |
| web API | `rconweb/api` | Django sessions, permissions | views | everything |
| settings | `rcon/user_config`, `rconweb/api/user_settings.py` | a row of `user_config` per class | get, describe, validate and set of 30 families of endpoints, seeding | audit, everything that reads settings |
| reports and the rest | scorebot, `server_stats`, Discord, Steam, GTX | database, webhooks | formatting and I/O | |

What is hard here:

* **Threads** of one process share the pool; its length tests are outside the lock.
* **Processes** share Redis without transactions: read-modify-write of votes,
  whitelist, watches, cached values.
* **Restarts**: supervisord starts a failed service again. What was saved
  before it was done (a punish, a line in `unique_logs`) counts as done.
* **Lost answers**: `_auto_retry` sends a command again, whatever it was.
* **Overlapping windows**: the log can only be asked for "the last n minutes",
  in whole seconds, so every reader must tell what is new.
* **Half-done work**: one RCON command per map, per player, per VIP; any can fail.

What makes each part right: the pool never shares a connection, never counts
wrongly, never exceeds its limit and never makes a thread wait for ever; the
log loop runs each hook once and in order; the recorder stores each line once;
the stream gives each client each line once; no moderator kicks a player who
has not been through the ladder; a punish that failed is taken back and nothing
else; the rotation becomes what was asked for; votes are for what is on the
ballot and the winner comes next; a match has one entry, one game in the
database and only its own scores; a VIP is one for as long as it was given; who
is blacklisted is banned and who is unbanned is not; a setting is what was last
stored, and what a request tells of a change is what it changed; a temporary
message ends; the automatic settings leave what their rules say and run the
configuration that was saved. `PROJECT.json` lists the hazards
at their lines.

## 2. The modules

### ConnPool, ConnLease

`ConnPool` is `ServerCtl.with_connection` and `_auto_retry` line by line between
the points where another thread can come in. `pc[t]` is where a thread is:
`acquire` (line 115), `full` (with the lock, 125), `poll` (the one-second waits
of 132), `take` (pop at 147-151), `connect` (with the lock, 153), `use` (the
body of the with statement), `discard` and `append` (the two ways back). `Ends`
has the six ways in which a command can end, `Leave` what `_auto_retry` makes
of them. `Take` pops from a list that another thread may have emptied: an
IndexError with the lock held, after which `mu = Leaked`.

`ConnLease` is what the pool promises: connections are free, lent to exactly
one thread, or do not exist, and never more than `MaxOpen` exist.
`ConnPool!LeaseSpec` states the refinement (`free <- idles`, `lent` from `pc`
and `conn`).

### Automod, MCAutomod

The automod process with its four moderators over Redis watches. A round is
`StartRound` (the team view), `Judge` for each pair of a moderator and a squad
(the notes, warnings, punishes and kicks it decides, written to Redis at once),
`Clear` and `PassOver` where the squad needs nothing, `StartDelivery`, then one
step per delivered command (`Warn`, `PunishLands`, `PunishFails`, `Kick`),
`EndRound`; `Abort` is an uncaught exception or a restart anywhere. `Rung` and
the four `should_..._player` operators are the ladder common to all moderators;
`Noted` and `Passes` keep where they differ (`seeding_rules` has no notes,
`solo_tank` and `level_thresholds` have their own conditions).

Each record entry carries its age and, as history, its *fate*: no guard reads
the fate, so it can be trusted as an account of what became of each step. Time
stands in thirds of the 120 seconds after which a watch expires. Ages stop at
`Cap`, which is at least every interval, so nothing is told apart beyond it.
Which pair is judged first does not matter to any verdict, so the pairs are
taken in any order. `skip_warning` of `enforce_cap_fight` appends exactly the
configured number of old warnings. A dry run and the two hooks in the log loop
(they touch keys without a team or squad only) are left out.

### GameLog, LogLoop, LogRecorder, LogStream

`GameLog` is the game server's log: a line is its position and the second in
which it was written; "the last w minutes" show the lines of the window.
`LogLoop` extends it with `LogLoop.run`: `Start` (sweep of `unique_logs`, the
three-hour window), `Fetch`, then for each line `CheckGuard` (sadd), `Record`
(the comparison of seconds, lpush and ltrim), `RunHook` for each hook,
`EndBatch` with or without the sweep. `Crash` strikes between any two steps and
leaves Redis as it was. `LogRecorder` extends `LogLoop` by the process that
reads its history every five minutes and stores the newer lines, newest first,
one commit each. `LogStream` composes `GameLog` with the stream process
(entries with computed IDs, a stream emptied at each start and trimmed) and a
websocket client that is disconnected at any time and comes back with the last
ID it received.

### MapRotation, MCMapRotation

The rotation of the game server, the cached copy in Redis and the operations
that change them. An operation is the sequence of commands it will send
(`Program`, `SetRotation`, `AddMaps`, `ApplyResults`): cache clears, reads
through the cache (`Ask`, `Read`, `Store`: three separate steps as in
`RedisCached.__call__`), `rotadd` and `rotdel`. What a read returns decides the
rest (`Plan`). Each command can be refused, carried out with its answer lost
(then either the operation fails, or the command is carried out a second time,
which `twice` remembers), and the second clear of `invalidates` is skipped when
the body raised, as in the code. `Lapse` is the time to live of the cache. An
initial state of `MCMapRotation!Instances` has one process with every operation
or two that apply results.

### VoteMap

Votes and selection in Redis, one step per command. The hooks of the log loop
are one process (`count_vote`, match start, match end, opt-out), each request
that resets the vote is one more. `Begin` chooses the job; `ReadSelection` and
`CastVote` are `register_vote`; `ClearVotes`, `Generate`, `DropSelection`,
`PushSelection` a new selection; `Tally`, `PickDefault`, `Rotate`, `ApplyFails`
the result with its one retry. Changing the rotation is a single step here,
`MapRotation` has its commands. What the map filters leave is any set of at
most `Options` maps that is not empty, because `RestrictiveFilterError` is
raised otherwise.

### MatchHistory, MCMatchHistory

The list `maps_history` from the log lines of match starts and ends to the
tables of the database. `HandleStart` is `handle_new_match_start`: the entry
before is closed if nothing closed it (`CloseOpen`, 100 s before the start), the
new one gets the server's map name or the one of the log (`NameOf`, which
decides whether it is a guess), and the entry before the newest is queued in the
handler's `finally`. `StartRaises` and `CrashInStart` are its exceptions and the
end of the process. `save_map_end` takes the newest entry out of the list and
puts it back changed; `CrashInStart` and `CrashInEnd` can fall between the
`lpop` and the `lpush`, and the entry is gone (the ghost `lost`). `FetchPlayers`
and `record_player_stats` are the two halves of what the log loop does after its
lines, so that a match can start between them. `RecordStats` is the worker's
job, `process_games` the command that reprocesses. The game server
(`StartMatch`, `EndMatch`, `Zero`, `Point`, `Reconnect`) is external: it goes on
telling the scores of the last match for up to 30 s, and players may start again
from zero. A line may be handled at any time after it was written, with one
assumption on time that the code does not enforce: the hooks of the lines the
loop has read take no longer than a period before it fetches the players (the
guard of `FetchPlayers`). The ghost `best` says what a player really scored in
each match.

### Vips, MCVips

The VIPs of a game server, the table `player_vip` and the cached list of
`get_vip_ids`. A process has calls to make (`add`, `remove`, `list`, then
`replace` or `reconcile`), each in the steps of the code: clear the cache, send
the command and clear again, write the row; ask Redis, read the game server,
read the rows and store. `remove_expired_vips` is a round of the service,
`bulk_vip` an uploaded file, `do_remove_all_vips` the removal of all.
`Fails` is an exception anywhere, after which the service's round and a request
end and the job of an upload goes on with its next VIP.

### PlayerHooks, MCPlayerHooks

One player who connects to two servers over one database. The log loop of each
server runs the hooks of hooks.py for the lines `Connected(v)` and
`Disconnected(v)` in their order: `save_start_player_session`,
`ban_if_blacklisted`, `ban_if_has_vac_bans`, `windows_store_player_check`,
`notify_invalid_names`; `save_end_player_session`, `cleanup_pending_timers`.
`Fire` starts the threads of the timers. Requests of the web server `unban`,
`unblacklist_player`, blacklist, and ban; the first two are forwarded to the
other server (`Everywhere`). A call has a `scope`, so that an exception ends
what the handler around it does: hooks are caught one by one, bans by hooks in
their own try, do_unban's commands one by one. Whether a ban by name reaches
the player depends on whether he is still there. A name that starts with a digit
is looked up, and then the ban is sent by number (`SentBy`), whether he is there
or not. The settings, what the
administrator may do and how often the player comes are a configuration chosen
in the initial state.

### UserConfig, UserSettings

`UserConfig` holds the classes of `rcon/user_config` as `save_to_db` treats a
payload (does it refuse unknown keys, is there a dictionary with free keys, does
it take what it gives), the 30 families of endpoints of the API with what
`record_audit` wraps, and the operators of the row: `set_user_config`,
`SetDefault`, `load_from_db`, `dict_differences`. `UserSettings` runs requests
on one family, chosen in the initial state: `Validate` and `SetConfig`,
`LoadOld`, `SaveConfig` or `Refuse`, `TellDifferences`, `RecordAudit`, with
`SeedDb` beside them.
`blind` is a SELECT that the database did not answer, or that saw the row of
another transaction not yet; `LoadRaises` and `TellRaises` are loads whose error
is not swallowed. A commit may be carried out or not, and either may be answered
as failed or, because `enter_session` swallows some errors, as ok. The message
of a change is what `send_to_discord_audit` writes to the log; it sends it on
only if webhooks are set, and swallows errors of that, so the model does not say
that anybody on Discord sees it. The history variables are `due`, what the
change of a request's own transaction is to be told as, and `disturbed`, the
requests one of whose loads failed or met the change of another one.

### AutoSettings, Messages, MapShuffle, MCServerSettings

Three parts that set settings of the game server, each a system of its own;
`MCServerSettings` extends all of them and lets one move, chosen in the initial
state, so that one run checks them.

`AutoSettings` is the service with its process and its requests. `Load` reads
the configuration, `Begin` starts an iteration, `RuleHolds` and `RuleFails`
look at a rule, `NoRuleLeft` and `DefaultsDone` end the rules, `Run` and
`RunFails` are one command of `do_run_commands`; commands of one dictionary
have different names, so their order is left open. Whether the conditions of a
rule hold is arbitrary; one that has none that can be created always holds.
`SetByOthers` is everybody else who sets such a setting, as `toggle_votekick`.
`Exit`, `Up`, `GiveUp`, `StartService`, `StopService` are supervisor and
`do_service`, `Save`, `Info`, `Stop`, `Start` the four calls of
`set_auto_settings`. `CutShort` ends them anywhere, by a kill or an exception, with
the call that was under way carried out or not. Supervisor calls the process
running one second after its start, whether or not it has read its configuration
by then: `Load` and `Up` come in either order. `wantedOff` and `leftOff` tell an
administrator's stop from what an error between `stopProcess` and `startProcess`
leaves.

`Messages` is the broadcast or the welcome message. A thread's call is `Set` or
`SetTemporary` (Redis: SET with GET, or GET), `Send` (the game server),
`Enqueue` (the job that restores); `RunJob` is the worker's. Redis, the game
server and the queue fail in `Swap`, `SendFails`, `EnqueueFails`; `Expire` is
the time to live.

`MapShuffle` is `set_map_shuffle_enabled`: `Clear`, `Ask`, `Read`, `Store`
through the cache, `Toggle` if the answer is not what is wanted, `Clear` again.

The names of modules with the suffix `Proofs` hold theorems; `MC` modules hold
the constants of small instances. Operators whose comment says "A variant"
are wrong versions of the operator that follows: with them in its place a
property fails, which shows that it depends on that code.

## 3. The runs

Every run finishes. The run that ends with a counterexample is in section 4.

| run | configuration, module | instance | what it shows |
|---|---|---|---|
| `conn_pool` | `ConnPool.cfg`, `ConnPool` | 3 threads, pool of 2, 3 connection names | `CountIsExact`; nothing is acquired after the lock was lost (`NoConnectionAfterLeak`); the refinement of `ConnLease`; every acquisition ends in a connection or an exception |
| `automod_safety` | `AutomodSafety.cfg`, `MCAutomod` | 2 moderators, one that clears watches and one that skips warnings, 1 player, 2 punishments before kicks | `KickIsEarned` with merged punishes and refunds by the other moderator, `RefundIsExact` |
| `log_safety` | `LogSafety.cfg`, `LogRecorder` | 3 lines, clock to 3, windows 2 and 1, sweep at 2, 2 hooks, history of 2, the recorder | `HooksRunOnceInOrder`, `HistoryInOrder`, `NothingMissed`; `NeverInsertedTwice`, `OnlySplitSecondsAreLost` |
| `log_stream_safety` | `LogStreamSafety.cfg`, `LogStream` | 4 lines, clock to 3, stream of 2 | `ReceivedOnceInOrder`, `NoneMissed` |
| `map_rotation` | `MapRotationInstances.cfg`, `MCMapRotation` | 1 process, every operation, rotations of up to 4 of 2 maps; or 2 that apply results to up to 2 maps; repeated commands | `SetTakesEffect`, `NeverEmptied`, `ApplyTakesEffect` |
| `vote_map_safety` | `VoteMapSafety.cfg`, `VoteMap` | 3 players, 3 maps, 2 options, 1 request beside the hooks | `VotesAreForTheSelection`, `WinnerIsNext`, `SelectionStays` |
| `match_history` | `MatchHistory.cfg`, `MCMatchHistory` | 3 matches on 2 of 3 maps, 1 player, clock to 2, a list of 2, 1 fault | `HistoryInOrder`, `NotGuessedWasPlayed`, `GameStoredOnce`, `NoForeignScore`, `RecordedScoresStay` |
| `vips` | `Vips.cfg`, `MCVips` | 2 players, 1 request beside the service and the log loop, 1 fault, clock to 1 | `VipLastsAsGiven`, `RowGoneVipGone`, `BulkLeavesTheList` |
| `player_hooks` | `PlayerHooks.cfg`, `MCPlayerHooks` | 2 servers, up to 2 visits, 14 configurations, 1 fault | `SessionIsVisit`, `BlacklistIsEnforced`, `KickIsPardoned`, `UnbanMeansUnbanned` |
| `server_settings` | `ServerSettings.cfg`, `MCServerSettings` | every configuration of defaults and up to two rules for 2 settings; 2 requests that edit two configurations; 2 threads, 2 lasting texts and a temporary one, 2 jobs; 2 processes that set map shuffle | `RulesWin`, `EditIsRun`, `OffIsWanted`; `TemporaryEnds`, `ShownIsSaved`; `ShuffleAsWanted` |
| `user_settings` | `UserSettings.cfg`, `UserSettings` | 2 requests on each of the 30 families, 1 free key | `ChangeIsTold`, `OutageNeverResets` |

Type invariants are not among the properties of the runs: those of the pool,
the rotation, the automods, the log loop, the log stream, the vote map, the match
history, the VIPs, the hooks on players, the settings, the automatic settings and
map shuffle are theorems, that of the messages is part of `MessageInv`, which is
one.

Why the bounds suffice. *Pool*: three threads are the least with which one
returns a connection, one sees it and a third takes it; a waiting thread is
bounded by `MaxPolls` instead of 30 rounds, and one round reaches every
transition. *Automod*: two punishes are the least with which "the last one" and
"all of them" differ; two moderators share a player, whose punishes are merged.
The model never compares two players of a squad, so one stands for all (the
proofs are about any number). *Log*: the clock passes both windows and the sweep;
three lines can be before, in and behind a window, and two of them share a
second. *Rotation*: two maps in up to four places have every pattern of
repetition that a count of occurrences can get wrong. *Vote*: three players are
the least with which a map that was voted for is not a winner. *Match history*:
an entry is queued when it is the second, so three matches are the least with
which an entry is lost, queued twice or pushed out of the list; of the maps two
differ only by what the log does not tell, and one is not known to it; the
clock passes the guess of an end, the age of news and the wait of a job.
*VIPs*: players meet in nothing but the list, so two are enough to tell a list
from its members; a request that gives VIP until 0 meets a service that runs at
1. *Hooks*: two visits are the least with which an end can close the wrong
session, two servers with which one is told and the other not. A configuration
has the settings for one or two of the hooks, because hooks meet only in the
bans they make. *Settings*: two requests that interleave with the seeding show
every pair of conflicting accesses; one free key is there or not. *Settings of
the game server*: two rules are the least with which one comes over another,
two settings with which a command starts with `set_` or not; two jobs are the
least that can end in the wrong order. The requests that edit meet the service
with configurations that do nothing, because what they change is which one is
read.

Symmetry is used for the requests of `user_settings`, the processes and maps of
`map_rotation`, the threads, lasting texts and values of rules of
`server_settings`, which are treated alike there, and never where liveness is
checked.

Deadlock is checked in the runs of the pool, the automods, the log, the rotation,
the vote and the settings of the game server, which never stop. The other four do
stop: when the player has made his visits, the matches are played, the requests
are answered, the clock is at its end; `CHECK_DEADLOCK FALSE` says so in their
configurations.

Fairness. Only `AcquisitionEnds` needs it: weak fairness of each thread's steps,
which is the operating system's scheduler plus the 20-second timeout of the
socket and the time limits of the two waits. No fairness makes a thread call,
and none is assumed of the lock: a thread that never gets it times out. Every
other property of a run is a safety property and checked without fairness.
`Vips!FairSpec` (the service is run again and again by supervisord) is for
`ExpiredIsTakenAway`: a VIP who has expired is taken away or given again. It
holds, and takes longer than the other runs; see section 4.

Counters and clocks are cut off by guards: `MaxTime`, `MaxLines` (`GameLog`),
`MaxPolls` (`ConnPool`), `Cap` (`Automod`), `MaxLen`, `MaxMaps` (`MapRotation`),
`MaxMatches`, `MaxClock`, `MaxScore`, `MaxFaults` (`MatchHistory`), `MaxTime`,
`MaxFaults` (`Vips`), `MaxVisits`, `MaxFaults` (`PlayerHooks`), `MaxJobs`
(`Messages`).

## 4. What the code does not do

Each of these configurations checks one statement of the documentation, the log
or a comment, and TLC ends with a counterexample. The first is a run of
`PROJECT.json` with its finding; the others are kept to be repeated with
`tlc -config <configuration> <module>`.

| configuration, module | says | does |
|---|---|---|
| `ConnPoolLeak.cfg`, `ConnPool` (run `conn_pool_leak`) | "connection appeared in pool" (`commands.py:150`) | another thread can take it first: IndexError with the lock held for ever |
| `AutomodRefund.cfg`, `MCAutomod` | Z punishes before kicks (`autoMods.js:260`) | a failed punish removes another moderator's delivered one |
| `LogRecorderSplit.cfg`, `LogRecorder` | "saves log lines to the database" (`README.md:718`) | a second line of the newest stored second is never stored |
| `MapRotationChecked.cfg`, `MCMapRotation` | "Check that it worked" (`vote_map.py:808`) | the check reads the cache, which an operation that failed has left stale |
| `ConnPoolIdleLimit.cfg`, `ConnPool` | the maximum number of idle connections CRCON keeps (`miscellaneous.js:81`) | the length is tested without the lock, two threads returning at once exceed it |
| `ConnPoolWaitsWithRoom.cfg`, `ConnPool` | "The pool will establish a new connection when needed" (`commands.py:168`) | a waiting thread looks at the idle list only and times out beside free room |
| `AutomodDeserved.cfg`, `MCAutomod` | Z punishes before kicks | punishes that an aborted round never delivered count |
| `AutomodRetry.cfg`, `MCAutomod` | "Will retry." (`automod.py:110`) | a failed warning counts as given |
| `LogLoopLostHooks.cfg`, `LogLoop` | the service "Runs hooks" (`README.md:725`) | a crash between sadd and the hooks loses them |
| `LogRecorderRestart.cfg`, `LogRecorder` | "saves log lines to the database" | newest first with a commit each: after a crash the older ones are never stored |
| `MapRotationRetried.cfg`, `MCMapRotation` | "Now we can remove the first from the previous rotation" (`rcon.py:1304`) | sent twice, the command removes a map of the new rotation |
| `VoteMapBallot.cfg`, `VoteMap` | "is not part of vote selection" is an error (`vote_map.py:789`) | a reset between reading the selection and storing the vote brings it about |
| `VipsReconcile.cfg`, `MCVips` | "Look for anyone with VIP but without a record and create one for them" (`service.py:55`) | `do_add_vip` clears the cache before it writes the row: the list says no row, and the one just written is replaced by one for ever |
| `PlayerHooksPardon.cfg`, `MCPlayerHooks` | "this should never fire and remove a temp ban from any other reason" (`hooks.py:690`) | the pardon takes the first temporary ban of the player, which may be an administrator's |
| `PlayerHooksCancel.cfg`, `MCPlayerHooks` | "Only messaging the player should be cancelled if they disconnect early" (`hooks.py:705`) | the timer of a temporary ban is cancelled too |
| `AutoSettingsBoth.cfg`, `MCServerSettings` | "prevent them from being sent more than once in the same iteration" (`auto_settings.py:217`) | with `can_invoke_multiple_rules` each rule that holds sends the saved defaults, the second one over what the first has set |

Met on the way, with no statement to hold against it:

* `do_add_maps_to_rotation` (`rcon.py:1260-1269`) counts only the last of the
  maps already there, so adding B and C to the rotation B, A gives B, C, A, B.
  `NewMapsGoToTheEnd` of `MapRotation` is therefore stated for maps the rotation
  does not have; it is proved (section 5) and belongs to no run, like
  `SelectionHasItsSize` of `VoteMap` and the further invariants of the pool.
* `reset_to_default` is stored by the validate endpoints too
  (`user_settings.py:87-91`), which neither record nor tell it.
* `dict_differences` raises when a key of a dictionary is gone
  (`utils.py:386-392`): the change is stored, the answer is an error 500.
* The answer of a set does not tell what is stored. `enter_session` swallows
  ProgrammingError and InvalidRequestError (`models.py:759`), so it can be ok with
  nothing stored; a commit whose reply is lost is answered as failed
  (`user_settings.py:134`) though it was stored. The message is right in both.
* A set of which a load raises after it saved leaves no message, and in the
  eight families without `record_audit` no trace at all. Without audit webhooks,
  which is the default, the message goes no further than the log
  (`discord.py:98`), and an error of sending it is swallowed (`discord.py:115`).
* A blacklisted player whose name starts with a digit is banned by number
  (`rcon.py:1200`), which does not make him leave: he may stay for his visit.
* A row of VIP that could not be written leaves a VIP whom the service makes one
  for ever; an extension that falls between the service's query and its command
  is lost; `bulk_vip` answers "ALL OK" although commands raised
  (`workers.py:289-321`).
* A hook that has read the blacklist bans after an unblacklisting, and may put
  the player on the list again. A pardon that overtakes a slow notification, or
  a restart, leaves the ban for its hour.
* The job that ends a temporary text puts back the one saved when it was set, and
  so undoes a text that was saved meanwhile (`JobsUndoNoText` of `Messages`). Two
  lasting texts set at once can leave one in Redis and the other on the server.
* Two processes that want the same map shuffle can undo each other
  (`SameWishIsGranted` of `MapShuffle`), and a toggle that is repeated undoes
  itself (`RetryIsHarmless`).
* A service that an administrator stops while a request restarts it is started
  again (`StopStays` of `AutoSettings`). A request that asks for the state of the
  process within its first second sees STARTING and does not restart it
  (`auto_settings.py:92` of the API); if it had read its configuration by then,
  the edit is missed. `EditIsRun` excludes that. An error between `stopProcess` and
  `startProcess` (line 93) leaves the service off until somebody starts it; the
  threads of the web server share one `ServerProxy` (`services.py:15-27`) and can
  break each other's calls. `OffIsWanted` says so with `leftOff`.
* `temp_welcome_standalone` passes its seconds to timedelta as days
  (`workers.py:55`); nothing calls it.
* The end of the process between the `lpop` and the `lpush` of `save_map_end`
  (`utils.py:295`) loses the newest entry. The one before it, which is stored
  already, is then the newest again; another end line gives it another end, and
  it is stored a second time as another game. It takes a fourth match or a late
  line to see it, more than the run has: the attempt to prove `GameStoredOnce`
  showed it, and the property is stated for matches that have no lost one after
  them.
* `save_map_end` on an empty list makes an entry without a start, on which
  `record_player_stats` raises until the next match starts.

## 5. The proofs

All theorems hold for every value of the constants that satisfies the named
assumptions of the modules: the pool's `ThreadsAssumption`, `LimitsAssumption`
and `NamesAssumption`; the automods' `ModsAssumption`, `ConfigAssumption`,
`NoSquadAssumption` and `TimeAssumption`; the log's `WindowsAssumption` and
`LengthsAssumption`, the stream's `StreamAssumption` and `NoIdAssumption`;
`VoteAssumption`, `HistoryAssumption`, `VipsAssumption`, `AutoAssumption`,
`MessagesAssumption`, `ShuffleAssumption` and `RotationAssumption`. They say
that numbers are numbers, that sets are finite where the code has lists of them,
and how the constants of the code relate (`Window <= FirstWindow <= Keep`). TLC
evaluates them in every run.

**RconProofs.** The connections of `Rcon`, and the operations that its commands
make up. They share no variable.

* The pool: `TypeCorrect`, `ConnectionsAreExclusive`, `NumOpenIsExact`,
  `MaxOpenIsRespected`, `LockIsExclusive`, `IdleListIsBounded`,
  `PoolImplementsLease` and `NothingAfterLeak`. "At most `MaxOpen` connections"
  is not inductive: the test of `numOpen` and its increment are separated by a
  connect. `IInv` adds that a connecting thread has the lock
  (`LockMatchesHolder`) and that there is still room for it (`RoomToConnect`),
  and identifies `numOpen` with the size of the set of idle and lent connections
  (`CountIsExact`, which needs `Exclusive`). Every step moves the pool in one of
  five ways; each has a lemma about sets and their cardinality. The refinement
  uses the same lemmas step by step. That nobody gets a connection once the lock
  is lost follows from `LockMatchesHolder`: whoever takes one holds the lock.
* The rotation: `RotationTypeCorrect`, `NeverWithoutMap`, `RotationIsSet`,
  `ResultIsApplied`, `NewMapsAreLast`. An operation is a program, so the
  invariant (`MapInv`) says what the rest of it leads to. As long as nobody else
  acts, what a process reads is the rotation if its cache was cleared or not
  stale (`KnowsInv`); then the plan it makes is right for the rotation there is.
  `Leads` follows the length of the rotation through a program, command by
  command, and never meets zero (`CourseInv`). `Runs` follows its content: each
  command makes of one rotation exactly the next one, up to the one that was
  asked for (`GoalInv`); that additions name the last place, with its number
  among equal maps, is a count of occurrences (`LastPlace`, `RunsAdds`). A
  program of `apply_results` is `Neat`: between a change and the next read there
  is a clear, so what is compared at the end is the rotation (`ApplyInv`), even
  if commands were carried out twice. All of it holds for any number of
  processes and maps, and for rotations and calls of any length.

**AutomodProofs.** `TypeCorrect`, `KicksAreEarned`, `RefundsAreExact`. A kick is
judged by what is on record when it is decided. `Accounted` says where every
punish on record comes from: it was received, or it is the last one of a player
whose punish is still to be delivered in this round by a moderator that has
judged his squad already, or a round was cut short. With it, a kick that is
decided while no round was ever aborted rests on received punishes alone. For a sole
moderator `SoleAsker` adds that a player on the list of punishes is there on
its behalf, so the refund meets the pending punish or an empty record.

**LogProofs.** Of the loop `TypeCorrect`, `HooksAreNotRepeated`,
`HistoryIsOrdered`, `NoLineIsMissed`. `unique_logs` forgets, so "not in
`unique_logs`" means "new" only within a window. `Forgotten` says that what was
handled and forgotten can not be fetched again (this needs `FirstWindow <=
Keep`); `Closed` and `BatchIsLater` that a line never looked at is older than
every remembered line after it, so the comparison of seconds in `record_line`
keeps the order. Of the recorder `RecorderKeepsLoop`, `RecorderInvariant`,
`LinesAreInsertedOnce`, `OnlySplitSecondsLost`. The first is a refinement: the
loop with the recorder beside it implements the loop alone, so that all the
loop's theorems hold for both. `_get_new_logs` walks the history and keeps what
is newer than the last line it kept; that the walk (`Kept`, a recursive function)
is defined, and what it keeps, is shown by a smallest counterexample
(`KeptIsDefined`, `KeptFacts`). `NothingPassedOver` then says that a line of the
history that is neither stored nor in hand shares its second with a stored one,
or a crash cut a round short.

**LogStreamProofs.** `StreamTypeCorrect`, `LinesAreReceivedInOrder`,
`NoLineIsSkipped`. The ID of an entry is computed from one fetch, but a fetch has
a second either as a whole or not at all: every fetch gives a line the same ID
(`IndexInFetch`), and IDs are ordered as lines are (`IdOrder`). `OrderInv` says
that stream and client hold ascending lines; `CompleteInv` what each may lack:
the batch continues the stream, the stream reaches back to the client, and
between two fetches the stream has every line older than the last.

**HooksProofs.** Two systems that the hooks of the log loop drive, without a
common variable.

* The vote: `VoteTypeCorrect`, `VotesFitSelection`, `WinnerIsApplied`,
  `SelectionIsBounded`, `SelectionIsKept`. Until a request falls into a hook or
  another request, one process at most is at work (`Alone`); so what it has read
  is still so (`ReadIsCurrent`), the votes it has cleared are (`VotesAreCleared`),
  the selection it made is a good one (`MadeIsGood`) and the map it picked wins
  (`PickedIsWinner`). Crashes and failures anywhere are part of it.
* The hooks on players: `HooksInvariant`, `HooksTypeCorrect`,
  `SessionsAreVisits`, `BlacklistEnforced`, `KicksArePardoned`, `UnbansUnban`. No
  property is inductive, because what a process does next depends on the calls
  it has before it. `CallOK` says which these can be and with which scope; a call
  for the other server is in a scope within the one of the calls for this one,
  so its exception takes none of them away. On top of it: who is due for a ban
  has the line of the visit or a ban before him, by name and sent by name unless
  the name starts with a digit (`EnforceInv`); the
  pardon stays behind its notification among the timers, so it is still to come
  when the ban is carried out (`PardonInv`); and what an unban has yet to remove
  is all that is left on the server (`UnbanInv`, `WillRemove`), because as long
  as nobody else bans a cached list may have too many bans but lacks none
  (`ListsInv`). The invariant was first checked by TLC in the run of
  `player_hooks`. Looking for it showed that a removal the game server refuses
  does not end `do_unban` (`CommandFailedError` is caught ban by ban,
  `rcon.py:556`), as an earlier `SendRemoval` had it; `NotRemoved` is what the
  code does.

**MatchHistoryProofs.** `HistoryInvariant`, `HistoryTypeCorrect`,
`HistoryIsInOrder`, `CertainNamesArePlayed`, `GamesAreStoredOnce`, `ScoresAreOwn`,
`RecordedScoresAreKept`. The invariant ties four orders together: the matches by
their starts, the lines that are left by their matches (`LineInv`), the entries
of the list by both (`EntryInv`, `InOrder`), and what is stored or queued for
storing, which is behind all of them (`SettledInv`). An entry that is not the
newest does not change any more, as long as no later one is lost; that is why a
game queued twice is stored once. For the scores `Backed` says of every number
that is credited to a match whose it is: a player reached it in this match or in
one after it that has no entry of its own and so is played under this one's.
Every step leaves list and tables alone (`Grows`), changes the list in one of
four ways, or fills the tables; there is a lemma for each of these.

**VipsProofs.** `VipsInvariant`, `VipsTypeCorrect`, `VipLasts`, `RowGone`,
`BulkLeaves`. That a VIP lasts needs that no call is left to anybody that would
take him away (`LastInv`). A call that does is made by the service, from rows
that say less than was given, which they never do; or it is in a job, whose adds
come after all its removes and are of different players (`AddsLast`). What a job
leaves behind (`BulkInv`) is what it has done together with what it has yet to do:
of each player there is an add left, or a remove that is wanted, or he is as the
upload says (`Left`). This holds in every order of `SetToSeq`, of which it is
only used that it enumerates the set.

**SettingsProofs.** Systems that share no variable.

* Settings: `ConfigTypeCorrect`, `ChangesAreTold`, `OutageKeepsStored`. That a
  request tells its own change is not inductive: before it saves, what it loaded
  is what is loaded now, and nothing is due; after it, its change leads from the
  one to the other (`RequestInv`), unless it was disturbed. That something can be
  told where nobody records rests on a fact about all thirty families,
  `UnrecordedHaveNoFreeKeys`: no class with free keys is edited without a row in
  `audit_log`, so that no lookup fails there (`TellingFacts`).
* The automatic settings' process: `EditsAreRun`, `RestartsEnd`. `EditInv` says
  that as long as the process runs an old configuration some request has yet to
  look at it or to stop it, or one has skipped it (`skipped`): a request gives
  that up only when it has seen that the process is not running, and then what is
  there has not read its configuration, or the request was too early
  (`ServiceInv`). `OffIsWanted` is inductive beside it.
* Their rules: `AutoTypeCorrect`, `RulesInvariant`, `RulesDecide`. The invariant
  says of every setting what the iteration has made of it so far: it has the
  value of the rule that decides it among those looked at, or that value is
  still to be sent.
* Map shuffle: `ShuffleTypeCorrect`, `ShuffleIsAsWanted`. What a call knows is
  true while it is alone and its cache was cleared: the cache stays empty until
  it asks, what it is told is so when it decides, and it toggles away from what
  it does not want (`KnowsShuffle`, one line for each step).
* Messages: `MessagesInvariant`, `TemporaryTextsEnd`, `ShownTextIsSaved`. A
  temporary text on the server or in Redis is in the hands of a job that ends it
  or of a call that will make one (`WillEnd`); only lasting texts are put back
  (`OnlyLasting`), and while nothing else happens one text at most is on its way
  (`OneOnItsWay`).

Only model-checked: `AcquisitionEnds` and `ExpiredIsTakenAway`, which are
liveness. Everything in section 4 is a counterexample, found by TLC.

## 6. Limits

* Time is counted in steps, not measured; that something takes longer than a
  timeout is a nondeterministic choice.
* Redis and Postgres are taken as single, durable stores whose commands are
  atomic; that they fail is an exception in the process that calls them.
* Names, messages, weapons and map names are model values. What the code does
  with their text (profanity, templates, map name parsing) is not modelled.
* The vote map leaves out reminders and the whitelist; the rotation leaves out
  insertion after a named map. The automods leave out their two hooks.
* `MatchHistory` assumes that the hooks of a batch of lines are done within a
  period (section 2). It follows which players a game has rows for, not what
  scoreboard.py computes for them; one server's matches, whose unique key in the
  database includes the server.
* `Vips` does not follow which players the database knows; one server.
* `PlayerHooks` has one thread per kind of timer and server at a time, bans that
  do not run out, and reads both cached lists of bans in one step: a reader who
  asked the game server before a list was cleared, and stores its answer after
  that (`cache_utils.py:79-108`), is left out here; `MapRotation`, `Vips` and
  `MapShuffle` have the three steps. Its configurations are chosen, not all
  combinations.
* `UserSettings` has one family of endpoints at a time: their rows and handlers
  do not meet. Fields are one content that differs or not.
* `VoteMap` takes changing the rotation as one step that fails or succeeds;
  that a stale cache makes it succeed wrongly is in `MapRotation` only.
* `AutoSettings` keeps of a command what value it gives which setting; whether a
  condition holds is arbitrary, so is what makes a metric raise. Supervisor may
  give up at any of its restarts, not only the hundredth. That a thread gets the
  reply to another one's call over the `ServerProxy` they share is left out; that
  the call raises is not.
* `Messages` has one of the two messages at a time, `MapShuffle` no other caches
  than its own; texts are not formatted.

Not modelled: the exchange on one connection (bytes, lengths and an XOR stream;
the pool takes from it only how it ends), the teamkill ban and the filters of
the map suggestions (one pass over data, without state), the whitelist of the
vote map (read, changed and written back with nothing to guard it), reminders,
chat commands, reports, external services, the front end and migrations.

## 7. Plan

Done, in this order: the pool (everything goes through it), the log loop and
its readers (everything is driven by it), the automods (what is done to
players), the vote and the rotation (the part that admins see first), the match
history, the VIPs, the hooks on players with the blacklist and the bans, the
settings and their endpoints, the automatic settings, messages and map shuffle.

Next, by importance:

1. `CommandExchange`: one connection with late and partial replies, composed
   with `ConnPool`'s assumption about how an exchange ends.
2. `TeamKillBan` and `SuggestMaps`: pure algorithms, as functions checked
   against reference definitions on bounded inputs.
3. The whitelist in `VoteMap`; a composition of `VoteMap` with `MapRotation`.

Every safety property of a run is proved, so theorems to add will come with new
modules; first among them that the single step in which `VoteMap` changes the
rotation is what `ApplyResults` of `MapRotation` does when nobody disturbs it.
