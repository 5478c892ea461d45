----------------------------- MODULE MatchHistory -----------------------------
(***************************************************************************)
(* The history of the matches and the recording of their statistics.  The  *)
(* log loop's process opens an entry of the Redis list maps_history when a *)
(* match starts and closes it when it ends (rcon/hooks.py), and keeps the  *)
(* best scores of the players in the newest entry (LogLoop.                *)
(* record_player_stats).  When the next match starts, the entry before the *)
(* newest is queued, and a worker stores it six minutes later              *)
(* (rcon/workers.py).                                                      *)
(*                                                                         *)
(* The clock counts periods of SETTLE seconds (30), the time a server may  *)
(* take to zero the scores of the last match.                              *)
(***************************************************************************)
EXTENDS Naturals, Sequences, FiniteSets

CONSTANTS
    Players,
    Maps,             \* names of maps
    Rotation,         \* the ones that are played
    Base,             \* [Maps -> the part of a name before its first "_"]
    LogMap,           \* [Maps -> what LOG_MAP_NAMES_TO_MAP has for its log name]
    Unknown,          \* UNKNOWN_MAP_NAME
    NoMap,            \* "bla_", the name when the server does not tell
    WarmUp,           \* periods from a start to the first points (external)
    EndGuess,         \* the 100 s before a start at which a match is taken to end
    FreshStart,       \* the 5 minutes in which a start line is taken to be news
    FreshEnd,         \* the 60 s in which an end line is
    JobDelay,         \* the 6 minutes a job waits
    MaxLen,           \* max_len of the list
    MaxMatches, MaxClock, MaxScore, MaxFaults     \* bounds of the model

ASSUME HistoryAssumption ==
    /\ {EndGuess, FreshStart, FreshEnd, JobDelay, MaxMatches, MaxClock, MaxScore, MaxFaults}
         \subseteq Nat
    /\ {WarmUp, MaxLen} \subseteq Nat /\ WarmUp >= 1 /\ MaxLen >= 2
    /\ Base \in [Maps -> STRING] /\ LogMap \in [Maps -> Maps \cup {Unknown}]
    /\ Rotation \subseteq Maps /\ NoMap \notin Maps /\ Unknown \notin Maps

VARIABLES
    now,
    match,            \* the matches of the server: [map, start, ended]
    zeroed,           \* the scores are those of the newest match
    score,            \* [Players -> what the server tells]
    lines,            \* the log lines not yet handled: [kind, match, time]
    history,          \* maps_history, newest first
    loop,             \* "lines", or "players" once it has fetched them
    fetched,          \* the scores of get_detailed_players
    queue,            \* the jobs: [due, info]
    games,            \* the table map_history: the entries it was filled from
    stats,            \* the table player_stats: [game, player, combat]
    faults,           \* faults so far
    best,             \* [match -> [Players -> the best score in it]]    (ghost)
    opened,           \* the matches whose entry was opened               (ghost)
    lost              \* those whose entry was lost since                (ghost)

server == <<now, match, zeroed, score, lines, best>>
tables == <<games, stats>>
iteration == <<loop, fetched>>
ghosts == <<opened, lost>>
vars == <<server, history, iteration, queue, tables, faults, ghosts>>

None == MaxClock + 1     \* a time that is not set

\* A MapInfo.  match is the match whose start line opened it, and row tells
\* apart the rows of map_history that are for one match (ghosts).
Info(name, start, guessed, m) ==
    [name |-> name, start |-> start, end |-> None, guessed |-> guessed,
     scores |-> [p \in Players |-> 0], match |-> m, row |-> 0]

Times == 0..MaxClock
MatchNums == 1..MaxMatches
ScoreMaps == [Players -> 0..MaxScore]

TypeOK ==
    /\ now \in Times
    /\ match \in Seq([map : Maps, start : Times, ended : BOOLEAN]) /\ Len(match) <= MaxMatches
    /\ zeroed \in BOOLEAN /\ score \in ScoreMaps
    /\ \A l \in {lines[i] : i \in DOMAIN lines} :
          l.kind \in {"start", "end"} /\ l.match \in MatchNums /\ l.time \in Times
    /\ Len(history) <= MaxLen
    /\ \A h \in {history[i] : i \in DOMAIN history} \cup {j.info : j \in queue} \cup games :
          /\ h.name \in Maps \cup {Unknown, NoMap} /\ h.start \in Times \cup {None}
          /\ h.guessed \in BOOLEAN /\ h.scores \in ScoreMaps /\ h.match \in MatchNums
    /\ loop \in {"lines", "players"} /\ fetched \in ScoreMaps
    /\ \A s \in stats : s.game \in games /\ s.player \in Players /\ s.combat \in 0..MaxScore
    /\ faults \in 0..MaxFaults /\ opened \cup lost \subseteq MatchNums

Init ==
    /\ now = 0 /\ match = <<>> /\ zeroed = TRUE /\ score = [p \in Players |-> 0]
    /\ lines = <<>> /\ history = <<>> /\ queue = {}
    /\ loop = "lines" /\ fetched = score
    /\ games = {} /\ stats = {} /\ faults = 0 /\ opened = {} /\ lost = {}
    /\ best = [m \in MatchNums |-> [p \in Players |-> 0]]

-------------------------------------------------------------------------------
(***************************************************************************)
(* The game server (external).                                             *)
(***************************************************************************)
Current == match[Len(match)]
Playing == match # <<>> /\ ~Current.ended

\* Scores are zeroed within a period of the start, and recorded within a
\* period of being fetched.  Any time may pass before a line is handled, for
\* the process may be down.
Tick ==
    /\ now < MaxClock /\ loop = "lines"
    /\ match # <<>> /\ now = Current.start => zeroed
    /\ now' = now + 1
    /\ UNCHANGED <<match, zeroed, score, lines, best, history, iteration, queue,
                   tables, faults, ghosts>>

\* After an end, or before it when an administrator changes the map; not
\* within the same 30 seconds.
StartMatch(map) ==
    /\ Len(match) < MaxMatches
    /\ match # <<>> => now > Current.start
    /\ match' = Append(match, [map |-> map, start |-> now, ended |-> FALSE])
    /\ lines' = Append(lines, [kind |-> "start", match |-> Len(match) + 1, time |-> now])
    /\ zeroed' = FALSE
    /\ UNCHANGED <<now, score, best, history, iteration, queue, tables, faults, ghosts>>

EndMatch ==
    /\ Playing
    /\ match' = [match EXCEPT ![Len(match)].ended = TRUE]
    /\ lines' = Append(lines, [kind |-> "end", match |-> Len(match), time |-> now])
    /\ UNCHANGED <<now, zeroed, score, best, history, iteration, queue, tables, faults, ghosts>>

Zero ==
    /\ ~zeroed
    /\ zeroed' = TRUE /\ score' = [p \in Players |-> 0]
    /\ UNCHANGED <<now, match, lines, best, history, iteration, queue, tables, faults, ghosts>>

Point(p) ==
    /\ Playing /\ zeroed /\ now >= Current.start + WarmUp /\ score[p] < MaxScore
    /\ score' = [score EXCEPT ![p] = @ + 1]
    /\ best' = [best EXCEPT ![Len(match)][p] = IF score'[p] > @ THEN score'[p] ELSE @]
    /\ UNCHANGED <<now, match, zeroed, lines, history, iteration, queue, tables, faults, ghosts>>

\* A player who reconnects starts from zero.
Reconnect(p) ==
    /\ score[p] > 0
    /\ score' = [score EXCEPT ![p] = 0]
    /\ UNCHANGED <<now, match, zeroed, lines, best, history, iteration, queue, tables,
                   faults, ghosts>>

-------------------------------------------------------------------------------
(***************************************************************************)
(* The log loop.                                                           *)
(***************************************************************************)
Max0(a, b) == IF a >= b THEN a - b ELSE 0

\* FixedLenList.add: lpush and ltrim.
add(info, list) == SubSeq(<<info>> \o list, 1, IF Len(list) < MaxLen THEN Len(list) + 1 ELSE MaxLen)

\* The newest entry gets its end.  An empty list gets an entry without a start.
save_map_end(list, name, ts, m) ==
    IF list = <<>>
    THEN <<[Info(name, None, TRUE, m) EXCEPT !.end = ts]>>
    ELSE [list EXCEPT ![1].end = ts]

\* A variant that calls every name certain.
AlwaysCertain(line, current) ==
    [name |-> IF now - line.time < FreshStart THEN current ELSE LogMap[match[line.match].map],
     guessed |-> FALSE]

\* handle_new_match_start: the name to save, and whether it is guessed.
NameOf(line, current) ==
    LET logged == LogMap[match[line.match].map]
        fresh == now - line.time < FreshStart
    IN  IF fresh /\ current \in Maps /\ logged \in Maps /\ Base[current] = Base[logged]
        THEN [name |-> current, guessed |-> FALSE]
        ELSE IF fresh /\ logged = Unknown
        THEN [name |-> current, guessed |-> TRUE]
        ELSE [name |-> logged, guessed |-> TRUE]

\* A variant that ends the match when the line is handled.
CloseOpenNow(list, line) ==
    IF list # <<>> /\ list[1].end = None
    THEN save_map_end(list, list[1].name, now, line.match)
    ELSE list

\* The previous match's entry is closed if nothing has closed it.
CloseOpen(list, line) ==
    IF list # <<>> /\ list[1].end = None
    THEN save_map_end(list, list[1].name, Max0(line.time, EndGuess), line.match)
    ELSE list

\* record_stats_worker(MapsHistory()[1]), in the handler's finally.
QueuePrevious(list) ==
    queue' = IF Len(list) >= 2 THEN queue \cup {[due |-> now + JobDelay, info |-> list[2]]}
             ELSE queue

\* What get_map answers: the server's map now, or nothing.
MapsTold == {Current.map, NoMap}

\* LogLoop.run handles the lines there are, one after the other.
Take(kind) ==
    /\ loop = "lines" /\ lines # <<>> /\ Head(lines).kind = kind
    /\ lines' = Tail(lines)

\* handle_new_match_start, to save_new_map.
OpenEntry ==
    /\ \E current \in MapsTold :
          LET line == Head(lines)
              new == NameOf(line, current)
          IN  history' = add(Info(new.name, line.time, new.guessed, line.match),
                             CloseOpen(history, line))
    /\ opened' = opened \cup {Head(lines).match} /\ UNCHANGED lost

\* handle_new_match_start, the whole of it.
HandleStart ==
    /\ Take("start")
    /\ OpenEntry
    /\ QueuePrevious(history')
    /\ UNCHANGED <<now, match, zeroed, score, best, iteration, tables, faults>>

\* An exception before the entry is saved (the server's answer cannot be
\* parsed, Redis does not answer): the finally still queues the entry at 1.
StartRaises ==
    /\ Take("start") /\ faults < MaxFaults
    /\ history' \in {history, CloseOpen(history, Head(lines))}
    /\ QueuePrevious(history')
    /\ faults' = faults + 1
    /\ UNCHANGED <<now, match, zeroed, score, best, iteration, tables, ghosts>>

\* Between the lpop and the lpush of save_map_end the newest entry is nowhere.
LoseNewest ==
    /\ history' = Tail(history)
    /\ lost' = lost \cup {Head(history).match} /\ UNCHANGED opened

\* The process ends within the handler and is started again.  The line is in
\* unique_logs, so it is not handled again.
CrashInStart ==
    /\ Take("start") /\ faults < MaxFaults
    /\ \/ /\ history' \in {history, CloseOpen(history, Head(lines))}
          /\ UNCHANGED ghosts
       \/ CloseOpen(history, Head(lines)) # history /\ LoseNewest
       \/ OpenEntry
    /\ faults' = faults + 1
    /\ UNCHANGED <<now, match, zeroed, score, best, iteration, queue, tables>>

\* Only the end of what is played now, and only news.
EndCounts(line, current) ==
    LET logged == LogMap[match[line.match].map]
    IN  /\ now - line.time < FreshEnd
        /\ current \in Maps /\ logged \in Maps /\ Base[current] = Base[logged]

\* record_map_end
HandleEnd ==
    /\ Take("end")
    /\ \E current \in MapsTold :
          LET line == Head(lines)
          IN  history' = IF EndCounts(line, current)
                         THEN save_map_end(history, current, line.time, line.match)
                         ELSE history
    /\ UNCHANGED <<now, match, zeroed, score, best, iteration, queue, tables, faults, ghosts>>

\* The process ends within it.
CrashInEnd ==
    /\ Take("end") /\ faults < MaxFaults
    /\ history # <<>> /\ \E current \in MapsTold : EndCounts(Head(lines), current)
    /\ LoseNewest
    /\ faults' = faults + 1
    /\ UNCHANGED <<now, match, zeroed, score, best, iteration, queue, tables>>

\* Then it fetches the players.  The lines that are left came after it read them,
\* and within the same period: that the hooks of the lines it read take no longer
\* is an assumption on their time, which the code does not enforce
\* (game_logs.py:374-388).
FetchPlayers ==
    /\ loop = "lines" /\ \A i \in DOMAIN lines : lines[i].time = now
    /\ loop' = "players" /\ fetched' = score
    /\ UNCHANGED <<server, history, queue, tables, faults, ghosts>>

Higher(a, b) == [p \in Players |-> IF a[p] > b[p] THEN a[p] ELSE b[p]]

\* A variant that does not wait for the server to zero the scores.
record_at_once ==
    /\ loop = "players"
    /\ history' = IF history = <<>> \/ history[1].start = None
                  THEN history
                  ELSE [history EXCEPT ![1].scores = Higher(fetched, @)]
    /\ loop' = "lines" /\ fetched' = [p \in Players |-> 0]
    /\ UNCHANGED <<server, queue, tables, faults, ghosts>>

\* Not while the newest entry is younger than a period.  An entry without a
\* start cannot be compared: the loop ends with a TypeError, and is restarted.
record_player_stats ==
    /\ loop = "players"
    /\ history' = IF history = <<>> \/ history[1].start = None \/ history[1].start + 1 > now
                  THEN history
                  ELSE [history EXCEPT ![1].scores = Higher(fetched, @)]
    /\ loop' = "lines" /\ fetched' = [p \in Players |-> 0]
    /\ UNCHANGED <<server, queue, tables, faults, ghosts>>

-------------------------------------------------------------------------------
(***************************************************************************)
(* The worker, and the command that reprocesses games.                     *)
(***************************************************************************)
\* get_or_create_map: the unique key of the table.
SameGame(g, info) == g.start = info.start /\ g.end = info.end /\ g.name = info.name

NewRow(info) == [info EXCEPT !.row = Cardinality({g \in games : g.match = info.match})]

\* A variant that does not look for the game.
create_map(info) == NewRow(info)

get_or_create_map(info) ==
    IF \E g \in games : SameGame(g, info)
    THEN CHOOSE g \in games : SameGame(g, info)
    ELSE NewRow(info)

\* A variant that does not find the rows there are.
NoRows(game, player) == {}

RowsOf(game, player) == {s \in stats : s.game = game /\ s.player = player}

\* record_stats_from_map for the players seen in the log lines of the game's
\* time.  A player who has a row keeps it unless force is set, and keeps its
\* scores where given has none for the player.
record_stats_from_map(game, seen, given, force) ==
    LET updated == {p \in seen : force \/ RowsOf(game, p) = {}}
        Combat(p) == IF p \in DOMAIN given THEN given[p]
                     ELSE IF RowsOf(game, p) # {} THEN (CHOOSE s \in RowsOf(game, p) : TRUE).combat
                     ELSE 0
    IN  {s \in stats : ~(s.game = game /\ s.player \in updated)}
        \cup {[game |-> game, player |-> p, combat |-> Combat(p)] : p \in updated}

\* Players in the log lines from start to end: none if the end is before.
Seen(game) == IF game.end < game.start THEN {{}} ELSE SUBSET Players

\* record_stats.  An entry without a start or an end cannot be recorded.  The game is
\* committed before its rows are, so a failure between them leaves it empty.
RecordStats ==
    \E job \in queue :
        /\ job.due <= now
        /\ queue' = queue \ {job}
        /\ IF None \in {job.info.start, job.info.end} THEN UNCHANGED <<tables, faults>>
           ELSE LET game == get_or_create_map(job.info) IN
                /\ games' = games \cup {game}
                /\ \/ /\ \E seen \in Seen(game) :
                            stats' = record_stats_from_map(game, seen, job.info.scores, FALSE)
                      /\ UNCHANGED faults
                   \/ faults < MaxFaults /\ faults' = faults + 1 /\ UNCHANGED stats
        /\ UNCHANGED <<server, history, iteration, ghosts>>

\* The command reprocess-games, one game of it: it has no scores to give.
process_games(force) ==
    /\ \E game \in games : \E seen \in Seen(game) :
          stats' = record_stats_from_map(game, seen, <<>>, force)
    /\ UNCHANGED <<server, history, iteration, queue, games, faults, ghosts>>

Next ==
    \/ Tick \/ EndMatch \/ Zero
    \/ \E map \in Rotation : StartMatch(map)
    \/ \E p \in Players : Point(p) \/ Reconnect(p)
    \/ HandleStart \/ StartRaises \/ CrashInStart \/ HandleEnd \/ CrashInEnd
    \/ FetchPlayers \/ record_player_stats
    \/ RecordStats \/ \E force \in BOOLEAN : process_games(force)

Spec == Init /\ [][Next]_vars

-------------------------------------------------------------------------------
(***************************************************************************)
(* Properties.                                                             *)
(***************************************************************************)

\* Only the newest entry is open, and the entries do not overlap: an entry ends
\* no later than the next one starts.  An end before its own start takes a
\* match shorter than the guess of save_map_end's caller (hooks.py:237).
HistoryInOrder ==
    \A i \in 2..Len(history) :
        /\ history[i].end # None
        /\ history[i - 1].start # None => history[i].end <= history[i - 1].start
        /\ history[i].start # None /\ history[i].end < history[i].start =>
              \E m \in DOMAIN match :
                  match[m].start > history[i].start /\ match[m].start < history[i].start + EndGuess

\* A name that is not called a guess is one the server really played: that of
\* the match, or of one started before its line was handled as news
\* (hooks.py:212).
NotGuessedWasPlayed ==
    \A i \in DOMAIN history :
        history[i].guessed \/ \E m \in DOMAIN match :
            /\ m >= history[i].match /\ match[m].map = history[i].name
            /\ match[m].start <= match[history[i].match].start + FreshStart

\* A match is stored once, and so are its players' rows, whatever is queued
\* twice: the entry at 1 is queued again when a later start raises, and the
\* second job finds the same game (hooks.py:252, workers.py:68).  That is not so
\* when the entry of a later match was lost: the one before it is the newest
\* again, and a line can give it another end than that it was stored with.
GameStoredOnce ==
    /\ \A g, h \in games : g.match = h.match /\ (\A m \in lost : m <= g.match) => g = h
    /\ \A s, t \in stats : s.game = t.game /\ s.player = t.player => s = t

\* The scores a match is credited with were made in it: never more than a
\* player's best in the match itself, or in the matches after it that have no
\* entry; in the list and in the rows stored from it (game_logs.py:410).
Credited(h) ==
    {m \in MatchNums : m >= h.match /\ (h.match + 1)..m \cap (opened \ lost) = {}}

NoForeignScore ==
    /\ \A i \in DOMAIN history, p \in Players :
          \E m \in Credited(history[i]) : history[i].scores[p] <= best[m][p]
    /\ \A s \in stats : \E m \in Credited(s.game) : s.combat <= best[m][s.player]

\* Reprocessing, with or without force, leaves the scores that were recorded
\* although it has none of its own to give (workers.py:158, cli.py:235).
RecordedScoresStay ==
    [][\A s \in stats : \E t \in stats' :
          t.game = s.game /\ t.player = s.player /\ t.combat = s.combat]_vars

===============================================================================
