------------------------------ MODULE LogLoop -------------------------------
(***************************************************************************)
(* The log_event_loop process: LogLoop (rcon/game_logs.py).  Every two     *)
(* seconds it asks the game server for the last minutes of its log, far    *)
(* more than is new, and passes each new line on to the history that other *)
(* processes read (FixedLenList, rcon/utils.py) and to the hooks.          *)
(* "New" is what is not in the Redis set unique_logs, which survives the   *)
(* process and is swept of old entries now and then.                       *)
(*                                                                         *)
(* One step is one Redis command or one hook: the process can be killed    *)
(* between any two.  Minutes are the unit of time.                         *)
(***************************************************************************)
EXTENDS GameLog

CONSTANTS
    FirstWindow,    \* minutes asked for after a start: 180
    Window,         \* minutes asked for from then on: 5
    Keep,           \* age in minutes at which unique_logs forgets a line: 280
    HistoryLen,     \* max_len of log_history
    Hooks           \* number of hooks of a line

ASSUME WindowsAssumption ==
    /\ FirstWindow \in Nat /\ Window \in Nat /\ Keep \in Nat
    /\ Window <= FirstWindow /\ FirstWindow <= Keep
ASSUME LengthsAssumption == HistoryLen \in Nat \ {0} /\ Hooks \in Nat \ {0}

VARIABLES
    guard,      \* unique_logs
    history,    \* log_history, the newest line first
    pc,         \* where the process is
    since,      \* since_min
    next,       \* the line of the current batch that is looked at
    last,       \* the last line of the batch
    hook,       \* the hook that comes next
    ran,        \* history: the hooks that ran, as pairs of a line and a hook
    cut,        \* history: the lines in hand when the process died
    fetched,    \* history: when the batch was fetched
    sure,       \* history: when the last batch that was completed was fetched
    late        \* history: a fetch reached back less far than that

records == <<ran, cut, fetched, sure, late>>
loopVars == <<guard, history, pc, since, next, last, hook, records>>
vars == <<gameVars, loopVars>>

Places == {"start", "fetch", "guard", "record", "hooks"}

TypeOK ==
    /\ GameTypeOK
    /\ guard \subseteq Lines
    /\ history \in Seq(Lines) /\ Len(history) <= HistoryLen
    /\ pc \in Places
    /\ since \in {FirstWindow, Window}
    /\ next \in Nat \ {0} /\ last \in 0 .. Len(game)
    /\ hook \in 1 .. Hooks
    /\ ran \in Seq(Lines \X (1 .. Hooks))
    /\ cut \subseteq Lines
    /\ fetched \in 0 .. now /\ sure \in 0 .. now
    /\ late \in BOOLEAN

Init ==
    /\ GameInit
    /\ guard = {} /\ history = <<>>
    /\ pc = "start" /\ since = FirstWindow
    /\ next = 1 /\ last = 0 /\ hook = 1
    /\ ran = <<>> /\ cut = {}
    /\ fetched = 0 /\ sure = 0 /\ late = FALSE

-----------------------------------------------------------------------------
\* A variant that forgets lines a fetch still shows.
ExpiredEarly == {i \in guard : ~Shown(i, Window)}

\* cleanup() removes these from unique_logs.
Expired == {i \in guard : ~Shown(i, Keep)}

\* run() begins with a cleanup and the long window.
Start ==
    /\ pc = "start"
    /\ guard' = guard \ Expired
    /\ since' = FirstWindow
    /\ pc' = "fetch"
    /\ UNCHANGED <<gameVars, history, next, last, hook, records>>

\* A variant that asks for the short window after a start, too.
FetchShort ==
    /\ pc = "fetch"
    /\ \E lo \in 1 .. Len(game) + 1 : ShownFrom(lo, Window) /\ next' = lo
    /\ last' = Len(game)
    /\ since' = Window
    /\ fetched' = now
    /\ late' = (late \/ now > sure + since)
    /\ pc' = "guard"
    /\ UNCHANGED <<gameVars, guard, history, hook, ran, cut, sure>>

\* get_structured_logs: a batch, oldest line first.
Fetch ==
    /\ pc = "fetch"
    /\ \E lo \in 1 .. Len(game) + 1 : ShownFrom(lo, since) /\ next' = lo
    /\ last' = Len(game)
    /\ since' = Window
    /\ fetched' = now
    /\ late' = (late \/ now > sure + since)
    /\ pc' = "guard"
    /\ UNCHANGED <<gameVars, guard, history, hook, ran, cut, sure>>

\* record_line: sadd tells whether the line was there.
CheckGuard ==
    /\ pc = "guard" /\ next <= last
    /\ IF next \in guard
       THEN next' = next + 1 /\ UNCHANGED <<guard, pc>>
       ELSE guard' = guard \cup {next} /\ pc' = "record" /\ UNCHANGED next
    /\ UNCHANGED <<gameVars, history, since, last, hook, records>>

\* FixedLenList.add: lpush and ltrim.
Pushed(line) ==
    LET longer == <<line>> \o history
    IN  SubSeq(longer, 1, IF Len(longer) < HistoryLen THEN Len(longer) ELSE HistoryLen)

\* A variant of record_line without the comparison.
RecordAlways ==
    /\ pc = "record"
    /\ history' = Pushed(next) /\ pc' = "hooks" /\ UNCHANGED next
    /\ UNCHANGED <<gameVars, guard, since, last, hook, records>>

\* record_line: a line older than the newest of the history is ignored.
Record ==
    /\ pc = "record"
    /\ IF history # <<>> /\ game[Head(history)] > game[next]
       THEN next' = next + 1 /\ pc' = "guard" /\ UNCHANGED history
       ELSE history' = Pushed(next) /\ pc' = "hooks" /\ UNCHANGED next
    /\ UNCHANGED <<gameVars, guard, since, last, hook, records>>

\* process_hooks: a hook runs; that it raises an exception changes nothing.
RunHook ==
    /\ pc = "hooks"
    /\ ran' = Append(ran, <<next, hook>>)
    /\ IF hook < Hooks
       THEN hook' = hook + 1 /\ UNCHANGED <<next, pc>>
       ELSE hook' = 1 /\ next' = next + 1 /\ pc' = "guard"
    /\ UNCHANGED <<gameVars, guard, history, since, last, cut, fetched, sure, late>>

\* The batch is done; every ten minutes a cleanup follows.
EndBatch ==
    /\ pc = "guard" /\ next > last
    /\ guard' \in {guard, guard \ Expired}
    /\ sure' = fetched
    /\ pc' = "fetch"
    /\ UNCHANGED <<gameVars, history, since, next, last, hook, ran, cut, fetched, late>>

\* The process is killed, or the connection to the game server or to Redis
\* raises: run_log_loop exits and supervisord starts it again.
Crash ==
    /\ pc # "start"
    /\ pc' = "start" /\ hook' = 1
    /\ cut' = IF pc \in {"record", "hooks"} THEN cut \cup {next} ELSE cut
    /\ UNCHANGED <<gameVars, guard, history, since, next, last, ran, fetched, sure, late>>

LoopNext ==
    \/ Start \/ Fetch \/ CheckGuard \/ Record \/ RunHook \/ EndBatch \/ Crash

Next == LoopNext \/ (GameNext /\ UNCHANGED loopVars)

Spec == Init /\ [][Next]_vars

-----------------------------------------------------------------------------
(* Properties                                                              *)

Before(a, b) == a[1] < b[1] \/ (a[1] = b[1] /\ a[2] < b[2])

\* No hook runs twice for a line, and hooks see the lines in the order of the
\* game, over all restarts, overlapping windows and sweeps of unique_logs:
\* bans, VIP sessions and the vote map are driven by these calls.
HooksRunOnceInOrder ==
    \A a, b \in DOMAIN ran : a < b => Before(ran[a], ran[b])

\* The history never goes back in time.  get_recent_logs and the TK ban scan
\* stop at the first line that is too old.
HistoryInOrder ==
    \A a, b \in DOMAIN history : a < b => history[b] < history[a]

Handled(i) == \A h \in 1 .. Hooks : \E k \in DOMAIN ran : ran[k] = <<i, h>>

\* As long as no fetch came so late that the window had a gap, every line
\* written before the last completed fetch had all its hooks run, except the
\* one line that was in hand each time the process died.
NothingMissed ==
    ~late => \A i \in Lines : game[i] < sure => Handled(i) \/ i \in cut

(* What the documentation says, and the code does not do.                  *)

\* README.md:725, "Runs hooks (on connected events, on kills, etc.)": a line
\* that was recorded has its hooks run, if not before then after a restart.
RecordedLinesAreHandled ==
    ~late => \A i \in Lines : game[i] < sure => Handled(i)
=============================================================================
