---------------------------- MODULE PlayerHooks ----------------------------
(***************************************************************************)
(* One player who connects to two game servers with a common database, and *)
(* what CRCON keeps of it: sessions, the blacklist, bans.  The log loop of *)
(* each server runs the hooks of hooks.py for the lines of its log, which  *)
(* ban who is blacklisted or has a bad record and start timers against     *)
(* invalid names; requests of the web server Here ban, unban and keep the  *)
(* blacklist, and are forwarded to the other server.                       *)
(*                                                                         *)
(* A process has calls to make and is at a step of the first of them.      *)
(***************************************************************************)
EXTENDS Integers, SequencesExt

CONSTANTS
    Here, There,        \* the game servers
    Configs,            \* settings, what admins may do, how often the player comes
    MaxVisits,          \* bound: connections of the player
    MaxFaults,          \* bound: failures of any kind
    Nowhere

Servers == {Here, There}
Requests == {"unban", "unblacklist", "blacklist", "perma_ban", "temp_ban"}

ASSUME HooksAssumption ==
    /\ Here # There /\ Nowhere \notin Servers
    /\ MaxVisits \in Nat /\ MaxFaults \in Nat
    /\ Configs \subseteq
         [broadcast_unbans : BOOLEAN, unban_does_unblacklist : BOOLEAN,
          unblacklist_does_unban : BOOLEAN, vac_banned : BOOLEAN,
          windows_store : {"none", "kick", "temp", "perma"},
          name : {"fine", "warn", "kick", "ban", "pineapple"}, digit_first : BOOLEAN,
          permissions : SUBSET Requests, visits : 1 .. MaxVisits]

\* A ban of the player in the lists of a game server.  A pineapple is a
\* temporary ban in place of a kick.
Bans == {"temp", "pineapple", "perma"}
Temporary == Bans \ {"perma"}
Unknown == {"not cached"}

Loop(s) == <<"loop", s>>
Notifier(s) == <<"notify", s>>
Pardoner(s) == <<"pardon", s>>
Web == <<"web", Here>>
Processes == {"loop", "notify", "pardon"} \X Servers \cup {Web}

\* Line 2v - 1 tells that visit v began, line 2v that it ended.
Connected(v) == 2 * v - 1
Disconnected(v) == 2 * v
Lost == -1
Open == 0               \* the end of a session that has none

VARIABLES
    config,
    where,              \* the server the player is on
    visits,             \* how often it has connected
    lines,              \* of each server: lines its loop has not fetched yet
    sessions,           \* the rows of player_sessions, oldest first
    blacklist,          \* the row of the player: "none", "on" or "off"
    bans,               \* of each server: the bans of the player
    temps, permas,      \* of each server: its lists as cached in Redis
    timers,             \* pendingTimers of each loop, in the order they fire
    calls, at,          \* of each process
    request, failed,    \* what Web does, and whether it has to answer failed
    faults,
    inOrder,            \* the last line handled, while none was missed    (ghost)
    due,                \* it was blacklisted when it came, and still is   (ghost)
    quiet,              \* nobody has banned since the request, no stale list (ghost)
    orderly             \* of each server: no pardon was disturbed         (ghost)

player == <<where, visits, lines>>
database == <<sessions, blacklist>>
cached == <<temps, permas>>
ghosts == <<inOrder, due, quiet, orderly>>
vars == <<config, player, database, bans, cached, timers, calls, at, request, failed,
          faults, ghosts>>

\* An exception ends the calls of its scope and of the scopes within.
Call(what, s, arg, scope) == [do |-> what, on |-> s, arg |-> arg, scope |-> scope]
TwoSteps == {"ban", "remove"}           \* clear the cache, send

TypeOK ==
    /\ config \in Configs
    /\ where \in Servers \cup {Nowhere} /\ visits \in 0 .. MaxVisits
    /\ \A s \in Servers :
          /\ \A i \in DOMAIN lines[s] : lines[s][i] \in 1 .. 2 * MaxVisits
          /\ bans[s] \subseteq Bans
          /\ temps[s] = Unknown \/ temps[s] \subseteq Temporary
          /\ permas[s] = Unknown \/ permas[s] \subseteq {"perma"}
          /\ \A i \in DOMAIN timers[s] : timers[s][i] \in {"notify", "pardon"}
    /\ \A i \in DOMAIN sessions :
          sessions[i].start \in 1 .. visits /\ sessions[i].end \in 0 .. visits
    /\ blacklist \in {"none", "on", "off"}
    /\ \A q \in Processes :
          /\ at[q] = "send" => calls[q] # <<>> /\ calls[q][1].do \in TwoSteps
          /\ \A i \in DOMAIN calls[q] : calls[q][i].on \in Servers
    /\ request = "none" <=> calls[Web] = <<>>
    /\ faults \in 0 .. MaxFaults

Init ==
    /\ config \in Configs
    /\ where = Nowhere /\ visits = 0 /\ lines = [s \in Servers |-> <<>>]
    /\ sessions = <<>>
    /\ blacklist \in {"none", "on"}
    /\ bans = [s \in Servers |-> {}]
    /\ temps = [s \in Servers |-> Unknown] /\ permas = [s \in Servers |-> Unknown]
    /\ timers = [s \in Servers |-> <<>>]
    /\ calls = [q \in Processes |-> <<>>] /\ at = [q \in Processes |-> "begin"]
    /\ request = "none" /\ failed = FALSE /\ faults = 0
    /\ inOrder = 0 /\ due = FALSE /\ quiet = FALSE
    /\ orderly = [s \in Servers |-> TRUE]

-----------------------------------------------------------------------------
(***************************************************************************)
(* The player and the game server.                                         *)
(***************************************************************************)
Connect(s) ==
    /\ where = Nowhere /\ bans[s] = {} /\ visits < config.visits
    /\ where' = s /\ visits' = visits + 1
    /\ lines' = [lines EXCEPT ![s] = Append(@, Connected(visits + 1))]
    /\ due' = (blacklist = "on")
    /\ UNCHANGED <<config, database, bans, cached, timers, calls, at, request, failed,
                   faults, inOrder, quiet, orderly>>

\* The player leaves, or is made to.
Leave(s) ==
    /\ where' = Nowhere
    /\ lines' = [lines EXCEPT ![s] = Append(@, Disconnected(visits))]
    /\ UNCHANGED visits

Disconnect ==
    /\ where # Nowhere /\ Leave(where)
    /\ UNCHANGED <<config, database, bans, cached, timers, calls, at, request, failed,
                   faults, ghosts>>

-----------------------------------------------------------------------------
Busy(q) == calls[q] # <<>>
Doing(q, what) == Busy(q) /\ Head(calls[q]).do = what

Todo(q, todo) ==
    /\ calls' = [calls EXCEPT ![q] = todo]
    /\ at' = [at EXCEPT ![q] = "begin"]
    /\ request' = IF q = Web /\ todo = <<>> THEN "none" ELSE request

\* The first call of q returned.  What more remains to be done for it comes first.
Returned(q, more) == Todo(q, more \o Tail(calls[q])) /\ UNCHANGED failed

\* What follows the handler of an exception, which ends the calls of its scope.
AfterHandler(rest, scope) ==
    {SubSeq(rest, i, Len(rest)) :
        i \in {j \in 1 .. Len(rest) + 1 :
                 /\ \A k \in 1 .. j - 1 : rest[k].scope >= scope
                 /\ j <= Len(rest) => rest[j].scope < scope}}

Fails(q) == failed' = (failed \/ (q = Web /\ Head(calls[q]).on = Here))

\* CommandFailedError, a ban that is not there: do_unban goes on to the others.
NotRemoved(q) == Todo(q, Tail(calls[q])) /\ Fails(q)

\* The first call of q has raised.
Raised(q) ==
    \/ /\ \E todo \in AfterHandler(Tail(calls[q]), Head(calls[q]).scope) : Todo(q, todo)
       /\ Fails(q)
    \/ Doing(q, "remove") /\ NotRemoved(q)

-----------------------------------------------------------------------------
(***************************************************************************)
(* The log loop fetches a line and runs its hooks in the order in which    *)
(* they are registered.                                                    *)
(***************************************************************************)
Only(condition, seq) == IF condition THEN seq ELSE <<>>

\* What a configuration makes return at once is left out.
handle_on_connect(s, line) ==
    <<Call("start session", s, line, 3), Call("check blacklist", s, line, 3)>>
      \o Only(config.vac_banned, <<Call("check VAC", s, line, 3)>>)

handle_on_disconnect(s, line) == <<Call("end session", s, line, 2)>>

HooksOf(s, line) ==
    IF \E v \in 1 .. MaxVisits : line = Connected(v)
    THEN handle_on_connect(s, line)
           \o Only(config.windows_store # "none", <<Call("check store", s, line, 2)>>)
           \o Only(config.name # "fine", <<Call("check name", s, line, 1)>>)
    ELSE handle_on_disconnect(s, line)
           \o Only(config.name # "fine", <<Call("cancel timers", s, line, 1)>>)

Fetch(s) ==
    /\ ~Busy(Loop(s)) /\ lines[s] # <<>>
    /\ lines' = [lines EXCEPT ![s] = Tail(@)]
    /\ Todo(Loop(s), HooksOf(s, Head(lines[s])))
    /\ UNCHANGED <<config, where, visits, database, bans, cached, timers, failed, faults, ghosts>>

\* A hook that only reads has found out what to do.
Decide(q, more) ==
    /\ Returned(q, more)
    /\ UNCHANGED <<config, player, database, bans, cached, faults, ghosts>>

Seen(line) == inOrder' = IF inOrder # Lost /\ line = inOrder + 1 THEN line ELSE Lost

save_start_player_session(q) ==
    /\ Doing(q, "start session")
    /\ LET line == Head(calls[q]).arg
           visit == (line + 1) \div 2
       IN  /\ sessions' = IF \E i \in DOMAIN sessions : sessions[i].start = visit
                          THEN sessions
                          ELSE Append(sessions, [start |-> visit, end |-> Open])
           /\ Seen(line)
    /\ Returned(q, <<>>)
    /\ UNCHANGED <<config, player, blacklist, bans, cached, timers, faults, due, quiet, orderly>>

\* A variant that ends the oldest session.
EndOldest(q) ==
    /\ Doing(q, "end session")
    /\ LET line == Head(calls[q]).arg IN
       /\ sessions' = IF sessions # <<>>
                      THEN [sessions EXCEPT ![1].end = line \div 2] ELSE sessions
       /\ Seen(line)
    /\ Returned(q, <<>>)
    /\ UNCHANGED <<config, player, blacklist, bans, cached, timers, faults, due, quiet, orderly>>

\* The last session, of whatever server, unless it has ended: the new session
\* that is made then is never added to the database.
save_end_player_session(q) ==
    /\ Doing(q, "end session")
    /\ LET line == Head(calls[q]).arg
           n == Len(sessions)
       IN  /\ sessions' = IF n > 0 /\ sessions[n].end = Open
                          THEN [sessions EXCEPT ![n].end = line \div 2] ELSE sessions
           /\ Seen(line)
    /\ Returned(q, <<>>)
    /\ UNCHANGED <<config, player, blacklist, bans, cached, timers, faults, due, quiet, orderly>>

\* A variant that bans by number.
BanByNumber(s, by, scope) == <<Call("ban", s, <<"perma", "id">>, scope)>>

\* A permanent ban puts the player on the blacklist, if its number is known.
\* What a ban by name becomes when it is sent is SentBy.
do_perma_ban(s, by, scope) == <<Call("ban", s, <<"perma", by>>, scope)>>

\* Its exceptions are caught.
ban_if_blacklisted(q) ==
    /\ Doing(q, "check blacklist")
    /\ Decide(q, Only(blacklist = "on", do_perma_ban(Head(calls[q]).on, "name", 4)))
    /\ UNCHANGED timers

ban_if_has_vac_bans(q) ==
    /\ Doing(q, "check VAC")
    /\ Decide(q, do_perma_ban(Head(calls[q]).on, "name", 3))
    /\ UNCHANGED timers

windows_store_player_check(q) ==
    /\ Doing(q, "check store")
    /\ LET s == Head(calls[q]).on IN
       Decide(q, CASE config.windows_store = "kick" -> <<Call("kick", s, 0, 2)>>
                   [] config.windows_store = "temp" -> <<Call("ban", s, <<"temp", "id">>, 2)>>
                   [] config.windows_store = "perma" -> do_perma_ban(s, "id", 2))
    /\ UNCHANGED timers

notify_invalid_names(q) ==
    /\ Doing(q, "check name")
    /\ timers' = [timers EXCEPT ![Head(calls[q]).on] =
                    Append(@, "notify") \o Only(config.name = "pineapple", <<"pardon">>)]
    /\ Decide(q, <<>>)

\* A variant that cancels the pardon as well.
CancelAll(q) ==
    /\ Doing(q, "cancel timers")
    /\ timers' = [timers EXCEPT ![Head(calls[q]).on] = <<>>]
    /\ Decide(q, <<>>)

cleanup_pending_timers(q) ==
    /\ Doing(q, "cancel timers")
    /\ timers' = [timers EXCEPT ![Head(calls[q]).on] =
                    IF config.name \in {"kick", "pineapple"} THEN @ ELSE <<>>]
    /\ Decide(q, <<>>)

-----------------------------------------------------------------------------
(***************************************************************************)
(* The threads of the timers: notify_whitespace_player,                    *)
(* notify_pineapple_player, and the pardon five seconds later, which comes *)
(* too early if the notification has not ended by then.                    *)
(***************************************************************************)
Notification(s) ==
    CASE config.name = "warn" -> <<Call("message", s, 0, 1)>>
      [] config.name = "kick" -> <<Call("kick", s, 0, 1)>>
      [] config.name = "ban" -> <<Call("ban", s, <<"temp", "id">>, 1)>>
      [] config.name = "pineapple" -> <<Call("ban", s, <<"pineapple", "id">>, 1)>>

Fire(s) ==
    /\ timers[s] # <<>>
    /\ LET q == <<Head(timers[s]), s>> IN
       /\ ~Busy(q)
       /\ Todo(q, IF q = Notifier(s) THEN Notification(s) ELSE <<Call("find temp ban", s, 0, 1)>>)
       /\ orderly' = [orderly EXCEPT ![s] = @ /\ ~(q = Pardoner(s) /\ Busy(Notifier(s)))]
    /\ timers' = [timers EXCEPT ![s] = Tail(@)]
    /\ UNCHANGED <<config, player, database, bans, cached, failed, faults, inOrder, due, quiet>>

\* do_remove_temp_ban by steam_id_64: the cache is cleared and the list asked
\* for; the first ban of the player is removed.  Without one it raises.
FindTempBan(q) ==
    /\ Doing(q, "find temp ban")
    /\ LET s == Head(calls[q]).on
           found == bans[s] \cap Temporary
       IN  /\ temps' = [temps EXCEPT ![s] = found]
           /\ IF found = {} THEN Raised(q)
              ELSE \E b \in found : Returned(q, <<Call("remove", s, b, 1)>>)
    /\ UNCHANGED <<config, player, database, bans, permas, timers, faults, ghosts>>

-----------------------------------------------------------------------------
(***************************************************************************)
(* Commands.  Those that ban or pardon clear the cached list before and    *)
(* after (invalidates).                                                    *)
(***************************************************************************)
KindOf(call) == IF call.do = "ban" THEN call.arg[1] ELSE call.arg

Clear(call) ==
    IF KindOf(call) = "perma"
    THEN permas' = [permas EXCEPT ![call.on] = Unknown] /\ UNCHANGED temps
    ELSE temps' = [temps EXCEPT ![call.on] = Unknown] /\ UNCHANGED permas

ClearCache(q) ==
    /\ Busy(q) /\ Head(calls[q]).do \in TwoSteps /\ at[q] = "begin"
    /\ Clear(Head(calls[q]))
    /\ at' = [at EXCEPT ![q] = "send"]
    /\ UNCHANGED <<config, player, database, bans, timers, calls, request, failed, faults, ghosts>>

\* A name that starts with a digit is looked up, and if get_player_info knows
\* it the ban is sent by number.
SentBy(call) ==
    IF call.arg[2] = "name" /\ config.digit_first THEN {"name", "id"} ELSE {call.arg[2]}

\* What the game server does with a ban.  By name only a player who is there
\* can be banned, who has to leave.  By number the player need not be there,
\* and may stay if it is.
Carried(call, by) ==
    /\ bans' = [bans EXCEPT ![call.on] = @ \cup {call.arg[1]}]
    /\ \/ where = call.on /\ Leave(where)
       \/ by = "id" /\ UNCHANGED player

\* Somebody bans, which a pending unban or pardon cannot know of.
Disturb(q, call) ==
    /\ quiet' = (quiet /\ q = Web)
    /\ orderly' = [orderly EXCEPT ![call.on] = @ /\ call.arg[1] # "temp"]

SendBan(q) ==
    /\ Doing(q, "ban") /\ at[q] = "send"
    /\ LET call == Head(calls[q])
           s == call.on
       IN  \E by \in SentBy(call) :
              \/ /\ Carried(call, by) /\ Disturb(q, call)
                 /\ Clear(call)
                 /\ Returned(q, IF call.arg[1] = "perma"
                                THEN <<Call("enlist", s, by, 4)>> ELSE <<>>)
              \/ /\ by = "name" /\ where # s /\ Raised(q)
                 /\ UNCHANGED <<player, bans, cached, quiet, orderly>>
    /\ UNCHANGED <<config, database, timers, faults, inOrder, due>>

SendRemoval(q) ==
    /\ Doing(q, "remove") /\ at[q] = "send"
    /\ LET call == Head(calls[q]) IN
       IF call.arg \in bans[call.on]
       THEN /\ bans' = [bans EXCEPT ![call.on] = @ \ {call.arg}]
            /\ Clear(call) /\ Returned(q, <<>>)
       ELSE NotRemoved(q) /\ UNCHANGED <<bans, cached>>
    /\ UNCHANGED <<config, player, database, timers, faults, ghosts>>

\* A message changes nothing here.
KickOrMessage(q) ==
    /\ Doing(q, "kick") \/ Doing(q, "message")
    /\ LET call == Head(calls[q]) IN
       \/ call.do = "kick" /\ where = call.on /\ Leave(where) /\ Returned(q, <<>>)
       \/ call.do = "kick" /\ where # call.on /\ Raised(q) /\ UNCHANGED player
       \/ call.do = "message" /\ Returned(q, <<>>) /\ UNCHANGED player
    /\ UNCHANGED <<config, database, bans, cached, timers, faults, ghosts>>

-----------------------------------------------------------------------------
(***************************************************************************)
(* The blacklist.                                                          *)
(***************************************************************************)
\* After a ban by name the number can only come from the cache of
\* get_player_info, because the player has left.
add_player_to_blacklist(q) ==
    /\ Doing(q, "enlist")
    /\ \/ blacklist' = "on" /\ quiet' = (quiet /\ q = Web)
       \/ Head(calls[q]).arg = "name" /\ UNCHANGED <<blacklist, quiet>>
    /\ Returned(q, <<>>)
    /\ UNCHANGED <<config, player, sessions, bans, cached, timers, faults, inOrder, due, orderly>>

\* Raises for a player without a row, which unban does not mind.
remove_player_from_blacklist(q) ==
    /\ Doing(q, "unlist")
    /\ IF blacklist = "none"
       THEN /\ IF request = "unban" THEN Returned(q, <<>>) ELSE Raised(q)
            /\ UNCHANGED blacklist
       ELSE blacklist' = "off" /\ Returned(q, <<>>)
    /\ due' = FALSE
    /\ UNCHANGED <<config, player, sessions, bans, cached, timers, faults, inOrder, quiet, orderly>>

-----------------------------------------------------------------------------
(***************************************************************************)
(* Requests.                                                               *)
(***************************************************************************)
\* do_unban here, and forwarded to the other server, whose answer is ignored.
do_unban(s, scope) == <<Call("get bans", s, 0, scope)>>

\* A variant that does not ask the other servers.
JustHere == do_unban(Here, 1)

Everywhere ==
    do_unban(Here, 1) \o Only(config.broadcast_unbans, do_unban(There, 2))

unban ==
    Everywhere \o Only(config.unban_does_unblacklist, <<Call("unlist", Here, 0, 1)>>)

unblacklist_player ==
    <<Call("unlist", Here, 0, 1)>>
      \o Only(config.unblacklist_does_unban, Everywhere)

CallsOf(what) ==
    CASE what = "unban" -> unban
      [] what = "unblacklist" -> unblacklist_player
      [] what = "blacklist" -> <<Call("enlist", Here, "id", 1)>>
      [] what = "perma_ban" -> do_perma_ban(Here, "id", 1)
      [] what = "temp_ban" -> <<Call("ban", Here, <<"temp", "id">>, 1)>>

Fresh(s) == temps[s] \in {Unknown, bans[s] \cap Temporary}
            /\ permas[s] \in {Unknown, bans[s] \cap {"perma"}}

Receive ==
    /\ ~Busy(Web)
    /\ \E what \in config.permissions :
          /\ calls' = [calls EXCEPT ![Web] = CallsOf(what)]
          /\ request' = what
    /\ failed' = FALSE
    /\ quiet' = (\A s \in Servers : Fresh(s))
    /\ UNCHANGED <<config, player, database, bans, cached, timers, at, faults, inOrder, due, orderly>>

\* get_bans through its two caches; the bans of the player are then removed
\* one by one.  Here and in ViewBans and FindTempBan the cache is read and
\* filled at once: a reader who asked the game server before a list was cleared
\* and stores its answer after that is left out (cache_utils.py:79-108).
get_bans(q) ==
    /\ Doing(q, "get bans")
    /\ LET s == Head(calls[q]).on
           temp == IF temps[s] = Unknown THEN bans[s] \cap Temporary ELSE temps[s]
           perma == IF permas[s] = Unknown THEN bans[s] \cap {"perma"} ELSE permas[s]
           found == SetToSeq(temp) \o SetToSeq(perma)
       IN  /\ temps' = [temps EXCEPT ![s] = temp]
           /\ permas' = [permas EXCEPT ![s] = perma]
           /\ Returned(q, [i \in DOMAIN found |-> Call("remove", s, found[i], Head(calls[q]).scope)])
    /\ UNCHANGED <<config, player, database, bans, timers, faults, ghosts>>

\* Somebody looks at the bans; the lists are kept for a minute, or longer.
ViewBans(s) ==
    /\ Unknown \in {temps[s], permas[s]}
    /\ temps' = [temps EXCEPT ![s] = IF @ = Unknown THEN bans[s] \cap Temporary ELSE @]
    /\ permas' = [permas EXCEPT ![s] = IF @ = Unknown THEN bans[s] \cap {"perma"} ELSE @]
    /\ UNCHANGED <<config, player, database, bans, timers, calls, at, request, failed, faults, ghosts>>

Lapse(s) ==
    /\ \/ temps[s] # Unknown /\ temps' = [temps EXCEPT ![s] = Unknown] /\ UNCHANGED permas
       \/ permas[s] # Unknown /\ permas' = [permas EXCEPT ![s] = Unknown] /\ UNCHANGED temps
    /\ UNCHANGED <<config, player, database, bans, timers, calls, at, request, failed, faults, ghosts>>

-----------------------------------------------------------------------------
(***************************************************************************)
(* Failures: a command that is refused or whose answer is lost, a row that *)
(* cannot be written.                                                      *)
(***************************************************************************)
Fault(q) ==
    /\ faults < MaxFaults /\ faults' = faults + 1
    /\ inOrder' = IF Doing(q, "start session") \/ Doing(q, "end session")
                  THEN Lost ELSE inOrder
    /\ due' = (due /\ q[1] # "loop")
    /\ orderly' = [s \in Servers |-> FALSE]
    /\ UNCHANGED <<config, database, cached, timers>>

Refused(q) ==
    /\ Busy(q) /\ Fault(q) /\ Raised(q)
    /\ UNCHANGED <<player, bans, quiet>>

AnswerLost(q) ==
    /\ Busy(q) /\ at[q] = "send" /\ Fault(q) /\ Raised(q)
    /\ LET call == Head(calls[q]) IN
       IF call.do = "ban"
       THEN (\E by \in SentBy(call) : Carried(call, by)) /\ quiet' = FALSE
       ELSE bans' = [bans EXCEPT ![call.on] = @ \ {call.arg}] /\ UNCHANGED <<player, quiet>>

\* The log loop ends, with its timers, and is started again.
Restart(s) ==
    /\ Busy(Loop(s)) \/ timers[s] # <<>> \/ Busy(Notifier(s)) \/ Busy(Pardoner(s))
    /\ faults < MaxFaults /\ faults' = faults + 1
    /\ calls' = [q \in Processes |-> IF q \in {Loop(s), Notifier(s), Pardoner(s)} THEN <<>> ELSE calls[q]]
    /\ at' = [q \in Processes |-> IF calls'[q] = <<>> THEN "begin" ELSE at[q]]
    /\ timers' = [timers EXCEPT ![s] = <<>>]
    /\ inOrder' = IF Busy(Loop(s)) THEN Lost ELSE inOrder
    /\ due' = (due /\ where # s)
    /\ orderly' = [orderly EXCEPT ![s] = FALSE]
    /\ UNCHANGED <<config, player, database, bans, cached, request, failed, quiet>>

-----------------------------------------------------------------------------
Hook(q) ==
    \/ save_start_player_session(q) \/ save_end_player_session(q)
    \/ ban_if_blacklisted(q) \/ ban_if_has_vac_bans(q) \/ windows_store_player_check(q)
    \/ notify_invalid_names(q) \/ cleanup_pending_timers(q)

Command(q) ==
    \/ ClearCache(q) \/ SendBan(q) \/ SendRemoval(q) \/ KickOrMessage(q)
    \/ FindTempBan(q) \/ get_bans(q)
    \/ add_player_to_blacklist(q) \/ remove_player_from_blacklist(q)

Next ==
    \/ Disconnect \/ Receive
    \/ \E s \in Servers :
          Connect(s) \/ Fetch(s) \/ Fire(s) \/ ViewBans(s) \/ Lapse(s) \/ Restart(s) \/ Hook(Loop(s))
    \/ \E q \in Processes : Command(q) \/ Refused(q) \/ AnswerLost(q)

Spec == Init /\ [][Next]_vars

-----------------------------------------------------------------------------
(* Properties *)

\* As long as the loops handle the lines in the order in which they were
\* written and none is missed, there is one session for each visit, with its
\* own end (player_history.py:399 ends the last session of any server).
SessionIsVisit ==
    inOrder # Lost =>
        sessions = [i \in 1 .. (inOrder + 1) \div 2 |->
                      [start |-> i, end |-> IF Disconnected(i) <= inOrder THEN i ELSE Open]]

\* A player who came while on the blacklist does not stay when the hooks have
\* run without a failure, whoever unbans it meanwhile (hooks.py:278), unless its
\* name starts with a digit: such a one is banned by number (rcon.py:1200), and
\* may stay until it leaves by itself.
BlacklistIsEnforced ==
    due /\ where # Nowhere /\ ~config.digit_first =>
        Busy(Loop(where)) \/ lines[where] # <<>>

\* A player banned in place of a kick can come back: the pardon is still to
\* come or has been, unless a failure, a slow notification or another ban came
\* between (hooks.py:688).
KickIsPardoned ==
    \A s \in Servers :
        orderly[s] /\ "pineapple" \in bans[s] =>
            "pardon" \in ToSet(timers[s]) \/ Busy(Pardoner(s)) \/ Busy(Notifier(s))

\* An unban, or an unblacklisting that unbans, which did not answer failed
\* has left no ban here, none on the other server if it is told and nothing failed, and
\* no row of the blacklist that is on, as configured, unless somebody banned
\* meanwhile or a cached list was stale (views.py:291, 337).
UnbanMeansUnbanned ==
    [][ /\ Busy(Web) /\ calls'[Web] = <<>> /\ quiet' /\ ~failed'
        => LET unbans == \/ request = "unban"
                         \/ request = "unblacklist" /\ config.unblacklist_does_unban
               unlists == \/ request = "unblacklist"
                          \/ request = "unban" /\ config.unban_does_unblacklist
           IN  /\ unbans => bans'[Here] = {}
               /\ unbans /\ config.broadcast_unbans /\ faults' = 0 => bans'[There] = {}
               /\ unlists => blacklist' # "on"]_vars

(* What comments say and the code does not do *)

\* "this should never fire and remove a temp ban from any other reason"
\* (hooks.py:690).
PardonIsForTheKick ==
    [][\A s \in Servers :
          Busy(Pardoner(s)) /\ calls'[Pardoner(s)] = <<>> => "temp" \notin bans[s] \ bans'[s]]_vars

\* "Only messaging the player should be cancelled if they disconnect early"
\* (hooks.py:705).
OnlyMessagesAreCancelled ==
    [][\A s \in Servers :
          Doing(Loop(s), "cancel timers") /\ timers'[s] # timers[s] => config.name = "warn"]_vars
=============================================================================
