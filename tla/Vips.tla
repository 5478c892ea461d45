-------------------------------- MODULE Vips --------------------------------
(***************************************************************************)
(* The VIPs of one game server and the table player_vip that holds until   *)
(* when each of them is one.  Requests add and remove VIPs (Rcon.          *)
(* do_add_vip, do_remove_vip), a worker replaces all of them by an         *)
(* uploaded list (workers.bulk_vip), and the service ExpiringVIPs removes  *)
(* those who have expired and gives a row to those who have none.  All of  *)
(* them read the VIPs through a cache of five minutes, Rcon.get_vip_ids.   *)
(*                                                                         *)
(* A process has calls to make and is at a step of the first of them.      *)
(***************************************************************************)
EXTENDS Integers, SequencesExt

CONSTANTS
    Players,
    Requests,       \* the processes that serve requests and jobs
    Expirer,        \* the process of the service
    Log,            \* the log loop: reads the VIPs for every connection
    Terms,          \* the expirations that requests give
    Uploads,        \* what is in files: [subset of Players -> time]
    MaxTime,
    MaxFaults,      \* bound: commands and commits that fail, processes that end
    Nobody          \* the player of a call that has none

ASSUME VipsAssumption ==
    /\ MaxTime \in Nat /\ MaxFaults \in Nat
    /\ IsFiniteSet(Players)
    /\ Terms \subseteq 0 .. MaxTime + 1
    /\ \A u \in Uploads :
          DOMAIN u \subseteq Players /\ u \in [DOMAIN u -> 0 .. MaxTime + 1]
    /\ Nobody \notin Players /\ Expirer # Log /\ {Expirer, Log} \cap Requests = {}

Processes == Requests \cup {Expirer, Log}
None == -1                      \* no row
Indefinite == MaxTime + 1       \* INDEFINITE_VIP_DATE
Expirations == 0 .. Indefinite

\* What get_vip_ids returns: the VIPs, and whether it has an expiration for
\* them.  Nothing is for a cache without a list.
Lists == UNION {[s -> BOOLEAN] : s \in SUBSET Players}
Nothing == [p \in {Nobody} |-> FALSE]

VARIABLES
    now,
    vips,           \* the VIPs on the game server
    rows,           \* player_vip, and None for who has no row
    cache,          \* the list of get_vip_ids in Redis
    calls,          \* what each process still has to do
    at,             \* the step of the first of its calls
    list,           \* what get_vip_ids returned to it, or has read so far
    faults,
    given,          \* until when the last add, undisturbed, gave it     (ghost)
    alone,          \* nothing else was called since the process began   (ghost)
    fresh,          \* no stale list was cached, or about to be (ghost)
    target          \* the list a bulk job is to leave                   (ghost)

vars == <<now, vips, rows, cache, calls, at, list, faults, given, alone, fresh, target>>
ghosts == <<given, alone, fresh, target>>

Call(what, p, t) == [do |-> what, player |-> p, till |-> t]
ListCall == Call("list", Nobody, None)
Firsts == [add |-> "clear", remove |-> "clear", list |-> "ask",
           reconcile |-> "query", replace |-> "query", count |-> "ask"]

TypeOK ==
    /\ now \in 0 .. MaxTime
    /\ vips \subseteq Players
    /\ rows \in [Players -> Expirations \cup {None}]
    /\ cache \in Lists \cup {Nothing}
    /\ \A q \in Processes :
          /\ \A i \in DOMAIN calls[q] :
                /\ calls[q][i].do \in DOMAIN Firsts
                /\ calls[q][i].do \in {"add", "remove"} <=> calls[q][i].player \in Players
          /\ at[q] \in {"clear", "send", "record", "ask", "read", "store", "query"}
          /\ list[q] \in Lists
    /\ faults \in 0 .. MaxFaults
    /\ given \in [Players -> Expirations \cup {None}]

\* At the start some players are VIPs, with a row or without.
Init ==
    /\ now = 0 /\ faults = 0
    /\ vips \in SUBSET Players
    /\ rows \in {r \in [Players -> {None, 0}] : \A p \in Players \ vips : r[p] = None}
    /\ cache = Nothing
    /\ calls = [q \in Processes |-> <<>>]
    /\ at = [q \in Processes |-> "query"]
    /\ list = [q \in Processes |-> <<>>]
    /\ given = [p \in Players |-> None]
    /\ alone = [q \in Processes |-> FALSE] /\ fresh = [q \in Processes |-> FALSE]
    /\ target = [q \in Processes |-> Nothing]

-----------------------------------------------------------------------------
Busy(q) == calls[q] # <<>>
Does(q, what, step) == Busy(q) /\ Head(calls[q]).do = what /\ at[q] = step

\* The calls of q are now todo.
Todo(q, todo) ==
    /\ calls' = [calls EXCEPT ![q] = todo]
    /\ at' = [at EXCEPT ![q] = IF todo = <<>> THEN "query" ELSE Firsts[Head(todo).do]]
    /\ list' = [list EXCEPT ![q] = IF todo = <<>> THEN <<>> ELSE @]

\* The first of its calls has returned, or has raised.
Goto(q, todo, returned) ==
    /\ Todo(q, todo)
    /\ alone' = [alone EXCEPT ![q] = @ /\ returned /\ todo # <<>>]
    /\ fresh' = [fresh EXCEPT ![q] = @ /\ todo # <<>>]
    /\ target' = [target EXCEPT ![q] = IF todo = <<>> THEN Nothing ELSE @]

\* A step further in the same call.
Step(q, step) == at' = [at EXCEPT ![q] = step] /\ UNCHANGED <<calls, list>>

\* q begins.  Only the list of the VIPs can be read beside another call
\* without disturbing it.
Begin(q, todo, upload) ==
    /\ ~Busy(q)
    /\ target' = [target EXCEPT ![q] = upload]
    /\ Todo(q, todo)
    /\ alone' = [r \in Processes |->
                   r = q /\ \A s \in Processes \ {q, Log} : ~Busy(s)]
    /\ fresh' = [fresh EXCEPT ![q] = upload # Nothing /\ at[Log] # "store" /\ (cache = Nothing \/ DOMAIN cache = vips)]
    /\ UNCHANGED <<now, vips, rows, cache, faults>>

Forget(players) == given' = [p \in Players |-> IF p \in players THEN None ELSE given[p]]

\* Requests and the job of an upload.
RequestAdd(q) ==
    \E p \in Players, t \in Terms :
        Begin(q, <<Call("add", p, t)>>, Nothing) /\ Forget({p})

RequestRemove(q) ==
    \E p \in Players : Begin(q, <<Call("remove", p, None)>>, Nothing) /\ Forget({p})

\* A file without a VIP is not submitted to the worker.
async_upload_vips == {upload \in Uploads : DOMAIN upload # {}}

bulk_vip(q) ==
    \E upload \in async_upload_vips :
        /\ Begin(q, <<ListCall, Call("replace", Nobody, None)>>, upload)
        /\ Forget(Players)

\* The same without anybody to add; its first exception ends it.
do_remove_all_vips(q) ==
    /\ Begin(q, <<ListCall, Call("replace", Nobody, None)>>, <<>>)
    /\ Forget(Players)

\* A variant that takes the VIP at the time it is given until.
ExpiredAtOnce == {p \in Players : rows[p] # None /\ rows[p] <= now}

Expired == {p \in Players : rows[p] # None /\ rows[p] < now}

Each(what, players) ==
    LET order == SetToSeq(players) IN [i \in DOMAIN order |-> Call(what, order[i], None)]

\* One round of the service: those who have expired, then those without a row.
remove_expired_vips ==
    /\ Begin(Expirer, Each("remove", Expired) \o <<ListCall, Call("reconcile", Nobody, None)>>,
             Nothing)
    /\ UNCHANGED given

\* Of _set_real_vips only the reading of the list matters here, and that only
\* when nothing is cached.
_set_real_vips ==
    /\ cache = Nothing /\ ~Busy(Log)
    /\ calls' = [calls EXCEPT ![Log] = <<ListCall>>]
    /\ at' = [at EXCEPT ![Log] = "store"]
    /\ list' = [list EXCEPT ![Log] = [p \in vips |-> FALSE]]
    /\ UNCHANGED <<now, vips, rows, cache, faults, ghosts>>

-----------------------------------------------------------------------------
(***************************************************************************)
(* get_vip_ids: the cache, else the game server, then the rows.            *)
(***************************************************************************)
Got(q, all) ==
    /\ calls' = [calls EXCEPT ![q] = Tail(@)]
    /\ at' = [at EXCEPT ![q] = "query"]
    /\ list' = [list EXCEPT ![q] = IF q = Log THEN <<>> ELSE all]
    /\ UNCHANGED <<alone, fresh, target>>

Ask(q) ==
    /\ Does(q, "list", "ask")
    /\ IF cache = Nothing
       THEN Step(q, "read") /\ UNCHANGED <<alone, fresh, target>>
       ELSE Got(q, cache)
    /\ UNCHANGED <<now, vips, rows, cache, faults, given>>

ReadServer(q) ==
    /\ Does(q, "list", "read")
    /\ at' = [at EXCEPT ![q] = "store"]
    /\ list' = [list EXCEPT ![q] = [p \in vips |-> FALSE]]
    /\ UNCHANGED <<now, vips, rows, cache, calls, faults, ghosts>>

ReadRows(q) ==
    /\ Does(q, "list", "store")
    /\ LET all == [p \in DOMAIN list[q] |-> rows[p] # None]
       IN  cache' = all /\ Got(q, all)
    /\ UNCHANGED <<now, vips, rows, faults, given>>

-----------------------------------------------------------------------------
(***************************************************************************)
(* do_add_vip and do_remove_vip: with invalidates(get_vip_ids) the command *)
(* is sent; the row is written when the cache has been cleared again.      *)
(***************************************************************************)
ClearCache(q) ==
    /\ Does(q, "add", "clear") \/ Does(q, "remove", "clear")
    /\ cache' = Nothing
    /\ Step(q, "send")
    /\ UNCHANGED <<now, vips, rows, faults, ghosts>>

Sent(call) == IF call.do = "add" THEN vips \cup {call.player} ELSE vips \ {call.player}

\* A variant that takes no notice of a command that failed.
SendUnchecked(q) ==
    /\ Does(q, "add", "send") \/ Does(q, "remove", "send")
    /\ vips' \in {vips, Sent(Head(calls[q]))}
    /\ cache' = Nothing
    /\ Step(q, "record")
    /\ UNCHANGED <<now, rows, faults, ghosts>>

Send(q) ==
    /\ Does(q, "add", "send") \/ Does(q, "remove", "send")
    /\ vips' = Sent(Head(calls[q]))
    /\ cache' = Nothing
    /\ Step(q, "record")
    /\ UNCHANGED <<now, rows, faults, ghosts>>

\* do_add_vip updates the row or makes one, do_remove_vip deletes it.
Record(q) ==
    /\ Does(q, "add", "record") \/ Does(q, "remove", "record")
    /\ LET call == Head(calls[q]) IN
       /\ rows' = [rows EXCEPT ![call.player] = call.till]
       /\ given' = IF call.do = "add" /\ alone[q]
                   THEN [given EXCEPT ![call.player] = call.till] ELSE given
       /\ Goto(q, Tail(calls[q]), TRUE)
    /\ UNCHANGED <<now, vips, cache, faults>>

-----------------------------------------------------------------------------
(***************************************************************************)
(* The service and the job.                                                *)
(***************************************************************************)
\* Those the list has no expiration for.  A player who is not known to the
\* database gets no row; which ones are known is not followed.
Reconcile ==
    /\ Does(Expirer, "reconcile", "query")
    /\ \E known \in SUBSET {p \in DOMAIN list[Expirer] : ~list[Expirer][p]} :
          rows' = [p \in Players |-> IF p \in known THEN Indefinite ELSE rows[p]]
    /\ Goto(Expirer, <<>>, TRUE)
    /\ UNCHANGED <<now, vips, cache, faults, given>>

\* A variant that only adds.
ReplaceNothing(q) ==
    /\ Does(q, "replace", "query")
    /\ LET upload == target[q]
           order == SetToSeq(DOMAIN upload)
       IN  Goto(q, [i \in DOMAIN order |-> Call("add", order[i], upload[order[i]])], TRUE)
    /\ UNCHANGED <<now, vips, rows, cache, faults, given>>

\* The pool's threads work on different players, so one after the other.
Replace(q) ==
    /\ Does(q, "replace", "query")
    /\ LET upload == target[q]
           order == SetToSeq(DOMAIN upload)
       IN  Goto(q, Each("remove", DOMAIN list[q])
                   \o [i \in DOMAIN order |-> Call("add", order[i], upload[order[i]])], TRUE)
    /\ UNCHANGED <<now, vips, rows, cache, faults, given>>

-----------------------------------------------------------------------------
\* What is left after the first call of q raised: a future of the job, or all.
AfterRaise(q) ==
    {<<>>} \cup (IF target[q] \notin {Nothing, <<>>} /\ Head(calls[q]).do \in {"add", "remove"}
                 THEN {Tail(calls[q])} ELSE {})

\* A command that is refused, or whose answer is lost; a row that cannot be
\* written; a process that ends.  A command that raises does not clear the
\* cache a second time.
Fails(q) ==
    /\ Busy(q) /\ q # Log /\ faults < MaxFaults
    /\ faults' = faults + 1
    /\ vips' \in IF at[q] = "send" THEN {vips, Sent(Head(calls[q]))} ELSE {vips}
    /\ \E todo \in AfterRaise(q) : Goto(q, todo, FALSE)
    /\ UNCHANGED <<now, rows, cache, given>>

Lapse ==
    /\ cache # Nothing /\ cache' = Nothing
    /\ UNCHANGED <<now, vips, rows, calls, at, list, faults, ghosts>>

Tick ==
    /\ now < MaxTime /\ now' = now + 1
    /\ UNCHANGED <<vips, rows, cache, calls, at, list, faults, ghosts>>

Move(q) ==
    \/ Ask(q) \/ ReadServer(q) \/ ReadRows(q)
    \/ ClearCache(q) \/ Send(q) \/ Record(q)

Service == remove_expired_vips \/ Reconcile \/ Move(Expirer)

Next ==
    \/ Tick \/ Lapse
    \/ Service
    \/ _set_real_vips \/ ReadRows(Log)
    \/ \E q \in Requests :
          \/ RequestAdd(q) \/ RequestRemove(q) \/ bulk_vip(q)
          \/ do_remove_all_vips(q) \/ Replace(q) \/ Move(q)
    \/ \E q \in Processes : Fails(q)

Spec == Init /\ [][Next]_vars
FairSpec == Spec /\ WF_vars(Service)

-----------------------------------------------------------------------------
(* Properties *)

\* A VIP who was given until some time is one until then, whatever the service,
\* a stale cache and later failures do, unless it is taken back
\* (service.py:24, rcon.py:657).
VipLastsAsGiven ==
    \A p \in Players : given[p] # None /\ now <= given[p] => p \in vips

\* Who loses the row loses the VIP: the command comes first, "in case we have
\* errors" (rcon.py:622).  Otherwise the service would take the player for one
\* who is a VIP for ever.
RowGoneVipGone ==
    [][\A p \in Players, q \in Processes :
          /\ Busy(q) /\ calls'[q] # calls[q] /\ alone[q]
          /\ rows[p] # None /\ rows'[p] = None
          => p \notin vips]_vars

\* An upload leaves exactly its VIPs, with its expirations, and the removal of
\* all VIPs none, if nothing failed or was called beside it and the cache was
\* not stale (workers.py:280, rcon.py:727).
BulkLeavesTheList ==
    [][\A q \in Requests :
          /\ Busy(q) /\ calls'[q] = <<>> /\ faults' = faults
          /\ target[q] # Nothing /\ alone[q] /\ fresh[q]
          => /\ vips' = DOMAIN target[q]
             /\ \A p \in vips' : rows'[p] = target[q][p]]_vars

\* A VIP that has expired is taken away, or is given again.
ExpiredIsTakenAway ==
    \A p \in Players : [](p \in Expired => <>(p \notin Expired))

(* What the comments say, and the code does not do. *)

\* service.py:55, "Look for anyone with VIP but without a record and create one
\* for them": the list may be older than the row, which is then overwritten.
OnlyMissingRowsAreMade ==
    [][Reconcile => \A p \in Players : rows[p] # None => rows'[p] = rows[p]]_vars

=============================================================================
