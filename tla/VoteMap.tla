------------------------------ MODULE VoteMap -------------------------------
(***************************************************************************)
(* The vote for the next map: VoteMap (rcon/vote_map.py) as the hooks of   *)
(* the log loop (rcon/hooks.py) and the requests of the web server         *)
(* (rconweb/api/votemap.py) call it.  Votes and selection are Redis keys,  *)
(* every step is one Redis command; nothing locks them.  The hooks run one *)
(* after the other in one process, each request in one of its own.         *)
(*                                                                         *)
(* Changing the rotation is one step here, MapRotation has the commands.   *)
(* What the filters leave of the maps is arbitrary, but for the number of  *)
(* options.  Reminders and the whitelist are left out.                     *)
(***************************************************************************)
EXTENDS Naturals, FiniteSets

CONSTANTS
    Hooks,      \* the process of the log loop
    WebRequests,        \* the requests of the web server
    Players,
    Maps,
    NoMap,      \* no vote, no winner
    Options,    \* the number of options of a selection
    FromSelection   \* does default_method pick among the suggestions

ASSUME VoteAssumption ==
    /\ Hooks \notin WebRequests
    /\ NoMap \notin Maps
    /\ IsFiniteSet(Maps) /\ IsFiniteSet(Players)
    /\ Options \in Nat
    /\ FromSelection \in BOOLEAN

VARIABLES
    enabled,    \* the vote is enabled in the configuration
    votes,      \* VOTES
    selection,  \* MAP_SELECTION
    history,    \* MapsHistory has an entry
    chosen,     \* the map that apply_results saw alone in the rotation last
    pc,         \* where each process is
    job,        \* what it does
    seen,       \* the selection it has read or made
    picked,     \* next_map
    tries,      \* attempts of apply_with_retry that failed
    applied,    \* history: the last job ended with success of apply_results
    overlapped, \* history: two processes have been at work at once
    torn,       \* history: a process died inside set_selection
    made        \* history: a selection has been made

redis == <<enabled, votes, selection, history, chosen>>
locals == <<job, seen, picked, tries>>
voteVars == <<redis, pc, locals, applied, overlapped, torn, made>>

Procs == {Hooks} \cup WebRequests
Jobs(p) == IF p = Hooks THEN {"vote", "start", "end"} ELSE {"reset"}
Places == {"idle", "select", "cast", "clear", "generate", "drop", "push",
           "tally", "default", "rotate"}
NoVotes == [v \in Players |-> NoMap]

VoteTypeOK ==
    /\ enabled \in BOOLEAN
    /\ votes \in [Players -> Maps \cup {NoMap}]
    /\ selection \subseteq Maps
    /\ chosen \in Maps \cup {NoMap}
    /\ pc \in [Procs -> Places]
    /\ job \in [Procs -> {"vote", "start", "end", "reset"}]
    /\ seen \in [Procs -> SUBSET Maps]
    /\ picked \in [Procs -> Maps \cup {NoMap}]
    /\ tries \in [Procs -> {0, 1}]
    /\ history \in BOOLEAN
    /\ applied \in BOOLEAN /\ overlapped \in BOOLEAN
    /\ torn \in BOOLEAN /\ made \in BOOLEAN

VoteInit ==
    /\ enabled = TRUE
    /\ votes = NoVotes /\ selection = {} /\ chosen = NoMap
    /\ pc = [p \in Procs |-> "idle"]
    /\ job = [p \in Procs |-> IF p = Hooks THEN "vote" ELSE "reset"]
    /\ seen = [p \in Procs |-> {}]
    /\ picked = [p \in Procs |-> NoMap]
    /\ tries = [p \in Procs |-> 0]
    /\ history = FALSE
    /\ applied = FALSE /\ overlapped = FALSE /\ torn = FALSE /\ made = FALSE

-----------------------------------------------------------------------------
Goto(p, place) == pc' = [pc EXCEPT ![p] = place]

\* The job of p is over.
Finish(p, success) ==
    /\ Goto(p, "idle")
    /\ seen' = [seen EXCEPT ![p] = {}]
    /\ picked' = [picked EXCEPT ![p] = NoMap]
    /\ tries' = [tries EXCEPT ![p] = 0]
    /\ applied' = success
    /\ UNCHANGED <<job, overlapped>>

\* A player votes (count_vote), a match starts (it is recorded, then
\* initialise_vote_map), a match ends or a player opts out (apply_with_retry),
\* an admin resets the vote.
Begin(p) ==
    /\ pc[p] = "idle"
    /\ \E j \in Jobs(p) :
          /\ j = "vote" => enabled
          /\ job' = [job EXCEPT ![p] = j]
          /\ Goto(p, CASE j = "vote" -> "select" [] j = "end" -> "tally" [] OTHER -> "clear")
          /\ history' \in {history, history \/ j = "start"}
    /\ applied' = FALSE
    /\ overlapped' = (overlapped \/ \E q \in Procs : pc[q] # "idle")
    /\ UNCHANGED <<enabled, votes, selection, chosen, seen, picked, tries, torn, made>>

\* The configuration is changed.
Configure ==
    /\ enabled' = ~enabled
    /\ UNCHANGED <<votes, selection, history, chosen, pc, job, seen, picked, tries, applied,
                   overlapped, torn, made>>

-----------------------------------------------------------------------------
(* register_vote                                                           *)

\* The selection is read, unless the history of maps is empty.
ReadSelection(p) ==
    /\ pc[p] = "select"
    /\ IF history
       THEN seen' = [seen EXCEPT ![p] = selection] /\ Goto(p, "cast")
       ELSE UNCHANGED seen /\ Goto(p, "tally")
    /\ UNCHANGED <<redis, job, picked, tries, applied, overlapped, torn, made>>

\* hset: the player's vote replaces his earlier one; a number that is not in
\* the selection is refused.  Either way apply_results follows.
CastVote(p) ==
    /\ pc[p] = "cast"
    /\ \/ \E v \in Players, m \in seen[p] : votes' = [votes EXCEPT ![v] = m]
       \/ UNCHANGED votes
    /\ Goto(p, "tally")
    /\ seen' = [seen EXCEPT ![p] = {}]
    /\ UNCHANGED <<enabled, selection, history, chosen, job, picked, tries, applied, overlapped, torn, made>>

-----------------------------------------------------------------------------
(* initialise_vote_map and reset_votemap_state                             *)

\* A variant that clears the votes of the last player only.
ForgetOne(p) ==
    /\ pc[p] = "clear"
    /\ \E v \in Players : votes' = [votes EXCEPT ![v] = NoMap]
    /\ Goto(p, "generate")
    /\ UNCHANGED <<enabled, selection, history, chosen, job, seen, picked, tries, applied, overlapped, torn, made>>

ClearVotes(p) ==
    /\ pc[p] = "clear"
    /\ votes' = NoVotes
    /\ Goto(p, "generate")
    /\ UNCHANGED <<enabled, selection, history, chosen, job, seen, picked, tries, applied, overlapped, torn, made>>

\* A variant that takes an empty suggestion for good.
GenerateAnything(p) ==
    /\ pc[p] = "generate"
    /\ \E s \in SUBSET Maps :
          Cardinality(s) <= Options /\ seen' = [seen EXCEPT ![p] = s]
    /\ Goto(p, "drop")
    /\ UNCHANGED <<redis, job, picked, tries, applied, overlapped, torn, made>>

\* suggest_next_maps: never an empty selection.
Generate(p) ==
    /\ pc[p] = "generate"
    /\ \E s \in SUBSET Maps :
          s # {} /\ Cardinality(s) <= Options /\ seen' = [seen EXCEPT ![p] = s]
    /\ Goto(p, "drop")
    /\ UNCHANGED <<redis, job, picked, tries, applied, overlapped, torn, made>>

\* RestrictiveFilterError for the fallback too, or the game server does not
\* answer: nothing more is done.
GenerateFails(p) ==
    /\ pc[p] = "generate"
    /\ Finish(p, FALSE)
    /\ UNCHANGED <<redis, torn, made>>

\* set_selection: delete, then lpush.
DropSelection(p) ==
    /\ pc[p] = "drop"
    /\ selection' = {}
    /\ Goto(p, "push")
    /\ UNCHANGED <<enabled, votes, history, chosen, job, seen, picked, tries, applied, overlapped, torn, made>>

PushSelection(p) ==
    /\ pc[p] = "push"
    /\ selection' = selection \cup seen[p]
    /\ made' = TRUE
    /\ Goto(p, "tally")
    /\ seen' = [seen EXCEPT ![p] = {}]
    /\ UNCHANGED <<enabled, votes, history, chosen, job, picked, tries, applied, overlapped, torn>>

-----------------------------------------------------------------------------
(* apply_results                                                           *)

Count(m) == Cardinality({v \in Players : votes[v] = m})

\* most_common(1) takes any of the maps with the most votes.
Leaders == {m \in Maps : Count(m) > 0 /\ \A n \in Maps : Count(n) <= Count(m)}

\* A variant that takes any map somebody voted for.
TallyAny(p) ==
    /\ pc[p] = "tally"
    /\ IF ~enabled
       THEN Finish(p, FALSE)
       ELSE /\ IF votes = NoVotes
               THEN Goto(p, "default") /\ UNCHANGED picked
               ELSE Goto(p, "rotate") /\ \E v \in Players :
                      votes[v] # NoMap /\ picked' = [picked EXCEPT ![p] = votes[v]]
            /\ UNCHANGED <<job, seen, tries, applied, overlapped>>
    /\ UNCHANGED <<redis, torn, made>>

Tally(p) ==
    /\ pc[p] = "tally"
    /\ IF ~enabled
       THEN Finish(p, FALSE)
       ELSE /\ IF votes = NoVotes
               THEN Goto(p, "default") /\ UNCHANGED picked
               ELSE Goto(p, "rotate") /\ \E m \in Leaders : picked' = [picked EXCEPT ![p] = m]
            /\ UNCHANGED <<job, seen, tries, applied, overlapped>>
    /\ UNCHANGED <<redis, torn, made>>

\* pick_default_next_map: the whitelist has to do while nothing was played.
PickDefault(p) ==
    /\ pc[p] = "default"
    /\ \E m \in (IF FromSelection /\ history THEN selection ELSE Maps) :
          picked' = [picked EXCEPT ![p] = m]
    /\ Goto(p, "rotate")
    /\ UNCHANGED <<redis, job, seen, tries, applied, overlapped, torn, made>>

Rotate(p) ==
    /\ pc[p] = "rotate"
    /\ chosen' = picked[p]
    /\ Finish(p, TRUE)
    /\ UNCHANGED <<enabled, votes, selection, history, torn, made>>

\* No default is left after the filters, the rotation was not what it should
\* be, or Redis or the game server failed; apply_with_retry tries once more.
ApplyFails(p) ==
    /\ pc[p] \in {"tally", "default", "rotate"}
    /\ chosen' \in {chosen, NoMap}
    /\ pc[p] # "rotate" => chosen' = chosen
    /\ IF job[p] = "end" /\ tries[p] = 0
       THEN /\ tries' = [tries EXCEPT ![p] = 1]
            /\ picked' = [picked EXCEPT ![p] = NoMap]
            /\ Goto(p, "tally")
            /\ UNCHANGED <<job, seen, applied, overlapped>>
       ELSE Finish(p, FALSE)
    /\ UNCHANGED <<enabled, votes, selection, history, torn, made>>

\* The process is killed, or Redis fails, anywhere.
Crash(p) ==
    /\ pc[p] # "idle"
    /\ torn' = (torn \/ pc[p] = "push")
    /\ Finish(p, FALSE)
    /\ UNCHANGED <<redis, made>>

Step(p) ==
    \/ Begin(p) \/ ReadSelection(p) \/ CastVote(p)
    \/ ClearVotes(p) \/ Generate(p) \/ GenerateFails(p)
    \/ DropSelection(p) \/ PushSelection(p)
    \/ Tally(p) \/ PickDefault(p) \/ Rotate(p) \/ ApplyFails(p) \/ Crash(p)

VoteNext == Configure \/ \E p \in Procs : Step(p)

VoteSpec == VoteInit /\ [][VoteNext]_voteVars

-----------------------------------------------------------------------------
(* Properties                                                              *)

OnTheBallot == \A v \in Players : votes[v] # NoMap => votes[v] \in selection

\* Every recorded vote is for a map players can still choose: a new selection
\* comes with a new vote, even if the process dies half way, as long as a
\* request never falls into a hook or another request.
VotesAreForTheSelection == ~overlapped => OnTheBallot

\* When a job has ended well, the next map is one with the most votes, and
\* without votes the default; nothing in between changed the votes.
WinnerIsNext ==
    ~overlapped /\ applied =>
        IF votes = NoVotes
        THEN FromSelection /\ history => chosen \in selection
        ELSE chosen \in Leaders

\* Two selections are never mixed into one that is longer than configured.
SelectionHasItsSize == ~overlapped => Cardinality(selection) <= Options

\* Once made, the selection is only ever empty inside set_selection, unless
\* a process died there.
SelectionStays ==
    made /\ ~overlapped /\ ~torn /\ (\A p \in Procs : pc[p] # "push") =>
        selection # {}

(* What the code says of itself, and does not do.                          *)

\* vote_map.py:789, "is not part of vote selection" is logged as an error: the
\* winner of a vote is one of the maps that players could choose.
WinnerIsOnTheBallot ==
    [][\A p \in Procs :
          pc[p] = "tally" /\ pc'[p] = "rotate" => picked'[p] \in selection]_voteVars
=============================================================================
