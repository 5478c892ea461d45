----------------------------- MODULE HooksProofs -----------------------------
(***************************************************************************)
(* Proofs about what the hooks of the log loop keep, next to the requests  *)
(* of the web server: the vote (VoteMap), and sessions, blacklist and bans *)
(* of a player (PlayerHooks).  The two share no variable.                  *)
(***************************************************************************)
EXTENDS VoteMap, PlayerHooks, FiniteSetTheorems, TLAPS

-----------------------------------------------------------------------------
(***************************************************************************)
(* VoteMap, for all players, maps, requests and options.                   *)
(*                                                                         *)
(* The properties speak of the times before a request has overlapped with  *)
(* the hooks or with another request.  What makes them inductive is that   *)
(* until then one process at most is at work, so that what it has read is  *)
(* still so: the selection (ReadIsCurrent), the votes it has cleared       *)
(* (VotesAreCleared) and the winner it has found (PickedIsWinner).         *)
(***************************************************************************)

Alone == \A p, q \in Procs : pc[p] # "idle" /\ pc[q] # "idle" => p = q

ReadIsCurrent == \A p \in Procs : pc[p] = "cast" => seen[p] = selection

VotesAreCleared ==
    \A p \in Procs : pc[p] \in {"generate", "drop", "push", "default"} => votes = NoVotes

MadeIsGood ==
    \A p \in Procs :
        /\ pc[p] \in {"drop", "push"} => seen[p] # {} /\ Cardinality(seen[p]) <= Options
        /\ pc[p] = "push" => selection = {}

Wins(m) ==
    IF votes = NoVotes
    THEN FromSelection /\ history => m \in selection
    ELSE m \in Leaders

PickedIsWinner == \A p \in Procs : pc[p] = "rotate" => Wins(picked[p])

DoneIsIdle == applied => \A p \in Procs : pc[p] = "idle"

SelectionIsGood ==
    /\ Cardinality(selection) <= Options
    /\ made /\ ~torn /\ (\A p \in Procs : pc[p] # "push") => selection # {}

\* What holds until processes overlap.
Kept ==
    /\ Alone /\ ReadIsCurrent /\ VotesAreCleared /\ MadeIsGood
    /\ PickedIsWinner /\ DoneIsIdle
    /\ OnTheBallot /\ SelectionIsGood
    /\ applied => Wins(chosen)

VoteInv ==
    /\ VoteTypeOK
    /\ ~overlapped => Kept

-----------------------------------------------------------------------------
(* Types                                                                   *)

LEMMA VoteInitInv == VoteInit => VoteInv
<1> SUFFICES ASSUME VoteInit PROVE VoteInv
    OBVIOUS
<1>1. VoteTypeOK
    BY DEF VoteInit, VoteTypeOK, Procs, Places, NoVotes
<1>2. Alone /\ ReadIsCurrent /\ VotesAreCleared /\ MadeIsGood /\ PickedIsWinner
    BY DEF VoteInit, Procs, Alone, ReadIsCurrent, VotesAreCleared, MadeIsGood, PickedIsWinner
<1>3. DoneIsIdle /\ OnTheBallot /\ ~applied /\ ~made
    BY DEF VoteInit, Procs, DoneIsIdle, OnTheBallot, NoVotes
<1>4. SelectionIsGood
    BY VoteAssumption, FS_EmptySet DEF VoteInit, SelectionIsGood
<1> QED
    BY <1>1, <1>2, <1>3, <1>4 DEF VoteInv, Kept

LEMMA VoteTypeStep == VoteTypeOK /\ [VoteNext]_voteVars => VoteTypeOK'
<1> SUFFICES ASSUME VoteTypeOK, [VoteNext]_voteVars PROVE VoteTypeOK'
    OBVIOUS
<1> USE DEF VoteTypeOK, Places, redis, locals
<1>1. ASSUME Configure PROVE VoteTypeOK'
    BY <1>1 DEF Configure
<1>2. ASSUME NEW p \in Procs, Step(p) PROVE VoteTypeOK'
    <2>1. CASE Begin(p)
        BY <2>1 DEF Begin, Jobs, Goto
    <2>2. CASE ReadSelection(p)
        BY <2>2 DEF ReadSelection, Goto
    <2>3. CASE CastVote(p)
        <3>1. votes' \in [Players -> Maps \cup {NoMap}]
            BY <2>3 DEF CastVote
        <3> QED
            BY <2>3, <3>1 DEF CastVote, Goto
    <2>4. CASE ClearVotes(p)
        BY <2>4 DEF ClearVotes, NoVotes, Goto
    <2>5. CASE Generate(p)
        BY <2>5 DEF Generate, Goto
    <2>6. CASE GenerateFails(p)
        BY <2>6 DEF GenerateFails, Finish, Goto
    <2>7. CASE DropSelection(p)
        BY <2>7 DEF DropSelection, Goto
    <2>8. CASE PushSelection(p)
        BY <2>8 DEF PushSelection, Goto
    <2>9. CASE Tally(p)
        <3>1. CASE ~enabled
            BY <2>9, <3>1 DEF Tally, Finish, Goto
        <3>2. CASE enabled
            BY <2>9, <3>2 DEF Tally, Leaders, Goto
        <3> QED
            BY <3>1, <3>2
    <2>10. CASE PickDefault(p)
        BY <2>10 DEF PickDefault, Goto
    <2>11. CASE Rotate(p)
        BY <2>11 DEF Rotate, Finish, Goto
    <2>12. CASE ApplyFails(p)
        BY <2>12 DEF ApplyFails, Finish, Goto
    <2>13. CASE Crash(p)
        BY <2>13 DEF Crash, Finish, Goto
    <2> QED
        BY <1>2, <2>1, <2>2, <2>3, <2>4, <2>5, <2>6, <2>7, <2>8, <2>9, <2>10, <2>11, <2>12,
           <2>13 DEF Step
<1>3. ASSUME UNCHANGED voteVars PROVE VoteTypeOK'
    BY <1>3 DEF voteVars
<1> QED
    BY <1>1, <1>2, <1>3 DEF VoteNext

\* The vote map's type invariant: every key and every local variable has a
\* value the code could have put there, retries are not more than one.
THEOREM VoteTypeCorrect == VoteSpec => []VoteTypeOK
<1>1. VoteInit => VoteTypeOK
    BY VoteInitInv DEF VoteInv
<1> QED
    BY <1>1, VoteTypeStep, PTL DEF VoteSpec

-----------------------------------------------------------------------------
(* Until processes overlap                                                 *)

\* A process at work is the only one.
LEMMA OthersAreIdle ==
    ASSUME VoteTypeOK, Kept, NEW p \in Procs, pc[p] # "idle"
    PROVE  ~applied /\ \A q \in Procs \ {p} : pc[q] = "idle"
BY DEF Kept, Alone, DoneIsIdle

\* A job ends: everything about processes at work is void.
LEMMA FinishStep ==
    ASSUME VoteTypeOK, Kept, NEW p \in Procs, pc[p] # "idle", NEW success \in BOOLEAN,
           Finish(p, success)
    PROVE  /\ \A q \in Procs : pc'[q] = "idle"
           /\ applied' = success
           /\ Alone' /\ ReadIsCurrent' /\ VotesAreCleared' /\ MadeIsGood'
           /\ PickedIsWinner' /\ DoneIsIdle'
<1>1. \A q \in Procs : pc'[q] = "idle"
    BY OthersAreIdle DEF VoteTypeOK, Finish, Goto
<1>2. applied' = success
    BY DEF Finish
<1> QED
    BY <1>1, <1>2 DEF Alone, ReadIsCurrent, VotesAreCleared, MadeIsGood, PickedIsWinner,
                      DoneIsIdle

\* p goes on to another place, the others stay idle.
LEMMA GotoStep ==
    ASSUME VoteTypeOK, Kept, NEW p \in Procs, pc[p] # "idle", NEW place \in Places,
           Goto(p, place), applied' = applied
    PROVE  /\ pc'[p] = place
           /\ \A q \in Procs \ {p} : pc'[q] = "idle"
           /\ ~applied'
           /\ Alone' /\ DoneIsIdle'
<1>1. /\ pc'[p] = place
      /\ \A q \in Procs \ {p} : pc'[q] = "idle"
      /\ ~applied'
    BY OthersAreIdle DEF VoteTypeOK, Goto
<1> QED
    BY <1>1 DEF Alone, DoneIsIdle

\* The winner stays one while votes, selection, history stay.
LEMMA WinsStays ==
    ASSUME UNCHANGED <<votes, selection, history>>, NEW m
    PROVE  Wins(m) <=> Wins(m)'
BY DEF Wins, Leaders, Count

\* A step that leaves the selection alone leaves it good.
LEMMA SelectionStaysGood ==
    ASSUME VoteTypeOK, Kept, NEW p \in Procs, pc[p] \notin {"idle", "push"},
           UNCHANGED <<selection, torn, made>>
    PROVE  SelectionIsGood'
<1>1. \A q \in Procs : pc[q] # "push"
    BY OthersAreIdle
<1> QED
    BY <1>1 DEF Kept, SelectionIsGood

LEMMA StepKept ==
    ASSUME VoteInv, ~overlapped, ~overlapped', NEW p \in Procs, Step(p)
    PROVE  Kept'
<1>0. VoteTypeOK /\ Kept
    BY DEF VoteInv
<1> USE <1>0
<1> USE DEF redis, Places
<1>1. CASE Begin(p)
    <2>1. /\ \A q \in Procs : pc[q] = "idle"
          /\ \A q \in Procs \ {p} : pc'[q] = "idle"
          /\ pc'[p] \in {"select", "tally", "clear"}
          /\ ~applied'
          /\ UNCHANGED <<votes, selection, torn, made>>
        BY <1>1 DEF Begin, Goto, VoteTypeOK
    <2>2. /\ Alone' /\ ReadIsCurrent' /\ VotesAreCleared' /\ MadeIsGood'
          /\ PickedIsWinner' /\ DoneIsIdle'
        BY <2>1 DEF Alone, ReadIsCurrent, VotesAreCleared, MadeIsGood, PickedIsWinner,
                    DoneIsIdle
    <2> QED
        BY <2>1, <2>2 DEF Kept, OnTheBallot, SelectionIsGood
<1>2. CASE ReadSelection(p)
    <2>1. UNCHANGED <<votes, selection, torn, made>> /\ pc[p] = "select"
        BY <1>2 DEF ReadSelection
    <2>0. SelectionIsGood'
        BY <2>1, SelectionStaysGood
    <2>2. CASE history
        <3>1. pc'[p] = "cast" /\ (\A q \in Procs \ {p} : pc'[q] = "idle") /\ ~applied'
              /\ Alone' /\ DoneIsIdle'
            BY <1>2, <2>1, <2>2, GotoStep DEF ReadSelection
        <3>2. seen'[p] = selection
            BY <1>2, <2>2 DEF ReadSelection, VoteTypeOK
        <3> QED
            BY <2>0, <2>1, <3>1, <3>2 DEF Kept, OnTheBallot, ReadIsCurrent, VotesAreCleared,
                                    MadeIsGood, PickedIsWinner
    <2>3. CASE ~history
        <3>1. pc'[p] = "tally" /\ (\A q \in Procs \ {p} : pc'[q] = "idle") /\ ~applied'
              /\ Alone' /\ DoneIsIdle'
            BY <1>2, <2>1, <2>3, GotoStep DEF ReadSelection
        <3> QED
            BY <2>0, <2>1, <3>1 DEF Kept, OnTheBallot, ReadIsCurrent, VotesAreCleared,
                              MadeIsGood, PickedIsWinner
    <2> QED
        BY <2>2, <2>3
<1>3. CASE CastVote(p)
    <2>1. UNCHANGED <<selection, torn, made>> /\ pc[p] = "cast"
        BY <1>3 DEF CastVote
    <2>0. SelectionIsGood'
        BY <2>1, SelectionStaysGood
    <2>2. pc'[p] = "tally" /\ (\A q \in Procs \ {p} : pc'[q] = "idle") /\ ~applied'
          /\ Alone' /\ DoneIsIdle'
        BY <1>3, <2>1, GotoStep DEF CastVote
    <2>3. OnTheBallot'
        <3>1. seen[p] = selection /\ OnTheBallot
            BY <2>1 DEF Kept, ReadIsCurrent
        <3> QED
            BY <1>3, <2>1, <3>1 DEF CastVote, OnTheBallot, VoteTypeOK
    <2> QED
        BY <2>0, <2>1, <2>2, <2>3 DEF Kept, ReadIsCurrent, VotesAreCleared, MadeIsGood,
                                PickedIsWinner
<1>4. CASE ClearVotes(p)
    <2>1. UNCHANGED <<selection, torn, made>> /\ pc[p] = "clear" /\ votes' = NoVotes
        BY <1>4 DEF ClearVotes
    <2>0. SelectionIsGood'
        BY <2>1, SelectionStaysGood
    <2>2. pc'[p] = "generate" /\ (\A q \in Procs \ {p} : pc'[q] = "idle") /\ ~applied'
          /\ Alone' /\ DoneIsIdle'
        BY <1>4, <2>1, GotoStep DEF ClearVotes
    <2>3. OnTheBallot' /\ VotesAreCleared'
        BY <2>1 DEF OnTheBallot, VotesAreCleared, NoVotes
    <2> QED
        BY <2>0, <2>1, <2>2, <2>3 DEF Kept, ReadIsCurrent, MadeIsGood, PickedIsWinner
<1>5. CASE Generate(p)
    <2>1. UNCHANGED <<votes, selection, torn, made>> /\ pc[p] = "generate"
        BY <1>5 DEF Generate
    <2>0. SelectionIsGood'
        BY <2>1, SelectionStaysGood
    <2>2. pc'[p] = "drop" /\ (\A q \in Procs \ {p} : pc'[q] = "idle") /\ ~applied'
          /\ Alone' /\ DoneIsIdle'
        BY <1>5, <2>1, GotoStep DEF Generate
    <2>3. seen'[p] # {} /\ Cardinality(seen'[p]) <= Options
        BY <1>5 DEF Generate, VoteTypeOK
    <2>4. VotesAreCleared' /\ MadeIsGood'
        BY <2>1, <2>2, <2>3 DEF Kept, VotesAreCleared, MadeIsGood, NoVotes
    <2> QED
        BY <2>0, <2>1, <2>2, <2>4 DEF Kept, ReadIsCurrent, OnTheBallot, PickedIsWinner
<1>6. CASE GenerateFails(p)
    <2>1. UNCHANGED <<votes, selection, torn, made>> /\ pc[p] = "generate"
        BY <1>6 DEF GenerateFails
    <2>0. SelectionIsGood'
        BY <2>1, SelectionStaysGood
    <2> QED
        BY <2>0, <1>6, <2>1, FinishStep DEF GenerateFails, Kept, OnTheBallot
<1>7. CASE DropSelection(p)
    <2>1. UNCHANGED <<votes, seen, torn, made>> /\ pc[p] = "drop" /\ selection' = {}
        BY <1>7 DEF DropSelection
    <2>2. pc'[p] = "push" /\ (\A q \in Procs \ {p} : pc'[q] = "idle") /\ ~applied'
          /\ Alone' /\ DoneIsIdle'
        BY <1>7, <2>1, GotoStep DEF DropSelection
    <2>3. votes = NoVotes /\ seen[p] # {} /\ Cardinality(seen[p]) <= Options
        BY <2>1 DEF Kept, VotesAreCleared, MadeIsGood
    <2>4. VotesAreCleared' /\ MadeIsGood' /\ OnTheBallot'
        BY <2>1, <2>2, <2>3 DEF VotesAreCleared, MadeIsGood, OnTheBallot, NoVotes
    <2>5. SelectionIsGood'
        BY <2>1, <2>2, FS_EmptySet, VoteAssumption DEF SelectionIsGood
    <2> QED
        BY <2>1, <2>2, <2>4, <2>5 DEF Kept, ReadIsCurrent, PickedIsWinner
<1>8. CASE PushSelection(p)
    <2>1. UNCHANGED <<votes, torn>> /\ pc[p] = "push"
          /\ selection' = selection \cup seen[p]
        BY <1>8 DEF PushSelection
    <2>2. pc'[p] = "tally" /\ (\A q \in Procs \ {p} : pc'[q] = "idle") /\ ~applied'
          /\ Alone' /\ DoneIsIdle'
        BY <1>8, <2>1, GotoStep DEF PushSelection
    <2>3. /\ votes = NoVotes /\ selection = {}
          /\ seen[p] # {} /\ Cardinality(seen[p]) <= Options
        BY <2>1 DEF Kept, VotesAreCleared, MadeIsGood
    <2>4. selection' # {} /\ Cardinality(selection)' <= Options
        <3>1. selection' = seen[p]
            BY <2>1, <2>3
        <3> QED
            BY <2>3, <3>1
    <2>5. OnTheBallot'
        BY <2>1, <2>3 DEF OnTheBallot, NoVotes
    <2> QED
        BY <2>2, <2>4, <2>5 DEF Kept, SelectionIsGood, ReadIsCurrent, VotesAreCleared, MadeIsGood,
                                PickedIsWinner
<1>9. CASE Tally(p)
    <2>1. UNCHANGED <<votes, selection, history, torn, made>> /\ pc[p] = "tally"
        BY <1>9 DEF Tally
    <2>0. SelectionIsGood'
        BY <2>1, SelectionStaysGood
    <2>2. CASE ~enabled
        BY <2>0, <1>9, <2>1, <2>2, FinishStep DEF Tally, Kept, OnTheBallot
    <2>3. CASE enabled /\ votes = NoVotes
        <3>1. pc'[p] = "default" /\ (\A q \in Procs \ {p} : pc'[q] = "idle") /\ ~applied'
              /\ Alone' /\ DoneIsIdle'
            BY <1>9, <2>1, <2>3, GotoStep DEF Tally
        <3> QED
            BY <2>0, <2>1, <2>3, <3>1 DEF Kept, ReadIsCurrent, VotesAreCleared, MadeIsGood,
                                    PickedIsWinner, OnTheBallot, NoVotes
    <2>4. CASE enabled /\ votes # NoVotes
        <3>1. pc'[p] = "rotate" /\ (\A q \in Procs \ {p} : pc'[q] = "idle") /\ ~applied'
              /\ Alone' /\ DoneIsIdle'
            BY <1>9, <2>1, <2>4, GotoStep DEF Tally
        <3>2. picked'[p] \in Leaders
            BY <1>9, <2>4 DEF Tally, VoteTypeOK
        <3>3. Wins(picked'[p])
            BY <2>4, <3>2 DEF Wins
        <3>4. PickedIsWinner'
            BY <2>1, <3>1, <3>3, WinsStays DEF PickedIsWinner, Wins, Leaders, Count, NoVotes
        <3> QED
            BY <2>0, <2>1, <3>1, <3>4 DEF Kept, ReadIsCurrent, VotesAreCleared, MadeIsGood,
                                    OnTheBallot
    <2> QED
        BY <2>2, <2>3, <2>4
<1>10. CASE PickDefault(p)
    <2>1. UNCHANGED <<votes, selection, history, torn, made>> /\ pc[p] = "default"
        BY <1>10 DEF PickDefault
    <2>0. SelectionIsGood'
        BY <2>1, SelectionStaysGood
    <2>2. pc'[p] = "rotate" /\ (\A q \in Procs \ {p} : pc'[q] = "idle") /\ ~applied'
          /\ Alone' /\ DoneIsIdle'
        BY <1>10, <2>1, GotoStep DEF PickDefault
    <2>3. votes = NoVotes
        BY <2>1 DEF Kept, VotesAreCleared
    <2>4. FromSelection /\ history => picked'[p] \in selection
        BY <1>10 DEF PickDefault, VoteTypeOK
    <2>5. PickedIsWinner'
        BY <2>1, <2>2, <2>3, <2>4 DEF PickedIsWinner, Wins, NoVotes
    <2> QED
        BY <2>0, <2>1, <2>2, <2>5 DEF Kept, ReadIsCurrent, VotesAreCleared, MadeIsGood,
                                OnTheBallot
<1>11. CASE Rotate(p)
    <2>1. /\ UNCHANGED <<votes, selection, history, torn, made>> /\ pc[p] = "rotate"
          /\ chosen' = picked[p]
        BY <1>11 DEF Rotate
    <2>0. SelectionIsGood'
        BY <2>1, SelectionStaysGood
    <2>2. Wins(picked[p])
        BY <2>1 DEF Kept, PickedIsWinner
    <2>3. Wins(chosen)'
        BY <2>1, <2>2 DEF Wins, Leaders, Count, NoVotes
    <2> QED
        BY <2>0, <1>11, <2>1, <2>3, FinishStep DEF Rotate, Kept, OnTheBallot
<1>12. CASE ApplyFails(p)
    <2>1. /\ UNCHANGED <<votes, selection, history, torn, made>>
          /\ pc[p] \in {"tally", "default", "rotate"}
        BY <1>12 DEF ApplyFails
    <2>0. SelectionIsGood'
        BY <2>1, SelectionStaysGood
    <2>2. CASE job[p] = "end" /\ tries[p] = 0
        <3>1. pc'[p] = "tally" /\ (\A q \in Procs \ {p} : pc'[q] = "idle") /\ ~applied'
              /\ Alone' /\ DoneIsIdle'
            BY <1>12, <2>1, <2>2, GotoStep DEF ApplyFails
        <3> QED
            BY <2>0, <2>1, <3>1 DEF Kept, ReadIsCurrent, VotesAreCleared, MadeIsGood,
                              PickedIsWinner, OnTheBallot
    <2>3. CASE ~(job[p] = "end" /\ tries[p] = 0)
        BY <2>0, <1>12, <2>1, <2>3, FinishStep DEF ApplyFails, Kept, OnTheBallot
    <2> QED
        BY <2>2, <2>3
<1>13. CASE Crash(p)
    <2>1. UNCHANGED <<votes, selection, history, made>> /\ pc[p] # "idle"
          /\ torn' = (torn \/ pc[p] = "push")
        BY <1>13 DEF Crash
    <2>2. \A q \in Procs \ {p} : pc[q] = "idle"
        BY <2>1, OthersAreIdle
    <2>3. SelectionIsGood'
        BY <2>1, <2>2 DEF Kept, SelectionIsGood
    <2> QED
        BY <1>13, <2>1, <2>3, FinishStep DEF Crash, Kept, OnTheBallot
<1> QED
    BY <1>1, <1>2, <1>3, <1>4, <1>5, <1>6, <1>7, <1>8, <1>9, <1>10, <1>11, <1>12, <1>13 DEF Step

\* Once processes have overlapped, they have for good.
LEMMA OverlapStays == [VoteNext]_voteVars => (overlapped => overlapped')
<1> SUFFICES ASSUME overlapped, [VoteNext]_voteVars PROVE overlapped'
    OBVIOUS
<1>1. ASSUME NEW p \in Procs, Step(p) PROVE overlapped'
    BY <1>1 DEF Step, Begin, ReadSelection, CastVote, ClearVotes, Generate, GenerateFails,
        DropSelection, PushSelection, Tally, PickDefault, Rotate, ApplyFails, Crash, Finish
<1> QED
    BY <1>1 DEF VoteNext, Configure, voteVars

LEMMA VoteNextInv == VoteInv /\ [VoteNext]_voteVars => VoteInv'
<1> SUFFICES ASSUME VoteInv, [VoteNext]_voteVars PROVE VoteInv'
    OBVIOUS
<1>1. VoteTypeOK'
    BY VoteTypeStep DEF VoteInv
<1>2. ASSUME ~overlapped' PROVE Kept'
    <2>1. ~overlapped
        BY <1>2, OverlapStays
    <2>2. ASSUME NEW p \in Procs, Step(p) PROVE Kept'
        BY <1>2, <2>1, <2>2, StepKept
    <2>3. CASE UNCHANGED <<redis, pc, seen, picked, applied, torn, made>>
        BY <2>1, <2>3 DEF VoteInv, Kept, redis, Alone, ReadIsCurrent, VotesAreCleared, MadeIsGood,
            PickedIsWinner, DoneIsIdle, OnTheBallot, SelectionIsGood, Wins, Leaders, Count,
            NoVotes
    <2>4. CASE Configure
        BY <2>1, <2>4 DEF Configure, VoteInv, Kept, Alone, ReadIsCurrent, VotesAreCleared,
            MadeIsGood, PickedIsWinner, DoneIsIdle, OnTheBallot, SelectionIsGood, Wins,
            Leaders, Count, NoVotes
    <2> QED
        BY <2>2, <2>3, <2>4 DEF VoteNext, voteVars, locals
<1> QED
    BY <1>1, <1>2 DEF VoteInv

LEMMA VoteInvariance == VoteSpec => []VoteInv
BY VoteInitInv, VoteNextInv, PTL DEF VoteSpec

-----------------------------------------------------------------------------
(* The properties                                                          *)

\* Until a request falls into a hook or another request, every recorded vote
\* is for a map of the current selection, whatever dies or fails in between.
THEOREM VotesFitSelection == VoteSpec => []VotesAreForTheSelection
<1>1. VoteInv => VotesAreForTheSelection
    BY DEF VoteInv, Kept, VotesAreForTheSelection
<1> QED
    BY <1>1, VoteInvariance, PTL

\* And a job that ends with success leaves the winner, or without votes the
\* default, as the next map.
THEOREM WinnerIsApplied == VoteSpec => []WinnerIsNext
<1>1. VoteInv => WinnerIsNext
    BY DEF VoteInv, Kept, Wins, WinnerIsNext
<1> QED
    BY <1>1, VoteInvariance, PTL

\* And a selection never has more maps than configured, though it is replaced
\* by two commands that a crash can separate.
THEOREM SelectionIsBounded == VoteSpec => []SelectionHasItsSize
<1>1. VoteInv => SelectionHasItsSize
    BY DEF VoteInv, Kept, SelectionIsGood, SelectionHasItsSize
<1> QED
    BY <1>1, VoteInvariance, PTL

\* And it is empty only inside set_selection, or after a process died there.
THEOREM SelectionIsKept == VoteSpec => []SelectionStays
<1>1. VoteInv => SelectionStays
    BY DEF VoteInv, Kept, SelectionIsGood, SelectionStays
<1> QED
    BY <1>1, VoteInvariance, PTL

-----------------------------------------------------------------------------
(***************************************************************************)
(* PlayerHooks, for any two servers, all configurations, and any number of *)
(* visits and failures.                                                    *)
(*                                                                         *)
(* The invariant says which calls a process can have before it (CallOK):   *)
(* a log loop those of its hooks, a timer's thread those of its notice or  *)
(* its pardon, Web those of its request with the scope that an exception   *)
(* ends.  Then, for each property: who is due for a ban has the line of    *)
(* his visit or a ban by name before him (EnforceInv); a notification and  *)
(* its pardon stay together among the timers, so that the pardon follows   *)
(* the notification that is running (PardonInv); and what an unban has yet *)
(* to remove is all that is left on the server (UnbanInv), because as long *)
(* as nobody else bans a cached list lacks no ban (ListsInv).              *)
(***************************************************************************)
\* The calls a process can have before it.
Kinds == {"temp", "pineapple", "perma"} \X {"name", "id"}

Whats ==
    {"start session", "end session", "check blacklist", "check VAC", "check store",
     "check name", "cancel timers", "ban", "enlist", "kick", "message",
     "find temp ban", "remove", "get bans", "unlist"}
Args == Nat \cup Bans \cup {"name", "id"} \cup Kinds

Calls == [do : Whats, on : Servers, arg : Args, scope : 1 .. 4]

\* What a log loop calls when it is a hook's turn.
LoopCall(s, c) ==
    /\ c.on = s
    /\ c.do \in {"start session", "end session", "check blacklist", "check VAC", "check store",
                 "check name", "cancel timers", "ban", "enlist", "kick"}
    /\ c.do = "start session" => \E v \in 1 .. visits : c.arg = Connected(v)
    /\ c.do = "end session" => \E v \in 1 .. visits : c.arg = Disconnected(v)
    /\ c.do = "check store" => config.windows_store # "none"
    /\ c.do = "check name" => config.name # "fine"
    /\ c.do = "ban" => c.arg \in {"temp", "perma"} \X {"name", "id"}

\* What the thread of a notification calls.
NotifierCall(s, c) ==
    /\ c.on = s /\ c.do \in {"message", "kick", "ban"}
    /\ c.do = "ban" =>
          c.arg = <<IF config.name = "pineapple" THEN "pineapple" ELSE "temp", "id">>

\* What the thread of a pardon calls.
PardonerCall(s, c) ==
    /\ c.on = s /\ c.do \in {"find temp ban", "remove"}
    /\ c.do = "remove" => c.arg \in Temporary

Unbanning == request \in {"unban", "unblacklist"}

\* What a request calls; the other server is a scope of its own within.
WebCall(c) ==
    IF Unbanning
    THEN /\ c.do \in {"get bans", "remove", "unlist"}
         /\ c.scope = IF c.on = Here THEN 1 ELSE 2
         /\ c.do = "remove" => c.arg \in Bans
         /\ c.do = "unlist" => c.on = Here
    ELSE /\ c.do \in {"ban", "enlist"}
         /\ c.do = "ban" => c.arg \in {"temp", "perma"} \X {"id"}

CallOK(q, c) ==
    /\ \A s \in Servers :
          /\ q = Loop(s) => LoopCall(s, c)
          /\ q = Notifier(s) => NotifierCall(s, c)
          /\ q = Pardoner(s) => PardonerCall(s, c)
    /\ q = Web => WebCall(c)

Pending(q) == ToSet(calls[q])

CallsInv ==
    /\ calls \in [Processes -> Seq(Calls)] /\ at \in [Processes -> {"begin", "send"}]
    /\ \A q \in Processes : \A c \in Pending(q) : CallOK(q, c)
    /\ \A q \in Processes : at[q] = "send" => Busy(q) /\ Head(calls[q]).do \in TwoSteps
    /\ request \in Requests \cup {"none"} /\ (request = "none" <=> calls[Web] = <<>>)

\* The player, and the lines that are left of its visits.
TravelInv ==
    /\ where \in Servers \cup {Nowhere} /\ visits \in 0 .. MaxVisits
    /\ where # Nowhere => visits # 0
    /\ lines \in [Servers -> Seq(Nat)]
    /\ \A s \in Servers : ToSet(lines[s]) \subseteq 1 .. 2 * visits

\* What the database has.
RowsInv ==
    /\ sessions \in Seq([start : Nat, end : Nat])
    /\ \A i \in DOMAIN sessions :
          sessions[i].start \in 1 .. visits /\ sessions[i].end \in 0 .. visits
    /\ blacklist \in {"none", "on", "off"}

PlayerInv == TravelInv /\ RowsInv

TempLists == (SUBSET Temporary) \cup {Unknown}
PermaLists == (SUBSET {"perma"}) \cup {Unknown}

BansInv ==
    /\ bans \in [Servers -> SUBSET Bans]
    /\ temps \in [Servers -> TempLists]
    /\ permas \in [Servers -> PermaLists]

\* Only an invalid name starts a timer.
TimersInv ==
    /\ timers \in [Servers -> Seq({"notify", "pardon"})]
    /\ config.name = "fine" => \A s \in Servers : timers[s] = <<>>

FlagsInv ==
    /\ config \in Configs
    /\ failed \in BOOLEAN /\ faults \in 0 .. MaxFaults /\ inOrder \in Nat \cup {Lost}
    /\ due \in BOOLEAN /\ quiet \in BOOLEAN /\ orderly \in [Servers -> BOOLEAN]

ServerInv == BansInv /\ TimersInv /\ FlagsInv

TypeInv == CallsInv /\ PlayerInv /\ ServerInv

BansByName(c) == c.do = "check blacklist" \/ (c.do = "ban" /\ c.arg[2] = "name")

\* Who is due for a ban has the line of the visit, or a ban by name, before it,
\* if such a ban is sent by name.
EnforceInv ==
    due /\ where # Nowhere /\ ~config.digit_first =>
        /\ blacklist = "on"
        /\ \/ Connected(visits) \in ToSet(lines[where])
           \/ \E c \in Pending(Loop(where)) : BansByName(c)

\* Every notification among these timers has its pardon behind it.
NotifyThenPardon(t) ==
    \A i \in DOMAIN t : t[i] = "notify" => i + 1 \in DOMAIN t /\ t[i + 1] = "pardon"

\* A ban in place of a kick has its pardon before it, which finds no other ban.
PardonInv ==
    \A s \in Servers :
        /\ config.name = "pineapple" => NotifyThenPardon(timers[s])
        /\ "pineapple" \in bans[s] => config.name = "pineapple"
        /\ orderly[s] =>
              /\ "temp" \notin bans[s]
              /\ \A c \in Pending(Pardoner(s)) : c.do = "remove" => c.arg = "pineapple"
              /\ config.name = "pineapple" /\ Busy(Notifier(s)) =>
                    timers[s] # <<>> /\ Head(timers[s]) = "pardon"
              /\ "pineapple" \in bans[s] => "pardon" \in ToSet(timers[s]) \/ Busy(Pardoner(s))

\* What the request has to bring about.
Unbans == request = "unban" \/ (request = "unblacklist" /\ config.unblacklist_does_unban)
Unlists == request = "unblacklist" \/ (request = "unban" /\ config.unban_does_unblacklist)

\* What is still to be done on s removes these bans.
WillRemove(todo, s, banned) ==
    \/ \E c \in todo : c.do = "get bans" /\ c.on = s
    \/ \A b \in banned : \E c \in todo : c.do = "remove" /\ c.on = s /\ c.arg = b

\* A cached list that lacks none of these bans.
Lists(list, banned) == list # Unknown => banned \subseteq list

\* As long as nobody else bans a cached list lacks no ban.
ListsInv ==
    quiet => \A s \in Servers :
        /\ Lists(temps[s], bans[s] \cap Temporary)
        /\ Lists(permas[s], bans[s] \cap {"perma"})

\* What the request has yet to remove is all that is left.
UnbanInv ==
    quiet /\ ~failed =>
        /\ Unbans => WillRemove(Pending(Web), Here, bans[Here])
        /\ Unbans /\ config.broadcast_unbans /\ faults = 0 =>
              WillRemove(Pending(Web), There, bans[There])
        /\ Unlists => blacklist # "on" \/ \E c \in Pending(Web) : c.do = "unlist"

\* The inductive invariant.
IInv == TypeInv /\ SessionIsVisit /\ EnforceInv /\ PardonInv /\ ListsInv /\ UnbanInv

-----------------------------------------------------------------------------
(* What is known of the constants and of sequences.                        *)

LEMMA ProcessFacts ==
    /\ Web \in Processes
    /\ \A s \in Servers : {Loop(s), Notifier(s), Pardoner(s)} \subseteq Processes
    /\ \A s, t \in Servers :
          /\ Loop(s) # Notifier(t) /\ Loop(s) # Pardoner(t) /\ Notifier(s) # Pardoner(t)
          /\ Web \notin {Loop(s), Notifier(s), Pardoner(s)}
          /\ Loop(s) = Loop(t) => s = t
          /\ Notifier(s) = Notifier(t) => s = t
          /\ Pardoner(s) = Pardoner(t) => s = t
    /\ \A q \in Processes :
          q = Web \/ \E s \in Servers : q \in {Loop(s), Notifier(s), Pardoner(s)}
    /\ \A s \in Servers : Loop(s)[1] = "loop"
BY DEF Web, Loop, Notifier, Pardoner, Processes, Servers

LEMMA ConfigFacts ==
    ASSUME NEW c \in Configs
    PROVE  /\ c.broadcast_unbans \in BOOLEAN /\ c.unban_does_unblacklist \in BOOLEAN
           /\ c.unblacklist_does_unban \in BOOLEAN /\ c.vac_banned \in BOOLEAN
           /\ c.windows_store \in {"none", "kick", "temp", "perma"}
           /\ c.name \in {"fine", "warn", "kick", "ban", "pineapple"}
           /\ c.permissions \subseteq Requests
           /\ c.visits \in 1 .. MaxVisits
BY HooksAssumption

LEMMA ServerFacts ==
    Here \in Servers /\ There \in Servers /\ Here # There /\ Nowhere \notin Servers
BY HooksAssumption DEF Servers

LEMMA JoinElements ==
    ASSUME NEW S, NEW s \in Seq(S), NEW t \in Seq(S)
    PROVE  s \o t \in Seq(S) /\ ToSet(s \o t) = ToSet(s) \cup ToSet(t)
<1>1. /\ s \o t \in Seq(S) /\ Len(s) \in Nat /\ Len(t) \in Nat
      /\ DOMAIN s = 1 .. Len(s) /\ DOMAIN t = 1 .. Len(t)
      /\ DOMAIN (s \o t) = 1 .. Len(s) + Len(t)
      /\ \A i \in 1 .. Len(s) + Len(t) :
            (s \o t)[i] = IF i <= Len(s) THEN s[i] ELSE t[i - Len(s)]
    OBVIOUS
<1>2. ToSet(s \o t) \subseteq ToSet(s) \cup ToSet(t)
  <2> SUFFICES ASSUME NEW i \in 1 .. Len(s) + Len(t)
               PROVE  (s \o t)[i] \in ToSet(s) \cup ToSet(t)
      BY <1>1 DEF ToSet
  <2>1. CASE i <= Len(s)
      BY <1>1, <2>1 DEF ToSet
  <2>2. CASE i > Len(s)
    <3>1. i - Len(s) \in 1 .. Len(t)
        BY <1>1, <2>2
    <3> QED BY <1>1, <2>2, <3>1 DEF ToSet
  <2> QED BY <1>1, <2>1, <2>2
<1>3. ToSet(s) \subseteq ToSet(s \o t)
  <2> SUFFICES ASSUME NEW i \in 1 .. Len(s) PROVE s[i] \in ToSet(s \o t)
      BY <1>1 DEF ToSet
  <2>1. i \in 1 .. Len(s) + Len(t) /\ (s \o t)[i] = s[i]
      BY <1>1
  <2> QED BY <1>1, <2>1 DEF ToSet
<1>4. ToSet(t) \subseteq ToSet(s \o t)
  <2> SUFFICES ASSUME NEW i \in 1 .. Len(t) PROVE t[i] \in ToSet(s \o t)
      BY <1>1 DEF ToSet
  <2>1. i + Len(s) \in 1 .. Len(s) + Len(t) /\ (s \o t)[i + Len(s)] = t[i]
      BY <1>1
  <2> QED BY <1>1, <2>1 DEF ToSet
<1> QED BY <1>1, <1>2, <1>3, <1>4

LEMMA TailElements ==
    ASSUME NEW S, NEW s \in Seq(S), s # <<>>
    PROVE  /\ Tail(s) \in Seq(S) /\ Head(s) \in S
           /\ ToSet(s) = {Head(s)} \cup ToSet(Tail(s))
<1>1. /\ Tail(s) \in Seq(S) /\ Head(s) \in S /\ Head(s) = s[1]
      /\ Len(s) \in Nat /\ Len(s) > 0 /\ DOMAIN s = 1 .. Len(s)
      /\ DOMAIN Tail(s) = 1 .. Len(s) - 1
      /\ \A i \in 1 .. Len(s) - 1 : Tail(s)[i] = s[i + 1]
    OBVIOUS
<1>2. ToSet(s) \subseteq {Head(s)} \cup ToSet(Tail(s))
  <2> SUFFICES ASSUME NEW i \in 1 .. Len(s), i # 1 PROVE s[i] \in ToSet(Tail(s))
      BY <1>1 DEF ToSet
  <2>1. i - 1 \in 1 .. Len(s) - 1 /\ (i - 1) + 1 = i
      BY <1>1
  <2> QED BY <1>1, <2>1 DEF ToSet
<1>3. ToSet(Tail(s)) \subseteq ToSet(s)
  <2> SUFFICES ASSUME NEW i \in 1 .. Len(s) - 1 PROVE s[i + 1] \in ToSet(s)
      BY <1>1 DEF ToSet
  <2>1. i + 1 \in 1 .. Len(s)
      BY <1>1
  <2> QED BY <1>1, <2>1 DEF ToSet
<1>4. Head(s) \in ToSet(s)
    BY <1>1 DEF ToSet
<1> QED BY <1>1, <1>2, <1>3, <1>4

LEMMA FewElements ==
    /\ \A S : <<>> \in Seq(S)
    /\ ToSet(<<>>) = {}
    /\ \A a, S : a \in S => <<a>> \in Seq(S)
    /\ \A a : ToSet(<<a>>) = {a}
    /\ \A S : \A s \in Seq(S) : ToSet(s) \subseteq S /\ (s = <<>> <=> ToSet(s) = {})
<1>1. ToSet(<<>>) = {}
  <2>1. DOMAIN <<>> = {}
      OBVIOUS
  <2> QED BY <2>1 DEF ToSet
<1>2. ASSUME NEW a PROVE ToSet(<<a>>) = {a}
  <2>1. DOMAIN <<a>> = {1} /\ <<a>>[1] = a
      OBVIOUS
  <2> QED BY <2>1 DEF ToSet
<1>3. ASSUME NEW S, NEW s \in Seq(S) PROVE ToSet(s) \subseteq S /\ (s = <<>> <=> ToSet(s) = {})
  <2>1. /\ Len(s) \in Nat /\ DOMAIN s = 1 .. Len(s) /\ \A i \in 1 .. Len(s) : s[i] \in S
        /\ s # <<>> => Len(s) > 0
      OBVIOUS
  <2>2. s # <<>> => 1 \in DOMAIN s
      BY <2>1
  <2> QED BY <1>1, <2>1, <2>2 DEF ToSet
<1> QED BY <1>1, <1>2, <1>3

LEMMA AppendElements ==
    ASSUME NEW S, NEW s \in Seq(S), NEW e \in S
    PROVE  Append(s, e) \in Seq(S) /\ ToSet(Append(s, e)) = ToSet(s) \cup {e}
<1>1. /\ Append(s, e) \in Seq(S) /\ Len(s) \in Nat /\ DOMAIN s = 1 .. Len(s)
      /\ DOMAIN Append(s, e) = 1 .. Len(s) + 1
      /\ \A i \in 1 .. Len(s) : Append(s, e)[i] = s[i]
      /\ Append(s, e)[Len(s) + 1] = e
    OBVIOUS
<1>2. \A i \in 1 .. Len(s) + 1 : i \in 1 .. Len(s) \/ i = Len(s) + 1
    BY <1>1
<1>3. 1 .. Len(s) \subseteq 1 .. Len(s) + 1 /\ Len(s) + 1 \in 1 .. Len(s) + 1
    BY <1>1
<1> QED BY <1>1, <1>2, <1>3 DEF ToSet

LEMMA CallFacts ==
    ASSUME NEW c \in Calls
    PROVE  c.on \in Servers /\ c.scope \in 1 .. 4 /\ c.scope \in Nat
<1>1. c.on \in Servers /\ c.scope \in 1 .. 4
    BY DEF Calls
<1> QED BY <1>1

\* What follows a handler has the calls of outer scopes.
LEMMA HandlerElements ==
    ASSUME NEW rest \in Seq(Calls), NEW scope \in Nat, NEW todo \in AfterHandler(rest, scope)
    PROVE  /\ todo \in Seq(Calls) /\ ToSet(todo) \subseteq ToSet(rest)
           /\ \A c \in ToSet(rest) : c.scope < scope => c \in ToSet(todo)
<1>1. PICK i \in 1 .. Len(rest) + 1 :
         /\ todo = SubSeq(rest, i, Len(rest))
         /\ \A k \in 1 .. i - 1 : rest[k].scope >= scope
    BY DEF AfterHandler
<1>2. /\ Len(rest) \in Nat /\ DOMAIN rest = 1 .. Len(rest)
      /\ \A k \in DOMAIN rest : rest[k] \in Calls
    OBVIOUS
<1>9. \A k \in DOMAIN rest : rest[k].scope \in Nat
    BY <1>2, CallFacts
<1>3. /\ todo \in Seq(Calls) /\ DOMAIN todo = 1 .. Len(rest) - i + 1
      /\ \A k \in DOMAIN todo : todo[k] = rest[k + i - 1]
    BY <1>1, <1>2
<1>4. ToSet(todo) \subseteq ToSet(rest)
  <2> SUFFICES ASSUME NEW k \in 1 .. Len(rest) - i + 1 PROVE rest[k + i - 1] \in ToSet(rest)
      BY <1>3 DEF ToSet
  <2>1. k + i - 1 \in 1 .. Len(rest)
      BY <1>2
  <2> QED BY <1>2, <2>1 DEF ToSet
<1>5. ASSUME NEW k \in 1 .. Len(rest), rest[k].scope < scope PROVE rest[k] \in ToSet(todo)
  <2>1. k \notin 1 .. i - 1
      BY <1>1, <1>2, <1>9, <1>5
  <2>2. k - i + 1 \in 1 .. Len(rest) - i + 1 /\ (k - i + 1) + i - 1 = k
      BY <1>2, <2>1
  <2> QED BY <1>3, <2>2 DEF ToSet
<1> QED BY <1>2, <1>3, <1>4, <1>5 DEF ToSet

-----------------------------------------------------------------------------
(* What a step does to the calls of its process.                           *)

Rest(q) == ToSet(Tail(calls[q]))

LEMMA HeadFacts ==
    ASSUME CallsInv, NEW q \in Processes, Busy(q)
    PROVE  /\ calls[q] \in Seq(Calls) /\ Tail(calls[q]) \in Seq(Calls)
           /\ Head(calls[q]) \in Calls /\ Head(calls[q]) \in Pending(q)
           /\ Pending(q) = {Head(calls[q])} \cup Rest(q)
           /\ Rest(q) \subseteq Calls
           /\ \A c \in Pending(q) : c \in Calls /\ CallOK(q, c)
<1>1. calls[q] \in Seq(Calls) /\ calls[q] # <<>>
    BY DEF CallsInv, Busy
<1>2. Tail(calls[q]) \in Seq(Calls) /\ Head(calls[q]) \in Calls
      /\ Pending(q) = {Head(calls[q])} \cup Rest(q)
    BY <1>1, TailElements DEF Pending, Rest
<1>3. Pending(q) \subseteq Calls /\ Rest(q) \subseteq Calls
    BY <1>1, <1>2, FewElements DEF Pending, Rest
<1>4. \A c \in Pending(q) : CallOK(q, c)
    BY DEF CallsInv
<1> QED BY <1>1, <1>2, <1>3, <1>4

LEMMA ReturnedFacts ==
    ASSUME CallsInv, NEW q \in Processes, Busy(q), NEW more \in Seq(Calls), Returned(q, more)
    PROVE  \E todo \in Seq(Calls) :
              Todo(q, todo) /\ ToSet(todo) = ToSet(more) \cup Rest(q) /\ failed' = failed
<1>1. Tail(calls[q]) \in Seq(Calls)
    BY HeadFacts
<1>2. /\ more \o Tail(calls[q]) \in Seq(Calls)
      /\ ToSet(more \o Tail(calls[q])) = ToSet(more) \cup Rest(q)
    BY <1>1, JoinElements DEF Rest
<1>3. Todo(q, more \o Tail(calls[q])) /\ failed' = failed
    BY DEF Returned
<1> QED BY <1>2, <1>3

LEMMA ReturnedNothing ==
    ASSUME CallsInv, NEW q \in Processes, Busy(q), Returned(q, <<>>)
    PROVE  \E todo \in Seq(Calls) : Todo(q, todo) /\ ToSet(todo) = Rest(q)
<1>1. <<>> \in Seq(Calls) /\ ToSet(<<>>) = {}
    BY FewElements
<1>2. \E todo \in Seq(Calls) : Todo(q, todo) /\ ToSet(todo) = ToSet(<<>>) \cup Rest(q)
    BY <1>1, ReturnedFacts
<1> QED BY <1>1, <1>2

LEMMA NotRemovedFacts ==
    ASSUME CallsInv, NEW q \in Processes, Busy(q), NotRemoved(q)
    PROVE  \E todo \in Seq(Calls) : Todo(q, todo) /\ ToSet(todo) = Rest(q) /\ Fails(q)
<1>1. Tail(calls[q]) \in Seq(Calls) /\ Todo(q, Tail(calls[q])) /\ Fails(q)
    BY HeadFacts DEF NotRemoved
<1> QED BY <1>1 DEF Rest

LEMMA RaisedFacts ==
    ASSUME CallsInv, NEW q \in Processes, Busy(q), Raised(q)
    PROVE  /\ Fails(q)
           /\ \E todo \in Seq(Calls) :
                 /\ Todo(q, todo) /\ ToSet(todo) \subseteq Rest(q)
                 /\ \A c \in Rest(q) : c.scope < Head(calls[q]).scope => c \in ToSet(todo)
<1>1. CASE NotRemoved(q)
    BY <1>1, NotRemovedFacts DEF NotRemoved
<1>2. CASE /\ \E todo \in AfterHandler(Tail(calls[q]), Head(calls[q]).scope) : Todo(q, todo)
           /\ Fails(q)
  <2>1. PICK todo \in AfterHandler(Tail(calls[q]), Head(calls[q]).scope) : Todo(q, todo)
      BY <1>2
  <2>2. Tail(calls[q]) \in Seq(Calls) /\ Head(calls[q]).scope \in Nat
      BY HeadFacts, CallFacts
  <2>3. /\ todo \in Seq(Calls) /\ ToSet(todo) \subseteq Rest(q)
        /\ \A c \in Rest(q) : c.scope < Head(calls[q]).scope => c \in ToSet(todo)
      BY <2>2, HandlerElements DEF Rest
  <2> QED BY <1>2, <2>1, <2>3
<1> QED BY <1>1, <1>2 DEF Raised

LEMMA TodoFacts ==
    ASSUME CallsInv, NEW q \in Processes, NEW todo \in Seq(Calls), Todo(q, todo)
    PROVE  /\ calls' \in [Processes -> Seq(Calls)] /\ at' \in [Processes -> {"begin", "send"}]
           /\ calls'[q] = todo /\ at'[q] = "begin"
           /\ \A r \in Processes : r # q => calls'[r] = calls[r] /\ at'[r] = at[r]
           /\ Pending(q)' = ToSet(todo)
           /\ \A r \in Processes : r # q => Pending(r)' = Pending(r)
           /\ q # Web => request' = request
           /\ q = Web => request' = IF todo = <<>> THEN "none" ELSE request
           /\ ToSet(todo) # {} => request' = request
<1>1. /\ calls \in [Processes -> Seq(Calls)] /\ at \in [Processes -> {"begin", "send"}]
      /\ calls' = [calls EXCEPT ![q] = todo] /\ at' = [at EXCEPT ![q] = "begin"]
      /\ request' = IF q = Web /\ todo = <<>> THEN "none" ELSE request
    BY DEF CallsInv, Todo
<1>2. /\ calls' \in [Processes -> Seq(Calls)] /\ at' \in [Processes -> {"begin", "send"}]
      /\ calls'[q] = todo /\ at'[q] = "begin"
      /\ \A r \in Processes : r # q => calls'[r] = calls[r] /\ at'[r] = at[r]
    BY <1>1
<1>3. ToSet(todo) # {} => todo # <<>>
    BY FewElements
<1> QED BY <1>1, <1>2, <1>3 DEF Pending

\* A call that is right stays so while the player comes and goes.
LEMMA CallStaysOK ==
    ASSUME NEW q, NEW c, CallOK(q, c), PlayerInv, PlayerInv', visits' >= visits,
           config' = config, q = Web => request' = request
    PROVE  CallOK(q, c)'
<1>1. visits \in Nat /\ visits' \in Nat
    BY DEF PlayerInv, TravelInv
<1>2. 1 .. visits \subseteq 1 .. visits'
    BY <1>1
<1>3. ASSUME NEW s \in Servers
      PROVE  /\ LoopCall(s, c) => LoopCall(s, c)'
             /\ NotifierCall(s, c) => NotifierCall(s, c)'
             /\ PardonerCall(s, c) => PardonerCall(s, c)'
    BY <1>2 DEF LoopCall, NotifierCall, PardonerCall
<1>4. q = Web => (WebCall(c) => WebCall(c)')
    BY DEF WebCall, Unbanning
<1> QED BY <1>3, <1>4 DEF CallOK

LEMMA TodoKeepsCalls ==
    ASSUME CallsInv, NEW q \in Processes, NEW todo \in Seq(Calls), Todo(q, todo),
           Busy(q) \/ q # Web, PlayerInv, PlayerInv', visits' = visits, config' = config,
           \A c \in ToSet(todo) : CallOK(q, c)
    PROVE  CallsInv'
<1>0. visits' >= visits
    BY DEF PlayerInv, TravelInv
<1>1. calls' \in [Processes -> Seq(Calls)] /\ at' \in [Processes -> {"begin", "send"}]
    BY TodoFacts
<1>2. ASSUME NEW r \in Processes, NEW c \in Pending(r)' PROVE CallOK(r, c)'
  <2>1. CASE r = q
    <3>1. c \in ToSet(todo) /\ request' = request /\ CallOK(q, c)
        BY <1>2, <2>1, TodoFacts
    <3> QED BY <1>0, <2>1, <3>1, CallStaysOK
  <2>2. CASE r # q
    <3>1. c \in Pending(r) /\ CallOK(r, c)
        BY <1>2, <2>2, TodoFacts DEF CallsInv
    <3>2. r = Web => request' = request
        BY <2>2, TodoFacts
    <3> QED BY <1>0, <3>1, <3>2, CallStaysOK
  <2> QED BY <2>1, <2>2
<1>3. ASSUME NEW r \in Processes, at'[r] = "send"
      PROVE  Busy(r)' /\ Head(calls'[r]).do \in TwoSteps
  <2>1. r # q /\ calls'[r] = calls[r] /\ at'[r] = at[r]
      BY <1>3, TodoFacts
  <2> QED BY <1>3, <2>1 DEF CallsInv, Busy
<1>4. request' \in Requests \cup {"none"} /\ (request' = "none" <=> calls'[Web] = <<>>)
  <2>1. request \in Requests \cup {"none"} /\ (request = "none" <=> calls[Web] = <<>>)
      BY DEF CallsInv
  <2>2. CASE q = Web
      BY <2>1, <2>2, TodoFacts DEF Busy
  <2>3. CASE q # Web
      BY <2>1, <2>3, TodoFacts, ProcessFacts
  <2> QED BY <2>2, <2>3
<1> QED BY <1>1, <1>2, <1>3, <1>4 DEF CallsInv

LEMMA SameCalls ==
    ASSUME CallsInv, PlayerInv, PlayerInv', visits' >= visits, config' = config,
           UNCHANGED <<calls, at, request>>
    PROVE  CallsInv'
<1>1. ASSUME NEW r \in Processes, NEW c \in Pending(r)' PROVE CallOK(r, c)'
  <2>1. c \in Pending(r) /\ CallOK(r, c)
      BY <1>1 DEF CallsInv, Pending
  <2> QED BY <2>1, CallStaysOK
<1> QED BY <1>1 DEF CallsInv, Busy

-----------------------------------------------------------------------------
(* Where the player goes.                                                  *)

\* The player stays or leaves, and lines are only added.
Travels ==
    /\ TravelInv' /\ visits' = visits /\ where' \in {where, Nowhere}
    /\ \A s \in Servers : ToSet(lines[s]) \subseteq ToSet(lines'[s])

LEMMA LeaveTravels ==
    ASSUME TravelInv, NEW s \in Servers, where = s, Leave(s)
    PROVE  Travels /\ where' = Nowhere
<1>1. /\ visits \in Nat /\ visits # 0 /\ visits \in 0 .. MaxVisits /\ visits' = visits
      /\ where' = Nowhere
      /\ lines \in [Servers -> Seq(Nat)] /\ lines' = [lines EXCEPT ![s] = Append(@, Disconnected(visits))]
    BY ServerFacts DEF TravelInv, Leave
<1> DEFINE new == Disconnected(visits)
<1>2. new \in Nat /\ new \in 1 .. 2 * visits
    BY <1>1 DEF Disconnected
<1>3. Append(lines[s], new) \in Seq(Nat) /\ ToSet(Append(lines[s], new)) = ToSet(lines[s]) \cup {new}
  <2>1. lines[s] \in Seq(Nat)
      BY <1>1
  <2> HIDE DEF new
  <2> QED BY <1>2, <2>1, AppendElements
<1>4. lines' \in [Servers -> Seq(Nat)]
    BY <1>1, <1>3
<1>5. ASSUME NEW t \in Servers
      PROVE  ToSet(lines[t]) \subseteq ToSet(lines'[t]) /\ ToSet(lines'[t]) \subseteq 1 .. 2 * visits
  <2>1. CASE t = s
    <3>1. lines'[t] = Append(lines[s], new)
        BY <1>1, <2>1
    <3> QED BY <1>2, <1>3, <2>1, <3>1 DEF TravelInv
  <2>2. CASE t # s
      BY <1>1, <2>2 DEF TravelInv
  <2> QED BY <2>1, <2>2
<1> QED BY <1>1, <1>4, <1>5 DEF Travels, TravelInv

LEMMA SamePlayerTravels ==
    ASSUME TravelInv, UNCHANGED player
    PROVE  Travels
BY DEF Travels, TravelInv, player

\* A ban is carried out, by the name or by the number of the player.
Banned(call) == \E by \in SentBy(call) : Carried(call, by)

LEMMA CarriedTravels ==
    ASSUME TravelInv, NEW call \in Calls, Banned(call)
    PROVE  Travels /\ (call.arg[2] # "id" /\ ~config.digit_first => where' = Nowhere)
<1>1. call.on \in Servers
    BY CallFacts
<1>2. PICK by \in SentBy(call) : Carried(call, by)
    BY DEF Banned
<1>3. CASE where = call.on /\ Leave(where)
    BY <1>1, <1>3, LeaveTravels
<1>4. CASE by = "id" /\ UNCHANGED player
  <2>1. ~config.digit_first => by = call.arg[2]
      BY <1>2 DEF SentBy
  <2> QED BY <1>4, <2>1, SamePlayerTravels
<1> QED BY <1>2, <1>3, <1>4 DEF Carried

LEMMA StepTravels ==
    ASSUME TypeInv, [Next]_vars, ~ \E s \in Servers : Connect(s) \/ Fetch(s)
    PROVE  Travels
<1>0. TravelInv /\ CallsInv
    BY DEF TypeInv, PlayerInv
<1>1. CASE Disconnect
  <2>1. where \in Servers /\ Leave(where)
      BY <1>0, <1>1 DEF Disconnect, TravelInv
  <2> QED BY <1>0, <2>1, LeaveTravels
<1>2. CASE Receive
    BY <1>0, <1>2, SamePlayerTravels DEF Receive
<1>3. ASSUME NEW s \in Servers, Fire(s) \/ ViewBans(s) \/ Lapse(s) \/ Restart(s)
      PROVE  Travels
    BY <1>0, <1>3, SamePlayerTravels DEF Fire, ViewBans, Lapse, Restart
<1>4. ASSUME NEW s \in Servers, Hook(Loop(s)) PROVE Travels
  <2>1. UNCHANGED player
      BY <1>4 DEF Hook, save_start_player_session, save_end_player_session,
                  ban_if_blacklisted, ban_if_has_vac_bans, windows_store_player_check,
                  notify_invalid_names, cleanup_pending_timers, Decide
  <2> QED BY <1>0, <2>1, SamePlayerTravels
<1>5. ASSUME NEW q \in Processes, Command(q) PROVE Travels
  <2>1. CASE SendBan(q)
    <3>1. Head(calls[q]) \in Calls
        BY <1>0, <2>1, HeadFacts DEF SendBan, Doing
    <3>2. Banned(Head(calls[q])) \/ UNCHANGED player
        BY <2>1 DEF SendBan, Banned
    <3> QED BY <1>0, <3>1, <3>2, CarriedTravels, SamePlayerTravels
  <2>2. CASE KickOrMessage(q)
    <3>1. Head(calls[q]).on \in Servers
        BY <1>0, <2>2, HeadFacts, CallFacts DEF KickOrMessage, Doing
    <3>2. (where = Head(calls[q]).on /\ Leave(where)) \/ UNCHANGED player
        BY <2>2 DEF KickOrMessage
    <3> QED BY <1>0, <3>1, <3>2, LeaveTravels, SamePlayerTravels
  <2>3. CASE \/ ClearCache(q) \/ SendRemoval(q) \/ FindTempBan(q) \/ get_bans(q)
             \/ add_player_to_blacklist(q) \/ remove_player_from_blacklist(q)
    <3>1. UNCHANGED player
        BY <2>3 DEF ClearCache, SendRemoval, FindTempBan, get_bans,
                    add_player_to_blacklist, remove_player_from_blacklist
    <3> QED BY <1>0, <3>1, SamePlayerTravels
  <2> QED BY <1>5, <2>1, <2>2, <2>3 DEF Command
<1>6. ASSUME NEW q \in Processes, Refused(q) \/ AnswerLost(q) PROVE Travels
  <2>1. Head(calls[q]) \in Calls
      BY <1>0, <1>6, HeadFacts DEF Refused, AnswerLost
  <2>2. Banned(Head(calls[q])) \/ UNCHANGED player
      BY <1>6 DEF Refused, AnswerLost, Banned
  <2> QED BY <1>0, <2>1, <2>2, CarriedTravels, SamePlayerTravels
<1>7. CASE UNCHANGED vars
    BY <1>0, <1>7, SamePlayerTravels DEF vars
<1> QED BY <1>1, <1>2, <1>3, <1>4, <1>5, <1>6, <1>7 DEF Next

LEMMA ConnectFacts ==
    ASSUME TypeInv, NEW s \in Servers, Connect(s)
    PROVE  /\ TravelInv' /\ visits' >= visits
           /\ Connected(visits') \in ToSet(lines'[s])
<1>1. /\ visits \in 0 .. MaxVisits /\ visits \in Nat /\ MaxVisits \in Nat
      /\ visits' = visits + 1 /\ where' = s /\ visits < config.visits
      /\ lines \in [Servers -> Seq(Nat)]
      /\ lines' = [lines EXCEPT ![s] = Append(@, Connected(visits + 1))]
    BY HooksAssumption DEF TypeInv, PlayerInv, TravelInv, Connect
<1>2. visits' \in 0 .. MaxVisits /\ visits' \in Nat /\ visits' # 0
  <2>1. config.visits \in 1 .. MaxVisits
      BY ConfigFacts DEF TypeInv, ServerInv, FlagsInv
  <2> QED BY <1>1, <2>1
<1> DEFINE new == Connected(visits + 1)
<1>3. new \in Nat /\ new \in 1 .. 2 * visits' /\ 1 .. 2 * visits \subseteq 1 .. 2 * visits'
    BY <1>1 DEF Connected
<1>4. Append(lines[s], new) \in Seq(Nat) /\ ToSet(Append(lines[s], new)) = ToSet(lines[s]) \cup {new}
    BY <1>1, <1>3, AppendElements
<1>5. lines' \in [Servers -> Seq(Nat)]
    BY <1>1, <1>4
<1>6. ASSUME NEW t \in Servers PROVE ToSet(lines'[t]) \subseteq 1 .. 2 * visits'
  <2>1. ToSet(lines[t]) \subseteq 1 .. 2 * visits
      BY DEF TypeInv, PlayerInv, TravelInv
  <2>2. CASE t = s
    <3>1. lines'[t] = Append(lines[s], new)
        BY <1>1, <2>2
    <3> QED BY <1>3, <1>4, <2>1, <2>2, <3>1
  <2>3. CASE t # s
      BY <1>1, <1>3, <2>1, <2>3
  <2> QED BY <2>2, <2>3
<1>7. Connected(visits') \in ToSet(lines'[s])
    BY <1>1, <1>4
<1>8. where' \in Servers \cup {Nowhere}
    BY <1>1
<1> QED BY <1>1, <1>2, <1>5, <1>6, <1>7, <1>8 DEF TravelInv

LEMMA FetchFacts ==
    ASSUME TypeInv, NEW s \in Servers, Fetch(s)
    PROVE  /\ TravelInv' /\ visits' = visits /\ where' = where
           /\ Head(lines[s]) \in 1 .. 2 * visits
           /\ ToSet(lines[s]) = {Head(lines[s])} \cup ToSet(lines'[s])
           /\ \A t \in Servers : t # s => lines'[t] = lines[t]
<1>1. /\ lines \in [Servers -> Seq(Nat)] /\ lines' = [lines EXCEPT ![s] = Tail(@)]
      /\ lines[s] # <<>> /\ visits' = visits /\ where' = where
    BY DEF TypeInv, PlayerInv, TravelInv, Fetch
<1>2. /\ Tail(lines[s]) \in Seq(Nat)
      /\ ToSet(lines[s]) = {Head(lines[s])} \cup ToSet(Tail(lines[s]))
    BY <1>1, TailElements
<1>3. /\ lines' \in [Servers -> Seq(Nat)] /\ lines'[s] = Tail(lines[s])
      /\ \A t \in Servers : t # s => lines'[t] = lines[t]
    BY <1>1, <1>2
<1>4. \A t \in Servers : ToSet(lines[t]) \subseteq 1 .. 2 * visits
    BY DEF TypeInv, PlayerInv, TravelInv
<1>5. \A t \in Servers : ToSet(lines'[t]) \subseteq 1 .. 2 * visits
    BY <1>2, <1>3, <1>4
<1> QED BY <1>1, <1>2, <1>3, <1>4, <1>5 DEF TypeInv, PlayerInv, TravelInv

LEMMA StepTravelInv ==
    ASSUME TypeInv, [Next]_vars
    PROVE  TravelInv' /\ visits' >= visits
<1>1. visits \in Nat
    BY DEF TypeInv, PlayerInv, TravelInv
<1>2. CASE ~ \E s \in Servers : Connect(s) \/ Fetch(s)
    BY <1>1, <1>2, StepTravels DEF Travels
<1>3. CASE \E s \in Servers : Connect(s) \/ Fetch(s)
    BY <1>1, <1>3, ConnectFacts, FetchFacts
<1> QED BY <1>2, <1>3

-----------------------------------------------------------------------------
(* Sessions.                                                               *)

Row == [start : Nat, end : Nat]

LEMMA StartFacts ==
    ASSUME TypeInv, NEW s \in Servers, save_start_player_session(Loop(s))
    PROVE  \E v \in 1 .. visits :
              /\ sessions' = IF \E i \in DOMAIN sessions : sessions[i].start = v
                             THEN sessions ELSE Append(sessions, [start |-> v, end |-> Open])
              /\ Seen(Connected(v))
<1>1. CallsInv /\ Loop(s) \in Processes /\ Busy(Loop(s)) /\ visits \in Nat
  <2>1. CallsInv /\ Loop(s) \in Processes /\ Busy(Loop(s))
      BY ProcessFacts DEF TypeInv, save_start_player_session, Doing
  <2> QED BY <2>1 DEF TypeInv, PlayerInv, TravelInv
<1> DEFINE c == Head(calls[Loop(s)])
<1>2. c.do = "start session" /\ LoopCall(s, c)
    BY <1>1, HeadFacts DEF save_start_player_session, Doing, CallOK
<1>3. PICK v \in 1 .. visits : c.arg = Connected(v)
    BY <1>2 DEF LoopCall
<1>4. (c.arg + 1) \div 2 = v
  <2>1. v \in Int /\ c.arg + 1 = 2 * v
      BY <1>1, <1>3 DEF Connected
  <2>2. (2 * v) \div 2 = v
      BY <2>1
  <2> QED BY <2>1, <2>2
<1>5. /\ sessions' = IF \E i \in DOMAIN sessions : sessions[i].start = v
                     THEN sessions ELSE Append(sessions, [start |-> v, end |-> Open])
      /\ Seen(Connected(v))
    BY <1>3, <1>4 DEF save_start_player_session
<1> QED BY <1>5

LEMMA EndFacts ==
    ASSUME TypeInv, NEW s \in Servers, save_end_player_session(Loop(s))
    PROVE  \E v \in 1 .. visits :
              /\ sessions' = IF Len(sessions) > 0 /\ sessions[Len(sessions)].end = Open
                             THEN [sessions EXCEPT ![Len(sessions)].end = v] ELSE sessions
              /\ Seen(Disconnected(v))
<1>1. CallsInv /\ Loop(s) \in Processes /\ Busy(Loop(s)) /\ visits \in Nat
  <2>1. CallsInv /\ Loop(s) \in Processes /\ Busy(Loop(s))
      BY ProcessFacts DEF TypeInv, save_end_player_session, Doing
  <2> QED BY <2>1 DEF TypeInv, PlayerInv, TravelInv
<1> DEFINE c == Head(calls[Loop(s)])
<1>2. c.do = "end session" /\ LoopCall(s, c)
    BY <1>1, HeadFacts DEF save_end_player_session, Doing, CallOK
<1>3. PICK v \in 1 .. visits : c.arg = Disconnected(v)
    BY <1>2 DEF LoopCall
<1>4. c.arg \div 2 = v
    BY <1>1, <1>3 DEF Disconnected
<1>5. /\ sessions' = IF Len(sessions) > 0 /\ sessions[Len(sessions)].end = Open
                     THEN [sessions EXCEPT ![Len(sessions)].end = v] ELSE sessions
      /\ Seen(Disconnected(v))
    BY <1>3, <1>4 DEF save_end_player_session
<1> QED BY <1>5

\* Nothing else touches the sessions.
LEMMA OtherSteps ==
    ASSUME [Next]_vars
    PROVE  \/ \E s \in Servers :
                 save_start_player_session(Loop(s)) \/ save_end_player_session(Loop(s))
           \/ sessions' = sessions /\ inOrder' \in {inOrder, Lost}
<1>1. CASE Disconnect \/ Receive \/ UNCHANGED vars
    BY <1>1 DEF Disconnect, Receive, vars, database, ghosts
<1>2. ASSUME NEW s \in Servers,
             Connect(s) \/ Fetch(s) \/ Fire(s) \/ ViewBans(s) \/ Lapse(s) \/ Restart(s)
      PROVE  sessions' = sessions /\ inOrder' \in {inOrder, Lost}
    BY <1>2 DEF Connect, Fetch, Fire, ViewBans, Lapse, Restart, database, ghosts
<1>3. ASSUME NEW s \in Servers, Hook(Loop(s)),
             ~save_start_player_session(Loop(s)), ~save_end_player_session(Loop(s))
      PROVE  sessions' = sessions /\ inOrder' = inOrder
    BY <1>3 DEF Hook, ban_if_blacklisted, ban_if_has_vac_bans, windows_store_player_check,
                notify_invalid_names, cleanup_pending_timers, Decide, database, ghosts
<1>4. ASSUME NEW q \in Processes, Command(q)
      PROVE  sessions' = sessions /\ inOrder' = inOrder
    BY <1>4 DEF Command, ClearCache, SendBan, SendRemoval, KickOrMessage, FindTempBan,
                get_bans, add_player_to_blacklist, remove_player_from_blacklist,
                database, ghosts
<1>5. ASSUME NEW q \in Processes, Refused(q) \/ AnswerLost(q)
      PROVE  sessions' = sessions /\ inOrder' \in {inOrder, Lost}
    BY <1>5 DEF Refused, AnswerLost, Fault, database
<1> QED BY <1>1, <1>2, <1>3, <1>4, <1>5 DEF Next

\* The blacklist is turned on and off, but for a player without a row.
LEMMA StepBlacklist ==
    ASSUME TypeInv, [Next]_vars
    PROVE  blacklist' \in {"none", "on", "off"}
<1>0. blacklist \in {"none", "on", "off"}
    BY DEF TypeInv, PlayerInv, RowsInv
<1>1. CASE Disconnect \/ Receive \/ UNCHANGED vars
    BY <1>0, <1>1 DEF Disconnect, Receive, vars, database
<1>2. ASSUME NEW s \in Servers,
             \/ Connect(s) \/ Fetch(s) \/ Fire(s) \/ ViewBans(s) \/ Lapse(s) \/ Restart(s)
             \/ Hook(Loop(s))
      PROVE  blacklist' = blacklist
    BY <1>2 DEF Connect, Fetch, Fire, ViewBans, Lapse, Restart, Hook,
                save_start_player_session, save_end_player_session,
                ban_if_blacklisted, ban_if_has_vac_bans, windows_store_player_check,
                notify_invalid_names, cleanup_pending_timers, Decide, database
<1>3. ASSUME NEW q \in Processes, Command(q) PROVE blacklist' \in {"none", "on", "off"}
    BY <1>0, <1>3 DEF Command, ClearCache, SendBan, SendRemoval, KickOrMessage, FindTempBan,
                get_bans, add_player_to_blacklist, remove_player_from_blacklist, database
<1>4. ASSUME NEW q \in Processes, Refused(q) \/ AnswerLost(q) PROVE blacklist' = blacklist
    BY <1>4 DEF Refused, AnswerLost, Fault, database
<1> QED BY <1>0, <1>1, <1>2, <1>3, <1>4 DEF Next

LEMMA StepRowsInv ==
    ASSUME TypeInv, [Next]_vars
    PROVE  RowsInv'
<1>1. /\ visits \in Nat /\ visits' \in Nat /\ visits' >= visits
      /\ 1 .. visits \subseteq 1 .. visits' /\ 0 .. visits \subseteq 0 .. visits'
  <2>1. visits \in Nat /\ visits' \in Nat /\ visits' >= visits
      BY StepTravelInv, HooksAssumption DEF TypeInv, PlayerInv, TravelInv
  <2> QED BY <2>1
<1>2. /\ sessions \in Seq(Row) /\ Len(sessions) \in Nat /\ DOMAIN sessions = 1 .. Len(sessions)
      /\ \A i \in DOMAIN sessions :
            sessions[i] \in Row /\ sessions[i].start \in 1 .. visits /\ sessions[i].end \in 0 .. visits
  <2>1. sessions \in Seq(Row) /\ \A i \in DOMAIN sessions :
            sessions[i].start \in 1 .. visits /\ sessions[i].end \in 0 .. visits
      BY DEF TypeInv, PlayerInv, RowsInv, Row
  <2> QED BY <2>1
<1> DEFINE Good ==
        /\ sessions' \in Seq(Row)
        /\ \A i \in DOMAIN sessions' :
              sessions'[i].start \in 1 .. visits /\ sessions'[i].end \in 0 .. visits
<1>3. Good
  <2>1. ASSUME NEW s \in Servers, save_start_player_session(Loop(s)) PROVE Good
    <3>1. PICK v \in 1 .. visits :
             sessions' = IF \E i \in DOMAIN sessions : sessions[i].start = v
                         THEN sessions ELSE Append(sessions, [start |-> v, end |-> Open])
        BY <2>1, StartFacts
    <3> DEFINE row == [start |-> v, end |-> Open]
    <3>2. row \in Row /\ row.start \in 1 .. visits /\ row.end \in 0 .. visits
        BY <1>1 DEF Row, Open
    <3> HIDE DEF row
    <3>3. CASE sessions' = Append(sessions, row)
      <4>1. /\ sessions' \in Seq(Row) /\ DOMAIN sessions' = 1 .. Len(sessions) + 1
            /\ \A i \in 1 .. Len(sessions) : sessions'[i] = sessions[i]
            /\ sessions'[Len(sessions) + 1] = row
          BY <1>2, <3>2, <3>3
      <4>2. \A i \in DOMAIN sessions' : i \in 1 .. Len(sessions) \/ i = Len(sessions) + 1
          BY <1>2, <4>1
      <4> QED BY <1>2, <3>2, <4>1, <4>2
    <3>4. CASE sessions' = sessions
        BY <1>2, <3>4
    <3> QED BY <3>1, <3>3, <3>4 DEF row
  <2>2. ASSUME NEW s \in Servers, save_end_player_session(Loop(s)) PROVE Good
    <3> DEFINE n == Len(sessions)
    <3>1. PICK v \in 1 .. visits :
             sessions' = IF n > 0 /\ sessions[n].end = Open
                         THEN [sessions EXCEPT ![n].end = v] ELSE sessions
        BY <2>2, EndFacts
    <3>2. CASE sessions' = [sessions EXCEPT ![n].end = v] /\ n > 0
      <4>1. n \in DOMAIN sessions /\ v \in Nat /\ v \in 0 .. visits
          BY <1>1, <1>2, <3>2
      <4>2. [sessions[n] EXCEPT !.end = v] \in Row
          BY <1>2, <4>1 DEF Row
      <4>3. [sessions[n] EXCEPT !.end = v].start = sessions[n].start
            /\ [sessions[n] EXCEPT !.end = v].end = v
          BY <1>2, <4>1 DEF Row
      <4>4. /\ sessions' \in Seq(Row) /\ DOMAIN sessions' = DOMAIN sessions
            /\ \A i \in DOMAIN sessions : i # n => sessions'[i] = sessions[i]
            /\ sessions'[n] = [sessions[n] EXCEPT !.end = v]
          BY <1>2, <3>2, <4>1, <4>2
      <4> QED BY <1>2, <4>1, <4>3, <4>4
    <3>3. CASE sessions' = sessions
        BY <1>2, <3>3
    <3> QED BY <3>1, <3>2, <3>3
  <2>3. CASE sessions' = sessions
      BY <1>2, <2>3
  <2> HIDE DEF Good
  <2> QED BY <2>1, <2>2, <2>3, OtherSteps
<1>4. blacklist' \in {"none", "on", "off"}
    BY StepBlacklist
<1> QED BY <1>1, <1>3, <1>4 DEF RowsInv, Row

\* The session of visit i when the line k was the last.
Session(i, k) == [start |-> i, end |-> IF Disconnected(i) <= k THEN i ELSE Open]

LEMMA StepSessions ==
    ASSUME TypeInv, SessionIsVisit, [Next]_vars
    PROVE  SessionIsVisit'
<1>1. /\ sessions \in Seq(Row) /\ Len(sessions) \in Nat /\ DOMAIN sessions = 1 .. Len(sessions)
      /\ inOrder \in Nat \cup {Lost}
    BY DEF TypeInv, PlayerInv, RowsInv, ServerInv, FlagsInv, Row
<1>2. SessionIsVisit' <=>
         (inOrder' # Lost => sessions' = [i \in 1 .. (inOrder' + 1) \div 2 |-> Session(i, inOrder')])
    BY DEF SessionIsVisit, Session
<1>3. inOrder # Lost => sessions = [i \in 1 .. (inOrder + 1) \div 2 |-> Session(i, inOrder)]
    BY DEF SessionIsVisit, Session
<1>4. ASSUME NEW s \in Servers, save_start_player_session(Loop(s)), inOrder' # Lost
      PROVE  SessionIsVisit'
  <2>1. PICK v \in 1 .. visits :
           /\ sessions' = IF \E i \in DOMAIN sessions : sessions[i].start = v
                          THEN sessions ELSE Append(sessions, [start |-> v, end |-> Open])
           /\ Seen(Connected(v))
      BY <1>4, StartFacts
  <2>0. v \in Nat /\ v >= 1
      BY DEF TypeInv, PlayerInv, TravelInv
  <2>2. /\ v \in Nat /\ v >= 1 /\ inOrder # Lost /\ inOrder \in Nat
        /\ inOrder = 2 * v - 2 /\ inOrder' = 2 * v - 1
    <3>1. inOrder # Lost /\ inOrder \in Nat /\ Connected(v) = inOrder + 1 /\ inOrder' = Connected(v)
        BY <1>1, <1>4, <2>1 DEF Seen
    <3> QED BY <2>0, <3>1 DEF Connected
  <2>3. (inOrder + 1) \div 2 = v - 1 /\ (inOrder' + 1) \div 2 = v
    <3>1. (2 * v - 1) \div 2 = v - 1 /\ (2 * v) \div 2 = v
        BY <2>2
    <3> QED BY <2>2, <3>1
  <2>4. sessions = [i \in 1 .. v - 1 |-> Session(i, inOrder)]
      BY <1>3, <2>2, <2>3
  <2>5. /\ Len(sessions) = v - 1 /\ DOMAIN sessions = 1 .. v - 1
        /\ \A i \in 1 .. v - 1 : sessions[i] = Session(i, inOrder) /\ sessions[i].start = i
      BY <1>1, <2>2, <2>4 DEF Session
  <2>6. \A i \in 1 .. v - 1 : Session(i, inOrder) = Session(i, inOrder')
    <3>1. \A i \in 1 .. v - 1 : 2 * i <= inOrder /\ 2 * i <= inOrder'
        BY <2>2
    <3> QED BY <3>1 DEF Session, Disconnected
  <2>7. [start |-> v, end |-> Open] = Session(v, inOrder')
    <3>1. ~(2 * v <= inOrder')
        BY <2>2
    <3> QED BY <3>1 DEF Session, Disconnected
  <2>8. sessions' = Append(sessions, Session(v, inOrder'))
      BY <2>1, <2>2, <2>5, <2>7
  <2>9. sessions' = [i \in 1 .. v |-> Session(i, inOrder')]
    <3> DEFINE new == Session(v, inOrder')
    <3> HIDE DEF new
    <3>0. new \in Row
        BY <2>2 DEF new, Session, Open, Row
    <3>1. /\ Append(sessions, new) \in Seq(Row) /\ Len(Append(sessions, new)) = Len(sessions) + 1
          /\ Append(sessions, new)[Len(sessions) + 1] = new
          /\ \A i \in 1 .. Len(sessions) : Append(sessions, new)[i] = sessions[i]
        BY <1>1, <3>0
    <3>2. /\ Append(sessions, new) \in [1 .. v -> Row]
          /\ \A i \in 1 .. v : Append(sessions, new)[i] = IF i = v THEN new ELSE sessions[i]
      <4>1. Len(sessions) + 1 = v
          BY <2>2, <2>5
      <4>2. \A i \in 1 .. v : i = v \/ i \in 1 .. Len(sessions)
          BY <2>2, <2>5
      <4>3. Append(sessions, new) \in [1 .. v -> Row]
        <5> DEFINE longer == Append(sessions, new)
        <5>1. longer \in Seq(Row) /\ Len(longer) = v
            BY <3>1, <4>1
        <5> HIDE DEF longer
        <5>2. longer \in [1 .. v -> Row]
            BY <5>1
        <5> QED BY <5>2 DEF longer
      <4> QED BY <2>2, <2>5, <3>1, <4>1, <4>2, <4>3
    <3>3. \A i \in 1 .. v : (IF i = v THEN new ELSE sessions[i]) = Session(i, inOrder')
      <4> SUFFICES ASSUME NEW i \in 1 .. v
                   PROVE  (IF i = v THEN new ELSE sessions[i]) = Session(i, inOrder')
          OBVIOUS
      <4>1. i = v \/ i \in 1 .. v - 1
          BY <2>2
      <4> QED BY <2>5, <2>6, <4>1 DEF new
    <3> QED BY <2>8, <3>2, <3>3 DEF new
  <2> QED BY <1>2, <2>3, <2>9
<1>5. ASSUME NEW s \in Servers, save_end_player_session(Loop(s)), inOrder' # Lost
      PROVE  SessionIsVisit'
  <2>1. PICK v \in 1 .. visits :
           /\ sessions' = IF Len(sessions) > 0 /\ sessions[Len(sessions)].end = Open
                          THEN [sessions EXCEPT ![Len(sessions)].end = v] ELSE sessions
           /\ Seen(Disconnected(v))
      BY <1>5, EndFacts
  <2>0. v \in Nat /\ v >= 1
      BY DEF TypeInv, PlayerInv, TravelInv
  <2>2. /\ v \in Nat /\ v >= 1 /\ inOrder # Lost /\ inOrder \in Nat
        /\ inOrder = 2 * v - 1 /\ inOrder' = 2 * v
    <3>1. inOrder # Lost /\ inOrder \in Nat /\ Disconnected(v) = inOrder + 1 /\ inOrder' = Disconnected(v)
        BY <1>1, <1>5, <2>1 DEF Seen
    <3> QED BY <2>0, <3>1 DEF Disconnected
  <2>3. (inOrder + 1) \div 2 = v /\ (inOrder' + 1) \div 2 = v
    <3>1. (2 * v) \div 2 = v /\ (2 * v + 1) \div 2 = v
        BY <2>2
    <3> QED BY <2>2, <3>1
  <2>4. sessions = [i \in 1 .. v |-> Session(i, inOrder)]
      BY <1>3, <2>2, <2>3
  <2>5. /\ Len(sessions) = v /\ DOMAIN sessions = 1 .. v
        /\ \A i \in 1 .. v : sessions[i] = Session(i, inOrder)
      BY <1>1, <2>2, <2>4
  <2>6. sessions[v].end = Open
    <3>1. ~(2 * v <= inOrder) /\ v \in 1 .. v
        BY <2>2
    <3> QED BY <2>5, <3>1 DEF Session, Disconnected
  <2>7. sessions' = [sessions EXCEPT ![v].end = v]
      BY <2>1, <2>2, <2>5, <2>6
  <2>8. \A i \in 1 .. v : i # v => Session(i, inOrder) = Session(i, inOrder')
    <3>1. \A i \in 1 .. v : i # v => 2 * i <= inOrder /\ 2 * i <= inOrder'
        BY <2>2
    <3> QED BY <3>1 DEF Session, Disconnected
  <2>9. [Session(v, inOrder) EXCEPT !.end = v] = Session(v, inOrder')
    <3>1. 2 * v <= inOrder'
        BY <2>2
    <3> QED BY <3>1 DEF Session, Disconnected
  <2>10. sessions' = [i \in 1 .. v |-> Session(i, inOrder')]
    <3>1. sessions' = [i \in 1 .. v |->
                         IF i = v THEN [sessions[v] EXCEPT !.end = v] ELSE sessions[i]]
        BY <2>5, <2>7
    <3>2. v \in 1 .. v
        BY <2>2
    <3> QED BY <2>5, <2>8, <2>9, <3>1, <3>2
  <2> QED BY <1>2, <2>3, <2>10
<1>6. CASE sessions' = sessions /\ inOrder' \in {inOrder, Lost}
    BY <1>2, <1>3, <1>6
<1>7. CASE inOrder' = Lost
    BY <1>2, <1>7
<1> QED BY <1>4, <1>5, <1>6, <1>7, OtherSteps

-----------------------------------------------------------------------------
(* The lists of bans, the timers and the flags.                            *)

\* Who bans and who removes what.
LEMMA BanFacts ==
    ASSUME CallsInv, NEW q \in Processes, NEW c \in Pending(q), c.do = "ban"
    PROVE  /\ c.on \in Servers /\ c.arg \in Kinds
           /\ c.arg[1] \in Bans /\ c.arg[2] \in {"name", "id"}
           /\ c.arg[1] = "pineapple" =>
                 config.name = "pineapple" /\ \E s \in Servers : q = Notifier(s) /\ c.on = s
           /\ q = Web => ~Unbanning
<1>1. CallOK(q, c) /\ c \in Calls /\ c.on \in Servers
    BY FewElements, CallFacts DEF CallsInv, Pending
<1> DEFINE Good ==
        /\ c.arg \in Kinds
        /\ c.arg[1] = "pineapple" =>
              config.name = "pineapple" /\ \E s \in Servers : q = Notifier(s) /\ c.on = s
        /\ q = Web => ~Unbanning
<1>2. ASSUME q = Web PROVE Good
  <2>1. ~Unbanning /\ c.arg \in {"temp", "perma"} \X {"id"}
      BY <1>1, <1>2 DEF CallOK, WebCall
  <2> QED BY <2>1 DEF Kinds
<1>3. ASSUME NEW s \in Servers, q = Loop(s) PROVE Good
  <2>1. c.arg \in {"temp", "perma"} \X {"name", "id"}
      BY <1>1, <1>3 DEF CallOK, LoopCall
  <2>2. q # Web
      BY <1>3, ProcessFacts
  <2> QED BY <2>1, <2>2 DEF Kinds
<1>4. ASSUME NEW s \in Servers, q = Notifier(s) PROVE Good
  <2>1. /\ c.on = s
        /\ c.arg = <<IF config.name = "pineapple" THEN "pineapple" ELSE "temp", "id">>
      BY <1>1, <1>4 DEF CallOK, NotifierCall
  <2>2. q # Web
      BY <1>4, ProcessFacts
  <2> QED BY <1>4, <2>1, <2>2 DEF Kinds
<1>5. ASSUME NEW s \in Servers, q = Pardoner(s) PROVE FALSE
    BY <1>1, <1>5 DEF CallOK, PardonerCall
<1>6. Good
  <2> HIDE DEF Good
  <2> QED BY <1>2, <1>3, <1>4, <1>5, ProcessFacts
<1>7. c.arg[1] \in Bans /\ c.arg[2] \in {"name", "id"}
    BY <1>6 DEF Kinds, Bans
<1> QED BY <1>1, <1>6, <1>7

LEMMA RemoveFacts ==
    ASSUME CallsInv, NEW q \in Processes, NEW c \in Pending(q), c.do = "remove"
    PROVE  c.on \in Servers /\ c.arg \in Bans
<1>1. CallOK(q, c) /\ c \in Calls /\ c.on \in Servers
    BY FewElements, CallFacts DEF CallsInv, Pending
<1>2. CASE q = Web
    BY <1>1, <1>2 DEF CallOK, WebCall
<1>3. ASSUME NEW s \in Servers, q = Loop(s) PROVE FALSE
    BY <1>1, <1>3 DEF CallOK, LoopCall
<1>4. ASSUME NEW s \in Servers, q = Notifier(s) PROVE FALSE
    BY <1>1, <1>4 DEF CallOK, NotifierCall
<1>5. ASSUME NEW s \in Servers, q = Pardoner(s) PROVE c.arg \in Bans
    BY <1>1, <1>5 DEF CallOK, PardonerCall, Temporary
<1> QED BY <1>1, <1>2, <1>3, <1>4, <1>5, ProcessFacts

LEMMA ListFacts ==
    /\ Unknown \in TempLists /\ Unknown \in PermaLists
    /\ \A S : S \cap Temporary \in TempLists /\ S \cap {"perma"} \in PermaLists
<1>1. Unknown \in TempLists /\ Unknown \in PermaLists
    BY DEF TempLists, PermaLists
<1>2. ASSUME NEW S PROVE S \cap Temporary \in TempLists
    BY DEF TempLists
<1>3. ASSUME NEW S PROVE S \cap {"perma"} \in PermaLists
    BY DEF PermaLists
<1> QED BY <1>1, <1>2, <1>3

\* What clearing does to the cached lists of the server.
LEMMA ClearFacts ==
    ASSUME BansInv, NEW call, call.on \in Servers, Clear(call)
    PROVE  /\ temps' \in [Servers -> TempLists]
           /\ permas' \in [Servers -> PermaLists]
           /\ \A s \in Servers :
                 /\ temps'[s] \in {temps[s], Unknown} /\ permas'[s] \in {permas[s], Unknown}
                 /\ s = call.on /\ KindOf(call) = "perma" => permas'[s] = Unknown
                 /\ s = call.on /\ KindOf(call) # "perma" => temps'[s] = Unknown
<1>1. CASE KindOf(call) = "perma"
  <2>1. permas' = [permas EXCEPT ![call.on] = Unknown] /\ temps' = temps
      BY <1>1 DEF Clear
  <2> QED BY <1>1, <2>1, ListFacts DEF BansInv
<1>2. CASE KindOf(call) # "perma"
  <2>1. temps' = [temps EXCEPT ![call.on] = Unknown] /\ permas' = permas
      BY <1>2 DEF Clear
  <2> QED BY <1>2, <2>1, ListFacts DEF BansInv
<1> QED BY <1>1, <1>2

LEMMA SameBans ==
    ASSUME BansInv, UNCHANGED <<bans, cached>>
    PROVE  BansInv'
BY DEF BansInv, cached

LEMMA CarriedBans ==
    ASSUME BansInv, NEW call, call.on \in Servers, call.arg[1] \in Bans, Banned(call)
    PROVE  /\ bans' \in [Servers -> SUBSET Bans]
           /\ bans'[call.on] = bans[call.on] \cup {call.arg[1]}
           /\ \A s \in Servers : s # call.on => bans'[s] = bans[s]
<1>1. bans' = [bans EXCEPT ![call.on] = @ \cup {call.arg[1]}]
    BY DEF Banned, Carried
<1> QED BY <1>1 DEF BansInv

LEMMA RemovedBans ==
    ASSUME BansInv, NEW s \in Servers, NEW b, bans' = [bans EXCEPT ![s] = @ \ {b}]
    PROVE  /\ bans' \in [Servers -> SUBSET Bans] /\ bans'[s] = bans[s] \ {b}
           /\ \A t \in Servers : bans'[t] \subseteq bans[t]
BY DEF BansInv

LEMMA StepBansInv ==
    ASSUME TypeInv, [Next]_vars
    PROVE  BansInv'
<1>0. BansInv /\ CallsInv
    BY DEF TypeInv, ServerInv
<1>1. CASE Disconnect \/ Receive \/ UNCHANGED vars
    BY <1>0, <1>1, SameBans DEF Disconnect, Receive, vars
<1>2. ASSUME NEW s \in Servers, Connect(s) \/ Fetch(s) \/ Fire(s) \/ Restart(s) PROVE BansInv'
    BY <1>0, <1>2, SameBans DEF Connect, Fetch, Fire, Restart
<1>3. ASSUME NEW s \in Servers, ViewBans(s) \/ Lapse(s) PROVE BansInv'
  <2>2. CASE ViewBans(s)
      BY <1>0, <2>2, ListFacts DEF ViewBans, BansInv
  <2>3. CASE Lapse(s)
      BY <1>0, <2>3, ListFacts DEF Lapse, BansInv
  <2> QED BY <1>3, <2>2, <2>3
<1>4. ASSUME NEW s \in Servers, Hook(Loop(s)) PROVE BansInv'
  <2>1. UNCHANGED <<bans, cached>>
      BY <1>4 DEF Hook, save_start_player_session, save_end_player_session,
                  ban_if_blacklisted, ban_if_has_vac_bans, windows_store_player_check,
                  notify_invalid_names, cleanup_pending_timers, Decide
  <2> QED BY <1>0, <2>1, SameBans
<1>5. ASSUME NEW q \in Processes, Command(q) PROVE BansInv'
  <2> DEFINE c == Head(calls[q])
  <2>0. Busy(q) => c \in Pending(q) /\ c \in Calls /\ c.on \in Servers
      BY <1>0, HeadFacts, CallFacts
  <2>1. CASE ClearCache(q)
    <3>1. Clear(c) /\ c.on \in Servers /\ bans' = bans
        BY <2>0, <2>1 DEF ClearCache
    <3> HIDE DEF c
    <3> QED BY <1>0, <3>1, ClearFacts DEF BansInv
  <2>2. CASE SendBan(q)
    <3>1. c.on \in Servers /\ c.arg[1] \in Bans
        BY <1>0, <2>0, <2>2, BanFacts DEF SendBan, Doing
    <3>2. (Banned(c) /\ Clear(c)) \/ UNCHANGED <<bans, cached>>
        BY <2>2 DEF SendBan, Banned
    <3> HIDE DEF c
    <3> QED BY <1>0, <3>1, <3>2, CarriedBans, ClearFacts, SameBans DEF BansInv
  <2>3. CASE SendRemoval(q)
    <3>1. \/ c.on \in Servers /\ bans' = [bans EXCEPT ![c.on] = @ \ {c.arg}] /\ Clear(c)
          \/ UNCHANGED <<bans, cached>>
        BY <2>0, <2>3 DEF SendRemoval, Doing
    <3> HIDE DEF c
    <3> QED BY <1>0, <3>1, RemovedBans, ClearFacts, SameBans DEF BansInv
  <2>4. CASE FindTempBan(q)
    <3>1. /\ c.on \in Servers /\ bans' = bans /\ permas' = permas
          /\ temps' = [temps EXCEPT ![c.on] = bans[c.on] \cap Temporary]
        BY <2>0, <2>4 DEF FindTempBan, Doing
    <3> HIDE DEF c
    <3> QED BY <1>0, <3>1, ListFacts DEF BansInv
  <2>5. CASE get_bans(q)
    <3>1. /\ c.on \in Servers /\ bans' = bans
          /\ temps' = [temps EXCEPT ![c.on] =
                IF temps[c.on] = Unknown THEN bans[c.on] \cap Temporary ELSE temps[c.on]]
          /\ permas' = [permas EXCEPT ![c.on] =
                IF permas[c.on] = Unknown THEN bans[c.on] \cap {"perma"} ELSE permas[c.on]]
        BY <2>0, <2>5 DEF get_bans, Doing
    <3> HIDE DEF c
    <3> QED BY <1>0, <3>1, ListFacts DEF BansInv
  <2>6. CASE \/ KickOrMessage(q)
             \/ add_player_to_blacklist(q) \/ remove_player_from_blacklist(q)
      BY <1>0, <2>6, SameBans
         DEF KickOrMessage, add_player_to_blacklist, remove_player_from_blacklist
  <2> QED BY <1>5, <2>1, <2>2, <2>3, <2>4, <2>5, <2>6 DEF Command
<1>6. ASSUME NEW q \in Processes, Refused(q) PROVE BansInv'
    BY <1>0, <1>6, SameBans DEF Refused, Fault
<1>7. ASSUME NEW q \in Processes, AnswerLost(q) PROVE BansInv'
  <2> DEFINE c == Head(calls[q])
  <2>1. c \in Pending(q) /\ c.on \in Servers
      BY <1>0, <1>7, HeadFacts, CallFacts DEF AnswerLost
  <2>2. c.do = "ban" => c.arg[1] \in Bans
      BY <1>0, <2>1, BanFacts
  <2>3. /\ UNCHANGED cached
        /\ \/ c.do = "ban" /\ Banned(c)
           \/ bans' = [bans EXCEPT ![c.on] = @ \ {c.arg}]
      BY <1>7 DEF AnswerLost, Fault, Banned
  <2> HIDE DEF c
  <2>4. bans' \in [Servers -> SUBSET Bans]
      BY <1>0, <2>1, <2>2, <2>3, CarriedBans, RemovedBans
  <2> QED BY <1>0, <2>3, <2>4 DEF BansInv, cached
<1> QED BY <1>1, <1>2, <1>3, <1>4, <1>5, <1>6, <1>7 DEF Next

\* The timers of a server are added to, by a hook on it, and fire.
LEMMA NameFacts ==
    ASSUME TypeInv, NEW s \in Servers, notify_invalid_names(Loop(s))
    PROVE  /\ config.name # "fine"
           /\ timers' = [timers EXCEPT ![s] = Append(@, "notify")
                            \o Only(config.name = "pineapple", <<"pardon">>)]
<1>1. CallsInv /\ Loop(s) \in Processes /\ Busy(Loop(s)) /\ Doing(Loop(s), "check name")
    BY ProcessFacts DEF TypeInv, notify_invalid_names, Doing
<1>2. LoopCall(s, Head(calls[Loop(s)])) /\ Head(calls[Loop(s)]).do = "check name"
    BY <1>1, HeadFacts DEF CallOK, Doing
<1> QED BY <1>2 DEF LoopCall, notify_invalid_names

LEMMA CancelFacts ==
    ASSUME TypeInv, NEW s \in Servers, cleanup_pending_timers(Loop(s))
    PROVE  timers' = [timers EXCEPT ![s] =
                         IF config.name \in {"kick", "pineapple"} THEN @ ELSE <<>>]
<1>1. CallsInv /\ Loop(s) \in Processes /\ Busy(Loop(s))
    BY ProcessFacts DEF TypeInv, cleanup_pending_timers, Doing
<1>2. LoopCall(s, Head(calls[Loop(s)]))
    BY <1>1, HeadFacts DEF CallOK
<1> QED BY <1>2 DEF LoopCall, cleanup_pending_timers

LEMMA TimersAreKept ==
    ASSUME [Next]_vars
    PROVE  \/ UNCHANGED timers
           \/ \E s \in Servers :
                 \/ Fire(s) \/ Restart(s)
                 \/ notify_invalid_names(Loop(s)) \/ cleanup_pending_timers(Loop(s))
<1>1. CASE Disconnect \/ Receive \/ UNCHANGED vars
    BY <1>1 DEF Disconnect, Receive, vars
<1>2. ASSUME NEW s \in Servers, Connect(s) \/ Fetch(s) \/ ViewBans(s) \/ Lapse(s)
      PROVE  UNCHANGED timers
    BY <1>2 DEF Connect, Fetch, ViewBans, Lapse
<1>3. ASSUME NEW s \in Servers, Hook(Loop(s)),
             ~notify_invalid_names(Loop(s)), ~cleanup_pending_timers(Loop(s))
      PROVE  UNCHANGED timers
    BY <1>3 DEF Hook, save_start_player_session, save_end_player_session,
                ban_if_blacklisted, ban_if_has_vac_bans, windows_store_player_check
<1>4. ASSUME NEW q \in Processes, Command(q) \/ Refused(q) \/ AnswerLost(q)
      PROVE  UNCHANGED timers
    BY <1>4 DEF Command, ClearCache, SendBan, SendRemoval, KickOrMessage, FindTempBan,
                get_bans, add_player_to_blacklist, remove_player_from_blacklist,
                Refused, AnswerLost, Fault
<1> QED BY <1>1, <1>2, <1>3, <1>4 DEF Next

Alarms == {"notify", "pardon"}

\* What a hook appends.
LEMMA NewTimers ==
    ASSUME NEW t \in Seq(Alarms), NEW condition \in BOOLEAN
    PROVE  LET new == Append(t, "notify") \o Only(condition, <<"pardon">>)
           IN  /\ new \in Seq(Alarms)
               /\ \A i \in DOMAIN t : i \in DOMAIN new /\ new[i] = t[i]
               /\ \A i \in DOMAIN new : i \in DOMAIN t \/ i = Len(t) + 1 \/ i = Len(t) + 2
               /\ condition => DOMAIN new = 1 .. Len(t) + 2 /\ new[Len(t) + 2] = "pardon"
               /\ ToSet(t) \subseteq ToSet(new)
<1> DEFINE more == Only(condition, <<"pardon">>)
           one == Append(t, "notify")
           new == one \o more
<1>1. /\ one \in Seq(Alarms) /\ Len(t) \in Nat /\ Len(one) = Len(t) + 1
      /\ DOMAIN t = 1 .. Len(t) /\ \A i \in 1 .. Len(t) : one[i] = t[i]
    BY DEF Alarms
<1>2. /\ more \in Seq(Alarms) /\ Len(more) \in {0, 1}
      /\ condition => Len(more) = 1 /\ more[1] = "pardon"
  <2>1. CASE condition
    <3>1. more = <<"pardon">>
        BY <2>1 DEF Only
    <3> HIDE DEF more
    <3> QED BY <3>1 DEF Alarms
  <2>2. CASE ~condition
    <3>1. more = <<>>
        BY <2>2 DEF Only
    <3> HIDE DEF more
    <3> QED BY <2>2, <3>1
  <2> QED BY <2>1, <2>2
<1> HIDE DEF one, more
<1>3. /\ new \in Seq(Alarms) /\ DOMAIN new = 1 .. Len(one) + Len(more)
      /\ \A i \in 1 .. Len(one) : new[i] = one[i]
      /\ \A i \in Len(one) + 1 .. Len(one) + Len(more) : new[i] = more[i - Len(one)]
    BY <1>1, <1>2
<1> HIDE DEF new
<1>4. \A i \in DOMAIN t : i \in DOMAIN new /\ new[i] = t[i]
    BY <1>1, <1>2, <1>3
<1>5. ASSUME NEW i \in DOMAIN new PROVE i \in DOMAIN t \/ i = Len(t) + 1 \/ i = Len(t) + 2
  <2>1. i \in 1 .. Len(one) + Len(more)
      BY <1>3
  <2>2. CASE Len(more) = 0
    <3>1. i \in 1 .. Len(t) + 1
        BY <1>1, <2>1, <2>2
    <3> QED BY <1>1, <3>1
  <2>3. CASE Len(more) = 1
    <3>1. i \in 1 .. Len(t) + 2
        BY <1>1, <2>1, <2>3
    <3> QED BY <1>1, <3>1
  <2> QED BY <1>2, <2>2, <2>3
<1>6. ASSUME condition PROVE DOMAIN new = 1 .. Len(t) + 2 /\ new[Len(t) + 2] = "pardon"
  <2>1. Len(more) = 1 /\ more[1] = "pardon" /\ Len(one) + Len(more) = Len(t) + 2
    <3>1. Len(more) = 1 /\ more[1] = "pardon"
        BY <1>2, <1>6
    <3> QED BY <1>1, <3>1
  <2>2. Len(t) + 2 \in Len(one) + 1 .. Len(one) + Len(more) /\ Len(t) + 2 - Len(one) = 1
      BY <1>1, <2>1
  <2> QED BY <1>3, <2>1, <2>2
<1>7. ToSet(t) \subseteq ToSet(new)
    BY <1>4 DEF ToSet
<1> QED BY <1>3, <1>4, <1>5, <1>6, <1>7 DEF new, one, more

LEMMA StepTimersInv ==
    ASSUME TypeInv, [Next]_vars, config' = config
    PROVE  TimersInv'
<1>0. timers \in [Servers -> Seq(Alarms)] /\ (config.name = "fine" => \A s \in Servers : timers[s] = <<>>)
    BY DEF TypeInv, ServerInv, TimersInv, Alarms
<1>1. CASE UNCHANGED timers
    BY <1>0, <1>1 DEF TimersInv, Alarms
<1>2. ASSUME NEW s \in Servers, Fire(s) PROVE TimersInv'
  <2>1. timers[s] # <<>> /\ timers' = [timers EXCEPT ![s] = Tail(@)]
      BY <1>2 DEF Fire
  <2>2. Tail(timers[s]) \in Seq(Alarms)
      BY <1>0, <2>1
  <2> QED BY <1>0, <2>1, <2>2 DEF TimersInv, Alarms
<1>3. ASSUME NEW s \in Servers, Restart(s) \/ cleanup_pending_timers(Loop(s)) PROVE TimersInv'
  <2>1. \/ timers' = [timers EXCEPT ![s] = <<>>]
        \/ timers' = [timers EXCEPT ![s] = @]
      BY <1>3, CancelFacts DEF Restart
  <2>2. <<>> \in Seq(Alarms)
      OBVIOUS
  <2> QED BY <1>0, <2>1, <2>2 DEF TimersInv, Alarms
<1>4. ASSUME NEW s \in Servers, notify_invalid_names(Loop(s)) PROVE TimersInv'
  <2> DEFINE new == Append(timers[s], "notify") \o Only(config.name = "pineapple", <<"pardon">>)
  <2>1. config.name # "fine" /\ timers' = [timers EXCEPT ![s] = new]
      BY <1>4, NameFacts
  <2>2. new \in Seq(Alarms)
    <3>1. timers[s] \in Seq(Alarms) /\ (config.name = "pineapple") \in BOOLEAN
        BY <1>0
    <3> QED BY <3>1, NewTimers
  <2> HIDE DEF new
  <2> QED BY <1>0, <2>1, <2>2 DEF TimersInv, Alarms
<1> QED BY <1>1, <1>2, <1>3, <1>4, TimersAreKept

LEMMA StepFlagsInv ==
    ASSUME TypeInv, [Next]_vars
    PROVE  FlagsInv' /\ config' = config
<1>0. FlagsInv /\ CallsInv /\ MaxFaults \in Nat
    BY HooksAssumption DEF TypeInv, ServerInv
<1>1. CASE Disconnect \/ Receive \/ UNCHANGED vars
    BY <1>0, <1>1 DEF Disconnect, Receive, vars, ghosts, FlagsInv
<1>2. ASSUME NEW s \in Servers, Connect(s) \/ Fetch(s) \/ ViewBans(s) \/ Lapse(s)
      PROVE  FlagsInv' /\ config' = config
    BY <1>0, <1>2 DEF Connect, Fetch, ViewBans, Lapse, ghosts, FlagsInv
<1>3. ASSUME NEW s \in Servers, Fire(s) \/ Restart(s) PROVE FlagsInv' /\ config' = config
  <2>1. /\ UNCHANGED <<config, failed, quiet>>
        /\ faults' \in 0 .. MaxFaults /\ inOrder' \in Nat \cup {Lost}
    <3>1. UNCHANGED <<config, failed, quiet>> /\ inOrder' \in {inOrder, Lost}
        BY <1>3 DEF Fire, Restart
    <3>2. faults' = faults \/ (faults < MaxFaults /\ faults' = faults + 1)
        BY <1>3 DEF Fire, Restart
    <3>3. faults \in Nat /\ faults' \in 0 .. MaxFaults
        BY <1>0, <3>2 DEF FlagsInv
    <3> QED BY <1>0, <3>1, <3>3 DEF FlagsInv
  <2>2. due' \in BOOLEAN
      BY <1>0, <1>3, Zenon DEF Fire, Restart, FlagsInv
  <2>3. \E b \in BOOLEAN : orderly' = [orderly EXCEPT ![s] = b]
      BY <1>3, Zenon DEF Fire, Restart
  <2>4. orderly' \in [Servers -> BOOLEAN]
      BY <1>0, <2>3 DEF FlagsInv
  <2> QED BY <1>0, <2>1, <2>2, <2>4 DEF FlagsInv
<1>4. ASSUME NEW s \in Servers, Hook(Loop(s)) PROVE FlagsInv' /\ config' = config
  <2>1. CASE save_start_player_session(Loop(s)) \/ save_end_player_session(Loop(s))
    <3>1. inOrder' \in Nat \cup {Lost}
      <4>1. CASE save_start_player_session(Loop(s))
        <5>1. PICK v \in 1 .. visits : Seen(Connected(v))
            BY <4>1, StartFacts
        <5>2. Connected(v) \in Nat
            BY DEF Connected, TypeInv, PlayerInv, TravelInv
        <5> QED BY <5>1, <5>2 DEF Seen
      <4>2. CASE save_end_player_session(Loop(s))
        <5>1. PICK v \in 1 .. visits : Seen(Disconnected(v))
            BY <4>2, EndFacts
        <5>2. Disconnected(v) \in Nat
            BY DEF Disconnected, TypeInv, PlayerInv, TravelInv
        <5> QED BY <5>1, <5>2 DEF Seen
      <4> QED BY <2>1, <4>1, <4>2
    <3>2. UNCHANGED <<config, failed, faults, due, quiet, orderly>>
        BY <2>1 DEF save_start_player_session, save_end_player_session, Returned
    <3> QED BY <1>0, <3>1, <3>2 DEF FlagsInv
  <2>2. CASE ~(save_start_player_session(Loop(s)) \/ save_end_player_session(Loop(s)))
    <3>1. UNCHANGED <<config, failed, faults, ghosts>>
        BY <1>4, <2>2 DEF Hook, ban_if_blacklisted, ban_if_has_vac_bans,
               windows_store_player_check, notify_invalid_names, cleanup_pending_timers,
               Decide, Returned
    <3> QED BY <1>0, <3>1 DEF FlagsInv, ghosts
  <2> QED BY <2>1, <2>2
<1>5. ASSUME NEW q \in Processes, Command(q) PROVE FlagsInv' /\ config' = config
  <2>1. failed' \in BOOLEAN /\ UNCHANGED <<config, faults, inOrder>>
    <3>1. failed' = failed \/ Fails(q)
        BY <1>5 DEF Command, ClearCache, SendBan, SendRemoval, KickOrMessage, FindTempBan,
               get_bans, add_player_to_blacklist, remove_player_from_blacklist,
               Returned, Raised, NotRemoved
    <3>2. failed' \in BOOLEAN
        BY <1>0, <3>1 DEF Fails, FlagsInv
    <3>3. UNCHANGED <<config, faults, inOrder>>
        BY <1>5 DEF Command, ClearCache, SendBan, SendRemoval, KickOrMessage, FindTempBan,
               get_bans, add_player_to_blacklist, remove_player_from_blacklist, ghosts
    <3> QED BY <3>2, <3>3
  <2>2. due' \in BOOLEAN /\ quiet' \in BOOLEAN
      BY <1>0, <1>5 DEF Command, ClearCache, SendBan, SendRemoval, KickOrMessage, FindTempBan,
             get_bans, add_player_to_blacklist, remove_player_from_blacklist, ghosts, Disturb,
             FlagsInv
  <2>3. orderly' \in [Servers -> BOOLEAN]
      BY <1>0, <1>5 DEF Command, ClearCache, SendBan, SendRemoval, KickOrMessage, FindTempBan,
             get_bans, add_player_to_blacklist, remove_player_from_blacklist, ghosts, Disturb,
             FlagsInv
  <2> QED BY <1>0, <2>1, <2>2, <2>3 DEF FlagsInv
<1>6. ASSUME NEW q \in Processes, Refused(q) \/ AnswerLost(q) PROVE FlagsInv' /\ config' = config
  <2>1. Fault(q) /\ Raised(q) /\ quiet' \in {quiet, FALSE}
      BY <1>6 DEF Refused, AnswerLost
  <2>2. failed' \in BOOLEAN
      BY <1>0, <2>1 DEF Raised, NotRemoved, Fails, FlagsInv
  <2>3. config' = config /\ faults' \in 0 .. MaxFaults /\ inOrder' \in Nat \cup {Lost}
    <3>1. /\ config' = config /\ inOrder' \in {inOrder, Lost}
          /\ faults < MaxFaults /\ faults' = faults + 1
        BY <2>1 DEF Fault
    <3>2. faults \in 0 .. MaxFaults /\ inOrder \in Nat \cup {Lost}
        BY <1>0 DEF FlagsInv
    <3> QED BY <1>0, <3>1, <3>2
  <2>4. due' \in BOOLEAN /\ quiet' \in BOOLEAN
      BY <1>0, <2>1, Zenon DEF Fault, FlagsInv
  <2>5. orderly' \in [Servers -> BOOLEAN]
      BY <2>1 DEF Fault
  <2> QED BY <1>0, <2>2, <2>3, <2>4, <2>5 DEF FlagsInv
<1> QED BY <1>1, <1>2, <1>3, <1>4, <1>5, <1>6 DEF Next

-----------------------------------------------------------------------------
(* The calls that a step makes.                                            *)

LEMMA OnlyOne ==
    ASSUME NEW condition \in BOOLEAN, NEW seq \in Seq(Calls)
    PROVE  /\ Only(condition, seq) \in Seq(Calls)
           /\ ToSet(Only(condition, seq)) = IF condition THEN ToSet(seq) ELSE {}
BY FewElements DEF Only

\* A line tells of a visit that was.
LEMMA LineFacts ==
    ASSUME TypeInv, NEW line \in 1 .. 2 * visits
    PROVE  /\ line \in Nat
           /\ \/ \E v \in 1 .. visits : line = Connected(v)
              \/ (\E v \in 1 .. visits : line = Disconnected(v))
                 /\ ~ \E v \in 1 .. MaxVisits : line = Connected(v)
           /\ 1 .. visits \subseteq 1 .. MaxVisits
<1>1. visits \in Nat /\ MaxVisits \in Nat /\ visits <= MaxVisits /\ line \in Nat
  <2>1. visits \in 0 .. MaxVisits /\ MaxVisits \in Nat
      BY HooksAssumption DEF TypeInv, PlayerInv, TravelInv
  <2> QED BY <2>1
<1>2. (\E v \in 1 .. visits : line = 2 * v - 1)
      \/ ((\E v \in 1 .. visits : line = 2 * v) /\ ~ \E v \in 1 .. MaxVisits : line = 2 * v - 1)
  <2> DEFINE h == line \div 2
  <2>1. h \in Nat /\ (line = 2 * h \/ line = 2 * h + 1)
      BY <1>1
  <2>2. CASE line = 2 * h
    <3>1. h \in 1 .. visits /\ \A v \in 1 .. MaxVisits : line # 2 * v - 1
        BY <1>1, <2>1, <2>2
    <3> QED BY <2>2, <3>1
  <2>3. CASE line = 2 * h + 1
    <3>1. h + 1 \in 1 .. visits /\ line = 2 * (h + 1) - 1
        BY <1>1, <2>1, <2>3
    <3> QED BY <3>1
  <2> QED BY <2>1, <2>2, <2>3
<1>3. 1 .. visits \subseteq 1 .. MaxVisits
    BY <1>1
<1> QED BY <1>1, <1>2, <1>3 DEF Connected, Disconnected

LEMMA HooksFacts ==
    ASSUME TypeInv, NEW s \in Servers, NEW line \in 1 .. 2 * visits
    PROVE  /\ HooksOf(s, line) \in Seq(Calls)
           /\ \A c \in ToSet(HooksOf(s, line)) : CallOK(Loop(s), c)
           /\ \A v \in 1 .. visits : line = Connected(v) =>
                 \E c \in ToSet(HooksOf(s, line)) : c.do = "check blacklist"
<1>0. /\ line \in Nat /\ line \in Args /\ config \in Configs
      /\ config.vac_banned \in BOOLEAN /\ 1 .. visits \subseteq 1 .. MaxVisits
    BY LineFacts, ConfigFacts DEF TypeInv, ServerInv, FlagsInv, Args
<1>1. \A c : LoopCall(s, c) => CallOK(Loop(s), c)
    BY ProcessFacts DEF CallOK
<1>2. CASE \E v \in 1 .. MaxVisits : line = Connected(v)
  <2>0. \E v \in 1 .. visits : line = Connected(v)
      BY <1>2, LineFacts
  <2> DEFINE a == Call("start session", s, line, 3)
             b == Call("check blacklist", s, line, 3)
             c == Call("check VAC", s, line, 3)
             d == Call("check store", s, line, 2)
             e == Call("check name", s, line, 1)
             C == Only(config.vac_banned, <<c>>)
             D == Only(config.windows_store # "none", <<d>>)
             E == Only(config.name # "fine", <<e>>)
             N == {a, b, c, d, e}
  <2>1. N \subseteq Calls
    <3>1. /\ "start session" \in Whats /\ "check blacklist" \in Whats /\ "check VAC" \in Whats
          /\ "check store" \in Whats /\ "check name" \in Whats
          /\ 1 \in 1 .. 4 /\ 2 \in 1 .. 4 /\ 3 \in 1 .. 4
        BY DEF Whats
    <3>2. a \in Calls /\ b \in Calls /\ c \in Calls
        BY <1>0, <3>1 DEF Call, Calls
    <3>3. d \in Calls /\ e \in Calls
        BY <1>0, <3>1 DEF Call, Calls
    <3> QED BY <3>2, <3>3
  <2>2. /\ a.do = "start session" /\ a.arg = line /\ b.do = "check blacklist"
        /\ c.do = "check VAC" /\ d.do = "check store" /\ e.do = "check name"
        /\ \A x \in N : x.on = s
      BY DEF Call
  <2> HIDE DEF a, b, c, d, e
  <2>3. /\ LoopCall(s, a) /\ LoopCall(s, b) /\ LoopCall(s, c)
        /\ config.windows_store # "none" => LoopCall(s, d)
        /\ config.name # "fine" => LoopCall(s, e)
      BY <2>0, <2>2 DEF LoopCall
  <2>4. /\ <<a, b>> \in Seq(Calls) /\ ToSet(<<a, b>>) = {a, b}
        /\ <<c>> \in Seq(Calls) /\ <<d>> \in Seq(Calls) /\ <<e>> \in Seq(Calls)
    <3>1. DOMAIN <<a, b>> = {1, 2} /\ <<a, b>>[1] = a /\ <<a, b>>[2] = b
        OBVIOUS
    <3> QED BY <2>1, <3>1 DEF ToSet
  <2>5. /\ C \in Seq(Calls) /\ ToSet(C) = IF config.vac_banned THEN {c} ELSE {}
        /\ D \in Seq(Calls) /\ ToSet(D) = IF config.windows_store # "none" THEN {d} ELSE {}
        /\ E \in Seq(Calls) /\ ToSet(E) = IF config.name # "fine" THEN {e} ELSE {}
      BY <1>0, <2>4, OnlyOne, FewElements
  <2>6. HooksOf(s, line) = ((<<a, b>> \o C) \o D) \o E
      BY <1>2 DEF HooksOf, handle_on_connect, a, b, c, d, e
  <2> HIDE DEF C, D, E
  <2>7. /\ HooksOf(s, line) \in Seq(Calls)
        /\ ToSet(HooksOf(s, line)) = {a, b} \cup ToSet(C) \cup ToSet(D) \cup ToSet(E)
    <3> DEFINE two == <<a, b>>
               three == two \o C
               four == three \o D
    <3>1. two \in Seq(Calls) /\ ToSet(two) = {a, b} /\ HooksOf(s, line) = four \o E
        BY <2>4, <2>6
    <3> HIDE DEF two
    <3>2. three \in Seq(Calls) /\ ToSet(three) = {a, b} \cup ToSet(C)
      <4>0. C \in Seq(Calls)
          BY <2>5
      <4>1. three \in Seq(Calls) /\ ToSet(three) = ToSet(two) \cup ToSet(C)
          BY <3>1, <4>0, JoinElements
      <4> QED BY <3>1, <4>1
    <3> HIDE DEF three
    <3>3. four \in Seq(Calls) /\ ToSet(four) = {a, b} \cup ToSet(C) \cup ToSet(D)
      <4>1. four \in Seq(Calls) /\ ToSet(four) = ToSet(three) \cup ToSet(D)
          BY <2>5, <3>2, JoinElements
      <4> QED BY <3>2, <4>1
    <3> HIDE DEF four
    <3>4. four \o E \in Seq(Calls) /\ ToSet(four \o E) = ToSet(four) \cup ToSet(E)
        BY <2>5, <3>3, JoinElements
    <3> QED BY <3>1, <3>3, <3>4
  <2>8. \A x \in ToSet(HooksOf(s, line)) : LoopCall(s, x)
      BY <2>3, <2>5, <2>7
  <2> QED BY <1>1, <2>2, <2>7, <2>8
<1>3. CASE ~ \E v \in 1 .. MaxVisits : line = Connected(v)
  <2>0. (\E v \in 1 .. visits : line = Disconnected(v)) /\ \A v \in 1 .. visits : line # Connected(v)
      BY <1>0, <1>3, LineFacts
  <2> DEFINE a == Call("end session", s, line, 2)
             e == Call("cancel timers", s, line, 1)
             E == Only(config.name # "fine", <<e>>)
  <2>1. a \in Calls /\ e \in Calls
    <3>1. /\ "end session" \in Whats /\ "cancel timers" \in Whats
          /\ 1 \in 1 .. 4 /\ 2 \in 1 .. 4
        BY DEF Whats
    <3> QED BY <1>0, <3>1 DEF Call, Calls
  <2>2. a.do = "end session" /\ a.arg = line /\ e.do = "cancel timers" /\ a.on = s /\ e.on = s
      BY DEF Call
  <2> HIDE DEF a, e
  <2>3. LoopCall(s, a) /\ LoopCall(s, e)
      BY <2>0, <2>2 DEF LoopCall
  <2>4. <<a>> \in Seq(Calls) /\ ToSet(<<a>>) = {a} /\ <<e>> \in Seq(Calls) /\ ToSet(<<e>>) = {e}
      BY <2>1, FewElements
  <2>5. E \in Seq(Calls) /\ ToSet(E) \subseteq {e}
      BY <2>4, OnlyOne
  <2>6. HooksOf(s, line) = <<a>> \o E
      BY <1>3 DEF HooksOf, handle_on_disconnect, a, e
  <2> HIDE DEF E
  <2>7. HooksOf(s, line) \in Seq(Calls) /\ ToSet(HooksOf(s, line)) = {a} \cup ToSet(E)
    <3> DEFINE one == <<a>>
    <3>1. one \in Seq(Calls) /\ ToSet(one) = {a} /\ HooksOf(s, line) = one \o E
        BY <2>4, <2>6
    <3> HIDE DEF one
    <3>2. one \o E \in Seq(Calls) /\ ToSet(one \o E) = ToSet(one) \cup ToSet(E)
        BY <2>5, <3>1, JoinElements
    <3> QED BY <3>1, <3>2
  <2> QED BY <1>1, <2>0, <2>3, <2>5, <2>7
<1> QED BY <1>2, <1>3

\* A hook that has only read: what more there is to do.
HookMore(s, more) ==
    /\ more \in Seq(Calls) /\ \A c \in ToSet(more) : CallOK(Loop(s), c)
    /\ \E todo \in Seq(Calls) : Todo(Loop(s), todo) /\ ToSet(todo) = ToSet(more) \cup Rest(Loop(s))

LEMMA HookFacts ==
    ASSUME TypeInv, NEW s \in Servers, Hook(Loop(s))
    PROVE  /\ Busy(Loop(s))
           /\ \E more : HookMore(s, more)
           /\ ban_if_blacklisted(Loop(s)) /\ blacklist = "on" =>
                 \E more : /\ HookMore(s, more)
                           /\ \E c \in ToSet(more) : c.do = "ban" /\ c.arg = <<"perma", "name">>
<1> DEFINE q == Loop(s)
           c == Head(calls[q])
<1>0. /\ CallsInv /\ q \in Processes /\ config \in Configs
      /\ \A x : LoopCall(s, x) => CallOK(q, x)
    BY ProcessFacts DEF TypeInv, ServerInv, FlagsInv, CallOK
<1>1. Busy(q)
    BY DEF Hook, save_start_player_session, save_end_player_session,
           ban_if_blacklisted, ban_if_has_vac_bans, windows_store_player_check,
           notify_invalid_names, cleanup_pending_timers, Doing
<1>2. LoopCall(s, c) /\ c.on = s
  <2>1. CallOK(q, c)
      BY <1>0, <1>1, HeadFacts
  <2> HIDE DEF c
  <2>2. LoopCall(s, c)
      BY <2>1 DEF CallOK
  <2> QED BY <2>2 DEF LoopCall
<1>3. ASSUME NEW more \in Seq(Calls), Returned(q, more), \A x \in ToSet(more) : LoopCall(s, x)
      PROVE  HookMore(s, more)
  <2>1. \A x \in ToSet(more) : CallOK(q, x)
      BY <1>0, <1>3
  <2>2. CallsInv /\ q \in Processes
      BY <1>0
  <2>3. \E todo \in Seq(Calls) : Todo(q, todo) /\ ToSet(todo) = ToSet(more) \cup Rest(q)
      BY <1>1, <1>3, <2>2, ReturnedFacts
  <2> QED BY <1>3, <2>1, <2>3 DEF HookMore
<1>4. ASSUME NEW by \in {"name", "id"}, NEW kind \in {"temp", "perma"}, NEW scope \in 1 .. 4
      PROVE  LET one == <<Call("ban", s, <<kind, by>>, scope)>>
             IN  /\ one \in Seq(Calls)
                 /\ \A x \in ToSet(one) : LoopCall(s, x)
                 /\ \E x \in ToSet(one) : x.do = "ban" /\ x.arg = <<kind, by>>
  <2> DEFINE new == Call("ban", s, <<kind, by>>, scope)
  <2>1. <<kind, by>> \in Args /\ "ban" \in Whats
      BY DEF Args, Kinds, Whats
  <2>2. new \in Calls /\ new.do = "ban" /\ new.on = s /\ new.arg = <<kind, by>>
      BY <2>1 DEF Call, Calls
  <2> HIDE DEF new
  <2>4. <<new>> \in Seq(Calls) /\ ToSet(<<new>>) = {new}
      BY <2>2, FewElements
  <2>3. LoopCall(s, new)
      BY <2>2 DEF LoopCall
  <2> QED BY <2>2, <2>3, <2>4 DEF new
<1>5. <<>> \in Seq(Calls) /\ \A x \in ToSet(<<>>) : LoopCall(s, x)
    BY FewElements
<1>6. CASE \/ save_start_player_session(q) \/ save_end_player_session(q)
           \/ notify_invalid_names(q) \/ cleanup_pending_timers(q)
  <2>1. Returned(q, <<>>) /\ ~ban_if_blacklisted(q)
      BY <1>6 DEF save_start_player_session, save_end_player_session,
             notify_invalid_names, cleanup_pending_timers, ban_if_blacklisted, Decide, Doing
  <2> QED BY <1>1, <1>3, <1>5, <2>1
<1>7. CASE ban_if_blacklisted(q)
  <2> DEFINE one == <<Call("ban", s, <<"perma", "name">>, 4)>>
  <2>1. Returned(q, IF blacklist = "on" THEN one ELSE <<>>)
      BY <1>2, <1>7 DEF ban_if_blacklisted, Decide, do_perma_ban, Only
  <2>2. /\ one \in Seq(Calls) /\ \A x \in ToSet(one) : LoopCall(s, x)
        /\ \E x \in ToSet(one) : x.do = "ban" /\ x.arg = <<"perma", "name">>
      BY <1>4
  <2> HIDE DEF one
  <2> QED BY <1>1, <1>3, <1>5, <2>1, <2>2
<1>8. CASE ban_if_has_vac_bans(q)
  <2> DEFINE one == <<Call("ban", s, <<"perma", "name">>, 3)>>
  <2>1. Returned(q, one) /\ ~ban_if_blacklisted(q)
      BY <1>2, <1>8 DEF ban_if_has_vac_bans, ban_if_blacklisted, Doing, Decide, do_perma_ban
  <2>2. one \in Seq(Calls) /\ \A x \in ToSet(one) : LoopCall(s, x)
      BY <1>4
  <2> HIDE DEF one
  <2> QED BY <1>1, <1>3, <2>1, <2>2
<1>9. CASE windows_store_player_check(q)
  <2> DEFINE a == <<Call("kick", s, 0, 2)>>
             b == <<Call("ban", s, <<"temp", "id">>, 2)>>
             d == <<Call("ban", s, <<"perma", "id">>, 2)>>
  <2>0. ~ban_if_blacklisted(q) /\ config.windows_store \in {"kick", "temp", "perma"}
    <3>1. c.do = "check store"
        BY <1>9 DEF windows_store_player_check, Doing
    <3>2. config.windows_store # "none"
        BY <1>2, <3>1 DEF LoopCall
    <3>3. config.windows_store \in {"none", "kick", "temp", "perma"}
        BY <1>0, ConfigFacts
    <3> QED BY <3>1, <3>2, <3>3 DEF ban_if_blacklisted, Doing
  <2>1. Returned(q, a) \/ Returned(q, b) \/ Returned(q, d)
      BY <1>2, <1>9, <2>0 DEF windows_store_player_check, Decide, do_perma_ban
  <2>2. a \in Seq(Calls) /\ \A x \in ToSet(a) : LoopCall(s, x)
    <3> DEFINE new == Call("kick", s, 0, 2)
    <3>0. 0 \in Args /\ "kick" \in Whats /\ 2 \in 1 .. 4
        BY DEF Args, Whats
    <3>1. new \in Calls /\ new.do = "kick" /\ new.on = s /\ a = <<new>>
        BY <3>0 DEF Call, Calls
    <3> HIDE DEF new, a
    <3>3. a \in Seq(Calls) /\ ToSet(a) = {new}
        BY <3>1, FewElements
    <3>2. LoopCall(s, new)
        BY <3>1 DEF LoopCall
    <3> QED BY <3>2, <3>3
  <2>3. /\ b \in Seq(Calls) /\ \A x \in ToSet(b) : LoopCall(s, x)
        /\ d \in Seq(Calls) /\ \A x \in ToSet(d) : LoopCall(s, x)
      BY <1>4
  <2> HIDE DEF a, b, d
  <2> QED BY <1>1, <1>3, <2>0, <2>1, <2>2, <2>3
<1> QED BY <1>6, <1>7, <1>8, <1>9 DEF Hook

\* What a request has to do.
RequestCall(what, c) ==
    IF what \in {"unban", "unblacklist"}
    THEN /\ c.do \in {"get bans", "unlist"}
         /\ c.scope = IF c.on = Here THEN 1 ELSE 2
         /\ c.do = "unlist" => c.on = Here
    ELSE /\ c.do \in {"ban", "enlist"}
         /\ c.do = "ban" => c.arg \in {"temp", "perma"} \X {"id"}

LEMMA CallsOfFacts ==
    ASSUME config \in Configs, NEW what \in Requests
    PROVE  /\ CallsOf(what) \in Seq(Calls) /\ CallsOf(what) # <<>>
           /\ \A c \in ToSet(CallsOf(what)) : RequestCall(what, c)
           /\ what = "unban" \/ (what = "unblacklist" /\ config.unblacklist_does_unban) =>
                 /\ \E c \in ToSet(CallsOf(what)) : c.do = "get bans" /\ c.on = Here
                 /\ config.broadcast_unbans =>
                       \E c \in ToSet(CallsOf(what)) : c.do = "get bans" /\ c.on = There
           /\ what = "unblacklist" \/ (what = "unban" /\ config.unban_does_unblacklist) =>
                 \E c \in ToSet(CallsOf(what)) : c.do = "unlist"
<1> DEFINE here == Call("get bans", Here, 0, 1)
           there == Call("get bans", There, 0, 2)
           unlist == Call("unlist", Here, 0, 1)
           enlist == Call("enlist", Here, "id", 1)
           perma == Call("ban", Here, <<"perma", "id">>, 1)
           temp == Call("ban", Here, <<"temp", "id">>, 1)
<1>0. /\ config.broadcast_unbans \in BOOLEAN /\ config.unban_does_unblacklist \in BOOLEAN
      /\ config.unblacklist_does_unban \in BOOLEAN
    BY ConfigFacts
<1>1. /\ here \in Calls /\ here.do = "get bans" /\ here.on = Here /\ here.scope = 1
      /\ there \in Calls /\ there.do = "get bans" /\ there.on = There /\ there.scope = 2
  <2>1. "get bans" \in Whats /\ 0 \in Args /\ 1 \in 1 .. 4 /\ 2 \in 1 .. 4
      BY DEF Whats, Args
  <2> QED BY <2>1, ServerFacts DEF Call, Calls
<1>2. /\ unlist \in Calls /\ unlist.do = "unlist" /\ unlist.on = Here /\ unlist.scope = 1
      /\ enlist \in Calls /\ enlist.do = "enlist"
  <2>1. /\ "unlist" \in Whats /\ "enlist" \in Whats /\ 0 \in Args /\ "id" \in Args
        /\ 1 \in 1 .. 4
      BY DEF Whats, Args
  <2> QED BY <2>1, ServerFacts DEF Call, Calls
<1>3. /\ perma \in Calls /\ perma.do = "ban" /\ perma.arg \in {"temp", "perma"} \X {"id"}
      /\ temp \in Calls /\ temp.do = "ban" /\ temp.arg \in {"temp", "perma"} \X {"id"}
  <2>1. /\ "ban" \in Whats /\ <<"perma", "id">> \in Args /\ <<"temp", "id">> \in Args
        /\ 1 \in 1 .. 4
      BY DEF Whats, Args, Kinds
  <2> QED BY <2>1, ServerFacts DEF Call, Calls
<1> DEFINE Both == Only(config.broadcast_unbans, <<there>>)
           All == <<here>> \o Both
           ListToo == Only(config.unban_does_unblacklist, <<unlist>>)
           BansToo == Only(config.unblacklist_does_unban, All)
<1>4. /\ CallsOf("unban") = All \o ListToo
      /\ CallsOf("unblacklist") = <<unlist>> \o BansToo
      /\ CallsOf("blacklist") = <<enlist>>
      /\ CallsOf("perma_ban") = <<perma>>
      /\ CallsOf("temp_ban") = <<temp>>
    BY DEF CallsOf, unban, unblacklist_player, Everywhere, do_unban, do_perma_ban
<1> HIDE DEF here, there, unlist, enlist, perma, temp
<1>5. /\ Both \in Seq(Calls) /\ ToSet(Both) = IF config.broadcast_unbans THEN {there} ELSE {}
      /\ ListToo \in Seq(Calls)
      /\ ToSet(ListToo) = IF config.unban_does_unblacklist THEN {unlist} ELSE {}
  <2>1. /\ <<there>> \in Seq(Calls) /\ ToSet(<<there>>) = {there}
        /\ <<unlist>> \in Seq(Calls) /\ ToSet(<<unlist>>) = {unlist}
      BY <1>1, <1>2, FewElements
  <2> QED BY <1>0, <2>1, OnlyOne
<1> HIDE DEF Both, ListToo
<1>6. All \in Seq(Calls) /\ ToSet(All) = {here} \cup ToSet(Both)
  <2> DEFINE one == <<here>>
  <2>1. one \in Seq(Calls) /\ ToSet(one) = {here}
      BY <1>1, FewElements
  <2> HIDE DEF one
  <2>2. one \o Both \in Seq(Calls) /\ ToSet(one \o Both) = ToSet(one) \cup ToSet(Both)
      BY <1>5, <2>1, JoinElements
  <2> QED BY <2>1, <2>2 DEF one
<1> HIDE DEF All
<1>7. BansToo \in Seq(Calls) /\ ToSet(BansToo) = IF config.unblacklist_does_unban THEN ToSet(All) ELSE {}
    BY <1>0, <1>6, OnlyOne
<1> HIDE DEF BansToo
<1>8. All \o ListToo \in Seq(Calls) /\ ToSet(All \o ListToo) = ToSet(All) \cup ToSet(ListToo)
    BY <1>5, <1>6, JoinElements
<1>9. /\ <<unlist>> \o BansToo \in Seq(Calls)
      /\ ToSet(<<unlist>> \o BansToo) = {unlist} \cup ToSet(BansToo)
  <2> DEFINE one == <<unlist>>
  <2>1. one \in Seq(Calls) /\ ToSet(one) = {unlist}
      BY <1>2, FewElements
  <2> HIDE DEF one
  <2>2. one \o BansToo \in Seq(Calls) /\ ToSet(one \o BansToo) = ToSet(one) \cup ToSet(BansToo)
      BY <1>7, <2>1, JoinElements
  <2> QED BY <2>1, <2>2 DEF one
<1> DEFINE todo == CallsOf(what)
<1>10. /\ here.scope = IF here.on = Here THEN 1 ELSE 2
       /\ there.scope = IF there.on = Here THEN 1 ELSE 2
       /\ unlist.scope = IF unlist.on = Here THEN 1 ELSE 2
    BY <1>1, <1>2, ServerFacts
<1>11. CASE what = "unban"
  <2>1. todo \in Seq(Calls) /\ ToSet(todo) = {here} \cup ToSet(Both) \cup ToSet(ListToo)
      BY <1>4, <1>6, <1>8, <1>11
  <2> HIDE DEF todo
  <2>2. todo # <<>>
      BY <2>1, FewElements
  <2> QED BY <1>0, <1>1, <1>2, <1>5, <1>10, <1>11, <2>1, <2>2 DEF todo, RequestCall
<1>12. CASE what = "unblacklist"
  <2>1. todo \in Seq(Calls) /\ ToSet(todo) = {unlist} \cup ToSet(BansToo)
      BY <1>4, <1>9, <1>12
  <2> HIDE DEF todo
  <2>2. todo # <<>>
      BY <2>1, FewElements
  <2> QED BY <1>0, <1>1, <1>2, <1>5, <1>6, <1>7, <1>10, <1>12, <2>1, <2>2 DEF todo, RequestCall
<1>13. CASE what \in {"blacklist", "perma_ban", "temp_ban"}
  <2>1. PICK c \in {enlist, perma, temp} : todo = <<c>>
      BY <1>4, <1>13
  <2> HIDE DEF todo
  <2>2. c \in Calls /\ c.do \in {"ban", "enlist"} /\ (c.do = "ban" => c.arg \in {"temp", "perma"} \X {"id"})
      BY <1>2, <1>3, <2>1
  <2>3. todo \in Seq(Calls) /\ ToSet(todo) = {c}
      BY <2>1, <2>2, FewElements
  <2>4. todo # <<>>
      BY <2>3, FewElements
  <2> QED BY <1>13, <2>2, <2>3, <2>4 DEF todo, RequestCall
<1> QED BY <1>11, <1>12, <1>13 DEF Requests

\* SetToSeq enumerates a finite set.
LEMMA SetToSeqFacts ==
    ASSUME NEW S, IsFiniteSet(S)
    PROVE  /\ SetToSeq(S) \in Seq(S)
           /\ \A a, b \in DOMAIN SetToSeq(S) : SetToSeq(S)[a] = SetToSeq(S)[b] => a = b
           /\ \A x \in S : \E i \in DOMAIN SetToSeq(S) : SetToSeq(S)[i] = x
<1> DEFINE n == Cardinality(S)
<1>1. n \in Nat /\ ExistsBijection(1 .. n, S)
    BY FS_CardinalityType
<1>2. PICK f : f \in Bijection(1 .. n, S)
    BY <1>1 DEF ExistsBijection
<1>3. f \in [1 .. n -> S] /\ IsInjective(f)
    BY <1>2 DEF Bijection, Injection
<1> DEFINE g == SetToSeq(S)
<1>4. g \in [1 .. n -> S] /\ IsInjective(g)
    BY <1>3 DEF SetToSeq
<1>5. g \in Injection(1 .. n, S)
    BY <1>4 DEF Injection
<1> HIDE DEF g
<1> DEFINE R == {g[i] : i \in 1 .. n}
<1>6. IsFiniteSet(1 .. n) /\ Cardinality(1 .. n) = n
    BY <1>1, FS_Interval
<1>7. g \in Surjection(1 .. n, R) /\ g \in Injection(1 .. n, R)
    BY <1>4, <1>5 DEF Surjection, Injection
<1>8. Cardinality(R) = n
    BY <1>6, <1>7, FS_Surjection
<1>9. R = S
  <2>1. R \in SUBSET S
      BY <1>4
  <2> HIDE DEF R
  <2> QED BY <1>8, <2>1, FS_Subset
<1>10. g \in Seq(S) /\ DOMAIN g = 1 .. n
    BY <1>1, <1>4
<1>11. \A x \in S : \E i \in DOMAIN g : g[i] = x
    BY <1>9, <1>10
<1> QED BY <1>4, <1>10, <1>11 DEF IsInjective, g

\* The lists that get_bans has, from the cache or the server.
TempList(s) == IF temps[s] = Unknown THEN bans[s] \cap Temporary ELSE temps[s]
PermaList(s) == IF permas[s] = Unknown THEN bans[s] \cap {"perma"} ELSE permas[s]

LEMMA FoundFacts ==
    ASSUME BansInv, NEW s \in Servers
    PROVE  /\ TempList(s) \subseteq Temporary /\ PermaList(s) \subseteq {"perma"}
           /\ TempList(s) \subseteq Bans /\ PermaList(s) \subseteq Bans
           /\ IsFiniteSet(TempList(s)) /\ IsFiniteSet(PermaList(s))
<1>1. TempList(s) \subseteq Temporary /\ PermaList(s) \subseteq {"perma"}
  <2>1. temps[s] \in TempLists /\ permas[s] \in PermaLists
      BY DEF BansInv
  <2> QED BY <2>1 DEF TempList, PermaList, TempLists, PermaLists
<1>2. IsFiniteSet({"temp", "pineapple"}) /\ IsFiniteSet({"perma"})
  <2>1. IsFiniteSet({"perma"}) /\ IsFiniteSet({"pineapple"})
      BY FS_Singleton
  <2>2. IsFiniteSet({"pineapple"} \cup {"temp"})
      BY <2>1, FS_AddElement
  <2>3. {"pineapple"} \cup {"temp"} = {"temp", "pineapple"}
      OBVIOUS
  <2> QED BY <2>1, <2>2, <2>3
<1>3. Temporary = {"temp", "pineapple"}
    BY DEF Temporary, Bans
<1>4. IsFiniteSet(TempList(s)) /\ IsFiniteSet(PermaList(s))
  <2>1. TempList(s) \in SUBSET {"temp", "pineapple"} /\ PermaList(s) \in SUBSET {"perma"}
      BY <1>1, <1>3
  <2> QED BY <1>2, <2>1, FS_Subset
<1> QED BY <1>1, <1>4 DEF Temporary, Bans

LEMMA SetToSeqElements ==
    ASSUME NEW S, NEW T, S \subseteq T, IsFiniteSet(S)
    PROVE  SetToSeq(S) \in Seq(T) /\ ToSet(SetToSeq(S)) = S
<1> DEFINE g == SetToSeq(S)
<1>1. g \in Seq(S) /\ \A x \in S : \E i \in DOMAIN g : g[i] = x
    BY SetToSeqFacts
<1> HIDE DEF g
<1>2. g \in Seq(T)
    BY <1>1
<1>3. ToSet(g) \subseteq S
    BY <1>1, FewElements
<1>4. S \subseteq ToSet(g)
    BY <1>1 DEF ToSet
<1> QED BY <1>2, <1>3, <1>4 DEF g

\* Removal calls, one for each ban of a list.
LEMMA RemovalsFacts ==
    ASSUME NEW found \in Seq(Bans), NEW s \in Servers, NEW scope \in 1 .. 4
    PROVE  LET todo == [i \in DOMAIN found |-> Call("remove", s, found[i], scope)]
           IN  /\ todo \in Seq(Calls)
               /\ ToSet(todo) = {Call("remove", s, b, scope) : b \in ToSet(found)}
<1> DEFINE todo == [i \in DOMAIN found |-> Call("remove", s, found[i], scope)]
<1>1. /\ Len(found) \in Nat /\ DOMAIN found = 1 .. Len(found)
      /\ \A i \in 1 .. Len(found) : found[i] \in Bans
    OBVIOUS
<1>2. \A b \in Bans : Call("remove", s, b, scope) \in Calls
  <2>1. "remove" \in Whats /\ Bans \subseteq Args
      BY DEF Whats, Args
  <2> QED BY <2>1 DEF Call, Calls
<1>3. DOMAIN todo = 1 .. Len(found) /\ \A i \in 1 .. Len(found) : todo[i] = Call("remove", s, found[i], scope)
    BY <1>1
<1>4. todo \in [1 .. Len(found) -> Calls]
    BY <1>1, <1>2
<1> HIDE DEF todo
<1>5. todo \in Seq(Calls)
    BY <1>1, <1>4
<1>6. ToSet(todo) = {Call("remove", s, b, scope) : b \in ToSet(found)}
    BY <1>1, <1>3 DEF ToSet
<1> QED BY <1>5, <1>6 DEF todo

LEMMA GetBansFacts ==
    ASSUME TypeInv, NEW q \in Processes, get_bans(q)
    PROVE  LET c == Head(calls[q])
           IN  /\ Busy(q) /\ c \in Calls /\ c.do = "get bans" /\ c \in Pending(q)
               /\ q = Web /\ Unbanning /\ c.scope = IF c.on = Here THEN 1 ELSE 2
               /\ \E more \in Seq(Calls) :
                     /\ Returned(q, more)
                     /\ ToSet(more) = {Call("remove", c.on, b, c.scope) :
                                          b \in TempList(c.on) \cup PermaList(c.on)}
               /\ temps' = [temps EXCEPT ![c.on] = TempList(c.on)]
               /\ permas' = [permas EXCEPT ![c.on] = PermaList(c.on)]
               /\ UNCHANGED <<config, player, database, bans, timers, faults, ghosts, failed>>
<1> DEFINE c == Head(calls[q])
           s == c.on
<1>0. CallsInv /\ BansInv /\ Busy(q) /\ c.do = "get bans"
    BY DEF TypeInv, ServerInv, get_bans, Doing
<1>1. c \in Calls /\ c \in Pending(q) /\ CallOK(q, c) /\ s \in Servers /\ c.scope \in 1 .. 4
  <2>1. c \in Calls /\ c \in Pending(q) /\ CallOK(q, c)
      BY <1>0, HeadFacts
  <2> HIDE DEF c
  <2> QED BY <2>1, CallFacts
<1>2. q = Web /\ WebCall(c)
    BY <1>0, <1>1, ProcessFacts DEF CallOK, LoopCall, NotifierCall, PardonerCall
<1>3. Unbanning /\ c.scope = IF c.on = Here THEN 1 ELSE 2
    BY <1>0, <1>2 DEF WebCall
<1> DEFINE a == SetToSeq(TempList(s))
           b == SetToSeq(PermaList(s))
           found == a \o b
           more == [i \in DOMAIN found |-> Call("remove", s, found[i], c.scope)]
<1>4. /\ Returned(q, more) /\ temps' = [temps EXCEPT ![s] = TempList(s)]
      /\ permas' = [permas EXCEPT ![s] = PermaList(s)]
      /\ UNCHANGED <<config, player, database, bans, timers, faults, ghosts, failed>>
    BY DEF get_bans, TempList, PermaList, Returned
<1>5. /\ a \in Seq(Bans) /\ ToSet(a) = TempList(s)
      /\ b \in Seq(Bans) /\ ToSet(b) = PermaList(s)
  <2>1. /\ TempList(s) \subseteq Bans /\ PermaList(s) \subseteq Bans
        /\ IsFiniteSet(TempList(s)) /\ IsFiniteSet(PermaList(s))
      BY <1>0, <1>1, FoundFacts
  <2> QED BY <2>1, SetToSeqElements
<1> HIDE DEF c, a, b
<1>6. found \in Seq(Bans) /\ ToSet(found) = TempList(s) \cup PermaList(s)
    BY <1>5, JoinElements
<1> HIDE DEF found
<1>7. more \in Seq(Calls) /\ ToSet(more) = {Call("remove", s, x, c.scope) : x \in ToSet(found)}
    BY <1>1, <1>6, RemovalsFacts
<1> HIDE DEF more
<1>8. ToSet(more) = {Call("remove", s, x, c.scope) : x \in TempList(s) \cup PermaList(s)}
    BY <1>6, <1>7
<1>9. \E m \in Seq(Calls) :
         /\ Returned(q, m)
         /\ ToSet(m) = {Call("remove", s, x, c.scope) : x \in TempList(s) \cup PermaList(s)}
    BY <1>4, <1>7, <1>8
<1> QED BY <1>0, <1>1, <1>2, <1>3, <1>4, <1>9 DEF c

LEMMA GoOn ==
    ASSUME TypeInv, PlayerInv', visits' = visits, config' = config,
           NEW q \in Processes, Busy(q), NEW more \in Seq(Calls), Returned(q, more),
           \A c \in ToSet(more) : CallOK(q, c)
    PROVE  CallsInv'
<1>0. CallsInv /\ PlayerInv
    BY DEF TypeInv
<1>1. PICK todo \in Seq(Calls) : Todo(q, todo) /\ ToSet(todo) = ToSet(more) \cup Rest(q)
    BY <1>0, ReturnedFacts
<1>2. \A c \in ToSet(todo) : CallOK(q, c)
    BY <1>0, <1>1, HeadFacts
<1> QED BY <1>0, <1>1, <1>2, TodoKeepsCalls

LEMMA RaisedGoesOn ==
    ASSUME TypeInv, PlayerInv', visits' = visits, config' = config,
           NEW q \in Processes, Busy(q), Raised(q) \/ NotRemoved(q)
    PROVE  CallsInv'
<1>0. CallsInv /\ PlayerInv
    BY DEF TypeInv
<1>1. PICK todo \in Seq(Calls) : Todo(q, todo) /\ ToSet(todo) \subseteq Rest(q)
    BY <1>0, RaisedFacts, NotRemovedFacts
<1>2. \A c \in ToSet(todo) : CallOK(q, c)
    BY <1>0, <1>1, HeadFacts
<1> QED BY <1>0, <1>1, <1>2, TodoKeepsCalls

\* The thread of a timer that fires.
LEMMA FireFacts ==
    ASSUME TypeInv, NEW s \in Servers, Fire(s)
    PROVE  \E q \in {Notifier(s), Pardoner(s)}, todo \in Seq(Calls) :
              /\ q = <<Head(timers[s]), s>> /\ Head(timers[s]) \in {"notify", "pardon"}
              /\ ~Busy(q) /\ Todo(q, todo) /\ todo # <<>>
              /\ \A c \in ToSet(todo) :
                    /\ CallOK(q, c)
                    /\ q = Pardoner(s) => c.do = "find temp ban"
<1>0. /\ timers[s] # <<>> /\ config \in Configs /\ timers[s] \in Seq(Alarms)
      /\ config.name # "fine" /\ config.name \in {"fine", "warn", "kick", "ban", "pineapple"}
  <2>1. timers[s] # <<>>
      BY DEF Fire
  <2>2. config \in Configs /\ timers[s] \in Seq(Alarms) /\ (config.name = "fine" => timers[s] = <<>>)
      BY DEF TypeInv, ServerInv, TimersInv, FlagsInv, Alarms
  <2> QED BY <2>1, <2>2, ConfigFacts
<1>1. Head(timers[s]) \in {"notify", "pardon"}
    BY <1>0 DEF Alarms
<1> DEFINE q == <<Head(timers[s]), s>>
<1>2. ~Busy(q) /\ Todo(q, IF q = Notifier(s) THEN Notification(s) ELSE <<Call("find temp ban", s, 0, 1)>>)
    BY DEF Fire
<1>3. /\ \A c : NotifierCall(s, c) => CallOK(Notifier(s), c)
      /\ \A c : PardonerCall(s, c) => CallOK(Pardoner(s), c)
    BY ProcessFacts DEF CallOK
<1>4. CASE Head(timers[s]) = "notify"
  <2>1. q = Notifier(s) /\ q # Pardoner(s)
      BY <1>4 DEF Notifier, Pardoner
  <2> DEFINE message == Call("message", s, 0, 1)
             kick == Call("kick", s, 0, 1)
             ban == Call("ban", s, <<"temp", "id">>, 1)
             pineapple == Call("ban", s, <<"pineapple", "id">>, 1)
             c == CASE config.name = "warn" -> message
                    [] config.name = "kick" -> kick
                    [] config.name = "ban" -> ban
                    [] config.name = "pineapple" -> pineapple
  <2>2. Notification(s) = <<c>>
      BY <1>0 DEF Notification
  <2>3. c \in Calls /\ NotifierCall(s, c)
    <3>1. /\ "message" \in Whats /\ "kick" \in Whats /\ "ban" \in Whats /\ 0 \in Args
          /\ <<"temp", "id">> \in Args /\ <<"pineapple", "id">> \in Args /\ 1 \in 1 .. 4
        BY DEF Whats, Args, Kinds
    <3>2. CASE config.name = "warn"
      <4>1. message \in Calls /\ NotifierCall(s, message)
          BY <3>1 DEF Call, Calls, NotifierCall
      <4> QED BY <3>2, <4>1
    <3>3. CASE config.name = "kick"
      <4>1. kick \in Calls /\ NotifierCall(s, kick)
          BY <3>1 DEF Call, Calls, NotifierCall
      <4> QED BY <3>3, <4>1
    <3>4. CASE config.name = "ban"
      <4>1. ban \in Calls /\ NotifierCall(s, ban)
          BY <3>1, <3>4 DEF Call, Calls, NotifierCall
      <4> QED BY <3>4, <4>1
    <3>5. CASE config.name = "pineapple"
      <4>1. pineapple \in Calls /\ NotifierCall(s, pineapple)
          BY <3>1, <3>5 DEF Call, Calls, NotifierCall
      <4> QED BY <3>5, <4>1
    <3> QED BY <1>0, <3>2, <3>3, <3>4, <3>5
  <2> HIDE DEF c
  <2> DEFINE todo == <<c>>
  <2>4. todo \in Seq(Calls) /\ ToSet(todo) = {c}
      BY <2>3, FewElements
  <2>5. Todo(Notifier(s), todo) /\ ~Busy(Notifier(s))
      BY <1>2, <2>1, <2>2
  <2> HIDE DEF todo
  <2>6. todo # <<>>
      BY <2>4, FewElements
  <2> QED BY <1>1, <1>3, <2>1, <2>3, <2>4, <2>5, <2>6
<1>5. CASE Head(timers[s]) = "pardon"
  <2>1. q = Pardoner(s) /\ q # Notifier(s)
      BY <1>5 DEF Notifier, Pardoner
  <2> DEFINE c == Call("find temp ban", s, 0, 1)
             todo == <<c>>
  <2>2. c \in Calls /\ PardonerCall(s, c) /\ c.do = "find temp ban"
    <3>1. "find temp ban" \in Whats /\ 0 \in Args /\ 1 \in 1 .. 4
        BY DEF Whats, Args
    <3> QED BY <3>1 DEF Call, Calls, PardonerCall
  <2>3. Todo(Pardoner(s), todo) /\ ~Busy(Pardoner(s))
      BY <1>2, <2>1
  <2> HIDE DEF c
  <2>4. todo \in Seq(Calls) /\ ToSet(todo) = {c}
      BY <2>2, FewElements
  <2> HIDE DEF todo
  <2>5. todo # <<>>
      BY <2>4, FewElements
  <2> QED BY <1>1, <1>3, <2>1, <2>2, <2>3, <2>4, <2>5
<1> QED BY <1>1, <1>4, <1>5

\* The pardon looks for a temporary ban.
LEMMA FindFacts ==
    ASSUME TypeInv, NEW q \in Processes, FindTempBan(q)
    PROVE  \E s \in Servers :
              /\ q = Pardoner(s) /\ Busy(q) /\ Head(calls[q]).on = s
              /\ temps' = [temps EXCEPT ![s] = bans[s] \cap Temporary]
              /\ UNCHANGED <<config, player, database, bans, permas, timers, faults, ghosts>>
              /\ \/ bans[s] \cap Temporary = {} /\ Raised(q)
                 \/ \E b \in bans[s] \cap Temporary, more \in Seq(Calls) :
                       /\ Returned(q, more)
                       /\ \A c \in ToSet(more) : CallOK(q, c)
                       /\ \E c \in Calls :
                             ToSet(more) = {c} /\ c.do = "remove" /\ c.on = s /\ c.arg = b
<1> DEFINE c == Head(calls[q])
<1>0. Busy(q) /\ c.do = "find temp ban" /\ CallOK(q, c)
    BY HeadFacts DEF FindTempBan, Doing, TypeInv
<1>1. PICK s \in Servers : q = Pardoner(s) /\ PardonerCall(s, c)
    BY <1>0, ProcessFacts DEF CallOK, LoopCall, NotifierCall, WebCall
<1>2. c.on = s
    BY <1>1 DEF PardonerCall
<1>3. /\ temps' = [temps EXCEPT ![s] = bans[s] \cap Temporary]
      /\ UNCHANGED <<config, player, database, bans, permas, timers, faults, ghosts>>
      /\ \/ bans[s] \cap Temporary = {} /\ Raised(q)
         \/ \E b \in bans[s] \cap Temporary : Returned(q, <<Call("remove", s, b, 1)>>)
    BY <1>2 DEF FindTempBan
<1>4. ASSUME NEW b \in bans[s] \cap Temporary, Returned(q, <<Call("remove", s, b, 1)>>)
      PROVE  \E more \in Seq(Calls) :
                /\ Returned(q, more)
                /\ \A x \in ToSet(more) : CallOK(q, x)
                /\ \E x \in Calls :
                      ToSet(more) = {x} /\ x.do = "remove" /\ x.on = s /\ x.arg = b
  <2> DEFINE x == Call("remove", s, b, 1)
             more == <<x>>
  <2>1. x \in Calls /\ x.do = "remove" /\ x.on = s /\ x.arg = b
    <3>1. "remove" \in Whats /\ b \in Args /\ 1 \in 1 .. 4
        BY DEF Whats, Args, Temporary
    <3> QED BY <3>1 DEF Call, Calls
  <2>2. Returned(q, more)
      BY <1>4
  <2> HIDE DEF x
  <2>3. more \in Seq(Calls) /\ ToSet(more) = {x}
      BY <2>1, FewElements
  <2>4. CallOK(q, x)
    <3>1. PardonerCall(s, x)
        BY <2>1 DEF PardonerCall
    <3> QED BY <1>1, <3>1, ProcessFacts DEF CallOK
  <2> HIDE DEF more
  <2> QED BY <2>1, <2>2, <2>3, <2>4
<1> QED BY <1>0, <1>1, <1>2, <1>3, <1>4

\* A ban that is sent.
LEMMA SendBanFacts ==
    ASSUME TypeInv, NEW q \in Processes, SendBan(q)
    PROVE  LET c == Head(calls[q])
           IN  /\ Busy(q) /\ c \in Calls /\ c \in Pending(q) /\ c.do = "ban"
               /\ c.on \in Servers /\ c.arg[1] \in Bans
               /\ UNCHANGED <<config, database, timers, faults, inOrder, due>>
               /\ \/ /\ Banned(c) /\ Disturb(q, c) /\ Clear(c)
                     /\ \E more \in Seq(Calls) :
                           /\ Returned(q, more)
                           /\ \A x \in ToSet(more) : CallOK(q, x) /\ x.do = "enlist"
                  \/ /\ c.arg[2] = "name" /\ where # c.on /\ Raised(q)
                     /\ UNCHANGED <<player, bans, cached, quiet, orderly>>
<1> DEFINE c == Head(calls[q])
<1>0. CallsInv /\ Busy(q) /\ c.do = "ban" /\ c \in Calls /\ c \in Pending(q) /\ CallOK(q, c)
    BY HeadFacts DEF SendBan, Doing, TypeInv
<1>1. c.on \in Servers /\ c.arg[1] \in Bans /\ c.arg[2] \in {"name", "id"}
  <2> HIDE DEF c
  <2> QED BY <1>0, BanFacts
<1>6. PICK by \in SentBy(c) :
         \/ /\ Carried(c, by) /\ Disturb(q, c) /\ Clear(c)
            /\ Returned(q, IF c.arg[1] = "perma"
                           THEN <<Call("enlist", c.on, by, 4)>> ELSE <<>>)
         \/ /\ by = "name" /\ where # c.on /\ Raised(q)
            /\ UNCHANGED <<player, bans, cached, quiet, orderly>>
    BY DEF SendBan
<1>7. by \in {"name", "id"} /\ (by = "name" => c.arg[2] = "name")
  <2> HIDE DEF c
  <2> QED BY <1>1, <1>6 DEF SentBy
<1> DEFINE new == Call("enlist", c.on, by, 4)
           more == IF c.arg[1] = "perma" THEN <<new>> ELSE <<>>
<1>2. /\ UNCHANGED <<config, database, timers, faults, inOrder, due>>
      /\ \/ Banned(c) /\ Disturb(q, c) /\ Clear(c) /\ Returned(q, more)
         \/ /\ c.arg[2] = "name" /\ where # c.on /\ Raised(q)
            /\ UNCHANGED <<player, bans, cached, quiet, orderly>>
  <2>1. UNCHANGED <<config, database, timers, faults, inOrder, due>>
      BY DEF SendBan
  <2> HIDE DEF c
  <2> QED BY <1>6, <1>7, <2>1 DEF Banned
<1>3. new \in Calls /\ new.do = "enlist" /\ new.on = c.on
  <2>1. "enlist" \in Whats /\ by \in Args /\ 4 \in 1 .. 4
      BY <1>7 DEF Whats, Args
  <2> QED BY <1>1, <2>1 DEF Call, Calls
<1>4. ASSUME c.arg[1] = "perma" PROVE CallOK(q, new)
  <2> HIDE DEF c, new
  <2>1. CASE q = Web
    <3>1. WebCall(c)
        BY <1>0, <2>1 DEF CallOK
    <3>2. WebCall(new)
        BY <1>0, <1>3, <3>1 DEF WebCall
    <3> QED BY <2>1, <3>2, ProcessFacts DEF CallOK
  <2>2. ASSUME NEW s \in Servers, q = Loop(s) PROVE CallOK(q, new)
    <3>1. LoopCall(s, c)
        BY <1>0, <2>2 DEF CallOK
    <3>2. LoopCall(s, new)
        BY <1>3, <3>1 DEF LoopCall
    <3> QED BY <2>2, <3>2, ProcessFacts DEF CallOK
  <2>3. ASSUME NEW s \in Servers, q = Notifier(s) PROVE FALSE
    <3>1. c.arg = <<IF config.name = "pineapple" THEN "pineapple" ELSE "temp", "id">>
        BY <1>0, <2>3 DEF CallOK, NotifierCall
    <3> QED BY <1>4, <3>1
  <2>4. ASSUME NEW s \in Servers, q = Pardoner(s) PROVE FALSE
      BY <1>0, <2>4 DEF CallOK, PardonerCall
  <2> QED BY <2>1, <2>2, <2>3, <2>4, ProcessFacts
<1> HIDE DEF c, new
<1>5. more \in Seq(Calls) /\ \A x \in ToSet(more) : CallOK(q, x) /\ x.do = "enlist"
  <2>1. CASE c.arg[1] = "perma"
    <3>1. more = <<new>>
        BY <2>1
    <3> HIDE DEF more
    <3>2. more \in Seq(Calls) /\ ToSet(more) = {new}
        BY <1>3, <3>1, FewElements
    <3> QED BY <1>3, <1>4, <2>1, <3>2
  <2>2. CASE c.arg[1] # "perma"
    <3>1. more = <<>>
        BY <2>2
    <3> HIDE DEF more
    <3> QED BY <3>1, FewElements
  <2> QED BY <2>1, <2>2
<1> HIDE DEF more
<1> QED BY <1>0, <1>1, <1>2, <1>5 DEF c

LEMMA StepCallsInv ==
    ASSUME TypeInv, PlayerInv', config' = config, visits' >= visits, [Next]_vars
    PROVE  CallsInv'
<1>0. CallsInv /\ PlayerInv /\ BansInv /\ config \in Configs
    BY DEF TypeInv, ServerInv, FlagsInv
<1>1. CASE Disconnect \/ UNCHANGED vars
  <2>1. UNCHANGED <<calls, at, request>>
      BY <1>1 DEF Disconnect, vars
  <2> QED BY <1>0, <2>1, SameCalls
<1>2. ASSUME NEW s \in Servers, Connect(s) \/ ViewBans(s) \/ Lapse(s) PROVE CallsInv'
  <2>1. UNCHANGED <<calls, at, request>>
      BY <1>2 DEF Connect, ViewBans, Lapse
  <2> QED BY <1>0, <2>1, SameCalls
<1>3. CASE Receive
  <2>1. PICK what \in Requests : calls' = [calls EXCEPT ![Web] = CallsOf(what)] /\ request' = what
      BY <1>0, <1>3, ConfigFacts DEF Receive
  <2>2. ~Busy(Web) /\ at' = at
      BY <1>3 DEF Receive
  <2>3. calls \in [Processes -> Seq(Calls)] /\ at \in [Processes -> {"begin", "send"}]
      BY <1>0 DEF CallsInv
  <2>4. CallsOf(what) \in Seq(Calls) /\ CallsOf(what) # <<>> /\ Web \in Processes
      BY <1>0, CallsOfFacts, ProcessFacts
  <2>5. /\ calls' \in [Processes -> Seq(Calls)] /\ calls'[Web] = CallsOf(what)
        /\ \A r \in Processes : r # Web => calls'[r] = calls[r]
      BY <2>1, <2>3, <2>4
  <2>6. ASSUME NEW r \in Processes, NEW c \in Pending(r)' PROVE CallOK(r, c)'
    <3>1. CASE r = Web
      <4>1. c \in ToSet(CallsOf(what))
          BY <2>5, <2>6, <3>1 DEF Pending
      <4>2. RequestCall(what, c)
          BY <1>0, <4>1, CallsOfFacts
      <4>3. WebCall(c)'
          BY <2>1, <4>2 DEF RequestCall, WebCall, Unbanning
      <4> QED BY <3>1, <4>3, ProcessFacts DEF CallOK
    <3>2. CASE r # Web
      <4>1. c \in Pending(r) /\ CallOK(r, c)
          BY <1>0, <2>5, <2>6, <3>2 DEF Pending, CallsInv
      <4> QED BY <1>0, <3>2, <4>1, CallStaysOK
    <3> QED BY <3>1, <3>2
  <2>7. ASSUME NEW r \in Processes, at'[r] = "send"
        PROVE  Busy(r)' /\ Head(calls'[r]).do \in TwoSteps
    <3>1. r # Web /\ calls'[r] = calls[r] /\ at[r] = "send"
        BY <1>0, <2>2, <2>5, <2>7 DEF CallsInv
    <3> QED BY <1>0, <3>1 DEF CallsInv, Busy
  <2>8. request' \in Requests /\ request' # "none" /\ calls'[Web] # <<>>
      BY <2>1, <2>4, <2>5 DEF Requests
  <2> QED BY <2>2, <2>3, <2>5, <2>6, <2>7, <2>8 DEF CallsInv
<1>4. ASSUME NEW s \in Servers, Fetch(s) PROVE CallsInv'
  <2>1. visits' = visits /\ Head(lines[s]) \in 1 .. 2 * visits
      BY <1>4, FetchFacts
  <2> DEFINE todo == HooksOf(s, Head(lines[s]))
  <2>2. Todo(Loop(s), todo)
      BY <1>4 DEF Fetch
  <2>3. todo \in Seq(Calls) /\ \A c \in ToSet(todo) : CallOK(Loop(s), c)
      BY <2>1, HooksFacts
  <2> HIDE DEF todo
  <2>4. Loop(s) \in Processes /\ Loop(s) # Web
      BY ProcessFacts
  <2> QED BY <1>0, <2>1, <2>2, <2>3, <2>4, TodoKeepsCalls
<1>5. ASSUME NEW s \in Servers, Fire(s) PROVE CallsInv'
  <2>1. PICK q \in {Notifier(s), Pardoner(s)}, todo \in Seq(Calls) :
           Todo(q, todo) /\ \A c \in ToSet(todo) : CallOK(q, c)
      BY <1>5, FireFacts
  <2>2. q \in Processes /\ q # Web
      BY ProcessFacts
  <2>3. visits' = visits
      BY <1>5 DEF Fire, player
  <2> QED BY <1>0, <2>1, <2>2, <2>3, TodoKeepsCalls
<1>6. ASSUME NEW s \in Servers, Restart(s) PROVE CallsInv'
  <2> DEFINE Ended == {Loop(s), Notifier(s), Pardoner(s)}
  <2>1. /\ calls' = [q \in Processes |-> IF q \in Ended THEN <<>> ELSE calls[q]]
        /\ at' = [q \in Processes |-> IF calls'[q] = <<>> THEN "begin" ELSE at[q]]
        /\ request' = request
      BY <1>6 DEF Restart
  <2>2. calls \in [Processes -> Seq(Calls)] /\ at \in [Processes -> {"begin", "send"}]
        /\ <<>> \in Seq(Calls)
      BY <1>0, FewElements DEF CallsInv
  <2>3. /\ calls' \in [Processes -> Seq(Calls)] /\ at' \in [Processes -> {"begin", "send"}]
        /\ \A q \in Processes : calls'[q] = IF q \in Ended THEN <<>> ELSE calls[q]
        /\ \A q \in Processes : at'[q] = IF calls'[q] = <<>> THEN "begin" ELSE at[q]
      BY <2>1, <2>2
  <2>4. Web \in Processes /\ Web \notin Ended
      BY ProcessFacts
  <2>5. ASSUME NEW r \in Processes, NEW c \in Pending(r)' PROVE CallOK(r, c)'
    <3>1. calls'[r] = calls[r]
        BY <2>3, <2>5, FewElements DEF Pending
    <3>2. c \in Pending(r) /\ CallOK(r, c)
        BY <1>0, <2>5, <3>1 DEF Pending, CallsInv
    <3> QED BY <1>0, <2>1, <3>2, CallStaysOK
  <2>6. ASSUME NEW r \in Processes, at'[r] = "send"
        PROVE  Busy(r)' /\ Head(calls'[r]).do \in TwoSteps
    <3>1. calls'[r] # <<>> /\ calls'[r] = calls[r] /\ at[r] = "send"
        BY <2>3, <2>6
    <3> QED BY <1>0, <3>1 DEF CallsInv, Busy
  <2>7. request' \in Requests \cup {"none"} /\ (request' = "none" <=> calls'[Web] = <<>>)
      BY <1>0, <2>1, <2>3, <2>4 DEF CallsInv
  <2> QED BY <2>3, <2>5, <2>6, <2>7 DEF CallsInv
<1>7. ASSUME visits' = visits, NEW s \in Servers, Hook(Loop(s)) PROVE CallsInv'
  <2>1. Busy(Loop(s)) /\ Loop(s) \in Processes
      BY <1>7, HookFacts, ProcessFacts
  <2>2. PICK more : HookMore(s, more)
      BY <1>7, HookFacts
  <2>3. PICK todo \in Seq(Calls) : Todo(Loop(s), todo) /\ ToSet(todo) = ToSet(more) \cup Rest(Loop(s))
      BY <2>2 DEF HookMore
  <2>4. \A c \in ToSet(todo) : CallOK(Loop(s), c)
      BY <1>0, <2>1, <2>2, <2>3, HeadFacts DEF HookMore
  <2> QED BY <1>0, <1>7, <2>1, <2>3, <2>4, TodoKeepsCalls
<1>8. ASSUME visits' = visits, NEW q \in Processes, Command(q) PROVE CallsInv'
  <2>0. <<>> \in Seq(Calls) /\ \A c \in ToSet(<<>>) : CallOK(q, c)
      BY FewElements
  <2>1. CASE ClearCache(q)
    <3>1. /\ Busy(q) /\ Head(calls[q]).do \in TwoSteps /\ at' = [at EXCEPT ![q] = "send"]
          /\ UNCHANGED <<calls, request>>
        BY <2>1 DEF ClearCache
    <3>2. at' \in [Processes -> {"begin", "send"}] /\ \A r \in Processes : r # q => at'[r] = at[r]
        BY <1>0, <3>1 DEF CallsInv
    <3>3. ASSUME NEW r \in Processes, NEW c \in Pending(r)' PROVE CallOK(r, c)'
      <4>1. c \in Pending(r) /\ CallOK(r, c)
          BY <1>0, <3>1, <3>3 DEF Pending, CallsInv
      <4> QED BY <1>0, <3>1, <4>1, CallStaysOK
    <3> QED BY <1>0, <3>1, <3>2, <3>3 DEF CallsInv, Busy
  <2>2. CASE SendBan(q)
      BY <1>8, <2>2, SendBanFacts, GoOn, RaisedGoesOn
  <2>3. CASE SendRemoval(q)
    <3>1. Busy(q) /\ (Returned(q, <<>>) \/ NotRemoved(q))
        BY <2>3 DEF SendRemoval, Doing
    <3> QED BY <1>8, <2>0, <3>1, GoOn, RaisedGoesOn
  <2>4. CASE KickOrMessage(q)
    <3>1. Busy(q) /\ (Returned(q, <<>>) \/ Raised(q))
        BY <2>4 DEF KickOrMessage, Doing
    <3> QED BY <1>8, <2>0, <3>1, GoOn, RaisedGoesOn
  <2>5. CASE FindTempBan(q)
      BY <1>8, <2>5, FindFacts, GoOn, RaisedGoesOn
  <2>6. CASE get_bans(q)
    <3> DEFINE c == Head(calls[q])
    <3>1. /\ Busy(q) /\ q = Web /\ Unbanning /\ c.scope = IF c.on = Here THEN 1 ELSE 2
          /\ c \in Calls
        BY <2>6, GetBansFacts
    <3>2. PICK more \in Seq(Calls) :
             /\ Returned(q, more)
             /\ ToSet(more) = {Call("remove", c.on, b, c.scope) : b \in TempList(c.on) \cup PermaList(c.on)}
        BY <2>6, GetBansFacts
    <3>3. TempList(c.on) \subseteq Bans /\ PermaList(c.on) \subseteq Bans
        BY <1>0, <3>1, CallFacts, FoundFacts
    <3>4. ASSUME NEW b \in Bans PROVE CallOK(q, Call("remove", c.on, b, c.scope))
      <4> DEFINE new == Call("remove", c.on, b, c.scope)
      <4>1. new.do = "remove" /\ new.on = c.on /\ new.arg = b /\ new.scope = c.scope
          BY DEF Call
      <4> HIDE DEF new, c
      <4>2. WebCall(new)
          BY <3>1, <4>1 DEF WebCall
      <4>3. CallOK(q, new)
          BY <3>1, <4>2, ProcessFacts DEF CallOK
      <4> QED BY <4>3 DEF new, c
    <3> HIDE DEF c
    <3>5. \A x \in ToSet(more) : CallOK(q, x)
        BY <3>2, <3>3, <3>4
    <3> QED BY <1>8, <3>1, <3>2, <3>5, GoOn
  <2>7. CASE add_player_to_blacklist(q) \/ remove_player_from_blacklist(q)
    <3>1. Busy(q) /\ (Returned(q, <<>>) \/ Raised(q))
        BY <2>7 DEF add_player_to_blacklist, remove_player_from_blacklist, Doing
    <3> QED BY <1>8, <2>0, <3>1, GoOn, RaisedGoesOn
  <2> QED BY <1>8, <2>1, <2>2, <2>3, <2>4, <2>5, <2>6, <2>7 DEF Command
<1>9. ASSUME visits' = visits, NEW q \in Processes, Refused(q) \/ AnswerLost(q) PROVE CallsInv'
  <2>1. Busy(q) /\ Raised(q)
      BY <1>9 DEF Refused, AnswerLost
  <2> QED BY <1>9, <2>1, RaisedGoesOn
<1>10. (\E s \in Servers : Connect(s)) \/ visits' = visits
    BY StepTravels, FetchFacts DEF Travels
<1> QED BY <1>1, <1>2, <1>3, <1>4, <1>5, <1>6, <1>7, <1>8, <1>9, <1>10 DEF Next

LEMMA StepTypeInv ==
    ASSUME TypeInv, [Next]_vars
    PROVE  TypeInv' /\ config' = config /\ visits' >= visits
<1>1. PlayerInv' /\ visits' >= visits
    BY StepTravelInv, StepRowsInv DEF PlayerInv
<1>2. FlagsInv' /\ config' = config
    BY StepFlagsInv
<1>3. CallsInv'
    BY <1>1, <1>2, StepCallsInv
<1>4. BansInv' /\ TimersInv'
    BY <1>2, StepBansInv, StepTimersInv
<1> QED BY <1>1, <1>2, <1>3, <1>4 DEF TypeInv, ServerInv

-----------------------------------------------------------------------------
(* Whose calls a step changes.                                             *)

LEMMA TheirCalls ==
    ASSUME CallsInv, NEW q \in Processes, NEW todo, calls' = [calls EXCEPT ![q] = todo]
    PROVE  \A r \in Processes : r # q => calls'[r] = calls[r]
BY DEF CallsInv

LEMMA CommandTodo ==
    ASSUME NEW q \in Processes, Command(q) \/ Refused(q) \/ AnswerLost(q)
    PROVE  calls' = calls \/ \E todo : calls' = [calls EXCEPT ![q] = todo]
<1>0. /\ \A more : Returned(q, more) => \E todo : calls' = [calls EXCEPT ![q] = todo]
      /\ Raised(q) \/ NotRemoved(q) => \E todo : calls' = [calls EXCEPT ![q] = todo]
    BY DEF Returned, Raised, NotRemoved, Todo
<1>1. CASE ClearCache(q)
    BY <1>1 DEF ClearCache
<1>2. CASE SendBan(q) \/ SendRemoval(q) \/ KickOrMessage(q)
    BY <1>0, <1>2 DEF SendBan, SendRemoval, KickOrMessage
<1>3. CASE FindTempBan(q) \/ get_bans(q)
    BY <1>0, <1>3 DEF FindTempBan, get_bans
<1>4. CASE add_player_to_blacklist(q) \/ remove_player_from_blacklist(q)
    BY <1>0, <1>4 DEF add_player_to_blacklist, remove_player_from_blacklist
<1>5. CASE Refused(q) \/ AnswerLost(q)
    BY <1>0, <1>5 DEF Refused, AnswerLost
<1> QED BY <1>1, <1>2, <1>3, <1>4, <1>5 DEF Command

LEMMA OwnSteps ==
    ASSUME TypeInv, [Next]_vars, NEW r \in Processes
    PROVE  \/ calls'[r] = calls[r] /\ Pending(r)' = Pending(r)
           \/ Command(r) \/ Refused(r) \/ AnswerLost(r)
           \/ r = Web /\ Receive
           \/ \E s \in Servers : r = Loop(s) /\ (Fetch(s) \/ Hook(r))
           \/ \E s \in Servers : r \in {Notifier(s), Pardoner(s)} /\ Fire(s)
           \/ \E s \in Servers : r \in {Loop(s), Notifier(s), Pardoner(s)} /\ Restart(s)
<1>0. CallsInv /\ (calls'[r] = calls[r] => Pending(r)' = Pending(r))
    BY DEF TypeInv, Pending
<1>1. CASE Disconnect \/ UNCHANGED vars
    BY <1>0, <1>1 DEF Disconnect, vars
<1>2. ASSUME NEW s \in Servers, Connect(s) \/ ViewBans(s) \/ Lapse(s) PROVE calls'[r] = calls[r]
    BY <1>2 DEF Connect, ViewBans, Lapse
<1>3. ASSUME Receive, r # Web PROVE calls'[r] = calls[r]
    BY <1>0, <1>3, ProcessFacts, TheirCalls DEF Receive
<1>4. ASSUME NEW s \in Servers, Fetch(s), r # Loop(s) PROVE calls'[r] = calls[r]
    BY <1>0, <1>4, ProcessFacts, TheirCalls DEF Fetch, Todo
<1>5. ASSUME NEW s \in Servers, Hook(Loop(s)), r # Loop(s) PROVE calls'[r] = calls[r]
  <2>1. PICK more : HookMore(s, more)
      BY <1>5, HookFacts
  <2>2. PICK todo : Todo(Loop(s), todo)
      BY <2>1 DEF HookMore
  <2> QED BY <1>0, <1>5, <2>2, ProcessFacts, TheirCalls DEF Todo
<1>6. ASSUME NEW s \in Servers, Fire(s), r \notin {Notifier(s), Pardoner(s)}
      PROVE  calls'[r] = calls[r]
  <2>1. PICK q \in {Notifier(s), Pardoner(s)}, todo \in Seq(Calls) : Todo(q, todo)
      BY <1>6, FireFacts
  <2> QED BY <1>0, <1>6, <2>1, ProcessFacts, TheirCalls DEF Todo
<1>7. ASSUME NEW s \in Servers, Restart(s), r \notin {Loop(s), Notifier(s), Pardoner(s)}
      PROVE  calls'[r] = calls[r]
    BY <1>7 DEF Restart
<1>8. ASSUME NEW q \in Processes, Command(q) \/ Refused(q) \/ AnswerLost(q), r # q
      PROVE  calls'[r] = calls[r]
    BY <1>0, <1>8, CommandTodo, TheirCalls
<1> QED BY <1>0, <1>1, <1>2, <1>3, <1>4, <1>5, <1>6, <1>7, <1>8 DEF Next

-----------------------------------------------------------------------------
(* The blacklist is enforced.                                              *)

\* Who is due stays so only as long as the blacklist is on.
LEMMA DueFacts ==
    ASSUME [Next]_vars, ~ \E s \in Servers : Connect(s), due'
    PROVE  due /\ blacklist' \in {blacklist, "on"}
<1>1. CASE Disconnect \/ Receive \/ UNCHANGED vars
    BY <1>1 DEF Disconnect, Receive, vars, database, ghosts
<1>2. ASSUME NEW s \in Servers,
             Fetch(s) \/ Fire(s) \/ ViewBans(s) \/ Lapse(s) \/ Restart(s)
      PROVE  due /\ blacklist' = blacklist
    BY <1>2 DEF Fetch, Fire, ViewBans, Lapse, Restart, database, ghosts
<1>3. ASSUME NEW s \in Servers, Hook(Loop(s)) PROVE due /\ blacklist' = blacklist
    BY <1>3 DEF Hook, save_start_player_session, save_end_player_session,
                ban_if_blacklisted, ban_if_has_vac_bans, windows_store_player_check,
                notify_invalid_names, cleanup_pending_timers, Decide, database, ghosts
<1>4. ASSUME NEW q \in Processes, Command(q) PROVE due /\ blacklist' \in {blacklist, "on"}
    BY <1>4 DEF Command, ClearCache, SendBan, SendRemoval, KickOrMessage, FindTempBan,
                get_bans, add_player_to_blacklist, remove_player_from_blacklist,
                database, ghosts
<1>5. ASSUME NEW q \in Processes, Refused(q) \/ AnswerLost(q)
      PROVE  due /\ blacklist' = blacklist
    BY <1>5 DEF Refused, AnswerLost, Fault, database
<1> QED BY <1>1, <1>2, <1>3, <1>4, <1>5 DEF Next

\* What the loop of the player's server has to do to ban by name stays, until
\* the player has left.
LEMMA ByNameIsKept ==
    ASSUME TypeInv, [Next]_vars, ~ \E s \in Servers : Connect(s) \/ Fetch(s),
           due', where \in Servers, where' = where, blacklist = "on", ~config.digit_first,
           NEW b \in Pending(Loop(where)), BansByName(b)
    PROVE  \E d \in Pending(Loop(where))' : BansByName(d)
<1> DEFINE q == Loop(where)
           c == Head(calls[q])
<1>0. CallsInv /\ q \in Processes /\ q # Web /\ q[1] = "loop" /\ where # Nowhere
    BY ProcessFacts, ServerFacts DEF TypeInv
<1>1. Busy(q) /\ c \in Calls /\ LoopCall(where, c) /\ c.on = where
      /\ Pending(q) = {c} \cup Rest(q)
  <2>1. Busy(q)
      BY FewElements DEF Busy, Pending
  <2>2. c \in Calls /\ CallOK(q, c) /\ Pending(q) = {c} \cup Rest(q)
      BY <1>0, <2>1, HeadFacts
  <2> QED BY <2>1, <2>2 DEF CallOK, LoopCall
<1>2. ASSUME NEW more \in Seq(Calls), Returned(q, more), b # c
      PROVE  b \in Pending(q)'
  <2>1. PICK todo \in Seq(Calls) : Todo(q, todo) /\ ToSet(todo) = ToSet(more) \cup Rest(q)
      BY <1>0, <1>1, <1>2, ReturnedFacts
  <2>2. Pending(q)' = ToSet(todo)
      BY <1>0, <2>1, TodoFacts
  <2> QED BY <1>1, <1>2, <2>1, <2>2
<1>3. CASE Hook(q)
  <2>1. PICK more : /\ HookMore(where, more)
                    /\ ban_if_blacklisted(q) =>
                          \E d \in ToSet(more) : d.do = "ban" /\ d.arg = <<"perma", "name">>
    <3>1. CASE ban_if_blacklisted(q)
        BY <1>3, <3>1, HookFacts
    <3>2. CASE ~ban_if_blacklisted(q)
        BY <1>3, <3>2, HookFacts
    <3> QED BY <3>1, <3>2
  <2>2. PICK todo \in Seq(Calls) : Todo(q, todo) /\ ToSet(todo) = ToSet(more) \cup Rest(q)
      BY <2>1 DEF HookMore
  <2>3. Pending(q)' = ToSet(more) \cup Rest(q)
      BY <1>0, <2>2, TodoFacts
  <2>4. CASE b = c
    <3>1. c.do \in {"start session", "end session", "check blacklist", "check VAC",
                    "check store", "check name", "cancel timers"}
        BY <1>3 DEF Hook, save_start_player_session, save_end_player_session,
               ban_if_blacklisted, ban_if_has_vac_bans, windows_store_player_check,
               notify_invalid_names, cleanup_pending_timers, Doing
    <3>2. c.do = "check blacklist"
        BY <2>4, <3>1 DEF BansByName
    <3>3. ban_if_blacklisted(q)
        BY <1>3, <3>2 DEF Hook, save_start_player_session, save_end_player_session,
               ban_if_has_vac_bans, windows_store_player_check,
               notify_invalid_names, cleanup_pending_timers, Doing
    <3>4. PICK d \in ToSet(more) : d.do = "ban" /\ d.arg = <<"perma", "name">>
        BY <2>1, <3>3
    <3>5. BansByName(d)
      <4>1. d.arg[2] = "name"
          BY <3>4
      <4> QED BY <3>4, <4>1 DEF BansByName
    <3> QED BY <2>3, <3>4, <3>5
  <2>5. CASE b # c
      BY <1>1, <2>3, <2>5
  <2> QED BY <2>4, <2>5
<1>4. CASE Command(q)
  <2>0. <<>> \in Seq(Calls)
      BY FewElements
  <2>1. CASE ClearCache(q)
    <3>1. Pending(q)' = Pending(q)
        BY <2>1 DEF ClearCache, Pending
    <3> QED BY <3>1
  <2>2. CASE SendBan(q)
    <3>1. /\ c.do = "ban"
          /\ \/ Banned(c) /\ \E more \in Seq(Calls) : Returned(q, more)
             \/ c.arg[2] = "name" /\ where # c.on
        BY <1>0, <2>2, SendBanFacts
    <3>2. Banned(c) /\ \E more \in Seq(Calls) : Returned(q, more)
        BY <1>1, <3>1
    <3>3. c.arg[2] = "id"
        BY <1>0, <1>1, <3>2, CarriedTravels DEF TypeInv, PlayerInv
    <3>4. b # c
        BY <3>1, <3>3 DEF BansByName
    <3> QED BY <1>2, <3>2, <3>4
  <2>3. CASE SendRemoval(q) \/ FindTempBan(q) \/ get_bans(q)
      BY <1>1, <2>3 DEF SendRemoval, FindTempBan, get_bans, Doing, LoopCall
  <2>4. CASE KickOrMessage(q)
    <3>1. c.do = "kick"
        BY <1>1, <2>4 DEF KickOrMessage, Doing, LoopCall
    <3>2. where = c.on /\ Leave(where)
        BY <1>1, <2>4, <3>1 DEF KickOrMessage
    <3> QED BY <1>0, <3>2 DEF Leave
  <2>5. CASE add_player_to_blacklist(q)
    <3>1. c.do = "enlist" /\ Returned(q, <<>>)
        BY <2>5 DEF add_player_to_blacklist, Doing
    <3>2. b # c
        BY <3>1 DEF BansByName
    <3> QED BY <1>2, <2>0, <3>1, <3>2
  <2>6. CASE remove_player_from_blacklist(q)
      BY <1>1, <2>6 DEF remove_player_from_blacklist, Doing, LoopCall
  <2> QED BY <1>4, <2>1, <2>2, <2>3, <2>4, <2>5, <2>6 DEF Command
<1>5. CASE Refused(q) \/ AnswerLost(q)
    BY <1>0, <1>5 DEF Refused, AnswerLost, Fault
<1>6. ASSUME NEW s \in Servers, q \in {Loop(s), Notifier(s), Pardoner(s)}, Restart(s)
      PROVE  FALSE
  <2>1. s = where
      BY <1>6, ProcessFacts
  <2> QED BY <1>6, <2>1 DEF Restart
<1>7. ASSUME NEW s \in Servers, q \in {Notifier(s), Pardoner(s)} PROVE FALSE
    BY <1>7, ProcessFacts
<1>8. CASE Pending(q)' = Pending(q)
    BY <1>8
<1> QED BY <1>0, <1>3, <1>4, <1>5, <1>6, <1>7, <1>8, OwnSteps

LEMMA StepEnforceInv ==
    ASSUME TypeInv, EnforceInv, [Next]_vars, config' = config
    PROVE  EnforceInv'
<1>0. TravelInv /\ CallsInv
    BY DEF TypeInv, PlayerInv
<1> SUFFICES ASSUME due', where' # Nowhere, ~config.digit_first
             PROVE  /\ blacklist' = "on"
                    /\ \/ Connected(visits') \in ToSet(lines'[where'])
                       \/ \E d \in ToSet(calls'[Loop(where')]) : BansByName(d)
    BY DEF EnforceInv, Pending, Loop, BansByName, Connected
<1>1. ASSUME NEW s \in Servers, Connect(s)
      PROVE  blacklist' = "on" /\ Connected(visits') \in ToSet(lines'[where'])
  <2>1. where' = s /\ due' = (blacklist = "on") /\ blacklist' = blacklist
      BY <1>1 DEF Connect, database
  <2> QED BY <1>1, <2>1, ConnectFacts
<1>2. ASSUME NEW s \in Servers, Fetch(s)
      PROVE  /\ blacklist' = "on"
             /\ \/ Connected(visits') \in ToSet(lines'[where'])
                \/ \E d \in ToSet(calls'[Loop(where')]) : BansByName(d)
  <2>1. /\ where' = where /\ visits' = visits /\ blacklist' = blacklist /\ due' = due
        /\ Todo(Loop(s), HooksOf(s, Head(lines[s]))) /\ ~Busy(Loop(s))
      BY <1>2 DEF Fetch, database, ghosts
  <2>2. /\ Head(lines[s]) \in 1 .. 2 * visits
        /\ ToSet(lines[s]) = {Head(lines[s])} \cup ToSet(lines'[s])
        /\ \A t \in Servers : t # s => lines'[t] = lines[t]
      BY <1>2, FetchFacts
  <2>3. /\ where \in Servers /\ blacklist = "on"
        /\ \/ Connected(visits) \in ToSet(lines[where])
           \/ \E d \in Pending(Loop(where)) : BansByName(d)
      BY <1>0, <2>1 DEF EnforceInv, TravelInv
  <2> DEFINE todo == HooksOf(s, Head(lines[s]))
  <2>4. todo \in Seq(Calls) /\ Loop(s) \in Processes /\ Loop(where) \in Processes
      BY <2>2, <2>3, HooksFacts, ProcessFacts
  <2>5. CASE where = s /\ Head(lines[s]) = Connected(visits)
    <3>1. visits \in 1 .. visits
        BY <1>0, <2>3, ServerFacts DEF TravelInv
    <3>2. PICK d \in ToSet(todo) : d.do = "check blacklist"
        BY <2>2, <2>5, <3>1, HooksFacts
    <3> HIDE DEF todo
    <3>3. Pending(Loop(s))' = ToSet(todo)
        BY <1>0, <2>1, <2>4, TodoFacts DEF todo
    <3>4. BansByName(d)
        BY <3>2 DEF BansByName
    <3> QED BY <2>1, <2>3, <2>5, <3>2, <3>3, <3>4 DEF Pending
  <2>6. CASE where = s /\ Head(lines[s]) # Connected(visits)
    <3>1. Pending(Loop(where)) = {}
        BY <2>1, <2>6, FewElements DEF Pending, Busy
    <3> QED BY <2>1, <2>2, <2>3, <2>6, <3>1
  <2>7. CASE where # s
    <3>1. Loop(where) # Loop(s)
        BY <2>3, <2>7, ProcessFacts
    <3> HIDE DEF todo
    <3>2. Pending(Loop(where))' = Pending(Loop(where))
        BY <1>0, <2>1, <2>4, <3>1, TodoFacts DEF todo
    <3> QED BY <2>1, <2>2, <2>3, <2>7, <3>2 DEF Pending
  <2> QED BY <2>5, <2>6, <2>7
<1>3. CASE ~ \E s \in Servers : Connect(s) \/ Fetch(s)
  <2>1. Travels /\ due /\ blacklist' \in {blacklist, "on"}
      BY <1>3, StepTravels, DueFacts
  <2>2. where' = where /\ where \in Servers /\ visits' = visits
        /\ ToSet(lines[where]) \subseteq ToSet(lines'[where])
      BY <1>0, <2>1 DEF Travels, TravelInv
  <2>3. /\ blacklist = "on"
        /\ \/ Connected(visits) \in ToSet(lines[where])
           \/ \E d \in Pending(Loop(where)) : BansByName(d)
      BY <2>1, <2>2 DEF EnforceInv
  <2>4. ASSUME NEW b \in Pending(Loop(where)), BansByName(b)
        PROVE  \E d \in Pending(Loop(where))' : BansByName(d)
      BY <1>3, <2>2, <2>3, <2>4, ByNameIsKept
  <2>5. ToSet(calls'[Loop(where')]) = Pending(Loop(where))'
      BY <2>2 DEF Pending
  <2> QED BY <2>1, <2>2, <2>3, <2>4, <2>5
<1> QED BY <1>1, <1>2, <1>3

-----------------------------------------------------------------------------
(* A kick is pardoned.                                                     *)

\* How a list of bans comes to have more.
LEMMA BansGrow ==
    ASSUME TypeInv, [Next]_vars, NEW s \in Servers
    PROVE  \/ bans'[s] \subseteq bans[s]
           \/ \E q \in Processes :
                 LET c == Head(calls[q])
                 IN  /\ Busy(q) /\ c \in Pending(q) /\ c.do = "ban" /\ c.on = s
                     /\ bans'[s] = bans[s] \cup {c.arg[1]}
                     /\ (SendBan(q) /\ Disturb(q, c)) \/ AnswerLost(q)
<1>0. CallsInv /\ BansInv
    BY DEF TypeInv, ServerInv
<1>1. CASE Disconnect \/ Receive \/ UNCHANGED vars
    BY <1>1 DEF Disconnect, Receive, vars
<1>2. ASSUME NEW t \in Servers,
             \/ Connect(t) \/ Fetch(t) \/ Fire(t) \/ ViewBans(t) \/ Lapse(t) \/ Restart(t)
             \/ Hook(Loop(t))
      PROVE  bans' = bans
    BY <1>2 DEF Connect, Fetch, Fire, ViewBans, Lapse, Restart, Hook,
                save_start_player_session, save_end_player_session,
                ban_if_blacklisted, ban_if_has_vac_bans, windows_store_player_check,
                notify_invalid_names, cleanup_pending_timers, Decide
<1>3. ASSUME NEW q \in Processes, NEW c \in Pending(q), c.do = "ban", Banned(c)
      PROVE  bans'[s] = bans[s] \/ (c.on = s /\ bans'[s] = bans[s] \cup {c.arg[1]})
  <2>1. c.on \in Servers /\ c.arg[1] \in Bans
      BY <1>0, <1>3, BanFacts
  <2> QED BY <1>0, <1>3, <2>1, CarriedBans
<1>4. ASSUME NEW q \in Processes, SendBan(q)
      PROVE  \/ bans'[s] \subseteq bans[s]
             \/ LET c == Head(calls[q])
                IN  /\ Busy(q) /\ c \in Pending(q) /\ c.do = "ban" /\ c.on = s
                    /\ bans'[s] = bans[s] \cup {c.arg[1]} /\ Disturb(q, c)
  <2> DEFINE c == Head(calls[q])
  <2>1. /\ Busy(q) /\ c \in Pending(q) /\ c.do = "ban"
        /\ (Banned(c) /\ Disturb(q, c)) \/ bans' = bans
      BY <1>4, SendBanFacts
  <2> HIDE DEF c
  <2>2. bans'[s] = bans[s] \/ (c.on = s /\ bans'[s] = bans[s] \cup {c.arg[1]} /\ Disturb(q, c))
      BY <1>3, <2>1
  <2> QED BY <2>1, <2>2 DEF c
<1>5. ASSUME NEW q \in Processes, AnswerLost(q)
      PROVE  \/ bans'[s] \subseteq bans[s]
             \/ LET c == Head(calls[q])
                IN  /\ Busy(q) /\ c \in Pending(q) /\ c.do = "ban" /\ c.on = s
                    /\ bans'[s] = bans[s] \cup {c.arg[1]}
  <2> DEFINE c == Head(calls[q])
  <2>1. /\ Busy(q) /\ c \in Pending(q) /\ c.on \in Servers
        /\ \/ c.do = "ban" /\ Banned(c)
           \/ bans' = [bans EXCEPT ![c.on] = @ \ {c.arg}]
      BY <1>0, <1>5, HeadFacts, CallFacts DEF AnswerLost, Banned
  <2> HIDE DEF c
  <2>2. CASE c.do = "ban" /\ Banned(c)
      BY <1>3, <2>1, <2>2 DEF c
  <2>3. CASE bans' = [bans EXCEPT ![c.on] = @ \ {c.arg}]
      BY <1>0, <2>1, <2>3, RemovedBans
  <2> QED BY <2>1, <2>2, <2>3
<1>6. ASSUME NEW q \in Processes, SendRemoval(q) PROVE bans'[s] \subseteq bans[s]
  <2> DEFINE c == Head(calls[q])
  <2>1. c.on \in Servers /\ (bans' = [bans EXCEPT ![c.on] = @ \ {c.arg}] \/ bans' = bans)
      BY <1>0, <1>6, HeadFacts, CallFacts DEF SendRemoval, Doing
  <2> HIDE DEF c
  <2> QED BY <1>0, <2>1, RemovedBans
<1>7. ASSUME NEW q \in Processes,
             \/ ClearCache(q) \/ KickOrMessage(q) \/ FindTempBan(q) \/ get_bans(q)
             \/ add_player_to_blacklist(q) \/ remove_player_from_blacklist(q) \/ Refused(q)
      PROVE  bans' = bans
    BY <1>7 DEF ClearCache, KickOrMessage, FindTempBan, get_bans,
                add_player_to_blacklist, remove_player_from_blacklist, Refused
<1> QED BY <1>1, <1>2, <1>4, <1>5, <1>6, <1>7 DEF Next, Command

\* What a step that leaves a server orderly is not.
LEMMA OrderlyFacts ==
    ASSUME TypeInv, [Next]_vars, NEW s \in Servers, orderly'[s]
    PROVE  /\ orderly[s] /\ ~Restart(s)
           /\ \A q \in Processes : ~Refused(q) /\ ~AnswerLost(q)
<1>0. orderly \in [Servers -> BOOLEAN] /\ CallsInv
    BY DEF TypeInv, ServerInv, FlagsInv
<1>1. ASSUME NEW q \in Processes, Refused(q) \/ AnswerLost(q) PROVE FALSE
    BY <1>1 DEF Refused, AnswerLost, Fault
<1>2. ASSUME Restart(s) PROVE FALSE
    BY <1>0, <1>2 DEF Restart
<1>3. ASSUME Disconnect \/ Receive \/ UNCHANGED vars PROVE orderly[s]
  <2>1. orderly' = orderly
      BY <1>3 DEF Disconnect, Receive, vars, ghosts
  <2> QED BY <2>1
<1>4. ASSUME NEW t \in Servers, Connect(t) \/ Fetch(t) \/ ViewBans(t) \/ Lapse(t)
      PROVE  orderly[s]
    BY <1>4 DEF Connect, Fetch, ViewBans, Lapse, ghosts
<1>5. ASSUME NEW t \in Servers, Fire(t) \/ Restart(t) PROVE orderly[s]
  <2>1. \E b : orderly' = [orderly EXCEPT ![t] = orderly[t] /\ b] \/ orderly' = [orderly EXCEPT ![t] = FALSE]
      BY <1>5, Zenon DEF Fire, Restart
  <2> QED BY <1>0, <2>1
<1>6. ASSUME NEW t \in Servers, Hook(Loop(t)) PROVE orderly[s]
    BY <1>6 DEF Hook, save_start_player_session, save_end_player_session,
                ban_if_blacklisted, ban_if_has_vac_bans, windows_store_player_check,
                notify_invalid_names, cleanup_pending_timers, Decide, ghosts
<1>7. ASSUME NEW q \in Processes, Command(q) PROVE orderly[s]
  <2>1. CASE SendBan(q)
    <3>1. (\E b, t : orderly' = [orderly EXCEPT ![t] = orderly[t] /\ b]) \/ orderly' = orderly
        BY <2>1, Zenon DEF SendBan, Disturb
    <3> QED BY <1>0, <3>1
  <2>2. CASE ~SendBan(q)
      BY <1>7, <2>2 DEF Command, ClearCache, SendRemoval, KickOrMessage, FindTempBan,
                get_bans, add_player_to_blacklist, remove_player_from_blacklist, ghosts
  <2> QED BY <2>1, <2>2
<1> QED BY <1>1, <1>2, <1>3, <1>4, <1>5, <1>6, <1>7 DEF Next

\* The notification and its pardon stay together in the timers.
LEMMA StepPairs ==
    ASSUME TypeInv, [Next]_vars, config.name = "pineapple", NEW s \in Servers,
           NotifyThenPardon(timers[s])
    PROVE  /\ NotifyThenPardon(timers'[s])
           /\ \/ timers'[s] = timers[s] \/ Fire(s) \/ Restart(s)
              \/ /\ ToSet(timers[s]) \subseteq ToSet(timers'[s])
                 /\ timers[s] # <<>> => timers'[s] # <<>> /\ Head(timers'[s]) = Head(timers[s])
<1>0. timers \in [Servers -> Seq(Alarms)] /\ timers[s] \in Seq(Alarms)
    BY DEF TypeInv, ServerInv, TimersInv, Alarms
<1>1. CASE timers'[s] = timers[s]
    BY <1>1
<1>2. CASE Fire(s)
  <2> DEFINE t == timers[s]
  <2>1. t # <<>> /\ timers'[s] = Tail(t)
      BY <1>0, <1>2 DEF Fire
  <2>2. /\ Len(t) \in Nat /\ DOMAIN t = 1 .. Len(t) /\ DOMAIN Tail(t) = 1 .. Len(t) - 1
        /\ \A i \in 1 .. Len(t) - 1 : Tail(t)[i] = t[i + 1]
      BY <1>0, <2>1
  <2> HIDE DEF t
  <2>3. ASSUME NEW i \in 1 .. Len(t) - 1, t[i + 1] = "notify"
        PROVE  i + 1 \in 1 .. Len(t) - 1 /\ t[(i + 1) + 1] = "pardon"
    <3>1. i + 1 \in DOMAIN t
        BY <2>2
    <3>2. (i + 1) + 1 \in DOMAIN t /\ t[(i + 1) + 1] = "pardon"
        BY <2>3, <3>1 DEF NotifyThenPardon, t
    <3>3. i + 1 \in 1 .. Len(t) - 1
        BY <2>2, <3>2
    <3> QED BY <3>2, <3>3
  <2>4. NotifyThenPardon(Tail(t))
      BY <2>2, <2>3 DEF NotifyThenPardon
  <2> QED BY <1>2, <2>1, <2>4
<1>3. CASE Restart(s)
  <2>1. timers'[s] = <<>>
      BY <1>0, <1>3 DEF Restart
  <2>2. DOMAIN <<>> = {}
      OBVIOUS
  <2> QED BY <1>3, <2>1, <2>2 DEF NotifyThenPardon
<1>4. ASSUME notify_invalid_names(Loop(s))
      PROVE  /\ NotifyThenPardon(timers'[s])
             /\ ToSet(timers[s]) \subseteq ToSet(timers'[s])
             /\ timers[s] # <<>> => timers'[s] # <<>> /\ Head(timers'[s]) = Head(timers[s])
  <2> DEFINE t == timers[s]
             new == Append(t, "notify") \o Only(config.name = "pineapple", <<"pardon">>)
  <2>1. timers'[s] = new
      BY <1>0, <1>4, NameFacts
  <2>2. t \in Seq(Alarms) /\ Len(t) \in Nat /\ DOMAIN t = 1 .. Len(t)
      BY <1>0
  <2>3. /\ new \in Seq(Alarms)
        /\ \A i \in DOMAIN t : i \in DOMAIN new /\ new[i] = t[i]
        /\ DOMAIN new = 1 .. Len(t) + 2 /\ new[Len(t) + 2] = "pardon"
        /\ ToSet(t) \subseteq ToSet(new)
    <3>1. (config.name = "pineapple") \in BOOLEAN
        OBVIOUS
    <3> QED BY <2>2, <3>1, NewTimers
  <2> HIDE DEF new
  <2>4. NotifyThenPardon(new)
    <3> SUFFICES ASSUME NEW i \in 1 .. Len(t) + 2, new[i] = "notify"
                 PROVE  i + 1 \in 1 .. Len(t) + 2 /\ new[i + 1] = "pardon"
        BY <2>3 DEF NotifyThenPardon
    <3>1. CASE i \in 1 .. Len(t)
      <4>1. i + 1 \in DOMAIN t /\ t[i + 1] = "pardon"
          BY <2>2, <2>3, <3>1 DEF NotifyThenPardon
      <4> QED BY <2>3, <4>1
    <3>2. CASE i = Len(t) + 1
      <4>1. i + 1 = Len(t) + 2 /\ i + 1 \in 1 .. Len(t) + 2
          BY <2>2, <3>2
      <4> QED BY <2>3, <4>1
    <3>3. i # Len(t) + 2
        BY <2>3
    <3> QED BY <2>2, <3>1, <3>2, <3>3
  <2>5. t # <<>> => new # <<>> /\ Head(new) = Head(t)
    <3> SUFFICES ASSUME t # <<>> PROVE new # <<>> /\ Head(new) = Head(t)
        OBVIOUS
    <3>1. 1 \in DOMAIN t /\ Head(t) = t[1]
        BY <2>2
    <3>2. 1 \in DOMAIN new /\ new[1] = t[1]
        BY <2>3, <3>1
    <3>3. new # <<>>
      <4>1. DOMAIN <<>> = {}
          OBVIOUS
      <4> QED BY <3>2, <4>1
    <3>4. Head(new) = new[1]
        BY <2>3, <3>3
    <3> QED BY <3>1, <3>2, <3>3, <3>4
  <2> QED BY <2>1, <2>3, <2>4, <2>5
<1>5. ASSUME cleanup_pending_timers(Loop(s)) PROVE timers'[s] = timers[s]
    BY <1>0, <1>5, CancelFacts
<1>6. ASSUME NEW t \in Servers, t # s,
             \/ Fire(t) \/ Restart(t)
             \/ notify_invalid_names(Loop(t)) \/ cleanup_pending_timers(Loop(t))
      PROVE  timers'[s] = timers[s]
  <2>1. \E new : timers' = [timers EXCEPT ![t] = new]
      BY <1>6, NameFacts, CancelFacts DEF Fire, Restart
  <2> QED BY <1>0, <1>6, <2>1
<1> QED BY <1>1, <1>2, <1>3, <1>4, <1>5, <1>6, TimersAreKept

\* The pardon of an orderly server, at each of its steps.
LEMMA PardonerSteps ==
    ASSUME TypeInv, PardonInv, [Next]_vars, NEW s \in Servers, orderly'[s],
           config.name = "pineapple", "pineapple" \in bans[s], "pineapple" \in bans'[s],
           Busy(Pardoner(s))
    PROVE  Busy(Pardoner(s))'
<1> DEFINE q == Pardoner(s)
           c == Head(calls[q])
<1>0. /\ CallsInv /\ BansInv /\ q \in Processes /\ orderly[s]
      /\ ~Restart(s) /\ ~Refused(q) /\ ~AnswerLost(q)
    BY ProcessFacts, OrderlyFacts DEF TypeInv, ServerInv
<1>1. c \in Pending(q) /\ PardonerCall(s, c) /\ c.on = s
    BY <1>0, HeadFacts DEF CallOK, PardonerCall
<1>2. CASE ClearCache(q)
    BY <1>2 DEF ClearCache, Busy
<1>3. CASE FindTempBan(q)
  <2>1. PICK t \in Servers : /\ c.on = t
                             /\ \/ bans[t] \cap Temporary = {}
                                \/ \E more \in Seq(Calls) :
                                      Returned(q, more) /\ \E x : ToSet(more) = {x}
      BY <1>0, <1>3, FindFacts
  <2>2. "pineapple" \in bans[s] \cap Temporary
      BY DEF Temporary, Bans
  <2>3. PICK more \in Seq(Calls) : Returned(q, more) /\ ToSet(more) # {}
      BY <1>1, <2>1, <2>2
  <2>4. PICK todo \in Seq(Calls) : Todo(q, todo) /\ ToSet(todo) # {}
      BY <1>0, <2>3, ReturnedFacts
  <2>5. calls'[q] = todo /\ todo # <<>>
      BY <1>0, <2>4, TodoFacts, FewElements
  <2> QED BY <2>5 DEF Busy
<1>4. CASE SendRemoval(q)
  <2>1. c.arg = "pineapple" /\ c.do = "remove"
      BY <1>0, <1>1, <1>4 DEF PardonInv, SendRemoval, Doing
  <2>2. bans' = [bans EXCEPT ![s] = @ \ {"pineapple"}]
      BY <1>1, <1>4, <2>1 DEF SendRemoval
  <2> QED BY <1>0, <2>2, RemovedBans
<1>5. CASE \/ SendBan(q) \/ KickOrMessage(q) \/ get_bans(q)
           \/ add_player_to_blacklist(q) \/ remove_player_from_blacklist(q)
    BY <1>1, <1>5 DEF SendBan, KickOrMessage, get_bans, add_player_to_blacklist,
           remove_player_from_blacklist, Doing, PardonerCall
<1>6. ASSUME NEW t \in Servers, q \in {Notifier(t), Pardoner(t)}, Fire(t)
      PROVE  Busy(q)'
  <2>1. PICK r \in {Notifier(t), Pardoner(t)}, todo \in Seq(Calls) :
           ~Busy(r) /\ Todo(r, todo)
      BY <1>6, FireFacts
  <2>2. r # q /\ r \in Processes
      BY <2>1, ProcessFacts
  <2>3. calls'[q] = calls[q]
      BY <1>0, <2>1, <2>2, TodoFacts
  <2> QED BY <2>3 DEF Busy
<1>7. ASSUME NEW t \in Servers, q \in {Loop(t), Notifier(t), Pardoner(t)}, Restart(t)
      PROVE  FALSE
  <2>1. t = s
      BY <1>7, ProcessFacts
  <2> QED BY <1>0, <1>7, <2>1
<1>8. ASSUME NEW t \in Servers, q = Loop(t) PROVE FALSE
    BY <1>8, ProcessFacts
<1>9. CASE calls'[q] = calls[q]
    BY <1>9 DEF Busy
<1>10. q # Web
    BY ProcessFacts
<1>11. CASE Command(q)
    BY <1>2, <1>3, <1>4, <1>5, <1>11 DEF Command
<1> QED BY <1>0, <1>6, <1>7, <1>8, <1>9, <1>10, <1>11, OwnSteps DEF Busy

\* The notification of an orderly server precedes its pardon.
LEMMA NotifierSteps ==
    ASSUME TypeInv, PardonInv, [Next]_vars, NEW s \in Servers, orderly'[s],
           config.name = "pineapple", Busy(Notifier(s))'
    PROVE  timers'[s] # <<>> /\ Head(timers'[s]) = "pardon"
<1> DEFINE q == Notifier(s)
<1>0. /\ CallsInv /\ q \in Processes /\ orderly[s] /\ ~Restart(s)
      /\ timers \in [Servers -> Seq(Alarms)] /\ NotifyThenPardon(timers[s])
    BY ProcessFacts, OrderlyFacts DEF TypeInv, ServerInv, TimersInv, PardonInv, Alarms
<1>1. CASE ~Fire(s)
  <2>1. Busy(q)
    <3>1. ASSUME NEW t \in Servers, q \in {Notifier(t), Pardoner(t)}, Fire(t) PROVE FALSE
      <4>1. t = s
          BY <3>1, ProcessFacts
      <4> QED BY <1>1, <3>1, <4>1
    <3>2. ASSUME NEW t \in Servers, q \in {Loop(t), Notifier(t), Pardoner(t)}, Restart(t)
          PROVE  FALSE
      <4>1. t = s
          BY <3>2, ProcessFacts
      <4> QED BY <1>0, <3>2, <4>1
    <3>3. CASE Command(q) \/ Refused(q) \/ AnswerLost(q)
        BY <3>3 DEF Command, ClearCache, SendBan, SendRemoval, KickOrMessage, FindTempBan,
               get_bans, add_player_to_blacklist, remove_player_from_blacklist, Doing,
               Refused, AnswerLost
    <3>4. CASE calls'[q] = calls[q]
        BY <3>4 DEF Busy
    <3> QED BY <1>0, <3>1, <3>2, <3>3, <3>4, OwnSteps, ProcessFacts
  <2>2. timers[s] # <<>> /\ Head(timers[s]) = "pardon"
      BY <1>0, <2>1 DEF PardonInv
  <2>3. \/ timers'[s] = timers[s]
        \/ timers'[s] # <<>> /\ Head(timers'[s]) = Head(timers[s])
      BY <1>0, <1>1, <2>2, StepPairs
  <2> QED BY <2>2, <2>3
<1>2. CASE Fire(s)
  <2> DEFINE t == timers[s]
  <2>1. PICK r \in {Notifier(s), Pardoner(s)}, todo \in Seq(Calls) :
           r = <<Head(t), s>> /\ ~Busy(r) /\ Todo(r, todo)
      BY <1>2, FireFacts
  <2>2. t # <<>> /\ timers'[s] = Tail(t) /\ t \in Seq(Alarms)
      BY <1>0, <1>2 DEF Fire
  <2>3. CASE r = Notifier(s)
    <3>1. Head(t) = "notify"
        BY <2>1, <2>3 DEF Notifier
    <3>2. 1 \in DOMAIN t /\ t[1] = "notify"
        BY <2>2, <3>1
    <3>3. 2 \in DOMAIN t /\ t[2] = "pardon"
        BY <1>0, <3>2 DEF NotifyThenPardon
    <3>4. Tail(t) # <<>> /\ Head(Tail(t)) = t[2]
      <4> DEFINE u == Tail(t)
      <4>1. u \in Seq(Alarms) /\ Len(u) = Len(t) - 1 /\ Len(t) \in Nat /\ Len(t) >= 2
          BY <2>2, <3>3
      <4>2. 1 \in 1 .. Len(t) - 1 /\ u[1] = t[2]
          BY <2>2, <4>1
      <4> HIDE DEF u
      <4>3. u # <<>> /\ Head(u) = u[1]
          BY <4>1
      <4> QED BY <4>2, <4>3 DEF u
    <3> QED BY <2>2, <3>3, <3>4
  <2>4. CASE r = Pardoner(s)
    <3>0. r # q /\ r \in Processes
        BY <2>4, ProcessFacts
    <3>1. calls'[q] = calls[q]
        BY <1>0, <2>1, <3>0, TodoFacts
    <3>2. Busy(q)
        BY <3>1 DEF Busy
    <3>3. <<Head(t), s>> = Pardoner(s) /\ <<Head(t), s>> # Notifier(s)
        BY <2>1, <2>4, ProcessFacts
    <3>4. orderly' = [orderly EXCEPT ![s] = orderly[s] /\ ~(<<Head(t), s>> = Pardoner(s) /\ Busy(Notifier(s)))]
        BY <1>2, Zenon DEF Fire
    <3>5. orderly' = [orderly EXCEPT ![s] = FALSE]
        BY <3>2, <3>3, <3>4
    <3>6. orderly \in [Servers -> BOOLEAN]
        BY DEF TypeInv, ServerInv, FlagsInv
    <3> QED BY <3>5, <3>6
  <2> QED BY <2>1, <2>3, <2>4
<1> QED BY <1>1, <1>2

LEMMA StepPardonInv ==
    ASSUME TypeInv, TypeInv', PardonInv, config' = config, [Next]_vars
    PROVE  PardonInv'
<1>0. CallsInv /\ BansInv
    BY DEF TypeInv, ServerInv
<1> SUFFICES ASSUME NEW s \in Servers
             PROVE  /\ config.name = "pineapple" => NotifyThenPardon(timers'[s])
                    /\ "pineapple" \in bans'[s] => config.name = "pineapple"
                    /\ orderly'[s] =>
                          /\ "temp" \notin bans'[s]
                          /\ \A c \in Pending(Pardoner(s))' : c.do = "remove" => c.arg = "pineapple"
                          /\ config.name = "pineapple" /\ Busy(Notifier(s))' =>
                                timers'[s] # <<>> /\ Head(timers'[s]) = "pardon"
                          /\ "pineapple" \in bans'[s] =>
                                "pardon" \in ToSet(timers'[s]) \/ Busy(Pardoner(s))'
    BY DEF PardonInv, NotifyThenPardon
<1>1. config.name = "pineapple" => NotifyThenPardon(timers'[s])
    BY StepPairs DEF PardonInv
<1>2. "pineapple" \in bans'[s] => config.name = "pineapple"
  <2>1. CASE bans'[s] \subseteq bans[s]
      BY <2>1 DEF PardonInv
  <2>2. ASSUME NEW q \in Processes, NEW c \in Pending(q), c.do = "ban",
               bans'[s] = bans[s] \cup {c.arg[1]}
        PROVE  "pineapple" \in bans'[s] => config.name = "pineapple"
      BY <1>0, <2>2, BanFacts DEF PardonInv
  <2> QED BY <2>1, <2>2, BansGrow
<1>3. ASSUME orderly'[s] PROVE "temp" \notin bans'[s]
  <2>0. orderly[s] /\ "temp" \notin bans[s] /\ \A q \in Processes : ~AnswerLost(q)
      BY <1>3, OrderlyFacts DEF PardonInv
  <2>1. CASE bans'[s] \subseteq bans[s]
      BY <2>0, <2>1
  <2>2. ASSUME NEW c, c.on = s, Disturb(Web, c) \/ \E q : Disturb(q, c)
        PROVE  c.arg[1] # "temp"
    <3>1. orderly' = [orderly EXCEPT ![s] = orderly[s] /\ c.arg[1] # "temp"]
        BY <2>2, Zenon DEF Disturb
    <3>2. orderly \in [Servers -> BOOLEAN]
        BY DEF TypeInv, ServerInv, FlagsInv
    <3>3. CASE c.arg[1] = "temp"
      <4>1. orderly' = [orderly EXCEPT ![s] = FALSE]
          BY <3>1, <3>3
      <4> QED BY <1>3, <3>2, <4>1
    <3> QED BY <3>3
  <2>3. ASSUME NEW q \in Processes, NEW c, c.on = s, Disturb(q, c),
               bans'[s] = bans[s] \cup {c.arg[1]}
        PROVE  "temp" \notin bans'[s]
      BY <2>0, <2>2, <2>3
  <2> QED BY <2>0, <2>1, <2>3, BansGrow
<1>4. ASSUME orderly'[s], NEW c \in Pending(Pardoner(s))', c.do = "remove"
      PROVE  c.arg = "pineapple"
  <2> DEFINE q == Pardoner(s)
  <2>0. /\ q \in Processes /\ orderly[s] /\ ~Restart(s) /\ ~Refused(q) /\ ~AnswerLost(q)
        /\ q # Web /\ "temp" \notin bans[s]
        /\ \A d \in Pending(q) : d.do = "remove" => d.arg = "pineapple"
      BY <1>4, ProcessFacts, OrderlyFacts DEF PardonInv
  <2>1. CASE c \in Pending(q)
      BY <1>4, <2>0, <2>1
  <2>2. CASE Pending(q)' = Pending(q)
      BY <1>4, <2>0, <2>2
  <2>3. CASE FindTempBan(q)
    <3>1. PICK t \in Servers :
             /\ q = Pardoner(t) /\ Busy(q)
             /\ \/ Raised(q)
                \/ \E b \in bans[t] \cap Temporary, more \in Seq(Calls) :
                      /\ Returned(q, more)
                      /\ \E x : ToSet(more) = {x} /\ x.arg = b
        BY <2>0, <2>3, FindFacts
    <3>2. t = s /\ bans[s] \cap Temporary \subseteq {"pineapple"}
        BY <2>0, <3>1, ProcessFacts DEF Temporary, Bans
    <3>3. CASE Raised(q)
      <4>1. PICK todo \in Seq(Calls) : Todo(q, todo) /\ ToSet(todo) \subseteq Rest(q)
          BY <1>0, <2>0, <3>1, <3>3, RaisedFacts
      <4>2. c \in Rest(q) /\ Rest(q) \subseteq Pending(q)
          BY <1>0, <1>4, <2>0, <3>1, <4>1, TodoFacts, HeadFacts
      <4> QED BY <2>1, <4>2
    <3>4. ASSUME NEW b \in bans[s] \cap Temporary, NEW more \in Seq(Calls), Returned(q, more),
                 NEW x, ToSet(more) = {x}, x.arg = b
          PROVE  c.arg = "pineapple"
      <4>1. PICK todo \in Seq(Calls) : Todo(q, todo) /\ ToSet(todo) = ToSet(more) \cup Rest(q)
          BY <1>0, <2>0, <3>1, <3>4, ReturnedFacts
      <4>2. c \in {x} \cup Rest(q) /\ Rest(q) \subseteq Pending(q)
          BY <1>0, <1>4, <2>0, <3>1, <3>4, <4>1, TodoFacts, HeadFacts
      <4> QED BY <2>1, <3>2, <3>4, <4>2
    <3> QED BY <3>1, <3>2, <3>3, <3>4
  <2>4. CASE ClearCache(q)
      BY <2>2, <2>4 DEF ClearCache, Pending
  <2>5. CASE SendRemoval(q)
    <3>1. Busy(q) /\ (Returned(q, <<>>) \/ NotRemoved(q))
        BY <2>5 DEF SendRemoval, Doing
    <3>2. PICK todo \in Seq(Calls) : Todo(q, todo) /\ ToSet(todo) = Rest(q)
      <4>1. CASE Returned(q, <<>>)
          BY <1>0, <2>0, <3>1, <4>1, ReturnedNothing
      <4>2. CASE NotRemoved(q)
          BY <1>0, <2>0, <3>1, <4>2, NotRemovedFacts
      <4> QED BY <3>1, <4>1, <4>2
    <3>3. c \in Rest(q) /\ Rest(q) \subseteq Pending(q)
        BY <1>0, <1>4, <2>0, <3>1, <3>2, TodoFacts, HeadFacts
    <3> QED BY <2>1, <3>3
  <2>6. CASE \/ SendBan(q) \/ KickOrMessage(q) \/ get_bans(q)
             \/ add_player_to_blacklist(q) \/ remove_player_from_blacklist(q)
    <3>1. Busy(q)
        BY <2>6 DEF SendBan, KickOrMessage, get_bans, add_player_to_blacklist,
               remove_player_from_blacklist, Doing
    <3>2. PardonerCall(s, Head(calls[q]))
        BY <1>0, <2>0, <3>1, HeadFacts DEF CallOK
    <3> QED BY <2>6, <3>2 DEF SendBan, KickOrMessage, get_bans, add_player_to_blacklist,
               remove_player_from_blacklist, Doing, PardonerCall
  <2>7. ASSUME NEW t \in Servers, q \in {Notifier(t), Pardoner(t)}, Fire(t)
        PROVE  c.arg = "pineapple"
    <3>1. PICK r \in {Notifier(t), Pardoner(t)}, todo \in Seq(Calls) :
             /\ ~Busy(r) /\ Todo(r, todo)
             /\ \A d \in ToSet(todo) : r = Pardoner(t) => d.do = "find temp ban"
        BY <2>7, FireFacts
    <3>2. r \in Processes /\ t = s
        BY <2>7, ProcessFacts
    <3>3. CASE r = q
        BY <1>0, <1>4, <2>0, <3>1, <3>2, <3>3, TodoFacts
    <3>4. CASE r # q
        BY <1>0, <1>4, <2>0, <2>1, <3>1, <3>2, <3>4, TodoFacts
    <3> QED BY <3>3, <3>4
  <2>8. ASSUME NEW t \in Servers, q \in {Loop(t), Notifier(t), Pardoner(t)}, Restart(t)
        PROVE  FALSE
    <3>1. t = s
        BY <2>8, ProcessFacts
    <3> QED BY <2>0, <2>8, <3>1
  <2>9. ASSUME NEW t \in Servers, q = Loop(t) PROVE FALSE
      BY <2>9, ProcessFacts
  <2>10. CASE Command(q)
      BY <2>3, <2>4, <2>5, <2>6, <2>10 DEF Command
  <2> QED BY <2>0, <2>2, <2>7, <2>8, <2>9, <2>10, OwnSteps
<1>5. ASSUME orderly'[s], config.name = "pineapple", Busy(Notifier(s))'
      PROVE  timers'[s] # <<>> /\ Head(timers'[s]) = "pardon"
    BY <1>5, NotifierSteps
<1>6. ASSUME orderly'[s], "pineapple" \in bans'[s]
      PROVE  "pardon" \in ToSet(timers'[s]) \/ Busy(Pardoner(s))'
  <2>0. /\ orderly[s] /\ ~Restart(s) /\ \A q \in Processes : ~AnswerLost(q)
        /\ config.name = "pineapple" /\ NotifyThenPardon(timers[s])
        /\ timers[s] \in Seq(Alarms)
      BY <1>2, <1>6, OrderlyFacts DEF PardonInv, TypeInv, ServerInv, TimersInv, Alarms
  <2>1. CASE "pineapple" \in bans[s]
    <3>1. CASE Busy(Pardoner(s))
        BY <1>6, <2>0, <2>1, <3>1, PardonerSteps
    <3>2. CASE "pardon" \in ToSet(timers[s]) /\ ~Fire(s)
        BY <2>0, <3>2, StepPairs
    <3>3. CASE "pardon" \in ToSet(timers[s]) /\ Fire(s)
      <4>1. PICK r \in {Notifier(s), Pardoner(s)}, todo \in Seq(Calls) :
               r = <<Head(timers[s]), s>> /\ Todo(r, todo) /\ todo # <<>>
          BY <3>3, FireFacts
      <4>2. CASE r = Pardoner(s)
        <5>1. calls'[r] = todo
            BY <1>0, <4>1, <4>2, ProcessFacts, TodoFacts
        <5> QED BY <4>1, <4>2, <5>1 DEF Busy
      <4>3. CASE r = Notifier(s)
        <5>1. Head(timers[s]) = "notify"
            BY <4>1, <4>3 DEF Notifier
        <5>2. timers[s] # <<>> /\ timers'[s] = Tail(timers[s])
            BY <3>3 DEF Fire, TypeInv, ServerInv, TimersInv
        <5>3. ToSet(timers[s]) = {"notify"} \cup ToSet(Tail(timers[s]))
            BY <2>0, <5>1, <5>2, TailElements
        <5> QED BY <3>3, <5>2, <5>3
      <4> QED BY <4>1, <4>2, <4>3
    <3> QED BY <2>0, <2>1, <3>1, <3>2, <3>3 DEF PardonInv
  <2>2. CASE "pineapple" \notin bans[s]
    <3>1. PICK q \in Processes :
             /\ Busy(q) /\ SendBan(q) /\ Head(calls[q]) \in Pending(q)
             /\ Head(calls[q]).do = "ban" /\ Head(calls[q]).on = s
             /\ Head(calls[q]).arg[1] = "pineapple"
        BY <1>6, <2>0, <2>2, BansGrow
    <3>2. q = Notifier(s)
        BY <1>0, <3>1, BanFacts
    <3>3. timers[s] # <<>> /\ Head(timers[s]) = "pardon"
        BY <2>0, <3>1, <3>2 DEF PardonInv
    <3>4. "pardon" \in ToSet(timers[s])
        BY <2>0, <3>3, TailElements
    <3>5. timers' = timers
        BY <3>1 DEF SendBan
    <3> QED BY <3>4, <3>5
  <2> QED BY <2>1, <2>2
<1> QED BY <1>1, <1>2, <1>3, <1>4, <1>5, <1>6

-----------------------------------------------------------------------------
(* An unban that did not answer failed.                                    *)

\* Until the next request quiet is only lost, to a ban or a listing by others.
LEMMA QuietFacts ==
    ASSUME TypeInv, [Next]_vars, ~Receive, quiet'
    PROVE  /\ quiet
           /\ SendBan(Web) \/ \A s \in Servers : bans'[s] \subseteq bans[s]
           /\ blacklist' # "on" \/ blacklist' = blacklist \/ add_player_to_blacklist(Web)
<1>0. CallsInv /\ BansInv /\ quiet \in BOOLEAN
    BY DEF TypeInv, ServerInv, FlagsInv
<1>1. CASE Disconnect \/ UNCHANGED vars
  <2>1. UNCHANGED <<quiet, bans, blacklist>>
      BY <1>1 DEF Disconnect, vars, ghosts, database
  <2> QED BY <2>1
<1>2. ASSUME NEW t \in Servers,
             Connect(t) \/ Fetch(t) \/ Fire(t) \/ ViewBans(t) \/ Lapse(t) \/ Restart(t)
      PROVE  UNCHANGED <<quiet, bans, blacklist>>
    BY <1>2 DEF Connect, Fetch, Fire, ViewBans, Lapse, Restart, ghosts, database
<1>3. ASSUME NEW t \in Servers, Hook(Loop(t)) PROVE UNCHANGED <<quiet, bans, blacklist>>
    BY <1>3 DEF Hook, save_start_player_session, save_end_player_session,
                ban_if_blacklisted, ban_if_has_vac_bans, windows_store_player_check,
                notify_invalid_names, cleanup_pending_timers, Decide, ghosts, database
<1>4. ASSUME NEW q \in Processes,
             \/ ClearCache(q) \/ KickOrMessage(q) \/ FindTempBan(q) \/ get_bans(q) \/ Refused(q)
      PROVE  UNCHANGED <<quiet, bans, blacklist>>
    BY <1>4 DEF ClearCache, KickOrMessage, FindTempBan, get_bans, Refused, Fault,
                ghosts, database
<1>5. ASSUME NEW q \in Processes, SendBan(q)
      PROVE  quiet /\ (q = Web \/ bans' = bans) /\ blacklist' = blacklist
  <2>1. /\ blacklist' = blacklist
        /\ Disturb(q, Head(calls[q])) \/ (bans' = bans /\ quiet' = quiet)
      BY <1>5 DEF SendBan, database
  <2>2. quiet /\ (q = Web \/ (bans' = bans /\ quiet' = quiet))
      BY <2>1, Zenon DEF Disturb
  <2> QED BY <2>1, <2>2
<1>6. ASSUME NEW q \in Processes, SendRemoval(q)
      PROVE  quiet' = quiet /\ blacklist' = blacklist /\ \A s \in Servers : bans'[s] \subseteq bans[s]
  <2> DEFINE c == Head(calls[q])
  <2>1. c.on \in Servers /\ (bans' = [bans EXCEPT ![c.on] = @ \ {c.arg}] \/ bans' = bans)
      BY <1>0, <1>6, HeadFacts, CallFacts DEF SendRemoval, Doing
  <2> HIDE DEF c
  <2>2. \A s \in Servers : bans'[s] \subseteq bans[s]
      BY <1>0, <2>1, RemovedBans
  <2> QED BY <1>6, <2>2 DEF SendRemoval, ghosts, database
<1>7. ASSUME NEW q \in Processes, AnswerLost(q)
      PROVE  quiet /\ blacklist' = blacklist /\ \A s \in Servers : bans'[s] \subseteq bans[s]
  <2> DEFINE c == Head(calls[q])
  <2>1. /\ c.on \in Servers /\ blacklist' = blacklist
        /\ quiet' = quiet /\ bans' = [bans EXCEPT ![c.on] = @ \ {c.arg}]
      BY <1>0, <1>7, HeadFacts, CallFacts DEF AnswerLost, Fault, database
  <2> HIDE DEF c
  <2> QED BY <1>0, <2>1, RemovedBans
<1>8. ASSUME NEW q \in Processes, add_player_to_blacklist(q)
      PROVE  quiet /\ bans' = bans /\ (q = Web \/ blacklist' = blacklist)
  <2>1. /\ bans' = bans
        /\ quiet' = (quiet /\ q = Web) \/ (quiet' = quiet /\ blacklist' = blacklist)
      BY <1>8 DEF add_player_to_blacklist
  <2> QED BY <2>1, Zenon
<1>9. ASSUME NEW q \in Processes, remove_player_from_blacklist(q)
      PROVE  quiet' = quiet /\ bans' = bans /\ (blacklist' = blacklist \/ blacklist' = "off")
    BY <1>9 DEF remove_player_from_blacklist
<1>10. ASSUME NEW q \in Processes, Command(q) \/ Refused(q) \/ AnswerLost(q)
       PROVE  /\ quiet
              /\ SendBan(Web) \/ \A s \in Servers : bans'[s] \subseteq bans[s]
              /\ blacklist' # "on" \/ blacklist' = blacklist \/ add_player_to_blacklist(Web)
    BY <1>4, <1>5, <1>6, <1>7, <1>8, <1>9, <1>10 DEF Command
<1> QED BY <1>1, <1>2, <1>3, <1>10 DEF Next

LEMMA SameLists ==
    ASSUME quiet => \A s \in Servers :
              /\ Lists(temps[s], bans[s] \cap Temporary)
              /\ Lists(permas[s], bans[s] \cap {"perma"}),
           quiet, NEW s \in Servers, bans'[s] \subseteq bans[s],
           \/ temps'[s] \in {temps[s], Unknown} \/ temps'[s] = bans[s] \cap Temporary
           \/ temps'[s] = TempList(s),
           \/ permas'[s] \in {permas[s], Unknown} \/ permas'[s] = PermaList(s)
    PROVE  /\ Lists(temps'[s], bans'[s] \cap Temporary)
           /\ Lists(permas'[s], bans'[s] \cap {"perma"})
BY DEF Lists, TempList, PermaList

\* The cached lists lack no ban as long as nobody else bans.
LEMMA StepListsInv ==
    ASSUME TypeInv, ListsInv, [Next]_vars
    PROVE  ListsInv'
<1>0. CallsInv /\ BansInv /\ ListsInv
    BY DEF TypeInv, ServerInv
<1> SUFFICES ASSUME quiet', NEW s \in Servers
             PROVE  /\ Lists(temps'[s], bans'[s] \cap Temporary)
                    /\ Lists(permas'[s], bans'[s] \cap {"perma"})
    BY DEF ListsInv, Lists
<1> DEFINE Good == /\ Lists(temps'[s], bans'[s] \cap Temporary)
                   /\ Lists(permas'[s], bans'[s] \cap {"perma"})
           KeptLists == /\ \/ temps'[s] \in {temps[s], Unknown} \/ temps'[s] = bans[s] \cap Temporary
                           \/ temps'[s] = TempList(s)
                        /\ \/ permas'[s] \in {permas[s], Unknown} \/ permas'[s] = PermaList(s)
<1>1. CASE Receive
  <2>1. Fresh(s) /\ UNCHANGED <<bans, temps, permas>>
      BY <1>1, Zenon DEF Receive, cached
  <2> QED BY <2>1 DEF Fresh, Lists
<1>2. ASSUME ~Receive, ~SendBan(Web), KeptLists PROVE Good
    BY <1>0, <1>2, QuietFacts, SameLists DEF ListsInv
<1>3. ASSUME Disconnect \/ UNCHANGED vars PROVE KeptLists
    BY <1>3 DEF Disconnect, vars, cached
<1>4. ASSUME NEW t \in Servers, Connect(t) \/ Fetch(t) \/ Fire(t) \/ Restart(t) \/ Hook(Loop(t))
      PROVE  KeptLists
  <2>1. UNCHANGED cached
      BY <1>4 DEF Connect, Fetch, Fire, Restart, Hook,
                save_start_player_session, save_end_player_session,
                ban_if_blacklisted, ban_if_has_vac_bans, windows_store_player_check,
                notify_invalid_names, cleanup_pending_timers, Decide
  <2> QED BY <2>1 DEF cached
<1>5. ASSUME NEW t \in Servers, ViewBans(t) PROVE KeptLists
  <2>1. /\ temps' = [temps EXCEPT ![t] = TempList(t)]
        /\ permas' = [permas EXCEPT ![t] = PermaList(t)]
      BY <1>5 DEF ViewBans, TempList, PermaList
  <2> QED BY <1>0, <2>1 DEF BansInv
<1>6. ASSUME NEW t \in Servers, Lapse(t) PROVE KeptLists
    BY <1>0, <1>6 DEF Lapse, BansInv
<1>7. ASSUME NEW q \in Processes, Command(q), ~SendBan(q) PROVE KeptLists
  <2> DEFINE c == Head(calls[q])
  <2>0. Busy(q) => c \in Calls /\ c.on \in Servers
      BY <1>0, HeadFacts, CallFacts
  <2>1. CASE ClearCache(q) \/ SendRemoval(q)
    <3>1. c.on \in Servers /\ (Clear(c) \/ UNCHANGED cached)
        BY <2>0, <2>1 DEF ClearCache, SendRemoval, Doing
    <3> HIDE DEF c
    <3>2. CASE Clear(c)
        BY <1>0, <3>1, <3>2, ClearFacts
    <3>3. CASE UNCHANGED cached
        BY <3>3 DEF cached
    <3> QED BY <3>1, <3>2, <3>3
  <2>2. CASE FindTempBan(q)
    <3>1. PICK t \in Servers : temps' = [temps EXCEPT ![t] = bans[t] \cap Temporary] /\ permas' = permas
        BY <2>2, FindFacts
    <3> QED BY <1>0, <3>1 DEF BansInv
  <2>3. CASE get_bans(q)
    <3>1. /\ c.on \in Servers
          /\ temps' = [temps EXCEPT ![c.on] = TempList(c.on)]
          /\ permas' = [permas EXCEPT ![c.on] = PermaList(c.on)]
        BY <2>0, <2>3, GetBansFacts
    <3> HIDE DEF c
    <3> QED BY <1>0, <3>1 DEF BansInv
  <2>4. CASE \/ KickOrMessage(q)
             \/ add_player_to_blacklist(q) \/ remove_player_from_blacklist(q)
    <3>1. UNCHANGED cached
        BY <2>4 DEF KickOrMessage, add_player_to_blacklist, remove_player_from_blacklist
    <3> QED BY <3>1 DEF cached
  <2> QED BY <1>7, <2>1, <2>2, <2>3, <2>4 DEF Command
<1>8. ASSUME NEW q \in Processes, Refused(q) \/ AnswerLost(q) PROVE KeptLists
  <2>1. UNCHANGED cached
      BY <1>8 DEF Refused, AnswerLost, Fault
  <2> QED BY <2>1 DEF cached
<1>9. ASSUME NEW q \in Processes, SendBan(q) PROVE Good
  <2> DEFINE c == Head(calls[q])
  <2>1. /\ c.on \in Servers /\ c.arg[1] \in Bans /\ c.do = "ban"
        /\ (Banned(c) /\ Clear(c)) \/ UNCHANGED <<bans, cached>>
      BY <1>9, SendBanFacts
  <2>2. /\ quiet
        /\ Lists(temps[s], bans[s] \cap Temporary) /\ Lists(permas[s], bans[s] \cap {"perma"})
    <3>1. quiet
      <4>1. Disturb(q, c) \/ quiet' = quiet
          BY <1>9 DEF SendBan
      <4> QED BY <4>1, Zenon DEF Disturb
    <3> QED BY <1>0, <3>1 DEF ListsInv
  <2> HIDE DEF c
  <2>3. CASE UNCHANGED <<bans, cached>>
      BY <2>2, <2>3 DEF cached
  <2>4. CASE Banned(c) /\ Clear(c)
    <3>1. /\ bans'[c.on] = bans[c.on] \cup {c.arg[1]}
          /\ s # c.on => bans'[s] = bans[s]
        BY <1>0, <2>1, <2>4, CarriedBans
    <3>2. /\ temps'[s] \in {temps[s], Unknown} /\ permas'[s] \in {permas[s], Unknown}
          /\ s = c.on /\ KindOf(c) = "perma" => permas'[s] = Unknown
          /\ s = c.on /\ KindOf(c) # "perma" => temps'[s] = Unknown
        BY <1>0, <2>1, <2>4, ClearFacts
    <3>3. KindOf(c) = c.arg[1]
        BY <2>1 DEF KindOf
    <3>4. c.arg[1] = "perma" => {c.arg[1]} \cap Temporary = {}
        BY DEF Temporary
    <3>5. CASE s # c.on
        BY <2>2, <3>1, <3>2, <3>5 DEF Lists
    <3>6. CASE s = c.on /\ c.arg[1] = "perma"
        BY <2>2, <3>1, <3>2, <3>3, <3>4, <3>6 DEF Lists
    <3>7. CASE s = c.on /\ c.arg[1] # "perma"
        BY <2>2, <3>1, <3>2, <3>3, <3>7 DEF Lists
    <3> QED BY <3>5, <3>6, <3>7
  <2> QED BY <2>1, <2>3, <2>4
<1> HIDE DEF Good, KeptLists
<1>10. Good
    BY <1>1, <1>2, <1>3, <1>4, <1>5, <1>6, <1>7, <1>8, <1>9, ProcessFacts DEF Next, Good
<1> QED BY <1>10 DEF Good

\* What a failure leaves behind.
LEMMA FailedFacts ==
    ASSUME TypeInv, [Next]_vars, ~Receive, ~failed'
    PROVE  ~failed /\ (faults' = 0 => faults = 0)
<1>0. failed \in BOOLEAN /\ faults \in Nat /\ CallsInv
    BY HooksAssumption DEF TypeInv, ServerInv, FlagsInv
<1>1. ASSUME Disconnect \/ UNCHANGED vars PROVE UNCHANGED <<failed, faults>>
    BY <1>1 DEF Disconnect, vars
<1>2. ASSUME NEW t \in Servers, Connect(t) \/ Fetch(t) \/ Fire(t) \/ ViewBans(t) \/ Lapse(t)
      PROVE  UNCHANGED <<failed, faults>>
    BY <1>2 DEF Connect, Fetch, Fire, ViewBans, Lapse
<1>3. ASSUME NEW t \in Servers, Restart(t) PROVE failed' = failed /\ faults' # 0
    BY <1>0, <1>3 DEF Restart
<1>4. ASSUME NEW t \in Servers, Hook(Loop(t)) PROVE UNCHANGED <<failed, faults>>
    BY <1>4 DEF Hook, save_start_player_session, save_end_player_session,
                ban_if_blacklisted, ban_if_has_vac_bans, windows_store_player_check,
                notify_invalid_names, cleanup_pending_timers, Decide, Returned
<1>5. ASSUME NEW q \in Processes, Command(q) PROVE ~failed /\ faults' = faults
  <2>1. failed' = failed \/ Fails(q)
      BY <1>5 DEF Command, ClearCache, SendBan, SendRemoval, KickOrMessage, FindTempBan,
             get_bans, add_player_to_blacklist, remove_player_from_blacklist,
             Returned, Raised, NotRemoved
  <2>2. ~failed
      BY <1>0, <2>1, Zenon DEF Fails
  <2> QED BY <1>5, <2>2 DEF Command, ClearCache, SendBan, SendRemoval, KickOrMessage,
             FindTempBan, get_bans, add_player_to_blacklist, remove_player_from_blacklist
<1>6. ASSUME NEW q \in Processes, Refused(q) \/ AnswerLost(q) PROVE ~failed /\ faults' # 0
  <2>1. Fails(q) /\ faults' = faults + 1
      BY <1>6 DEF Refused, AnswerLost, Fault, Raised, NotRemoved
  <2>2. ~failed
      BY <1>0, <2>1, Zenon DEF Fails
  <2> QED BY <1>0, <2>1, <2>2
<1> QED BY <1>1, <1>2, <1>3, <1>4, <1>5, <1>6 DEF Next

\* Fewer bans, and the calls that remove what is left.
LEMMA StillRemoves ==
    ASSUME NEW todo, NEW later, NEW s, NEW banned, NEW left,
           WillRemove(todo, s, banned), left \subseteq banned,
           \A c \in todo : c.on = s /\ (c.do = "get bans" \/ c.arg \in left) => c \in later
    PROVE  WillRemove(later, s, left)
<1>1. CASE \E c \in todo : c.do = "get bans" /\ c.on = s
    BY <1>1 DEF WillRemove
<1>2. CASE \A b \in banned : \E c \in todo : c.do = "remove" /\ c.on = s /\ c.arg = b
    BY <1>2 DEF WillRemove
<1> QED BY <1>1, <1>2 DEF WillRemove

\* What an unban has promised after a step that made the calls later remain.
Promised(later) ==
    /\ Unbans => WillRemove(later, Here, bans'[Here])
    /\ Unbans /\ config.broadcast_unbans /\ faults' = 0 => WillRemove(later, There, bans'[There])
    /\ Unlists => blacklist' # "on" \/ \E c \in later : c.do = "unlist"

\* Only Web's own steps change what remains.
LEMMA WebSteps ==
    ASSUME TypeInv, ListsInv, UnbanInv, [Next]_vars, ~Receive, quiet', ~failed', Unbanning,
           Command(Web) \/ Refused(Web) \/ AnswerLost(Web)
    PROVE  Promised(Pending(Web)')
<1> SUFFICES ASSUME NEW later, later = Pending(Web)' PROVE Promised(later)
    OBVIOUS
<1> DEFINE c == Head(calls[Web])
<1>0. /\ CallsInv /\ BansInv /\ Web \in Processes /\ quiet /\ ~failed
      /\ faults' = 0 => faults = 0
    BY ProcessFacts, QuietFacts, FailedFacts DEF TypeInv, ServerInv
<1>1. Busy(Web) /\ calls[Web] # <<>>
  <2>1. request # "none"
      BY DEF Unbanning
  <2> QED BY <1>0, <2>1 DEF CallsInv, Busy
<1>2. /\ c \in Calls /\ c.on \in Servers /\ c.do \in {"get bans", "remove", "unlist"}
      /\ c.scope = IF c.on = Here THEN 1 ELSE 2
      /\ c.do = "unlist" => c.on = Here
      /\ Pending(Web) = {c} \cup Rest(Web)
      /\ \A d \in Rest(Web) : d.on \in Servers /\ d.scope = IF d.on = Here THEN 1 ELSE 2
      /\ \A d \in Rest(Web) : d.do = "unlist" => d.on = Here
  <2>1. /\ c \in Calls /\ c \in Pending(Web) /\ Pending(Web) = {c} \cup Rest(Web)
        /\ \A d \in Pending(Web) : d \in Calls /\ CallOK(Web, d)
      BY <1>0, <1>1, HeadFacts
  <2>2. \A d \in Pending(Web) :
           /\ d.on \in Servers /\ d.do \in {"get bans", "remove", "unlist"}
           /\ d.scope = IF d.on = Here THEN 1 ELSE 2
           /\ d.do = "unlist" => d.on = Here
      BY <2>1, CallFacts DEF CallOK, WebCall
  <2> HIDE DEF c
  <2> QED BY <2>1, <2>2
<1>3. /\ Unbans => WillRemove(Pending(Web), Here, bans[Here])
      /\ Unbans /\ config.broadcast_unbans /\ faults' = 0 =>
            WillRemove(Pending(Web), There, bans[There])
      /\ Unlists => blacklist # "on" \/ \E d \in Pending(Web) : d.do = "unlist"
    BY <1>0 DEF UnbanInv
<1>4. \A s \in Servers : bans'[s] \subseteq bans[s]
  <2>1. ~SendBan(Web)
      BY <1>2 DEF SendBan, Doing
  <2> QED BY <2>1, QuietFacts
<1>5. blacklist' # "on" \/ blacklist' = blacklist
  <2>1. ~add_player_to_blacklist(Web)
      BY <1>2 DEF add_player_to_blacklist, Doing
  <2> QED BY <2>1, QuietFacts
<1>6. ServerInv /\ Here \in Servers /\ There \in Servers /\ Here # There
    BY ServerFacts DEF TypeInv
<1>7. CASE ClearCache(Web)
  <2>1. later = Pending(Web) /\ bans' = bans
      BY <1>7 DEF ClearCache, Pending
  <2> QED BY <1>3, <1>5, <2>1 DEF Promised
<1>8. CASE get_bans(Web)
  <2>1. /\ c.do = "get bans" /\ bans' = bans /\ blacklist' = blacklist
        /\ \E more \in Seq(Calls) :
              /\ Returned(Web, more)
              /\ ToSet(more) = {Call("remove", c.on, b, c.scope) :
                                   b \in TempList(c.on) \cup PermaList(c.on)}
      BY <1>0, <1>8, GetBansFacts DEF database
  <2>2. PICK more \in Seq(Calls) :
           /\ Returned(Web, more)
           /\ ToSet(more) = {Call("remove", c.on, b, c.scope) :
                                b \in TempList(c.on) \cup PermaList(c.on)}
      BY <2>1
  <2>3. PICK todo \in Seq(Calls) : Todo(Web, todo) /\ ToSet(todo) = ToSet(more) \cup Rest(Web)
      BY <1>0, <1>1, <2>2, ReturnedFacts
  <2>4. later = ToSet(more) \cup Rest(Web)
      BY <1>0, <2>3, TodoFacts
  <2>5. WillRemove(later, c.on, bans'[c.on])
    <3>1. bans[c.on] \subseteq TempList(c.on) \cup PermaList(c.on)
      <4>1. /\ Lists(temps[c.on], bans[c.on] \cap Temporary)
            /\ Lists(permas[c.on], bans[c.on] \cap {"perma"}) /\ bans[c.on] \subseteq Bans
          BY <1>0, <1>2 DEF ListsInv, BansInv
      <4> HIDE DEF c
      <4>2. bans[c.on] \subseteq Temporary \cup {"perma"}
          BY <4>1 DEF Temporary
      <4> QED BY <4>1, <4>2 DEF Lists, TempList, PermaList
    <3> HIDE DEF c
    <3>2. ASSUME NEW b \in bans[c.on]
          PROVE  \E d \in later : d.do = "remove" /\ d.on = c.on /\ d.arg = b
      <4> DEFINE d == Call("remove", c.on, b, c.scope)
      <4>1. d \in later
          BY <2>2, <2>4, <3>1
      <4>2. d.do = "remove" /\ d.on = c.on /\ d.arg = b
          BY DEF Call
      <4> QED BY <4>1, <4>2
    <3> QED BY <2>1, <3>2 DEF WillRemove
  <2> HIDE DEF c
  <2>6. ASSUME NEW s \in Servers, s # c.on, WillRemove(Pending(Web), s, bans[s])
        PROVE  WillRemove(later, s, bans'[s])
    <3>1. \A d \in Pending(Web) : d.on = s => d \in later
        BY <1>2, <2>4, <2>6
    <3> QED BY <2>1, <2>6, <3>1, StillRemoves
  <2>7. \A d \in Pending(Web) : d.do = "unlist" => d \in later
      BY <1>2, <2>1, <2>4
  <2> QED BY <1>3, <1>6, <2>1, <2>5, <2>6, <2>7 DEF Promised
<1>9. CASE SendRemoval(Web)
  <2>1. /\ c.do = "remove" /\ blacklist' = blacklist
        /\ bans' = [bans EXCEPT ![c.on] = @ \ {c.arg}] \/ (bans' = bans /\ c.arg \notin bans[c.on])
        /\ Returned(Web, <<>>) \/ NotRemoved(Web)
      BY <1>9 DEF SendRemoval, Doing, database
  <2>2. later = Rest(Web)
    <3>1. CASE Returned(Web, <<>>)
      <4>1. PICK todo \in Seq(Calls) : Todo(Web, todo) /\ ToSet(todo) = Rest(Web)
          BY <1>0, <1>1, <3>1, ReturnedNothing
      <4> QED BY <1>0, <4>1, TodoFacts
    <3>2. CASE NotRemoved(Web)
      <4>1. PICK todo \in Seq(Calls) : Todo(Web, todo) /\ ToSet(todo) = Rest(Web)
          BY <1>0, <1>1, <3>2, NotRemovedFacts
      <4> QED BY <1>0, <4>1, TodoFacts
    <3> QED BY <2>1, <3>1, <3>2
  <2> HIDE DEF c
  <2>3. c.arg \notin bans'[c.on]
      BY <1>0, <1>2, <2>1 DEF BansInv
  <2>4. ASSUME NEW s \in Servers, WillRemove(Pending(Web), s, bans[s])
        PROVE  WillRemove(later, s, bans'[s])
    <3>1. \A d \in Pending(Web) : d.on = s /\ (d.do = "get bans" \/ d.arg \in bans'[s]) => d \in later
        BY <1>2, <2>1, <2>2, <2>3
    <3> QED BY <1>4, <2>4, <3>1, StillRemoves
  <2>5. \A d \in Pending(Web) : d.do = "unlist" => d \in later
      BY <1>2, <2>1, <2>2
  <2> QED BY <1>3, <1>6, <2>1, <2>4, <2>5 DEF Promised
<1>10. CASE remove_player_from_blacklist(Web)
  <2>1. /\ c.do = "unlist" /\ bans' = bans
        /\ (blacklist' = "off" \/ blacklist' = "none")
        /\ Returned(Web, <<>>) \/ Raised(Web)
      BY <1>10 DEF remove_player_from_blacklist, Doing
  <2>2. ~Raised(Web)
    <3>1. Raised(Web) => failed' = (failed \/ (Web = Web /\ c.on = Here))
        BY DEF Raised, NotRemoved, Fails
    <3>2. c.on = Here
        BY <1>2, <2>1
    <3> QED BY <3>1, <3>2, Zenon
  <2>3. later = Rest(Web)
    <3>1. PICK todo \in Seq(Calls) : Todo(Web, todo) /\ ToSet(todo) = Rest(Web)
        BY <1>0, <1>1, <2>1, <2>2, ReturnedNothing
    <3> QED BY <1>0, <3>1, TodoFacts
  <2> HIDE DEF c
  <2>4. ASSUME NEW s \in Servers, WillRemove(Pending(Web), s, bans[s])
        PROVE  WillRemove(later, s, bans'[s])
    <3>1. \A d \in Rest(Web) \cup {c} : d.do \in {"get bans", "remove"} => d \in later
        BY <2>1, <2>3
    <3> QED BY <1>2, <2>1, <2>4, <3>1 DEF WillRemove
  <2>5. blacklist' # "on"
      BY <2>1
  <2> QED BY <1>3, <1>6, <2>4, <2>5 DEF Promised
<1>11. CASE \/ SendBan(Web) \/ KickOrMessage(Web) \/ FindTempBan(Web)
            \/ add_player_to_blacklist(Web)
    BY <1>2, <1>11 DEF SendBan, KickOrMessage, FindTempBan, add_player_to_blacklist, Doing
<1>12. CASE Refused(Web) \/ AnswerLost(Web)
  <2>1. Raised(Web) /\ faults' # 0
    <3>1. Raised(Web) /\ faults' = faults + 1
        BY <1>12 DEF Refused, AnswerLost, Fault
    <3>2. faults \in 0 .. MaxFaults /\ MaxFaults \in Nat
        BY <1>6, HooksAssumption DEF ServerInv, FlagsInv
    <3> QED BY <3>1, <3>2
  <2>2. c.on # Here
    <3>1. failed' = (failed \/ (Web = Web /\ c.on = Here))
        BY <2>1 DEF Raised, NotRemoved, Fails
    <3> QED BY <3>1, Zenon
  <2>3. c.scope = 2
      BY <1>2, <2>2
  <2>4. PICK todo \in Seq(Calls) :
           Todo(Web, todo) /\ \A d \in Rest(Web) : d.scope < 2 => d \in ToSet(todo)
      BY <1>0, <1>1, <2>1, <2>3, RaisedFacts
  <2>5. later = ToSet(todo)
      BY <1>0, <2>4, TodoFacts
  <2> HIDE DEF c
  <2>6. \A d \in Pending(Web) : d.on = Here => d \in later
    <3>1. ASSUME NEW d \in Rest(Web), d.on = Here PROVE d.scope < 2
      <4>1. d.scope = 1
          BY <1>2, <3>1
      <4> QED BY <4>1
    <3> QED BY <1>2, <2>2, <2>4, <2>5, <3>1
  <2>7. WillRemove(Pending(Web), Here, bans[Here]) => WillRemove(later, Here, bans'[Here])
      BY <1>4, <1>6, <2>6, StillRemoves
  <2>8. \A d \in Pending(Web) : d.do = "unlist" => d \in later
      BY <1>2, <2>6
  <2> QED BY <1>3, <1>5, <2>1, <2>7, <2>8 DEF Promised
<1> QED BY <1>7, <1>8, <1>9, <1>10, <1>11, <1>12 DEF Command

LEMMA StepPromised ==
    ASSUME TypeInv, ListsInv, UnbanInv, [Next]_vars, quiet', ~failed'
    PROVE  Promised(Pending(Web)')
<1>0. CallsInv /\ Web \in Processes
    BY ProcessFacts DEF TypeInv
<1>1. CASE ~Unbanning
    BY <1>1 DEF Promised, Unbans, Unlists, Unbanning
<1>2. CASE Unbanning
  <2>1. Busy(Web)
      BY <1>0, <1>2 DEF CallsInv, Busy, Unbanning
  <2>2. ~Receive
      BY <2>1 DEF Receive
  <2>3. CASE Command(Web) \/ Refused(Web) \/ AnswerLost(Web)
      BY <1>2, <2>2, <2>3, WebSteps
  <2>4. CASE Pending(Web)' = Pending(Web) /\ ~Command(Web)
    <3>1. quiet /\ ~failed /\ (faults' = 0 => faults = 0)
        BY <2>2, QuietFacts, FailedFacts
    <3>2. \A s \in Servers : bans'[s] \subseteq bans[s]
        BY <2>2, <2>4, QuietFacts DEF Command
    <3>3. blacklist' # "on" \/ blacklist' = blacklist
        BY <2>2, <2>4, QuietFacts DEF Command
    <3>4. /\ Unbans => WillRemove(Pending(Web), Here, bans[Here])
          /\ Unbans /\ config.broadcast_unbans /\ faults' = 0 =>
                WillRemove(Pending(Web), There, bans[There])
          /\ Unlists => blacklist # "on" \/ \E d \in Pending(Web) : d.do = "unlist"
        BY <3>1 DEF UnbanInv
    <3>5. ASSUME NEW s \in Servers, WillRemove(Pending(Web), s, bans[s])
          PROVE  WillRemove(Pending(Web)', s, bans'[s])
        BY <2>4, <3>2, <3>5, StillRemoves
    <3> QED BY <2>4, <3>3, <3>4, <3>5, ServerFacts DEF Promised
  <2> QED BY <1>0, <2>2, <2>3, <2>4, OwnSteps, ProcessFacts
<1> QED BY <1>1, <1>2

\* What a request begins with keeps the promise.
LEMMA ReceivePromises ==
    ASSUME TypeInv, TypeInv', Receive, config' = config
    PROVE  UnbanInv'
<1>0. config \in Configs /\ CallsInv /\ Web \in Processes
    BY ProcessFacts DEF TypeInv, ServerInv, FlagsInv
<1>1. PICK what \in config.permissions :
         calls' = [calls EXCEPT ![Web] = CallsOf(what)] /\ request' = what
    BY DEF Receive
<1>2. what \in Requests
    BY <1>0, <1>1, ConfigFacts
<1>3. Pending(Web)' = ToSet(CallsOf(what))
    BY <1>0, <1>1 DEF CallsInv, Pending
<1>4. Unbans' => \/ what = "unban"
                 \/ what = "unblacklist" /\ config.unblacklist_does_unban
    BY <1>1 DEF Unbans
<1>5. Unlists' => \/ what = "unblacklist"
                  \/ what = "unban" /\ config.unban_does_unblacklist
    BY <1>1 DEF Unlists
<1> DEFINE todo == ToSet(CallsOf(what))
<1>6. /\ Unbans' => \E c \in todo : c.do = "get bans" /\ c.on = Here
      /\ Unbans' /\ config.broadcast_unbans => \E c \in todo : c.do = "get bans" /\ c.on = There
      /\ Unlists' => \E c \in todo : c.do = "unlist"
    BY <1>0, <1>2, <1>4, <1>5, CallsOfFacts
<1> HIDE DEF todo
<1>7. /\ Unbans' => WillRemove(todo, Here, bans'[Here])
      /\ Unbans' /\ config.broadcast_unbans => WillRemove(todo, There, bans'[There])
    BY <1>6 DEF WillRemove
<1>8. Pending(Web)' = todo
    BY <1>3 DEF todo
<1> QED BY <1>6, <1>7, <1>8 DEF UnbanInv

\* A request ends only with its last call.
LEMMA RequestFacts ==
    ASSUME TypeInv, [Next]_vars, ~Receive
    PROVE  request' \in {request, "none"}
<1>0. CallsInv /\ Web \in Processes
    BY ProcessFacts DEF TypeInv
<1>1. ASSUME NEW q, NEW todo, Todo(q, todo) PROVE request' \in {request, "none"}
    BY <1>1 DEF Todo
<1>2. CASE Disconnect \/ UNCHANGED vars
    BY <1>2 DEF Disconnect, vars
<1>3. ASSUME NEW t \in Servers,
             Connect(t) \/ ViewBans(t) \/ Lapse(t) \/ Restart(t)
      PROVE  request' = request
    BY <1>3 DEF Connect, ViewBans, Lapse, Restart
<1>4. ASSUME NEW t \in Servers, Fetch(t) \/ Fire(t) PROVE request' \in {request, "none"}
  <2>1. \E q, todo : Todo(q, todo)
      BY <1>4 DEF Fetch, Fire
  <2> QED BY <1>1, <2>1
<1>5. ASSUME NEW q, Raised(q) PROVE request' \in {request, "none"}
  <2>1. \E todo : Todo(q, todo)
      BY <1>5 DEF Raised, NotRemoved
  <2> QED BY <1>1, <2>1
<1>6. ASSUME NEW q, NEW more, Returned(q, more) PROVE request' \in {request, "none"}
    BY <1>1, <1>6 DEF Returned
<1>7. ASSUME NEW t \in Servers, Hook(Loop(t)) PROVE request' \in {request, "none"}
  <2>1. \E more : Returned(Loop(t), more)
      BY <1>7 DEF Hook, save_start_player_session, save_end_player_session,
                  ban_if_blacklisted, ban_if_has_vac_bans, windows_store_player_check,
                  notify_invalid_names, cleanup_pending_timers, Decide
  <2> QED BY <1>6, <2>1
<1>8. ASSUME NEW q \in Processes, Command(q), ~ClearCache(q)
      PROVE  request' \in {request, "none"}
  <2>1. (\E more : Returned(q, more)) \/ Raised(q) \/ NotRemoved(q)
      BY <1>8 DEF Command, SendBan, SendRemoval, KickOrMessage, FindTempBan, get_bans,
                  add_player_to_blacklist, remove_player_from_blacklist
  <2>2. NotRemoved(q) => \E todo : Todo(q, todo)
      BY DEF NotRemoved
  <2> QED BY <1>1, <1>5, <1>6, <2>1, <2>2
<1>9. ASSUME NEW q \in Processes, ClearCache(q) \/ Refused(q) \/ AnswerLost(q)
      PROVE  request' \in {request, "none"}
    BY <1>5, <1>9 DEF ClearCache, Refused, AnswerLost
<1> QED BY <1>2, <1>3, <1>4, <1>7, <1>8, <1>9 DEF Next

LEMMA StepUnbanInv ==
    ASSUME TypeInv, TypeInv', ListsInv, UnbanInv, [Next]_vars, config' = config
    PROVE  UnbanInv'
<1>1. CASE Receive
    BY <1>1, ReceivePromises
<1>2. CASE ~Receive
  <2>1. request' \in {request, "none"}
      BY <1>2, RequestFacts
  <2>2. (Unbans' => Unbans) /\ (Unlists' => Unlists)
      BY <2>1 DEF Unbans, Unlists
  <2> SUFFICES ASSUME quiet' /\ ~failed'
               PROVE  /\ Unbans' => WillRemove(Pending(Web)', Here, bans'[Here])
                      /\ Unbans' /\ config.broadcast_unbans /\ faults' = 0 =>
                            WillRemove(Pending(Web)', There, bans'[There])
                      /\ Unlists' => blacklist' # "on" \/ \E c \in Pending(Web)' : c.do = "unlist"
      BY DEF UnbanInv, WillRemove
  <2>3. Promised(Pending(Web)')
      BY StepPromised
  <2> QED BY <2>2, <2>3 DEF Promised
<1> QED BY <1>1, <1>2

\* When the last call is done nothing is left to remove.
LEMMA StepUnban ==
    ASSUME TypeInv, ListsInv, UnbanInv, [Next]_vars,
           Busy(Web), calls'[Web] = <<>>, quiet', ~failed'
    PROVE  /\ Unbans => bans'[Here] = {}
           /\ Unbans /\ config.broadcast_unbans /\ faults' = 0 => bans'[There] = {}
           /\ Unlists => blacklist' # "on"
<1>1. Pending(Web)' = {}
    BY FewElements DEF Pending
<1>2. Promised({})
    BY <1>1, StepPromised
<1>3. \A s, banned : WillRemove({}, s, banned) => banned = {}
    BY DEF WillRemove
<1> QED BY <1>2, <1>3 DEF Promised

LEMMA InitInv ==
    ASSUME Init
    PROVE  IInv
<1>1. CallsInv
  <2>1. calls = [q \in Processes |-> <<>>] /\ at = [q \in Processes |-> "begin"] /\ request = "none"
      BY DEF Init
  <2>2. \A q \in Processes : calls[q] = <<>> /\ Pending(q) = {}
      BY <2>1, FewElements DEF Pending
  <2>3. calls \in [Processes -> Seq(Calls)]
      BY <2>1, FewElements
  <2> QED BY <2>1, <2>2, <2>3, ProcessFacts DEF CallsInv
<1>2. PlayerInv
  <2>1. /\ lines \in [Servers -> Seq(Nat)] /\ \A s \in Servers : ToSet(lines[s]) = {}
        /\ sessions \in Seq([start : Nat, end : Nat]) /\ DOMAIN sessions = {}
    <3>1. DOMAIN <<>> = {}
        OBVIOUS
    <3> QED BY <3>1, FewElements DEF Init
  <2> QED BY <2>1, HooksAssumption DEF Init, PlayerInv, TravelInv, RowsInv
<1>3. ServerInv
  <2>1. BansInv
      BY ListFacts DEF Init, BansInv
  <2>2. TimersInv
      BY FewElements DEF Init, TimersInv
  <2>3. FlagsInv
    <3>1. config \in Configs /\ orderly \in [Servers -> BOOLEAN] /\ faults = 0 /\ inOrder = 0
        BY DEF Init
    <3>2. failed \in BOOLEAN /\ due \in BOOLEAN /\ quiet \in BOOLEAN
        BY Zenon DEF Init
    <3>3. faults \in 0 .. MaxFaults
        BY <3>1, HooksAssumption
    <3> QED BY <3>1, <3>2, <3>3 DEF FlagsInv
  <2> QED BY <2>1, <2>2, <2>3 DEF ServerInv
<1>4. SessionIsVisit
  <2>1. inOrder = 0 /\ sessions = <<>>
      BY DEF Init
  <2>2. (inOrder + 1) \div 2 = 0
      BY <2>1
  <2>3. 1 .. (inOrder + 1) \div 2 = {}
      BY <2>2
  <2> QED BY <2>1, <2>3 DEF SessionIsVisit
<1>5. EnforceInv /\ ListsInv /\ UnbanInv
    BY DEF Init, EnforceInv, ListsInv, UnbanInv
<1>6. PardonInv
  <2> SUFFICES ASSUME NEW s \in Servers
               PROVE  /\ NotifyThenPardon(timers[s]) /\ bans[s] = {}
                      /\ Pending(Pardoner(s)) = {} /\ ~Busy(Notifier(s))
      BY DEF PardonInv
  <2>1. timers[s] = <<>> /\ bans[s] = {}
      BY DEF Init
  <2>2. calls[Pardoner(s)] = <<>> /\ calls[Notifier(s)] = <<>>
      BY ProcessFacts DEF Init
  <2>3. DOMAIN <<>> = {}
      OBVIOUS
  <2> QED BY <2>1, <2>2, <2>3, FewElements DEF NotifyThenPardon, Pending, Busy
<1> QED BY <1>1, <1>2, <1>3, <1>4, <1>5, <1>6 DEF IInv, TypeInv

\* The invariant is inductive.
THEOREM HooksInvariant == Spec => []IInv
<1>1. Init => IInv
    BY InitInv
<1>2. IInv /\ [Next]_vars => IInv'
  <2> SUFFICES ASSUME IInv, [Next]_vars PROVE IInv'
      OBVIOUS
  <2>0. TypeInv /\ SessionIsVisit /\ EnforceInv /\ PardonInv /\ ListsInv /\ UnbanInv
      BY DEF IInv
  <2>1. TypeInv' /\ config' = config
      BY <2>0, StepTypeInv
  <2>2. SessionIsVisit'
      BY <2>0, StepSessions
  <2>3. EnforceInv'
      BY <2>0, <2>1, StepEnforceInv
  <2>4. PardonInv'
      BY <2>0, <2>1, StepPardonInv
  <2>5. ListsInv'
      BY <2>0, StepListsInv
  <2>6. UnbanInv'
      BY <2>0, <2>1, StepUnbanInv
  <2> QED BY <2>1, <2>2, <2>3, <2>4, <2>5, <2>6 DEF IInv
<1> QED BY <1>1, <1>2, PTL DEF Spec

\* The calls, lists, rows and timers are always of the kinds the code keeps.
THEOREM HooksTypeCorrect == Spec => []TypeOK
<1>1. IInv => TypeOK
  <2> SUFFICES ASSUME TypeInv PROVE TypeOK
      BY DEF IInv
  <2>0. CallsInv /\ TravelInv /\ RowsInv /\ BansInv /\ TimersInv /\ FlagsInv
      BY DEF TypeInv, PlayerInv, ServerInv
  <2>1. ASSUME NEW s \in Servers
        PROVE  /\ \A i \in DOMAIN lines[s] : lines[s][i] \in 1 .. 2 * MaxVisits
               /\ bans[s] \subseteq Bans
               /\ temps[s] = Unknown \/ temps[s] \subseteq Temporary
               /\ permas[s] = Unknown \/ permas[s] \subseteq {"perma"}
               /\ \A i \in DOMAIN timers[s] : timers[s][i] \in {"notify", "pardon"}
    <3>1. ASSUME NEW i \in DOMAIN lines[s] PROVE lines[s][i] \in 1 .. 2 * MaxVisits
      <4>1. lines[s][i] \in 1 .. 2 * visits
          BY <2>0 DEF TravelInv, ToSet
      <4>2. visits \in Nat /\ MaxVisits \in Nat /\ visits <= MaxVisits
          BY <2>0, HooksAssumption DEF TravelInv
      <4>3. 1 .. 2 * visits \subseteq 1 .. 2 * MaxVisits
          BY <4>2
      <4> QED BY <4>1, <4>3
    <3>2. \A i \in DOMAIN timers[s] : timers[s][i] \in {"notify", "pardon"}
      <4>1. timers[s] \in Seq({"notify", "pardon"})
          BY <2>0 DEF TimersInv
      <4> QED BY <4>1
    <3> QED BY <2>0, <3>1, <3>2 DEF BansInv, TempLists, PermaLists
  <2>2. ASSUME NEW q \in Processes
        PROVE  /\ at[q] = "send" => calls[q] # <<>> /\ calls[q][1].do \in TwoSteps
               /\ \A i \in DOMAIN calls[q] : calls[q][i].on \in Servers
    <3>1. calls[q] \in Seq(Calls)
        BY <2>0 DEF CallsInv
    <3>2. \A i \in DOMAIN calls[q] : calls[q][i].on \in Servers
      <4>1. \A i \in DOMAIN calls[q] : calls[q][i] \in Calls
          BY <3>1
      <4> QED BY <4>1, CallFacts
    <3>3. calls[q] # <<>> => Head(calls[q]) = calls[q][1]
        BY <3>1
    <3> QED BY <2>0, <3>2, <3>3 DEF CallsInv, Busy
  <2> QED BY <2>0, <2>1, <2>2 DEF TypeOK, CallsInv, TravelInv, RowsInv, FlagsInv
<1> QED BY <1>1, HooksInvariant, PTL

\* There is one session for each visit, with its own end, while the lines are
\* handled in order and none is missed.
THEOREM SessionsAreVisits == Spec => []SessionIsVisit
<1>1. IInv => SessionIsVisit
    BY DEF IInv
<1> QED BY <1>1, HooksInvariant, PTL

\* Who came while on the blacklist does not stay when the hooks have run, but
\* for a name that starts with a digit.
THEOREM BlacklistEnforced == Spec => []BlacklistIsEnforced
<1>1. IInv => BlacklistIsEnforced
  <2> SUFFICES ASSUME TypeInv, EnforceInv, due, where # Nowhere, ~config.digit_first
               PROVE  Busy(Loop(where)) \/ lines[where] # <<>>
      BY DEF IInv, BlacklistIsEnforced
  <2>1. \/ Connected(visits) \in ToSet(lines[where])
        \/ Pending(Loop(where)) # {}
      BY DEF EnforceInv
  <2> QED BY <2>1, FewElements DEF Pending, Busy
<1> QED BY <1>1, HooksInvariant, PTL

\* The ban in place of a kick ends with the pardon that is still to come.
THEOREM KicksArePardoned == Spec => []KickIsPardoned
<1>1. IInv => KickIsPardoned
    BY DEF IInv, PardonInv, KickIsPardoned
<1> QED BY <1>1, HooksInvariant, PTL

\* An unban that did not answer failed has left no ban, and no row of the
\* blacklist that is on.
THEOREM UnbansUnban == Spec => UnbanMeansUnbanned
<1>1. IInv /\ [Next]_vars =>
        [ /\ Busy(Web) /\ calls'[Web] = <<>> /\ quiet' /\ ~failed'
          => LET unbans == \/ request = "unban"
                           \/ request = "unblacklist" /\ config.unblacklist_does_unban
                 unlists == \/ request = "unblacklist"
                            \/ request = "unban" /\ config.unban_does_unblacklist
             IN  /\ unbans => bans'[Here] = {}
                 /\ unbans /\ config.broadcast_unbans /\ faults' = 0 => bans'[There] = {}
                 /\ unlists => blacklist' # "on"]_vars
    BY StepUnban DEF IInv, Unbans, Unlists
<1> QED BY <1>1, HooksInvariant, PTL DEF Spec, UnbanMeansUnbanned
=============================================================================
