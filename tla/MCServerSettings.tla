-------------------------- MODULE MCServerSettings --------------------------
(***************************************************************************)
(* What sets the settings of the game server, for TLC: the messages, map   *)
(* shuffle and the automatic settings.  Each is a system of its own, and   *)
(* one run checks them all: the initial state chooses the part that moves, *)
(* and the others stay in one initial state of theirs.                     *)
(***************************************************************************)
EXTENDS AutoSettings, Messages, MapShuffle, TLC

CONSTANTS SetName, OtherName, Default, Given

VARIABLE part

settingsVars == <<part, autoVars, messageVars, shuffleVars>>

-----------------------------------------------------------------------------
(* Configurations: the defaults give settings one value, two rules others. *)

Gives(V) == UNION {[N -> V] : N \in SUBSET {SetName, OtherName}}
Rule(b) == [conditional : {b}, commands : Gives(Given) \ {Nothing}]
Conditional == {<<>>} \cup {<<r>> : r \in Rule(TRUE)} \cup (Rule(TRUE) \X Rule(TRUE))
RuleLists == Conditional \cup {<<r, s>> : r \in Rule(TRUE), s \in Rule(FALSE)}

ConfigsOf(lists) ==
    [always : BOOLEAN, multiple : BOOLEAN, defaults : Gives({Default}), rules : lists]

Plain(b) == [always |-> b, multiple |-> b, defaults |-> Nothing, rules |-> <<>>]

MCSetNames == {SetName}
MCOtherNames == {OtherName}
MCValues == Given \cup {Default}
MCEdits == {Plain(TRUE), Plain(FALSE)}
MCConfigs == ConfigsOf(RuleLists)

-----------------------------------------------------------------------------

\* The process has started with its configuration, and no request edits it.
RunsIt ==
    /\ service = "running" /\ config = stored /\ at = "first"
    /\ wantedOff = FALSE /\ leftOff = FALSE
    /\ rule = 1 /\ todo = Nothing /\ matched = <<>> /\ touched = {}
    /\ effect = [n \in Names |-> Unset]
    /\ request = [r \in Requests |-> "none"] /\ skipped = FALSE

\* The parts that do not move.
AutoStill == AutoInit /\ stored = Plain(TRUE)
MessagesStill == MessageInit /\ shown = Blank
ShuffleStill == ShuffleInit /\ shuffle = FALSE /\ cached = Unknown

MCInit ==
    \/ part = "rules" /\ stored \in Configs /\ RunsIt /\ MessagesStill /\ ShuffleStill
    \/ part = "edits" /\ AutoInit /\ stored \in Edits /\ MessagesStill /\ ShuffleStill
    \/ part = "messages" /\ AutoStill /\ MessageInit /\ ShuffleStill
    \/ part = "shuffle" /\ AutoStill /\ MessagesStill /\ ShuffleInit

MCNext ==
    /\ UNCHANGED part
    /\ \/ /\ part = "rules" /\ LoopNext
          /\ UNCHANGED <<service, serviceVars, messageVars, shuffleVars>>
       \/ part = "edits" /\ AutoNext /\ UNCHANGED <<messageVars, shuffleVars>>
       \/ part = "messages" /\ MessageNext /\ UNCHANGED <<autoVars, shuffleVars>>
       \/ part = "shuffle" /\ ShuffleNext /\ UNCHANGED <<autoVars, messageVars>>

Settings == MCInit /\ [][MCNext]_settingsVars

Alike ==
    Permutations(Callers) \cup Permutations(Setters) \cup Permutations(Lasting)
    \cup Permutations(Requests) \cup Permutations(Given)
=============================================================================
