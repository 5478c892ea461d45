----------------------------- MODULE MapShuffle -----------------------------
(***************************************************************************)
(* Enabling and disabling map shuffle.  The game server has no command for *)
(* that, only one that toggles; so set_map_shuffle_enabled asks first      *)
(* (rcon/commands.py), through the cache that Rcon has around the question *)
(* (rcon/rcon.py, rcon/cache_utils.py), and _auto_retry repeats the toggle *)
(* when its answer is lost.  Requests and the automatic settings do this,  *)
(* each in a process of its own and without a lock.                        *)
(***************************************************************************)
EXTENDS Naturals

CONSTANTS
    Callers,    \* the processes
    Unknown     \* nothing in the cache, and nothing read

ASSUME ShuffleAssumption == Unknown \notin BOOLEAN

VARIABLES
    shuffle,    \* is it enabled on the game server
    cached,     \* get_map_shuffle_enabled in Redis
    step,       \* [Callers -> the next step of its call]
    wanted,     \* [Callers -> what it sets, or Unknown when it only asks]
    current,    \* [Callers -> what it was told]
    sole,       \* history: [Callers -> its call is alone, and Redis cleared its cache]
    toggledTwice \* history: [Callers -> its toggle was repeated]

shuffleVars == <<shuffle, cached, step, wanted, current, sole, toggledTwice>>

Answers == BOOLEAN \cup {Unknown}

ShuffleTypeOK ==
    /\ shuffle \in BOOLEAN /\ cached \in Answers
    /\ step \in [Callers -> {"none", "clear", "ask", "read", "store", "toggle", "clearAgain"}]
    /\ wanted \in [Callers -> Answers] /\ current \in [Callers -> Answers]
    /\ sole \in [Callers -> BOOLEAN] /\ toggledTwice \in [Callers -> BOOLEAN]

ShuffleInit ==
    /\ shuffle \in BOOLEAN /\ cached \in Answers
    /\ step = [c \in Callers |-> "none"]
    /\ wanted = [c \in Callers |-> Unknown] /\ current = [c \in Callers |-> Unknown]
    /\ sole = [c \in Callers |-> FALSE]
    /\ toggledTwice = [c \in Callers |-> FALSE]

Goes(c, to) == step' = [step EXCEPT ![c] = to]

\* set_map_shuffle_enabled(w) is called or, for Unknown, the getter.
Call(c, w) ==
    /\ step[c] = "none"
    /\ Goes(c, IF w = Unknown THEN "ask" ELSE "clear")
    /\ wanted' = [wanted EXCEPT ![c] = w]
    /\ current' = [current EXCEPT ![c] = Unknown]
    /\ sole' = [d \in Callers |-> d = c /\ \A e \in Callers \ {c} : step[e] = "none"]
    /\ toggledTwice' = [toggledTwice EXCEPT ![c] = FALSE]
    /\ UNCHANGED <<shuffle, cached>>

\* A variant that does not clear the cache before its body.
ClearAfterwards(c) ==
    /\ step[c] \in {"clear", "clearAgain"}
    /\ cached' = IF step[c] = "clearAgain" THEN Unknown ELSE cached
    /\ Goes(c, IF step[c] = "clear" THEN "ask" ELSE "none")
    /\ UNCHANGED <<shuffle, wanted, current, sole, toggledTwice>>

\* invalidates(), before its body and after it.
Clear(c) ==
    /\ step[c] \in {"clear", "clearAgain"}
    /\ cached' = Unknown
    /\ Goes(c, IF step[c] = "clear" THEN "ask" ELSE "none")
    /\ UNCHANGED <<shuffle, wanted, current, sole, toggledTwice>>

\* clear_all only logs that Redis failed.
ClearFails(c) ==
    /\ step[c] \in {"clear", "clearAgain"}
    /\ Goes(c, IF step[c] = "clear" THEN "ask" ELSE "none")
    /\ sole' = [sole EXCEPT ![c] = FALSE]
    /\ UNCHANGED <<shuffle, cached, wanted, current, toggledTwice>>

\* What a setter does when it knows the current value.
Decides(c, answer) ==
    IF wanted[c] = Unknown THEN "none"
    ELSE IF wanted[c] = answer THEN "clearAgain" ELSE "toggle"

\* RedisCached.__call__: the cache, or the game server when Redis fails, and the
\* cache again, which may fail too.
Ask(c) ==
    /\ step[c] = "ask"
    /\ \E found \in {cached, Unknown} :
          /\ Goes(c, IF found = Unknown THEN "read" ELSE Decides(c, found))
          /\ current' = [current EXCEPT ![c] = found]
    /\ UNCHANGED <<shuffle, cached, wanted, sole, toggledTwice>>

Read(c) ==
    /\ step[c] = "read"
    /\ current' = [current EXCEPT ![c] = shuffle]
    /\ Goes(c, "store")
    /\ UNCHANGED <<shuffle, cached, wanted, sole, toggledTwice>>

Store(c) ==
    /\ step[c] = "store"
    /\ cached' \in {cached, current[c]}
    /\ Goes(c, Decides(c, current[c]))
    /\ UNCHANGED <<shuffle, wanted, current, sole, toggledTwice>>

\* Once or, when its first answer was lost, twice.
Toggle(c) ==
    /\ step[c] = "toggle"
    /\ \E again \in BOOLEAN :
          /\ shuffle' = IF again THEN shuffle ELSE ~shuffle
          /\ toggledTwice' = [toggledTwice EXCEPT ![c] = again]
    /\ Goes(c, "clearAgain")
    /\ UNCHANGED <<cached, wanted, current, sole>>

\* A command raises; it may have been carried out, and invalidates() does not
\* clear again.
Raise(c) ==
    /\ \/ step[c] = "read" /\ UNCHANGED shuffle
       \/ step[c] = "toggle" /\ shuffle' \in BOOLEAN
    /\ Goes(c, "none")
    /\ sole' = [sole EXCEPT ![c] = FALSE]
    /\ wanted' = [wanted EXCEPT ![c] = Unknown]
    /\ UNCHANGED <<cached, current, toggledTwice>>

\* Ten minutes.
Lapse ==
    /\ cached # Unknown
    /\ cached' = Unknown
    /\ UNCHANGED <<shuffle, step, wanted, current, sole, toggledTwice>>

ShuffleNext ==
    \/ \E c \in Callers :
          \/ \E w \in Answers : Call(c, w)
          \/ Clear(c) \/ ClearFails(c) \/ Ask(c) \/ Read(c) \/ Store(c) \/ Toggle(c) \/ Raise(c)
    \/ Lapse

ShuffleSpec == ShuffleInit /\ [][ShuffleNext]_shuffleVars

-----------------------------------------------------------------------------
(* Properties                                                              *)

\* The end of a call that set shuffle, nothing raised.
SetReturns(c) == step[c] = "clearAgain" /\ step'[c] = "none"

\* A toggle serves to set: from any state, with a stale answer in the cache or
\* not, a call that nobody interfered with and for which Redis cleared the cache
\* leaves shuffle as it was wanted, unless its toggle was repeated
\* (commands.py:535-538, rcon.py:886-888).
ShuffleAsWanted ==
    [][\A c \in Callers :
          SetReturns(c) /\ sole[c] /\ ~toggledTwice[c] => shuffle = wanted[c]]_shuffleVars

(* What is hoped, and the code does not do.                                *)

\* Processes that want the same, none of which failed, do not undo each other.
SameWishIsGranted ==
    [][\A c \in Callers :
          /\ SetReturns(c) /\ ~\E d \in Callers : toggledTwice[d]
          /\ \A d \in Callers : wanted[d] = wanted[c]
          => shuffle = wanted[c]]_shuffleVars

\* A repeated command does what it does once (commands.py:82).
RetryIsHarmless ==
    [][\A c \in Callers : SetReturns(c) /\ sole[c] => shuffle = wanted[c]]_shuffleVars
=============================================================================
