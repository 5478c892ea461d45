------------------------------ MODULE GameLog -------------------------------
(***************************************************************************)
(* The log of the game server as rcon.get_structured_logs shows it: every  *)
(* line has the second in which it was written, and "the last w minutes"   *)
(* are asked for (rcon/rcon.py).  A line is its position in the log; what  *)
(* it says is left out.  Lines of the same second with the same text are   *)
(* one line to the whole system, and one line here.                        *)
(***************************************************************************)
EXTENDS Naturals, Sequences

CONSTANTS
    MaxTime,    \* bound: the clock stops here
    MaxLines    \* bound: lines written by the game server

VARIABLES
    now,        \* the clock of the game server and of the processes
    game        \* for each line the second in which it was written

gameVars == <<now, game>>

Lines == DOMAIN game

GameTypeOK ==
    /\ now \in Nat
    /\ game \in Seq(Nat)

GameInit ==
    /\ now = 0
    /\ game = <<>>

\* Something happens on the game server.
Write ==
    /\ Len(game) < MaxLines
    /\ game' = Append(game, now)
    /\ UNCHANGED now

Tick ==
    /\ now < MaxTime
    /\ now' = now + 1
    /\ UNCHANGED game

GameNext == Write \/ Tick

\* get_structured_logs(since_min_ago=w) contains line i.
Shown(i, w) == now <= game[i] + w

\* The lines lo, lo + 1, ... are those it contains.
ShownFrom(lo, w) ==
    /\ lo \in 1 .. Len(game) + 1
    /\ \A i \in Lines : i >= lo <=> Shown(i, w)
=============================================================================
