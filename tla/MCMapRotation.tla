--------------------------- MODULE MCMapRotation ----------------------------
(***************************************************************************)
(* Small instances of MapRotation: who calls what.  An initial state of    *)
(* Instances is of one of two kinds: a sole process with every operation   *)
(* on rotations as long as MaxLen, or all of the processes applying        *)
(* results to rotations of two maps at most.                               *)
(***************************************************************************)
EXTENDS MapRotation

Everything == [p \in Procs |-> Operations]

\* The log loop after a vote and a request that resets the vote.
Pair == "pair"

VARIABLE instance     \* the sole process, or Pair

mcVars == <<rotationVars, instance>>

Kept ==
    IF instance = Pair
    THEN /\ Len(rotation) <= 2
         /\ \A p \in Procs : prog[p] # <<>> => op[p].kind = "apply"
    ELSE \A p \in Procs \ {instance} : prog[p] = <<>>

MCInit == RotationInit /\ instance \in Procs \cup {Pair} /\ Kept

MCNext == RotationNext /\ UNCHANGED instance /\ Kept'

Instances == MCInit /\ [][MCNext]_mcVars

Alike == Permutations(Procs) \cup Permutations(Maps)
=============================================================================
