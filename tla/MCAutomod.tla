----------------------------- MODULE MCAutomod ------------------------------
(***************************************************************************)
(* Small instances of Automod.  One unit of time is a third of the 120     *)
(* seconds after which a watch expires.                                    *)
(***************************************************************************)
EXTENDS Automod, TLC

\* The whole ladder, as no_leader has it.
Ladder(notes, warnings, punishments) ==
    [notes |-> notes, warnings |-> warnings, punishments |-> punishments,
     noteEvery |-> 1, warnEvery |-> 1, punishEvery |-> 1, grace |-> 2,
     kicks |-> TRUE]

OneConfig == "no_leader" :> Ladder(1, 1, 2)
TwoConfig == "no_leader" :> Ladder(1, 0, 2) @@ "seeding_rules" :> Ladder(0, 1, 1)
RestConfig == "level_thresholds" :> Ladder(0, 1, 1) @@ "solo_tank" :> Ladder(1, 0, 2)
=============================================================================
