---------------------------- MODULE MCMatchHistory ----------------------------
(***************************************************************************)
(* The instance: a map by day and by night, which the log does not tell    *)
(* apart, and a map the tool does not know.                                *)
(***************************************************************************)
EXTENDS MatchHistory

MCMaps == {"foy_warfare", "foy_warfare_night", "new_warfare"}
MCRotation == {"foy_warfare_night", "new_warfare"}
MCBase == [m \in MCMaps |-> IF m = "new_warfare" THEN "new" ELSE "foy"]
MCLogMap == [m \in MCMaps |-> IF m = "new_warfare" THEN "unknown" ELSE "foy_warfare"]

===============================================================================
