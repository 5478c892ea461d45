------------------------------- MODULE MCVips -------------------------------
(* Small instances of Vips: the files that are uploaded.                   *)
EXTENDS Vips

\* One VIP, no matter who, or none.
OneOfThem == {<<>>, [p \in {CHOOSE x \in Players : TRUE} |-> MaxTime]}
=============================================================================
