--------------------------- MODULE MCPlayerHooks ---------------------------
(* Small instances of PlayerHooks: configurations with one thing to do each. *)
EXTENDS PlayerHooks

Plain == [broadcast_unbans |-> FALSE, unban_does_unblacklist |-> FALSE,
          unblacklist_does_unban |-> FALSE, vac_banned |-> FALSE,
          windows_store |-> "none", name |-> "fine", digit_first |-> FALSE,
          permissions |-> {}, visits |-> 1]

\* Unbans are for both servers and for the blacklist.
Unbanning == [Plain EXCEPT !.broadcast_unbans = TRUE,
                 !.unban_does_unblacklist = TRUE, !.unblacklist_does_unban = TRUE,
                 !.permissions = {"unban", "unblacklist", "perma_ban"}]
Unlisting == [Plain EXCEPT !.permissions = {"unban", "unblacklist", "blacklist"}]
Blacklisting == [Plain EXCEPT !.permissions = {"unblacklist", "blacklist"}]
\* A ban by name is sent by number.
DigitFirst == [Blacklisting EXCEPT !.digit_first = TRUE]

Name(n) == [Plain EXCEPT !.name = n]
Pineapple == [Name("pineapple") EXCEPT !.permissions = {"temp_ban"}]
\* An unban on both servers meets the pardon.
Pardoning == [Name("pineapple") EXCEPT !.broadcast_unbans = TRUE,
                 !.permissions = {"unban", "perma_ban"}]
Stores == {[Plain EXCEPT !.windows_store = w] : w \in {"kick", "temp", "perma"}}

Twice(configs) == {[c EXCEPT !.visits = 2] : c \in configs}

All == {Unbanning, Pineapple, Pardoning, Name("warn"), Name("kick"), Name("ban"), Unlisting,
        DigitFirst} \cup Stores
         \cup Twice({Plain, Blacklisting, [Plain EXCEPT !.vac_banned = TRUE]})
=============================================================================
