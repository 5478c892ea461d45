---------------------------- MODULE LogRecorder -----------------------------
(***************************************************************************)
(* The log_recorder process: LogRecorder (rcon/game_logs.py).  Every five  *)
(* minutes it compares the history that LogLoop keeps in Redis with the    *)
(* newest line of the table log_lines and stores what is newer, the newest *)
(* line first, one transaction for each line.                              *)
(***************************************************************************)
EXTENDS LogLoop

VARIABLES
    table,      \* log_lines: the lines stored for this server
    to_store,   \* what is still to be stored in this run
    cutShort    \* history: a run was cut short

recorderVars == <<table, to_store, cutShort>>
allVars == <<vars, recorderVars>>

RecorderInit == table = {} /\ to_store = <<>> /\ cutShort = FALSE

-----------------------------------------------------------------------------
\* A variant that takes the lines of the newest second again.
NotOlder(i) == \A stored \in table : game[i] >= game[stored]

\* Line i is later than the newest line in the table.  The code's other
\* test, the text of that line in a later second, is never true: the text
\* has the second in it.
Newer(i) == \A stored \in table : game[i] > game[stored]

\* The lines of list that are in wanted, in its order.
Kept(list, wanted) ==
    LET kept[n \in 0 .. Len(list)] ==
            IF n = 0 THEN <<>>
            ELSE IF list[n] \in wanted THEN Append(kept[n - 1], list[n]) ELSE kept[n - 1]
    IN  kept[Len(list)]

NewerLines == {i \in Lines : Newer(i)}

\* _get_new_logs, once the frequency is due.
GetNewLogs ==
    /\ to_store = <<>>
    /\ to_store' = Kept(history, NewerLines)
    /\ to_store' # <<>>
    /\ UNCHANGED <<vars, table, cutShort>>

\* A variant that takes lines out of the list it iterates over.
SaveHalf ==
    /\ to_store # <<>>
    /\ table' = table \cup {Head(to_store)}
    /\ to_store' = SubSeq(to_store, 3, Len(to_store))
    /\ UNCHANGED <<vars, cutShort>>

\* _save_logs: one line and its commit.
SaveLog ==
    /\ to_store # <<>>
    /\ table' = table \cup {Head(to_store)}
    /\ to_store' = Tail(to_store)
    /\ UNCHANGED <<vars, cutShort>>

\* The process is killed or loses the database between two commits.
RecorderCrash ==
    /\ to_store # <<>>
    /\ to_store' = <<>>
    /\ cutShort' = TRUE
    /\ UNCHANGED <<vars, table>>

RecorderNext == GetNewLogs \/ SaveLog \/ RecorderCrash

SystemInit == Init /\ RecorderInit

SystemNext == (Next /\ UNCHANGED recorderVars) \/ RecorderNext

SystemSpec == SystemInit /\ [][SystemNext]_allVars

-----------------------------------------------------------------------------
(* Properties                                                              *)

Recorded == {history[k] : k \in DOMAIN history}

\* No line of the server is inserted a second time: the IntegrityError of the
\* UNIQUE constraint, which _save_logs expects, never comes from it.  The
\* comparison of seconds alone keeps the runs apart, after crashes too.
NeverInsertedTwice ==
    \A k \in DOMAIN to_store :
        /\ to_store[k] \notin table
        /\ \A n \in DOMAIN to_store : n # k => to_store[n] # to_store[k]

\* If no run was cut short, a line of the history that the recorder will
\* never store shares its second with a line that it did store.
OnlySplitSecondsAreLost ==
    ~cutShort /\ to_store = <<>> =>
        \A i \in Recorded \ table :
            \/ Newer(i)
            \/ \E stored \in table : game[stored] = game[i]

(* What the documentation says, and the code does not do.                  *)

\* README.md:718, "log_recorder that saves log lines to the database": no
\* line of the history is passed over, even if all lines of a second arrive
\* together.
SavedDespiteRestarts ==
    to_store = <<>> =>
        \A i \in Recorded \ table :
            \/ Newer(i)
            \/ \E stored \in table : game[stored] = game[i]

\* README.md:718 again, for a recorder that is never restarted.
SavedWithoutRestarts ==
    ~cutShort /\ to_store = <<>> => \A i \in Recorded \ table : Newer(i)
=============================================================================
