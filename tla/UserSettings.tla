----------------------------- MODULE UserSettings -----------------------------
(***************************************************************************)
(* Requests of administrators to the endpoints of one configuration        *)
(* (rconweb/api/user_settings.py), its seeding when the backend starts,    *)
(* and what they tell of a change: the message to send_to_discord_audit,   *)
(* with the differences, and the row of audit_log that record_audit adds   *)
(* around the endpoints it wraps.  send_to_discord_audit always writes the *)
(* message to the log; it goes on to Discord only if webhooks are set, and *)
(* errors of that are swallowed (rcon/discord.py:97-118).                  *)
(*                                                                         *)
(* A set loads the configuration, saves, loads it again and tells the      *)
(* differences of what it loaded; other requests, the seeding and an       *)
(* outage of the database come between any two of these.  A transaction    *)
(* that fails may raise, or enter_session swallows its error, or it was    *)
(* carried out and only its reply is lost.  Which endpoints the requests   *)
(* call is chosen in the initial state, so that one run goes through all   *)
(* of them.                                                                *)
(***************************************************************************)
EXTENDS UserConfig, TLC

CONSTANT HttpRequests     \* each is one HTTP request

VARIABLES
    endpoints,        \* the endpoints called: one of AllEndpoints
    row,              \* the configuration's row of user_config
    pc,               \* [HttpRequests -> where its handler is]
    op,               \* [HttpRequests -> the endpoint of the four]
    payload,          \* [HttpRequests -> its body]
    old,              \* [HttpRequests -> old_model]
    answer,           \* [HttpRequests -> "none", "ok", "failed" (with the error), "raised" (500)]
    message,          \* [HttpRequests -> the differences it has told, or {"none"}]
    recorded,         \* the requests with a row in audit_log
    rowLost,          \* the requests whose row of audit_log was not added
    due,              \* history: [HttpRequests -> what its own change is to be told as]
    disturbed         \* history: the requests one of whose loads failed, or between
                      \* whose loads another one changed the configuration

vars == <<endpoints, row, pc, op, payload, old, answer, message, recorded,
          rowLost, due, disturbed>>

class == endpoints.class

NoMessage == {"none"}

TypeOK ==
    /\ endpoints \in AllEndpoints
    /\ row \in ValuesOf(class) \cup {Absent}
    /\ pc \in [HttpRequests -> {"idle", "load", "save", "diff", "record", "done", "killed"}]
    /\ op \in [HttpRequests -> {"get", "validate", "set"}]
    /\ payload \in [HttpRequests -> Payloads(class)]
    /\ old \in [HttpRequests -> ValuesOf(class)]
    /\ answer \in [HttpRequests -> {"none", "ok", "failed", "raised"}]
    /\ message \in [HttpRequests -> {NoMessage, {}, {"content"}}]
    /\ due \in [HttpRequests -> {NoMessage, {}, {"content"}}]
    /\ recorded \subseteq HttpRequests
    /\ rowLost \subseteq HttpRequests
    /\ disturbed \subseteq HttpRequests

\* The row is absent before the first start of the backend.
Init ==
    /\ endpoints \in AllEndpoints
    /\ row \in ValuesOf(class) \cup {Absent}
    /\ pc = [r \in HttpRequests |-> "idle"]
    /\ op = [r \in HttpRequests |-> "get"]
    /\ payload = [r \in HttpRequests |-> [value |-> Default, kind |-> "good", reset |-> FALSE]]
    /\ old = [r \in HttpRequests |-> Default]
    /\ answer = [r \in HttpRequests |-> "none"]
    /\ message = [r \in HttpRequests |-> NoMessage]
    /\ due = [r \in HttpRequests |-> {}]
    /\ recorded = {} /\ rowLost = {} /\ disturbed = {}

-------------------------------------------------------------------------------
Goto(r, where) == pc' = [pc EXCEPT ![r] = where]

AnswerWith(r, what) == answer' = [answer EXCEPT ![r] = what]

traces == <<message, recorded, rowLost>>
history == <<due, disturbed>>

\* What a load sees when the database answers.
Loaded == load_from_db(row, FALSE)

\* What is told of two loads: nothing where the lookup of a key fails.
Told(from, to) == IF LookupFails(from, to) THEN NoMessage ELSE dict_differences(from, to)

AfterSet == IF endpoints.setRecorded THEN "record" ELSE "done"

\* get_*_config: what a failing query leaves is the default instance; an error
\* that is raised is caught and answered.
GetConfig(r) ==
    /\ pc[r] = "idle"
    /\ Goto(r, "done")
    /\ \E what \in {"ok", "failed"} : AnswerWith(r, what)
    /\ UNCHANGED <<endpoints, row, op, payload, old, traces, history>>

Validate(r) ==
    /\ pc[r] = "idle"
    /\ Goto(r, "save")
    /\ op' = [op EXCEPT ![r] = "validate"]
    /\ \E p \in Payloads(class) : payload' = [payload EXCEPT ![r] = p]
    /\ UNCHANGED <<endpoints, row, old, answer, traces, history>>

SetConfig(r) ==
    /\ pc[r] = "idle"
    /\ Goto(r, "load")
    /\ op' = [op EXCEPT ![r] = "set"]
    /\ \E p \in Payloads(class) : payload' = [payload EXCEPT ![r] = p]
    /\ UNCHANGED <<endpoints, row, old, answer, traces, history>>

\* _audit_user_config_differences, before: old_model.
LoadOld(r) ==
    /\ pc[r] = "load"
    /\ \E blind \in BOOLEAN :
          /\ old' = [old EXCEPT ![r] = load_from_db(row, blind)]
          /\ disturbed' = IF load_from_db(row, blind) = Loaded THEN disturbed
                          ELSE disturbed \cup {r}
    /\ Goto(r, "save")
    /\ UNCHANGED <<endpoints, row, op, payload, answer, traces, due>>

\* It raises, and so does the handler, with nothing stored.
LoadRaises(r) ==
    /\ pc[r] = "load"
    /\ Goto(r, AfterSet) /\ AnswerWith(r, "raised")
    /\ disturbed' = disturbed \cup {r}
    /\ UNCHANGED <<endpoints, row, op, payload, old, traces, due>>

\* The value _validate_user_config hands to set_user_config.  A reset is
\* stored whatever the endpoint; a payload only by set, dry_run being false.
Stores(r) ==
    IF payload[r].reset THEN {Default}
    ELSE IF op[r] = "set" /\ Accepts(class, payload[r]) THEN {payload[r].value}
    ELSE {}

AfterSave(r) ==
    CASE op[r] = "set" -> "diff"
      [] op[r] = "validate" /\ endpoints.validateRecorded -> "record"
      [] OTHER -> "done"

\* _validate_user_config, where nothing is stored.
Refuse(r) ==
    /\ pc[r] = "save" /\ Stores(r) = {}
    /\ AnswerWith(r, IF Accepts(class, payload[r]) THEN "ok" ELSE "failed")
    /\ Goto(r, AfterSave(r))
    /\ UNCHANGED <<endpoints, row, op, payload, old, traces, history>>

\* The requests that have loaded and are to load again.
Between(r) == {s \in HttpRequests \ {r} : op[s] = "set" /\ pc[s] \in {"save", "diff"}}

\* _validate_user_config, where something is stored.  The error of a commit is
\* answered, or swallowed; and it may have been carried out, its reply lost.
SaveConfig(r) ==
    /\ pc[r] = "save"
    /\ \E value \in Stores(r), blind \in BOOLEAN :
          /\ row' \in {row, set_user_config(row, value, blind)}
          /\ \/ AnswerWith(r, "failed")
             \/ AnswerWith(r, "ok") /\ ~CommitFails(row, blind)
    /\ due' = [due EXCEPT ![r] = Told(Loaded, Loaded')]
    /\ disturbed' = IF Loaded' = Loaded THEN disturbed ELSE disturbed \cup Between(r)
    /\ Goto(r, AfterSave(r))
    /\ UNCHANGED <<endpoints, op, payload, old, traces>>

\* A variant that takes the answer's word instead of loading again.
TellAnswered(r) ==
    /\ pc[r] = "diff"
    /\ LET new == IF answer[r] = "failed" THEN old[r]
                  ELSE IF payload[r].reset THEN Default ELSE payload[r].value
       IN  /\ message' = [message EXCEPT ![r] = Told(old[r], new)]
           /\ IF LookupFails(old[r], new) THEN AnswerWith(r, "raised") ELSE UNCHANGED answer
    /\ Goto(r, AfterSet)
    /\ UNCHANGED <<endpoints, row, op, payload, old, recorded, rowLost, history>>

\* _audit_user_config_differences, after: new_model, the differences, the
\* message.  A key that is gone raises KeyError, and no message is sent.
TellDifferences(r) ==
    /\ pc[r] = "diff"
    /\ \E blind \in BOOLEAN :
          LET new == load_from_db(row, blind) IN
          /\ message' = [message EXCEPT ![r] = Told(old[r], new)]
          /\ IF LookupFails(old[r], new) THEN AnswerWith(r, "raised") ELSE UNCHANGED answer
          /\ disturbed' = IF new = Loaded THEN disturbed ELSE disturbed \cup {r}
    /\ Goto(r, AfterSet)
    /\ UNCHANGED <<endpoints, row, op, payload, old, recorded, rowLost, due>>

\* One of its loads raises: of this configuration, or of the two that
\* send_to_discord_audit needs.
TellRaises(r) ==
    /\ pc[r] = "diff"
    /\ Goto(r, AfterSet) /\ AnswerWith(r, "raised")
    /\ disturbed' = disturbed \cup {r}
    /\ UNCHANGED <<endpoints, row, op, payload, old, traces, due>>

\* record_audit's finally, whether or not the endpoint raised.
RecordAudit(r) ==
    /\ pc[r] = "record"
    /\ \/ recorded' = recorded \cup {r} /\ UNCHANGED rowLost
       \/ rowLost' = rowLost \cup {r} /\ UNCHANGED recorded
    /\ AnswerWith(r, "raised") \/ UNCHANGED answer
    /\ Goto(r, "done")
    /\ UNCHANGED <<endpoints, row, op, payload, old, message, history>>

\* The web server is restarted (restart_gunicorn, a new container).
Killed(r) ==
    /\ pc[r] \in {"load", "save", "diff", "record"}
    /\ Goto(r, "killed")
    /\ UNCHANGED <<endpoints, row, op, payload, old, answer, traces, history>>

\* seed_default_config, when the backend starts; its commit may fail.
SeedDb ==
    /\ \E blind \in BOOLEAN : row' \in {row, SetDefault(row, blind)}
    /\ UNCHANGED <<endpoints, pc, op, payload, old, answer, traces, history>>

Next ==
    \/ SeedDb
    \/ \E r \in HttpRequests :
          \/ GetConfig(r) \/ Validate(r) \/ SetConfig(r) \/ LoadOld(r) \/ LoadRaises(r)
          \/ Refuse(r) \/ SaveConfig(r) \/ TellDifferences(r) \/ TellRaises(r)
          \/ RecordAudit(r) \/ Killed(r)

Spec == Init /\ [][Next]_vars

Symmetry == Permutations(HttpRequests)

-------------------------------------------------------------------------------
(***************************************************************************)
(* Properties.                                                             *)
(***************************************************************************)

\* A set whose handler came to its end has told exactly the change that its own
\* transaction made, whatever it answered: where a commit failed, or was lost
\* without a word, no change is told, and one that was stored though its reply
\* was lost is told (user_settings.py:172-178).  Where a key of the
\* administrator's is gone nothing can be told, and record_audit has come to
\* write a row of audit_log, which it may have failed to add.  This presumes
\* that both its loads saw the row, and that no other request changed the
\* configuration between them: the message is not to be relied on otherwise.
ChangeIsTold ==
    \A r \in HttpRequests :
        op[r] = "set" /\ pc[r] = "done" /\ r \notin disturbed =>
            /\ message[r] = due[r]
            /\ message[r] = NoMessage => r \in recorded \cup rowLost

\* An outage never replaces a stored configuration by defaults: a row that is
\* there changes only to what a request asked to be stored, although seeding
\* and loading fall back to a default instance (rcon/user_config/utils.py:95).
OutageNeverResets ==
    [][row' # row /\ row # Absent =>
          \E r \in HttpRequests : pc[r] = "save" /\ pc'[r] # "save" /\ row' \in Stores(r)]_vars

===============================================================================
