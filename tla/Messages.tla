------------------------------ MODULE Messages ------------------------------
(***************************************************************************)
(* A message on the game server, the broadcast or the welcome message: its *)
(* text there, the last text that was set to stay, in Redis                *)
(* (Rcon.set_broadcast, Rcon.set_welcome_message), and the temporary texts *)
(* of rcon/workers.py, each with a job that puts back what it replaced.    *)
(* Requests, the hook on cameras, the automatic broadcasts and settings,   *)
(* and the worker set messages at once, without a lock: what one step has  *)
(* read is old when the next one uses it.                                  *)
(***************************************************************************)
EXTENDS Naturals, Bags

CONSTANTS
    Setters,     \* the threads that set messages, but for the worker
    Lasting,     \* texts that are set to stay
    Temporary,   \* texts that are set for a while
    Blank,       \* the empty text, and a message that was never set
    Worker,      \* the process that runs the jobs
    MaxJobs      \* bound: temporary texts waiting for their end

ASSUME MessagesAssumption ==
    /\ Lasting \cap Temporary = {} /\ Blank \notin Lasting \cup Temporary
    /\ Worker \notin Setters
    /\ MaxJobs \in Nat \ {0}

VARIABLES
    shown,      \* the text on the game server
    saved,      \* the text in Redis, Blank when the key has expired
    jobs,       \* the texts that jobs will put back
    call,       \* [threads -> the call it is in]
    broken,     \* history: a step failed
    lapsed,     \* history: the key in Redis has expired
    raced       \* history: a text was saved while another was on its way

messageVars == <<shown, saved, jobs, call, broken, lapsed, raced>>
threads == Setters \cup {Worker}
Texts == Lasting \cup Temporary \cup {Blank}

\* A call of set_broadcast: where it is, its msg, its prev and its save.
Frame(at, msg, prev, save) == [at |-> at, msg |-> msg, prev |-> prev, save |-> save]
NoCall == Frame("none", Blank, Blank, TRUE)

MessageTypeOK ==
    /\ shown \in Texts /\ saved \in Texts
    /\ IsABag(jobs) /\ DOMAIN jobs \subseteq Texts
    /\ call \in [threads -> [at : {"none", "send", "enqueue"}, msg : Texts,
                              prev : Texts, save : BOOLEAN]]
    /\ broken \in BOOLEAN /\ lapsed \in BOOLEAN /\ raced \in BOOLEAN

MessageInit ==
    /\ shown \in Lasting \cup {Blank} /\ saved = shown
    /\ jobs = EmptyBag
    /\ call = [t \in threads |-> NoCall]
    /\ broken = FALSE /\ lapsed = FALSE /\ raced = FALSE

-----------------------------------------------------------------------------
(* set_broadcast and set_welcome_message, what they do in Redis: SET with  *)
(* GET or, without save, GET.  An error there is swallowed; then prev is   *)
(* None, and whether SET was carried out is not known.                     *)

\* A variant that saves every text.
SavesAll(save, m) == {m}

\* A variant with the condition the wrong way round.
SavesTheOthers(save, m) == IF save THEN {saved} ELSE {m}

Saves(save, m) == IF save THEN {m} ELSE {saved}

Swap(t, m, save) ==
    /\ \/ saved' \in Saves(save, m)
          /\ call' = [call EXCEPT ![t] = Frame("send", m, saved, save)]
          /\ UNCHANGED broken
       \/ saved' \in {saved} \cup Saves(save, m)
          /\ call' = [call EXCEPT ![t] = Frame("send", m, Blank, save)]
          /\ broken' = TRUE
    /\ raced' = (raced \/ (save /\ \E u \in threads : call[u].at = "send" /\ call[u].save))

\* A request, the automatic broadcasts or the automatic settings set a text.
Set(t, m) ==
    /\ call[t] = NoCall
    /\ Swap(t, m, TRUE)
    /\ UNCHANGED <<shown, jobs, lapsed>>

\* temporary_broadcast and temporary_welcome, called by requests and by
\* notify_camera.
SetTemporary(t, m) ==
    /\ call[t] = NoCall
    /\ Swap(t, m, FALSE)
    /\ UNCHANGED <<shown, jobs, lapsed>>

Returns(t) == call' = [call EXCEPT ![t] = NoCall]

\* The command of the game server.
Send(t) ==
    /\ call[t].at = "send"
    /\ shown' = call[t].msg
    /\ IF call[t].save THEN Returns(t) ELSE call' = [call EXCEPT ![t].at = "enqueue"]
    /\ UNCHANGED <<saved, jobs, broken, lapsed, raced>>

\* It raises, whether or not the command was carried out.
SendFails(t) ==
    /\ call[t].at = "send"
    /\ shown' \in {shown, call[t].msg}
    /\ Returns(t)
    /\ broken' = TRUE
    /\ UNCHANGED <<saved, jobs, lapsed, raced>>

\* enqueue_in
Enqueue(t) ==
    /\ call[t].at = "enqueue"
    /\ BagCardinality(jobs) < MaxJobs
    /\ jobs' = jobs (+) SetToBag({call[t].prev})
    /\ Returns(t)
    /\ UNCHANGED <<shown, saved, broken, lapsed, raced>>

\* Redis does not take the job, or the thread is killed before it makes one.
EnqueueFails(t) ==
    /\ call[t].at = "enqueue"
    /\ Returns(t)
    /\ broken' = TRUE
    /\ UNCHANGED <<shown, saved, jobs, lapsed, raced>>

\* A job is due: broadcast or welcome, with the text that was replaced.  Jobs
\* are due in any order, for the texts last differently long.
RunJob(m) ==
    /\ call[Worker] = NoCall /\ BagIn(m, jobs)
    /\ jobs' = jobs (-) SetToBag({m})
    /\ Swap(Worker, m, TRUE)
    /\ UNCHANGED <<shown, lapsed>>

\* The key is kept for 30 minutes or, for the welcome message, a week.
Expire ==
    /\ saved # Blank
    /\ saved' = Blank /\ lapsed' = TRUE
    /\ UNCHANGED <<shown, jobs, call, broken, raced>>

MessageNext ==
    \/ \E t \in Setters :
          \/ \E m \in Lasting : Set(t, m)
          \/ \E m \in Temporary : SetTemporary(t, m)
          \/ Enqueue(t) \/ EnqueueFails(t)
    \/ \E t \in threads : Send(t) \/ SendFails(t)
    \/ \E m \in Texts : RunJob(m)
    \/ Expire

MessageSpec == MessageInit /\ [][MessageNext]_messageVars

-----------------------------------------------------------------------------
(* Properties                                                              *)

Quiet == jobs = EmptyBag /\ \A t \in threads : call[t] = NoCall

\* Temporary texts end, however many of them overlap and whichever ends first:
\* when no job is left and nobody is at work, none of them is on the game
\* server, unless a command or Redis failed (workers.py:34-48).
TemporaryEnds == Quiet /\ ~broken => shown \notin Temporary

\* Then the game server has the text that Redis has, which is what the web
\* interface shows and what the next temporary text will put back, unless two
\* texts that stay were set at once, a command or Redis failed, or what Redis had
\* came to the end of its time to live: then the game server goes on showing a
\* text that nothing remembers.
ShownIsSaved == Quiet /\ ~broken /\ ~lapsed /\ ~raced => shown = saved

(* What is hoped, and the code does not do.                                *)

\* A text set to stay, while a temporary one is shown, is not undone when that
\* one ends.
JobsUndoNoText ==
    [][\A m \in Texts : RunJob(m) => saved \in {m, Blank}]_messageVars
=============================================================================
