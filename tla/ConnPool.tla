------------------------------ MODULE ConnPool ------------------------------
(***************************************************************************)
(* The pool of RCON connections that the threads of one process share:     *)
(* ServerCtl.with_connection and the retry decorator _auto_retry           *)
(* (rcon/commands.py).                                                     *)
(*                                                                         *)
(* A step below is what a thread does between two points where another     *)
(* thread can interfere: taking self.mu, releasing it, waiting, touching   *)
(* self.idles without the lock.  list.append and list.pop are atomic.      *)
(* self.idles is a set here: which idle connection a thread gets makes no  *)
(* difference to anything below.                                           *)
(***************************************************************************)
EXTENDS Naturals, FiniteSets

CONSTANTS
    Threads,    \* the threads of the process
    Conns,      \* names for HLLConnection objects, reused once discarded
    NoConn,     \* "holds no connection"
    Free,       \* self.mu is not held
    Leaked,     \* self.mu was left locked by a thread that has moved on
    MaxOpen,    \* self.maxOpen
    MaxIdle,    \* self.maxIdle
    MaxPolls    \* the 30 one-second rounds a thread waits for a connection

ASSUME ThreadsAssumption == IsFiniteSet(Threads) /\ IsFiniteSet(Conns)
ASSUME LimitsAssumption ==
    /\ MaxOpen \in Nat \ {0}
    /\ MaxIdle \in Nat \ {0}
    /\ MaxPolls \in Nat \ {0}
ASSUME NamesAssumption ==
    /\ NoConn \notin Conns
    /\ Free \notin Threads
    /\ Leaked \notin Threads
    /\ Free # Leaked

VARIABLES
    mu,         \* who holds self.mu: a thread, Free or Leaked
    idles,      \* self.idles
    numOpen,    \* self.numOpen
    pc,         \* where each thread is
    conn,       \* the connection each thread has, or NoConn
    polls,      \* c: the rounds a thread has waited
    retries,    \* is the call made through _auto_retry's retrying path
    handling,   \* the exception of the first attempt during the second
    exn         \* how the body of the with statement ended

shared == <<mu, idles, numOpen>>
call == <<retries, handling, exn>>
vars == <<mu, idles, numOpen, pc, conn, polls, retries, handling, exn>>

Places == {"out", "acquire", "full", "connect", "poll", "take",
           "use", "discard", "append"}

\* A thread that has a connection the pool counts.
Holding == {"use", "discard", "append"}

\* A thread that holds self.mu.
Locking == {"full", "connect"}

\* How a command sent over a connection ends:
\*   failed     CommandFailedError, the game server answered FAIL
\*   garbled    HLLServerError or UnicodeDecodeError over a working socket
\*   broken     HLLServerError raised from a RuntimeError of the connection
\*   os         an OSError: a reset or a timeout of the socket
\*   malformed  BrokenHllConnection, raised by get_vip_ids itself
Ends == {"ok", "failed", "garbled", "broken", "os", "malformed"}

\* What _auto_retry catches.
Retried == {"garbled", "broken", "os"}

TypeOK ==
    /\ mu \in Threads \cup {Free, Leaked}
    /\ idles \subseteq Conns
    /\ numOpen \in Nat
    /\ pc \in [Threads -> Places]
    /\ conn \in [Threads -> Conns \cup {NoConn}]
    /\ polls \in [Threads -> 0 .. MaxPolls]
    /\ retries \in [Threads -> BOOLEAN]
    /\ handling \in [Threads -> {"none"} \cup Retried]
    /\ exn \in [Threads -> Ends]

Holders == {t \in Threads : pc[t] \in Holding}

\* Every connection the pool is answerable for.
Pool == idles \cup {conn[t] : t \in Holders}

Init ==
    /\ mu = Free
    /\ idles = {}
    /\ numOpen = 0
    /\ pc = [t \in Threads |-> "out"]
    /\ conn = [t \in Threads |-> NoConn]
    /\ polls = [t \in Threads |-> 0]
    /\ retries = [t \in Threads |-> FALSE]
    /\ handling = [t \in Threads |-> "none"]
    /\ exn = [t \in Threads |-> "ok"]

-----------------------------------------------------------------------------
(* _auto_retry: what happens once an attempt is over.                      *)

Goto(t, place) == pc' = [pc EXCEPT ![t] = place]

\* The attempt ended with e.  The first one is repeated when e is caught;
\* a call that brought its own connection, and the second attempt, end.
\* The call's own variables go back to their first values with it.
Leave(t, e) ==
    /\ exn' = [exn EXCEPT ![t] = "ok"]
    /\ polls' = [polls EXCEPT ![t] = 0]
    /\ IF e \in Retried /\ retries[t] /\ handling[t] = "none"
       THEN /\ handling' = [handling EXCEPT ![t] = e]
            /\ Goto(t, "acquire")
            /\ UNCHANGED retries
       ELSE /\ handling' = [handling EXCEPT ![t] = "none"]
            /\ retries' = [retries EXCEPT ![t] = FALSE]
            /\ Goto(t, "out")

\* A command is sent: through the decorator, or by get_vip_ids, which takes
\* the connection itself and passes it down, so that nothing is retried.
Call(t) ==
    /\ pc[t] = "out"
    /\ \E r \in BOOLEAN : retries' = [retries EXCEPT ![t] = r]
    /\ Goto(t, "acquire")
    /\ UNCHANGED <<shared, conn, polls, handling, exn>>

-----------------------------------------------------------------------------
(* with_connection: getting a connection.                                  *)

\* A variant in which only the first acquire() of a call has a timeout.
LockTimeoutOnEntry(t) ==
    /\ pc[t] = "acquire" /\ mu # Free
    /\ Leave(t, "os")
    /\ UNCHANGED <<shared, conn>>

\* self.mu.acquire(timeout=30) gives up: TimeoutError is an OSError.
LockTimeout(t) ==
    /\ pc[t] \in {"acquire", "poll", "take"}
    /\ pc[t] = "poll" => polls[t] < MaxPolls
    /\ mu # Free
    /\ Leave(t, "os")
    /\ UNCHANGED <<shared, conn>>

\* A variant that pops without taking the lock.
PopIdleUnlocked(t) ==
    /\ pc[t] = "acquire"
    /\ \E c \in idles :
          /\ idles' = idles \ {c}
          /\ conn' = [conn EXCEPT ![t] = c]
    /\ Goto(t, "use")
    /\ UNCHANGED <<mu, numOpen, polls, call>>

\* An idle connection is there: pop it.
PopIdle(t) ==
    /\ pc[t] = "acquire" /\ mu = Free
    /\ \E c \in idles :
          /\ idles' = idles \ {c}
          /\ conn' = [conn EXCEPT ![t] = c]
    /\ Goto(t, "use")
    /\ UNCHANGED <<mu, numOpen, polls, call>>

\* None is, and none may be opened.
FindFull(t) ==
    /\ pc[t] = "acquire" /\ mu = Free
    /\ idles = {} /\ numOpen >= MaxOpen
    /\ mu' = t
    /\ Goto(t, "full")
    /\ UNCHANGED <<idles, numOpen, conn, polls, call>>

\* idle_len is read before the lock is released.
StartPolling(t) ==
    /\ pc[t] = "full"
    /\ mu' = Free
    /\ polls' = [polls EXCEPT ![t] = 0]
    /\ Goto(t, IF idles = {} THEN "poll" ELSE "take")
    /\ UNCHANGED <<idles, numOpen, conn, call>>

\* One round of the wait: only self.idles is looked at.
Poll(t) ==
    /\ pc[t] = "poll" /\ polls[t] < MaxPolls
    /\ mu = Free
    /\ polls' = [polls EXCEPT ![t] = IF idles = {} THEN @ + 1 ELSE 0]
    /\ Goto(t, IF idles = {} THEN "poll" ELSE "take")
    /\ UNCHANGED <<shared, conn, call>>

PollTimeout(t) ==
    /\ pc[t] = "poll" /\ polls[t] = MaxPolls
    /\ Leave(t, "os")
    /\ UNCHANGED <<shared, conn>>

\* The wait is over and the lock is taken again.  The connection seen by
\* the last round may be gone: pop() then raises IndexError past the release.
Take(t) ==
    /\ pc[t] = "take" /\ mu = Free
    /\ IF idles = {}
       THEN /\ mu' = Leaked
            /\ Leave(t, "failed")
            /\ UNCHANGED <<idles, conn>>
       ELSE /\ \E c \in idles :
                  /\ idles' = idles \ {c}
                  /\ conn' = [conn EXCEPT ![t] = c]
            /\ Goto(t, "use")
            /\ UNCHANGED <<mu, polls, call>>
    /\ UNCHANGED numOpen

\* A variant that lets go of the lock while it connects.
StartConnectUnlocked(t) ==
    /\ pc[t] = "acquire" /\ mu = Free
    /\ idles = {} /\ numOpen < MaxOpen
    /\ Goto(t, "connect")
    /\ UNCHANGED <<shared, conn, polls, call>>

\* There is room: the lock is held while the connection is made.
StartConnect(t) ==
    /\ pc[t] = "acquire" /\ mu = Free
    /\ idles = {} /\ numOpen < MaxOpen
    /\ mu' = t
    /\ Goto(t, "connect")
    /\ UNCHANGED <<idles, numOpen, conn, polls, call>>

\* Which name a new connection gets does not matter.
NewConn == CHOOSE c \in Conns \ Pool : TRUE

Connected(t) ==
    /\ pc[t] = "connect"
    /\ Conns \ Pool # {}
    /\ conn' = [conn EXCEPT ![t] = NewConn]
    /\ numOpen' = numOpen + 1
    /\ mu' = Free
    /\ Goto(t, "use")
    /\ UNCHANGED <<idles, polls, call>>

\* The socket fails (an OSError, which is retried), or the game server sends
\* no key or refuses the password (neither is).
ConnectFails(t) ==
    /\ pc[t] = "connect"
    /\ mu' = Free
    /\ \E e \in {"os", "failed"} : Leave(t, e)
    /\ UNCHANGED <<idles, numOpen, conn>>

-----------------------------------------------------------------------------
(* with_connection: after the body.                                        *)

\* Does the pool throw the connection away?  In the second attempt every
\* caught exception comes wrapped in BrokenHllConnection, and what is raised
\* while an OSError is being handled has that OSError in its chain.
Discards(t, e) ==
    \/ e \in {"broken", "os", "malformed"}
    \/ handling[t] # "none" /\ e \in Retried
    \/ handling[t] = "os" /\ e # "ok"

\* The body of the with statement ends, and the thread chooses what to do
\* with its connection: len(self.idles) is compared without the lock.
EndUse(t) ==
    /\ pc[t] = "use"
    /\ \E e \in Ends :
          /\ e = "malformed" => ~retries[t]
          /\ exn' = [exn EXCEPT ![t] = e]
          /\ Goto(t, IF Discards(t, e) \/ Cardinality(idles) >= MaxIdle
                     THEN "discard" ELSE "append")
    /\ UNCHANGED <<shared, conn, polls, retries, handling>>

\* A variant that closes the connection and forgets to count it off.
DiscardUncounted(t) ==
    /\ pc[t] = "discard" /\ mu = Free
    /\ conn' = [conn EXCEPT ![t] = NoConn]
    /\ Leave(t, exn[t])
    /\ UNCHANGED shared

\* "with self.mu: self.numOpen -= 1", and the connection is closed.  This
\* wait for the lock has no timeout.
Discard(t) ==
    /\ pc[t] = "discard" /\ mu = Free
    /\ numOpen' = numOpen - 1
    /\ conn' = [conn EXCEPT ![t] = NoConn]
    /\ Leave(t, exn[t])
    /\ UNCHANGED <<mu, idles>>

\* self.idles.append(conn), without the lock.
AppendIdle(t) ==
    /\ pc[t] = "append"
    /\ idles' = idles \cup {conn[t]}
    /\ conn' = [conn EXCEPT ![t] = NoConn]
    /\ Leave(t, exn[t])
    /\ UNCHANGED <<mu, numOpen>>

-----------------------------------------------------------------------------
Acquisition(t) ==
    \/ LockTimeout(t) \/ PopIdle(t) \/ FindFull(t) \/ StartPolling(t)
    \/ Poll(t) \/ PollTimeout(t) \/ Take(t)
    \/ StartConnect(t) \/ Connected(t) \/ ConnectFails(t)

Step(t) == Acquisition(t) \/ EndUse(t) \/ Discard(t) \/ AppendIdle(t)

Next == \E t \in Threads : Call(t) \/ Step(t)

Spec == Init /\ [][Next]_vars

\* The operating system runs every thread, every wait for the game server
\* ends with the 20 seconds timeout of the socket.  Nothing makes a thread
\* send another command, and a lock is not handed to the longest waiter.
FairSpec == Spec /\ \A t \in Threads : WF_vars(Step(t))

-----------------------------------------------------------------------------
(* Properties                                                              *)

\* A connection is used by one thread at a time, and never while it is idle:
\* two threads on one socket would read each other's answers.  This rests on
\* every pop() of with_connection being under self.mu while append() is not.
Exclusive ==
    /\ \A t \in Holders : conn[t] \in Conns \ idles
    /\ \A t, u \in Holders : conn[t] = conn[u] => t = u

\* numOpen counts exactly the connections that are idle or in a thread's
\* hands, whatever exception ended a command: a leak in the count would
\* close the pool for good, a double decrement would lift the limit.
CountIsExact == numOpen = Cardinality(Pool)

\* "max_open: The maximum number of active connections": the check of
\* numOpen and its increment are separated by a whole connect.
WithinMaxOpen == Cardinality(Pool) <= MaxOpen

\* self.mu is held by the one thread that is inside a critical section, by
\* nobody, or lost: a thread outside holds nothing and two are never inside.
LockMatchesHolder ==
    \A t \in Threads : (pc[t] \in Locking) <=> (mu = t)

\* The idle list stays within max_idle although its length is tested without
\* the lock, as long as max_idle is at least max_open (the defaults are equal).
WithinMaxIdle == MaxIdle >= MaxOpen => Cardinality(idles) <= MaxIdle

\* Once a thread has left self.mu locked behind it, no thread of the process
\* gets a connection again: with_connection has no way to recover.
NoConnectionAfterLeak ==
    [][mu = Leaked => \A t \in Threads : pc'[t] = "use" => pc[t] = "use"]_vars

\* A thread that asks for a connection gets one or an exception, even when
\* the lock has been lost: each wait on the way has its own limit.
AcquisitionEnds ==
    \A t \in Threads :
        pc[t] \in {"acquire", "full", "connect", "poll", "take"}
            ~> pc[t] \in {"use", "out"}

(* What the documentation and the comments say, and the code does not do.  *)

\* miscellaneous.js: max_idle is the number of idle connections that are kept
\* "before starting to close them".
IdleLimitKept == Cardinality(idles) <= MaxIdle

\* commands.py:150, "connection appeared in pool": the loop before pop() ends
\* when a connection has appeared, so that there is one to pop.
LockNeverLeaked == mu # Leaked

\* commands.py:168, "The pool will establish a new connection when needed": a
\* thread waits for somebody else's connection only while the pool is full.
WaitsOnlyWhenFull ==
    [][\A t \in Threads : polls'[t] > polls[t] => numOpen >= MaxOpen]_vars

-----------------------------------------------------------------------------
(* The pool implements its promise.                                        *)

Lease == INSTANCE ConnLease WITH
            free <- idles,
            lent <- [t \in Threads |-> IF t \in Holders THEN conn[t] ELSE NoConn]

\* Every step of the pool is one of ConnLease or invisible there.
LeaseSpec == Lease!Spec
=============================================================================
