----------------------------- MODULE RconProofs -----------------------------
(***************************************************************************)
(* Proofs about Rcon, for every number of threads and processes: of the    *)
(* connections that its commands go through (ConnPool), and of the         *)
(* operations on the map rotation that its commands make up (MapRotation). *)
(* The two share no variable.                                              *)
(***************************************************************************)
EXTENDS ConnPool, MapRotation, FiniteSetTheorems, NaturalsInduction,
        WellFoundedInduction, TLAPS

-----------------------------------------------------------------------------
(* The connections.                                                        *)
(*                                                                         *)
(* The accounting of the pool is inductive only together with what the     *)
(* lock protects: numOpen < MaxOpen, tested under self.mu, must still be   *)
(* true when the connection is made, which holds because the connecting    *)
(* thread is the one that has the lock.  Every step moves the pool in one  *)
(* of five ways, one lemma each: it leaves it alone, lends an idle         *)
(* connection, adds a new one, takes one back, throws one away.            *)

\* A thread in _connect found room, and nobody can take it meanwhile.
RoomToConnect == \A t \in Threads : pc[t] = "connect" => numOpen < MaxOpen

IInv ==
    /\ TypeOK
    /\ Exclusive
    /\ CountIsExact
    /\ LockMatchesHolder
    /\ RoomToConnect
    /\ numOpen <= MaxOpen

-----------------------------------------------------------------------------
(* The five ways a step moves the pool.                                    *)

LEMMA PoolFinite ==
    ASSUME TypeOK, Exclusive
    PROVE  Pool \subseteq Conns /\ IsFiniteSet(Pool) /\ Cardinality(Pool) \in Nat
<1>1. Pool \subseteq Conns
    BY DEF TypeOK, Exclusive, Pool, Holders
<1>2. IsFiniteSet(Pool)
    BY <1>1, ThreadsAssumption, FS_Subset
<1> QED
    BY <1>1, <1>2, FS_CardinalityType

LEMMA PoolUnmoved ==
    ASSUME TypeOK, Exclusive, CountIsExact,
           UNCHANGED <<idles, numOpen, conn>>, Holders' = Holders
    PROVE  Exclusive' /\ CountIsExact' /\ Pool' = Pool
<1>1. Pool' = Pool
    BY DEF Pool
<1>2. Exclusive'
    BY DEF Exclusive
<1> QED
    BY <1>1, <1>2 DEF CountIsExact

LEMMA PoolLends ==
    ASSUME TypeOK, Exclusive, CountIsExact,
           NEW t \in Threads \ Holders, NEW c \in idles,
           idles' = idles \ {c}, conn' = [conn EXCEPT ![t] = c],
           numOpen' = numOpen, Holders' = Holders \cup {t}
    PROVE  Exclusive' /\ CountIsExact' /\ Pool' = Pool
<1>1. conn'[t] = c /\ \A u \in Holders : u # t /\ conn'[u] = conn[u]
    BY DEF TypeOK, Holders
<1>2. Pool' = Pool
    BY <1>1 DEF Pool
<1>3. Exclusive'
  <2>1. \A u \in Holders' : conn'[u] \in Conns \ idles'
      BY <1>1 DEF TypeOK, Exclusive
  <2>2. \A u, v \in Holders' : conn'[u] = conn'[v] => u = v
      BY <1>1 DEF TypeOK, Exclusive
  <2> QED BY <2>1, <2>2 DEF Exclusive
<1> QED
    BY <1>2, <1>3 DEF CountIsExact

LEMMA PoolGrows ==
    ASSUME TypeOK, Exclusive, CountIsExact,
           NEW t \in Threads \ Holders, NEW c \in Conns \ Pool,
           idles' = idles, conn' = [conn EXCEPT ![t] = c],
           numOpen' = numOpen + 1, Holders' = Holders \cup {t}
    PROVE  Exclusive' /\ CountIsExact' /\ Pool' = Pool \cup {c}
<1>1. conn'[t] = c /\ \A u \in Holders : u # t /\ conn'[u] = conn[u]
    BY DEF TypeOK, Holders
<1>2. Pool' = Pool \cup {c}
    BY <1>1 DEF Pool
<1>3. Exclusive'
    BY <1>1 DEF TypeOK, Exclusive, Pool
<1>4. Cardinality(Pool') = Cardinality(Pool) + 1
    BY <1>2, PoolFinite, FS_AddElement
<1> QED
    BY <1>2, <1>3, <1>4 DEF CountIsExact

LEMMA PoolTakesBack ==
    ASSUME TypeOK, Exclusive, CountIsExact,
           NEW t \in Holders,
           idles' = idles \cup {conn[t]}, conn' = [conn EXCEPT ![t] = NoConn],
           numOpen' = numOpen, Holders' = Holders \ {t}
    PROVE  Exclusive' /\ CountIsExact' /\ Pool' = Pool
<1>1. \A u \in Holders' : u \in Holders /\ u # t /\ conn'[u] = conn[u]
    BY DEF TypeOK, Holders
<1>2. Pool' = Pool
    BY <1>1 DEF Pool
<1>3. Exclusive'
    BY <1>1 DEF TypeOK, Exclusive
<1> QED
    BY <1>2, <1>3 DEF CountIsExact

LEMMA PoolShrinks ==
    ASSUME TypeOK, Exclusive, CountIsExact,
           NEW t \in Holders,
           idles' = idles, conn' = [conn EXCEPT ![t] = NoConn],
           numOpen' = numOpen - 1, Holders' = Holders \ {t}
    PROVE  /\ Exclusive' /\ CountIsExact' /\ Pool' = Pool \ {conn[t]}
           /\ numOpen' \in Nat
<1>1. \A u \in Holders' : u \in Holders /\ u # t /\ conn'[u] = conn[u]
    BY DEF TypeOK, Holders
<1>2. Pool' = Pool \ {conn[t]}
    BY <1>1 DEF Pool, Exclusive
<1>3. Exclusive'
    BY <1>1 DEF TypeOK, Exclusive
<1>4. conn[t] \in Pool
    BY DEF Pool
<1>5. Cardinality(Pool') = Cardinality(Pool) - 1
    BY <1>2, <1>4, PoolFinite, FS_RemoveElement
<1>6. IsFiniteSet(Pool') /\ Cardinality(Pool') \in Nat
  <2>1. IsFiniteSet(Pool')
      BY <1>2, PoolFinite, FS_RemoveElement
  <2> QED BY <2>1, FS_CardinalityType
<1> QED
    BY <1>2, <1>3, <1>5, <1>6 DEF CountIsExact

-----------------------------------------------------------------------------
(* Where a thread can be after an attempt: outside every critical section. *)

LEMMA LeaveEffect ==
    ASSUME TypeOK, NEW t \in Threads, NEW e \in Ends, Leave(t, e)
    PROVE  /\ \E p \in {"acquire", "out"} : pc' = [pc EXCEPT ![t] = p]
           /\ polls' \in [Threads -> 0 .. MaxPolls]
           /\ retries' \in [Threads -> BOOLEAN]
           /\ handling' \in [Threads -> {"none"} \cup Retried]
           /\ exn' \in [Threads -> Ends]
<1>1. polls' \in [Threads -> 0 .. MaxPolls] /\ exn' \in [Threads -> Ends]
    BY LimitsAssumption DEF Leave, TypeOK, Ends
<1>2. CASE e \in Retried /\ retries[t] /\ handling[t] = "none"
    BY <1>1, <1>2 DEF Leave, Goto, TypeOK
<1>3. CASE ~(e \in Retried /\ retries[t] /\ handling[t] = "none")
    BY <1>1, <1>3 DEF Leave, Goto, TypeOK
<1> QED
    BY <1>2, <1>3

\* Moving one thread to a place changes the holders by that thread at most.
LEMMA GotoEffect ==
    ASSUME TypeOK, NEW t \in Threads, NEW p \in Places,
           pc' = [pc EXCEPT ![t] = p]
    PROVE  /\ pc' \in [Threads -> Places]
           /\ pc'[t] = p
           /\ \A u \in Threads \ {t} : pc'[u] = pc[u]
           /\ Holders' = IF p \in Holding THEN Holders \cup {t} ELSE Holders \ {t}
<1>1. pc' \in [Threads -> Places] /\ pc'[t] = p
    BY DEF TypeOK
<1>2. \A u \in Threads \ {t} : pc'[u] = pc[u]
    BY DEF TypeOK
<1> QED
    BY <1>1, <1>2 DEF Holders

-----------------------------------------------------------------------------
(* The invariant is inductive.                                             *)

LEMMA InitEstablishesIInv == Init => IInv
<1> SUFFICES ASSUME Init PROVE IInv
    OBVIOUS
<1>1. TypeOK
    BY LimitsAssumption DEF Init, TypeOK, Places, Ends
<1>2. Holders = {}
    BY DEF Init, Holders, Holding
<1>3. Pool = {}
    BY <1>2 DEF Init, Pool
<1>4. Exclusive /\ CountIsExact
    BY <1>2, <1>3, FS_EmptySet DEF Init, Exclusive, CountIsExact
<1>5. LockMatchesHolder /\ RoomToConnect /\ numOpen <= MaxOpen
    BY NamesAssumption, LimitsAssumption
    DEF Init, LockMatchesHolder, Locking, RoomToConnect
<1> QED
    BY <1>1, <1>4, <1>5 DEF IInv

\* The state a step may leave behind besides the pool's: where thread t goes
\* (p), what becomes of the lock, and the variables of t's call.
StepFrame(t, p) ==
    /\ pc' = [pc EXCEPT ![t] = p]
    /\ mu' \in Threads \cup {Free, Leaked}
    /\ p \in Locking <=> mu' = t
    /\ \A u \in Threads \ {t} : mu' = u <=> mu = u
    /\ polls' \in [Threads -> 0 .. MaxPolls]
    /\ retries' \in [Threads -> BOOLEAN]
    /\ handling' \in [Threads -> {"none"} \cup Retried]
    /\ exn' \in [Threads -> Ends]

LEMMA LockFollows ==
    ASSUME IInv, NEW t \in Threads, NEW p \in Places, StepFrame(t, p)
    PROVE  LockMatchesHolder'
    BY GotoEffect DEF IInv, StepFrame, LockMatchesHolder

\* No step but Connected raises numOpen, so room that was there stays.
LEMMA RoomStays ==
    ASSUME IInv, NEW t \in Threads, NEW p \in Places, StepFrame(t, p),
           numOpen' \in Nat, numOpen' <= numOpen,
           p = "connect" => numOpen < MaxOpen
    PROVE  RoomToConnect' /\ numOpen' <= MaxOpen
<1>1. \A u \in Threads : pc'[u] = "connect" => numOpen < MaxOpen
    BY GotoEffect DEF IInv, StepFrame, RoomToConnect
<1> QED
    BY <1>1, LimitsAssumption DEF IInv, TypeOK, RoomToConnect

\* A step that leaves the pool alone.
LEMMA QuietStep ==
    ASSUME IInv, NEW t \in Threads, NEW p \in Places, StepFrame(t, p),
           UNCHANGED <<idles, numOpen, conn>>,
           p \in Holding <=> pc[t] \in Holding,
           p = "connect" => numOpen < MaxOpen
    PROVE  IInv'
<1>1. pc' \in [Threads -> Places] /\ Holders' = Holders
    BY GotoEffect DEF IInv, StepFrame, Holders
<1>2. Exclusive' /\ CountIsExact'
    BY <1>1, PoolUnmoved DEF IInv
<1>3. TypeOK'
    BY <1>1 DEF IInv, TypeOK, StepFrame
<1>4. RoomToConnect' /\ numOpen' <= MaxOpen
    BY RoomStays DEF IInv, TypeOK
<1> QED
    BY <1>2, <1>3, <1>4, LockFollows DEF IInv

\* A step by which thread t comes to use an idle connection.
LEMMA LendingStep ==
    ASSUME IInv, NEW t \in Threads \ Holders, NEW c \in idles,
           StepFrame(t, "use"),
           idles' = idles \ {c}, conn' = [conn EXCEPT ![t] = c],
           numOpen' = numOpen
    PROVE  IInv'
<1>1. pc' \in [Threads -> Places] /\ Holders' = Holders \cup {t}
    BY GotoEffect DEF IInv, StepFrame, Places, Holding
<1>2. Exclusive' /\ CountIsExact'
    BY <1>1, PoolLends DEF IInv
<1>3. TypeOK'
    BY <1>1 DEF IInv, TypeOK, StepFrame
<1>4. RoomToConnect' /\ numOpen' <= MaxOpen
    BY RoomStays DEF IInv, TypeOK, Places
<1>5. LockMatchesHolder'
    BY LockFollows DEF Places
<1> QED
    BY <1>2, <1>3, <1>4, <1>5 DEF IInv

\* A step by which thread t gives its connection up, one way or the other.
LEMMA ReleasingStep ==
    ASSUME IInv, NEW t \in Holders, NEW p \in Places \ (Holding \cup Locking),
           StepFrame(t, p),
           conn' = [conn EXCEPT ![t] = NoConn],
           \/ idles' = idles \cup {conn[t]} /\ numOpen' = numOpen
           \/ idles' = idles /\ numOpen' = numOpen - 1
    PROVE  IInv'
<1>0. t \in Threads
    BY DEF Holders
<1>1. pc' \in [Threads -> Places] /\ Holders' = Holders \ {t}
    BY <1>0, GotoEffect DEF IInv, StepFrame
<1>2. Exclusive' /\ CountIsExact' /\ numOpen' \in Nat /\ numOpen' <= numOpen
  <2>1. CASE idles' = idles \cup {conn[t]} /\ numOpen' = numOpen
    <3>1. Exclusive' /\ CountIsExact'
        BY <2>1, <1>1, PoolTakesBack DEF IInv
    <3> QED BY <3>1, <2>1 DEF IInv, TypeOK
  <2>2. CASE idles' = idles /\ numOpen' = numOpen - 1
    <3>1. Exclusive' /\ CountIsExact' /\ numOpen' \in Nat
        BY <2>2, <1>1, PoolShrinks DEF IInv
    <3> QED BY <3>1, <2>2 DEF IInv, TypeOK
  <2> QED BY <2>1, <2>2
<1>3. conn[t] \in Conns
    BY DEF IInv, Exclusive
<1>4. TypeOK'
    BY <1>1, <1>2, <1>3 DEF IInv, TypeOK, StepFrame
<1>5. RoomToConnect' /\ numOpen' <= MaxOpen
    BY <1>0, <1>2, RoomStays DEF Locking
<1>6. LockMatchesHolder'
    BY <1>0, LockFollows
<1> QED
    BY <1>2, <1>4, <1>5, <1>6 DEF IInv

\* The lock is untouched and t goes from one place outside every critical
\* section to another: all a call's own steps need to show.
LEMMA LeaveFrame ==
    ASSUME IInv, NEW t \in Threads, NEW e \in Ends, Leave(t, e),
           \/ mu' = mu /\ pc[t] \notin Locking
           \/ mu = t /\ mu' = Free
           \/ mu = Free /\ mu' = Leaked
    PROVE  \E p \in {"acquire", "out"} : StepFrame(t, p)
<1>1. PICK p \in {"acquire", "out"} : pc' = [pc EXCEPT ![t] = p]
    BY LeaveEffect DEF IInv
<1>2. /\ polls' \in [Threads -> 0 .. MaxPolls]
      /\ retries' \in [Threads -> BOOLEAN]
      /\ handling' \in [Threads -> {"none"} \cup Retried]
      /\ exn' \in [Threads -> Ends]
    BY LeaveEffect DEF IInv
<1>3. /\ mu' \in Threads \cup {Free, Leaked}
      /\ p \in Locking <=> mu' = t
      /\ \A u \in Threads \ {t} : mu' = u <=> mu = u
    BY NamesAssumption DEF IInv, TypeOK, LockMatchesHolder, Locking
<1> QED
    BY <1>1, <1>2, <1>3 DEF StepFrame

-----------------------------------------------------------------------------
(* Every action preserves the invariant.                                   *)

\* The steps after which an attempt is over and the pool is untouched.
LEMMA AttemptOver ==
    ASSUME IInv, NEW t \in Threads,
           LockTimeout(t) \/ PollTimeout(t) \/ ConnectFails(t)
    PROVE  IInv'
<1>1. PICK e \in Ends : Leave(t, e)
    BY DEF LockTimeout, PollTimeout, ConnectFails, Ends
<1>2. pc[t] \notin Holding /\ UNCHANGED <<idles, numOpen, conn>>
    BY DEF LockTimeout, PollTimeout, ConnectFails, shared, Holding
<1>3. \/ mu' = mu /\ pc[t] \notin Locking
      \/ mu = t /\ mu' = Free
    BY DEF LockTimeout, PollTimeout, ConnectFails, shared, Locking,
           IInv, LockMatchesHolder
<1>4. PICK p \in {"acquire", "out"} : StepFrame(t, p)
    BY <1>1, <1>3, LeaveFrame
<1>5. p \in Places /\ p \notin Holding /\ p # "connect"
    BY DEF Places, Holding
<1> QED
    BY <1>2, <1>4, <1>5, QuietStep

\* The steps that go from place to place inside one attempt, the pool untouched.
LEMMA AttemptGoesOn ==
    ASSUME IInv, NEW t \in Threads,
           \/ Call(t) \/ FindFull(t) \/ StartPolling(t) \/ Poll(t)
           \/ StartConnect(t) \/ EndUse(t)
    PROVE  IInv'
<1>1. CASE Call(t)
  <2>1. StepFrame(t, "acquire")
      BY <1>1 DEF Call, Goto, shared, StepFrame, IInv, TypeOK,
                  LockMatchesHolder, Locking
  <2> QED BY <1>1, <2>1, QuietStep DEF Call, shared, Places, Holding
<1>2. CASE FindFull(t)
  <2>1. StepFrame(t, "full")
      BY <1>2, NamesAssumption DEF FindFull, Goto, call, StepFrame, IInv, TypeOK,
                  LockMatchesHolder, Locking
  <2> QED BY <1>2, <2>1, QuietStep DEF FindFull, Places, Holding
<1>3. CASE StartPolling(t)
  <2>1. mu = t /\ mu' = Free
      BY <1>3 DEF StartPolling, IInv, LockMatchesHolder, Locking
  <2>2. PICK p \in {"poll", "take"} : pc' = [pc EXCEPT ![t] = p]
      BY <1>3 DEF StartPolling, Goto
  <2>3. polls' \in [Threads -> 0 .. MaxPolls]
      BY <1>3, LimitsAssumption DEF StartPolling, IInv, TypeOK
  <2>4. StepFrame(t, p)
      BY <1>3, <2>1, <2>2, <2>3, NamesAssumption
      DEF StartPolling, call, StepFrame, IInv, TypeOK, Locking
  <2> QED BY <1>3, <2>4, QuietStep DEF StartPolling, Places, Holding
<1>4. CASE Poll(t)
  <2>1. mu' = mu /\ mu = Free
      BY <1>4 DEF Poll, shared
  <2>2. PICK p \in {"poll", "take"} : pc' = [pc EXCEPT ![t] = p]
      BY <1>4 DEF Poll, Goto
  <2>3. polls' \in [Threads -> 0 .. MaxPolls]
      BY <1>4, LimitsAssumption DEF Poll, IInv, TypeOK
  <2>4. StepFrame(t, p)
      BY <1>4, <2>1, <2>2, <2>3, NamesAssumption
      DEF Poll, call, StepFrame, IInv, TypeOK, Locking
  <2> QED BY <1>4, <2>4, QuietStep DEF Poll, shared, Places, Holding
<1>5. CASE StartConnect(t)
  <2>1. StepFrame(t, "connect")
      BY <1>5, NamesAssumption DEF StartConnect, Goto, call, StepFrame, IInv,
                  TypeOK, LockMatchesHolder, Locking
  <2> QED BY <1>5, <2>1, QuietStep DEF StartConnect, Places, Holding
<1>6. CASE EndUse(t)
  <2>1. PICK p \in {"discard", "append"} : pc' = [pc EXCEPT ![t] = p]
      BY <1>6 DEF EndUse, Goto
  <2>2. exn' \in [Threads -> Ends]
      BY <1>6 DEF EndUse, IInv, TypeOK
  <2>3. StepFrame(t, p)
      BY <1>6, <2>1, <2>2 DEF EndUse, shared, StepFrame, IInv, TypeOK,
                  LockMatchesHolder, Locking
  <2> QED BY <1>6, <2>3, QuietStep DEF EndUse, shared, Places, Holding
<1> QED
    BY <1>1, <1>2, <1>3, <1>4, <1>5, <1>6

LEMMA PopIdleStep ==
    ASSUME IInv, NEW t \in Threads, PopIdle(t)
    PROVE  IInv'
<1>1. PICK c \in idles : idles' = idles \ {c} /\ conn' = [conn EXCEPT ![t] = c]
    BY DEF PopIdle
<1>2. StepFrame(t, "use")
    BY DEF PopIdle, Goto, call, StepFrame, IInv, TypeOK, LockMatchesHolder, Locking
<1>3. t \in Threads \ Holders /\ numOpen' = numOpen
    BY DEF PopIdle, Holders, Holding
<1> QED
    BY <1>1, <1>2, <1>3, LendingStep

LEMMA TakeStep ==
    ASSUME IInv, NEW t \in Threads, Take(t)
    PROVE  IInv'
<1>1. CASE idles = {}
  <2>1. Leave(t, "failed") /\ "failed" \in Ends /\ mu = Free /\ mu' = Leaked
      BY <1>1 DEF Take, Ends
  <2>2. PICK p \in {"acquire", "out"} : StepFrame(t, p)
      BY <2>1, LeaveFrame
  <2> QED BY <1>1, <2>2, QuietStep DEF Take, Places, Holding
<1>2. CASE idles # {}
  <2>1. PICK c \in idles : idles' = idles \ {c} /\ conn' = [conn EXCEPT ![t] = c]
      BY <1>2 DEF Take
  <2>2. StepFrame(t, "use")
      BY <1>2 DEF Take, Goto, call, StepFrame, IInv, TypeOK, LockMatchesHolder,
                  Locking
  <2>3. t \in Threads \ Holders /\ numOpen' = numOpen
      BY DEF Take, Holders, Holding
  <2> QED BY <2>1, <2>2, <2>3, LendingStep
<1> QED
    BY <1>1, <1>2

\* The one step that opens a connection: the room found under the lock is
\* still there, and no other thread is connecting.
LEMMA ConnectedStep ==
    ASSUME IInv, NEW t \in Threads, Connected(t)
    PROVE  IInv'
<1>1. PICK c \in Conns \ Pool : conn' = [conn EXCEPT ![t] = c]
    BY DEF Connected, NewConn
<1>2. mu = t /\ numOpen < MaxOpen /\ t \in Threads \ Holders
    BY DEF Connected, IInv, LockMatchesHolder, Locking, RoomToConnect, Holders, Holding
<1>3. StepFrame(t, "use")
    BY <1>2, NamesAssumption DEF Connected, Goto, call, StepFrame, IInv, TypeOK, Locking
<1>4. pc' \in [Threads -> Places] /\ Holders' = Holders \cup {t}
    BY <1>3, GotoEffect DEF IInv, StepFrame, Places, Holding
<1>5. idles' = idles /\ numOpen' = numOpen + 1
    BY DEF Connected
<1>6. Exclusive' /\ CountIsExact' /\ TypeOK'
  <2>1. TypeOK /\ Exclusive /\ CountIsExact
      BY DEF IInv
  <2>2. Exclusive' /\ CountIsExact'
      BY <1>1, <1>2, <1>4, <1>5, <2>1, PoolGrows
  <2>3. numOpen' \in Nat /\ idles' \subseteq Conns
      BY <1>5, <2>1 DEF TypeOK
  <2>4. conn' \in [Threads -> Conns \cup {NoConn}]
      BY <1>1, <2>1 DEF TypeOK
  <2> QED BY <1>3, <1>4, <2>2, <2>3, <2>4 DEF TypeOK, StepFrame
<1>7. \A u \in Threads : pc'[u] # "connect"
  <2>1. pc' = [pc EXCEPT ![t] = "use"] /\ pc \in [Threads -> Places]
      BY <1>3 DEF StepFrame, IInv, TypeOK
  <2>2. \A u \in Threads : pc[u] = "connect" => mu = u
      BY DEF IInv, LockMatchesHolder, Locking
  <2> QED BY <1>2, <2>1, <2>2
<1>8. RoomToConnect' /\ numOpen' <= MaxOpen
    BY <1>2, <1>5, <1>7, LimitsAssumption DEF RoomToConnect, IInv, TypeOK
<1>9. LockMatchesHolder'
    BY <1>3, LockFollows DEF Places
<1> QED
    BY <1>6, <1>8, <1>9 DEF IInv

LEMMA GivingUpStep ==
    ASSUME IInv, NEW t \in Threads, Discard(t) \/ AppendIdle(t)
    PROVE  IInv'
<1>1. Leave(t, exn[t]) /\ exn[t] \in Ends
    BY DEF Discard, AppendIdle, IInv, TypeOK
<1>2. t \in Holders /\ mu' = mu /\ pc[t] \notin Locking
    BY DEF Discard, AppendIdle, Holders, Holding, Locking
<1>3. PICK p \in {"acquire", "out"} : StepFrame(t, p)
    BY <1>1, <1>2, LeaveFrame
<1>4. p \in Places \ (Holding \cup Locking)
    BY DEF Places, Holding, Locking
<1>5. /\ conn' = [conn EXCEPT ![t] = NoConn]
      /\ \/ idles' = idles \cup {conn[t]} /\ numOpen' = numOpen
         \/ idles' = idles /\ numOpen' = numOpen - 1
    BY DEF Discard, AppendIdle
<1> QED
    BY <1>2, <1>3, <1>4, <1>5, ReleasingStep

LEMMA StepPreservesIInv == IInv /\ [Next]_vars => IInv'
<1> SUFFICES ASSUME IInv, [Next]_vars PROVE IInv'
    OBVIOUS
<1>1. CASE UNCHANGED vars
    BY <1>1 DEF vars, IInv, TypeOK, Exclusive, CountIsExact, LockMatchesHolder,
                RoomToConnect, Pool, Holders
<1>2. ASSUME NEW t \in Threads, Call(t) \/ Step(t)
      PROVE  IInv'
    BY <1>2, AttemptOver, AttemptGoesOn, PopIdleStep, TakeStep, ConnectedStep,
       GivingUpStep DEF Step, Acquisition
<1>3. CASE Next
    BY <1>2, <1>3 DEF Next
<1> QED
    BY <1>1, <1>3

-----------------------------------------------------------------------------
(* What is true of the pool in every reachable state.                      *)

LEMMA IInvHolds == Spec => []IInv
    BY InitEstablishesIInv, StepPreservesIInv, PTL DEF Spec

\* Every variable keeps its range; numOpen never goes below zero.
THEOREM TypeCorrect == Spec => []TypeOK
<1>1. IInv => TypeOK
    BY DEF IInv
<1> QED
    BY <1>1, IInvHolds, PTL

\* No connection is ever used by two threads, or used and idle, whatever the
\* number of threads and however their commands fail.
THEOREM ConnectionsAreExclusive == Spec => []Exclusive
<1>1. IInv => Exclusive
    BY DEF IInv
<1> QED
    BY <1>1, IInvHolds, PTL

\* numOpen is the number of connections the pool answers for.
THEOREM NumOpenIsExact == Spec => []CountIsExact
<1>1. IInv => CountIsExact
    BY DEF IInv
<1> QED
    BY <1>1, IInvHolds, PTL

\* There are never more than max_open of them.
THEOREM MaxOpenIsRespected == Spec => []WithinMaxOpen
<1>1. IInv => WithinMaxOpen
    BY DEF IInv, CountIsExact, WithinMaxOpen
<1> QED
    BY <1>1, IInvHolds, PTL

\* self.mu belongs to the one thread inside a critical section.
THEOREM LockIsExclusive == Spec => []LockMatchesHolder
<1>1. IInv => LockMatchesHolder
    BY DEF IInv
<1> QED
    BY <1>1, IInvHolds, PTL

\* The idle list stays within max_idle when max_idle is at least max_open.
THEOREM IdleListIsBounded == Spec => []WithinMaxIdle
<1>1. ASSUME IInv PROVE WithinMaxIdle
  <2>1. IsFiniteSet(Pool) /\ Cardinality(Pool) <= MaxOpen
      BY <1>1, PoolFinite DEF IInv, CountIsExact
  <2>2. idles \in SUBSET Pool
      BY DEF Pool
  <2>3. /\ Cardinality(idles) <= Cardinality(Pool)
        /\ Cardinality(idles) \in Nat /\ Cardinality(Pool) \in Nat
      BY <2>1, <2>2, FS_Subset, FS_CardinalityType
  <2> QED BY <2>1, <2>3, LimitsAssumption DEF WithinMaxIdle
<1> QED
    BY <1>1, IInvHolds, PTL

\* Once the lock is lost, no thread of the process gets a connection any more:
\* whoever gets one has the lock, or takes it, and a thread that connects had it
\* when it was lost, which it cannot have been then.
THEOREM NothingAfterLeak == Spec => NoConnectionAfterLeak
<1>1. ASSUME IInv, Next, mu = Leaked, NEW t \in Threads, pc'[t] = "use" PROVE pc[t] = "use"
  <2>1. PICK u \in Threads : Call(u) \/ Step(u)
      BY <1>1 DEF Next
  <2>2. ~PopIdle(u) /\ ~Take(u)
      BY <1>1, NamesAssumption DEF PopIdle, Take
  <2>3. ~Connected(u)
    <3>1. pc[u] = "connect" => mu = u
        BY <1>1 DEF IInv, LockMatchesHolder, Locking
    <3> QED BY <1>1, <3>1, NamesAssumption DEF Connected
  <2>4. PICK p : pc' = [pc EXCEPT ![u] = p] /\ p # "use"
    <3>1. CASE \/ Call(u) \/ FindFull(u) \/ StartPolling(u) \/ Poll(u)
               \/ StartConnect(u) \/ EndUse(u)
        BY <3>1 DEF Call, FindFull, StartPolling, Poll, StartConnect, EndUse, Goto
    <3>2. CASE \/ LockTimeout(u) \/ PollTimeout(u) \/ ConnectFails(u)
               \/ Discard(u) \/ AppendIdle(u)
        BY <3>2 DEF LockTimeout, PollTimeout, ConnectFails, Discard, AppendIdle, Leave, Goto
    <3> QED BY <2>1, <2>2, <2>3, <3>1, <3>2 DEF Step, Acquisition
  <2> QED BY <1>1, <2>4 DEF IInv, TypeOK
<1>2. IInv /\ [Next]_vars =>
        [mu = Leaked => \A t \in Threads : pc'[t] = "use" => pc[t] = "use"]_vars
    BY <1>1
<1> QED
    BY <1>2, IInvHolds, PTL DEF Spec, NoConnectionAfterLeak

-----------------------------------------------------------------------------
(* The pool implements ConnLease.                                          *)

\* What ConnLease's lent is mapped to.
Lent == [t \in Threads |-> IF t \in Holders THEN conn[t] ELSE NoConn]

\* The open connections of ConnLease are the pool.
LEMMA OpenIsPool ==
    ASSUME TypeOK, Exclusive
    PROVE  Lease!Open = Pool
<1>1. Lease!InUse = {conn[t] : t \in Holders}
    BY NamesAssumption DEF Lease!InUse, Exclusive, Holders
<1> QED
    BY <1>1 DEF Lease!Open, Pool

\* A step after which the same threads hold the same connections is invisible.
LEMMA QuietIsInvisible ==
    ASSUME IInv, NEW t \in Threads, NEW p \in Places, pc' = [pc EXCEPT ![t] = p],
           UNCHANGED <<idles, conn>>, p \in Holding <=> pc[t] \in Holding
    PROVE  UNCHANGED Lease!vars
<1>1. Holders' = Holders
    BY GotoEffect DEF IInv, Holders
<1> QED
    BY <1>1 DEF Lease!vars

LEMMA BorrowStep ==
    ASSUME IInv, NEW t \in Threads, PopIdle(t) \/ (Take(t) /\ idles # {})
    PROVE  Lease!Borrow(t)
<1>1. PICK c \in idles : idles' = idles \ {c} /\ conn' = [conn EXCEPT ![t] = c]
    BY DEF PopIdle, Take
<1>2. pc' = [pc EXCEPT ![t] = "use"] /\ t \notin Holders
    BY DEF PopIdle, Take, Goto, Holders, Holding
<1>3. Holders' = Holders \cup {t}
    BY <1>2, GotoEffect DEF IInv, Places, Holding
<1>4. Lent' = [Lent EXCEPT ![t] = c] /\ Lent[t] = NoConn
    BY <1>1, <1>2, <1>3 DEF Lent, IInv, TypeOK, Holders
<1> QED
    BY <1>1, <1>4 DEF Lease!Borrow, Lent

LEMMA ConnectStep ==
    ASSUME IInv, NEW t \in Threads, Connected(t)
    PROVE  Lease!Connect(t)
<1>1. PICK c \in Conns \ Pool : conn' = [conn EXCEPT ![t] = c]
    BY DEF Connected, NewConn
<1>2. pc' = [pc EXCEPT ![t] = "use"] /\ t \notin Holders /\ pc[t] = "connect"
    BY DEF Connected, Goto, Holders, Holding
<1>3. Holders' = Holders \cup {t}
    BY <1>2, GotoEffect DEF IInv, Places, Holding
<1>4. Lent' = [Lent EXCEPT ![t] = c] /\ Lent[t] = NoConn
    BY <1>1, <1>2, <1>3 DEF Lent, IInv, TypeOK, Holders
<1>5. Lease!Open = Pool /\ Cardinality(Pool) < MaxOpen
    BY <1>2, OpenIsPool DEF IInv, CountIsExact, RoomToConnect
<1>6. idles' = idles
    BY DEF Connected
<1>7. Lease!Cardinality(Pool) = Cardinality(Pool)
    BY DEF Cardinality, Lease!Cardinality
<1> QED
    BY <1>1, <1>4, <1>5, <1>6, <1>7 DEF Lease!Connect, Lent

LEMMA GiveUpStep ==
    ASSUME IInv, NEW t \in Threads, Discard(t) \/ AppendIdle(t)
    PROVE  Lease!Drop(t) \/ Lease!GiveBack(t)
<1>1. t \in Holders
    BY DEF Discard, AppendIdle, Holders, Holding
<1>2. PICK p \in {"acquire", "out"} : pc' = [pc EXCEPT ![t] = p]
  <2>1. Leave(t, exn[t]) /\ exn[t] \in Ends
      BY DEF Discard, AppendIdle, IInv, TypeOK
  <2> QED BY <2>1, LeaveEffect DEF IInv
<1>3. Holders' = Holders \ {t}
    BY <1>2, GotoEffect DEF IInv, Places, Holding
<1>4. conn' = [conn EXCEPT ![t] = NoConn]
    BY DEF Discard, AppendIdle
<1>5. Lent' = [Lent EXCEPT ![t] = NoConn] /\ Lent[t] = conn[t] /\ conn[t] # NoConn
    BY <1>1, <1>3, <1>4, NamesAssumption DEF Lent, IInv, TypeOK, Exclusive, Holders
<1>6. idles' = idles \/ idles' = idles \cup {conn[t]}
    BY DEF Discard, AppendIdle
<1> QED
    BY <1>5, <1>6 DEF Lease!Drop, Lease!GiveBack, Lent

LEMMA StepImplementsLease == IInv /\ [Next]_vars => [Lease!Next]_(Lease!vars)
<1> SUFFICES ASSUME IInv, [Next]_vars PROVE [Lease!Next]_(Lease!vars)
    OBVIOUS
<1>1. CASE UNCHANGED vars
    BY <1>1 DEF vars, Lease!vars, Holders
<1>2. ASSUME NEW t \in Threads, Call(t) \/ Step(t)
      PROVE  UNCHANGED Lease!vars \/ Lease!Next
  <2>1. CASE \/ Call(t) \/ FindFull(t) \/ StartPolling(t) \/ Poll(t)
             \/ StartConnect(t) \/ EndUse(t)
    <3>1. PICK p \in Places : pc' = [pc EXCEPT ![t] = p]
                              /\ (p \in Holding <=> pc[t] \in Holding)
        BY <2>1 DEF Call, FindFull, StartPolling, Poll, StartConnect, EndUse, Goto,
                    Places, Holding
    <3>2. UNCHANGED <<idles, conn>>
        BY <2>1 DEF Call, FindFull, StartPolling, Poll, StartConnect, EndUse, shared
    <3> QED BY <3>1, <3>2, QuietIsInvisible
  <2>2. CASE \/ LockTimeout(t) \/ PollTimeout(t) \/ ConnectFails(t)
             \/ (Take(t) /\ idles = {})
    <3>1. PICK e \in Ends : Leave(t, e)
        BY <2>2 DEF LockTimeout, PollTimeout, ConnectFails, Take, Ends
    <3>2. PICK p \in {"acquire", "out"} : pc' = [pc EXCEPT ![t] = p]
        BY <3>1, LeaveEffect DEF IInv
    <3>3. pc[t] \notin Holding /\ UNCHANGED <<idles, conn>>
        BY <2>2 DEF LockTimeout, PollTimeout, ConnectFails, Take, shared, Holding
    <3> QED BY <3>2, <3>3, QuietIsInvisible DEF Places, Holding
  <2>3. CASE PopIdle(t) \/ (Take(t) /\ idles # {})
      BY <2>3, BorrowStep DEF Lease!Next
  <2>4. CASE Connected(t)
      BY <2>4, ConnectStep DEF Lease!Next
  <2>5. CASE Discard(t) \/ AppendIdle(t)
      BY <2>5, GiveUpStep DEF Lease!Next
  <2> QED BY <1>2, <2>1, <2>2, <2>3, <2>4, <2>5 DEF Step, Acquisition
<1>3. CASE Next
    BY <1>2, <1>3 DEF Next
<1> QED
    BY <1>1, <1>3

\* The pool as coded lends every connection to one thread at a time and opens
\* no more than max_open, step for step as ConnLease allows.
THEOREM PoolImplementsLease == Spec => LeaseSpec
<1>1. Init => Lease!Init
    BY DEF Init, Lease!Init, Holders, Holding
<1> QED
    BY <1>1, StepImplementsLease, IInvHolds, PTL DEF Spec, LeaseSpec, Lease!Spec

-----------------------------------------------------------------------------
(* Sequences.                                                              *)

LEMMA LeastNumber ==
    ASSUME NEW T, T \subseteq Nat, T # {}
    PROVE  \E x \in T : \A y \in T : x <= y
<1> DEFINE R == {pair \in Nat \X Nat : pair[1] < pair[2]}
<1>1. OpToRel(<, Nat) = R
    BY Zenon DEF OpToRel
<1>2. \E x \in T : \A y \in T : <<y, x>> \notin R
    BY <1>1, WFMin, NatLessThanWellFounded, Zenon
<1>3. \A x, y \in Nat : y < x => <<y, x>> \in R
    OBVIOUS
<1> HIDE DEF R
<1>4. PICK x \in T : \A y \in T : <<y, x>> \notin R
    BY <1>2
<1>5. ASSUME NEW y \in T PROVE x <= y
  <2>1. x \in Nat /\ y \in Nat
      OBVIOUS
  <2>2. ~(y < x)
      BY <1>3, <1>4, <2>1
  <2> QED BY <2>1, <2>2
<1> QED BY <1>4, <1>5

LEMMA BoundedFacts ==
    ASSUME NEW S, NEW n \in Nat
    PROVE  \A s : s \in BoundedSeq(S, n) <=> s \in Seq(S) /\ Len(s) <= n
<1>1. ASSUME NEW s \in Seq(S), Len(s) <= n PROVE s \in BoundedSeq(S, n)
  <2>1. Len(s) \in 0 .. n /\ s \in [1 .. Len(s) -> S]
      BY <1>1
  <2> QED BY <2>1 DEF BoundedSeq, SeqOf
<1>2. ASSUME NEW s \in BoundedSeq(S, n) PROVE s \in Seq(S) /\ Len(s) <= n
  <2>1. PICK m \in 0 .. n : s \in [1 .. m -> S]
      BY DEF BoundedSeq, SeqOf
  <2>2. s \in Seq(S) /\ Len(s) = m
      BY <2>1
  <2> QED BY <2>2
<1> QED BY <1>1, <1>2

LEMMA InsertFacts ==
    ASSUME NEW S, NEW s \in Seq(S), NEW i \in 1 .. Len(s) + 1, NEW e \in S
    PROVE  /\ InsertAt(s, i, e) \in Seq(S) /\ Len(InsertAt(s, i, e)) = Len(s) + 1
           /\ i = Len(s) + 1 => InsertAt(s, i, e) = Append(s, e)
<1> DEFINE front == SubSeq(s, 1, i - 1)
           back == SubSeq(s, i, Len(s))
<1>1. Len(s) \in Nat /\ i \in Nat
    OBVIOUS
<1>2. front \in Seq(S) /\ Len(front) = i - 1
    BY <1>1
<1>3. back \in Seq(S) /\ Len(back) = Len(s) - i + 1
    BY <1>1
<1>4. i = Len(s) + 1 => front = s /\ back = <<>>
    BY <1>1
<1>5. InsertAt(s, i, e) = front \o <<e>> \o back
    BY DEF InsertAt
<1> HIDE DEF front, back
<1>6. front \o <<e>> \in Seq(S) /\ Len(front \o <<e>>) = i
    BY <1>1, <1>2
<1>7. (front \o <<e>>) \o back \in Seq(S) /\ Len((front \o <<e>>) \o back) = Len(s) + 1
  <2> DEFINE f == front \o <<e>>
  <2> HIDE DEF f
  <2>1. f \in Seq(S) /\ Len(f) = i
      BY <1>6 DEF f
  <2>2. f \o back \in Seq(S) /\ Len(f \o back) = Len(s) + 1
      BY <1>1, <1>3, <2>1
  <2> QED BY <2>2 DEF f
<1>8. i = Len(s) + 1 => (front \o <<e>>) \o back = Append(s, e)
  <2> SUFFICES ASSUME i = Len(s) + 1 PROVE (s \o <<e>>) \o <<>> = Append(s, e)
      BY <1>4
  <2> QED OBVIOUS
<1> QED BY <1>5, <1>7, <1>8

LEMMA JoinFacts ==
    ASSUME NEW S, NEW x \in Seq(S), NEW y \in Seq(S)
    PROVE  /\ Len(x) \in Nat /\ Len(y) \in Nat
           /\ x \o y \in Seq(S) /\ Len(x \o y) = Len(x) + Len(y)
           /\ \A i \in 1 .. Len(x) + Len(y) :
                 (x \o y)[i] = IF i <= Len(x) THEN x[i] ELSE y[i - Len(x)]
OBVIOUS

\* A sequence with one more element in front.
LEMMA ConsFacts ==
    ASSUME NEW S, NEW a \in S, NEW r \in Seq(S)
    PROVE  /\ <<a>> \o r \in Seq(S) /\ Len(<<a>> \o r) = Len(r) + 1 /\ Len(r) \in Nat
           /\ (<<a>> \o r)[1] = a
           /\ \A i \in 1 .. Len(r) : (<<a>> \o r)[i + 1] = r[i]
           /\ <<a>> \o r # <<>> /\ Head(<<a>> \o r) = a /\ Tail(<<a>> \o r) = r
<1> DEFINE x == <<a>>
           s == x \o r
<1>1. x \in Seq(S) /\ Len(x) = 1 /\ x[1] = a
    OBVIOUS
<1> HIDE DEF x
<1>2. /\ Len(r) \in Nat /\ s \in Seq(S) /\ Len(s) = Len(x) + Len(r)
      /\ \A i \in 1 .. Len(x) + Len(r) : s[i] = IF i <= Len(x) THEN x[i] ELSE r[i - Len(x)]
    BY <1>1, JoinFacts
<1> HIDE DEF s
<1>3. Len(s) = Len(r) + 1 /\ s # <<>>
    BY <1>1, <1>2
<1>4. s[1] = a
  <2>1. 1 \in 1 .. Len(x) + Len(r) /\ 1 <= Len(x)
      BY <1>1, <1>2
  <2> QED BY <1>1, <1>2, <2>1
<1>5. ASSUME NEW i \in 1 .. Len(r) PROVE s[i + 1] = r[i]
  <2>1. /\ i + 1 \in 1 .. Len(x) + Len(r) /\ ~(i + 1 <= Len(x)) /\ (i + 1) - Len(x) = i
      BY <1>1, <1>2
  <2> QED BY <1>2, <2>1
<1>6. Head(s) = a /\ Tail(s) = r
  <2>1. /\ Tail(s) \in Seq(S) /\ Len(Tail(s)) = Len(r) /\ Head(s) = s[1]
        /\ \A i \in 1 .. Len(r) : Tail(s)[i] = s[i + 1]
      BY <1>2, <1>3
  <2> DEFINE t == Tail(s)
  <2> HIDE DEF t
  <2>2. t \in Seq(S) /\ Len(t) = Len(r) /\ \A i \in 1 .. Len(r) : t[i] = r[i]
      BY <1>5, <2>1 DEF t
  <2>3. t = r
      BY <2>2
  <2> QED BY <1>4, <2>1, <2>3 DEF t
<1> QED BY <1>2, <1>3, <1>4, <1>5, <1>6 DEF s, x

LEMMA JoinIs ==
    ASSUME NEW S, NEW x \in Seq(S), NEW y \in Seq(S), NEW z \in Seq(S),
           Len(z) = Len(x) + Len(y), \A i \in 1 .. Len(x) : z[i] = x[i],
           \A i \in 1 .. Len(y) : z[Len(x) + i] = y[i]
    PROVE  x \o y = z
<1> DEFINE w == x \o y
<1>1. /\ w \in Seq(S) /\ Len(w) = Len(x) + Len(y) /\ Len(x) \in Nat /\ Len(y) \in Nat
      /\ \A i \in 1 .. Len(x) + Len(y) : w[i] = IF i <= Len(x) THEN x[i] ELSE y[i - Len(x)]
    OBVIOUS
<1> HIDE DEF w
<1>2. ASSUME NEW i \in 1 .. Len(z) PROVE w[i] = z[i]
  <2>1. CASE i <= Len(x)
    <3>1. i \in 1 .. Len(x) /\ i \in 1 .. Len(x) + Len(y)
        BY <1>1, <2>1
    <3> QED BY <1>1, <2>1, <3>1
  <2>2. CASE ~(i <= Len(x))
    <3>1. i - Len(x) \in 1 .. Len(y) /\ Len(x) + (i - Len(x)) = i /\ i \in 1 .. Len(x) + Len(y)
        BY <1>1, <2>2
    <3>2. z[i] = y[i - Len(x)]
        BY <3>1
    <3> QED BY <1>1, <2>2, <3>1, <3>2
  <2> QED BY <2>1, <2>2
<1>3. w = z
    BY <1>1, <1>2
<1> QED BY <1>3 DEF w

\* Short sequences.
LEMMA JoinOneOne ==
    ASSUME NEW S, NEW a \in S, NEW b \in S
    PROVE  <<a>> \o <<b>> = <<a, b>>
<1> DEFINE x == <<a>>
           y == <<b>>
           z == <<a, b>>
<1>1. /\ x \in Seq(S) /\ Len(x) = 1 /\ x[1] = a
      /\ y \in Seq(S) /\ Len(y) = 1 /\ y[1] = b
      /\ z \in Seq(S) /\ Len(z) = 2 /\ z[1] = a /\ z[2] = b
    OBVIOUS
<1> HIDE DEF x, y, z
<1>2. /\ Len(z) = Len(x) + Len(y)
      /\ \A i \in 1 .. Len(x) : z[i] = x[i]
      /\ \A i \in 1 .. Len(y) : z[Len(x) + i] = y[i]
  <2>1. /\ \A i \in 1 .. 1 : i = 1
        /\ 1 + 1 = 2
      OBVIOUS
  <2> QED BY <1>1, <2>1
<1>3. x \o y = z
    BY <1>1, <1>2, JoinIs
<1> QED BY <1>3 DEF x, y, z

LEMMA JoinOneTwo ==
    ASSUME NEW S, NEW a \in S, NEW b \in S, NEW c \in S
    PROVE  <<a>> \o <<b, c>> = <<a, b, c>>
<1> DEFINE x == <<a>>
           y == <<b, c>>
           z == <<a, b, c>>
<1>1. /\ x \in Seq(S) /\ Len(x) = 1 /\ x[1] = a
      /\ y \in Seq(S) /\ Len(y) = 2 /\ y[1] = b /\ y[2] = c
      /\ z \in Seq(S) /\ Len(z) = 3 /\ z[1] = a /\ z[2] = b /\ z[3] = c
    OBVIOUS
<1> HIDE DEF x, y, z
<1>2. /\ Len(z) = Len(x) + Len(y)
      /\ \A i \in 1 .. Len(x) : z[i] = x[i]
      /\ \A i \in 1 .. Len(y) : z[Len(x) + i] = y[i]
  <2>1. /\ \A i \in 1 .. 1 : i = 1
        /\ \A i \in 1 .. 2 : i = 1 \/ i = 2
        /\ 1 + 1 = 2 /\ 1 + 2 = 3
      OBVIOUS
  <2> QED BY <1>1, <2>1
<1>3. x \o y = z
    BY <1>1, <1>2, JoinIs
<1> QED BY <1>3 DEF x, y, z

LEMMA JoinTwoOne ==
    ASSUME NEW S, NEW a \in S, NEW b \in S, NEW c \in S
    PROVE  <<a, b>> \o <<c>> = <<a, b, c>>
<1> DEFINE x == <<a, b>>
           y == <<c>>
           z == <<a, b, c>>
<1>1. /\ x \in Seq(S) /\ Len(x) = 2 /\ x[1] = a /\ x[2] = b
      /\ y \in Seq(S) /\ Len(y) = 1 /\ y[1] = c
      /\ z \in Seq(S) /\ Len(z) = 3 /\ z[1] = a /\ z[2] = b /\ z[3] = c
    OBVIOUS
<1> HIDE DEF x, y, z
<1>2. /\ Len(z) = Len(x) + Len(y)
      /\ \A i \in 1 .. Len(x) : z[i] = x[i]
      /\ \A i \in 1 .. Len(y) : z[Len(x) + i] = y[i]
  <2>1. /\ \A i \in 1 .. 1 : i = 1
        /\ \A i \in 1 .. 2 : i = 1 \/ i = 2
        /\ 2 + 1 = 3
      OBVIOUS
  <2> QED BY <1>1, <2>1
<1>3. x \o y = z
    BY <1>1, <1>2, JoinIs
<1> QED BY <1>3 DEF x, y, z

LEMMA JoinThreeOne ==
    ASSUME NEW S, NEW a \in S, NEW b \in S, NEW c \in S, NEW d \in S
    PROVE  <<a, b, c>> \o <<d>> = <<a, b, c, d>>
<1> DEFINE x == <<a, b, c>>
           y == <<d>>
           z == <<a, b, c, d>>
<1>1. /\ x \in Seq(S) /\ Len(x) = 3 /\ x[1] = a /\ x[2] = b /\ x[3] = c
      /\ y \in Seq(S) /\ Len(y) = 1 /\ y[1] = d
    OBVIOUS
<1>2. z \in Seq(S) /\ Len(z) = 4 /\ z[1] = a /\ z[2] = b /\ z[3] = c /\ z[4] = d
    OBVIOUS
<1> HIDE DEF x, y, z
<1>3. /\ Len(z) = Len(x) + Len(y)
      /\ \A i \in 1 .. Len(x) : z[i] = x[i]
      /\ \A i \in 1 .. Len(y) : z[Len(x) + i] = y[i]
  <2>1. /\ \A i \in 1 .. 1 : i = 1
        /\ \A i \in 1 .. 3 : i = 1 \/ i = 2 \/ i = 3
        /\ 3 + 1 = 4
      OBVIOUS
  <2> QED BY <1>1, <1>2, <2>1
<1>4. x \o y = z
    BY <1>1, <1>2, <1>3, JoinIs
<1> QED BY <1>4 DEF x, y, z

LEMMA RemoveAtFacts ==
    ASSUME NEW S, NEW s \in Seq(S), NEW i \in DOMAIN s
    PROVE  /\ RemoveAt(s, i) \in Seq(S) /\ Len(RemoveAt(s, i)) = Len(s) - 1
           /\ s[i] \in S /\ i = 1 => RemoveAt(s, i) = Tail(s)
<1> DEFINE front == SubSeq(s, 1, i - 1)
           back == SubSeq(s, i + 1, Len(s))
<1>1. Len(s) \in Nat /\ i \in Nat /\ i \in 1 .. Len(s) /\ s[i] \in S
    OBVIOUS
<1>2. front \in Seq(S) /\ Len(front) = i - 1
    BY <1>1
<1>3. back \in Seq(S) /\ Len(back) = Len(s) - i
    BY <1>1
<1>4. i = 1 => front = <<>> /\ back = Tail(s)
    BY <1>1
<1>5. RemoveAt(s, i) = front \o back
    BY DEF RemoveAt
<1> HIDE DEF front, back
<1>6. front \o back \in Seq(S) /\ Len(front \o back) = Len(s) - 1
    BY <1>1, <1>2, <1>3
<1>7. i = 1 => front \o back = Tail(s)
    BY <1>3, <1>4
<1> QED BY <1>1, <1>5, <1>6, <1>7

-----------------------------------------------------------------------------
(* How often a map occurs.                                                 *)

LEMMA OccurrencesType ==
    ASSUME NEW S, NEW s \in Seq(S), NEW m
    PROVE  /\ IsFiniteSet({i \in DOMAIN s : s[i] = m})
           /\ Occurrences(s, m) \in Nat
<1>1. Len(s) \in Nat /\ DOMAIN s = 1 .. Len(s)
    OBVIOUS
<1>2. IsFiniteSet(1 .. Len(s))
    BY <1>1, FS_Interval
<1>3. {i \in DOMAIN s : s[i] = m} \subseteq 1 .. Len(s)
    BY <1>1
<1> QED BY <1>2, <1>3, FS_Subset, FS_CardinalityType DEF Occurrences

LEMMA OccurrencesOfOne ==
    ASSUME NEW e, NEW m
    PROVE  Occurrences(<<e>>, m) = IF e = m THEN 1 ELSE 0
<1>1. DOMAIN <<e>> = {1} /\ <<e>>[1] = e
    OBVIOUS
<1>2. CASE e = m
  <2>1. {i \in DOMAIN <<e>> : <<e>>[i] = m} = {1}
      BY <1>1, <1>2
  <2> QED BY <1>2, <2>1, FS_Singleton DEF Occurrences
<1>3. CASE e # m
  <2>1. {i \in DOMAIN <<e>> : <<e>>[i] = m} = {}
      BY <1>1, <1>3
  <2> QED BY <1>3, <2>1, FS_EmptySet DEF Occurrences
<1> QED BY <1>2, <1>3

\* A join has the maps of both.
LEMMA OccurrencesOfJoin ==
    ASSUME NEW S, NEW s \in Seq(S), NEW t \in Seq(S), NEW m
    PROVE  Occurrences(s \o t, m) = Occurrences(s, m) + Occurrences(t, m)
<1> DEFINE A == {i \in DOMAIN s : s[i] = m}
           B == {i \in DOMAIN t : t[i] = m}
           C == {i \in DOMAIN (s \o t) : (s \o t)[i] = m}
           f == [i \in B |-> i + Len(s)]
           D == {i + Len(s) : i \in B}
<1>1. /\ Len(s) \in Nat /\ Len(t) \in Nat
      /\ DOMAIN s = 1 .. Len(s) /\ DOMAIN t = 1 .. Len(t)
      /\ DOMAIN (s \o t) = 1 .. Len(s) + Len(t)
      /\ \A i \in 1 .. Len(s) + Len(t) :
            (s \o t)[i] = IF i <= Len(s) THEN s[i] ELSE t[i - Len(s)]
    OBVIOUS
<1>2. IsFiniteSet(A) /\ IsFiniteSet(B) /\ Cardinality(A) \in Nat /\ Cardinality(B) \in Nat
    BY OccurrencesType, FS_CardinalityType
<1>3. C = A \cup D
  <2>1. ASSUME NEW i \in C PROVE i \in A \cup D
    <3>1. i \in 1 .. Len(s) + Len(t)
        BY <1>1
    <3>2. CASE i <= Len(s)
        BY <1>1, <3>1, <3>2
    <3>3. CASE ~(i <= Len(s))
      <4>1. i - Len(s) \in 1 .. Len(t) /\ (i - Len(s)) + Len(s) = i
          BY <1>1, <3>1, <3>3
      <4>2. i - Len(s) \in B
          BY <1>1, <3>1, <3>3, <4>1
      <4> QED BY <4>1, <4>2
    <3> QED BY <3>2, <3>3
  <2>2. ASSUME NEW i \in A PROVE i \in C
    <3>1. i \in 1 .. Len(s) /\ i <= Len(s) /\ i \in 1 .. Len(s) + Len(t)
        BY <1>1
    <3> QED BY <1>1, <3>1
  <2>3. ASSUME NEW i \in B PROVE i + Len(s) \in C
    <3>1. i \in 1 .. Len(t)
        BY <1>1
    <3>2. /\ i + Len(s) \in 1 .. Len(s) + Len(t) /\ ~(i + Len(s) <= Len(s))
          /\ (i + Len(s)) - Len(s) = i
        BY <1>1, <3>1
    <3>3. (s \o t)[i + Len(s)] = t[i]
        BY <1>1, <3>2
    <3> QED BY <1>1, <3>2, <3>3
  <2> QED BY <2>1, <2>2, <2>3
<1>4. A \cap D = {}
  <2>1. A \subseteq 1 .. Len(s) /\ B \subseteq 1 .. Len(t)
      BY <1>1
  <2> HIDE DEF A, B
  <2> QED BY <1>1, <2>1
<1>5. f \in Bijection(B, D)
  <2>1. B \subseteq Nat
      BY <1>1
  <2> HIDE DEF B
  <2> QED BY <1>1, <2>1 DEF Bijection, Injection, Surjection, IsInjective
<1>6. IsFiniteSet(D) /\ Cardinality(D) = Cardinality(B)
  <2> HIDE DEF B, D, f
  <2> QED BY <1>2, <1>5, FS_Bijection DEF ExistsBijection
<1>7. Cardinality(A \cup D) = Cardinality(A) + Cardinality(D)
  <2> HIDE DEF A, B, C, D
  <2>1. Cardinality(A \cup D) = Cardinality(A) + Cardinality(D) - Cardinality(A \cap D)
      BY <1>2, <1>6, FS_Union
  <2>2. Cardinality(A \cap D) = 0
      BY <1>4, FS_EmptySet
  <2>3. Cardinality(A) \in Nat /\ Cardinality(D) \in Nat
      BY <1>2, <1>6
  <2> QED BY <2>1, <2>2, <2>3
<1> QED BY <1>2, <1>3, <1>6, <1>7 DEF Occurrences

\* The last place of all.
LEMMA LastPlace ==
    ASSUME NEW S, NEW s \in Seq(S), s # <<>>,
           NEW i \in Nth(s, Last(s), Occurrences(s, Last(s)))
    PROVE  i = Len(s)
<1> DEFINE m == Last(s)
           A == {k \in DOMAIN s : s[k] = m}
           part == SubSeq(s, 1, i)
           B == {k \in DOMAIN part : part[k] = m}
<1>1. Len(s) \in Nat /\ Len(s) # 0 /\ DOMAIN s = 1 .. Len(s) /\ i \in 1 .. Len(s)
    BY DEF Nth
<1>2. Cardinality(B) = Cardinality(A)
    BY DEF Nth, Occurrences
<1>3. DOMAIN part = 1 .. i /\ \A k \in 1 .. i : part[k] = s[k]
    BY <1>1
<1>4. B \subseteq A
    BY <1>1, <1>3
<1>5. IsFiniteSet(A)
    BY OccurrencesType
<1>6. A = B
  <2> HIDE DEF A, B
  <2> QED BY <1>2, <1>4, <1>5, FS_Subset
<1>7. Len(s) \in A
    BY <1>1 DEF Last
<1>8. Len(s) \in DOMAIN part
    BY <1>6, <1>7
<1>9. Len(s) \in 1 .. i
    BY <1>3, <1>8
<1>10. i \in Nat /\ i <= Len(s) /\ Len(s) <= i
    BY <1>1, <1>9
<1>11. \A a, b \in Nat : a <= b /\ b <= a => a = b
    OBVIOUS
<1> QED BY <1>1, <1>10, <1>11, Zenon

\* The first place of all.
LEMMA FirstPlace ==
    ASSUME NEW S, NEW s \in Seq(S), s # <<>>, NEW i \in Nth(s, s[1], 1)
    PROVE  i = 1
<1> DEFINE part == SubSeq(s, 1, i)
           B == {k \in DOMAIN part : part[k] = s[1]}
<1>1. Len(s) \in Nat /\ Len(s) # 0 /\ DOMAIN s = 1 .. Len(s) /\ i \in 1 .. Len(s) /\ s[i] = s[1]
    BY DEF Nth
<1>2. Cardinality(B) = 1
    BY DEF Nth, Occurrences
<1>3. part \in Seq(S) /\ DOMAIN part = 1 .. i /\ \A k \in 1 .. i : part[k] = s[k]
    BY <1>1
<1>4. 1 \in B /\ i \in B
    BY <1>1, <1>3
<1>5. IsFiniteSet(B)
    BY <1>3, OccurrencesType
<1> HIDE DEF B
<1>6. \E x : B = {x}
    BY <1>2, <1>5, FS_Singleton
<1> QED BY <1>4, <1>6

-----------------------------------------------------------------------------
(* Types.                                                                  *)

Instrs ==
    {c \in [do : {"clear", "get", "raise", "plan", "verify", "add", "addlast", "del"},
            map : Maps \cup {NoMap}, after : Maps \cup {NoMap}, nth : Nat] :
        c.do \in {"add", "addlast"} => c.map \in Maps}

\* p has still to read the rotation on which its plan depends.
Planning(p) ==
    \/ /\ prog[p] = <<Get, Instr("plan")>>
       /\ op[p].kind \in {"set", "adds", "apply"}
    \/ /\ prog[p] = <<Clear, Get, Instr("plan")>>
       /\ op[p].kind \in {"set", "adds"}

Shape(p) ==
    /\ phase[p] # "ask" => Doing(p, "get")
    /\ \A i \in DOMAIN prog[p] : prog[p][i].do = "plan" => Planning(p)

TypeInv ==
    /\ RotationTypeOK
    /\ prog \in [Procs -> Seq(Instrs)]
    /\ \A p \in Procs : Shape(p)

\* What a command makes of the length of the rotation.
After(c, n) ==
    IF c.do = "del" THEN n - 1
    ELSE IF c.do \in {"add", "addlast"} THEN n + 1 ELSE n

LEMMA RotationsFacts ==
    \A s : s \in Rotations <=> s \in Seq(Maps) /\ Len(s) <= MaxLen
BY BoundedFacts, RotationAssumption DEF Rotations

LEMMA CallsFacts ==
    ASSUME NEW task \in Calls
    PROVE  /\ task.kind \in Operations
           /\ task.maps \in Seq(Maps)
           /\ task.kind # "look" => task.maps # <<>>
           /\ task.kind \in {"add", "apply"} => Len(task.maps) = 1
<1>1. task.kind \in Operations /\ task.maps \in BoundedSeq(Maps, MaxMaps)
    BY DEF Calls
<1>2. /\ task.kind = "look" => task.maps = <<>>
      /\ task.kind \in {"add", "apply"} => Len(task.maps) = 1
      /\ task.kind \notin {"look", "add", "apply"} => task.maps # <<>>
    BY DEF Calls
<1>3. task.maps \in Seq(Maps)
    BY <1>1, BoundedFacts, RotationAssumption
<1>4. CASE task.kind = "look"
    BY <1>1, <1>3, <1>4
<1>5. CASE task.kind \in {"add", "apply"}
  <2>1. Len(task.maps) = 1
      BY <1>2, <1>5
  <2>2. task.maps # <<>>
    <3>1. Len(<<>>) = 0
        OBVIOUS
    <3> QED BY <2>1, <3>1
  <2> QED BY <1>1, <1>3, <2>1, <2>2
<1>6. CASE task.kind \notin {"look", "add", "apply"}
    BY <1>1, <1>2, <1>3, <1>6
<1> QED BY <1>4, <1>5, <1>6

\* The game server adds or removes one map.
LEMMA OutcomeFacts ==
    ASSUME NEW c \in Instrs, c.do \in {"add", "del"}, NEW s \in Seq(Maps),
           NEW t \in Outcome(c, s)
    PROVE  t \in Seq(Maps) /\ Len(t) = After(c, Len(s))
<1>1. CASE c.do = "add"
  <2>1. PICK i \in Nth(s, c.after, c.nth) : t = InsertAt(s, i + 1, c.map)
      BY <1>1 DEF Outcome
  <2>2. i \in DOMAIN s /\ i + 1 \in 1 .. Len(s) + 1 /\ c.map \in Maps
      BY <1>1 DEF Nth, Instrs
  <2> QED BY <1>1, <2>1, <2>2, InsertFacts DEF After
<1>2. CASE c.do = "del"
  <2>1. PICK i \in Nth(s, c.map, c.nth) : t = RemoveAt(s, i)
      BY <1>2 DEF Outcome
  <2>2. i \in DOMAIN s
      BY DEF Nth
  <2> QED BY <1>2, <2>1, <2>2, RemoveAtFacts DEF After
<1> QED BY <1>1, <1>2

LEMMA InstrFacts ==
    /\ \A what \in {"clear", "get", "raise", "plan", "verify"} :
          Instr(what) \in Instrs /\ Instr(what).do = what
    /\ \A m \in Maps, a \in Maps, n \in Nat : Add(m, a, n) \in Instrs
    /\ \A m, a, n : Add(m, a, n).do = "add"
    /\ \A m \in Maps, n \in Nat : Del(m, n) \in Instrs
    /\ \A m, n : Del(m, n).do = "del"
    /\ \A m \in Maps : AddLast(m) \in Instrs
    /\ \A m : AddLast(m).do = "addlast"
BY DEF Instrs, Instr, Add, Del, AddLast

\* The command that p has for the game server.
LEMMA SentFacts ==
    ASSUME TypeInv, NEW p \in Procs, Sends(p)
    PROVE  /\ Sent(p) \in Instrs /\ Sent(p).do \in {"add", "del"}
           /\ \A n : After(Sent(p), n) = After(Head(prog[p]), n)
           /\ Head(prog[p]).do # "addlast" => Sent(p) = Head(prog[p])
<1> DEFINE c == Head(prog[p])
<1>1. prog[p] \in Seq(Instrs) /\ prog[p] # <<>> /\ view[p] \in Seq(Maps)
    BY RotationsFacts DEF TypeInv, RotationTypeOK, Sends, Busy
<1>2. c \in Instrs
    BY <1>1
<1>3. CASE c.do = "addlast"
  <2>1. view[p] # <<>>
      BY <1>3 DEF Sends
  <2>2. Last(view[p]) \in Maps
      BY <1>1, <2>1 DEF Last
  <2>3. Occurrences(view[p], Last(view[p])) \in Nat /\ c.map \in Maps
      BY <1>1, <1>2, <1>3, OccurrencesType DEF Instrs
  <2>4. Sent(p) = Add(c.map, Last(view[p]), Occurrences(view[p], Last(view[p])))
      BY <1>3 DEF Sent
  <2>5. Sent(p) \in Instrs /\ Sent(p).do = "add"
      BY <2>2, <2>3, <2>4, InstrFacts
  <2> QED BY <1>3, <2>5 DEF After
<1>4. CASE c.do # "addlast"
    BY <1>2, <1>4 DEF Sent, Sends
<1> QED BY <1>3, <1>4

\* A change of the rotation: once or twice the command.
LEMMA ChangesFacts ==
    ASSUME TypeInv, NEW p \in Procs, Changes(p)
    PROVE  /\ Sends(p) /\ rotation' \in Rotations
           /\ twice' \in [Procs -> BOOLEAN]
           /\ \A q \in Procs : q # p => twice'[q] = twice[q]
           /\ ~twice'[p] => /\ ~twice[p] /\ rotation' \in Once(p)
                            /\ Len(rotation') = After(Head(prog[p]), Len(rotation))
<1>1. Sends(p) /\ Len(rotation') <= MaxLen /\ rotation \in Seq(Maps) /\ twice \in [Procs -> BOOLEAN]
    BY RotationsFacts DEF Changes, TypeInv, RotationTypeOK
<1>2. ASSUME NEW s \in Once(p)
      PROVE  s \in Seq(Maps) /\ Len(s) = After(Head(prog[p]), Len(rotation))
    BY <1>1, <1>2, SentFacts, OutcomeFacts DEF Once
<1>3. CASE rotation' \in Once(p) /\ UNCHANGED twice
    BY <1>1, <1>2, <1>3, RotationsFacts
<1>4. CASE rotation' \in Again(p) /\ twice' = [twice EXCEPT ![p] = TRUE]
  <2>1. PICK s \in Once(p) : rotation' \in Outcome(Sent(p), s)
      BY <1>4 DEF Again
  <2>2. rotation' \in Seq(Maps)
      BY <1>1, <1>2, <2>1, SentFacts, OutcomeFacts
  <2> QED BY <1>1, <1>4, <2>2, RotationsFacts
<1> QED BY <1>3, <1>4 DEF Changes

-----------------------------------------------------------------------------
(* The programs.                                                           *)

\* f[i] is the join of the first i sequences.
Joins(seqs, m, f) ==
    f = [i \in 1 .. m |-> IF i = 1 THEN seqs[i] ELSE f[i - 1] \o seqs[i]]

LEMMA FlattenFacts ==
    ASSUME NEW X, NEW seqs \in Seq(Seq(X))
    PROVE  /\ seqs = <<>> => FlattenSeq(seqs) = <<>>
           /\ seqs # <<>> =>
                \E f \in [1 .. Len(seqs) -> Seq(X)] :
                    /\ FlattenSeq(seqs) = f[Len(seqs)]
                    /\ f[1] = seqs[1]
                    /\ \A i \in 2 .. Len(seqs) : f[i] = f[i - 1] \o seqs[i]
<1>1. CASE seqs = <<>>
  <2>1. Len(seqs) = 0
      BY <1>1
  <2> QED BY <1>1, <2>1 DEF FlattenSeq
<1>2. CASE seqs # <<>>
  <2> DEFINE n == Len(seqs)
             T == {m \in 1 .. n : ~ \E f : Joins(seqs, m, f) /\ f \in [1 .. m -> Seq(X)]}
  <2>1. n \in Nat /\ n # 0 /\ \A i \in 1 .. n : seqs[i] \in Seq(X)
      BY <1>2
  <2>2. T \subseteq Nat
      OBVIOUS
  <2>3. ASSUME T # {} PROVE FALSE
    <3>1. PICK m \in T : \A k \in T : m <= k
      <4> HIDE DEF T
      <4> QED BY <2>2, <2>3, LeastNumber
    <3>2. m \in 1 .. n /\ m \in Nat
        OBVIOUS
    <3>3. CASE m = 1
      <4> DEFINE h == [i \in 1 .. 1 |-> seqs[i]]
      <4>1. h \in [1 .. 1 -> Seq(X)]
          BY <2>1
      <4>2. h = [i \in 1 .. 1 |-> IF i = 1 THEN seqs[i] ELSE h[i - 1] \o seqs[i]]
          OBVIOUS
      <4> HIDE DEF h
      <4>3. Joins(seqs, 1, h)
          BY <4>2 DEF Joins
      <4> QED BY <3>1, <3>3, <4>1, <4>3
    <3>4. CASE m # 1
      <4>1. m - 1 \in 1 .. n /\ m - 1 \notin T
        <5>1. m - 1 \in 1 .. n /\ ~(m <= m - 1)
            BY <2>1, <3>2, <3>4
        <5> HIDE DEF T
        <5> QED BY <3>1, <5>1
      <4>2. PICK g : Joins(seqs, m - 1, g) /\ g \in [1 .. m - 1 -> Seq(X)]
          BY <4>1
      <4> DEFINE end == g[m - 1] \o seqs[m]
                 h == [i \in 1 .. m |-> IF i = m THEN end ELSE g[i]]
      <4>3. m - 1 \in 1 .. m - 1 /\ g[m - 1] \in Seq(X) /\ seqs[m] \in Seq(X)
          BY <2>1, <3>2, <4>1, <4>2
      <4>4. end \in Seq(X)
          BY <4>3
      <4> HIDE DEF end
      <4>5. h \in [1 .. m -> Seq(X)]
        <5>1. ASSUME NEW i \in 1 .. m, i # m PROVE g[i] \in Seq(X)
          <6>1. i \in 1 .. m - 1
              BY <3>2, <5>1
          <6> QED BY <4>2, <6>1
        <5> QED BY <4>4, <5>1
      <4>6. ASSUME NEW i \in 1 .. m
            PROVE  h[i] = IF i = 1 THEN seqs[i] ELSE h[i - 1] \o seqs[i]
        <5>1. CASE i = m
          <6>1. h[i] = end /\ i # 1 /\ i - 1 \in 1 .. m /\ i - 1 # m
              BY <3>2, <3>4, <5>1
          <6>2. h[i - 1] = g[m - 1]
              BY <5>1, <6>1
          <6> HIDE DEF h
          <6> QED BY <5>1, <6>1, <6>2 DEF end
        <5>2. CASE i # m
          <6>1. i \in 1 .. m - 1 /\ h[i] = g[i]
              BY <3>2, <5>2
          <6>2. i # 1 => i - 1 \in 1 .. m /\ i - 1 # m /\ h[i - 1] = g[i - 1]
              BY <3>2, <5>2
          <6>3. g[i] = IF i = 1 THEN seqs[i] ELSE g[i - 1] \o seqs[i]
              BY <4>2, <6>1 DEF Joins
          <6> HIDE DEF h
          <6> QED BY <6>1, <6>2, <6>3
        <5> QED BY <5>1, <5>2
      <4>7. h = [i \in 1 .. m |-> h[i]]
          OBVIOUS
      <4> HIDE DEF h
      <4>8. Joins(seqs, m, h)
          BY <4>6, <4>7 DEF Joins
      <4> QED BY <3>1, <4>5, <4>8
    <3> QED BY <3>3, <3>4
  <2>4. \E f : Joins(seqs, n, f) /\ f \in [1 .. n -> Seq(X)]
    <3>1. n \in 1 .. n
        BY <2>1
    <3> QED BY <2>3, <3>1
  <2> DEFINE F == CHOOSE f : Joins(seqs, n, f)
  <2>5. Joins(seqs, n, F)
      BY <2>4
  <2>6. FlattenSeq(seqs) = F[n]
      BY <2>1, Zenon DEF FlattenSeq, Joins
  <2>7. PICK f : Joins(seqs, n, f) /\ f \in [1 .. n -> Seq(X)]
      BY <2>4
  <2> HIDE DEF F
  <2>8. ASSUME \E i \in 1 .. n : F[i] # f[i] PROVE FALSE
    <3> DEFINE D == {i \in 1 .. n : F[i] # f[i]}
    <3>1. D \subseteq Nat /\ D # {}
        BY <2>8
    <3>2. PICK m \in D : \A k \in D : m <= k
      <4> HIDE DEF D
      <4> QED BY <3>1, LeastNumber
    <3>3. m \in 1 .. n /\ m \in Nat /\ F[m] # f[m]
        BY <3>2
    <3>4. m # 1 => m - 1 \in 1 .. n /\ F[m - 1] = f[m - 1]
        BY <3>2, <3>3
    <3>5. /\ F[m] = IF m = 1 THEN seqs[m] ELSE F[m - 1] \o seqs[m]
          /\ f[m] = IF m = 1 THEN seqs[m] ELSE f[m - 1] \o seqs[m]
        BY <2>5, <2>7, <3>3 DEF Joins
    <3> QED BY <3>3, <3>4, <3>5
  <2>9. F[n] = f[n]
      BY <2>1, <2>8
  <2>10. /\ f[1] = seqs[1]
         /\ \A i \in 2 .. n : f[i] = f[i - 1] \o seqs[i]
    <3>1. \A i \in 1 .. n : f[i] = IF i = 1 THEN seqs[i] ELSE f[i - 1] \o seqs[i]
        BY <2>7 DEF Joins
    <3>2. \A i \in 2 .. n : i \in 1 .. n /\ i # 1
        BY <2>1
    <3>3. 1 \in 1 .. n
        BY <2>1
    <3> QED BY <3>1, <3>2, <3>3
  <2> HIDE DEF n
  <2>11. FlattenSeq(seqs) = f[n] /\ f \in [1 .. n -> Seq(X)]
      BY <2>6, <2>7, <2>9
  <2>12. f \in [1 .. Len(seqs) -> Seq(X)] /\ FlattenSeq(seqs) = f[Len(seqs)]
      BY <2>11 DEF n
  <2>13. \A i \in 2 .. Len(seqs) : f[i] = f[i - 1] \o seqs[i]
      BY <2>10 DEF n
  <2> QED BY <1>2, <2>10, <2>12, <2>13
<1> QED BY <1>1, <1>2

\* The join of sequences of a kind that joins and the empty sequence keep.
LEMMA FlattenType ==
    ASSUME NEW X, NEW seqs \in Seq(Seq(X))
    PROVE  FlattenSeq(seqs) \in Seq(X)
<1>1. CASE seqs = <<>>
  <2>1. <<>> \in Seq(X)
      OBVIOUS
  <2> QED BY <1>1, <2>1, FlattenFacts
<1>2. CASE seqs # <<>>
  <2>1. PICK f \in [1 .. Len(seqs) -> Seq(X)] : FlattenSeq(seqs) = f[Len(seqs)]
      BY <1>2, FlattenFacts
  <2>2. Len(seqs) \in 1 .. Len(seqs)
      BY <1>2
  <2>3. f[Len(seqs)] \in Seq(X)
      BY <2>2
  <2> QED BY <2>1, <2>3
<1> QED BY <1>1, <1>2

Settled == {c \in Instrs : c.do # "plan"}

LEMMA SettledFacts ==
    /\ \A what \in {"clear", "get", "raise", "verify"} : Instr(what) \in Settled
    /\ \A m \in Maps, a \in Maps, n \in Nat : Add(m, a, n) \in Settled
    /\ \A m \in Maps, n \in Nat : Del(m, n) \in Settled
    /\ \A m \in Maps : AddLast(m) \in Settled
    /\ Clear \in Settled /\ Get \in Settled /\ Raise \in Settled
<1>1. /\ \A what \in {"clear", "get", "raise", "verify"} : Instr(what) \in Settled
      /\ \A m \in Maps, a \in Maps, n \in Nat : Add(m, a, n) \in Settled
      /\ \A m \in Maps, n \in Nat : Del(m, n) \in Settled
      /\ \A m \in Maps : AddLast(m) \in Settled
    BY InstrFacts DEF Settled
<1>2. /\ Clear = Instr("clear") /\ Get = Instr("get") /\ Raise = Instr("raise")
    BY DEF Clear, Get, Raise
<1> QED BY <1>1, <1>2

LEMMA InvalidatingType ==
    ASSUME NEW body \in Seq(Settled)
    PROVE  Invalidating(body) \in Seq(Settled)
<1> DEFINE one == <<Clear>>
           front == one \o body
<1>1. one \in Seq(Settled)
    BY SettledFacts
<1> HIDE DEF one
<1>2. front \in Seq(Settled)
    BY <1>1
<1> HIDE DEF front
<1>3. front \o one \in Seq(Settled)
    BY <1>1, <1>2
<1> QED BY <1>3 DEF Invalidating, front, one

LEMMA AddRemoveType ==
    ASSUME NEW m \in Maps
    PROVE  AddMap(m) \in Seq(Settled) /\ RemoveMap(m) \in Seq(Settled)
<1>1. <<Get, AddLast(m)>> \in Seq(Settled)
    BY SettledFacts
<1>2. <<Del(m, 1)>> \in Seq(Settled)
    BY SettledFacts
<1> QED BY <1>1, <1>2, InvalidatingType DEF AddMap, RemoveMap

\* The Settled sequences are programs.
LEMMA SettledPrograms ==
    ASSUME NEW s \in Seq(Settled)
    PROVE  s \in Seq(Instrs) /\ \A i \in DOMAIN s : s[i].do # "plan"
<1>1. Settled \subseteq Instrs
    BY DEF Settled
<1>2. \A i \in DOMAIN s : s[i] \in Settled
    OBVIOUS
<1>3. s \in Seq(Instrs)
    BY <1>1
<1> QED BY <1>2, <1>3 DEF Settled

\* The additions of set_maprotation.
LEMMA SetAddsFacts ==
    ASSUME NEW kept \in Seq(Maps), NEW maps \in Seq(Maps)
    PROVE  /\ SetAdds(kept, maps) \in Seq(Settled)
           /\ Len(SetAdds(kept, maps)) = Len(maps)
           /\ \A i \in 1 .. Len(maps) : SetAdds(kept, maps)[i].do = "add"
<1> DEFINE adds == SetAdds(kept, maps)
<1>1. Len(maps) \in Nat /\ DOMAIN maps = 1 .. Len(maps)
    OBVIOUS
<1>2. ASSUME NEW i \in 1 .. Len(maps), i = 1
      PROVE  Add(maps[1], Head(kept \o maps), 1) \in Settled
  <2> DEFINE j == kept \o maps
  <2>1. maps[1] \in Maps
      BY <1>1, <1>2
  <2>2. j \in Seq(Maps) /\ Len(j) # 0
      BY <1>1, <1>2
  <2> HIDE DEF j
  <2>3. Head(j) \in Maps
      BY <2>2
  <2> QED BY <2>1, <2>3, SettledFacts DEF j
<1>3. ASSUME NEW i \in 1 .. Len(maps), i # 1
      PROVE  Add(maps[i], maps[i - 1],
               Occurrences(kept \o SubSeq(maps, 1, i - 1), maps[i - 1])) \in Settled
  <2>1. i - 1 \in 1 .. Len(maps) /\ maps[i] \in Maps /\ maps[i - 1] \in Maps
      BY <1>1, <1>3
  <2> DEFINE part == SubSeq(maps, 1, i - 1)
             j == kept \o part
  <2>2. part \in Seq(Maps)
      BY <1>1, <2>1
  <2> HIDE DEF part
  <2>3. j \in Seq(Maps)
      BY <2>2
  <2>4. Occurrences(j, maps[i - 1]) \in Nat
      BY <2>3, OccurrencesType
  <2> HIDE DEF j
  <2>5. Add(maps[i], maps[i - 1], Occurrences(j, maps[i - 1])) \in Settled
      BY <2>1, <2>4, SettledFacts
  <2> QED BY <2>5 DEF j, part
<1>4. adds \in Seq(Settled)
    BY <1>1, <1>2, <1>3 DEF SetAdds
<1>5. Len(adds) = Len(maps) /\ DOMAIN adds = DOMAIN maps
    BY <1>1 DEF SetAdds
<1>6. ASSUME NEW i \in 1 .. Len(maps) PROVE adds[i].do = "add"
  <2>1. \E m, a, k : adds[i] = Add(m, a, k)
      BY <1>1 DEF SetAdds
  <2> QED BY <2>1, InstrFacts
<1> QED BY <1>4, <1>5, <1>6

LEMMA SetRotationType ==
    ASSUME NEW maps \in Seq(Maps), NEW current \in Seq(Maps)
    PROVE  SetRotation(maps, current) \in Seq(Settled)
<1> DEFINE kept == IF current = <<>> THEN <<>> ELSE <<current[1]>>
           dels == [i \in 1 .. Len(current) - 1 |-> Del(current[i + 1], 1)]
           adds == SetAdds(kept, maps)
           rest == IF current = <<>> THEN <<Raise>> ELSE <<Del(current[1], 1), Clear, Get>>
<1>1. Len(current) \in Nat /\ Len(maps) \in Nat /\ DOMAIN maps = 1 .. Len(maps)
    OBVIOUS
<1>2. current # <<>> => Len(current) # 0 /\ current[1] \in Maps
    BY <1>1
<1>3. kept \in Seq(Maps)
    BY <1>2
<1>4. dels \in Seq(Settled)
  <2>1. \A i \in 1 .. Len(current) - 1 : current[i + 1] \in Maps
      BY <1>1
  <2>2. \A i \in 1 .. Len(current) - 1 : Del(current[i + 1], 1) \in Settled
      BY <2>1, SettledFacts
  <2>3. CASE current = <<>>
    <3>1. 1 .. Len(current) - 1 = 1 .. 0
        BY <2>3
    <3>2. [i \in 1 .. 0 |-> Del(current[i + 1], 1)] \in Seq(Settled)
        OBVIOUS
    <3> QED BY <3>1, <3>2, Zenon
  <2>4. CASE current # <<>>
    <3>1. Len(current) - 1 \in Nat
        BY <1>1, <1>2, <2>4
    <3> QED BY <2>2, <3>1
  <2> QED BY <2>3, <2>4
<1>5. adds \in Seq(Settled)
  <2> HIDE DEF kept
  <2> QED BY <1>3, SetAddsFacts
<1>6. rest \in Seq(Settled)
    BY <1>2, SettledFacts
<1>7. <<Clear>> \in Seq(Settled)
    BY SettledFacts
<1>8. (dels \o adds) \o rest \in Seq(Settled)
  <2> HIDE DEF dels, adds, rest
  <2> DEFINE front == dels \o adds
  <2>1. front \in Seq(Settled)
      BY <1>4, <1>5
  <2> HIDE DEF front
  <2>2. front \o rest \in Seq(Settled)
      BY <1>6, <2>1
  <2> QED BY <2>2 DEF front
<1> QED BY <1>7, <1>8 DEF SetRotation

\* The place that do_add_maps_to_rotation gives to the ith map: after the map
\* before it, the nth of its kind.
Before(maps, current, i) == IF i = 1 THEN Last(current) ELSE maps[i - 1]

NthBefore(maps, current, i) ==
    LET last == Before(maps, current, i)
        added == Occurrences(SubSeq(maps, 1, i - 1), last)
    IN  IF last = Last(current) THEN Occurrences(current, last) + added ELSE added

NthAdd(maps, current, i) ==
    Add(maps[i], Before(maps, current, i), NthBefore(maps, current, i))

\* The additions of do_add_maps_to_rotation, and the end of the operation.
LEMMA AddMapsParts ==
    ASSUME NEW maps \in Seq(Maps), NEW current \in Seq(Maps), current # <<>>
    PROVE  \E adds :
              /\ AddMaps(maps, current) = adds \o <<Clear>>
              /\ DOMAIN adds = DOMAIN maps
              /\ adds = [i \in DOMAIN maps |-> adds[i]]
              /\ \A i \in DOMAIN maps : adds[i] \in Settled /\ adds[i].do = "add"
              /\ \A i \in DOMAIN maps : adds[i] = NthAdd(maps, current, i)
<1> DEFINE last(i) == IF i = 1 THEN Last(current) ELSE maps[i - 1]
           added(i) == Occurrences(SubSeq(maps, 1, i - 1), last(i))
           nth(i) == IF last(i) = Last(current)
                     THEN Occurrences(current, last(i)) + added(i) ELSE added(i)
           adds == [i \in DOMAIN maps |-> Add(maps[i], last(i), nth(i))]
<1>1. Len(maps) \in Nat /\ DOMAIN maps = 1 .. Len(maps) /\ \A i \in DOMAIN maps : maps[i] \in Maps
    OBVIOUS
<1>2. Last(current) \in Maps
    BY DEF Last
<1>3. ASSUME NEW i \in DOMAIN maps PROVE Add(maps[i], last(i), nth(i)) \in Settled
  <2>1. last(i) \in Maps
    <3>1. i # 1 => i - 1 \in DOMAIN maps
        BY <1>1
    <3> QED BY <1>1, <1>2, <3>1
  <2>2. added(i) \in Nat
    <3>1. SubSeq(maps, 1, i - 1) \in Seq(Maps)
        BY <1>1
    <3> HIDE DEF last
    <3> QED BY <3>1, OccurrencesType
  <2>3. Occurrences(current, last(i)) \in Nat
      BY OccurrencesType
  <2> HIDE DEF last, added
  <2>4. nth(i) \in Nat
      BY <2>2, <2>3
  <2> HIDE DEF nth
  <2> QED BY <1>1, <2>1, <2>4, SettledFacts
<1> HIDE DEF nth, last, added
<1>4. \A i \in DOMAIN maps : adds[i] \in Settled /\ adds[i].do = "add"
    BY <1>3, InstrFacts
<1>5. AddMaps(maps, current) = adds \o <<Clear>>
    BY Zenon DEF AddMaps, last, nth, added
<1>6. DOMAIN adds = DOMAIN maps /\ adds = [i \in DOMAIN maps |-> adds[i]]
    OBVIOUS
<1>7. \A i \in DOMAIN maps : adds[i] = NthAdd(maps, current, i)
  <2>1. \A i \in DOMAIN maps : adds[i] = Add(maps[i], last(i), nth(i))
      OBVIOUS
  <2>2. \A i \in DOMAIN maps : Add(maps[i], last(i), nth(i)) = NthAdd(maps, current, i)
      BY Zenon DEF NthAdd, NthBefore, Before, last, nth, added
  <2> HIDE DEF adds
  <2> QED BY <2>1, <2>2
<1> HIDE DEF adds
<1> QED BY <1>4, <1>5, <1>6, <1>7

LEMMA AddMapsType ==
    ASSUME NEW maps \in Seq(Maps), NEW current \in Seq(Maps)
    PROVE  AddMaps(maps, current) \in Seq(Settled)
<1>1. CASE current = <<>>
    BY <1>1, SettledFacts DEF AddMaps
<1>2. CASE current # <<>>
  <2> DEFINE end == <<Clear>>
  <2>1. PICK adds : /\ AddMaps(maps, current) = adds \o end
                    /\ DOMAIN adds = DOMAIN maps
                    /\ adds = [i \in DOMAIN maps |-> adds[i]]
                    /\ \A i \in DOMAIN maps : adds[i] \in Settled /\ adds[i].do = "add"
                    /\ \A i \in DOMAIN maps : adds[i] = NthAdd(maps, current, i)
      BY <1>2, AddMapsParts
  <2>2. Len(maps) \in Nat /\ DOMAIN maps = 1 .. Len(maps)
      OBVIOUS
  <2>3. adds \in Seq(Settled)
      BY <2>1, <2>2
  <2>4. end \in Seq(Settled)
      BY SettledFacts
  <2> HIDE DEF end
  <2>5. adds \o end \in Seq(Settled)
      BY <2>3, <2>4
  <2> QED BY <2>1, <2>5
<1> QED BY <1>1, <1>2

\* The first part of ApplyResults.
Removals(current) == [i \in 1 .. Len(current) - 1 |-> RemoveMap(current[i + 1])]

LEMMA RemovalsType ==
    ASSUME NEW current \in Seq(Maps), current # <<>>
    PROVE  /\ Removals(current) \in Seq(Seq(Settled))
           /\ FlattenSeq(Removals(current)) \in Seq(Settled)
<1>1. Len(current) \in Nat /\ Len(current) - 1 \in Nat
    OBVIOUS
<1>2. ASSUME NEW i \in 1 .. Len(current) - 1 PROVE RemoveMap(current[i + 1]) \in Seq(Settled)
  <2>1. current[i + 1] \in Maps
      BY <1>1
  <2> QED BY <2>1, AddRemoveType
<1>3. Removals(current) \in Seq(Seq(Settled))
    BY <1>1, <1>2 DEF Removals
<1> QED BY <1>3, FlattenType

\* The second part: the winner takes the place of the map that was kept.
Replacement(m, current) ==
    IF current[1] = m THEN <<>> ELSE AddMap(m) \o RemoveMap(current[1])

Check == <<Get, Instr("verify")>>

LEMMA ApplyParts ==
    ASSUME NEW m, NEW current, current # <<>>
    PROVE  ApplyResults(m, current) =
               (FlattenSeq(Removals(current)) \o Replacement(m, current)) \o Check
BY Zenon DEF ApplyResults, Removals, Replacement, Check

LEMMA ReplacementType ==
    ASSUME NEW m \in Maps, NEW current \in Seq(Maps), current # <<>>
    PROVE  Replacement(m, current) \in Seq(Settled) /\ Check \in Seq(Settled)
<1> DEFINE a == AddMap(m)
           r == RemoveMap(current[1])
<1>1. current[1] \in Maps
    OBVIOUS
<1>2. a \in Seq(Settled) /\ r \in Seq(Settled)
    BY <1>1, AddRemoveType
<1>3. Check \in Seq(Settled)
    BY SettledFacts DEF Check
<1> HIDE DEF a, r
<1>4. a \o r \in Seq(Settled) /\ <<>> \in Seq(Settled)
    BY <1>2
<1> QED BY <1>3, <1>4 DEF Replacement, a, r

LEMMA ApplyResultsType ==
    ASSUME NEW m \in Maps, NEW current \in Seq(Maps)
    PROVE  ApplyResults(m, current) \in Seq(Settled)
<1>1. CASE current = <<>>
    BY <1>1, SettledFacts DEF ApplyResults
<1>2. CASE current # <<>>
  <2> DEFINE a == FlattenSeq(Removals(current))
             b == Replacement(m, current)
             front == a \o b
  <2>1. a \in Seq(Settled) /\ b \in Seq(Settled) /\ Check \in Seq(Settled)
      BY <1>2, RemovalsType, ReplacementType
  <2> HIDE DEF a, b
  <2>2. front \in Seq(Settled)
      BY <2>1
  <2> HIDE DEF front
  <2>3. front \o Check \in Seq(Settled)
      BY <2>1, <2>2
  <2> QED BY <1>2, <2>3, ApplyParts DEF front, a, b
<1> QED BY <1>1, <1>2

LEMMA PlanType ==
    ASSUME NEW task \in Calls, task.kind \in {"set", "adds", "apply"}, NEW s \in Seq(Maps)
    PROVE  Plan(task, s) \in Seq(Settled)
<1>1. task.maps \in Seq(Maps) /\ task.maps # <<>>
    BY CallsFacts
<1>2. task.maps[1] \in Maps
    BY <1>1
<1>3. CASE task.kind = "set"
    BY <1>1, <1>3, SetRotationType DEF Plan
<1>4. CASE task.kind = "adds"
    BY <1>1, <1>4, AddMapsType DEF Plan
<1>5. CASE task.kind = "apply"
    BY <1>2, <1>5, ApplyResultsType DEF Plan
<1> QED BY <1>3, <1>4, <1>5

\* What a call begins with: a program, or the reading on which the plan
\* depends.
LEMMA ProgramType ==
    ASSUME NEW task \in Calls
    PROVE  /\ Program(task) \in Seq(Instrs) /\ Program(task) # <<>>
           /\ \/ Program(task) \in Seq(Settled)
              \/ Program(task) = <<Get, Instr("plan")>> /\ task.kind = "apply"
              \/ /\ Program(task) = <<Clear, Get, Instr("plan")>>
                 /\ task.kind \in {"set", "adds"}
<1>1. /\ task.kind \in Operations /\ task.maps \in Seq(Maps)
      /\ task.kind # "look" => task.maps # <<>>
    BY CallsFacts
<1>2. CASE task.kind = "look"
  <2>1. Program(task) = <<Get>>
      BY <1>2 DEF Program
  <2>2. <<Get>> \in Seq(Settled) /\ <<Get>> # <<>>
      BY SettledFacts
  <2> QED BY <2>1, <2>2, SettledPrograms
<1>3. CASE task.kind = "add"
  <2>1. Program(task) = AddMap(task.maps[1]) /\ task.maps[1] \in Maps
      BY <1>1, <1>3 DEF Program
  <2>2. AddMap(task.maps[1]) \in Seq(Settled)
      BY <2>1, AddRemoveType
  <2>3. AddMap(task.maps[1]) # <<>>
      BY DEF AddMap, Invalidating
  <2> QED BY <2>1, <2>2, <2>3, SettledPrograms
<1>4. CASE task.kind = "remove"
  <2> DEFINE dels == [i \in DOMAIN task.maps |-> Del(task.maps[i], 1)]
  <2>1. Program(task) = Invalidating(dels)
      BY <1>4 DEF Program
  <2>2. dels \in Seq(Settled)
    <3>1. \A i \in DOMAIN task.maps : Del(task.maps[i], 1) \in Settled
        BY <1>1, SettledFacts
    <3>2. Len(task.maps) \in Nat /\ DOMAIN task.maps = 1 .. Len(task.maps)
        BY <1>1
    <3> QED BY <3>1, <3>2
  <2> HIDE DEF dels
  <2>3. Invalidating(dels) \in Seq(Settled)
      BY <2>2, InvalidatingType
  <2>4. Invalidating(dels) # <<>>
      BY <2>2, SettledFacts DEF Invalidating
  <2> QED BY <2>1, <2>3, <2>4, SettledPrograms
<1>5. CASE task.kind = "apply"
  <2>1. Program(task) = <<Get, Instr("plan")>>
      BY <1>5 DEF Program
  <2>2. Get \in Instrs /\ Instr("plan") \in Instrs
      BY InstrFacts DEF Get
  <2> QED BY <1>5, <2>1, <2>2
<1>6. CASE task.kind \in {"set", "adds"}
  <2>1. Program(task) = <<Clear, Get, Instr("plan")>>
      BY <1>6 DEF Program
  <2>2. Clear \in Instrs /\ Get \in Instrs /\ Instr("plan") \in Instrs
      BY InstrFacts DEF Clear, Get
  <2> QED BY <1>6, <2>1, <2>2
<1> QED BY <1>1, <1>2, <1>3, <1>4, <1>5, <1>6 DEF Operations

-----------------------------------------------------------------------------
(* The type invariant.                                                     *)

LEMMA TailFacts ==
    ASSUME NEW X, NEW s \in Seq(X), s # <<>>
    PROVE  /\ Tail(s) \in Seq(X) /\ Len(Tail(s)) = Len(s) - 1 /\ Len(s) \in Nat \ {0}
           /\ Head(s) = s[1] /\ Head(s) \in X
           /\ \A i \in 1 .. Len(s) - 1 : Tail(s)[i] = s[i + 1]
OBVIOUS

\* A step of p that touches nothing that others have.
LEMMA TypeStep ==
    ASSUME TypeInv, NEW p \in Procs, NEW rest \in Seq(Instrs),
           rotation' \in Rotations, cache' \in Rotations \cup {Nothing},
           prog' = [prog EXCEPT ![p] = rest],
           op' \in [Procs -> Calls], \A q \in Procs : q # p => op'[q] = op[q],
           phase' \in [Procs -> {"ask", "read", "store"}],
           \A q \in Procs : q # p => phase'[q] = phase[q],
           view' \in [Procs -> Rotations], failed' \in [Procs -> BOOLEAN],
           before' \in [Procs -> Rotations], alone' \in [Procs -> BOOLEAN],
           fresh' \in [Procs -> BOOLEAN], twice' \in [Procs -> BOOLEAN],
           Shape(p)'
    PROVE  TypeInv'
<1>1. RotationTypeOK'
    BY DEF RotationTypeOK
<1>2. prog' \in [Procs -> Seq(Instrs)]
    BY DEF TypeInv
<1>3. ASSUME NEW q \in Procs, q # p PROVE Shape(q)'
  <2>1. prog'[q] = prog[q] /\ op'[q] = op[q] /\ phase'[q] = phase[q]
      BY <1>3 DEF TypeInv
  <2>2. Shape(q)
      BY DEF TypeInv
  <2> QED BY <2>1, <2>2 DEF Shape, Planning, Doing, Busy
<1> QED BY <1>1, <1>2, <1>3 DEF TypeInv

\* The plan of a process that goes on to the next command.
LEMMA TailShape ==
    ASSUME TypeInv, NEW p \in Procs, Busy(p),
           prog' = [prog EXCEPT ![p] = Tail(prog[p])], op'[p] = op[p], phase'[p] = "ask",
           ~(Doing(p, "get") /\ Tail(prog[p]) # <<>> /\ Head(Tail(prog[p])).do = "plan")
    PROVE  Shape(p)'
<1>1. prog[p] \in Seq(Instrs) /\ prog[p] # <<>> /\ prog'[p] = Tail(prog[p])
    BY DEF TypeInv, Busy
<1>2. ASSUME NEW i \in DOMAIN prog'[p], prog'[p][i].do = "plan" PROVE Planning(p)'
  <2>1. i \in 1 .. Len(prog[p]) - 1 /\ i + 1 \in DOMAIN prog[p] /\ prog[p][i + 1].do = "plan"
    <3> DEFINE s == prog[p]
               t == Tail(prog[p])
    <3>1. /\ t \in Seq(Instrs) /\ Len(t) = Len(s) - 1 /\ Len(s) \in Nat \ {0}
          /\ \A k \in 1 .. Len(s) - 1 : t[k] = s[k + 1]
        BY <1>1, TailFacts
    <3>2. i \in DOMAIN t /\ t[i].do = "plan"
        BY <1>1, <1>2
    <3>3. s \in Seq(Instrs)
        BY <1>1
    <3> HIDE DEF s, t
    <3>4. i \in 1 .. Len(s) - 1 /\ i + 1 \in DOMAIN s /\ s[i + 1].do = "plan"
        BY <3>1, <3>2, <3>3
    <3> QED BY <3>4 DEF s
  <2>2. Planning(p)
      BY <2>1 DEF TypeInv, Shape
  <2>3. CASE prog[p] = <<Get, Instr("plan")>>
    <3>1. /\ Head(prog[p]) = Get /\ Tail(prog[p]) = <<Instr("plan")>>
          /\ Tail(prog[p]) # <<>> /\ Head(Tail(prog[p])) = Instr("plan")
        BY <2>3
    <3>2. Doing(p, "get") /\ Instr("plan").do = "plan"
        BY <1>1, <3>1, InstrFacts DEF Get, Doing, Busy
    <3> QED BY <3>1, <3>2
  <2>4. CASE prog[p] = <<Clear, Get, Instr("plan")>> /\ op[p].kind \in {"set", "adds"}
    <3>1. Tail(prog[p]) = <<Get, Instr("plan")>>
        BY <2>4
    <3> QED BY <1>1, <2>4, <3>1 DEF Planning
  <2> QED BY <2>2, <2>3, <2>4 DEF Planning
<1> QED BY <1>2 DEF Shape

LEMMA ShapeOfSettled ==
    ASSUME NEW p \in Procs, prog'[p] \in Seq(Settled), phase'[p] = "ask"
    PROVE  Shape(p)'
BY SettledPrograms DEF Shape

\* A call that goes on to the next command, which does not depend on a
\* reading: of all the commands but get.
LEMMA GotoTail ==
    ASSUME TypeInv, NEW p \in Procs, Busy(p), ~Doing(p, "get"),
           Proceed(p, Tail(prog[p])), Disturb(p), UNCHANGED <<phase, view>>,
           rotation' \in Rotations, cache' \in Rotations \cup {Nothing},
           twice' \in [Procs -> BOOLEAN]
    PROVE  TypeInv'
<1>1. prog[p] \in Seq(Instrs) /\ prog[p] # <<>>
    BY DEF TypeInv, Busy
<1>2. Tail(prog[p]) \in Seq(Instrs)
    BY <1>1
<1>3. phase[p] = "ask"
    BY DEF TypeInv, Shape
<1>4. prog' = [prog EXCEPT ![p] = Tail(prog[p])] /\ op' = op /\ phase' = phase
    BY DEF Proceed
<1>5. Shape(p)'
    BY <1>3, <1>4, TailShape
<1>6. /\ alone' \in [Procs -> BOOLEAN] /\ view' \in [Procs -> Rotations]
      /\ op' \in [Procs -> Calls] /\ phase' \in [Procs -> {"ask", "read", "store"}]
      /\ failed' \in [Procs -> BOOLEAN] /\ before' \in [Procs -> Rotations]
      /\ fresh' \in [Procs -> BOOLEAN]
    BY DEF Proceed, Disturb, TypeInv, RotationTypeOK
<1> QED BY <1>2, <1>4, <1>5, <1>6, TypeStep

\* What follows a reading.
Follow(p, s) ==
    IF Tail(prog[p]) # <<>> /\ Head(Tail(prog[p])).do = "plan"
    THEN Plan(op[p], s) ELSE Tail(prog[p])

LEMMA FollowFacts ==
    ASSUME TypeInv, NEW p \in Procs, Doing(p, "get"), NEW s \in Rotations
    PROVE  /\ Follow(p, s) \in Seq(Instrs)
           /\ \/ /\ Planning(p) /\ prog[p] = <<Get, Instr("plan")>>
                 /\ Follow(p, s) = Plan(op[p], s) /\ Follow(p, s) \in Seq(Settled)
              \/ /\ ~Planning(p) /\ Follow(p, s) = Tail(prog[p])
                 /\ ~(Tail(prog[p]) # <<>> /\ Head(Tail(prog[p])).do = "plan")
<1> DEFINE t == Tail(prog[p])
<1>1. prog[p] \in Seq(Instrs) /\ prog[p] # <<>> /\ Head(prog[p]).do = "get"
    BY DEF TypeInv, Doing, Busy
<1>2. /\ t \in Seq(Instrs) /\ Len(t) = Len(prog[p]) - 1 /\ Len(prog[p]) \in Nat \ {0}
      /\ \A i \in 1 .. Len(prog[p]) - 1 : t[i] = prog[p][i + 1]
    BY <1>1, TailFacts
<1>3. CASE t # <<>> /\ Head(t).do = "plan"
  <2>1. Len(t) # 0 /\ Head(t) = t[1] /\ t[1] = prog[p][2] /\ 2 \in DOMAIN prog[p]
      BY <1>1, <1>2, <1>3
  <2>2. Planning(p)
      BY <1>3, <2>1 DEF TypeInv, Shape
  <2>3. prog[p] # <<Clear, Get, Instr("plan")>>
    <3>1. Clear.do = "clear"
        BY InstrFacts DEF Clear
    <3> QED BY <1>1, <3>1
  <2>4. prog[p] = <<Get, Instr("plan")>> /\ op[p].kind \in {"set", "adds", "apply"}
      BY <2>2, <2>3 DEF Planning
  <2>5. op[p] \in Calls /\ s \in Seq(Maps)
      BY RotationsFacts DEF TypeInv, RotationTypeOK
  <2>6. Plan(op[p], s) \in Seq(Settled)
      BY <2>4, <2>5, PlanType
  <2>7. Follow(p, s) = Plan(op[p], s)
      BY <1>3 DEF Follow
  <2> QED BY <2>2, <2>4, <2>6, <2>7, SettledPrograms
<1>4. CASE ~(t # <<>> /\ Head(t).do = "plan")
  <2>1. Follow(p, s) = t
      BY <1>4 DEF Follow
  <2>2. ~Planning(p)
    <3>1. CASE prog[p] = <<Get, Instr("plan")>>
      <4>1. t = <<Instr("plan")>> /\ Instr("plan").do = "plan"
          BY <3>1, InstrFacts
      <4> HIDE DEF t
      <4>2. t # <<>> /\ Head(t) = Instr("plan")
          BY <4>1
      <4> QED BY <1>4, <4>1, <4>2
    <3>2. CASE prog[p] = <<Clear, Get, Instr("plan")>>
      <4>1. Clear.do = "clear"
          BY InstrFacts DEF Clear
      <4> QED BY <1>1, <3>2, <4>1
    <3> QED BY <3>1, <3>2 DEF Planning
  <2> QED BY <1>2, <1>4, <2>1, <2>2
<1> QED BY <1>3, <1>4

LEMMA GotType ==
    ASSUME TypeInv, NEW p \in Procs, Doing(p, "get"), NEW s \in Rotations, Got(p, s),
           Disturb(p), rotation' = rotation, cache' \in Rotations \cup {Nothing}, twice' = twice
    PROVE  TypeInv'
<1>1. prog' = [prog EXCEPT ![p] = Follow(p, s)] /\ op' = op
    BY DEF Got, Proceed, Follow
<1>2. Follow(p, s) \in Seq(Instrs)
    BY FollowFacts
<1>3. phase' = [phase EXCEPT ![p] = "ask"] /\ phase'[p] = "ask"
    BY DEF Got, TypeInv, RotationTypeOK
<1>4. prog'[p] = Follow(p, s)
    BY <1>1 DEF TypeInv
<1>5. Shape(p)'
  <2>1. CASE Planning(p)
      BY <1>3, <1>4, <2>1, FollowFacts, ShapeOfSettled
  <2>2. CASE ~Planning(p)
    <3>1. /\ Follow(p, s) = Tail(prog[p])
          /\ ~(Tail(prog[p]) # <<>> /\ Head(Tail(prog[p])).do = "plan")
        BY <2>2, FollowFacts
    <3> QED BY <1>1, <1>3, <3>1, TailShape DEF Doing
  <2> QED BY <2>1, <2>2
<1>6. /\ alone' \in [Procs -> BOOLEAN] /\ view' \in [Procs -> Rotations]
      /\ op' \in [Procs -> Calls] /\ phase' \in [Procs -> {"ask", "read", "store"}]
      /\ failed' \in [Procs -> BOOLEAN] /\ before' \in [Procs -> Rotations]
      /\ fresh' \in [Procs -> BOOLEAN] /\ twice' \in [Procs -> BOOLEAN]
      /\ rotation' \in Rotations
    BY DEF Got, Proceed, Disturb, TypeInv, RotationTypeOK
<1>7. \A q \in Procs : q # p => op'[q] = op[q] /\ phase'[q] = phase[q]
    BY <1>1, <1>3 DEF TypeInv, RotationTypeOK
<1> QED BY <1>1, <1>2, <1>5, <1>6, <1>7, TypeStep

LEMMA FailType ==
    ASSUME TypeInv, NEW p \in Procs, Fail(p), rotation' \in Rotations,
           twice' \in [Procs -> BOOLEAN]
    PROVE  TypeInv'
<1>1. prog' = [prog EXCEPT ![p] = <<>>] /\ <<>> \in Seq(Instrs) /\ op' = op
    BY DEF Fail
<1>2. phase' = [phase EXCEPT ![p] = "ask"] /\ phase'[p] = "ask"
    BY DEF Fail, TypeInv, RotationTypeOK
<1>3. prog'[p] = <<>> /\ <<>> \in Seq(Settled)
    BY <1>1 DEF TypeInv
<1>4. Shape(p)'
    BY <1>2, <1>3, ShapeOfSettled
<1>5. /\ alone' \in [Procs -> BOOLEAN] /\ view' \in [Procs -> Rotations]
      /\ op' \in [Procs -> Calls] /\ phase' \in [Procs -> {"ask", "read", "store"}]
      /\ failed' \in [Procs -> BOOLEAN] /\ before' \in [Procs -> Rotations]
      /\ fresh' \in [Procs -> BOOLEAN] /\ cache' \in Rotations \cup {Nothing}
    BY DEF Fail, Disturb, TypeInv, RotationTypeOK
<1>6. \A q \in Procs : q # p => op'[q] = op[q] /\ phase'[q] = phase[q]
    BY <1>1, <1>2 DEF TypeInv, RotationTypeOK
<1> QED BY <1>1, <1>4, <1>5, <1>6, TypeStep

LEMMA StartType ==
    ASSUME TypeInv, NEW p \in Procs, NEW task \in Calls, Start(p, task)
    PROVE  TypeInv'
<1>1. Program(task) \in Seq(Instrs) /\ prog' = [prog EXCEPT ![p] = Program(task)]
    BY ProgramType DEF Start
<1>2. prog'[p] = Program(task) /\ op'[p] = task /\ phase' = phase
    BY <1>1 DEF TypeInv, RotationTypeOK, Start
<1>3. phase[p] = "ask"
    BY DEF TypeInv, Shape, Doing, Start
<1>4. Shape(p)'
  <2>1. CASE Program(task) \in Seq(Settled)
      BY <1>2, <1>3, <2>1, ShapeOfSettled
  <2>2. CASE Program(task) \notin Seq(Settled)
    <3>1. Planning(p)'
        BY <1>2, <2>2, ProgramType DEF Planning
    <3> QED BY <1>2, <1>3, <3>1 DEF Shape
  <2> QED BY <2>1, <2>2
<1>5. /\ rotation' = rotation /\ rotation \in Rotations
      /\ cache' \in Rotations \cup {Nothing}
      /\ view' \in [Procs -> Rotations] /\ op' \in [Procs -> Calls]
      /\ phase' \in [Procs -> {"ask", "read", "store"}]
    BY DEF Start, TypeInv, RotationTypeOK
<1>6. /\ failed' \in [Procs -> BOOLEAN]
      /\ twice' \in [Procs -> BOOLEAN] /\ before' \in [Procs -> Rotations]
    BY DEF Start, TypeInv, RotationTypeOK
<1>7. alone' \in [Procs -> BOOLEAN]
    BY DEF Start
<1>8. fresh' \in [Procs -> BOOLEAN]
  <2>1. fresh \in [Procs -> BOOLEAN] /\ fresh' = [fresh EXCEPT ![p] = Fresh] /\ Fresh \in BOOLEAN
      BY DEF Start, TypeInv, RotationTypeOK, Fresh
  <2> QED BY <2>1
<1>9. \A q \in Procs : q # p => op'[q] = op[q] /\ phase'[q] = phase[q]
    BY DEF Start, TypeInv, RotationTypeOK
<1> QED BY <1>1, <1>4, <1>5, <1>6, <1>7, <1>8, <1>9, TypeStep

LEMMA ReadType ==
    ASSUME TypeInv, NEW p \in Procs, Doing(p, "get"), Disturb(p),
           \/ phase' = [phase EXCEPT ![p] = "read"] /\ view' = view
           \/ phase' = [phase EXCEPT ![p] = "store"] /\ view' = [view EXCEPT ![p] = rotation],
           UNCHANGED <<rotation, cache, prog, op, failed, before, fresh, twice>>
    PROVE  TypeInv'
<1>1. prog' = [prog EXCEPT ![p] = prog[p]] /\ prog[p] \in Seq(Instrs) /\ prog' = prog /\ op' = op
    BY DEF TypeInv
<1>2. Shape(p)'
  <2>1. Shape(p)
      BY DEF TypeInv
  <2> QED BY <1>1, <2>1 DEF Shape, Doing, Busy, Planning
<1>3. /\ alone' \in [Procs -> BOOLEAN] /\ view' \in [Procs -> Rotations]
      /\ op' \in [Procs -> Calls] /\ phase' \in [Procs -> {"ask", "read", "store"}]
      /\ failed' \in [Procs -> BOOLEAN] /\ before' \in [Procs -> Rotations]
      /\ fresh' \in [Procs -> BOOLEAN] /\ cache' \in Rotations \cup {Nothing}
      /\ twice' \in [Procs -> BOOLEAN] /\ rotation' \in Rotations
    BY DEF Disturb, TypeInv, RotationTypeOK
<1>4. \A q \in Procs : q # p => op'[q] = op[q] /\ phase'[q] = phase[q]
    BY <1>1 DEF TypeInv, RotationTypeOK
<1> QED BY <1>1, <1>2, <1>3, <1>4, TypeStep

LEMMA TypeInductive == TypeInv /\ [RotationNext]_rotationVars => TypeInv'
<1> SUFFICES ASSUME TypeInv, [RotationNext]_rotationVars PROVE TypeInv'
    OBVIOUS
<1>1. rotation \in Rotations /\ cache \in Rotations \cup {Nothing} /\ twice \in [Procs -> BOOLEAN]
      /\ view \in [Procs -> Rotations]
    BY DEF TypeInv, RotationTypeOK
<1>2. CASE UNCHANGED rotationVars
    BY <1>2 DEF rotationVars, TypeInv, RotationTypeOK, Shape, Planning, Doing, Busy
<1>3. CASE Lapse
  <2>1. RotationTypeOK'
      BY <1>3 DEF Lapse, TypeInv, RotationTypeOK
  <2> QED BY <1>3, <2>1 DEF Lapse, TypeInv, Shape, Planning, Doing, Busy
<1>4. ASSUME NEW p \in Procs, RotationStep(p) PROVE TypeInv'
  <2>1. ASSUME NEW task \in Calls, Start(p, task) PROVE TypeInv'
      BY <2>1, StartType
  <2>2. CASE ClearCache(p)
    <3>1. Busy(p) /\ ~Doing(p, "get")
        BY <2>2 DEF ClearCache, Doing
    <3> QED BY <1>1, <2>2, <3>1, GotoTail DEF ClearCache
  <2>3. CASE Ask(p)
    <3>1. CASE cache # Nothing
        BY <1>1, <2>3, <3>1, GotType DEF Ask
    <3>2. CASE cache = Nothing
        BY <1>1, <2>3, <3>2, ReadType DEF Ask
    <3> QED BY <3>1, <3>2
  <2>4. CASE Read(p)
      BY <2>4, ReadType DEF Read
  <2>5. CASE Store(p)
    <3>1. view[p] \in Rotations
        BY <1>1
    <3> QED BY <2>5, <3>1, GotType DEF Store
  <2>6. CASE Command(p)
    <3>1. Changes(p) /\ Busy(p) /\ ~Doing(p, "get")
        BY <2>6 DEF Command, Changes, Sends, Doing
    <3>2. rotation' \in Rotations /\ twice' \in [Procs -> BOOLEAN]
        BY <3>1, ChangesFacts
    <3> QED BY <1>1, <2>6, <3>1, <3>2, GotoTail DEF Command
  <2>7. CASE CommandFails(p)
    <3>1. rotation' \in Rotations /\ twice' \in [Procs -> BOOLEAN]
      <4>1. CASE Changes(p)
          BY <4>1, ChangesFacts
      <4>2. CASE UNCHANGED <<rotation, twice>>
          BY <1>1, <4>2
      <4> QED BY <2>7, <4>1, <4>2 DEF CommandFails
    <3> QED BY <2>7, <3>1, FailType DEF CommandFails
  <2>8. CASE IndexFails(p)
      BY <1>1, <2>8, FailType DEF IndexFails
  <2>9. CASE Verify(p)
    <3>1. Busy(p) /\ ~Doing(p, "get")
        BY <2>9 DEF Verify, Doing
    <3> QED BY <1>1, <2>9, <3>1, GotoTail DEF Verify
  <2>10. CASE VerifyFails(p)
      BY <1>1, <2>10, FailType DEF VerifyFails
  <2> QED BY <1>4, <2>1, <2>2, <2>3, <2>4, <2>5, <2>6, <2>7, <2>8, <2>9, <2>10 DEF RotationStep
<1> QED BY <1>2, <1>3, <1>4 DEF RotationNext

LEMMA TypeInit == RotationInit => TypeInv
<1> SUFFICES ASSUME RotationInit PROVE TypeInv
    OBVIOUS
<1>1. <<>> \in Rotations
  <2>1. <<>> \in Seq(Maps) /\ Len(<<>>) <= MaxLen
      BY RotationAssumption
  <2> QED BY <2>1, RotationsFacts
<1>2. [kind |-> "look", maps |-> <<>>] \in Calls
  <2> DEFINE task == [kind |-> "look", maps |-> <<>>]
  <2>1. <<>> \in Seq(Maps) /\ Len(<<>>) <= MaxMaps
      BY RotationAssumption
  <2>2. <<>> \in BoundedSeq(Maps, MaxMaps)
      BY <2>1, BoundedFacts, RotationAssumption
  <2>3. /\ task \in [kind : Operations, maps : BoundedSeq(Maps, MaxMaps)]
        /\ task.kind = "look" /\ task.maps = <<>>
      BY <2>2 DEF Operations
  <2> HIDE DEF task
  <2>4. task \in Calls
      BY <2>3 DEF Calls
  <2> QED BY <2>4 DEF task
<1>3. RotationTypeOK
    BY <1>1, <1>2 DEF RotationInit, RotationTypeOK
<1>4. prog \in [Procs -> Seq(Instrs)]
    BY DEF RotationInit
<1>5. ASSUME NEW p \in Procs PROVE Shape(p)
  <2>1. phase[p] = "ask" /\ prog[p] = <<>>
      BY DEF RotationInit
  <2>2. DOMAIN <<>> = {}
      OBVIOUS
  <2> QED BY <2>1, <2>2 DEF Shape
<1> QED BY <1>3, <1>4, <1>5 DEF TypeInv

-----------------------------------------------------------------------------
(* The rotation is never emptied.                                          *)

\* What is left of a program takes a rotation of n maps to one of m, and there
\* is a map after every command on the way.
Leads(todo, n, m) ==
    \E h \in [0 .. Len(todo) -> Nat \ {0}] :
        /\ h[0] = n /\ h[Len(todo)] = m
        /\ \A i \in 1 .. Len(todo) : h[i] = After(todo[i], h[i - 1])

LEMMA LeadsNothing ==
    ASSUME NEW n \in Nat \ {0}
    PROVE  Leads(<<>>, n, n)
<1> DEFINE h == [i \in 0 .. 0 |-> n]
<1>1. Len(<<>>) = 0 /\ h \in [0 .. 0 -> Nat \ {0}] /\ h[0] = n
    OBVIOUS
<1>2. 1 .. 0 = {}
    OBVIOUS
<1> HIDE DEF h
<1> QED BY <1>1, <1>2 DEF Leads

LEMMA LeadsTail ==
    ASSUME NEW s \in Seq(Instrs), s # <<>>, NEW n, NEW m, Leads(s, n, m)
    PROVE  /\ After(Head(s), n) \in Nat \ {0}
           /\ Leads(Tail(s), After(Head(s), n), m)
<1> DEFINE t == Tail(s)
<1>1. PICK h \in [0 .. Len(s) -> Nat \ {0}] :
         /\ h[0] = n /\ h[Len(s)] = m
         /\ \A i \in 1 .. Len(s) : h[i] = After(s[i], h[i - 1])
    BY DEF Leads
<1>2. /\ t \in Seq(Instrs) /\ Len(t) = Len(s) - 1 /\ Len(s) \in Nat \ {0}
      /\ Head(s) = s[1] /\ \A i \in 1 .. Len(s) - 1 : t[i] = s[i + 1]
    BY TailFacts
<1> DEFINE g == [i \in 0 .. Len(s) - 1 |-> h[i + 1]]
<1>3. g \in [0 .. Len(s) - 1 -> Nat \ {0}]
    BY <1>2
<1>4. h[1] = After(Head(s), n) /\ h[1] \in Nat \ {0}
  <2>1. 1 \in 1 .. Len(s) /\ 1 \in 0 .. Len(s) /\ 1 - 1 = 0
      BY <1>2
  <2> QED BY <1>1, <1>2, <2>1
<1>5. g[0] = h[1] /\ g[Len(s) - 1] = m
  <2>1. 0 \in 0 .. Len(s) - 1 /\ Len(s) - 1 \in 0 .. Len(s) - 1 /\ Len(s) - 1 + 1 = Len(s)
      BY <1>2
  <2> QED BY <1>1, <2>1
<1>6. ASSUME NEW i \in 1 .. Len(s) - 1 PROVE g[i] = After(t[i], g[i - 1])
  <2>1. i + 1 \in 1 .. Len(s) /\ (i + 1) - 1 = i /\ i \in 0 .. Len(s) - 1 /\ i - 1 \in 0 .. Len(s) - 1
        /\ (i - 1) + 1 = i
      BY <1>2
  <2>2. g[i] = h[i + 1] /\ g[i - 1] = h[i]
      BY <2>1
  <2>3. h[i + 1] = After(s[i + 1], h[i])
      BY <1>1, <2>1
  <2> HIDE DEF t, g
  <2> QED BY <1>2, <2>2, <2>3
<1> HIDE DEF t, g
<1>7. Leads(t, h[1], m)
    BY <1>2, <1>3, <1>5, <1>6 DEF Leads
<1> QED BY <1>4, <1>7 DEF t

LEMMA LeadsJoin ==
    ASSUME NEW s \in Seq(Instrs), NEW t \in Seq(Instrs), NEW n, NEW m, NEW k,
           Leads(s, n, m), Leads(t, m, k)
    PROVE  Leads(s \o t, n, k)
<1> DEFINE j == s \o t
<1>1. PICK h \in [0 .. Len(s) -> Nat \ {0}] :
         /\ h[0] = n /\ h[Len(s)] = m
         /\ \A i \in 1 .. Len(s) : h[i] = After(s[i], h[i - 1])
    BY DEF Leads
<1>2. PICK g \in [0 .. Len(t) -> Nat \ {0}] :
         /\ g[0] = m /\ g[Len(t)] = k
         /\ \A i \in 1 .. Len(t) : g[i] = After(t[i], g[i - 1])
    BY DEF Leads
<1>3. /\ Len(s) \in Nat /\ Len(t) \in Nat /\ j \in Seq(Instrs) /\ Len(j) = Len(s) + Len(t)
      /\ \A i \in 1 .. Len(s) + Len(t) : j[i] = IF i <= Len(s) THEN s[i] ELSE t[i - Len(s)]
    OBVIOUS
<1> DEFINE f == [i \in 0 .. Len(s) + Len(t) |-> IF i <= Len(s) THEN h[i] ELSE g[i - Len(s)]]
<1> HIDE DEF j
<1>4. ASSUME NEW i \in 0 .. Len(s)
      PROVE  f[i] = h[i] /\ f[i] \in Nat \ {0} /\ i \in 0 .. Len(s) + Len(t)
  <2>1. i \in 0 .. Len(s) + Len(t) /\ i <= Len(s)
      BY <1>3
  <2> QED BY <2>1
<1>5. ASSUME NEW i \in 0 .. Len(t)
      PROVE  f[i + Len(s)] = g[i] /\ f[i + Len(s)] \in Nat \ {0}
             /\ i + Len(s) \in 0 .. Len(s) + Len(t)
  <2>1. i + Len(s) \in 0 .. Len(s) + Len(t) /\ (i + Len(s)) - Len(s) = i
      BY <1>3
  <2>2. CASE i = 0
    <3>1. i + Len(s) = Len(s) /\ f[Len(s)] = h[Len(s)] /\ Len(s) \in 0 .. Len(s)
        BY <1>3, <1>4, <2>2
    <3>2. g[i] = m /\ h[Len(s)] = m
        BY <1>1, <1>2, <2>2
    <3> HIDE DEF f
    <3> QED BY <1>2, <2>1, <3>1, <3>2
  <2>3. CASE i # 0
    <3>1. ~(i + Len(s) <= Len(s))
        BY <1>3, <2>3
    <3> QED BY <2>1, <3>1
  <2> QED BY <2>2, <2>3
<1>6. f \in [0 .. Len(j) -> Nat \ {0}]
  <2>1. ASSUME NEW i \in 0 .. Len(s) + Len(t) PROVE f[i] \in Nat \ {0}
    <3>1. CASE i <= Len(s)
      <4>1. i \in 0 .. Len(s)
          BY <1>3, <3>1
      <4> QED BY <1>4, <4>1
    <3>2. CASE ~(i <= Len(s))
      <4>1. i - Len(s) \in 0 .. Len(t) /\ (i - Len(s)) + Len(s) = i
          BY <1>3, <3>2
      <4> HIDE DEF f
      <4> QED BY <1>5, <4>1
    <3> QED BY <3>1, <3>2
  <2>2. f = [i \in 0 .. Len(s) + Len(t) |-> f[i]]
      OBVIOUS
  <2> HIDE DEF f
  <2> QED BY <1>3, <2>1, <2>2
<1>7. f[0] = n /\ f[Len(j)] = k
  <2>1. 0 \in 0 .. Len(s) /\ Len(t) \in 0 .. Len(t) /\ Len(t) + Len(s) = Len(j)
      BY <1>3
  <2> HIDE DEF f
  <2> QED BY <1>1, <1>2, <1>4, <1>5, <2>1
<1>8. ASSUME NEW i \in 1 .. Len(j) PROVE f[i] = After(j[i], f[i - 1])
  <2>1. CASE i <= Len(s)
    <3>1. i \in 1 .. Len(s) /\ i \in 0 .. Len(s) /\ i - 1 \in 0 .. Len(s) /\ i \in 1 .. Len(s) + Len(t)
        BY <1>3, <2>1
    <3>2. f[i] = h[i] /\ f[i - 1] = h[i - 1]
        BY <1>4, <3>1
    <3>3. j[i] = s[i] /\ h[i] = After(s[i], h[i - 1])
        BY <1>1, <1>3, <2>1, <3>1
    <3> HIDE DEF f
    <3> QED BY <3>2, <3>3
  <2>2. CASE ~(i <= Len(s))
    <3> DEFINE e == i - Len(s)
    <3>1. /\ e \in 1 .. Len(t) /\ e \in 0 .. Len(t) /\ e - 1 \in 0 .. Len(t)
          /\ e + Len(s) = i /\ (e - 1) + Len(s) = i - 1 /\ i \in 1 .. Len(s) + Len(t)
        BY <1>3, <2>2
    <3> HIDE DEF f
    <3>2. f[e + Len(s)] = g[e] /\ f[(e - 1) + Len(s)] = g[e - 1]
        BY <1>5, <3>1
    <3>3. j[i] = t[e] /\ g[e] = After(t[e], g[e - 1])
        BY <1>2, <1>3, <2>2, <3>1
    <3> HIDE DEF e
    <3> QED BY <3>1, <3>2, <3>3
  <2> QED BY <2>1, <2>2
<1> HIDE DEF f
<1>9. Leads(j, n, k)
    BY <1>6, <1>7, <1>8 DEF Leads
<1> QED BY <1>9 DEF j

\* Commands that leave the rotation alone.
LEMMA LeadsNeutral ==
    ASSUME NEW s \in Seq(Instrs), NEW n \in Nat \ {0},
           \A i \in DOMAIN s : s[i].do \notin {"add", "addlast", "del"}
    PROVE  Leads(s, n, n)
<1> DEFINE h == [i \in 0 .. Len(s) |-> n]
<1>1. Len(s) \in Nat /\ DOMAIN s = 1 .. Len(s)
    OBVIOUS
<1>2. h \in [0 .. Len(s) -> Nat \ {0}] /\ h[0] = n /\ h[Len(s)] = n
    BY <1>1
<1>3. ASSUME NEW i \in 1 .. Len(s) PROVE h[i] = After(s[i], h[i - 1])
  <2>1. i \in 0 .. Len(s) /\ i - 1 \in 0 .. Len(s) /\ i \in DOMAIN s
      BY <1>1
  <2>2. h[i] = n /\ h[i - 1] = n
      BY <2>1
  <2>3. s[i].do \notin {"add", "addlast", "del"}
      BY <2>1
  <2> HIDE DEF h
  <2> QED BY <2>2, <2>3 DEF After
<1> HIDE DEF h
<1> QED BY <1>2, <1>3 DEF Leads

LEMMA LeadsAdds ==
    ASSUME NEW s \in Seq(Instrs), NEW n \in Nat \ {0},
           \A i \in DOMAIN s : s[i].do \in {"add", "addlast"}
    PROVE  Leads(s, n, n + Len(s))
<1> DEFINE h == [i \in 0 .. Len(s) |-> n + i]
<1>1. Len(s) \in Nat /\ DOMAIN s = 1 .. Len(s)
    OBVIOUS
<1>2. h \in [0 .. Len(s) -> Nat \ {0}] /\ h[0] = n /\ h[Len(s)] = n + Len(s)
    BY <1>1
<1>3. ASSUME NEW i \in 1 .. Len(s) PROVE h[i] = After(s[i], h[i - 1])
  <2>1. /\ i \in 0 .. Len(s) /\ i - 1 \in 0 .. Len(s) /\ i \in DOMAIN s
        /\ (n + (i - 1)) + 1 = n + i
      BY <1>1
  <2>2. h[i] = n + i /\ h[i - 1] = n + (i - 1)
      BY <2>1
  <2>3. s[i].do \in {"add", "addlast"}
      BY <2>1
  <2> HIDE DEF h
  <2> QED BY <2>1, <2>2, <2>3 DEF After
<1> HIDE DEF h
<1> QED BY <1>2, <1>3 DEF Leads

LEMMA LeadsDels ==
    ASSUME NEW s \in Seq(Instrs), NEW n \in Nat, n > Len(s),
           \A i \in DOMAIN s : s[i].do = "del"
    PROVE  Leads(s, n, n - Len(s))
<1> DEFINE h == [i \in 0 .. Len(s) |-> n - i]
<1>1. Len(s) \in Nat /\ DOMAIN s = 1 .. Len(s)
    OBVIOUS
<1>2. h \in [0 .. Len(s) -> Nat \ {0}] /\ h[0] = n /\ h[Len(s)] = n - Len(s)
    BY <1>1
<1>3. ASSUME NEW i \in 1 .. Len(s) PROVE h[i] = After(s[i], h[i - 1])
  <2>1. /\ i \in 0 .. Len(s) /\ i - 1 \in 0 .. Len(s) /\ i \in DOMAIN s
        /\ (n - (i - 1)) - 1 = n - i
      BY <1>1
  <2>2. h[i] = n - i /\ h[i - 1] = n - (i - 1)
      BY <2>1
  <2>3. s[i].do = "del"
      BY <2>1
  <2> HIDE DEF h
  <2> QED BY <2>1, <2>2, <2>3 DEF After
<1> HIDE DEF h
<1> QED BY <1>2, <1>3 DEF Leads

\* add_map_to_rotation and remove_map_from_rotation
LEMMA LeadsAddRemove ==
    ASSUME NEW m \in Maps, NEW n \in Nat \ {0}
    PROVE  /\ Leads(AddMap(m), n, n + 1)
           /\ n > 1 => Leads(RemoveMap(m), n, n - 1)
<1> DEFINE clear == <<Clear>>
           get == <<Get>>
           add == <<AddLast(m)>>
           del == <<Del(m, 1)>>
<1>1. clear \in Seq(Instrs) /\ get \in Seq(Instrs) /\ add \in Seq(Instrs) /\ del \in Seq(Instrs)
    BY InstrFacts DEF Clear, Get
<1>2. ASSUME NEW k \in Nat \ {0} PROVE Leads(clear, k, k) /\ Leads(get, k, k)
  <2>1. Clear.do = "clear" /\ Get.do = "get"
      BY InstrFacts DEF Clear, Get
  <2>2. /\ \A i \in DOMAIN clear : clear[i].do \notin {"add", "addlast", "del"}
        /\ \A i \in DOMAIN get : get[i].do \notin {"add", "addlast", "del"}
      BY <2>1
  <2> HIDE DEF clear, get
  <2> QED BY <1>1, <2>2, LeadsNeutral
<1>3. Leads(add, n, n + 1)
  <2>1. Len(add) = 1 /\ \A i \in DOMAIN add : add[i].do \in {"add", "addlast"}
      BY InstrFacts
  <2> HIDE DEF add
  <2> QED BY <1>1, <2>1, LeadsAdds
<1>4. n > 1 => Leads(del, n, n - 1)
  <2>1. Len(del) = 1 /\ \A i \in DOMAIN del : del[i].do = "del"
      BY InstrFacts
  <2> HIDE DEF del
  <2> QED BY <1>1, <2>1, LeadsDels
<1>5. <<Get, AddLast(m)>> = get \o add
    OBVIOUS
<1>6. n + 1 \in Nat \ {0} /\ (n > 1 => n - 1 \in Nat \ {0})
    OBVIOUS
<1> HIDE DEF clear, get, add, del
<1> DEFINE body == get \o add
           begun == clear \o body
           begun2 == clear \o del
<1>7. body \in Seq(Instrs) /\ Leads(body, n, n + 1)
    BY <1>1, <1>2, <1>3, LeadsJoin
<1> HIDE DEF body
<1>8. begun \in Seq(Instrs) /\ Leads(begun, n, n + 1)
    BY <1>1, <1>2, <1>7, LeadsJoin
<1>9. begun2 \in Seq(Instrs) /\ (n > 1 => Leads(begun2, n, n - 1))
    BY <1>1, <1>2, <1>4, LeadsJoin
<1> HIDE DEF begun, begun2
<1>10. Leads(begun \o clear, n, n + 1)
  <2>1. Leads(clear, n + 1, n + 1)
      BY <1>2, <1>6
  <2> QED BY <1>1, <1>8, <2>1, LeadsJoin
<1>11. n > 1 => Leads(begun2 \o clear, n, n - 1)
  <2> SUFFICES ASSUME n > 1 PROVE Leads(begun2 \o clear, n, n - 1)
      OBVIOUS
  <2>1. Leads(clear, n - 1, n - 1)
      BY <1>2, <1>6
  <2> QED BY <1>1, <1>9, <2>1, LeadsJoin
<1>12. AddMap(m) = begun \o clear
    BY <1>5, Zenon DEF AddMap, Invalidating, begun, body, clear
<1>13. RemoveMap(m) = begun2 \o clear
    BY Zenon DEF RemoveMap, Invalidating, begun2, del, clear
<1> QED BY <1>10, <1>11, <1>12, <1>13

\* All the maps but the first are removed, one after the other.
LEMMA LeadsRemovals ==
    ASSUME NEW current \in Seq(Maps), current # <<>>
    PROVE  Leads(FlattenSeq(Removals(current)), Len(current), 1)
<1> DEFINE seqs == Removals(current)
           n == Len(current)
<1>1. n \in Nat \ {0} /\ \A i \in 1 .. n : current[i] \in Maps
    OBVIOUS
<1>2. /\ seqs \in Seq(Seq(Settled)) /\ Len(seqs) = n - 1
      /\ \A i \in 1 .. n - 1 : seqs[i] = RemoveMap(current[i + 1])
  <2>1. seqs \in Seq(Seq(Settled))
      BY RemovalsType
  <2>2. n - 1 \in Nat /\ DOMAIN seqs = 1 .. n - 1
      BY <1>1 DEF Removals
  <2>3. \A i \in 1 .. n - 1 : seqs[i] = RemoveMap(current[i + 1])
      BY DEF Removals
  <2> HIDE DEF seqs
  <2>4. Len(seqs) = n - 1
      BY <2>1, <2>2
  <2> QED BY <2>1, <2>3, <2>4
<1>3. Seq(Settled) \subseteq Seq(Instrs)
    BY SettledPrograms
<1> HIDE DEF seqs
<1>4. ASSUME NEW i \in 1 .. n - 1
      PROVE  seqs[i] \in Seq(Instrs) /\ Leads(seqs[i], n - i + 1, n - i)
  <2>1. /\ current[i + 1] \in Maps /\ n - i + 1 \in Nat \ {0} /\ n - i + 1 > 1
        /\ (n - i + 1) - 1 = n - i
      BY <1>1
  <2>2. Leads(RemoveMap(current[i + 1]), n - i + 1, n - i)
      BY <2>1, LeadsAddRemove
  <2>3. seqs[i] \in Seq(Settled)
      BY <1>2
  <2> QED BY <1>2, <1>3, <2>2, <2>3
<1>5. CASE seqs = <<>>
  <2>1. Len(seqs) = 0 /\ n = 1
      BY <1>1, <1>2, <1>5
  <2>2. FlattenSeq(seqs) = <<>>
      BY <1>2, <1>5, FlattenFacts
  <2> QED BY <2>1, <2>2, LeadsNothing DEF seqs
<1>6. CASE seqs # <<>>
  <2>1. PICK f \in [1 .. Len(seqs) -> Seq(Settled)] :
           /\ FlattenSeq(seqs) = f[Len(seqs)]
           /\ f[1] = seqs[1]
           /\ \A i \in 2 .. Len(seqs) : f[i] = f[i - 1] \o seqs[i]
      BY <1>2, <1>6, FlattenFacts
  <2> DEFINE T == {i \in 1 .. n - 1 : ~Leads(f[i], n, n - i)}
  <2>2. ASSUME T # {} PROVE FALSE
    <3>1. PICK i \in T : \A k \in T : i <= k
      <4>1. T \subseteq Nat
          BY <1>1
      <4> HIDE DEF T
      <4> QED BY <2>2, <4>1, LeastNumber
    <3>2. i \in 1 .. n - 1 /\ i \in Nat /\ ~Leads(f[i], n, n - i)
        BY <1>1
    <3>3. CASE i = 1
      <4>1. n - 1 + 1 = n
          BY <1>1
      <4>2. Leads(seqs[1], n, n - 1)
          BY <1>4, <3>2, <3>3, <4>1
      <4> QED BY <2>1, <3>2, <3>3, <4>2
    <3>4. CASE i # 1
      <4>1. i - 1 \in 1 .. n - 1 /\ ~(i <= i - 1) /\ n - (i - 1) = n - i + 1 /\ i \in 2 .. n - 1
          BY <1>1, <3>2, <3>4
      <4>2. Leads(f[i - 1], n, n - i + 1)
        <5>1. i - 1 \notin T
          <6> HIDE DEF T
          <6> QED BY <3>1, <4>1
        <5> QED BY <4>1, <5>1
      <4>3. f[i - 1] \in Seq(Instrs)
        <5>1. f[i - 1] \in Seq(Settled)
            BY <1>2, <4>1
        <5> QED BY <1>3, <5>1
      <4>4. Leads(f[i - 1] \o seqs[i], n, n - i)
          BY <1>4, <3>2, <4>2, <4>3, LeadsJoin
      <4>5. f[i] = f[i - 1] \o seqs[i]
          BY <1>2, <2>1, <4>1
      <4> QED BY <3>2, <4>4, <4>5
    <3> QED BY <3>3, <3>4
  <2>3. Len(seqs) \in 1 .. n - 1 /\ n - Len(seqs) = 1
      BY <1>1, <1>2, <1>6
  <2>4. Leads(f[Len(seqs)], n, n - Len(seqs))
      BY <2>2, <2>3
  <2> HIDE DEF n
  <2>5. Leads(FlattenSeq(seqs), n, 1)
      BY <2>1, <2>3, <2>4
  <2> QED BY <2>5 DEF seqs, n
<1> QED BY <1>5, <1>6

LEMMA ApplyLeads ==
    ASSUME NEW m \in Maps, NEW current \in Seq(Maps), current # <<>>
    PROVE  \E k : Leads(ApplyResults(m, current), Len(current), k)
<1> DEFINE a == FlattenSeq(Removals(current))
           b == Replacement(m, current)
           front == a \o b
<1>1. a \in Seq(Instrs) /\ b \in Seq(Instrs) /\ Check \in Seq(Instrs)
    BY RemovalsType, ReplacementType, SettledPrograms
<1>2. Leads(a, Len(current), 1)
    BY LeadsRemovals
<1>3. Leads(b, 1, 1)
  <2>1. CASE current[1] = m
      BY <2>1, LeadsNothing DEF Replacement
  <2>2. CASE current[1] # m
    <3> DEFINE add == AddMap(m)
               del == RemoveMap(current[1])
    <3>1. current[1] \in Maps
        OBVIOUS
    <3>2. add \in Seq(Instrs) /\ del \in Seq(Instrs)
        BY <3>1, AddRemoveType, SettledPrograms
    <3>3. Leads(add, 1, 2)
      <4>1. Leads(add, 1, 1 + 1)
          BY LeadsAddRemove
      <4> QED BY <4>1
    <3>4. Leads(del, 2, 1)
      <4>1. 2 \in Nat \ {0} /\ 2 > 1 /\ 2 - 1 = 1
          OBVIOUS
      <4>2. Leads(del, 2, 2 - 1)
          BY <3>1, <4>1, LeadsAddRemove
      <4> QED BY <4>1, <4>2
    <3> HIDE DEF add, del
    <3>5. Leads(add \o del, 1, 1)
        BY <3>2, <3>3, <3>4, LeadsJoin
    <3> QED BY <2>2, <3>5 DEF Replacement, add, del
  <2> QED BY <2>1, <2>2
<1>4. Leads(Check, 1, 1)
  <2>1. Get.do = "get" /\ Instr("verify").do = "verify"
      BY InstrFacts DEF Get
  <2>2. \A i \in DOMAIN Check : Check[i].do \notin {"add", "addlast", "del"}
      BY <2>1 DEF Check
  <2> QED BY <1>1, <2>2, LeadsNeutral
<1> HIDE DEF a, b
<1>5. front \in Seq(Instrs) /\ Leads(front, Len(current), 1)
    BY <1>1, <1>2, <1>3, LeadsJoin
<1> HIDE DEF front
<1>6. Leads(front \o Check, Len(current), 1)
    BY <1>1, <1>4, <1>5, LeadsJoin
<1> QED BY <1>6, ApplyParts DEF front, a, b

LEMMA SetLeads ==
    ASSUME NEW maps \in Seq(Maps), maps # <<>>, NEW current \in Seq(Maps), current # <<>>
    PROVE  \E k : Leads(SetRotation(maps, current), Len(current), k)
<1> DEFINE n == Len(current)
           dels == [i \in 1 .. n - 1 |-> Del(current[i + 1], 1)]
           adds == SetAdds(<<current[1]>>, maps)
           last == <<Del(current[1], 1)>>
           end == <<Clear, Get>>
           rest == last \o end
           front == dels \o adds
<1>1. /\ n \in Nat \ {0} /\ \A i \in 1 .. n : current[i] \in Maps
      /\ Len(maps) \in Nat \ {0} /\ DOMAIN maps = 1 .. Len(maps)
    OBVIOUS
<1>2. /\ dels \in Seq(Instrs) /\ Len(dels) = n - 1 /\ \A i \in DOMAIN dels : dels[i].do = "del"
    BY <1>1, InstrFacts
<1>3. Leads(dels, n, 1)
  <2> HIDE DEF dels
  <2>1. n > Len(dels) /\ n - Len(dels) = 1
      BY <1>1, <1>2
  <2>2. Leads(dels, n, n - Len(dels))
      BY <1>1, <1>2, <2>1, LeadsDels
  <2> QED BY <2>1, <2>2
<1>4. CASE maps = current
  <2>1. \A i \in DOMAIN <<Clear>> : <<Clear>>[i].do \notin {"add", "addlast", "del"}
    <3>1. Clear.do = "clear"
        BY InstrFacts DEF Clear
    <3> QED BY <3>1
  <2>2. <<Clear>> \in Seq(Instrs)
      BY InstrFacts DEF Clear
  <2>3. Leads(<<Clear>>, n, n)
      BY <1>1, <2>1, <2>2, LeadsNeutral
  <2> QED BY <1>4, <2>3 DEF SetRotation
<1>5. CASE maps # current
  <2>1. /\ adds \in Seq(Instrs) /\ Len(adds) = Len(maps)
        /\ \A i \in DOMAIN adds : adds[i].do = "add"
    <3>1. <<current[1]>> \in Seq(Maps)
        BY <1>1
    <3>2. /\ adds \in Seq(Settled) /\ Len(adds) = Len(maps)
          /\ \A i \in 1 .. Len(maps) : adds[i].do = "add"
        BY <3>1, SetAddsFacts
    <3> HIDE DEF adds
    <3>3. DOMAIN adds = 1 .. Len(adds)
        BY <3>2
    <3> QED BY <3>2, <3>3, SettledPrograms
  <2> HIDE DEF dels, adds
  <2>2. Leads(adds, 1, 1 + Len(maps))
    <3>1. Leads(adds, 1, 1 + Len(adds))
      <4>1. 1 \in Nat \ {0} /\ \A i \in DOMAIN adds : adds[i].do \in {"add", "addlast"}
          BY <2>1
      <4> QED BY <2>1, <4>1, LeadsAdds
    <3> QED BY <2>1, <3>1
  <2>3. /\ last \in Seq(Instrs) /\ Len(last) = 1 /\ \A i \in DOMAIN last : last[i].do = "del"
      BY <1>1, InstrFacts
  <2>4. Leads(last, 1 + Len(maps), Len(maps))
    <3> HIDE DEF last
    <3> DEFINE k == 1 + Len(maps)
    <3>1. k \in Nat /\ k > Len(last) /\ k - Len(last) = Len(maps)
        BY <1>1, <2>3
    <3> HIDE DEF k
    <3>2. Leads(last, k, k - Len(last))
        BY <2>3, <3>1, LeadsDels
    <3> QED BY <3>1, <3>2 DEF k
  <2>5. end \in Seq(Instrs) /\ Leads(end, Len(maps), Len(maps))
    <3>1. Clear.do = "clear" /\ Get.do = "get" /\ Clear \in Instrs /\ Get \in Instrs
        BY InstrFacts DEF Clear, Get
    <3>2. end \in Seq(Instrs) /\ \A i \in DOMAIN end : end[i].do \notin {"add", "addlast", "del"}
        BY <3>1
    <3> HIDE DEF end
    <3> QED BY <1>1, <3>2, LeadsNeutral
  <2>6. rest = <<Del(current[1], 1), Clear, Get>>
    <3>1. Del(current[1], 1) \in Instrs /\ Clear \in Instrs /\ Get \in Instrs
        BY <1>1, InstrFacts DEF Clear, Get
    <3> QED BY <3>1, JoinOneTwo
  <2> HIDE DEF last, end
  <2>7. rest \in Seq(Instrs) /\ Leads(rest, 1 + Len(maps), Len(maps))
      BY <2>3, <2>4, <2>5, LeadsJoin
  <2>8. front \in Seq(Instrs) /\ Leads(front, n, 1 + Len(maps))
      BY <1>2, <1>3, <2>1, <2>2, LeadsJoin
  <2> HIDE DEF rest, front
  <2>9. Leads(front \o rest, n, Len(maps))
      BY <2>7, <2>8, LeadsJoin
  <2>10. SetRotation(maps, current) = front \o rest
      BY <1>5, <2>6, Zenon DEF SetRotation, front, dels, adds
  <2> QED BY <2>9, <2>10
<1> QED BY <1>4, <1>5

LEMMA AddMapsLeads ==
    ASSUME NEW maps \in Seq(Maps), NEW current \in Seq(Maps), current # <<>>
    PROVE  \E k : Leads(AddMaps(maps, current), Len(current), k)
<1> DEFINE n == Len(current)
           all == AddMaps(maps, current)
           end == <<Clear>>
<1>1. n \in Nat \ {0} /\ Len(maps) \in Nat /\ DOMAIN maps = 1 .. Len(maps)
    OBVIOUS
<1>2. PICK adds : /\ all = adds \o end
                  /\ DOMAIN adds = DOMAIN maps
                  /\ adds = [i \in DOMAIN maps |-> adds[i]]
                  /\ \A i \in DOMAIN maps : adds[i] \in Settled /\ adds[i].do = "add"
                  /\ \A i \in DOMAIN maps : adds[i] = NthAdd(maps, current, i)
    BY AddMapsParts
<1>3. adds \in Seq(Instrs) /\ \A i \in DOMAIN adds : adds[i].do \in {"add", "addlast"}
  <2>1. adds \in Seq(Settled)
      BY <1>1, <1>2
  <2> QED BY <1>2, <2>1, SettledPrograms
<1>4. Leads(adds, n, n + Len(adds)) /\ n + Len(adds) \in Nat \ {0}
  <2>1. Len(adds) \in Nat
      BY <1>3
  <2> QED BY <1>1, <1>3, <2>1, LeadsAdds
<1>5. end \in Seq(Instrs) /\ Leads(end, n + Len(adds), n + Len(adds))
  <2>1. Clear \in Instrs /\ Clear.do = "clear"
      BY InstrFacts DEF Clear
  <2>2. end \in Seq(Instrs) /\ \A i \in DOMAIN end : end[i].do \notin {"add", "addlast", "del"}
      BY <2>1
  <2> HIDE DEF end
  <2> QED BY <1>4, <2>2, LeadsNeutral
<1> HIDE DEF end
<1>6. Leads(adds \o end, n, n + Len(adds))
    BY <1>3, <1>4, <1>5, LeadsJoin
<1> QED BY <1>2, <1>6

\* While p is alone and has still to plan, the rotation is what it was; p will
\* read it as it is if the cache was not stale when p began, or if p has
\* cleared the cache.
Reads(p) ==
    fresh[p] \/ (op[p].kind \in {"set", "adds"} /\ prog[p] = <<Get, Instr("plan")>>)

KnowsInv(p) ==
    alone[p] /\ Planning(p) =>
        /\ before[p] = rotation
        /\ Reads(p) => Fresh /\ (phase[p] = "store" => view[p] = rotation)

\* What p has still to do leaves a map at any time.
CourseInv(p) ==
    alone[p] /\ fresh[p] /\ ~twice[p] /\ op[p].kind # "remove" /\ before[p] # <<>> =>
        /\ rotation # <<>>
        /\ Planning(p) \/ \E k : Leads(prog[p], Len(rotation), k)

LEMMA OthersDisturb ==
    ASSUME TypeInv, NEW p \in Procs, NEW q \in Procs, q # p, RotationStep(q)
    PROVE  ~alone'[p]
<1>1. ASSUME NEW task \in Calls, Start(q, task) PROVE ~alone'[p]
    BY <1>1 DEF Start
<1>2. CASE Disturb(q)
    BY <1>2 DEF Disturb
<1> QED BY <1>1, <1>2 DEF RotationStep, ClearCache, Ask, Read, Store, Command, CommandFails,
        IndexFails, Verify, VerifyFails, Fail

\* Process p has its own fields of what no step of p but Start changes.
LEMMA StepKeeps ==
    ASSUME TypeInv, NEW p \in Procs, Disturb(p), UNCHANGED <<op, before, fresh>>
    PROVE  op'[p] = op[p] /\ before'[p] = before[p] /\ fresh'[p] = fresh[p]
           /\ alone'[p] = alone[p]
BY DEF Disturb, TypeInv, RotationTypeOK

LEMMA PlanningTail ==
    ASSUME TypeInv, NEW p \in Procs, Busy(p), prog'[p] = Tail(prog[p]), op'[p] = op[p]
    PROVE  /\ Planning(p)' => Planning(p) /\ prog[p] = <<Clear, Get, Instr("plan")>>
                              /\ prog'[p] = <<Get, Instr("plan")>>
           /\ Planning(p) /\ ~Doing(p, "get") => Planning(p)'
<1> DEFINE s == prog[p]
           t == Tail(s)
<1>1. s \in Seq(Instrs) /\ s # <<>>
    BY DEF TypeInv, Busy
<1>2. /\ Get.do = "get" /\ Clear.do = "clear" /\ Instr("plan").do = "plan"
    BY InstrFacts DEF Get, Clear
<1>3. ASSUME Planning(p)' PROVE Planning(p)
  <2> DEFINE k == Len(t)
  <2>1. t = <<Get, Instr("plan")>> \/ t = <<Clear, Get, Instr("plan")>>
      BY <1>3 DEF Planning
  <2>2. k \in 1 .. Len(t) /\ t[k].do = "plan"
    <3> HIDE DEF t
    <3>1. \/ k = 2 /\ t[2] = Instr("plan")
          \/ k = 3 /\ t[3] = Instr("plan")
        BY <2>1
    <3>2. k \in 1 .. k /\ t[k] = Instr("plan")
        BY <3>1
    <3> QED BY <1>2, <3>2
  <2>3. /\ Len(t) = Len(s) - 1 /\ Len(s) \in Nat \ {0} /\ \A i \in 1 .. Len(s) - 1 : t[i] = s[i + 1]
      BY <1>1, TailFacts
  <2> HIDE DEF s, t, k
  <2>4. k + 1 \in DOMAIN s /\ s[k + 1].do = "plan"
      BY <1>1, <2>2, <2>3
  <2> QED BY <2>4 DEF TypeInv, Shape, s
<1>4. CASE s = <<Get, Instr("plan")>>
  <2>1. t = <<Instr("plan")>> /\ Head(s) = Get
      BY <1>4
  <2>2. t # <<Get, Instr("plan")>> /\ t # <<Clear, Get, Instr("plan")>>
    <3>1. Len(t) = 1 /\ Len(<<Get, Instr("plan")>>) = 2 /\ Len(<<Clear, Get, Instr("plan")>>) = 3
        BY <2>1
    <3> HIDE DEF t
    <3> QED BY <3>1
  <2>3. ~Planning(p)'
      BY <2>2 DEF Planning
  <2>4. Doing(p, "get")
      BY <1>1, <1>2, <2>1 DEF Doing, Busy
  <2> QED BY <2>3, <2>4
<1>5. CASE s = <<Clear, Get, Instr("plan")>> /\ op[p].kind \in {"set", "adds"}
  <2>1. t = <<Get, Instr("plan")>>
      BY <1>5
  <2>2. Planning(p)'
      BY <1>5, <2>1 DEF Planning
  <2> QED BY <1>3, <1>5, <2>1, <2>2
<1>6. CASE ~Planning(p)
    BY <1>3, <1>6
<1> QED BY <1>4, <1>5, <1>6 DEF Planning

\* p goes on to the next command.
LEMMA CourseTail ==
    ASSUME TypeInv, NEW p \in Procs, CourseInv(p), Busy(p), prog'[p] = Tail(prog[p]),
           op'[p] = op[p], before'[p] = before[p], fresh'[p] = fresh[p],
           alone'[p] = alone[p], rotation' \in Seq(Maps),
           ~twice'[p] => ~twice[p] /\ Len(rotation') = After(Head(prog[p]), Len(rotation)),
           Planning(p) => Planning(p)' /\ rotation' = rotation
    PROVE  CourseInv(p)'
<1> SUFFICES ASSUME alone[p], fresh[p], ~twice'[p], op[p].kind # "remove", before[p] # <<>>
             PROVE  /\ rotation' # <<>>
                    /\ Planning(p)' \/ \E k : Leads(prog'[p], Len(rotation'), k)
    BY DEF CourseInv
<1>1. rotation # <<>> /\ (Planning(p) \/ \E k : Leads(prog[p], Len(rotation), k))
    BY DEF CourseInv
<1>2. CASE Planning(p)
    BY <1>1, <1>2
<1>3. CASE ~Planning(p)
  <2>1. PICK k : Leads(prog[p], Len(rotation), k)
      BY <1>1, <1>3
  <2>2. prog[p] \in Seq(Instrs) /\ prog[p] # <<>>
      BY DEF TypeInv, Busy
  <2>3. /\ Len(rotation') \in Nat \ {0}
        /\ Leads(prog'[p], Len(rotation'), k)
      BY <2>1, <2>2, LeadsTail
  <2>4. rotation' # <<>>
      BY <2>3
  <2> QED BY <2>3, <2>4
<1> QED BY <1>2, <1>3

\* p fails, before its command or after it.
LEMMA CourseFails ==
    ASSUME TypeInv, NEW p \in Procs, CourseInv(p), Busy(p), prog'[p] = <<>>,
           op'[p] = op[p], before'[p] = before[p], fresh'[p] = fresh[p],
           alone'[p] = alone[p], rotation' \in Seq(Maps),
           ~twice'[p] => ~twice[p],
           \/ rotation' = rotation
           \/ /\ ~Planning(p)
              /\ ~twice'[p] => Len(rotation') = After(Head(prog[p]), Len(rotation))
    PROVE  CourseInv(p)'
<1> SUFFICES ASSUME alone[p], fresh[p], ~twice'[p], op[p].kind # "remove", before[p] # <<>>
             PROVE  rotation' # <<>> /\ \E k : Leads(prog'[p], Len(rotation'), k)
    BY DEF CourseInv
<1>1. rotation # <<>> /\ (Planning(p) \/ \E k : Leads(prog[p], Len(rotation), k))
    BY DEF CourseInv
<1>2. Len(rotation') \in Nat \ {0}
  <2>1. CASE rotation' = rotation
      BY <1>1, <2>1
  <2>2. CASE ~Planning(p) /\ Len(rotation') = After(Head(prog[p]), Len(rotation))
    <3>1. PICK k : Leads(prog[p], Len(rotation), k)
        BY <1>1, <2>2
    <3>2. prog[p] \in Seq(Instrs) /\ prog[p] # <<>>
        BY DEF TypeInv, Busy
    <3> QED BY <2>2, <3>1, <3>2, LeadsTail
  <2> QED BY <2>1, <2>2
<1>3. rotation' # <<>>
    BY <1>2
<1>4. Leads(prog'[p], Len(rotation'), Len(rotation'))
    BY <1>2, LeadsNothing
<1> QED BY <1>3, <1>4

\* p has read the rotation.
LEMMA CourseGot ==
    ASSUME TypeInv, NEW p \in Procs, KnowsInv(p), CourseInv(p), Doing(p, "get"),
           NEW s \in Rotations, Got(p, s), Disturb(p), rotation' = rotation, twice' = twice,
           alone[p] /\ Planning(p) /\ fresh[p] => s = rotation
    PROVE  CourseInv(p)'
<1>1. Busy(p) /\ Head(prog[p]).do = "get" /\ rotation \in Seq(Maps) /\ Len(rotation) \in Nat
    BY RotationsFacts DEF Doing, TypeInv, RotationTypeOK
<1>2. prog'[p] = Follow(p, s)
    BY DEF Got, Proceed, Follow, TypeInv
<1>3. /\ op'[p] = op[p] /\ before'[p] = before[p] /\ fresh'[p] = fresh[p]
      /\ alone'[p] = alone[p] /\ twice'[p] = twice[p]
    BY StepKeeps DEF Got, Proceed
<1>4. CASE ~Planning(p)
  <2>1. prog'[p] = Tail(prog[p])
      BY <1>2, <1>4, FollowFacts
  <2>2. Len(rotation') = After(Head(prog[p]), Len(rotation))
      BY <1>1 DEF After
  <2> QED BY <1>1, <1>3, <1>4, <2>1, <2>2, CourseTail
<1>5. CASE Planning(p)
  <2> SUFFICES ASSUME alone[p], fresh[p], ~twice[p], op[p].kind # "remove", before[p] # <<>>
               PROVE  rotation # <<>> /\ \E k : Leads(prog'[p], Len(rotation), k)
      BY <1>3 DEF CourseInv
  <2>1. rotation # <<>> /\ s = rotation
      BY <1>5 DEF CourseInv
  <2>2. prog'[p] = Plan(op[p], rotation) /\ op[p].kind \in {"set", "adds", "apply"}
      BY <1>2, <1>5, <2>1, FollowFacts DEF Planning
  <2>3. op[p] \in Calls /\ op[p].maps \in Seq(Maps) /\ op[p].maps # <<>>
      BY <2>2, CallsFacts DEF TypeInv, RotationTypeOK
  <2>4. CASE op[p].kind = "set"
    <3>1. prog'[p] = SetRotation(op[p].maps, rotation)
        BY <2>2, <2>4 DEF Plan
    <3> QED BY <1>1, <2>1, <2>3, <3>1, SetLeads
  <2>5. CASE op[p].kind = "adds"
    <3>1. prog'[p] = AddMaps(op[p].maps, rotation)
        BY <2>2, <2>5 DEF Plan
    <3> QED BY <1>1, <2>1, <2>3, <3>1, AddMapsLeads
  <2>6. CASE op[p].kind = "apply"
    <3>1. prog'[p] = ApplyResults(op[p].maps[1], rotation)
        BY <2>2, <2>6 DEF Plan
    <3>2. op[p].maps[1] \in Maps
        BY <2>3
    <3> QED BY <1>1, <2>1, <3>1, <3>2, ApplyLeads
  <2> QED BY <2>1, <2>2, <2>4, <2>5, <2>6
<1> QED BY <1>4, <1>5

LEMMA CourseStart ==
    ASSUME TypeInv, NEW p \in Procs, NEW task \in Calls, Start(p, task)
    PROVE  CourseInv(p)' /\ KnowsInv(p)'
<1>1. /\ rotation' = rotation /\ rotation \in Seq(Maps) /\ Len(rotation) \in Nat
      /\ op'[p] = task /\ prog'[p] = Program(task) /\ before'[p] = rotation
      /\ fresh'[p] = Fresh /\ cache' = cache /\ phase'[p] = "ask"
  <2>1. phase[p] = "ask"
      BY DEF Start, TypeInv, Shape, Doing
  <2> QED BY <2>1, RotationsFacts DEF Start, TypeInv, RotationTypeOK
<1>2. CourseInv(p)'
  <2> SUFFICES ASSUME rotation # <<>>, task.kind # "remove"
               PROVE  Planning(p)' \/ \E k : Leads(prog'[p], Len(rotation), k)
      BY <1>1 DEF CourseInv
  <2>1. task.kind \in Operations /\ task.maps \in Seq(Maps) /\ Len(rotation) \in Nat \ {0}
      BY <1>1, CallsFacts
  <2>2. CASE task.kind = "look"
    <3>1. <<Get>> \in Seq(Instrs) /\ \A i \in DOMAIN <<Get>> : <<Get>>[i].do = "get"
        BY InstrFacts DEF Get
    <3>2. Leads(<<Get>>, Len(rotation), Len(rotation))
        BY <2>1, <3>1, LeadsNeutral
    <3>3. prog'[p] = <<Get>>
        BY <1>1, <2>2 DEF Program
    <3> QED BY <3>2, <3>3
  <2>3. CASE task.kind = "add"
    <3>1. task.maps[1] \in Maps
        BY <2>1, <2>3, CallsFacts
    <3>2. prog'[p] = AddMap(task.maps[1])
        BY <1>1, <2>3 DEF Program
    <3> QED BY <2>1, <3>1, <3>2, LeadsAddRemove
  <2>4. CASE task.kind = "apply"
      BY <1>1, <2>4 DEF Program, Planning
  <2>5. CASE task.kind \in {"set", "adds"}
      BY <1>1, <2>5 DEF Program, Planning
  <2> QED BY <2>1, <2>2, <2>3, <2>4, <2>5 DEF Operations
<1>3. KnowsInv(p)'
  <2> SUFFICES ASSUME Reads(p)', Planning(p)' PROVE Fresh'
      BY <1>1 DEF KnowsInv
  <2>1. CASE fresh'[p]
      BY <1>1, <2>1 DEF Fresh
  <2>2. CASE task.kind \in {"set", "adds"} /\ prog'[p] = <<Get, Instr("plan")>>
    <3>1. prog'[p] = <<Clear, Get, Instr("plan")>>
        BY <1>1, <2>2 DEF Program
    <3>2. <<Clear, Get, Instr("plan")>> # <<Get, Instr("plan")>>
        OBVIOUS
    <3> QED BY <2>2, <3>1, <3>2
  <2> QED BY <1>1, <2>1, <2>2 DEF Reads
<1> QED BY <1>2, <1>3

\* Going on to the next command, what p knows.
LEMMA KnowsTail ==
    ASSUME TypeInv, NEW p \in Procs, KnowsInv(p), Busy(p), prog'[p] = Tail(prog[p]),
           op'[p] = op[p], before'[p] = before[p], fresh'[p] = fresh[p],
           alone'[p] = alone[p], phase'[p] = "ask",
           Doing(p, "clear") => cache' = Nothing /\ rotation' = rotation
    PROVE  KnowsInv(p)'
<1> SUFFICES ASSUME alone[p], Planning(p)' PROVE before[p] = rotation' /\ Fresh'
    BY DEF KnowsInv
<1>1. Planning(p) /\ prog[p] = <<Clear, Get, Instr("plan")>>
    BY PlanningTail
<1>2. Head(prog[p]) = Clear /\ Clear.do = "clear"
    BY <1>1, InstrFacts DEF Clear
<1>3. cache' = Nothing /\ rotation' = rotation
    BY <1>2 DEF Doing
<1> QED BY <1>1, <1>3 DEF KnowsInv, Fresh

LEMMA GotPlans ==
    ASSUME TypeInv, NEW p \in Procs, Doing(p, "get"), NEW s \in Rotations, Got(p, s)
    PROVE  ~Planning(p)'
<1>1. prog'[p] = Follow(p, s) /\ op'[p] = op[p]
    BY DEF Got, Proceed, Follow, TypeInv
<1>2. CASE Planning(p)
  <2>1. prog'[p] \in Seq(Settled)
      BY <1>1, <1>2, FollowFacts
  <2>2. /\ <<Get, Instr("plan")>>[2] = Instr("plan") /\ 2 \in DOMAIN <<Get, Instr("plan")>>
        /\ <<Clear, Get, Instr("plan")>>[3] = Instr("plan")
        /\ 3 \in DOMAIN <<Clear, Get, Instr("plan")>>
      OBVIOUS
  <2>3. Instr("plan").do = "plan"
      BY InstrFacts
  <2> QED BY <2>1, <2>2, <2>3, SettledPrograms DEF Planning
<1>3. CASE ~Planning(p)
  <2>1. prog'[p] = Tail(prog[p]) /\ Busy(p)
      BY <1>1, <1>3, FollowFacts DEF Doing
  <2> QED BY <1>1, <1>3, <2>1, PlanningTail
<1> QED BY <1>2, <1>3

LEMMA KnowsSteps ==
    ASSUME TypeInv, TypeInv', NEW p \in Procs, KnowsInv(p), RotationNext
    PROVE  KnowsInv(p)'
<1>1. CASE Lapse
    BY <1>1 DEF Lapse, KnowsInv, Planning, Reads, Fresh
<1>2. ASSUME NEW q \in Procs, q # p, RotationStep(q) PROVE KnowsInv(p)'
    BY <1>2, OthersDisturb DEF KnowsInv
<1>3. CASE RotationStep(p)
  <2>1. ASSUME NEW task \in Calls, Start(p, task) PROVE KnowsInv(p)'
      BY <2>1, CourseStart
  <2>2. ASSUME Busy(p), ~Doing(p, "get"), Proceed(p, Tail(prog[p])), Disturb(p), phase' = phase,
               Doing(p, "clear") => cache' = Nothing /\ rotation' = rotation
        PROVE  KnowsInv(p)'
    <3>1. prog'[p] = Tail(prog[p]) /\ phase'[p] = "ask"
        BY <2>2 DEF Proceed, TypeInv, Shape
    <3>2. op'[p] = op[p] /\ before'[p] = before[p] /\ fresh'[p] = fresh[p] /\ alone'[p] = alone[p]
        BY <2>2, StepKeeps DEF Proceed
    <3> QED BY <2>2, <3>1, <3>2, KnowsTail
  <2>3. ASSUME NEW s \in Rotations, Doing(p, "get"), Got(p, s) PROVE KnowsInv(p)'
      BY <2>3, GotPlans DEF KnowsInv
  <2>4. CASE ClearCache(p)
    <3>1. Busy(p) /\ ~Doing(p, "get")
        BY <2>4 DEF ClearCache, Doing
    <3> QED BY <2>2, <2>4, <3>1 DEF ClearCache
  <2>5. CASE Ask(p)
    <3>1. CASE cache # Nothing
      <4>1. cache \in Rotations
          BY <3>1 DEF TypeInv, RotationTypeOK
      <4> QED BY <2>3, <2>5, <3>1, <4>1 DEF Ask
    <3>2. CASE cache = Nothing
      <4>1. op'[p] = op[p] /\ before'[p] = before[p] /\ fresh'[p] = fresh[p] /\ alone'[p] = alone[p]
          BY <2>5, <3>2, StepKeeps DEF Ask
      <4>2. /\ prog' = prog /\ rotation' = rotation /\ cache' = cache
            /\ phase'[p] # "store"
          BY <2>5, <3>2 DEF Ask, TypeInv, RotationTypeOK
      <4> QED BY <4>1, <4>2 DEF KnowsInv, Planning, Reads, Fresh
    <3> QED BY <3>1, <3>2
  <2>6. CASE Read(p)
    <3>1. op'[p] = op[p] /\ before'[p] = before[p] /\ fresh'[p] = fresh[p] /\ alone'[p] = alone[p]
        BY <2>6, StepKeeps DEF Read
    <3>2. /\ prog' = prog /\ rotation' = rotation /\ cache' = cache /\ view'[p] = rotation
        BY <2>6 DEF Read, TypeInv, RotationTypeOK
    <3> QED BY <3>1, <3>2 DEF KnowsInv, Planning, Reads, Fresh
  <2>7. CASE Store(p)
    <3>1. view[p] \in Rotations
        BY DEF TypeInv, RotationTypeOK
    <3> QED BY <2>3, <2>7, <3>1 DEF Store
  <2>8. CASE Command(p)
    <3>1. Busy(p) /\ ~Doing(p, "get") /\ ~Doing(p, "clear")
        BY <2>8 DEF Command, Changes, Sends, Doing
    <3> QED BY <2>2, <2>8, <3>1 DEF Command
  <2>9. CASE Verify(p)
    <3>1. Busy(p) /\ ~Doing(p, "get") /\ ~Doing(p, "clear")
        BY <2>9 DEF Verify, Doing
    <3> QED BY <2>2, <2>9, <3>1 DEF Verify
  <2>10. CASE Fail(p)
    <3>1. prog'[p] = <<>>
        BY <2>10 DEF Fail, TypeInv
    <3>2. <<>> # <<Get, Instr("plan")>> /\ <<>> # <<Clear, Get, Instr("plan")>>
        OBVIOUS
    <3> QED BY <3>1, <3>2 DEF KnowsInv, Planning
  <2> QED BY <1>3, <2>1, <2>4, <2>5, <2>6, <2>7, <2>8, <2>9, <2>10
          DEF RotationStep, CommandFails, IndexFails, VerifyFails
<1> QED BY <1>1, <1>2, <1>3 DEF RotationNext

LEMMA CourseSteps ==
    ASSUME TypeInv, TypeInv', NEW p \in Procs, KnowsInv(p), CourseInv(p), RotationNext
    PROVE  CourseInv(p)'
<1>1. rotation \in Seq(Maps) /\ rotation' \in Seq(Maps) /\ Len(rotation) \in Nat
    BY RotationsFacts DEF TypeInv, RotationTypeOK
<1>2. CASE Lapse
    BY <1>2 DEF Lapse, CourseInv, Planning
<1>3. ASSUME NEW q \in Procs, q # p, RotationStep(q) PROVE CourseInv(p)'
    BY <1>3, OthersDisturb DEF CourseInv
<1>4. CASE RotationStep(p)
  <2>1. ASSUME NEW task \in Calls, Start(p, task) PROVE CourseInv(p)'
      BY <2>1, CourseStart
  <2>2. ASSUME Busy(p), ~Doing(p, "get"), Proceed(p, Tail(prog[p])), Disturb(p),
               ~twice'[p] => /\ ~twice[p]
                             /\ Len(rotation') = After(Head(prog[p]), Len(rotation)),
               Planning(p) => rotation' = rotation
        PROVE  CourseInv(p)'
    <3>1. prog'[p] = Tail(prog[p])
        BY <2>2 DEF Proceed, TypeInv
    <3>2. op'[p] = op[p] /\ before'[p] = before[p] /\ fresh'[p] = fresh[p] /\ alone'[p] = alone[p]
        BY <2>2, StepKeeps DEF Proceed
    <3>3. Planning(p) => Planning(p)' /\ rotation' = rotation
        BY <2>2, <3>1, <3>2, PlanningTail
    <3> QED BY <1>1, <2>2, <3>1, <3>2, <3>3, CourseTail
  <2>3. ASSUME ~Sends(p), Busy(p), UNCHANGED <<rotation, twice>>, ~Doing(p, "get"),
               ~Doing(p, "addlast"), Proceed(p, Tail(prog[p])), Disturb(p)
        PROVE  CourseInv(p)'
    <3>1. Head(prog[p]).do \notin {"add", "del", "addlast"}
        BY <2>3 DEF Sends, Doing
    <3>2. Len(rotation') = After(Head(prog[p]), Len(rotation))
        BY <2>3, <3>1 DEF After
    <3> QED BY <2>2, <2>3, <3>2
  <2>4. CASE ClearCache(p)
    <3>1. Busy(p) /\ ~Doing(p, "get") /\ ~Doing(p, "addlast") /\ ~Sends(p)
        BY <2>4 DEF ClearCache, Doing, Sends
    <3> QED BY <2>3, <2>4, <3>1 DEF ClearCache
  <2>5. CASE Ask(p)
    <3>1. CASE cache # Nothing
      <4>1. cache \in Rotations
          BY <3>1 DEF TypeInv, RotationTypeOK
      <4>2. alone[p] /\ Planning(p) /\ fresh[p] => cache = rotation
          BY <3>1 DEF KnowsInv, Reads, Fresh
      <4> QED BY <2>5, <3>1, <4>1, <4>2, CourseGot DEF Ask
    <3>2. CASE cache = Nothing
      <4>1. op'[p] = op[p] /\ before'[p] = before[p] /\ fresh'[p] = fresh[p] /\ alone'[p] = alone[p]
          BY <2>5, <3>2, StepKeeps DEF Ask
      <4> QED BY <2>5, <3>2, <4>1 DEF Ask, CourseInv, Planning
    <3> QED BY <3>1, <3>2
  <2>6. CASE Read(p)
    <3>1. op'[p] = op[p] /\ before'[p] = before[p] /\ fresh'[p] = fresh[p] /\ alone'[p] = alone[p]
        BY <2>6, StepKeeps DEF Read
    <3> QED BY <2>6, <3>1 DEF Read, CourseInv, Planning
  <2>7. CASE Store(p)
    <3>1. view[p] \in Rotations
        BY DEF TypeInv, RotationTypeOK
    <3>2. alone[p] /\ Planning(p) /\ fresh[p] => view[p] = rotation
        BY <2>7 DEF KnowsInv, Reads, Store
    <3> QED BY <2>7, <3>1, <3>2, CourseGot DEF Store
  <2>8. ASSUME Changes(p) PROVE Busy(p) /\ ~Doing(p, "get") /\ ~Planning(p)
    <3>1. Busy(p) /\ Head(prog[p]).do \in {"add", "del", "addlast"}
        BY <2>8 DEF Changes, Sends
    <3>2. Head(<<Get, Instr("plan")>>).do = "get" /\ Head(<<Clear, Get, Instr("plan")>>).do = "clear"
        BY InstrFacts DEF Get, Clear
    <3> QED BY <3>1, <3>2 DEF Doing, Planning
  <2>9. CASE Command(p)
    <3>1. Changes(p)
        BY <2>9 DEF Command
    <3> QED BY <2>2, <2>8, <2>9, <3>1, ChangesFacts DEF Command
  <2>10. ASSUME Fail(p), Busy(p), Changes(p) \/ UNCHANGED <<rotation, twice>>
         PROVE  CourseInv(p)'
    <3>1. prog'[p] = <<>>
        BY <2>10 DEF Fail, TypeInv
    <3>2. op'[p] = op[p] /\ before'[p] = before[p] /\ fresh'[p] = fresh[p] /\ alone'[p] = alone[p]
        BY <2>10, StepKeeps DEF Fail
    <3>3. /\ ~twice'[p] => ~twice[p]
          /\ \/ rotation' = rotation
             \/ /\ ~Planning(p)
                /\ ~twice'[p] => Len(rotation') = After(Head(prog[p]), Len(rotation))
        BY <2>8, <2>10, ChangesFacts
    <3> QED BY <1>1, <2>10, <3>1, <3>2, <3>3, CourseFails
  <2>11. CASE CommandFails(p)
    <3>1. Busy(p)
        BY <2>11 DEF CommandFails, Changes, Sends, Doing
    <3> QED BY <2>10, <2>11, <3>1 DEF CommandFails
  <2>12. CASE IndexFails(p)
      BY <2>10, <2>12 DEF IndexFails, Doing
  <2>13. CASE Verify(p)
    <3>1. Busy(p) /\ ~Doing(p, "get") /\ ~Doing(p, "addlast") /\ ~Sends(p)
        BY <2>13 DEF Verify, Doing, Sends
    <3> QED BY <2>3, <2>13, <3>1 DEF Verify
  <2>14. CASE VerifyFails(p)
      BY <2>10, <2>14 DEF VerifyFails, Doing
  <2> QED BY <1>4, <2>1, <2>4, <2>5, <2>6, <2>7, <2>9, <2>11, <2>12, <2>13, <2>14 DEF RotationStep
<1> QED BY <1>2, <1>3, <1>4 DEF RotationNext

-----------------------------------------------------------------------------
(* What apply_results leaves.                                              *)

Changing == {"add", "addlast", "del"}

\* The cache is cleared after every change.
Tidy(s) ==
    \A i \in DOMAIN s :
        /\ s[i].do \in Changing => i + 1 \in DOMAIN s /\ s[i + 1].do = "clear"
        /\ s[i].do # "verify"

\* The same of a program that looks at the rotation and compares at its end.
Neat(s) ==
    /\ s # <<>> /\ s[Len(s)].do \in {"verify", "raise"}
    /\ \A i \in DOMAIN s :
          /\ s[i].do \in Changing => i + 1 \in DOMAIN s /\ s[i + 1].do = "clear"
          /\ s[i].do = "verify" /\ i # 1 => s[i - 1].do = "get"

LEMMA TidyJoin ==
    ASSUME NEW s \in Seq(Instrs), NEW t \in Seq(Instrs), Tidy(s), Tidy(t)
    PROVE  Tidy(s \o t)
<1> DEFINE j == s \o t
<1>1. /\ Len(s) \in Nat /\ Len(t) \in Nat /\ j \in Seq(Instrs)
      /\ DOMAIN s = 1 .. Len(s) /\ DOMAIN t = 1 .. Len(t) /\ DOMAIN j = 1 .. Len(s) + Len(t)
      /\ \A i \in 1 .. Len(s) + Len(t) : j[i] = IF i <= Len(s) THEN s[i] ELSE t[i - Len(s)]
    OBVIOUS
<1> HIDE DEF j
<1>2. ASSUME NEW i \in DOMAIN j
      PROVE  /\ j[i].do \in Changing => i + 1 \in DOMAIN j /\ j[i + 1].do = "clear"
             /\ j[i].do # "verify"
  <2>1. CASE i <= Len(s)
    <3>1. i \in DOMAIN s /\ j[i] = s[i]
        BY <1>1, <2>1
    <3>2. i + 1 \in DOMAIN s => i + 1 \in DOMAIN j /\ j[i + 1] = s[i + 1]
        BY <1>1, <2>1
    <3> QED BY <3>1, <3>2 DEF Tidy
  <2>2. CASE ~(i <= Len(s))
    <3> DEFINE e == i - Len(s)
    <3>1. e \in DOMAIN t /\ j[i] = t[e]
        BY <1>1, <2>2
    <3>2. e + 1 \in DOMAIN t => i + 1 \in DOMAIN j /\ j[i + 1] = t[e + 1]
      <4>1. e + 1 \in DOMAIN t => i + 1 \in DOMAIN j
          BY <1>1, <2>2
      <4>2. ~(i + 1 <= Len(s)) /\ (i + 1) - Len(s) = e + 1
          BY <1>1, <2>2
      <4> HIDE DEF e
      <4> QED BY <1>1, <4>1, <4>2
    <3> HIDE DEF e
    <3> QED BY <3>1, <3>2 DEF Tidy
  <2> QED BY <2>1, <2>2
<1>3. Tidy(j)
    BY <1>2 DEF Tidy
<1> QED BY <1>3 DEF j

LEMMA CheckFacts ==
    /\ Check \in Seq(Instrs) /\ Len(Check) = 2 /\ DOMAIN Check = 1 .. 2
    /\ Check[1].do = "get" /\ Check[2].do = "verify"
<1>1. /\ Get \in Instrs /\ Get.do = "get"
      /\ Instr("verify") \in Instrs /\ Instr("verify").do = "verify"
    BY InstrFacts DEF Get
<1> QED BY <1>1 DEF Check

LEMMA TidyThenCheck ==
    ASSUME NEW s \in Seq(Instrs), Tidy(s)
    PROVE  Neat(s \o Check)
<1> DEFINE n == Len(s)
           j == s \o Check
<1>1. /\ n \in Nat /\ j \in Seq(Instrs) /\ Len(j) = n + 2
      /\ DOMAIN s = 1 .. n /\ DOMAIN j = 1 .. n + 2
      /\ \A i \in 1 .. n + 2 : j[i] = IF i <= n THEN s[i] ELSE Check[i - n]
  <2> DEFINE t == Check
  <2>1. t \in Seq(Instrs) /\ Len(t) = 2
      BY CheckFacts
  <2> HIDE DEF t
  <2>2. /\ Len(s) \in Nat /\ s \o t \in Seq(Instrs) /\ Len(s \o t) = Len(s) + Len(t)
        /\ DOMAIN s = 1 .. Len(s) /\ DOMAIN (s \o t) = 1 .. Len(s) + Len(t)
        /\ \A i \in 1 .. Len(s) + Len(t) :
              (s \o t)[i] = IF i <= Len(s) THEN s[i] ELSE t[i - Len(s)]
    <3>1. t \in Seq(Instrs)
        BY <2>1
    <3> QED BY <3>1
  <2> QED BY <2>1, <2>2 DEF t
<1>2. j[n + 1].do = "get" /\ j[n + 2].do = "verify"
  <2>1. /\ n + 1 \in 1 .. n + 2 /\ n + 2 \in 1 .. n + 2 /\ ~(n + 1 <= n) /\ ~(n + 2 <= n)
        /\ (n + 1) - n = 1 /\ (n + 2) - n = 2
      BY <1>1
  <2> HIDE DEF n, j
  <2> QED BY <1>1, <2>1, CheckFacts
<1> HIDE DEF j
<1>3. ASSUME NEW i \in DOMAIN j
      PROVE  /\ j[i].do \in Changing => i + 1 \in DOMAIN j /\ j[i + 1].do = "clear"
             /\ j[i].do = "verify" /\ i # 1 => j[i - 1].do = "get"
  <2>1. CASE i <= n
    <3>1. i \in DOMAIN s /\ j[i] = s[i]
        BY <1>1, <2>1
    <3>2. i + 1 \in DOMAIN s => i + 1 \in DOMAIN j /\ j[i + 1] = s[i + 1]
        BY <1>1, <2>1
    <3> QED BY <3>1, <3>2 DEF Tidy
  <2>2. CASE i = n + 1
      BY <1>2, <2>2 DEF Changing
  <2>3. CASE i = n + 2
    <3>1. i - 1 = n + 1
        BY <1>1, <2>3
    <3> QED BY <1>2, <2>3, <3>1 DEF Changing
  <2> QED BY <1>1, <2>1, <2>2, <2>3
<1>4. j # <<>> /\ j[Len(j)].do = "verify"
    BY <1>1, <1>2
<1>5. Neat(j)
    BY <1>3, <1>4 DEF Neat
<1> QED BY <1>5 DEF j

LEMMA NeatTail ==
    ASSUME NEW s \in Seq(Instrs), Neat(s)
    PROVE  /\ Len(s) = 1 => Head(s).do \in {"verify", "raise"}
           /\ Tail(s) # <<>> =>
                /\ Neat(Tail(s))
                /\ Head(s).do \in Changing => Head(Tail(s)).do = "clear"
                /\ Head(Tail(s)).do = "verify" => Head(s).do = "get"
           /\ Tail(s) = <<>> => Len(s) = 1
<1> DEFINE t == Tail(s)
           n == Len(s)
<1>1. /\ t \in Seq(Instrs) /\ Len(t) = n - 1 /\ n \in Nat \ {0} /\ Head(s) = s[1]
      /\ \A i \in 1 .. n - 1 : t[i] = s[i + 1]
    BY TailFacts DEF Neat
<1>2. n = 1 => Head(s).do \in {"verify", "raise"}
    BY <1>1 DEF Neat
<1>3. DOMAIN s = 1 .. n
    OBVIOUS
<1> HIDE DEF t, n
<1>4. t = <<>> => n = 1
  <2>1. t = <<>> => Len(t) = 0
      OBVIOUS
  <2> QED BY <1>1, <2>1
<1>5. ASSUME t # <<>>
      PROVE  /\ Neat(t)
             /\ Head(s).do \in Changing => Head(t).do = "clear"
             /\ Head(t).do = "verify" => Head(s).do = "get"
  <2>1. n - 1 \in Nat \ {0} /\ DOMAIN t = 1 .. n - 1 /\ Head(t) = t[1] /\ t[1] = s[2]
      BY <1>1, <1>5
  <2>2. t[n - 1] = s[n]
    <3>1. n - 1 \in 1 .. n - 1 /\ (n - 1) + 1 = n
        BY <1>1, <2>1
    <3> QED BY <1>1, <3>1
  <2>3. 1 \in DOMAIN s /\ 2 \in DOMAIN s
      BY <1>1, <1>3, <2>1
  <2>4. ASSUME NEW i \in DOMAIN t
        PROVE  /\ t[i].do \in Changing => i + 1 \in DOMAIN t /\ t[i + 1].do = "clear"
               /\ t[i].do = "verify" /\ i # 1 => t[i - 1].do = "get"
    <3>1. i + 1 \in DOMAIN s /\ t[i] = s[i + 1] /\ i + 1 # 1
        BY <1>1, <1>3, <2>1
    <3>2. (i + 1) + 1 \in DOMAIN s => i + 1 \in DOMAIN t /\ t[i + 1] = s[(i + 1) + 1]
        BY <1>1, <1>3, <2>1
    <3>3. i # 1 => t[i - 1] = s[i] /\ (i + 1) - 1 = i
      <4>1. i # 1 => i - 1 \in 1 .. n - 1 /\ (i - 1) + 1 = i /\ (i + 1) - 1 = i
          BY <2>1
      <4> QED BY <1>1, <4>1
    <3>4. /\ s[i + 1].do \in Changing =>
                (i + 1) + 1 \in DOMAIN s /\ s[(i + 1) + 1].do = "clear"
          /\ s[i + 1].do = "verify" => s[(i + 1) - 1].do = "get"
        BY <3>1 DEF Neat
    <3> QED BY <3>1, <3>2, <3>3, <3>4
  <2>5. t[Len(t)].do \in {"verify", "raise"}
      BY <1>1, <2>2 DEF Neat, n
  <2>6. Neat(t)
      BY <1>5, <2>4, <2>5 DEF Neat
  <2>7. /\ s[1].do \in Changing => s[1 + 1].do = "clear"
        /\ s[2].do = "verify" => s[2 - 1].do = "get"
      BY <2>3 DEF Neat
  <2>8. 1 + 1 = 2 /\ 2 - 1 = 1
      OBVIOUS
  <2> QED BY <1>1, <2>1, <2>6, <2>7, <2>8
<1> QED BY <1>2, <1>4, <1>5 DEF t, n

LEMMA TidyAddRemove ==
    ASSUME NEW m \in Maps
    PROVE  Tidy(AddMap(m)) /\ Tidy(RemoveMap(m))
<1>1. /\ Clear \in Instrs /\ Get \in Instrs /\ AddLast(m) \in Instrs /\ Del(m, 1) \in Instrs
      /\ Clear.do = "clear" /\ Get.do = "get" /\ AddLast(m).do = "addlast" /\ Del(m, 1).do = "del"
    BY InstrFacts DEF Clear, Get
<1>2. AddMap(m) = <<Clear, Get, AddLast(m), Clear>>
  <2> DEFINE x == AddLast(m)
  <2>1. AddMap(m) = (<<Clear>> \o <<Get, x>>) \o <<Clear>>
      BY Zenon DEF AddMap, Invalidating
  <2>2. x \in Instrs
      BY <1>1
  <2> HIDE DEF x
  <2>3. <<Clear>> \o <<Get, x>> = <<Clear, Get, x>>
      BY <1>1, <2>2, JoinOneTwo
  <2>4. <<Clear, Get, x>> \o <<Clear>> = <<Clear, Get, x, Clear>>
      BY <1>1, <2>2, JoinThreeOne
  <2> QED BY <2>1, <2>3, <2>4 DEF x
<1>3. RemoveMap(m) = <<Clear, Del(m, 1), Clear>>
  <2> DEFINE x == Del(m, 1)
  <2>1. RemoveMap(m) = (<<Clear>> \o <<x>>) \o <<Clear>>
      BY Zenon DEF RemoveMap, Invalidating
  <2>2. x \in Instrs
      BY <1>1
  <2> HIDE DEF x
  <2>3. <<Clear>> \o <<x>> = <<Clear, x>>
      BY <1>1, <2>2, JoinOneOne
  <2>4. <<Clear, x>> \o <<Clear>> = <<Clear, x, Clear>>
      BY <1>1, <2>2, JoinTwoOne
  <2> QED BY <2>1, <2>3, <2>4 DEF x
<1>4. Tidy(<<Clear, Get, AddLast(m), Clear>>)
  <2> DEFINE x == AddLast(m)
             s == <<Clear, Get, x, Clear>>
  <2>1. x.do = "addlast"
      BY <1>1
  <2> HIDE DEF x
  <2>2. /\ DOMAIN s = 1 .. 4 /\ s[1] = Clear /\ s[2] = Get /\ s[3] = x /\ s[4] = Clear
      OBVIOUS
  <2> HIDE DEF s
  <2>3. ASSUME NEW i \in 1 .. 4
        PROVE  /\ s[i].do \in Changing => i + 1 \in 1 .. 4 /\ s[i + 1].do = "clear"
               /\ s[i].do # "verify"
    <3>1. i = 1 \/ i = 2 \/ i = 3 \/ i = 4
        OBVIOUS
    <3> QED BY <1>1, <2>1, <2>2, <3>1 DEF Changing
  <2> QED BY <2>2, <2>3 DEF Tidy, s, x
<1>5. Tidy(<<Clear, Del(m, 1), Clear>>)
  <2> DEFINE x == Del(m, 1)
             s == <<Clear, x, Clear>>
  <2>1. x.do = "del"
      BY <1>1
  <2> HIDE DEF x
  <2>2. /\ DOMAIN s = 1 .. 3 /\ s[1] = Clear /\ s[2] = x /\ s[3] = Clear
      OBVIOUS
  <2> HIDE DEF s
  <2>3. ASSUME NEW i \in 1 .. 3
        PROVE  /\ s[i].do \in Changing => i + 1 \in 1 .. 3 /\ s[i + 1].do = "clear"
               /\ s[i].do # "verify"
    <3>1. i = 1 \/ i = 2 \/ i = 3
        OBVIOUS
    <3> QED BY <1>1, <2>1, <2>2, <3>1 DEF Changing
  <2> QED BY <2>2, <2>3 DEF Tidy, s, x
<1> QED BY <1>2, <1>3, <1>4, <1>5

LEMMA TidyRemovals ==
    ASSUME NEW current \in Seq(Maps), current # <<>>
    PROVE  Tidy(FlattenSeq(Removals(current)))
<1> DEFINE seqs == Removals(current)
           n == Len(current) - 1
<1>1. n \in Nat
    OBVIOUS
<1>2. /\ seqs \in Seq(Seq(Settled))
      /\ DOMAIN seqs = 1 .. n
      /\ \A i \in 1 .. n : seqs[i] = RemoveMap(current[i + 1])
    BY RemovalsType DEF Removals
<1>3. Seq(Settled) \subseteq Seq(Instrs)
    BY SettledPrograms
<1> HIDE DEF seqs
<1>4. ASSUME NEW i \in 1 .. n PROVE seqs[i] \in Seq(Instrs) /\ Tidy(seqs[i])
  <2>1. current[i + 1] \in Maps
      BY <1>1
  <2> QED BY <1>2, <1>3, <2>1, TidyAddRemove
<1> HIDE DEF n
<1>5. Len(seqs) = n
    BY <1>1, <1>2
<1>6. CASE seqs = <<>>
  <2>1. FlattenSeq(seqs) = <<>>
      BY <1>2, <1>6, FlattenFacts
  <2>2. DOMAIN <<>> = {}
      OBVIOUS
  <2>3. Tidy(<<>>)
      BY <2>2 DEF Tidy
  <2> QED BY <2>1, <2>3 DEF seqs
<1>7. CASE seqs # <<>>
  <2>1. PICK f \in [1 .. n -> Seq(Settled)] :
           /\ FlattenSeq(seqs) = f[n]
           /\ f[1] = seqs[1]
           /\ \A i \in 2 .. n : f[i] = f[i - 1] \o seqs[i]
      BY <1>2, <1>5, <1>7, FlattenFacts
  <2> DEFINE T == {i \in 1 .. n : ~Tidy(f[i])}
  <2>2. ASSUME T # {} PROVE FALSE
    <3>1. PICK i \in T : \A k \in T : i <= k
      <4>1. T \subseteq Nat
          BY <1>1
      <4> HIDE DEF T
      <4> QED BY <2>2, <4>1, LeastNumber
    <3>2. i \in 1 .. n /\ i \in Nat /\ ~Tidy(f[i])
        BY <1>1
    <3>3. CASE i = 1
        BY <1>4, <2>1, <3>2, <3>3
    <3>4. CASE i # 1
      <4>1. i - 1 \in 1 .. n /\ ~(i <= i - 1) /\ i \in 2 .. n
          BY <1>1, <3>2, <3>4
      <4>2. Tidy(f[i - 1])
        <5>1. i - 1 \notin T
          <6> HIDE DEF T
          <6> QED BY <3>1, <4>1
        <5> QED BY <4>1, <5>1
      <4>3. f[i - 1] \in Seq(Instrs)
        <5>1. f[i - 1] \in Seq(Settled)
            BY <4>1
        <5> QED BY <1>3, <5>1
      <4>4. Tidy(f[i - 1] \o seqs[i])
          BY <1>4, <3>2, <4>2, <4>3, TidyJoin
      <4>5. f[i] = f[i - 1] \o seqs[i]
          BY <2>1, <4>1
      <4> QED BY <3>2, <4>4, <4>5
    <3> QED BY <3>3, <3>4
  <2>3. n \in 1 .. n
      BY <1>1, <1>2, <1>5, <1>7
  <2>4. Tidy(f[n])
      BY <2>2, <2>3
  <2> QED BY <2>1, <2>4 DEF seqs
<1> QED BY <1>6, <1>7

LEMMA ApplyNeat ==
    ASSUME NEW m \in Maps, NEW current \in Seq(Maps)
    PROVE  Neat(ApplyResults(m, current))
<1>1. CASE current = <<>>
  <2>1. /\ <<Raise>> # <<>> /\ Len(<<Raise>>) = 1 /\ DOMAIN <<Raise>> = {1}
        /\ <<Raise>>[1] = Raise /\ Raise.do = "raise"
      BY InstrFacts DEF Raise
  <2>2. Neat(<<Raise>>)
      BY <2>1 DEF Neat, Changing
  <2> QED BY <1>1, <2>2 DEF ApplyResults
<1>2. CASE current # <<>>
  <2> DEFINE a == FlattenSeq(Removals(current))
             b == Replacement(m, current)
             front == a \o b
  <2>1. a \in Seq(Instrs) /\ b \in Seq(Instrs)
      BY <1>2, RemovalsType, ReplacementType, SettledPrograms
  <2>2. Tidy(a)
      BY <1>2, TidyRemovals
  <2>3. Tidy(b)
    <3>1. CASE current[1] = m
      <4>1. DOMAIN <<>> = {}
          OBVIOUS
      <4>2. Tidy(<<>>)
          BY <4>1 DEF Tidy
      <4> QED BY <3>1, <4>2 DEF Replacement
    <3>2. CASE current[1] # m
      <4> DEFINE add == AddMap(m)
                 del == RemoveMap(current[1])
      <4>1. current[1] \in Maps
          BY <1>2
      <4>2. add \in Seq(Instrs) /\ del \in Seq(Instrs) /\ Tidy(add) /\ Tidy(del)
          BY <4>1, AddRemoveType, SettledPrograms, TidyAddRemove
      <4> HIDE DEF add, del
      <4>3. Tidy(add \o del)
          BY <4>2, TidyJoin
      <4> QED BY <3>2, <4>3 DEF Replacement, add, del
    <3> QED BY <3>1, <3>2
  <2> HIDE DEF a, b
  <2>4. front \in Seq(Instrs) /\ Tidy(front)
      BY <2>1, <2>2, <2>3, TidyJoin
  <2> HIDE DEF front
  <2>5. Neat(front \o Check)
      BY <2>4, TidyThenCheck
  <2> QED BY <1>2, <2>5, ApplyParts DEF front, a, b
<1> QED BY <1>1, <1>2

\* What a step of p that is alone does, of an operation that has begun.
Same(p) ==
    /\ op'[p] = op[p] /\ before'[p] = before[p] /\ fresh'[p] = fresh[p]
    /\ alone'[p] = alone[p]

NextCommand(p) ==
    /\ Busy(p) /\ ~Doing(p, "get") /\ prog'[p] = Tail(prog[p]) /\ phase'[p] = "ask"
    /\ view'[p] = view[p]
    /\ \/ Doing(p, "clear") /\ cache' = Nothing /\ UNCHANGED <<rotation, twice>>
       \/ Changes(p) /\ cache' = cache
       \/ Doing(p, "verify") /\ view[p] = op[p].maps /\ UNCHANGED <<rotation, cache, twice>>

HasRead(p, s) ==
    /\ Doing(p, "get") /\ prog'[p] = Follow(p, s) /\ phase'[p] = "ask" /\ view'[p] = s
    /\ \/ phase[p] = "ask" /\ cache = s /\ cache # Nothing
       \/ phase[p] = "store" /\ view[p] = s
    /\ cache' = s /\ UNCHANGED <<rotation, twice>>

IsReading(p) ==
    /\ Doing(p, "get") /\ prog'[p] = prog[p]
    /\ phase'[p] = "store" => view'[p] = rotation
    /\ UNCHANGED <<rotation, cache, twice>>

LEMMA OwnSteps ==
    ASSUME TypeInv, NEW p \in Procs, RotationStep(p)
    PROVE  \/ \E task \in Calls : Start(p, task)
           \/ prog'[p] = <<>> /\ failed'[p]
           \/ /\ Same(p)
              /\ \/ NextCommand(p)
                 \/ \E s \in Rotations : HasRead(p, s)
                 \/ IsReading(p)
<1>1. ASSUME Fail(p) PROVE prog'[p] = <<>> /\ failed'[p]
    BY <1>1 DEF Fail, TypeInv, RotationTypeOK
<1>2. ASSUME Busy(p), ~Doing(p, "get"), Proceed(p, Tail(prog[p])), Disturb(p),
             UNCHANGED <<phase, view>>
      PROVE  /\ Same(p) /\ prog'[p] = Tail(prog[p]) /\ phase'[p] = "ask" /\ view'[p] = view[p]
    BY <1>2, StepKeeps DEF Proceed, Same, TypeInv, Shape
<1>3. ASSUME NEW s \in Rotations, Doing(p, "get"), Got(p, s), Disturb(p)
      PROVE  /\ Same(p) /\ prog'[p] = Follow(p, s) /\ phase'[p] = "ask" /\ view'[p] = s
  <2>1. Same(p)
      BY <1>3, StepKeeps DEF Got, Proceed, Same
  <2>2. prog'[p] = Follow(p, s) /\ phase'[p] = "ask" /\ view'[p] = s
      BY <1>3 DEF Got, Proceed, Follow, TypeInv, RotationTypeOK
  <2> QED BY <2>1, <2>2
<1>4. CASE ClearCache(p)
  <2>1. Busy(p) /\ ~Doing(p, "get") /\ Doing(p, "clear")
      BY <1>4 DEF ClearCache, Doing
  <2> QED BY <1>2, <1>4, <2>1 DEF ClearCache, NextCommand
<1>5. CASE Ask(p)
  <2>1. CASE cache # Nothing
    <3>1. cache \in Rotations
        BY <2>1 DEF TypeInv, RotationTypeOK
    <3>2. HasRead(p, cache) /\ Same(p)
        BY <1>3, <1>5, <2>1, <3>1 DEF Ask, HasRead
    <3> QED BY <3>1, <3>2
  <2>2. CASE cache = Nothing
    <3>1. Same(p)
        BY <1>5, <2>2, StepKeeps DEF Ask, Same
    <3>2. phase'[p] = "read" /\ prog' = prog
        BY <1>5, <2>2 DEF Ask, TypeInv, RotationTypeOK
    <3> QED BY <1>5, <3>1, <3>2 DEF Ask, IsReading
  <2> QED BY <2>1, <2>2
<1>6. CASE Read(p)
  <2>1. Same(p)
      BY <1>6, StepKeeps DEF Read, Same
  <2>2. view'[p] = rotation
      BY <1>6 DEF Read, TypeInv, RotationTypeOK
  <2> QED BY <1>6, <2>1, <2>2 DEF Read, IsReading
<1>7. CASE Store(p)
  <2>1. view[p] \in Rotations
      BY DEF TypeInv, RotationTypeOK
  <2>2. HasRead(p, view[p]) /\ Same(p)
      BY <1>3, <1>7, <2>1 DEF Store, HasRead
  <2> QED BY <2>1, <2>2
<1>8. CASE Command(p)
  <2>1. Changes(p) /\ Busy(p) /\ ~Doing(p, "get")
      BY <1>8 DEF Command, Changes, Sends, Doing
  <2> QED BY <1>2, <1>8, <2>1 DEF Command, NextCommand
<1>9. CASE Verify(p)
  <2>1. Busy(p) /\ ~Doing(p, "get")
      BY <1>9 DEF Verify, Doing
  <2> QED BY <1>2, <1>9, <2>1 DEF Verify, NextCommand
<1> QED BY <1>1, <1>4, <1>5, <1>6, <1>7, <1>8, <1>9 DEF RotationStep, CommandFails, IndexFails, VerifyFails

\* While p applies a result alone: the cache tells the truth or is about to be
\* cleared, and so does what p compares at the end.
ApplyInv(p) ==
    alone[p] /\ fresh[p] /\ op[p].kind = "apply" /\ Busy(p) /\ ~Planning(p) =>
        /\ Neat(prog[p])
        /\ Doing(p, "clear") \/ (Fresh /\ (phase[p] = "store" => view[p] = rotation))
        /\ Doing(p, "verify") => view[p] = rotation

LEMMA ApplySteps ==
    ASSUME TypeInv, TypeInv', NEW p \in Procs, KnowsInv(p), ApplyInv(p), RotationNext
    PROVE  ApplyInv(p)'
<1>1. CASE Lapse
    BY <1>1 DEF Lapse, ApplyInv, Busy, Planning, Doing, Fresh
<1>2. ASSUME NEW q \in Procs, q # p, RotationStep(q) PROVE ApplyInv(p)'
    BY <1>2, OthersDisturb DEF ApplyInv
<1>3. ASSUME NEW task \in Calls, Start(p, task) PROVE ApplyInv(p)'
  <2>1. op'[p] = task /\ prog'[p] = Program(task)
      BY <1>3 DEF Start, TypeInv, RotationTypeOK
  <2>2. CASE task.kind = "apply"
    <3>1. Planning(p)'
        BY <2>1, <2>2 DEF Planning, Program
    <3> QED BY <3>1 DEF ApplyInv
  <2>3. CASE task.kind # "apply"
      BY <2>1, <2>3 DEF ApplyInv
  <2> QED BY <2>2, <2>3
<1>4. CASE prog'[p] = <<>>
    BY <1>4 DEF ApplyInv, Busy
<1>5. ASSUME Same(p), NextCommand(p) PROVE ApplyInv(p)'
  <2> SUFFICES ASSUME alone[p], fresh[p], op[p].kind = "apply", Busy(p)', ~Planning(p)'
               PROVE  /\ Neat(prog'[p])
                      /\ Doing(p, "clear")' \/ (Fresh' /\ phase'[p] = "ask")
                      /\ ~Doing(p, "verify")'
      BY <1>5 DEF ApplyInv, Same, NextCommand
  <2>1. /\ Busy(p) /\ ~Doing(p, "get") /\ prog'[p] = Tail(prog[p]) /\ phase'[p] = "ask"
        /\ op'[p] = op[p]
      BY <1>5 DEF NextCommand, Same
  <2>2. ~Planning(p)
      BY <2>1, PlanningTail
  <2>3. Neat(prog[p]) /\ (Doing(p, "clear") \/ Fresh)
      BY <2>1, <2>2 DEF ApplyInv
  <2>4. prog[p] \in Seq(Instrs) /\ Tail(prog[p]) # <<>>
      BY <2>1 DEF TypeInv, Busy
  <2>5. /\ Neat(Tail(prog[p]))
        /\ Head(prog[p]).do \in Changing => Head(Tail(prog[p])).do = "clear"
        /\ Head(Tail(prog[p])).do # "verify"
    <3>1. Head(prog[p]).do # "get"
        BY <2>1 DEF Doing
    <3> QED BY <2>3, <2>4, <3>1, NeatTail
  <2>6. CASE Doing(p, "clear") /\ cache' = Nothing
      BY <2>1, <2>4, <2>5, <2>6 DEF Fresh, Doing, Busy
  <2>7. CASE Changes(p)
    <3>1. Head(prog[p]).do \in Changing
        BY <2>7 DEF Changes, Sends, Changing
    <3> QED BY <2>1, <2>4, <2>5, <3>1 DEF Doing, Busy
  <2>8. CASE Doing(p, "verify") /\ UNCHANGED <<rotation, cache>>
    <3>1. Fresh
        BY <2>3, <2>8 DEF Doing
    <3> QED BY <2>1, <2>4, <2>5, <2>8, <3>1 DEF Fresh, Doing, Busy
  <2> QED BY <1>5, <2>6, <2>7, <2>8 DEF NextCommand
<1>6. ASSUME Same(p), NEW s \in Rotations, HasRead(p, s) PROVE ApplyInv(p)'
  <2> SUFFICES ASSUME alone[p], fresh[p], op[p].kind = "apply", Busy(p)'
               PROVE  Neat(prog'[p]) /\ Fresh' /\ view'[p] = rotation'
      BY <1>6 DEF ApplyInv, Same, HasRead
  <2>1. Busy(p) /\ Doing(p, "get") /\ ~Doing(p, "clear") /\ prog'[p] = Follow(p, s)
      BY <1>6 DEF HasRead, Doing
  <2>2. s = rotation
    <3>1. CASE Planning(p)
        BY <1>6, <3>1 DEF KnowsInv, Reads, HasRead, Fresh
    <3>2. CASE ~Planning(p)
        BY <1>6, <2>1, <3>2 DEF ApplyInv, HasRead, Fresh
    <3> QED BY <3>1, <3>2
  <2>3. Fresh' /\ view'[p] = rotation'
      BY <1>6, <2>2 DEF HasRead, Fresh
  <2>4. CASE Planning(p)
    <3>1. prog'[p] = ApplyResults(op[p].maps[1], s)
        BY <2>1, <2>4, FollowFacts DEF Plan
    <3>2. op[p] \in Calls /\ s \in Seq(Maps)
        BY RotationsFacts DEF TypeInv, RotationTypeOK
    <3>3. op[p].maps[1] \in Maps
        BY <3>2, CallsFacts
    <3>4. Neat(prog'[p])
        BY <3>1, <3>2, <3>3, ApplyNeat
    <3> QED BY <2>3, <3>4
  <2>5. CASE ~Planning(p)
    <3>1. prog'[p] = Tail(prog[p])
        BY <2>1, <2>5, FollowFacts
    <3>2. Neat(prog[p]) /\ prog[p] \in Seq(Instrs)
        BY <2>1, <2>5 DEF ApplyInv, TypeInv
    <3>3. Neat(prog'[p])
        BY <3>1, <3>2, NeatTail DEF Busy
    <3> QED BY <2>3, <3>3
  <2> QED BY <2>4, <2>5
<1>7. ASSUME Same(p), IsReading(p) PROVE ApplyInv(p)'
  <2>1. Doing(p, "get") /\ ~Doing(p, "clear") /\ ~Doing(p, "verify")
      BY <1>7 DEF IsReading, Doing
  <2> QED BY <1>7, <2>1 DEF ApplyInv, Same, IsReading, Doing, Busy, Planning, Fresh
<1> QED BY <1>1, <1>2, <1>3, <1>4, <1>5, <1>6, <1>7, OwnSteps DEF RotationNext

\* The end of apply_results is the comparison.
LEMMA ApplyEnds ==
    ASSUME TypeInv, NEW p \in Procs, KnowsInv(p), ApplyInv(p), [RotationNext]_rotationVars,
           Completes(p, "apply"), alone'[p], fresh[p]
    PROVE  rotation = op[p].maps
<1>1. Busy(p) /\ prog'[p] = <<>> /\ ~failed'[p] /\ op[p].kind = "apply"
    BY DEF Completes, Busy
<1>2. RotationStep(p)
  <2>1. prog' # prog
      BY <1>1 DEF Busy
  <2> QED BY <2>1, OthersDisturb DEF rotationVars, RotationNext, Lapse
<1>3. ASSUME NEW task \in Calls, Start(p, task) PROVE FALSE
    BY <1>1, <1>3 DEF Start
<1>4. Same(p) /\ (NextCommand(p) \/ (\E s \in Rotations : HasRead(p, s)) \/ IsReading(p))
    BY <1>1, <1>2, <1>3, OwnSteps
<1>5. alone[p] /\ fresh[p]
    BY <1>4 DEF Same
<1>6. prog[p] \in Seq(Instrs)
    BY DEF TypeInv
<1>7. CASE NextCommand(p)
  <2>1. Tail(prog[p]) = <<>> /\ ~Doing(p, "get")
      BY <1>1, <1>7 DEF NextCommand
  <2>2. ~Planning(p)
    <3>1. /\ Tail(<<Get, Instr("plan")>>) = <<Instr("plan")>>
          /\ Tail(<<Clear, Get, Instr("plan")>>) = <<Get, Instr("plan")>>
        OBVIOUS
    <3>2. <<Instr("plan")>> # <<>> /\ <<Get, Instr("plan")>> # <<>>
        OBVIOUS
    <3> QED BY <2>1, <3>1, <3>2 DEF Planning
  <2>3. Neat(prog[p]) /\ (Doing(p, "verify") => view[p] = rotation)
      BY <1>1, <1>5, <2>2 DEF ApplyInv
  <2>4. Head(prog[p]).do \in {"verify", "raise"}
      BY <1>6, <2>1, <2>3, NeatTail
  <2>5. Doing(p, "verify") /\ view[p] = op[p].maps
      BY <1>7, <2>4 DEF NextCommand, Changes, Sends, Doing
  <2> QED BY <2>3, <2>5
<1>8. ASSUME NEW s \in Rotations, HasRead(p, s) PROVE FALSE
  <2>1. Follow(p, s) = <<>> /\ Doing(p, "get")
      BY <1>1, <1>8 DEF HasRead
  <2>2. CASE Planning(p)
    <3>1. Follow(p, s) = ApplyResults(op[p].maps[1], s)
        BY <1>1, <2>1, <2>2, FollowFacts DEF Plan
    <3>2. op[p] \in Calls /\ s \in Seq(Maps)
        BY RotationsFacts DEF TypeInv, RotationTypeOK
    <3>3. op[p].maps[1] \in Maps
        BY <1>1, <3>2, CallsFacts
    <3>4. Follow(p, s) # <<>>
        BY <3>1, <3>2, <3>3, ApplyNeat DEF Neat
    <3> QED BY <2>1, <3>4
  <2>3. CASE ~Planning(p)
    <3>1. Tail(prog[p]) = <<>>
        BY <2>1, <2>3, FollowFacts
    <3>2. Neat(prog[p])
        BY <1>1, <1>5, <2>3 DEF ApplyInv
    <3>3. Head(prog[p]).do \in {"verify", "raise"}
        BY <1>6, <3>1, <3>2, NeatTail
    <3> QED BY <2>1, <3>3 DEF Doing
  <2> QED BY <2>2, <2>3
<1>9. CASE IsReading(p)
    BY <1>1, <1>9 DEF IsReading, Busy
<1> QED BY <1>4, <1>7, <1>8, <1>9

-----------------------------------------------------------------------------
(* What set_maprotation and do_add_maps_to_rotation leave.                 *)

\* A command, carried out once, makes t of s.
Makes(c, s, t) ==
    /\ c.do # "addlast"
    /\ IF c.do \in {"add", "del"} THEN Outcome(c, s) \subseteq {t} ELSE t = s

\* The commands of todo make t of s.
Runs(todo, s, t) ==
    \E h \in [0 .. Len(todo) -> Seq(Maps)] :
        /\ h[0] = s /\ h[Len(todo)] = t
        /\ \A i \in 1 .. Len(todo) : Makes(todo[i], h[i - 1], h[i])

LEMMA RunsTail ==
    ASSUME NEW todo \in Seq(Instrs), todo # <<>>, NEW s, NEW t, Runs(todo, s, t)
    PROVE  /\ \E u \in Seq(Maps) : Makes(Head(todo), s, u) /\ Runs(Tail(todo), u, t)
           /\ Len(todo) = 1 => Makes(Head(todo), s, t)
<1> DEFINE n == Len(todo)
           rest == Tail(todo)
<1>1. PICK h \in [0 .. n -> Seq(Maps)] :
         /\ h[0] = s /\ h[n] = t
         /\ \A i \in 1 .. n : Makes(todo[i], h[i - 1], h[i])
    BY DEF Runs
<1>2. /\ rest \in Seq(Instrs) /\ Len(rest) = n - 1 /\ n \in Nat \ {0}
      /\ Head(todo) = todo[1] /\ \A i \in 1 .. n - 1 : rest[i] = todo[i + 1]
    BY TailFacts
<1> HIDE DEF n, rest
<1> DEFINE g == [i \in 0 .. n - 1 |-> h[i + 1]]
<1>3. g \in [0 .. n - 1 -> Seq(Maps)]
    BY <1>2
<1>4. Makes(Head(todo), s, h[1]) /\ h[1] \in Seq(Maps)
  <2>1. 1 \in 1 .. n /\ 1 \in 0 .. n /\ 1 - 1 = 0
      BY <1>2
  <2> QED BY <1>1, <1>2, <2>1
<1>5. g[0] = h[1] /\ g[n - 1] = t
  <2>1. 0 \in 0 .. n - 1 /\ n - 1 \in 0 .. n - 1 /\ n - 1 + 1 = n
      BY <1>2
  <2> QED BY <1>1, <2>1
<1>6. ASSUME NEW i \in 1 .. n - 1 PROVE Makes(rest[i], g[i - 1], g[i])
  <2>1. /\ i + 1 \in 1 .. n /\ (i + 1) - 1 = i /\ i \in 0 .. n - 1 /\ i - 1 \in 0 .. n - 1
        /\ (i - 1) + 1 = i
      BY <1>2
  <2>2. g[i] = h[i + 1] /\ g[i - 1] = h[i]
      BY <2>1
  <2>3. Makes(todo[i + 1], h[i], h[i + 1])
      BY <1>1, <2>1
  <2> HIDE DEF g
  <2> QED BY <1>2, <2>2, <2>3
<1> HIDE DEF g
<1>7. Runs(rest, h[1], t)
    BY <1>2, <1>3, <1>5, <1>6 DEF Runs
<1>8. n = 1 => h[1] = t
    BY <1>1
<1> QED BY <1>4, <1>7, <1>8 DEF n, rest

LEMMA RunsJoin ==
    ASSUME NEW a \in Seq(Instrs), NEW b \in Seq(Instrs), NEW s, NEW t, NEW u,
           Runs(a, s, t), Runs(b, t, u)
    PROVE  Runs(a \o b, s, u)
<1> DEFINE j == a \o b
<1>1. PICK h \in [0 .. Len(a) -> Seq(Maps)] :
         /\ h[0] = s /\ h[Len(a)] = t
         /\ \A i \in 1 .. Len(a) : Makes(a[i], h[i - 1], h[i])
    BY DEF Runs
<1>2. PICK g \in [0 .. Len(b) -> Seq(Maps)] :
         /\ g[0] = t /\ g[Len(b)] = u
         /\ \A i \in 1 .. Len(b) : Makes(b[i], g[i - 1], g[i])
    BY DEF Runs
<1>3. /\ Len(a) \in Nat /\ Len(b) \in Nat /\ j \in Seq(Instrs) /\ Len(j) = Len(a) + Len(b)
      /\ \A i \in 1 .. Len(a) + Len(b) : j[i] = IF i <= Len(a) THEN a[i] ELSE b[i - Len(a)]
    OBVIOUS
<1> DEFINE f == [i \in 0 .. Len(a) + Len(b) |-> IF i <= Len(a) THEN h[i] ELSE g[i - Len(a)]]
<1> HIDE DEF j
<1>4. ASSUME NEW i \in 0 .. Len(a)
      PROVE  f[i] = h[i] /\ f[i] \in Seq(Maps) /\ i \in 0 .. Len(a) + Len(b)
  <2>1. i \in 0 .. Len(a) + Len(b) /\ i <= Len(a)
      BY <1>3
  <2>2. f[i] = h[i]
      BY <2>1
  <2> HIDE DEF f
  <2> QED BY <2>1, <2>2
<1>5. ASSUME NEW i \in 0 .. Len(b)
      PROVE  /\ f[i + Len(a)] = g[i] /\ f[i + Len(a)] \in Seq(Maps)
             /\ i + Len(a) \in 0 .. Len(a) + Len(b)
  <2>1. i + Len(a) \in 0 .. Len(a) + Len(b) /\ (i + Len(a)) - Len(a) = i
      BY <1>3
  <2>2. CASE i = 0
    <3>1. i + Len(a) = Len(a) /\ f[Len(a)] = h[Len(a)] /\ Len(a) \in 0 .. Len(a)
        BY <1>3, <1>4, <2>2
    <3>2. g[i] = t /\ h[Len(a)] = t
        BY <1>1, <1>2, <2>2
    <3> HIDE DEF f
    <3> QED BY <1>2, <2>1, <3>1, <3>2
  <2>3. CASE i # 0
    <3>1. ~(i + Len(a) <= Len(a))
        BY <1>3, <2>3
    <3>2. f[i + Len(a)] = g[i]
        BY <2>1, <3>1
    <3> HIDE DEF f
    <3> QED BY <2>1, <3>2
  <2> QED BY <2>2, <2>3
<1>6. f \in [0 .. Len(j) -> Seq(Maps)]
  <2>1. ASSUME NEW i \in 0 .. Len(a) + Len(b) PROVE f[i] \in Seq(Maps)
    <3>1. CASE i <= Len(a)
      <4>1. i \in 0 .. Len(a)
          BY <1>3, <3>1
      <4> HIDE DEF f
      <4> QED BY <1>4, <4>1
    <3>2. CASE ~(i <= Len(a))
      <4>1. i - Len(a) \in 0 .. Len(b) /\ (i - Len(a)) + Len(a) = i
          BY <1>3, <3>2
      <4> HIDE DEF f
      <4> QED BY <1>5, <4>1
    <3> QED BY <3>1, <3>2
  <2>2. f = [i \in 0 .. Len(a) + Len(b) |-> f[i]]
      OBVIOUS
  <2> HIDE DEF f
  <2> QED BY <1>3, <2>1, <2>2
<1>7. f[0] = s /\ f[Len(j)] = u
  <2>1. 0 \in 0 .. Len(a) /\ Len(b) \in 0 .. Len(b) /\ Len(b) + Len(a) = Len(j)
      BY <1>3
  <2> HIDE DEF f
  <2> QED BY <1>1, <1>2, <1>4, <1>5, <2>1
<1>8. ASSUME NEW i \in 1 .. Len(j) PROVE Makes(j[i], f[i - 1], f[i])
  <2>1. CASE i <= Len(a)
    <3>1. i \in 1 .. Len(a) /\ i \in 0 .. Len(a) /\ i - 1 \in 0 .. Len(a) /\ i \in 1 .. Len(a) + Len(b)
        BY <1>3, <2>1
    <3>2. f[i] = h[i] /\ f[i - 1] = h[i - 1]
        BY <1>4, <3>1
    <3>3. j[i] = a[i] /\ Makes(a[i], h[i - 1], h[i])
        BY <1>1, <1>3, <2>1, <3>1
    <3> HIDE DEF f
    <3> QED BY <3>2, <3>3
  <2>2. CASE ~(i <= Len(a))
    <3> DEFINE e == i - Len(a)
    <3>1. /\ e \in 1 .. Len(b) /\ e \in 0 .. Len(b) /\ e - 1 \in 0 .. Len(b)
          /\ e + Len(a) = i /\ (e - 1) + Len(a) = i - 1 /\ i \in 1 .. Len(a) + Len(b)
        BY <1>3, <2>2
    <3> HIDE DEF f
    <3>2. f[e + Len(a)] = g[e] /\ f[(e - 1) + Len(a)] = g[e - 1]
        BY <1>5, <3>1
    <3>3. j[i] = b[e] /\ Makes(b[e], g[e - 1], g[e])
        BY <1>2, <1>3, <2>2, <3>1
    <3> HIDE DEF e
    <3> QED BY <3>1, <3>2, <3>3
  <2> QED BY <2>1, <2>2
<1> HIDE DEF f
<1>9. Runs(j, s, u)
    BY <1>6, <1>7, <1>8 DEF Runs
<1> QED BY <1>9 DEF j

\* One command.
LEMMA RunsOne ==
    ASSUME NEW c \in Instrs, NEW s \in Seq(Maps), NEW t \in Seq(Maps), Makes(c, s, t)
    PROVE  Runs(<<c>>, s, t)
<1> DEFINE h == [i \in 0 .. 1 |-> IF i = 0 THEN s ELSE t]
<1>1. /\ h \in [0 .. 1 -> Seq(Maps)] /\ h[0] = s /\ h[1] = t
    OBVIOUS
<1>2. Len(<<c>>) = 1 /\ <<c>>[1] = c
    OBVIOUS
<1> HIDE DEF h
<1>3. \A i \in 1 .. 1 : Makes(<<c>>[i], h[i - 1], h[i])
  <2>1. \A i \in 1 .. 1 : i = 1 /\ i - 1 = 0
      OBVIOUS
  <2> QED BY <1>1, <1>2, <2>1
<1> QED BY <1>1, <1>2, <1>3 DEF Runs

\* The first place of a map is before every other place of it.
LEMMA FirstOf ==
    ASSUME NEW S, NEW s \in Seq(S), NEW m
    PROVE  \A i \in Nth(s, m, 1) : \A k \in DOMAIN s :
              s[k] = m => i \in DOMAIN s /\ s[i] = m /\ i <= k
<1> SUFFICES ASSUME NEW i \in Nth(s, m, 1), NEW k \in DOMAIN s, s[k] = m
             PROVE  i \in DOMAIN s /\ s[i] = m /\ i <= k
    OBVIOUS
<1> DEFINE part == SubSeq(s, 1, i)
           B == {e \in DOMAIN part : part[e] = m}
<1>1. /\ Len(s) \in Nat /\ DOMAIN s = 1 .. Len(s) /\ i \in 1 .. Len(s) /\ s[i] = m
      /\ k \in 1 .. Len(s)
    BY DEF Nth
<1>2. Cardinality(B) = 1
    BY DEF Nth, Occurrences
<1>3. part \in Seq(S) /\ DOMAIN part = 1 .. i /\ \A e \in 1 .. i : part[e] = s[e]
    BY <1>1
<1>4. i \in B
    BY <1>1, <1>3
<1>5. IsFiniteSet(B)
    BY <1>3, OccurrencesType
<1>6. k <= i => k \in B
    BY <1>1, <1>3
<1>7. i \in DOMAIN s /\ s[i] = m /\ i \in Nat /\ k \in Nat
    BY <1>1
<1> HIDE DEF B
<1>8. \E x : B = {x}
    BY <1>2, <1>5, FS_Singleton
<1>9. k <= i => k = i
    BY <1>4, <1>6, <1>8
<1> QED BY <1>7, <1>9

LEMMA SecondPlace ==
    ASSUME NEW S, NEW s \in Seq(S), NEW m, 2 \in DOMAIN s, s[1] # m, s[2] = m,
           NEW i \in Nth(s, m, 1)
    PROVE  i = 2
<1>1. i \in DOMAIN s /\ s[i] = m /\ i <= 2
    BY FirstOf
<1>2. i # 1 /\ i \in Nat /\ i # 0
    BY <1>1
<1> QED BY <1>1, <1>2

\* Removing a map that is the first of all, or the second.
LEMMA RemovesFirst ==
    ASSUME NEW a \in Maps, NEW r \in Seq(Maps)
    PROVE  Makes(Del(a, 1), <<a>> \o r, r)
<1> DEFINE s == <<a>> \o r
<1>2. s \in Seq(Maps) /\ s # <<>> /\ s[1] = a /\ Tail(s) = r
    BY ConsFacts
<1>3. Del(a, 1).do = "del" /\ Del(a, 1).map = a /\ Del(a, 1).nth = 1
    BY DEF Del
<1> HIDE DEF s
<1>4. ASSUME NEW t \in Outcome(Del(a, 1), s) PROVE t = r
  <2>1. PICK i \in Nth(s, a, 1) : t = RemoveAt(s, i)
      BY <1>3 DEF Outcome
  <2>2. i = 1
      BY <1>2, <2>1, FirstPlace
  <2>3. 1 \in DOMAIN s
      BY <1>2
  <2> QED BY <1>2, <2>1, <2>2, <2>3, RemoveAtFacts
<1> QED BY <1>3, <1>4 DEF Makes, s

LEMMA RemovesSecond ==
    ASSUME NEW a \in Maps, NEW x \in Maps, NEW r \in Seq(Maps), NEW s \in Seq(Maps),
           s = <<a>> \o (<<x>> \o r)
    PROVE  Makes(Del(x, 1), s, <<a>> \o r)
<1> DEFINE t == <<a>> \o r
           q == <<x>> \o r
<1>1. t \in Seq(Maps) /\ q \in Seq(Maps)
    BY ConsFacts
<1>2. Del(x, 1).do = "del" /\ Del(x, 1).map = x /\ Del(x, 1).nth = 1
    BY DEF Del
<1>3. CASE a = x
  <2>1. Makes(Del(x, 1), <<x>> \o q, q)
      BY <1>1, RemovesFirst
  <2> QED BY <1>3, <2>1
<1>4. CASE a # x
  <2>1. /\ Len(s) = Len(r) + 2 /\ Len(r) \in Nat /\ s[1] = a /\ s[2] = x
        /\ \A i \in 1 .. Len(r) : s[i + 2] = r[i]
    <3> HIDE DEF t
    <3>1. /\ q \in Seq(Maps) /\ Len(q) = Len(r) + 1 /\ Len(r) \in Nat /\ q[1] = x
          /\ \A i \in 1 .. Len(r) : q[i + 1] = r[i]
        BY ConsFacts
    <3> HIDE DEF q
    <3>2. s = <<a>> \o q
        BY DEF q
    <3>3. /\ Len(s) = Len(q) + 1 /\ s[1] = a
          /\ \A i \in 1 .. Len(q) : s[i + 1] = q[i]
        BY <3>1, <3>2, ConsFacts
    <3>4. Len(s) = Len(r) + 2
        BY <3>1, <3>3
    <3>5. s[2] = x
      <4>1. 1 \in 1 .. Len(q) /\ 1 + 1 = 2
          BY <3>1
      <4> QED BY <3>1, <3>3, <4>1
    <3>6. ASSUME NEW i \in 1 .. Len(r) PROVE s[i + 2] = r[i]
      <4>1. i + 1 \in 1 .. Len(q) /\ (i + 1) + 1 = i + 2
          BY <3>1
      <4> QED BY <3>1, <3>3, <4>1
    <3> QED BY <3>1, <3>3, <3>4, <3>5, <3>6
  <2>2. DOMAIN s = 1 .. Len(r) + 2 /\ 2 \in DOMAIN s
      BY <2>1
  <2>3. ASSUME NEW o \in Outcome(Del(x, 1), s) PROVE o = t
    <3>1. PICK i \in Nth(s, x, 1) : o = RemoveAt(s, i)
        BY <1>2 DEF Outcome
    <3>3. i = 2
      <4>1. 2 \in DOMAIN s /\ s[2] = x /\ s[1] # x
          BY <1>4, <2>1, <2>2
      <4> HIDE DEF t, q
      <4> QED BY <3>1, <4>1, SecondPlace
    <3> DEFINE front == SubSeq(s, 1, 2 - 1)
               back == SubSeq(s, 2 + 1, Len(s))
    <3>4. front = <<a>>
      <4>1. front \in Seq(Maps) /\ Len(front) = 1 /\ front[1] = a
          BY <2>1
      <4>2. <<a>> \in Seq(Maps) /\ Len(<<a>>) = 1 /\ <<a>>[1] = a
          OBVIOUS
      <4>3. \A k \in 1 .. 1 : k = 1
          OBVIOUS
      <4> HIDE DEF front
      <4> DEFINE u == <<a>>
      <4>4. u \in Seq(Maps) /\ Len(u) = 1 /\ u[1] = a
          BY <4>2
      <4> HIDE DEF u
      <4>5. \A k \in 1 .. 1 : front[k] = u[k]
          BY <4>1, <4>3, <4>4
      <4>6. front = u
          BY <4>1, <4>4, <4>5
      <4> QED BY <4>6 DEF u
    <3>5. back = r
      <4>1. /\ back \in Seq(Maps) /\ Len(back) = Len(r)
            /\ \A k \in 1 .. Len(r) : back[k] = s[k + 2]
          BY <2>1
      <4> HIDE DEF back
      <4>2. \A k \in 1 .. Len(r) : back[k] = r[k]
          BY <2>1, <4>1
      <4> QED BY <4>1, <4>2
    <3> QED BY <3>1, <3>3, <3>4, <3>5 DEF RemoveAt
  <2> QED BY <1>2, <2>3 DEF Makes
<1> QED BY <1>3, <1>4

\* Adding a map after the last place of all.
LEMMA AddsAtEnd ==
    ASSUME NEW m \in Maps, NEW s \in Seq(Maps), s # <<>>
    PROVE  Makes(Add(m, Last(s), Occurrences(s, Last(s))), s, Append(s, m))
<1> DEFINE c == Add(m, Last(s), Occurrences(s, Last(s)))
<1>1. /\ c.do = "add" /\ c.map = m /\ c.after = Last(s)
      /\ c.nth = Occurrences(s, Last(s))
    BY DEF Add
<1> HIDE DEF c
<1>2. ASSUME NEW t \in Outcome(c, s) PROVE t = Append(s, m)
  <2>1. PICK i \in Nth(s, Last(s), Occurrences(s, Last(s))) : t = InsertAt(s, i + 1, m)
      BY <1>1 DEF Outcome
  <2>2. i = Len(s)
      BY <2>1, LastPlace
  <2>3. Len(s) + 1 \in 1 .. Len(s) + 1
      OBVIOUS
  <2> QED BY <2>1, <2>2, <2>3, InsertFacts
<1> QED BY <1>1, <1>2 DEF Makes, c

\* Clearing the cache and looking at the rotation leave it alone.
LEMMA RunsNeutral ==
    ASSUME NEW s \in Seq(Maps), NEW c \in Instrs, c.do \in {"clear", "get"}
    PROVE  Runs(<<c>>, s, s)
<1>1. Makes(c, s, s)
    BY DEF Makes
<1> QED BY <1>1, RunsOne

\* The additions that each name the last place of the rotation.
LEMMA RunsAdds ==
    ASSUME NEW s \in Seq(Maps), s # <<>>, NEW maps \in Seq(Maps), NEW adds \in Seq(Instrs),
           Len(adds) = Len(maps),
           \A i \in 1 .. Len(maps) :
              LET now == s \o SubSeq(maps, 1, i - 1)
              IN  adds[i] = Add(maps[i], Last(now), Occurrences(now, Last(now)))
    PROVE  Runs(adds, s, s \o maps)
<1> DEFINE n == Len(maps)
           h == [i \in 0 .. n |-> s \o SubSeq(maps, 1, i)]
<1>1. n \in Nat /\ DOMAIN maps = 1 .. n /\ \A i \in 1 .. n : maps[i] \in Maps
    OBVIOUS
<1>2. ASSUME NEW i \in 0 .. n PROVE h[i] \in Seq(Maps) /\ h[i] # <<>>
  <2> DEFINE part == SubSeq(maps, 1, i)
  <2>1. part \in Seq(Maps)
      BY <1>1
  <2> HIDE DEF part
  <2>2. s \o part \in Seq(Maps) /\ Len(s \o part) # 0
      BY <2>1
  <2>3. h[i] = s \o part
      BY DEF part
  <2> HIDE DEF h
  <2> QED BY <2>2, <2>3
<1>3. h[0] = s /\ h[n] = s \o maps
  <2>1. 0 \in 0 .. n /\ n \in 0 .. n
      BY <1>1
  <2>2. SubSeq(maps, 1, 0) = <<>> /\ SubSeq(maps, 1, n) = maps
      BY <1>1
  <2>3. s \o <<>> = s
      OBVIOUS
  <2> QED BY <2>1, <2>2, <2>3
<1>4. ASSUME NEW i \in 1 .. n PROVE Makes(adds[i], h[i - 1], h[i])
  <2>1. i \in 0 .. n /\ i - 1 \in 0 .. n
      BY <1>1
  <2>2. h[i - 1] = s \o SubSeq(maps, 1, i - 1) /\ h[i] = s \o SubSeq(maps, 1, i)
      BY <2>1
  <2>3. h[i] = Append(h[i - 1], maps[i])
    <3> DEFINE part == SubSeq(maps, 1, i - 1)
               more == SubSeq(maps, 1, i)
    <3>1. part \in Seq(Maps) /\ maps[i] \in Maps
        BY <1>1, <2>1
    <3>2. more = Append(part, maps[i])
      <4>1. /\ Len(part) = i - 1 /\ Len(more) = i /\ more \in Seq(Maps)
            /\ (\A k \in 1 .. i - 1 : part[k] = maps[k]) /\ \A k \in 1 .. i : more[k] = maps[k]
          BY <1>1, <2>1
      <4> DEFINE a == Append(part, maps[i])
      <4> HIDE DEF part, more
      <4>2. /\ a \in Seq(Maps) /\ Len(a) = i /\ a[i] = maps[i]
            /\ \A k \in 1 .. i - 1 : a[k] = part[k]
          BY <3>1, <4>1
      <4> HIDE DEF a
      <4>3. ASSUME NEW k \in 1 .. i PROVE a[k] = more[k]
        <5>1. k = i \/ k \in 1 .. i - 1
            BY <1>1
        <5> QED BY <4>1, <4>2, <5>1
      <4>4. a = more
          BY <4>1, <4>2, <4>3
      <4> QED BY <4>4 DEF a
    <3> HIDE DEF part, more, h
    <3>3. s \o Append(part, maps[i]) = Append(s \o part, maps[i])
        BY <3>1
    <3> QED BY <2>2, <3>2, <3>3 DEF part, more
  <2>4. adds[i] = Add(maps[i], Last(h[i - 1]), Occurrences(h[i - 1], Last(h[i - 1])))
      BY <2>2
  <2>5. h[i - 1] \in Seq(Maps) /\ h[i - 1] # <<>> /\ maps[i] \in Maps
      BY <1>1, <1>2, <2>1
  <2> HIDE DEF h
  <2> QED BY <2>3, <2>4, <2>5, AddsAtEnd
<1>5. h \in [0 .. Len(adds) -> Seq(Maps)]
  <2>1. h = [i \in 0 .. Len(adds) |-> h[i]]
      OBVIOUS
  <2> HIDE DEF h
  <2> QED BY <1>2, <2>1
<1> HIDE DEF h
<1> QED BY <1>3, <1>4, <1>5 DEF Runs

\* All the maps but the first are removed, in their order.
LEMMA RunsDels ==
    ASSUME NEW old \in Seq(Maps), old # <<>>
    PROVE  Runs([i \in 1 .. Len(old) - 1 |-> Del(old[i + 1], 1)], old, <<old[1]>>)
<1> DEFINE n == Len(old)
           one == <<old[1]>>
           dels == [i \in 1 .. n - 1 |-> Del(old[i + 1], 1)]
           h == [i \in 0 .. n - 1 |-> one \o SubSeq(old, i + 2, n)]
<1>1. /\ n \in Nat \ {0} /\ n - 1 \in Nat /\ \A i \in 1 .. n : old[i] \in Maps
      /\ one \in Seq(Maps)
    OBVIOUS
<1>2. Len(dels) = n - 1
    BY <1>1
<1>3. ASSUME NEW i \in 0 .. n - 1
      PROVE  SubSeq(old, i + 2, n) \in Seq(Maps) /\ h[i] \in Seq(Maps)
  <2> DEFINE part == SubSeq(old, i + 2, n)
  <2>1. part \in Seq(Maps)
      BY <1>1
  <2> HIDE DEF part, one
  <2>2. one \o part \in Seq(Maps)
      BY <1>1, <2>1
  <2> QED BY <2>1, <2>2 DEF part
<1>4. h[0] = old
  <2> DEFINE part == SubSeq(old, 2, n)
             s == one \o part
  <2>1. /\ part \in Seq(Maps) /\ Len(part) = n - 1 /\ \A i \in 1 .. n - 1 : part[i] = old[i + 1]
    <3>1. part \in Seq(Maps)
        BY <1>1
    <3>2. CASE n = 1
      <4>1. part = <<>>
          BY <3>2
      <4>2. 1 .. n - 1 = {} /\ n - 1 = 0
          BY <3>2
      <4> HIDE DEF part
      <4> QED BY <3>1, <4>1, <4>2
    <3>3. CASE n # 1
      <4>1. 2 \in 1 .. n
        <5>1. \A k \in Nat \ {0} : k # 1 => 2 \in 1 .. k
            OBVIOUS
        <5> HIDE DEF n
        <5> QED BY <1>1, <3>3, <5>1
      <4>2. Len(part) = n - 2 + 1 /\ \A i \in 1 .. n - 2 + 1 : part[i] = old[i + 2 - 1]
          BY <1>1, <4>1
      <4>3. n - 2 + 1 = n - 1 /\ \A i \in 1 .. n - 1 : i + 2 - 1 = i + 1
          BY <1>1
      <4> HIDE DEF part
      <4> QED BY <3>1, <4>2, <4>3
    <3> QED BY <3>2, <3>3
  <2> HIDE DEF part
  <2>2. /\ s \in Seq(Maps) /\ Len(s) = Len(part) + 1 /\ s[1] = old[1]
        /\ \A i \in 1 .. Len(part) : s[i + 1] = part[i]
      BY <1>1, <2>1, ConsFacts
  <2> HIDE DEF s
  <2>3. Len(s) = n
      BY <1>1, <2>1, <2>2
  <2>4. ASSUME NEW i \in 1 .. n PROVE s[i] = old[i]
    <3>1. i = 1 \/ (i - 1 \in 1 .. n - 1 /\ (i - 1) + 1 = i)
        BY <1>1
    <3> QED BY <2>1, <2>2, <3>1
  <2>5. s = old
      BY <2>2, <2>3, <2>4
  <2>6. 0 \in 0 .. n - 1 /\ 0 + 2 = 2
      BY <1>1
  <2> HIDE DEF one
  <2> QED BY <2>5, <2>6 DEF s, part
<1>5. h[n - 1] = one
  <2>1. n - 1 \in 0 .. n - 1 /\ (n - 1) + 2 = n + 1
      BY <1>1
  <2>2. SubSeq(old, n + 1, n) = <<>>
      BY <1>1
  <2> HIDE DEF one
  <2>3. one \o <<>> = one
      BY <1>1
  <2> QED BY <2>1, <2>2, <2>3
<1>6. ASSUME NEW i \in 1 .. n - 1 PROVE Makes(dels[i], h[i - 1], h[i])
  <2>1. /\ i \in 0 .. n - 1 /\ i - 1 \in 0 .. n - 1 /\ (i - 1) + 2 = i + 1 /\ i + 1 \in 1 .. n
        /\ old[i + 1] \in Maps /\ old[1] \in Maps
      BY <1>1
  <2> DEFINE r == SubSeq(old, i + 2, n)
             q == SubSeq(old, i + 1, n)
  <2>2. r \in Seq(Maps) /\ q \in Seq(Maps)
      BY <1>1, <2>1
  <2>3. q = <<old[i + 1]>> \o r
    <3>1. /\ Len(r) = n - i - 1 /\ \A k \in 1 .. n - i - 1 : r[k] = old[k + i + 1]
        BY <1>1, <2>1
    <3>2. /\ Len(q) = n - i /\ \A k \in 1 .. n - i : q[k] = old[k + i]
        BY <1>1, <2>1
    <3> HIDE DEF q, r
    <3> DEFINE w == <<old[i + 1]>> \o r
    <3>3. /\ w \in Seq(Maps) /\ Len(w) = Len(r) + 1 /\ w[1] = old[i + 1]
          /\ \A k \in 1 .. Len(r) : w[k + 1] = r[k]
        BY <2>1, <2>2, ConsFacts
    <3> HIDE DEF w
    <3>4. Len(w) = n - i
        BY <1>1, <2>1, <3>1, <3>3
    <3>5. ASSUME NEW k \in 1 .. n - i PROVE w[k] = q[k]
      <4>1. CASE k = 1
        <5>1. q[1] = old[1 + i] /\ 1 + i = i + 1
            BY <2>1, <3>2, <4>1
        <5> QED BY <3>3, <4>1, <5>1
      <4>2. CASE k # 1
        <5>1. k - 1 \in 1 .. n - i - 1 /\ (k - 1) + 1 = k /\ (k - 1) + i + 1 = k + i
            BY <1>1, <2>1, <4>2
        <5> QED BY <3>1, <3>2, <3>3, <5>1
      <4> QED BY <4>1, <4>2
    <3>6. w = q
        BY <2>2, <3>2, <3>3, <3>4, <3>5
    <3> QED BY <3>6 DEF w
  <2>4. h[i - 1] = one \o q /\ h[i] = one \o r /\ dels[i] = Del(old[i + 1], 1)
      BY <2>1
  <2>5. h[i - 1] \in Seq(Maps)
      BY <1>3, <2>1
  <2> HIDE DEF h, dels, q, r
  <2>6. h[i - 1] = <<old[1]>> \o (<<old[i + 1]>> \o r)
      BY <2>3, <2>4
  <2>7. Makes(Del(old[i + 1], 1), h[i - 1], <<old[1]>> \o r)
      BY <2>1, <2>2, <2>5, <2>6, RemovesSecond
  <2> QED BY <2>4, <2>7
<1>7. h \in [0 .. Len(dels) -> Seq(Maps)]
  <2>1. h = [i \in 0 .. n - 1 |-> h[i]]
      OBVIOUS
  <2> HIDE DEF h, dels
  <2> QED BY <1>2, <1>3, <2>1
<1> HIDE DEF h
<1>8. /\ h[0] = old /\ h[Len(dels)] = one
      /\ \A i \in 1 .. Len(dels) : Makes(dels[i], h[i - 1], h[i])
    BY <1>2, <1>4, <1>5, <1>6
<1>9. Runs(dels, old, one)
  <2> HIDE DEF dels, one
  <2> QED BY <1>7, <1>8 DEF Runs
<1> QED BY <1>9

\* The last command of a program.
Final(todo) == todo[Len(todo)].do

LEMMA FinalOfJoin ==
    ASSUME NEW x \in Seq(Instrs), NEW y \in Seq(Instrs), y # <<>>
    PROVE  Final(x \o y) = Final(y) /\ x \o y # <<>>
<1> DEFINE z == x \o y
           n == Len(x) + Len(y)
<1>1. /\ Len(x) \in Nat /\ Len(y) \in Nat /\ z \in Seq(Instrs) /\ Len(z) = n
      /\ \A i \in 1 .. n : z[i] = IF i <= Len(x) THEN x[i] ELSE y[i - Len(x)]
    BY JoinFacts
<1>2. Len(y) # 0
    OBVIOUS
<1> HIDE DEF z
<1>3. n \in 1 .. n /\ ~(n <= Len(x)) /\ n - Len(x) = Len(y)
    BY <1>1, <1>2
<1>4. z[n] = y[n - Len(x)]
    BY <1>1, <1>3
<1>5. Len(z) # 0
    BY <1>1, <1>3
<1>6. z # <<>>
    BY <1>5
<1> QED BY <1>1, <1>3, <1>4, <1>6 DEF Final, z

LEMMA FinalOfTail ==
    ASSUME NEW s \in Seq(Instrs), s # <<>>
    PROVE  IF Tail(s) = <<>> THEN Len(s) = 1 /\ Head(s).do = Final(s)
           ELSE Final(Tail(s)) = Final(s)
<1> DEFINE t == Tail(s)
<1>1. /\ t \in Seq(Instrs) /\ Len(t) = Len(s) - 1 /\ Len(s) \in Nat \ {0}
      /\ Head(s) = s[1] /\ \A i \in 1 .. Len(s) - 1 : t[i] = s[i + 1]
    BY TailFacts
<1> HIDE DEF t
<1>2. CASE t = <<>>
  <2>1. Len(t) = 0
      BY <1>2
  <2>2. Len(s) = 1
      BY <1>1, <2>1
  <2> QED BY <1>1, <1>2, <2>2 DEF Final, t
<1>3. CASE t # <<>>
  <2>1. Len(t) # 0
      BY <1>1, <1>3
  <2>2. Len(t) \in 1 .. Len(s) - 1 /\ Len(t) + 1 = Len(s)
      BY <1>1, <2>1
  <2>3. t[Len(t)] = s[Len(s)]
      BY <1>1, <2>2
  <2> QED BY <1>3, <2>3 DEF Final, t
<1> QED BY <1>2, <1>3

\* The last map of a rotation and some of the maps added to it.
LEMMA LastAdded ==
    ASSUME NEW s \in Seq(Maps), s # <<>>, NEW maps \in Seq(Maps), NEW i \in 1 .. Len(maps)
    PROVE  LET part == SubSeq(maps, 1, i - 1) IN
           /\ part \in Seq(Maps)
           /\ Last(s \o part) = IF i = 1 THEN Last(s) ELSE maps[i - 1]
           /\ i = 1 => s \o part = s
<1> DEFINE part == SubSeq(maps, 1, i - 1)
           z == s \o part
<1>1. /\ part \in Seq(Maps) /\ Len(part) = i - 1 /\ i \in Nat \ {0}
      /\ \A k \in 1 .. i - 1 : part[k] = maps[k]
    OBVIOUS
<1>2. CASE i = 1
  <2>1. part = <<>>
      BY <1>2
  <2> HIDE DEF part
  <2>2. s \o part = s
      BY <2>1
  <2> QED BY <1>1, <1>2, <2>2 DEF part
<1>3. CASE i # 1
  <2> HIDE DEF part
  <2>1. /\ Len(s) \in Nat /\ z \in Seq(Maps) /\ Len(z) = Len(s) + Len(part)
        /\ \A k \in 1 .. Len(s) + Len(part) : z[k] = IF k <= Len(s) THEN s[k] ELSE part[k - Len(s)]
      BY <1>1, JoinFacts
  <2> HIDE DEF z
  <2>2. /\ Len(z) \in 1 .. Len(s) + Len(part) /\ ~(Len(z) <= Len(s))
        /\ Len(z) - Len(s) = i - 1 /\ i - 1 \in 1 .. i - 1
      BY <1>1, <1>3, <2>1
  <2>3. z[Len(z)] = maps[i - 1]
      BY <1>1, <2>1, <2>2
  <2> QED BY <1>1, <1>3, <2>3 DEF Last, part, z
<1> QED BY <1>2, <1>3

\* set_maprotation, of a rotation that is not empty, makes the new one.
LEMMA SetRuns ==
    ASSUME NEW maps \in Seq(Maps), maps # <<>>, NEW current \in Seq(Maps), current # <<>>
    PROVE  /\ Runs(SetRotation(maps, current), current, maps)
           /\ Final(SetRotation(maps, current)) \in {"clear", "get"}
           /\ SetRotation(maps, current) # <<>>
<1>0. /\ Clear \in Instrs /\ Get \in Instrs /\ Clear.do = "clear" /\ Get.do = "get"
    BY InstrFacts DEF Clear, Get
<1>1. CASE maps = current
  <2>1. SetRotation(maps, current) = <<Clear>>
      BY <1>1 DEF SetRotation
  <2>2. Runs(<<Clear>>, current, current)
      BY <1>0, RunsNeutral
  <2>3. Final(<<Clear>>) = "clear" /\ <<Clear>> # <<>>
      BY <1>0 DEF Final
  <2> QED BY <1>1, <2>1, <2>2, <2>3
<1>2. CASE maps # current
  <2> DEFINE n == Len(current)
             a == current[1]
             one == <<a>>
             dels == [i \in 1 .. n - 1 |-> Del(current[i + 1], 1)]
             adds == SetAdds(one, maps)
             last == <<Del(a, 1)>>
             end == <<Clear, Get>>
             rest == last \o end
             front == dels \o adds
  <2>1. /\ n \in Nat \ {0} /\ (\A i \in 1 .. n : current[i] \in Maps) /\ a \in Maps
        /\ Len(maps) \in Nat \ {0} /\ DOMAIN maps = 1 .. Len(maps) /\ one \in Seq(Maps)
        /\ one # <<>>
      OBVIOUS
  <2>2. dels \in Seq(Instrs)
      BY <2>1, InstrFacts
  <2>3. Runs(dels, current, one)
      BY RunsDels
  <2>4. adds \in Seq(Instrs) /\ Len(adds) = Len(maps)
    <3>1. adds \in Seq(Settled) /\ Len(adds) = Len(maps)
        BY <2>1, SetAddsFacts
    <3> HIDE DEF adds
    <3> QED BY <3>1, SettledPrograms
  <2>5. ASSUME NEW i \in 1 .. Len(maps)
        PROVE  adds[i] = Add(maps[i], Last(one \o SubSeq(maps, 1, i - 1)),
                             Occurrences(one \o SubSeq(maps, 1, i - 1),
                                         Last(one \o SubSeq(maps, 1, i - 1))))
    <3> DEFINE now == one \o SubSeq(maps, 1, i - 1)
    <3>1. Last(now) = (IF i = 1 THEN Last(one) ELSE maps[i - 1]) /\ (i = 1 => now = one)
      <4>1. one \in Seq(Maps) /\ one # <<>>
          BY <2>1
      <4> HIDE DEF one, a, adds, dels
      <4> QED BY <4>1, LastAdded
    <3>2. Last(one) = a
        BY DEF Last
    <3>3. Head(one \o maps) = a
        BY <2>1, ConsFacts
    <3>4. Occurrences(one, a) = 1
        BY OccurrencesOfOne
    <3>5. adds[i] = IF i = 1 THEN Add(maps[1], Head(one \o maps), 1)
                    ELSE Add(maps[i], maps[i - 1], Occurrences(now, maps[i - 1]))
        BY <2>1 DEF SetAdds
    <3> HIDE DEF now, one, a, adds
    <3> QED BY <3>1, <3>2, <3>3, <3>4, <3>5 DEF now
  <2>6. Runs(adds, one, one \o maps)
    <3> HIDE DEF adds, one
    <3> QED BY <2>1, <2>4, <2>5, RunsAdds
  <2>7. Del(a, 1) \in Instrs /\ last \in Seq(Instrs) /\ last # <<>>
    <3>1. Del(a, 1) \in Instrs
        BY <2>1, InstrFacts
    <3> QED BY <3>1
  <2>8. Runs(last, one \o maps, maps)
    <3>1. Makes(Del(a, 1), one \o maps, maps)
        BY <2>1, RemovesFirst
    <3>2. one \o maps \in Seq(Maps)
        BY <2>1, ConsFacts
    <3> HIDE DEF one, a
    <3> QED BY <2>7, <3>1, <3>2, RunsOne
  <2>9. /\ end \in Seq(Instrs) /\ Runs(end, maps, maps) /\ Final(end) = "get" /\ end # <<>>
    <3> DEFINE x == <<Clear>>
               y == <<Get>>
    <3>1. x \in Seq(Instrs) /\ y \in Seq(Instrs)
        BY <1>0
    <3>2. Runs(x, maps, maps) /\ Runs(y, maps, maps)
        BY <1>0, RunsNeutral
    <3>3. x \o y = end
        BY <1>0, JoinOneOne
    <3>4. end \in Seq(Instrs) /\ Final(end) = "get" /\ end # <<>>
        BY <1>0 DEF Final
    <3> HIDE DEF x, y, end
    <3>5. Runs(x \o y, maps, maps)
        BY <3>1, <3>2, RunsJoin
    <3> QED BY <3>3, <3>4, <3>5
  <2>10. rest = <<Del(a, 1), Clear, Get>>
      BY <1>0, <2>7, JoinOneTwo
  <2>11. /\ rest \in Seq(Instrs) /\ Runs(rest, one \o maps, maps) /\ Final(rest) = "get"
         /\ rest # <<>>
    <3> HIDE DEF last, end, one
    <3>1. rest \in Seq(Instrs)
        BY <2>7, <2>9, JoinFacts
    <3>2. Runs(rest, one \o maps, maps)
        BY <2>7, <2>8, <2>9, RunsJoin
    <3>3. Final(rest) = "get" /\ rest # <<>>
        BY <2>7, <2>9, FinalOfJoin
    <3> QED BY <3>1, <3>2, <3>3
  <2>12. front \in Seq(Instrs) /\ Runs(front, current, one \o maps)
    <3> HIDE DEF dels, adds, one
    <3>1. front \in Seq(Instrs)
        BY <2>2, <2>4, JoinFacts
    <3>2. Runs(front, current, one \o maps)
        BY <2>2, <2>3, <2>4, <2>6, RunsJoin
    <3> QED BY <3>1, <3>2
  <2>13. SetRotation(maps, current) = front \o rest
      BY <1>2, <2>10, Zenon DEF SetRotation
  <2> HIDE DEF front, rest, one
  <2>14. Runs(front \o rest, current, maps)
      BY <2>11, <2>12, RunsJoin
  <2>15. Final(front \o rest) = "get" /\ front \o rest # <<>>
      BY <2>11, <2>12, FinalOfJoin
  <2> QED BY <2>13, <2>14, <2>15
<1> QED BY <1>1, <1>2

\* Of an empty rotation it ends with an exception.
LEMMA SetRaises ==
    ASSUME NEW maps \in Seq(Maps), maps # <<>>
    PROVE  /\ Final(SetRotation(maps, <<>>)) = "raise"
           /\ SetRotation(maps, <<>>) # <<>>
<1> DEFINE dels == [i \in 1 .. 0 - 1 |-> Del(<<>>[i + 1], 1)]
           adds == SetAdds(<<>>, maps)
           front == dels \o adds
           end == <<Raise>>
<1>1. SetRotation(maps, <<>>) = front \o end
  <2>1. Len(<<>>) = 0
      OBVIOUS
  <2> QED BY <2>1, Zenon DEF SetRotation
<1>2. end \in Seq(Instrs) /\ end # <<>> /\ Final(end) = "raise"
  <2>1. Raise \in Instrs /\ Raise.do = "raise"
      BY InstrFacts DEF Raise
  <2> QED BY <2>1 DEF Final
<1>3. dels \in Seq(Instrs)
  <2>1. 1 .. 0 - 1 = 1 .. 0
      OBVIOUS
  <2>2. [i \in 1 .. 0 |-> Del(<<>>[i + 1], 1)] \in Seq(Instrs)
      OBVIOUS
  <2> QED BY <2>1, <2>2, Zenon
<1>4. adds \in Seq(Instrs)
  <2>1. <<>> \in Seq(Maps)
      OBVIOUS
  <2>2. adds \in Seq(Settled)
      BY <2>1, SetAddsFacts
  <2> HIDE DEF adds
  <2> QED BY <2>2, SettledPrograms
<1> HIDE DEF dels, adds, end
<1>5. front \in Seq(Instrs)
    BY <1>3, <1>4, JoinFacts
<1> HIDE DEF front
<1> QED BY <1>1, <1>2, <1>5, FinalOfJoin

\* do_add_maps_to_rotation, of a rotation that is not empty and has none of
\* the maps, puts them at its end.
LEMMA AddMapsRuns ==
    ASSUME NEW maps \in Seq(Maps), NEW current \in Seq(Maps), current # <<>>,
           \A i \in DOMAIN maps : Occurrences(current, maps[i]) = 0
    PROVE  /\ Runs(AddMaps(maps, current), current, current \o maps)
           /\ Final(AddMaps(maps, current)) \in {"clear", "get"}
           /\ AddMaps(maps, current) # <<>>
<1> DEFINE end == <<Clear>>
           goal == current \o maps
           last(i) == IF i = 1 THEN Last(current) ELSE maps[i - 1]
           added(i) == Occurrences(SubSeq(maps, 1, i - 1), last(i))
           nth(i) == IF last(i) = Last(current)
                     THEN Occurrences(current, last(i)) + added(i) ELSE added(i)
<1>1. /\ Len(maps) \in Nat /\ DOMAIN maps = 1 .. Len(maps)
      /\ \A i \in 1 .. Len(maps) : maps[i] \in Maps
    OBVIOUS
<1>2. PICK adds : /\ AddMaps(maps, current) = adds \o end
                  /\ DOMAIN adds = DOMAIN maps
                  /\ adds = [i \in DOMAIN maps |-> adds[i]]
                  /\ \A i \in DOMAIN maps : adds[i] \in Settled /\ adds[i].do = "add"
                  /\ \A i \in DOMAIN maps : adds[i] = NthAdd(maps, current, i)
    BY AddMapsParts
<1>3. adds \in Seq(Instrs) /\ Len(adds) = Len(maps)
  <2>1. adds \in Seq(Settled)
      BY <1>1, <1>2
  <2>2. DOMAIN adds = 1 .. Len(adds) /\ Len(adds) \in Nat
      BY <2>1
  <2>3. \A j \in Nat, k \in Nat : 1 .. j = 1 .. k => j = k
      OBVIOUS
  <2>4. Len(adds) = Len(maps)
      BY <1>1, <1>2, <2>2, <2>3
  <2> QED BY <2>1, <2>4, SettledPrograms
<1>4. ASSUME NEW i \in 1 .. Len(maps)
      PROVE  adds[i] = Add(maps[i], Last(current \o SubSeq(maps, 1, i - 1)),
                           Occurrences(current \o SubSeq(maps, 1, i - 1),
                                       Last(current \o SubSeq(maps, 1, i - 1))))
  <2> DEFINE part == SubSeq(maps, 1, i - 1)
             now == current \o part
  <2>1. part \in Seq(Maps) /\ Last(now) = last(i)
      BY LastAdded
  <2>2. Occurrences(now, last(i)) = Occurrences(current, last(i)) + added(i)
    <3> HIDE DEF last
    <3>1. part \in Seq(Maps)
        BY <2>1
    <3> HIDE DEF part
    <3>2. Occurrences(now, last(i)) = Occurrences(current, last(i)) + Occurrences(part, last(i))
        BY <3>1, OccurrencesOfJoin
    <3> QED BY <3>2 DEF part
  <2>3. last(i) # Last(current) => Occurrences(current, last(i)) = 0
    <3> SUFFICES ASSUME last(i) # Last(current) PROVE Occurrences(current, last(i)) = 0
        OBVIOUS
    <3>1. i # 1 /\ last(i) = maps[i - 1]
        OBVIOUS
    <3>2. i - 1 \in DOMAIN maps
        BY <1>1, <3>1
    <3> HIDE DEF last
    <3> QED BY <3>1, <3>2
  <2>4. added(i) \in Nat
    <3> HIDE DEF last
    <3>1. part \in Seq(Maps)
        BY <2>1
    <3> HIDE DEF part
    <3>2. Occurrences(part, last(i)) \in Nat
        BY <3>1, OccurrencesType
    <3> QED BY <3>2 DEF part
  <2>5. nth(i) = Occurrences(now, last(i))
    <3>1. CASE last(i) = Last(current)
        BY <2>2, <3>1
    <3>2. CASE last(i) # Last(current)
      <4>1. Occurrences(now, last(i)) = 0 + added(i)
          BY <2>2, <2>3, <3>2
      <4>2. nth(i) = added(i)
          BY <3>2
      <4> HIDE DEF nth, added, last, now
      <4> QED BY <2>4, <4>1, <4>2
    <3> QED BY <3>1, <3>2
  <2>6. adds[i] = Add(maps[i], last(i), nth(i))
    <3>1. adds[i] = NthAdd(maps, current, i)
        BY <1>1, <1>2
    <3> HIDE DEF now
    <3> QED BY <3>1, Zenon DEF NthAdd, NthBefore, Before
  <2> HIDE DEF last, nth, added, now
  <2> QED BY <2>1, <2>5, <2>6 DEF now
<1>5. Runs(adds, current, goal)
  <2> HIDE DEF last, nth, added
  <2> QED BY <1>3, <1>4, RunsAdds
<1>6. /\ end \in Seq(Instrs) /\ Runs(end, goal, goal) /\ Final(end) = "clear"
      /\ end # <<>>
  <2>1. Clear \in Instrs /\ Clear.do = "clear"
      BY InstrFacts DEF Clear
  <2>2. goal \in Seq(Maps)
      OBVIOUS
  <2> HIDE DEF goal
  <2>3. Runs(<<Clear>>, goal, goal)
      BY <2>1, <2>2, RunsNeutral
  <2> QED BY <2>1, <2>3 DEF Final
<1> HIDE DEF end, goal
<1>7. Runs(adds \o end, current, goal)
    BY <1>3, <1>5, <1>6, RunsJoin
<1>8. Final(adds \o end) = "clear" /\ adds \o end # <<>>
    BY <1>3, <1>6, FinalOfJoin
<1> QED BY <1>2, <1>7, <1>8 DEF goal

\* The operations whose effect is known, and what they have to make.
Aims(p) ==
    \/ op[p].kind = "set"
    \/ /\ op[p].kind = "adds"
       /\ \A i \in DOMAIN op[p].maps : Occurrences(before[p], op[p].maps[i]) = 0

Goal(p) == IF op[p].kind = "set" THEN op[p].maps ELSE before[p] \o op[p].maps

\* What p has still to do makes what was asked for, or raises.
GoalInv(p) ==
    alone[p] /\ ~twice[p] /\ Aims(p) /\ Busy(p) /\ ~Planning(p) =>
        \/ Final(prog[p]) = "raise"
        \/ Final(prog[p]) \in {"clear", "get"} /\ Runs(prog[p], rotation, Goal(p))

\* The next command of p, if none is repeated.
LEMMA CommandMakes ==
    ASSUME TypeInv, NEW p \in Procs, NEW t, NextCommand(p), ~twice'[p],
           Makes(Head(prog[p]), rotation, t)
    PROVE  rotation' = t /\ ~twice[p]
<1>1. CASE Changes(p)
  <2>1. Sends(p) /\ ~twice[p] /\ rotation' \in Once(p)
      BY <1>1, ChangesFacts
  <2>2. Sent(p) = Head(prog[p])
      BY <2>1, SentFacts DEF Makes
  <2>3. Head(prog[p]).do \in {"add", "del"}
      BY <2>1 DEF Sends, Makes
  <2>4. rotation' \in Outcome(Head(prog[p]), rotation)
      BY <2>1, <2>2 DEF Once
  <2> QED BY <2>1, <2>3, <2>4 DEF Makes
<1>2. CASE Doing(p, "clear") /\ UNCHANGED <<rotation, twice>>
    BY <1>2 DEF Doing, Makes
<1>3. CASE Doing(p, "verify") /\ UNCHANGED <<rotation, twice>>
    BY <1>3 DEF Doing, Makes
<1> QED BY <1>1, <1>2, <1>3 DEF NextCommand

LEMMA TwiceKept ==
    ASSUME TypeInv, NEW p \in Procs, NextCommand(p), ~twice'[p]
    PROVE  ~twice[p]
BY ChangesFacts DEF NextCommand

\* The plan that p makes when it has read the rotation.
LEMMA GoalPlanned ==
    ASSUME TypeInv, NEW p \in Procs, Aims(p), before[p] = rotation
    PROVE  /\ Plan(op[p], rotation) # <<>>
           /\ \/ Final(Plan(op[p], rotation)) = "raise"
              \/ /\ Final(Plan(op[p], rotation)) \in {"clear", "get"}
                 /\ Runs(Plan(op[p], rotation), rotation, Goal(p))
<1> DEFINE maps == op[p].maps
<1>1. op[p] \in Calls /\ rotation \in Seq(Maps) /\ op[p].kind \in {"set", "adds"}
    BY RotationsFacts DEF TypeInv, RotationTypeOK, Aims
<1>2. maps \in Seq(Maps) /\ maps # <<>>
    BY <1>1, CallsFacts
<1>3. CASE op[p].kind = "set"
  <2>1. Plan(op[p], rotation) = SetRotation(maps, rotation) /\ Goal(p) = maps
      BY <1>3 DEF Plan, Goal
  <2> HIDE DEF maps
  <2>2. CASE rotation = <<>>
      BY <1>2, <2>1, <2>2, SetRaises
  <2>3. CASE rotation # <<>>
      BY <1>1, <1>2, <2>1, <2>3, SetRuns
  <2> QED BY <2>2, <2>3
<1>4. CASE op[p].kind = "adds"
  <2>1. Plan(op[p], rotation) = AddMaps(maps, rotation) /\ Goal(p) = rotation \o maps
      BY <1>4 DEF Plan, Goal
  <2>2. \A i \in DOMAIN maps : Occurrences(rotation, maps[i]) = 0
      BY <1>4 DEF Aims
  <2> HIDE DEF maps
  <2>3. CASE rotation = <<>>
    <3>1. AddMaps(maps, rotation) = <<Raise>>
        BY <2>3 DEF AddMaps
    <3>2. <<Raise>> # <<>> /\ Final(<<Raise>>) = "raise"
      <4>1. Raise.do = "raise"
          BY InstrFacts DEF Raise
      <4> QED BY <4>1 DEF Final
    <3> QED BY <2>1, <3>1, <3>2
  <2>4. CASE rotation # <<>>
      BY <1>1, <1>2, <2>1, <2>2, <2>4, AddMapsRuns
  <2> QED BY <2>3, <2>4
<1> QED BY <1>1, <1>3, <1>4

LEMMA GoalSteps ==
    ASSUME TypeInv, TypeInv', NEW p \in Procs, KnowsInv(p), GoalInv(p), RotationNext
    PROVE  GoalInv(p)'
<1>1. CASE Lapse
    BY <1>1 DEF Lapse, GoalInv, Busy, Planning, Aims, Goal
<1>2. ASSUME NEW q \in Procs, q # p, RotationStep(q) PROVE GoalInv(p)'
    BY <1>2, OthersDisturb DEF GoalInv
<1>3. ASSUME NEW task \in Calls, Start(p, task) PROVE GoalInv(p)'
  <2>1. op'[p] = task /\ prog'[p] = Program(task)
      BY <1>3 DEF Start, TypeInv, RotationTypeOK
  <2>2. CASE task.kind \in {"set", "adds"}
    <3>1. Planning(p)'
        BY <2>1, <2>2 DEF Planning, Program
    <3> QED BY <3>1 DEF GoalInv
  <2>3. CASE task.kind \notin {"set", "adds"}
      BY <2>1, <2>3 DEF GoalInv, Aims
  <2> QED BY <2>2, <2>3
<1>4. CASE prog'[p] = <<>>
    BY <1>4 DEF GoalInv, Busy
<1>5. ASSUME Same(p), NextCommand(p) PROVE GoalInv(p)'
  <2> SUFFICES ASSUME alone[p], ~twice'[p], Aims(p), Busy(p)', ~Planning(p)'
               PROVE  \/ Final(prog'[p]) = "raise"
                      \/ /\ Final(prog'[p]) \in {"clear", "get"}
                         /\ Runs(prog'[p], rotation', Goal(p))
      BY <1>5 DEF GoalInv, Same, Aims, Goal
  <2>1. /\ Busy(p) /\ ~Doing(p, "get") /\ prog'[p] = Tail(prog[p]) /\ op'[p] = op[p]
        /\ ~twice[p]
      BY <1>5, TwiceKept DEF NextCommand, Same
  <2>2. ~Planning(p)
      BY <2>1, PlanningTail
  <2>3. \/ Final(prog[p]) = "raise"
        \/ Final(prog[p]) \in {"clear", "get"} /\ Runs(prog[p], rotation, Goal(p))
      BY <2>1, <2>2 DEF GoalInv
  <2>4. /\ prog[p] \in Seq(Instrs) /\ prog[p] # <<>> /\ Tail(prog[p]) # <<>>
        /\ Final(Tail(prog[p])) = Final(prog[p])
      BY <2>1, FinalOfTail DEF TypeInv, Busy
  <2>5. ASSUME Runs(prog[p], rotation, Goal(p)) PROVE Runs(prog'[p], rotation', Goal(p))
    <3>1. PICK u \in Seq(Maps) : Makes(Head(prog[p]), rotation, u) /\ Runs(Tail(prog[p]), u, Goal(p))
        BY <2>4, <2>5, RunsTail
    <3>2. rotation' = u
        BY <1>5, <3>1, CommandMakes
    <3> QED BY <2>1, <3>1, <3>2
  <2> QED BY <2>1, <2>3, <2>4, <2>5
<1>6. ASSUME Same(p), NEW s \in Rotations, HasRead(p, s) PROVE GoalInv(p)'
  <2> SUFFICES ASSUME alone[p], ~twice[p], Aims(p), Busy(p)'
               PROVE  \/ Final(prog'[p]) = "raise"
                      \/ /\ Final(prog'[p]) \in {"clear", "get"}
                         /\ Runs(prog'[p], rotation, Goal(p))
      BY <1>6 DEF GoalInv, Same, HasRead, Aims, Goal
  <2>1. Busy(p) /\ Doing(p, "get") /\ prog'[p] = Follow(p, s)
      BY <1>6 DEF HasRead, Doing
  <2>2. CASE Planning(p)
    <3>1. prog[p] = <<Get, Instr("plan")>> /\ Follow(p, s) = Plan(op[p], s)
        BY <2>1, <2>2, FollowFacts
    <3>2. Reads(p) /\ before[p] = rotation
        BY <2>2, <3>1 DEF Reads, KnowsInv, Aims
    <3>3. s = rotation
        BY <1>6, <2>2, <3>2 DEF KnowsInv, HasRead, Fresh
    <3> QED BY <2>1, <3>1, <3>2, <3>3, GoalPlanned
  <2>3. CASE ~Planning(p)
    <3>1. prog'[p] = Tail(prog[p])
        BY <2>1, <2>3, FollowFacts
    <3>2. \/ Final(prog[p]) = "raise"
          \/ Final(prog[p]) \in {"clear", "get"} /\ Runs(prog[p], rotation, Goal(p))
        BY <2>1, <2>3 DEF GoalInv
    <3>3. /\ prog[p] \in Seq(Instrs) /\ prog[p] # <<>> /\ Tail(prog[p]) # <<>>
          /\ Final(Tail(prog[p])) = Final(prog[p])
        BY <2>1, <3>1, FinalOfTail DEF TypeInv, Busy
    <3>4. ASSUME Runs(prog[p], rotation, Goal(p)) PROVE Runs(prog'[p], rotation, Goal(p))
      <4>1. PICK u \in Seq(Maps) : Makes(Head(prog[p]), rotation, u) /\ Runs(Tail(prog[p]), u, Goal(p))
          BY <3>3, <3>4, RunsTail
      <4>2. u = rotation
          BY <2>1, <4>1 DEF Doing, Makes
      <4> QED BY <3>1, <4>1, <4>2
    <3> QED BY <3>1, <3>2, <3>3, <3>4
  <2> QED BY <2>2, <2>3
<1>7. ASSUME Same(p), IsReading(p) PROVE GoalInv(p)'
    BY <1>7 DEF GoalInv, Same, IsReading, Busy, Planning, Aims, Goal
<1> QED BY <1>1, <1>2, <1>3, <1>4, <1>5, <1>6, <1>7, OwnSteps DEF RotationNext

\* What the operation leaves.
LEMMA GoalEnds ==
    ASSUME TypeInv, NEW p \in Procs, KnowsInv(p), GoalInv(p), [RotationNext]_rotationVars,
           Busy(p), prog'[p] = <<>>, ~failed'[p], alone'[p], ~twice[p], Aims(p)
    PROVE  rotation = Goal(p)
<1>2. RotationStep(p)
  <2>1. prog' # prog
      BY DEF Busy
  <2> QED BY <2>1, OthersDisturb DEF rotationVars, RotationNext, Lapse
<1>3. ASSUME NEW task \in Calls, Start(p, task) PROVE FALSE
    BY <1>3 DEF Start
<1>4. Same(p) /\ (NextCommand(p) \/ (\E s \in Rotations : HasRead(p, s)) \/ IsReading(p))
    BY <1>2, <1>3, OwnSteps
<1>5. alone[p]
    BY <1>4 DEF Same
<1>6. prog[p] \in Seq(Instrs) /\ prog[p] # <<>>
    BY DEF TypeInv, Busy
<1>7. ASSUME ~Planning(p), Tail(prog[p]) = <<>>, ~Doing(p, "raise")
      PROVE  rotation = Goal(p)
  <2>1. Len(prog[p]) = 1 /\ Head(prog[p]).do = Final(prog[p])
      BY <1>6, <1>7, FinalOfTail
  <2>2. Final(prog[p]) \in {"clear", "get"} /\ Runs(prog[p], rotation, Goal(p))
      BY <1>5, <1>7, <2>1 DEF GoalInv, Doing
  <2>3. Makes(Head(prog[p]), rotation, Goal(p))
      BY <1>6, <2>1, <2>2, RunsTail
  <2> QED BY <2>1, <2>2, <2>3 DEF Makes
<1>8. CASE NextCommand(p)
  <2>1. Tail(prog[p]) = <<>> /\ ~Doing(p, "get")
      BY <1>8 DEF NextCommand
  <2>2. ~Planning(p)
    <3>1. /\ Tail(<<Get, Instr("plan")>>) = <<Instr("plan")>>
          /\ Tail(<<Clear, Get, Instr("plan")>>) = <<Get, Instr("plan")>>
        OBVIOUS
    <3>2. <<Instr("plan")>> # <<>> /\ <<Get, Instr("plan")>> # <<>>
        OBVIOUS
    <3> QED BY <2>1, <3>1, <3>2 DEF Planning
  <2>3. ~Doing(p, "raise")
      BY <1>8 DEF NextCommand, Changes, Sends, Doing
  <2> QED BY <1>7, <2>1, <2>2, <2>3
<1>9. ASSUME NEW s \in Rotations, HasRead(p, s) PROVE rotation = Goal(p)
  <2>1. Follow(p, s) = <<>> /\ Doing(p, "get") /\ ~Doing(p, "raise")
      BY <1>9 DEF HasRead, Doing
  <2>2. CASE Planning(p)
    <3>1. prog[p] = <<Get, Instr("plan")>> /\ Follow(p, s) = Plan(op[p], s)
        BY <2>1, <2>2, FollowFacts
    <3>2. Reads(p) /\ before[p] = rotation
        BY <1>5, <2>2, <3>1 DEF Reads, KnowsInv, Aims
    <3>3. s = rotation
        BY <1>5, <1>9, <2>2, <3>2 DEF KnowsInv, HasRead, Fresh
    <3> QED BY <2>1, <3>1, <3>2, <3>3, GoalPlanned
  <2>3. CASE ~Planning(p)
    <3>1. Tail(prog[p]) = <<>>
        BY <2>1, <2>3, FollowFacts
    <3> QED BY <1>7, <2>1, <2>3, <3>1
  <2> QED BY <2>2, <2>3
<1>10. CASE IsReading(p)
    BY <1>10 DEF IsReading, Busy
<1> QED BY <1>4, <1>8, <1>9, <1>10

-----------------------------------------------------------------------------
MapInv ==
    /\ TypeInv
    /\ \A p \in Procs : KnowsInv(p) /\ CourseInv(p) /\ ApplyInv(p) /\ GoalInv(p)

LEMMA MapInvInit == RotationInit => MapInv
<1> SUFFICES ASSUME RotationInit PROVE MapInv
    OBVIOUS
<1>1. TypeInv
    BY TypeInit
<1>2. ASSUME NEW p \in Procs PROVE ~alone[p]
    BY DEF RotationInit
<1> QED BY <1>1, <1>2 DEF MapInv, KnowsInv, CourseInv, ApplyInv, GoalInv

LEMMA MapInvNext == MapInv /\ [RotationNext]_rotationVars => MapInv'
<1> SUFFICES ASSUME MapInv, [RotationNext]_rotationVars PROVE MapInv'
    OBVIOUS
<1>1. TypeInv /\ TypeInv'
    BY TypeInductive DEF MapInv
<1>2. CASE UNCHANGED rotationVars
  <2> SUFFICES ASSUME NEW p \in Procs
               PROVE  (KnowsInv(p) /\ CourseInv(p) /\ ApplyInv(p) /\ GoalInv(p))'
      BY <1>1 DEF MapInv
  <2>1. KnowsInv(p)' /\ CourseInv(p)'
      BY <1>2 DEF rotationVars, MapInv, KnowsInv, CourseInv, Planning, Reads, Fresh
  <2>2. ApplyInv(p)'
      BY <1>2 DEF rotationVars, MapInv, ApplyInv, Busy, Planning, Doing, Fresh
  <2>3. GoalInv(p)'
      BY <1>2 DEF rotationVars, MapInv, GoalInv, Busy, Planning, Aims, Goal
  <2> QED BY <2>1, <2>2, <2>3
<1>3. CASE RotationNext
  <2> SUFFICES ASSUME NEW p \in Procs
               PROVE  (KnowsInv(p) /\ CourseInv(p) /\ ApplyInv(p) /\ GoalInv(p))'
      BY <1>1 DEF MapInv
  <2>1. KnowsInv(p) /\ CourseInv(p) /\ ApplyInv(p) /\ GoalInv(p)
      BY DEF MapInv
  <2> QED BY <1>1, <1>3, <2>1, KnowsSteps, CourseSteps, ApplySteps, GoalSteps
<1> QED BY <1>2, <1>3

\* The invariant of the rotation: types, the shape of the programs, what a
\* process that is alone knows of the rotation, and what its program leads to.
THEOREM RotationInvariant == RotationSpec => []MapInv
BY MapInvInit, MapInvNext, PTL DEF RotationSpec

\* Whatever the processes call and wherever a command fails, is repeated or is
\* refused: the variables have their types.
THEOREM RotationTypeCorrect == RotationSpec => []RotationTypeOK
<1>1. MapInv => RotationTypeOK
    BY DEF MapInv, TypeInv
<1> QED BY <1>1, RotationInvariant, PTL

\* set_maprotation, the additions and apply_results leave a map on the game
\* server at any time, wherever they fail, for any number of maps.
THEOREM NeverWithoutMap == RotationSpec => []NeverEmptied
<1>1. MapInv => NeverEmptied
    BY DEF MapInv, CourseInv, NeverEmptied
<1> QED BY <1>1, RotationInvariant, PTL

\* When apply_results ends, its winner is the only map in the rotation.
THEOREM ResultIsApplied == RotationSpec => ApplyTakesEffect
<1>1. MapInv /\ [RotationNext]_rotationVars =>
         [\A p \in Procs :
             Completes(p, "apply") /\ alone'[p] /\ fresh[p] => rotation = op[p].maps]_rotationVars
    BY ApplyEnds DEF MapInv
<1> QED BY <1>1, RotationInvariant, PTL DEF RotationSpec, ApplyTakesEffect

\* When set_maprotation ends, the rotation is the one that was asked for: of
\* any length, with any map any number of times, from any other.
THEOREM RotationIsSet == RotationSpec => SetTakesEffect
<1>1. ASSUME MapInv, [RotationNext]_rotationVars, NEW p \in Procs,
             Completes(p, "set"), alone'[p], ~twice[p]
      PROVE  rotation = op[p].maps
  <2>1. rotation = Goal(p)
      BY <1>1, GoalEnds DEF MapInv, Completes, Busy, Aims
  <2> QED BY <1>1, <2>1 DEF Goal, Completes
<1>2. MapInv /\ [RotationNext]_rotationVars =>
         [\A p \in Procs :
             Completes(p, "set") /\ alone'[p] /\ ~twice[p] => rotation = op[p].maps]_rotationVars
    BY <1>1
<1> QED BY <1>2, RotationInvariant, PTL DEF RotationSpec, SetTakesEffect

\* When do_add_maps_to_rotation ends, the maps that the rotation did not have
\* are at its end, in the order in which they were given.
THEOREM NewMapsAreLast == RotationSpec => NewMapsGoToTheEnd
<1>1. ASSUME MapInv, [RotationNext]_rotationVars, NEW p \in Procs,
             Completes(p, "adds"), alone'[p], ~twice[p],
             \A i \in DOMAIN op[p].maps : Occurrences(before[p], op[p].maps[i]) = 0
      PROVE  rotation = before[p] \o op[p].maps
  <2>1. rotation = Goal(p)
      BY <1>1, GoalEnds DEF MapInv, Completes, Busy, Aims
  <2> QED BY <1>1, <2>1 DEF Goal, Completes
<1>2. MapInv /\ [RotationNext]_rotationVars =>
         [\A p \in Procs :
             /\ Completes(p, "adds") /\ alone'[p] /\ ~twice[p]
             /\ \A i \in DOMAIN op[p].maps : Occurrences(before[p], op[p].maps[i]) = 0
             => rotation = before[p] \o op[p].maps]_rotationVars
    BY <1>1
<1> QED BY <1>2, RotationInvariant, PTL DEF RotationSpec, NewMapsGoToTheEnd
=============================================================================
