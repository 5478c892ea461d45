----------------------------- MODULE ConnLease -----------------------------
(***************************************************************************)
(* What the connection pool of ServerCtl (rcon/commands.py) promises its   *)
(* callers: an RCON connection is lent to one thread at a time, and no     *)
(* more than MaxOpen of them are open.  ConnPool is the code; its          *)
(* refinement mapping into this module is at its end.                      *)
(***************************************************************************)
EXTENDS Naturals, FiniteSets

CONSTANTS
    Threads,    \* the threads of one process that send RCON commands
    Conns,      \* names for the HLLConnection objects
    NoConn,     \* "holds no connection"
    MaxOpen     \* ServerCtl.maxOpen

VARIABLES
    free,       \* open connections nobody uses
    lent        \* lent[t]: the connection thread t uses, or NoConn

vars == <<free, lent>>

InUse == {lent[t] : t \in Threads} \ {NoConn}

Open == free \cup InUse

Init ==
    /\ free = {}
    /\ lent = [t \in Threads |-> NoConn]

\* A thread opens a connection of its own while the pool has room.
Connect(t) ==
    /\ lent[t] = NoConn
    /\ Cardinality(Open) < MaxOpen
    /\ \E c \in Conns \ Open : lent' = [lent EXCEPT ![t] = c]
    /\ UNCHANGED free

\* A thread borrows a connection nobody uses.
Borrow(t) ==
    /\ lent[t] = NoConn
    /\ \E c \in free :
          /\ free' = free \ {c}
          /\ lent' = [lent EXCEPT ![t] = c]

\* The borrower gives its connection back,
GiveBack(t) ==
    /\ lent[t] # NoConn
    /\ free' = free \cup {lent[t]}
    /\ lent' = [lent EXCEPT ![t] = NoConn]

\* or throws it away.
Drop(t) ==
    /\ lent[t] # NoConn
    /\ lent' = [lent EXCEPT ![t] = NoConn]
    /\ UNCHANGED free

Next == \E t \in Threads : Connect(t) \/ Borrow(t) \/ GiveBack(t) \/ Drop(t)

Spec == Init /\ [][Next]_vars
=============================================================================
