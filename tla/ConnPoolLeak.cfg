\* Two waiters see the same returned connection.
SPECIFICATION Spec
CONSTANTS
    Threads = {t1, t2, t3}
    Conns = {c1, c2}
    NoConn = NoConn
    Free = Free
    Leaked = Leaked
    MaxOpen = 2
    MaxIdle = 2
    MaxPolls = 1
INVARIANTS
    LockNeverLeaked
