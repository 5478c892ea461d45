\* Three threads over a pool of two, as many idle as open (the defaults' shape).
\* Liveness is checked too, so no symmetry.
SPECIFICATION FairSpec
CONSTANTS
    Threads = {t1, t2, t3}
    Conns = {c1, c2, c3}
    NoConn = NoConn
    Free = Free
    Leaked = Leaked
    MaxOpen = 2
    MaxIdle = 2
    MaxPolls = 1
INVARIANTS
    CountIsExact
PROPERTIES
    NoConnectionAfterLeak
    LeaseSpec
    AcquisitionEnds
