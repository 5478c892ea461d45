\* Two requests on each of the 30 configurations, the seeding, and a database
\* that may fail any of their accesses.
CONSTANTS
    FreeKeys = {k1}
    k1 = k1
    HttpRequests = {r1, r2}
    r1 = r1
    r2 = r2
SPECIFICATION Spec
 
PROPERTIES OutageNeverResets
SYMMETRY Symmetry
CHECK_DEADLOCK FALSE
