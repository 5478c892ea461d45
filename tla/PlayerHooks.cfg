CONSTANTS
    Here = here
    There = there
    Nowhere = nowhere
    Configs <- All
    MaxVisits = 2
    MaxFaults = 1
SPECIFICATION Spec
INVARIANTS SessionIsVisit BlacklistIsEnforced KickIsPardoned
PROPERTY UnbanMeansUnbanned
CHECK_DEADLOCK FALSE
