\* Two players, one request or job at a time beside the service and the log
\* loop, one failure.
SPECIFICATION Spec
CONSTANTS
    Players = {p1, p2}
    Requests = {web}
    Expirer = expirer
    Log = log
    Terms = {0}
    Uploads <- OneOfThem
    MaxTime = 1
    MaxFaults = 1
    Nobody = nobody
INVARIANTS VipLastsAsGiven
PROPERTIES RowGoneVipGone BulkLeavesTheList
CHECK_DEADLOCK FALSE
