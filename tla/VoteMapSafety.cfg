\* The hooks and one request at a time, in any order and overlap.
SPECIFICATION VoteSpec
CONSTANTS
    Hooks = hooks
    WebRequests = {web1}
    Players = {v1, v2, v3}
    Maps = {m1, m2, m3}
    NoMap = NoMap
    Options = 2
    FromSelection = TRUE
INVARIANTS
    VotesAreForTheSelection
    WinnerIsNext
    SelectionStays
