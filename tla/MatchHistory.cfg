CONSTANTS
    Players = {p1}
    p1 = p1
    Maps <- MCMaps
    Rotation <- MCRotation
    Base <- MCBase
    LogMap <- MCLogMap
    Unknown = "unknown"
    NoMap = "bla_"
    WarmUp = 1
    EndGuess = 2
    FreshStart = 2
    FreshEnd = 1
    JobDelay = 0
    MaxLen = 2
    MaxMatches = 3
    MaxClock = 2
    MaxScore = 1
    MaxFaults = 1
SPECIFICATION Spec
INVARIANTS HistoryInOrder NotGuessedWasPlayed GameStoredOnce NoForeignScore
PROPERTY RecordedScoresStay
CHECK_DEADLOCK FALSE
