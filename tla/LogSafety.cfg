\* The log loop with two hooks of a line, and the recorder beside it.  Windows
\* of 2 and 1 minutes stand for 180 and 5, the sweep comes at 2 for 280.
SPECIFICATION SystemSpec
CONSTANTS
    MaxTime = 3
    MaxLines = 3
    FirstWindow = 2
    Window = 1
    Keep = 2
    HistoryLen = 2
    Hooks = 2
INVARIANTS
    HooksRunOnceInOrder
    HistoryInOrder
    NothingMissed
    NeverInsertedTwice
    OnlySplitSecondsAreLost
