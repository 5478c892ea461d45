\* The first window is longer than the later ones, the stream has two entries.
SPECIFICATION Spec
CONSTANTS
    MaxTime = 3
    MaxLines = 4
    Startup = 2
    Refresh = 1
    StreamSize = 2
    NoId = NoId
INVARIANTS
    ReceivedOnceInOrder
    NoneMissed
