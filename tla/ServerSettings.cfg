\* Rules over defaults for two settings; two requests that edit at once; two
\* threads that set messages; two processes that set map shuffle.
SPECIFICATION Settings
CONSTANTS
    SetName = setA
    OtherName = doB
    Default = default
    Given = {v1, v2}
    SetNames <- MCSetNames
    OtherNames <- MCOtherNames
    Values <- MCValues
    Unset = Unset
    Configs <- MCConfigs
    Edits <- MCEdits
    Requests = {r1, r2}
    NoConfig = NoConfig
    Setters = {s1, s2}
    Lasting = {a, b}
    Temporary = {t1}
    Blank = Blank
    Worker = worker
    MaxJobs = 2
    Callers = {c1, c2}
    Unknown = Unknown
SYMMETRY Alike
INVARIANTS
    RulesWin
    EditIsRun
    OffIsWanted
    TemporaryEnds
    ShownIsSaved
PROPERTIES
    ShuffleAsWanted
