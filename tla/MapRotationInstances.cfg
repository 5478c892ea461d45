\* One process and all operations, or the log loop and a request of the web
\* server at once; commands that apply a result may be repeated.
SPECIFICATION Instances
CONSTANTS
    Procs = {p1, p2}
    Kinds <- Everything
    Maps = {m1, m2}
    NoMap = NoMap
    Nothing = Nothing
    MaxLen = 4
    MaxMaps = 2
INVARIANTS
    NeverEmptied
SYMMETRY Alike
PROPERTIES
    SetTakesEffect
    ApplyTakesEffect
