SPECIFICATION BackendSpec
CONSTANTS
    Servers = {s1, s2}
    Requests = {r1, r2}
    Boot = Boot
    Stop = Stop
    Ids = {i1, i2}
    None = None
SYMMETRY Symmetry
INVARIANTS
    Inv
    NoLostConnection
    OneConnection
    StoppedIsClean
    SourceIsSound
CHECK_DEADLOCK FALSE
