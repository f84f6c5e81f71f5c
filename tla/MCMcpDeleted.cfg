SPECIFICATION Spec
CONSTANTS
    Servers = {s1}
    Requests = {r1, r2}
    Boot = Boot
    Stop = Stop
    Ids = {i1, i2}
    None = None
INVARIANT DeletedIsGone
CHECK_DEADLOCK FALSE
