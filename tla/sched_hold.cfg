SPECIFICATION Spec
CONSTANTS
    Workers = {}
    Root = r
    UseCaller = TRUE
    Jobs = {j1, j2}
    FiberIds = {f1, f2}
    MaxReady = 1
    MaxHold = 1
    Spawns = TRUE
    None = None
INVARIANT NoJobLost
