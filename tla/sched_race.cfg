SPECIFICATION Spec
CONSTANTS
    Workers = {w1, w2}
    Root = r
    UseCaller = FALSE
    Jobs = {j1}
    FiberIds = {f1}
    MaxReady = 0
    MaxHold = 2
    Spawns = FALSE
    None = None
INVARIANT AssertionsHold
