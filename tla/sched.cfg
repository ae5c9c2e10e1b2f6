SPECIFICATION FairSpec
CONSTANTS
    Workers = {w1}
    Root = r
    UseCaller = TRUE
    Jobs = {j1, j2}
    FiberIds = {f1, f2}
    MaxReady = 1
    MaxHold = 0
    Spawns = FALSE
    None = None
INVARIANTS CountersExact  AssertionsHold StopWaitsForJobs
PROPERTIES  ImplementsPool  StopReturns
