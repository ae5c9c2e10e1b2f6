SPECIFICATION FairSpec
CONSTANTS
    Threads = {t1, t2}
    Jobs = {j1}
    MayHold = {j1}
    MaxTime = 1
    None = None
INVARIANTS NoTaskLeft 
PROPERTIES TasksEnd TimersEnd StopReturns
