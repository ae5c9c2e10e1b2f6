SPECIFICATION FairSpec
CONSTANTS
    Fds = {f1}
    Threads = {t1, t2}
    Waiters = {w1, w2}
    Users = {"READ", "WRITE"}
    None = None
INVARIANTS PendingExact  
 
