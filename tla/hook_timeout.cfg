SPECIFICATION FairSpec
CONSTANTS
    Fibers = {f}
    Fds = {d}
    Uses = {"read", "SO_RCVTIMEO"}
    None = None
PROPERTY TimedWaitEnds
CHECK_DEADLOCK FALSE
