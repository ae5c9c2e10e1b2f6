SPECIFICATION Spec
CONSTANTS
    Fibers = {f, g}
    Fds = {d}
    Uses = {"read", "close", "SO_RCVTIMEO", "connect_with_timeout", "sleep"}
    None = None
SYMMETRY Symmetry
INVARIANTS  NoTimerLeft
 
CHECK_DEADLOCK FALSE
