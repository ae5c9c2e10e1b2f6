SPECIFICATION Spec
CONSTANTS
    Timers = {x1, x2}
    Threads = {a, b}
    Periods = {1, 2}
    MaxTime = 3
    Never = 99
SYMMETRY Symmetry
INVARIANTS CbIffQueued OneShotOutcome FrontAnnounced
PROPERTY NeverEarly
