SPECIFICATION Spec
CONSTANTS
    closed = closed
    single = single
    double = double
    Threads = {t1, t2}
    Handlers = {closed, double}
    Peers = {alice, bob}
    Limit <- MCLimit
    Shard <- MCShard
    Second = 2
    MaxClock = 4
SYMMETRY MCSymmetry
INVARIANTS
    WindowInv
    SlidingBound
    RefusalJustified
CHECK_DEADLOCK FALSE
