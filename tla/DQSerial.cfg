\* Two entries, two workers, a panic, a failed journal write, cancellation, deadlines, shutdown.
SPECIFICATION Spec
CONSTANTS
    lo = lo
    hi = hi
    hj = hj
    w1 = w1
    w2 = w2
    Entries = {lo, hi}
    Prio <- MCPrio
    Again = {hi}
    Cancellable = {lo}
    Expiring = {lo}
    Workers = {w1, w2}
    None = None
    Capacity = 2
    Aging = TRUE
    MaxPanics = 1
SYMMETRY WorkerSymmetry
INVARIANTS
    Serial
    NothingLost
    NeverDenied
PROPERTIES
    OneLife
CHECK_DEADLOCK FALSE
