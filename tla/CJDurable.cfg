\* Two keys, writes that fail in every way, expiry, compaction and restarts.
SPECIFICATION Spec
CONSTANTS
    k1 = k1
    k2 = k2
    Keys = {k1, k2}
    Hashes = {"h1", "h2"}
    Results = {"Done", "Indeterminate"}
    None = None
    Retention = 1
    MaxTime = 2
    MaxLines = 4
    MaxFaults = 1
    MaxReopenFaults = 1
INVARIANTS
    RecordsHold
CHECK_DEADLOCK FALSE
