SPECIFICATION LiveSpec
CONSTANTS
    MaxBatches = 3
    OutCap = 2
    DiskRows = 2
    Policies = {"Reject", "Backpressure"}
    Retries = 1
    Prompt = FALSE
    Expiring = {1}
    MaxSignals = 2
    MaxSessions = 2
    MaxFaults = 2
INVARIANTS
    WalInOrder
    ReceivedIsAccounted
PROPERTIES
    ConfirmedInOrder
    ShutdownEnds
CHECK_DEADLOCK FALSE
