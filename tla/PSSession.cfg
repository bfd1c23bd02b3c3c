SPECIFICATION LiveSpec
CONSTANTS
    Groups = {fast, slow}
    Control = control
    MaxWrites = 2
    fast = fast
    slow = slow
    Plans <- MCPlans
    ReadCodes <- MCReadCodes
    WriteCodes <- MCWriteCodes
    Retryable <- MCRetryable
    EventCap = 1
INVARIANTS
    SingleFlight
    NoStaleBatch
    FailedNeverActs
PROPERTIES
    StopEnds
CHECK_DEADLOCK FALSE
