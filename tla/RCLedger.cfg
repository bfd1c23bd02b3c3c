SPECIFICATION Spec
CONSTANTS
    Credentials <- MCCredentials
    Catalog <- MCCatalog
    CommandRisk <- MCCommandRisk
    Policy <- MCPolicy
    Calls = {c1, c2}
    Requests <- MCRequests
    Capacity = 1
    MaxConcurrency = 2
    MaxWaiters = 1
    MaxTrouble = 2
SYMMETRY CallSymmetry
INVARIANTS
    PromiseKept
    StatusRight
PROPERTIES
    ResultStands
CHECK_DEADLOCK FALSE
