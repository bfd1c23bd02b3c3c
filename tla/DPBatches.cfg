SPECIFICATION LiveSpec
CONSTANTS
    d1 = d1
    d2 = d2
    Devices = {d1, d2}
    Events <- MCEvents
    MaxEvents = 3
    EventCap = 1
    InputCap = 2
    MaxBatch = 2
    Multiplier = 1
    OutCap = 1
INVARIANTS
    CountsExact
    BatchesInOrder
PROPERTIES
    NeverStuck
