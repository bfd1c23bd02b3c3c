SPECIFICATION LiveSpec
CONSTANTS
    Devices = {1, 2}
    WillDevice = 1
    Scenarios <- MCScenarios
    Cap = 2
    Window = 2
    MaxRetries = 3
INVARIANTS
    RequestsTrue
PROPERTIES
    Settled
    PresenceTrue
