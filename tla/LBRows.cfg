\* Two pushers, three small rows behind a window of two, and m4, which fills the disk alone and waits for it.
SPECIFICATION Spec
CONSTANTS
    c1 = c1
    c2 = c2
    m1 = m1
    m2 = m2
    m3 = m3
    m4 = m4
    Clients = {c1, c2}
    Pushers = {c1, c2}
    Takers = {c2}
    Closers = {c1}
    Gone = Gone
    Msgs = {m1, m2, m3, m4}
    NoMsg = NoMsg
    Cost <- MCCost
    Invalid = {}
    MemoryRecords = 2
    DiskMaxBytes = 3
    Policy = "Backpressure"
    ChannelCapacity = 1
    MaxWaiters = 2
    MaxSeq = 3
    MaxAged = 1
    MaxFaults = 1
SYMMETRY MessageSymmetry
INVARIANTS
    WindowSound
    Durable
    InflightOwned
    SpaceAccounted
PROPERTIES
    InReplayOrder
    NoneIsSound
    KeepsBufferContract
