\* Two rows behind a window of one, fair worker and taker; m3 is not a valid batch.
SPECIFICATION LiveSpec
CONSTANTS
    c1 = c1
    c2 = c2
    m1 = m1
    m2 = m2
    m3 = m3
    m4 = m4
    Clients = {c1, c2}
    Pushers = {c1}
    Takers = {c2}
    Closers = {}
    Gone = Gone
    Msgs = {m1, m2, m3}
    NoMsg = NoMsg
    Cost <- MCCost
    Invalid = {m3}
    MemoryRecords = 1
    DiskMaxBytes = 1
    Policy = "Backpressure"
    ChannelCapacity = 1
    MaxWaiters = 1
    MaxSeq = 2
    MaxAged = 3
    MaxFaults = 1
PROPERTIES
    StoredIsDrained
    WaitersServed
