\* Three submissions of one key, two of them equal; two troubles: faults, drops, deaths,
\* restarts, expiries.
SPECIFICATION LiveSpec
CONSTANTS
    s1 = s1
    s2 = s2
    s3 = s3
    Submitters = {s1, s2, s3}
    Payload <- MCPayload
    None = None
    MaxTrouble = 2
INVARIANTS
    AtMostOnce
    ToldTheTruth
PROPERTIES
    WaitsEnd
CHECK_DEADLOCK FALSE
