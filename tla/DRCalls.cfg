SPECIFICATION Spec
CONSTANTS
  MbLimit <- MCMbLimit
  MbDefaultUnit = 1
  TxnSpace = 3
  S7Pdu = 64
  S7MaxItems = 3
  S7RefSpace = 3
  McLimit <- MCMcLimit
  McMergeGap = 2
  McMaxItems = 3
  EipTypes <- EipTagTypes
  EipMaxServices = 2
  EipMaxBytes = 64
  EipCtxSpace = 3
  Protos = {"tcp", "rtu", "s7", "mc", "eip"}
  Batches <- MCBatches
  LinkConfig <- MCLinkConfig
  MaxFaults = 1
PROPERTIES
    KeepsContract
    Completes
CHECK_DEADLOCK FALSE
