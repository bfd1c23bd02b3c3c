CONSTANTS
  W16 = 2
  W32 = 4
  W64 = 8
  P32 = 3
  P64 = 6
  Unit = 4
  MaxExp = 6
  Configs <- MCConfigs
  RequestsFor <- MCRequestsFor
  ContentsFor <- MCContentsFor
  DevicesFor <- MCDevicesFor
SPECIFICATION Spec
INVARIANTS
    AcceptedIsDeliverable
    WriteIsRight
    ReadIsRight
    StartIsSound
CHECK_DEADLOCK FALSE
