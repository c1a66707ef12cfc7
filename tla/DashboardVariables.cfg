SPECIFICATION Spec
CONSTANTS
  HeaderSize = 6
  TailSize = 2
  RxSize = 13
  kLiveDataBufSize = 2
  Packets <- MCVarPackets
  Registrations <- MCVariables
  Unit = 2
  MaxPackets = 3
  MaxFaults = 0
INVARIANTS RepliesCurrent
