SPECIFICATION Spec
CONSTANTS
  HeaderSize = 6
  TailSize = 2
  RxSize = 13
  kLiveDataBufSize = 1
  Packets <- MCTwoPackets
  Registrations <- MCNoVariable
  Unit = 2
  MaxPackets = 3
  MaxFaults = 1
PROPERTIES IntactArrive
