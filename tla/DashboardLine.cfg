SPECIFICATION Spec
CONSTANTS
  HeaderSize = 6
  TailSize = 2
  RxSize = 13
  kLiveDataBufSize = 1
  Packets <- MCLinePackets
  Registrations <- MCOneVariable
  Unit = 2
  MaxPackets = 3
  MaxFaults = 1
INVARIANTS TypeOK OnlyAsSent Aligned
PROPERTIES ImplementsReceiver
