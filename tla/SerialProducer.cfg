CONSTANTS
  RX_CAPACITY <- MCCapacity
  MaxFrames <- MCFrames
  MaxSends <- MCSends
SPECIFICATION FairSpec
INVARIANTS
  TypeOK
  RxInOrder
  TxInOrder
  SingleWrite
PROPERTIES
  ErrorsAreFinal
  OnlyErrorsStall
  ImplementsLink
  StopReturns
  PacketLeaves
  FrameDispatched
