SPECIFICATION Spec
CONSTANTS
  HeaderSize = 2
  TailSize = 1
  kAlertBufSize = 6
  Messages <- MCMessages
  MaxMessages = 3
  MaxFaults = 1
INVARIANTS TypeOK ConsumedAsSent
PROPERTIES WholeConsumed
CHECK_DEADLOCK FALSE
