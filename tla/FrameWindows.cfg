SPECIFICATION FrameSpec
CONSTANTS
  Ports <- MCPorts
  Default = "COM5"
  Null = Null
  Keys <- MCKeys
  Values <- MCValues
  MaxQueue = 2
PROPERTIES EndsDocking
CHECK_DEADLOCK FALSE
