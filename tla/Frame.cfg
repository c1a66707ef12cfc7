SPECIFICATION FrameSpec
CONSTANTS
  Ports <- MCPorts
  Default = "COM5"
  Null = Null
  Keys <- MCKeys
  Values <- MCValues
  MaxQueue = 2
INVARIANTS FrameTypeOK IndexInRange PortIffAttached OnlyTelemetryLeftOpen RowFitsHeader
PROPERTIES PanelAsAssumed 
CHECK_DEADLOCK FALSE
