SPECIFICATION Spec
CONSTANTS
  Registered <- MCTwinIds
  Values <- MCValues
  IdRange = 4
  Keys <- MCKeys
  MaxSessions = 1
  MaxClicks = 3
  MaxEdits = 1
  MaxFrames = 0
  MaxLosses = 1
INVARIANTS NamesVariable
CHECK_DEADLOCK FALSE
