SPECIFICATION Spec
CONSTANTS
  Registered <- MCSmallIds
  Values <- MCValues
  IdRange = 4
  Keys <- MCKeys
  MaxSessions = 2
  MaxClicks = 4
  MaxEdits = 1
  MaxFrames = 0
  MaxLosses = 0
INVARIANTS NoCrash
PROPERTIES AppliedReaches RefreshShows ImplementsReceiver
