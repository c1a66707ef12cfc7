SPECIFICATION Spec
CONSTANTS
  Registered <- MCWideIds
  Values <- MCValues
  IdRange = 4
  Keys <- MCKeys
  MaxSessions = 2
  MaxClicks = 3
  MaxEdits = 1
  MaxFrames = 1
  MaxLosses = 1
INVARIANTS TypeOK ShownThisSession InOrderOnce RefreshForgets
\* A modify whose field is missing stops the program.
CHECK_DEADLOCK FALSE
