SPECIFICATION Spec
CONSTANTS
  Keys <- MCKeys
  Values <- MCValues
  MaxQueue = 3
INVARIANTS RowHoldsData
