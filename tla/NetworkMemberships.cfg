SPECIFICATION Spec
CONSTANTS
  Backfills = {b1}
  MaxStacks = 2
  MaxServices = 2
  MaxRows = 3
  BackfillAlone = TRUE
CHECK_DEADLOCK FALSE
INVARIANTS OneRowEach 
PROPERTIES RightStaysRight LiveKeepsMembership
