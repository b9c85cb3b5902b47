SPECIFICATION FairSpec
CONSTANTS
  Keys = {k1, k2}
  MaxCalls = 5
CHECK_DEADLOCK FALSE
INVARIANTS InCallOrder DroppedMeansQuiet
PROPERTIES IsAKeyLock EveryCallServed MapEmpties
