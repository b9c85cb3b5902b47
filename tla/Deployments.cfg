SPECIFICATION FairSpec
CONSTANTS
  MaxContainers = 3
  Faults = {"container", "haproxy"}
  CleanupIsPrompt = TRUE
  MayRestart = TRUE
CHECK_DEADLOCK FALSE
INVARIANTS NoDroppedRequests CompletedMeansServed
PROPERTIES  RunEnds
