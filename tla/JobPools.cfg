SPECIFICATION FairSpec
CONSTANTS
  MaxConcurrent = 1
  Retries = 1
  KillsLate = TRUE
  OpenStreams = 1
  DockerLags = FALSE
  MaxRuns = 2
  MaxStops = 1
  MaxRestarts = 1
CHECK_DEADLOCK FALSE
INVARIANTS CapRespected  LineageIsAChain 
PROPERTIES VerdictStands KeepsPromise 
