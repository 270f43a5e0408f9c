CONSTANTS
  c1 = c1
  Cli <- OneCli
  MaxRuns = 1
  MaxRoster = 1
  MaxEvents = 1
  Batches <- OneStep
  Faults <- NoFaults
  ReadFaults = FALSE
SPECIFICATION DetailSpec
PROPERTY StatsSettle
CHECK_DEADLOCK FALSE
