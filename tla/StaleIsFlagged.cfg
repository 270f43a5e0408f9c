CONSTANTS
  c1 = c1
  Cli <- OneCli
  MaxRuns = 1
  MaxRoster = 1
  MaxEvents = 1
  Batches <- OneStep
  Faults <- OnlyCrash
  ReadFaults = FALSE
SPECIFICATION DetailSpec
PROPERTY StaleIsFlagged
CHECK_DEADLOCK FALSE
