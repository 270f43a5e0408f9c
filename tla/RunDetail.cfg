CONSTANTS
  c1 = c1
  Cli <- OneCli
  MaxRuns = 1
  MaxRoster = 1
  MaxEvents = 2
  Batches <- OneStep
  Faults <- PageFaults
  ReadFaults = TRUE
SPECIFICATION DetailSpec
INVARIANT PageTypeOK
INVARIANT ShownUpToCursor
INVARIANT SettledPageIsComplete
PROPERTY TailDelivers
PROPERTY TailStops
PROPERTY ImplementsView
CHECK_DEADLOCK FALSE
