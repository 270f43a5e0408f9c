CONSTANTS
  s1 = s1
  s2 = s2
  Socket <- TwoSockets
  MaxRuns = 2
  MaxRoster = 1
  Seqs <- FewSeqs
  Kinds <- StepOrEnd
  Outcomes <- OneOutcome
  Counts <- NoWarnings
  MaxClicks = 1
  MaxTimers = 2
  PageFaults <- NoFaults
  Cron = FALSE
SPECIFICATION ConsoleSpec
INVARIANT OneRunAtATime
CHECK_DEADLOCK FALSE
