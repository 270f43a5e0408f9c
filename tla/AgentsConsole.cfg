CONSTANTS
  s1 = s1
  s2 = s2
  Socket <- OneSocket
  MaxRuns = 2
  MaxRoster = 1
  Seqs <- FewSeqs
  Kinds <- StepOrEnd
  Outcomes <- OneOutcome
  Counts <- NoWarnings
  MaxClicks = 1
  MaxTimers = 2
  PageFaults <- BounceOrNoSpawn
  Cron = TRUE
SPECIFICATION ConsoleSpec
INVARIANT ConsoleTypeOK
INVARIANT NeverUnwatched
PROPERTY StartingIsReleased
PROPERTY RunIsNoticed
PROPERTY BannerClears
CHECK_DEADLOCK FALSE
