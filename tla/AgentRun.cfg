CONSTANTS
  c1 = c1
  Cli <- OneCli
  MaxRuns = 1
  MaxRoster = 2
  MaxEvents = 4
  Batches <- SmallBatches
  Faults <- AllFaults
  None = None
  p1 = p1
  p2 = p2
  Cafe = Cafe
  Session <- TwoSessions
  Osm <- Mapped
  Business <- Unmapped
  Same <- OneCafe
  Near <- OneCafe
  Facts <- Filled
  Overrides = {"closed", "clear"}
  Original = {11}
  Moving = {11}
  MaxCustom = 2
  MaxNotes = 1
SPECIFICATION AgentOrPlaceSpec
INVARIANT TypeOK
INVARIANT SeqsAccountedFor
INVARIANT RowAgreesWithTranscript
PROPERTY RunsFinish
PROPERTY ImplementsFeed
INVARIANT PlacesTypeOK
PROPERTY TwinsOverlap
PROPERTY SweepIsClean
PROPERTY AddedIsShown
CHECK_DEADLOCK FALSE
