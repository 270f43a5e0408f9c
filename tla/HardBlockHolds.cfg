SPECIFICATION FetchSpec
CONSTANTS
  h1 = h1
  h2 = h2
  s1 = s1
  s2 = s2
  Host <- TwoHosts
  Scout <- TwoScouts
  Strikes = 2
  Window = 3
  MaxFetches = 4
  MaxFlight = 1
  RecordFaults = FALSE
PROPERTY HardBlockHolds
CHECK_DEADLOCK FALSE
