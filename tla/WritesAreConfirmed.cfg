CONSTANTS
  k1 = k1
  region = region
  profile = profile
  towns = towns
  t1 = t1
  t2 = t2
  Key <- OneKey
  MaxInterviews = 1
  MaxCycles = 1
  Artifact <- ThreeFiles
  Region = region
  Towns = towns
  Profile = profile
  Text <- TwoProfiles
  Template = t1
  Missing = missing
  missing = missing
  Setups <- SetUpByHand
  MaxAnswers = 1
SPECIFICATION Spec
INVARIANT WritesAreConfirmed
CHECK_DEADLOCK FALSE
