CONSTANTS
  k1 = k1
  region = region
  profile = profile
  towns = towns
  t1 = t1
  t2 = t2
  Key <- OneKey
  MaxInterviews = 2
  MaxCycles = 2
  Artifact <- ThreeFiles
  Region = region
  Towns = towns
  Profile = profile
  Text <- TwoProfiles
  Template = t1
  Missing = missing
  missing = missing
  Setups <- ColdMachine
  MaxAnswers = 1
SPECIFICATION Spec
INVARIANT InterviewTypeOK
INVARIANT LeadsWereKept
INVARIANT RejectRestores
INVARIANT PromotedWhole
INVARIANT AnswersSurvive
INVARIANT OverLeavesNothing
PROPERTY RealFindsSurvive
PROPERTY ConfigGated
PROPERTY KeptTakesEffect
CHECK_DEADLOCK FALSE
