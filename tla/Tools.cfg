SPECIFICATION ToolsSpec
SYMMETRY Alike
CONSTANTS
  h1 = h1
  h2 = h2
  s1 = s1
  s2 = s2
  east = east
  west = west
  Host <- TwoHosts
  Scout <- TwoScouts
  Strikes = 2
  Window = 3
  MaxFetches = 4
  MaxFlight = 1
  RecordFaults = TRUE
  Limits = {2}
  MaxFeedback = 3
  MaxReaders = 2
  MaxTime = 2
  None = None
  Missing = Missing
  Malformed = Malformed
  Bad = Bad
  RegionName = {"plain", "quoted"}
  Escaped = {"quoted"}
  TownName = {east, west}
  Box = {1, 2}
  TownsTemplate <- MCTownsTemplate
  HandTowns <- MCHandTowns
  CategoryTemplate <- MCCategoryTemplate
  Category <- MCCategory
  Kind <- MCKind
  CategoryInput <- MCCategoryInput
  Prose = {"template", "own"}
  IcpTemplate = "template"
  MaxTowns = 2
  Runner = {"deployment", "developer"}
  Files = 3
  Site = {"calendar", "library"}
  UrlHash = {"fair", "lead"}
  Leads = {"lead"}
  Writer = {"scout", "sample"}
  Unset = Unset
  Given = {Unset, "dead"}
  MaxDropped = 1
  MaxRows = 4
  MaxListed = 3
  MaxLines = 6
CHECK_DEADLOCK FALSE
INVARIANT ToolsTypeOK
INVARIANT BlockedIsAStreak
PROPERTY OnlyOwnOutcomes
INVARIANT UnreadHasACause
PROPERTY TownsKept
INVARIANT WritesReadBack
INVARIANT AppliedOnceInOrder
INVARIANT FindsAreCounted
INVARIANT GroupsAreComponents
INVARIANT PagesShowTheList
INVARIANT ICalReportsCalendar
