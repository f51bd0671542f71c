SPECIFICATION FairSpec
CONSTANTS
  a = a
  b = b
  c = c
  None = None
  Item <- MCItem
  View <- MCView
  Listed <- MCListed
  Day <- MCDay
  Dated <- MCDated
  Undated = ""
  Caller <- MCCaller
  Asks <- MCAsks
  Grid = "grid"
  Budget <- MCBudget
  Holdings <- MCHoldings
  Opening = "newest"
  PageSize = 1
  MaxInFlight = 2
  MaxResyncs = 1
INVARIANTS
  TypeOK
  RightPlace
  UnderItsHeading
  DoneIsDrawn
  Replaced
PROPERTIES
  WantedIsInHand
CHECK_DEADLOCK FALSE
