\* One runner and one operator who may overlap and crash, one profile.
SPECIFICATION Spec
CONSTANTS
  Profile = {p1}
  StaleAge = 0
  Horizon = 1
  Runner = {runner}
  Operator = {operator}
  Window = 2
  MaxDays = 3
  MaxActions = 2
  MaxEdits = 1
  MaxCrashes = 1
INVARIANTS
  PortfolioWasAccepted
  ActionsFitDays
  LostAcceptNeedsOverlap
CHECK_DEADLOCK FALSE
