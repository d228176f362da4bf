\* A response that states a limit of 0.
SPECIFICATION Spec
CONSTANTS
  Scopes = {s1}
  Leases = {l1, l2}
  Dims = {rpm}
  CostDims = {rpm}
  CapValues = {0, 1}
  HintValues = {0, 1}
  Minute = 2
  Session = 3
  Credit = 4
  Day = 2
  MonthDays = 2
  PacificOffset = 1
  MaxClock = 5
  MaxResets = 1
PROPERTY CeilingNeverRaised
CHECK_DEADLOCK FALSE
