\* One scope, three leases, every window kind.  The clock passes a session, two
\* days and a whole (two-day) month.
SPECIFICATION Spec
CONSTANTS
  Scopes = {s1}
  Leases = {l1, l2, l3}
  Dims = {rpm, rpd}
  CostDims = {rpm, rpd}
  CapValues = {0, 2}
  HintValues = {0, 1}
  Minute = 2
  Session = 3
  Credit = 4
  Day = 2
  MonthDays = 2
  PacificOffset = 1
  MaxClock = 4
  MaxResets = 1
SYMMETRY LeaseSymmetry
INVARIANTS
  SpendTracksWindow
  NextResetMatchesRoll
PROPERTIES
  AdmissionSound
CHECK_DEADLOCK FALSE
