\* A click that answers after the worker's next pass.
SPECIFICATION Spec
CONSTANTS
  Curators = {c1}
  Scenarios <- EditAndClick
INVARIANT
  AlertTruthful
CHECK_DEADLOCK FALSE
