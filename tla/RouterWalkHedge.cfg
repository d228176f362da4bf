\* The timers as DefaultWalkConfig orders them: hedge, idle, budget.
SPECIFICATION Spec
CONSTANTS
  MaxHops = 1
  MaxFrames = 3
  Sends = {"text", "done"}
  Hedge = 2
  Budget = 4
  Idle = 3
PROPERTY
  ContentClockGoverns
CHECK_DEADLOCK FALSE
