\* A parser that delivers content after Run has closed its channel.
SPECIFICATION Spec
CONSTANTS
  MaxHops = 1
  MaxFrames = 2
  Sends = {"text", "done"}
  Hedge = 2
  Budget = 4
  Idle = 3
INVARIANT
  CommittedEndsHonestly
CHECK_DEADLOCK FALSE
