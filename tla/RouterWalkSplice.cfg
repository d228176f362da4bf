\* Frames that carry part of the answer without committing.
SPECIFICATION Spec
CONSTANTS
  MaxHops = 2
  MaxFrames = 2
  Sends = {"tool", "text", "textFinish", "done"}
  Hedge = 2
  Budget = 4
  Idle = 3
INVARIANT
  NeverSpliced
CHECK_DEADLOCK FALSE
