\* Two hops of up to two frames each.  The watchdog is shorter than the hedge, so that every
\* arm of the select is taken: the walk's promises do not hang on which timer is first.
SPECIFICATION Spec
CONSTANTS
  MaxHops = 2
  MaxFrames = 2
  Sends = {"tool", "text", "textFinish", "done"}
  Hedge = 2
  Budget = 3
  Idle = 1
INVARIANTS
  OneProviderOfContent
  LeasesSettled
  SuccessIsTerminated
PROPERTY
  EveryRequestAnswered
CHECK_DEADLOCK FALSE
