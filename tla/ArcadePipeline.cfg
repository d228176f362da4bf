\* Two goroutines per runner; one kill and restart.
SPECIFICATION PipelineSpec
CONSTANTS
  Verifies = {v1, v2}
  Scrapes = {s1, s2}
  Generations = {g1, g2}
  None = None
  MaxKills = 1
INVARIANTS
  HeavyJobsExclusive
  NoLockLeaked
  RunningRowsAreLive
PROPERTY
  SlotIsFreed
CHECK_DEADLOCK FALSE
