\* Two refreshes beside two verify runs, with one kill and two faults.
SPECIFICATION Spec
CONSTANTS
  Systems = {s1}
  Staged = {s1}
  MaxCommits = 2
  MaxBatches = 2
  MaxFaults = 2
  MaxKills = 1
  MaxStamps = 3
  MaxRuns = 2
  Matches <- MCMatches
INVARIANTS
  LockBacked
  OnlyAttestedDATs
  PillFollowsDAT
PROPERTIES
  RefreshReconciles
  CopyComplete
CHECK_DEADLOCK FALSE
