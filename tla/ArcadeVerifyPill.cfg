\* A verify that succeeds, then one whose igir dies before it writes a report.
SPECIFICATION Spec
CONSTANTS
  Systems = {s1}
  Staged = {s1}
  MaxCommits = 1
  MaxBatches = 1
  MaxFaults = 1
  MaxKills = 0
  MaxStamps = 2
  MaxRuns = 2
  Matches <- MCMatches
INVARIANT
  PillHonest
CHECK_DEADLOCK FALSE
