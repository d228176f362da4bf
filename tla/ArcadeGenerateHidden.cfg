\* The only game of a system is hidden, and the generator runs again.
SPECIFICATION GenerateSpec
CONSTANTS
  Systems = {nes}
  Games = {g1}
  Lives = {p1}
  MaxToggles = 1
  MaxFaults = 0
  MaxCuts = 0
INVARIANT
  HiddenStaysOff
CHECK_DEADLOCK FALSE
