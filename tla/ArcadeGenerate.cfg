\* Two systems, two processes that may overlap, and a fault of every kind.
SPECIFICATION GenerateSpec
CONSTANTS
  Systems = {nes, snes}
  Games = {g1}
  Lives = {p1, p2}
  MaxToggles = 1
  MaxFaults = 1
  MaxCuts = 1
SYMMETRY Alike
INVARIANTS
  ServedWhole
  OkMeansServed
  NoLitter
CHECK_DEADLOCK FALSE
