\* Uploads, submissions and a daemon that may act late; one retry, three faults, a kill.
CONSTANTS
  snes = snes
  exo = exo
  o1 = o1
  o2 = o2
  Systems <- AllSystems
  WithTorrent <- Downloadable
  Operators <- TwoOperators
  SubmitRetries = 1
  Chunks = 2
  MaxRequests = 4
  MaxFaults = 3
  MaxKills = 1
SPECIFICATION Spec
SYMMETRY Symmetry
CHECK_DEADLOCK FALSE
INVARIANTS
  OkMeansLanded
  StagedStays
