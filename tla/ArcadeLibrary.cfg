\* Two scans, two edits, two changes of the trees.
SPECIFICATION Spec
CONSTANTS
  nes = nes
  dos = dos
  Catalogued = {nes}
  Exo = {dos}
  Files = {1, 2, 3}
  AtFirst = {1, 3}
  SystemOf <- MCSystemOf
  Collections = {k}
  Curators = {c1}
  MaxScans = 2
  MaxEdits = 2
  MaxChanges = 2
  MaxIds = 5
INVARIANTS
  NoStalePointer
PROPERTIES
  ScanConverges
  CurationSurvives
CHECK_DEADLOCK FALSE
