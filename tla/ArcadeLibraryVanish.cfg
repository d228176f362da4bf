\* A file leaves the tree between the scanner's listing and its stat.
SPECIFICATION Spec
CONSTANTS
  nes = nes
  dos = dos
  Catalogued = {nes}
  Exo = {dos}
  Files = {1, 2, 3}
  AtFirst = {1, 2, 3}
  SystemOf <- MCSystemOf
  Collections = {k}
  Curators = {c1}
  MaxScans = 1
  MaxEdits = 0
  MaxChanges = 1
  MaxIds = 4
PROPERTY
  StayingFilesKeepRows
CHECK_DEADLOCK FALSE
