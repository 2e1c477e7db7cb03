SPECIFICATION Spec
CONSTANTS
  Zones = {forest, cave}
  Armed = {forest}
  Players = {p}
  Conns = {a, b, c}
  NoZone = NoZone
  NoPlayer = NoPlayer
  MaxImport = 2
SYMMETRY Symmetry
INVARIANTS
  TypeOK
  ItemsComeFromSomewhere
  NoWeaponsAreBroughtIn
  
  
\* Everyone may be gone.
CHECK_DEADLOCK FALSE
