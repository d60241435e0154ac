SPECIFICATION Spec
CONSTANTS
  Clients = {c1, c2}
  Limit = 3
  Numbers = {0, 1, 2}
  MaxDbs = 4
  MaxRestarts = 2
SYMMETRY Symmetry
PROPERTIES SelectLands
CHECK_DEADLOCK TRUE
