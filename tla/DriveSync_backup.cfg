SPECIFICATION Spec
CONSTANTS
  Devices = {a, b}
  Runs = {a, b}
  Home <- MCHome
  Items = {x, y}
  Folders = {F, G}
  MaxEdits = 2
  MaxNodes = 3
  MaxFaults = 1
  MaxTurns = 5
  None = None
CHECK_DEADLOCK FALSE
SYMMETRY Symmetry
INVARIANTS TypeOK SavedUnlessUnwritten 
