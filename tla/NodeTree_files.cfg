SPECIFICATION Spec
CONSTANTS
  Nodes = {a, f}
  Files = {f}
  Blobs = {x, y}
  Requests = {r1, r2, r3, r4}
  Root = Root
  None = None
  Unborn = Unborn
  Deleted = Deleted
CHECK_DEADLOCK FALSE
INVARIANTS TypeOK NoBrokenReference NoOrphan ForestUnlessCrossed
SYMMETRY Symmetry
