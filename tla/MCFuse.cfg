SPECIFICATION Spec
CONSTANTS
  i1 = i1
  i2 = i2
  d = d
  e = e
  x = x
  Inodes <- MCInodes
  Paths <- MCPaths
  Timeouts = {1}
  MaxTime = 2
  MaxChanges = 2
INVARIANTS
  FuseInv
  ServedIsCurrent
SYMMETRY Symmetry
