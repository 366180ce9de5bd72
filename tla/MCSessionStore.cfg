CONSTANTS
  r1 = r1
  r2 = r2
  Runs = {r1, r2}
  coord = coord
  sub = sub
  Roles = {coord, sub}
  Coordinator = coord
  d1 = d1
  Deleters = {d1}
  None = None
  MaxInstances = 3
  MaxOps = 2
SPECIFICATION Spec
SYMMETRY Symmetry
CHECK_DEADLOCK FALSE
INVARIANTS OneInstancePerRole   
