CONSTANTS
  r1 = r1
  r2 = r2
  r3 = r3
  r4 = r4
  Runs = {r1, r2, r3, r4}
  None = None
  Limit = 1
SPECIFICATION RoundsSpec
SYMMETRY Symmetry
INVARIANTS PagesExact
