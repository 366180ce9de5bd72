SPECIFICATION Spec
CONSTANTS
  d1 = d1  d2 = d2  d3 = d3
  Triggers = {g1, g2}
  Names = {"a", "b"}
  Keys = {k1}
  Deliveries = {d1, d2, d3}
  Threads = {w1, w2}
  PolicySets = {{}, {"signed"}}
  MaxTokens = 2
  MaxEdits = 2
  None = None
SYMMETRY Symmetry
INVARIANTS LockAttended
PROPERTIES KeepsInbox
