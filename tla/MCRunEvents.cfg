CONSTANTS
  NumCalls = 2
  Threads = {w1}
  Loop = loop
  Allowed = {"answer", "subagent", "pending"}
  MaxOps = 2
  MaxCuts = 1
SPECIFICATION Spec
INVARIANTS RowFolds AwaitsAnswer ResultsReported
CHECK_DEADLOCK FALSE
