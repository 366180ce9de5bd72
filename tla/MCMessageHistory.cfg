CONSTANTS
  c1 = c1
  c2 = c2
  Clients = {c1, c2}
  MaxNotes = 3
  MaxCalls = 2
  MaxBegins = 2
  MaxOps = 1
SPECIFICATION FairSpec
CHECK_DEADLOCK FALSE
INVARIANTS  ResultsKept AppliedShown
PROPERTIES KeepsTranscript GenerationEnds
