SPECIFICATION Spec
CONSTANTS
  Runs = {r1, r2}
  Sessions = {s1}
  Threads = {t1}
  Clients = {c1}
  None = None
  Calls = {"create", "stop"}
  MayRestart = TRUE
SYMMETRY Symmetry
INVARIANTS WorkerAccounted   
PROPERTIES OneWorkerPerRun 
