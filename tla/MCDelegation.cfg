SPECIFICATION Spec
CONSTANTS
  t1 = t1
  t2 = t2
  Tasks = {t1, t2}
  Roles = {r1, r2}
  Tools = {q1}
  Https = {h1}
  Loop = loop
  Threads = {w1}
  None = None
  Modes = {"ai", "manual"}
  Allowed = {"again", "update", "stop", "follow", "crash", "resume"}
  MaxCycles = 2
  MaxOps = 2
SYMMETRY Symmetry
INVARIANTS RunningAttended EntryAwaited  OnBoundInstance
CHECK_DEADLOCK FALSE
