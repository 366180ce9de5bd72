SPECIFICATION FairSpec
CONSTANTS
  t1 = t1  t2 = t2
  Tasks = {t1, t2}
  Roles = {r1}
  Tools = {q1, q2}
  Https = {}
  Loop = loop
  Threads = {w1}
  None = None
  Modes = {"ai"}
  Allowed = {"stop", "follow", "halt"}
  MaxCycles = 2
  MaxOps = 2
PROPERTIES CoordinatorSettles
CHECK_DEADLOCK FALSE
