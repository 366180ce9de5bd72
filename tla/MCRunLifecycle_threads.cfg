SPECIFICATION LiveSpec
CONSTANTS
  Runs = {r1}
  Sessions = {s1}
  Threads = {t1, t2}
  Clients = {c1, c2}
  None = None
  Calls = {"create", "stop"}
  MayRestart = TRUE
PROPERTIES StreamAnswered CancelReleases
