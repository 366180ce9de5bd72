CONSTANTS
  Threads = {t1, t2}
  Loop = loop
  Profiles = {"default", "fast"}
  Keys = {k1}
  Servers = {m1}
  Skills = {s1, s2}
  RoleServers = {m1}
  RoleSkills = {s1}
  Nothing = nothing
  Torn = torn
  Allowed = {"save", "delete", "replace", "reload", "mcp", "skills", "lookup"}
  MaxOps = 2
  MaxEdits = 1
  MaxCrashes = 1
SPECIFICATION ConfigSpec
INVARIANTS PartsAgree FileInUse DirectoryWhole
CHECK_DEADLOCK FALSE
SYMMETRY Symmetry
