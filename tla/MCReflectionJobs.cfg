CONSTANTS
  o1 = o1
  o2 = o2
  Owners = {o1}
  MaxDaily = 2
  MaxDay = 2
  MaxAttempts = 2
  Retention = 1
  Allowed = {"retry", "delete", "crash", "lock"}
  MaxOps = 1
SPECIFICATION FairSpec
CHECK_DEADLOCK FALSE
INVARIANTS RunningClaimed  FollowedUp
PROPERTY QueuedClaimed
