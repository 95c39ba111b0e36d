SPECIFICATION FairSpec
CONSTANTS
  User = {u1}
  Cron = cron
  Id = {i1, i2, i3}
  Version = {v1, v2}
  Latest = v1
  None = None
INVARIANTS TypeOK CronCleansUp
PROPERTIES AppliedAsAsked ModeRestored InsecureIsUpdated
CHECK_DEADLOCK FALSE
