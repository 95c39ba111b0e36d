SPECIFICATION Spec
CONSTANTS
  None = None
  Request = {r1}
  Problem = {error, warning}
  Errors = {error}
  CronOnly = {error}
  Composer = {c1, c2}
  Hour = 1
  TimeToLive = 3
  MaxTime = 3
SYMMETRY Symmetry
INVARIANTS
  TypeOK
  ResultsFitSettings
  ResultsToNotify
  NoRepeatedMail
  FailuresAreMailed
