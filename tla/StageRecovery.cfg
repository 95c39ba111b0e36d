SPECIFICATION Recovering
CONSTANTS
  None = None
  Request = {r1}
  Actor = {a1}
  Id = {i1}
  Hash = {h1, h2}
  Window = 1
  MaxTime = 1
PROPERTIES
  Recoverable
