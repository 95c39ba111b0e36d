SPECIFICATION Spec
CONSTANTS
  None = None
  Request = {r1}
  Actor = {a1}
  Id = {i1, i2}
  Hash = {h1, h2}
  Window = 1
  MaxTime = 1
SYMMETRY Symmetry
INVARIANTS
  TypeOK
  HalfCommittedIsMarked
  NoFalseAlarm
  DirectoryIsLocked
PROPERTIES
  NoWorkOnBrokenCode
  ApplyOnBaseline
  ImplementsLifeCycle
