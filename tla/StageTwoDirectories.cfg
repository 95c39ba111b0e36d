SPECIFICATION Spec
CONSTANTS
  None = None
  Request = {r1, r2}
  Actor = {a1, a2}
  Id = {i1, i2}
  Hash = {h1}
  Window = 1
  MaxTime = 0
SYMMETRY Symmetry
INVARIANTS
  OneStageDirectory
