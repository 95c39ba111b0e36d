SPECIFICATION Spec
CONSTANTS
  None = None
  Request = {r1, r2}
  Actor = {a1, a2}
  Id = {i1}
  Hash = {h1, h2}
  Window = 1
  MaxTime = 0
SYMMETRY Symmetry
INVARIANTS
  NotDeletedWhileApplied
