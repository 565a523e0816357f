SPECIFICATION Spec
CONSTANTS
  a = a
  b = b
  u = u
  d1 = d1
  d2 = d2
  Cards = {a, b, u}
  Formatted = {a, b}
  Files = {f}
  Fds = {d1, d2}
  None = none
SYMMETRY SessionSymmetry
INVARIANTS
  WorksOnKnownCard
  StaleHandleNeedsError
  ClosedMeansComplete
  OneWriter
