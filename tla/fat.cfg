SPECIFICATION Spec
CONSTANTS
  f = f
  g = g
  d1 = d1
  d2 = d2
  N = 4
  PerCluster = 3
  ClustersPerBlock = 2
  AllocOffset = 2
  BadBlock = 0
  Files = {f, g}
  Fds = {d1, d2}
  MaxLen = 3
  None = none
SYMMETRY ChainSymmetry
INVARIANTS
  FilesKeepTheirData
  ReadsItsPosition
  RemembersItsPlace
