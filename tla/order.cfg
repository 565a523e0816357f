SPECIFICATION Spec
CONSTANTS
  file1 = file1
  file2 = file2
  c1 = c1
  c2 = c2
  t1 = t1
  t2 = t2
  Files = {file1, file2}
  Data = {c1, c2}
  MaxSize = 2
  Fats = {t1, t2}
  FatOf <- MCFatOf
  Values = {1, 2}
  Junk = junk
  Null = null
  Free = free
  End = end
SYMMETRY OrderSymmetry
CONSTRAINT SomeWhole
INVARIANTS
  ClosedFilesAreIntact
  ClosedFilesOwnTheirClusters
