SPECIFICATION Spec
CONSTANTS
  b1 = b1
  b2 = b2
  s1 = s1
  DataBlocks = {b1}
  RootBlock = b2
  Backup1 = k1
  Backup2 = k2
  Spares <- OneSpare
  BadListSlots = 1
  PagesPerBlock = 2
  Data = {d1}
  Erased = erased
  Bad = bad
  NoBlock = noblock
  Replaced = replaced
  Faults = {"replace", "error", "recovery"}
INVARIANTS
  SuccessMeansStored
PROPERTIES
  WritesAreAtomic
  ReplacementEnds
