SPECIFICATION Spec
CONSTANTS
  b1 = b1
  b2 = b2
  s1 = s1
  DataBlocks = {b1, b2}
  RootBlock = b1
  Backup1 = k1
  Backup2 = k2
  Spares <- NoSpare
  BadListSlots = 1
  PagesPerBlock = 2
  Data = {d1, d2}
  Erased = erased
  Bad = bad
  NoBlock = noblock
  Replaced = replaced
  Faults = {}
INVARIANTS
  SuccessMeansDurable
  RestartFindsCopy
PROPERTIES
  WritesAreAtomic
  CopyKeptWhileNamed
  DetectionRestores
