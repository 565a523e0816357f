SPECIFICATION CommandSpec
CONSTANTS
  Count = 2
  Tries = 3
  PageReads = 2
  Polls = 2
  Vals = {x, y}
  OddVals = {y, mixed}
  Rots <- WearPatterns
  Worn <- WornSpares
  ErasedCell = erased
  Mixed = mixed
PROPERTIES
  EraseMeansErased
  WriteMeansWritten
  ReadMeansPage
  Returns
