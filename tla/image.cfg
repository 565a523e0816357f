SPECIFICATION Spec
CONSTANTS
  small = small
  large = large
  Saves = {small, large}
  Length <- SaveLengths
  PerBlock = 2
  Buffer = 4
  Garbage = {4}
  Blank = blank
INVARIANTS
  TypeOK
  FinishedMeansCopied
  WrittenIsOneSave
  FailureIsConfined
