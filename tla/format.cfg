SPECIFICATION Spec
CONSTANTS
  good = good
  worn = worn
  poor = poor
  Cards = {good, worn, poor}
  Bad <- MCBad
  Blocks = 8
  PerBlock = 2
  First = 2
  Fats = 2
  MaxFormats = 2
  None = none
INVARIANTS
  FormattedMeansWhole
  LayoutIsSound
  RecognisedIsKnown
