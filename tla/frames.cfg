SPECIFICATION FrameSpec
CONSTANTS
  Frames = 2
  Owners = {s1, s2}
  Answers = {"good", "bad", "none", "short", "late"}
SYMMETRY SaveSymmetry
INVARIANTS
  FramesInPlace
  WrittenUnlessRefused
