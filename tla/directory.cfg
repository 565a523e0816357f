SPECIFICATION Spec
CONSTANTS
  a = a
  b = b
  r = r
  k1 = k1
  k2 = k2
  Clusters = {r, k1, k2}
  Root = r
  PerCluster = 3
  Names = {a, b}
  MaxFds = 2
  Null = null
  Free = free
  End = end
  Gone = gone
SYMMETRY DirSymmetry
INVARIANTS
  TreeIsSound
  HandlesKeepTheirEntry
  ListingIsExact
PROPERTY ImplementsNameSpace
