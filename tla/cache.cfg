SPECIFICATION Spec
CONSTANTS
  c1 = c1
  c2 = c2
  c3 = c3
  c4 = c4
  Slots = 3
  Clusters = {c1, c2, c3, c4}
  BlockOf <- TwoBlocks
  NoCluster = nocluster
SYMMETRY ClusterSymmetry
INVARIANTS
  OneEntryPerCluster
  RecentStaysCached
  NoLostUpdate
PROPERTY FlushAllWritesAll
