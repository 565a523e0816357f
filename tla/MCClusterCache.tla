--------------------------- MODULE MCClusterCache ---------------------------
(***************************************************************************)
(* A cache of three entries over four clusters in two blocks.  The blocks  *)
(* and the clusters of a block are interchangeable.                        *)
(***************************************************************************)
EXTENDS ClusterCache, TLC

CONSTANTS c1, c2, c3, c4

TwoBlocks == (c1 :> 1) @@ (c2 :> 1) @@ (c3 :> 2) @@ (c4 :> 2)

ClusterSymmetry ==
  {p \in Permutations({c1, c2, c3, c4}) :
     \A a, b \in {c1, c2, c3, c4} :
       (TwoBlocks[a] = TwoBlocks[b]) <=> (TwoBlocks[p[a]] = TwoBlocks[p[b]])}
=============================================================================
