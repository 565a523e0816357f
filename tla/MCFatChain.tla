---------------------------- MODULE MCFatChain ----------------------------
(***************************************************************************)
(* Four clusters beside the root directory, two files of up to three, and  *)
(* two handles: enough for chains that run backwards and for a full card.  *)
(***************************************************************************)
EXTENDS FatChain, TLC

CONSTANTS f, g, d1, d2

ChainSymmetry == Permutations({f, g}) \cup Permutations({d1, d2})
=============================================================================
