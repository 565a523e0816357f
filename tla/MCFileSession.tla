--------------------------- MODULE MCFileSession ----------------------------
(***************************************************************************)
(* Two formatted cards and one that is not, two handles, and one file.     *)
(***************************************************************************)
EXTENDS FileSession, TLC

CONSTANTS a, b, u, d1, d2

SessionSymmetry == Permutations({a, b}) \cup Permutations({d1, d2})
=============================================================================
