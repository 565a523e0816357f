----------------------------- MODULE MCDirectory -----------------------------
(***************************************************************************)
(* Two names, interchangeable, and two clusters beside the root's.         *)
(***************************************************************************)
EXTENDS Directory, TLC
CONSTANTS a, b, r, k1, k2
DirSymmetry == Permutations({a, b}) \cup Permutations({k1, k2})
=============================================================================
