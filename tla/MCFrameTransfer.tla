-------------------------- MODULE MCFrameTransfer ---------------------------
(***************************************************************************)
(* Two frames, so that a reply may be left from the frame before or belong *)
(* to another one, and two saves to be told apart.                         *)
(***************************************************************************)
EXTENDS FrameTransfer, TLC

SaveSymmetry == Permutations(Owners)
=============================================================================
