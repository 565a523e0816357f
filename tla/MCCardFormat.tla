----------------------------- MODULE MCCardFormat -----------------------------
(***************************************************************************)
(* Three cards of eight blocks: a good one, one that is worn among the     *)
(* first blocks and the last two, and one with too few good blocks.        *)
(***************************************************************************)
EXTENDS CardFormat, TLC
CONSTANTS good, worn, poor
MCBad == good :> {} @@ worn :> {1, 7} @@ poor :> 1 .. 6
=============================================================================
