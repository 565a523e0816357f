---------------------------- MODULE MCCardImage -----------------------------
(***************************************************************************)
(* A save of two blocks, and one of three that does not fit in the buffer, *)
(* but for its beginning; two pages make a block.  A card that does not    *)
(* tell its sizes is taken for one of two blocks.                          *)
(***************************************************************************)
EXTENDS CardImage, TLC

CONSTANTS small, large

SaveLengths == (small :> 4) @@ (large :> 6)
=============================================================================
