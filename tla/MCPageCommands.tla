--------------------------- MODULE MCPageCommands ---------------------------
(***************************************************************************)
(* Small instances of PageCommands: pages of two chunks with two contents, *)
(* three attempts where the code has five, two reads and two questions.    *)
(***************************************************************************)
EXTENDS PageCommands

(* A sound page, and one wrong bit in the first chunk beside two in the    *)
(* second.                                                                 *)
WearPatterns == {r \in [0 .. 1 -> 0 .. 2] : <<r[0], r[1]>> \in {<<0, 0>>, <<1, 2>>}}

(* A sound spare area, and one with a wrong bit in the ECC of a chunk.     *)
WornSpares == {{}, {1}}
=============================================================================
