----------------------------- MODULE MCWriteOrder -----------------------------
(***************************************************************************)
(* Two files over two clusters, whose cells are in two clusters of the FAT.*)
(***************************************************************************)
EXTENDS WriteOrder, TLC
CONSTANTS file1, file2, c1, c2, t1, t2
MCFatOf == c1 :> t1 @@ c2 :> t2

(* The files are alike, and so are the clusters with their cells.          *)
Straight == c1 :> c1 @@ c2 :> c2 @@ t1 :> t1 @@ t2 :> t2
Crossed == c1 :> c2 @@ c2 :> c1 @@ t1 :> t2 @@ t2 :> t1
OrderSymmetry == {p @@ q : p \in Permutations({file1, file2}), q \in {Straight, Crossed}}

(* Bound: while both files are torn, nothing is said of either.            *)
SomeWhole == torn # Files
=============================================================================
