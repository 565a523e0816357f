------------------------------ MODULE NameSpace ------------------------------
(***************************************************************************)
(* What the directory calls of AnthonyPS2/mcio.cpp promise: names come and *)
(* go one at a time, each once in a directory; a directory hangs from one  *)
(* name and goes only when it is empty.  Directory implements it.          *)
(***************************************************************************)
CONSTANTS Root, NoNode   (* the root directory; what a file has for a node *)

VARIABLE tree   (* names: in directory up, name leads to directory node    *)

Directories(t) == ({Root} \cup {x.node : x \in t}) \ {NoNode}

(* From the tree t to the tree u, x comes or goes.                         *)
Made(t, u, x) ==
  /\ x \notin t /\ u = t \cup {x}
  /\ x.up \in Directories(t) /\ x.node \notin Directories(t)
  /\ \A y \in t : y.up = x.up => y.name # x.name

Removed(t, u, x) ==
  /\ u = t \ {x} /\ x.node # Root /\ \A y \in u : y.up # x.node

Step(t, u) ==
  \/ \E x \in u : Made(t, u, x)
  \/ \E x \in t : Removed(t, u, x)

Init == tree = {}
Next == \E t \in {tree}, u \in {tree'} : Step(t, u)
Spec == Init /\ [][Next]_tree
=============================================================================
