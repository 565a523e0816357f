---------------------------- MODULE AtomicBlocks ----------------------------
(***************************************************************************)
(* What the write-back path of AnthonyPS2/mcio.cpp promises to its caller, *)
(* one erase block at a time: a journalled rewrite replaces the whole      *)
(* content of a block in one indivisible step, whatever power cut happens  *)
(* around it.  A rewrite that Card_FlushCacheEntry performs without the    *)
(* journal (flag = 0) promises less: from the moment the block is loose    *)
(* its pages may read anything until the rewrite is finished.  No other    *)
(* block is ever touched.                                                  *)
(***************************************************************************)
CONSTANTS
  DataBlocks,  (* erase blocks that hold files, directories and the FAT    *)
  Contents,    (* complete contents of a block, every page readable        *)
  RawContents  (* contents of a block some pages of which may be ruined    *)

VARIABLES
  content,     (* what a reader who runs the recovery finds in each block  *)
  loose        (* blocks in the middle of an unjournalled rewrite          *)

vars == <<content, loose>>

Init ==
  /\ content \in [DataBlocks -> Contents]
  /\ loose = {}

(* A journalled rewrite takes effect.                                      *)
Commit(b) ==
  /\ b \notin loose
  /\ \E c \in Contents : content' = [content EXCEPT ![b] = c]
  /\ UNCHANGED loose

(* A rewrite the journal does not protect starts, progresses or is cut     *)
(* short, and ends.                                                        *)
Loosen ==
  /\ loose' \in SUBSET DataBlocks /\ loose \subseteq loose'
  /\ UNCHANGED content

Tear(b) ==
  /\ \E c \in RawContents : content' = [content EXCEPT ![b] = c]
  /\ loose' = loose \cup {b}

Settle(b) ==
  /\ b \in loose
  /\ \E c \in Contents : content' = [content EXCEPT ![b] = c]
  /\ loose' = loose \ {b}

Next ==
  \/ \E b \in DataBlocks : Commit(b) \/ Tear(b) \/ Settle(b)
  \/ Loosen

Spec == Init /\ [][Next]_vars
=============================================================================
