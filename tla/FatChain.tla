------------------------------ MODULE FatChain ------------------------------
(***************************************************************************)
(* Cluster chains of AnthonyPS2/mcio.cpp: Card_FindFree, Card_FatRSeek and *)
(* Card_FatWSeek with the position a handle remembers, Card_SetFatEntry,   *)
(* Card_GetFatEntry and Card_SetDirEntryState, as Card_FileOpen,           *)
(* Card_FileRead, Card_FileWrite and Card_Delete use them.  Files are read *)
(* and written in whole clusters.  A step can fail, which ends the call;   *)
(* module FileSession has the failures that also clear the cache.          *)
(***************************************************************************)
EXTENDS Integers, FiniteSets

CONSTANTS
  N,                 (* max_allocatable_clusters                           *)
  PerCluster,        (* FATentries_per_cluster (256)                       *)
  ClustersPerBlock, AllocOffset,
  BadBlock,          (* mcio_badblock                                      *)
  Files, Fds,
  MaxLen,            (* the bound on the length of a file                  *)
  None

ASSUME ChainAssumption ==
  /\ {N, PerCluster, ClustersPerBlock, MaxLen} \subseteq Nat \ {0}
  /\ AllocOffset \in Nat /\ BadBlock \in Int
  /\ None \notin Files \cup Fds

(* An entry of the FAT is the allocated bit and 31 bits: the next cluster, *)
(* or all ones at the end of a chain.  Deleting clears only the bit.       *)
Index == 0 .. N - 1
End == N + 1         \* 0x7fffffff
Null == -1

VARIABLES
  fat,
  hint,              (* mcio_devinfo.unknown2: where searches start        *)
  entry,             (* the directory: cluster and length, and whether the *)
                     (* file exists                                        *)
  fh,                (* mcio_fdhandles: freeclink is the first cluster,    *)
                     (* clink the one of number offset in the chain        *)
  data,              (* what each cluster holds: file and number, or None  *)
  call               (* the call in progress                               *)

vars == <<fat, hint, entry, fh, data, call>>

Idle == [op |-> "none", fd |-> None, file |-> None, at |-> "idle",
         index |-> Null, left |-> 0]
Unused == [open |-> FALSE, wr |-> FALSE, file |-> None, freeclink |-> Null,
           clink |-> Null, offset |-> 0, position |-> 0, size |-> 0]

TypeOK ==
  /\ fat \in [Index -> [used : BOOLEAN, next : Index \cup {End}]]
  /\ hint \in Index \cup {End}
  /\ entry \in [Files -> [exists : BOOLEAN, cluster : Index \cup {Null},
                          length : 0 .. MaxLen]]
  /\ fh \in [Fds -> [open : BOOLEAN, wr : BOOLEAN, file : Files \cup {None},
                     freeclink : Index \cup {Null}, clink : Index \cup {Null},
                     offset : 0 .. MaxLen, position : 0 .. MaxLen,
                     size : 0 .. MaxLen]]
  /\ data \in [Index -> (Files \X (0 .. MaxLen)) \cup {None}]
  /\ call \in [op : {"none", "read", "write", "delete", "create"},
               fd : Fds \cup {None}, file : Files \cup {None},
               at : {"idle", "rseek", "wseek", "use", "free", "make"},
               index : Index \cup {Null, End}, left : 0 .. MaxLen]

(* A card just formatted: cluster 0 is the root directory.                 *)
Init ==
  /\ fat = [i \in Index |-> [used |-> i = 0, next |-> End]]
  /\ hint = 0
  /\ entry = [f \in Files |-> [exists |-> FALSE, cluster |-> Null, length |-> 0]]
  /\ fh = [d \in Fds |-> Unused]
  /\ data = [i \in Index |-> None]
  /\ call = Idle
-----------------------------------------------------------------------------
(* Card_FindFree, to reserve a cluster.  The block it compares with the    *)
(* bad block is computed from the offset in the cluster of the FAT.        *)

Block(i) == (AllocOffset + (i % PerCluster)) \div ClustersPerBlock

FreeFrom_AlsoUsed(h) == {i \in Index : i >= h}   (* a mutated form *)
FreeFrom(h) == {i \in Index : i >= h /\ ~fat[i].used /\ Block(i) # BadBlock}

Full == FreeFrom(hint) = {}
Found == CHOOSE i \in FreeFrom(hint) : \A j \in FreeFrom(hint) : i <= j

Reserved == [used |-> TRUE, next |-> End]
-----------------------------------------------------------------------------
Handle == fh[call.fd]
SetHandle(h) == fh' = [fh EXCEPT ![call.fd] = h]

(* Any read or flush below can fail; mcio_mcRead and mcio_mcWrite then     *)
(* give up the handle.  What an unused handle holds is never looked at.    *)
GiveUp ==
  /\ call' = Idle
  /\ fh' = IF call.fd = None THEN fh
           ELSE [fh EXCEPT ![call.fd] = Unused]

Fail ==
  /\ call # Idle /\ GiveUp
  /\ UNCHANGED <<fat, hint, entry, data>>
-----------------------------------------------------------------------------
(* mcio_mcOpen, mcio_mcClose and mcio_mcSeek, up to the end of the file    *)

HandlesOf(f) == {d \in Fds : fh[d].open /\ fh[d].file = f}

Open(d, f, w) ==
  /\ call = Idle /\ entry[f].exists /\ ~fh[d].open
  /\ w => \A x \in HandlesOf(f) : ~fh[x].wr
  /\ fh' = [fh EXCEPT ![d] =
             [open |-> TRUE, wr |-> w, file |-> f,
              freeclink |-> entry[f].cluster, clink |-> entry[f].cluster,
              offset |-> 0, position |-> 0, size |-> entry[f].length]]
  /\ UNCHANGED <<fat, hint, entry, data, call>>

Close(d) ==
  /\ call = Idle /\ fh[d].open
  /\ fh' = [fh EXCEPT ![d] = Unused]
  /\ UNCHANGED <<fat, hint, entry, data, call>>

Seek(d) ==
  /\ call = Idle /\ fh[d].open
  /\ \E p \in 0 .. fh[d].size : fh' = [fh EXCEPT ![d].position = p]
  /\ UNCHANGED <<fat, hint, entry, data, call>>
-----------------------------------------------------------------------------
(* Card_FatRSeek                                                           *)

(* Where the walk begins, and how many links are to be followed.           *)
Walk(h) ==
  IF h.position < h.offset
    THEN [index |-> h.freeclink, left |-> h.position]
    ELSE [index |-> h.clink, left |-> h.position - h.offset]

Seeking(op, d, at) ==
  call' = [op |-> op, fd |-> d, file |-> fh[d].file, at |-> at,
           index |-> Walk(fh[d]).index, left |-> Walk(fh[d]).left]

StartRead(d) ==
  /\ call = Idle /\ fh[d].open /\ fh[d].position < fh[d].size
  /\ Seeking("read", d, "rseek")
  /\ UNCHANGED <<fat, hint, entry, fh, data>>

StartWrite(d) ==
  /\ call = Idle /\ fh[d].open /\ fh[d].wr /\ fh[d].position < MaxLen
  /\ Seeking("write", d, "rseek")
  /\ UNCHANGED <<fat, hint, entry, fh, data>>

(* Card_FatRSeek returns a cluster ...                                     *)
RSeekFound ==
  /\ call.at = "rseek" /\ call.left = 0 /\ call.index # Null
  /\ call' = [call EXCEPT !.at = "use"]
  /\ UNCHANGED <<fat, hint, entry, fh, data>>

(* ... or the end of the chain: Read fails, Write makes it longer.         *)
ChainEnds ==
  IF call.left = 0 THEN call.index = Null
  ELSE ~fat[call.index].used \/ fat[call.index].next = End

RSeekEnd ==
  /\ call.at = "rseek" /\ ChainEnds
  /\ IF call.op = "read" THEN GiveUp
     ELSE call' = [call EXCEPT !.at = "wseek", !.left = 0] /\ UNCHANGED fh
  /\ UNCHANGED <<fat, hint, entry, data>>

Remember_OneBehind(i, left) ==   (* a mutated form *)
  SetHandle([Handle EXCEPT !.clink = i, !.offset = Handle.position - left - 1])
Remember(i, left) ==
  SetHandle([Handle EXCEPT !.clink = i, !.offset = Handle.position - left])

RSeekStep ==
  /\ call.at = "rseek" /\ call.left > 0 /\ ~ChainEnds
  /\ LET i == fat[call.index].next
     IN  /\ call' = [call EXCEPT !.index = i, !.left = @ - 1]
         /\ Remember(i, call.left - 1)
  /\ UNCHANGED <<fat, hint, entry, data>>
-----------------------------------------------------------------------------
(* Card_FatWSeek, when Card_FatRSeek found the end                         *)

(* The first cluster of an empty file goes into its directory entry.       *)
WSeekFirst ==
  /\ call.at = "wseek" /\ call.left = 0 /\ Handle.freeclink = Null /\ ~Full
  /\ fat' = [fat EXCEPT ![Found] = Reserved] /\ hint' = Found
  /\ entry' = [entry EXCEPT ![call.file].cluster = Found]
  /\ SetHandle([Handle EXCEPT !.freeclink = Found, !.clink = Found])
  /\ call' = [call EXCEPT !.at = "use", !.index = Found]
  /\ UNCHANGED data

FromStart == Handle.offset = 0 \/ Handle.position < Handle.offset

WSeekBegin ==
  /\ call.at = "wseek" /\ call.left = 0 /\ Handle.freeclink # Null
  /\ call' = IF FromStart
               THEN [call EXCEPT !.index = Handle.freeclink,
                                 !.left = Handle.position]
               ELSE [call EXCEPT !.index = Handle.clink,
                                 !.left = Handle.position - Handle.offset]
  /\ UNCHANGED <<fat, hint, entry, fh, data>>

(* A link is made; there is never one to be followed, because              *)
(* Card_FatRSeek has just left the handle at the end of the chain.  At the *)
(* last one the handle remembers the cluster, and Card_FatRSeek, called    *)
(* again, returns it.                                                      *)
Arrive(i) ==
  IF call.left = 1
    THEN /\ call' = [call EXCEPT !.at = "use", !.index = i, !.left = 0]
         /\ Remember(i, 0)
    ELSE call' = [call EXCEPT !.index = i, !.left = @ - 1] /\ UNCHANGED fh

WSeekExtend ==
  /\ call.at = "wseek" /\ call.left > 0 /\ fat[call.index] = Reserved /\ ~Full
  /\ fat' = [fat EXCEPT ![Found] = Reserved,
                        ![call.index] = [used |-> TRUE, next |-> Found]]
  /\ hint' = Found
  /\ Arrive(Found)
  /\ UNCHANGED <<entry, data>>

Allocates ==
  /\ call.at = "wseek"
  /\ IF call.left = 0 THEN Handle.freeclink = Null
                      ELSE fat[call.index] = Reserved

FullDevice ==
  /\ Allocates /\ Full /\ GiveUp
  /\ UNCHANGED <<fat, hint, entry, data>>
-----------------------------------------------------------------------------
(* Card_FileRead and Card_FileWrite                                        *)

Read ==
  /\ call.op = "read" /\ call.at = "use"
  /\ SetHandle([Handle EXCEPT !.position = @ + 1])
  /\ call' = Idle
  /\ UNCHANGED <<fat, hint, entry, data>>

Longer(h) == IF h.position + 1 > h.size THEN h.position + 1 ELSE h.size

(* Card_FileClose then puts the first cluster and the length into the      *)
(* directory.                                                              *)
Write ==
  /\ call.op = "write" /\ call.at = "use"
  /\ data' = [data EXCEPT ![call.index] = <<call.file, Handle.position>>]
  /\ SetHandle([Handle EXCEPT !.position = @ + 1, !.size = Longer(Handle)])
  /\ entry' = [entry EXCEPT ![call.file].cluster = Handle.freeclink,
                            ![call.file].length = Longer(Handle)]
  /\ call' = Idle
  /\ UNCHANGED <<fat, hint>>
-----------------------------------------------------------------------------
(* Card_SetDirEntryState for Delete, and for Open when it creates a file   *)

InUse_ByWriters(f) == \E d \in HandlesOf(f) : fh[d].wr   (* a mutated form *)
InUse(f) == HandlesOf(f) # {}

Remove(op, f) ==
  /\ call = Idle /\ entry[f].exists /\ ~InUse(f)
  /\ entry' = [entry EXCEPT ![f].exists = FALSE]
  /\ LET head == entry[f].cluster
     IN  /\ hint' = IF head # Null /\ head < hint THEN head ELSE hint
         /\ call' = [Idle EXCEPT !.op = op, !.file = f, !.index = head,
                                 !.at = IF head = Null THEN "make" ELSE "free"]
  /\ UNCHANGED <<fat, fh, data>>

(* The search is moved back to the clusters that become free - but to the  *)
(* one after them.                                                         *)
Free ==
  /\ call.at = "free"
  /\ LET i == call.index
     IN  /\ fat' = [fat EXCEPT ![i].used = FALSE]
         /\ hint' = IF i < hint THEN fat[i].next ELSE hint
         /\ call' = [call EXCEPT !.index = fat[i].next,
                                 !.at = IF fat[i].next = End THEN "make" ELSE @]
  /\ UNCHANGED <<entry, fh, data>>

StartCreate(f) ==
  \/ Remove("create", f)
  \/ /\ call = Idle /\ ~entry[f].exists
     /\ call' = [Idle EXCEPT !.op = "create", !.file = f, !.at = "make"]
     /\ UNCHANGED <<fat, hint, entry, fh, data>>

StartDelete(f) == Remove("delete", f)

Deleted ==
  /\ call.op = "delete" /\ call.at = "make" /\ call' = Idle
  /\ UNCHANGED <<fat, hint, entry, fh, data>>

Create ==
  /\ call.op = "create" /\ call.at = "make" /\ call' = Idle
  /\ entry' = [entry EXCEPT ![call.file] =
                [exists |-> TRUE, cluster |-> Null, length |-> 0]]
  /\ \E d \in Fds :
       /\ ~fh[d].open
       /\ fh' = [fh EXCEPT ![d] =
                  [Unused EXCEPT !.open = TRUE, !.wr = TRUE, !.file = call.file]]
  /\ UNCHANGED <<fat, hint, data>>
-----------------------------------------------------------------------------
Next ==
  \/ \E d \in Fds, f \in Files, w \in BOOLEAN : Open(d, f, w)
  \/ \E d \in Fds : Close(d) \/ Seek(d) \/ StartRead(d) \/ StartWrite(d)
  \/ \E f \in Files : StartCreate(f) \/ StartDelete(f)
  \/ RSeekFound \/ RSeekEnd \/ RSeekStep
  \/ WSeekFirst \/ WSeekBegin \/ WSeekExtend \/ FullDevice
  \/ Read \/ Write \/ Free \/ Deleted \/ Create \/ Fail

Spec == Init /\ [][Next]_vars
-----------------------------------------------------------------------------
(* The cluster of number k in the chain that begins with i.                *)
Nth(i, k) ==
  LET to[n \in 0 .. MaxLen] ==
        IF n = 0 THEN i
        ELSE IF to[n - 1] \in Index THEN fat[to[n - 1]].next ELSE End
  IN  to[k]

(* Every file that exists has all its clusters, allocated, with what was   *)
(* written there last: no other file got one of them, and no write through *)
(* a handle that remembered its place went to a wrong one.                 *)
FilesKeepTheirData ==
  \A f \in Files :
    entry[f].exists =>
      \A k \in 0 .. entry[f].length - 1 :
        LET i == Nth(entry[f].cluster, k)
        IN  i \in Index /\ fat[i].used /\ data[i] = <<f, k>>

(* A read returns the cluster of its position, also while another handle   *)
(* makes the file longer.                                                  *)
ReadsItsPosition ==
  call.op = "read" /\ call.at = "use" =>
    data[call.index] = <<call.file, Handle.position>>

(* What a handle remembers is on the chain of its file.                    *)
RemembersItsPlace ==
  \A d \in Fds :
    fh[d].open /\ fh[d].clink # Null =>
      fh[d].clink = Nth(fh[d].freeclink, fh[d].offset)
=============================================================================
