------------------------------ MODULE Directory ------------------------------
(***************************************************************************)
(* Directories of AnthonyPS2/mcio.cpp: Card_ReadDirEntry,                  *)
(* Card_CreateDirEntry, Card_GetDirInfo, Card_CacheDirEntry,               *)
(* Card_SetDirEntryState, the parts of Card_FileOpen that create files and *)
(* directories, Card_Delete, and mcio_mcDopen, mcio_mcDread, mcio_mcMkDir, *)
(* mcio_mcRemove and mcio_mcRmDir above them.                              *)
(*                                                                         *)
(* A directory is a chain of clusters of PerCluster entries each.  Its     *)
(* length is in its own entry, in the directory above; the root has it in  *)
(* its entry ".".  Files are empty here (module FatChain has their data),  *)
(* every call finds the card working (FileSession, WriteOrder), and the    *)
(* entries of a path before the last one are directories.                  *)
(***************************************************************************)
EXTENDS Integers, FiniteSets, Sequences

CONSTANTS
  Clusters, Root,   (* the clusters of the card; the first of the root     *)
                    (* directory (0)                                       *)
  PerCluster,       (* cluster_size >> 9 (2)                               *)
  Names,            (* names besides "." and ".."                          *)
  MaxFds,           (* MAX_FDHANDLES (3)                                   *)
  Null, Free, End,  (* no cluster (-1); two marks in the FAT               *)
  Gone              (* a slot without the attribute sceMcFileAttrExists    *)

ASSUME DirectoryAssumption ==
  /\ Root \in Clusters /\ IsFiniteSet(Clusters) /\ IsFiniteSet(Names)
  /\ PerCluster \in Nat \ {0, 1} /\ MaxFds \in Nat \ {0}
  /\ {Null, Free, End} \cap Clusters = {} /\ Free # End
  /\ {".", ".."} \cap Names = {}

Place == 0 .. PerCluster - 1
Fds == 1 .. MaxFds
MaxLength == 2 + Cardinality(Names)
MaxIndex == MaxLength \div PerCluster
Lengths == 0 .. MaxLength
Locations == [dir : Clusters, at : Lengths]    \* an entry: directory, number

VARIABLES
  fat,      (* each cluster: free, the last of a chain, or the next one    *)
  slot,     (* the entries in each cluster                                 *)
  fh        (* mcio_fdhandles                                              *)

vars == <<fat, slot, fh>>

(* An entry: cluster is the first one of a directory; the entry "." has in *)
(* cluster and back the place of the directory's own entry.                *)
Entry == [name : Names \cup {".", ".."}, dir : BOOLEAN,
          cluster : Clusters \cup {Null}, length : Lengths, back : Lengths]

ASSUME SlotAssumption == Gone \notin Entry

Self(up, number, length) ==
  [name |-> ".", dir |-> TRUE, cluster |-> up, length |-> length, back |-> number]
Above ==
  [name |-> "..", dir |-> TRUE, cluster |-> Root, length |-> 0, back |-> 0]
File(n) ==
  [name |-> n, dir |-> FALSE, cluster |-> Null, length |-> 0, back |-> 0]
Dir(n, c) ==
  [name |-> n, dir |-> TRUE, cluster |-> c, length |-> 2, back |-> 0]

(* A handle: where the entry is (cluster, fsindex) and the entry of its    *)
(* directory (parent_cluster, parent_fsindex); for a directory, its first  *)
(* cluster (freeclink), filesize and position.  name, due and fresh are    *)
(* histories: the name opened; of a listing, the names still to come and   *)
(* those created since it began.                                           *)
Handle == [open : BOOLEAN, dir : BOOLEAN, loc : Locations, parent : Locations,
           head : Clusters \cup {Null}, size : Lengths, pos : Lengths,
           name : Names \cup {"."},
           due : SUBSET Names, fresh : SUBSET Names]

Top == [dir |-> Root, at |-> 0]
Unused == [open |-> FALSE, dir |-> FALSE, loc |-> Top, parent |-> Top,
           head |-> Null, size |-> 0, pos |-> 0,
           name |-> ".", due |-> {}, fresh |-> {}]

TypeOK ==
  /\ fat \in [Clusters -> Clusters \cup {Free, End}]
  /\ slot \in [Clusters -> [Place -> Entry \cup {Gone}]]
  /\ fh \in [Fds -> Handle]

(* A card just formatted and detected.                                     *)
Init ==
  /\ fat = [c \in Clusters |-> IF c = Root THEN End ELSE Free]
  /\ slot = [c \in Clusters |-> [p \in Place |->
              IF c # Root THEN Gone
              ELSE IF p = 0 THEN Self(Root, 0, 2) ELSE Above]]
  /\ fh = [d \in Fds |-> Unused]
-----------------------------------------------------------------------------
(* Card_ReadDirEntry                                                       *)

(* The cluster of number k in a chain; none beyond its end.                *)
Nth(f, c, k) ==
  LET to[i \in 0 .. k] ==
        IF i = 0 THEN c
        ELSE LET last == to[i - 1] IN IF last \in Clusters THEN f[last] ELSE End
  IN  to[k]

ClusterOf(f, d, i) == Nth(f, d, i \div PerCluster)
At(d, i) == slot[ClusterOf(fat, d, i)][i % PerCluster]
EntryAt(l) == At(l.dir, l.at)

Put(s, f, l, e) == [s EXCEPT ![ClusterOf(f, l.dir, l.at)][l.at % PerCluster] = e]

Loc(d, i) == [dir |-> d, at |-> i]

-----------------------------------------------------------------------------
(* Card_GetDirInfo and Card_CacheDirEntry.  l is the place of the entry of *)
(* the directory that is searched.                                         *)

Present(e) == {i \in 0 .. e.length - 1 : At(e.cluster, i) # Gone}
Matches(l, n) ==
  LET e == EntryAt(l) IN {i \in Present(e) : At(e.cluster, i).name = n}

LeastOf(S) == CHOOSE i \in S : \A j \in S : i <= j

(* maxent: the first slot without an entry, or the one after the last.     *)
Hole(l) == LeastOf(Lengths \ Present(EntryAt(l)))

(* The way up: the entry "." of a directory has the place of its own, and  *)
(* so from the entry of a directory to that of the one above.              *)
HomeOf(head) == LET self == At(head, 0) IN Loc(self.cluster, self.back)
Parent(l) == HomeOf(At(EntryAt(l).cluster, 0).cluster)

(* The directories that paths lead to: the places of their entries.        *)
Below(l) ==
  LET e == EntryAt(l)
  IN  {Loc(e.cluster, i) : i \in {j \in Present(e) \ {0, 1} : At(e.cluster, j).dir}}

Directories ==
  LET Depths == 0 .. Cardinality(Clusters) - 1
      at[k \in Depths] ==
        IF k = 0 THEN {Top}
        ELSE LET above == at[k - 1] IN above \cup UNION {Below(l) : l \in above}
  IN  at[Cardinality(Clusters) - 1]
-----------------------------------------------------------------------------
(* Handles                                                                 *)

FreeFds == {d \in Fds : ~fh[d].open}
Fd == LeastOf(FreeFds)

(* Card_InvFileHandles and Card_ClearCache, for a result below -9          *)
Invalidate ==
  /\ fh' = [d \in Fds |-> Unused] /\ UNCHANGED <<fat, slot>>

InUse_First(l) == fh[1].open /\ fh[1].loc = l   (* a mutated form *)
InUse(l) == \E d \in Fds : fh[d].open /\ fh[d].loc = l

(* What a listing in progress is told of a name that goes or comes.        *)
Forget(hs, head, n) ==
  [d \in Fds |->
     IF hs[d].open /\ hs[d].dir /\ hs[d].head = head
       THEN [hs[d] EXCEPT !.due = @ \ {n}, !.fresh = @ \ {n}] ELSE hs[d]]
Announce(hs, head, n) ==
  [d \in Fds |->
     IF hs[d].open /\ hs[d].dir /\ hs[d].head = head
       THEN [hs[d] EXCEPT !.fresh = @ \cup {n}] ELSE hs[d]]
-----------------------------------------------------------------------------
(* Card_FileOpen: a slot for a new entry                                   *)

FreeOf(f) == {c \in Clusters : f[c] = Free}

(* A directory whose last cluster is full gets another one, unless an      *)
(* earlier call that failed has left it there.                             *)
Needs(e, hole) == hole = e.length /\ hole % PerCluster = 0

Grown(e, hole) ==
  LET last == Nth(fat, e.cluster, hole \div PerCluster - 1)
  IN  IF ~Needs(e, hole) \/ fat[last] # End THEN {fat}
      ELSE {[fat EXCEPT ![last] = c, ![c] = End] : c \in FreeOf(fat)}

(* The new entry, and the length of the directory in its own entry.        *)
Length(e, hole) == IF hole = e.length THEN e.length + 1 ELSE e.length

Inserted(s, f, up, hole, new) ==
  LET e == EntryAt(up)
  IN  Put(Put(s, f, Loc(e.cluster, hole), new),
          f, up, [e EXCEPT !.length = Length(e, hole)])
-----------------------------------------------------------------------------
(* mcio_mcMkDir.  When the card is full after the directory above has      *)
(* grown, it stays so.                                                     *)

SelfOf_Above(up, hole) == Self(up.dir, up.at, 0)   (* a mutated form *)
SelfOf(up, hole) == Self(EntryAt(up).cluster, hole, 0)

MkDir(up, n) ==
  /\ FreeFds # {} /\ Matches(up, n) = {}
  /\ LET e == EntryAt(up)
         hole == Hole(up)
     IN  \E f \in Grown(e, hole) :
           \/ fat' = f /\ UNCHANGED <<slot, fh>>
           \/ \E c \in FreeOf(f) :
                /\ fat' = [f EXCEPT ![c] = End]
                /\ slot' = Inserted([slot EXCEPT ![c] =
                                      [p \in Place |-> IF p = 0 THEN SelfOf(up, hole)
                                                       ELSE Above]],
                                    f, up, hole, Dir(n, c))
                /\ fh' = Announce(fh, e.cluster, n)
-----------------------------------------------------------------------------
(* mcio_mcOpen with sceMcFileCreateFile                                    *)

NewFile(head, hole, parent, n) ==
  [Unused EXCEPT !.open = TRUE, !.loc = Loc(head, hole), !.parent = parent,
                 !.name = n]

Create(up, n) ==
  /\ FreeFds # {} /\ Matches(up, n) = {}
  /\ LET e == EntryAt(up)
         hole == Hole(up)
     IN  \E f \in Grown(e, hole) :
           /\ fat' = f
           /\ slot' = Inserted(slot, f, up, hole, File(n))
           /\ fh' = [Announce(fh, e.cluster, n) EXCEPT
                       ![Fd] = NewFile(e.cluster, hole, up, n)]

(* A file that exists is deleted first, unless somebody has it open; its   *)
(* slot, or one before it, is used again.                                  *)
Replace(up, n) ==
  /\ FreeFds # {} /\ Matches(up, n) # {}
  /\ LET head == EntryAt(up).cluster
         i == LeastOf(Matches(up, n))
         hole == IF i < Hole(up) THEN i ELSE Hole(up)
         home == HomeOf(head)
     IN  /\ ~At(head, i).dir /\ ~InUse(Loc(head, i))
         /\ slot' = Inserted(Put(slot, fat, Loc(head, i), Gone),
                             fat, home, hole, File(n))
         /\ fh' = [Announce(Forget(fh, head, n), head, n) EXCEPT
                     ![Fd] = NewFile(head, hole, home, n)]
  /\ UNCHANGED fat
-----------------------------------------------------------------------------
(* mcio_mcOpen of a file and mcio_mcDopen                                  *)

OpenFile(up, n) ==
  /\ FreeFds # {} /\ Matches(up, n) # {}
  /\ LET head == EntryAt(up).cluster
         i == LeastOf(Matches(up, n))
     IN  IF At(head, i).dir THEN Invalidate          \* sceMcResNotFile
         ELSE /\ fh' = [fh EXCEPT ![Fd] = NewFile(head, i, HomeOf(head), n)]
              /\ UNCHANGED <<fat, slot>>

NamesIn(e) == {At(e.cluster, i).name : i \in Present(e) \ {0, 1}}

Listing(l) ==
  LET e == EntryAt(l)
  IN  [Unused EXCEPT !.open = TRUE, !.dir = TRUE, !.loc = l, !.head = e.cluster,
                     !.size = e.length, !.due = NamesIn(e)]

OpenDir(l) ==
  /\ FreeFds # {}
  /\ fh' = [fh EXCEPT ![Fd] = Listing(l)]
  /\ UNCHANGED <<fat, slot>>

Close(d) ==
  /\ fh[d].open /\ fh' = [fh EXCEPT ![d] = Unused]
  /\ UNCHANGED <<fat, slot>>
-----------------------------------------------------------------------------
(* mcio_mcDread                                                            *)

Coming(h) == {i \in h.pos .. h.size - 1 : At(h.head, i) # Gone}

Advance_Skips(h) == LeastOf(Coming(h)) + 2   (* a mutated form *)
Advance(h) == LeastOf(Coming(h)) + 1

Told(h) ==
  LET n == At(h.head, LeastOf(Coming(h))).name
  IN  [h EXCEPT !.pos = Advance(h), !.due = @ \ {n}, !.fresh = @ \ {n}]

Dread(d) ==
  /\ fh[d].open /\ fh[d].dir /\ fh[d].pos < fh[d].size
  /\ fh' = [fh EXCEPT ![d] =
              IF Coming(@) = {} THEN [@ EXCEPT !.pos = fh[d].size] ELSE Told(@)]
  /\ UNCHANGED <<fat, slot>>
-----------------------------------------------------------------------------
(* mcio_mcRemove and mcio_mcRmDir: Card_Delete and Card_SetDirEntryState   *)

Occupied_NotLast(e) ==   (* a mutated form *)
  \E i \in 2 .. e.length - 2 : At(e.cluster, i) # Gone
Occupied(e) == \E i \in 2 .. e.length - 1 : At(e.cluster, i) # Gone

ChainOf(c) ==
  {Nth(fat, c, k) : k \in 0 .. MaxIndex + 1} \cap Clusters

Remove(up, n) ==
  /\ Matches(up, n) # {}
  /\ LET head == EntryAt(up).cluster
         i == LeastOf(Matches(up, n))
         e == At(head, i)
     IN  /\ e.dir => ~Occupied(e)
         /\ ~InUse(Loc(head, i))
         /\ slot' = Put(slot, fat, Loc(head, i), Gone)
         /\ fat' = [c \in Clusters |->
                     IF e.dir /\ c \in ChainOf(e.cluster) THEN Free ELSE fat[c]]
         /\ fh' = Forget(fh, head, n)
-----------------------------------------------------------------------------
Next ==
  \/ \E up \in Directories, n \in Names :
       \/ MkDir(up, n) \/ Create(up, n) \/ Replace(up, n)
       \/ OpenFile(up, n) \/ Remove(up, n)
  \/ \E l \in Directories : OpenDir(l)
  \/ \E d \in Fds : Close(d) \/ Dread(d)

Spec == Init /\ [][Next]_vars
-----------------------------------------------------------------------------
(* To its callers this is a set of names that changes by one at a time;    *)
(* replacing a file changes nothing.                                       *)
Tree ==
  LET Items(e) == {[up |-> e.cluster, name |-> x.name, node |-> x.cluster] :
                     x \in {At(e.cluster, i) : i \in Present(e) \ {0, 1}}}
  IN  UNION {Items(EntryAt(l)) : l \in Directories}

Promise == INSTANCE NameSpace WITH tree <- Tree, NoNode <- Null
ImplementsNameSpace == Promise!Spec

(* Every directory is a chain of its own, long enough for its length, and  *)
(* its entry "." leads back to its own entry: a slot used again, a         *)
(* directory that grew or one that was removed never breaks the way up.    *)
TreeIsSound ==
  \A x, y \in Directories :
    LET e == EntryAt(x)
        above == EntryAt(y)
    IN  /\ \A k \in 0 .. (e.length - 1) \div PerCluster :
             Nth(fat, e.cluster, k) \in Clusters \ FreeOf(fat)
        /\ HomeOf(e.cluster) = x
        /\ x # Top /\ x.dir = above.cluster => Parent(x) = y
        /\ x # y => ChainOf(e.cluster) \cap ChainOf(above.cluster) = {}

(* The place a handle remembers is the entry it was opened on, and its     *)
(* parent the entry of that directory: nobody removed it or moved another  *)
(* one there.                                                              *)
HandlesKeepTheirEntry ==
  \A d \in Fds :
    fh[d].open /\ ~fh[d].dir =>
      /\ fh[d].loc.at < EntryAt(fh[d].parent).length
      /\ EntryAt(fh[d].loc) = File(fh[d].name)
      /\ EntryAt(fh[d].parent).cluster = fh[d].loc.dir

(* A listing gives every name that is there from its beginning to its end  *)
(* exactly once, whatever is created and removed meanwhile.                *)
ListingIsExact ==
  \A d \in Fds :
    fh[d].open /\ fh[d].dir =>
      LET names == {At(fh[d].head, i).name : i \in Coming(fh[d])} \cap Names
      IN  fh[d].due \subseteq names /\ names \subseteq fh[d].due \cup fh[d].fresh
=============================================================================
