------------------------------ MODULE WriteOrder ------------------------------
(***************************************************************************)
(* What a power cut, or the end of the program, leaves of the files on a   *)
(* card: the order in which Card_FileOpen, Card_FileWrite, Card_FatWSeek,  *)
(* Card_FileClose, mcio_mcClose and Card_Delete (AnthonyPS2/mcio.cpp)      *)
(* change directory entries, the FAT and data in the cache, and that in    *)
(* which the cache writes them to the card (ClusterCache; one cluster at a *)
(* time, BackupJournal).                                                   *)
(*                                                                         *)
(* A call is the sequence of its changes; between two of them a cluster    *)
(* that is read can evict the one used longest ago.  Each entry is in a    *)
(* directory cluster of its own.  Files are written by whole clusters.  No *)
(* call fails, but on a full card, or on a file that a cut has torn.       *)
(*                                                                         *)
(* Nothing keeps the callers from writing or deleting a file that a cut    *)
(* has torn (mcio_mcRemove, mcio_mcOpen and mcio_mcWrite do not look at    *)
(* the attribute "closed").  Its entry may lead to clusters that the FAT   *)
(* of the card calls free, and that other files have taken since: such a   *)
(* call can destroy a closed file (Hit).                                   *)
(***************************************************************************)
EXTENDS Integers, Sequences, FiniteSets

CONSTANTS
  Files,
  Data, MaxSize,    (* clusters for data; bound: clusters of a file        *)
  Fats, FatOf,      (* the clusters of the FAT; the one with a cell        *)
  Values, Junk,     (* what callers write; what was there before           *)
  Null, Free, End   (* no cluster (-1); two marks in the FAT               *)

ASSUME OrderAssumption ==
  /\ IsFiniteSet(Data) /\ MaxSize \in Nat \ {0}
  /\ FatOf \in [Data -> Fats]
  /\ {Null, Free, End} \cap Data = {} /\ Free # End
  /\ Files \cap Data = {} /\ Files \cap Fats = {} /\ Data \cap Fats = {}
  /\ \E v, w \in Values : v # w

Content == (Files \X Values) \cup {Junk}

(* closed is the attribute sceMcFileAttrClosed; holds is a history: what   *)
(* callers had written into the file when the entry was (nothing, of a     *)
(* file that is torn).                                                     *)
Entry == [exists : BOOLEAN, closed : BOOLEAN, first : Data \cup {Null},
          holds : UNION {[1 .. n -> Content] : n \in 0 .. MaxSize}]
Gone == [exists |-> FALSE, closed |-> FALSE, first |-> Null, holds |-> << >>]

Image == [entry : [Files -> Entry], fat : [Data -> Data \cup {Free, End}],
          data : [Data -> Content]]

Steps == {"flush", "mark", "reserve", "link", "again", "put", "unname", "release"}

VARIABLES
  mem,       (* the clusters as the cache has them                         *)
  card,      (* ... and as the card has them                               *)
  dirty,     (* the changed clusters, the one used longest ago first       *)
  fh,        (* the handle of each file                                    *)
  todo,      (* what is left of the call in progress                       *)
  torn       (* history: files that a cut found not closed, those whose    *)
             (* deletion began while others were being written, and those  *)
             (* of which a call on such a file has changed a cluster       *)

vars == <<mem, card, dirty, fh, todo, torn>>

Handle == [open : BOOLEAN, marked : BOOLEAN, first : Data \cup {Null},
           last : Data \cup {Null}]
NoHandle == [open |-> FALSE, marked |-> FALSE, first |-> Null, last |-> Null]

TypeOK ==
  /\ mem \in Image /\ card \in Image
  /\ dirty \in Seq(Files \cup Fats \cup Data)
  /\ fh \in [Files -> Handle]
  /\ todo \in Seq([do : Steps, file : Files, at : Nat \cup Data \cup {Null}])
  /\ torn \in SUBSET Files

Empty == [entry |-> [f \in Files |-> Gone], fat |-> [c \in Data |-> Free],
          data |-> [c \in Data |-> Junk]]

Init ==
  /\ mem = Empty /\ card = Empty /\ dirty = << >>
  /\ fh = [f \in Files |-> NoHandle]
  /\ todo = << >> /\ torn = {}
-----------------------------------------------------------------------------
(* The clusters of a chain, of at most MaxSize.                            *)
Nth(fat, first, k) ==
  LET at[i \in 1 .. k] ==
        IF i = 1 THEN first
        ELSE LET before == at[i - 1] IN IF before \in Data THEN fat[before] ELSE Null
  IN  at[k]

Size(fat, first) ==
  Cardinality({k \in 1 .. MaxSize : Nth(fat, first, k) \in Data})

Chain(fat, first) == [k \in 1 .. Size(fat, first) |-> Nth(fat, first, k)]

ChainOn(image, f) == Chain(image.fat, image.entry[f].first)
ClustersOn(image, f) == LET chain == ChainOn(image, f) IN {chain[k] : k \in DOMAIN chain}

(* The files that a change of the cluster c, or of its cell, by a call on  *)
(* a torn file f destroys.                                                 *)
Hit(f, c) ==
  IF f \in torn THEN {g \in Files : mem.entry[g].exists /\ c \in ClustersOn(mem, g)} ELSE {}

(* A sequence without the elements of a set.                               *)
Without(s, us) ==
  LET kept[i \in 0 .. Len(s)] ==
        IF i = 0 THEN << >>
        ELSE IF s[i] \in us THEN kept[i - 1] ELSE Append(kept[i - 1], s[i])
  IN  kept[Len(s)]

(* Card_AddCacheEntry: the cluster becomes the one used last.              *)
Used(u) == Append(Without(dirty, {u}), u)
-----------------------------------------------------------------------------
(* Card_FlushMCCache and the eviction of Card_ReadCluster write the        *)
(* cluster used longest ago, and with it others of the same kind and       *)
(* block.                                                                  *)
KindOf(u) == CHOOSE S \in {Files, Fats, Data} : u \in S

Stored(us) ==
  [entry |-> [f \in Files |-> IF f \in us THEN mem.entry[f] ELSE card.entry[f]],
   fat |-> [c \in Data |-> IF FatOf[c] \in us THEN mem.fat[c] ELSE card.fat[c]],
   data |-> [c \in Data |-> IF c \in us THEN mem.data[c] ELSE card.data[c]]]

WriteBack ==
  /\ todo # << >> /\ dirty # << >>
  /\ LET changed == {dirty[i] : i \in DOMAIN dirty}
     IN  \E us \in SUBSET (changed \cap KindOf(Head(dirty))) :
           /\ Head(dirty) \in us
           /\ card' = Stored(us)
           /\ dirty' = Without(dirty, us)
  /\ UNCHANGED <<mem, fh, todo, torn>>

Doing(step) == todo # << >> /\ Head(todo).do = step

Flushed == dirty = << >>

Flush ==
  /\ Doing("flush") /\ Flushed /\ todo' = Tail(todo)
  /\ UNCHANGED <<mem, card, dirty, fh, torn>>
-----------------------------------------------------------------------------
(* The changes                                                             *)

Do(step, f) == [do |-> step, file |-> f, at |-> Null]
DoAt(step, f, x) == [do |-> step, file |-> f, at |-> x]

(* Card_FileClose: the entry gets what the handle knows.                   *)
Written(f, closed) ==
  [exists |-> TRUE, closed |-> closed, first |-> fh[f].first,
   holds |-> LET chain == IF f \in torn THEN << >> ELSE Chain(mem.fat, fh[f].first)
             IN  [k \in DOMAIN chain |-> mem.data[chain[k]]]]

Mark ==
  /\ Doing("mark")
  /\ LET f == Head(todo).file
     IN  /\ mem' = [mem EXCEPT !.entry[f] = Written(f, ~fh[f].marked)]
         /\ dirty' = Used(f)
  /\ todo' = Tail(todo) /\ UNCHANGED <<card, fh, torn>>

(* Card_FindFree                                                           *)
Reserve ==
  /\ Doing("reserve")
  /\ LET f == Head(todo).file
     IN  \/ \E c \in Data :
              /\ mem.fat[c] = Free
              /\ mem' = [mem EXCEPT !.fat[c] = End]
              /\ fh' = [fh EXCEPT ![f].last = c,
                                  ![f].first = IF @ = Null THEN c ELSE @]
              /\ dirty' = Used(FatOf[c])
              /\ todo' = Tail(todo)
         \/ /\ \A c \in Data : mem.fat[c] # Free
            /\ fh' = [fh EXCEPT ![f] = NoHandle] /\ todo' = << >>
            /\ UNCHANGED <<mem, dirty>>
  /\ UNCHANGED <<card, torn>>

(* Card_SetFatEntry, for the cluster that was the last of the file         *)
Link ==
  /\ Doing("link")
  /\ LET f == Head(todo).file
         before == Head(todo).at
     IN  /\ mem' = [mem EXCEPT !.fat[before] = fh[f].last]
         /\ dirty' = Used(FatOf[before])
         /\ torn' = torn \cup Hit(f, before)
  /\ todo' = Tail(todo) /\ UNCHANGED <<card, fh>>

(* Card_AddCacheEntry, for the FAT cluster that Card_FindFree changed: it  *)
(* will be written after the entry, or the cell, that leads to it.         *)
(* Card_FatWSeek returns, and the cluster found is known no more.          *)
Again ==
  /\ Doing("again")
  /\ LET u == FatOf[fh[Head(todo).file].last]
     IN  dirty' = IF \E i \in DOMAIN dirty : dirty[i] = u THEN Used(u) ELSE dirty
  /\ fh' = [fh EXCEPT ![Head(todo).file].last = Null]
  /\ todo' = Tail(todo) /\ UNCHANGED <<mem, card, torn>>

(* What is written is not what was there.  What goes into a torn file is   *)
(* not told apart.                                                         *)
Other(f, x) == CHOOSE y \in {f} \X Values : y # x

(* Where a write to cluster p arrives.  On a torn file that is left open:  *)
(* its chain leads over cells that are free and keep an old link, and      *)
(* others change it behind the place that the handle remembers.  The link  *)
(* may lead out of the card, and the call fails.                           *)
Arrives(f, p) == IF f \in torn THEN Data ELSE {Nth(mem.fat, fh[f].first, p)}

Put ==
  /\ Doing("put")
  /\ LET f == Head(todo).file
     IN  \/ /\ \E c \in Arrives(f, Head(todo).at) :
                 /\ mem' = [mem EXCEPT !.data[c] = IF f \in torn THEN Junk ELSE Other(f, @)]
                 /\ dirty' = Used(c)
                 /\ torn' = torn \cup Hit(f, c)
            /\ todo' = Tail(todo) /\ UNCHANGED fh
         \/ /\ f \in torn
            /\ fh' = [fh EXCEPT ![f] = NoHandle] /\ todo' = << >>
            /\ UNCHANGED <<mem, dirty, torn>>
  /\ UNCHANGED card

(* Card_SetDirEntryState.  Nobody reads an entry that does not exist.      *)
Unname ==
  /\ Doing("unname")
  /\ LET f == Head(todo).file
     IN  /\ mem' = [mem EXCEPT !.entry[f] = Gone]
         /\ dirty' = Used(f)
  /\ todo' = Tail(todo) /\ UNCHANGED <<card, fh, torn>>

(* A cell that is free keeps a link, which the loop follows too; End is    *)
(* the mark that ends it.                                                  *)
Following(c) == IF mem.fat[c] = Free THEN Data \cup {End} ELSE {mem.fat[c]}

Release ==
  /\ Doing("release")
  /\ LET f == Head(todo).file
         c == Head(todo).at
     IN  /\ mem' = [mem EXCEPT !.fat[c] = Free]
         /\ dirty' = Used(FatOf[c])
         /\ torn' = torn \cup Hit(f, c)
         /\ \E next \in Following(c) :
              todo' = IF next \in Data THEN <<DoAt("release", f, next)>> \o Tail(todo)
                      ELSE Tail(todo)
  /\ UNCHANGED <<card, fh>>
-----------------------------------------------------------------------------
(* The calls                                                               *)

(* mcio_mcOpen of a new file, and of one that exists                       *)
Create(f) ==
  /\ todo = << >> /\ ~mem.entry[f].exists
  /\ mem' = [mem EXCEPT !.entry[f] = [Gone EXCEPT !.exists = TRUE]]
  /\ dirty' = Used(f)
  /\ fh' = [fh EXCEPT ![f] = [NoHandle EXCEPT !.open = TRUE]]
  /\ todo' = <<Do("flush", f)>> /\ torn' = torn \ {f}
  /\ UNCHANGED card

Open(f) ==
  /\ todo = << >> /\ mem.entry[f].exists /\ ~fh[f].open
  /\ fh' = [fh EXCEPT ![f] = [NoHandle EXCEPT !.open = TRUE,
                                               !.first = mem.entry[f].first]]
  /\ UNCHANGED <<mem, card, dirty, todo, torn>>

(* mcio_mcWrite, of cluster p of the file: the attribute "closed" goes     *)
(* first, and is off the card before anything else changes.                *)
Opening(f) ==
  IF fh[f].marked THEN << >> ELSE <<Do("mark", f), Do("flush", f)>>

Growing(f) ==
  LET chain == Chain(mem.fat, fh[f].first)
  IN  IF chain = << >>
        THEN {<<Do("reserve", f), Do("mark", f), Do("again", f), Do("flush", f)>>}
        ELSE {<<Do("reserve", f), DoAt("link", f, last), Do("again", f)>> :
                last \in IF f \in torn THEN Data ELSE {chain[Len(chain)]}}

(* What it takes to come to cluster p: nothing, or one cluster more.       *)
Reaching(f, p) ==
  LET size == Size(mem.fat, fh[f].first)
  IN  IF f \in torn /\ size # 0 THEN {<< >>} \cup Growing(f)
      ELSE IF p <= size THEN {<< >>} ELSE Growing(f)

Write(f, p) ==
  /\ todo = << >> /\ fh[f].open
  /\ p <= Size(mem.fat, fh[f].first) + 1
  /\ \E steps \in Reaching(f, p) :
       todo' = (Opening(f) \o steps) \o <<DoAt("put", f, p), Do("mark", f)>>
  /\ fh' = [fh EXCEPT ![f].marked = TRUE]
  /\ UNCHANGED <<mem, card, dirty, torn>>

(* mcio_mcClose                                                            *)
Sealing_AtOnce(f) == <<Do("mark", f), Do("flush", f)>>   (* a mutated form *)
Sealing(f) == <<Do("flush", f), Do("mark", f), Do("flush", f)>>

Close(f) ==
  /\ todo = << >> /\ fh[f].open
  /\ todo' = IF fh[f].marked THEN Sealing(f) ELSE <<Do("flush", f)>>
  /\ fh' = [fh EXCEPT ![f].open = FALSE, ![f].marked = FALSE]
  /\ UNCHANGED <<mem, card, dirty, torn>>

(* mcio_mcRemove, and mcio_mcOpen of a file that is to be created anew.    *)
(* The entry is used before the FAT and so is written first - but a FAT    *)
(* cluster that another file has left to be written, longer ago, takes     *)
(* those of its block with it.                                             *)
Deleting_FatFirst(f) ==   (* a mutated form *)
  (IF mem.entry[f].first = Null THEN << >>
   ELSE <<DoAt("release", f, mem.entry[f].first)>>) \o <<Do("unname", f), Do("flush", f)>>
Deleting(f) ==
  <<Do("unname", f)>>
    \o (IF mem.entry[f].first = Null THEN << >>
        ELSE <<DoAt("release", f, mem.entry[f].first)>>) \o <<Do("flush", f)>>

Delete(f) ==
  /\ todo = << >> /\ mem.entry[f].exists /\ ~fh[f].open
  /\ todo' = Deleting(f)
  /\ torn' = IF dirty = << >> THEN torn ELSE torn \cup {f}
  /\ UNCHANGED <<mem, card, dirty, fh>>
-----------------------------------------------------------------------------
(* A power cut, the card pulled out, the end of the program, or a failure  *)
(* on which mcio_mcWrite drops the cache.                                  *)
Cut ==
  /\ mem' = card /\ dirty' = << >> /\ todo' = << >>
  /\ fh' = [f \in Files |-> NoHandle]
  /\ torn' = torn \cup {f \in Files : card.entry[f].exists /\ ~card.entry[f].closed}
  /\ UNCHANGED card

Next ==
  \/ WriteBack \/ Flush
  \/ Mark \/ Reserve \/ Link \/ Again \/ Put \/ Unname \/ Release
  \/ \E f \in Files : \/ Create(f) \/ Open(f) \/ Close(f) \/ Delete(f)
                      \/ \E p \in 1 .. MaxSize : Write(f, p)
  \/ Cut

Spec == Init /\ [][Next]_vars
-----------------------------------------------------------------------------
(* A file that says "closed" and has not been torn: neither by a cut, nor  *)
(* by a call on a torn file with which it shared a cluster.  A torn file   *)
(* stays one until it is deleted and created anew.                         *)
Closed(f) == card.entry[f].exists /\ card.entry[f].closed /\ f \notin torn

(* A file that has the attribute "closed" on the card is complete there,   *)
(* wherever the power is cut: its chain leads to everything that was       *)
(* written.  After a cut it stays so whatever is done to the other files,  *)
(* and to torn ones too, as long as those do not lead into its chain.      *)
ClosedFilesAreIntact ==
  \A f \in Files :
    Closed(f) =>
      LET chain == ChainOn(card, f)
      IN  card.entry[f].holds = [k \in DOMAIN chain |-> card.data[chain[k]]]

(* Its clusters are marked as allocated on the card and are those of no    *)
(* other file that is closed, so that no call takes them later.            *)
Clusters(f) == ClustersOn(card, f)

ClosedFilesOwnTheirClusters ==
  \A f, g \in Files :
    Closed(f) =>
      /\ \A c \in Clusters(f) : card.fat[c] # Free
      /\ Closed(g) /\ f # g => Clusters(f) \cap Clusters(g) = {}
=============================================================================
