---------------------------- MODULE ClusterCache ----------------------------
(***************************************************************************)
(* The write-back cache of clusters of AnthonyPS2/mcio.cpp:                *)
(* Card_InitCache, Card_ClearCache, Card_GetCacheEntry, Card_FreeCluster,  *)
(* Card_AddCacheEntry, Card_FlushMCCache and Card_ReadCluster, over a card *)
(* whose reads and flushes may fail.  Card_FlushCacheEntry appears by what *)
(* it does to the cache; module BackupJournal has its steps.               *)
(***************************************************************************)
EXTENDS Integers, Sequences, FiniteSets

CONSTANTS
  Slots,      (* MAX_CACHEENTRY (36)                                       *)
  Clusters,   (* clusters of the card                                      *)
  BlockOf,    (* the erase block of a cluster                              *)
  NoCluster   (* the number -1 of an unused entry                          *)

ASSUME CacheAssumption ==
  /\ Slots \in Nat \ {0, 1}
  /\ NoCluster \notin Clusters

Slot == 1 .. Slots

(* wr_flag: the entry is clean, or dirty with FAT and file data (1) or     *)
(* with directory entries (255).  A flush writes one kind at a time.       *)
Kinds == {"data", "dir"}

(* A content is told apart only by whether it is what the callers wrote    *)
(* last into its cluster, or an older one or the remains of a failure.     *)
Contents == {"latest", "lost"}

VARIABLES
  entry,      (* mcio_entrycache: cluster, cl_data and wr_flag             *)
  order,      (* mcio_mccache: entries, the most recently used first       *)
  disk,       (* the clusters on the card                                  *)
  next,       (* the index i of Card_FlushMCCache while it runs, else 0    *)
  held,       (* the entry the last Card_ReadCluster returned, or 0        *)
  result,     (* what the last operation returned                          *)
  spoiled,    (* history: clusters an operation that failed may have lost  *)
  recent      (* history: the clusters used last, freed ones as NoCluster  *)

ghosts == <<spoiled, recent>>
vars == <<entry, order, disk, next, held, result, ghosts>>

Entry == [cluster : Clusters \cup {NoCluster}, data : Contents,
          wr : {"clean"} \cup Kinds]

(* What an unused entry holds is never looked at.                          *)
Unused == [cluster |-> NoCluster, data |-> "lost", wr |-> "clean"]

TypeOK ==
  /\ entry \in [Slot -> Entry]
  /\ order \in [Slot -> Slot] /\ {order[i] : i \in Slot} = Slot
  /\ disk \in [Clusters -> Contents]
  /\ next \in 0 .. Slots /\ held \in 0 .. Slots
  /\ result \in {"none", "succeed", "failed"}
  /\ spoiled \in SUBSET Clusters
  /\ recent \in Seq(Clusters \cup {NoCluster}) /\ Len(recent) < Slots

Init ==
  /\ entry = [s \in Slot |-> Unused]
  /\ order = [i \in Slot |-> Slots + 1 - i]
  /\ disk = [c \in Clusters |-> "latest"]
  /\ next = 0 /\ held = 0 /\ result = "none"
  /\ spoiled = {} /\ recent = << >>
-----------------------------------------------------------------------------
(* Card_GetCacheEntry and Card_AddCacheEntry                               *)

SlotsOf_AllButLast(c) ==   (* a mutated form *)
  {s \in 1 .. Slots - 1 : entry[s].cluster = c}
SlotsOf(c) == {s \in Slot : entry[s].cluster = c}

ToFront(s) ==
  LET at == CHOOSE i \in Slot : order[i] = s
  IN  [i \in Slot |-> IF i = 1 THEN s
                      ELSE IF i <= at THEN order[i - 1] ELSE order[i]]

(* The history of uses, as long as the cache has to remember it: a cluster *)
(* that is used again moves to the front.                                  *)
Recently(c) ==
  LET found == c # NoCluster /\ \E i \in DOMAIN recent : recent[i] = c
      length == IF found \/ Len(recent) = Slots - 1
                  THEN Len(recent) ELSE Len(recent) + 1
      passed(i) == found /\ \E j \in 1 .. i - 1 : recent[j] = c
  IN  [i \in 1 .. length |-> IF i = 1 THEN c
                            ELSE IF passed(i) THEN recent[i] ELSE recent[i - 1]]

Use(s, c) == order' = ToFront(s) /\ recent' = Recently(c)
-----------------------------------------------------------------------------
(* Card_FlushCacheEntry                                                    *)

Dirty(s) == entry[s].wr # "clean"

(* The entries it writes together: same block, same wr_flag.               *)
Group(s) ==
  {t \in Slot : /\ entry[t].wr = entry[s].wr
                /\ entry[t].cluster \in Clusters
                /\ BlockOf[entry[t].cluster] = BlockOf[entry[s].cluster]}

Cleaned_WholeBlock(s) ==   (* a mutated form *)
  [t \in Slot |->
     IF /\ entry[t].cluster \in Clusters
        /\ BlockOf[entry[t].cluster] = BlockOf[entry[s].cluster]
       THEN [entry[t] EXCEPT !.wr = "clean"] ELSE entry[t]]
Cleaned(s) ==
  [t \in Slot |->
     IF t \in Group(s) THEN [entry[t] EXCEPT !.wr = "clean"] ELSE entry[t]]

Written(s) ==
  [c \in Clusters |->
     IF \E t \in Group(s) : entry[t].cluster = c
       THEN entry[CHOOSE t \in Group(s) : entry[t].cluster = c].data
       ELSE disk[c]]

Neighbours(s) == {c \in Clusters : BlockOf[c] = BlockOf[entry[s].cluster]}

(* A failed flush may have lost the block; it clears wr_flag or keeps it.  *)
FlushFails(s) ==
  /\ entry' \in {entry, Cleaned(s)}
  /\ disk' \in {disk, [c \in Clusters |->
                         IF c \in Neighbours(s) THEN "lost" ELSE disk[c]]}
  /\ spoiled' = spoiled \cup Neighbours(s)
-----------------------------------------------------------------------------
(* Card_ReadCluster                                                        *)

Idle == next = 0

ReadHit(c) ==
  /\ Idle
  /\ \E s \in SlotsOf(c) :
       /\ \A t \in SlotsOf(c) : s <= t
       /\ Use(s, c) /\ held' = s
  /\ result' = "succeed"
  /\ UNCHANGED <<entry, disk, next, spoiled>>

Victim_NextToLast == order[Slots - 1]   (* a mutated form *)
Victim == order[Slots]

(* The least recently used entry is flushed if it is dirty, ...            *)
ReadMissFlushFails(c) ==
  /\ Idle /\ SlotsOf(c) = {}
  /\ Dirty(Victim) /\ FlushFails(Victim)
  /\ result' = "failed" /\ held' = 0
  /\ UNCHANGED <<order, next, recent>>

Evicted == IF Dirty(Victim) THEN Cleaned(Victim) ELSE entry
DiskThen == IF Dirty(Victim) THEN Written(Victim) ELSE disk

Relabel(c, v) ==
  entry' = [Evicted EXCEPT ![Victim].cluster = c, ![Victim].data = v]

(* ... and becomes the entry of the cluster before its pages are read: if  *)
(* a page cannot be read the entry stays, with whatever it holds.          *)
ReadMiss(c) ==
  /\ Idle /\ SlotsOf(c) = {}
  /\ disk' = DiskThen
  /\ \/ /\ Relabel(c, disk'[c]) /\ Use(Victim, c)
        /\ result' = "succeed" /\ held' = Victim /\ UNCHANGED spoiled
     \/ /\ Relabel(c, "lost") /\ spoiled' = spoiled \cup {c}
        /\ result' = "failed" /\ held' = 0 /\ UNCHANGED <<order, recent>>
  /\ UNCHANGED next
-----------------------------------------------------------------------------
(* What the callers do with the entry they were given.                     *)

Modify(kind) ==
  /\ Idle /\ held # 0
  /\ LET c == entry[held].cluster
     IN  /\ entry' = [s \in Slot |->
             IF s = held THEN [cluster |-> c, data |-> "latest", wr |-> kind]
             ELSE IF s \in SlotsOf(c) THEN [entry[s] EXCEPT !.data = "lost"]
             ELSE entry[s]]
         /\ disk' = [disk EXCEPT ![c] = "lost"]
  /\ UNCHANGED <<order, next, held, result, spoiled, recent>>

(* Card_FatWSeek keeps the first entry of the order over other calls, then *)
(* makes it the first again.                                               *)
AddAgain(s) ==
  /\ Idle /\ Use(s, entry[s].cluster) /\ held' = 0
  /\ UNCHANGED <<entry, disk, next, result, spoiled>>

(* Card_FreeCluster: the entries are those of backup block 1, just read.   *)
FreeCluster(c) ==
  /\ Idle /\ \A s \in SlotsOf(c) : ~Dirty(s)
  /\ entry' = [s \in Slot |-> IF s \in SlotsOf(c) THEN Unused ELSE entry[s]]
  /\ recent' = [i \in DOMAIN recent |->
                  IF recent[i] = c THEN NoCluster ELSE recent[i]]
  /\ held' = 0
  /\ UNCHANGED <<order, disk, next, result, spoiled>>

(* Card_ClearCache forgets what was not written.  By the time it sorts the *)
(* entries in use to the front there are none.                             *)
ClearCache ==
  /\ Idle
  /\ entry' = [s \in Slot |-> Unused]
  /\ held' = 0 /\ result' = "none"
  /\ disk' = [c \in Clusters |-> "latest"]   \* nobody waits for what is gone
  /\ spoiled' = {} /\ recent' = << >>
  /\ UNCHANGED <<order, next>>
-----------------------------------------------------------------------------
(* Card_FlushMCCache: from the least recently used entry to the first.     *)

FlushAll ==
  /\ Idle /\ next' = Slots /\ result' = "none" /\ held' = 0
  /\ UNCHANGED <<entry, order, disk, ghosts>>

Advance_NotTheFirst ==   (* a mutated form *)
  IF next = 2 THEN next' = 0 /\ result' = "succeed"
              ELSE next' = next - 1 /\ UNCHANGED result
Advance ==
  IF next = 1 THEN next' = 0 /\ result' = "succeed"
              ELSE next' = next - 1 /\ UNCHANGED result

FlushNext ==
  /\ next # 0
  /\ LET s == order[next]
     IN  \/ ~Dirty(s) /\ Advance /\ UNCHANGED <<entry, disk, spoiled>>
         \/ /\ Dirty(s) /\ Advance
            /\ entry' = Cleaned(s) /\ disk' = Written(s)
            /\ UNCHANGED spoiled
         \/ /\ Dirty(s) /\ FlushFails(s)
            /\ next' = 0 /\ result' = "failed"
  /\ UNCHANGED <<order, held, recent>>
-----------------------------------------------------------------------------
Next ==
  \/ \E c \in Clusters : \/ ReadHit(c) \/ ReadMissFlushFails(c) \/ ReadMiss(c)
                         \/ FreeCluster(c)
  \/ \E kind \in Kinds : Modify(kind)
  \/ \E s \in Slot : AddAgain(s)
  \/ ClearCache \/ FlushAll \/ FlushNext

Spec == Init /\ [][Next]_vars
-----------------------------------------------------------------------------
(* Card_GetCacheEntry finds the only entry of a cluster: there are never   *)
(* two, one of which could be written over the other.                      *)
OneEntryPerCluster ==
  \A s, t \in Slot :
    entry[s].cluster = entry[t].cluster /\ s # t => entry[s].cluster = NoCluster

(* Reading through the cache always gives what was written last, whatever  *)
(* was evicted, flushed in part or written by kinds in between - except    *)
(* for the clusters that an operation reported as failed may have lost.    *)
NoLostUpdate ==
  \A c \in Clusters \ spoiled :
    IF SlotsOf(c) = {} THEN disk[c] = "latest"
    ELSE \A s \in SlotsOf(c) : entry[s].data = "latest"

(* An entry that is not dirty shows what is on the card.                   *)
CleanIsCoherent ==
  \A s \in Slot :
    entry[s].cluster \in Clusters \ spoiled /\ ~Dirty(s) =>
      entry[s].data = disk[entry[s].cluster]

(* The callers keep pointers to entries over further reads: the clusters   *)
(* of the last Slots - 1 uses are never the ones to be evicted, reads that *)
(* failed, freed clusters and re-added entries notwithstanding.            *)
RecentStaysCached ==
  \A i \in DOMAIN recent : recent[i] # NoCluster => SlotsOf(recent[i]) # {}

(* Card_FlushMCCache returns success only when everything is on the card,  *)
(* although one flush cleans the entries it finds behind its own index.    *)
FlushAllWritesAll ==
  [][next # 0 /\ result' = "succeed" =>
       /\ \A s \in Slot : entry'[s].wr = "clean"
       /\ \A c \in Clusters \ spoiled' : disk'[c] = "latest"]_vars
=============================================================================
