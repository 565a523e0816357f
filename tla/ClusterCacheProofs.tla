------------------------- MODULE ClusterCacheProofs -------------------------
(***************************************************************************)
(* Proofs about ClusterCache, for any number of entries, any clusters and  *)
(* any arrangement of them in blocks.                                      *)
(***************************************************************************)
EXTENDS ClusterCache, TLAPS

(* The types, without those of the history of uses and of the result.      *)
StateOK ==
  /\ entry \in [Slot -> Entry]
  /\ order \in [Slot -> Slot] /\ \A s \in Slot : \E i \in Slot : order[i] = s
  /\ disk \in [Clusters -> Contents]
  /\ next \in 0 .. Slots /\ held \in 0 .. Slots
  /\ spoiled \in SUBSET Clusters

(* What a caller holds and what waits to be written has a cluster.         *)
UsedHaveClusters ==
  /\ held # 0 => entry[held].cluster \in Clusters
  /\ \A s \in Slot : Dirty(s) => entry[s].cluster \in Clusters

(* Card_FlushMCCache leaves nothing dirty behind its index.                *)
BehindIsClean ==
  next # 0 => /\ result = "none" /\ held = 0
              /\ \A j \in Slot : j > next => ~Dirty(order[j])

CacheInv ==
  /\ StateOK /\ UsedHaveClusters /\ BehindIsClean
  /\ OneEntryPerCluster /\ NoLostUpdate /\ CleanIsCoherent

LEMMA SlotsAreNumbers == Slots \in Nat /\ Slots >= 2 /\ Slots \in Slot /\ 1 \in Slot
BY CacheAssumption DEF Slot

(* Card_AddCacheEntry only changes the order of the entries.               *)
LEMMA ToFrontReorders ==
  ASSUME StateOK, NEW s \in Slot
  PROVE  /\ ToFront(s) \in [Slot -> Slot]
         /\ \A x \in Slot : \E i \in Slot : ToFront(s)[i] = x
<1> DEFINE at == CHOOSE i \in Slot : order[i] = s
<1>1. at \in Slot /\ order[at] = s
  BY DEF StateOK
<1>2. \A i \in Slot : i # 1 => i - 1 \in Slot
  BY SlotsAreNumbers DEF Slot
<1>3. ToFront(s) = [i \in Slot |-> IF i = 1 THEN s
                      ELSE IF i <= at THEN order[i - 1] ELSE order[i]]
  BY DEF ToFront
<1>4. ToFront(s) \in [Slot -> Slot]
  BY <1>2, <1>3 DEF StateOK
<1>5. ASSUME NEW x \in Slot PROVE \E i \in Slot : ToFront(s)[i] = x
  <2>1. PICK j \in Slot : order[j] = x
    BY DEF StateOK
  <2>2. CASE j = at
    BY <1>1, <1>3, <2>1, <2>2, SlotsAreNumbers
  <2>3. CASE j < at
    <3> HIDE DEF at
    <3>1. j + 1 \in Slot /\ j + 1 # 1 /\ j + 1 <= at /\ (j + 1) - 1 = j
      BY <1>1, <2>3, SlotsAreNumbers DEF Slot
    <3> QED
      BY <1>3, <2>1, <3>1
  <2>4. CASE j > at
    <3>1. j # 1 /\ ~(j <= at)
      BY <1>1, <2>4 DEF Slot
    <3> QED
      BY <1>3, <2>1, <3>1
  <2> QED
    BY <1>1, <2>2, <2>3, <2>4 DEF Slot
<1> QED
  BY <1>4, <1>5

(* What a flush of the group of an entry does to the entries and the card. *)
LEMMA FlushIsCoherent ==
  ASSUME CacheInv, NEW s \in Slot, Dirty(s)
  PROVE  /\ Cleaned(s) \in [Slot -> Entry]
         /\ \A t \in Slot : /\ Cleaned(s)[t].cluster = entry[t].cluster
                            /\ Cleaned(s)[t].data = entry[t].data
                            /\ Cleaned(s)[t].wr \in {entry[t].wr, "clean"}
         /\ Cleaned(s)[s].wr = "clean"
         /\ Written(s) \in [Clusters -> Contents]
         /\ \A c \in Clusters : SlotsOf(c) = {} => Written(s)[c] = disk[c]
         /\ \A t \in Slot :
              entry[t].cluster \in Clusters \ spoiled /\ Cleaned(s)[t].wr = "clean"
                => Written(s)[entry[t].cluster] = "latest"
<1> USE DEF CacheInv, StateOK
<1>1. Group(s) \subseteq Slot /\ s \in Group(s)
  BY DEF Group, UsedHaveClusters
<1>2. \A t \in Slot :
        Cleaned(s)[t] = IF t \in Group(s) THEN [entry[t] EXCEPT !.wr = "clean"]
                                          ELSE entry[t]
  BY DEF Cleaned
<1>3. \A t \in Slot : /\ [entry[t] EXCEPT !.wr = "clean"] \in Entry
                      /\ [entry[t] EXCEPT !.wr = "clean"].cluster = entry[t].cluster
                      /\ [entry[t] EXCEPT !.wr = "clean"].data = entry[t].data
                      /\ [entry[t] EXCEPT !.wr = "clean"].wr = "clean"
  BY DEF Entry
<1>4. Cleaned(s) \in [Slot -> Entry]
  BY <1>2, <1>3 DEF Cleaned
<1>5. \A t \in Slot : /\ Cleaned(s)[t].cluster = entry[t].cluster
                      /\ Cleaned(s)[t].data = entry[t].data
                      /\ Cleaned(s)[t].wr \in {entry[t].wr, "clean"}
  BY <1>2, <1>3
<1>6. Cleaned(s)[s].wr = "clean"
  BY <1>1, <1>2, <1>3
<1>7. \A c \in Clusters :
        /\ (\E t \in Group(s) : entry[t].cluster = c) =>
             \E t \in Group(s) : entry[t].cluster = c /\ Written(s)[c] = entry[t].data
        /\ ~(\E t \in Group(s) : entry[t].cluster = c) => Written(s)[c] = disk[c]
  BY DEF Written
<1>8. \A t \in Slot : entry[t].data \in Contents
  BY DEF Entry
<1>9. \A c \in Clusters : Written(s)[c] \in Contents
  BY <1>1, <1>7, <1>8
<1>10. Written(s) \in [Clusters -> Contents]
  BY <1>9 DEF Written
<1>11. \A c \in Clusters : SlotsOf(c) = {} => Written(s)[c] = disk[c]
  BY <1>1, <1>7 DEF SlotsOf
<1>12. ASSUME NEW t \in Slot, entry[t].cluster \in Clusters \ spoiled,
              Cleaned(s)[t].wr = "clean"
       PROVE  Written(s)[entry[t].cluster] = "latest"
  <2> DEFINE c == entry[t].cluster
  <2>1. \A u \in Slot : entry[u].cluster = c => entry[u].data = "latest"
    BY <1>12 DEF NoLostUpdate, SlotsOf
  <2>2. CASE \E u \in Group(s) : entry[u].cluster = c
    BY <1>1, <1>7, <1>12, <2>1, <2>2
  <2>3. CASE ~(\E u \in Group(s) : entry[u].cluster = c)
    <3>1. ~Dirty(t)
      BY <1>2, <1>12, <2>3 DEF Dirty
    <3>2. disk[c] = "latest"
      BY <1>12, <2>1, <3>1 DEF CleanIsCoherent
    <3> QED
      BY <1>7, <1>12, <2>3, <3>2
  <2> QED
    BY <2>2, <2>3
<1> HIDE DEF CacheInv, StateOK
<1> QED
  BY <1>4, <1>5, <1>6, <1>10, <1>11, <1>12

(* A failed flush may spoil the block of the entry and nothing else.       *)
LEMMA FailureIsLocal ==
  ASSUME CacheInv, NEW s \in Slot, Dirty(s), FlushFails(s)
  PROVE  /\ entry' \in [Slot -> Entry] /\ disk' \in [Clusters -> Contents]
         /\ spoiled' \in SUBSET Clusters /\ spoiled \subseteq spoiled'
         /\ \A t \in Slot : /\ entry'[t].cluster = entry[t].cluster
                            /\ entry'[t].data = entry[t].data
                            /\ entry'[t].wr \in {entry[t].wr, "clean"}
         /\ \A c \in Clusters \ spoiled' : disk'[c] = disk[c]
         /\ \A t \in Slot : entry[t].cluster \in Clusters \ spoiled' =>
              entry'[t] = entry[t]
<1> USE DEF CacheInv, StateOK
<1>1. spoiled' = spoiled \cup Neighbours(s) /\ Neighbours(s) \subseteq Clusters
  BY DEF FlushFails, Neighbours
<1>2. \A t \in Group(s) : t \in Slot /\ entry[t].cluster \in Neighbours(s)
  BY DEF Group, Neighbours
<1>3. \A t \in Slot : entry[t].cluster \in Clusters \ spoiled' =>
        Cleaned(s)[t] = entry[t]
  BY <1>1, <1>2 DEF Cleaned
<1>4. entry' = entry \/ entry' = Cleaned(s)
  BY DEF FlushFails
<1>5. /\ disk' \in [Clusters -> Contents]
      /\ \A c \in Clusters \ spoiled' : disk'[c] = disk[c]
  BY <1>1 DEF FlushFails, Contents
<1>6. CASE entry' = entry
  BY <1>1, <1>5, <1>6
<1>7. CASE entry' = Cleaned(s)
  BY <1>1, <1>3, <1>5, <1>7, FlushIsCoherent
<1> QED
  BY <1>4, <1>6, <1>7

(* Such a step keeps the invariants of entries and card.                   *)
LEMMA FailureKeeps ==
  ASSUME CacheInv, NEW s \in Slot, Dirty(s), FlushFails(s), held' = 0
  PROVE  UsedHaveClusters' /\ OneEntryPerCluster' /\ NoLostUpdate' /\ CleanIsCoherent'
<1> USE DEF CacheInv, StateOK
<1>1. UsedHaveClusters'
  BY FailureIsLocal DEF UsedHaveClusters, Dirty
<1>2. OneEntryPerCluster'
  BY FailureIsLocal DEF OneEntryPerCluster
<1>3. ASSUME NEW c \in Clusters \ spoiled'
      PROVE  IF SlotsOf(c)' = {} THEN disk'[c] = "latest"
             ELSE \A t \in SlotsOf(c)' : entry'[t].data = "latest"
  <2>1. c \in Clusters \ spoiled /\ disk'[c] = disk[c]
    BY <1>3, FailureIsLocal
  <2>2. SlotsOf(c)' = SlotsOf(c)
    BY FailureIsLocal DEF SlotsOf
  <2>3. \A t \in SlotsOf(c) : t \in Slot /\ entry'[t].data = entry[t].data
    BY FailureIsLocal DEF SlotsOf
  <2> QED
    BY <2>1, <2>2, <2>3 DEF NoLostUpdate
<1>4. NoLostUpdate'
  BY <1>3 DEF NoLostUpdate
<1>5. CleanIsCoherent'
  BY FailureIsLocal DEF CleanIsCoherent, Dirty
<1> QED
  BY <1>1, <1>2, <1>4, <1>5

(* A flush that succeeds keeps them.                                       *)
LEMMA FlushKeeps ==
  ASSUME CacheInv, NEW s \in Slot, Dirty(s),
         entry' = Cleaned(s), disk' = Written(s), UNCHANGED <<spoiled, held>>
  PROVE  UsedHaveClusters' /\ OneEntryPerCluster' /\ NoLostUpdate' /\ CleanIsCoherent'
<1> USE DEF CacheInv, StateOK
<1>1. UsedHaveClusters'
  <2>1. held # 0 => held \in Slot
    BY SlotsAreNumbers DEF Slot
  <2>2. \A t \in Slot : entry'[t].cluster = entry[t].cluster
    BY FlushIsCoherent
  <2>3. \A t \in Slot : entry'[t].wr # "clean" => entry[t].wr # "clean"
    BY FlushIsCoherent
  <2> QED
    BY <2>1, <2>2, <2>3 DEF UsedHaveClusters, Dirty
<1>2. OneEntryPerCluster'
  BY FlushIsCoherent DEF OneEntryPerCluster
<1>3. ASSUME NEW c \in Clusters \ spoiled'
      PROVE  IF SlotsOf(c)' = {} THEN disk'[c] = "latest"
             ELSE \A t \in SlotsOf(c)' : entry'[t].data = "latest"
  <2>1. SlotsOf(c)' = SlotsOf(c)
    BY FlushIsCoherent DEF SlotsOf
  <2>2. \A t \in SlotsOf(c) : t \in Slot /\ entry'[t].data = entry[t].data
    BY FlushIsCoherent DEF SlotsOf
  <2>3. SlotsOf(c) = {} => disk'[c] = disk[c]
    BY FlushIsCoherent
  <2> QED
    BY <2>1, <2>2, <2>3 DEF NoLostUpdate
<1>4. NoLostUpdate'
  BY <1>3 DEF NoLostUpdate
<1>5. ASSUME NEW t \in Slot, entry'[t].cluster \in Clusters \ spoiled', ~Dirty(t)'
      PROVE  entry'[t].data = disk'[entry'[t].cluster]
  <2>1. entry[t].cluster = entry'[t].cluster /\ entry'[t].data = entry[t].data
    BY FlushIsCoherent
  <2>2. disk'[entry[t].cluster] = "latest"
    BY <1>5, <2>1, FlushIsCoherent DEF Dirty
  <2>3. entry[t].data = "latest"
    BY <1>5, <2>1 DEF NoLostUpdate, SlotsOf
  <2> QED
    BY <2>1, <2>2, <2>3
<1>6. CleanIsCoherent'
  BY <1>5 DEF CleanIsCoherent
<1> QED
  BY <1>1, <1>2, <1>4, <1>6

LEMMA InitInv == Init => CacheInv
<1> SUFFICES ASSUME Init PROVE CacheInv
  OBVIOUS
<1>1. Unused \in Entry /\ Unused.cluster = NoCluster /\ Unused.wr = "clean"
  BY DEF Unused, Entry, Contents
<1>2. order \in [Slot -> Slot]
  BY SlotsAreNumbers DEF Init, Slot
<1>3. ASSUME NEW s \in Slot PROVE \E i \in Slot : order[i] = s
  <2>1. Slots + 1 - s \in Slot /\ order[Slots + 1 - s] = s
    BY SlotsAreNumbers DEF Init, Slot
  <2> QED
    BY <2>1
<1>4. StateOK
  BY <1>1, <1>2, <1>3, SlotsAreNumbers DEF Init, StateOK, Contents
<1>5. \A s \in Slot : entry[s] = Unused
  BY DEF Init
<1>6. NoCluster \notin Clusters
  BY CacheAssumption
<1>7. UsedHaveClusters /\ BehindIsClean
  BY <1>1, <1>5 DEF Init, UsedHaveClusters, BehindIsClean, Dirty
<1>8. OneEntryPerCluster /\ CleanIsCoherent
  BY <1>1, <1>5, <1>6 DEF OneEntryPerCluster, CleanIsCoherent
<1>9. NoLostUpdate
  BY <1>1, <1>5, <1>6 DEF Init, NoLostUpdate, SlotsOf
<1> QED
  BY <1>4, <1>7, <1>8, <1>9 DEF CacheInv

(* Steps that change neither entries nor card.                             *)
LEMMA LookupKeeps ==
  ASSUME CacheInv, UNCHANGED <<entry, disk, next, spoiled>>, Idle,
         NEW s \in Slot, NEW c, Use(s, c),
         held' = 0 \/ (held' \in Slot /\ entry[held'].cluster \in Clusters)
  PROVE  CacheInv'
<1>1. StateOK'
  <2>1. StateOK
    BY DEF CacheInv
  <2>2. /\ order' \in [Slot -> Slot]
        /\ \A x \in Slot : \E i \in Slot : order'[i] = x
    BY <2>1, ToFrontReorders DEF Use
  <2>3. held' \in 0 .. Slots
    BY SlotsAreNumbers DEF Slot
  <2> QED
    BY <2>1, <2>2, <2>3 DEF StateOK
<1>2. UsedHaveClusters'
  BY DEF CacheInv, UsedHaveClusters, Dirty
<1>3. BehindIsClean'
  BY DEF BehindIsClean, Idle
<1>4. OneEntryPerCluster' /\ CleanIsCoherent'
  BY DEF CacheInv, OneEntryPerCluster, CleanIsCoherent, Dirty
<1>5. \A d : SlotsOf(d)' = SlotsOf(d)
  BY DEF SlotsOf
<1>6. NoLostUpdate'
  BY <1>5 DEF CacheInv, NoLostUpdate
<1> QED
  BY <1>1, <1>2, <1>3, <1>4, <1>6 DEF CacheInv

(* The entry that is given away: clean, its cluster on the card.           *)
LEMMA EvictionKeeps ==
  ASSUME CacheInv
  PROVE  /\ Victim \in Slot
         /\ Evicted \in [Slot -> Entry] /\ DiskThen \in [Clusters -> Contents]
         /\ \A t \in Slot : /\ Evicted[t].cluster = entry[t].cluster
                            /\ Evicted[t].data = entry[t].data
                            /\ Evicted[t].wr \in {entry[t].wr, "clean"}
         /\ Evicted[Victim].wr = "clean"
         /\ \A c \in Clusters : SlotsOf(c) = {} => DiskThen[c] = disk[c]
         /\ \A t \in Slot :
              entry[t].cluster \in Clusters \ spoiled /\ Evicted[t].wr = "clean"
                => DiskThen[entry[t].cluster] = "latest"
<1>1. Victim \in Slot
  BY SlotsAreNumbers DEF CacheInv, StateOK, Victim
<1>2. CASE Dirty(Victim)
  <2>1. Evicted = Cleaned(Victim) /\ DiskThen = Written(Victim)
    BY <1>2 DEF Evicted, DiskThen
  <2> QED
    BY <1>1, <1>2, <2>1, FlushIsCoherent
<1>3. CASE ~Dirty(Victim)
  <2>1. Evicted = entry /\ DiskThen = disk
    BY <1>3 DEF Evicted, DiskThen
  <2>2. \A t \in Slot :
          entry[t].cluster \in Clusters \ spoiled /\ entry[t].wr = "clean"
            => disk[entry[t].cluster] = "latest"
    BY DEF CacheInv, CleanIsCoherent, NoLostUpdate, SlotsOf, Dirty
  <2> QED
    BY <1>1, <1>3, <2>1, <2>2 DEF CacheInv, StateOK, Dirty
<1> QED
  BY <1>2, <1>3

LEMMA ReadMissKeeps ==
  ASSUME CacheInv, NEW c \in Clusters, ReadMiss(c) PROVE CacheInv'
<1> DEFINE v == Victim
<1>1. PICK x \in Contents :
        /\ entry' = [Evicted EXCEPT ![v].cluster = c, ![v].data = x]
        /\ c \notin spoiled' => x = "latest"
        /\ spoiled \subseteq spoiled' /\ spoiled' \in SUBSET Clusters
        /\ held' \in {0, v}
        /\ order' \in {order, ToFront(v)}
  <2>1. disk'[c] = disk[c] /\ disk[c] \in Contents
    BY EvictionKeeps DEF ReadMiss, CacheInv, StateOK
  <2>2. c \notin spoiled => disk[c] = "latest"
    BY DEF ReadMiss, CacheInv, NoLostUpdate
  <2>3. CASE Relabel(c, disk'[c]) /\ Use(v, c) /\ held' = v /\ UNCHANGED spoiled
    BY <2>1, <2>2, <2>3 DEF Relabel, Use, CacheInv, StateOK
  <2>4. CASE /\ Relabel(c, "lost") /\ spoiled' = spoiled \cup {c}
             /\ held' = 0 /\ UNCHANGED order
    BY <2>4 DEF Relabel, CacheInv, StateOK, Contents
  <2> QED
    BY <2>3, <2>4 DEF ReadMiss
<1>2. /\ v \in Slot /\ Evicted[v].wr = "clean" /\ Idle /\ SlotsOf(c) = {}
      /\ disk' = DiskThen /\ UNCHANGED next
  BY EvictionKeeps DEF ReadMiss
<1>3. Evicted \in [Slot -> Entry]
  BY EvictionKeeps
<1>4. /\ entry'[v].cluster = c /\ entry'[v].data = x /\ entry'[v].wr = "clean"
      /\ \A t \in Slot \ {v} : entry'[t] = Evicted[t]
  BY <1>1, <1>2, <1>3 DEF Entry
<1>5. entry' \in [Slot -> Entry]
  BY <1>1, <1>2, <1>3 DEF Entry
<1>6. \A t \in Slot \ {v} : entry'[t].cluster = entry[t].cluster /\ entry'[t].data = entry[t].data
  BY <1>4, EvictionKeeps
<1>7. StateOK'
  <2>1. StateOK
    BY DEF CacheInv
  <2>2. /\ order' \in [Slot -> Slot]
        /\ \A s \in Slot : \E i \in Slot : order'[i] = s
    <3>1. CASE order' = order
      BY <2>1, <3>1 DEF StateOK
    <3>2. CASE order' = ToFront(v)
      BY <1>2, <2>1, <3>2, ToFrontReorders
    <3> QED
      BY <1>1, <3>1, <3>2
  <2>3. held' \in 0 .. Slots
    BY <1>1, <1>2, SlotsAreNumbers DEF Slot
  <2> QED
    BY <1>1, <1>2, <1>5, <2>1, <2>2, <2>3, EvictionKeeps DEF StateOK
<1>8. UsedHaveClusters'
  <2>1. held' # 0 => entry'[held'].cluster \in Clusters
    BY <1>1, <1>4
  <2>2. ASSUME NEW t \in Slot, entry'[t].wr # "clean"
        PROVE  entry'[t].cluster \in Clusters
    <3>1. t # v /\ entry[t].wr # "clean"
      BY <1>4, <2>2, EvictionKeeps
    <3> QED
      BY <1>6, <3>1 DEF CacheInv, UsedHaveClusters, Dirty
  <2> QED
    BY <2>1, <2>2 DEF UsedHaveClusters, Dirty
<1>9. BehindIsClean'
  BY <1>2 DEF BehindIsClean, Idle
<1>10. \A t \in Slot : entry[t].cluster # c
  BY <1>2 DEF SlotsOf
<1>11. OneEntryPerCluster'
  BY <1>2, <1>4, <1>6, <1>10 DEF CacheInv, OneEntryPerCluster
<1>12. NoLostUpdate'
  <2> SUFFICES ASSUME NEW d \in Clusters \ spoiled'
               PROVE  /\ SlotsOf(d)' = {} => disk'[d] = "latest"
                      /\ \A t \in SlotsOf(d)' : entry'[t].data = "latest"
    BY DEF NoLostUpdate
  <2>1. d \notin spoiled
    BY <1>1
  <2>2. ASSUME NEW t \in SlotsOf(d)' PROVE entry'[t].data = "latest"
    <3>1. t \in Slot /\ entry'[t].cluster = d
      BY DEF SlotsOf
    <3>2. CASE t = v
      BY <1>1, <1>4, <3>1, <3>2
    <3>3. CASE t # v
      BY <1>6, <2>1, <3>1, <3>3 DEF CacheInv, NoLostUpdate, SlotsOf
    <3> QED
      BY <3>2, <3>3
  <2>3. ASSUME SlotsOf(d)' = {} PROVE disk'[d] = "latest"
    <3>1. \A t \in Slot \ {v} : entry[t].cluster # d
      BY <1>6, <2>3 DEF SlotsOf
    <3>2. CASE entry[v].cluster = d
      <4>1. Evicted[v].wr = "clean" /\ entry[v].cluster \in Clusters \ spoiled
        BY <1>2, <2>1, <3>2
      <4> QED
        BY <1>2, <3>2, <4>1, EvictionKeeps
    <3>3. CASE entry[v].cluster # d
      <4>1. SlotsOf(d) = {}
        BY <3>1, <3>3 DEF SlotsOf
      <4>2. disk[d] = "latest"
        BY <2>1, <4>1 DEF CacheInv, NoLostUpdate
      <4> QED
        BY <1>2, <4>1, <4>2, EvictionKeeps
    <3> QED
      BY <3>2, <3>3
  <2> QED
    BY <2>2, <2>3
<1>13. CleanIsCoherent'
  <2> SUFFICES ASSUME NEW t \in Slot, entry'[t].cluster \in Clusters \ spoiled',
                      entry'[t].wr = "clean"
               PROVE  entry'[t].data = disk'[entry'[t].cluster]
    BY DEF CleanIsCoherent, Dirty
  <2>1. CASE t = v
    <3>1. disk[c] = "latest" /\ disk'[c] = disk[c]
      BY <1>1, <1>2, <1>4, <2>1, EvictionKeeps DEF CacheInv, NoLostUpdate
    <3> QED
      BY <1>1, <1>4, <2>1, <3>1
  <2>2. CASE t # v
    <3>1. entry[t].cluster \in Clusters \ spoiled /\ Evicted[t].wr = "clean"
      BY <1>1, <1>4, <1>6, <2>2
    <3>2. disk'[entry[t].cluster] = "latest"
      BY <1>2, <3>1, EvictionKeeps
    <3>3. entry[t].data = "latest"
      BY <3>1 DEF CacheInv, NoLostUpdate, SlotsOf
    <3> QED
      BY <1>6, <2>2, <3>2, <3>3
  <2> QED
    BY <2>1, <2>2
<1> QED
  BY <1>7, <1>8, <1>9, <1>11, <1>12, <1>13 DEF CacheInv

LEMMA ReadMissFlushFailsKeeps ==
  ASSUME CacheInv, NEW c \in Clusters, ReadMissFlushFails(c) PROVE CacheInv'
<1>1. Victim \in Slot /\ Dirty(Victim) /\ FlushFails(Victim) /\ held' = 0
  BY EvictionKeeps DEF ReadMissFlushFails
<1>2. StateOK'
  <2>1. /\ entry' \in [Slot -> Entry] /\ disk' \in [Clusters -> Contents]
        /\ spoiled' \in SUBSET Clusters
    BY <1>1, FailureIsLocal
  <2> QED
    BY <1>1, <2>1, SlotsAreNumbers DEF ReadMissFlushFails, CacheInv, StateOK
<1>3. BehindIsClean'
  BY DEF ReadMissFlushFails, Idle, BehindIsClean
<1> QED
  BY <1>1, <1>2, <1>3, FailureKeeps DEF CacheInv

LEMMA ModifyKeeps ==
  ASSUME CacheInv, NEW kind \in Kinds, Modify(kind) PROVE CacheInv'
<1> DEFINE c == entry[held].cluster
<1>1. held \in Slot /\ c \in Clusters /\ Idle
  BY SlotsAreNumbers DEF Modify, CacheInv, StateOK, UsedHaveClusters, Slot
<1>2. \A s \in Slot \ {held} : entry[s].cluster # c
  BY <1>1, CacheAssumption DEF CacheInv, OneEntryPerCluster
<1>3. /\ entry'[held] = [cluster |-> c, data |-> "latest", wr |-> kind]
      /\ \A s \in Slot \ {held} : entry'[s] = entry[s]
  BY <1>1, <1>2 DEF Modify, SlotsOf
<1>4. entry' \in [Slot -> Entry]
  <2>1. \A s \in Slot : entry'[s] \in Entry
    BY <1>1, <1>3 DEF CacheInv, StateOK, Entry, Contents
  <2> QED
    BY <2>1 DEF Modify
<1>5. /\ disk' \in [Clusters -> Contents]
      /\ \A d \in Clusters \ {c} : disk'[d] = disk[d]
  BY <1>1 DEF Modify, CacheInv, StateOK, Contents
<1>6. StateOK'
  BY <1>4, <1>5 DEF Modify, CacheInv, StateOK
<1>7. UsedHaveClusters' /\ BehindIsClean'
  BY <1>1, <1>3 DEF Modify, Idle, CacheInv, UsedHaveClusters, BehindIsClean, Dirty
<1>8. OneEntryPerCluster'
  BY <1>1, <1>2, <1>3 DEF CacheInv, OneEntryPerCluster
<1>9. UNCHANGED spoiled
  BY DEF Modify
<1>10. \A s \in Slot : entry'[s].cluster = entry[s].cluster
  BY <1>1, <1>3
<1>11. NoLostUpdate'
  <2> SUFFICES ASSUME NEW d \in Clusters \ spoiled
               PROVE  /\ SlotsOf(d)' = {} => disk'[d] = "latest"
                      /\ \A t \in SlotsOf(d)' : entry'[t].data = "latest"
    BY <1>9 DEF NoLostUpdate
  <2>1. SlotsOf(d)' = SlotsOf(d)
    BY <1>10 DEF SlotsOf
  <2>2. SlotsOf(d) = {} => disk'[d] = "latest"
    BY <1>1, <1>5 DEF CacheInv, NoLostUpdate, SlotsOf
  <2>3. \A t \in SlotsOf(d) : entry'[t].data = "latest"
    BY <1>3 DEF CacheInv, NoLostUpdate, SlotsOf
  <2> QED
    BY <2>1, <2>2, <2>3
<1>12. CleanIsCoherent'
  <2> SUFFICES ASSUME NEW t \in Slot, entry'[t].cluster \in Clusters \ spoiled,
                      entry'[t].wr = "clean"
               PROVE  entry'[t].data = disk'[entry'[t].cluster]
    BY <1>9 DEF CleanIsCoherent, Dirty
  <2>1. t # held
    BY <1>3 DEF Kinds
  <2>2. entry'[t] = entry[t] /\ entry[t].cluster # c
    BY <1>2, <1>3, <2>1
  <2> QED
    BY <1>5, <2>2 DEF CacheInv, CleanIsCoherent, Dirty
<1> QED
  BY <1>6, <1>7, <1>8, <1>11, <1>12 DEF CacheInv

LEMMA UnusedIsClean ==
  Unused \in Entry /\ Unused.cluster = NoCluster /\ Unused.wr = "clean"
BY DEF Unused, Entry, Contents

LEMMA FreeClusterKeeps ==
  ASSUME CacheInv, NEW c \in Clusters, FreeCluster(c) PROVE CacheInv'
<1>1. \A s \in Slot : entry'[s] = IF s \in SlotsOf(c) THEN Unused ELSE entry[s]
  BY DEF FreeCluster
<1>2. entry' \in [Slot -> Entry]
  <2>1. \A s \in Slot : entry'[s] \in Entry
    BY <1>1, UnusedIsClean DEF CacheInv, StateOK
  <2> QED
    BY <2>1 DEF FreeCluster
<1>3. StateOK' /\ BehindIsClean'
  BY <1>2, SlotsAreNumbers DEF FreeCluster, Idle, CacheInv, StateOK, BehindIsClean, Slot
<1>4. UsedHaveClusters'
  BY <1>1, UnusedIsClean DEF FreeCluster, CacheInv, UsedHaveClusters, Dirty
<1>5. OneEntryPerCluster'
  BY <1>1, UnusedIsClean DEF CacheInv, OneEntryPerCluster
<1>6. UNCHANGED <<disk, spoiled>> /\ NoCluster \notin Clusters
  BY CacheAssumption DEF FreeCluster
<1>7. NoLostUpdate'
  <2> SUFFICES ASSUME NEW d \in Clusters \ spoiled
               PROVE  /\ SlotsOf(d)' = {} => disk[d] = "latest"
                      /\ \A t \in SlotsOf(d)' : entry'[t].data = "latest"
    BY <1>6 DEF NoLostUpdate
  <2>1. \A t \in SlotsOf(d)' : t \in Slot /\ t \notin SlotsOf(c) /\ entry'[t] = entry[t]
    BY <1>1, <1>6, UnusedIsClean DEF SlotsOf
  <2>2. \A t \in SlotsOf(d)' : entry'[t].data = "latest"
    BY <1>6, <2>1 DEF CacheInv, NoLostUpdate, SlotsOf
  <2>3. ASSUME SlotsOf(d)' = {} PROVE disk[d] = "latest"
    <3>1. CASE SlotsOf(d) = {}
      BY <3>1 DEF CacheInv, NoLostUpdate
    <3>2. CASE SlotsOf(d) # {}
      <4>1. PICK t \in SlotsOf(d) : t \in Slot /\ entry[t].cluster = d
        BY <3>2 DEF SlotsOf
      <4>2. t \in SlotsOf(c)
        BY <1>1, <2>3, <4>1 DEF SlotsOf
      <4>3. ~Dirty(t) /\ entry[t].data = "latest"
        BY <4>1, <4>2 DEF FreeCluster, CacheInv, NoLostUpdate
      <4> QED
        BY <4>1, <4>3 DEF CacheInv, CleanIsCoherent
    <3> QED
      BY <3>1, <3>2
  <2> QED
    BY <2>2, <2>3
<1>8. CleanIsCoherent'
  BY <1>1, <1>6, UnusedIsClean DEF CacheInv, CleanIsCoherent, Dirty
<1> QED
  BY <1>3, <1>4, <1>5, <1>7, <1>8 DEF CacheInv

LEMMA ClearCacheKeeps == ASSUME CacheInv, ClearCache PROVE CacheInv'
<1>1. \A s \in Slot : entry'[s] = Unused
  BY DEF ClearCache
<1>2. entry' \in [Slot -> Entry]
  BY UnusedIsClean DEF ClearCache
<1>3. StateOK' /\ BehindIsClean'
  BY <1>2, SlotsAreNumbers
  DEF ClearCache, Idle, CacheInv, StateOK, BehindIsClean, Slot, Contents
<1>4. NoCluster \notin Clusters
  BY CacheAssumption
<1>5. UsedHaveClusters' /\ OneEntryPerCluster' /\ CleanIsCoherent'
  BY <1>1, <1>4, UnusedIsClean
  DEF ClearCache, UsedHaveClusters, OneEntryPerCluster, CleanIsCoherent, Dirty
<1>6. NoLostUpdate'
  BY <1>1, <1>4, UnusedIsClean DEF ClearCache, NoLostUpdate, SlotsOf
<1> QED
  BY <1>3, <1>5, <1>6 DEF CacheInv

LEMMA FlushAllKeeps == ASSUME CacheInv, FlushAll PROVE CacheInv'
<1>1. StateOK' /\ UsedHaveClusters'
  <2>1. next' \in 0 .. Slots /\ held' \in 0 .. Slots
    BY SlotsAreNumbers DEF FlushAll
  <2>2. UNCHANGED <<entry, order, disk, spoiled>>
    BY DEF FlushAll, ghosts
  <2> QED
    BY <2>1, <2>2 DEF FlushAll, CacheInv, StateOK, UsedHaveClusters, Dirty
<1>2. BehindIsClean'
  BY SlotsAreNumbers DEF FlushAll, BehindIsClean, Slot
<1>3. OneEntryPerCluster' /\ CleanIsCoherent'
  BY DEF FlushAll, ghosts, CacheInv, OneEntryPerCluster, CleanIsCoherent, Dirty
<1>4. NoLostUpdate'
  <2>1. \A d : SlotsOf(d)' = SlotsOf(d)
    BY DEF FlushAll, SlotsOf
  <2> QED
    BY <2>1 DEF FlushAll, ghosts, CacheInv, NoLostUpdate
<1>5. UNCHANGED spoiled
  BY DEF FlushAll, ghosts
<1> QED
  BY <1>1, <1>2, <1>3, <1>4, <1>5 DEF CacheInv

(* One turn of Card_FlushMCCache leaves its entry clean, and those behind. *)
LEMMA FlushNextKeeps == ASSUME CacheInv, FlushNext PROVE CacheInv'
<1> DEFINE s == order[next]
<1>1. next \in Slot /\ s \in Slot /\ next # 0
  <2>1. next \in 0 .. Slots /\ next # 0
    BY DEF FlushNext, CacheInv, StateOK
  <2>2. next \in Slot
    BY <2>1, SlotsAreNumbers DEF Slot
  <2> QED
    BY <2>1, <2>2 DEF CacheInv, StateOK
<1>2. UNCHANGED <<order, held>>
  BY DEF FlushNext
<1>3. ASSUME Advance, UNCHANGED spoiled,
             entry' \in [Slot -> Entry], disk' \in [Clusters -> Contents],
             entry'[s].wr = "clean",
             \A t \in Slot : entry'[t].wr \in {entry[t].wr, "clean"}
      PROVE  StateOK' /\ BehindIsClean'
  <2>1. next' \in 0 .. Slots
    BY <1>1, <1>3, SlotsAreNumbers DEF Advance, Slot
  <2>2. StateOK'
    BY <1>2, <1>3, <2>1 DEF CacheInv, StateOK
  <2>3. ASSUME next' # 0 PROVE result' = "none" /\ next' = next - 1 /\ held' = 0
    BY <1>1, <1>2, <1>3, <2>3 DEF Advance, CacheInv, BehindIsClean
  <2>4. ASSUME next' # 0, NEW j \in Slot, j > next'
        PROVE  entry'[order[j]].wr = "clean"
    <3>1. order[j] \in Slot
      BY DEF CacheInv, StateOK
    <3>2. CASE j = next
      BY <1>3, <3>2
    <3>3. CASE j # next
      <4>1. j > next
        BY <1>1, <2>3, <2>4, <3>3, SlotsAreNumbers DEF Slot
      <4>2. entry[order[j]].wr = "clean"
        BY <1>1, <4>1 DEF CacheInv, BehindIsClean, Dirty
      <4> QED
        BY <1>3, <3>1, <4>2
    <3> QED
      BY <3>2, <3>3
  <2>5. BehindIsClean'
    BY <1>2, <2>3, <2>4 DEF BehindIsClean, Dirty
  <2> QED
    BY <2>2, <2>5
<1>4. CASE ~Dirty(s) /\ Advance /\ UNCHANGED <<entry, disk, spoiled>>
  <2>1. entry \in [Slot -> Entry] /\ disk \in [Clusters -> Contents]
    BY DEF CacheInv, StateOK
  <2>2. StateOK' /\ BehindIsClean'
    BY <1>3, <1>4, <2>1 DEF Dirty
  <2>3. UsedHaveClusters' /\ OneEntryPerCluster' /\ CleanIsCoherent'
    BY <1>2, <1>4
    DEF CacheInv, UsedHaveClusters, OneEntryPerCluster, CleanIsCoherent, Dirty
  <2>4. \A d : SlotsOf(d)' = SlotsOf(d)
    BY <1>4 DEF SlotsOf
  <2>5. NoLostUpdate'
    BY <1>4, <2>4 DEF CacheInv, NoLostUpdate
  <2> QED
    BY <2>2, <2>3, <2>5 DEF CacheInv
<1>5. CASE /\ Dirty(s) /\ Advance
           /\ entry' = Cleaned(s) /\ disk' = Written(s) /\ UNCHANGED spoiled
  <2>1. StateOK' /\ BehindIsClean'
    BY <1>1, <1>3, <1>5, FlushIsCoherent
  <2> QED
    BY <1>1, <1>2, <1>5, <2>1, FlushKeeps DEF CacheInv
<1>6. CASE Dirty(s) /\ FlushFails(s) /\ next' = 0
  <2>1. /\ entry' \in [Slot -> Entry] /\ disk' \in [Clusters -> Contents]
        /\ spoiled' \in SUBSET Clusters
    BY <1>1, <1>6, FailureIsLocal
  <2>2. StateOK' /\ BehindIsClean'
    BY <1>2, <1>6, <2>1, SlotsAreNumbers DEF CacheInv, StateOK, BehindIsClean
  <2>3. held' = 0
    BY <1>1, <1>2 DEF CacheInv, BehindIsClean
  <2> QED
    BY <1>1, <1>6, <2>2, <2>3, FailureKeeps DEF CacheInv
<1> QED
  BY <1>4, <1>5, <1>6 DEF FlushNext

LEMMA ReadHitKeeps ==
  ASSUME CacheInv, NEW c \in Clusters, ReadHit(c) PROVE CacheInv'
<1>1. PICK s \in SlotsOf(c) : Use(s, c) /\ held' = s
  BY DEF ReadHit
<1>2. s \in Slot /\ entry[s].cluster = c
  BY DEF SlotsOf
<1> QED
  BY <1>1, <1>2, LookupKeeps DEF ReadHit

LEMMA CacheStep == ASSUME CacheInv, [Next]_vars PROVE CacheInv'
<1>1. CASE \E c \in Clusters : ReadHit(c)
  BY <1>1, ReadHitKeeps
<1>2. CASE \E c \in Clusters : ReadMissFlushFails(c)
  BY <1>2, ReadMissFlushFailsKeeps
<1>3. CASE \E c \in Clusters : ReadMiss(c)
  BY <1>3, ReadMissKeeps
<1>4. CASE \E c \in Clusters : FreeCluster(c)
  BY <1>4, FreeClusterKeeps
<1>5. CASE \E kind \in Kinds : Modify(kind)
  BY <1>5, ModifyKeeps
<1>6. CASE \E s \in Slot : AddAgain(s)
  BY <1>6, LookupKeeps DEF AddAgain
<1>7. CASE ClearCache
  BY <1>7, ClearCacheKeeps
<1>8. CASE FlushAll
  BY <1>8, FlushAllKeeps
<1>9. CASE FlushNext
  BY <1>9, FlushNextKeeps
<1>10. CASE UNCHANGED vars
  <2>1. /\ UNCHANGED <<entry, order, disk, next, held, result, spoiled>>
        /\ \A d : SlotsOf(d)' = SlotsOf(d)
    BY <1>10 DEF vars, ghosts, SlotsOf
  <2> QED
    BY <2>1 DEF CacheInv, StateOK, UsedHaveClusters, BehindIsClean, Dirty,
                OneEntryPerCluster, NoLostUpdate, CleanIsCoherent
<1> QED
  BY <1>1, <1>2, <1>3, <1>4, <1>5, <1>6, <1>7, <1>8, <1>9, <1>10 DEF Next

(* Entries, order and card stay in the states CacheInv describes, through  *)
(* any eviction, flush, failure and loss of the cache.                     *)
THEOREM CacheInvHolds == Spec => []CacheInv
<1> QED
  BY InitInv, CacheStep, PTL DEF Spec

(* Card_GetCacheEntry has one entry to find.                               *)
THEOREM OneEntryHolds == Spec => []OneEntryPerCluster
<1>1. CacheInv => OneEntryPerCluster
  BY DEF CacheInv
<1> QED
  BY <1>1, CacheInvHolds, PTL

(* What was written last is what is read, on a cache of any size.          *)
THEOREM NoUpdateIsLost == Spec => []NoLostUpdate
<1>1. CacheInv => NoLostUpdate
  BY DEF CacheInv
<1> QED
  BY <1>1, CacheInvHolds, PTL

(* An entry that is clean shows what the card has.                         *)
THEOREM CleanEntriesAreCoherent == Spec => []CleanIsCoherent
<1>1. CacheInv => CleanIsCoherent
  BY DEF CacheInv
<1> QED
  BY <1>1, CacheInvHolds, PTL

(* Card_FlushMCCache that returns success has written everything: the last *)
(* turn finds nothing dirty behind its index, and that is every entry.     *)
LEMMA SuccessWritesAll ==
  ASSUME CacheInv, CacheInv', [Next]_vars, next # 0, result' = "succeed"
  PROVE  /\ \A s \in Slot : entry'[s].wr = "clean"
         /\ \A c \in Clusters \ spoiled' : disk'[c] = "latest"
<1>1. result = "none" /\ vars' # vars
  BY DEF CacheInv, BehindIsClean, vars
<1>2. FlushNext
  BY <1>1 DEF Next, Idle, ReadHit, ReadMissFlushFails, ReadMiss, FreeCluster,
              Modify, AddAgain, ClearCache, FlushAll
<1> DEFINE t == order[next]
<1>3. next = 1 /\ UNCHANGED order
  BY <1>1, <1>2 DEF FlushNext, Advance
<1>4. \A s \in Slot : s # t => ~Dirty(s)
  <2>1. ASSUME NEW s \in Slot, s # t PROVE ~Dirty(s)
    <3>1. PICK j \in Slot : order[j] = s
      BY DEF CacheInv, StateOK
    <3>2. j > next
      BY <1>3, <2>1, <3>1 DEF Slot
    <3> QED
      BY <1>3, <3>1, <3>2 DEF CacheInv, BehindIsClean
  <2> QED
    BY <2>1
<1>5. t \in Slot
  BY <1>3, SlotsAreNumbers DEF CacheInv, StateOK
<1>6. \A s \in Slot : entry'[s].wr = "clean"
  <2>1. CASE ~Dirty(t) /\ UNCHANGED entry
    BY <1>4, <2>1 DEF Dirty
  <2>2. CASE Dirty(t) /\ entry' = Cleaned(t)
    <3>1. /\ \A s \in Slot : entry'[s].wr \in {entry[s].wr, "clean"}
          /\ entry'[t].wr = "clean"
      BY <1>5, <2>2, FlushIsCoherent
    <3> QED
      BY <1>4, <3>1 DEF Dirty
  <2> QED
    BY <1>2, <2>1, <2>2 DEF FlushNext
<1>7. ASSUME NEW c \in Clusters \ spoiled' PROVE disk'[c] = "latest"
  <2>1. CASE SlotsOf(c)' = {}
    BY <1>7, <2>1 DEF CacheInv, NoLostUpdate
  <2>2. CASE SlotsOf(c)' # {}
    <3>1. PICK s \in SlotsOf(c)' : s \in Slot /\ entry'[s].cluster = c
      BY <2>2 DEF SlotsOf
    <3>2. entry'[s].data = "latest"
      BY <1>7, <2>2, <3>1 DEF CacheInv, NoLostUpdate
    <3>3. entry'[s].data = disk'[c]
      BY <1>6, <1>7, <3>1 DEF CacheInv, CleanIsCoherent, Dirty
    <3> QED
      BY <3>2, <3>3
  <2> QED
    BY <2>1, <2>2
<1> QED
  BY <1>6, <1>7

(* Success of Card_FlushMCCache means that all is on the card.             *)
THEOREM FlushAllHasWritten == Spec => FlushAllWritesAll
<1>1. CacheInv /\ CacheInv' /\ [Next]_vars =>
        [next # 0 /\ result' = "succeed" =>
           /\ \A s \in Slot : entry'[s].wr = "clean"
           /\ \A c \in Clusters \ spoiled' : disk'[c] = "latest"]_vars
  BY SuccessWritesAll
<1> QED
  BY <1>1, CacheInvHolds, PTL DEF Spec, FlushAllWritesAll
-----------------------------------------------------------------------------
(* Every entry has one place in the order of use ...                       *)
OrderIsOnce == \A i, j \in Slot : order[i] = order[j] => i = j

(* ... and the cluster of the i-th use from now is at the i-th place or    *)
(* in front of it.                                                         *)
RecentOK ==
  /\ recent \in Seq(Clusters \cup {NoCluster}) /\ Len(recent) < Slots
  /\ \A i, j \in 1 .. Len(recent) :
       recent[i] = recent[j] /\ recent[i] # NoCluster => i = j
  /\ \A i \in 1 .. Len(recent) : recent[i] # NoCluster =>
       \E j \in 1 .. i : entry[order[j]].cluster = recent[i]

OrderInv == CacheInv /\ OrderIsOnce /\ RecentOK

(* Moving an entry to the front keeps every entry once.                    *)
LEMMA ToFrontIsOnce ==
  ASSUME StateOK, OrderIsOnce, NEW s \in Slot
  PROVE  \A i, j \in Slot : ToFront(s)[i] = ToFront(s)[j] => i = j
<1> DEFINE at == CHOOSE i \in Slot : order[i] = s
<1>1. at \in Slot /\ order[at] = s
  BY DEF StateOK
<1>2. \A i \in Slot : i # 1 => i - 1 \in Slot
  BY SlotsAreNumbers DEF Slot
<1>3. ToFront(s) = [i \in Slot |-> IF i = 1 THEN s
                      ELSE IF i <= at THEN order[i - 1] ELSE order[i]]
  BY DEF ToFront
<1> HIDE DEF at
<1>4. \A i \in Slot : i # 1 => ToFront(s)[i] # s
  BY <1>1, <1>2, <1>3 DEF OrderIsOnce, Slot
<1>5. \A i, j \in Slot : i # 1 /\ j # 1 /\ ToFront(s)[i] = ToFront(s)[j] => i = j
  BY <1>1, <1>2, <1>3 DEF OrderIsOnce, Slot
<1>6. ToFront(s)[1] = s
  BY <1>3, SlotsAreNumbers
<1> QED
  BY <1>4, <1>5, <1>6

(* A use moves its cluster to the front of the history and its entry to    *)
(* the front of the order.                                                 *)
LEMMA UseKeepsRecent ==
  ASSUME StateOK, OrderIsOnce, RecentOK, NEW s \in Slot, NEW c \in Clusters \cup {NoCluster},
         NEW e \in [Slot -> Entry], e[s].cluster = c,
         \A i \in 1 .. Len(recent) : recent[i] # NoCluster =>
           \E j \in 1 .. i : e[order[j]].cluster = recent[i],
         \A t, u \in Slot : e[t].cluster = e[u].cluster /\ t # u => e[t].cluster = NoCluster,
         Use(s, c), entry' = e
  PROVE  RecentOK'
<1> DEFINE n == Len(recent)
           found == c # NoCluster /\ \E i \in 1 .. n : recent[i] = c
           length == IF found \/ n = Slots - 1 THEN n ELSE n + 1
           passed(i) == found /\ \E j \in 1 .. i - 1 : recent[j] = c
           new == [i \in 1 .. length |-> IF i = 1 THEN c
                            ELSE IF passed(i) THEN recent[i] ELSE recent[i - 1]]
           C == Clusters \cup {NoCluster}
<1>1. n \in Nat /\ n < Slots /\ recent \in [1 .. n -> C] /\ DOMAIN recent = 1 .. n
  BY DEF RecentOK
<1>2. recent' = new
  BY <1>1 DEF Use, Recently
<1>3. length \in Nat /\ length >= 1 /\ length < Slots /\ length <= n + 1
  BY <1>1, SlotsAreNumbers
<1>4. \A i \in 1 .. length : i # 1 => i - 1 \in 1 .. n /\ (passed(i) => i \in 1 .. n)
  BY <1>1, <1>3
<1>5. new \in [1 .. length -> C]
  BY <1>1, <1>3, <1>4
<1>6. recent' \in Seq(C) /\ Len(recent') = length
  <2>1. \A k \in Nat : \A f \in [1 .. k -> C] : f \in Seq(C) /\ Len(f) = k
    OBVIOUS
  <2> HIDE DEF new, length
  <2> QED
    BY <1>2, <1>3, <1>5, <2>1
<1>7. \A i, j \in 1 .. n : recent[i] = recent[j] /\ recent[i] # NoCluster => i = j
  BY DEF RecentOK
<1>8. \A i \in 1 .. length : new[i] = IF i = 1 THEN c
                            ELSE IF passed(i) THEN recent[i] ELSE recent[i - 1]
  OBVIOUS
<1>p. \A i \in 1 .. length :
        /\ passed(i) => c # NoCluster /\ \E k \in 1 .. i - 1 : k \in 1 .. n /\ recent[k] = c
        /\ ~passed(i) /\ c # NoCluster => \A k \in 1 .. i - 1 : recent[k] # c
        /\ \A j \in 1 .. length : i <= j /\ passed(i) => passed(j)
  BY <1>1, <1>3
<1>r. \A i \in 1 .. n : recent[i] # NoCluster =>
           \E j \in 1 .. i : e[order[j]].cluster = recent[i]
  OBVIOUS
<1> HIDE DEF new, length, passed, found, n
<1>9. \A i \in 1 .. length : i # 1 /\ c # NoCluster => new[i] # c
  <2> SUFFICES ASSUME NEW i \in 1 .. length, i # 1, c # NoCluster PROVE new[i] # c
    OBVIOUS
  <2>1. CASE passed(i)
    BY <1>1, <1>4, <1>7, <1>8, <1>p, <2>1
  <2>2. CASE ~passed(i)
    BY <1>1, <1>3, <1>4, <1>8, <1>p, <2>2
  <2> QED
    BY <2>1, <2>2
<1>10. \A i, j \in 1 .. length : i # 1 /\ j # 1 /\ new[i] = new[j] /\ new[i] # NoCluster => i = j
  <2> SUFFICES ASSUME NEW i \in 1 .. length, NEW j \in 1 .. length, i # 1, j # 1,
                      new[i] = new[j], new[i] # NoCluster
               PROVE  i = j
    OBVIOUS
  <2>1. CASE passed(i) <=> passed(j)
    <3>1. CASE passed(i)
      BY <1>4, <1>7, <1>8, <2>1, <3>1
    <3>2. CASE ~passed(i)
      <4>1. i - 1 = j - 1
        BY <1>4, <1>7, <1>8, <2>1, <3>2
      <4> QED
        BY <1>3, <4>1
    <3> QED
      BY <3>1, <3>2
  <2>2. CASE passed(i) /\ ~passed(j)
    <3>1. i = j - 1
      BY <1>4, <1>7, <1>8, <2>2
    <3> QED
      BY <1>3, <1>p, <2>2, <3>1
  <2>3. CASE ~passed(i) /\ passed(j)
    <3>1. j = i - 1
      BY <1>4, <1>7, <1>8, <2>3
    <3> QED
      BY <1>3, <1>p, <2>3, <3>1
  <2> QED
    BY <2>1, <2>2, <2>3
<1>11. \A i, j \in 1 .. length : new[i] = new[j] /\ new[i] # NoCluster => i = j
  BY <1>8, <1>9, <1>10
<1> DEFINE at == CHOOSE i \in Slot : order[i] = s
<1>12. at \in Slot /\ order[at] = s
  BY DEF StateOK
<1>13. order' = [i \in Slot |-> IF i = 1 THEN s
                      ELSE IF i <= at THEN order[i - 1] ELSE order[i]]
  BY DEF ToFront, Use
<1> HIDE DEF at
<1>14. ASSUME NEW i \in 1 .. length, new[i] # NoCluster
       PROVE  \E j \in 1 .. i : e[order'[j]].cluster = new[i]
  <2>1. CASE i = 1
    BY <1>8, <1>13, <2>1, SlotsAreNumbers
  <2>2. CASE i # 1 /\ passed(i)
    <3>1. i \in 1 .. n /\ new[i] = recent[i]
      BY <1>4, <1>8, <2>2
    <3>2. PICK j \in 1 .. i : e[order[j]].cluster = recent[i]
      BY <1>r, <1>14, <3>1
    <3>3. PICK k \in 1 .. i - 1 : k \in 1 .. n /\ recent[k] = c /\ c # NoCluster
      BY <1>p, <2>2
    <3>4. PICK m \in 1 .. k : e[order[m]].cluster = c
      BY <1>r, <3>3
    <3>5. m = at
      <4>1. m \in Slot /\ order[m] \in Slot
        <5>1. m \in Slot
          BY <1>1, <3>1, <3>3, <3>4, SlotsAreNumbers DEF Slot
        <5> QED
          BY <5>1 DEF StateOK
      <4>2. order[m] = s
        BY <3>3, <3>4, <4>1
      <4> QED
        BY <1>12, <4>1, <4>2 DEF OrderIsOnce
    <3>6. CASE j > at
      <4>1. j \in Slot /\ j # 1 /\ order'[j] = order[j]
        BY <1>1, <1>12, <1>13, <3>1, <3>2, <3>6, SlotsAreNumbers DEF Slot
      <4> QED
        BY <3>1, <3>2, <4>1
    <3>7. CASE j < at
      <4>1. j + 1 \in Slot /\ j + 1 # 1 /\ j + 1 <= at /\ (j + 1) - 1 = j /\ j + 1 \in 1 .. i
        BY <1>1, <1>12, <3>1, <3>2, <3>3, <3>4, <3>5, <3>7, SlotsAreNumbers DEF Slot
      <4>2. order'[j + 1] = order[j]
        BY <1>13, <4>1
      <4> QED
        BY <3>1, <3>2, <4>1, <4>2
    <3>8. CASE j = at
      <4>1. recent[i] = c
        BY <1>12, <3>2, <3>8
      <4> QED
        BY <1>1, <1>7, <3>1, <3>3, <4>1
    <3> QED
      BY <1>12, <3>6, <3>7, <3>8 DEF Slot
  <2>3. CASE i # 1 /\ ~passed(i)
    <3>1. i - 1 \in 1 .. n /\ new[i] = recent[i - 1]
      BY <1>4, <1>8, <2>3
    <3>2. PICK j \in 1 .. i - 1 : e[order[j]].cluster = recent[i - 1]
      BY <1>r, <1>14, <3>1
    <3>3. j \in Slot /\ j + 1 \in Slot /\ j + 1 # 1 /\ (j + 1) - 1 = j
          /\ j \in 1 .. i /\ j + 1 \in 1 .. i
      BY <1>1, <1>3, <3>1, <3>2, SlotsAreNumbers DEF Slot
    <3>4. CASE j > at
      <4>1. order'[j] = order[j]
        BY <1>12, <1>13, <3>3, <3>4 DEF Slot
      <4> QED
        BY <3>1, <3>2, <3>3, <4>1
    <3>5. CASE j < at
      <4>1. j + 1 <= at
        BY <1>12, <3>3, <3>5 DEF Slot
      <4>2. order'[j + 1] = order[j]
        BY <1>13, <3>3, <4>1
      <4> QED
        BY <3>1, <3>2, <3>3, <4>2
    <3>6. CASE j = at
      <4>1. order'[1] = s
        BY <1>13, SlotsAreNumbers
      <4> QED
        BY <1>12, <3>1, <3>2, <3>3, <3>6, <4>1
    <3> QED
      BY <1>12, <3>3, <3>4, <3>5, <3>6 DEF Slot
  <2> QED
    BY <2>1, <2>2, <2>3
<1> QED
  BY <1>2, <1>3, <1>6, <1>11, <1>14 DEF RecentOK

(* Steps that leave the order of use and the history alone.                *)
LEMMA RecentStays ==
  ASSUME OrderIsOnce, RecentOK, UNCHANGED <<order, recent>>,
         CacheInv, \A t \in Slot : entry'[t].cluster = entry[t].cluster
  PROVE  OrderIsOnce' /\ RecentOK'
<1>1. \A i \in 1 .. Len(recent) : \A j \in 1 .. i : order[j] \in Slot
  <2>1. \A i \in 1 .. Len(recent) : \A j \in 1 .. i : j \in Slot
    BY SlotsAreNumbers DEF RecentOK, Slot
  <2> QED
    BY <2>1 DEF CacheInv, StateOK
<1> QED
  BY <1>1 DEF OrderIsOnce, RecentOK

(* A use of an entry that has its cluster.                                 *)
LEMMA UseKeepsOrder ==
  ASSUME OrderInv, NEW s \in Slot, NEW c \in Clusters \cup {NoCluster},
         entry[s].cluster = c, Use(s, c), UNCHANGED entry
  PROVE  OrderIsOnce' /\ RecentOK'
<1>1. OrderIsOnce'
  BY ToFrontIsOnce DEF OrderInv, CacheInv, OrderIsOnce, Use
<1>2. RecentOK'
  BY UseKeepsRecent DEF OrderInv, CacheInv, StateOK, RecentOK, OneEntryPerCluster
<1> QED
  BY <1>1, <1>2

(* The entry at the last place of the order is none that was used recently.*)
LEMMA VictimIsOld ==
  ASSUME OrderInv
  PROVE  \A i \in 1 .. Len(recent) : \A j \in 1 .. i :
           order[j] \in Slot /\ order[j] # Victim
BY SlotsAreNumbers DEF OrderInv, CacheInv, StateOK, OrderIsOnce, RecentOK, Victim, Slot

(* A miss gives the last entry away.                                       *)
LEMMA ReadMissKeepsOrder ==
  ASSUME OrderInv, NEW c \in Clusters, ReadMiss(c), CacheInv'
  PROVE  OrderIsOnce' /\ RecentOK'
<1> DEFINE v == Victim
<1>1. v \in Slot /\ Evicted \in [Slot -> Entry]
      /\ \A t \in Slot : Evicted[t].cluster = entry[t].cluster
  BY EvictionKeeps DEF OrderInv
<1>2. \E x : entry' = [Evicted EXCEPT ![v].cluster = c, ![v].data = x]
  BY DEF ReadMiss, Relabel
<1>3. entry'[v].cluster = c /\ \A t \in Slot \ {v} : entry'[t].cluster = entry[t].cluster
  BY <1>1, <1>2 DEF Entry
<1>4. \A i \in 1 .. Len(recent) : recent[i] # NoCluster =>
        \E j \in 1 .. i : entry'[order[j]].cluster = recent[i]
  BY <1>3, VictimIsOld DEF OrderInv, RecentOK
<1>5. CASE Use(v, c)
  <2>1. OrderIsOnce'
    BY <1>1, <1>5, ToFrontIsOnce DEF OrderInv, CacheInv, OrderIsOnce, Use
  <2>2. entry' \in [Slot -> Entry]
        /\ \A t, u \in Slot : entry'[t].cluster = entry'[u].cluster /\ t # u
                               => entry'[t].cluster = NoCluster
    BY DEF CacheInv, StateOK, OneEntryPerCluster
  <2>3. \A e : e = entry' /\ e \in [Slot -> Entry] => RecentOK'
    BY <1>1, <1>3, <1>4, <1>5, <2>2, UseKeepsRecent DEF OrderInv, CacheInv
  <2> QED
    BY <2>1, <2>2, <2>3
<1>6. CASE UNCHANGED <<order, recent>>
  BY <1>4, <1>6 DEF OrderInv, OrderIsOnce, RecentOK
<1> QED
  BY <1>5, <1>6 DEF ReadMiss

(* A freed cluster is no longer among those used.                          *)
LEMMA FreeClusterKeepsOrder ==
  ASSUME OrderInv, NEW c \in Clusters, FreeCluster(c)
  PROVE  OrderIsOnce' /\ RecentOK'
<1> DEFINE new == [i \in DOMAIN recent |-> IF recent[i] = c THEN NoCluster ELSE recent[i]]
           C == Clusters \cup {NoCluster}
<1>1. /\ recent' = new /\ UNCHANGED order
      /\ \A s \in Slot : entry[s].cluster # c => entry'[s] = entry[s]
  BY DEF FreeCluster, SlotsOf
<1>2. recent \in Seq(C)
  BY DEF OrderInv, RecentOK
<1>3. new \in Seq(C) /\ Len(new) = Len(recent) /\ DOMAIN recent = 1 .. Len(recent)
  BY <1>2
<1>4. \A i \in 1 .. Len(recent) : new[i] = IF recent[i] = c THEN NoCluster ELSE recent[i]
  BY <1>3
<1> HIDE DEF new
<1>5. \A i \in 1 .. Len(recent) : new[i] # NoCluster =>
        \E j \in 1 .. i : entry'[order[j]].cluster = new[i]
  BY <1>1, <1>4, VictimIsOld DEF OrderInv, RecentOK
<1>6. \A i, j \in 1 .. Len(recent) : new[i] = new[j] /\ new[i] # NoCluster => i = j
  BY <1>4 DEF OrderInv, RecentOK
<1> QED
  BY <1>1, <1>3, <1>5, <1>6 DEF OrderInv, OrderIsOnce, RecentOK

(* At first nothing has been used.                                         *)
LEMMA InitOrder == Init => OrderInv
<1> SUFFICES ASSUME Init PROVE OrderInv
  OBVIOUS
<1>1. OrderIsOnce
  BY SlotsAreNumbers DEF Init, OrderIsOnce, Slot
<1>2. RecentOK
  BY SlotsAreNumbers DEF Init, RecentOK
<1> QED
  BY <1>1, <1>2, InitInv DEF OrderInv

(* Every operation keeps the order.                                        *)
LEMMA OrderStep == ASSUME OrderInv, [Next]_vars PROVE OrderInv'
<1>0. CacheInv /\ OrderIsOnce /\ RecentOK /\ CacheInv'
  BY CacheStep DEF OrderInv
<1>1. ASSUME NEW c \in Clusters, ReadHit(c) PROVE OrderIsOnce' /\ RecentOK'
  <2>1. PICK s \in Slot : Use(s, c) /\ entry[s].cluster = c
    BY <1>1 DEF ReadHit, SlotsOf
  <2> QED
    BY <1>1, <2>1, UseKeepsOrder DEF ReadHit
<1>2. ASSUME NEW c \in Clusters, ReadMissFlushFails(c) PROVE OrderIsOnce' /\ RecentOK'
  BY <1>0, <1>2, EvictionKeeps, FailureIsLocal, RecentStays DEF ReadMissFlushFails
<1>3. ASSUME NEW c \in Clusters, ReadMiss(c) PROVE OrderIsOnce' /\ RecentOK'
  BY <1>0, <1>3, ReadMissKeepsOrder
<1>4. ASSUME NEW c \in Clusters, FreeCluster(c) PROVE OrderIsOnce' /\ RecentOK'
  BY <1>4, FreeClusterKeepsOrder
<1>5. ASSUME NEW kind \in Kinds, Modify(kind) PROVE OrderIsOnce' /\ RecentOK'
  <2>1. \A t \in Slot : entry'[t].cluster = entry[t].cluster
    BY <1>0, <1>5 DEF Modify, CacheInv, StateOK, Entry
  <2> QED
    BY <1>0, <1>5, <2>1, RecentStays DEF Modify
<1>6. ASSUME NEW s \in Slot, AddAgain(s) PROVE OrderIsOnce' /\ RecentOK'
  <2>1. entry[s].cluster \in Clusters \cup {NoCluster}
    BY <1>0 DEF CacheInv, StateOK, Entry
  <2> QED
    BY <1>6, <2>1, UseKeepsOrder DEF AddAgain
<1>7. CASE ClearCache
  <2>1. order' = order /\ recent' = << >>
    BY <1>7 DEF ClearCache
  <2>2. OrderIsOnce'
    BY <1>0, <2>1 DEF OrderIsOnce
  <2>3. << >> \in Seq(Clusters \cup {NoCluster}) /\ Len(<< >>) = 0
    OBVIOUS
  <2>4. RecentOK'
    BY <2>1, <2>3, SlotsAreNumbers DEF RecentOK
  <2> QED
    BY <1>0, <2>2, <2>4 DEF OrderInv
<1>8. CASE FlushAll
  <2>1. UNCHANGED <<order, recent>> /\ UNCHANGED entry
    BY <1>8 DEF FlushAll, ghosts
  <2> QED
    BY <1>0, <2>1, RecentStays DEF OrderInv
<1>9. CASE FlushNext
  <2>1. order[next] \in Slot
    <3>1. next \in Slot
      BY <1>0, <1>9, SlotsAreNumbers DEF FlushNext, CacheInv, StateOK, Slot
    <3> QED
      BY <1>0, <3>1 DEF CacheInv, StateOK
  <2>2. \A t \in Slot : entry'[t].cluster = entry[t].cluster
    BY <1>0, <1>9, <2>1, FlushIsCoherent, FailureIsLocal DEF FlushNext
  <2>3. UNCHANGED <<order, recent>>
    BY <1>9 DEF FlushNext
  <2> QED
    BY <1>0, <2>2, <2>3, RecentStays DEF OrderInv
<1>10. CASE UNCHANGED vars
  <2>1. UNCHANGED <<order, recent>> /\ UNCHANGED entry
    BY <1>10 DEF vars, ghosts
  <2> QED
    BY <1>0, <2>1, RecentStays DEF OrderInv
<1> QED
  BY <1>0, <1>1, <1>2, <1>3, <1>4, <1>5, <1>6, <1>7, <1>8, <1>9, <1>10 DEF Next, OrderInv

(* The order of use holds every entry once, and remembers the uses: the    *)
(* cluster of the i-th last use is among the first i.                      *)
THEOREM OrderInvHolds == Spec => []OrderInv
<1> QED
  BY InitOrder, OrderStep, PTL DEF Spec

(* The clusters of the last Slots - 1 uses are in the cache: pointers to   *)
(* them stay good while fewer other clusters than that are read.           *)
THEOREM RecentUsesStayCached == Spec => []RecentStaysCached
<1>1. OrderInv => RecentStaysCached
  <2> SUFFICES ASSUME OrderInv, NEW i \in DOMAIN recent, recent[i] # NoCluster
               PROVE  SlotsOf(recent[i]) # {}
    BY DEF RecentStaysCached
  <2>1. i \in 1 .. Len(recent)
    BY DEF OrderInv, RecentOK
  <2>2. PICK j \in 1 .. i : entry[order[j]].cluster = recent[i]
    BY <2>1 DEF OrderInv, RecentOK
  <2>3. order[j] \in SlotsOf(recent[i])
    BY <2>1, <2>2, VictimIsOld DEF SlotsOf
  <2> QED
    BY <2>3
<1> QED
  BY <1>1, OrderInvHolds, PTL

(* The variables of the cache keep their types.                            *)
THEOREM CacheTypes == Spec => []TypeOK
<1> DEFINE Told == result \in {"none", "succeed", "failed"}
<1>1. Init => Told
  BY DEF Init
<1>2. Told /\ [Next]_vars => Told'
  <2> SUFFICES ASSUME Told, [Next]_vars PROVE Told'
    OBVIOUS
  <2>1. CASE \/ \E c \in Clusters : \/ ReadHit(c) \/ ReadMissFlushFails(c)
                                   \/ ReadMiss(c) \/ FreeCluster(c)
             \/ \E kind \in Kinds : Modify(kind)
             \/ \E s \in Slot : AddAgain(s)
    BY <2>1 DEF ReadHit, ReadMissFlushFails, ReadMiss, FreeCluster, Modify, AddAgain
  <2>2. CASE ClearCache \/ FlushAll \/ FlushNext
    BY <2>2 DEF ClearCache, FlushAll, FlushNext, Advance
  <2>3. CASE UNCHANGED vars
    BY <2>3 DEF vars
  <2> QED
    BY <2>1, <2>2, <2>3 DEF Next
<1>3. OrderInv /\ Told => TypeOK
  <2>1. CacheInv /\ StateOK => {order[i] : i \in Slot} = Slot
    BY DEF StateOK
  <2> QED
    BY <2>1 DEF OrderInv, CacheInv, StateOK, RecentOK, TypeOK
<1> QED
  BY <1>1, <1>2, <1>3, OrderInvHolds, PTL DEF Spec
=============================================================================
