-------------------------- MODULE DirectoryProofs --------------------------
(***************************************************************************)
(* Proofs about Directory, for any card, any names, any number of entries  *)
(* in a cluster and any number of handles.                                 *)
(*                                                                         *)
(* The invariant sees the card as a table: the directories have first      *)
(* clusters H, chains ch that share no cluster, and hold T.  It has three  *)
(* parts: the table is what the FAT and the slots lay out (Laid), it is a  *)
(* tree whose directories know the way up (Good), and the handles are on   *)
(* their entries (HandleOK).  The lemmas on the storage say what writing a *)
(* slot, linking, taking and freeing clusters do to a table that is laid   *)
(* out; those on the tree what an entry that comes or goes does to a good  *)
(* table and to the handles, without the FAT; every action is composed of  *)
(* both.                                                                   *)
(***************************************************************************)
EXTENDS Directory, TLAPS, WellFoundedInduction, FiniteSetTheorems, SequenceTheorems

(* A chain of the FAT: its clusters differ, each leads to the next one.    *)
Set(s) == {s[k] : k \in 1 .. Len(s)}

Chained(f, c, s) ==
  /\ s \in Seq(Clusters) /\ s # << >> /\ s[1] = c /\ f[s[Len(s)]] = End
  /\ \A i \in 1 .. Len(s) - 1 : f[s[i]] = s[i + 1]
  /\ \A i, j \in 1 .. Len(s) : s[i] = s[j] => i = j

(* The first clusters H of the directories, their chains ch, and what the  *)
(* slots of each hold, as a table T: slot i is in the cluster number       *)
(* i \div PerCluster of the chain.                                         *)
Indexes(s) == 0 .. Len(s) * PerCluster - 1

Laid(f, s, H, ch, T) ==
  /\ Root \in H /\ H \subseteq Clusters
  /\ \A h \in H : /\ Chained(f, h, ch[h])
                  /\ T[h] \in [Indexes(ch[h]) -> Entry \cup {Gone}]
                  /\ \A i \in Indexes(ch[h]) :
                       T[h][i] = s[ch[h][i \div PerCluster + 1]][i % PerCluster]
  /\ \A g, h \in H : g # h => Set(ch[g]) \cap Set(ch[h]) = {}

(* Where a directory has its own entry, and this entry.                    *)
Home(T, h) == Loc(T[h][0].cluster, T[h][0].back)
Ent(T, h) == T[T[h][0].cluster][T[h][0].back]

(* The slots of a directory that hold an entry, past its two first ones.   *)
Used(T, h) == {i \in 2 .. Ent(T, h).length - 1 : T[h][i] # Gone}

(* An entry of a name: that of a file, or that of a directory which knows  *)
(* the way back to it.                                                     *)
Item(H, T, h, i) ==
  LET x == T[h][i]
  IN  /\ x.name \in Names
      /\ IF x.dir THEN x.cluster \in H \ {Root} /\ Home(T, x.cluster) = Loc(h, i)
         ELSE x = File(x.name)

(* A directory: its entries "." and "..", its own entry, a length its chain*)
(* has room for, the directory above it, and no name twice.                *)
DirOK(H, ch, T, h) ==
  /\ T[h][0] \in Entry /\ T[h][0].name = "." /\ T[h][1] = Above
  /\ Ent(T, h) \in Entry /\ Ent(T, h).dir /\ Ent(T, h).cluster = h
  /\ Ent(T, h).length \in 2 .. Len(ch[h]) * PerCluster
  /\ IF h = Root THEN Home(T, h) = Top
     ELSE T[h][0].cluster \in H /\ T[h][0].back \in Used(T, T[h][0].cluster)
  /\ \A i \in Used(T, h) : Item(H, T, h, i)
  /\ \A i, j \in Used(T, h) : T[h][i].name = T[h][j].name => i = j

(* How far each directory is from the root.                                *)
Rank(H, T, r) ==
  /\ r \in [H -> Nat] /\ r[Root] = 0
  /\ \A h \in H \ {Root} : r[h] = r[T[h][0].cluster] + 1

Ranked(H, T) == \E r : Rank(H, T, r)

(* A good tree: every directory is one, and the way up leads to the root.  *)
Good(H, ch, T) == (\A h \in H : DirOK(H, ch, T, h)) /\ Ranked(H, T)

(* A handle on a file keeps its entry and that of its directory.           *)
FileHandle(H, T, x) ==
  /\ x.loc.dir \in H /\ x.parent = Home(T, x.loc.dir)
  /\ x.loc.at \in Used(T, x.loc.dir) /\ T[x.loc.dir][x.loc.at] = File(x.name)

(* The names a listing has still to come to.                               *)
Left(T, x) == {T[x.head][i].name : i \in {j \in x.pos .. x.size - 1 : T[x.head][j] # Gone}} \cap Names

(* A handle on a directory keeps its first cluster and its entry, and what *)
(* it has still to tell is what is due, and some of what came since.       *)
DirHandle(H, T, x) ==
  /\ x.head \in H /\ x.loc = Home(T, x.head) /\ x.size <= Ent(T, x.head).length
  /\ x.due \subseteq Left(T, x) /\ Left(T, x) \subseteq x.due \cup x.fresh

HandleOK(H, T, x) ==
  x.open => IF x.dir THEN DirHandle(H, T, x) ELSE FileHandle(H, T, x)

(* The types of the FAT and of the slots.                                  *)
Links == [Clusters -> Clusters \cup {Free, End}]
Slots == [Clusters -> [Place -> Entry \cup {Gone}]]

(* The inductive invariant, of any FAT, slots and handles.                 *)
Sound(f, s, hs, H, ch, T) ==
  /\ Laid(f, s, H, ch, T) /\ Good(H, ch, T)
  /\ \A d \in Fds : HandleOK(H, T, hs[d])

Fine(f, s, hs) ==
  /\ f \in Links /\ s \in Slots /\ hs \in [Fds -> Handle]
  /\ \E H, ch, T : Sound(f, s, hs, H, ch, T)

(* It holds of the variables.                                              *)
DInv == Fine(fat, slot, fh)
-----------------------------------------------------------------------------
(* The assumptions on the constants, one by one.                           *)
LEMMA Consts ==
  /\ Root \in Clusters /\ PerCluster \in Nat /\ PerCluster > 1 /\ PerCluster \in Nat \ {0}
  /\ Null \notin Clusters /\ Free \notin Clusters /\ End \notin Clusters /\ Free # End
  /\ "." \notin Names /\ ".." \notin Names /\ Gone \notin Entry
  /\ IsFiniteSet(Names) /\ Cardinality(Names) \in Nat /\ MaxLength \in Nat /\ MaxLength >= 2
<1>1. IsFiniteSet(Names) /\ Cardinality(Names) \in Nat
  BY DirectoryAssumption, FS_CardinalityType
<1> QED BY <1>1, DirectoryAssumption, SlotAssumption DEF MaxLength

(* A set of naturals has a least element.                                  *)
LEMMA LeastNat ==
  ASSUME NEW S, S \subseteq Nat, S # {}
  PROVE  \E m \in S : \A k \in S : m <= k
<1> DEFINE R == OpToRel(<, Nat)
<1>1. IsWellFoundedOn(R, Nat)
  BY NatLessThanWellFounded
<1>2. \A x, y \in Nat : x < y => <<x, y>> \in R
  BY DEF OpToRel
<1> HIDE DEF R
<1>3. PICK m \in S : \A k \in S : ~ (<<k, m>> \in R)
  BY <1>1, WFMin
<1>4. \A k \in S : ~ (k < m)
  BY <1>2, <1>3, Zenon
<1>5. \A k \in S : m <= k
  BY <1>4
<1> QED BY <1>5

(* What holds for 0, and for a number when it does for the one before,     *)
(* holds for all: as a set, since the facts cited here take no predicate.  *)
LEMMA AllNat ==
  ASSUME NEW S, 0 \in S, \A m \in Nat : m # 0 /\ m - 1 \in S => m \in S
  PROVE  Nat \subseteq S
<1> SUFFICES ASSUME Nat \ S # {} PROVE FALSE
  OBVIOUS
<1>1. PICK m \in Nat \ S : \A k \in Nat \ S : m <= k
  BY LeastNat
<1>2. m # 0 /\ m - 1 \in Nat
  BY <1>1
<1>3. m - 1 \in S
  BY <1>1, <1>2
<1> QED BY <1>1, <1>2, <1>3

(* LeastOf returns the least element of a set of naturals.                 *)
LEMMA LeastIs ==
  ASSUME NEW S, S \subseteq Nat, S # {}
  PROVE  LeastOf(S) \in S /\ \A k \in S : LeastOf(S) <= k
<1>1. \E m \in S : \A k \in S : m <= k
  BY LeastNat
<1> QED BY <1>1 DEF LeastOf
-----------------------------------------------------------------------------
(* Slot i of a directory is one place of one cluster.                      *)
LEMMA Split ==
  ASSUME NEW P \in Nat \ {0}, NEW i \in Nat
  PROVE  i \div P \in Nat /\ i % P \in 0 .. P - 1 /\ i = P * (i \div P) + (i % P)
OBVIOUS

(* Multiplication keeps the order.                                         *)
LEMMA Scaled ==
  ASSUME NEW P \in Nat \ {0}, NEW n \in Nat, NEW k \in Nat, k >= n
  PROVE  P * k >= P * n /\ n * P \in Nat /\ n * P = P * n
<1>1. PICK d \in Nat : k = n + d
  <2>1. k - n \in Nat /\ k = n + (k - n)
    OBVIOUS
  <2> QED BY <2>1
<1>2. P * k = P * n + P * d /\ P * d \in Nat /\ P * n \in Nat
  BY <1>1
<1> QED BY <1>2

(* A slot of a chain is a place in one of its clusters.                    *)
LEMMA Within ==
  ASSUME NEW P \in Nat \ {0}, NEW n \in Nat, NEW i \in 0 .. n * P - 1
  PROVE  i \in Nat /\ i \div P \in 0 .. n - 1 /\ i \div P + 1 \in 1 .. n /\ i % P \in 0 .. P - 1
<1>1. i \in Nat /\ i \div P \in Nat /\ i % P \in 0 .. P - 1 /\ i = P * (i \div P) + (i % P)
  <2>1. i \in Nat
    OBVIOUS
  <2> QED BY <2>1, Split
<1>2. PICK k \in Nat : k = i \div P
  BY <1>1
<1>3. k < n
  <2> SUFFICES ASSUME k >= n PROVE FALSE
    OBVIOUS
  <2>1. P * k >= P * n /\ n * P = P * n /\ n * P \in Nat
    BY Scaled
  <2>2. P * k \in Nat
    OBVIOUS
  <2> QED BY <1>1, <1>2, <2>1, <2>2
<1> QED BY <1>1, <1>2, <1>3

(* Cluster and place determine the slot.                                   *)
LEMMA Pins ==
  ASSUME NEW P \in Nat \ {0}, NEW i \in Nat, NEW j \in Nat, i \div P = j \div P, i % P = j % P
  PROVE  i = j
BY Split

(* Following the links finds the clusters of the chain, and End after them.*)
LEMMA NthIs ==
  ASSUME NEW f, NEW c, NEW s, Chained(f, c, s), NEW k \in Nat
  PROVE  Nth(f, c, k) = IF k < Len(s) THEN s[k + 1] ELSE End
<1> DEFINE
      value(i) == IF i < Len(s) THEN s[i + 1] ELSE End
      Step(to, i) == IF i = 0 THEN c
                     ELSE LET last == to[i - 1]
                          IN  IF last \in Clusters THEN f[last] ELSE End
      Follows(to) == to = [i \in 0 .. k |-> Step(to, i)]
<1>1. /\ Len(s) \in Nat /\ Len(s) > 0 /\ \A i \in 1 .. Len(s) : s[i] \in Clusters
      /\ s[1] = c /\ f[s[Len(s)]] = End
      /\ \A i \in 1 .. Len(s) - 1 : f[s[i]] = s[i + 1]
  BY DEF Chained
<1>2. value(0) = c
  BY <1>1
<1>3. ASSUME NEW i \in Nat, i # 0
      PROVE  value(i) = IF value(i - 1) \in Clusters THEN f[value(i - 1)] ELSE End
  <2>1. CASE i < Len(s)
    <3>1. i \in 1 .. Len(s) - 1 /\ (i - 1) + 1 = i /\ i \in 1 .. Len(s)
      BY <2>1, <1>1, <1>3
    <3>2. f[s[i]] = s[i + 1] /\ value(i) = s[i + 1] /\ value(i - 1) = s[i]
      BY <3>1, <2>1, <1>1
    <3> QED BY <3>1, <3>2, <1>1
  <2>2. CASE i = Len(s)
    <3>1. value(i - 1) = s[Len(s)] /\ Len(s) \in 1 .. Len(s) /\ value(i) = End
      BY <2>2, <1>1
    <3> QED BY <3>1, <1>1
  <2>3. CASE i > Len(s)
    <3>1. value(i - 1) = End /\ value(i) = End
      BY <2>3, <1>1
    <3> QED BY <3>1, Consts
  <2> QED BY <2>1, <2>2, <2>3, <1>1
<1> HIDE DEF value
<1> DEFINE to == CHOOSE x : Follows(x)
           sol == [i \in 0 .. k |-> value(i)]
<1>4. Follows(sol)
  <2>1. ASSUME NEW i \in 0 .. k PROVE value(i) = Step(sol, i)
    <3>1. CASE i = 0
      BY <3>1, <1>2
    <3>2. CASE i # 0
      <4>1. i \in Nat /\ i - 1 \in 0 .. k
        BY <3>2
      <4>2. sol[i - 1] = value(i - 1)
        BY <4>1
      <4> QED BY <4>1, <4>2, <3>2, <1>3
    <3> QED BY <3>1, <3>2
  <2> HIDE DEF Step
  <2> QED BY <2>1
<1>5. Follows(to)
  BY <1>4
<1>6. Nth(f, c, k) = to[k]
  BY DEF Nth
<1> HIDE DEF to, sol
<1>7. \A i \in 0 .. k : to[i] = Step(to, i)
  BY <1>5
<1> DEFINE Agreed == {i \in Nat : i \in 0 .. k => to[i] = value(i)}
<1>8. 0 \in Agreed
  BY <1>7, <1>2
<1>9. ASSUME NEW m \in Nat, m # 0, m - 1 \in Agreed
      PROVE  m \in Agreed
  <2> SUFFICES ASSUME m \in 0 .. k PROVE to[m] = value(m)
    OBVIOUS
  <2>1. m - 1 \in 0 .. k
    BY <1>9
  <2>2. to[m - 1] = value(m - 1)
    BY <1>9, <2>1
  <2>3. to[m] = IF to[m - 1] \in Clusters THEN f[to[m - 1]] ELSE End
    BY <1>7, <1>9
  <2>4. value(m) = IF value(m - 1) \in Clusters THEN f[value(m - 1)] ELSE End
    BY <1>3, <1>9
  <2> QED BY <2>2, <2>3, <2>4
<1> HIDE DEF Agreed
<1>10. Nat \subseteq Agreed
  BY <1>8, <1>9, AllNat
<1> USE DEF Agreed
<1>11. to[k] = value(k)
  BY <1>10
<1> QED BY <1>6, <1>11 DEF value
-----------------------------------------------------------------------------
(* The storage: what follows from Laid, and what keeps it                  *)

(* A chain has a first and a last cluster, and none of them is free.       *)
LEMMA ChainedFacts ==
  ASSUME NEW f, NEW c, NEW s, Chained(f, c, s)
  PROVE  /\ s \in Seq(Clusters) /\ Len(s) \in Nat /\ Len(s) > 0 /\ c \in Set(s)
         /\ Len(s) \in 1 .. Len(s) /\ s[Len(s)] \in Set(s) /\ f[s[Len(s)]] = End
         /\ Set(s) \subseteq Clusters
         /\ \A i \in 1 .. Len(s) : s[i] \in Set(s) /\ s[i] \in Clusters
         /\ \A d \in Set(s) : f[d] # Free
<1>1. /\ s \in Seq(Clusters) /\ Len(s) \in Nat /\ Len(s) > 0 /\ s[1] = c
      /\ f[s[Len(s)]] = End /\ \A i \in 1 .. Len(s) - 1 : f[s[i]] = s[i + 1]
  BY DEF Chained
<1>2. \A i \in 1 .. Len(s) : s[i] \in Set(s) /\ s[i] \in Clusters
  BY <1>1 DEF Set
<1>3. \A i \in 1 .. Len(s) : f[s[i]] # Free
  <2> SUFFICES ASSUME NEW i \in 1 .. Len(s) PROVE f[s[i]] # Free
    OBVIOUS
  <2>1. CASE i = Len(s)
    BY <2>1, <1>1, Consts
  <2>2. CASE i # Len(s)
    <3>1. i \in 1 .. Len(s) - 1 /\ i + 1 \in 1 .. Len(s)
      BY <2>2, <1>1
    <3> QED BY <3>1, <1>1, <1>2, Consts
  <2> QED BY <2>1, <2>2
<1>4. Set(s) \subseteq Clusters /\ \A d \in Set(s) : f[d] # Free
  BY <1>2, <1>3 DEF Set
<1>5. 1 \in 1 .. Len(s) /\ Len(s) \in 1 .. Len(s)
  BY <1>1
<1> QED BY <1>1, <1>2, <1>4, <1>5

(* A chain whose links stay is still one.                                  *)
LEMMA ChainedStays ==
  ASSUME NEW f, NEW c, NEW s, Chained(f, c, s), NEW f2, \A d \in Set(s) : f2[d] = f[d]
  PROVE  Chained(f2, c, s)
<1>1. /\ Len(s) \in 1 .. Len(s) /\ \A i \in 1 .. Len(s) : s[i] \in Set(s)
      /\ Len(s) \in Nat
  BY ChainedFacts
<1>2. \A i \in 1 .. Len(s) - 1 : i \in 1 .. Len(s)
  BY <1>1
<1> QED BY <1>1, <1>2 DEF Chained

(* The slots of a chain: there are at least two, and each has its place.   *)
LEMMA IndexFacts ==
  ASSUME NEW s, Len(s) \in Nat, Len(s) > 0
  PROVE  /\ Len(s) * PerCluster \in Nat /\ Len(s) * PerCluster >= PerCluster
         /\ Len(s) * PerCluster >= 2
         /\ Indexes(s) \subseteq Nat /\ 0 \in Indexes(s) /\ 1 \in Indexes(s)
         /\ \A i \in Indexes(s) : /\ i \div PerCluster + 1 \in 1 .. Len(s)
                                  /\ i \div PerCluster \in 0 .. Len(s) - 1
                                  /\ i % PerCluster \in Place
<1>1. Len(s) * PerCluster \in Nat /\ Len(s) * PerCluster >= PerCluster
  <2>1. PerCluster * Len(s) >= PerCluster * 1 /\ Len(s) * PerCluster = PerCluster * Len(s)
    <3>1. PerCluster * Len(s) >= PerCluster * 1
      BY Consts, Scaled
    <3> QED BY <3>1, Consts
  <2>2. PerCluster * Len(s) \in Nat
    BY Consts
  <2> QED BY <2>1, <2>2, Consts
<1>2. ASSUME NEW i \in Indexes(s)
      PROVE  /\ i \div PerCluster + 1 \in 1 .. Len(s)
             /\ i \div PerCluster \in 0 .. Len(s) - 1
             /\ i % PerCluster \in Place
  BY Consts, Within DEF Indexes, Place
<1>3. Indexes(s) \subseteq Nat /\ 0 \in Indexes(s) /\ 1 \in Indexes(s)
  BY <1>1, Consts DEF Indexes
<1>4. Len(s) * PerCluster >= 2
  <2>1. PICK q \in Nat : q = Len(s) * PerCluster
    BY <1>1
  <2> QED BY <2>1, <1>1, Consts
<1>5. \A i \in Indexes(s) : /\ i \div PerCluster + 1 \in 1 .. Len(s)
                            /\ i \div PerCluster \in 0 .. Len(s) - 1
                            /\ i % PerCluster \in Place
  BY <1>2
<1> QED BY <1>1, <1>3, <1>4, <1>5

(* Card_ReadDirEntry, following the FAT from the first cluster, comes to   *)
(* the slot that the table has.                                            *)
LEMMA CellIs ==
  ASSUME NEW f, NEW s, NEW H, NEW ch, NEW T, Laid(f, s, H, ch, T), NEW h \in H,
         NEW i \in Indexes(ch[h])
  PROVE  /\ ClusterOf(f, h, i) = ch[h][i \div PerCluster + 1]
         /\ ch[h][i \div PerCluster + 1] \in Set(ch[h])
         /\ ch[h][i \div PerCluster + 1] \in Clusters /\ i % PerCluster \in Place
         /\ T[h][i] = s[ClusterOf(f, h, i)][i % PerCluster]
         /\ T[h][i] \in Entry \cup {Gone} /\ i \in Nat
<1>1. /\ Chained(f, h, ch[h]) /\ T[h] \in [Indexes(ch[h]) -> Entry \cup {Gone}]
      /\ T[h][i] = s[ch[h][i \div PerCluster + 1]][i % PerCluster]
  BY DEF Laid
<1>2. PICK q : q = ch[h]
  OBVIOUS
<1>3. /\ Len(q) \in Nat /\ Len(q) > 0 /\ \A k \in 1 .. Len(q) : q[k] \in Set(q) /\ q[k] \in Clusters
  BY <1>1, <1>2, ChainedFacts
<1>4. /\ i \in Nat /\ i \div PerCluster + 1 \in 1 .. Len(q)
      /\ i \div PerCluster \in 0 .. Len(q) - 1 /\ i % PerCluster \in Place
  BY <1>2, <1>3, IndexFacts
<1>5. Nth(f, h, i \div PerCluster) = q[i \div PerCluster + 1]
  <2>1. PICK k \in Nat : k = i \div PerCluster
    BY <1>4
  <2>2. Nth(f, h, k) = IF k < Len(q) THEN q[k + 1] ELSE End
    BY <1>1, <1>2, NthIs
  <2> QED BY <2>1, <2>2, <1>3, <1>4
<1> QED BY <1>1, <1>2, <1>3, <1>4, <1>5 DEF ClusterOf

(* What the code reads at a slot is what the table has there.              *)
LEMMA AtIs ==
  ASSUME NEW H, NEW ch, NEW T, Laid(fat, slot, H, ch, T), NEW h \in H, NEW i \in Indexes(ch[h])
  PROVE  At(h, i) = T[h][i]
<1>1. PICK f : f = fat
  OBVIOUS
<1>2. PICK s : s = slot
  OBVIOUS
<1>3. T[h][i] = s[ClusterOf(f, h, i)][i % PerCluster]
  BY <1>1, <1>2, CellIs
<1> QED BY <1>1, <1>2, <1>3 DEF At

(* No two slots of two directories, or of one, are the same cell.          *)
LEMMA CellsDiffer ==
  ASSUME NEW f, NEW s, NEW H, NEW ch, NEW T, Laid(f, s, H, ch, T),
         NEW g \in H, NEW h \in H, NEW i \in Indexes(ch[g]), NEW j \in Indexes(ch[h]),
         ch[g][i \div PerCluster + 1] = ch[h][j \div PerCluster + 1],
         i % PerCluster = j % PerCluster
  PROVE  g = h /\ i = j
<1>1. /\ ch[g][i \div PerCluster + 1] \in Set(ch[g])
      /\ ch[h][j \div PerCluster + 1] \in Set(ch[h])
      /\ i \in Nat /\ j \in Nat
  BY CellIs
<1>2. g = h
  BY <1>1 DEF Laid
<1>3. Chained(f, h, ch[h])
  BY DEF Laid
<1>4. PICK q : q = ch[h]
  OBVIOUS
<1>5. /\ i \div PerCluster + 1 \in 1 .. Len(q) /\ j \div PerCluster + 1 \in 1 .. Len(q)
      /\ i \div PerCluster \in Nat /\ j \div PerCluster \in Nat
  <2>1. Len(q) \in Nat /\ Len(q) > 0
    BY <1>3, <1>4, ChainedFacts
  <2>2. i \in Indexes(q) /\ j \in Indexes(q)
    BY <1>2, <1>4
  <2>3. i \div PerCluster \in 0 .. Len(q) - 1 /\ i \div PerCluster + 1 \in 1 .. Len(q)
    BY <2>1, <2>2, IndexFacts
  <2>4. j \div PerCluster \in 0 .. Len(q) - 1 /\ j \div PerCluster + 1 \in 1 .. Len(q)
    BY <2>1, <2>2, IndexFacts
  <2> QED BY <2>3, <2>4
<1>6. i \div PerCluster + 1 = j \div PerCluster + 1
  BY <1>2, <1>3, <1>4, <1>5 DEF Chained
<1>7. i \div PerCluster = j \div PerCluster
  BY <1>5, <1>6
<1>8. i = j
  BY <1>1, <1>7, Consts, Pins
<1> QED BY <1>2, <1>8

(* One slot is written.                                                    *)
Changed(H, ch, T, h, i, x) ==
  [g \in H |-> [j \in Indexes(ch[g]) |-> IF g = h /\ j = i THEN x ELSE T[g][j]]]

(* Place p of cluster c, after x was written there.                        *)
Written(s, c, p, x) == [s EXCEPT ![c][p] = x]

(* Writing one slot changes one element of the table.                      *)
LEMMA PutLaid ==
  ASSUME NEW f, NEW s \in Slots, NEW H, NEW ch, NEW T, Laid(f, s, H, ch, T),
         NEW h \in H, NEW i \in Indexes(ch[h]), NEW x \in Entry \cup {Gone},
         NEW s2, s2 = Written(s, ch[h][i \div PerCluster + 1], i % PerCluster, x)
  PROVE  s2 \in Slots /\ Laid(f, s2, H, ch, Changed(H, ch, T, h, i, x))
<1> DEFINE T2 == Changed(H, ch, T, h, i, x)
           cell == ch[h][i \div PerCluster + 1]
           p == i % PerCluster
<1>1. cell \in Clusters /\ p \in Place
  BY CellIs
<1>2. s2 = [s EXCEPT ![cell] = [s[cell] EXCEPT ![p] = x]] /\ s[cell] \in [Place -> Entry \cup {Gone}]
  BY <1>1 DEF Slots, Written
<1> HIDE DEF cell, p
<1>9. s2 \in Slots
  <2>1. [s[cell] EXCEPT ![p] = x] \in [Place -> Entry \cup {Gone}]
    BY <1>1, <1>2
  <2> QED BY <2>1, <1>1, <1>2 DEF Slots
<1>10. \A c \in Clusters, q \in Place : s2[c][q] = IF c = cell /\ q = p THEN x ELSE s[c][q]
  BY <1>1, <1>2 DEF Slots
<1>3. ASSUME NEW g \in H
      PROVE  /\ T2[g] \in [Indexes(ch[g]) -> Entry \cup {Gone}]
             /\ \A j \in Indexes(ch[g]) :
                  T2[g][j] = s2[ch[g][j \div PerCluster + 1]][j % PerCluster]
  <2>1. T2[g] = [j \in Indexes(ch[g]) |-> IF g = h /\ j = i THEN x ELSE T[g][j]]
    BY DEF Changed
  <2>2. T[g] \in [Indexes(ch[g]) -> Entry \cup {Gone}]
    BY DEF Laid
  <2>3. ASSUME NEW j \in Indexes(ch[g])
        PROVE  T2[g][j] = s2[ch[g][j \div PerCluster + 1]][j % PerCluster]
    <3>1. /\ ch[g][j \div PerCluster + 1] \in Clusters /\ j % PerCluster \in Place
          /\ T[g][j] = s[ch[g][j \div PerCluster + 1]][j % PerCluster]
      <4>1. /\ ch[g][j \div PerCluster + 1] \in Clusters /\ j % PerCluster \in Place
        BY CellIs
      <4> QED BY <4>1 DEF Laid
    <3>2. (ch[g][j \div PerCluster + 1] = cell /\ j % PerCluster = p) <=> (g = h /\ j = i)
      BY CellsDiffer DEF cell, p
    <3> HIDE DEF T2
    <3> QED BY <3>1, <3>2, <2>1, <1>10
  <2> HIDE DEF T2
  <2> QED BY <2>1, <2>2, <2>3
<1> HIDE DEF T2
<1>4. Laid(f, s2, H, ch, T2)
  BY <1>3 DEF Laid
<1> QED BY <1>9, <1>4 DEF T2
-----------------------------------------------------------------------------
(* Chains that grow, come and go                                           *)

(* Chains that share no cluster, and the table of what they hold.          *)
Apart(f, H, ch) ==
  /\ Root \in H /\ H \subseteq Clusters
  /\ \A h \in H : Chained(f, h, ch[h])
  /\ \A g, h \in H : g # h => Set(ch[g]) \cap Set(ch[h]) = {}

Table(s, H, ch) ==
  [h \in H |-> [i \in Indexes(ch[h]) |-> s[ch[h][i \div PerCluster + 1]][i % PerCluster]]]

(* Chains that share no cluster lay out what they hold.                    *)
LEMMA TableLaid ==
  ASSUME NEW f, NEW s \in Slots, NEW H, NEW ch, Apart(f, H, ch)
  PROVE  Laid(f, s, H, ch, Table(s, H, ch))
<1> DEFINE T == Table(s, H, ch)
<1>1. ASSUME NEW h \in H
      PROVE  /\ T[h] \in [Indexes(ch[h]) -> Entry \cup {Gone}]
             /\ \A i \in Indexes(ch[h]) :
                  T[h][i] = s[ch[h][i \div PerCluster + 1]][i % PerCluster]
  <2>1. T[h] = [i \in Indexes(ch[h]) |-> s[ch[h][i \div PerCluster + 1]][i % PerCluster]]
    BY DEF Table
  <2>2. ASSUME NEW i \in Indexes(ch[h])
        PROVE  s[ch[h][i \div PerCluster + 1]][i % PerCluster] \in Entry \cup {Gone}
    <3>1. PICK q : q = ch[h]
      OBVIOUS
    <3>2. Chained(f, h, q)
      BY <3>1 DEF Apart
    <3>3. Len(q) \in Nat /\ Len(q) > 0 /\ \A k \in 1 .. Len(q) : q[k] \in Clusters
      BY <3>2, ChainedFacts
    <3>4. i \in Indexes(q)
      BY <3>1
    <3>5. i \div PerCluster + 1 \in 1 .. Len(q) /\ i % PerCluster \in Place
      BY <3>3, <3>4, IndexFacts
    <3>6. PICK d \in Clusters : d = q[i \div PerCluster + 1]
      BY <3>3, <3>5
    <3>7. s[d] \in [Place -> Entry \cup {Gone}]
      BY DEF Slots
    <3> QED BY <3>1, <3>5, <3>6, <3>7
  <2> HIDE DEF T
  <2> QED BY <2>1, <2>2
<1> HIDE DEF T
<1>2. Laid(f, s, H, ch, T)
  BY <1>1 DEF Laid, Apart
<1> QED BY <1>2 DEF T

(* A chain that grows by a free cluster.                                   *)
Longer(f2, h, q, c, r) ==
  /\ Chained(f2, h, r) /\ Set(r) = Set(q) \cup {c} /\ Len(r) = Len(q) + 1
  /\ \A i \in 1 .. Len(q) : r[i] = q[i]

(* A free cluster linked behind the last makes the chain longer by it.     *)
LEMMA ChainedGrows ==
  ASSUME NEW f \in Links, NEW h, NEW q, Chained(f, h, q), NEW c \in Clusters, f[c] = Free,
         NEW f2, f2 = [f EXCEPT ![q[Len(q)]] = c, ![c] = End]
  PROVE  Longer(f2, h, q, c, Append(q, c))
<1> DEFINE r == Append(q, c)
           last == q[Len(q)]
<1>1. /\ q \in Seq(Clusters) /\ Len(q) \in Nat /\ Len(q) > 0 /\ Len(q) \in 1 .. Len(q)
      /\ q[1] = h /\ f[last] = End /\ last \in Set(q) /\ Set(q) \subseteq Clusters
      /\ \A i \in 1 .. Len(q) : q[i] \in Set(q) /\ q[i] \in Clusters
      /\ \A d \in Set(q) : f[d] # Free
      /\ \A i \in 1 .. Len(q) - 1 : f[q[i]] = q[i + 1]
      /\ \A i, j \in 1 .. Len(q) : q[i] = q[j] => i = j
  <2>1. /\ q[1] = h
        /\ \A i \in 1 .. Len(q) - 1 : f[q[i]] = q[i + 1]
        /\ \A i, j \in 1 .. Len(q) : q[i] = q[j] => i = j
    BY DEF Chained
  <2> QED BY <2>1, ChainedFacts
<1>2. /\ r \in Seq(Clusters) /\ Len(r) = Len(q) + 1 /\ r[Len(q) + 1] = c
      /\ \A i \in 1 .. Len(q) : r[i] = q[i]
  BY <1>1
<1>3. c \notin Set(q)
  BY <1>1
<1> HIDE DEF r
<1>4. f2[c] = End /\ f2[last] = c /\ \A d \in Clusters \ {c, last} : f2[d] = f[d]
  BY <1>1, <1>3 DEF Links
<1> HIDE DEF last
<1>5. ASSUME NEW i \in 1 .. Len(r) - 1 PROVE f2[r[i]] = r[i + 1]
  <2>0. i \in 1 .. Len(q) /\ r[i] = q[i]
    BY <1>1, <1>2
  <2>1. CASE i = Len(q)
    BY <2>0, <2>1, <1>2, <1>4 DEF last
  <2>2. CASE i # Len(q)
    <3>1. i \in 1 .. Len(q) - 1 /\ i + 1 \in 1 .. Len(q)
      BY <2>0, <2>2, <1>1
    <3>2. q[i] # c /\ q[i] # last /\ q[i] \in Clusters
      BY <2>0, <2>2, <1>1, <1>3 DEF last
    <3>3. f2[q[i]] = f[q[i]] /\ f[q[i]] = q[i + 1]
      BY <3>1, <3>2, <1>1, <1>4
    <3> QED BY <3>1, <3>3, <2>0, <1>2
  <2> QED BY <2>1, <2>2
<1>6. ASSUME NEW i \in 1 .. Len(r), NEW j \in 1 .. Len(r), r[i] = r[j] PROVE i = j
  <2>1. CASE i \in 1 .. Len(q) /\ j \in 1 .. Len(q)
    BY <2>1, <1>1, <1>2, <1>6
  <2>2. CASE i \notin 1 .. Len(q) /\ j \in 1 .. Len(q)
    <3>1. i = Len(q) + 1
      BY <2>2, <1>1, <1>2
    <3> QED BY <3>1, <2>2, <1>1, <1>2, <1>3, <1>6
  <2>3. CASE i \in 1 .. Len(q) /\ j \notin 1 .. Len(q)
    <3>1. j = Len(q) + 1
      BY <2>3, <1>1, <1>2
    <3> QED BY <3>1, <2>3, <1>1, <1>2, <1>3, <1>6
  <2>4. CASE i \notin 1 .. Len(q) /\ j \notin 1 .. Len(q)
    BY <2>4, <1>1, <1>2
  <2> QED BY <2>1, <2>2, <2>3, <2>4
<1>7. r # << >> /\ r[1] = h
  <2>1. 1 \in 1 .. Len(q)
    BY <1>1
  <2>2. r # << >>
    BY <1>1, <1>2
  <2> QED BY <2>1, <2>2, <1>1, <1>2
<1>8. Chained(f2, h, r)
  BY <1>2, <1>4, <1>5, <1>6, <1>7 DEF Chained
<1>9. Set(r) = Set(q) \cup {c}
  <2>1. 1 .. Len(r) = 1 .. Len(q) \cup {Len(q) + 1}
    BY <1>1, <1>2
  <2>2. ASSUME NEW d PROVE d \in Set(r) <=> d \in Set(q) \/ d = c
    <3>1. d \in Set(r) <=> \E i \in 1 .. Len(q) \cup {Len(q) + 1} : d = r[i]
      BY <2>1 DEF Set
    <3>2. (\E i \in 1 .. Len(q) \cup {Len(q) + 1} : d = r[i])
          <=> (\E i \in 1 .. Len(q) : d = q[i]) \/ d = c
      BY <1>2
    <3> QED BY <3>1, <3>2 DEF Set
  <2> QED BY <2>2
<1> QED BY <1>2, <1>8, <1>9 DEF r, Longer

(* The longer directory holds what it held.                                *)
Extends(H, ch, T, ch2, T2) ==
  \A g \in H : /\ Len(ch2[g]) \in Nat /\ Len(ch2[g]) >= Len(ch[g])
               /\ \A i \in Indexes(ch[g]) : i \in Indexes(ch2[g]) /\ T2[g][i] = T[g][i]

(* Cluster c is linked behind cluster a.                                   *)
Linked(f, a, c) == [f EXCEPT ![a] = c, ![c] = End]

(* A directory that grows keeps what it and the others hold.               *)
LEMMA GrowLaid ==
  ASSUME NEW f \in Links, NEW s \in Slots, NEW H, NEW ch, NEW T, Laid(f, s, H, ch, T),
         NEW h \in H, NEW c \in Clusters, f[c] = Free, NEW f2,
         f2 = Linked(f, ch[h][Len(ch[h])], c)
  PROVE  /\ f2 \in Links
         /\ \E ch2, T2 : /\ Laid(f2, s, H, ch2, T2) /\ Extends(H, ch, T, ch2, T2)
                         /\ Len(ch2[h]) = Len(ch[h]) + 1
<1> DEFINE ch2 == [g \in H |-> IF g = h THEN Append(ch[h], c) ELSE ch[g]]
           T2 == Table(s, H, ch2)
<1>1. PICK q : q = ch[h]
  OBVIOUS
<1>2. /\ Root \in H /\ H \subseteq Clusters /\ \A g \in H : Chained(f, g, ch[g])
      /\ \A g, k \in H : g # k => Set(ch[g]) \cap Set(ch[k]) = {}
  BY DEF Laid
<1>3. Chained(f, h, q)
  BY <1>1, <1>2
<1>4. /\ q[Len(q)] \in Set(q) /\ q[Len(q)] \in Clusters /\ Len(q) \in Nat
  BY <1>3, ChainedFacts
<1>5. f2 \in Links
  BY <1>1, <1>4 DEF Links, Linked
<1>6. /\ Chained(f2, h, Append(q, c)) /\ Set(Append(q, c)) = Set(q) \cup {c}
      /\ Len(Append(q, c)) = Len(q) + 1
      /\ \A i \in 1 .. Len(q) : Append(q, c)[i] = q[i]
  <2>1. f2 = [f EXCEPT ![q[Len(q)]] = c, ![c] = End]
    BY <1>1 DEF Linked
  <2>2. Longer(f2, h, q, c, Append(q, c))
    BY <2>1, <1>3, ChainedGrows
  <2> QED BY <2>2 DEF Longer
<1>7. ASSUME NEW g \in H PROVE c \notin Set(ch[g])
  <2>1. \A d \in Set(ch[g]) : f[d] # Free
    BY <1>2, ChainedFacts
  <2> QED BY <2>1
<1>8. ch2[h] = Append(q, c) /\ \A g \in H \ {h} : ch2[g] = ch[g]
  BY <1>1
<1> HIDE DEF ch2
<1>9. ASSUME NEW g \in H PROVE Chained(f2, g, ch2[g])
  <2>1. CASE g = h
    BY <2>1, <1>6, <1>8
  <2>2. CASE g # h
    <3>1. Set(ch[g]) \cap Set(ch[h]) = {} /\ c \notin Set(ch[g]) /\ Set(ch[g]) \subseteq Clusters
      <4>1. Set(ch[g]) \subseteq Clusters
        BY <1>2, ChainedFacts
      <4> QED BY <4>1, <2>2, <1>2, <1>7
    <3>2. \A d \in Set(ch[g]) : f2[d] = f[d]
      BY <3>1, <1>1, <1>4 DEF Links, Linked
    <3>3. Chained(f2, g, ch[g])
      BY <3>2, <1>2, ChainedStays
    <3> QED BY <3>3, <2>2, <1>8
  <2> QED BY <2>1, <2>2
<1>10. ASSUME NEW g \in H, NEW k \in H, g # k PROVE Set(ch2[g]) \cap Set(ch2[k]) = {}
  <2>1. Set(ch[g]) \cap Set(ch[k]) = {} /\ c \notin Set(ch[g]) /\ c \notin Set(ch[k])
    BY <1>2, <1>7, <1>10
  <2>2. \A x \in H : Set(ch2[x]) = IF x = h THEN Set(ch[x]) \cup {c} ELSE Set(ch[x])
    BY <1>1, <1>6, <1>8
  <2> QED BY <2>1, <2>2, <1>10
<1>11. Apart(f2, H, ch2)
  BY <1>2, <1>9, <1>10 DEF Apart
<1>12. Laid(f2, s, H, ch2, T2)
  BY <1>11, TableLaid
<1>13. ASSUME NEW g \in H
       PROVE  /\ Len(ch2[g]) \in Nat /\ Len(ch2[g]) >= Len(ch[g])
              /\ \A i \in Indexes(ch[g]) : i \in Indexes(ch2[g]) /\ T2[g][i] = T[g][i]
  <2>1. PICK a : a = ch[g]
    OBVIOUS
  <2>2. PICK b : b = ch2[g]
    OBVIOUS
  <2>3. Len(a) \in Nat /\ Len(a) > 0
    BY <2>1, <1>2, ChainedFacts
  <2>4. Len(b) \in Nat /\ Len(b) >= Len(a) /\ \A i \in 1 .. Len(a) : b[i] = a[i]
    <3>1. CASE g = h
      BY <3>1, <2>1, <2>2, <1>1, <1>6, <1>8, <1>4
    <3>2. CASE g # h
      BY <3>2, <2>1, <2>2, <2>3, <1>8
    <3> QED BY <3>1, <3>2
  <2>5. Indexes(a) \subseteq Indexes(b)
    <3>1. PICK x \in Nat : x = Len(a)
      BY <2>3
    <3>2. PICK y \in Nat : y = Len(b)
      BY <2>4
    <3>3. PerCluster * y >= PerCluster * x /\ x * PerCluster = PerCluster * x
          /\ x * PerCluster \in Nat
      BY <2>4, <3>1, <3>2, Scaled, Consts
    <3>4. y * PerCluster = PerCluster * y /\ y * PerCluster \in Nat
      BY Consts, Scaled
    <3>5. x * PerCluster <= y * PerCluster
      BY <3>3, <3>4
    <3>6. PICK xx \in Nat, yy \in Nat : xx = x * PerCluster /\ yy = y * PerCluster
      BY <3>3, <3>4
    <3>7. 0 .. xx - 1 \subseteq 0 .. yy - 1
      BY <3>5, <3>6
    <3> QED BY <3>1, <3>2, <3>6, <3>7 DEF Indexes
  <2>6. ASSUME NEW i \in Indexes(a) PROVE T2[g][i] = T[g][i]
    <3>1. i \div PerCluster + 1 \in 1 .. Len(a)
      BY <2>3, IndexFacts
    <3>2. T[g][i] = s[a[i \div PerCluster + 1]][i % PerCluster]
      BY <2>1 DEF Laid
    <3>3. i \in Indexes(ch2[g])
      BY <2>2, <2>5
    <3>4. T2[g][i] = s[b[i \div PerCluster + 1]][i % PerCluster]
      BY <1>12, <2>2, <3>3 DEF Laid
    <3> QED BY <3>1, <3>2, <3>4, <2>4
  <2> QED BY <2>1, <2>2, <2>4, <2>5, <2>6
<1> HIDE DEF T2
<1>14. Extends(H, ch, T, ch2, T2)
  BY <1>13 DEF Extends
<1>15. Len(ch2[h]) = Len(ch[h]) + 1
  BY <1>1, <1>6, <1>8
<1> QED BY <1>5, <1>12, <1>14, <1>15

(* A new directory of one cluster.                                         *)
LEMMA Alone ==
  ASSUME NEW f, NEW c \in Clusters, f[c] = End
  PROVE  Chained(f, c, <<c>>) /\ Set(<<c>>) = {c} /\ Len(<<c>>) = 1 /\ Indexes(<<c>>) = Place
<1>1. /\ <<c>> \in Seq(Clusters) /\ Len(<<c>>) = 1 /\ <<c>>[1] = c /\ <<c>> # << >>
  OBVIOUS
<1>2. PICK q : q = <<c>>
  OBVIOUS
<1>3. /\ q \in Seq(Clusters) /\ Len(q) = 1 /\ q[1] = c /\ q # << >>
  BY <1>1, <1>2
<1>4. Chained(f, c, q)
  BY <1>3 DEF Chained
<1>5. Set(q) = {c}
  BY <1>3 DEF Set
<1>6. Indexes(q) = Place
  <2>1. Len(q) * PerCluster = PerCluster
    BY <1>3, Consts
  <2> QED BY <2>1 DEF Indexes, Place
<1> QED BY <1>2, <1>3, <1>4, <1>5, <1>6

(* Chains and table with a new directory of the one cluster c.             *)
WithChain(H, ch, c) == [g \in H \cup {c} |-> IF g = c THEN <<c>> ELSE ch[g]]
WithRow(H, T, c, row) == [g \in H \cup {c} |-> IF g = c THEN row ELSE T[g]]

(* The FAT and the slots with that cluster.                                *)
Ended(f, c) == [f EXCEPT ![c] = End]
Filled(s, c, row) == [s EXCEPT ![c] = row]

(* A free cluster becomes a directory; the others keep what they hold.     *)
LEMMA NewLaid ==
  ASSUME NEW f \in Links, NEW s \in Slots, NEW H, NEW ch, NEW T, Laid(f, s, H, ch, T),
         NEW c \in Clusters, f[c] = Free, NEW row \in [Place -> Entry \cup {Gone}],
         NEW f2, f2 = Ended(f, c), NEW s2, s2 = Filled(s, c, row)
  PROVE  /\ f2 \in Links /\ s2 \in Slots /\ c \notin H
         /\ Laid(f2, s2, H \cup {c}, WithChain(H, ch, c), WithRow(H, T, c, row))
<1> DEFINE ch2 == WithChain(H, ch, c)
           T2 == WithRow(H, T, c, row)
           H2 == H \cup {c}
<1>1. /\ Root \in H /\ H \subseteq Clusters /\ \A g \in H : Chained(f, g, ch[g])
      /\ \A g, k \in H : g # k => Set(ch[g]) \cap Set(ch[k]) = {}
  BY DEF Laid
<1>2. f2 \in Links /\ s2 \in Slots
  BY DEF Links, Slots, Ended, Filled
<1>3. /\ f2[c] = End /\ s2[c] = row
      /\ \A d \in Clusters : d # c => f2[d] = f[d] /\ s2[d] = s[d]
  BY DEF Links, Slots, Ended, Filled
<1>4. ASSUME NEW g \in H PROVE c \notin Set(ch[g]) /\ g # c /\ Set(ch[g]) \subseteq Clusters
  <2>1. g \in Set(ch[g]) /\ Set(ch[g]) \subseteq Clusters /\ \A d \in Set(ch[g]) : f[d] # Free
    BY <1>1, ChainedFacts
  <2> QED BY <2>1
<1>5. /\ ch2[c] = <<c>> /\ T2[c] = row /\ \A g \in H : ch2[g] = ch[g] /\ T2[g] = T[g]
  BY <1>4 DEF WithChain, WithRow
<1> HIDE DEF ch2, T2
<1>6. Chained(f2, c, <<c>>) /\ Set(<<c>>) = {c} /\ Len(<<c>>) = 1 /\ Indexes(<<c>>) = Place
  BY <1>3, Alone
<1>7. ASSUME NEW g \in H2
      PROVE  /\ Chained(f2, g, ch2[g]) /\ T2[g] \in [Indexes(ch2[g]) -> Entry \cup {Gone}]
             /\ \A i \in Indexes(ch2[g]) :
                  T2[g][i] = s2[ch2[g][i \div PerCluster + 1]][i % PerCluster]
  <2>1. CASE g = c
    <3>1. PICK q : q = <<c>>
      OBVIOUS
    <3>2. ch2[g] = q /\ q[1] = c /\ Len(q) = 1 /\ Indexes(q) = Place /\ Chained(f2, g, q)
      BY <2>1, <3>1, <1>5, <1>6
    <3>3. ASSUME NEW i \in Place PROVE i \div PerCluster = 0 /\ i % PerCluster = i
      BY Consts DEF Place
    <3>4. ASSUME NEW i \in Place PROVE T2[g][i] = s2[q[i \div PerCluster + 1]][i % PerCluster]
      BY <2>1, <3>2, <3>3, <1>3, <1>5
    <3> QED BY <2>1, <3>2, <3>4, <1>5
  <2>2. CASE g \in H
    <3>1. T[g] \in [Indexes(ch[g]) -> Entry \cup {Gone}]
      BY <2>2 DEF Laid
    <3>2. \A d \in Set(ch[g]) : f2[d] = f[d]
      BY <2>2, <1>3, <1>4
    <3>3. Chained(f2, g, ch[g])
      BY <2>2, <3>2, <1>1, ChainedStays
    <3>4. ASSUME NEW i \in Indexes(ch[g])
          PROVE  T[g][i] = s2[ch[g][i \div PerCluster + 1]][i % PerCluster]
      <4>1. ch[g][i \div PerCluster + 1] \in Set(ch[g])
        BY <2>2, CellIs
      <4>2. T[g][i] = s[ch[g][i \div PerCluster + 1]][i % PerCluster]
        BY <2>2 DEF Laid
      <4> QED BY <4>1, <4>2, <2>2, <1>3, <1>4
    <3> QED BY <2>2, <3>1, <3>3, <3>4, <1>5
  <2> QED BY <2>1, <2>2
<1>8. ASSUME NEW g \in H2, NEW k \in H2, g # k PROVE Set(ch2[g]) \cap Set(ch2[k]) = {}
  <2>1. CASE g \in H /\ k \in H
    BY <2>1, <1>1, <1>5, <1>8
  <2>2. CASE g = c
    <3>1. k \in H /\ Set(ch2[g]) = {c} /\ Set(ch2[k]) = Set(ch[k])
      BY <2>2, <1>5, <1>6, <1>8
    <3> QED BY <3>1, <1>4
  <2>3. CASE k = c
    <3>1. g \in H /\ Set(ch2[k]) = {c} /\ Set(ch2[g]) = Set(ch[g])
      BY <2>3, <1>5, <1>6, <1>8
    <3> QED BY <3>1, <1>4
  <2> QED BY <2>1, <2>2, <2>3
<1>9. Laid(f2, s2, H2, ch2, T2)
  <2>1. Root \in H2 /\ H2 \subseteq Clusters
    BY <1>1
  <2> HIDE DEF H2
  <2> QED BY <2>1, <1>7, <1>8 DEF Laid
<1> QED BY <1>2, <1>4, <1>9 DEF ch2, T2, H2

(* A directory that goes: some of its clusters become free, the others are *)
(* nobody's.                                                               *)
Freed(f, D) == [d \in Clusters |-> IF d \in D THEN Free ELSE f[d]]

(* A directory goes, and the others keep what they hold.                   *)
LEMMA DropLaid ==
  ASSUME NEW f \in Links, NEW s, NEW H, NEW ch, NEW T, Laid(f, s, H, ch, T),
         NEW c \in H \ {Root}, NEW D, D \subseteq Set(ch[c]),
         NEW f2, f2 = Freed(f, D)
  PROVE  f2 \in Links /\ Laid(f2, s, H \ {c}, ch, T)
<1>1. /\ Root \in H /\ H \subseteq Clusters /\ \A g \in H : Chained(f, g, ch[g])
      /\ \A g, k \in H : g # k => Set(ch[g]) \cap Set(ch[k]) = {}
  BY DEF Laid
<1>2. f2 \in Links
  BY DEF Links, Freed
<1>3. ASSUME NEW g \in H \ {c} PROVE Chained(f2, g, ch[g])
  <2>1. Set(ch[g]) \subseteq Clusters
    BY <1>1, ChainedFacts
  <2>2. \A d \in Set(ch[g]) : f2[d] = f[d]
    BY <2>1, <1>1 DEF Freed
  <2> QED BY <2>2, <1>1, ChainedStays
<1> QED BY <1>1, <1>2, <1>3 DEF Laid

(* What removing a directory frees is in its chain.                        *)
LEMMA ChainOfIs ==
  ASSUME NEW H, NEW ch, NEW T, Laid(fat, slot, H, ch, T), NEW h \in H
  PROVE  ChainOf(h) \subseteq Set(ch[h])
<1>1. Chained(fat, h, ch[h])
  BY DEF Laid
<1>2. PICK q : q = ch[h]
  OBVIOUS
<1>3. Len(q) \in Nat /\ \A i \in 1 .. Len(q) : q[i] \in Set(q)
  BY <1>1, <1>2, ChainedFacts
<1>4. PICK f : f = fat
  OBVIOUS
<1>5. ASSUME NEW k \in Nat, Nth(f, h, k) \in Clusters PROVE Nth(f, h, k) \in Set(q)
  <2>1. Nth(f, h, k) = IF k < Len(q) THEN q[k + 1] ELSE End
    BY <1>1, <1>2, <1>4, NthIs
  <2> QED BY <2>1, <1>3, <1>5, Consts
<1>6. \A k \in 0 .. MaxIndex + 1 : k \in Nat
  OBVIOUS
<1> QED BY <1>2, <1>4, <1>5, <1>6 DEF ChainOf
-----------------------------------------------------------------------------
(* Entries                                                                 *)

(* The entry of a directory with its length set.                           *)
Lengthened(e, n) == [e EXCEPT !.length = n]

(* The fields of an entry.                                                 *)
LEMMA EntryFields ==
  ASSUME NEW e \in Entry
  PROVE  /\ e.name \in Names \cup {".", ".."} /\ e.dir \in BOOLEAN
         /\ e.cluster \in Clusters \cup {Null} /\ e.length \in Lengths /\ e.back \in Lengths
         /\ e # Gone
BY Consts DEF Entry

(* Setting the length changes nothing else.                                *)
LEMMA LengthenedIs ==
  ASSUME NEW e \in Entry, NEW n \in Lengths
  PROVE  /\ Lengthened(e, n) \in Entry /\ Lengthened(e, n).name = e.name
         /\ (Lengthened(e, n).dir <=> e.dir) /\ Lengthened(e, n).cluster = e.cluster
         /\ Lengthened(e, n).length = n /\ Lengthened(e, n).back = e.back
         /\ Lengthened(e, n) # Gone
<1>1. Lengthened(e, n) \in Entry
  BY DEF Lengthened, Entry
<1>2. /\ Lengthened(e, n).name = e.name
      /\ Lengthened(e, n).cluster = e.cluster
      /\ Lengthened(e, n).length = n /\ Lengthened(e, n).back = e.back
  BY DEF Lengthened, Entry
<1>3. Lengthened(e, n).dir <=> e.dir
  BY DEF Lengthened, Entry
<1> QED BY <1>1, <1>2, <1>3, EntryFields

(* The entries made for files and directories.                             *)
LEMMA Makes ==
  ASSUME NEW n \in Names
  PROVE  /\ File(n) \in Entry /\ File(n).name = n /\ ~ File(n).dir /\ File(n) # Gone
         /\ \A c \in Clusters : /\ Dir(n, c) \in Entry /\ Dir(n, c).name = n /\ Dir(n, c).dir
                                /\ Dir(n, c).cluster = c /\ Dir(n, c).length = 2
                                /\ Dir(n, c) # Gone
<1>1. 0 \in Lengths /\ 2 \in Lengths
  BY Consts DEF Lengths
<1>2. File(n) \in Entry /\ File(n).name = n
  BY <1>1 DEF File, Entry
<1>3. ~ File(n).dir
  BY DEF File
<1>4. ASSUME NEW c \in Clusters
      PROVE  /\ Dir(n, c) \in Entry /\ Dir(n, c).name = n
             /\ Dir(n, c).cluster = c /\ Dir(n, c).length = 2
  BY <1>1 DEF Dir, Entry
<1>5. ASSUME NEW c \in Clusters PROVE Dir(n, c).dir
  BY DEF Dir
<1> QED BY <1>2, <1>3, <1>4, <1>5, Consts

(* The entries "." and ".." of a new directory.                            *)
LEMMA MakesSelf ==
  ASSUME NEW c \in Clusters, NEW k \in Lengths, NEW n \in Lengths
  PROVE  /\ Self(c, k, n) \in Entry /\ Self(c, k, n).name = "." /\ Self(c, k, n).cluster = c
         /\ Self(c, k, n).length = n /\ Self(c, k, n).back = k /\ Self(c, k, n).dir
         /\ Above \in Entry /\ Above.name = ".." /\ Above # Gone /\ Self(c, k, n) # Gone
<1>1. 0 \in Lengths /\ 2 \in Lengths
  BY Consts DEF Lengths
<1>2. Above \in Entry /\ Above.name = ".."
  BY <1>1, Consts DEF Above, Entry
<1>3. Self(c, k, n) \in Entry
  BY <1>1 DEF Self, Entry
<1>4. /\ Self(c, k, n).name = "." /\ Self(c, k, n).cluster = c
      /\ Self(c, k, n).length = n /\ Self(c, k, n).back = k
  BY DEF Self
<1>5. Self(c, k, n).dir
  BY DEF Self
<1> QED BY <1>2, <1>3, <1>4, <1>5, Consts

(* A place is a directory and a number.                                    *)
LEMMA LocIs ==
  ASSUME NEW d, NEW i
  PROVE  /\ Loc(d, i).dir = d /\ Loc(d, i).at = i
         /\ \A e, j : Loc(d, i) = Loc(e, j) <=> d = e /\ i = j
BY DEF Loc
-----------------------------------------------------------------------------
(* The tree: what follows from Good                                        *)

(* What is left of Laid when only the table counts.                        *)
Sized(H, ch, T) ==
  /\ Root \in H /\ H \subseteq Clusters
  /\ \A h \in H : /\ Len(ch[h]) \in Nat /\ Len(ch[h]) > 0
                  /\ \A i \in Indexes(ch[h]) : T[h][i] \in Entry \cup {Gone}

(* What is laid out has its sizes.                                         *)
LEMMA LaidSized ==
  ASSUME NEW f, NEW s, NEW H, NEW ch, NEW T, Laid(f, s, H, ch, T)
  PROVE  Sized(H, ch, T)
<1>1. /\ Root \in H /\ H \subseteq Clusters /\ \A h \in H : Chained(f, h, ch[h])
      /\ \A h \in H : T[h] \in [Indexes(ch[h]) -> Entry \cup {Gone}]
  BY DEF Laid
<1>2. ASSUME NEW h \in H PROVE Len(ch[h]) \in Nat /\ Len(ch[h]) > 0
  BY <1>1, ChainedFacts
<1> QED BY <1>1, <1>2 DEF Sized

(* What Good says of one directory, with the one above: its own entry is   *)
(* within the length of that one.                                          *)
DirFacts(H, ch, T, h) ==
  /\ T[h][0] \in Entry /\ T[h][0].name = "." /\ T[h][1] = Above
  /\ T[h][0].cluster \in H /\ T[h][0].back \in Indexes(ch[T[h][0].cluster])
  /\ T[h][0].back \in Nat /\ T[h][0].back # 1
  /\ T[T[h][0].cluster][T[h][0].back] # Gone
  /\ T[h][0].back < Ent(T, T[h][0].cluster).length
  /\ Ent(T, h) \in Entry /\ Ent(T, h).dir /\ Ent(T, h).cluster = h
  /\ Ent(T, h).length \in Nat /\ Ent(T, h).length >= 2 /\ Ent(T, h).length \in Lengths
  /\ Ent(T, h).length <= Len(ch[h]) * PerCluster /\ Len(ch[h]) * PerCluster \in Nat
  /\ \A i \in 0 .. Ent(T, h).length - 1 : i \in Indexes(ch[h])
  /\ \A i \in Used(T, h) : /\ i \in Indexes(ch[h]) /\ i \in Nat /\ i >= 2
                           /\ i < Ent(T, h).length /\ i \in Lengths
                           /\ T[h][i] \in Entry /\ T[h][i] # Gone

(* In a good tree every directory has these facts.                         *)
LEMMA GoodFacts ==
  ASSUME NEW H, NEW ch, NEW T, Sized(H, ch, T), Good(H, ch, T), NEW h \in H
  PROVE  DirFacts(H, ch, T, h)
<1>1. ASSUME NEW g \in H
      PROVE  /\ Ent(T, g) \in Entry /\ Ent(T, g).dir /\ Ent(T, g).cluster = g
             /\ Ent(T, g).length \in Nat /\ Ent(T, g).length >= 2
             /\ Ent(T, g).length \in Lengths
             /\ Ent(T, g).length <= Len(ch[g]) * PerCluster /\ Len(ch[g]) * PerCluster \in Nat
             /\ \A i \in 0 .. Ent(T, g).length - 1 : i \in Indexes(ch[g])
             /\ \A i \in Used(T, g) : /\ i \in Indexes(ch[g]) /\ i \in Nat /\ i >= 2
                                      /\ i < Ent(T, g).length /\ i \in Lengths
                                      /\ T[g][i] \in Entry /\ T[g][i] # Gone
  <2>1. /\ Ent(T, g) \in Entry /\ Ent(T, g).dir /\ Ent(T, g).cluster = g
        /\ Ent(T, g).length \in 2 .. Len(ch[g]) * PerCluster
    BY DEF Good, DirOK
  <2>2. Ent(T, g).length \in Lengths
    BY <2>1, EntryFields
  <2>3. PICK m : m = Ent(T, g).length
    OBVIOUS
  <2>4. m \in Nat /\ m >= 2 /\ m \in Lengths
    BY <2>2, <2>3, <2>1, Consts DEF Lengths
  <2>5. PICK z : z = Len(ch[g]) * PerCluster
    OBVIOUS
  <2>6. z \in Nat
    <3>1. Len(ch[g]) \in Nat
      BY DEF Sized
    <3>2. PICK y \in Nat : y = Len(ch[g])
      BY <3>1
    <3>3. y * PerCluster \in Nat
      BY Consts, Scaled
    <3> QED BY <2>5, <3>2, <3>3
  <2>7. m <= z
    BY <2>1, <2>3, <2>4, <2>5, <2>6
  <2>8. \A i \in 0 .. m - 1 : i \in Indexes(ch[g])
    BY <2>4, <2>5, <2>6, <2>7 DEF Indexes
  <2>9. ASSUME NEW i \in Used(T, g)
        PROVE  /\ i \in Indexes(ch[g]) /\ i \in Nat /\ i >= 2 /\ i < m /\ i \in Lengths
               /\ T[g][i] \in Entry /\ T[g][i] # Gone
    <3>1. i \in 2 .. m - 1 /\ T[g][i] # Gone
      BY <2>3 DEF Used
    <3>2. i \in 0 .. m - 1 /\ i \in Nat /\ i >= 2 /\ i < m /\ i \in Lengths
      BY <3>1, <2>4, Consts DEF Lengths
    <3> QED BY <3>1, <3>2, <2>8 DEF Sized
  <2> QED BY <2>1, <2>3, <2>4, <2>5, <2>6, <2>7, <2>8, <2>9
<1>2. /\ T[h][0] \in Entry /\ T[h][0].name = "." /\ T[h][1] = Above
  BY DEF Good, DirOK
<1>3. /\ T[h][0].cluster \in H /\ T[h][0].back \in Indexes(ch[T[h][0].cluster])
      /\ T[h][0].back \in Nat /\ T[h][0].back # 1
      /\ T[T[h][0].cluster][T[h][0].back] # Gone
      /\ T[h][0].back < Ent(T, T[h][0].cluster).length
  <2>1. CASE h = Root
    <3>1. T[h][0].cluster = Root /\ T[h][0].back = 0
      <4>1. Home(T, h) = Top
        BY <2>1 DEF Good, DirOK
      <4> QED BY <4>1 DEF Home, Top, Loc
    <3>2. T[h][0] # Gone
      BY <1>2, Consts
    <3>3. 0 \in 0 .. Ent(T, h).length - 1
      BY <1>1
    <3>4. 0 \in Indexes(ch[h])
      BY <3>3, <1>1
    <3> QED BY <3>1, <3>2, <3>4, <2>1, <1>1
  <2>2. CASE h # Root
    <3>1. T[h][0].cluster \in H /\ T[h][0].back \in Used(T, T[h][0].cluster)
      BY <2>2 DEF Good, DirOK
    <3> QED BY <3>1, <1>1
  <2> QED BY <2>1, <2>2
<1> QED BY <1>1, <1>2, <1>3 DEF DirFacts

(* Two directories have their entries in two places.                       *)
LEMMA HomesDiffer ==
  ASSUME NEW H, NEW ch, NEW T, Sized(H, ch, T), Good(H, ch, T), NEW g \in H, NEW h \in H,
         Home(T, g) = Home(T, h)
  PROVE  g = h
<1>1. T[g][0].cluster = T[h][0].cluster /\ T[g][0].back = T[h][0].back
  BY LocIs DEF Home
<1>2. Ent(T, g) = Ent(T, h)
  BY <1>1 DEF Ent
<1>3. Ent(T, g).cluster = g /\ Ent(T, h).cluster = h
  BY GoodFacts DEF DirFacts
<1> QED BY <1>2, <1>3

(* A directory that got longer is the same directory.                      *)
LEMMA ExtendsGood ==
  ASSUME NEW H, NEW ch, NEW T, Sized(H, ch, T), Good(H, ch, T),
         NEW ch2, NEW T2, Extends(H, ch, T, ch2, T2), Sized(H, ch2, T2)
  PROVE  /\ Good(H, ch2, T2)
         /\ \A h \in H : /\ Home(T2, h) = Home(T, h) /\ Ent(T2, h) = Ent(T, h)
                         /\ Used(T2, h) = Used(T, h)
         /\ \A x \in Handle : HandleOK(H, T, x) => HandleOK(H, T2, x)
<1>1. ASSUME NEW h \in H PROVE DirFacts(H, ch, T, h)
  BY GoodFacts
<1>2. ASSUME NEW h \in H, NEW i \in Indexes(ch[h]) PROVE T2[h][i] = T[h][i]
  BY DEF Extends
<1>3. ASSUME NEW h \in H PROVE T2[h][0] = T[h][0] /\ T2[h][1] = T[h][1]
  <2>1. 0 \in Indexes(ch[h]) /\ 1 \in Indexes(ch[h])
    BY IndexFacts DEF Sized
  <2> QED BY <2>1, <1>2
<1>4. ASSUME NEW h \in H PROVE Home(T2, h) = Home(T, h) /\ Ent(T2, h) = Ent(T, h)
  <2>1. T[h][0].cluster \in H /\ T[h][0].back \in Indexes(ch[T[h][0].cluster])
    BY <1>1 DEF DirFacts
  <2> QED BY <2>1, <1>2, <1>3 DEF Home, Ent
<1>5. ASSUME NEW h \in H PROVE Used(T2, h) = Used(T, h)
  <2>1. /\ Ent(T, h).length \in Nat
        /\ \A i \in 0 .. Ent(T, h).length - 1 : i \in Indexes(ch[h])
    BY <1>1 DEF DirFacts
  <2>2. \A i \in 2 .. Ent(T, h).length - 1 : T2[h][i] = T[h][i]
    BY <2>1, <1>2
  <2> QED BY <2>2, <1>4 DEF Used
<1>6. ASSUME NEW h \in H, NEW i \in Used(T, h) PROVE T2[h][i] = T[h][i]
  BY <1>1, <1>2 DEF DirFacts
<1>7. ASSUME NEW h \in H PROVE DirOK(H, ch2, T2, h)
  <2>1. DirOK(H, ch, T, h)
    BY DEF Good
  <2>2. Ent(T, h).length \in 2 .. Len(ch2[h]) * PerCluster
    <3>1. PICK m \in Nat : m = Ent(T, h).length
      BY <1>1 DEF DirFacts
    <3>2. PICK y \in Nat : y = Len(ch[h])
      BY DEF Sized
    <3>3. PICK z \in Nat : z = Len(ch2[h])
      BY DEF Sized
    <3>4. z >= y
      BY <3>2, <3>3 DEF Extends
    <3>5. PerCluster * z >= PerCluster * y /\ y * PerCluster \in Nat /\ y * PerCluster = PerCluster * y
      BY <3>4, Consts, Scaled
    <3>6. z * PerCluster \in Nat /\ z * PerCluster = PerCluster * z
      BY Consts, Scaled
    <3>7. m >= 2 /\ m <= y * PerCluster
      BY <3>1, <3>2, <1>1 DEF DirFacts
    <3>8. m \in 2 .. z * PerCluster
      BY <3>5, <3>6, <3>7
    <3> QED BY <3>1, <3>3, <3>8
  <2>3. IF h = Root THEN Home(T2, h) = Top
        ELSE T2[h][0].cluster \in H /\ T2[h][0].back \in Used(T2, T2[h][0].cluster)
    BY <2>1, <1>3, <1>4, <1>5 DEF DirOK
  <2>4. ASSUME NEW i \in Used(T2, h) PROVE Item(H, T2, h, i)
    <3>1. i \in Used(T, h) /\ T2[h][i] = T[h][i]
      BY <1>5, <1>6
    <3>2. Item(H, T, h, i)
      BY <3>1, <2>1 DEF DirOK
    <3> QED BY <3>1, <3>2, <1>4 DEF Item
  <2>5. ASSUME NEW i \in Used(T2, h), NEW j \in Used(T2, h), T2[h][i].name = T2[h][j].name
        PROVE  i = j
    <3>1. /\ i \in Used(T, h) /\ T2[h][i] = T[h][i]
          /\ j \in Used(T, h) /\ T2[h][j] = T[h][j]
      BY <1>5, <1>6
    <3> QED BY <3>1, <2>1, <2>5 DEF DirOK
  <2>6. /\ T2[h][0] \in Entry /\ T2[h][0].name = "." /\ T2[h][1] = Above
        /\ Ent(T2, h) \in Entry /\ Ent(T2, h).dir /\ Ent(T2, h).cluster = h
    BY <2>1, <1>3, <1>4 DEF DirOK
  <2> QED BY <2>2, <2>3, <2>4, <2>5, <2>6, <1>4 DEF DirOK
<1>8. ASSUME NEW x \in Handle, HandleOK(H, T, x) PROVE HandleOK(H, T2, x)
  <2>1. ASSUME FileHandle(H, T, x) PROVE FileHandle(H, T2, x)
    BY <2>1, <1>4, <1>5, <1>6 DEF FileHandle
  <2>2. ASSUME DirHandle(H, T, x) PROVE DirHandle(H, T2, x)
    <3>1. x.head \in H /\ x.size <= Ent(T, x.head).length /\ x.size \in Nat /\ x.pos \in Nat
      BY <2>2, Consts DEF DirHandle, Handle, Lengths
    <3>2. \A j \in x.pos .. x.size - 1 : T2[x.head][j] = T[x.head][j]
      <4>1. PICK m \in Nat : m = Ent(T, x.head).length /\ \A i \in 0 .. m - 1 : i \in Indexes(ch[x.head])
        BY <3>1, <1>1 DEF DirFacts
      <4>2. \A j \in x.pos .. x.size - 1 : j \in 0 .. m - 1
        BY <3>1, <4>1
      <4> QED BY <4>1, <4>2, <3>1, <1>2
    <3>3. Left(T2, x) = Left(T, x)
      BY <3>2 DEF Left
    <3> QED BY <2>2, <3>1, <3>3, <1>4 DEF DirHandle
  <2> QED BY <2>1, <2>2, <1>8 DEF HandleOK
<1>9. Ranked(H, T2)
  <2>1. PICK r : Rank(H, T, r)
    BY DEF Good, Ranked
  <2>2. Rank(H, T2, r)
    BY <2>1, <1>3 DEF Rank
  <2> QED BY <2>2 DEF Ranked
<1> QED BY <1>4, <1>5, <1>7, <1>8, <1>9 DEF Good
-----------------------------------------------------------------------------
(* An entry comes                                                          *)

(* Entry x is put in slot k of directory h, which has the length n then.   *)
Edited(H, ch, T, h, k, x, n, T2) ==
  \A g \in H : \A j \in Indexes(ch[g]) :
    T2[g][j] = IF g = h /\ j = k THEN x
               ELSE IF Loc(g, j) = Home(T, h) THEN Lengthened(T[g][j], n) ELSE T[g][j]

(* A slot for a new entry: one that is empty, or the one after the last.   *)
Vacant(ch, T, h, k) ==
  /\ k \in Indexes(ch[h]) /\ k \in 2 .. Ent(T, h).length
  /\ k = Ent(T, h).length \/ T[h][k] = Gone

(* The length with an entry in slot k.                                     *)
LengthWith(T, h, k) == IF k = Ent(T, h).length THEN Ent(T, h).length + 1 ELSE Ent(T, h).length

(* What a directory g is after that: its place and its entry stay, but for *)
(* the length of h and the slot k.                                         *)
EditFacts(H, ch, T, h, k, x, n, T2, g) ==
  /\ T2[g][0] \in Entry /\ T2[g][0].name = "." /\ T2[g][1] = Above
  /\ T2[g][0].cluster = T[g][0].cluster /\ T2[g][0].back = T[g][0].back
  /\ Home(T2, g) = Home(T, g)
  /\ Ent(T2, g) = IF g = h THEN Lengthened(Ent(T, h), n) ELSE Ent(T, g)
  /\ Ent(T2, g) \in Entry /\ Ent(T2, g).dir /\ Ent(T2, g).cluster = g
  /\ Ent(T2, g).length = IF g = h THEN n ELSE Ent(T, g).length
  /\ Used(T2, g) = IF g = h THEN Used(T, h) \cup {k} ELSE Used(T, g)
  /\ \A j \in Indexes(ch[g]) :
       g # h \/ j # k =>
         /\ (T2[g][j] = Gone <=> T[g][j] = Gone)
         /\ T[g][j] # Gone => /\ T2[g][j].name = T[g][j].name
                              /\ (T2[g][j].dir <=> T[g][j].dir)
                              /\ T2[g][j].cluster = T[g][j].cluster
                              /\ ~ T[g][j].dir => T2[g][j] = T[g][j]

(* Putting an entry in a vacant slot does this to every directory.         *)
LEMMA EditIs ==
  ASSUME NEW H, NEW ch, NEW T, Sized(H, ch, T), Good(H, ch, T), NEW h \in H,
         NEW k, Vacant(ch, T, h, k), NEW x \in Entry, NEW n \in Lengths,
         n = LengthWith(T, h, k), NEW T2, Edited(H, ch, T, h, k, x, n, T2), NEW g \in H
  PROVE  EditFacts(H, ch, T, h, k, x, n, T2, g)
<1>1. ASSUME NEW d \in H PROVE DirFacts(H, ch, T, d)
  BY GoodFacts
<1>2. ASSUME NEW d \in H, NEW j \in Indexes(ch[d])
      PROVE  T2[d][j] = IF d = h /\ j = k THEN x
                        ELSE IF Loc(d, j) = Home(T, h) THEN Lengthened(T[d][j], n) ELSE T[d][j]
  BY DEF Edited
<1>3. PICK m \in Nat : m = Ent(T, h).length /\ m >= 2
  BY <1>1 DEF DirFacts
<1>4. /\ k \in Nat /\ k >= 2 /\ k <= m /\ k \in Indexes(ch[h])
      /\ k = m \/ (k < m /\ T[h][k] = Gone)
      /\ n = IF k = m THEN m + 1 ELSE m
  BY <1>3 DEF Vacant, LengthWith
<1>5. PICK u \in H, b \in Nat :
        /\ u = T[h][0].cluster /\ b = T[h][0].back /\ b \in Indexes(ch[u]) /\ b # 1
        /\ T[u][b] # Gone /\ Ent(T, h) = T[u][b] /\ T[u][b] \in Entry /\ T[u][b].dir
        /\ Home(T, h) = Loc(u, b)
  BY <1>1 DEF DirFacts, Ent, Home
<1>6. 0 \in Indexes(ch[g]) /\ 1 \in Indexes(ch[g])
  BY IndexFacts DEF Sized
<1>7. /\ T[g][0] \in Entry /\ T[g][0].name = "." /\ T[g][1] = Above
  BY <1>1 DEF DirFacts
<1>8. /\ T2[g][0] \in Entry /\ T2[g][0].name = "."
      /\ T2[g][0].cluster = T[g][0].cluster /\ T2[g][0].back = T[g][0].back
  <2>1. T2[g][0] = IF Loc(g, 0) = Home(T, h) THEN Lengthened(T[g][0], n) ELSE T[g][0]
    BY <1>2, <1>4, <1>6
  <2> QED BY <2>1, <1>7, LengthenedIs
<1>9. T2[g][1] = Above
  <2>1. T2[g][1] = IF Loc(g, 1) = Home(T, h) THEN Lengthened(T[g][1], n) ELSE T[g][1]
    BY <1>2, <1>4, <1>6
  <2>2. Loc(g, 1) # Home(T, h)
    BY <1>5, LocIs
  <2> QED BY <2>1, <2>2, <1>7
<1>10. Home(T2, g) = Home(T, g)
  BY <1>8 DEF Home
<1>11. PICK v \in H, a \in Nat :
        /\ v = T[g][0].cluster /\ a = T[g][0].back /\ a \in Indexes(ch[v])
        /\ T[v][a] # Gone /\ a < Ent(T, v).length /\ Ent(T, g) = T[v][a]
        /\ Home(T, g) = Loc(v, a)
  BY <1>1 DEF DirFacts, Ent, Home
<1>12. ~ (v = h /\ a = k)
  BY <1>3, <1>4, <1>11
<1>13. Ent(T2, g) = T2[v][a]
  BY <1>8, <1>11 DEF Ent
<1>14. Ent(T2, g) = IF g = h THEN Lengthened(Ent(T, h), n) ELSE Ent(T, g)
  <2>1. T2[v][a] = IF Loc(v, a) = Home(T, h) THEN Lengthened(T[v][a], n) ELSE T[v][a]
    BY <1>2, <1>11, <1>12
  <2>2. Loc(v, a) = Home(T, h) <=> g = h
    BY <1>11, HomesDiffer
  <2> QED BY <2>1, <2>2, <1>11, <1>13
<1>15. /\ Ent(T2, g) \in Entry /\ Ent(T2, g).dir /\ Ent(T2, g).cluster = g
       /\ Ent(T2, g).length = IF g = h THEN n ELSE Ent(T, g).length
  <2>1. Ent(T, g) \in Entry /\ Ent(T, g).dir /\ Ent(T, g).cluster = g
    BY <1>1 DEF DirFacts
  <2>2. CASE g = h
    BY <2>1, <2>2, <1>14, LengthenedIs
  <2>3. CASE g # h
    BY <2>1, <2>3, <1>14
  <2> QED BY <2>2, <2>3
<1>16. ASSUME NEW j \in Indexes(ch[g]), g # h \/ j # k
       PROVE  /\ (T2[g][j] = Gone <=> T[g][j] = Gone)
              /\ T[g][j] # Gone => /\ T2[g][j].name = T[g][j].name
                                   /\ (T2[g][j].dir <=> T[g][j].dir)
                                   /\ T2[g][j].cluster = T[g][j].cluster
                                   /\ ~ T[g][j].dir => T2[g][j] = T[g][j]
  <2>1. CASE Loc(g, j) = Home(T, h)
    <3>1. g = u /\ j = b
      BY <2>1, <1>5, LocIs
    <3>2. T[g][j] \in Entry /\ T[g][j].dir /\ T[g][j] # Gone
      BY <3>1, <1>5
    <3>3. T2[g][j] = Lengthened(T[g][j], n)
      BY <2>1, <1>2, <1>16
    <3> QED BY <3>2, <3>3, LengthenedIs
  <2>2. CASE Loc(g, j) # Home(T, h)
    <3>1. T2[g][j] = T[g][j]
      BY <2>2, <1>2, <1>16
    <3> QED BY <3>1
  <2> QED BY <2>1, <2>2
<1>17. Used(T2, g) = IF g = h THEN Used(T, h) \cup {k} ELSE Used(T, g)
  <2>1. CASE g # h
    <3>1. PICK z \in Nat : z = Ent(T, g).length /\ \A i \in 0 .. z - 1 : i \in Indexes(ch[g])
      BY <1>1 DEF DirFacts
    <3>2. Ent(T2, g).length = z
      BY <3>1, <2>1, <1>15
    <3>3. \A i \in 2 .. z - 1 : T2[g][i] = Gone <=> T[g][i] = Gone
      BY <3>1, <2>1, <1>16
    <3> QED BY <3>1, <3>2, <3>3, <2>1 DEF Used
  <2>2. CASE g = h
    <3>1. \A i \in 0 .. m - 1 : i \in Indexes(ch[g])
      BY <2>2, <1>1, <1>3 DEF DirFacts
    <3>2. Ent(T2, g).length = n
      BY <2>2, <1>15
    <3>3. \A i \in 2 .. m - 1 : i # k => (T2[g][i] = Gone <=> T[g][i] = Gone)
      BY <3>1, <1>16
    <3>4. T2[g][k] = x /\ x # Gone
      BY <2>2, <1>2, <1>4, Consts
    <3>5. \A i : i \in 2 .. n - 1 <=> i \in 2 .. m - 1 \/ i = k
      BY <1>3, <1>4
    <3>6. \A i : i \in Used(T2, g) <=> i \in 2 .. n - 1 /\ T2[g][i] # Gone
      BY <3>2 DEF Used
    <3>7. \A i : i \in Used(T, g) <=> i \in 2 .. m - 1 /\ T[g][i] # Gone
      BY <2>2, <1>3 DEF Used
    <3>8. \A i : i \in Used(T2, g) <=> i \in Used(T, g) \/ i = k
      BY <3>3, <3>4, <3>5, <3>6, <3>7
    <3> QED BY <3>8, <2>2
  <2> QED BY <2>1, <2>2
<1> QED BY <1>8, <1>9, <1>10, <1>14, <1>15, <1>16, <1>17 DEF EditFacts

(* The directories with the new one, when the entry is a directory.        *)
With(H, x) == IF x.dir THEN H \cup {x.cluster} ELSE H

(* The new entry is that of a file, or of a new directory that knows the   *)
(* way back.                                                               *)
Fits(H, ch, T2, h, k, x) ==
  \/ x = File(x.name)
  \/ /\ x.cluster \in Clusters \ H /\ x = Dir(x.name, x.cluster)
     /\ Len(ch[x.cluster]) = 1
     /\ T2[x.cluster][0] = Self(h, k, 0) /\ T2[x.cluster][1] = Above

(* With such an entry under a name that was not there the tree is good.    *)
LEMMA InsertGood ==
  ASSUME NEW H, NEW ch, NEW T, Sized(H, ch, T), Good(H, ch, T), NEW h \in H,
         NEW k, Vacant(ch, T, h, k), NEW x \in Entry, NEW n \in Lengths,
         n = LengthWith(T, h, k), x.name \in Names, \A i \in Used(T, h) : T[h][i].name # x.name,
         NEW T2, Edited(H, ch, T, h, k, x, n, T2), Fits(H, ch, T2, h, k, x)
  PROVE  Good(With(H, x), ch, T2)
<1>1. ASSUME NEW d \in H PROVE DirFacts(H, ch, T, d)
  BY GoodFacts
<1>2. ASSUME NEW d \in H PROVE EditFacts(H, ch, T, h, k, x, n, T2, d)
  BY EditIs
<1>3. PICK m \in Nat : m = Ent(T, h).length /\ m >= 2
  BY <1>1 DEF DirFacts
<1>4. /\ k \in Nat /\ k >= 2 /\ k <= m /\ k \in Indexes(ch[h])
      /\ k = m \/ (k < m /\ T[h][k] = Gone)
      /\ k \in Lengths
      /\ n = IF k = m THEN m + 1 ELSE m
  <2>1. /\ k \in Nat /\ k >= 2 /\ k <= m /\ k \in Indexes(ch[h])
        /\ k = m \/ (k < m /\ T[h][k] = Gone)
        /\ n = IF k = m THEN m + 1 ELSE m
    BY <1>3 DEF Vacant, LengthWith
  <2>2. k \in Lengths
    BY <2>1, <1>1, <1>3, Consts DEF DirFacts, Lengths
  <2> QED BY <2>1, <2>2
<1>5. T2[h][k] = x
  BY <1>4 DEF Edited
<1>6. /\ H \subseteq With(H, x) /\ x # Gone
      /\ \/ x = File(x.name) /\ ~ x.dir /\ With(H, x) = H
         \/ /\ x.dir /\ x.cluster \in Clusters \ H /\ x.length = 2
            /\ With(H, x) = H \cup {x.cluster}
            /\ Len(ch[x.cluster]) = 1
            /\ T2[x.cluster][0] = Self(h, k, 0) /\ T2[x.cluster][1] = Above
  <2>1. x # Gone
    BY Consts
  <2>2. CASE x = File(x.name)
    <3>1. ~ File(x.name).dir
      BY Makes
    <3> QED BY <2>1, <2>2, <3>1 DEF With
  <2>3. CASE x # File(x.name)
    <3>1. /\ x.cluster \in Clusters \ H /\ x = Dir(x.name, x.cluster)
          /\ Len(ch[x.cluster]) = 1
          /\ T2[x.cluster][0] = Self(h, k, 0) /\ T2[x.cluster][1] = Above
      BY <2>3 DEF Fits
    <3>2. Dir(x.name, x.cluster).dir /\ Dir(x.name, x.cluster).length = 2
      BY <3>1, Makes
    <3> QED BY <2>1, <3>1, <3>2 DEF With
  <2> QED BY <2>2, <2>3
<1>7. PICK H2 : H2 = With(H, x)
  OBVIOUS
<1>8. ASSUME NEW g \in H PROVE Used(T, g) \subseteq Used(T2, g)
  BY <1>2 DEF EditFacts
<1>9. ASSUME NEW g \in H, NEW i \in Used(T2, g)
      PROVE  /\ T2[g][i].name \in Names
             /\ \/ g = h /\ i = k /\ T2[g][i] = x
                \/ /\ i \in Used(T, g) /\ ~ (g = h /\ i = k) /\ T2[g][i].name = T[g][i].name
                   /\ (T2[g][i].dir <=> T[g][i].dir) /\ T2[g][i].cluster = T[g][i].cluster
                   /\ ~ T[g][i].dir => T2[g][i] = T[g][i]
  <2>1. CASE g = h /\ i = k
    BY <2>1, <1>5
  <2>2. CASE ~ (g = h /\ i = k)
    <3>1. i \in Used(T, g)
      BY <2>2, <1>2 DEF EditFacts
    <3>2. i \in Indexes(ch[g]) /\ T[g][i] # Gone
      BY <3>1, <1>1 DEF DirFacts
    <3>3. Item(H, T, g, i)
      BY <3>1 DEF Good, DirOK
    <3>4. T[g][i].name \in Names
      BY <3>3 DEF Item
    <3> QED BY <2>2, <3>1, <3>2, <3>4, <1>2 DEF EditFacts
  <2> QED BY <2>1, <2>2
<1>10. ASSUME NEW g \in H, NEW i \in Used(T2, g) PROVE Item(H2, T2, g, i)
  <2>1. CASE g = h /\ i = k
    <3>1. T2[g][i] = x
      BY <2>1, <1>5
    <3>2. CASE x = File(x.name) /\ ~ x.dir
      BY <3>1, <3>2 DEF Item
    <3>3. CASE ~ (x = File(x.name) /\ ~ x.dir)
      <4>1. x.dir /\ x.cluster \in Clusters \ H /\ H2 = H \cup {x.cluster}
            /\ T2[x.cluster][0] = Self(h, k, 0)
        BY <3>3, <1>6, <1>7
      <4>2. Self(h, k, 0).cluster = h /\ Self(h, k, 0).back = k
        BY DEF Self
      <4>3. Home(T2, x.cluster) = Loc(g, i)
        BY <2>1, <4>1, <4>2 DEF Home
      <4>4. x.cluster \in H2 \ {Root}
        BY <4>1 DEF Sized
      <4> QED BY <3>1, <4>1, <4>3, <4>4 DEF Item
    <3> QED BY <3>2, <3>3
  <2>2. CASE ~ (g = h /\ i = k)
    <3>1. /\ i \in Used(T, g) /\ T2[g][i].name = T[g][i].name
          /\ (T2[g][i].dir <=> T[g][i].dir) /\ T2[g][i].cluster = T[g][i].cluster
          /\ ~ T[g][i].dir => T2[g][i] = T[g][i]
      BY <2>2, <1>9
    <3>2. Item(H, T, g, i)
      BY <3>1 DEF Good, DirOK
    <3>3. CASE T[g][i].dir
      <4>1. T[g][i].cluster \in H \ {Root} /\ Home(T, T[g][i].cluster) = Loc(g, i)
        BY <3>2, <3>3 DEF Item
      <4>2. Home(T2, T[g][i].cluster) = Loc(g, i)
        BY <4>1, <1>2 DEF EditFacts
      <4> QED BY <3>1, <3>2, <3>3, <4>1, <4>2, <1>6, <1>7 DEF Item
    <3>4. CASE ~ T[g][i].dir
      BY <3>1, <3>2, <3>4 DEF Item
    <3> QED BY <3>3, <3>4
  <2> QED BY <2>1, <2>2
<1>11. ASSUME NEW g \in H, NEW i \in Used(T2, g), NEW j \in Used(T2, g),
              T2[g][i].name = T2[g][j].name
       PROVE  i = j
  <2>1. \A a, b \in Used(T, g) : T[g][a].name = T[g][b].name => a = b
    BY DEF Good, DirOK
  <2> QED BY <2>1, <1>9, <1>11
<1>12. ASSUME NEW g \in H PROVE Ent(T2, g).length \in 2 .. Len(ch[g]) * PerCluster
  <2>1. PICK z \in Nat : z = Len(ch[g]) * PerCluster
    BY <1>1 DEF DirFacts
  <2>2. CASE g = h
    <3>1. Ent(T2, g).length = n /\ m <= z /\ k \in 0 .. z - 1
      BY <2>1, <2>2, <1>1, <1>2, <1>3, <1>4 DEF DirFacts, EditFacts, Indexes
    <3> QED BY <2>1, <3>1, <1>3, <1>4
  <2>3. CASE g # h
    <3>1. Ent(T2, g).length = Ent(T, g).length
      BY <2>3, <1>2 DEF EditFacts
    <3>2. Ent(T, g).length \in Nat /\ Ent(T, g).length >= 2 /\ Ent(T, g).length <= z
      BY <2>1, <1>1 DEF DirFacts
    <3> QED BY <2>1, <3>1, <3>2
  <2> QED BY <2>2, <2>3
<1>13. ASSUME NEW g \in H PROVE DirOK(H2, ch, T2, g)
  <2>1. IF g = Root THEN Home(T2, g) = Top
        ELSE T2[g][0].cluster \in H2 /\ T2[g][0].back \in Used(T2, T2[g][0].cluster)
    <3>1. IF g = Root THEN Home(T, g) = Top
          ELSE T[g][0].cluster \in H /\ T[g][0].back \in Used(T, T[g][0].cluster)
      BY DEF Good, DirOK
    <3>2. Home(T2, g) = Home(T, g) /\ T2[g][0].cluster = T[g][0].cluster
          /\ T2[g][0].back = T[g][0].back
      BY <1>2 DEF EditFacts
    <3> QED BY <3>1, <3>2, <1>6, <1>7, <1>8
  <2>2. /\ T2[g][0] \in Entry /\ T2[g][0].name = "." /\ T2[g][1] = Above
        /\ Ent(T2, g) \in Entry /\ Ent(T2, g).dir /\ Ent(T2, g).cluster = g
    BY <1>2 DEF EditFacts
  <2> QED BY <2>1, <2>2, <1>10, <1>11, <1>12 DEF DirOK
<1>14. ASSUME NEW c \in H2 \ H PROVE DirOK(H2, ch, T2, c)
  <2>1. /\ x.dir /\ c = x.cluster /\ c \in Clusters \ H /\ x.length = 2
        /\ Len(ch[c]) = 1 /\ T2[c][0] = Self(h, k, 0) /\ T2[c][1] = Above
    BY <1>6, <1>7
  <2>2. /\ Self(h, k, 0) \in Entry /\ Self(h, k, 0).name = "." /\ Self(h, k, 0).cluster = h
        /\ Self(h, k, 0).back = k
    <3>1. h \in Clusters /\ 0 \in Lengths
      BY Consts DEF Sized, Lengths
    <3> QED BY <3>1, <1>4, MakesSelf
  <2>3. Ent(T2, c) = x
    BY <2>1, <2>2, <1>5 DEF Ent
  <2>4. Used(T2, c) = {}
    BY <2>1, <2>3 DEF Used
  <2>5. Ent(T2, c).length \in 2 .. Len(ch[c]) * PerCluster
    BY <2>1, <2>3, Consts
  <2>6. k \in Used(T2, h) /\ h \in H2 /\ c # Root
    BY <2>1, <1>2, <1>6, <1>7 DEF EditFacts, Sized
  <2>7. T2[c][0].cluster \in H2 /\ T2[c][0].back \in Used(T2, T2[c][0].cluster)
    BY <2>1, <2>2, <2>6
  <2> QED BY <2>1, <2>2, <2>3, <2>4, <2>5, <2>6, <2>7 DEF DirOK
<1>15. Ranked(H2, T2)
  <2>1. PICK r : Rank(H, T, r)
    BY DEF Good, Ranked
  <2>2. PICK q : q = [g \in H2 |-> IF g \in H THEN r[g] ELSE r[h] + 1]
    OBVIOUS
  <2>3. Root \in H /\ \A g \in H : T2[g][0].cluster = T[g][0].cluster /\ T[g][0].cluster \in H
    BY <1>1, <1>2 DEF Sized, DirFacts, EditFacts
  <2>4. ASSUME NEW c \in H2 \ H PROVE T2[c][0].cluster = h
    <3>1. T2[c][0] = Self(h, k, 0) /\ h \in Clusters /\ 0 \in Lengths
      BY <1>6, <1>7, Consts DEF Sized, Lengths
    <3> QED BY <3>1, <1>4, MakesSelf
  <2>5. q \in [H2 -> Nat] /\ \A g \in H : g \in H2 /\ q[g] = r[g] /\ r[g] \in Nat
    BY <2>1, <2>2, <1>6, <1>7 DEF Rank
  <2>6. ASSUME NEW g \in H2 \ {Root} PROVE q[g] = q[T2[g][0].cluster] + 1
    <3>1. CASE g \in H
      BY <3>1, <2>1, <2>3, <2>5 DEF Rank
    <3>2. CASE g \notin H
      <4>1. T2[g][0].cluster = h
        BY <3>2, <2>4
      <4>2. q[g] = r[h] + 1 /\ q[h] = r[h]
        BY <3>2, <2>2, <2>5
      <4> QED BY <4>1, <4>2
    <3> QED BY <3>1, <3>2
  <2>7. Rank(H2, T2, q)
    BY <2>1, <2>3, <2>5, <2>6 DEF Rank
  <2> QED BY <2>7 DEF Ranked
<1> QED BY <1>7, <1>13, <1>14, <1>15 DEF Good
-----------------------------------------------------------------------------
(* What handles hear of it                                                 *)

(* What Announce and Forget do to one handle.                              *)
Hears(y, h, n) ==
  IF y.open /\ y.dir /\ y.head = h THEN [y EXCEPT !.fresh = @ \cup {n}] ELSE y
Loses(y, h, n) ==
  IF y.open /\ y.dir /\ y.head = h THEN [y EXCEPT !.due = @ \ {n}, !.fresh = @ \ {n}] ELSE y

(* Handles that differ at most in what a listing is told.                  *)
Alike(y, z) ==
  /\ (z.open <=> y.open) /\ (z.dir <=> y.dir) /\ z.loc = y.loc /\ z.parent = y.parent
  /\ z.head = y.head /\ z.size = y.size /\ z.pos = y.pos /\ z.name = y.name

(* The fields of a handle.                                                 *)
LEMMA HandleFields ==
  ASSUME NEW y \in Handle
  PROVE  /\ y.loc \in Locations /\ y.parent \in Locations /\ y.size \in Nat /\ y.pos \in Nat
         /\ y.size \in Lengths /\ y.pos \in Lengths
         /\ y.due \subseteq Names /\ y.fresh \subseteq Names /\ y.name \in Names \cup {"."}
BY Consts DEF Handle, Lengths

(* A handle with other names due and fresh.                                *)
Rehear(y, D, F) == [y EXCEPT !.due = D, !.fresh = F]

(* Changing them changes nothing else.                                     *)
LEMMA Reheard ==
  ASSUME NEW y \in Handle, NEW D \in SUBSET Names, NEW F \in SUBSET Names, NEW z,
         z = Rehear(y, D, F)
  PROVE  z \in Handle /\ Alike(y, z) /\ z.due = D /\ z.fresh = F
<1>1. z \in Handle
  BY DEF Rehear, Handle
<1>2. /\ z.loc = y.loc /\ z.parent = y.parent
      /\ z.head = y.head /\ z.size = y.size /\ z.pos = y.pos /\ z.name = y.name
      /\ z.due = D /\ z.fresh = F
  BY DEF Rehear, Handle
<1>3. z.open <=> y.open
  BY DEF Rehear, Handle
<1>4. z.dir <=> y.dir
  BY DEF Rehear, Handle
<1> QED BY <1>1, <1>2, <1>3, <1>4 DEF Alike

(* The handle after a name came, and after one went.                       *)
Heard(y, h, n, z) ==
  /\ z \in Handle /\ Alike(y, z) /\ z.due = y.due
  /\ z.fresh = IF y.open /\ y.dir /\ y.head = h THEN y.fresh \cup {n} ELSE y.fresh
Lost(y, h, n, z) ==
  /\ z \in Handle /\ Alike(y, z)
  /\ z.due = IF y.open /\ y.dir /\ y.head = h THEN y.due \ {n} ELSE y.due
  /\ z.fresh = IF y.open /\ y.dir /\ y.head = h THEN y.fresh \ {n} ELSE y.fresh

(* Announce adds the name to what came since, in listings of this          *)
(* directory.                                                              *)
LEMMA HearsIs ==
  ASSUME NEW y \in Handle, NEW h, NEW n \in Names
  PROVE  Heard(y, h, n, Hears(y, h, n))
<1>1. CASE y.open /\ y.dir /\ y.head = h
  <2>1. PICK z : z = [y EXCEPT !.due = y.due, !.fresh = y.fresh \cup {n}]
    OBVIOUS
  <2>2. y.due \in SUBSET Names /\ y.fresh \cup {n} \in SUBSET Names
    BY HandleFields
  <2>6. PICK F \in SUBSET Names, D \in SUBSET Names : F = y.fresh \cup {n} /\ D = y.due
    BY <2>2
  <2>7. z = Rehear(y, D, F)
    BY <2>1, <2>6 DEF Rehear
  <2>8. z \in Handle /\ Alike(y, z) /\ z.due = D /\ z.fresh = F
    BY <2>6, <2>7, Reheard
  <2>3. z \in Handle /\ Alike(y, z) /\ z.due = y.due /\ z.fresh = y.fresh \cup {n}
    BY <2>6, <2>8
  <2>4. z = [y EXCEPT !.fresh = @ \cup {n}]
    BY <2>1 DEF Handle
  <2>5. z = Hears(y, h, n)
    BY <2>4, <1>1 DEF Hears
  <2> QED BY <2>3, <2>5, <1>1 DEF Heard
<1>2. CASE ~ (y.open /\ y.dir /\ y.head = h)
  BY <1>2, HandleFields DEF Hears, Alike, Heard
<1> QED BY <1>1, <1>2

(* Forget takes the name from what is due and what came, in listings of    *)
(* this directory.                                                         *)
LEMMA LosesIs ==
  ASSUME NEW y \in Handle, NEW h, NEW n
  PROVE  Lost(y, h, n, Loses(y, h, n))
<1>1. CASE y.open /\ y.dir /\ y.head = h
  <2>1. PICK z : z = [y EXCEPT !.due = y.due \ {n}, !.fresh = y.fresh \ {n}]
    OBVIOUS
  <2>2. y.due \ {n} \in SUBSET Names /\ y.fresh \ {n} \in SUBSET Names
    BY HandleFields
  <2>6. PICK F \in SUBSET Names, D \in SUBSET Names : F = y.fresh \ {n} /\ D = y.due \ {n}
    BY <2>2
  <2>7. z = Rehear(y, D, F)
    BY <2>1, <2>6 DEF Rehear
  <2>8. z \in Handle /\ Alike(y, z) /\ z.due = D /\ z.fresh = F
    BY <2>6, <2>7, Reheard
  <2>3. z \in Handle /\ Alike(y, z) /\ z.due = y.due \ {n} /\ z.fresh = y.fresh \ {n}
    BY <2>6, <2>8
  <2>4. z = [y EXCEPT !.due = @ \ {n}, !.fresh = @ \ {n}]
    BY <2>1
  <2>5. z = Loses(y, h, n)
    BY <2>4, <1>1 DEF Loses
  <2> QED BY <2>3, <2>5, <1>1 DEF Lost
<1>2. CASE ~ (y.open /\ y.dir /\ y.head = h)
  BY <1>2, HandleFields DEF Loses, Alike, Lost
<1> QED BY <1>1, <1>2

(* When a name is still to come.                                           *)
LEMMA LeftIs ==
  ASSUME NEW T, NEW y, NEW a
  PROVE  a \in Left(T, y) <=> /\ a \in Names
                              /\ \E j \in y.pos .. y.size - 1 :
                                   T[y.head][j] # Gone /\ T[y.head][j].name = a
BY DEF Left

(* The slots a listing has still to see are in the directory.              *)
LEMMA Ahead ==
  ASSUME NEW H, NEW ch, NEW T, Sized(H, ch, T), Good(H, ch, T),
         NEW y \in Handle, DirHandle(H, T, y)
  PROVE  /\ y.head \in H /\ y.size <= Ent(T, y.head).length
         /\ \A j \in y.pos .. y.size - 1 :
              /\ j \in Indexes(ch[y.head]) /\ j \in Nat /\ j < Ent(T, y.head).length
              /\ T[y.head][j] # Gone => T[y.head][j] \in Entry
              /\ T[y.head][j] # Gone /\ T[y.head][j].name \in Names => j \in Used(T, y.head)
<1>1. y.head \in H /\ y.size <= Ent(T, y.head).length
  BY DEF DirHandle
<1>2. DirFacts(H, ch, T, y.head)
  BY <1>1, GoodFacts
<1>3. PICK m \in Nat : m = Ent(T, y.head).length /\ \A i \in 0 .. m - 1 : i \in Indexes(ch[y.head])
  BY <1>2 DEF DirFacts
<1>4. y.size \in Nat /\ y.pos \in Nat
  BY HandleFields
<1>5. ASSUME NEW j \in y.pos .. y.size - 1
      PROVE  /\ j \in Indexes(ch[y.head]) /\ j \in Nat /\ j < m
             /\ T[y.head][j] # Gone => T[y.head][j] \in Entry
             /\ T[y.head][j] # Gone /\ T[y.head][j].name \in Names => j \in Used(T, y.head)
  <2>1. j \in 0 .. m - 1
    BY <1>1, <1>3, <1>4
  <2>2. j \in Indexes(ch[y.head]) /\ T[y.head][j] \in Entry \cup {Gone}
    BY <2>1, <1>1, <1>3 DEF Sized
  <2>3. ASSUME T[y.head][j] # Gone, T[y.head][j].name \in Names PROVE j \in Used(T, y.head)
    <3>1. T[y.head][0].name = "." /\ T[y.head][1].name = ".."
      BY <1>2 DEF DirFacts, Above
    <3>2. j # 0 /\ j # 1
      BY <3>1, <2>3, Consts
    <3>3. j \in 2 .. m - 1
      BY <3>2, <2>1
    <3> QED BY <3>3, <2>3, <1>3 DEF Used
  <2> QED BY <2>1, <2>2, <2>3
<1> QED BY <1>1, <1>3, <1>5

(* A new entry leaves every handle right: a listing that has still to come *)
(* to its slot knows that the name came.                                   *)
LEMMA InsertHandle ==
  ASSUME NEW H, NEW ch, NEW T, Sized(H, ch, T), Good(H, ch, T), NEW h \in H,
         NEW k, Vacant(ch, T, h, k), NEW x \in Entry, NEW n \in Lengths,
         n = LengthWith(T, h, k), x.name \in Names,
         NEW T2, Edited(H, ch, T, h, k, x, n, T2),
         NEW y \in Handle, HandleOK(H, T, y)
  PROVE  HandleOK(With(H, x), T2, Hears(y, h, x.name))
<1>1. ASSUME NEW d \in H PROVE DirFacts(H, ch, T, d)
  BY GoodFacts
<1>2. ASSUME NEW d \in H PROVE EditFacts(H, ch, T, h, k, x, n, T2, d)
  BY EditIs
<1>3. PICK m \in Nat : m = Ent(T, h).length /\ m >= 2
  BY <1>1 DEF DirFacts
<1>4. /\ k \in Nat /\ k >= 2 /\ k <= m /\ k \in Indexes(ch[h])
      /\ k = m \/ (k < m /\ T[h][k] = Gone)
      /\ n = IF k = m THEN m + 1 ELSE m
  BY <1>3 DEF Vacant, LengthWith
<1>5. k \notin Used(T, h)
  BY <1>3, <1>4 DEF Used
<1>6. T2[h][k] = x
  BY <1>4 DEF Edited
<1>7. PICK z : z = Hears(y, h, x.name)
  OBVIOUS
<1>8. /\ z \in Handle /\ Alike(y, z) /\ z.due = y.due
      /\ z.fresh = IF y.open /\ y.dir /\ y.head = h THEN y.fresh \cup {x.name} ELSE y.fresh
  <2>1. Heard(y, h, x.name, z)
    BY <1>7, HearsIs
  <2> QED BY <2>1 DEF Heard
<1>9. H \subseteq With(H, x)
  BY DEF With
<1>10. ASSUME y.open, ~ y.dir PROVE FileHandle(With(H, x), T2, z)
  <2>1. FileHandle(H, T, y)
    BY <1>10 DEF HandleOK
  <2>2. PICK d \in H, i \in Used(T, y.loc.dir) :
          /\ d = y.loc.dir /\ i = y.loc.at /\ i \in Used(T, d)
          /\ y.parent = Home(T, d) /\ T[d][i] = File(y.name)
    BY <2>1 DEF FileHandle
  <2>3. i \in Indexes(ch[d]) /\ T[d][i] # Gone /\ (d # h \/ i # k)
    BY <2>2, <1>1, <1>5 DEF DirFacts
  <2>4. ~ T[d][i].dir
    <3>1. ~ File(y.name).dir
      BY DEF File
    <3> QED BY <3>1, <2>2
  <2>5. T2[d][i] = T[d][i] /\ Home(T2, d) = Home(T, d)
    BY <2>3, <2>4, <1>2 DEF EditFacts
  <2>6. i \in Used(T2, d)
    BY <2>2, <1>2 DEF EditFacts
  <2> QED BY <2>2, <2>5, <2>6, <1>8, <1>9 DEF FileHandle, Alike
<1>11. ASSUME y.open, y.dir PROVE DirHandle(With(H, x), T2, z)
  <2>1. DirHandle(H, T, y)
    BY <1>11 DEF HandleOK
  <2>2. PICK d \in H : /\ d = y.head /\ y.size <= Ent(T, d).length
                       /\ \A j \in y.pos .. y.size - 1 :
                            j \in Indexes(ch[d]) /\ j \in Nat /\ j < Ent(T, d).length
    BY <2>1, Ahead
  <2>3. y.size \in Nat /\ y.pos \in Nat
    BY HandleFields
  <2>4. /\ Home(T2, d) = Home(T, d) /\ Ent(T2, d).length >= y.size
    <3>1. Ent(T2, d).length = IF d = h THEN n ELSE Ent(T, d).length
      BY <1>2 DEF EditFacts
    <3>2. Home(T2, d) = Home(T, d)
      BY <1>2 DEF EditFacts
    <3> QED BY <3>1, <3>2, <2>2, <2>3, <1>3, <1>4
  <2>5. ASSUME NEW j \in y.pos .. y.size - 1, ~ (d = h /\ j = k)
        PROVE  /\ (T2[d][j] = Gone <=> T[d][j] = Gone)
               /\ T[d][j] # Gone => T2[d][j].name = T[d][j].name
    BY <2>2, <2>5, <1>2 DEF EditFacts
  <2>6. ASSUME NEW j \in y.pos .. y.size - 1, d = h, j = k PROVE T[d][j] = Gone
    BY <2>2, <2>6, <1>3, <1>4
  <2>7. ASSUME NEW a \in Left(T, y) PROVE a \in Left(T2, z)
    <3>1. PICK j \in y.pos .. y.size - 1 : T[d][j] # Gone /\ T[d][j].name = a
      BY <2>2, LeftIs
    <3>2. T2[d][j] # Gone /\ T2[d][j].name = a
      BY <3>1, <2>5, <2>6
    <3>3. a \in Names
      BY LeftIs
    <3> QED BY <3>2, <3>3, <2>2, <1>8, LeftIs DEF Alike
  <2>8. ASSUME NEW a \in Left(T2, z) PROVE a \in Left(T, y) \/ (d = h /\ a = x.name)
    <3>1. PICK j \in y.pos .. y.size - 1 : T2[d][j] # Gone /\ T2[d][j].name = a
      BY <2>2, <1>8, LeftIs DEF Alike
    <3>2. a \in Names
      BY LeftIs
    <3>3. CASE d = h /\ j = k
      BY <3>1, <3>3, <1>6
    <3>4. CASE ~ (d = h /\ j = k)
      <4>1. T[d][j] # Gone /\ T[d][j].name = a
        BY <3>1, <3>4, <2>5
      <4> QED BY <4>1, <3>2, <2>2, LeftIs
    <3> QED BY <3>3, <3>4
  <2>9. y.due \subseteq Left(T, y) /\ Left(T, y) \subseteq y.due \cup y.fresh /\ y.loc = Home(T, d)
    BY <2>1, <2>2 DEF DirHandle
  <2>10. z.due \subseteq Left(T2, z) /\ Left(T2, z) \subseteq z.due \cup z.fresh
    BY <2>2, <2>7, <2>8, <2>9, <1>8, <1>11
  <2>11. z.head = d /\ z.loc = y.loc /\ z.size = y.size
    BY <2>2, <1>8 DEF Alike
  <2>12. z.size <= Ent(T2, d).length
    BY <2>3, <2>4, <2>11, <2>2, <1>1, <1>3, <1>4, <1>2 DEF DirFacts, EditFacts
  <2> QED BY <2>2, <2>4, <2>9, <2>10, <2>11, <2>12, <1>9 DEF DirHandle
<1> QED BY <1>7, <1>8, <1>10, <1>11 DEF HandleOK, Alike
-----------------------------------------------------------------------------
(* An entry goes                                                           *)

(* Slot i of directory h is emptied.                                       *)
Struck(H, ch, T, h, i, T2) ==
  \A g \in H : \A j \in Indexes(ch[g]) :
    T2[g][j] = IF g = h /\ j = i THEN Gone ELSE T[g][j]

(* The directories without the one whose entry went.                       *)
Without(H, e) == IF e.dir THEN H \ {e.cluster} ELSE H

(* What may go: an entry that is there, of a directory only if that is     *)
(* empty.                                                                  *)
Removable(H, T, h, i) ==
  /\ i \in Used(T, h)
  /\ T[h][i].dir => Used(T, T[h][i].cluster) = {}

(* What a directory g is after that: all but the slot i of h stays.        *)
StrikeFacts(H, T, h, i, T2, g) ==
  /\ T2[g][0] = T[g][0] /\ T2[g][1] = T[g][1]
  /\ Home(T2, g) = Home(T, g) /\ Ent(T2, g) = Ent(T, g)
  /\ Used(T2, g) = IF g = h THEN Used(T, h) \ {i} ELSE Used(T, g)

(* The directory the entry is in stays, and no other one had its entry     *)
(* there.                                                                  *)
LEMMA Dropped ==
  ASSUME NEW H, NEW ch, NEW T, Sized(H, ch, T), Good(H, ch, T), NEW h \in H,
         NEW i, Removable(H, T, h, i)
  PROVE  /\ h \in Without(H, T[h][i]) /\ Root \in Without(H, T[h][i])
         /\ Without(H, T[h][i]) \subseteq H
         /\ T[h][i].dir => T[h][i].cluster \in H \ {Root}
         /\ \A g \in Without(H, T[h][i]) : Home(T, g) # Loc(h, i)
         /\ \A g \in H : Home(T, g) = Loc(h, i) => T[h][i].dir /\ g = T[h][i].cluster
<1>1. Item(H, T, h, i) /\ DirFacts(H, ch, T, h)
  BY GoodFacts DEF Removable, Good, DirOK
<1>2. PICK e : e = T[h][i]
  OBVIOUS
<1>3. e.dir => e.cluster \in H \ {Root} /\ Home(T, e.cluster) = Loc(h, i)
  BY <1>1, <1>2 DEF Item
<1>4. ASSUME NEW g \in H, Home(T, g) = Loc(h, i) PROVE e.dir /\ g = e.cluster
  <2>1. T[g][0].cluster = h /\ T[g][0].back = i
    BY <1>4, LocIs DEF Home
  <2>2. Ent(T, g) = e
    BY <2>1, <1>2 DEF Ent
  <2>3. Ent(T, g).dir /\ Ent(T, g).cluster = g
    BY GoodFacts DEF DirFacts
  <2> QED BY <2>2, <2>3
<1>5. e.dir => h # e.cluster
  BY <1>2 DEF Removable
<1> QED BY <1>2, <1>3, <1>4, <1>5 DEF Without, Sized

(* Emptying the slot does this to every directory that stays.              *)
LEMMA StrikeIs ==
  ASSUME NEW H, NEW ch, NEW T, Sized(H, ch, T), Good(H, ch, T), NEW h \in H,
         NEW i, Removable(H, T, h, i), NEW T2, Struck(H, ch, T, h, i, T2),
         NEW g \in Without(H, T[h][i])
  PROVE  StrikeFacts(H, T, h, i, T2, g)
<1>1. ASSUME NEW d \in H PROVE DirFacts(H, ch, T, d)
  BY GoodFacts
<1>2. i \in Indexes(ch[h]) /\ i \in Nat /\ i >= 2 /\ g \in H /\ Home(T, g) # Loc(h, i)
  BY <1>1, Dropped DEF DirFacts, Removable
<1>3. ASSUME NEW d \in H, NEW j \in Indexes(ch[d])
      PROVE  T2[d][j] = IF d = h /\ j = i THEN Gone ELSE T[d][j]
  BY DEF Struck
<1>4. T2[g][0] = T[g][0] /\ T2[g][1] = T[g][1]
  <2>1. 0 \in Indexes(ch[g]) /\ 1 \in Indexes(ch[g])
    BY <1>2, IndexFacts DEF Sized
  <2> QED BY <2>1, <1>2, <1>3
<1>5. Home(T2, g) = Home(T, g)
  BY <1>4 DEF Home
<1>6. Ent(T2, g) = Ent(T, g)
  <2>1. T[g][0].cluster \in H /\ T[g][0].back \in Indexes(ch[T[g][0].cluster])
    BY <1>1, <1>2 DEF DirFacts
  <2>2. ~ (T[g][0].cluster = h /\ T[g][0].back = i)
    BY <1>2 DEF Home
  <2> QED BY <2>1, <2>2, <1>3, <1>4 DEF Ent
<1>7. Used(T2, g) = IF g = h THEN Used(T, h) \ {i} ELSE Used(T, g)
  <2>1. \A j \in 0 .. Ent(T, g).length - 1 : j \in Indexes(ch[g])
    BY <1>1, <1>2 DEF DirFacts
  <2>2. Ent(T, g).length \in Nat
    BY <1>1, <1>2 DEF DirFacts
  <2>3. ASSUME NEW j \in 2 .. Ent(T, g).length - 1
        PROVE  T2[g][j] = IF g = h /\ j = i THEN Gone ELSE T[g][j]
    BY <2>1, <2>2, <1>2, <1>3
  <2> QED BY <2>3, <1>6 DEF Used
<1> QED BY <1>4, <1>5, <1>6, <1>7 DEF StrikeFacts

(* Without an entry that may go the tree is good.                          *)
LEMMA RemoveGood ==
  ASSUME NEW H, NEW ch, NEW T, Sized(H, ch, T), Good(H, ch, T), NEW h \in H,
         NEW i, Removable(H, T, h, i), NEW T2, Struck(H, ch, T, h, i, T2)
  PROVE  Good(Without(H, T[h][i]), ch, T2)
<1>1. PICK e : e = T[h][i]
  OBVIOUS
<1>2. PICK H2 : H2 = Without(H, e)
  OBVIOUS
<1>3. /\ h \in H2 /\ Root \in H2 /\ H2 \subseteq H
      /\ H2 = IF e.dir THEN H \ {e.cluster} ELSE H
      /\ e.dir => e.cluster \in H \ {Root} /\ Used(T, e.cluster) = {}
      /\ \A g \in H2 : Home(T, g) # Loc(h, i)
  BY <1>1, <1>2, Dropped DEF Without, Removable
<1>4. ASSUME NEW g \in H2 PROVE StrikeFacts(H, T, h, i, T2, g)
  BY <1>1, <1>2, StrikeIs
<1>5. Item(H, T, h, i)
  BY DEF Good, DirOK, Removable
<1>6. ASSUME NEW g \in H2, NEW j \in Used(T2, g)
      PROVE  j \in Used(T, g) /\ T2[g][j] = T[g][j] /\ ~ (g = h /\ j = i)
  <2>1. j \in Used(T, g) /\ ~ (g = h /\ j = i)
    BY <1>4 DEF StrikeFacts
  <2>2. j \in Indexes(ch[g]) /\ g \in H
    BY <2>1, <1>3, GoodFacts DEF DirFacts
  <2> QED BY <2>1, <2>2 DEF Struck
<1>7. ASSUME NEW g \in H2, NEW j \in Used(T2, g) PROVE Item(H2, T2, g, j)
  <2>1. j \in Used(T, g) /\ T2[g][j] = T[g][j] /\ ~ (g = h /\ j = i) /\ g \in H
    BY <1>3, <1>6
  <2>2. Item(H, T, g, j)
    BY <2>1 DEF Good, DirOK
  <2>3. CASE T[g][j].dir
    <3>1. T[g][j].cluster \in H \ {Root} /\ Home(T, T[g][j].cluster) = Loc(g, j)
      BY <2>2, <2>3 DEF Item
    <3>2. T[g][j].cluster \in H2
      <4> SUFFICES ASSUME T[g][j].cluster \notin H2 PROVE FALSE
        OBVIOUS
      <4>1. e.dir /\ T[g][j].cluster = e.cluster
        BY <3>1, <1>3
      <4>2. Home(T, e.cluster) = Loc(h, i)
        BY <4>1, <1>1, <1>5 DEF Item
      <4> QED BY <4>1, <4>2, <3>1, <2>1, LocIs
    <3>3. Home(T2, T[g][j].cluster) = Loc(g, j)
      BY <3>1, <3>2, <1>4 DEF StrikeFacts
    <3> QED BY <2>1, <2>2, <2>3, <3>1, <3>2, <3>3 DEF Item
  <2>4. CASE ~ T[g][j].dir
    BY <2>1, <2>2, <2>4 DEF Item
  <2> QED BY <2>3, <2>4
<1>8. ASSUME NEW g \in H2 PROVE DirOK(H2, ch, T2, g)
  <2>1. DirOK(H, ch, T, g)
    BY <1>3 DEF Good
  <2>2. /\ T2[g][0] = T[g][0] /\ T2[g][1] = T[g][1]
        /\ Home(T2, g) = Home(T, g) /\ Ent(T2, g) = Ent(T, g)
    BY <1>4 DEF StrikeFacts
  <2>3. IF g = Root THEN Home(T2, g) = Top
        ELSE T2[g][0].cluster \in H2 /\ T2[g][0].back \in Used(T2, T2[g][0].cluster)
    <3>1. CASE g = Root
      BY <3>1, <2>1, <2>2 DEF DirOK
    <3>2. CASE g # Root
      <4>1. T[g][0].cluster \in H /\ T[g][0].back \in Used(T, T[g][0].cluster)
        BY <3>2, <2>1 DEF DirOK
      <4>2. T[g][0].cluster \in H2
        BY <4>1, <1>3
      <4>3. ~ (T[g][0].cluster = h /\ T[g][0].back = i)
        BY <1>3 DEF Home
      <4>4. T[g][0].back \in Used(T2, T[g][0].cluster)
        BY <4>1, <4>2, <4>3, <1>4 DEF StrikeFacts
      <4> QED BY <3>2, <4>2, <4>4, <2>2
    <3> QED BY <3>1, <3>2
  <2>4. \A j, k \in Used(T2, g) : T2[g][j].name = T2[g][k].name => j = k
    BY <2>1, <1>6 DEF DirOK
  <2> QED BY <2>1, <2>2, <2>3, <2>4, <1>7 DEF DirOK
<1>9. Ranked(H2, T2)
  <2>1. PICK r : Rank(H, T, r)
    BY DEF Good, Ranked
  <2>2. PICK q : q = [g \in H2 |-> r[g]]
    OBVIOUS
  <2>3. ASSUME NEW g \in H2 \ {Root}
        PROVE  T2[g][0].cluster = T[g][0].cluster /\ T2[g][0].cluster \in H2
    BY <1>4, <1>8 DEF StrikeFacts, DirOK
  <2>4. q \in [H2 -> Nat] /\ \A g \in H2 : q[g] = r[g]
    BY <2>1, <2>2, <1>3 DEF Rank
  <2>5. Rank(H2, T2, q)
    BY <2>1, <2>3, <2>4, <1>3 DEF Rank
  <2> QED BY <2>5 DEF Ranked
<1> QED BY <1>1, <1>2, <1>8, <1>9 DEF Good

(* An entry that no handle is on leaves every handle right: a listing that *)
(* would have come to it does not have its name due any more.              *)
LEMMA RemoveHandle ==
  ASSUME NEW H, NEW ch, NEW T, Sized(H, ch, T), Good(H, ch, T), NEW h \in H,
         NEW i, Removable(H, T, h, i), NEW T2, Struck(H, ch, T, h, i, T2),
         NEW y \in Handle, HandleOK(H, T, y), ~ (y.open /\ y.loc = Loc(h, i))
  PROVE  HandleOK(Without(H, T[h][i]), T2, Loses(y, h, T[h][i].name))
<1>1. PICK e : e = T[h][i]
  OBVIOUS
<1>2. PICK H2 : H2 = Without(H, e)
  OBVIOUS
<1>3. /\ h \in H2 /\ Root \in H2 /\ H2 \subseteq H
      /\ H2 = IF e.dir THEN H \ {e.cluster} ELSE H
      /\ e.dir => e.cluster \in H \ {Root} /\ Used(T, e.cluster) = {}
      /\ \A g \in H2 : Home(T, g) # Loc(h, i)
  BY <1>1, <1>2, Dropped DEF Without, Removable
<1>4. ASSUME NEW g \in H2 PROVE StrikeFacts(H, T, h, i, T2, g)
  BY <1>1, <1>2, StrikeIs
<1>5. Item(H, T, h, i)
  BY DEF Good, DirOK, Removable
<1>6. PICK z : z = Loses(y, h, e.name)
  OBVIOUS
<1>7. /\ z \in Handle /\ Alike(y, z)
      /\ z.due = IF y.open /\ y.dir /\ y.head = h THEN y.due \ {e.name} ELSE y.due
      /\ z.fresh = IF y.open /\ y.dir /\ y.head = h THEN y.fresh \ {e.name} ELSE y.fresh
  <2>1. Lost(y, h, e.name, z)
    BY <1>6, LosesIs
  <2> QED BY <2>1 DEF Lost
<1>8. ASSUME NEW d \in H, NEW j \in Indexes(ch[d])
      PROVE  T2[d][j] = IF d = h /\ j = i THEN Gone ELSE T[d][j]
  BY DEF Struck
<1>9. ASSUME y.open, ~ y.dir PROVE FileHandle(H2, T2, z)
  <2>1. FileHandle(H, T, y)
    BY <1>9 DEF HandleOK
  <2>2. PICK d \in H, b \in Used(T, y.loc.dir) :
          /\ d = y.loc.dir /\ b = y.loc.at /\ b \in Used(T, d)
          /\ y.parent = Home(T, d) /\ T[d][b] = File(y.name)
    BY <2>1 DEF FileHandle
  <2>3. d \in H2
    BY <2>2, <1>3
  <2>4. ~ (d = h /\ b = i)
    <3>1. y.loc = Loc(y.loc.dir, y.loc.at)
      BY HandleFields DEF Locations, Loc
    <3> QED BY <3>1, <2>2, <1>9
  <2>5. b \in Indexes(ch[d])
    BY <2>2, GoodFacts DEF DirFacts
  <2>6. T2[d][b] = T[d][b] /\ b \in Used(T2, d) /\ Home(T2, d) = Home(T, d)
    BY <2>2, <2>3, <2>4, <2>5, <1>4, <1>8 DEF StrikeFacts
  <2> QED BY <2>2, <2>3, <2>6, <1>7 DEF FileHandle, Alike
<1>10. ASSUME y.open, y.dir PROVE DirHandle(H2, T2, z)
  <2>1. DirHandle(H, T, y)
    BY <1>10 DEF HandleOK
  <2>2. PICK d \in H : /\ d = y.head /\ y.size <= Ent(T, d).length
                       /\ \A j \in y.pos .. y.size - 1 :
                            /\ j \in Indexes(ch[d]) /\ j \in Nat
                            /\ T[d][j] # Gone /\ T[d][j].name \in Names => j \in Used(T, d)
    BY <2>1, Ahead
  <2>3. y.loc = Home(T, d) /\ y.due \subseteq Left(T, y) /\ Left(T, y) \subseteq y.due \cup y.fresh
    BY <2>1, <2>2 DEF DirHandle
  <2>4. d \in H2
    <3> SUFFICES ASSUME d \notin H2 PROVE FALSE
      OBVIOUS
    <3>1. e.dir /\ d = e.cluster
      BY <2>2, <1>3
    <3>2. Home(T, d) = Loc(h, i)
      BY <3>1, <1>1, <1>5 DEF Item
    <3> QED BY <3>2, <2>3, <1>10
  <2>5. Home(T2, d) = Home(T, d) /\ Ent(T2, d) = Ent(T, d)
    BY <2>4, <1>4 DEF StrikeFacts
  <2>6. ASSUME NEW a \in Left(T, y), ~ (d = h /\ a = e.name) PROVE a \in Left(T2, z)
    <3>1. PICK j \in y.pos .. y.size - 1 : T[d][j] # Gone /\ T[d][j].name = a
      BY <2>2, LeftIs
    <3>2. a \in Names
      BY LeftIs
    <3>3. T2[d][j] = T[d][j]
      BY <3>1, <2>2, <2>6, <1>1, <1>8
    <3> QED BY <3>1, <3>2, <3>3, <2>2, <1>7, LeftIs DEF Alike
  <2>7. ASSUME NEW a \in Left(T2, z) PROVE a \in Left(T, y) /\ ~ (d = h /\ a = e.name)
    <3>1. PICK j \in y.pos .. y.size - 1 : T2[d][j] # Gone /\ T2[d][j].name = a
      BY <2>2, <1>7, LeftIs DEF Alike
    <3>2. a \in Names
      BY LeftIs
    <3>3. T2[d][j] = T[d][j] /\ ~ (d = h /\ j = i)
      BY <3>1, <2>2, <1>8
    <3>4. a \in Left(T, y)
      BY <3>1, <3>2, <3>3, <2>2, LeftIs
    <3>5. ASSUME d = h, a = e.name PROVE FALSE
      <4>1. j \in Used(T, d)
        BY <3>1, <3>2, <3>3, <2>2
      <4>2. T[h][j].name = T[h][i].name /\ j \in Used(T, h) /\ i \in Used(T, h)
        BY <4>1, <3>1, <3>3, <3>5, <1>1 DEF Removable
      <4>3. j = i
        BY <4>2 DEF Good, DirOK
      <4> QED BY <4>3, <3>3, <3>5
    <3> QED BY <3>4, <3>5
  <2>8. z.due \subseteq Left(T2, z) /\ Left(T2, z) \subseteq z.due \cup z.fresh
    <3>1. CASE d = h
      <4>1. z.due = y.due \ {e.name} /\ z.fresh = y.fresh \ {e.name}
        BY <3>1, <2>2, <1>7, <1>10
      <4> QED BY <3>1, <4>1, <2>3, <2>6, <2>7
    <3>2. CASE d # h
      <4>1. z.due = y.due /\ z.fresh = y.fresh
        BY <3>2, <2>2, <1>7, <1>10
      <4> QED BY <3>2, <4>1, <2>3, <2>6, <2>7
    <3> QED BY <3>1, <3>2
  <2> QED BY <2>2, <2>3, <2>4, <2>5, <2>8, <1>7 DEF DirHandle, Alike
<1> QED BY <1>1, <1>2, <1>6, <1>7, <1>9, <1>10 DEF HandleOK, Alike
-----------------------------------------------------------------------------
(* The operators of Directory, seen in the table                           *)

(* What the operators of Directory say of a directory, seen in the table.  *)
ViewFacts(H, ch, T, h) ==
  /\ EntryAt(Home(T, h)) = Ent(T, h) /\ HomeOf(h) = Home(T, h)
  /\ Ent(T, h) \in Entry /\ Ent(T, h).cluster = h /\ Ent(T, h).length \in Nat
  /\ Ent(T, h).length \in Lengths /\ Ent(T, h).length >= 2
  /\ \A i \in 0 .. Ent(T, h).length - 1 : At(h, i) = T[h][i]
  /\ Present(Ent(T, h)) = {0, 1} \cup Used(T, h)
  /\ Present(Ent(T, h)) \ {0, 1} = Used(T, h)
  /\ \A n \in Names : Matches(Home(T, h), n) = {i \in Used(T, h) : T[h][i].name = n}

(* In a good tree they say this of every directory.                        *)
LEMMA View ==
  ASSUME NEW H, NEW ch, NEW T, Laid(fat, slot, H, ch, T), Good(H, ch, T), NEW h \in H
  PROVE  ViewFacts(H, ch, T, h)
<1>0. Sized(H, ch, T)
  <2>1. PICK f, s : f = fat /\ s = slot
    OBVIOUS
  <2> QED BY <2>1, LaidSized
<1>1. DirFacts(H, ch, T, h)
  BY <1>0, GoodFacts
<1>2. PICK m \in Nat : /\ m = Ent(T, h).length /\ m >= 2 /\ m \in Lengths
                       /\ \A i \in 0 .. m - 1 : i \in Indexes(ch[h])
  BY <1>1 DEF DirFacts
<1>3. \A i \in 0 .. m - 1 : At(h, i) = T[h][i]
  BY <1>2, AtIs
<1>4. EntryAt(Home(T, h)) = Ent(T, h)
  <2>1. T[h][0].cluster \in H /\ T[h][0].back \in Indexes(ch[T[h][0].cluster])
    BY <1>1 DEF DirFacts
  <2>2. At(T[h][0].cluster, T[h][0].back) = T[T[h][0].cluster][T[h][0].back]
    BY <2>1, AtIs
  <2>3. Home(T, h).dir = T[h][0].cluster /\ Home(T, h).at = T[h][0].back
    BY LocIs DEF Home
  <2> QED BY <2>2, <2>3 DEF EntryAt, Ent
<1>5. HomeOf(h) = Home(T, h)
  <2>1. At(h, 0) = T[h][0]
    BY <1>2, <1>3
  <2> QED BY <2>1 DEF HomeOf, Home
<1>6. PICK e : e = Ent(T, h)
  OBVIOUS
<1>7. e.cluster = h /\ e.length = m /\ e \in Entry
  BY <1>1, <1>2, <1>6 DEF DirFacts
<1>8. T[h][0].name = "." /\ T[h][1].name = ".." /\ T[h][0] # Gone /\ T[h][1] # Gone
  <2>1. T[h][0] \in Entry /\ T[h][0].name = "." /\ T[h][1] = Above
    BY <1>1 DEF DirFacts
  <2>2. Above \in Entry
    <3>1. Root \in Clusters /\ 0 \in Lengths
      BY Consts DEF Lengths
    <3> QED BY <3>1, MakesSelf
  <2>3. Above.name = ".."
    BY DEF Above
  <2> QED BY <2>1, <2>2, <2>3, Consts
<1>9. Present(e) = {i \in 0 .. m - 1 : T[h][i] # Gone}
  BY <1>3, <1>7 DEF Present
<1>10. \A i : i \in Used(T, h) <=> i \in 2 .. m - 1 /\ T[h][i] # Gone
  BY <1>2 DEF Used
<1>11. Present(e) = {0, 1} \cup Used(T, h) /\ Present(e) \ {0, 1} = Used(T, h)
  <2>1. \A i : i \in 0 .. m - 1 <=> i = 0 \/ i = 1 \/ i \in 2 .. m - 1
    BY <1>2
  <2>2. \A i : i \in Present(e) <=> i \in {0, 1} \cup Used(T, h)
    BY <2>1, <1>8, <1>9, <1>10
  <2>3. 0 \notin Used(T, h) /\ 1 \notin Used(T, h)
    BY <1>10
  <2> QED BY <2>2, <2>3
<1>12. ASSUME NEW n \in Names PROVE Matches(Home(T, h), n) = {i \in Used(T, h) : T[h][i].name = n}
  <2>1. Matches(Home(T, h), n) = {i \in Present(e) : At(h, i).name = n}
    BY <1>4, <1>6, <1>7 DEF Matches
  <2>2. \A i \in Present(e) : At(h, i) = T[h][i]
    BY <1>3, <1>9
  <2>3. n # "." /\ n # ".."
    BY Consts
  <2> QED BY <2>1, <2>2, <2>3, <1>8, <1>11
<1> QED BY <1>2, <1>3, <1>4, <1>5, <1>6, <1>7, <1>11, <1>12 DEF ViewFacts

(* The directories are what paths of at most as many steps as there are    *)
(* clusters lead to, from the root.                                        *)
LEMMA Paths ==
  \E N, to :
    /\ N \in Nat /\ N = Cardinality(Clusters) - 1 /\ Directories = to[N] /\ to[0] = {Top}
    /\ \A k \in 1 .. N : to[k] = to[k - 1] \cup UNION {Below(z) : z \in to[k - 1]}
<1> DEFINE Depths == 0 .. Cardinality(Clusters) - 1
           Step(at, k) == IF k = 0 THEN {Top}
                          ELSE LET above == at[k - 1] IN above \cup UNION {Below(z) : z \in above}
           Follows(at) == at = [k \in Depths |-> Step(at, k)]
           to == CHOOSE at : Follows(at)
<1>5. Cardinality(Clusters) \in Nat /\ Cardinality(Clusters) # 0
  BY DirectoryAssumption, FS_CardinalityType, FS_EmptySet
<1>6. PICK N \in Nat : N = Cardinality(Clusters) - 1
  BY <1>5
<1>7. Directories = to[N]
  BY <1>6 DEF Directories
<1> HIDE DEF to
<1> DEFINE Solves(at, n) == at = [k \in 0 .. n |-> Step(at, k)]
           Solved == {n \in Nat : \E at : Solves(at, n)}
<1>15. 0 \in Solved
  <2>1. PICK at : at = [k \in 0 .. 0 |-> {Top}]
    OBVIOUS
  <2>2. \A k \in 0 .. 0 : Step(at, k) = {Top}
    OBVIOUS
  <2>3. Solves(at, 0)
    BY <2>1, <2>2
  <2> QED BY <2>3
<1>16. ASSUME NEW n \in Nat, n # 0, n - 1 \in Solved PROVE n \in Solved
  <2>1. PICK at : Solves(at, n - 1)
    BY <1>16
  <2> HIDE DEF Step
  <2>2. \A k \in 0 .. n - 1 : at[k] = Step(at, k)
    BY <2>1
  <2>3. PICK on : on = [k \in 0 .. n |-> IF k = n THEN Step(at, n) ELSE at[k]]
    OBVIOUS
  <2>4. \A k \in 0 .. n - 1 : on[k] = at[k]
    BY <2>3, <1>16
  <2>5. ASSUME NEW k \in 0 .. n PROVE Step(on, k) = Step(at, k)
    <3>1. CASE k = 0
      BY <3>1 DEF Step
    <3>2. CASE k # 0
      <4>1. on[k - 1] = at[k - 1]
        BY <3>2, <2>4, <1>16
      <4> QED BY <4>1 DEF Step
    <3> QED BY <3>1, <3>2
  <2>6. ASSUME NEW k \in 0 .. n PROVE on[k] = Step(on, k)
    <3>1. CASE k = n
      BY <3>1, <2>3, <2>5
    <3>2. CASE k # n
      <4>1. k \in 0 .. n - 1
        BY <3>2, <1>16
      <4> QED BY <4>1, <2>2, <2>4, <2>5
    <3> QED BY <3>1, <3>2
  <2>7. Solves(on, n)
    BY <2>3, <2>6
  <2> QED BY <2>7
<1> HIDE DEF Solved, Solves
<1>17. Nat \subseteq Solved
  BY <1>15, <1>16, AllNat
<1>18. \E at : Solves(at, N)
  BY <1>6, <1>17 DEF Solved
<1>19. \E at : Follows(at)
  BY <1>6, <1>18 DEF Solves
<1>9. Follows(to)
  BY <1>19 DEF to
<1>10. \A k \in 0 .. N : to[k] = Step(to, k)
  BY <1>6, <1>9
<1>11. to[0] = {Top}
  BY <1>10, <1>6, 0 \in 0 .. N
<1>12. ASSUME NEW k \in 1 .. N PROVE to[k] = to[k - 1] \cup UNION {Below(z) : z \in to[k - 1]}
  BY <1>10, <1>6, k \in 0 .. N, k # 0
<1> QED BY <1>6, <1>7, <1>11, <1>12

(* Paths lead to directories.                                              *)
LEMMA DirectoriesAre ==
  ASSUME NEW H, NEW ch, NEW T, Laid(fat, slot, H, ch, T), Good(H, ch, T), NEW l \in Directories
  PROVE  \E h \in H : l = Home(T, h)
<1> DEFINE Homes == {Home(T, h) : h \in H}
<1>1. Root \in H /\ Home(T, Root) = Top
  BY DEF Laid, Good, DirOK
<1>2. Top \in Homes
  BY <1>1
<1>3. ASSUME NEW h \in H PROVE Below(Home(T, h)) \subseteq Homes
  <2>1. ViewFacts(H, ch, T, h)
    BY View
  <2>2. PICK e : e = Ent(T, h)
    OBVIOUS
  <2>3. /\ EntryAt(Home(T, h)) = e /\ e.cluster = h /\ Present(e) \ {0, 1} = Used(T, h)
        /\ \A i \in Used(T, h) : At(h, i) = T[h][i]
    <3>1. \A i \in 0 .. Ent(T, h).length - 1 : At(h, i) = T[h][i]
      BY <2>1 DEF ViewFacts
    <3>2. \A i \in Used(T, h) : i \in 0 .. Ent(T, h).length - 1
      BY <2>1 DEF ViewFacts, Used
    <3> QED BY <3>1, <3>2, <2>1, <2>2 DEF ViewFacts
  <2>4. Below(Home(T, h)) = {Loc(h, i) : i \in {j \in Used(T, h) : T[h][j].dir}}
    BY <2>3 DEF Below
  <2>5. ASSUME NEW i \in Used(T, h), T[h][i].dir PROVE Loc(h, i) \in Homes
    <3>1. Item(H, T, h, i)
      BY DEF Good, DirOK
    <3> QED BY <3>1, <2>5 DEF Item
  <2> QED BY <2>4, <2>5
<1>4. ASSUME NEW A, A \subseteq Homes PROVE A \cup UNION {Below(z) : z \in A} \subseteq Homes
  BY <1>3, <1>4
<1> HIDE DEF Homes
<1>5. PICK N, to :
        /\ N \in Nat /\ N = Cardinality(Clusters) - 1 /\ Directories = to[N] /\ to[0] = {Top}
        /\ \A k \in 1 .. N : to[k] = to[k - 1] \cup UNION {Below(z) : z \in to[k - 1]}
  BY Paths
<1> DEFINE Inside == {k \in Nat : k \in 0 .. N => to[k] \subseteq Homes}
<1>11. 0 \in Inside
  BY <1>2, <1>5
<1>12. ASSUME NEW k \in Nat, k # 0, k - 1 \in Inside PROVE k \in Inside
  <2> SUFFICES ASSUME k \in 0 .. N PROVE to[k] \subseteq Homes
    OBVIOUS
  <2>1. k - 1 \in 0 .. N /\ k \in 1 .. N
    BY <1>12, <1>5
  <2>2. to[k - 1] \subseteq Homes
    BY <2>1, <1>12
  <2>3. to[k] = to[k - 1] \cup UNION {Below(z) : z \in to[k - 1]}
    BY <2>1, <1>5
  <2> QED BY <2>2, <2>3, <1>4
<1> HIDE DEF Inside
<1>13. Nat \subseteq Inside
  BY <1>11, <1>12, AllNat
<1> USE DEF Inside
<1>14. to[N] \subseteq Homes
  BY <1>13, <1>5
<1> QED BY <1>5, <1>14 DEF Homes

(* No directory is further from the root than there are clusters: on its   *)
(* way up there is one of each smaller distance.                           *)
LEMMA Near ==
  ASSUME NEW H, NEW ch, NEW T, H \subseteq Clusters, Good(H, ch, T), NEW r, Rank(H, T, r),
         NEW h \in H
  PROVE  r[h] \in 0 .. Cardinality(Clusters) - 1
<1>1. r[h] \in Nat /\ Cardinality(Clusters) \in Nat
  BY DirectoryAssumption, FS_CardinalityType DEF Rank
<1>2. PICK m \in Nat : m = r[h]
  BY <1>1
<1> DEFINE Has == {j \in Nat : j <= m => \E g \in H : r[g] = m - j}
<1>3. 0 \in Has
  BY <1>2
<1>4. ASSUME NEW j \in Nat, j # 0, j - 1 \in Has PROVE j \in Has
  <2> SUFFICES ASSUME j <= m PROVE \E g \in H : r[g] = m - j
    OBVIOUS
  <2>1. PICK g \in H : r[g] = m - (j - 1)
    BY <1>4
  <2>2. g # Root
    BY <2>1 DEF Rank
  <2>3. T[g][0].cluster \in H
    BY <2>2 DEF Good, DirOK
  <2>4. r[g] = r[T[g][0].cluster] + 1 /\ r[T[g][0].cluster] \in Nat
    BY <2>2, <2>3 DEF Rank
  <2> QED BY <2>1, <2>3, <2>4
<1> HIDE DEF Has
<1>5. Nat \subseteq Has
  BY <1>3, <1>4, AllNat
<1> USE DEF Has
<1>6. ASSUME NEW i \in 0 .. m PROVE \E g \in H : r[g] = i
  <2>1. m - i \in Nat /\ m - i <= m /\ m - (m - i) = i
    OBVIOUS
  <2> QED BY <2>1, <1>5
<1>7. PICK w : w = [i \in 0 .. m |-> CHOOSE g \in H : r[g] = i]
  OBVIOUS
<1>8. w \in [0 .. m -> Clusters] /\ \A i \in 0 .. m : r[w[i]] = i
  BY <1>6, <1>7
<1>9. IsFiniteSet(0 .. m) /\ Cardinality(0 .. m) = m + 1
  BY FS_Interval
<1> SUFFICES ASSUME m + 1 > Cardinality(Clusters) PROVE FALSE
  BY <1>1, <1>2
<1>10. PICK i \in 0 .. m, j \in 0 .. m : i # j /\ w[i] = w[j]
  BY <1>8, <1>9, DirectoryAssumption, FS_PigeonHole
<1> QED BY <1>8, <1>10

(* Paths lead to every directory of the table.                             *)
LEMMA DirectoriesReached ==
  ASSUME NEW H, NEW ch, NEW T, Laid(fat, slot, H, ch, T), Good(H, ch, T), NEW d \in H
  PROVE  Home(T, d) \in Directories
<1>1. PICK r : Rank(H, T, r)
  BY DEF Good, Ranked
<1>2. PICK N, to :
        /\ N \in Nat /\ N = Cardinality(Clusters) - 1 /\ Directories = to[N] /\ to[0] = {Top}
        /\ \A k \in 1 .. N : to[k] = to[k - 1] \cup UNION {Below(z) : z \in to[k - 1]}
  BY Paths
<1>3. ASSUME NEW h \in H PROVE r[h] \in 0 .. N
  <2>1. H \subseteq Clusters
    BY DEF Laid
  <2> QED BY <2>1, <1>1, <1>2, Near
<1>4. ASSUME NEW h \in H \ {Root}
      PROVE  T[h][0].cluster \in H /\ Home(T, h) \in Below(Home(T, T[h][0].cluster))
  <2>1. PICK g : g = T[h][0].cluster
    OBVIOUS
  <2>2. PICK i : i = T[h][0].back
    OBVIOUS
  <2>3. g \in H /\ i \in Used(T, g) /\ T[g][i].dir /\ Home(T, h) = Loc(g, i)
    BY <2>1, <2>2 DEF Good, DirOK, Ent, Home
  <2>4. ViewFacts(H, ch, T, g)
    BY <2>3, View
  <2>5. PICK e : e = Ent(T, g)
    OBVIOUS
  <2>6. i \in 0 .. e.length - 1
    BY <2>3, <2>4, <2>5 DEF ViewFacts, Used
  <2>7. EntryAt(Home(T, g)) = e /\ e.cluster = g /\ Present(e) \ {0, 1} = Used(T, g) /\ At(g, i) = T[g][i]
    BY <2>4, <2>5, <2>6 DEF ViewFacts
  <2>8. Loc(g, i) \in Below(Home(T, g))
    BY <2>3, <2>7 DEF Below
  <2> QED BY <2>1, <2>3, <2>8
<1> DEFINE Reached == {k \in Nat : k \in 0 .. N => \A h \in H : r[h] <= k => Home(T, h) \in to[k]}
<1>5. 0 \in Reached
  <2>1. ASSUME NEW h \in H, r[h] <= 0 PROVE Home(T, h) = Top
    <3>1. h = Root
      <4> SUFFICES ASSUME h # Root PROVE FALSE
        OBVIOUS
      <4>1. T[h][0].cluster \in H
        BY <1>4
      <4>2. r[h] = r[T[h][0].cluster] + 1 /\ r[T[h][0].cluster] \in Nat
        BY <4>1, <1>1 DEF Rank
      <4> QED BY <4>2, <2>1
    <3> QED BY <3>1 DEF Good, DirOK
  <2> QED BY <2>1, <1>2
<1>6. ASSUME NEW k \in Nat, k # 0, k - 1 \in Reached PROVE k \in Reached
  <2> SUFFICES ASSUME k \in 0 .. N, NEW h \in H, r[h] <= k PROVE Home(T, h) \in to[k]
    OBVIOUS
  <2>1. k - 1 \in 0 .. N /\ k \in 1 .. N
    BY <1>6, <1>2
  <2>2. \A g \in H : r[g] <= k - 1 => Home(T, g) \in to[k - 1]
    BY <2>1, <1>6
  <2>3. to[k] = to[k - 1] \cup UNION {Below(z) : z \in to[k - 1]}
    BY <2>1, <1>2
  <2>4. CASE r[h] <= k - 1
    BY <2>2, <2>3, <2>4
  <2>5. CASE ~ (r[h] <= k - 1)
    <3>1. r[h] = k /\ h # Root
      BY <2>5, <1>1, <1>3, <1>6 DEF Rank
    <3>2. PICK g \in H : g = T[h][0].cluster /\ Home(T, h) \in Below(Home(T, g))
      BY <3>1, <1>4
    <3>3. r[g] <= k - 1
      BY <3>1, <3>2, <1>1, <1>3 DEF Rank
    <3> QED BY <3>2, <3>3, <2>2, <2>3
  <2> QED BY <2>4, <2>5
<1> HIDE DEF Reached
<1>7. Nat \subseteq Reached
  BY <1>5, <1>6, AllNat
<1> USE DEF Reached
<1>8. r[d] <= N /\ N \in 0 .. N
  BY <1>3, <1>2
<1> QED BY <1>2, <1>7, <1>8
-----------------------------------------------------------------------------
(* The tree of names                                                       *)

(* What an entry of directory h is in that tree.                           *)
Rec(h, e) == [up |-> h, name |-> e.name, node |-> e.cluster]

(* The entries of the table, past the first two of each directory.         *)
TreeOf(H, T) == UNION {{Rec(h, T[h][i]) : i \in Used(T, h)} : h \in H}

(* A name of the tree is one of an entry.                                  *)
LEMMA TreeIn ==
  ASSUME NEW H, NEW T, NEW r
  PROVE  r \in TreeOf(H, T) <=> \E h \in H : \E i \in Used(T, h) : r = Rec(h, T[h][i])
BY DEF TreeOf

(* It has three parts.                                                     *)
LEMMA RecIs ==
  ASSUME NEW h, NEW e
  PROVE  Rec(h, e).up = h /\ Rec(h, e).name = e.name /\ Rec(h, e).node = e.cluster
BY DEF Rec

(* A chain that gets longer changes no name.                               *)
LEMMA TreeExtends ==
  ASSUME NEW H, NEW ch, NEW T, Sized(H, ch, T), Good(H, ch, T),
         NEW ch2, NEW T2, Extends(H, ch, T, ch2, T2), Sized(H, ch2, T2)
  PROVE  TreeOf(H, T2) = TreeOf(H, T)
<1>1. ASSUME NEW h \in H PROVE Used(T2, h) = Used(T, h)
  BY ExtendsGood
<1>2. ASSUME NEW h \in H, NEW i \in Used(T, h) PROVE T2[h][i] = T[h][i]
  <2>1. i \in Indexes(ch[h])
    BY GoodFacts DEF DirFacts
  <2> QED BY <2>1 DEF Extends
<1>3. ASSUME NEW r PROVE r \in TreeOf(H, T2) <=> r \in TreeOf(H, T)
  BY <1>1, <1>2, TreeIn
<1> QED BY <1>3

(* An entry that comes adds its name and changes no other.                 *)
LEMMA TreeInserted ==
  ASSUME NEW H, NEW ch, NEW T, Sized(H, ch, T), Good(H, ch, T), NEW h \in H,
         NEW k, Vacant(ch, T, h, k), NEW x \in Entry, NEW n \in Lengths,
         n = LengthWith(T, h, k), x.name \in Names, \A i \in Used(T, h) : T[h][i].name # x.name,
         NEW T2, Edited(H, ch, T, h, k, x, n, T2), Fits(H, ch, T2, h, k, x)
  PROVE  TreeOf(With(H, x), T2) = TreeOf(H, T) \cup {Rec(h, x)}
<1>1. PICK H2 : H2 = With(H, x)
  OBVIOUS
<1>2. ASSUME NEW g \in H PROVE EditFacts(H, ch, T, h, k, x, n, T2, g)
  BY EditIs
<1>3. T2[h][k] = x
  BY DEF Edited, Vacant
<1>4. ASSUME NEW g \in H
      PROVE  Used(T2, g) = IF g = h THEN Used(T, h) \cup {k} ELSE Used(T, g)
  BY <1>2 DEF EditFacts
<1>5. ASSUME NEW g \in H, NEW j \in Used(T, g)
      PROVE  Rec(g, T2[g][j]) = Rec(g, T[g][j])
  <2>1. DirFacts(H, ch, T, g)
    BY GoodFacts
  <2>2. /\ j \in Indexes(ch[g]) /\ T[g][j] # Gone
        /\ j \in Nat /\ j < Ent(T, g).length /\ Ent(T, g).length \in Nat
    BY <2>1 DEF DirFacts
  <2>3. g # h \/ j # k
    BY <2>2 DEF Vacant
  <2>4. T2[g][j].name = T[g][j].name /\ T2[g][j].cluster = T[g][j].cluster
    BY <2>2, <2>3, <1>2 DEF EditFacts
  <2> QED BY <2>4 DEF Rec
<1>6. H2 = H \/ \E c : c \notin H /\ H2 = H \cup {c} /\ Used(T2, c) = {}
  <2>1. CASE ~ x.dir
    BY <2>1, <1>1 DEF With
  <2>2. CASE x.dir
    <3>1. x # File(x.name)
      <4>1. ~ File(x.name).dir
        BY DEF File
      <4> QED BY <4>1, <2>2
    <3>2. PICK c : c = x.cluster
      OBVIOUS
    <3>3. c \notin H /\ x = Dir(x.name, c) /\ T2[c][0] = Self(h, k, 0)
      BY <3>1, <3>2 DEF Fits
    <3>4. T2[c][0].cluster = h /\ T2[c][0].back = k
      BY <3>3 DEF Self
    <3>5. Ent(T2, c) = x
      BY <3>4, <1>3 DEF Ent
    <3>6. x.length = 2
      <4>1. Dir(x.name, c).length = 2
        BY DEF Dir
      <4> QED BY <4>1, <3>3
    <3>7. Used(T2, c) = {}
      BY <3>5, <3>6 DEF Used
    <3> QED BY <3>2, <3>3, <3>7, <2>2, <1>1 DEF With
  <2> QED BY <2>1, <2>2
<1>7. ASSUME NEW r PROVE r \in TreeOf(H2, T2) <=> r \in TreeOf(H, T2)
  BY <1>6, TreeIn
<1>8. ASSUME NEW r PROVE r \in TreeOf(H, T2) <=> r \in TreeOf(H, T) \/ r = Rec(h, x)
  <2>1. ASSUME r \in TreeOf(H, T2) PROVE r \in TreeOf(H, T) \/ r = Rec(h, x)
    <3>1. PICK g, j : g \in H /\ j \in Used(T2, g) /\ r = Rec(g, T2[g][j])
      BY <2>1, TreeIn
    <3>2. CASE g = h /\ j = k
      BY <3>1, <3>2, <1>3
    <3>3. CASE ~ (g = h /\ j = k)
      <4>1. j \in Used(T, g)
        BY <3>1, <3>3, <1>4
      <4>2. g \in H
        BY <3>1
      <4>3. Rec(g, T2[g][j]) = Rec(g, T[g][j])
        BY <4>1, <4>2, <1>5
      <4> QED BY <3>1, <4>1, <4>2, <4>3, TreeIn
    <3> QED BY <3>2, <3>3
  <2>2. ASSUME r \in TreeOf(H, T) PROVE r \in TreeOf(H, T2)
    <3>1. PICK g, j : g \in H /\ j \in Used(T, g) /\ r = Rec(g, T[g][j])
      BY <2>2, TreeIn
    <3>2. j \in Used(T2, g)
      BY <3>1, <1>4
    <3>3. Rec(g, T2[g][j]) = Rec(g, T[g][j])
      BY <3>1, <1>5
    <3> QED BY <3>1, <3>2, <3>3, TreeIn
  <2>3. Rec(h, x) \in TreeOf(H, T2)
    <3>1. k \in Used(T2, h)
      BY <1>4
    <3> QED BY <3>1, <1>3, TreeIn
  <2> QED BY <2>1, <2>2, <2>3
<1> QED BY <1>1, <1>7, <1>8

(* An entry that goes takes its name away and no other.                    *)
LEMMA TreeStruck ==
  ASSUME NEW H, NEW ch, NEW T, Sized(H, ch, T), Good(H, ch, T), NEW h \in H,
         NEW i, Removable(H, T, h, i), NEW T2, Struck(H, ch, T, h, i, T2)
  PROVE  TreeOf(Without(H, T[h][i]), T2) = TreeOf(H, T) \ {Rec(h, T[h][i])}
<1>1. PICK e, H2 : e = T[h][i] /\ H2 = Without(H, e)
  OBVIOUS
<1>2. /\ h \in H2 /\ H2 \subseteq H /\ i \in Used(T, h)
      /\ \A g \in H \ H2 : Used(T, g) = {}
  BY <1>1, Dropped DEF Without, Removable
<1>3. ASSUME NEW g \in H2 PROVE Used(T2, g) = IF g = h THEN Used(T, h) \ {i} ELSE Used(T, g)
  BY <1>1, StrikeIs DEF StrikeFacts
<1>4. ASSUME NEW g \in H2, NEW j \in Used(T2, g) PROVE j \in Used(T, g) /\ T2[g][j] = T[g][j]
  <2>1. j \in Used(T, g) /\ ~ (g = h /\ j = i)
    BY <1>3
  <2>2. j \in Indexes(ch[g])
    BY <2>1, <1>2, GoodFacts DEF DirFacts
  <2> QED BY <2>1, <2>2, <1>2 DEF Struck
<1>5. ASSUME NEW g \in H, NEW j \in Used(T, g), Rec(g, T[g][j]) = Rec(h, e) PROVE g = h /\ j = i
  <2>1. g = h /\ T[g][j].name = e.name
    BY <1>5, RecIs
  <2> QED BY <2>1, <1>1, <1>2 DEF Good, DirOK
<1>6. ASSUME NEW r PROVE r \in TreeOf(H2, T2) <=> r \in TreeOf(H, T) /\ r # Rec(h, e)
  <2>1. ASSUME r \in TreeOf(H2, T2) PROVE r \in TreeOf(H, T) /\ r # Rec(h, e)
    <3>1. PICK g, j : g \in H2 /\ j \in Used(T2, g) /\ r = Rec(g, T2[g][j])
      BY <2>1, TreeIn
    <3>2. g \in H /\ j \in Used(T, g) /\ r = Rec(g, T[g][j]) /\ ~ (g = h /\ j = i)
      BY <3>1, <1>2, <1>3, <1>4
    <3> QED BY <3>2, <1>5, TreeIn
  <2>2. ASSUME r \in TreeOf(H, T), r # Rec(h, e) PROVE r \in TreeOf(H2, T2)
    <3>1. PICK g, j : g \in H /\ j \in Used(T, g) /\ r = Rec(g, T[g][j])
      BY <2>2, TreeIn
    <3>2. ~ (g = h /\ j = i)
      BY <3>1, <2>2, <1>1
    <3>3. g \in H2
      BY <3>1, <1>2
    <3>4. j \in Used(T2, g)
      BY <3>1, <3>2, <3>3, <1>3
    <3>5. r = Rec(g, T2[g][j])
      BY <3>1, <3>3, <3>4, <1>4
    <3> QED BY <3>3, <3>4, <3>5, TreeIn
  <2> QED BY <2>1, <2>2
<1> QED BY <1>1, <1>6

(* To the tree a new name is one that NameSpace lets come.                 *)
LEMMA TreeMade ==
  ASSUME NEW H, NEW ch, NEW T, Sized(H, ch, T), Good(H, ch, T), NEW h \in H, NEW x,
         x = File(x.name) \/ x.cluster \in Clusters \ H,
         \A i \in Used(T, h) : T[h][i].name # x.name,
         NEW t, t = TreeOf(H, T)
  PROVE  Promise!Step(t, t \cup {Rec(h, x)})
<1>1. PICK r : r = Rec(h, x) /\ r.up = h /\ r.name = x.name /\ r.node = x.cluster
  BY RecIs
<1>2. ASSUME NEW y \in t, y.up = h PROVE y.name # r.name
  <2>1. PICK g, j : g \in H /\ j \in Used(T, g) /\ y = Rec(g, T[g][j])
    BY TreeIn
  <2> QED BY <2>1, <1>1, <1>2, RecIs
<1>3. r \notin t
  BY <1>1, <1>2
<1>4. h \in Promise!Directories(t)
  <2>1. h # Null
    BY Consts DEF Sized
  <2>2. CASE h = Root
    BY <2>1, <2>2 DEF Promise!Directories
  <2>3. CASE h # Root
    <3>1. PICK g, b : g \in H /\ b \in Used(T, g) /\ g = T[h][0].cluster /\ b = T[h][0].back
      BY <2>3 DEF Good, DirOK
    <3>2. T[g][b].cluster = h
      BY <3>1 DEF Good, DirOK, Ent
    <3>3. PICK y : y = Rec(g, T[g][b]) /\ y.node = h
      BY <3>2, RecIs
    <3>4. y \in t
      BY <3>1, <3>3, TreeIn
    <3> QED BY <3>3, <3>4, <2>1 DEF Promise!Directories
  <2> QED BY <2>2, <2>3
<1>5. ASSUME NEW y \in t PROVE y.node \in H \/ y.node = Null
  <2>1. PICK g, j : g \in H /\ j \in Used(T, g) /\ y = Rec(g, T[g][j])
    BY TreeIn
  <2>2. Item(H, T, g, j)
    BY <2>1 DEF Good, DirOK
  <2>3. T[g][j].cluster \in H \/ T[g][j].cluster = Null
    BY <2>2 DEF Item, File
  <2> QED BY <2>1, <2>3, RecIs
<1>6. r.node \notin Promise!Directories(t)
  <2>1. CASE x = File(x.name)
    <3>1. File(x.name).cluster = Null
      BY DEF File
    <3> QED BY <3>1, <2>1, <1>1 DEF Promise!Directories
  <2>2. CASE x.cluster \in Clusters \ H
    BY <2>2, <1>1, <1>5, Consts DEF Promise!Directories, Sized
  <2> QED BY <2>1, <2>2
<1>7. Promise!Made(t, t \cup {r}, r)
  BY <1>1, <1>2, <1>3, <1>4, <1>6 DEF Promise!Made
<1> QED BY <1>1, <1>7 DEF Promise!Step

(* And one that goes is one that it lets go.                               *)
LEMMA TreeRemoved ==
  ASSUME NEW H, NEW ch, NEW T, Sized(H, ch, T), Good(H, ch, T), NEW h \in H,
         NEW i, Removable(H, T, h, i), NEW t, t = TreeOf(H, T)
  PROVE  Promise!Step(t, t \ {Rec(h, T[h][i])})
<1>1. PICK e, r : e = T[h][i] /\ r = Rec(h, e) /\ r.node = e.cluster
  BY RecIs
<1>2. i \in Used(T, h) /\ Item(H, T, h, i)
  BY DEF Removable, Good, DirOK
<1>3. r \in t
  BY <1>1, <1>2, TreeIn
<1>4. \/ e.cluster \in H \ {Root} /\ Used(T, e.cluster) = {}
      \/ e.cluster = Null
  <2>1. CASE e.dir
    BY <2>1, <1>1, <1>2 DEF Item, Removable
  <2>2. CASE ~ e.dir
    BY <2>2, <1>1, <1>2 DEF Item, File
  <2> QED BY <2>1, <2>2
<1>5. r.node # Root
  BY <1>1, <1>4, Consts
<1>6. ASSUME NEW y \in t PROVE y.up # r.node
  <2>1. PICK g, j : g \in H /\ j \in Used(T, g) /\ y = Rec(g, T[g][j])
    BY TreeIn
  <2>2. g # Null
    BY <2>1, Consts DEF Sized
  <2> QED BY <2>1, <2>2, <1>1, <1>4, RecIs
<1>7. Promise!Removed(t, t \ {r}, r)
  BY <1>5, <1>6 DEF Promise!Removed
<1> QED BY <1>1, <1>3, <1>7 DEF Promise!Step

(* What paths lead to is the tree of the table.                            *)
TreeFollows ==
  \A H, ch, T : Laid(fat, slot, H, ch, T) /\ Good(H, ch, T) => Tree = TreeOf(H, T)

(* It is in every state.                                                   *)
LEMMA TreeIs == TreeFollows
<1> SUFFICES ASSUME NEW H, NEW ch, NEW T, Laid(fat, slot, H, ch, T), Good(H, ch, T)
             PROVE  Tree = TreeOf(H, T)
  BY DEF TreeFollows
<1> DEFINE Items(e) == {[up |-> e.cluster, name |-> x.name, node |-> x.cluster] :
                          x \in {At(e.cluster, i) : i \in Present(e) \ {0, 1}}}
<1>1. Tree = UNION {Items(EntryAt(l)) : l \in Directories}
  BY DEF Tree
<1>2. ASSUME NEW h \in H PROVE Items(EntryAt(Home(T, h))) = {Rec(h, T[h][i]) : i \in Used(T, h)}
  <2>1. ViewFacts(H, ch, T, h)
    BY View
  <2>2. PICK e : e = Ent(T, h)
    OBVIOUS
  <2>3. EntryAt(Home(T, h)) = e /\ e.cluster = h /\ Present(e) \ {0, 1} = Used(T, h)
    BY <2>1, <2>2 DEF ViewFacts
  <2>4. \A i \in Used(T, h) : At(h, i) = T[h][i]
    <3>1. \A i \in 0 .. Ent(T, h).length - 1 : At(h, i) = T[h][i]
      BY <2>1 DEF ViewFacts
    <3>2. \A i \in Used(T, h) : i \in 0 .. Ent(T, h).length - 1
      BY <2>1 DEF ViewFacts, Used
    <3> QED BY <3>1, <3>2
  <2>5. Items(e) = {[up |-> h, name |-> x.name, node |-> x.cluster] :
                      x \in {At(h, i) : i \in Used(T, h)}}
    BY <2>3
  <2>6. {At(h, i) : i \in Used(T, h)} = {T[h][i] : i \in Used(T, h)}
    BY <2>4
  <2>7. Items(e) = {Rec(h, x) : x \in {T[h][i] : i \in Used(T, h)}}
    BY <2>5, <2>6 DEF Rec
  <2>8. {Rec(h, x) : x \in {T[h][i] : i \in Used(T, h)}} = {Rec(h, T[h][i]) : i \in Used(T, h)}
    OBVIOUS
  <2> QED BY <2>3, <2>7, <2>8
<1> HIDE DEF Items
<1>3. ASSUME NEW r PROVE r \in Tree <=> \E l \in Directories : r \in Items(EntryAt(l))
  BY <1>1
<1>4. ASSUME NEW r PROVE r \in Tree <=> \E h \in H : r \in Items(EntryAt(Home(T, h)))
  BY <1>3, DirectoriesAre, DirectoriesReached
<1>5. ASSUME NEW r PROVE r \in Tree <=> r \in TreeOf(H, T)
  BY <1>2, <1>4 DEF TreeOf
<1> QED BY <1>5
-----------------------------------------------------------------------------
(* The slot for a new entry, and room for it                               *)

(* A number of whole clusters.                                             *)
LEMMA Multiple ==
  ASSUME NEW P \in Nat \ {0}, NEW n \in Nat
  PROVE  /\ n * P \in Nat /\ (n * P) % P = 0 /\ (n * P) \div P = n
         /\ \A k \in Nat : P * k <= n * P => k <= n
         /\ \A k \in Nat : k < n => P * k < n * P
<1>1. PICK z \in Nat : z = n * P /\ z = P * n
  <2>1. n * P \in Nat /\ n * P = P * n
    BY Scaled
  <2> QED BY <2>1
<1>2. PICK q \in Nat, r \in 0 .. P - 1 : z = P * q + r /\ q = z \div P /\ r = z % P
  BY Split
<1>3. ASSUME NEW a \in Nat, NEW b \in Nat, a < b PROVE P * b >= P * a + P /\ P * a \in Nat
  <2>1. a + 1 \in Nat /\ b >= a + 1
    BY <1>3
  <2>2. PICK c \in Nat : c = a + 1
    BY <2>1
  <2>3. P * b >= P * c
    BY <2>1, <2>2, Scaled
  <2>4. P * c = P * a + P /\ P * a \in Nat
    BY <2>2
  <2>5. P * b \in Nat /\ P * c \in Nat
    OBVIOUS
  <2> QED BY <2>3, <2>4, <2>5
<1>4. P * q \in Nat /\ P * n \in Nat
  OBVIOUS
<1>5. q = n
  <2>1. CASE q < n
    <3>1. P * n >= P * q + P
      BY <2>1, <1>3
    <3> QED BY <3>1, <1>1, <1>2, <1>4
  <2>2. CASE q > n
    <3>1. P * q >= P * n + P
      BY <2>2, <1>3
    <3> QED BY <3>1, <1>1, <1>2, <1>4
  <2> QED BY <2>1, <2>2
<1>6. r = 0
  BY <1>1, <1>2, <1>4, <1>5
<1>7. ASSUME NEW k \in Nat, P * k <= n * P PROVE k <= n
  <2> SUFFICES ASSUME k > n PROVE FALSE
    OBVIOUS
  <2>1. P * k >= P * n + P /\ P * k \in Nat
    BY <1>3
  <2> QED BY <2>1, <1>1, <1>4, <1>7
<1>8. ASSUME NEW k \in Nat, k < n PROVE P * k < n * P
  <2>1. P * n >= P * k + P /\ P * k \in Nat
    BY <1>3, <1>8
  <2> QED BY <2>1, <1>1, <1>4
<1> QED BY <1>1, <1>2, <1>5, <1>6, <1>7, <1>8

(* The slot Card_CacheDirEntry finds is the first empty one, or the one    *)
(* after the last.                                                         *)
LEMMA HoleIs ==
  ASSUME NEW H, NEW ch, NEW T, Laid(fat, slot, H, ch, T), Good(H, ch, T), NEW h \in H,
         NEW hole, hole = Hole(Home(T, h))
  PROVE  /\ hole \in Nat /\ hole \in Lengths /\ 2 <= hole /\ hole <= Ent(T, h).length
         /\ hole = Ent(T, h).length \/ T[h][hole] = Gone
         /\ \A i \in 2 .. hole - 1 : T[h][i] # Gone
         /\ \A i \in Nat : i < hole => i \in Present(Ent(T, h))
<1>1. PICK e : e = Ent(T, h) /\ e = EntryAt(Home(T, h))
  BY View DEF ViewFacts
<1>2. PICK m \in Nat : m = e.length /\ m >= 2 /\ m \in Lengths
  BY <1>1, View DEF ViewFacts
<1>3. /\ Present(e) = {0, 1} \cup Used(T, h)
      /\ \A i : i \in Used(T, h) <=> i \in 2 .. m - 1 /\ T[h][i] # Gone
  BY <1>1, <1>2, View DEF ViewFacts, Used
<1>4. hole = LeastOf(Lengths \ Present(e))
  BY <1>1 DEF Hole
<1>5. m \notin Present(e)
  BY <1>2, <1>3
<1>6. Lengths \ Present(e) \subseteq Nat /\ Lengths \ Present(e) # {}
  BY <1>2, <1>5, Consts DEF Lengths
<1>7. /\ hole \in Lengths \ Present(e) /\ \A k \in Lengths \ Present(e) : hole <= k
  BY <1>4, <1>6, LeastIs
<1>8. hole \in Nat /\ hole \in Lengths /\ hole # 0 /\ hole # 1 /\ hole <= m
  BY <1>2, <1>3, <1>5, <1>6, <1>7
<1>9. ASSUME NEW i \in Nat, i < hole PROVE i \in Present(e)
  <2>1. i \in Lengths
    BY <1>8, <1>9, Consts DEF Lengths
  <2> QED BY <2>1, <1>7, <1>8, <1>9
<1>10. hole = m \/ T[h][hole] = Gone
  <2>1. hole # m => hole \in 2 .. m - 1
    BY <1>2, <1>8
  <2> QED BY <2>1, <1>3, <1>7
<1>11. ASSUME NEW i \in 2 .. hole - 1 PROVE T[h][i] # Gone
  <2>1. i \in Nat /\ i < hole /\ i # 0 /\ i # 1
    BY <1>8
  <2>2. i \in Used(T, h)
    BY <2>1, <1>3, <1>9
  <2> QED BY <2>2, <1>3
<1> QED BY <1>1, <1>2, <1>8, <1>9, <1>10, <1>11

(* A name that is not there finds room: the names in use differ.           *)
LEMMA Room ==
  ASSUME NEW H, NEW ch, NEW T, Laid(fat, slot, H, ch, T), Good(H, ch, T), NEW h \in H,
         NEW hole, hole = Hole(Home(T, h)),
         NEW n \in Names, \A i \in Used(T, h) : T[h][i].name # n
  PROVE  LengthWith(T, h, hole) \in Lengths
<1>1. PICK m \in Nat : m = Ent(T, h).length /\ m >= 2 /\ m \in Lengths
  BY View DEF ViewFacts
<1>2. PICK N \in Nat : N = Cardinality(Names) /\ MaxLength = 2 + N /\ Lengths = 0 .. 2 + N
  BY Consts DEF MaxLength, Lengths
<1>3. CASE hole # m
  BY <1>1, <1>3 DEF LengthWith
<1>4. CASE hole = m
  <2> SUFFICES ASSUME m = 2 + N PROVE FALSE
    <3>1. m + 1 \in Lengths
      BY <1>1, <1>2
    <3> QED BY <3>1, <1>1, <1>4 DEF LengthWith
  <2>0. \A i \in 2 .. hole - 1 : T[h][i] # Gone
    BY HoleIs
  <2>1. \A i \in 2 .. m - 1 : T[h][i] # Gone
    BY <2>0, <1>4
  <2>2. ASSUME NEW i \in 2 .. m - 1 PROVE i \in Used(T, h)
    BY <2>1, <1>1 DEF Used
  <2>3. ASSUME NEW i \in 2 .. m - 1 PROVE T[h][i].name \in Names \ {n}
    <3>1. Item(H, T, h, i)
      BY <2>2 DEF Good, DirOK
    <3> QED BY <3>1, <2>2 DEF Item
  <2>4. IsFiniteSet(2 .. m - 1) /\ Cardinality(2 .. m - 1) = N
    BY <1>1, FS_Interval
  <2>5. IsFiniteSet(Names \ {n}) /\ Cardinality(Names \ {n}) = N - 1
    BY <1>2, Consts, FS_RemoveElement
  <2>6. PICK w : w = [i \in 2 .. m - 1 |-> T[h][i].name]
    OBVIOUS
  <2>7. w \in [2 .. m - 1 -> Names \ {n}]
    BY <2>3, <2>6
  <2>8. PICK i \in 2 .. m - 1, j \in 2 .. m - 1 : i # j /\ w[i] = w[j]
    BY <2>4, <2>5, <2>7, <1>2, FS_PigeonHole
  <2>9. T[h][i].name = T[h][j].name
    BY <2>6, <2>8
  <2>10. i = j
    BY <2>2, <2>8, <2>9 DEF Good, DirOK
  <2> QED BY <2>8, <2>10
<1> QED BY <1>3, <1>4

(* Whether the directory grew or not, there is a place for the slot.       *)
LEMMA GrownIs ==
  ASSUME fat \in Links, slot \in Slots,
         NEW H, NEW ch, NEW T, Laid(fat, slot, H, ch, T), Good(H, ch, T), NEW h \in H,
         NEW hole, hole = Hole(Home(T, h)), NEW f \in Grown(Ent(T, h), hole)
  PROVE  /\ f \in Links
         /\ \E ch1, T1 : /\ Laid(f, slot, H, ch1, T1) /\ Extends(H, ch, T, ch1, T1)
                         /\ hole \in Indexes(ch1[h])
<1>0. PICK s : s = slot
  OBVIOUS
<1>1. PICK f0 : f0 = fat
  OBVIOUS
<1>2. Laid(f0, s, H, ch, T) /\ Sized(H, ch, T)
  BY <1>0, <1>1, LaidSized
<1>3. PICK e : e = Ent(T, h)
  OBVIOUS
<1>4. PICK m \in Nat : m = e.length /\ m >= 2 /\ e.cluster = h
  BY <1>3, View DEF ViewFacts
<1>5. hole \in Nat /\ hole >= 2 /\ hole <= m
  BY <1>3, <1>4, HoleIs
<1>6. PICK q : q = ch[h]
  OBVIOUS
<1>7. Chained(f0, h, q)
  BY <1>2, <1>6 DEF Laid
<1>8. PICK L \in Nat : L = Len(q) /\ L > 0
  BY <1>7, ChainedFacts
<1>9. m <= L * PerCluster /\ L * PerCluster \in Nat
  BY <1>2, <1>3, <1>4, <1>6, <1>8, GoodFacts DEF DirFacts
<1>10. PICK z \in Nat : z = L * PerCluster
  BY <1>9
<1>11. Indexes(q) = 0 .. z - 1
  BY <1>8, <1>10 DEF Indexes
<1>12. Extends(H, ch, T, ch, T)
  BY <1>2 DEF Extends, Sized
<1>13. CASE hole \in Indexes(q) /\ f = fat
  BY <1>6, <1>12, <1>13
<1>14. PICK P \in Nat \ {0} : P = PerCluster
  BY Consts
<1>15. z % P = 0 /\ z \div P = L
  BY <1>10, <1>14, Multiple
<1>16. CASE ~ Needs(e, hole)
  <2>1. f = fat
    BY <1>3, <1>16 DEF Grown
  <2>2. ~ (hole = m /\ hole % P = 0)
    BY <1>4, <1>14, <1>16 DEF Needs
  <2>3. hole # z
    BY <2>2, <1>5, <1>9, <1>10, <1>15
  <2>4. hole \in Indexes(q)
    BY <2>3, <1>5, <1>9, <1>10, <1>11
  <2> QED BY <2>1, <2>4, <1>13
<1>17. CASE Needs(e, hole)
  <2>1. hole = m /\ hole % P = 0
    BY <1>4, <1>14, <1>17 DEF Needs
  <2>2. PICK k \in Nat : k = hole \div P /\ hole = P * k
    <3>1. hole \div P \in Nat /\ hole = P * (hole \div P) + (hole % P)
      BY <1>5, Split
    <3>2. PICK k \in Nat : k = hole \div P
      BY <3>1
    <3> QED BY <3>1, <3>2, <2>1
  <2>3. k > 0
    BY <2>2, <1>5
  <2>4. k <= L
    BY <2>1, <2>2, <1>5, <1>9, <1>14, Multiple
  <2>5. PICK last : last = Nth(fat, h, k - 1)
    OBVIOUS
  <2>6. last = q[k]
    <3>1. k - 1 \in Nat /\ k - 1 < Len(q) /\ (k - 1) + 1 = k
      BY <2>3, <2>4, <1>8
    <3>2. PICK j \in Nat : j = k - 1 /\ j < Len(q) /\ j + 1 = k
      BY <3>1
    <3>3. Nth(f0, h, j) = IF j < Len(q) THEN q[j + 1] ELSE End
      BY <1>7, NthIs
    <3> QED BY <3>2, <3>3, <2>5, <1>1
  <2>7. f \in IF fat[last] # End THEN {fat}
             ELSE {[fat EXCEPT ![last] = c, ![c] = End] : c \in FreeOf(fat)}
    <3>1. last = Nth(fat, e.cluster, hole \div PerCluster - 1)
      BY <2>2, <2>5, <1>4, <1>14
    <3> QED BY <3>1, <1>3, <1>17 DEF Grown
  <2>8. CASE k < L
    <3>1. k \in 1 .. Len(q) - 1 /\ k + 1 \in 1 .. Len(q)
      BY <2>3, <2>8, <1>8
    <3>2. f0[q[k]] = q[k + 1]
      BY <3>1, <1>7 DEF Chained
    <3>3. q[k + 1] \in Clusters
      BY <3>1, <1>7, ChainedFacts
    <3>4. fat[last] # End
      BY <3>2, <3>3, <2>6, <1>1, Consts
    <3>5. f = fat
      BY <3>4, <2>7
    <3>6. P * k < L * P
      BY <2>8, Multiple
    <3>7. hole \in Indexes(q)
      BY <3>6, <2>2, <1>5, <1>10, <1>11, <1>14
    <3> QED BY <3>5, <3>7, <1>13
  <2>9. CASE k = L
    <3>1. fat[last] = End
      <4>1. f0[q[Len(q)]] = End
        BY <1>7 DEF Chained
      <4> QED BY <4>1, <2>6, <2>9, <1>1, <1>8
    <3>2. PICK c \in FreeOf(fat) : f = [fat EXCEPT ![last] = c, ![c] = End]
      BY <3>1, <2>7
    <3>3. c \in Clusters /\ f0[c] = Free /\ f0 \in Links /\ s \in Slots
      BY <3>2, <1>0, <1>1 DEF FreeOf
    <3>4. f = Linked(f0, ch[h][Len(ch[h])], c)
      BY <3>2, <2>6, <2>9, <1>1, <1>6, <1>8 DEF Linked
    <3>5. /\ f \in Links
          /\ \E ch2, T2 : /\ Laid(f, s, H, ch2, T2) /\ Extends(H, ch, T, ch2, T2)
                          /\ Len(ch2[h]) = Len(ch[h]) + 1
      BY <3>3, <3>4, <1>2, GrowLaid
    <3>6. PICK ch1, T1 : /\ Laid(f, s, H, ch1, T1) /\ Extends(H, ch, T, ch1, T1)
                         /\ Len(ch1[h]) = Len(ch[h]) + 1
      BY <3>5
    <3>7. PICK M \in Nat : M = L + 1
      OBVIOUS
    <3>8. P * k < M * P /\ M * P \in Nat
      BY <3>7, <2>9, Multiple
    <3>9. hole \in Indexes(ch1[h])
      <4>1. Len(ch1[h]) * PerCluster = M * P
        BY <3>6, <3>7, <1>6, <1>8, <1>14
      <4>2. PICK w \in Nat : w = M * P
        BY <3>8
      <4> QED BY <4>1, <4>2, <3>8, <2>2, <1>5 DEF Indexes
    <3> QED BY <3>5, <3>6, <3>9, <1>0
  <2> QED BY <2>4, <2>8, <2>9
<1> QED BY <1>16, <1>17
-----------------------------------------------------------------------------
(* An entry is put in its slot, and the length in the directory's own      *)

(* The FAT leads to the clusters of the chains.                            *)
Follows(f, H, ch) ==
  \A g \in H : \A j \in Indexes(ch[g]) : ClusterOf(f, g, j) = ch[g][j \div PerCluster + 1]

(* It does when these are laid out.                                        *)
LEMMA LaidFollows ==
  ASSUME NEW f, NEW s, NEW H, NEW ch, NEW T, Laid(f, s, H, ch, T)
  PROVE  Follows(f, H, ch)
BY CellIs DEF Follows

(* Put writes one element of the table.                                    *)
LEMMA PutIs ==
  ASSUME NEW f2, NEW s \in Slots, NEW H, NEW ch, NEW T, Laid(f2, s, H, ch, T),
         NEW h \in H, NEW k \in Indexes(ch[h]), NEW x \in Entry \cup {Gone},
         NEW f, ClusterOf(f, h, k) = ch[h][k \div PerCluster + 1]
  PROVE  /\ Put(s, f, Loc(h, k), x) \in Slots
         /\ Laid(f2, Put(s, f, Loc(h, k), x), H, ch, Changed(H, ch, T, h, k, x))
<1>1. PICK s2 : s2 = Put(s, f, Loc(h, k), x)
  OBVIOUS
<1>2. s2 = Written(s, ch[h][k \div PerCluster + 1], k % PerCluster, x)
  <2>1. Loc(h, k).dir = h /\ Loc(h, k).at = k
    BY LocIs
  <2> QED BY <2>1, <1>1 DEF Put, Written
<1>3. s2 \in Slots /\ Laid(f2, s2, H, ch, Changed(H, ch, T, h, k, x))
  BY <1>2, PutLaid
<1> QED BY <1>1, <1>3

(* What the table holds then.                                              *)
LEMMA ChangedIs ==
  ASSUME NEW H, NEW ch, NEW T, NEW h, NEW k, NEW x, NEW g \in H, NEW j \in Indexes(ch[g])
  PROVE  Changed(H, ch, T, h, k, x)[g][j] = IF g = h /\ j = k THEN x ELSE T[g][j]
BY DEF Changed

(* The same as Fits, before the entry is put in its slot.                  *)
FitsIn(H, ch, T, h, k, x) ==
  \/ x = File(x.name)
  \/ /\ x.cluster \in Clusters \ H /\ x = Dir(x.name, x.cluster)
     /\ Len(ch[x.cluster]) = 1
     /\ T[x.cluster][0] = Self(h, k, 0) /\ T[x.cluster][1] = Above

(* All that an entry in its slot means: storage, tree, names and handles.  *)
Entered(f2, s2, H, ch, T, h, k, x, n, T2) ==
  /\ Laid(f2, s2, With(H, x), ch, T2) /\ Good(With(H, x), ch, T2)
  /\ Edited(H, ch, T, h, k, x, n, T2)
  /\ TreeOf(With(H, x), T2) = TreeOf(H, T) \cup {Rec(h, x)}
  /\ \A y \in Handle : HandleOK(H, T, y) => HandleOK(With(H, x), T2, Hears(y, h, x.name))

(* Inserted - the entry in its slot, and then the length in the entry of   *)
(* the directory - means all that.                                         *)
LEMMA InsertEntry ==
  ASSUME NEW f2, NEW s \in Slots, NEW H, NEW ch, NEW T, NEW x \in Entry,
         Laid(f2, s, With(H, x), ch, T), Sized(H, ch, T), Good(H, ch, T), NEW h \in H,
         NEW k, Vacant(ch, T, h, k), NEW n \in Lengths, n = LengthWith(T, h, k),
         x.name \in Names, \A i \in Used(T, h) : T[h][i].name # x.name,
         FitsIn(H, ch, T, h, k, x), NEW f, Follows(f, H, ch),
         NEW s2, s2 = Put(Put(s, f, Loc(h, k), x), f, Home(T, h), Lengthened(Ent(T, h), n))
  PROVE  s2 \in Slots /\ \E T2 : Entered(f2, s2, H, ch, T, h, k, x, n, T2)
<1>1. PICK H2 : H2 = With(H, x) /\ H \subseteq H2
  BY DEF With
<1>2. DirFacts(H, ch, T, h)
  BY GoodFacts
<1>3. PICK u \in H, b \in Nat : /\ Home(T, h) = Loc(u, b) /\ Ent(T, h) = T[u][b]
                                /\ b \in Indexes(ch[u]) /\ T[u][b] # Gone
                                /\ b < Ent(T, u).length
  BY <1>2 DEF DirFacts, Home, Ent
<1>4. k \in Indexes(ch[h]) /\ ~ (u = h /\ b = k)
  BY <1>3, GoodFacts DEF Vacant, DirFacts
<1>5. PICK y \in Entry : y = Lengthened(Ent(T, h), n)
  BY <1>2, LengthenedIs DEF DirFacts
<1>6. PICK sa : sa = Put(s, f, Loc(h, k), x)
  OBVIOUS
<1>7. PICK Ta : Ta = Changed(H2, ch, T, h, k, x)
  OBVIOUS
<1>8. sa \in Slots /\ Laid(f2, sa, H2, ch, Ta)
  <2>1. h \in H2 /\ x \in Entry \cup {Gone} /\ Laid(f2, s, H2, ch, T)
    BY <1>1
  <2>2. ClusterOf(f, h, k) = ch[h][k \div PerCluster + 1]
    BY <1>4 DEF Follows
  <2> QED BY <2>1, <2>2, <1>4, <1>6, <1>7, PutIs
<1>9. PICK T2 : T2 = Changed(H2, ch, Ta, u, b, y)
  OBVIOUS
<1>10. s2 \in Slots /\ Laid(f2, s2, H2, ch, T2)
  <2>1. u \in H2 /\ y \in Entry \cup {Gone}
    BY <1>1, <1>3
  <2>2. ClusterOf(f, u, b) = ch[u][b \div PerCluster + 1]
    BY <1>3 DEF Follows
  <2>3. s2 = Put(sa, f, Loc(u, b), y)
    BY <1>3, <1>5, <1>6
  <2>4. b \in Indexes(ch[u])
    BY <1>3
  <2> QED BY <2>1, <2>2, <2>3, <2>4, <1>8, <1>9, PutIs
<1>11. ASSUME NEW g \in H2, NEW j \in Indexes(ch[g])
       PROVE  T2[g][j] = IF g = h /\ j = k THEN x ELSE IF g = u /\ j = b THEN y ELSE T[g][j]
  <2>1. T2[g][j] = IF g = u /\ j = b THEN y ELSE Ta[g][j]
    BY <1>9, ChangedIs
  <2>2. Ta[g][j] = IF g = h /\ j = k THEN x ELSE T[g][j]
    BY <1>7, ChangedIs
  <2> QED BY <2>1, <2>2, <1>4
<1>12. Edited(H, ch, T, h, k, x, n, T2)
  <2>1. ASSUME NEW g \in H, NEW j \in Indexes(ch[g])
        PROVE  T2[g][j] = IF g = h /\ j = k THEN x
                          ELSE IF Loc(g, j) = Home(T, h) THEN Lengthened(T[g][j], n) ELSE T[g][j]
    <3>1. Loc(g, j) = Home(T, h) <=> g = u /\ j = b
      BY <1>3, LocIs
    <3>2. T2[g][j] = IF g = h /\ j = k THEN x ELSE IF g = u /\ j = b THEN y ELSE T[g][j]
      BY <1>1, <1>11
    <3> QED BY <3>1, <3>2, <1>3, <1>5
  <2> QED BY <2>1 DEF Edited
<1>13. Fits(H, ch, T2, h, k, x)
  <2>1. CASE x = File(x.name)
    BY <2>1 DEF Fits
  <2>2. CASE x # File(x.name)
    <3>1. PICK c \in Clusters \ H : c = x.cluster
      BY <2>2 DEF FitsIn
    <3>2. /\ x = Dir(x.name, c) /\ Len(ch[c]) = 1
          /\ T[c][0] = Self(h, k, 0) /\ T[c][1] = Above
      BY <2>2, <3>1 DEF FitsIn
    <3>3. x.dir
      <4>1. Dir(x.name, c).dir
        BY DEF Dir
      <4> QED BY <4>1, <3>2
    <3>4. c \in H2
      BY <3>1, <3>3, <1>1 DEF With
    <3>5. 0 \in Indexes(ch[c]) /\ 1 \in Indexes(ch[c])
      BY <3>2, IndexFacts
    <3>6. T2[c][0] = T[c][0] /\ T2[c][1] = T[c][1]
      BY <3>1, <3>4, <3>5, <1>3, <1>11
    <3> QED BY <3>1, <3>2, <3>6 DEF Fits
  <2> QED BY <2>1, <2>2
<1>14. Good(H2, ch, T2)
  BY <1>1, <1>12, <1>13, InsertGood
<1>15. ASSUME NEW z \in Handle, HandleOK(H, T, z) PROVE HandleOK(H2, T2, Hears(z, h, x.name))
  BY <1>1, <1>12, <1>15, InsertHandle
<1>16. TreeOf(H2, T2) = TreeOf(H, T) \cup {Rec(h, x)}
  BY <1>1, <1>12, <1>13, TreeInserted
<1> QED BY <1>1, <1>10, <1>12, <1>14, <1>15, <1>16 DEF Entered

(* Card_SetDirEntryState empties the slot, and the tree without the entry  *)
(* is good.                                                                *)
LEMMA StrikeEntry ==
  ASSUME NEW f, NEW s \in Slots, NEW H, NEW ch, NEW T, Laid(f, s, H, ch, T),
         Good(H, ch, T), NEW h \in H, NEW i, Removable(H, T, h, i),
         NEW s2, s2 = Put(s, f, Loc(h, i), Gone)
  PROVE  s2 \in Slots /\ \E T2 : /\ Laid(f, s2, H, ch, T2) /\ Struck(H, ch, T, h, i, T2)
                                 /\ Good(Without(H, T[h][i]), ch, T2)
                                 /\ TreeOf(Without(H, T[h][i]), T2)
                                      = TreeOf(H, T) \ {Rec(h, T[h][i])}
<1>1. Sized(H, ch, T) /\ Follows(f, H, ch)
  BY LaidSized, LaidFollows
<1>2. i \in Indexes(ch[h])
  BY <1>1, GoodFacts DEF Removable, DirFacts
<1>3. PICK T2 : T2 = Changed(H, ch, T, h, i, Gone)
  OBVIOUS
<1>4. s2 \in Slots /\ Laid(f, s2, H, ch, T2)
  <2>1. ClusterOf(f, h, i) = ch[h][i \div PerCluster + 1] /\ Gone \in Entry \cup {Gone}
    BY <1>1, <1>2 DEF Follows
  <2> QED BY <2>1, <1>2, <1>3, PutIs
<1>5. Struck(H, ch, T, h, i, T2)
  BY <1>3, ChangedIs DEF Struck
<1>6. Good(Without(H, T[h][i]), ch, T2)
  BY <1>1, <1>5, RemoveGood
<1>7. TreeOf(Without(H, T[h][i]), T2) = TreeOf(H, T) \ {Rec(h, T[h][i])}
  BY <1>1, <1>5, TreeStruck
<1> QED BY <1>4, <1>5, <1>6, <1>7

(* A slot is found for a name that is not there.                           *)
Opened(f, H, ch, T, h, hole, n, ch1, T1) ==
  /\ Laid(f, slot, H, ch1, T1) /\ Sized(H, ch1, T1) /\ Good(H, ch1, T1)
  /\ Vacant(ch1, T1, h, hole) /\ Home(T1, h) = Home(T, h) /\ Ent(T1, h) = Ent(T, h)
  /\ LengthWith(T1, h, hole) \in Lengths
  /\ \A i \in Used(T1, h) : T1[h][i].name # n
  /\ TreeOf(H, T1) = TreeOf(H, T)
  /\ \A y \in Handle : HandleOK(H, T, y) => HandleOK(H, T1, y)

(* Card_FileOpen finds or makes a slot for a name that is not there.       *)
LEMMA Opening ==
  ASSUME fat \in Links, slot \in Slots,
         NEW H, NEW ch, NEW T, Laid(fat, slot, H, ch, T), Good(H, ch, T), NEW h \in H,
         NEW n \in Names, Matches(Home(T, h), n) = {},
         NEW hole, hole = Hole(Home(T, h)), NEW f \in Grown(Ent(T, h), hole)
  PROVE  /\ f \in Links /\ hole \in Lengths /\ hole \in Nat /\ hole >= 2
         /\ \E ch1, T1 : Opened(f, H, ch, T, h, hole, n, ch1, T1)
<1>0. PICK f0, s : f0 = fat /\ s = slot
  OBVIOUS
<1>1. Sized(H, ch, T)
  BY <1>0, LaidSized
<1>2. \A i \in Used(T, h) : T[h][i].name # n
  BY View DEF ViewFacts
<1>3. LengthWith(T, h, hole) \in Lengths
  BY <1>2, Room
<1>4. PICK ch1, T1 : /\ Laid(f, slot, H, ch1, T1) /\ Extends(H, ch, T, ch1, T1)
                     /\ hole \in Indexes(ch1[h]) /\ f \in Links
  BY GrownIs
<1>5. Sized(H, ch1, T1)
  BY <1>0, <1>4, LaidSized
<1>6. /\ Good(H, ch1, T1)
      /\ \A g \in H : /\ Home(T1, g) = Home(T, g) /\ Ent(T1, g) = Ent(T, g)
                      /\ Used(T1, g) = Used(T, g)
      /\ \A y \in Handle : HandleOK(H, T, y) => HandleOK(H, T1, y)
  BY <1>1, <1>4, <1>5, ExtendsGood
<1>7. /\ hole \in Nat /\ hole \in Lengths /\ 2 <= hole /\ hole <= Ent(T, h).length
      /\ hole = Ent(T, h).length \/ T[h][hole] = Gone
  BY HoleIs
<1>8. PICK m \in Nat : m = Ent(T, h).length /\ \A i \in 0 .. m - 1 : i \in Indexes(ch[h])
  <2>1. /\ Ent(T, h).length \in Nat
        /\ \A i \in 0 .. Ent(T, h).length - 1 : i \in Indexes(ch[h])
    BY <1>1, GoodFacts DEF DirFacts
  <2> QED BY <2>1
<1>9. ASSUME NEW i \in Nat, i < m PROVE T1[h][i] = T[h][i]
  <2>1. i \in Indexes(ch[h])
    BY <1>8, <1>9
  <2> QED BY <2>1, <1>4 DEF Extends
<1>10. Vacant(ch1, T1, h, hole)
  <2>1. hole \in 2 .. m /\ (hole = m \/ T1[h][hole] = Gone)
    BY <1>7, <1>8, <1>9
  <2> QED BY <2>1, <1>4, <1>6, <1>8 DEF Vacant
<1>11. LengthWith(T1, h, hole) \in Lengths
  BY <1>3, <1>6 DEF LengthWith
<1>12. ASSUME NEW i \in Used(T1, h) PROVE T1[h][i].name # n
  <2>1. i \in Used(T, h)
    BY <1>6
  <2>2. i \in Nat /\ i < m
    BY <2>1, <1>1, <1>8, GoodFacts DEF DirFacts
  <2> QED BY <2>1, <2>2, <1>2, <1>9
<1>13. TreeOf(H, T1) = TreeOf(H, T)
  BY <1>1, <1>4, <1>5, TreeExtends
<1>14. Opened(f, H, ch, T, h, hole, n, ch1, T1)
  BY <1>4, <1>5, <1>6, <1>10, <1>11, <1>12, <1>13 DEF Opened
<1> QED BY <1>4, <1>7, <1>14

(* Inserted, as two writes of slots.                                       *)
LEMMA InsertedIs ==
  ASSUME NEW H, NEW ch, NEW T, Laid(fat, slot, H, ch, T), Good(H, ch, T), NEW h \in H,
         NEW s, NEW f, NEW k, NEW x
  PROVE  Inserted(s, f, Home(T, h), k, x)
           = Put(Put(s, f, Loc(h, k), x), f, Home(T, h), Lengthened(Ent(T, h), LengthWith(T, h, k)))
<1>1. EntryAt(Home(T, h)) = Ent(T, h) /\ Ent(T, h).cluster = h
  BY View DEF ViewFacts
<1> QED BY <1>1 DEF Inserted, Lengthened, Length, LengthWith
-----------------------------------------------------------------------------
(* Handles that open                                                       *)

(* The place of a directory's entry has its type.                          *)
LEMMA HomeIn ==
  ASSUME NEW H, NEW ch, NEW T, Sized(H, ch, T), Good(H, ch, T), NEW h \in H
  PROVE  Home(T, h) \in Locations
<1>1. T[h][0].cluster \in Clusters /\ T[h][0].back \in Lengths
  BY GoodFacts, EntryFields DEF DirFacts, Sized
<1> QED BY <1>1 DEF Home, Loc, Locations

(* A place has its type.                                                   *)
LEMMA LocIn ==
  ASSUME NEW d \in Clusters, NEW i \in Lengths
  PROVE  Loc(d, i) \in Locations
BY DEF Loc, Locations

(* An unused handle has its type and is not open.                          *)
LEMMA UnusedIs == Unused \in Handle /\ ~ Unused.open
<1>1. 0 \in Lengths /\ Root \in Clusters
  BY Consts DEF Lengths
<1>2. Top \in Locations
  BY <1>1 DEF Top, Locations
<1>3. Unused \in Handle
  BY <1>1, <1>2 DEF Unused, Handle
<1> QED BY <1>3 DEF Unused

(* The handle of a file that was opened.                                   *)
LEMMA NewFileIs ==
  ASSUME NEW d \in Clusters, NEW i \in Lengths, NEW p \in Locations, NEW n \in Names,
         NEW z, z = NewFile(d, i, p, n)
  PROVE  /\ z \in Handle /\ z.open /\ ~ z.dir
         /\ z.loc = Loc(d, i) /\ z.parent = p /\ z.name = n
<1>1. 0 \in Lengths /\ Loc(d, i) \in Locations
  BY Consts, LocIn DEF Lengths
<1>2. PICK l \in Locations : l = Loc(d, i)
  BY <1>1
<1>3. z = [open |-> TRUE, dir |-> FALSE, loc |-> l, parent |-> p,
           head |-> Null, size |-> 0, pos |-> 0, name |-> n, due |-> {}, fresh |-> {}]
  BY <1>2 DEF NewFile, Unused
<1> QED BY <1>1, <1>2, <1>3 DEF Handle

(* The handle of a directory that was opened.                              *)
LEMMA ListingIs ==
  ASSUME NEW l \in Locations, NEW c \in Clusters, NEW m \in Lengths, NEW D \in SUBSET Names, NEW z,
         EntryAt(l).cluster = c, EntryAt(l).length = m, NamesIn(EntryAt(l)) = D, z = Listing(l)
  PROVE  /\ z \in Handle /\ z.open /\ z.dir /\ z.loc = l /\ z.head = c
         /\ z.size = m /\ z.pos = 0 /\ z.due = D
<1>1. 0 \in Lengths /\ Top \in Locations
  BY Consts DEF Lengths, Top, Locations
<1>2. z = [open |-> TRUE, dir |-> TRUE, loc |-> l, parent |-> Top,
           head |-> c, size |-> m, pos |-> 0, name |-> ".", due |-> D, fresh |-> {}]
  BY DEF Listing, Unused
<1> QED BY <1>1, <1>2 DEF Handle

(* The handle taken is one of the handles.                                 *)
LEMMA FdIs ==
  ASSUME FreeFds # {}
  PROVE  Fd \in Fds
<1>1. FreeFds \subseteq Nat
  BY DirectoryAssumption DEF FreeFds, Fds
<1> QED BY <1>1, LeastIs DEF Fd, FreeFds

(* Announce, handle by handle.                                             *)
LEMMA Announced ==
  ASSUME NEW hs \in [Fds -> Handle], NEW h, NEW n \in Names
  PROVE  /\ Announce(hs, h, n) \in [Fds -> Handle]
         /\ \A d \in Fds : Announce(hs, h, n)[d] = Hears(hs[d], h, n)
<1>1. \A d \in Fds : Announce(hs, h, n)[d] = Hears(hs[d], h, n)
  BY DEF Announce, Hears
<1>2. \A d \in Fds : Hears(hs[d], h, n) \in Handle
  BY HearsIs DEF Heard
<1>3. Announce(hs, h, n) = [d \in Fds |-> Hears(hs[d], h, n)]
  BY DEF Announce, Hears
<1> QED BY <1>1, <1>2, <1>3

(* Forget, handle by handle.                                               *)
LEMMA Forgotten ==
  ASSUME NEW hs \in [Fds -> Handle], NEW h, NEW n
  PROVE  /\ Forget(hs, h, n) \in [Fds -> Handle]
         /\ \A d \in Fds : Forget(hs, h, n)[d] = Loses(hs[d], h, n)
<1>1. \A d \in Fds : Forget(hs, h, n)[d] = Loses(hs[d], h, n)
  BY DEF Forget, Loses
<1>2. \A d \in Fds : Loses(hs[d], h, n) \in Handle
  BY LosesIs DEF Lost
<1>3. Forget(hs, h, n) = [d \in Fds |-> Loses(hs[d], h, n)]
  BY DEF Forget, Loses
<1> QED BY <1>1, <1>2, <1>3
-----------------------------------------------------------------------------
(* The actions keep the invariant                                          *)

(* The invariant, with the tree of names the table holds.                  *)
FineTree(f, s, hs, t) ==
  /\ f \in Links /\ s \in Slots /\ hs \in [Fds -> Handle]
  /\ \E H, ch, T : Sound(f, s, hs, H, ch, T) /\ t = TreeOf(H, T)

(* A step that keeps it, and does to the tree what NameSpace allows.       *)
FineStep ==
  \E t, u : /\ FineTree(fat, slot, fh, t) /\ FineTree(fat', slot', fh', u)
            /\ u = t \/ Promise!Step(t, u)

(* To show it, the tables before and after are enough.                     *)
LEMMA StepIs ==
  ASSUME DInv, NEW H, NEW ch, NEW T, Sound(fat, slot, fh, H, ch, T),
         NEW f, NEW s, NEW hs, f = fat', s = slot', hs = fh',
         NEW u, FineTree(f, s, hs, u), u = TreeOf(H, T) \/ Promise!Step(TreeOf(H, T), u)
  PROVE  FineStep
<1>1. PICK t : t = TreeOf(H, T)
  OBVIOUS
<1>2. FineTree(fat, slot, fh, t)
  BY <1>1 DEF FineTree, DInv, Fine
<1> QED BY <1>1, <1>2 DEF FineStep

(* A directory that a path led to, in a sound state.                       *)
Given(up, H, ch, T, h) == Sound(fat, slot, fh, H, ch, T) /\ h \in H /\ up = Home(T, h)

(* Every path leads to such a directory.                                   *)
LEMMA Pick ==
  ASSUME DInv, NEW up \in Directories
  PROVE  \E H, ch, T, h : Given(up, H, ch, T, h)
<1>1. PICK H, ch, T : Sound(fat, slot, fh, H, ch, T)
  BY DEF DInv, Fine
<1>2. PICK h \in H : up = Home(T, h)
  BY <1>1, DirectoriesAre DEF Sound
<1> QED BY <1>1, <1>2 DEF Given

(* A file comes, and the handle on it.                                     *)
LEMMA FileEntry ==
  ASSUME NEW f \in Links, NEW s \in Slots, NEW H, NEW ch, NEW T, Laid(f, s, H, ch, T),
         Good(H, ch, T), NEW h \in H, NEW n \in Names, NEW k \in Lengths, Vacant(ch, T, h, k),
         LengthWith(T, h, k) \in Lengths, \A i \in Used(T, h) : T[h][i].name # n,
         NEW hs \in [Fds -> Handle], \A d \in Fds : HandleOK(H, T, hs[d]),
         NEW fd \in Fds,
         NEW s2, s2 = Put(Put(s, f, Loc(h, k), File(n)), f, Home(T, h),
                          Lengthened(Ent(T, h), LengthWith(T, h, k))),
         NEW hs2, hs2 = [Announce(hs, h, n) EXCEPT ![fd] = NewFile(h, k, Home(T, h), n)],
         NEW u, u = TreeOf(H, T) \cup {Rec(h, File(n))}
  PROVE  FineTree(f, s2, hs2, u)
<1>1. Sized(H, ch, T) /\ Follows(f, H, ch)
  BY LaidSized, LaidFollows
<1>2. PICK x \in Entry : x = File(n) /\ x.name = n /\ ~ x.dir
  BY Makes
<1>3. With(H, x) = H /\ FitsIn(H, ch, T, h, k, x)
  BY <1>2 DEF With, FitsIn
<1>4. PICK m \in Lengths : m = LengthWith(T, h, k)
  OBVIOUS
<1>5. s2 \in Slots /\ \E T2 : Entered(f, s2, H, ch, T, h, k, x, m, T2)
  <2>1. s2 = Put(Put(s, f, Loc(h, k), x), f, Home(T, h), Lengthened(Ent(T, h), m))
    BY <1>2, <1>4
  <2>2. Laid(f, s, With(H, x), ch, T)
    BY <1>3
  <2>3. x.name \in Names /\ \A i \in Used(T, h) : T[h][i].name # x.name
    BY <1>2
  <2> QED BY <2>1, <2>2, <2>3, <1>1, <1>3, <1>4, InsertEntry
<1>6. PICK T2 : Entered(f, s2, H, ch, T, h, k, x, m, T2)
  BY <1>5
<1>7. /\ Laid(f, s2, H, ch, T2) /\ Good(H, ch, T2) /\ Edited(H, ch, T, h, k, x, m, T2)
      /\ u = TreeOf(H, T2)
      /\ \A y \in Handle : HandleOK(H, T, y) => HandleOK(H, T2, Hears(y, h, n))
  BY <1>2, <1>3, <1>6 DEF Entered
<1>8. EditFacts(H, ch, T, h, k, x, m, T2, h)
  BY <1>1, <1>4, <1>7, EditIs
<1>9. Home(T2, h) = Home(T, h) /\ k \in Used(T2, h) /\ T2[h][k] = File(n)
  <2>1. T2[h][k] = x
    BY <1>7 DEF Edited, Vacant
  <2> QED BY <2>1, <1>2, <1>8 DEF EditFacts
<1>10. PICK z : z = NewFile(h, k, Home(T, h), n)
  OBVIOUS
<1>11. /\ z \in Handle /\ z.open /\ ~ z.dir
       /\ z.loc = Loc(h, k) /\ z.parent = Home(T, h) /\ z.name = n
  <2>1. h \in Clusters /\ Home(T, h) \in Locations
    BY <1>1, HomeIn DEF Sized
  <2> QED BY <2>1, <1>10, NewFileIs
<1>12. HandleOK(H, T2, z)
  <2>1. z.loc.dir = h /\ z.loc.at = k
    BY <1>11, LocIs
  <2>2. FileHandle(H, T2, z)
    BY <2>1, <1>9, <1>11 DEF FileHandle
  <2> QED BY <2>2, <1>11 DEF HandleOK
<1>13. PICK ha : ha = Announce(hs, h, n)
  OBVIOUS
<1>14. ha \in [Fds -> Handle] /\ \A d \in Fds : ha[d] = Hears(hs[d], h, n)
  BY <1>13, Announced
<1>15. hs2 = [ha EXCEPT ![fd] = z]
  BY <1>10, <1>13
<1>16. hs2 \in [Fds -> Handle] /\ \A d \in Fds : HandleOK(H, T2, hs2[d])
  <2>1. hs2 \in [Fds -> Handle] /\ \A d \in Fds : hs2[d] = IF d = fd THEN z ELSE Hears(hs[d], h, n)
    BY <1>11, <1>14, <1>15
  <2>2. \A d \in Fds : HandleOK(H, T2, Hears(hs[d], h, n))
    BY <1>7
  <2> QED BY <2>1, <2>2, <1>12
<1>17. Sound(f, s2, hs2, H, ch, T2)
  BY <1>7, <1>16 DEF Sound
<1> QED BY <1>5, <1>7, <1>16, <1>17 DEF FineTree

(* mcio_mcOpen creates a file.                                             *)
LEMMA CreateFine ==
  ASSUME DInv, NEW up \in Directories, NEW n \in Names, Create(up, n)
  PROVE  FineStep
<1>1. PICK H, ch, T, h : Given(up, H, ch, T, h)
  BY Pick
<1>2. /\ Laid(fat, slot, H, ch, T) /\ Good(H, ch, T) /\ \A d \in Fds : HandleOK(H, T, fh[d])
      /\ h \in H /\ up = Home(T, h) /\ fat \in Links /\ slot \in Slots /\ fh \in [Fds -> Handle]
  BY <1>1 DEF Given, Sound, DInv, Fine
<1>3. EntryAt(up) = Ent(T, h) /\ Ent(T, h).cluster = h
  BY <1>2, View DEF ViewFacts
<1>4. PICK hole : hole = Hole(up)
  OBVIOUS
<1>5. PICK f \in Grown(Ent(T, h), hole) :
        /\ fat' = f
        /\ slot' = Inserted(slot, f, up, hole, File(n))
        /\ fh' = [Announce(fh, h, n) EXCEPT ![Fd] = NewFile(h, hole, up, n)]
  BY <1>3, <1>4 DEF Create
<1>6. Matches(Home(T, h), n) = {} /\ Fd \in Fds
  BY <1>2, FdIs DEF Create
<1>7. /\ f \in Links /\ hole \in Lengths
      /\ \E ch1, T1 : Opened(f, H, ch, T, h, hole, n, ch1, T1)
  BY <1>2, <1>4, <1>6, Opening
<1>8. PICK ch1, T1 : Opened(f, H, ch, T, h, hole, n, ch1, T1)
  BY <1>7
<1>9. /\ Laid(f, slot, H, ch1, T1) /\ Good(H, ch1, T1)
      /\ Vacant(ch1, T1, h, hole) /\ Home(T1, h) = Home(T, h) /\ Ent(T1, h) = Ent(T, h)
      /\ LengthWith(T1, h, hole) \in Lengths
      /\ \A i \in Used(T1, h) : T1[h][i].name # n
      /\ \A d \in Fds : HandleOK(H, T1, fh[d])
      /\ TreeOf(H, T1) = TreeOf(H, T) /\ Sized(H, ch1, T1)
      /\ LengthWith(T1, h, hole) = LengthWith(T, h, hole)
  BY <1>2, <1>8 DEF Opened, LengthWith
<1>10. slot' = Put(Put(slot, f, Loc(h, hole), File(n)), f, Home(T1, h),
                   Lengthened(Ent(T1, h), LengthWith(T1, h, hole)))
  BY <1>2, <1>5, <1>9, InsertedIs
<1>11. PICK s, s2, hs, hs2, fd :
         s = slot /\ s2 = slot' /\ hs = fh /\ hs2 = fh' /\ fd = Fd
  OBVIOUS
<1>12. PICK u : u = TreeOf(H, T) \cup {Rec(h, File(n))}
  OBVIOUS
<1>13. FineTree(f, s2, hs2, u)
  <2>1. f \in Links /\ s \in Slots /\ hs \in [Fds -> Handle] /\ fd \in Fds /\ hole \in Lengths
    BY <1>2, <1>6, <1>7, <1>11
  <2>2. Laid(f, s, H, ch1, T1) /\ \A d \in Fds : HandleOK(H, T1, hs[d])
    BY <1>9, <1>11
  <2>3. /\ s2 = Put(Put(s, f, Loc(h, hole), File(n)), f, Home(T1, h),
                    Lengthened(Ent(T1, h), LengthWith(T1, h, hole)))
        /\ hs2 = [Announce(hs, h, n) EXCEPT ![fd] = NewFile(h, hole, Home(T1, h), n)]
    BY <1>2, <1>5, <1>9, <1>10, <1>11
  <2> QED BY <2>1, <2>2, <2>3, <1>2, <1>9, <1>12, FileEntry
<1>14. Promise!Step(TreeOf(H, T), u)
  <2>1. PICK x : x = File(n)
    OBVIOUS
  <2>2. x.name = n
    BY <2>1 DEF File
  <2> QED BY <2>1, <2>2, <1>2, <1>9, <1>12, TreeMade
<1> QED BY <1>1, <1>5, <1>11, <1>13, <1>14, StepIs DEF Given

(* The entries a new directory begins with.                                *)
Row(h, k) == [p \in Place |-> IF p = 0 THEN Self(h, k, 0) ELSE Above]

(* A directory comes, with a cluster of its own.                           *)
LEMMA DirEntry ==
  ASSUME NEW f \in Links, NEW s \in Slots, NEW H, NEW ch, NEW T, Laid(f, s, H, ch, T),
         Good(H, ch, T), NEW h \in H, NEW n \in Names, NEW k \in Lengths, Vacant(ch, T, h, k),
         LengthWith(T, h, k) \in Lengths, \A i \in Used(T, h) : T[h][i].name # n,
         NEW hs \in [Fds -> Handle], \A d \in Fds : HandleOK(H, T, hs[d]),
         NEW c \in Clusters, f[c] = Free,
         NEW f2, f2 = Ended(f, c),
         NEW s2, s2 = Put(Put(Filled(s, c, Row(h, k)), f, Loc(h, k), Dir(n, c)), f, Home(T, h),
                          Lengthened(Ent(T, h), LengthWith(T, h, k))),
         NEW hs2, hs2 = Announce(hs, h, n),
         NEW u, u = TreeOf(H, T) \cup {Rec(h, Dir(n, c))}
  PROVE  FineTree(f2, s2, hs2, u) /\ c \notin H
<1>1. Sized(H, ch, T) /\ Follows(f, H, ch)
  BY LaidSized, LaidFollows
<1>2. PICK x \in Entry : x = Dir(n, c) /\ x.name = n /\ x.dir /\ x.cluster = c
  BY Makes
<1>3. PICK r : r = Row(h, k)
  OBVIOUS
<1>4. /\ r \in [Place -> Entry \cup {Gone}] /\ r[0] = Self(h, k, 0) /\ r[1] = Above
  <2>1. h \in Clusters /\ 0 \in Lengths
    BY <1>1, Consts DEF Sized, Lengths
  <2>2. Self(h, k, 0) \in Entry /\ Above \in Entry
    BY <2>1, MakesSelf
  <2>3. 0 \in Place /\ 1 \in Place
    BY Consts DEF Place
  <2> QED BY <2>2, <2>3, <1>3 DEF Row
<1>5. PICK s1 : s1 = Filled(s, c, r)
  OBVIOUS
<1>6. PICK ch1, T1 : ch1 = WithChain(H, ch, c) /\ T1 = WithRow(H, T, c, r)
  OBVIOUS
<1>7. PICK H2 : H2 = H \cup {c}
  OBVIOUS
<1>8. f2 \in Links /\ s1 \in Slots /\ c \notin H /\ Laid(f2, s1, H2, ch1, T1)
  <2>1. /\ f2 \in Links /\ s1 \in Slots /\ c \notin H
        /\ Laid(f2, s1, H \cup {c}, WithChain(H, ch, c), WithRow(H, T, c, r))
    BY <1>4, <1>5, NewLaid
  <2> QED BY <2>1, <1>6, <1>7
<1>9. /\ ch1[c] = <<c>> /\ T1[c] = r /\ \A g \in H : ch1[g] = ch[g] /\ T1[g] = T[g]
  BY <1>6, <1>8 DEF WithChain, WithRow
<1>10. Sized(H, ch1, T1) /\ Extends(H, ch, T, ch1, T1)
  BY <1>1, <1>9 DEF Sized, Extends
<1>11. /\ Good(H, ch1, T1)
       /\ Home(T1, h) = Home(T, h) /\ Ent(T1, h) = Ent(T, h) /\ Used(T1, h) = Used(T, h)
       /\ \A y \in Handle : HandleOK(H, T, y) => HandleOK(H, T1, y)
       /\ TreeOf(H, T1) = TreeOf(H, T)
  BY <1>1, <1>10, ExtendsGood, TreeExtends
<1>12. Vacant(ch1, T1, h, k) /\ LengthWith(T1, h, k) = LengthWith(T, h, k)
  BY <1>9, <1>11 DEF Vacant, LengthWith
<1>13. PICK m \in Lengths : m = LengthWith(T1, h, k)
  BY <1>12
<1>14. With(H, x) = H2
  BY <1>2, <1>7 DEF With
<1>15. FitsIn(H, ch1, T1, h, k, x)
  <2>1. Len(<<c>>) = 1
    OBVIOUS
  <2> QED BY <2>1, <1>2, <1>4, <1>8, <1>9 DEF FitsIn
<1>16. Follows(f, H, ch1)
  BY <1>1, <1>9 DEF Follows
<1>17. s2 \in Slots /\ \E T2 : Entered(f2, s2, H, ch1, T1, h, k, x, m, T2)
  <2>1. s2 = Put(Put(s1, f, Loc(h, k), x), f, Home(T1, h), Lengthened(Ent(T1, h), m))
    BY <1>2, <1>3, <1>5, <1>11, <1>12, <1>13
  <2>2. Laid(f2, s1, With(H, x), ch1, T1)
    BY <1>8, <1>14
  <2>3. x.name \in Names /\ \A i \in Used(T1, h) : T1[h][i].name # x.name
    BY <1>2, <1>9, <1>11
  <2> QED BY <2>1, <2>2, <2>3, <1>8, <1>10, <1>11, <1>12, <1>13, <1>15, <1>16, InsertEntry
<1>18. PICK T2 : Entered(f2, s2, H, ch1, T1, h, k, x, m, T2)
  BY <1>17
<1>19. /\ Laid(f2, s2, H2, ch1, T2) /\ Good(H2, ch1, T2) /\ u = TreeOf(H2, T2)
       /\ \A y \in Handle : HandleOK(H, T1, y) => HandleOK(H2, T2, Hears(y, h, n))
  BY <1>2, <1>11, <1>14, <1>18 DEF Entered
<1>20. hs2 \in [Fds -> Handle] /\ \A d \in Fds : hs2[d] = Hears(hs[d], h, n)
  BY Announced
<1>21. \A d \in Fds : HandleOK(H2, T2, hs2[d])
  BY <1>11, <1>19, <1>20
<1>22. Sound(f2, s2, hs2, H2, ch1, T2)
  BY <1>19, <1>21 DEF Sound
<1> QED BY <1>8, <1>17, <1>19, <1>20, <1>22 DEF FineTree

(* mcio_mcMkDir, also when the card is full after the directory above grew.*)
LEMMA MkDirFine ==
  ASSUME DInv, NEW up \in Directories, NEW n \in Names, MkDir(up, n)
  PROVE  FineStep
<1>1. PICK H, ch, T, h : Given(up, H, ch, T, h)
  BY Pick
<1>2. /\ Laid(fat, slot, H, ch, T) /\ Good(H, ch, T) /\ \A d \in Fds : HandleOK(H, T, fh[d])
      /\ h \in H /\ up = Home(T, h) /\ fat \in Links /\ slot \in Slots /\ fh \in [Fds -> Handle]
  BY <1>1 DEF Given, Sound, DInv, Fine
<1>3. EntryAt(up) = Ent(T, h) /\ Ent(T, h).cluster = h
  BY <1>2, View DEF ViewFacts
<1>4. PICK hole : hole = Hole(up)
  OBVIOUS
<1>5. PICK f \in Grown(Ent(T, h), hole) :
        \/ fat' = f /\ UNCHANGED <<slot, fh>>
        \/ \E c \in FreeOf(f) :
             /\ fat' = [f EXCEPT ![c] = End]
             /\ slot' = Inserted([slot EXCEPT ![c] =
                                    [p \in Place |-> IF p = 0 THEN SelfOf(up, hole) ELSE Above]],
                                 f, up, hole, Dir(n, c))
             /\ fh' = Announce(fh, h, n)
  BY <1>3, <1>4 DEF MkDir
<1>6. Matches(Home(T, h), n) = {}
  BY <1>2 DEF MkDir
<1>7. /\ f \in Links /\ hole \in Lengths
      /\ \E ch1, T1 : Opened(f, H, ch, T, h, hole, n, ch1, T1)
  BY <1>2, <1>4, <1>6, Opening
<1>8. PICK ch1, T1 : Opened(f, H, ch, T, h, hole, n, ch1, T1)
  BY <1>7
<1>9. /\ Laid(f, slot, H, ch1, T1) /\ Good(H, ch1, T1)
      /\ Vacant(ch1, T1, h, hole) /\ Home(T1, h) = Home(T, h) /\ Ent(T1, h) = Ent(T, h)
      /\ LengthWith(T1, h, hole) \in Lengths
      /\ \A i \in Used(T1, h) : T1[h][i].name # n
      /\ \A d \in Fds : HandleOK(H, T1, fh[d])
      /\ TreeOf(H, T1) = TreeOf(H, T) /\ Sized(H, ch1, T1)
      /\ LengthWith(T1, h, hole) = LengthWith(T, h, hole)
  BY <1>2, <1>8 DEF Opened, LengthWith
<1>10. CASE fat' = f /\ UNCHANGED <<slot, fh>>
  <2>1. Sound(fat', slot', fh', H, ch1, T1)
    BY <1>9, <1>10 DEF Sound
  <2>2. fat' \in Links /\ slot' \in Slots /\ fh' \in [Fds -> Handle]
    BY <1>2, <1>7, <1>10
  <2>3. PICK f2, s2, hs2 : f2 = fat' /\ s2 = slot' /\ hs2 = fh'
    OBVIOUS
  <2>4. PICK u : u = TreeOf(H, T1)
    OBVIOUS
  <2>5. FineTree(f2, s2, hs2, u)
    BY <2>1, <2>2, <2>3, <2>4 DEF FineTree
  <2> QED BY <2>3, <2>4, <2>5, <1>1, <1>9, StepIs DEF Given
<1>11. ASSUME NEW c \in FreeOf(f),
              fat' = [f EXCEPT ![c] = End],
              slot' = Inserted([slot EXCEPT ![c] =
                                  [p \in Place |-> IF p = 0 THEN SelfOf(up, hole) ELSE Above]],
                               f, up, hole, Dir(n, c)),
              fh' = Announce(fh, h, n)
       PROVE  FineStep
  <2>1. PICK s, s2, hs, hs2, f2 : s = slot /\ s2 = slot' /\ hs = fh /\ hs2 = fh' /\ f2 = fat'
    OBVIOUS
  <2>2. [p \in Place |-> IF p = 0 THEN SelfOf(up, hole) ELSE Above] = Row(h, hole)
    BY <1>3 DEF Row, SelfOf
  <2>3. slot' = Inserted(Filled(slot, c, Row(h, hole)), f, Home(T, h), hole, Dir(n, c))
    BY <2>2, <1>2, <1>11 DEF Filled
  <2>4. slot' = Put(Put(Filled(slot, c, Row(h, hole)), f, Loc(h, hole), Dir(n, c)), f, Home(T, h),
                    Lengthened(Ent(T, h), LengthWith(T, h, hole)))
    BY <2>3, <1>2, InsertedIs
  <2>5. s2 = Put(Put(Filled(s, c, Row(h, hole)), f, Loc(h, hole), Dir(n, c)), f, Home(T1, h),
                 Lengthened(Ent(T1, h), LengthWith(T1, h, hole)))
    BY <2>1, <2>4, <1>9
  <2>6. f2 = Ended(f, c) /\ hs2 = Announce(hs, h, n) /\ c \in Clusters /\ f[c] = Free
    BY <2>1, <1>11 DEF Ended, FreeOf
  <2>7. /\ f \in Links /\ s \in Slots /\ hs \in [Fds -> Handle]
        /\ Laid(f, s, H, ch1, T1) /\ \A d \in Fds : HandleOK(H, T1, hs[d])
    BY <2>1, <1>2, <1>7, <1>9
  <2>8. PICK u : u = TreeOf(H, T) \cup {Rec(h, Dir(n, c))}
    OBVIOUS
  <2>9. FineTree(f2, s2, hs2, u) /\ c \notin H
    BY <2>5, <2>6, <2>7, <2>8, <1>2, <1>7, <1>9, DirEntry
  <2>10. Promise!Step(TreeOf(H, T), u)
    <3>1. PICK x : x = Dir(n, c)
      OBVIOUS
    <3>2. x.name = n /\ x.cluster = c
      BY <3>1 DEF Dir
    <3> QED BY <3>1, <3>2, <2>6, <2>8, <2>9, <1>2, <1>9, TreeMade
  <2> QED BY <2>1, <2>9, <2>10, <1>1, StepIs DEF Given
<1> QED BY <1>5, <1>10, <1>11

(* A name that is there: the first match is its entry, the only one.       *)
LEMMA Matched ==
  ASSUME NEW H, NEW ch, NEW T, Laid(fat, slot, H, ch, T), Good(H, ch, T), NEW h \in H,
         NEW n \in Names, Matches(Home(T, h), n) # {},
         NEW i, i = LeastOf(Matches(Home(T, h), n))
  PROVE  /\ i \in Used(T, h) /\ i \in Lengths /\ i \in Nat /\ i < Ent(T, h).length
         /\ At(h, i) = T[h][i] /\ T[h][i] \in Entry /\ T[h][i].name = n
         /\ T[h][i].dir => /\ T[h][i].cluster \in H \ {Root}
                           /\ Home(T, T[h][i].cluster) = Loc(h, i)
         /\ ~ T[h][i].dir => T[h][i] = File(n)
         /\ \A j \in Used(T, h) : T[h][j].name = n => j = i
<1>0. PICK f0, s0 : f0 = fat /\ s0 = slot
  OBVIOUS
<1>1. DirFacts(H, ch, T, h) /\ ViewFacts(H, ch, T, h)
  BY <1>0, LaidSized, GoodFacts, View
<1>2. Matches(Home(T, h), n) = {j \in Used(T, h) : T[h][j].name = n}
  BY <1>1 DEF ViewFacts
<1>3. PICK M : M = Matches(Home(T, h), n)
  OBVIOUS
<1>4. M \subseteq Nat /\ M # {} /\ i = LeastOf(M)
  BY <1>1, <1>2, <1>3 DEF DirFacts
<1>5. i \in M
  BY <1>4, LeastIs
<1>6. i \in Used(T, h) /\ T[h][i].name = n
  BY <1>2, <1>3, <1>5
<1>7. /\ i \in Lengths /\ i \in Nat /\ i < Ent(T, h).length /\ T[h][i] \in Entry
  BY <1>1, <1>6 DEF DirFacts
<1>8. At(h, i) = T[h][i]
  <2>1. i \in 0 .. Ent(T, h).length - 1
    BY <1>1, <1>7 DEF ViewFacts
  <2> QED BY <2>1, <1>1 DEF ViewFacts
<1>9. Item(H, T, h, i) /\ \A j \in Used(T, h) : T[h][j].name = T[h][i].name => j = i
  BY <1>6 DEF Good, DirOK
<1> QED BY <1>6, <1>7, <1>8, <1>9 DEF Item

(* mcio_mcOpen replaces a file: the entry goes and comes back in its slot  *)
(* or one before.                                                          *)
LEMMA ReplaceFine ==
  ASSUME DInv, NEW up \in Directories, NEW n \in Names, Replace(up, n)
  PROVE  FineStep
<1>1. PICK H, ch, T, h : Given(up, H, ch, T, h)
  BY Pick
<1>2. /\ Laid(fat, slot, H, ch, T) /\ Good(H, ch, T) /\ \A d \in Fds : HandleOK(H, T, fh[d])
      /\ h \in H /\ up = Home(T, h) /\ fat \in Links /\ slot \in Slots /\ fh \in [Fds -> Handle]
  BY <1>1 DEF Given, Sound, DInv, Fine
<1>3. EntryAt(up) = Ent(T, h) /\ Ent(T, h).cluster = h /\ HomeOf(h) = up
  BY <1>2, View DEF ViewFacts
<1>4. PICK i, hole0, hole : /\ i = LeastOf(Matches(up, n)) /\ hole0 = Hole(up)
                            /\ hole = IF i < hole0 THEN i ELSE hole0
  OBVIOUS
<1>5. /\ ~ At(h, i).dir /\ ~ InUse(Loc(h, i))
      /\ slot' = Inserted(Put(slot, fat, Loc(h, i), Gone), fat, up, hole, File(n))
      /\ fh' = [Announce(Forget(fh, h, n), h, n) EXCEPT ![Fd] = NewFile(h, hole, up, n)]
      /\ fat' = fat /\ Matches(up, n) # {} /\ FreeFds # {}
  BY <1>3, <1>4 DEF Replace
<1>6. /\ i \in Used(T, h) /\ i \in Lengths /\ i \in Nat /\ i < Ent(T, h).length
      /\ At(h, i) = T[h][i] /\ T[h][i] \in Entry /\ T[h][i].name = n
      /\ \A j \in Used(T, h) : T[h][j].name = n => j = i
      /\ T[h][i] = File(n)
  BY <1>2, <1>4, <1>5, Matched
<1>7. PICK f, s, s2, hs, hs2, fd : f = fat /\ s = slot /\ s2 = slot' /\ hs = fh /\ hs2 = fh' /\ fd = Fd
  OBVIOUS
<1>8. Laid(f, s, H, ch, T) /\ Sized(H, ch, T) /\ f \in Links /\ s \in Slots /\ hs \in [Fds -> Handle]
  BY <1>2, <1>7, LaidSized
<1>9. Removable(H, T, h, i) /\ Without(H, T[h][i]) = H
  BY <1>5, <1>6 DEF Removable, Without
<1>10. PICK s1 : s1 = Put(s, f, Loc(h, i), Gone)
  OBVIOUS
<1>11. s1 \in Slots /\ \E T1 : /\ Laid(f, s1, H, ch, T1) /\ Struck(H, ch, T, h, i, T1) /\ Good(H, ch, T1)
                              /\ TreeOf(H, T1) = TreeOf(H, T) \ {Rec(h, T[h][i])}
  BY <1>2, <1>8, <1>9, <1>10, StrikeEntry
<1>12. PICK T1 : /\ Laid(f, s1, H, ch, T1) /\ Struck(H, ch, T, h, i, T1) /\ Good(H, ch, T1)
                 /\ TreeOf(H, T1) = TreeOf(H, T) \ {Rec(h, T[h][i])}
  BY <1>11
<1>13. /\ Home(T1, h) = Home(T, h) /\ Ent(T1, h) = Ent(T, h)
       /\ Used(T1, h) = Used(T, h) \ {i}
  BY <1>2, <1>8, <1>9, <1>12, StrikeIs DEF StrikeFacts
<1>14. PICK m \in Nat : m = Ent(T, h).length /\ m >= 2 /\ m \in Lengths
                        /\ \A j \in 0 .. m - 1 : j \in Indexes(ch[h])
  <2>1. /\ Ent(T, h).length \in Nat /\ Ent(T, h).length >= 2 /\ Ent(T, h).length \in Lengths
        /\ \A j \in 0 .. Ent(T, h).length - 1 : j \in Indexes(ch[h])
    BY <1>2, <1>8, GoodFacts DEF DirFacts
  <2> QED BY <2>1
<1>15. i >= 2 /\ T[h][i] # Gone
  BY <1>2, <1>6, <1>8, GoodFacts DEF DirFacts
<1>16. /\ hole0 \in Nat /\ hole0 \in Lengths /\ 2 <= hole0 /\ hole0 <= m
       /\ hole0 = m \/ T[h][hole0] = Gone
  BY <1>2, <1>4, <1>14, HoleIs
<1>17. /\ hole \in Nat /\ hole \in Lengths /\ hole >= 2 /\ hole < m
       /\ hole = i \/ (T[h][hole] = Gone /\ hole # i)
  BY <1>4, <1>6, <1>14, <1>15, <1>16
<1>18. Vacant(ch, T1, h, hole) /\ LengthWith(T1, h, hole) = m /\ LengthWith(T, h, hole) = m
  <2>1. hole \in Indexes(ch[h])
    BY <1>14, <1>17
  <2>2. T1[h][hole] = Gone
    BY <2>1, <1>2, <1>12, <1>17 DEF Struck
  <2>3. hole \in 2 .. m
    BY <1>17
  <2>4. hole # m
    BY <1>17
  <2> QED BY <2>1, <2>2, <2>3, <2>4, <1>13, <1>14 DEF Vacant, LengthWith
<1>19. ASSUME NEW j \in Used(T1, h) PROVE T1[h][j].name # n
  <2>1. j \in Used(T, h) /\ j # i
    BY <1>13
  <2>2. j \in Indexes(ch[h])
    BY <2>1, <1>2, <1>8, GoodFacts DEF DirFacts
  <2>3. T1[h][j] = T[h][j]
    BY <2>1, <2>2, <1>2, <1>12 DEF Struck
  <2> QED BY <2>1, <2>3, <1>6
<1>20. PICK ha : ha = Forget(hs, h, n)
  OBVIOUS
<1>21. ha \in [Fds -> Handle] /\ \A d \in Fds : ha[d] = Loses(hs[d], h, n)
  BY <1>8, <1>20, Forgotten
<1>22. \A d \in Fds : HandleOK(H, T1, ha[d])
  <2> SUFFICES ASSUME NEW d \in Fds PROVE HandleOK(H, T1, ha[d])
    OBVIOUS
  <2>1. ~ (hs[d].open /\ hs[d].loc = Loc(h, i))
    BY <1>5, <1>7 DEF InUse
  <2>2. PICK y \in Handle : y = hs[d]
    BY <1>8
  <2>3. HandleOK(H, T, y) /\ ~ (y.open /\ y.loc = Loc(h, i))
    BY <2>1, <2>2, <1>2, <1>7
  <2>4. HandleOK(Without(H, T[h][i]), T1, Loses(y, h, T[h][i].name))
    BY <2>3, <1>2, <1>8, <1>9, <1>12, RemoveHandle
  <2> QED BY <2>2, <2>4, <1>6, <1>9, <1>21
<1>23. PICK u : u = TreeOf(H, T1) \cup {Rec(h, File(n))}
  OBVIOUS
<1>24. FineTree(f, s2, hs2, u)
  <2>1. s2 = Put(Put(s1, f, Loc(h, hole), File(n)), f, Home(T1, h),
                 Lengthened(Ent(T1, h), LengthWith(T1, h, hole)))
    <3>1. Inserted(s1, f, Home(T, h), hole, File(n))
            = Put(Put(s1, f, Loc(h, hole), File(n)), f, Home(T, h),
                  Lengthened(Ent(T, h), LengthWith(T, h, hole)))
      BY <1>2, InsertedIs
    <3>2. s2 = Inserted(s1, f, Home(T, h), hole, File(n))
      BY <1>2, <1>5, <1>7, <1>10
    <3> QED BY <3>1, <3>2, <1>13, <1>18
  <2>2. hs2 = [Announce(ha, h, n) EXCEPT ![fd] = NewFile(h, hole, Home(T1, h), n)]
    BY <1>2, <1>5, <1>7, <1>13, <1>20
  <2>3. fd \in Fds
    BY <1>5, <1>7, FdIs
  <2>4. LengthWith(T1, h, hole) \in Lengths
    BY <1>14, <1>18
  <2> QED BY <2>1, <2>2, <2>3, <2>4, <1>2, <1>8, <1>11, <1>12, <1>17, <1>18, <1>19, <1>21, <1>22,
             <1>23, FileEntry
<1>25. u = TreeOf(H, T)
  <2>1. Rec(h, T[h][i]) \in TreeOf(H, T)
    BY <1>2, <1>6, TreeIn
  <2> QED BY <2>1, <1>6, <1>12, <1>23
<1> QED BY <1>1, <1>5, <1>7, <1>24, <1>25, StepIs DEF Given

(* One handle is set, and nothing else changes.                            *)
LEMMA HandleSet ==
  ASSUME DInv, NEW H, NEW ch, NEW T, Sound(fat, slot, fh, H, ch, T),
         NEW d \in Fds, NEW z \in Handle, HandleOK(H, T, z),
         fh' = [fh EXCEPT ![d] = z], UNCHANGED <<fat, slot>>
  PROVE  FineStep
<1>1. /\ Laid(fat, slot, H, ch, T) /\ Good(H, ch, T) /\ \A c \in Fds : HandleOK(H, T, fh[c])
      /\ fat \in Links /\ slot \in Slots /\ fh \in [Fds -> Handle]
  BY DEF Sound, DInv, Fine
<1>2. PICK f, s, hs : f = fat' /\ s = slot' /\ hs = fh'
  OBVIOUS
<1>3. hs \in [Fds -> Handle] /\ \A c \in Fds : HandleOK(H, T, hs[c])
  BY <1>1, <1>2
<1>4. Sound(f, s, hs, H, ch, T)
  BY <1>1, <1>2, <1>3 DEF Sound
<1>5. PICK u : u = TreeOf(H, T)
  OBVIOUS
<1>6. FineTree(f, s, hs, u)
  BY <1>1, <1>2, <1>3, <1>4, <1>5 DEF FineTree
<1> QED BY <1>2, <1>5, <1>6, StepIs

(* mcio_mcOpen opens a file that is there.                                 *)
LEMMA OpenFileFine ==
  ASSUME DInv, NEW up \in Directories, NEW n \in Names, OpenFile(up, n)
  PROVE  FineStep
<1>1. PICK H, ch, T, h : Given(up, H, ch, T, h)
  BY Pick
<1>2. /\ Laid(fat, slot, H, ch, T) /\ Good(H, ch, T) /\ \A d \in Fds : HandleOK(H, T, fh[d])
      /\ h \in H /\ up = Home(T, h) /\ fat \in Links /\ slot \in Slots /\ fh \in [Fds -> Handle]
      /\ Sound(fat, slot, fh, H, ch, T)
  BY <1>1 DEF Given, Sound, DInv, Fine
<1>3. EntryAt(up) = Ent(T, h) /\ Ent(T, h).cluster = h /\ HomeOf(h) = up
  BY <1>2, View DEF ViewFacts
<1>4. PICK i : i = LeastOf(Matches(up, n))
  OBVIOUS
<1>5. /\ i \in Used(T, h) /\ i \in Lengths /\ At(h, i) = T[h][i]
      /\ ~ T[h][i].dir => T[h][i] = File(n)
  BY <1>2, <1>4, Matched DEF OpenFile
<1>6. CASE At(h, i).dir
  <2>1. fh' = [d \in Fds |-> Unused] /\ UNCHANGED <<fat, slot>>
    BY <1>3, <1>4, <1>6 DEF OpenFile, Invalidate
  <2>2. fh' \in [Fds -> Handle]
    BY <2>1, UnusedIs
  <2>3. \A d \in Fds : HandleOK(H, T, fh'[d])
    BY <2>1, UnusedIs DEF HandleOK
  <2>4. PICK f, s, hs : f = fat' /\ s = slot' /\ hs = fh'
    OBVIOUS
  <2>5. Sound(f, s, hs, H, ch, T)
    BY <2>1, <2>3, <2>4, <1>2 DEF Sound
  <2>6. PICK u : u = TreeOf(H, T)
    OBVIOUS
  <2>7. FineTree(f, s, hs, u)
    BY <2>1, <2>2, <2>4, <2>5, <2>6, <1>2 DEF FineTree
  <2> QED BY <2>4, <2>6, <2>7, <1>2, StepIs
<1>7. CASE ~ At(h, i).dir
  <2>1. fh' = [fh EXCEPT ![Fd] = NewFile(h, i, up, n)] /\ UNCHANGED <<fat, slot>> /\ FreeFds # {}
    BY <1>3, <1>4, <1>7 DEF OpenFile
  <2>2. Fd \in Fds
    BY <2>1, FdIs
  <2>3. PICK f, s : f = fat /\ s = slot
    OBVIOUS
  <2>4. Sized(H, ch, T)
    BY <2>3, <1>2, LaidSized
  <2>5. h \in Clusters /\ Home(T, h) \in Locations
    BY <2>4, <1>2, HomeIn DEF Sized
  <2>6. PICK z : z = NewFile(h, i, Home(T, h), n)
    OBVIOUS
  <2>7. /\ z \in Handle /\ z.open /\ ~ z.dir
        /\ z.loc = Loc(h, i) /\ z.parent = Home(T, h) /\ z.name = n
    BY <2>5, <2>6, <1>5, NewFileIs
  <2>8. HandleOK(H, T, z)
    <3>1. z.loc.dir = h /\ z.loc.at = i
      BY <2>7, LocIs
    <3>2. FileHandle(H, T, z)
      BY <3>1, <2>7, <1>2, <1>5, <1>7 DEF FileHandle
    <3> QED BY <3>2, <2>7 DEF HandleOK
  <2>9. PICK d \in Fds : d = Fd
    BY <2>2
  <2>10. fh' = [fh EXCEPT ![d] = z]
    BY <2>1, <2>6, <2>9, <1>2
  <2> QED BY <2>1, <2>7, <2>8, <2>9, <2>10, <1>2, HandleSet
<1> QED BY <1>6, <1>7

(* mcio_mcDopen begins a listing: all names in the directory are due.      *)
LEMMA OpenDirFine ==
  ASSUME DInv, NEW l \in Directories, OpenDir(l)
  PROVE  FineStep
<1>1. PICK H, ch, T, h : Given(l, H, ch, T, h)
  BY Pick
<1>2. /\ Laid(fat, slot, H, ch, T) /\ Good(H, ch, T)
      /\ h \in H /\ l = Home(T, h) /\ Sound(fat, slot, fh, H, ch, T)
  BY <1>1 DEF Given, Sound
<1>3. ViewFacts(H, ch, T, h)
  BY <1>2, View
<1>4. PICK f, s : f = fat /\ s = slot
  OBVIOUS
<1>5. Sized(H, ch, T)
  BY <1>2, <1>4, LaidSized
<1>6. DirFacts(H, ch, T, h)
  BY <1>2, <1>5, GoodFacts
<1>7. PICK m \in Nat : m = Ent(T, h).length /\ m \in Lengths /\ m >= 2
                       /\ \A i \in 0 .. m - 1 : At(h, i) = T[h][i]
  BY <1>3 DEF ViewFacts
<1>8. PICK e : e = Ent(T, h) /\ EntryAt(l) = e /\ e.cluster = h /\ e.length = m
  BY <1>2, <1>3, <1>7 DEF ViewFacts
<1>9. PICK D : D = NamesIn(e)
  OBVIOUS
<1>10. \A i \in Used(T, h) : i \in 2 .. m - 1 /\ T[h][i] # Gone /\ At(h, i) = T[h][i]
  BY <1>7 DEF Used
<1>11. D = {T[h][i].name : i \in Used(T, h)}
  <2>1. Present(e) \ {0, 1} = Used(T, h)
    BY <1>3, <1>8 DEF ViewFacts
  <2> QED BY <2>1, <1>8, <1>9, <1>10 DEF NamesIn
<1>12. D \subseteq Names
  <2>1. ASSUME NEW i \in Used(T, h) PROVE T[h][i].name \in Names
    <3>1. Item(H, T, h, i)
      BY <1>2 DEF Good, DirOK
    <3> QED BY <3>1 DEF Item
  <2> QED BY <2>1, <1>11
<1>13. PICK z : z = Listing(l)
  OBVIOUS
<1>14. /\ z \in Handle /\ z.open /\ z.dir /\ z.loc = l /\ z.head = h
       /\ z.size = m /\ z.pos = 0 /\ z.due = D
  <2>1. l \in Locations /\ h \in Clusters
    BY <1>2, <1>5, HomeIn DEF Sized
  <2>2. EntryAt(l).cluster = h /\ EntryAt(l).length = m /\ NamesIn(EntryAt(l)) = D
    BY <1>8, <1>9
  <2> QED BY <2>1, <2>2, <1>7, <1>12, <1>13, ListingIs
<1>15. ASSUME NEW a PROVE a \in Left(T, z) <=> a \in D
  <2>1. a \in Left(T, z) <=> a \in Names /\ \E j \in 0 .. m - 1 : T[h][j] # Gone /\ T[h][j].name = a
    BY <1>14, LeftIs
  <2>2. T[h][0].name = "." /\ T[h][1].name = ".."
    BY <1>6 DEF DirFacts, Above
  <2>3. ASSUME NEW j \in 0 .. m - 1, T[h][j] # Gone, T[h][j].name \in Names PROVE j \in Used(T, h)
    <3>1. j # 0 /\ j # 1
      BY <2>2, <2>3, Consts
    <3> QED BY <3>1, <2>3, <1>7 DEF Used
  <2>4. \A j \in 2 .. m - 1 : j \in 0 .. m - 1
    BY <1>7
  <2> QED BY <2>1, <2>3, <2>4, <1>10, <1>11, <1>12
<1>16. HandleOK(H, T, z)
  <2>1. z.due \subseteq Left(T, z) /\ Left(T, z) \subseteq z.due \cup z.fresh
    BY <1>14, <1>15
  <2>2. DirHandle(H, T, z)
    BY <2>1, <1>2, <1>7, <1>14 DEF DirHandle
  <2> QED BY <2>2, <1>14 DEF HandleOK
<1>17. PICK d \in Fds : d = Fd
  BY FdIs DEF OpenDir
<1>18. fh' = [fh EXCEPT ![d] = z] /\ UNCHANGED <<fat, slot>>
  BY <1>13, <1>17 DEF OpenDir
<1> QED BY <1>2, <1>14, <1>16, <1>17, <1>18, HandleSet

(* mcio_mcClose and mcio_mcDclose.                                         *)
LEMMA CloseFine ==
  ASSUME DInv, NEW d \in Fds, Close(d)
  PROVE  FineStep
<1>1. PICK H, ch, T : Sound(fat, slot, fh, H, ch, T)
  BY DEF DInv, Fine
<1>2. fh' = [fh EXCEPT ![d] = Unused] /\ UNCHANGED <<fat, slot>>
  BY DEF Close
<1>3. HandleOK(H, T, Unused)
  BY UnusedIs DEF HandleOK
<1>4. PICK z \in Handle : z = Unused
  BY UnusedIs
<1> QED BY <1>1, <1>2, <1>3, <1>4, HandleSet

(* A listing that has moved on.                                            *)
Moved(y, p, D, F) == [y EXCEPT !.pos = p, !.due = D, !.fresh = F]

(* Moving on changes nothing else.                                         *)
LEMMA Moves ==
  ASSUME NEW y \in Handle, NEW p \in Lengths, NEW D \in SUBSET Names, NEW F \in SUBSET Names, NEW z,
         z = Moved(y, p, D, F)
  PROVE  /\ z \in Handle /\ (z.open <=> y.open) /\ (z.dir <=> y.dir) /\ z.loc = y.loc
         /\ z.head = y.head /\ z.size = y.size /\ z.pos = p /\ z.due = D /\ z.fresh = F
<1>1. z \in Handle
  BY DEF Moved, Handle
<1>2. /\ z.loc = y.loc /\ z.head = y.head /\ z.size = y.size
      /\ z.pos = p /\ z.due = D /\ z.fresh = F
  BY DEF Moved, Handle
<1>3. z.open <=> y.open
  BY DEF Moved, Handle
<1>4. z.dir <=> y.dir
  BY DEF Moved, Handle
<1> QED BY <1>1, <1>2, <1>3, <1>4

(* mcio_mcDread tells the next entry: its name is due no more, and no slot *)
(* behind it has that name.                                                *)
LEMMA DreadFine ==
  ASSUME DInv, NEW d \in Fds, Dread(d)
  PROVE  FineStep
<1>1. PICK H, ch, T : Sound(fat, slot, fh, H, ch, T)
  BY DEF DInv, Fine
<1>2. Laid(fat, slot, H, ch, T) /\ Good(H, ch, T)
  BY <1>1 DEF Sound
<1>3. PICK f, s : f = fat /\ s = slot
  OBVIOUS
<1>4. Sized(H, ch, T)
  BY <1>2, <1>3, LaidSized
<1>5. PICK y \in Handle : y = fh[d] /\ y.open /\ y.dir /\ y.pos < y.size /\ HandleOK(H, T, y)
  BY <1>1 DEF DInv, Fine, Dread, Sound
<1>6. DirHandle(H, T, y)
  BY <1>5 DEF HandleOK
<1>7. PICK g \in H : /\ g = y.head /\ y.size <= Ent(T, g).length
                     /\ \A j \in y.pos .. y.size - 1 :
                          /\ j \in Indexes(ch[g]) /\ j \in Nat
                          /\ T[g][j] # Gone /\ T[g][j].name \in Names => j \in Used(T, g)
  BY <1>2, <1>4, <1>6, Ahead
<1>8. y.size \in Nat /\ y.pos \in Nat /\ y.size \in Lengths /\ y.pos \in Lengths
      /\ y.due \subseteq Names /\ y.fresh \subseteq Names
  BY HandleFields
<1>9. \A j \in y.pos .. y.size - 1 : At(g, j) = T[g][j]
  BY <1>2, <1>7, AtIs
<1>10. PICK C : C = Coming(y)
  OBVIOUS
<1>11. C = {j \in y.pos .. y.size - 1 : T[g][j] # Gone}
  BY <1>7, <1>9, <1>10 DEF Coming
<1>12. y.due \subseteq Left(T, y) /\ Left(T, y) \subseteq y.due \cup y.fresh /\ y.loc = Home(T, g)
  BY <1>6, <1>7 DEF DirHandle
<1>13. UNCHANGED <<fat, slot>>
  BY DEF Dread
<1>14. CASE C = {}
  <2>1. PICK z : z = [y EXCEPT !.pos = y.size]
    OBVIOUS
  <2>2. fh' = [fh EXCEPT ![d] = z]
    BY <2>1, <1>5, <1>10, <1>14 DEF Dread
  <2>3. PICK p \in Lengths, D \in SUBSET Names, F \in SUBSET Names :
          p = y.size /\ D = y.due /\ F = y.fresh
    BY <1>8
  <2>4. z = Moved(y, p, D, F)
    BY <2>1, <2>3 DEF Moved, Handle
  <2>5. /\ z \in Handle /\ (z.open <=> y.open) /\ (z.dir <=> y.dir) /\ z.loc = y.loc
        /\ z.head = y.head /\ z.size = y.size /\ z.pos = p /\ z.due = D /\ z.fresh = F
    BY <2>3, <2>4, Moves
  <2>6. Left(T, y) = {}
    BY <1>7, <1>11, <1>14, LeftIs
  <2>7. \A j : j \notin z.pos .. z.size - 1
    BY <2>3, <2>5, <1>8
  <2>8. \A a : a \notin Left(T, z)
    BY <2>7, LeftIs
  <2>9. HandleOK(H, T, z)
    <3>1. DirHandle(H, T, z)
      BY <2>3, <2>5, <2>6, <2>8, <1>7, <1>12 DEF DirHandle
    <3> QED BY <3>1, <2>5, <1>5 DEF HandleOK
  <2> QED BY <2>2, <2>5, <2>9, <1>1, <1>13, HandleSet
<1>15. CASE C # {}
  <2>1. PICK k : k = LeastOf(C)
    OBVIOUS
  <2>2. k \in C /\ \A j \in C : k <= j
    <3>1. C \subseteq Nat
      BY <1>8, <1>11
    <3> QED BY <3>1, <2>1, <1>15, LeastIs
  <2>3. k \in Nat /\ k \in y.pos .. y.size - 1 /\ k >= y.pos /\ k < y.size /\ T[g][k] # Gone /\ k + 1 \in Lengths
    BY <2>2, <1>8, <1>11, Consts DEF Lengths
  <2>4. PICK n : n = T[g][k].name
    OBVIOUS
  <2>5. PICK z : z = [y EXCEPT !.pos = k + 1, !.due = @ \ {n}, !.fresh = @ \ {n}]
    OBVIOUS
  <2>6. fh' = [fh EXCEPT ![d] = z]
    <3>1. At(y.head, LeastOf(Coming(y))).name = n
      BY <2>1, <2>3, <2>4, <1>7, <1>9, <1>10
    <3>2. Told(y) = z
      BY <3>1, <2>1, <2>5, <1>10 DEF Told, Advance
    <3> QED BY <3>2, <1>5, <1>10, <1>15 DEF Dread
  <2>7. PICK p \in Lengths, D \in SUBSET Names, F \in SUBSET Names :
          p = k + 1 /\ D = y.due \ {n} /\ F = y.fresh \ {n}
    <3>1. y.due \ {n} \in SUBSET Names /\ y.fresh \ {n} \in SUBSET Names
      BY <1>8
    <3> QED BY <3>1, <2>3
  <2>8. z = Moved(y, p, D, F)
    BY <2>5, <2>7 DEF Moved
  <2>9. /\ z \in Handle /\ (z.open <=> y.open) /\ (z.dir <=> y.dir) /\ z.loc = y.loc
        /\ z.head = y.head /\ z.size = y.size /\ z.pos = p /\ z.due = D /\ z.fresh = F
    BY <2>7, <2>8, Moves
  <2>10. ASSUME NEW a PROVE a \in Left(T, z) <=> a \in Left(T, y) /\ a # n
    <3>1. a \in Left(T, z) <=> /\ a \in Names
                               /\ \E j \in k + 1 .. y.size - 1 : T[g][j] # Gone /\ T[g][j].name = a
      BY <2>7, <2>9, <1>7, LeftIs
    <3>2. a \in Left(T, y) <=> /\ a \in Names
                               /\ \E j \in y.pos .. y.size - 1 : T[g][j] # Gone /\ T[g][j].name = a
      BY <1>7, LeftIs
    <3>3. \A j \in k + 1 .. y.size - 1 : j \in y.pos .. y.size - 1 /\ j # k
      BY <2>3, <1>8
    <3>4. ASSUME NEW j \in y.pos .. y.size - 1, j # k, T[g][j] # Gone, T[g][j].name \in Names
          PROVE  T[g][j].name # n
      <4> SUFFICES ASSUME T[g][j].name = n PROVE FALSE
        OBVIOUS
      <4>1. j \in Used(T, g) /\ k \in Used(T, g)
        BY <3>4, <2>3, <2>4, <1>7
      <4>2. j = k
        BY <4>1, <2>4, <1>2 DEF Good, DirOK
      <4> QED BY <4>2, <3>4
    <3>5. ASSUME NEW j \in y.pos .. y.size - 1, T[g][j] # Gone, j # k PROVE j \in k + 1 .. y.size - 1
      <4>1. j \in C
        BY <3>5, <1>11
      <4>2. k <= j
        BY <4>1, <2>2
      <4> QED BY <4>2, <3>5, <2>3, <1>8
    <3> QED BY <3>1, <3>2, <3>3, <3>4, <3>5, <2>4
  <2>11. HandleOK(H, T, z)
    <3>1. z.due \subseteq Left(T, z) /\ Left(T, z) \subseteq z.due \cup z.fresh
      BY <2>7, <2>9, <2>10, <1>12
    <3>2. DirHandle(H, T, z)
      BY <3>1, <2>9, <1>7, <1>12 DEF DirHandle
    <3> QED BY <3>2, <2>9, <1>5 DEF HandleOK
  <2> QED BY <2>6, <2>9, <2>11, <1>1, <1>13, HandleSet
<1> QED BY <1>14, <1>15

(* mcio_mcRemove and mcio_mcRmDir.                                         *)
LEMMA RemoveFine ==
  ASSUME DInv, NEW up \in Directories, NEW n \in Names, Remove(up, n)
  PROVE  FineStep
<1>1. PICK H, ch, T, h : Given(up, H, ch, T, h)
  BY Pick
<1>2. /\ Laid(fat, slot, H, ch, T) /\ Good(H, ch, T) /\ \A d \in Fds : HandleOK(H, T, fh[d])
      /\ h \in H /\ up = Home(T, h) /\ fat \in Links /\ slot \in Slots /\ fh \in [Fds -> Handle]
  BY <1>1 DEF Given, Sound, DInv, Fine
<1>3. EntryAt(up) = Ent(T, h) /\ Ent(T, h).cluster = h
  BY <1>2, View DEF ViewFacts
<1>4. PICK i : i = LeastOf(Matches(up, n))
  OBVIOUS
<1>5. PICK e : e = At(h, i)
  OBVIOUS
<1>6. /\ e.dir => ~ Occupied(e)
      /\ ~ InUse(Loc(h, i))
      /\ slot' = Put(slot, fat, Loc(h, i), Gone)
      /\ fat' = [c \in Clusters |-> IF e.dir /\ c \in ChainOf(e.cluster) THEN Free ELSE fat[c]]
      /\ fh' = Forget(fh, h, n)
      /\ Matches(up, n) # {}
  BY <1>3, <1>4, <1>5 DEF Remove
<1>7. /\ i \in Used(T, h) /\ e = T[h][i] /\ e.name = n
      /\ e.dir => e.cluster \in H \ {Root} /\ Home(T, e.cluster) = Loc(h, i)
  BY <1>2, <1>4, <1>5, <1>6, Matched
<1>8. PICK f, s, s2, f2, hs, hs2 :
        f = fat /\ s = slot /\ s2 = slot' /\ f2 = fat' /\ hs = fh /\ hs2 = fh'
  OBVIOUS
<1>9. /\ Laid(f, s, H, ch, T) /\ Sized(H, ch, T) /\ f \in Links /\ s \in Slots
      /\ hs \in [Fds -> Handle]
  BY <1>2, <1>8, LaidSized
<1>10. ASSUME e.dir PROVE Used(T, e.cluster) = {}
  <2>1. PICK c \in H : c = e.cluster /\ Home(T, c) = Loc(h, i)
    BY <1>7, <1>10
  <2>2. T[c][0].cluster = h /\ T[c][0].back = i
    BY <2>1, LocIs DEF Home
  <2>3. Ent(T, c) = e
    BY <2>2, <1>7 DEF Ent
  <2>4. ViewFacts(H, ch, T, c)
    BY <1>2, View
  <2>5. \A j \in 2 .. e.length - 1 : At(c, j) = T[c][j]
    <3>1. PICK m \in Nat : m = e.length /\ \A j \in 0 .. m - 1 : At(c, j) = T[c][j]
      BY <2>3, <2>4 DEF ViewFacts
    <3> QED BY <3>1
  <2>6. \A j \in 2 .. e.length - 1 : At(c, j) = Gone
    BY <2>1, <1>6, <1>10 DEF Occupied
  <2> QED BY <2>1, <2>3, <2>5, <2>6 DEF Used
<1>11. Removable(H, T, h, i)
  BY <1>7, <1>10 DEF Removable
<1>12. s2 = Put(s, f, Loc(h, i), Gone)
  BY <1>6, <1>8
<1>13. s2 \in Slots /\ \E T2 : /\ Laid(f, s2, H, ch, T2) /\ Struck(H, ch, T, h, i, T2)
                               /\ Good(Without(H, e), ch, T2)
                               /\ TreeOf(Without(H, e), T2) = TreeOf(H, T) \ {Rec(h, e)}
  <2>1. s2 \in Slots /\ \E T2 : /\ Laid(f, s2, H, ch, T2) /\ Struck(H, ch, T, h, i, T2)
                                 /\ Good(Without(H, T[h][i]), ch, T2)
                                 /\ TreeOf(Without(H, T[h][i]), T2)
                                      = TreeOf(H, T) \ {Rec(h, T[h][i])}
    <3>1. Laid(f, s, H, ch, T) /\ Good(H, ch, T) /\ h \in H /\ s \in Slots
      BY <1>2, <1>9
    <3> QED BY <3>1, <1>11, <1>12, StrikeEntry
  <2> QED BY <2>1, <1>7
<1>14. PICK T2 : /\ Laid(f, s2, H, ch, T2) /\ Struck(H, ch, T, h, i, T2)
                 /\ Good(Without(H, e), ch, T2)
                 /\ TreeOf(Without(H, e), T2) = TreeOf(H, T) \ {Rec(h, e)}
  BY <1>13
<1>15. PICK H2 : H2 = Without(H, e)
  OBVIOUS
<1>16. f2 \in Links /\ Laid(f2, s2, H2, ch, T2)
  <2>1. CASE e.dir
    <3>1. PICK c \in H \ {Root} : c = e.cluster
      BY <2>1, <1>7
    <3>2. PICK D : D = ChainOf(c)
      OBVIOUS
    <3>3. D \subseteq Set(ch[c])
      BY <3>1, <3>2, <1>2, ChainOfIs
    <3>4. f2 = Freed(f, D)
      BY <2>1, <3>1, <3>2, <1>6, <1>8 DEF Freed
    <3>5. f2 \in Links /\ Laid(f2, s2, H \ {c}, ch, T2)
      BY <3>1, <3>3, <3>4, <1>9, <1>14, DropLaid
    <3> QED BY <2>1, <3>1, <3>5, <1>15 DEF Without
  <2>2. CASE ~ e.dir
    <3>1. f2 = [c \in Clusters |-> f[c]]
      BY <2>2, <1>6, <1>8
    <3>2. f2 = f
      BY <3>1, <1>9 DEF Links
    <3> QED BY <2>2, <3>2, <1>9, <1>14, <1>15 DEF Without
  <2> QED BY <2>1, <2>2
<1>17. hs2 \in [Fds -> Handle] /\ \A d \in Fds : hs2[d] = Loses(hs[d], h, n)
  <2>1. hs2 = Forget(hs, h, n)
    BY <1>6, <1>8
  <2> QED BY <2>1, <1>9, Forgotten
<1>18. ASSUME NEW d \in Fds PROVE HandleOK(H2, T2, hs2[d])
  <2>1. ~ (hs[d].open /\ hs[d].loc = Loc(h, i))
    BY <1>6, <1>8 DEF InUse
  <2>2. PICK y \in Handle : y = hs[d]
    BY <1>9
  <2>3. HandleOK(H, T, y) /\ ~ (y.open /\ y.loc = Loc(h, i))
    BY <2>1, <2>2, <1>2, <1>8
  <2>4. HandleOK(Without(H, T[h][i]), T2, Loses(y, h, T[h][i].name))
    BY <2>3, <1>2, <1>9, <1>11, <1>14, RemoveHandle
  <2> QED BY <2>2, <2>4, <1>7, <1>15, <1>17
<1>19. Sound(f2, s2, hs2, H2, ch, T2)
  BY <1>14, <1>15, <1>16, <1>18 DEF Sound
<1>20. PICK u : u = TreeOf(H, T) \ {Rec(h, e)}
  OBVIOUS
<1>21. FineTree(f2, s2, hs2, u)
  BY <1>13, <1>14, <1>15, <1>16, <1>17, <1>19, <1>20 DEF FineTree
<1>22. Promise!Step(TreeOf(H, T), u)
  BY <1>2, <1>7, <1>9, <1>11, <1>20, TreeRemoved
<1> QED BY <1>1, <1>8, <1>21, <1>22, StepIs DEF Given

(* A formatted card: the root alone, with no entries.                      *)
LEMMA InitFine == Init => FineTree(fat, slot, fh, {})
<1> SUFFICES ASSUME Init PROVE FineTree(fat, slot, fh, {})
  OBVIOUS
<1>1. PICK f, s, hs : f = fat /\ s = slot /\ hs = fh
  OBVIOUS
<1>2. /\ f = [c \in Clusters |-> IF c = Root THEN End ELSE Free]
      /\ s = [c \in Clusters |-> [p \in Place |->
              IF c # Root THEN Gone
              ELSE IF p = 0 THEN Self(Root, 0, 2) ELSE Above]]
      /\ hs = [d \in Fds |-> Unused]
  BY <1>1 DEF Init
<1>3. 0 \in Lengths /\ 2 \in Lengths /\ Root \in Clusters /\ 0 \in Place /\ 1 \in Place
  BY Consts DEF Lengths, Place
<1>4. /\ Self(Root, 0, 2) \in Entry /\ Self(Root, 0, 2).name = "."
      /\ Self(Root, 0, 2).cluster = Root /\ Self(Root, 0, 2).length = 2
      /\ Self(Root, 0, 2).back = 0 /\ Self(Root, 0, 2).dir
      /\ Above \in Entry
  BY <1>3, MakesSelf
<1>5. f \in Links
  BY <1>2 DEF Links
<1>6. s \in Slots
  BY <1>2, <1>4 DEF Slots
<1>7. hs \in [Fds -> Handle]
  BY <1>2, UnusedIs
<1>8. PICK H, ch : H = {Root} /\ ch = [h \in {Root} |-> <<Root>>]
  OBVIOUS
<1>9. f[Root] = End
  BY <1>2, <1>3
<1>10. /\ ch[Root] = <<Root>> /\ Chained(f, Root, ch[Root]) /\ Len(ch[Root]) = 1
       /\ Indexes(ch[Root]) = Place
  BY <1>3, <1>8, <1>9, Alone
<1>11. Apart(f, H, ch)
  BY <1>3, <1>8, <1>10 DEF Apart
<1>12. PICK T : T = Table(s, H, ch) /\ Laid(f, s, H, ch, T)
  BY <1>6, <1>11, TableLaid
<1>13. T[Root][0] = Self(Root, 0, 2) /\ T[Root][1] = Above
  <2>1. \A i \in Place : i \div PerCluster = 0 /\ i % PerCluster = i
    BY Consts DEF Place
  <2>2. <<Root>>[0 + 1] = Root
    OBVIOUS
  <2>3. ASSUME NEW i \in Place PROVE T[Root][i] = s[Root][i]
    <3>1. T[Root][i] = s[ch[Root][i \div PerCluster + 1]][i % PerCluster]
      BY <1>8, <1>10, <1>12 DEF Laid
    <3> QED BY <3>1, <2>1, <2>2, <1>10
  <2> QED BY <2>3, <1>2, <1>3
<1>14. Ent(T, Root) = Self(Root, 0, 2) /\ Home(T, Root) = Top
  <2>1. Home(T, Root) = Loc(Root, 0)
    BY <1>4, <1>13 DEF Home
  <2> QED BY <2>1, <1>4, <1>13 DEF Ent, Loc, Top
<1>15. Used(T, Root) = {}
  BY <1>4, <1>14 DEF Used
<1>16. Ent(T, Root).length \in 2 .. Len(ch[Root]) * PerCluster
  BY <1>4, <1>10, <1>14, Consts
<1>17. DirOK(H, ch, T, Root)
  BY <1>4, <1>13, <1>14, <1>15, <1>16 DEF DirOK
<1>18. Good(H, ch, T)
  <2>1. PICK r : r = [h \in {Root} |-> 0]
    OBVIOUS
  <2>2. Rank(H, T, r)
    BY <2>1, <1>8 DEF Rank
  <2> QED BY <2>2, <1>8, <1>17 DEF Good, Ranked
<1>19. \A d \in Fds : HandleOK(H, T, hs[d])
  BY <1>2, UnusedIs DEF HandleOK
<1>20. TreeOf(H, T) = {}
  <2>1. \A r : r \notin TreeOf(H, T)
    BY <1>8, <1>15, TreeIn
  <2> QED BY <2>1
<1>21. FineTree(f, s, hs, {})
  BY <1>5, <1>6, <1>7, <1>12, <1>18, <1>19, <1>20 DEF FineTree, Sound
<1> QED BY <1>1, <1>21

(* Every step keeps the invariant, and does to the tree what it may.       *)
LEMMA NextFine == DInv /\ Next => FineStep
<1> SUFFICES ASSUME DInv, Next PROVE FineStep
  OBVIOUS
<1>1. ASSUME NEW up \in Directories, NEW n \in Names, MkDir(up, n) PROVE FineStep
  BY <1>1, MkDirFine
<1>2. ASSUME NEW up \in Directories, NEW n \in Names, Create(up, n) PROVE FineStep
  BY <1>2, CreateFine
<1>3. ASSUME NEW up \in Directories, NEW n \in Names, Replace(up, n) PROVE FineStep
  BY <1>3, ReplaceFine
<1>4. ASSUME NEW up \in Directories, NEW n \in Names, OpenFile(up, n) PROVE FineStep
  BY <1>4, OpenFileFine
<1>5. ASSUME NEW up \in Directories, NEW n \in Names, Remove(up, n) PROVE FineStep
  BY <1>5, RemoveFine
<1>6. ASSUME NEW l \in Directories, OpenDir(l) PROVE FineStep
  BY <1>6, OpenDirFine
<1>7. ASSUME NEW d \in Fds, Close(d) PROVE FineStep
  BY <1>7, CloseFine
<1>8. ASSUME NEW d \in Fds, Dread(d) PROVE FineStep
  BY <1>8, DreadFine
<1> QED BY <1>1, <1>2, <1>3, <1>4, <1>5, <1>6, <1>7, <1>8 DEF Next

(* The tree of a sound state is the one that paths lead through.           *)
LEMMA FineTreeIs == \A t : FineTree(fat, slot, fh, t) => DInv /\ Tree = t
<1> SUFFICES ASSUME NEW t, FineTree(fat, slot, fh, t) PROVE DInv /\ Tree = t
  OBVIOUS
<1>1. DInv
  BY DEF FineTree, DInv, Fine
<1>2. PICK H, ch, T : Sound(fat, slot, fh, H, ch, T) /\ t = TreeOf(H, T)
  BY DEF FineTree
<1>3. Tree = TreeOf(H, T)
  BY <1>2, TreeIs DEF Sound, TreeFollows
<1> QED BY <1>1, <1>2, <1>3

(* And so in the next one.                                                 *)
LEMMA FineTreeNext == (\A t : FineTree(fat, slot, fh, t) => DInv /\ Tree = t)'
BY FineTreeIs, PTL

(* In such a step the tree changes as NameSpace says, if at all.           *)
LEMMA StepPromised == FineStep => DInv' /\ [Promise!Next]_Tree
<1> SUFFICES ASSUME FineStep PROVE DInv' /\ [Promise!Next]_Tree
  OBVIOUS
<1>1. PICK t, u : /\ FineTree(fat, slot, fh, t) /\ FineTree(fat', slot', fh', u)
                  /\ u = t \/ Promise!Step(t, u)
  BY DEF FineStep
<1>2. Tree = t
  BY <1>1, FineTreeIs
<1>3. DInv' /\ Tree' = u
  BY <1>1, FineTreeNext
<1> QED BY <1>1, <1>2, <1>3 DEF Promise!Next
-----------------------------------------------------------------------------
(* What the invariant says                                                 *)

(* The tree that paths lead through is sound.                              *)
LEMMA SoundTree == DInv => TreeIsSound
<1> SUFFICES ASSUME DInv PROVE TreeIsSound
  OBVIOUS
<1>1. PICK H, ch, T : Sound(fat, slot, fh, H, ch, T)
  BY DEF DInv, Fine
<1>2. Laid(fat, slot, H, ch, T) /\ Good(H, ch, T)
  BY <1>1 DEF Sound
<1>3. PICK f, s : f = fat /\ s = slot
  OBVIOUS
<1>4. Laid(f, s, H, ch, T) /\ Sized(H, ch, T)
  BY <1>2, <1>3, LaidSized
<1> SUFFICES ASSUME NEW x \in Directories, NEW y \in Directories
             PROVE  LET e == EntryAt(x)
                        above == EntryAt(y)
                    IN  /\ \A k \in 0 .. (e.length - 1) \div PerCluster :
                             Nth(fat, e.cluster, k) \in Clusters \ FreeOf(fat)
                        /\ HomeOf(e.cluster) = x
                        /\ x # Top /\ x.dir = above.cluster => Parent(x) = y
                        /\ x # y => ChainOf(e.cluster) \cap ChainOf(above.cluster) = {}
  BY DEF TreeIsSound
<1>5. PICK g \in H : x = Home(T, g)
  BY <1>2, DirectoriesAre
<1>6. PICK h \in H : y = Home(T, h)
  BY <1>2, DirectoriesAre
<1>7. PICK e : /\ e = EntryAt(x) /\ e = Ent(T, g) /\ e.cluster = g /\ HomeOf(g) = x
               /\ e.length \in Nat /\ e.length >= 2
  BY <1>2, <1>5, View DEF ViewFacts
<1>8. PICK above : above = EntryAt(y) /\ above.cluster = h /\ HomeOf(h) = y
  BY <1>2, <1>6, View DEF ViewFacts
<1>9. ASSUME NEW k \in 0 .. (e.length - 1) \div PerCluster
      PROVE  Nth(fat, g, k) \in Clusters \ FreeOf(fat)
  <2>1. PICK q : q = ch[g] /\ Chained(f, g, q)
    BY <1>4 DEF Laid
  <2>2. Len(q) \in Nat /\ Len(q) > 0 /\ \A i \in 1 .. Len(q) : q[i] \in Clusters /\ q[i] \in Set(q)
        /\ \A d \in Set(q) : f[d] # Free
    BY <2>1, ChainedFacts
  <2>3. PICK m \in Nat : m = e.length /\ m >= 2
    BY <1>7
  <2>4. \A i \in 0 .. m - 1 : i \in Indexes(q)
    BY <2>1, <2>3, <1>2, <1>4, <1>7, GoodFacts DEF DirFacts
  <2>5. m - 1 \in Indexes(q)
    BY <2>3, <2>4
  <2>6. PICK z : z = (m - 1) \div PerCluster
    OBVIOUS
  <2>7. z \in 0 .. Len(q) - 1
    BY <2>2, <2>5, <2>6, IndexFacts
  <2>8. k \in Nat /\ k < Len(q) /\ k + 1 \in 1 .. Len(q)
    BY <2>2, <2>3, <2>6, <2>7
  <2>9. Nth(f, g, k) = q[k + 1]
    BY <2>1, <2>8, NthIs
  <2> QED BY <2>2, <2>8, <2>9, <1>3 DEF FreeOf
<1>10. ASSUME x.dir = above.cluster PROVE Parent(x) = y
  <2>1. At(g, 0) = T[g][0]
    <3>1. /\ Ent(T, g).length \in Nat /\ Ent(T, g).length >= 2
          /\ \A i \in 0 .. Ent(T, g).length - 1 : At(g, i) = T[g][i]
      BY <1>2, View DEF ViewFacts
    <3> QED BY <3>1
  <2>2. T[g][0].cluster = h
    <3>1. x.dir = T[g][0].cluster
      BY <1>5, LocIs DEF Home
    <3> QED BY <3>1, <1>8, <1>10
  <2> QED BY <2>1, <2>2, <1>7, <1>8 DEF Parent
<1>11. ASSUME x # y PROVE ChainOf(g) \cap ChainOf(h) = {}
  <2>1. g # h
    BY <1>5, <1>6, <1>11
  <2>2. Set(ch[g]) \cap Set(ch[h]) = {}
    BY <2>1, <1>2 DEF Laid
  <2>3. ChainOf(g) \subseteq Set(ch[g]) /\ ChainOf(h) \subseteq Set(ch[h])
    BY <1>2, ChainOfIs
  <2> QED BY <2>2, <2>3
<1> QED BY <1>7, <1>8, <1>9, <1>10, <1>11

(* Handles on files are on their entries.                                  *)
LEMMA SoundHandles == DInv => HandlesKeepTheirEntry
<1> SUFFICES ASSUME DInv, NEW d \in Fds, fh[d].open, ~ fh[d].dir
             PROVE  /\ fh[d].loc.at < EntryAt(fh[d].parent).length
                    /\ EntryAt(fh[d].loc) = File(fh[d].name)
                    /\ EntryAt(fh[d].parent).cluster = fh[d].loc.dir
  BY DEF HandlesKeepTheirEntry
<1>1. PICK H, ch, T : Sound(fat, slot, fh, H, ch, T)
  BY DEF DInv, Fine
<1>2. PICK y : y = fh[d]
  OBVIOUS
<1>3. FileHandle(H, T, y) /\ Laid(fat, slot, H, ch, T) /\ Good(H, ch, T)
  BY <1>1, <1>2 DEF Sound, HandleOK
<1>4. PICK h \in H, i \in Used(T, y.loc.dir) :
        /\ h = y.loc.dir /\ i = y.loc.at /\ i \in Used(T, h)
        /\ y.parent = Home(T, h) /\ T[h][i] = File(y.name)
  BY <1>3 DEF FileHandle
<1>5. ViewFacts(H, ch, T, h)
  BY <1>3, View
<1>6. PICK m \in Nat : m = Ent(T, h).length /\ m >= 2 /\ \A j \in 0 .. m - 1 : At(h, j) = T[h][j]
  BY <1>5 DEF ViewFacts
<1>7. i \in 2 .. m - 1
  BY <1>4, <1>6 DEF Used
<1>8. EntryAt(y.loc) = File(y.name)
  <2>1. At(h, i) = T[h][i]
    BY <1>6, <1>7
  <2> QED BY <2>1, <1>4 DEF EntryAt
<1>9. EntryAt(y.parent).length = m /\ EntryAt(y.parent).cluster = h
  BY <1>4, <1>5, <1>6 DEF ViewFacts
<1>10. i < m
  BY <1>6, <1>7
<1> QED BY <1>2, <1>4, <1>8, <1>9, <1>10

(* Listings have still to tell what they should.                           *)
LEMMA SoundListings == DInv => ListingIsExact
<1> SUFFICES ASSUME DInv, NEW d \in Fds, fh[d].open, fh[d].dir
             PROVE  LET names == {At(fh[d].head, i).name : i \in Coming(fh[d])} \cap Names
                    IN  fh[d].due \subseteq names /\ names \subseteq fh[d].due \cup fh[d].fresh
  BY DEF ListingIsExact
<1>1. PICK H, ch, T : Sound(fat, slot, fh, H, ch, T)
  BY DEF DInv, Fine
<1>2. PICK y \in Handle : y = fh[d]
  BY DEF DInv, Fine
<1>3. DirHandle(H, T, y) /\ Laid(fat, slot, H, ch, T) /\ Good(H, ch, T)
  BY <1>1, <1>2 DEF Sound, HandleOK
<1>4. PICK f, s : f = fat /\ s = slot
  OBVIOUS
<1>5. Sized(H, ch, T)
  BY <1>3, <1>4, LaidSized
<1>6. PICK g \in H : g = y.head /\ \A j \in y.pos .. y.size - 1 : j \in Indexes(ch[g])
  BY <1>3, <1>5, Ahead
<1>7. \A j \in y.pos .. y.size - 1 : At(g, j) = T[g][j]
  BY <1>3, <1>6, AtIs
<1>8. Coming(y) = {j \in y.pos .. y.size - 1 : T[g][j] # Gone}
  BY <1>6, <1>7 DEF Coming
<1>9. {At(y.head, i).name : i \in Coming(y)} \cap Names = Left(T, y)
  BY <1>6, <1>7, <1>8 DEF Left
<1> QED BY <1>2, <1>3, <1>9 DEF DirHandle

(* At all times the FAT, the slots and the handles are those of a tree of  *)
(* directories with chains of their own: what Card_FileOpen, Card_Delete   *)
(* and the calls on handles leave behind, in any order, for any card, any  *)
(* names and any number of handles.                                        *)
THEOREM DirectoryInvariant == Spec => []DInv
<1>1. Init => DInv
  BY InitFine DEF FineTree, DInv, Fine, TreeOf
<1>2. DInv /\ [Next]_vars => DInv'
  <2>1. CASE UNCHANGED vars
    BY <2>1 DEF vars, DInv
  <2>2. DInv /\ Next => DInv'
    BY NextFine, StepPromised
  <2> QED BY <2>1, <2>2
<1> QED BY <1>1, <1>2, PTL DEF Spec

(* Directory implements NameSpace: to its callers Card_FileOpen and        *)
(* Card_Delete make names come and go one at a time, each once in its      *)
(* directory; a directory hangs from one name and goes only when it is     *)
(* empty, and replacing a file changes nothing.                            *)
THEOREM DirectoryIsNameSpace == Spec => ImplementsNameSpace
<1>1. Init => Promise!Init
  <2>1. Init => Tree = {}
    BY InitFine, FineTreeIs
  <2> QED BY <2>1 DEF Promise!Init
<1>2. DInv /\ [Next]_vars => [Promise!Next]_Tree
  <2>1. DInv /\ Next => [Promise!Next]_Tree
    BY NextFine, StepPromised
  <2>2. DInv /\ UNCHANGED vars => [Promise!Next]_Tree
    <3> SUFFICES ASSUME DInv, UNCHANGED vars PROVE Tree' = Tree
      OBVIOUS
    <3>1. PICK t : FineTree(fat, slot, fh, t)
      BY DEF DInv, Fine, FineTree
    <3>2. FineTree(fat', slot', fh', t)
      BY <3>1 DEF vars
    <3> QED BY <3>1, <3>2, FineTreeIs, FineTreeNext
  <2> QED BY <2>1, <2>2
<1> QED BY <1>1, <1>2, DirectoryInvariant, PTL DEF Spec, ImplementsNameSpace, Promise!Spec

(* FAT, slots and handles keep their types: Card_CreateDirEntry never makes*)
(* a directory longer than there are names.                                *)
THEOREM DirectoryTypes == Spec => []TypeOK
<1>1. DInv => TypeOK
  BY DEF DInv, Fine, TypeOK, Links, Slots
<1> QED BY <1>1, DirectoryInvariant, PTL

(* Every directory a path leads to is a chain of its own, long enough for  *)
(* its length, and its entry "." leads back to its own entry, whatever     *)
(* Card_FileOpen and Card_Delete did to slots and clusters before.         *)
THEOREM TreeStaysSound == Spec => []TreeIsSound
BY SoundTree, DirectoryInvariant, PTL

(* A handle on a file keeps the entry it was opened on and the entry of its*)
(* directory, since Card_Delete refuses a file that is open, whatever else *)
(* is created, replaced and removed around it.                             *)
THEOREM HandlesStay == Spec => []HandlesKeepTheirEntry
BY SoundHandles, DirectoryInvariant, PTL

(* mcio_mcDread gives every name that is in the directory from the         *)
(* beginning of the listing to its end exactly once, whatever calls come   *)
(* between two reads.                                                      *)
THEOREM ListingsExact == Spec => []ListingIsExact
BY SoundListings, DirectoryInvariant, PTL
=============================================================================
