------------------------- MODULE WriteOrderProofs -------------------------
(***************************************************************************)
(* A power cut finds every file that says "closed" complete, on clusters   *)
(* of its own (WriteOrder), whatever the number of files and clusters.     *)
(*                                                                         *)
(* The invariant OInv compares the card with memory.  What differs is in   *)
(* dirty (DirtyOK).  An entry that says "closed" in memory is backed by a  *)
(* chain and data that the card has too (FileOK), so it may be written at  *)
(* any time; one that says so on the card is that of memory (Kept), or of  *)
(* a file whose deletion has begun and whose entry is the next cluster to  *)
(* be written (Leaving).  The rest of the call in progress is one of the   *)
(* forms of InCall: each says what of it has been done, and what has       *)
(* reached the card before the next change is made.                        *)
(*                                                                         *)
(* A call on a torn file (Strays) knows nothing of the chain it follows.   *)
(* It changes no entry but its own, and the files of which it changes a    *)
(* cluster are torn from then on: the others stay as they are (FitsTorn).  *)
(***************************************************************************)
EXTENDS WriteOrder, TLAPS, WellFoundedInduction, FiniteSetTheorems, SequenceTheorems

(* A chain of the FAT: its clusters differ, each leads to the next one.    *)
Set(s) == {s[k] : k \in 1 .. Len(s)}

Chained(fat, first, s) ==
  /\ s \in Seq(Data) /\ Len(s) <= MaxSize
  /\ IF s = << >> THEN first = Null ELSE first = s[1] /\ fat[s[Len(s)]] = End
  /\ \A i \in 1 .. Len(s) - 1 : fat[s[i]] = s[i + 1]
  /\ \A i, j \in 1 .. Len(s) : s[i] = s[j] => i = j

Whole(fat, first) == Chained(fat, first, Chain(fat, first))

FileChain(f) == ChainOn(mem, f)
Holding(f) == [k \in DOMAIN FileChain(f) |-> mem.data[FileChain(f)[k]]]

(* The files whose clusters nothing else may touch.                        *)
Live(f) == mem.entry[f].exists /\ f \notin torn

(* Clusters of no file: one just found, or what is still to be freed.      *)
Loose(first) ==
  /\ Whole(mem.fat, first)
  /\ \A g \in Files : Live(g) => Set(FileChain(g)) \cap Set(Chain(mem.fat, first)) = {}

(* The chain of f is the same in memory and on the card, with the data.    *)
Same(f) ==
  \A c \in Set(FileChain(f)) : mem.fat[c] = card.fat[c] /\ mem.data[c] = card.data[c]

(* An entry that says "closed" in memory may be written at any time.  A    *)
(* handle is that of a live file or of one that is torn, and writes only   *)
(* if it is open.                                                          *)
FileOK(f) ==
  /\ Live(f) => Whole(mem.fat, mem.entry[f].first)
  /\ Live(f) /\ mem.entry[f].closed => Same(f) /\ mem.entry[f].holds = Holding(f)
  /\ fh[f].marked => fh[f].open
  /\ fh[f].open /\ f \notin torn => Live(f)

Apart(f, g) ==
  Live(f) /\ Live(g) /\ f # g => Set(FileChain(f)) \cap Set(FileChain(g)) = {}

DirtyOK ==
  /\ \A f \in Files : mem.entry[f] # card.entry[f] => f \in Set(dirty)
  /\ \A c \in Data : mem.fat[c] # card.fat[c] => FatOf[c] \in Set(dirty)
  /\ \A c \in Data : mem.data[c] # card.data[c] => c \in Set(dirty)

(* An entry that says "closed" on the card is that of memory ...           *)
Kept(f) ==
  /\ mem.entry[f].exists /\ mem.entry[f].first = card.entry[f].first
  /\ Same(f) /\ card.entry[f].holds = Holding(f)

(* ... or that of a file being deleted, and the next thing to be written.  *)
Intact(f) ==
  /\ Whole(card.fat, card.entry[f].first)
  /\ card.entry[f].holds =
       [k \in DOMAIN ChainOn(card, f) |-> card.data[ChainOn(card, f)[k]]]
  /\ \A g \in Files : Live(g) => Set(FileChain(g)) \cap Set(ChainOn(card, f)) = {}

Ending(f) == todo # << >> /\ Head(todo).file = f /\ Head(todo).do \in {"release", "flush"}

Leaving(f) == Ending(f) /\ ~mem.entry[f].exists /\ dirty # << >> /\ Head(dirty) = f /\ Intact(f)

CardOK(f) ==
  /\ Closed(f) => Kept(f) \/ Leaving(f)
  /\ card.entry[f].exists /\ ~mem.entry[f].exists => Ending(f)

(* Between calls a handle knows where its file begins, and one that has    *)
(* written has taken the attribute off, on the card too.                   *)
HasFirst(f) == fh[f].first = mem.entry[f].first
Opened(f) == ~mem.entry[f].closed /\ ~card.entry[f].closed
Ready(f) == f \notin torn => (fh[f].open => HasFirst(f)) /\ (fh[f].marked => Opened(f))
AtRest(f) == todo = << >> \/ Head(todo).file # f

(* What a call has still to do.                                            *)
Putting(f, p) == <<DoAt("put", f, p), Do("mark", f)>>
Starting(f) == <<Do("mark", f), Do("again", f), Do("flush", f), DoAt("put", f, 1), Do("mark", f)>>
Linking(f, c, p) == <<DoAt("link", f, c), Do("again", f), DoAt("put", f, p), Do("mark", f)>>

Work(t, f, chain) ==
  \/ \E p \in 1 .. Len(chain) : t = Putting(f, p)
  \/ /\ Len(chain) = 0
     /\ t = <<Do("reserve", f), Do("mark", f), Do("again", f), Do("flush", f),
              DoAt("put", f, 1), Do("mark", f)>>
  \/ /\ Len(chain) \in 1 .. MaxSize - 1
     /\ t = <<Do("reserve", f), DoAt("link", f, chain[Len(chain)]), Do("again", f),
              DoAt("put", f, Len(chain) + 1), Do("mark", f)>>

(* A call that has only to write what has changed.                         *)
Ended(f) ==
  todo = <<Do("flush", f)>> /\ Ready(f)
(* mcio_mcClose is sealing the file.                                       *)
Sealed(f) ==
  /\ Live(f) /\ ~fh[f].open /\ ~fh[f].marked /\ HasFirst(f)
  /\ \/ todo = <<Do("flush", f), Do("mark", f), Do("flush", f)>>
     \/ todo = <<Do("mark", f), Do("flush", f)>> /\ dirty = << >>
(* mcio_mcWrite takes the attribute off, in memory and on the card ...     *)
Writer(f) == Live(f) /\ fh[f].open /\ fh[f].marked /\ HasFirst(f)
Unsealing(f) ==
  /\ Writer(f) /\ todo # << >> /\ Head(todo) = Do("mark", f)
  /\ Tail(todo) # << >> /\ Head(Tail(todo)) = Do("flush", f)
  /\ Work(Tail(Tail(todo)), f, FileChain(f))
Unsealed(f) ==
  /\ Writer(f) /\ ~mem.entry[f].closed
  /\ todo # << >> /\ Head(todo) = Do("flush", f) /\ Work(Tail(todo), f, FileChain(f))
(* ... finds a cluster, leads to it, and fills it.                         *)
Working(f) == Writer(f) /\ Opened(f) /\ Work(todo, f, FileChain(f))
HasNew(f) == fh[f].last \in Data /\ mem.fat[fh[f].last] = End /\ Loose(fh[f].last)
Begins(f) ==
  /\ Live(f) /\ fh[f].open /\ fh[f].marked /\ Opened(f)
  /\ mem.entry[f].first = Null /\ fh[f].first = fh[f].last
  /\ HasNew(f) /\ todo = Starting(f)
Begun(f) ==
  /\ Writer(f) /\ Opened(f) /\ Len(FileChain(f)) = 1
  /\ todo = <<Do("again", f), Do("flush", f), DoAt("put", f, 1), Do("mark", f)>>
Links(f) ==
  /\ Writer(f) /\ Opened(f) /\ Len(FileChain(f)) \in 1 .. MaxSize - 1 /\ HasNew(f)
  /\ todo = Linking(f, FileChain(f)[Len(FileChain(f))], Len(FileChain(f)) + 1)
Linked(f) ==
  /\ Writer(f) /\ Opened(f)
  /\ \E p \in 1 .. Len(FileChain(f)) :
       todo = <<Do("again", f), DoAt("put", f, p), Do("mark", f)>>
PutDone(f) == Writer(f) /\ Opened(f) /\ todo = <<Do("mark", f)>>
(* mcio_mcRemove lets the entry go, then the clusters.                     *)
Leaves(f) ==
  /\ Live(f) /\ ~fh[f].open /\ dirty = << >>
  /\ IF mem.entry[f].first = Null THEN todo = <<Do("unname", f), Do("flush", f)>>
     ELSE todo = <<Do("unname", f), DoAt("release", f, mem.entry[f].first), Do("flush", f)>>
Frees(f) ==
  /\ f \notin torn /\ ~mem.entry[f].exists
  /\ \E c \in Data : Loose(c) /\ todo = <<DoAt("release", f, c), Do("flush", f)>>

(* A call on a torn file, which is to write or close it, or to delete it.  *)
Orderly(t, f) ==
  \A i \in 1 .. Len(t) :
    /\ t[i].file = f /\ t[i].do \in {"flush", "mark", "reserve", "link", "again", "put"}
    /\ t[i].do = "link" => t[i].at \in Data /\ (i = 1 \/ t[i - 1].do = "reserve")
Straying(f) ==
  /\ todo # << >> /\ Orderly(todo, f)
  /\ Head(todo).file = f /\ Head(todo).do \notin {"unname", "release"}
  /\ Head(todo).do = "link" => fh[f].last \in Data
StrayLeaves(f) ==
  \/ todo = <<Do("unname", f), Do("flush", f)>>
  \/ \E c \in Data : todo = <<Do("unname", f), DoAt("release", f, c), Do("flush", f)>>
StrayFrees(f) == \E c \in Data : todo = <<DoAt("release", f, c), Do("flush", f)>>
Strays(f) == f \in torn /\ (Straying(f) \/ StrayLeaves(f) \/ StrayFrees(f))

InCall(f) ==
  \/ Strays(f)
  \/ Ended(f) \/ Sealed(f) \/ Unsealing(f) \/ Unsealed(f) \/ Working(f)
  \/ Begins(f) \/ Begun(f) \/ Links(f) \/ Linked(f) \/ PutDone(f)
  \/ Leaves(f) \/ Frees(f)

OInv ==
  /\ TypeOK /\ DirtyOK
  /\ \A f \in Files : FileOK(f) /\ CardOK(f) /\ (AtRest(f) => Ready(f))
  /\ \A f, g \in Files : Apart(f, g)
  /\ todo = << >> \/ \E f \in Files : InCall(f)
-----------------------------------------------------------------------------
(* A set of naturals has a least element.                                  *)
LEMMA LeastNat ==
  ASSUME NEW S, S \subseteq Nat, S # {}
  PROVE  \E m \in S : \A k \in S : m <= k
<1> DEFINE R == OpToRel(<, Nat)
<1>1. IsWellFoundedOn(R, Nat)
  BY NatLessThanWellFounded
<1>2. \A x, y \in Nat : x < y => <<x, y>> \in R
  BY DEF OpToRel
<1> HIDE DEF R
<1>3. PICK m \in S : \A k \in S : ~ (<<k, m>> \in R)
  BY <1>1, WFMin
<1>4. \A k \in S : ~ (k < m)
  BY <1>2, <1>3, Zenon
<1>5. \A k \in S : m <= k
  BY <1>4
<1> QED BY <1>5

(* What holds for 0, and for a number when it does for the one before,     *)
(* holds for all: as a set, since the facts cited here take no predicate.  *)
LEMMA AllNat ==
  ASSUME NEW S, 0 \in S, \A m \in Nat : m # 0 /\ m - 1 \in S => m \in S
  PROVE  Nat \subseteq S
<1> SUFFICES ASSUME Nat \ S # {} PROVE FALSE
  OBVIOUS
<1>1. PICK m \in Nat \ S : \A k \in Nat \ S : m <= k
  BY LeastNat
<1>2. m # 0 /\ m - 1 \in Nat
  BY <1>1
<1>3. m - 1 \in S
  BY <1>1, <1>2
<1> QED BY <1>1, <1>2, <1>3
-----------------------------------------------------------------------------
(* Sequences                                                               *)

(* s is a, b, and then t.                                                  *)
Leads(s, a, b, t) ==
  /\ s # << >> /\ Head(s) = a /\ Tail(s) # << >> /\ Head(Tail(s)) = b /\ Tail(Tail(s)) = t

(* Two steps put before what is left of a call.                            *)
LEMMA JoinTwo ==
  ASSUME NEW S, NEW a \in S, NEW b \in S, NEW t \in Seq(S), NEW s, s = <<a, b>> \o t
  PROVE  s \in Seq(S) /\ Leads(s, a, b, t)
<1> DEFINE x == <<a, b>>
<1>1. x \in Seq(S) /\ Len(x) = 2 /\ x[1] = a /\ x[2] = b
  OBVIOUS
<1>0. s = x \o t
  OBVIOUS
<1> HIDE DEF x
<1>2. /\ s \in Seq(S) /\ Len(s) = 2 + Len(t) /\ Len(t) \in Nat
      /\ \A i \in 1 .. 2 + Len(t) : s[i] = IF i <= 2 THEN x[i] ELSE t[i - 2]
  <2>1. /\ x \o t \in Seq(S) /\ Len(x \o t) = Len(x) + Len(t)
        /\ \A i \in 1 .. Len(x) + Len(t) :
             (x \o t)[i] = IF i <= Len(x) THEN x[i] ELSE t[i - Len(x)]
    BY <1>1, ConcatProperties, Zenon
  <2> QED BY <2>1, <1>0, <1>1
<1>3. s # << >> /\ s[1] = a /\ s[2] = b
  BY <1>1, <1>2
<1>4. /\ Tail(s) \in Seq(S) /\ Len(Tail(s)) = 1 + Len(t)
      /\ \A i \in 1 .. 1 + Len(t) : Tail(s)[i] = s[i + 1]
  BY <1>2, <1>3, HeadTailProperties
<1>5. Tail(s) # << >> /\ Head(Tail(s)) = b /\ Head(s) = a
  BY <1>2, <1>3, <1>4
<1>6. /\ Tail(Tail(s)) \in Seq(S) /\ Len(Tail(Tail(s))) = Len(t)
      /\ \A i \in 1 .. Len(t) : Tail(Tail(s))[i] = s[i + 2]
  BY <1>2, <1>4, <1>5, HeadTailProperties
<1>7. Tail(Tail(s)) = t
  BY <1>2, <1>6, SeqEqual
<1> QED BY <1>2, <1>3, <1>4, <1>5, <1>7 DEF Leads

(* Short calls, joined.                                                    *)
LEMMA Join1 ==
  ASSUME NEW S, NEW a \in S, NEW b \in S, NEW c \in S
  PROVE  <<a>> \o <<b>> = <<a, b>> /\ <<a, b>> \o <<c>> = <<a, b, c>>
<1> DEFINE u == <<a>>
           v == <<b>>
           w == <<c>>
           x == <<a, b>>
           y == <<a, b, c>>
<1>1. /\ u \in Seq(S) /\ Len(u) = 1 /\ u[1] = a /\ v \in Seq(S) /\ Len(v) = 1 /\ v[1] = b
      /\ w \in Seq(S) /\ Len(w) = 1 /\ w[1] = c
      /\ x \in Seq(S) /\ Len(x) = 2 /\ x[1] = a /\ x[2] = b
      /\ y \in Seq(S) /\ Len(y) = 3 /\ y[1] = a /\ y[2] = b /\ y[3] = c
  OBVIOUS
<1> HIDE DEF u, v, w, x, y
<1>2. u \o v = x
  <2>1. /\ u \o v \in Seq(S) /\ Len(u \o v) = Len(u) + Len(v)
        /\ \A i \in 1 .. Len(u) + Len(v) :
             (u \o v)[i] = IF i <= Len(u) THEN u[i] ELSE v[i - Len(u)]
    BY <1>1, ConcatProperties, Zenon
  <2>2. \A i \in 1 .. 2 : (u \o v)[i] = x[i]
    BY <2>1, <1>1
  <2> QED BY <2>1, <2>2, <1>1, SeqEqual
<1>3. x \o w = y
  <2>1. /\ x \o w \in Seq(S) /\ Len(x \o w) = Len(x) + Len(w)
        /\ \A i \in 1 .. Len(x) + Len(w) :
             (x \o w)[i] = IF i <= Len(x) THEN x[i] ELSE w[i - Len(x)]
    BY <1>1, ConcatProperties, Zenon
  <2>2. \A i \in 1 .. 3 : (x \o w)[i] = y[i]
    BY <2>1, <1>1
  <2> QED BY <2>1, <2>2, <1>1, SeqEqual
<1> QED BY <1>2, <1>3 DEF u, v, w, x, y

(* The same for a write that begins a file ...                             *)
LEMMA Join3 ==
  ASSUME NEW S, NEW a \in S, NEW b \in S, NEW c \in S, NEW d \in S, NEW e \in S
  PROVE  <<a, b, c>> \o <<d, e>> = <<a, b, c, d, e>>
<1> DEFINE x == <<a, b, c>>
           y == <<d, e>>
           z == <<a, b, c, d, e>>
<1>1. x \in Seq(S) /\ Len(x) = 3 /\ y \in Seq(S) /\ Len(y) = 2 /\ z \in Seq(S) /\ Len(z) = 5
  OBVIOUS
<1>2. /\ x[1] = a /\ x[2] = b /\ x[3] = c /\ y[1] = d /\ y[2] = e
      /\ z[1] = a /\ z[2] = b /\ z[3] = c /\ z[4] = d /\ z[5] = e
  OBVIOUS
<1> HIDE DEF x, y, z
<1>3. /\ x \o y \in Seq(S) /\ Len(x \o y) = 5
      /\ \A i \in 1 .. 5 : (x \o y)[i] = IF i <= 3 THEN x[i] ELSE y[i - 3]
  <2>1. /\ x \o y \in Seq(S) /\ Len(x \o y) = Len(x) + Len(y)
        /\ \A i \in 1 .. Len(x) + Len(y) :
             (x \o y)[i] = IF i <= Len(x) THEN x[i] ELSE y[i - Len(x)]
    BY <1>1, ConcatProperties, Zenon
  <2> QED BY <2>1, <1>1
<1>4. \A i \in 1 .. 5 : (x \o y)[i] = z[i]
  BY <1>2, <1>3
<1>5. x \o y = z
  BY <1>1, <1>3, <1>4, SeqEqual
<1> QED BY <1>5 DEF x, y, z

(* ... and for one that first flushes the cluster it has found.            *)
LEMMA Join4 ==
  ASSUME NEW S, NEW a \in S, NEW b \in S, NEW c \in S, NEW d \in S, NEW e \in S, NEW f \in S
  PROVE  <<a, b, c, d>> \o <<e, f>> = <<a, b, c, d, e, f>>
<1> DEFINE x == <<a, b, c, d>>
           y == <<e, f>>
           z == <<a, b, c, d, e, f>>
<1>1. x \in Seq(S) /\ Len(x) = 4 /\ y \in Seq(S) /\ Len(y) = 2 /\ z \in Seq(S) /\ Len(z) = 6
  OBVIOUS
<1>2. /\ x[1] = a /\ x[2] = b /\ x[3] = c /\ x[4] = d /\ y[1] = e /\ y[2] = f
      /\ z[1] = a /\ z[2] = b /\ z[3] = c /\ z[4] = d /\ z[5] = e /\ z[6] = f
  OBVIOUS
<1> HIDE DEF x, y, z
<1>3. /\ x \o y \in Seq(S) /\ Len(x \o y) = 6
      /\ \A i \in 1 .. 6 : (x \o y)[i] = IF i <= 4 THEN x[i] ELSE y[i - 4]
  <2>1. /\ x \o y \in Seq(S) /\ Len(x \o y) = Len(x) + Len(y)
        /\ \A i \in 1 .. Len(x) + Len(y) :
             (x \o y)[i] = IF i <= Len(x) THEN x[i] ELSE y[i - Len(x)]
    BY <1>1, ConcatProperties, Zenon
  <2> QED BY <2>1, <1>1
<1>4. \A i \in 1 .. 6 : (x \o y)[i] = z[i]
  <2>1. /\ (x \o y)[1] = a /\ (x \o y)[2] = b /\ (x \o y)[3] = c
        /\ (x \o y)[4] = d
    BY <1>2, <1>3
  <2>2. (x \o y)[5] = e /\ (x \o y)[6] = f
    BY <1>2, <1>3
  <2>3. \A i \in 1 .. 6 : i \in {1, 2, 3, 4, 5, 6}
    OBVIOUS
  <2> QED BY <2>1, <2>2, <2>3, <1>2
<1>5. x \o y = z
  BY <1>1, <1>3, <1>4, SeqEqual
<1> QED BY <1>5 DEF x, y, z

(* The sequence without elements.                                          *)
LEMMA EmptySet ==
  /\ Set(<< >>) = {} /\ \A s : {s[j] : j \in 1 .. 0} = {}
  /\ \A T : \A s \in Seq(T) : Set(s) = {} => s = << >>
<1>1. 1 .. 0 = {} /\ Len(<< >>) = 0
  OBVIOUS
<1>2. Set(<< >>) = {} /\ \A s : {s[j] : j \in 1 .. 0} = {}
  BY <1>1 DEF Set
<1>3. ASSUME NEW T, NEW s \in Seq(T), Set(s) = {} PROVE s = << >>
  <2>1. Len(s) \in Nat /\ (s # << >> => 1 \in 1 .. Len(s))
    OBVIOUS
  <2> QED BY <2>1, <1>3 DEF Set
<1> QED BY <1>2, <1>3

(* One element more.                                                       *)
LEMMA AppendSet ==
  ASSUME NEW T, NEW k \in Seq(T), NEW x \in T
  PROVE  /\ Append(k, x) \in Seq(T) /\ Append(k, x) # << >>
         /\ Set(Append(k, x)) = Set(k) \cup {x}
<1> DEFINE a == Append(k, x)
<1>1. /\ a \in Seq(T) /\ Len(a) = Len(k) + 1 /\ Len(k) \in Nat /\ a # << >>
      /\ \A j \in 1 .. Len(k) : a[j] = k[j]
      /\ a[Len(k) + 1] = x
  OBVIOUS
<1> HIDE DEF a
<1>2. \A j \in 1 .. Len(k) : j \in 1 .. Len(a)
  BY <1>1
<1>3. Len(k) + 1 \in 1 .. Len(a)
  BY <1>1
<1>4. Set(k) \cup {x} \subseteq Set(a)
  BY <1>1, <1>2, <1>3 DEF Set
<1>5. \A j \in 1 .. Len(a) : j \in 1 .. Len(k) \/ j = Len(k) + 1
  BY <1>1
<1>6. Set(a) \subseteq Set(k) \cup {x}
  BY <1>1, <1>5 DEF Set
<1> QED BY <1>1, <1>4, <1>6 DEF a

(* What is left of a sequence without the elements of a set.               *)
LEMMA WithoutFacts ==
  ASSUME NEW T, NEW s \in Seq(T), NEW us
  PROVE  /\ Without(s, us) \in Seq(T)
         /\ Set(Without(s, us)) = Set(s) \ us
         /\ s # << >> /\ Head(s) \notin us =>
              Without(s, us) # << >> /\ Head(Without(s, us)) = Head(s)
<1> DEFINE
      Step(kept, i) ==
        IF i = 0 THEN << >>
        ELSE IF s[i] \in us THEN kept[i - 1] ELSE Append(kept[i - 1], s[i])
      Follows(kept, m) == kept = [i \in 0 .. m |-> Step(kept, i)]
      Solved == {m \in Nat : \E kept : Follows(kept, m)}
<1>1. Nat \subseteq Solved
  <2>1. 0 \in Solved
    <3>1. Follows([i \in 0 .. 0 |-> << >>], 0)
      OBVIOUS
    <3> QED BY <3>1
  <2>2. ASSUME NEW m \in Nat, m # 0, m - 1 \in Solved
        PROVE  m \in Solved
    <3>1. PICK kept : Follows(kept, m - 1)
      BY <2>2
    <3> DEFINE last == Step(kept, m)
               longer == [i \in 0 .. m |-> IF i = m THEN last ELSE kept[i]]
    <3>2. \A i \in 0 .. m - 1 : kept[i] = Step(kept, i)
      BY <3>1, <2>2
    <3>3. ASSUME NEW i \in 0 .. m
          PROVE  longer[i] = Step(longer, i)
      <4>1. CASE i = m
        <5>1. longer[i] = last /\ longer[i - 1] = kept[m - 1] /\ i # 0
          BY <4>1, <2>2
        <5> QED BY <5>1, <4>1
      <4>2. CASE i # m
        <5>1. i \in 0 .. m - 1 /\ longer[i] = kept[i]
          BY <4>2, <2>2
        <5>2. i # 0 => longer[i - 1] = kept[i - 1]
          BY <4>2, <2>2
        <5> QED BY <5>1, <5>2, <3>2
      <4> QED BY <4>1, <4>2
    <3>4. Follows(longer, m)
      <4> HIDE DEF last
      <4>1. longer = [i \in 0 .. m |-> longer[i]]
        OBVIOUS
      <4> HIDE DEF longer
      <4> QED BY <4>1, <3>3
    <3> QED BY <3>4
  <2> HIDE DEF Solved
  <2> QED BY <2>1, <2>2, AllNat
<1>2. Len(s) \in Nat /\ \A i \in 1 .. Len(s) : s[i] \in T
  OBVIOUS
<1> DEFINE kept == CHOOSE x : Follows(x, Len(s))
<1>3. Follows(kept, Len(s))
  BY <1>1, <1>2
<1>4. Without(s, us) = kept[Len(s)]
  BY DEF Without
<1> HIDE DEF kept
<1>5. \A i \in 0 .. Len(s) : kept[i] = Step(kept, i)
  BY <1>3
<1> DEFINE
      Right(k, i) ==
        /\ k \in Seq(T) /\ Set(k) = {s[j] : j \in 1 .. i} \ us
        /\ i > 0 /\ s[1] \notin us => k # << >> /\ Head(k) = s[1]
      Done == {i \in Nat : i <= Len(s) => Right(kept[i], i)}
<1>6. Nat \subseteq Done
  <2>1. 0 \in Done
    <3>1. kept[0] = << >>
      BY <1>5, <1>2
    <3>2. Set(<< >>) = {} /\ {s[j] : j \in 1 .. 0} = {}
      BY EmptySet
    <3>3. Right(<< >>, 0)
      BY <3>2
    <3> HIDE DEF Right
    <3> QED BY <3>1, <3>3
  <2>2. ASSUME NEW i \in Nat, i # 0, i - 1 \in Done
        PROVE  i \in Done
    <3> SUFFICES ASSUME i <= Len(s) PROVE Right(kept[i], i)
      OBVIOUS
    <3> DEFINE k == kept[i - 1]
    <3>1. Right(k, i - 1) /\ i \in 0 .. Len(s) /\ i \in 1 .. Len(s)
      BY <2>2, <1>2
    <3>2. kept[i] = IF s[i] \in us THEN k ELSE Append(k, s[i])
      BY <1>5, <3>1, <2>2
    <3>3. {s[j] : j \in 1 .. i} = {s[j] : j \in 1 .. i - 1} \cup {s[i]}
      BY <3>1
    <3> HIDE DEF k
    <3>4. CASE s[i] \in us
      BY <3>1, <3>2, <3>3, <3>4
    <3>5. CASE s[i] \notin us
      <4>1. k \in Seq(T) /\ s[i] \in T
        BY <3>1, <1>2
      <4>2. Append(k, s[i]) \in Seq(T) /\ Set(Append(k, s[i])) = Set(k) \cup {s[i]}
        BY <4>1, AppendSet
      <4>3. Append(k, s[i]) # << >>
        BY <4>1
      <4>4. Head(Append(k, s[i])) = IF k = << >> THEN s[i] ELSE Head(k)
        BY <4>1
      <4>5. s[1] \notin us => Head(Append(k, s[i])) = s[1]
        <5>1. CASE i = 1
          <6>1. Set(k) = {}
            BY <3>1, <5>1, EmptySet
          <6>2. k = << >>
            BY <6>1, <4>1, EmptySet
          <6> QED BY <6>2, <4>4, <5>1
        <5>2. CASE i # 1
          BY <3>1, <4>4, <5>2
        <5> QED BY <5>1, <5>2
      <4>6. Set(Append(k, s[i])) = {s[j] : j \in 1 .. i} \ us
        BY <4>2, <3>1, <3>3, <3>5
      <4> QED BY <4>2, <4>3, <4>5, <4>6, <3>2, <3>5
    <3> QED BY <3>4, <3>5
  <2> HIDE DEF Done
  <2> QED BY <2>1, <2>2, AllNat
<1>7. Right(kept[Len(s)], Len(s))
  <2>1. Len(s) \in Done
    BY <1>6, <1>2
  <2> HIDE DEF Right
  <2> QED BY <2>1, <1>2
<1>8. Set(s) = {s[j] : j \in 1 .. Len(s)}
  BY DEF Set
<1>9. s # << >> => Len(s) > 0 /\ Head(s) = s[1]
  BY <1>2
<1> QED BY <1>4, <1>7, <1>8, <1>9
-----------------------------------------------------------------------------
(* Chains                                                                  *)

(* What OrderAssumption says of the marks.                                 *)
LEMMA Constants ==
  /\ MaxSize \in Nat /\ MaxSize > 0
  /\ Null \notin Data /\ Free \notin Data /\ End \notin Data /\ Free # End
BY OrderAssumption

(* A chain is what Chain finds: Nth has a solution, which is the chain, a  *)
(* mark of the FAT after it and Null from there on, and no other one.      *)
LEMMA ChainIs ==
  ASSUME NEW fat, NEW first, NEW s, Chained(fat, first, s)
  PROVE  /\ Chain(fat, first) = s /\ Size(fat, first) = Len(s)
         /\ \A k \in 1 .. Len(s) : Nth(fat, first, k) = s[k]
<1> DEFINE
      value(i) == IF i <= Len(s) THEN s[i]
                  ELSE IF i = Len(s) + 1 /\ s # << >> THEN End ELSE Null
      Step(at, i) == IF i = 1 THEN first
                     ELSE LET before == at[i - 1]
                          IN  IF before \in Data THEN fat[before] ELSE Null
      Follows(at, k) == at = [i \in 1 .. k |-> Step(at, i)]
<1>1. /\ Len(s) \in Nat /\ Len(s) <= MaxSize /\ \A i \in 1 .. Len(s) : s[i] \in Data
      /\ s # << >> <=> Len(s) > 0
  BY DEF Chained
<1>2. value(1) = first
  BY <1>1 DEF Chained
<1>3. ASSUME NEW i \in Nat, i > 1
      PROVE  value(i) = IF value(i - 1) \in Data THEN fat[value(i - 1)] ELSE Null
  <2>1. CASE i <= Len(s)
    <3>1. i - 1 \in 1 .. Len(s) - 1 /\ i - 1 \in 1 .. Len(s)
      BY <2>1, <1>1, <1>3
    <3>2. fat[s[i - 1]] = s[i]
      <4>1. fat[s[i - 1]] = s[(i - 1) + 1]
        BY <3>1 DEF Chained
      <4> QED BY <4>1
    <3> QED BY <2>1, <3>1, <3>2, <1>1
  <2>2. CASE i = Len(s) + 1
    <3>1. s # << >> /\ i - 1 = Len(s) /\ Len(s) \in 1 .. Len(s)
      BY <2>2, <1>1, <1>3
    <3>2. fat[s[Len(s)]] = End
      BY <3>1 DEF Chained
    <3> QED BY <2>2, <3>1, <3>2, <1>1
  <2>3. CASE i > Len(s) + 1
    <3>1. value(i) = Null /\ value(i - 1) \notin Data
      BY <2>3, <1>1, Constants
    <3> QED BY <3>1
  <2> QED BY <2>1, <2>2, <2>3, <1>1
<1> HIDE DEF value
<1>4. ASSUME NEW k \in Nat, k > 0
      PROVE  Nth(fat, first, k) = value(k)
  <2> DEFINE at == CHOOSE x : Follows(x, k)
             sol == [i \in 1 .. k |-> value(i)]
  <2>1. Follows(sol, k)
    <3>1. ASSUME NEW i \in 1 .. k PROVE value(i) = Step(sol, i)
      <4>1. CASE i = 1
        BY <4>1, <1>2
      <4>2. CASE i # 1
        <5>1. i \in Nat /\ i > 1 /\ i - 1 \in 1 .. k
          BY <4>2
        <5>2. sol[i - 1] = value(i - 1)
          BY <5>1
        <5> QED BY <5>1, <5>2, <4>2, <1>3
      <4> QED BY <4>1, <4>2
    <3> HIDE DEF Step
    <3> QED BY <3>1
  <2>2. Follows(at, k)
    BY <2>1
  <2>3. Nth(fat, first, k) = at[k]
    BY DEF Nth
  <2> HIDE DEF at, sol
  <2>4. \A i \in 1 .. k : at[i] = Step(at, i)
    BY <2>2
  <2> DEFINE Agreed == {i \in Nat : i + 1 \in 1 .. k => at[i + 1] = value(i + 1)}
  <2>5. 0 \in Agreed
    BY <2>4, <1>2, <1>4
  <2>6. ASSUME NEW m \in Nat, m # 0, m - 1 \in Agreed
        PROVE  m \in Agreed
    <3> SUFFICES ASSUME m + 1 \in 1 .. k PROVE at[m + 1] = value(m + 1)
      OBVIOUS
    <3>1. m \in 1 .. k /\ m + 1 # 1 /\ (m + 1) - 1 = m /\ (m - 1) + 1 = m
      BY <2>6
    <3>2. at[m] = value(m)
      BY <2>6, <3>1
    <3>3. at[m + 1] = IF at[m] \in Data THEN fat[at[m]] ELSE Null
      BY <2>4, <3>1
    <3>4. value(m + 1) = IF value(m) \in Data THEN fat[value(m)] ELSE Null
      BY <1>3, <3>1
    <3> QED BY <3>2, <3>3, <3>4
  <2> HIDE DEF Agreed
  <2>7. Nat \subseteq Agreed
    BY <2>5, <2>6, AllNat
  <2> USE DEF Agreed
  <2>8. k - 1 \in Agreed /\ (k - 1) + 1 = k /\ k \in 1 .. k
    BY <2>7, <1>4
  <2> QED BY <2>8, <2>3
<1>5. \A k \in 1 .. MaxSize : Nth(fat, first, k) \in Data <=> k \in 1 .. Len(s)
  <2>1. ASSUME NEW k \in 1 .. MaxSize
        PROVE  value(k) \in Data <=> k \in 1 .. Len(s)
    BY <1>1, Constants DEF value
  <2> QED BY <2>1, <1>4
<1>6. {k \in 1 .. MaxSize : Nth(fat, first, k) \in Data} = 1 .. Len(s)
  BY <1>5, <1>1, Constants
<1>7. Size(fat, first) = Len(s)
  <2>1. Cardinality(1 .. Len(s)) = Len(s)
    BY <1>1, FS_Interval
  <2> QED BY <2>1, <1>6 DEF Size
<1>8. \A k \in 1 .. Len(s) : Nth(fat, first, k) = s[k]
  BY <1>4, <1>1 DEF value
<1>9. Chain(fat, first) = s
  <2>1. Chain(fat, first) = [k \in 1 .. Len(s) |-> s[k]]
    BY <1>7, <1>8 DEF Chain
  <2>2. s = [k \in 1 .. Len(s) |-> s[k]]
    BY DEF Chained
  <2> QED BY <2>1, <2>2
<1> QED BY <1>7, <1>8, <1>9

(* To show that a chain is whole, give its clusters.                       *)
LEMMA WholeIs ==
  ASSUME NEW fat, NEW first, NEW s, Chained(fat, first, s)
  PROVE  Whole(fat, first) /\ Chain(fat, first) = s
BY ChainIs DEF Whole

(* What is known of a chain that is whole.                                 *)
LEMMA ChainFacts ==
  ASSUME NEW fat, NEW first, Whole(fat, first)
  PROVE  LET s == Chain(fat, first)
         IN  /\ s \in Seq(Data) /\ Len(s) \in 0 .. MaxSize /\ Set(s) \subseteq Data
             /\ Size(fat, first) = Len(s)
             /\ first = Null <=> s = << >>
             /\ first = Null <=> Len(s) = 0
             /\ first # Null => first \in Set(s) /\ first \in Data /\ s[Len(s)] \in Set(s)
             /\ \A c \in Set(s) : fat[c] # Free
             /\ \A k \in 1 .. Len(s) : Nth(fat, first, k) = s[k] /\ s[k] \in Set(s)
<1> DEFINE s == Chain(fat, first)
<1>1. Chained(fat, first, s)
  BY DEF Whole
<1>2. Size(fat, first) = Len(s) /\ \A k \in 1 .. Len(s) : Nth(fat, first, k) = s[k]
  BY <1>1, ChainIs
<1> HIDE DEF s
<1>3. s \in Seq(Data) /\ Len(s) \in Nat /\ Len(s) <= MaxSize /\ (s = << >> <=> Len(s) = 0)
  BY <1>1 DEF Chained
<1>4. \A k \in 1 .. Len(s) : s[k] \in Data /\ s[k] \in Set(s)
  BY <1>3 DEF Set
<1>5. Set(s) \subseteq Data
  BY <1>4 DEF Set
<1>6. CASE s = << >>
  <2>1. first = Null /\ Set(s) = {}
    BY <1>1, <1>6, EmptySet DEF Chained
  <2> QED BY <1>2, <1>3, <1>4, <1>6, <2>1, Constants DEF s
<1>7. CASE s # << >>
  <2>1. first = s[1] /\ fat[s[Len(s)]] = End /\ 1 \in 1 .. Len(s) /\ Len(s) \in 1 .. Len(s)
    BY <1>1, <1>3, <1>7 DEF Chained
  <2>2. ASSUME NEW k \in 1 .. Len(s)
        PROVE  fat[s[k]] # Free
    <3>1. CASE k = Len(s)
      BY <3>1, <2>1, Constants
    <3>2. CASE k # Len(s)
      <4>1. k \in 1 .. Len(s) - 1 /\ k + 1 \in 1 .. Len(s)
        BY <3>2, <1>3
      <4>2. fat[s[k]] = s[k + 1]
        BY <4>1, <1>1 DEF Chained
      <4> QED BY <4>1, <4>2, <1>4, Constants
    <3> QED BY <3>1, <3>2
  <2>3. \A c \in Set(s) : fat[c] # Free
    BY <2>2 DEF Set
  <2>4. first \in Set(s) /\ first \in Data /\ first # Null /\ s[Len(s)] \in Set(s)
    BY <2>1, <1>4, Constants
  <2> QED BY <1>2, <1>3, <1>4, <1>5, <1>7, <2>3, <2>4, Constants DEF s
<1> QED BY <1>6, <1>7

(* A chain stays while its own cells do.                                   *)
LEMMA ChainStable ==
  ASSUME NEW fat, NEW first, Whole(fat, first),
         NEW fat2, \A c \in Set(Chain(fat, first)) : fat2[c] = fat[c]
  PROVE  Whole(fat2, first) /\ Chain(fat2, first) = Chain(fat, first)
<1> DEFINE s == Chain(fat, first)
<1>1. Chained(fat, first, s)
  BY DEF Whole
<1>2. \A k \in 1 .. Len(s) : fat2[s[k]] = fat[s[k]]
  BY DEF Set
<1> HIDE DEF s
<1>3. Chained(fat2, first, s)
  <2>1. Len(s) \in Nat /\ (s # << >> => Len(s) \in 1 .. Len(s))
    BY <1>1 DEF Chained
  <2>2. \A i \in 1 .. Len(s) - 1 : i \in 1 .. Len(s)
    BY <2>1
  <2> QED BY <1>1, <1>2, <2>1, <2>2 DEF Chained
<1>4. Whole(fat2, first) /\ Chain(fat2, first) = s
  BY <1>3, WholeIs
<1> QED BY <1>4 DEF s

(* The chain of an empty file.                                             *)
LEMMA ChainNone ==
  ASSUME NEW fat
  PROVE  Whole(fat, Null) /\ Chain(fat, Null) = << >> /\ Set(Chain(fat, Null)) = {}
<1>1. Chained(fat, Null, << >>)
  BY Constants DEF Chained
<1> QED BY <1>1, WholeIs, EmptySet

(* The chain of a cluster just found.                                      *)
LEMMA ChainOne ==
  ASSUME NEW fat, NEW c \in Data, fat[c] = End
  PROVE  Whole(fat, c) /\ Chain(fat, c) = <<c>> /\ Set(Chain(fat, c)) = {c}
<1> DEFINE s == <<c>>
<1>1. s \in Seq(Data) /\ Len(s) = 1 /\ s[1] = c /\ s # << >>
  OBVIOUS
<1> HIDE DEF s
<1>2. Chained(fat, c, s)
  BY <1>1, Constants DEF Chained
<1>3. Set(s) = {c}
  <2>1. \A k \in 1 .. Len(s) : k = 1
    BY <1>1
  <2>2. 1 \in 1 .. Len(s)
    BY <1>1
  <2> QED BY <2>1, <2>2, <1>1 DEF Set
<1>4. Whole(fat, c) /\ Chain(fat, c) = s
  BY <1>2, WholeIs
<1> QED BY <1>3, <1>4 DEF s

(* The chain s with the cluster c after it.                                *)
Grown(fat, first, s, c) ==
  /\ Whole(fat, first) /\ Chain(fat, first) = Append(s, c)
  /\ Set(Chain(fat, first)) = Set(s) \cup {c}
  /\ Len(Chain(fat, first)) = Len(s) + 1

(* The last cell of a chain is made to lead to a new cluster.              *)
LEMMA ChainGrows ==
  ASSUME NEW fat \in [Data -> Data \cup {Free, End}], NEW first, Whole(fat, first), first # Null,
         Len(Chain(fat, first)) < MaxSize,
         NEW c \in Data, c \notin Set(Chain(fat, first)), fat[c] = End,
         NEW last, last = Chain(fat, first)[Len(Chain(fat, first))],
         NEW fat2, fat2 = [fat EXCEPT ![last] = c]
  PROVE  Grown(fat2, first, Chain(fat, first), c)
<1> DEFINE s == Chain(fat, first)
           t == Append(s, c)
<1>1. Chained(fat, first, s)
  BY DEF Whole
<1>2. s # << >> /\ last = s[Len(s)] /\ last \in Data
  BY ChainFacts
<1>3. c \notin Set(s) /\ Len(s) < MaxSize
  OBVIOUS
<1> HIDE DEF s
<1>4. /\ s \in Seq(Data) /\ Len(s) \in Nat /\ Len(s) > 0
      /\ first = s[1] /\ fat[s[Len(s)]] = End
      /\ \A i \in 1 .. Len(s) - 1 : fat[s[i]] = s[i + 1]
      /\ \A i, j \in 1 .. Len(s) : s[i] = s[j] => i = j
  BY <1>1, <1>2 DEF Chained
<1>5. /\ t \in Seq(Data) /\ Len(t) = Len(s) + 1 /\ t # << >>
      /\ \A i \in 1 .. Len(s) : t[i] = s[i]
      /\ t[Len(s) + 1] = c
  BY <1>4
<1>6. \A i \in 1 .. Len(s) : s[i] # c /\ s[i] \in Data
  BY <1>3, <1>4 DEF Set
<1> HIDE DEF t
<1>7. \A i \in 1 .. Len(t) : i \in 1 .. Len(s) \/ i = Len(s) + 1
  BY <1>4, <1>5
<1>8. first = t[1] /\ fat2[t[Len(t)]] = End
  <2>1. t[1] = s[1]
    BY <1>4, <1>5
  <2>2. c # last
    BY <1>2, <1>4, <1>6
  <2>3. fat2[c] = fat[c]
    BY <2>2, <1>2
  <2> QED BY <2>1, <2>3, <1>4, <1>5
<1>9. ASSUME NEW i \in 1 .. Len(t) - 1
      PROVE  fat2[t[i]] = t[i + 1]
  <2>1. i \in 1 .. Len(s) /\ t[i] = s[i]
    BY <1>4, <1>5
  <2>2. CASE i = Len(s)
    <3>1. fat2[last] = c
      BY <1>2
    <3> QED BY <3>1, <2>1, <2>2, <1>2, <1>5
  <2>3. CASE i # Len(s)
    <3>1. i \in 1 .. Len(s) - 1 /\ i + 1 \in 1 .. Len(s) /\ Len(s) \in 1 .. Len(s)
      BY <2>1, <2>3, <1>4
    <3>2. s[i] # last
      BY <1>2, <1>4, <2>1, <2>3, <3>1
    <3>3. fat2[s[i]] = fat[s[i]]
      BY <3>2, <1>6, <2>1
    <3> QED BY <3>1, <3>3, <2>1, <1>4, <1>5
  <2> QED BY <2>2, <2>3
<1>10. \A i, j \in 1 .. Len(t) : t[i] = t[j] => i = j
  <2> SUFFICES ASSUME NEW i \in 1 .. Len(t), NEW j \in 1 .. Len(t), t[i] = t[j]
               PROVE  i = j
    OBVIOUS
  <2>1. CASE i \in 1 .. Len(s) /\ j \in 1 .. Len(s)
    <3>1. s[i] = s[j]
      BY <2>1, <1>5
    <3> QED BY <3>1, <2>1, <1>4
  <2>2. CASE i = Len(s) + 1 /\ j \in 1 .. Len(s)
    BY <2>2, <1>5, <1>6
  <2>3. CASE j = Len(s) + 1 /\ i \in 1 .. Len(s)
    BY <2>3, <1>5, <1>6
  <2> QED BY <2>1, <2>2, <2>3, <1>7
<1>11. Chained(fat2, first, t)
  <2>1. Len(t) <= MaxSize
    BY <1>3, <1>4, <1>5, Constants
  <2> QED BY <2>1, <1>5, <1>8, <1>9, <1>10 DEF Chained
<1>12. Whole(fat2, first) /\ Chain(fat2, first) = t
  BY <1>11, WholeIs
<1>13. Set(t) = Set(s) \cup {c}
  BY <1>4, AppendSet DEF t
<1> QED BY <1>5, <1>12, <1>13 DEF s, t, Grown

(* The first cluster of a chain is freed.                                  *)
LEMMA ChainShrinks ==
  ASSUME NEW fat \in [Data -> Data \cup {Free, End}], NEW c \in Data, Whole(fat, c),
         NEW fat2, fat2 = [fat EXCEPT ![c] = Free]
  PROVE  /\ c \in Set(Chain(fat, c))
         /\ fat[c] \in Data =>
              /\ Whole(fat2, fat[c])
              /\ Set(Chain(fat2, fat[c])) \subseteq Set(Chain(fat, c)) \ {c}
<1> DEFINE s == Chain(fat, c)
           t == Tail(s)
<1>1. Chained(fat, c, s)
  BY DEF Whole
<1>2. s # << >> /\ c \in Set(s)
  BY ChainFacts, Constants
<1> HIDE DEF s
<1>3. /\ s \in Seq(Data) /\ Len(s) \in Nat /\ Len(s) > 0
      /\ c = s[1] /\ fat[s[Len(s)]] = End /\ Len(s) <= MaxSize
      /\ \A i \in 1 .. Len(s) - 1 : fat[s[i]] = s[i + 1]
      /\ \A i, j \in 1 .. Len(s) : s[i] = s[j] => i = j
  BY <1>1, <1>2 DEF Chained
<1>4. /\ t \in Seq(Data) /\ Len(t) = Len(s) - 1
      /\ \A i \in 1 .. Len(t) : t[i] = s[i + 1]
  BY <1>2, <1>3, HeadTailProperties
<1> HIDE DEF t
<1>5. ASSUME fat[c] \in Data
      PROVE  Whole(fat2, fat[c]) /\ Set(Chain(fat2, fat[c])) \subseteq Set(s) \ {c}
  <2>1. Len(s) > 1
    <3>1. Len(s) = 1 => fat[c] = End
      BY <1>3
    <3> QED BY <3>1, <1>3, <1>5, Constants
  <2>2. \A i \in 1 .. Len(t) : i + 1 \in 1 .. Len(s) /\ t[i] \in Data /\ t[i] # c /\ t[i] \in Set(s)
    <3> SUFFICES ASSUME NEW i \in 1 .. Len(t)
                 PROVE  i + 1 \in 1 .. Len(s) /\ t[i] \in Data /\ t[i] # c /\ t[i] \in Set(s)
      OBVIOUS
    <3>1. i + 1 \in 1 .. Len(s) /\ 1 \in 1 .. Len(s) /\ i + 1 # 1
      BY <1>3, <1>4
    <3>2. t[i] = s[i + 1] /\ s[i + 1] # s[1]
      BY <3>1, <1>3, <1>4
    <3> QED BY <3>1, <3>2, <1>3 DEF Set
  <2>3. \A d \in Data : d # c => fat2[d] = fat[d]
    OBVIOUS
  <2>4. fat[c] = t[1] /\ 1 \in 1 .. Len(t)
    <3>1. 1 \in 1 .. Len(s) - 1 /\ 1 \in 1 .. Len(t)
      BY <2>1, <1>3, <1>4
    <3>2. fat[s[1]] = s[2] /\ t[1] = s[2]
      BY <3>1, <1>3, <1>4
    <3> QED BY <3>1, <3>2, <1>3
  <2>5. fat2[t[Len(t)]] = End
    <3>1. Len(t) \in 1 .. Len(t) /\ t[Len(t)] = s[Len(s)]
      BY <2>1, <1>3, <1>4
    <3> QED BY <3>1, <2>2, <2>3, <1>3
  <2>6. ASSUME NEW i \in 1 .. Len(t) - 1
        PROVE  fat2[t[i]] = t[i + 1]
    <3>1. i \in 1 .. Len(t) /\ i + 1 \in 1 .. Len(t) /\ i + 1 \in 1 .. Len(s) - 1
      BY <1>3, <1>4
    <3>2. fat[s[i + 1]] = s[(i + 1) + 1]
      BY <3>1, <1>3
    <3>3. t[i] = s[i + 1] /\ t[i + 1] = s[(i + 1) + 1]
      BY <3>1, <1>4
    <3> QED BY <3>1, <3>2, <3>3, <2>2, <2>3
  <2>7. \A i, j \in 1 .. Len(t) : t[i] = t[j] => i = j
    <3> SUFFICES ASSUME NEW i \in 1 .. Len(t), NEW j \in 1 .. Len(t), t[i] = t[j]
                 PROVE  i = j
      OBVIOUS
    <3>1. s[i + 1] = s[j + 1] /\ i + 1 \in 1 .. Len(s) /\ j + 1 \in 1 .. Len(s)
      BY <1>4, <2>2
    <3>2. i + 1 = j + 1
      BY <3>1, <1>3
    <3> QED BY <3>2
  <2>8. t # << >> /\ Len(t) <= MaxSize
    BY <2>1, <1>3, <1>4, Constants
  <2>9. Chained(fat2, fat[c], t)
    BY <2>4, <2>5, <2>6, <2>7, <2>8, <1>4 DEF Chained
  <2>10. Set(t) \subseteq Set(s) \ {c}
    BY <2>2 DEF Set
  <2> QED BY <2>9, <2>10, WholeIs
<1> QED BY <1>2, <1>5 DEF s
-----------------------------------------------------------------------------
(* Images and what has changed in them                                     *)

(* The types of an image.                                                  *)
LEMMA ImageTypes ==
  ASSUME NEW m \in Image
  PROVE  /\ m.entry \in [Files -> Entry] /\ m.fat \in [Data -> Data \cup {Free, End}]
         /\ m.data \in [Data -> Content]
         /\ \A f \in Files : /\ m.entry[f] \in Entry
                             /\ m.entry[f].exists \in BOOLEAN /\ m.entry[f].closed \in BOOLEAN
                             /\ m.entry[f].first \in Data \cup {Null}
BY DEF Image, Entry

(* The entry of no file.                                                   *)
LEMMA GoneTypes ==
  /\ Gone \in Entry /\ Gone.exists = FALSE /\ Gone.closed = FALSE
  /\ [Gone EXCEPT !.exists = TRUE] \in Entry
<1>1. << >> \in [1 .. 0 -> Content] /\ 0 \in 0 .. MaxSize
  BY Constants
<1>2. << >> \in UNION {[1 .. n -> Content] : n \in 0 .. MaxSize}
  BY <1>1
<1>3. ASSUME NEW b \in BOOLEAN, NEW h, h \in UNION {[1 .. n -> Content] : n \in 0 .. MaxSize}
      PROVE  [exists |-> b, closed |-> FALSE, first |-> Null, holds |-> h] \in Entry
  BY <1>3 DEF Entry
<1>4. Gone \in Entry /\ [exists |-> TRUE, closed |-> FALSE, first |-> Null, holds |-> << >>] \in Entry
  BY <1>2, <1>3 DEF Gone
<1>5. [Gone EXCEPT !.exists = TRUE] \in Entry
  BY <1>4 DEF Entry
<1>6. Gone.exists = FALSE /\ Gone.closed = FALSE
  BY DEF Gone
<1> QED BY <1>4, <1>5, <1>6

EntryChanged(n, m, f, e) ==
  /\ n \in Image /\ n.fat = m.fat /\ n.data = m.data /\ n.entry[f] = e
  /\ \A g \in Files \ {f} : n.entry[g] = m.entry[g]

(* A change of one entry ...                                               *)
LEMMA SetEntry ==
  ASSUME NEW m \in Image, NEW f \in Files, NEW e \in Entry,
         NEW n, n = [m EXCEPT !.entry[f] = e]
  PROVE  EntryChanged(n, m, f, e)
BY DEF Image, EntryChanged

FatChanged(n, m, c, x) ==
  /\ n \in Image /\ n.entry = m.entry /\ n.data = m.data
  /\ n.fat = [m.fat EXCEPT ![c] = x] /\ n.fat[c] = x
  /\ \A d \in Data \ {c} : n.fat[d] = m.fat[d]

(* ... of one cell of the FAT ...                                          *)
LEMMA SetFat ==
  ASSUME NEW m \in Image, NEW c \in Data, NEW x \in Data \cup {Free, End},
         NEW n, n = [m EXCEPT !.fat[c] = x]
  PROVE  FatChanged(n, m, c, x)
BY DEF Image, FatChanged

(* ... and of the data of one cluster.                                     *)
LEMMA SetData ==
  ASSUME NEW m \in Image, NEW c \in Data, NEW x \in Content,
         NEW n, n = [m EXCEPT !.data[c] = x]
  PROVE  /\ n \in Image /\ n.entry = m.entry /\ n.fat = m.fat
         /\ \A d \in Data \ {c} : n.data[d] = m.data[d]
BY DEF Image

(* A cluster used now is written last, and the others in their order.      *)
LEMMA UsedFacts ==
  ASSUME TypeOK, NEW u \in Files \cup Fats \cup Data
  PROVE  /\ Used(u) \in Seq(Files \cup Fats \cup Data) /\ Used(u) # << >>
         /\ Set(Used(u)) = Set(dirty) \cup {u}
         /\ dirty = << >> => Head(Used(u)) = u
         /\ dirty # << >> /\ Head(dirty) # u => Head(Used(u)) = Head(dirty)
<1> DEFINE T == Files \cup Fats \cup Data
           w == Without(dirty, {u})
<1>1. dirty \in Seq(T) /\ u \in T
  BY DEF TypeOK
<1>2. /\ w \in Seq(T) /\ Set(w) = Set(dirty) \ {u}
      /\ dirty # << >> /\ Head(dirty) \notin {u} => w # << >> /\ Head(w) = Head(dirty)
  BY <1>1, WithoutFacts
<1> HIDE DEF w, T
<1>3. Append(w, u) \in Seq(T) /\ Append(w, u) # << >> /\ Set(Append(w, u)) = Set(w) \cup {u}
  BY <1>1, <1>2, AppendSet
<1>4. Head(Append(w, u)) = IF w = << >> THEN u ELSE Head(w)
  BY <1>1, <1>2
<1>5. dirty = << >> => w = << >>
  BY <1>2, EmptySet
<1> QED BY <1>2, <1>3, <1>4, <1>5 DEF Used, T, w

(* A change of the cluster u, and of no other, is noted.                   *)
LEMMA DirtyGrows ==
  ASSUME TypeOK, DirtyOK, NEW u \in Files \cup Fats \cup Data, dirty' = Used(u), card' = card,
         \A f \in Files : f # u => mem'.entry[f] = mem.entry[f],
         \A c \in Data : FatOf[c] # u => mem'.fat[c] = mem.fat[c],
         \A c \in Data : c # u => mem'.data[c] = mem.data[c]
  PROVE  DirtyOK'
<1>1. Set(dirty') = Set(dirty) \cup {u}
  BY UsedFacts
<1> QED BY <1>1 DEF DirtyOK

(* Without a change, only the order may be another.                        *)
LEMMA DirtyStays ==
  ASSUME DirtyOK, Set(dirty') = Set(dirty), mem' = mem, card' = card
  PROVE  DirtyOK'
BY DEF DirtyOK

(* When nothing is left to be written, the card is as the cache has it.    *)
LEMMA AllWritten ==
  ASSUME TypeOK, DirtyOK, dirty = << >>
  PROVE  /\ \A f \in Files : mem.entry[f] = card.entry[f]
         /\ \A c \in Data : mem.fat[c] = card.fat[c] /\ mem.data[c] = card.data[c]
BY EmptySet DEF DirtyOK
-----------------------------------------------------------------------------
(* What a step leaves alone                                                *)

Untouched(g) ==
  /\ mem'.entry[g] = mem.entry[g] /\ fh'[g] = fh[g] /\ (g \in torn' <=> g \in torn)
  /\ Live(g) => \A c \in Set(FileChain(g)) :
                   mem'.fat[c] = mem.fat[c] /\ mem'.data[c] = mem.data[c]

(* A file of which no entry, cell or data change stays as it is.           *)
LEMMA ChainStays ==
  ASSUME NEW g \in Files, Whole(mem.fat, mem.entry[g].first),
         mem'.entry[g].first = mem.entry[g].first,
         \A c \in Set(FileChain(g)) : mem'.fat[c] = mem.fat[c]
  PROVE  Whole(mem.fat, mem.entry[g].first)' /\ FileChain(g)' = FileChain(g)
<1>1. PICK first : first = mem.entry[g].first
  OBVIOUS
<1>2. PICK fat2 : fat2 = mem'.fat
  OBVIOUS
<1>3. PICK fat : fat = mem.fat
  OBVIOUS
<1>4. Whole(fat, first) /\ \A c \in Set(Chain(fat, first)) : fat2[c] = fat[c]
  BY <1>1, <1>2, <1>3 DEF FileChain, ChainOn
<1>5. Whole(fat2, first) /\ Chain(fat2, first) = Chain(fat, first)
  BY <1>4, ChainStable
<1> QED BY <1>1, <1>2, <1>3, <1>5 DEF FileChain, ChainOn

(* Its data too.                                                           *)
LEMMA HoldingStays ==
  ASSUME NEW g \in Files, Whole(mem.fat, mem.entry[g].first), FileChain(g)' = FileChain(g),
         \A c \in Set(FileChain(g)) : mem'.data[c] = mem.data[c]
  PROVE  Holding(g)' = Holding(g)
<1>1. FileChain(g) \in Seq(Data) /\ \A k \in 1 .. Len(FileChain(g)) : FileChain(g)[k] \in Set(FileChain(g))
  BY ChainFacts DEF FileChain, ChainOn
<1>2. \A k \in DOMAIN FileChain(g) : mem'.data[FileChain(g)[k]] = mem.data[FileChain(g)[k]]
  BY <1>1
<1> QED BY <1>2 DEF Holding

(* What is known of such a file stays known.                               *)
LEMMA Stays ==
  ASSUME NEW g \in Files, FileOK(g), card' = card, Untouched(g)
  PROVE  /\ FileOK(g)' /\ (Live(g)' <=> Live(g)) /\ (Closed(g)' <=> Closed(g))
         /\ Live(g) => FileChain(g)' = FileChain(g)
         /\ Live(g) /\ Kept(g) => Kept(g)'
         /\ Ready(g) => Ready(g)'
<1>1. (Live(g)' <=> Live(g)) /\ (Closed(g)' <=> Closed(g)) /\ (Ready(g) => Ready(g)')
  BY DEF Untouched, Live, Closed, Ready, HasFirst, Opened
<1>2. CASE ~Live(g)
  BY <1>1, <1>2 DEF FileOK, Untouched
<1>3. CASE Live(g)
  <2>1. /\ \A c \in Set(FileChain(g)) : mem'.fat[c] = mem.fat[c] /\ mem'.data[c] = mem.data[c]
        /\ Whole(mem.fat, mem.entry[g].first) /\ mem'.entry[g] = mem.entry[g]
        /\ fh'[g] = fh[g]
    BY <1>3 DEF Untouched, FileOK
  <2>2. Whole(mem.fat, mem.entry[g].first)' /\ FileChain(g)' = FileChain(g)
    BY <2>1, ChainStays
  <2>3. Holding(g)' = Holding(g)
    BY <2>1, <2>2, HoldingStays
  <2>4. Same(g) => Same(g)'
    BY <2>1, <2>2 DEF Same
  <2>5. FileOK(g)'
    BY <1>1, <1>3, <2>1, <2>2, <2>3, <2>4 DEF FileOK
  <2>6. Kept(g) => Kept(g)'
    BY <2>1, <2>3, <2>4 DEF Kept
  <2> QED BY <1>1, <2>2, <2>5, <2>6
<1> QED BY <1>2, <1>3

(* But during a deletion, and when all is written, the card has no file    *)
(* that is not in the cache.                                               *)
LEMMA NotEnding ==
  ASSUME OInv, \/ todo = << >> \/ Head(todo).do \notin {"release", "flush"} \/ dirty = << >>
  PROVE  \A g \in Files : /\ Closed(g) => Kept(g) /\ Live(g)
                          /\ card.entry[g].exists => mem.entry[g].exists
<1> SUFFICES ASSUME NEW g \in Files
             PROVE  /\ Closed(g) => Kept(g) /\ Live(g)
                    /\ card.entry[g].exists => mem.entry[g].exists
  OBVIOUS
<1>1. CardOK(g) /\ TypeOK /\ DirtyOK
  BY DEF OInv
<1>2. dirty # << >> => ~Ending(g)
  BY DEF Ending
<1>3. dirty = << >> => mem.entry[g] = card.entry[g]
  BY <1>1, AllWritten
<1>4. Closed(g) => Kept(g)
  BY <1>1, <1>2 DEF CardOK, Leaving
<1>5. Closed(g) => Live(g)
  BY <1>4 DEF Closed, Kept, Live
<1>6. card.entry[g].exists => mem.entry[g].exists
  BY <1>1, <1>2, <1>3 DEF CardOK
<1> QED BY <1>4, <1>5, <1>6

(* A step of a call on f, or that begins or ends one, which leaves the     *)
(* other files alone.                                                      *)
LEMMA FitsAround ==
  ASSUME OInv, NEW f \in Files, card' = card, TypeOK', DirtyOK',
         \/ todo = << >> \/ Head(todo).do \notin {"release", "flush"} \/ dirty = << >>,
         todo = << >> \/ Head(todo).file = f,
         \A g \in Files \ {f} : Untouched(g),
         FileOK(f)', CardOK(f)', AtRest(f)' => Ready(f)',
         \A g \in Files \ {f} :
           Live(g) /\ Live(f)' => Set(FileChain(g)) \cap Set(FileChain(f)') = {},
         todo' = << >> \/ InCall(f)'
  PROVE  OInv'
<1>1. ASSUME NEW g \in Files \ {f}
      PROVE  /\ FileOK(g)' /\ CardOK(g)' /\ Ready(g)'
             /\ Live(g)' <=> Live(g)
             /\ Live(g) => FileChain(g)' = FileChain(g)
  <2>1. Untouched(g) /\ FileOK(g) /\ (AtRest(g) => Ready(g))
    BY <1>1 DEF OInv
  <2>2. /\ FileOK(g)' /\ (Live(g)' <=> Live(g)) /\ (Closed(g)' <=> Closed(g))
        /\ Live(g) => FileChain(g)' = FileChain(g)
        /\ Live(g) /\ Kept(g) => Kept(g)'
        /\ Ready(g) => Ready(g)'
    BY <2>1, Stays
  <2>3. AtRest(g)
    BY <1>1 DEF AtRest
  <2>4. (Closed(g) => Kept(g) /\ Live(g)) /\ (card.entry[g].exists => mem.entry[g].exists)
    BY NotEnding
  <2>5. CardOK(g)'
    BY <2>1, <2>2, <2>4 DEF CardOK, Untouched
  <2> QED BY <2>1, <2>2, <2>3, <2>5
<1>2. \A g \in Files : FileOK(g)' /\ CardOK(g)' /\ (AtRest(g)' => Ready(g)')
  BY <1>1
<1>3. ASSUME NEW g \in Files, NEW h \in Files
      PROVE  Apart(g, h)'
  <2>1. Apart(g, h)
    BY DEF OInv
  <2>2. CASE g # f /\ h # f
    BY <1>1, <2>1, <2>2 DEF Apart
  <2>3. CASE g = f /\ h # f
    <3>1. Live(h) /\ Live(f)' => Set(FileChain(h)) \cap Set(FileChain(f)') = {}
      BY <2>3
    <3>2. (Live(h)' <=> Live(h)) /\ (Live(h) => FileChain(h)' = FileChain(h))
      BY <1>1, <2>3
    <3> QED BY <3>1, <3>2, <2>3 DEF Apart
  <2>4. CASE h = f /\ g # f
    <3>1. Live(g) /\ Live(f)' => Set(FileChain(g)) \cap Set(FileChain(f)') = {}
      BY <2>4
    <3>2. (Live(g)' <=> Live(g)) /\ (Live(g) => FileChain(g)' = FileChain(g))
      BY <1>1, <2>4
    <3> QED BY <3>1, <3>2, <2>4 DEF Apart
  <2>5. CASE g = f /\ h = f
    BY <2>5 DEF Apart
  <2> QED BY <2>2, <2>3, <2>4, <2>5
<1> QED BY <1>2, <1>3 DEF OInv

(* ... and f too, but for its handle and the step of the call.             *)
LEMMA FitsAlone ==
  ASSUME OInv, NEW f \in Files, card' = card, TypeOK', DirtyOK',
         \/ todo = << >> \/ Head(todo).do \notin {"release", "flush"} \/ dirty = << >>,
         todo = << >> \/ Head(todo).file = f,
         \A g \in Files \ {f} : Untouched(g),
         mem'.entry[f] = mem.entry[f], f \in torn' <=> f \in torn,
         Live(f) => \A c \in Set(FileChain(f)) :
                      mem'.fat[c] = mem.fat[c] /\ mem'.data[c] = mem.data[c],
         fh'[f].marked => fh'[f].open, fh'[f].open => Live(f),
         AtRest(f)' => Ready(f)',
         todo' = << >> \/ InCall(f)'
  PROVE  OInv'
<1>1. FileOK(f) /\ CardOK(f)
  BY DEF OInv
<1>2. (Closed(f) => Kept(f) /\ Live(f)) /\ (card.entry[f].exists => mem.entry[f].exists)
  BY NotEnding
<1>3. (Live(f)' <=> Live(f)) /\ (Closed(f)' <=> Closed(f))
  BY DEF Live, Closed
<1>4. CASE Live(f)
  <2>1. Whole(mem.fat, mem.entry[f].first)
    BY <1>1, <1>4 DEF FileOK
  <2>2. Whole(mem.fat, mem.entry[f].first)' /\ FileChain(f)' = FileChain(f)
    BY <1>4, <2>1, ChainStays
  <2>3. Holding(f)' = Holding(f)
    BY <1>4, <2>1, <2>2, HoldingStays
  <2>4. Same(f) => Same(f)'
    BY <1>4, <2>2 DEF Same
  <2>5. FileOK(f)'
    BY <1>1, <1>3, <1>4, <2>2, <2>3, <2>4 DEF FileOK
  <2>6. CardOK(f)'
    BY <1>2, <1>3, <1>4, <2>3, <2>4 DEF CardOK, Kept
  <2>7. ASSUME NEW g \in Files \ {f}, Live(g)
        PROVE  Set(FileChain(g)) \cap Set(FileChain(f)') = {}
    <3>1. Apart(g, f)
      BY DEF OInv
    <3> QED BY <3>1, <2>7, <2>2, <1>4 DEF Apart
  <2> QED BY <2>5, <2>6, <2>7, FitsAround
<1>5. CASE ~Live(f)
  <2>1. FileOK(f)'
    BY <1>3, <1>5 DEF FileOK
  <2>2. CardOK(f)'
    BY <1>2, <1>3, <1>5 DEF CardOK
  <2> QED BY <1>3, <1>5, <2>1, <2>2, FitsAround
<1> QED BY <1>4, <1>5

(* A step of a call on f that leaves f torn: the files that are torn after *)
(* it are given up, and the others must be as they were.                   *)
LEMMA FitsTorn ==
  ASSUME OInv, NEW f \in Files, card' = card, TypeOK', DirtyOK',
         todo = << >> \/ (Head(todo).file = f /\ f \in torn),
         f \in torn', torn \subseteq torn',
         \A g \in Files : g \notin torn' => Untouched(g),
         \A g \in Files \ {f} : mem'.entry[g] = mem.entry[g] /\ fh'[g] = fh[g],
         fh'[f].marked => fh'[f].open,
         card.entry[f].exists /\ ~mem'.entry[f].exists => Ending(f)',
         todo' = << >> \/ InCall(f)'
  PROVE  OInv'
<1>1. ASSUME NEW g \in Files, g \notin torn'
      PROVE  /\ FileOK(g)' /\ CardOK(g)' /\ Ready(g)'
             /\ Live(g)' <=> Live(g)
             /\ Live(g) => FileChain(g)' = FileChain(g)
  <2>1. g # f /\ g \notin torn /\ Untouched(g) /\ FileOK(g) /\ CardOK(g) /\ (AtRest(g) => Ready(g))
    BY <1>1 DEF OInv
  <2>2. AtRest(g) /\ ~Ending(g)
    BY <2>1 DEF AtRest, Ending
  <2>3. /\ FileOK(g)' /\ (Live(g)' <=> Live(g)) /\ (Closed(g)' <=> Closed(g))
        /\ Live(g) => FileChain(g)' = FileChain(g)
        /\ Live(g) /\ Kept(g) => Kept(g)'
        /\ Ready(g) => Ready(g)'
    BY <2>1, Stays
  <2>4. Closed(g) => Kept(g) /\ Live(g)
    BY <2>1, <2>2 DEF CardOK, Leaving, Closed, Kept, Live
  <2>5. CardOK(g)'
    BY <2>1, <2>2, <2>3, <2>4 DEF CardOK, Untouched
  <2> QED BY <2>1, <2>2, <2>3, <2>5
<1>2. ASSUME NEW g \in Files, g \in torn'
      PROVE  FileOK(g)' /\ CardOK(g)' /\ Ready(g)' /\ ~Live(g)'
  <2>1. ~Live(g)' /\ ~Closed(g)'
    BY <1>2 DEF Live, Closed
  <2>2. FileOK(g) /\ CardOK(g)
    BY DEF OInv
  <2>3. fh'[g].marked => fh'[g].open
    BY <2>2 DEF FileOK
  <2>4. FileOK(g)' /\ Ready(g)'
    BY <1>2, <2>1, <2>3 DEF FileOK, Ready
  <2>5. g # f => ~Ending(g)
    BY DEF Ending
  <2>6. CardOK(g)'
    BY <2>1, <2>2, <2>5 DEF CardOK
  <2> QED BY <2>1, <2>4, <2>6
<1>3. \A g \in Files : FileOK(g)' /\ CardOK(g)' /\ (AtRest(g)' => Ready(g)')
  BY <1>1, <1>2
<1>4. ASSUME NEW g \in Files, NEW h \in Files
      PROVE  Apart(g, h)'
  <2>1. Apart(g, h)
    BY DEF OInv
  <2>2. CASE g \notin torn' /\ h \notin torn'
    BY <1>1, <2>1, <2>2 DEF Apart
  <2>3. CASE g \in torn' \/ h \in torn'
    BY <1>2, <2>3 DEF Apart
  <2> QED BY <2>2, <2>3
<1> QED BY <1>3, <1>4 DEF OInv

(* Loose clusters stay loose.                                              *)
LEMMA LooseStays ==
  ASSUME NEW first, Loose(first),
         \A c \in Set(Chain(mem.fat, first)) : mem'.fat[c] = mem.fat[c],
         \A g \in Files : Live(g)' => Live(g) /\ FileChain(g)' = FileChain(g)
  PROVE  Loose(first)'
<1>1. PICK fat : fat = mem.fat
  OBVIOUS
<1>2. PICK fat2 : fat2 = mem'.fat
  OBVIOUS
<1>3. Whole(fat2, first) /\ Chain(fat2, first) = Chain(fat, first)
  BY <1>1, <1>2, ChainStable DEF Loose
<1> QED BY <1>1, <1>2, <1>3 DEF Loose
-----------------------------------------------------------------------------
(* The calls                                                               *)

(* A step of a call.                                                       *)
Item == [do : Steps, file : Files, at : Nat \cup Data \cup {Null}]

(* A write reserves a cluster first, or fills one.                         *)
LEMMA WorkHead ==
  ASSUME NEW t, NEW f, NEW chain, Work(t, f, chain)
  PROVE  t # << >> /\ Head(t).file = f /\ Head(t).do \in {"put", "reserve"}
BY DEF Work, Putting, Do, DoAt

(* The types of the rest of a call.                                        *)
LEMMA TodoTypes ==
  ASSUME TypeOK
  PROVE  todo \in Seq(Item) /\ (todo # << >> => Tail(todo) \in Seq(Item) /\ Head(todo) \in Item)
<1>1. todo \in Seq(Item)
  BY DEF TypeOK, Item
<1> QED BY <1>1, HeadTailProperties

(* The step that each part of a call does next.                            *)
LEMMA Heads ==
  ASSUME NEW f
  PROVE  /\ InCall(f) => todo # << >> /\ Head(todo).file = f
         /\ Ended(f) => Head(todo).do = "flush"
         /\ Sealed(f) => Head(todo).do = "flush" \/ Head(todo).do = "mark"
         /\ Unsealing(f) => Head(todo).do = "mark"
         /\ Unsealed(f) => Head(todo).do = "flush"
         /\ Working(f) => Head(todo).do = "put" \/ Head(todo).do = "reserve"
         /\ Begins(f) => Head(todo).do = "mark"
         /\ Begun(f) => Head(todo).do = "again"
         /\ Links(f) => Head(todo).do = "link"
         /\ Linked(f) => Head(todo).do = "again"
         /\ PutDone(f) => Head(todo).do = "mark"
         /\ Leaves(f) => Head(todo).do = "unname"
         /\ Frees(f) => Head(todo).do = "release"
         /\ InCall(f) /\ f \in torn => Strays(f)
<1> DEFINE At(step) == todo # << >> /\ Head(todo).file = f /\ Head(todo).do = step
<1>1. Ended(f) => At("flush")
  BY DEF Ended, Do
<1>2. Sealed(f) => At("flush") \/ At("mark")
  BY DEF Sealed, Do
<1>3. Unsealing(f) => At("mark")
  BY DEF Unsealing, Do
<1>4. Unsealed(f) => At("flush")
  BY DEF Unsealed, Do
<1>5. Working(f) => At("put") \/ At("reserve")
  BY WorkHead DEF Working
<1>6. Begins(f) => At("mark")
  BY DEF Begins, Starting, Do
<1>7. Begun(f) => At("again")
  BY DEF Begun, Do
<1>8. Links(f) => At("link")
  BY DEF Links, Linking, DoAt
<1>9. Linked(f) => At("again")
  BY DEF Linked, Do
<1>10. PutDone(f) => At("mark")
  BY DEF PutDone, Do
<1>11. Leaves(f) => At("unname")
  BY DEF Leaves, Do
<1>12. Frees(f) => At("release")
  BY DEF Frees, DoAt
<1>13. Strays(f) => todo # << >> /\ Head(todo).file = f
  <2>1. Straying(f) => todo # << >> /\ Head(todo).file = f
    BY DEF Straying
  <2>2. StrayLeaves(f) => At("unname")
    BY DEF StrayLeaves, Do, DoAt
  <2>3. StrayFrees(f) => At("release")
    BY DEF StrayFrees, DoAt
  <2> QED BY <2>1, <2>2, <2>3 DEF Strays
<1>14. Ended(f) => Straying(f)
  <2> SUFFICES ASSUME todo = <<Do("flush", f)>> PROVE Straying(f)
    BY DEF Ended
  <2>1. todo # << >> /\ Len(todo) = 1 /\ todo[1] = Do("flush", f) /\ Head(todo) = Do("flush", f)
    OBVIOUS
  <2> QED BY <2>1 DEF Straying, Orderly, Do
<1>15. InCall(f) /\ f \in torn => Strays(f)
  BY <1>14 DEF InCall, Strays, Sealed, Unsealing, Unsealed, Working, Begins, Begun, Links, Linked,
     PutDone, Leaves, Frees, Writer, Live
<1> QED
  BY <1>1, <1>2, <1>3, <1>4, <1>5, <1>6, <1>7, <1>8, <1>9, <1>10, <1>11, <1>12, <1>13, <1>15
     DEF InCall

(* A file that a call is at work on is not at rest, after a step.          *)
LEMMA InCallNext ==
  ASSUME NEW f
  PROVE  InCall(f)' => ~AtRest(f)'
<1>1. InCall(f) => ~AtRest(f)
  BY Heads DEF AtRest
<1> QED BY <1>1, PTL

(* The file that the call in progress is at work on.                       *)
LEMMA CallOf ==
  ASSUME OInv, todo # << >>
  PROVE  \E f \in Files : /\ InCall(f) /\ Head(todo).file = f
                          /\ FileOK(f) /\ CardOK(f)
                          /\ f \in torn => Strays(f)
<1>1. PICK f \in Files : InCall(f)
  BY DEF OInv
<1> QED BY <1>1, Heads DEF OInv

(* Chains are those of memory.                                             *)
LEMMA ChainsAgree ==
  ASSUME mem' = mem
  PROVE  \A f : FileChain(f)' = FileChain(f)
BY DEF FileChain, ChainOn

(* Flush: what was to be written is on the card.                           *)
LEMMA FlushFits == OInv /\ Flush /\ Head(todo).file \notin torn => OInv'
<1> SUFFICES ASSUME OInv, Flush, Head(todo).file \notin torn PROVE OInv'
  OBVIOUS
<1>1. PICK f \in Files : InCall(f) /\ Head(todo).file = f /\ FileOK(f) /\ CardOK(f)
  BY CallOf DEF Flush, Doing
<1>2. /\ todo # << >> /\ Head(todo).do = "flush" /\ dirty = << >> /\ todo' = Tail(todo)
      /\ mem' = mem /\ card' = card /\ dirty' = dirty /\ fh' = fh /\ torn' = torn
  BY DEF Flush, Doing, Flushed
<1>3. TypeOK' /\ DirtyOK' /\ TypeOK
  <2>1. TypeOK /\ DirtyOK
    BY DEF OInv
  <2>2. DirtyOK'
    BY <2>1, <1>2, DirtyStays
  <2>3. todo' \in Seq(Item)
    BY <2>1, <1>2, TodoTypes
  <2> QED BY <2>1, <2>2, <2>3, <1>2 DEF TypeOK, Item
<1>4. Ended(f) \/ Sealed(f) \/ Unsealed(f)
  BY <1>1, <1>2, Heads DEF InCall, Strays
<1>5. FileChain(f)' = FileChain(f)
  BY <1>2, ChainsAgree
<1>6. (todo' = << >> /\ Ready(f)') \/ InCall(f)'
  <2>1. CASE Ended(f)
    <3>1. todo' = << >>
      BY <1>2, <2>1 DEF Ended
    <3> QED BY <3>1, <1>2, <2>1 DEF Ended, Ready, HasFirst, Opened
  <2>2. CASE Sealed(f)
    <3>1. todo' = <<Do("mark", f), Do("flush", f)>>
      <4>1. Head(<<Do("mark", f), Do("flush", f)>>).do = "mark"
        BY DEF Do
      <4>2. todo = <<Do("flush", f), Do("mark", f), Do("flush", f)>>
        BY <4>1, <1>2, <2>2 DEF Sealed
      <4> QED BY <4>2, <1>2
    <3>2. Sealed(f)'
      BY <1>2, <2>2, <3>1 DEF Sealed, Live, HasFirst
    <3> QED BY <3>2 DEF InCall
  <2>3. CASE Unsealed(f)
    <3>1. Opened(f)'
      <4>1. mem.entry[f] = card.entry[f]
        BY <1>2, <1>3, AllWritten DEF OInv
      <4> QED BY <4>1, <1>2, <2>3 DEF Unsealed, Opened
    <3>2. Writer(f)'
      BY <1>2, <2>3 DEF Unsealed, Writer, Live, HasFirst
    <3>3. Work(todo, f, FileChain(f))'
      BY <1>2, <1>5, <2>3 DEF Unsealed
    <3> QED BY <3>1, <3>2, <3>3 DEF InCall, Working
  <2> QED BY <1>4, <2>1, <2>2, <2>3
<1>8. \A g \in Files : Untouched(g)
  BY <1>2 DEF Untouched
<1>9. (fh'[f].marked => fh'[f].open) /\ (fh'[f].open => Live(f))
  BY <1>1, <1>2 DEF FileOK
<1>10. (AtRest(f)' => Ready(f)') /\ (todo' = << >> \/ InCall(f)')
  BY <1>6, InCallNext
<1> QED BY <1>1, <1>2, <1>3, <1>8, <1>9, <1>10, FitsAlone

(* Again: a FAT cluster is written later.                                  *)
LEMMA AgainFits == OInv /\ Again /\ Head(todo).file \notin torn => OInv'
<1> SUFFICES ASSUME OInv, Again, Head(todo).file \notin torn PROVE OInv'
  OBVIOUS
<1>1. PICK f \in Files : InCall(f) /\ Head(todo).file = f /\ FileOK(f) /\ CardOK(f)
  BY CallOf DEF Again, Doing
<1>2. /\ todo # << >> /\ Head(todo).do = "again" /\ todo' = Tail(todo)
      /\ mem' = mem /\ card' = card /\ torn' = torn
      /\ fh' = [fh EXCEPT ![f].last = Null]
      /\ dirty' = dirty \/ (FatOf[fh[f].last] \in Set(dirty) /\ dirty' = Used(FatOf[fh[f].last]))
  <2>1. DOMAIN dirty = 1 .. Len(dirty)
    BY DEF OInv, TypeOK
  <2> QED BY <1>1, <2>1 DEF Again, Doing, Set
<1>0. /\ fh' \in [Files -> Handle] /\ fh'[f].open = fh[f].open /\ fh'[f].marked = fh[f].marked
      /\ fh'[f].first = fh[f].first
      /\ \A g \in Files \ {f} : fh'[g] = fh[g]
  BY <1>2 DEF OInv, TypeOK, Handle
<1>3. TypeOK' /\ DirtyOK' /\ TypeOK
  <2>1. TypeOK /\ DirtyOK
    BY DEF OInv
  <2>2. todo' \in Seq(Item)
    BY <2>1, <1>2, TodoTypes
  <2>3. CASE dirty' = dirty
    <3>1. DirtyOK'
      BY <2>1, <2>3, <1>2, DirtyStays
    <3> QED BY <2>1, <2>2, <2>3, <3>1, <1>0, <1>2 DEF TypeOK, Item
  <2>4. CASE dirty' # dirty
    <3>1. PICK u : u = FatOf[fh[f].last]
      OBVIOUS
    <3>2. u \in Set(dirty) /\ dirty' = Used(u)
      BY <3>1, <2>4, <1>2
    <3>3. u \in Files \cup Fats \cup Data
      BY <3>2, <2>1 DEF TypeOK, Set
    <3>4. dirty' \in Seq(Files \cup Fats \cup Data) /\ Set(dirty') = Set(dirty)
      BY <3>2, <3>3, <2>1, UsedFacts
    <3>5. DirtyOK'
      BY <2>1, <3>4, <1>2, DirtyStays
    <3> QED BY <2>1, <2>2, <3>4, <3>5, <1>0, <1>2 DEF TypeOK, Item
  <2> QED BY <2>3, <2>4
<1>4. Begun(f) \/ Linked(f)
  BY <1>1, <1>2, Heads DEF InCall, Strays
<1>5. FileChain(f)' = FileChain(f)
  BY <1>2, ChainsAgree
<1>6. Writer(f)' /\ Opened(f)' /\ ~mem'.entry[f].closed
  BY <1>0, <1>2, <1>4 DEF Begun, Linked, Writer, Live, HasFirst, Opened
<1>7. InCall(f)'
  <2>1. CASE Begun(f)
    <3>1. todo' = <<Do("flush", f), DoAt("put", f, 1), Do("mark", f)>>
      BY <1>2, <2>1 DEF Begun
    <3>2. 1 \in 1 .. Len(FileChain(f)')
      BY <2>1, <1>5 DEF Begun
    <3>3. /\ todo' # << >> /\ Head(todo') = Do("flush", f)
          /\ Tail(todo') = Putting(f, 1)
      BY <3>1 DEF Putting
    <3>4. Unsealed(f)'
      BY <1>6, <3>2, <3>3 DEF Unsealed, Work
    <3> QED BY <3>4 DEF InCall
  <2>2. CASE Linked(f)
    <3>1. PICK p \in 1 .. Len(FileChain(f)) :
            todo = <<Do("again", f), DoAt("put", f, p), Do("mark", f)>>
      BY <2>2 DEF Linked
    <3>2. todo' = Putting(f, p)
      BY <3>1, <1>2 DEF Putting
    <3>3. p \in 1 .. Len(FileChain(f)')
      BY <1>5
    <3>4. Working(f)'
      BY <1>6, <3>2, <3>3 DEF Working, Work
    <3> QED BY <3>4 DEF InCall
  <2> QED BY <1>4, <2>1, <2>2
<1>8. ~AtRest(f)'
  BY <1>7, InCallNext
<1>9. \A g \in Files \ {f} : Untouched(g)
  BY <1>0, <1>2 DEF Untouched
<1>10. (fh'[f].marked => fh'[f].open) /\ (fh'[f].open => Live(f))
  BY <1>0, <1>1, <1>2 DEF FileOK
<1> QED BY <1>1, <1>2, <1>3, <1>7, <1>8, <1>9, <1>10, FitsAlone
(* A call that begins: todo was empty, and the calls of others have ended. *)
LEMMA OpenFits == OInv /\ (\E f \in Files : f \notin torn /\ Open(f)) => OInv'
<1> SUFFICES ASSUME OInv, NEW f \in Files, f \notin torn, Open(f) PROVE OInv'
  OBVIOUS
<1>1. /\ todo = << >> /\ todo' = << >> /\ f \notin torn /\ mem.entry[f].exists /\ ~fh[f].open
      /\ mem' = mem /\ card' = card /\ dirty' = dirty /\ torn' = torn
      /\ fh' = [fh EXCEPT ![f] = [NoHandle EXCEPT !.open = TRUE, !.first = mem.entry[f].first]]
  BY DEF Open
<1>2. TypeOK /\ DirtyOK
  BY DEF OInv
<1>3. /\ fh' \in [Files -> Handle] /\ fh'[f].open /\ ~fh'[f].marked
      /\ fh'[f].first = mem.entry[f].first
      /\ \A g \in Files \ {f} : fh'[g] = fh[g]
  <2>1. mem.entry[f].first \in Data \cup {Null}
    BY <1>2, ImageTypes DEF TypeOK
  <2> QED BY <1>1, <1>2, <2>1 DEF TypeOK, Handle, NoHandle
<1>4. TypeOK'
  BY <1>1, <1>2, <1>3 DEF TypeOK
<1>5. DirtyOK'
  BY <1>1, <1>2, DirtyStays
<1>6. \A g \in Files \ {f} : Untouched(g)
  BY <1>1, <1>3 DEF Untouched
<1>7. Live(f) /\ Ready(f)'
  BY <1>1, <1>3 DEF Live, Ready, HasFirst, Opened
<1> QED BY <1>1, <1>3, <1>4, <1>5, <1>6, <1>7, FitsAlone

(* mcio_mcClose                                                            *)
LEMMA CloseFits == OInv /\ (\E f \in Files : f \notin torn /\ Close(f)) => OInv'
<1> SUFFICES ASSUME OInv, NEW f \in Files, f \notin torn, Close(f) PROVE OInv'
  OBVIOUS
<1>1. /\ todo = << >> /\ fh[f].open
      /\ todo' = IF fh[f].marked THEN Sealing(f) ELSE <<Do("flush", f)>>
      /\ mem' = mem /\ card' = card /\ dirty' = dirty /\ torn' = torn
      /\ fh' = [fh EXCEPT ![f].open = FALSE, ![f].marked = FALSE]
  BY DEF Close
<1>2. TypeOK /\ DirtyOK /\ FileOK(f) /\ Ready(f)
  BY <1>1 DEF OInv, AtRest
<1>3. /\ fh' \in [Files -> Handle] /\ ~fh'[f].open /\ ~fh'[f].marked
      /\ fh'[f].first = fh[f].first
      /\ \A g \in Files \ {f} : fh'[g] = fh[g]
  BY <1>1, <1>2 DEF TypeOK, Handle
<1>4. Do("flush", f) \in Item /\ Do("mark", f) \in Item
  BY DEF Do, Item, Steps
<1>5. todo' \in Seq(Item)
  BY <1>1, <1>4 DEF Sealing
<1>6. TypeOK' /\ DirtyOK'
  <2>1. DirtyOK'
    BY <1>1, <1>2, DirtyStays
  <2> QED BY <1>1, <1>2, <1>3, <1>5, <2>1 DEF TypeOK, Item
<1>7. \A g \in Files \ {f} : Untouched(g)
  BY <1>1, <1>3 DEF Untouched
<1>8. InCall(f)'
  <2>1. CASE fh[f].marked
    <3>1. Sealed(f)'
      BY <1>1, <1>2, <1>3, <2>1 DEF Sealed, Sealing, FileOK, Live, HasFirst, Ready
    <3> QED BY <3>1 DEF InCall
  <2>2. CASE ~fh[f].marked
    <3>1. Ended(f)'
      BY <1>1, <1>3, <2>2 DEF Ended, Ready
    <3> QED BY <3>1 DEF InCall
  <2> QED BY <2>1, <2>2
<1>9. ~AtRest(f)'
  BY <1>8, InCallNext
<1> QED BY <1>1, <1>3, <1>6, <1>7, <1>8, <1>9, FitsAlone

(* The steps of a deletion.                                                *)
LEMMA DeletingIs ==
  ASSUME NEW f \in Files, mem.entry[f].first \in Data \cup {Null}
  PROVE  Deleting(f) =
           IF mem.entry[f].first = Null THEN <<Do("unname", f), Do("flush", f)>>
           ELSE <<Do("unname", f), DoAt("release", f, mem.entry[f].first), Do("flush", f)>>
<1>1. Do("flush", f) \in Item /\ Do("unname", f) \in Item
  BY DEF Do, Item, Steps
<1>2. PICK c : c = mem.entry[f].first
  OBVIOUS
<1>3. CASE c = Null
  <2>1. Deleting(f) = (<<Do("unname", f)>> \o << >>) \o <<Do("flush", f)>>
    BY <1>2, <1>3 DEF Deleting
  <2>2. <<Do("unname", f)>> \o << >> = <<Do("unname", f)>>
    BY <1>1, ConcatEmptySeq
  <2>3. <<Do("unname", f)>> \o <<Do("flush", f)>> = <<Do("unname", f), Do("flush", f)>>
    BY <1>1, Join1
  <2> QED BY <2>1, <2>2, <2>3, <1>2, <1>3
<1>4. CASE c # Null
  <2>1. DoAt("release", f, c) \in Item
    BY <1>2, <1>4 DEF DoAt, Item, Steps
  <2>2. (<<Do("unname", f)>> \o <<DoAt("release", f, c)>>) \o <<Do("flush", f)>>
          = <<Do("unname", f), DoAt("release", f, c), Do("flush", f)>>
    BY <2>1, <1>1, Join1
  <2> QED BY <2>2, <1>2, <1>4 DEF Deleting
<1> QED BY <1>3, <1>4

(* mcio_mcRemove                                                           *)
LEMMA DeleteFits == OInv /\ (\E f \in Files : f \notin torn' /\ Delete(f)) => OInv'
<1> SUFFICES ASSUME OInv, NEW f \in Files, f \notin torn', Delete(f) PROVE OInv'
  OBVIOUS
<1>1. /\ todo = << >> /\ f \notin torn /\ mem.entry[f].exists /\ ~fh[f].open
      /\ todo' = Deleting(f)
      /\ torn' = torn /\ dirty = << >>
      /\ mem' = mem /\ card' = card /\ dirty' = dirty /\ fh' = fh
  BY DEF Delete
<1>2. /\ TypeOK /\ DirtyOK /\ FileOK(f) /\ Live(f)
      /\ Whole(mem.fat, mem.entry[f].first)
      /\ \A g \in Files : Apart(f, g)
  BY <1>1 DEF OInv, Live, FileOK
<1>3. mem.entry[f].first \in Data \cup {Null}
  BY <1>2, ImageTypes DEF TypeOK
<1>4. Do("flush", f) \in Item /\ Do("unname", f) \in Item
  BY DEF Do, Item, Steps
<1>5. todo' = IF mem.entry[f].first = Null THEN <<Do("unname", f), Do("flush", f)>>
              ELSE <<Do("unname", f), DoAt("release", f, mem.entry[f].first), Do("flush", f)>>
  BY <1>1, <1>3, DeletingIs
<1>6. TypeOK' /\ DirtyOK'
  <2>1. DirtyOK'
    BY <1>1, <1>2, DirtyStays
  <2>2. todo' \in Seq(Item)
    <3>1. mem.entry[f].first # Null => DoAt("release", f, mem.entry[f].first) \in Item
      BY <1>3 DEF DoAt, Item, Steps
    <3> QED BY <3>1, <1>4, <1>5
  <2> QED BY <1>1, <1>2, <2>1, <2>2 DEF TypeOK, Item
<1>7. \A g \in Files \ {f} : Untouched(g)
  BY <1>1 DEF Untouched
<1>8. Live(f)' => Live(f)
  BY <1>1 DEF Live
<1>9. \A g \in Files : FileChain(g)' = FileChain(g)
  BY <1>1, ChainsAgree
<1>10. \A g \in Files : g # f => (Live(g)' <=> Live(g))
  BY <1>1 DEF Live
<1>11. Leaves(f)'
  BY <1>1, <1>2, <1>5 DEF Leaves, Live
<1>12. InCall(f)' /\ ~AtRest(f)'
  BY <1>11, InCallNext DEF InCall
<1>13. FileOK(f)' /\ CardOK(f)'
  <2>1. (Closed(f) => Kept(f)) /\ (card.entry[f].exists => mem.entry[f].exists)
    BY <1>1, NotEnding
  <2>2. Closed(f)' => Closed(f)
    BY <1>1 DEF Closed
  <2>3. Same(f)' <=> Same(f)
    BY <1>1, <1>9 DEF Same
  <2>4. Holding(f)' = Holding(f)
    BY <1>1, <1>9 DEF Holding
  <2>5. FileOK(f)'
    BY <1>1, <1>2, <1>8, <2>3, <2>4 DEF FileOK
  <2>6. CardOK(f)'
    BY <1>1, <2>1, <2>2, <2>3, <2>4 DEF CardOK, Kept
  <2> QED BY <2>5, <2>6
<1>14. \A g \in Files \ {f} :
         Live(g) /\ Live(f)' => Set(FileChain(g)) \cap Set(FileChain(f)') = {}
  BY <1>2, <1>9 DEF Apart
<1> QED BY <1>1, <1>6, <1>7, <1>12, <1>13, <1>14, FitsAround

(* mcio_mcWrite                                                            *)
LEMMA WriteFits ==
  OInv /\ (\E f \in Files : f \notin torn /\ \E p \in 1 .. MaxSize : Write(f, p)) => OInv'
<1> SUFFICES ASSUME OInv, NEW f \in Files, f \notin torn, NEW p \in 1 .. MaxSize, Write(f, p)
             PROVE  OInv'
  OBVIOUS
<1> DEFINE chain == FileChain(f)
           n == Len(chain)
           G == IF n = 0
                  THEN <<Do("reserve", f), Do("mark", f), Do("again", f), Do("flush", f)>>
                  ELSE <<Do("reserve", f), DoAt("link", f, chain[n]), Do("again", f)>>
           X == IF p <= n THEN << >> ELSE G
           Y == <<DoAt("put", f, p), Do("mark", f)>>
<1>1. /\ TypeOK /\ DirtyOK /\ FileOK(f)
      /\ todo = << >> /\ fh[f].open /\ p <= Size(mem.fat, fh[f].first) + 1
      /\ mem' = mem /\ card' = card /\ dirty' = dirty /\ torn' = torn
      /\ fh' = [fh EXCEPT ![f].marked = TRUE]
  BY DEF Write, OInv
<1>2. /\ Ready(f) /\ HasFirst(f) /\ Live(f) /\ Whole(mem.fat, mem.entry[f].first)
      /\ fh[f].first = mem.entry[f].first
  BY <1>1 DEF OInv, AtRest, Ready, FileOK, HasFirst
<1>3. /\ chain \in Seq(Data) /\ n \in 0 .. MaxSize /\ Size(mem.fat, fh[f].first) = n
      /\ Chain(mem.fat, fh[f].first) = chain
      /\ n # 0 => chain[n] \in Data
      /\ chain = << >> <=> n = 0
  <2>1. PICK first : first = mem.entry[f].first
    OBVIOUS
  <2>2. PICK fat : fat = mem.fat
    OBVIOUS
  <2>3. chain = Chain(fat, first) /\ Whole(fat, first)
    BY <1>2, <2>1, <2>2 DEF FileChain, ChainOn
  <2> HIDE DEF chain
  <2>4. chain \in Seq(Data) /\ n \in 0 .. MaxSize /\ Size(fat, first) = n /\ Set(chain) \subseteq Data
    BY <2>3, ChainFacts
  <2>5. n # 0 => chain[n] \in Data
    BY <2>4
  <2>6. chain = << >> <=> n = 0
    BY <2>4
  <2> QED BY <1>2, <2>1, <2>2, <2>3, <2>4, <2>5, <2>6
<1>4. p \in 1 .. n \/ p = n + 1
  BY <1>1, <1>3
<1>5. MaxSize \in Nat
  BY Constants
<1>6. /\ DoAt("put", f, p) \in Item /\ Do("mark", f) \in Item /\ Do("flush", f) \in Item
      /\ Do("reserve", f) \in Item /\ Do("again", f) \in Item
      /\ n # 0 => DoAt("link", f, chain[n]) \in Item
  BY <1>3, <1>5 DEF Do, DoAt, Item, Steps
<1>7. todo' = (Opening(f) \o X) \o Y
  <2>1. PICK steps \in Reaching(f, p) :
          todo' = (Opening(f) \o steps) \o <<DoAt("put", f, p), Do("mark", f)>>
    BY DEF Write
  <2>2. CASE p <= n
    <3>1. steps \in {<< >>}
      BY <2>1, <2>2, <1>3 DEF Reaching
    <3> QED BY <3>1, <2>1, <2>2
  <2>3. CASE ~(p <= n)
    <3>1. steps \in Growing(f)
      BY <2>1, <2>3, <1>3 DEF Reaching
    <3>2. steps = G
      <4> HIDE DEF chain
      <4>1. CASE n = 0
        <5>1. steps \in {<<Do("reserve", f), Do("mark", f), Do("again", f), Do("flush", f)>>}
          BY <3>1, <4>1, <1>3 DEF Growing
        <5> QED BY <5>1, <4>1
      <4>2. CASE n # 0
        <5>1. steps \in {<<Do("reserve", f), DoAt("link", f, last), Do("again", f)>> :
                            last \in {chain[n]}}
          BY <3>1, <4>2, <1>3 DEF Growing
        <5> QED BY <5>1, <4>2
      <4> QED BY <4>1, <4>2
    <3> QED BY <3>2, <2>1, <2>3
  <2> QED BY <2>2, <2>3
<1> HIDE DEF chain
<1>8. X \in Seq(Item) /\ Work(X \o Y, f, chain)
  <2>1. CASE p <= n
    <3>1. X = << >> /\ X \o Y = Y
      <4>1. Y \in Seq(Item)
        BY <1>6
      <4> QED BY <2>1, <4>1, ConcatEmptySeq
    <3> QED BY <3>1, <2>1, <1>3, <1>4 DEF Work, Putting
  <2>2. CASE p = n + 1 /\ n = 0
    <3>1. X = <<Do("reserve", f), Do("mark", f), Do("again", f), Do("flush", f)>>
      BY <2>2
    <3>2. X \o Y = <<Do("reserve", f), Do("mark", f), Do("again", f), Do("flush", f),
                     DoAt("put", f, p), Do("mark", f)>>
      <4>1. <<Do("reserve", f), Do("mark", f), Do("again", f), Do("flush", f)>>
              \o <<DoAt("put", f, p), Do("mark", f)>>
            = <<Do("reserve", f), Do("mark", f), Do("again", f), Do("flush", f),
                DoAt("put", f, p), Do("mark", f)>>
        BY <1>6, Join4
      <4> QED BY <3>1, <4>1, Zenon
    <3>3. X \in Seq(Item)
      <4>1. <<Do("reserve", f), Do("mark", f), Do("again", f), Do("flush", f)>> \in Seq(Item)
        BY <1>6
      <4> QED BY <3>1, <4>1, Zenon
    <3> QED BY <2>2, <3>2, <3>3 DEF Work
  <2>3. CASE p = n + 1 /\ n # 0
    <3>1. X = <<Do("reserve", f), DoAt("link", f, chain[n]), Do("again", f)>>
      BY <2>3
    <3>2. X \o Y = <<Do("reserve", f), DoAt("link", f, chain[n]), Do("again", f),
                     DoAt("put", f, p), Do("mark", f)>>
      <4>1. <<Do("reserve", f), DoAt("link", f, chain[n]), Do("again", f)>>
              \o <<DoAt("put", f, p), Do("mark", f)>>
            = <<Do("reserve", f), DoAt("link", f, chain[n]), Do("again", f),
                DoAt("put", f, p), Do("mark", f)>>
        BY <2>3, <1>6, Join3
      <4> QED BY <3>1, <4>1, Zenon
    <3>3. X \in Seq(Item)
      <4>1. <<Do("reserve", f), DoAt("link", f, chain[n]), Do("again", f)>> \in Seq(Item)
        BY <2>3, <1>6
      <4> QED BY <3>1, <4>1, Zenon
    <3>4. n \in 1 .. MaxSize - 1
      BY <2>3, <1>3, <1>5
    <3> QED BY <2>3, <3>2, <3>3, <3>4 DEF Work
  <2> QED BY <1>4, <1>3, <2>1, <2>2, <2>3
<1>9. Y \in Seq(Item) /\ X \o Y \in Seq(Item)
  BY <1>6, <1>8
<1>10. /\ fh' \in [Files -> Handle] /\ fh'[f].open /\ fh'[f].marked
       /\ fh'[f].first = fh[f].first
       /\ \A g \in Files \ {f} : fh'[g] = fh[g]
  BY <1>1 DEF TypeOK, Handle
<1>11. Writer(f)'
  BY <1>1, <1>2, <1>10 DEF Writer, Live, HasFirst
<1>12. FileChain(f)' = chain
  BY <1>1, ChainsAgree DEF chain
<1> HIDE DEF X, Y
<1>13. InCall(f)' /\ todo' \in Seq(Item)
  <2>1. CASE fh[f].marked
    <3>1. todo' = X \o Y
      BY <2>1, <1>7, <1>8, ConcatEmptySeq DEF Opening
    <3>2. Opened(f)'
      BY <2>1, <1>1, <1>2 DEF Ready, Opened
    <3>3. Working(f)'
      BY <3>1, <3>2, <1>8, <1>11, <1>12 DEF Working
    <3> QED BY <3>1, <3>3, <1>9 DEF InCall
  <2>2. CASE ~fh[f].marked
    <3> DEFINE O == <<Do("mark", f), Do("flush", f)>>
    <3>1. O \in Seq(Item) /\ Opening(f) = O
      BY <2>2, <1>6 DEF Opening
    <3>2. todo' = O \o (X \o Y)
      BY <3>1, <1>7, <1>8, <1>9, ConcatAssociative
    <3>3. /\ todo' \in Seq(Item) /\ todo' # << >> /\ Head(todo') = Do("mark", f)
          /\ Tail(todo') # << >> /\ Head(Tail(todo')) = Do("flush", f)
          /\ Tail(Tail(todo')) = X \o Y
      <4>1. PICK t : t = X \o Y
        OBVIOUS
      <4>2. t \in Seq(Item) /\ todo' = <<Do("mark", f), Do("flush", f)>> \o t
        BY <4>1, <3>2, <1>9
      <4>3. PICK s : s = todo'
        OBVIOUS
      <4>4. s \in Seq(Item) /\ Leads(s, Do("mark", f), Do("flush", f), t)
        BY <4>2, <4>3, <1>6, JoinTwo
      <4> QED BY <4>1, <4>3, <4>4 DEF Leads
    <3>4. Unsealing(f)'
      BY <3>3, <1>8, <1>11, <1>12 DEF Unsealing
    <3> QED BY <3>3, <3>4 DEF InCall
  <2> QED BY <2>1, <2>2
<1>14. TypeOK' /\ DirtyOK'
  <2>1. DirtyOK'
    BY <1>1, DirtyStays
  <2> QED BY <1>1, <1>10, <1>13, <2>1 DEF TypeOK, Item
<1>15. \A g \in Files \ {f} : Untouched(g)
  BY <1>1, <1>10 DEF Untouched
<1>16. ~AtRest(f)'
  BY <1>13, InCallNext
<1> QED BY <1>1, <1>2, <1>10, <1>13, <1>14, <1>15, <1>16, FitsAlone
-----------------------------------------------------------------------------
(* The changes                                                             *)

(* What is known of the file that a call is at work on.                    *)
LEMMA WriterFacts ==
  ASSUME NEW f \in Files, TypeOK, FileOK(f), Writer(f)
  PROVE  /\ Live(f) /\ Whole(mem.fat, mem.entry[f].first)
         /\ FileChain(f) \in Seq(Data) /\ Len(FileChain(f)) \in 0 .. MaxSize
         /\ Set(FileChain(f)) \subseteq Data
         /\ Chain(mem.fat, fh[f].first) = FileChain(f)
         /\ mem.entry[f].first = Null <=> Len(FileChain(f)) = 0
         /\ \A c \in Set(FileChain(f)) : mem.fat[c] # Free
         /\ \A k \in 1 .. Len(FileChain(f)) :
              /\ Nth(mem.fat, fh[f].first, k) = FileChain(f)[k]
              /\ FileChain(f)[k] \in Set(FileChain(f))
<1>1. Live(f) /\ Whole(mem.fat, mem.entry[f].first) /\ fh[f].first = mem.entry[f].first
  BY DEF Writer, FileOK, HasFirst
<1>2. PICK first : first = mem.entry[f].first
  OBVIOUS
<1>3. PICK fat : fat = mem.fat
  OBVIOUS
<1>4. FileChain(f) = Chain(fat, first) /\ Whole(fat, first)
  BY <1>1, <1>2, <1>3 DEF FileChain, ChainOn
<1>5. LET s == Chain(fat, first)
      IN  /\ s \in Seq(Data) /\ Len(s) \in 0 .. MaxSize /\ Set(s) \subseteq Data
          /\ first = Null <=> Len(s) = 0
          /\ \A c \in Set(s) : fat[c] # Free
          /\ \A k \in 1 .. Len(s) : Nth(fat, first, k) = s[k] /\ s[k] \in Set(s)
  BY <1>4, ChainFacts
<1> QED BY <1>1, <1>2, <1>3, <1>4, <1>5

(* No cluster of a file is free.                                           *)
LEMMA TakenIsNotFree ==
  ASSUME NEW g \in Files, FileOK(g), Live(g)
  PROVE  \A c \in Set(FileChain(g)) : c \in Data /\ mem.fat[c] # Free
<1>1. PICK first : first = mem.entry[g].first
  OBVIOUS
<1>2. PICK fat : fat = mem.fat
  OBVIOUS
<1>3. FileChain(g) = Chain(fat, first) /\ Whole(fat, first)
  BY <1>1, <1>2 DEF FileChain, ChainOn, FileOK
<1>4. \A c \in Set(Chain(fat, first)) : c \in Data /\ fat[c] # Free
  BY <1>3, ChainFacts
<1> QED BY <1>2, <1>3, <1>4

(* Reserve: the cluster found is in no chain.                              *)
LEMMA ReserveFits == OInv /\ Reserve /\ Head(todo).file \notin torn => OInv'
<1> SUFFICES ASSUME OInv, Reserve, Head(todo).file \notin torn PROVE OInv'
  OBVIOUS
<1>1. PICK f \in Files : InCall(f) /\ Head(todo).file = f /\ FileOK(f) /\ CardOK(f)
  BY CallOf DEF Reserve, Doing
<1>2. todo # << >> /\ Head(todo).do = "reserve" /\ card' = card /\ torn' = torn
  BY DEF Reserve, Doing
<1>3. TypeOK /\ DirtyOK
  BY DEF OInv
<1>4. Writer(f) /\ Opened(f) /\ Work(todo, f, FileChain(f))
  BY <1>1, <1>2, Heads DEF InCall, Strays, Working
<1> DEFINE chain == FileChain(f)
           n == Len(chain)
<1>5. /\ Live(f) /\ n \in 0 .. MaxSize /\ (mem.entry[f].first = Null <=> n = 0)
      /\ fh[f].open /\ fh[f].marked /\ fh[f].first = mem.entry[f].first
  BY <1>1, <1>3, <1>4, WriterFacts DEF Writer, HasFirst
<1>6. \/ n = 0 /\ Tail(todo) = Starting(f)
      \/ n \in 1 .. MaxSize - 1 /\ Tail(todo) = Linking(f, chain[n], n + 1)
  <2> HIDE DEF chain
  <2>1. \A p : Head(Putting(f, p)).do = "put"
    BY DEF Putting, DoAt
  <2>2. CASE /\ n = 0
             /\ todo = <<Do("reserve", f), Do("mark", f), Do("again", f), Do("flush", f),
                         DoAt("put", f, 1), Do("mark", f)>>
    BY <2>2 DEF Starting
  <2>3. CASE /\ n \in 1 .. MaxSize - 1
             /\ todo = <<Do("reserve", f), DoAt("link", f, chain[n]), Do("again", f),
                         DoAt("put", f, n + 1), Do("mark", f)>>
    BY <2>3 DEF Linking
  <2> QED BY <2>1, <2>2, <2>3, <1>2, <1>4 DEF Work, chain
<1>7. CASE \E c \in Data :
             /\ mem.fat[c] = Free
             /\ mem' = [mem EXCEPT !.fat[c] = End]
             /\ fh' = [fh EXCEPT ![f].last = c, ![f].first = IF @ = Null THEN c ELSE @]
             /\ dirty' = Used(FatOf[c])
             /\ todo' = Tail(todo)
  <2>1. PICK c \in Data :
             /\ mem.fat[c] = Free
             /\ mem' = [mem EXCEPT !.fat[c] = End]
             /\ fh' = [fh EXCEPT ![f].last = c, ![f].first = IF @ = Null THEN c ELSE @]
             /\ dirty' = Used(FatOf[c])
             /\ todo' = Tail(todo)
    BY <1>7
  <2>2. /\ mem' \in Image /\ mem'.entry = mem.entry /\ mem'.data = mem.data
        /\ mem'.fat[c] = End
        /\ \A d \in Data \ {c} : mem'.fat[d] = mem.fat[d]
    <3>1. PICK m : m = mem
      OBVIOUS
    <3>2. PICK m2 : m2 = mem'
      OBVIOUS
    <3>3. m \in Image /\ End \in Data \cup {Free, End} /\ m2 = [m EXCEPT !.fat[c] = End]
      BY <3>1, <3>2, <2>1, <1>3 DEF TypeOK
    <3>4. FatChanged(m2, m, c, End)
      BY <3>3, SetFat
    <3> QED BY <3>1, <3>2, <3>4 DEF FatChanged
  <2>3. /\ fh' \in [Files -> Handle] /\ fh'[f].open /\ fh'[f].marked /\ fh'[f].last = c
        /\ fh'[f].first = IF fh[f].first = Null THEN c ELSE fh[f].first
        /\ \A g \in Files \ {f} : fh'[g] = fh[g]
    BY <2>1, <1>3, <1>5 DEF TypeOK, Handle
  <2>4. FatOf[c] \in Files \cup Fats \cup Data
    BY OrderAssumption
  <2>5. DirtyOK'
    <3>1. \A d \in Data : FatOf[d] # FatOf[c] => d \in Data \ {c}
      OBVIOUS
    <3> QED BY <3>1, <2>1, <2>2, <2>4, <1>2, <1>3, DirtyGrows
  <2>6. TypeOK'
    <3>1. dirty' \in Seq(Files \cup Fats \cup Data)
      BY <2>1, <2>4, <1>3, UsedFacts
    <3>2. todo' \in Seq(Item)
      BY <2>1, <1>2, <1>3, TodoTypes
    <3> QED BY <2>2, <2>3, <3>1, <3>2, <1>2, <1>3 DEF TypeOK, Item
  <2>7. ASSUME NEW g \in Files, Live(g)
        PROVE  \A d \in Set(FileChain(g)) :
                 d # c /\ mem'.fat[d] = mem.fat[d] /\ mem'.data[d] = mem.data[d]
    <3>1. \A d \in Set(FileChain(g)) : d \in Data /\ mem.fat[d] # Free
      BY <2>7, TakenIsNotFree DEF OInv
    <3> QED BY <3>1, <2>1, <2>2
  <2>8. \A g \in Files \ {f} : Untouched(g)
    BY <2>2, <2>3, <2>7, <1>2 DEF Untouched
  <2>9. \A g \in Files : /\ Live(g)' <=> Live(g)
                         /\ Live(g) => FileChain(g)' = FileChain(g)
    <3> SUFFICES ASSUME NEW g \in Files
                 PROVE  (Live(g)' <=> Live(g)) /\ (Live(g) => FileChain(g)' = FileChain(g))
      OBVIOUS
    <3>1. Live(g)' <=> Live(g)
      BY <2>2, <1>2 DEF Live
    <3>2. ASSUME Live(g) PROVE FileChain(g)' = FileChain(g)
      <4>1. Whole(mem.fat, mem.entry[g].first)
        BY <3>2 DEF OInv, FileOK
      <4> QED BY <4>1, <3>2, <2>2, <2>7, ChainStays
    <3> QED BY <3>1, <3>2
  <2>10. Loose(c)'
    <3>1. PICK fat2 : fat2 = mem'.fat
      OBVIOUS
    <3>2. Whole(fat2, c) /\ Set(Chain(fat2, c)) = {c}
      BY <3>1, <2>2, ChainOne
    <3>3. ASSUME NEW g \in Files, Live(g)'
          PROVE  Set(FileChain(g)') \cap {c} = {}
      BY <3>3, <2>7, <2>9
    <3> QED BY <3>1, <3>2, <3>3 DEF Loose
  <2>11. HasNew(f)'
    <3>1. fh'[f].last \in Data /\ mem'.fat[fh'[f].last] = End
      BY <2>2, <2>3
    <3>2. PICK d : d = fh'[f].last
      OBVIOUS
    <3>3. d = c
      BY <3>2, <2>3
    <3>4. Loose(d)'
      BY <3>3, <2>10
    <3> QED BY <3>1, <3>2, <3>4 DEF HasNew
  <2>12. Live(f)' /\ Opened(f)' /\ FileChain(f)' = chain
    BY <1>2, <1>4, <1>5, <2>2, <2>9 DEF Opened
  <2>13. InCall(f)'
    <3>1. CASE n = 0 /\ Tail(todo) = Starting(f)
      <4>1. mem'.entry[f].first = Null /\ fh'[f].first = fh'[f].last
        BY <3>1, <1>5, <2>2, <2>3
      <4>2. Begins(f)'
        BY <4>1, <3>1, <2>1, <2>3, <2>11, <2>12 DEF Begins
      <4> QED BY <4>2 DEF InCall
    <3>2. CASE n \in 1 .. MaxSize - 1 /\ Tail(todo) = Linking(f, chain[n], n + 1)
      <4>1. n # 0
        BY <3>2
      <4>2. Writer(f)'
        BY <4>1, <1>5, <2>2, <2>3, <2>12 DEF Writer, HasFirst
      <4> HIDE DEF chain
      <4>3. Links(f)'
        BY <4>2, <3>2, <2>1, <2>11, <2>12 DEF Links
      <4> QED BY <4>3 DEF InCall
    <3> QED BY <1>6, <3>1, <3>2
  <2>14. ~AtRest(f)'
    BY <2>13, InCallNext
  <2>15. \/ todo = << >> \/ Head(todo).do \notin {"release", "flush"} \/ dirty = << >>
    BY <1>2
  <2>16. /\ mem'.entry[f] = mem.entry[f] /\ (f \in torn' <=> f \in torn)
         /\ Live(f) => \A d \in Set(FileChain(f)) :
                         mem'.fat[d] = mem.fat[d] /\ mem'.data[d] = mem.data[d]
    BY <2>2, <2>7, <1>2
  <2> QED
    BY <1>1, <1>2, <1>5, <2>3, <2>5, <2>6, <2>8, <2>13, <2>14, <2>15, <2>16, FitsAlone
<1>8. CASE /\ fh' = [fh EXCEPT ![f] = NoHandle] /\ todo' = << >>
           /\ UNCHANGED <<mem, dirty>>
  <2>1. /\ fh' \in [Files -> Handle] /\ fh'[f] = NoHandle
        /\ \A g \in Files \ {f} : fh'[g] = fh[g]
    BY <1>3, <1>8 DEF TypeOK, Handle, NoHandle
  <2>2. ~fh'[f].open /\ ~fh'[f].marked
    BY <2>1 DEF NoHandle
  <2>3. TypeOK' /\ DirtyOK'
    <3>1. DirtyOK'
      BY <1>2, <1>3, <1>8, DirtyStays
    <3> QED BY <3>1, <2>1, <1>2, <1>3, <1>8 DEF TypeOK
  <2>4. \A g \in Files \ {f} : Untouched(g)
    BY <1>2, <1>8, <2>1 DEF Untouched
  <2>5. Ready(f)'
    BY <2>2 DEF Ready
  <2>6. \/ todo = << >> \/ Head(todo).do \notin {"release", "flush"} \/ dirty = << >>
    BY <1>2
  <2>7. /\ mem'.entry[f] = mem.entry[f] /\ (f \in torn' <=> f \in torn)
        /\ Live(f) => \A d \in Set(FileChain(f)) :
                        mem'.fat[d] = mem.fat[d] /\ mem'.data[d] = mem.data[d]
    BY <1>2, <1>8
  <2> QED BY <1>1, <1>2, <1>8, <2>2, <2>3, <2>4, <2>5, <2>6, <2>7, FitsAlone
<1> QED BY <1>1, <1>7, <1>8 DEF Reserve

(* Link: the chain grows by it.                                            *)
LEMMA LinkFits == OInv /\ Link /\ Head(todo).file \notin torn => OInv'
<1> SUFFICES ASSUME OInv, Link, Head(todo).file \notin torn PROVE OInv'
  OBVIOUS
<1>1. PICK f \in Files : InCall(f) /\ Head(todo).file = f /\ FileOK(f) /\ CardOK(f)
  BY CallOf DEF Link, Doing
<1> DEFINE chain == FileChain(f)
           n == Len(chain)
<1>2. /\ todo # << >> /\ Head(todo).do = "link" /\ card' = card /\ torn' = torn /\ fh' = fh
      /\ mem' = [mem EXCEPT !.fat[Head(todo).at] = fh[f].last]
      /\ dirty' = Used(FatOf[Head(todo).at])
      /\ todo' = Tail(todo)
  BY <1>1 DEF Link, Doing, Hit
<1>3. TypeOK /\ DirtyOK
  BY DEF OInv
<1>4. Links(f)
  BY <1>1, <1>2, Heads DEF InCall, Strays
<1>5. /\ Writer(f) /\ Opened(f) /\ n \in 1 .. MaxSize - 1
      /\ fh[f].last \in Data /\ mem.fat[fh[f].last] = End /\ Loose(fh[f].last)
      /\ Head(todo).at = chain[n]
      /\ Tail(todo) = <<Do("again", f), DoAt("put", f, n + 1), Do("mark", f)>>
  BY <1>4 DEF Links, HasNew, Linking, DoAt
<1>6. PICK c \in Data : c = fh[f].last
  BY <1>5
<1>7. /\ Live(f) /\ Whole(mem.fat, mem.entry[f].first) /\ mem.entry[f].first # Null
      /\ chain[n] \in Set(chain) /\ Set(chain) \subseteq Data
      /\ fh[f].open /\ fh[f].marked
  BY <1>1, <1>3, <1>5, WriterFacts DEF Writer
<1>8. PICK last \in Data : last = chain[n]
  BY <1>7
<1>9. /\ mem' \in Image /\ mem'.entry = mem.entry /\ mem'.data = mem.data
      /\ mem'.fat = [mem.fat EXCEPT ![last] = c]
      /\ \A d \in Data \ {last} : mem'.fat[d] = mem.fat[d]
  <2>1. PICK m : m = mem
    OBVIOUS
  <2>2. PICK m2 : m2 = mem'
    OBVIOUS
  <2>3. m \in Image /\ m2 = [m EXCEPT !.fat[last] = c]
    BY <2>1, <2>2, <1>2, <1>3, <1>5, <1>6, <1>8 DEF TypeOK
  <2>4. FatChanged(m2, m, last, c)
    BY <2>3, SetFat
  <2> QED BY <2>1, <2>2, <2>4 DEF FatChanged
<1>10. /\ Set(Chain(mem.fat, c)) = {c}
       /\ \A g \in Files : Live(g) => c \notin Set(FileChain(g))
  <2>1. PICK fat : fat = mem.fat
    OBVIOUS
  <2>2. Set(Chain(fat, c)) = {c}
    BY <2>1, <1>5, <1>6, ChainOne
  <2> QED BY <2>1, <2>2, <1>5, <1>6 DEF Loose
<1>11. /\ Whole(mem.fat, mem.entry[f].first)' /\ Set(FileChain(f)') = Set(chain) \cup {c}
       /\ Len(FileChain(f)') = n + 1
  <2>1. PICK fat : fat = mem.fat
    OBVIOUS
  <2>2. PICK fat2 : fat2 = mem'.fat
    OBVIOUS
  <2>3. PICK first : first = mem.entry[f].first
    OBVIOUS
  <2>4. chain = Chain(fat, first)
    BY <2>1, <2>3 DEF FileChain, ChainOn
  <2>5. /\ fat \in [Data -> Data \cup {Free, End}] /\ Whole(fat, first) /\ first # Null
        /\ fat2 = [fat EXCEPT ![last] = c] /\ fat[c] = End
    BY <2>1, <2>2, <2>3, <1>3, <1>5, <1>6, <1>7, <1>9, ImageTypes DEF TypeOK
  <2>6. c \notin Set(chain) /\ n < MaxSize
    BY <1>5, <1>7, <1>10, Constants
  <2> HIDE DEF chain
  <2>7. /\ c \notin Set(Chain(fat, first)) /\ Len(Chain(fat, first)) < MaxSize
        /\ last = Chain(fat, first)[Len(Chain(fat, first))]
    BY <2>4, <2>6, <1>8
  <2>8. /\ Whole(fat2, first)
        /\ Set(Chain(fat2, first)) = Set(Chain(fat, first)) \cup {c}
        /\ Len(Chain(fat2, first)) = Len(Chain(fat, first)) + 1
    <3>1. Grown(fat2, first, Chain(fat, first), c)
      BY <2>5, <2>7, ChainGrows
    <3> QED BY <3>1 DEF Grown
  <2>9. FileChain(f)' = Chain(fat2, first)
    BY <2>2, <2>3, <1>9 DEF FileChain, ChainOn
  <2>10. Whole(mem.fat, mem.entry[f].first)'
    BY <2>2, <2>3, <2>8, <1>9
  <2> QED BY <2>4, <2>8, <2>9, <2>10
<1>12. FatOf[last] \in Files \cup Fats \cup Data
  BY OrderAssumption
<1>13. DirtyOK'
  <2>1. \A d \in Data : FatOf[d] # FatOf[last] => d \in Data \ {last}
    OBVIOUS
  <2>2. dirty' = Used(FatOf[last])
    BY <1>2, <1>5, <1>8
  <2> QED BY <2>1, <2>2, <1>2, <1>3, <1>9, <1>12, DirtyGrows
<1>14. TypeOK'
  <2>1. dirty' \in Seq(Files \cup Fats \cup Data)
    BY <1>2, <1>3, <1>5, <1>8, <1>12, UsedFacts
  <2>2. todo' \in Seq(Item)
    BY <1>2, <1>3, TodoTypes
  <2> QED BY <2>1, <2>2, <1>2, <1>3, <1>9 DEF TypeOK, Item
<1>15. ASSUME NEW g \in Files \ {f}
       PROVE  /\ Untouched(g)
              /\ Live(g) /\ Live(f)' => Set(FileChain(g)) \cap Set(FileChain(f)') = {}
  <2>1. ASSUME Live(g)
        PROVE  \A d \in Set(FileChain(g)) : d \in Data /\ d # last /\ d \notin Set(chain)
    <3>1. \A d \in Set(FileChain(g)) : d \in Data
      BY <2>1, TakenIsNotFree DEF OInv
    <3>2. Set(FileChain(f)) \cap Set(FileChain(g)) = {}
      BY <2>1, <1>7, <1>15 DEF OInv, Apart
    <3> QED BY <3>1, <3>2, <1>7, <1>8
  <2>2. Untouched(g)
    BY <2>1, <1>2, <1>9 DEF Untouched
  <2>3. Live(g) => Set(FileChain(g)) \cap Set(FileChain(f)') = {}
    BY <2>1, <1>10, <1>11
  <2> QED BY <2>2, <2>3
<1>16. Opened(f)' /\ Live(f)' /\ Writer(f)'
  BY <1>2, <1>5, <1>7, <1>9 DEF Opened, Live, Writer, HasFirst
<1>17. Linked(f)'
  <2>1. n + 1 \in 1 .. Len(FileChain(f)')
    BY <1>5, <1>11, Constants
  <2>2. todo' = <<Do("again", f), DoAt("put", f, n + 1), Do("mark", f)>>
    BY <1>2, <1>5
  <2> HIDE DEF n
  <2> QED BY <2>1, <2>2, <1>16 DEF Linked
<1>18. InCall(f)' /\ ~AtRest(f)'
  BY <1>17, InCallNext DEF InCall
<1>19. FileOK(f)' /\ CardOK(f)'
  <2>1. ~mem'.entry[f].closed /\ ~card'.entry[f].closed /\ mem'.entry[f].exists
    BY <1>16 DEF Opened, Live
  <2>2. FileOK(f)'
    BY <2>1, <1>2, <1>7, <1>11, <1>16 DEF FileOK
  <2>3. CardOK(f)'
    BY <2>1 DEF CardOK, Closed
  <2> QED BY <2>2, <2>3
<1>20. \/ todo = << >> \/ Head(todo).do \notin {"release", "flush"} \/ dirty = << >>
  BY <1>2
<1> QED BY <1>1, <1>2, <1>13, <1>14, <1>15, <1>18, <1>19, <1>20, FitsAround

(* Put: data of a file that does not say "closed".                         *)
LEMMA PutFits == OInv /\ Put /\ Head(todo).file \notin torn => OInv'
<1> SUFFICES ASSUME OInv, Put, Head(todo).file \notin torn PROVE OInv'
  OBVIOUS
<1>1. PICK f \in Files : InCall(f) /\ Head(todo).file = f /\ FileOK(f) /\ CardOK(f)
  BY CallOf DEF Put, Doing
<1> DEFINE chain == FileChain(f)
           at == Nth(mem.fat, fh[f].first, Head(todo).at)
<1>2. /\ todo # << >> /\ Head(todo).do = "put" /\ card' = card /\ torn' = torn /\ fh' = fh
      /\ mem' = [mem EXCEPT !.data[at] = Other(f, @)]
      /\ dirty' = Used(at) /\ todo' = Tail(todo)
  <2>1. f \notin torn
    BY <1>1
  <2>2. Arrives(f, Head(todo).at) = {at} /\ \A c : Hit(f, c) = {}
    BY <2>1 DEF Arrives, Hit
  <2> HIDE DEF at
  <2>3. /\ todo # << >> /\ Head(todo).do = "put" /\ card' = card
        /\ \E c \in Arrives(f, Head(todo).at) :
              /\ mem' = [mem EXCEPT !.data[c] = IF f \in torn THEN Junk ELSE Other(f, @)]
              /\ dirty' = Used(c) /\ torn' = torn \cup Hit(f, c)
        /\ todo' = Tail(todo) /\ fh' = fh
    BY <1>1, <2>1 DEF Put, Doing
  <2> QED BY <2>1, <2>2, <2>3
<1>3. TypeOK /\ DirtyOK
  BY DEF OInv
<1>4. Writer(f) /\ Opened(f) /\ Work(todo, f, chain)
  BY <1>1, <1>2, Heads DEF InCall, Strays, Working
<1>5. PICK p \in 1 .. Len(chain) : todo = Putting(f, p)
  <2>1. todo # <<Do("reserve", f), Do("mark", f), Do("again", f), Do("flush", f),
                 DoAt("put", f, 1), Do("mark", f)>>
    BY <1>2 DEF Do
  <2> HIDE DEF chain
  <2>2. todo # <<Do("reserve", f), DoAt("link", f, chain[Len(chain)]), Do("again", f),
                 DoAt("put", f, Len(chain) + 1), Do("mark", f)>>
    BY <1>2 DEF Do
  <2> QED BY <2>1, <2>2, <1>4 DEF Work
<1>6. Head(todo).at = p /\ Tail(todo) = <<Do("mark", f)>>
  BY <1>5 DEF Putting, DoAt
<1>7. /\ Live(f) /\ Whole(mem.fat, mem.entry[f].first) /\ Set(chain) \subseteq Data
      /\ at = chain[p] /\ chain[p] \in Set(chain)
  BY <1>1, <1>3, <1>4, <1>5, <1>6, WriterFacts
<1>8. PICK c \in Data : c = at
  BY <1>7
<1> HIDE DEF at
<1>9. Other(f, mem.data[c]) \in Content
  <2>1. PICK x : x = mem.data[c]
    OBVIOUS
  <2>2. \E y \in {f} \X Values : y # x
    <3>1. PICK v \in Values, w \in Values : v # w
      BY OrderAssumption
    <3>2. <<f, v>> \in {f} \X Values /\ <<f, w>> \in {f} \X Values /\ <<f, v>> # <<f, w>>
      BY <3>1
    <3> QED BY <3>2
  <2>3. Other(f, x) \in {f} \X Values
    BY <2>2 DEF Other
  <2> QED BY <2>1, <2>3 DEF Content
<1>10. /\ mem' \in Image /\ mem'.entry = mem.entry /\ mem'.fat = mem.fat
       /\ \A d \in Data \ {c} : mem'.data[d] = mem.data[d]
  <2>1. PICK m : m = mem
    OBVIOUS
  <2>2. PICK m2 : m2 = mem'
    OBVIOUS
  <2>3. PICK x \in Content : x = Other(f, mem.data[c])
    BY <1>9
  <2>4. m \in Image
    BY <2>1, <1>3 DEF TypeOK
  <2>5. m2 = [m EXCEPT !.data[c] = x]
    BY <2>1, <2>2, <2>3, <2>4, <1>2, <1>8 DEF Image
  <2>6. /\ m2 \in Image /\ m2.entry = m.entry /\ m2.fat = m.fat
        /\ \A d \in Data \ {c} : m2.data[d] = m.data[d]
    BY <2>3, <2>4, <2>5, SetData
  <2> QED BY <2>1, <2>2, <2>6
<1>11. DirtyOK'
  BY <1>2, <1>3, <1>8, <1>10, DirtyGrows
<1>12. TypeOK'
  <2>1. dirty' \in Seq(Files \cup Fats \cup Data)
    BY <1>2, <1>3, <1>8, UsedFacts
  <2>2. todo' \in Seq(Item)
    BY <1>2, <1>3, TodoTypes
  <2> QED BY <2>1, <2>2, <1>2, <1>3, <1>10 DEF TypeOK, Item
<1>13. \A g \in Files : FileChain(g)' = FileChain(g)
  BY <1>10 DEF FileChain, ChainOn
<1>14. ASSUME NEW g \in Files \ {f}
       PROVE  /\ Untouched(g)
              /\ Live(g) /\ Live(f)' => Set(FileChain(g)) \cap Set(FileChain(f)') = {}
  <2>1. Live(g) => Set(FileChain(f)) \cap Set(FileChain(g)) = {}
    BY <1>7, <1>14 DEF OInv, Apart
  <2>2. Live(g) => \A d \in Set(FileChain(g)) : d \in Data
    BY TakenIsNotFree DEF OInv
  <2>3. Untouched(g)
    BY <2>1, <2>2, <1>2, <1>7, <1>8, <1>10 DEF Untouched
  <2> QED BY <2>1, <2>3, <1>13
<1>15. Opened(f)' /\ Live(f)' /\ Writer(f)'
  BY <1>2, <1>4, <1>7, <1>10 DEF Opened, Live, Writer, HasFirst
<1>16. InCall(f)' /\ ~AtRest(f)'
  <2>1. PutDone(f)'
    BY <1>2, <1>6, <1>15 DEF PutDone
  <2> QED BY <2>1, InCallNext DEF InCall
<1>17. FileOK(f)' /\ CardOK(f)'
  <2>1. ~mem'.entry[f].closed /\ ~card'.entry[f].closed /\ mem'.entry[f].exists
    BY <1>15 DEF Opened, Live
  <2>2. FileOK(f)'
    BY <2>1, <1>1, <1>2, <1>7, <1>10, <1>15 DEF FileOK
  <2>3. CardOK(f)'
    BY <2>1 DEF CardOK, Closed
  <2> QED BY <2>2, <2>3
<1>18. \/ todo = << >> \/ Head(todo).do \notin {"release", "flush"} \/ dirty = << >>
  BY <1>2
<1> QED BY <1>1, <1>2, <1>11, <1>12, <1>14, <1>16, <1>17, <1>18, FitsAround

(* An entry that tells of a chain is an entry.                             *)
LEMMA EntryTypes ==
  ASSUME TypeOK, NEW first, Whole(mem.fat, first), NEW closed \in BOOLEAN
  PROVE  [exists |-> TRUE, closed |-> closed, first |-> first,
          holds |-> [k \in DOMAIN Chain(mem.fat, first) |-> mem.data[Chain(mem.fat, first)[k]]]]
           \in Entry
<1>1. PICK fat : fat = mem.fat
  OBVIOUS
<1>2. PICK s : s = Chain(mem.fat, first)
  OBVIOUS
<1>3. /\ s \in Seq(Data) /\ Len(s) \in 0 .. MaxSize /\ first \in Data \cup {Null}
  <2>1. Whole(fat, first) /\ s = Chain(fat, first)
    BY <1>1, <1>2
  <2>2. s \in Seq(Data) /\ Len(s) \in 0 .. MaxSize
    BY <2>1, ChainFacts
  <2>3. first # Null => first \in Data
    BY <2>1, ChainFacts
  <2> QED BY <2>2, <2>3
<1>4. [k \in DOMAIN s |-> mem.data[s[k]]] \in [1 .. Len(s) -> Content]
  <2>1. DOMAIN s = 1 .. Len(s) /\ \A k \in 1 .. Len(s) : s[k] \in Data
    BY <1>3
  <2>2. \A c \in Data : mem.data[c] \in Content
    BY ImageTypes DEF TypeOK
  <2> QED BY <2>1, <2>2
<1>5. [k \in DOMAIN s |-> mem.data[s[k]]] \in UNION {[1 .. n -> Content] : n \in 0 .. MaxSize}
  BY <1>3, <1>4
<1> QED BY <1>2, <1>3, <1>5 DEF Entry

(* Mark: the entry tells of the chain and of the data.                     *)
LEMMA MarkFits == OInv /\ Mark /\ Head(todo).file \notin torn => OInv'
<1> SUFFICES ASSUME OInv, Mark, Head(todo).file \notin torn PROVE OInv'
  OBVIOUS
<1>1. PICK f \in Files : InCall(f) /\ Head(todo).file = f /\ FileOK(f) /\ CardOK(f)
  BY CallOf DEF Mark, Doing
<1> DEFINE e == Written(f, ~fh[f].marked)
<1>2. /\ todo # << >> /\ Head(todo).do = "mark" /\ card' = card /\ torn' = torn /\ fh' = fh
      /\ mem' = [mem EXCEPT !.entry[f] = e]
      /\ dirty' = Used(f) /\ todo' = Tail(todo)
  BY <1>1 DEF Mark, Doing
<1>3. TypeOK /\ DirtyOK
  BY DEF OInv
<1>4. Sealed(f) \/ Unsealing(f) \/ Begins(f) \/ PutDone(f)
  BY <1>1, <1>2, Heads DEF InCall, Strays
<1>5. Live(f) /\ (Begins(f) \/ HasFirst(f))
  BY <1>4 DEF Sealed, Unsealing, Begins, PutDone, Writer
<1>6. PICK first : first = fh[f].first
  OBVIOUS
<1>7. Whole(mem.fat, first)
  <2>1. CASE Begins(f)
    BY <2>1, <1>6 DEF Begins, HasNew, Loose
  <2>2. CASE HasFirst(f)
    BY <2>2, <1>1, <1>5, <1>6 DEF HasFirst, FileOK
  <2> QED BY <2>1, <2>2, <1>5
<1>8. fh[f].marked \in BOOLEAN
  BY <1>3 DEF TypeOK, Handle
<1>9. e = [exists |-> TRUE, closed |-> ~fh[f].marked, first |-> first,
           holds |-> [k \in DOMAIN Chain(mem.fat, first) |->
                        mem.data[Chain(mem.fat, first)[k]]]]
  BY <1>5, <1>6 DEF Written, Live
<1>10. /\ e \in Entry /\ e.exists /\ e.first = first /\ (e.closed <=> ~fh[f].marked)
       /\ e.holds = [k \in DOMAIN Chain(mem.fat, first) |-> mem.data[Chain(mem.fat, first)[k]]]
  <2>1. PICK b \in BOOLEAN : b = ~fh[f].marked
    BY <1>8
  <2>2. e \in Entry
    <3>1. PICK x : x = [exists |-> TRUE, closed |-> b, first |-> first,
                        holds |-> [k \in DOMAIN Chain(mem.fat, first) |->
                                     mem.data[Chain(mem.fat, first)[k]]]]
      OBVIOUS
    <3>2. x \in Entry
      BY <3>1, <1>3, <1>7, EntryTypes
    <3>3. e = x
      BY <2>1, <3>1, <1>9, Zenon
    <3> QED BY <3>2, <3>3, Zenon
  <2>3. ASSUME NEW first2, NEW closed2, NEW holds2
        PROVE  LET x == [exists |-> TRUE, closed |-> closed2, first |-> first2, holds |-> holds2]
               IN  x.exists = TRUE /\ x.closed = closed2 /\ x.first = first2 /\ x.holds = holds2
    OBVIOUS
  <2> HIDE DEF e
  <2>4. /\ e.exists = TRUE /\ e.closed = ~fh[f].marked /\ e.first = first
        /\ e.holds = [k \in DOMAIN Chain(mem.fat, first) |-> mem.data[Chain(mem.fat, first)[k]]]
    BY <2>3, <1>9, Zenon
  <2> QED BY <2>2, <2>4, Zenon
<1> HIDE DEF e
<1>11. /\ mem' \in Image /\ mem'.fat = mem.fat /\ mem'.data = mem.data /\ mem'.entry[f] = e
       /\ \A g \in Files \ {f} : mem'.entry[g] = mem.entry[g]
  <2>1. PICK m : m = mem
    OBVIOUS
  <2>2. PICK m2 : m2 = mem'
    OBVIOUS
  <2>3. PICK x \in Entry : x = e
    BY <1>10
  <2>4. m \in Image /\ m2 = [m EXCEPT !.entry[f] = x]
    BY <2>1, <2>2, <2>3, <1>2, <1>3 DEF TypeOK
  <2>5. EntryChanged(m2, m, f, x)
    BY <2>4, SetEntry
  <2> QED BY <2>1, <2>2, <2>3, <2>5 DEF EntryChanged
<1>12. DirtyOK'
  BY <1>2, <1>3, <1>11, DirtyGrows
<1>13. TypeOK'
  <2>1. dirty' \in Seq(Files \cup Fats \cup Data)
    BY <1>2, <1>3, UsedFacts
  <2>2. todo' \in Seq(Item)
    BY <1>2, <1>3, TodoTypes
  <2> QED BY <2>1, <2>2, <1>2, <1>3, <1>11 DEF TypeOK, Item
<1>14. \A g \in Files \ {f} : Untouched(g)
  BY <1>2, <1>11 DEF Untouched
<1>15. Live(f)' /\ HasFirst(f)' /\ (mem'.entry[f].closed <=> ~fh'[f].marked)
  BY <1>2, <1>5, <1>6, <1>10, <1>11 DEF Live, HasFirst
<1>16. /\ FileChain(f)' = Chain(mem.fat, first) /\ Whole(mem.fat, mem.entry[f].first)'
       /\ Holding(f)' = e.holds
  <2>1. FileChain(f)' = Chain(mem.fat, first)
    BY <1>10, <1>11 DEF FileChain, ChainOn
  <2>2. Holding(f)' = e.holds
    BY <2>1, <1>10, <1>11 DEF Holding
  <2> QED BY <2>1, <2>2, <1>7, <1>10, <1>11
<1>17. HasFirst(f) => FileChain(f)' = FileChain(f)
  BY <1>6, <1>16 DEF HasFirst, FileChain, ChainOn
<1>18. FileOK(f)'
  <2>1. ASSUME mem'.entry[f].closed
        PROVE  Same(f)'
    <3>1. ~fh[f].marked
      BY <2>1, <1>2, <1>15
    <3>2. Sealed(f)
      BY <3>1, <1>4 DEF Unsealing, Begins, PutDone, Writer
    <3>3. Head(<<Do("flush", f), Do("mark", f), Do("flush", f)>>).do = "flush"
      BY DEF Do
    <3>4. dirty = << >>
      BY <3>2, <3>3, <1>2 DEF Sealed
    <3>5. \A c \in Data : mem.fat[c] = card.fat[c] /\ mem.data[c] = card.data[c]
      BY <3>4, <1>3, AllWritten
    <3>6. Set(FileChain(f)) \subseteq Data /\ HasFirst(f)
      BY <1>1, <1>5, <3>2, TakenIsNotFree DEF Sealed
    <3> QED BY <3>5, <3>6, <1>2, <1>11, <1>17 DEF Same
  <2>2. (fh'[f].marked => fh'[f].open) /\ (fh'[f].open => Live(f)')
    BY <1>1, <1>2, <1>15 DEF FileOK
  <2>3. mem'.entry[f].holds = Holding(f)'
    BY <1>11, <1>16
  <2> QED BY <2>1, <2>2, <2>3, <1>16 DEF FileOK
<1>19. CardOK(f)'
  <2>1. (Closed(f) => Kept(f)) /\ (card.entry[f].exists => mem.entry[f].exists)
    BY <1>2, NotEnding
  <2>2. Closed(f)' <=> Closed(f)
    BY <1>2 DEF Closed
  <2>3. Closed(f) => HasFirst(f)
    BY <1>5 DEF Begins, Opened, Closed
  <2>4. ASSUME Closed(f) PROVE Kept(f)'
    <3>1. FileChain(f)' = FileChain(f) /\ Kept(f) /\ HasFirst(f)
      BY <2>1, <2>3, <2>4, <1>17
    <3>2. Same(f)'
      BY <3>1, <1>2, <1>11 DEF Same, Kept
    <3>3. Holding(f)' = Holding(f)
      BY <3>1, <1>11 DEF Holding
    <3>4. mem'.entry[f].first = mem.entry[f].first
      BY <3>1, <1>6, <1>10, <1>11 DEF HasFirst
    <3> QED BY <3>1, <3>2, <3>3, <3>4, <1>2, <1>10, <1>11 DEF Kept
  <2>5. mem'.entry[f].exists
    BY <1>10, <1>11
  <2> QED BY <2>2, <2>4, <2>5 DEF CardOK
<1>20. \A g \in Files \ {f} :
         Live(g) /\ Live(f)' => Set(FileChain(g)) \cap Set(FileChain(f)') = {}
  <2> SUFFICES ASSUME NEW g \in Files \ {f}, Live(g)
               PROVE  Set(FileChain(g)) \cap Set(FileChain(f)') = {}
    OBVIOUS
  <2>1. CASE HasFirst(f)
    <3>1. Apart(g, f)
      BY DEF OInv
    <3> QED BY <3>1, <2>1, <1>5, <1>17 DEF Apart
  <2>2. CASE Begins(f)
    BY <2>2, <1>6, <1>16 DEF Begins, HasNew, Loose
  <2> QED BY <2>1, <2>2, <1>5
<1>21. (todo' = << >> /\ Ready(f)') \/ InCall(f)'
  <2>1. CASE Sealed(f)
    <3>1. Head(<<Do("flush", f), Do("mark", f), Do("flush", f)>>).do = "flush"
      BY DEF Do
    <3>2. todo = <<Do("mark", f), Do("flush", f)>> /\ ~fh[f].marked
      BY <3>1, <2>1, <1>2 DEF Sealed
    <3>3. todo' = <<Do("flush", f)>>
      BY <3>2, <1>2
    <3>4. Ready(f)'
      BY <3>2, <1>2, <1>15 DEF Ready
    <3> QED BY <3>3, <3>4 DEF InCall, Ended
  <2>2. CASE Unsealing(f)
    <3>1. Writer(f)' /\ ~mem'.entry[f].closed
      BY <2>2, <1>2, <1>15 DEF Unsealing, Writer
    <3>2. FileChain(f)' = FileChain(f)
      BY <2>2, <1>17 DEF Unsealing, Writer
    <3>3. Unsealed(f)'
      BY <3>1, <3>2, <2>2, <1>2 DEF Unsealing, Unsealed
    <3> QED BY <3>3 DEF InCall
  <2>3. CASE Begins(f)
    <3>1. todo' = <<Do("again", f), Do("flush", f), DoAt("put", f, 1), Do("mark", f)>>
      BY <2>3, <1>2 DEF Begins, Starting
    <3>2. Writer(f)'
      BY <2>3, <1>2, <1>15 DEF Begins, Writer
    <3>3. Opened(f)'
      BY <2>3, <1>2, <1>15 DEF Begins, Opened
    <3>4. Len(FileChain(f)') = 1
      <4>1. PICK fat : fat = mem.fat
        OBVIOUS
      <4>2. first \in Data /\ fat[first] = End
        BY <4>1, <2>3, <1>6 DEF Begins, HasNew
      <4>3. Chain(fat, first) = <<first>>
        BY <4>2, ChainOne
      <4> QED BY <4>1, <4>3, <1>16
    <3>5. Begun(f)'
      BY <3>1, <3>2, <3>3, <3>4 DEF Begun
    <3> QED BY <3>5 DEF InCall
  <2>4. CASE PutDone(f)
    <3>1. todo' = << >>
      BY <2>4, <1>2 DEF PutDone
    <3>2. Opened(f)'
      BY <2>4, <1>2, <1>15 DEF PutDone, Opened, Writer
    <3> QED BY <3>1, <3>2, <1>15 DEF Ready
  <2> QED BY <2>1, <2>2, <2>3, <2>4, <1>4
<1>22. (AtRest(f)' => Ready(f)') /\ (todo' = << >> \/ InCall(f)')
  BY <1>21, InCallNext
<1>23. \/ todo = << >> \/ Head(todo).do \notin {"release", "flush"} \/ dirty = << >>
  BY <1>2
<1> QED BY <1>1, <1>2, <1>12, <1>13, <1>14, <1>18, <1>19, <1>20, <1>22, <1>23, FitsAround

(* mcio_mcOpen of a new file                                               *)
LEMMA CreateFits == OInv /\ (\E f \in Files : Create(f)) => OInv'
<1> SUFFICES ASSUME OInv, NEW f \in Files, Create(f) PROVE OInv'
  OBVIOUS
<1> DEFINE e == [Gone EXCEPT !.exists = TRUE]
<1>1. /\ todo = << >> /\ ~mem.entry[f].exists
      /\ mem' = [mem EXCEPT !.entry[f] = e]
      /\ dirty' = Used(f) /\ card' = card
      /\ fh' = [fh EXCEPT ![f] = [NoHandle EXCEPT !.open = TRUE]]
      /\ todo' = <<Do("flush", f)>> /\ torn' = torn \ {f}
  BY DEF Create
<1>2. TypeOK /\ DirtyOK
  BY DEF OInv
<1>3. e \in Entry /\ e.exists /\ ~e.closed /\ e.first = Null
  <2>1. << >> \in [1 .. 0 -> Content] /\ 0 \in 0 .. MaxSize
    BY Constants
  <2>2. << >> \in UNION {[1 .. n -> Content] : n \in 0 .. MaxSize}
    BY <2>1
  <2> QED BY <2>2 DEF Gone, Entry
<1> HIDE DEF e
<1>4. /\ mem' \in Image /\ mem'.fat = mem.fat /\ mem'.data = mem.data /\ mem'.entry[f] = e
      /\ \A g \in Files \ {f} : mem'.entry[g] = mem.entry[g]
  <2>1. PICK m : m = mem
    OBVIOUS
  <2>2. PICK m2 : m2 = mem'
    OBVIOUS
  <2>3. PICK x \in Entry : x = e
    BY <1>3
  <2>4. m \in Image /\ m2 = [m EXCEPT !.entry[f] = x]
    BY <2>1, <2>2, <2>3, <1>1, <1>2 DEF TypeOK
  <2>5. EntryChanged(m2, m, f, x)
    BY <2>4, SetEntry
  <2> QED BY <2>1, <2>2, <2>3, <2>5 DEF EntryChanged
<1>5. /\ fh' \in [Files -> Handle] /\ fh'[f].open /\ ~fh'[f].marked /\ fh'[f].first = Null
      /\ \A g \in Files \ {f} : fh'[g] = fh[g]
  BY <1>1, <1>2 DEF TypeOK, Handle, NoHandle
<1>6. DirtyOK'
  BY <1>1, <1>2, <1>4, DirtyGrows
<1>7. TypeOK'
  <2>1. dirty' \in Seq(Files \cup Fats \cup Data)
    BY <1>1, <1>2, UsedFacts
  <2>2. todo' \in Seq(Item)
    <3>1. Do("flush", f) \in Item
      BY DEF Do, Item, Steps
    <3> QED BY <3>1, <1>1
  <2> QED BY <2>1, <2>2, <1>1, <1>2, <1>4, <1>5 DEF TypeOK, Item
<1>8. \A g \in Files \ {f} : Untouched(g)
  BY <1>1, <1>4, <1>5 DEF Untouched
<1>9. Live(f)' /\ Ready(f)'
  BY <1>1, <1>3, <1>4, <1>5 DEF Live, Ready, HasFirst
<1>10. FileChain(f)' = << >> /\ Set(FileChain(f)') = {} /\ Whole(mem.fat, mem.entry[f].first)'
  <2>1. PICK fat : fat = mem.fat
    OBVIOUS
  <2>2. Whole(fat, Null) /\ Chain(fat, Null) = << >> /\ Set(Chain(fat, Null)) = {}
    BY ChainNone
  <2> QED BY <2>1, <2>2, <1>3, <1>4 DEF FileChain, ChainOn
<1>11. FileOK(f)'
  BY <1>3, <1>4, <1>5, <1>9, <1>10 DEF FileOK
<1>12. CardOK(f)'
  <2>1. ~card.entry[f].exists
    BY <1>1, NotEnding
  <2> QED BY <2>1, <1>1 DEF CardOK, Closed
<1>13. InCall(f)' /\ ~AtRest(f)'
  <2>1. Ended(f)'
    BY <1>1, <1>9 DEF Ended
  <2> QED BY <2>1, InCallNext DEF InCall
<1> QED BY <1>1, <1>6, <1>7, <1>8, <1>10, <1>11, <1>12, <1>13, FitsAround

(* What a file that is kept has on the card.                               *)
LEMMA KeptIsIntact ==
  ASSUME NEW f \in Files, FileOK(f), Live(f), Kept(f)
  PROVE  /\ Whole(card.fat, card.entry[f].first) /\ ChainOn(card, f) = FileChain(f)
         /\ card.entry[f].holds =
              [k \in DOMAIN ChainOn(card, f) |-> card.data[ChainOn(card, f)[k]]]
<1>1. PICK first : first = mem.entry[f].first
  OBVIOUS
<1>2. PICK fat : fat = mem.fat
  OBVIOUS
<1>3. PICK fat2 : fat2 = card.fat
  OBVIOUS
<1>4. /\ Whole(fat, first) /\ FileChain(f) = Chain(fat, first) /\ card.entry[f].first = first
      /\ \A c \in Set(Chain(fat, first)) : fat2[c] = fat[c]
  BY <1>1, <1>2, <1>3 DEF FileOK, Kept, Same, FileChain, ChainOn
<1>5. Whole(fat2, first) /\ Chain(fat2, first) = Chain(fat, first)
  BY <1>4, ChainStable
<1>6. ChainOn(card, f) = FileChain(f)
  BY <1>3, <1>4, <1>5 DEF ChainOn
<1>7. card.entry[f].holds = [k \in DOMAIN FileChain(f) |-> card.data[FileChain(f)[k]]]
  <2>1. \A k \in DOMAIN FileChain(f) : FileChain(f)[k] \in Set(FileChain(f))
    <3>1. FileChain(f) \in Seq(Data)
      BY <1>4, ChainFacts
    <3> QED BY <3>1 DEF Set
  <2>2. \A k \in DOMAIN FileChain(f) : mem.data[FileChain(f)[k]] = card.data[FileChain(f)[k]]
    BY <2>1 DEF Kept, Same
  <2>3. card.entry[f].holds = [k \in DOMAIN FileChain(f) |-> mem.data[FileChain(f)[k]]]
    BY DEF Kept, Holding
  <2> QED BY <2>2, <2>3
<1> QED BY <1>3, <1>4, <1>5, <1>6, <1>7

(* Unname: the clusters are loose; the entry is the next to be written.    *)
LEMMA UnnameFits == OInv /\ Unname /\ Head(todo).file \notin torn => OInv'
<1> SUFFICES ASSUME OInv, Unname, Head(todo).file \notin torn PROVE OInv'
  OBVIOUS
<1>1. PICK f \in Files : InCall(f) /\ Head(todo).file = f /\ FileOK(f) /\ CardOK(f)
  BY CallOf DEF Unname, Doing
<1> DEFINE e == Gone
<1>2. TypeOK /\ DirtyOK
  BY DEF OInv
<1>3. /\ todo # << >> /\ Head(todo).do = "unname" /\ card' = card /\ torn' = torn /\ fh' = fh
      /\ mem' = [mem EXCEPT !.entry[f] = e]
      /\ dirty' = Used(f) /\ todo' = Tail(todo)
  BY <1>1 DEF Unname, Doing
<1>4. Leaves(f)
  BY <1>1, <1>3, Heads DEF InCall, Strays
<1>5. e \in Entry /\ ~e.exists
  BY GoneTypes
<1> HIDE DEF e
<1>7. /\ mem' \in Image /\ mem'.fat = mem.fat /\ mem'.data = mem.data /\ mem'.entry[f] = e
      /\ \A g \in Files \ {f} : mem'.entry[g] = mem.entry[g]
  <2>1. PICK m : m = mem
    OBVIOUS
  <2>2. PICK m2 : m2 = mem'
    OBVIOUS
  <2>3. PICK x \in Entry : x = e
    BY <1>5
  <2>4. m \in Image /\ m2 = [m EXCEPT !.entry[f] = x]
    BY <2>1, <2>2, <2>3, <1>2, <1>3 DEF TypeOK
  <2>5. EntryChanged(m2, m, f, x)
    BY <2>4, SetEntry
  <2> QED BY <2>1, <2>2, <2>3, <2>5 DEF EntryChanged
<1>8. DirtyOK'
  BY <1>2, <1>3, <1>7, DirtyGrows
<1>9. TypeOK'
  <2>1. dirty' \in Seq(Files \cup Fats \cup Data)
    BY <1>2, <1>3, UsedFacts
  <2>2. todo' \in Seq(Item)
    BY <1>2, <1>3, TodoTypes
  <2> QED BY <2>1, <2>2, <1>2, <1>3, <1>7 DEF TypeOK, Item
<1>10. \A g \in Files \ {f} : Untouched(g)
  BY <1>3, <1>7 DEF Untouched
<1>11. ~mem'.entry[f].exists /\ ~Live(f)' /\ ~fh'[f].open /\ ~fh'[f].marked
  BY <1>1, <1>3, <1>4, <1>5, <1>7 DEF Live, Leaves, FileOK
<1>12. FileOK(f)' /\ Ready(f)'
  BY <1>11 DEF FileOK, Ready
<1>13. \A g \in Files : Live(g)' => g # f /\ Live(g) /\ FileChain(g)' = FileChain(g)
  BY <1>3, <1>7, <1>11 DEF Live, FileChain, ChainOn
<1>14. /\ todo' # << >> /\ Head(todo').file = f /\ Head(todo').do \in {"release", "flush"}
       /\ InCall(f)'
  <2>1. CASE mem.entry[f].first = Null
    <3>1. todo' = <<Do("flush", f)>>
      <4>1. todo = <<Do("unname", f), Do("flush", f)>>
        BY <2>1, <1>4 DEF Leaves
      <4> QED BY <4>1, <1>3
    <3>2. Ended(f)'
      BY <3>1, <1>12 DEF Ended
    <3> QED BY <3>1, <3>2 DEF InCall, Do
  <2>2. CASE mem.entry[f].first # Null
    <3>1. PICK c \in Data : c = mem.entry[f].first
      BY <2>2, <1>2, ImageTypes DEF TypeOK
    <3>2. todo' = <<DoAt("release", f, c), Do("flush", f)>>
      <4>1. todo = <<Do("unname", f), DoAt("release", f, c), Do("flush", f)>>
        BY <3>1, <2>2, <1>4 DEF Leaves
      <4> QED BY <4>1, <1>3
    <3>3. Loose(c)'
      <4>1. Live(f)
        BY <1>4 DEF Leaves
      <4>2. Whole(mem.fat, c) /\ Chain(mem.fat, c) = FileChain(f)
        BY <4>1, <3>1, <1>1 DEF FileOK, FileChain, ChainOn
      <4>3. ASSUME NEW g \in Files, Live(g)'
            PROVE  Set(FileChain(g)') \cap Set(FileChain(f)) = {}
        <5>1. Live(g) /\ g # f /\ FileChain(g)' = FileChain(g) /\ Apart(g, f)
          BY <4>3, <1>13 DEF OInv
        <5> QED BY <5>1, <4>1 DEF Apart
      <4> QED BY <4>2, <4>3, <1>7 DEF Loose
    <3>4. Frees(f)'
      BY <3>2, <3>3, <1>1, <1>3, <1>11 DEF Frees
    <3> QED BY <3>2, <3>4 DEF InCall, DoAt
  <2> QED BY <2>1, <2>2
<1>15. Ending(f)'
  BY <1>14 DEF Ending
<1>16. CardOK(f)'
  <2>1. ASSUME Closed(f)' PROVE Leaving(f)'
    <3>1. Closed(f) /\ f \notin torn
      BY <2>1, <1>3 DEF Closed
    <3>2. Kept(f) /\ Live(f)
      BY <3>1, <1>3, NotEnding
    <3>3. dirty = << >>
      BY <3>1, <1>4 DEF Leaves
    <3>4. dirty' # << >> /\ Head(dirty') = f
      BY <3>3, <1>2, <1>3, UsedFacts
    <3>5. /\ Whole(card.fat, card.entry[f].first) /\ ChainOn(card, f) = FileChain(f)
          /\ card.entry[f].holds =
               [k \in DOMAIN ChainOn(card, f) |-> card.data[ChainOn(card, f)[k]]]
      BY <3>2, <1>1, KeptIsIntact
    <3>6. ASSUME NEW g \in Files, Live(g)'
          PROVE  Set(FileChain(g)') \cap Set(FileChain(f)) = {}
      <4>1. Live(g) /\ g # f /\ FileChain(g)' = FileChain(g) /\ Apart(g, f)
        BY <3>6, <1>13 DEF OInv
      <4> QED BY <4>1, <3>2 DEF Apart
    <3>7. Intact(f)'
      BY <3>5, <3>6, <1>3 DEF Intact, ChainOn
    <3> QED BY <3>4, <3>7, <1>11, <1>15 DEF Leaving
  <2> QED BY <2>1, <1>15 DEF CardOK
<1>17. \/ todo = << >> \/ Head(todo).do \notin {"release", "flush"} \/ dirty = << >>
  BY <1>3
<1> QED BY <1>1, <1>3, <1>8, <1>9, <1>10, <1>11, <1>12, <1>14, <1>16, <1>17, FitsAround

(* Release: the rest of the chain stays loose.                             *)
LEMMA ReleaseFits == OInv /\ Release /\ Head(todo).file \notin torn => OInv'
<1> SUFFICES ASSUME OInv, Release, Head(todo).file \notin torn PROVE OInv'
  OBVIOUS
<1>1. PICK f \in Files : InCall(f) /\ Head(todo).file = f /\ FileOK(f) /\ CardOK(f)
  BY CallOf DEF Release, Doing
<1>2. TypeOK /\ DirtyOK
  BY DEF OInv
<1>3. todo # << >> /\ Head(todo).do = "release"
  BY DEF Release, Doing
<1>4. Frees(f)
  BY <1>1, <1>3, Heads DEF InCall, Strays
<1>5. PICK c \in Data : Loose(c) /\ todo = <<DoAt("release", f, c), Do("flush", f)>>
  BY <1>4 DEF Frees
<1>6. Head(todo).at = c /\ Tail(todo) = <<Do("flush", f)>>
  BY <1>5 DEF DoAt
<1>8. PICK next : next = mem.fat[c]
  OBVIOUS
<1>0. /\ card' = card /\ torn' = torn /\ fh' = fh
      /\ mem' = [mem EXCEPT !.fat[c] = Free]
      /\ dirty' = Used(FatOf[c])
      /\ todo' = IF next \in Data THEN <<DoAt("release", f, next)>> \o Tail(todo) ELSE Tail(todo)
  <2>1. f \notin torn /\ Hit(f, c) = {}
    BY <1>1 DEF Hit
  <2>2. mem.fat[c] # Free
    <3>1. PICK fat : fat = mem.fat
      OBVIOUS
    <3>2. Whole(fat, c) /\ c # Null
      BY <3>1, <1>5, Constants DEF Loose
    <3>3. c \in Set(Chain(fat, c)) /\ \A d \in Set(Chain(fat, c)) : fat[d] # Free
      BY <3>2, ChainFacts
    <3> QED BY <3>1, <3>3
  <2>3. Following(c) = {next}
    BY <2>2, <1>8 DEF Following
  <2>4. /\ card' = card /\ torn' = torn \cup Hit(f, c) /\ fh' = fh
        /\ mem' = [mem EXCEPT !.fat[c] = Free]
        /\ dirty' = Used(FatOf[c])
        /\ \E x \in Following(c) :
             todo' = IF x \in Data THEN <<DoAt("release", f, x)>> \o Tail(todo) ELSE Tail(todo)
    BY <1>1, <1>6 DEF Release
  <2>5. PICK x \in Following(c) :
          todo' = IF x \in Data THEN <<DoAt("release", f, x)>> \o Tail(todo) ELSE Tail(todo)
    BY <2>4
  <2>6. x = next
    BY <2>3, <2>5
  <2> QED BY <2>1, <2>4, <2>5, <2>6
<1>7. /\ mem' \in Image /\ mem'.entry = mem.entry /\ mem'.data = mem.data
      /\ mem'.fat = [mem.fat EXCEPT ![c] = Free]
      /\ \A d \in Data \ {c} : mem'.fat[d] = mem.fat[d]
  <2>1. PICK m : m = mem
    OBVIOUS
  <2>2. PICK m2 : m2 = mem'
    OBVIOUS
  <2>3. m \in Image /\ m2 = [m EXCEPT !.fat[c] = Free] /\ Free \in Data \cup {Free, End}
    BY <2>1, <2>2, <1>2, <1>0, <1>6 DEF TypeOK
  <2>4. FatChanged(m2, m, c, Free)
    BY <2>3, SetFat
  <2> QED BY <2>1, <2>2, <2>4 DEF FatChanged
<1>9. /\ c \in Set(Chain(mem.fat, c))
      /\ next \in Data => /\ Whole(mem'.fat, next)
                          /\ Set(Chain(mem'.fat, next)) \subseteq Set(Chain(mem.fat, c)) \ {c}
  <2>1. PICK fat : fat = mem.fat
    OBVIOUS
  <2>2. PICK fat2 : fat2 = mem'.fat
    OBVIOUS
  <2>3. /\ fat \in [Data -> Data \cup {Free, End}] /\ Whole(fat, c)
        /\ fat2 = [fat EXCEPT ![c] = Free] /\ next = fat[c]
    BY <2>1, <2>2, <1>2, <1>5, <1>7, <1>8, ImageTypes DEF TypeOK, Loose
  <2>4. /\ c \in Set(Chain(fat, c))
        /\ fat[c] \in Data => /\ Whole(fat2, fat[c])
                              /\ Set(Chain(fat2, fat[c])) \subseteq Set(Chain(fat, c)) \ {c}
    BY <2>3, ChainShrinks
  <2> QED BY <2>1, <2>2, <2>3, <2>4
<1>10. FatOf[c] \in Fats /\ FatOf[c] \in Files \cup Fats \cup Data /\ FatOf[c] \notin Files
  BY OrderAssumption
<1>11. dirty' = Used(FatOf[c])
  BY <1>0
<1>12. DirtyOK'
  <2>1. \A d \in Data : FatOf[d] # FatOf[c] => d \in Data \ {c}
    OBVIOUS
  <2> QED BY <2>1, <1>2, <1>0, <1>7, <1>10, <1>11, DirtyGrows
<1>13. todo' = IF next \in Data THEN <<DoAt("release", f, next), Do("flush", f)>>
               ELSE <<Do("flush", f)>>
  <2>1. CASE next \in Data
    <3>1. DoAt("release", f, next) \in Item /\ Do("flush", f) \in Item
      BY <2>1 DEF Do, DoAt, Item, Steps
    <3>2. <<DoAt("release", f, next)>> \o <<Do("flush", f)>>
            = <<DoAt("release", f, next), Do("flush", f)>>
      BY <3>1, Join1
    <3> QED BY <3>2, <2>1, <1>0, <1>6, <1>8
  <2>2. CASE next \notin Data
    BY <2>2, <1>0, <1>6, <1>8
  <2> QED BY <2>1, <2>2
<1>14. TypeOK'
  <2>1. dirty' \in Seq(Files \cup Fats \cup Data)
    BY <1>2, <1>10, <1>11, UsedFacts
  <2>2. todo' \in Seq(Item)
    <3>1. Do("flush", f) \in Item /\ (next \in Data => DoAt("release", f, next) \in Item)
      BY DEF Do, DoAt, Item, Steps
    <3> QED BY <3>1, <1>13
  <2> QED BY <2>1, <2>2, <1>2, <1>0, <1>7 DEF TypeOK, Item
<1>15. ASSUME NEW g \in Files
       PROVE  /\ FileOK(g)' /\ (Live(g)' <=> Live(g)) /\ (Closed(g)' <=> Closed(g))
              /\ Live(g) => FileChain(g)' = FileChain(g)
              /\ Live(g) /\ Kept(g) => Kept(g)'
              /\ Ready(g) => Ready(g)'
  <2>1. Live(g) => \A d \in Set(FileChain(g)) : d \in Data /\ d # c
    <3>1. Live(g) => \A d \in Set(FileChain(g)) : d \in Data
      BY TakenIsNotFree DEF OInv
    <3>2. Live(g) => Set(FileChain(g)) \cap Set(Chain(mem.fat, c)) = {}
      BY <1>5 DEF Loose
    <3> QED BY <3>1, <3>2, <1>9
  <2>2. Untouched(g)
    BY <2>1, <1>0, <1>7 DEF Untouched
  <2> QED BY <2>2, <1>0, Stays DEF OInv
<1>16. /\ todo' # << >> /\ Head(todo').file = f /\ Head(todo').do \in {"release", "flush"}
       /\ InCall(f)'
  <2>1. CASE next \in Data
    <3>1. todo' = <<DoAt("release", f, next), Do("flush", f)>>
      BY <2>1, <1>13
    <3>2. Loose(next)'
      <4>1. ASSUME NEW g \in Files, Live(g)'
            PROVE  Set(FileChain(g)') \cap Set(Chain(mem'.fat, next)) = {}
        <5>1. Live(g) /\ FileChain(g)' = FileChain(g)
          BY <4>1, <1>15
        <5>2. Set(FileChain(g)) \cap Set(Chain(mem.fat, c)) = {}
          BY <5>1, <1>5 DEF Loose
        <5> QED BY <5>1, <5>2, <2>1, <1>9
      <4> QED BY <4>1, <2>1, <1>9 DEF Loose
    <3>3. Frees(f)'
      BY <3>1, <3>2, <2>1, <1>0, <1>4, <1>7 DEF Frees
    <3> QED BY <3>1, <3>3 DEF InCall, DoAt
  <2>2. CASE next \notin Data
    <3>1. todo' = <<Do("flush", f)>>
      BY <2>2, <1>13
    <3>2. Ready(f)'
      <4>1. ~fh[f].open /\ ~fh[f].marked
        BY <1>1, <1>4 DEF FileOK, Frees, Live
      <4> QED BY <4>1, <1>0 DEF Ready
    <3>3. Ended(f)'
      BY <3>1, <3>2 DEF Ended
    <3> QED BY <3>1, <3>3 DEF InCall, Do
  <2> QED BY <2>1, <2>2
<1>17. ASSUME NEW g \in Files
       PROVE  CardOK(g)'
  <2>1. CardOK(g) /\ (Ending(g) => g = f /\ Ending(g)')
    BY <1>1, <1>16 DEF OInv, Ending
  <2>2. Kept(g) /\ Closed(g) => Kept(g)'
    BY <1>15 DEF Kept, Closed, Live
  <2>3. ASSUME Leaving(g) PROVE Leaving(g)'
    <3>1. dirty # << >> /\ Head(dirty) = g /\ Intact(g) /\ ~mem.entry[g].exists /\ Ending(g)'
      BY <2>1, <2>3 DEF Leaving
    <3>2. dirty' # << >> /\ Head(dirty') = g
      <4>1. Head(dirty) # FatOf[c]
        BY <3>1, <1>10
      <4> QED BY <4>1, <3>1, <1>2, <1>10, <1>11, UsedFacts
    <3>3. Intact(g)'
      BY <3>1, <1>0, <1>15 DEF Intact, ChainOn
    <3> QED BY <3>1, <3>2, <3>3, <1>7 DEF Leaving
  <2> QED BY <2>1, <2>2, <2>3, <1>0, <1>7, <1>15 DEF CardOK
<1>18. ASSUME NEW g \in Files, NEW h \in Files
       PROVE  Apart(g, h)'
  <2>1. Apart(g, h)
    BY DEF OInv
  <2> QED BY <2>1, <1>15 DEF Apart
<1>19. ASSUME NEW g \in Files, AtRest(g)'
       PROVE  Ready(g)'
  <2>1. AtRest(g)
    BY <1>1, <1>16, <1>19 DEF AtRest
  <2>2. Ready(g)
    BY <2>1 DEF OInv
  <2> QED BY <2>2, <1>15
<1> QED BY <1>12, <1>14, <1>15, <1>16, <1>17, <1>18, <1>19 DEF OInv

-----------------------------------------------------------------------------
(* Calls on torn files                                                     *)

(* What is left of a call after one of its changes.                        *)
LEMMA OrderlyTail ==
  ASSUME NEW t \in Seq(Item), t # << >>, NEW f, Orderly(t, f)
  PROVE  LET s == Tail(t)
         IN  /\ Orderly(s, f)
             /\ s # << >> => /\ Head(s).file = f /\ Head(s).do \notin {"unname", "release"}
                             /\ Head(s).do = "link" => Head(t).do = "reserve"
<1> DEFINE s == Tail(t)
<1>1. /\ s \in Seq(Item) /\ Len(s) = Len(t) - 1 /\ Len(t) \in Nat
      /\ \A i \in 1 .. Len(s) : s[i] = t[i + 1] /\ i + 1 \in 1 .. Len(t) /\ i + 1 # 1
      /\ Head(t) = t[1]
  BY HeadTailProperties
<1>2. s # << >> => 1 \in 1 .. Len(s) /\ Head(s) = s[1]
  BY <1>1
<1> HIDE DEF s
<1>3. ASSUME NEW i \in 1 .. Len(s)
      PROVE  /\ s[i].file = f
             /\ s[i].do \in {"flush", "mark", "reserve", "link", "again", "put"}
             /\ s[i].do = "link" => s[i].at \in Data /\ t[i].do = "reserve"
  <2>1. PICK j \in 1 .. Len(t) : j = i + 1 /\ s[i] = t[j] /\ j # 1
    BY <1>1
  <2>2. j - 1 = i
    BY <2>1
  <2> QED BY <2>1, <2>2 DEF Orderly
<1>4. ASSUME NEW i \in 1 .. Len(s), i # 1
      PROVE  t[i] = s[i - 1]
  <2>1. i - 1 \in 1 .. Len(s) /\ (i - 1) + 1 = i
    BY <1>4, <1>1
  <2> QED BY <2>1, <1>1
<1>5. Orderly(s, f)
  BY <1>3, <1>4 DEF Orderly
<1> QED BY <1>1, <1>2, <1>3, <1>5 DEF s

(* The changes of a call that begins.                                      *)
StrayCall(t, f) ==
  t \in Seq(Item) /\ Orderly(t, f) /\ (t # << >> => Head(t).do # "link")

(* Two parts of a call, joined.                                            *)
LEMMA OrderlyJoin ==
  ASSUME NEW s, NEW t, NEW f, StrayCall(s, f), StrayCall(t, f)
  PROVE  StrayCall(s \o t, f)
<1> DEFINE x == s \o t
<1>1. /\ s \in Seq(Item) /\ t \in Seq(Item) /\ Len(s) \in Nat /\ Len(t) \in Nat
      /\ Orderly(s, f) /\ Orderly(t, f)
      /\ s # << >> => s[1].do # "link"
      /\ t # << >> => t[1].do # "link"
  BY DEF StrayCall
<1>2. /\ x \in Seq(Item) /\ Len(x) = Len(s) + Len(t)
      /\ \A i \in 1 .. Len(s) + Len(t) :
           x[i] = IF i <= Len(s) THEN s[i] ELSE t[i - Len(s)]
  BY <1>1, ConcatProperties, Zenon
<1> HIDE DEF x
<1>3. ASSUME NEW i \in 1 .. Len(x)
      PROVE  /\ x[i].file = f
             /\ x[i].do \in {"flush", "mark", "reserve", "link", "again", "put"}
             /\ x[i].do = "link" => x[i].at \in Data /\ i # 1 /\ x[i - 1].do = "reserve"
  <2>1. CASE i \in 1 .. Len(s)
    <3>1. x[i] = s[i] /\ (i # 1 => x[i - 1] = s[i - 1])
      BY <2>1, <1>1, <1>2
    <3>2. i = 1 => s[i].do # "link"
      BY <2>1, <1>1
    <3> QED BY <2>1, <3>1, <3>2, <1>1 DEF Orderly
  <2>2. CASE i \notin 1 .. Len(s)
    <3>1. PICK j \in 1 .. Len(t) : i = Len(s) + j
      <4>1. i - Len(s) \in 1 .. Len(t) /\ i = Len(s) + (i - Len(s))
        BY <2>2, <1>1, <1>2
      <4> QED BY <4>1
    <3>2. x[i] = t[j]
      <4>1. i - Len(s) = j /\ ~(i <= Len(s))
        BY <3>1, <1>1
      <4> QED BY <4>1, <1>2
    <3>4. ASSUME j # 1
          PROVE  i # 1 /\ x[i - 1] = t[j - 1]
      <4>1. /\ i - 1 \in 1 .. Len(x) /\ (i - 1) - Len(s) = j - 1 /\ ~(i - 1 <= Len(s))
            /\ i # 1
        BY <3>1, <3>4, <1>1, <1>2
      <4> QED BY <4>1, <1>2
    <3>3. j = 1 => t[j].do # "link"
      BY <3>1, <1>1
    <3> QED BY <3>1, <3>2, <3>3, <3>4, <1>1 DEF Orderly
  <2> QED BY <2>1, <2>2
<1>4. Orderly(x, f)
  BY <1>3 DEF Orderly
<1>5. x # << >> => Head(x).do # "link"
  <2>1. x # << >> => 1 \in 1 .. Len(x) /\ Head(x) = x[1]
    BY <1>2
  <2> QED BY <2>1, <1>3
<1> QED BY <1>2, <1>4, <1>5 DEF StrayCall, x

(* A call that has just begun on a torn file.                              *)
LEMMA StrayBegins ==
  ASSUME NEW f, StrayCall(todo, f), todo # << >>, f \in torn
  PROVE  InCall(f)
<1>1. Len(todo) \in Nat /\ 1 \in 1 .. Len(todo) /\ Head(todo) = todo[1]
  BY DEF StrayCall
<1>2. Straying(f)
  BY <1>1 DEF StrayCall, Straying, Orderly
<1> QED BY <1>2 DEF InCall, Strays

(* The same of the call that a step begins.                                *)
LEMMA StrayBegan ==
  ASSUME NEW f
  PROVE  (StrayCall(todo, f) /\ todo # << >> /\ f \in torn)' => InCall(f)'
<1>1. StrayCall(todo, f) /\ todo # << >> /\ f \in torn => InCall(f)
  BY StrayBegins
<1> QED BY <1>1, PTL

(* A change that a call on a torn file has made, and what is left.         *)
LEMMA StrayNext ==
  ASSUME TypeOK, NEW f \in Files, Strays(f), Head(todo).do \notin {"unname", "release"},
         todo' = Tail(todo), f \in torn',
         Head(todo).do = "reserve" => fh'[f].last \in Data
  PROVE  todo' = << >> \/ InCall(f)'
<1>1. Straying(f)
  <2>1. StrayLeaves(f) => Head(todo).do = "unname"
    BY DEF StrayLeaves, Do, DoAt
  <2>2. StrayFrees(f) => Head(todo).do = "release"
    BY DEF StrayFrees, DoAt
  <2> QED BY <2>1, <2>2 DEF Strays
<1>2. todo \in Seq(Item) /\ todo # << >> /\ Orderly(todo, f)
  BY <1>1, TodoTypes DEF Straying
<1>3. PICK t : t = todo
  OBVIOUS
<1>4. LET s == Tail(t)
      IN  /\ Orderly(s, f)
          /\ s # << >> => /\ Head(s).file = f /\ Head(s).do \notin {"unname", "release"}
                          /\ Head(s).do = "link" => Head(t).do = "reserve"
  BY <1>2, <1>3, OrderlyTail
<1>5. todo' # << >> => Straying(f)'
  BY <1>3, <1>4 DEF Straying
<1> QED BY <1>5 DEF InCall, Strays

(* A file that is not torn by a change of c has no cluster c.              *)
LEMMA Spared ==
  ASSUME OInv, NEW f \in Files, f \in torn, NEW c \in Data, torn' = torn \cup Hit(f, c),
         \A g \in Files : mem'.entry[g] = mem.entry[g],
         \A d \in Data \ {c} : mem'.fat[d] = mem.fat[d] /\ mem'.data[d] = mem.data[d],
         \A g \in Files \ {f} : fh'[g] = fh[g]
  PROVE  \A g \in Files : g \notin torn' => Untouched(g)
<1> SUFFICES ASSUME NEW g \in Files, g \notin torn' PROVE Untouched(g)
  OBVIOUS
<1>1. g # f /\ g \notin torn /\ g \notin Hit(f, c)
  OBVIOUS
<1>2. ASSUME Live(g)
      PROVE  \A d \in Set(FileChain(g)) : d \in Data \ {c}
  <2>1. FileOK(g)
    BY DEF OInv
  <2>2. \A d \in Set(FileChain(g)) : d \in Data
    BY <1>2, <2>1, TakenIsNotFree
  <2>3. FileChain(g) \in Seq(Data)
    <3>1. PICK first : first = mem.entry[g].first
      OBVIOUS
    <3>2. PICK fat : fat = mem.fat
      OBVIOUS
    <3>3. FileChain(g) = Chain(fat, first) /\ Whole(fat, first)
      BY <1>2, <2>1, <3>1, <3>2 DEF FileChain, ChainOn, FileOK
    <3> QED BY <3>3, ChainFacts
  <2>4. DOMAIN FileChain(g) = 1 .. Len(FileChain(g))
    BY <2>3
  <2>5. Set(FileChain(g)) = ClustersOn(mem, g)
    BY <2>4 DEF Set, ClustersOn, FileChain
  <2>6. c \notin ClustersOn(mem, g)
    BY <1>1, <1>2 DEF Hit, Live
  <2> QED BY <2>2, <2>5, <2>6
<1> QED BY <1>1, <1>2 DEF Untouched

(* The call in progress, on a torn file.                                   *)
LEMMA StrayOf ==
  ASSUME OInv, todo # << >>, Head(todo).file \in torn
  PROVE  \E f \in Files : Head(todo).file = f /\ f \in torn /\ Strays(f)
BY CallOf

(* A call that ends early, because the card is full or the chain does not  *)
(* lead to the place that is to be written.                                *)
LEMMA StrayGivesUp ==
  ASSUME OInv, NEW f \in Files, Head(todo).file = f, f \in torn, todo' = << >>,
         fh' = [fh EXCEPT ![f] = NoHandle], UNCHANGED <<mem, card, dirty, torn>>,
         card.entry[f].exists => mem.entry[f].exists
  PROVE  OInv'
<1>1. TypeOK /\ DirtyOK
  BY DEF OInv
<1>2. /\ fh' \in [Files -> Handle] /\ ~fh'[f].marked
      /\ \A g \in Files \ {f} : fh'[g] = fh[g]
  BY <1>1 DEF TypeOK, Handle, NoHandle
<1>3. DirtyOK'
  BY <1>1, DirtyStays
<1>4. TypeOK'
  BY <1>1, <1>2 DEF TypeOK
<1>5. \A g \in Files : g \notin torn' => Untouched(g)
  BY <1>2 DEF Untouched
<1> QED BY <1>2, <1>3, <1>4, <1>5, FitsTorn

(* A deletion that has let the entry go, after a step.                     *)
LEMMA StrayEnds ==
  ASSUME NEW f \in Files, f \in torn',
         \/ todo' = <<Do("flush", f)>>
         \/ \E c \in Data : todo' = <<DoAt("release", f, c), Do("flush", f)>>
  PROVE  InCall(f)' /\ Ending(f)'
<1>1. CASE todo' = <<Do("flush", f)>>
  <2>1. /\ todo' # << >> /\ Len(todo') = 1 /\ todo'[1] = Do("flush", f)
        /\ Head(todo') = Do("flush", f)
    BY <1>1
  <2>2. Straying(f)' /\ Ending(f)'
    BY <2>1 DEF Straying, Orderly, Ending, Do
  <2> QED BY <2>2 DEF InCall, Strays
<1>2. CASE \E c \in Data : todo' = <<DoAt("release", f, c), Do("flush", f)>>
  <2>1. PICK c \in Data : todo' = <<DoAt("release", f, c), Do("flush", f)>>
    BY <1>2
  <2>2. todo' # << >> /\ Head(todo') = DoAt("release", f, c)
    BY <2>1
  <2>3. Ending(f)'
    BY <2>2 DEF Ending, DoAt
  <2>4. StrayFrees(f)'
    BY <2>1 DEF StrayFrees
  <2> QED BY <2>3, <2>4 DEF InCall, Strays
<1> QED BY <1>1, <1>2

(* The image after a change of a cell.                                     *)
LEMMA CellSet ==
  ASSUME TypeOK, NEW c \in Data, NEW x \in Data \cup {Free, End}, mem' = [mem EXCEPT !.fat[c] = x]
  PROVE  /\ mem' \in Image /\ mem'.entry = mem.entry /\ mem'.data = mem.data
         /\ \A d \in Data \ {c} : mem'.fat[d] = mem.fat[d]
<1>1. PICK m : m = mem
  OBVIOUS
<1>2. PICK m2 : m2 = mem'
  OBVIOUS
<1>3. m \in Image /\ m2 = [m EXCEPT !.fat[c] = x]
  BY <1>1, <1>2 DEF TypeOK
<1>4. FatChanged(m2, m, c, x)
  BY <1>3, SetFat
<1> QED BY <1>1, <1>2, <1>4 DEF FatChanged

(* The same for an entry.                                                  *)
LEMMA EntrySet ==
  ASSUME TypeOK, NEW f \in Files, NEW e \in Entry, mem' = [mem EXCEPT !.entry[f] = e]
  PROVE  /\ mem' \in Image /\ mem'.fat = mem.fat /\ mem'.data = mem.data /\ mem'.entry[f] = e
         /\ \A g \in Files \ {f} : mem'.entry[g] = mem.entry[g]
<1>1. PICK m : m = mem
  OBVIOUS
<1>2. PICK m2 : m2 = mem'
  OBVIOUS
<1>3. m \in Image /\ m2 = [m EXCEPT !.entry[f] = e]
  BY <1>1, <1>2 DEF TypeOK
<1>4. EntryChanged(m2, m, f, e)
  BY <1>3, SetEntry
<1> QED BY <1>1, <1>2, <1>4 DEF EntryChanged

(* The cluster of the FAT that is to be written after a change of a cell.  *)
LEMMA CellDirty ==
  ASSUME TypeOK, DirtyOK, NEW c \in Data, card' = card, dirty' = Used(FatOf[c]),
         mem'.entry = mem.entry, mem'.data = mem.data,
         \A d \in Data \ {c} : mem'.fat[d] = mem.fat[d]
  PROVE  DirtyOK' /\ dirty' \in Seq(Files \cup Fats \cup Data)
<1>1. FatOf[c] \in Files \cup Fats \cup Data
  BY OrderAssumption
<1>2. \A d \in Data : FatOf[d] # FatOf[c] => d \in Data \ {c}
  OBVIOUS
<1>3. DirtyOK'
  BY <1>1, <1>2, DirtyGrows
<1> QED BY <1>1, <1>3, UsedFacts

(* Flush                                                                   *)
LEMMA FlushStrays == OInv /\ Flush /\ Head(todo).file \in torn => OInv'
<1> SUFFICES ASSUME OInv, Flush, Head(todo).file \in torn PROVE OInv'
  OBVIOUS
<1>1. /\ todo # << >> /\ Head(todo).do = "flush" /\ dirty = << >> /\ todo' = Tail(todo)
      /\ mem' = mem /\ card' = card /\ dirty' = dirty /\ fh' = fh /\ torn' = torn
      /\ TypeOK /\ DirtyOK
  BY DEF Flush, Doing, Flushed, OInv
<1>2. PICK f \in Files : Head(todo).file = f /\ f \in torn /\ Strays(f) /\ FileOK(f)
  BY <1>1, StrayOf DEF OInv
<1>3. DirtyOK'
  BY <1>1, DirtyStays
<1>4. TypeOK'
  <2>1. todo' \in Seq(Item)
    BY <1>1, TodoTypes
  <2> QED BY <2>1, <1>1 DEF TypeOK, Item
<1>5. \A g \in Files : Untouched(g)
  BY <1>1 DEF Untouched
<1>6. card.entry[f].exists => mem.entry[f].exists
  BY <1>1, NotEnding
<1>7. todo' = << >> \/ InCall(f)'
  BY <1>1, <1>2, StrayNext
<1> QED BY <1>1, <1>2, <1>3, <1>4, <1>5, <1>6, <1>7, FitsTorn DEF FileOK

(* Again                                                                   *)
LEMMA AgainStrays == OInv /\ Again /\ Head(todo).file \in torn => OInv'
<1> SUFFICES ASSUME OInv, Again, Head(todo).file \in torn PROVE OInv'
  OBVIOUS
<1>1. /\ todo # << >> /\ Head(todo).do = "again" /\ todo' = Tail(todo)
      /\ mem' = mem /\ card' = card /\ torn' = torn
      /\ TypeOK /\ DirtyOK
  BY DEF Again, Doing, OInv
<1>2. PICK f \in Files : Head(todo).file = f /\ f \in torn /\ Strays(f) /\ FileOK(f)
  BY <1>1, StrayOf DEF OInv
<1>3. /\ fh' = [fh EXCEPT ![f].last = Null]
      /\ dirty' = dirty \/ (FatOf[fh[f].last] \in Set(dirty) /\ dirty' = Used(FatOf[fh[f].last]))
  <2>1. DOMAIN dirty = 1 .. Len(dirty)
    BY <1>1 DEF TypeOK
  <2> QED BY <1>2, <2>1 DEF Again, Set
<1>4. /\ fh' \in [Files -> Handle] /\ (fh'[f].marked => fh'[f].open)
      /\ \A g \in Files \ {f} : fh'[g] = fh[g]
  <2>1. fh[f].marked => fh[f].open
    BY <1>2 DEF FileOK
  <2> QED BY <2>1, <1>1, <1>3 DEF TypeOK, Handle
<1>5. dirty' \in Seq(Files \cup Fats \cup Data) /\ Set(dirty') = Set(dirty)
  <2>1. CASE dirty' = dirty
    BY <2>1, <1>1 DEF TypeOK
  <2>2. CASE dirty' # dirty
    <3>1. PICK u : u = FatOf[fh[f].last]
      OBVIOUS
    <3>2. u \in Set(dirty) /\ dirty' = Used(u)
      BY <3>1, <2>2, <1>3
    <3>3. u \in Files \cup Fats \cup Data
      BY <3>2, <1>1 DEF TypeOK, Set
    <3> QED BY <3>2, <3>3, <1>1, UsedFacts
  <2> QED BY <2>1, <2>2
<1>6. DirtyOK'
  BY <1>1, <1>5, DirtyStays
<1>7. TypeOK'
  <2>1. todo' \in Seq(Item)
    BY <1>1, TodoTypes
  <2> QED BY <2>1, <1>1, <1>4, <1>5 DEF TypeOK, Item
<1>8. \A g \in Files : g \notin torn' => Untouched(g)
  BY <1>1, <1>2, <1>4 DEF Untouched
<1>9. card.entry[f].exists => mem.entry[f].exists
  BY <1>1, NotEnding
<1>10. todo' = << >> \/ InCall(f)'
  BY <1>1, <1>2, StrayNext
<1> QED BY <1>1, <1>2, <1>4, <1>6, <1>7, <1>8, <1>9, <1>10, FitsTorn

(* Reserve: a free cluster is that of no file.                             *)
LEMMA ReserveStrays == OInv /\ Reserve /\ Head(todo).file \in torn => OInv'
<1> SUFFICES ASSUME OInv, Reserve, Head(todo).file \in torn PROVE OInv'
  OBVIOUS
<1>1. /\ todo # << >> /\ Head(todo).do = "reserve" /\ card' = card /\ torn' = torn
      /\ TypeOK /\ DirtyOK
  BY DEF Reserve, Doing, OInv
<1>2. PICK f \in Files : Head(todo).file = f /\ f \in torn /\ Strays(f) /\ FileOK(f)
  BY <1>1, StrayOf DEF OInv
<1>3. card.entry[f].exists => mem.entry[f].exists
  BY <1>1, NotEnding
<1>4. CASE \E c \in Data :
             /\ mem.fat[c] = Free
             /\ mem' = [mem EXCEPT !.fat[c] = End]
             /\ fh' = [fh EXCEPT ![f].last = c, ![f].first = IF @ = Null THEN c ELSE @]
             /\ dirty' = Used(FatOf[c])
             /\ todo' = Tail(todo)
  <2>1. PICK c \in Data :
             /\ mem.fat[c] = Free
             /\ mem' = [mem EXCEPT !.fat[c] = End]
             /\ fh' = [fh EXCEPT ![f].last = c, ![f].first = IF @ = Null THEN c ELSE @]
             /\ dirty' = Used(FatOf[c])
             /\ todo' = Tail(todo)
    BY <1>4
  <2>2. /\ mem' \in Image /\ mem'.entry = mem.entry /\ mem'.data = mem.data
        /\ \A d \in Data \ {c} : mem'.fat[d] = mem.fat[d]
    <3>1. PICK m : m = mem
      OBVIOUS
    <3>2. PICK m2 : m2 = mem'
      OBVIOUS
    <3>3. m \in Image /\ End \in Data \cup {Free, End} /\ m2 = [m EXCEPT !.fat[c] = End]
      BY <3>1, <3>2, <2>1, <1>1 DEF TypeOK
    <3>4. FatChanged(m2, m, c, End)
      BY <3>3, SetFat
    <3> QED BY <3>1, <3>2, <3>4 DEF FatChanged
  <2>3. /\ fh' \in [Files -> Handle] /\ fh'[f].last = c /\ (fh'[f].marked => fh'[f].open)
        /\ \A g \in Files \ {f} : fh'[g] = fh[g]
    <3>1. fh[f].marked => fh[f].open
      BY <1>2 DEF FileOK
    <3> QED BY <3>1, <2>1, <1>1 DEF TypeOK, Handle
  <2>4. FatOf[c] \in Files \cup Fats \cup Data
    BY OrderAssumption
  <2>5. DirtyOK'
    <3>1. \A d \in Data : FatOf[d] # FatOf[c] => d \in Data \ {c}
      OBVIOUS
    <3> QED BY <3>1, <2>1, <2>2, <2>4, <1>1, DirtyGrows
  <2>6. TypeOK'
    <3>1. dirty' \in Seq(Files \cup Fats \cup Data)
      BY <2>1, <2>4, <1>1, UsedFacts
    <3>2. todo' \in Seq(Item)
      BY <2>1, <1>1, TodoTypes
    <3> QED BY <2>2, <2>3, <3>1, <3>2, <1>1 DEF TypeOK, Item
  <2>7. ASSUME NEW g \in Files, Live(g)
        PROVE  \A d \in Set(FileChain(g)) : d \in Data \ {c}
    <3>1. \A d \in Set(FileChain(g)) : d \in Data /\ mem.fat[d] # Free
      BY <2>7, TakenIsNotFree DEF OInv
    <3> QED BY <3>1, <2>1
  <2>8. \A g \in Files : g \notin torn' => Untouched(g)
    BY <2>2, <2>3, <2>7, <1>1, <1>2 DEF Untouched
  <2>9. todo' = << >> \/ InCall(f)'
    BY <2>1, <2>3, <1>1, <1>2, StrayNext
  <2> QED BY <2>2, <2>3, <2>5, <2>6, <2>8, <2>9, <1>1, <1>2, <1>3, FitsTorn
<1>5. CASE fh' = [fh EXCEPT ![f] = NoHandle] /\ todo' = << >> /\ UNCHANGED <<mem, dirty>>
  BY <1>1, <1>2, <1>3, <1>5, StrayGivesUp
<1> QED BY <1>2, <1>4, <1>5 DEF Reserve

(* Link                                                                    *)
LEMMA LinkStrays == OInv /\ Link /\ Head(todo).file \in torn => OInv'
<1> SUFFICES ASSUME OInv, Link, Head(todo).file \in torn PROVE OInv'
  OBVIOUS
<1>1. /\ todo # << >> /\ Head(todo).do = "link" /\ card' = card /\ fh' = fh /\ todo' = Tail(todo)
      /\ TypeOK /\ DirtyOK
  BY DEF Link, Doing, OInv
<1>2. PICK f \in Files : Head(todo).file = f /\ f \in torn /\ Strays(f) /\ FileOK(f)
  BY <1>1, StrayOf DEF OInv
<1>3. card.entry[f].exists => mem.entry[f].exists
  BY <1>1, NotEnding
<1>4. Head(todo).at \in Data /\ fh[f].last \in Data
  <2>1. Straying(f)
    <3>1. StrayLeaves(f) => Head(todo).do = "unname"
      BY DEF StrayLeaves, Do, DoAt
    <3>2. StrayFrees(f) => Head(todo).do = "release"
      BY DEF StrayFrees, DoAt
    <3> QED BY <3>1, <3>2, <1>1, <1>2 DEF Strays
  <2>2. todo \in Seq(Item)
    BY <1>1, TodoTypes
  <2>3. 1 \in 1 .. Len(todo) /\ Head(todo) = todo[1]
    BY <2>2, <1>1
  <2> QED BY <2>1, <2>3, <1>1 DEF Straying, Orderly
<1>5. PICK c \in Data, x \in Data : c = Head(todo).at /\ x = fh[f].last
  BY <1>4
<1>6. /\ mem' = [mem EXCEPT !.fat[c] = x] /\ dirty' = Used(FatOf[c])
      /\ torn' = torn \cup Hit(f, c)
  BY <1>2, <1>5 DEF Link
<1>7. \A g \in Files : Hit(g, c) \subseteq Files
  BY DEF Hit
<1>8. mem' \in Image /\ mem'.entry = mem.entry /\ mem'.data = mem.data
      /\ \A d \in Data \ {c} : mem'.fat[d] = mem.fat[d]
  BY <1>1, <1>6, CellSet
<1>9. DirtyOK' /\ dirty' \in Seq(Files \cup Fats \cup Data)
  BY <1>1, <1>6, <1>8, CellDirty
<1>10. TypeOK'
  <2>1. todo' \in Seq(Item)
    BY <1>1, TodoTypes
  <2> QED BY <2>1, <1>1, <1>6, <1>7, <1>8, <1>9 DEF TypeOK, Item
<1>11. \A g \in Files : g \notin torn' => Untouched(g)
  BY <1>1, <1>2, <1>6, <1>8, Spared
<1>12. todo' = << >> \/ InCall(f)'
  BY <1>1, <1>2, <1>6, StrayNext
<1> QED BY <1>1, <1>2, <1>3, <1>6, <1>8, <1>9, <1>10, <1>11, <1>12, FitsTorn DEF FileOK

(* Put                                                                     *)
LEMMA PutStrays == OInv /\ Put /\ Head(todo).file \in torn => OInv'
<1> SUFFICES ASSUME OInv, Put, Head(todo).file \in torn PROVE OInv'
  OBVIOUS
<1>1. todo # << >> /\ Head(todo).do = "put" /\ card' = card /\ TypeOK /\ DirtyOK
  BY DEF Put, Doing, OInv
<1>2. PICK f \in Files : Head(todo).file = f /\ f \in torn /\ Strays(f) /\ FileOK(f)
  BY <1>1, StrayOf DEF OInv
<1>3. card.entry[f].exists => mem.entry[f].exists
  BY <1>1, NotEnding
<1>4. CASE fh' = [fh EXCEPT ![f] = NoHandle] /\ todo' = << >> /\ UNCHANGED <<mem, dirty, torn>>
  BY <1>1, <1>2, <1>3, <1>4, StrayGivesUp
<1>5. CASE \E c \in Data :
             /\ mem' = [mem EXCEPT !.data[c] = Junk]
             /\ dirty' = Used(c) /\ torn' = torn \cup Hit(f, c)
             /\ todo' = Tail(todo) /\ fh' = fh
  <2>1. PICK c \in Data :
             /\ mem' = [mem EXCEPT !.data[c] = Junk]
             /\ dirty' = Used(c) /\ torn' = torn \cup Hit(f, c)
             /\ todo' = Tail(todo) /\ fh' = fh
    BY <1>5
  <2>2. /\ mem' \in Image /\ mem'.entry = mem.entry /\ mem'.fat = mem.fat
        /\ \A d \in Data \ {c} : mem'.data[d] = mem.data[d]
    <3>1. PICK m : m = mem
      OBVIOUS
    <3>2. PICK m2 : m2 = mem'
      OBVIOUS
    <3>3. m \in Image /\ Junk \in Content /\ m2 = [m EXCEPT !.data[c] = Junk]
      BY <3>1, <3>2, <2>1, <1>1 DEF TypeOK, Content
    <3>4. /\ m2 \in Image /\ m2.entry = m.entry /\ m2.fat = m.fat
          /\ \A d \in Data \ {c} : m2.data[d] = m.data[d]
      BY <3>3, SetData
    <3> QED BY <3>1, <3>2, <3>4
  <2>3. DirtyOK' /\ dirty' \in Seq(Files \cup Fats \cup Data)
    <3>1. c \in Files \cup Fats \cup Data
      OBVIOUS
    <3>2. DirtyOK'
      BY <3>1, <2>1, <2>2, <1>1, DirtyGrows
    <3> QED BY <3>1, <3>2, <2>1, <1>1, UsedFacts
  <2>4. TypeOK'
    <3>1. todo' \in Seq(Item)
      BY <2>1, <1>1, TodoTypes
    <3>2. Hit(f, c) \subseteq Files
      BY DEF Hit
    <3> QED BY <3>1, <3>2, <2>1, <2>2, <2>3, <1>1 DEF TypeOK, Item
  <2>5. \A g \in Files : g \notin torn' => Untouched(g)
    BY <2>1, <2>2, <1>2, Spared
  <2>6. todo' = << >> \/ InCall(f)'
    BY <2>1, <1>1, <1>2, StrayNext
  <2> QED BY <2>1, <2>2, <2>3, <2>4, <2>5, <2>6, <1>1, <1>2, <1>3, FitsTorn DEF FileOK
<1>6. Arrives(f, Head(todo).at) = Data
  BY <1>2 DEF Arrives
<1> QED BY <1>2, <1>4, <1>5, <1>6 DEF Put

(* Mark                                                                    *)
LEMMA MarkStrays == OInv /\ Mark /\ Head(todo).file \in torn => OInv'
<1> SUFFICES ASSUME OInv, Mark, Head(todo).file \in torn PROVE OInv'
  OBVIOUS
<1>1. /\ todo # << >> /\ Head(todo).do = "mark" /\ todo' = Tail(todo)
      /\ card' = card /\ fh' = fh /\ torn' = torn /\ TypeOK /\ DirtyOK
  BY DEF Mark, Doing, OInv
<1>2. PICK f \in Files : Head(todo).file = f /\ f \in torn /\ Strays(f) /\ FileOK(f)
  BY <1>1, StrayOf DEF OInv
<1>3. PICK e : e = Written(f, ~fh[f].marked)
  OBVIOUS
<1>4. mem' = [mem EXCEPT !.entry[f] = e] /\ dirty' = Used(f)
  BY <1>2, <1>3 DEF Mark
<1>5. e \in Entry /\ e.exists
  <2>1. PICK holds : e = [exists |-> TRUE, closed |-> ~fh[f].marked, first |-> fh[f].first,
                          holds |-> holds]
                     /\ holds = [k \in DOMAIN << >> |-> mem.data[<< >>[k]]]
    BY <1>2, <1>3 DEF Written
  <2>2. holds \in [1 .. 0 -> Content]
    BY <2>1
  <2>3. holds \in UNION {[1 .. n -> Content] : n \in 0 .. MaxSize}
    <3>1. 0 \in 0 .. MaxSize
      BY Constants
    <3> QED BY <3>1, <2>2
  <2>4. fh[f].first \in Data \cup {Null}
    BY <1>1 DEF TypeOK, Handle
  <2>5. PICK closed : closed = ~fh[f].marked
    OBVIOUS
  <2>6. closed \in BOOLEAN
    BY <2>5
  <2>7. e = [exists |-> TRUE, closed |-> closed, first |-> fh[f].first, holds |-> holds]
    BY <2>1, <2>5
  <2> QED BY <2>3, <2>4, <2>6, <2>7 DEF Entry
<1>6. /\ mem' \in Image /\ mem'.fat = mem.fat /\ mem'.data = mem.data /\ mem'.entry[f] = e
      /\ \A g \in Files \ {f} : mem'.entry[g] = mem.entry[g]
  BY <1>1, <1>4, <1>5, EntrySet
<1>7. DirtyOK'
  BY <1>1, <1>4, <1>6, DirtyGrows
<1>8. TypeOK'
  <2>1. dirty' \in Seq(Files \cup Fats \cup Data)
    BY <1>1, <1>4, UsedFacts
  <2>2. todo' \in Seq(Item)
    BY <1>1, TodoTypes
  <2> QED BY <2>1, <2>2, <1>1, <1>6 DEF TypeOK, Item
<1>9. \A g \in Files : g \notin torn' => Untouched(g)
  BY <1>1, <1>2, <1>6 DEF Untouched
<1>10. todo' = << >> \/ InCall(f)'
  BY <1>1, <1>2, StrayNext
<1> QED BY <1>1, <1>2, <1>5, <1>6, <1>7, <1>8, <1>9, <1>10, FitsTorn DEF FileOK

(* Unname                                                                  *)
LEMMA UnnameStrays == OInv /\ Unname /\ Head(todo).file \in torn => OInv'
<1> SUFFICES ASSUME OInv, Unname, Head(todo).file \in torn PROVE OInv'
  OBVIOUS
<1>1. /\ todo # << >> /\ Head(todo).do = "unname" /\ todo' = Tail(todo)
      /\ card' = card /\ fh' = fh /\ torn' = torn /\ TypeOK /\ DirtyOK
  BY DEF Unname, Doing, OInv
<1>2. PICK f \in Files : Head(todo).file = f /\ f \in torn /\ Strays(f) /\ FileOK(f)
  BY <1>1, StrayOf DEF OInv
<1>3. mem' = [mem EXCEPT !.entry[f] = Gone] /\ dirty' = Used(f)
  BY <1>2 DEF Unname
<1>4. /\ mem' \in Image /\ mem'.fat = mem.fat /\ mem'.data = mem.data /\ mem'.entry[f] = Gone
      /\ \A g \in Files \ {f} : mem'.entry[g] = mem.entry[g]
  BY <1>1, <1>3, GoneTypes, EntrySet
<1>5. DirtyOK'
  BY <1>1, <1>3, <1>4, DirtyGrows
<1>6. TypeOK'
  <2>1. dirty' \in Seq(Files \cup Fats \cup Data)
    BY <1>1, <1>3, UsedFacts
  <2>2. todo' \in Seq(Item)
    BY <1>1, TodoTypes
  <2> QED BY <2>1, <2>2, <1>1, <1>4 DEF TypeOK, Item
<1>7. \A g \in Files : g \notin torn' => Untouched(g)
  BY <1>1, <1>2, <1>4 DEF Untouched
<1>8. StrayLeaves(f)
  <2>1. Straying(f) => Head(todo).do # "unname"
    BY DEF Straying
  <2>2. StrayFrees(f) => Head(todo).do = "release"
    BY DEF StrayFrees, DoAt
  <2> QED BY <2>1, <2>2, <1>1, <1>2 DEF Strays
<1>9. InCall(f)' /\ Ending(f)'
  <2>1. CASE todo = <<Do("unname", f), Do("flush", f)>>
    <3>1. todo' = <<Do("flush", f)>>
      BY <2>1, <1>1
    <3> QED BY <3>1, <1>1, <1>2, StrayEnds
  <2>2. CASE \E c \in Data : todo = <<Do("unname", f), DoAt("release", f, c), Do("flush", f)>>
    <3>1. \E c \in Data : todo' = <<DoAt("release", f, c), Do("flush", f)>>
      BY <2>2, <1>1
    <3> QED BY <3>1, <1>1, <1>2, StrayEnds
  <2> QED BY <2>1, <2>2, <1>8 DEF StrayLeaves
<1> QED BY <1>1, <1>2, <1>4, <1>5, <1>6, <1>7, <1>9, FitsTorn DEF FileOK

(* Release                                                                 *)
LEMMA ReleaseStrays == OInv /\ Release /\ Head(todo).file \in torn => OInv'
<1> SUFFICES ASSUME OInv, Release, Head(todo).file \in torn PROVE OInv'
  OBVIOUS
<1>1. /\ todo # << >> /\ Head(todo).do = "release" /\ card' = card /\ fh' = fh
      /\ TypeOK /\ DirtyOK
  BY DEF Release, Doing, OInv
<1>2. PICK f \in Files : Head(todo).file = f /\ f \in torn /\ Strays(f) /\ FileOK(f)
  BY <1>1, StrayOf DEF OInv
<1>3. StrayFrees(f)
  <2>1. Straying(f) => Head(todo).do # "release"
    BY DEF Straying
  <2>2. StrayLeaves(f) => Head(todo).do = "unname"
    BY DEF StrayLeaves, Do, DoAt
  <2> QED BY <2>1, <2>2, <1>1, <1>2 DEF Strays
<1>4. PICK c \in Data : todo = <<DoAt("release", f, c), Do("flush", f)>>
  BY <1>3 DEF StrayFrees
<1>5. Head(todo).at = c /\ Tail(todo) = <<Do("flush", f)>>
  BY <1>4 DEF DoAt
<1>6. /\ mem' = [mem EXCEPT !.fat[c] = Free] /\ dirty' = Used(FatOf[c])
      /\ torn' = torn \cup Hit(f, c)
      /\ \E x : todo' = IF x \in Data THEN <<DoAt("release", f, x)>> \o <<Do("flush", f)>>
                        ELSE <<Do("flush", f)>>
  BY <1>2, <1>5 DEF Release
<1>7. mem' \in Image /\ mem'.entry = mem.entry /\ mem'.data = mem.data
      /\ \A d \in Data \ {c} : mem'.fat[d] = mem.fat[d]
  BY <1>1, <1>6, CellSet
<1>8. DirtyOK' /\ dirty' \in Seq(Files \cup Fats \cup Data)
  BY <1>1, <1>6, <1>7, CellDirty
<1>9. \/ todo' = <<Do("flush", f)>>
      \/ \E x \in Data : todo' = <<DoAt("release", f, x), Do("flush", f)>>
  <2>1. PICK x : todo' = IF x \in Data THEN <<DoAt("release", f, x)>> \o <<Do("flush", f)>>
                         ELSE <<Do("flush", f)>>
    BY <1>6
  <2>2. ASSUME x \in Data
        PROVE  <<DoAt("release", f, x)>> \o <<Do("flush", f)>>
                 = <<DoAt("release", f, x), Do("flush", f)>>
    <3>1. DoAt("release", f, x) \in Item /\ Do("flush", f) \in Item
      BY <2>2 DEF Do, DoAt, Item, Steps
    <3> QED BY <3>1, Join1
  <2> QED BY <2>1, <2>2
<1>10. InCall(f)' /\ Ending(f)'
  BY <1>2, <1>6, <1>9, StrayEnds
<1>11. TypeOK'
  <2>1. todo' \in Seq(Item)
    <3>1. Do("flush", f) \in Item
      BY DEF Do, Item, Steps
    <3>2. ASSUME NEW x \in Data, todo' = <<DoAt("release", f, x), Do("flush", f)>>
          PROVE  todo' \in Seq(Item)
      <4>1. DoAt("release", f, x) \in Item
        BY DEF DoAt, Item, Steps
      <4> QED BY <3>1, <3>2, <4>1
    <3>3. ASSUME todo' = <<Do("flush", f)>> PROVE todo' \in Seq(Item)
      BY <3>1, <3>3
    <3> QED BY <3>2, <3>3, <1>9
  <2>2. Hit(f, c) \subseteq Files
    BY DEF Hit
  <2> QED BY <2>1, <2>2, <1>1, <1>6, <1>7, <1>8 DEF TypeOK, Item
<1>12. \A g \in Files : g \notin torn' => Untouched(g)
  BY <1>1, <1>2, <1>6, <1>7, Spared
<1> QED BY <1>1, <1>2, <1>6, <1>7, <1>8, <1>10, <1>11, <1>12, FitsTorn DEF FileOK

(* mcio_mcOpen of a torn file                                              *)
LEMMA OpenStrays == OInv /\ (\E f \in Files : f \in torn /\ Open(f)) => OInv'
<1> SUFFICES ASSUME OInv, NEW f \in Files, f \in torn, Open(f) PROVE OInv'
  OBVIOUS
<1>1. /\ todo = << >> /\ todo' = << >> /\ mem.entry[f].exists
      /\ mem' = mem /\ card' = card /\ dirty' = dirty /\ torn' = torn
      /\ fh' = [fh EXCEPT ![f] = [NoHandle EXCEPT !.open = TRUE, !.first = mem.entry[f].first]]
      /\ TypeOK /\ DirtyOK
  BY DEF Open, OInv
<1>2. /\ fh' \in [Files -> Handle] /\ ~fh'[f].marked
      /\ \A g \in Files \ {f} : fh'[g] = fh[g]
  <2>1. mem.entry[f].first \in Data \cup {Null}
    BY <1>1, ImageTypes DEF TypeOK
  <2> QED BY <1>1, <2>1 DEF TypeOK, Handle, NoHandle
<1>3. TypeOK'
  BY <1>1, <1>2 DEF TypeOK
<1>4. DirtyOK'
  BY <1>1, DirtyStays
<1>5. \A g \in Files : g \notin torn' => Untouched(g)
  BY <1>1, <1>2 DEF Untouched
<1> QED BY <1>1, <1>2, <1>3, <1>4, <1>5, FitsTorn

(* A call that begins on a file which is torn after it, and its changes.   *)
LEMMA CallStrays ==
  ASSUME OInv, NEW f \in Files, todo = << >>, mem.entry[f].exists \/ f \in torn,
         UNCHANGED <<mem, card, dirty>>,
         torn' = torn \cup {f},
         fh' \in [Files -> Handle], fh'[f].marked => fh'[f].open,
         \A g \in Files \ {f} : fh'[g] = fh[g],
         todo' \in Seq(Item), InCall(f)'
  PROVE  OInv'
<1>1. TypeOK /\ DirtyOK
  BY DEF OInv
<1>2. TypeOK'
  BY <1>1 DEF TypeOK, Item
<1>3. DirtyOK'
  BY <1>1, DirtyStays
<1>4. \A g \in Files : g \notin torn' => Untouched(g)
  BY DEF Untouched
<1>5. card.entry[f].exists => mem.entry[f].exists
  BY NotEnding
<1> QED BY <1>2, <1>3, <1>4, <1>5, FitsTorn

(* mcio_mcClose of a torn file                                             *)
LEMMA CloseStrays == OInv /\ (\E f \in Files : f \in torn /\ Close(f)) => OInv'
<1> SUFFICES ASSUME OInv, NEW f \in Files, f \in torn, Close(f) PROVE OInv'
  OBVIOUS
<1>1. /\ todo = << >> /\ fh[f].open
      /\ todo' = IF fh[f].marked THEN Sealing(f) ELSE <<Do("flush", f)>>
      /\ mem' = mem /\ card' = card /\ dirty' = dirty /\ torn' = torn
      /\ fh' = [fh EXCEPT ![f].open = FALSE, ![f].marked = FALSE]
      /\ TypeOK
  BY DEF Close, OInv
<1>2. /\ fh' \in [Files -> Handle] /\ ~fh'[f].marked
      /\ \A g \in Files \ {f} : fh'[g] = fh[g]
  BY <1>1 DEF TypeOK, Handle
<1>3. StrayCall(<<Do("flush", f)>>, f) /\ StrayCall(Sealing(f), f)
  <2>1. PICK a, b : a = Do("flush", f) /\ b = Do("mark", f)
    OBVIOUS
  <2>2. /\ a \in Item /\ a.file = f /\ a.do = "flush"
        /\ b \in Item /\ b.file = f /\ b.do = "mark"
    BY <2>1 DEF Do, Item, Steps
  <2>3. StrayCall(<<a>>, f)
    BY <2>2 DEF StrayCall, Orderly
  <2>4. StrayCall(<<a, b, a>>, f)
    BY <2>2 DEF StrayCall, Orderly
  <2> QED BY <2>1, <2>3, <2>4 DEF Sealing
<1>4. StrayCall(todo', f) /\ todo' # << >>
  BY <1>1, <1>3 DEF Sealing
<1>5. StrayCall(todo, f)' /\ todo' \in Seq(Item)
  BY <1>4 DEF StrayCall, Orderly
<1>6. InCall(f)'
  BY <1>1, <1>4, <1>5, StrayBegan
<1>7. torn' = torn \cup {f}
  BY <1>1
<1> QED BY <1>1, <1>2, <1>5, <1>6, <1>7, CallStrays

(* mcio_mcRemove of a file that is torn then                               *)
LEMMA DeleteStrays == OInv /\ (\E f \in Files : f \in torn' /\ Delete(f)) => OInv'
<1> SUFFICES ASSUME OInv, NEW f \in Files, f \in torn', Delete(f) PROVE OInv'
  OBVIOUS
<1>1. /\ todo = << >> /\ mem.entry[f].exists /\ todo' = Deleting(f)
      /\ torn' = torn \cup {f}
      /\ mem' = mem /\ card' = card /\ dirty' = dirty /\ fh' = fh
      /\ TypeOK /\ FileOK(f)
  BY DEF Delete, OInv, TypeOK
<1>2. PICK c : c = mem.entry[f].first
  OBVIOUS
<1>3. c \in Data \cup {Null}
  BY <1>1, <1>2, ImageTypes DEF TypeOK
<1>4. todo' = IF c = Null THEN <<Do("unname", f), Do("flush", f)>>
              ELSE <<Do("unname", f), DoAt("release", f, c), Do("flush", f)>>
  BY <1>1, <1>2, <1>3, DeletingIs
<1>5. StrayLeaves(f)'
  BY <1>3, <1>4 DEF StrayLeaves
<1>6. InCall(f)'
  BY <1>5 DEF InCall, Strays
<1>7. todo' \in Seq(Item)
  <2>1. /\ Do("unname", f) \in Item /\ Do("flush", f) \in Item
        /\ c # Null => DoAt("release", f, c) \in Item
    BY <1>3 DEF Do, DoAt, Item, Steps
  <2> QED BY <2>1, <1>4
<1> QED BY <1>1, <1>6, <1>7, CallStrays DEF FileOK, TypeOK

(* mcio_mcWrite to a torn file                                             *)
LEMMA WriteStrays ==
  OInv /\ (\E f \in Files : f \in torn /\ \E p \in 1 .. MaxSize : Write(f, p)) => OInv'
<1> SUFFICES ASSUME OInv, NEW f \in Files, f \in torn, NEW p \in 1 .. MaxSize, Write(f, p)
             PROVE  OInv'
  OBVIOUS
<1>1. /\ todo = << >> /\ fh[f].open /\ mem' = mem /\ card' = card /\ dirty' = dirty
      /\ torn' = torn
      /\ fh' = [fh EXCEPT ![f].marked = TRUE] /\ TypeOK
  BY DEF Write, OInv
<1>2. /\ fh' \in [Files -> Handle] /\ fh'[f].open
      /\ \A g \in Files \ {f} : fh'[g] = fh[g]
  BY <1>1 DEF TypeOK, Handle
<1>3. PICK steps \in Reaching(f, p) :
        todo' = (Opening(f) \o steps) \o <<DoAt("put", f, p), Do("mark", f)>>
  BY DEF Write
<1>4. PICK flush, mark, reserve, again, put :
        /\ flush = Do("flush", f) /\ mark = Do("mark", f) /\ reserve = Do("reserve", f)
        /\ again = Do("again", f) /\ put = DoAt("put", f, p)
  OBVIOUS
<1>5. /\ flush \in Item /\ flush.file = f /\ flush.do = "flush"
      /\ mark \in Item /\ mark.file = f /\ mark.do = "mark"
      /\ reserve \in Item /\ reserve.file = f /\ reserve.do = "reserve"
      /\ again \in Item /\ again.file = f /\ again.do = "again"
      /\ put \in Item /\ put.file = f /\ put.do = "put"
  <2>1. MaxSize \in Nat
    BY Constants
  <2> QED BY <1>4, <2>1 DEF Do, DoAt, Item, Steps
<1>6. StrayCall(<< >>, f)
  BY DEF StrayCall, Orderly
<1>7. StrayCall(Opening(f), f)
  <2>1. StrayCall(<<mark, flush>>, f)
    BY <1>5 DEF StrayCall, Orderly
  <2> QED BY <2>1, <1>4, <1>6 DEF Opening
<1>8. StrayCall(steps, f)
  <2>1. steps = << >> \/ steps \in Growing(f)
    BY <1>3 DEF Reaching
  <2>2. CASE steps = <<reserve, mark, again, flush>>
    BY <2>2, <1>5 DEF StrayCall, Orderly
  <2>3. CASE \E c \in Data : steps = <<reserve, DoAt("link", f, c), again>>
    <3>0. PICK c \in Data : steps = <<reserve, DoAt("link", f, c), again>>
      BY <2>3
    <3>1. PICK link : link = DoAt("link", f, c)
      OBVIOUS
    <3>2. link \in Item /\ link.file = f /\ link.do = "link" /\ link.at = c
      BY <3>1 DEF DoAt, Item, Steps
    <3>3. steps = <<reserve, link, again>>
      BY <3>0, <3>1
    <3> QED BY <3>2, <3>3, <1>5 DEF StrayCall, Orderly
  <2>4. steps \in Growing(f) =>
          \/ steps = <<reserve, mark, again, flush>>
          \/ \E c \in Data : steps = <<reserve, DoAt("link", f, c), again>>
    BY <1>4 DEF Growing
  <2> QED BY <2>1, <2>2, <2>3, <2>4, <1>6
<1>9. StrayCall(<<put, mark>>, f)
  BY <1>5 DEF StrayCall, Orderly
<1>10. StrayCall((Opening(f) \o steps) \o <<put, mark>>, f)
  <2>1. StrayCall(Opening(f) \o steps, f)
    BY <1>7, <1>8, OrderlyJoin
  <2> QED BY <2>1, <1>9, OrderlyJoin
<1>11. StrayCall(todo', f)
  BY <1>3, <1>4, <1>10
<1>12. StrayCall(todo, f)' /\ todo' \in Seq(Item)
  BY <1>11 DEF StrayCall, Orderly
<1>13. todo' # << >>
  <2>1. Opening(f) \o steps \in Seq(Item)
    BY <1>7, <1>8 DEF StrayCall
  <2>2. PICK s \in Seq(Item) : s = Opening(f) \o steps
    BY <2>1
  <2>3. s \o <<put, mark>> # << >>
    <3>1. <<put, mark>> \in Seq(Item) /\ Len(<<put, mark>>) = 2
      BY <1>5
    <3>2. Len(s \o <<put, mark>>) = Len(s) + 2 /\ Len(s) \in Nat
      BY <3>1, ConcatProperties
    <3> QED BY <3>2
  <2> QED BY <2>2, <2>3, <1>3, <1>4
<1>14. InCall(f)'
  BY <1>1, <1>12, <1>13, StrayBegan
<1>15. torn' = torn \cup {f}
  BY <1>1
<1> QED BY <1>1, <1>2, <1>12, <1>14, <1>15, CallStrays

-----------------------------------------------------------------------------
(* What is on the card after some clusters have been written.              *)
LEMMA StoredTypes ==
  ASSUME TypeOK, NEW us
  PROVE  /\ Stored(us) \in Image
         /\ \A f \in Files :
              Stored(us).entry[f] = IF f \in us THEN mem.entry[f] ELSE card.entry[f]
         /\ \A c \in Data :
              /\ mem.fat[c] = card.fat[c] => mem.fat[c] = Stored(us).fat[c]
              /\ mem.data[c] = card.data[c] => mem.data[c] = Stored(us).data[c]
              /\ FatOf[c] \in us => mem.fat[c] = Stored(us).fat[c]
              /\ FatOf[c] \notin us => card.fat[c] = Stored(us).fat[c]
              /\ c \in us => mem.data[c] = Stored(us).data[c]
              /\ c \notin us => card.data[c] = Stored(us).data[c]
<1>1. /\ mem.entry \in [Files -> Entry] /\ mem.fat \in [Data -> Data \cup {Free, End}]
      /\ mem.data \in [Data -> Content]
      /\ card.entry \in [Files -> Entry] /\ card.fat \in [Data -> Data \cup {Free, End}]
      /\ card.data \in [Data -> Content]
  BY DEF TypeOK, Image
<1> DEFINE entry == [f \in Files |-> IF f \in us THEN mem.entry[f] ELSE card.entry[f]]
           fat == [c \in Data |-> IF FatOf[c] \in us THEN mem.fat[c] ELSE card.fat[c]]
           data == [c \in Data |-> IF c \in us THEN mem.data[c] ELSE card.data[c]]
<1>2. entry \in [Files -> Entry] /\ fat \in [Data -> Data \cup {Free, End}]
      /\ data \in [Data -> Content]
  BY <1>1
<1>3. Stored(us) = [entry |-> entry, fat |-> fat, data |-> data]
  BY DEF Stored
<1>4. Stored(us).entry = entry /\ Stored(us).fat = fat /\ Stored(us).data = data
  <2> HIDE DEF entry, fat, data
  <2> QED BY <1>3
<1>5. Stored(us) \in Image
  <2> HIDE DEF entry, fat, data
  <2> QED BY <1>2, <1>3 DEF Image
<1> QED BY <1>4, <1>5

(* What may still be written is as new as what is on the card.             *)
LEMMA WriteBackFits == OInv /\ WriteBack => OInv'
<1> SUFFICES ASSUME OInv, WriteBack PROVE OInv'
  OBVIOUS
<1>1. /\ todo # << >> /\ dirty # << >>
      /\ mem' = mem /\ fh' = fh /\ todo' = todo /\ torn' = torn
  BY DEF WriteBack
<1>2. PICK us : Head(dirty) \in us /\ card' = Stored(us) /\ dirty' = Without(dirty, us)
  BY DEF WriteBack
<1>3. TypeOK /\ DirtyOK
  BY DEF OInv
<1>4. /\ card' \in Image
      /\ \A f \in Files : card'.entry[f] = IF f \in us THEN mem.entry[f] ELSE card.entry[f]
      /\ \A c \in Data :
           /\ mem.fat[c] = card.fat[c] => mem.fat[c] = card'.fat[c]
           /\ mem.data[c] = card.data[c] => mem.data[c] = card'.data[c]
           /\ FatOf[c] \in us => mem.fat[c] = card'.fat[c]
           /\ FatOf[c] \notin us => card.fat[c] = card'.fat[c]
           /\ c \in us => mem.data[c] = card'.data[c]
           /\ c \notin us => card.data[c] = card'.data[c]
  BY <1>2, <1>3, StoredTypes
<1>5. dirty' \in Seq(Files \cup Fats \cup Data) /\ Set(dirty') = Set(dirty) \ us
  BY <1>2, <1>3, WithoutFacts DEF TypeOK
<1>6. TypeOK'
  BY <1>1, <1>3, <1>4, <1>5 DEF TypeOK
<1>7. DirtyOK'
  BY <1>1, <1>3, <1>4, <1>5 DEF DirtyOK
<1>8. \A f : FileChain(f)' = FileChain(f) /\ (Live(f)' <=> Live(f)) /\ (Ending(f)' <=> Ending(f))
  BY <1>1, ChainsAgree DEF Live, Ending
<1>9. ASSUME NEW f \in Files
      PROVE  /\ FileOK(f)' /\ CardOK(f)' /\ (AtRest(f)' <=> AtRest(f))
             /\ Ready(f) => Ready(f)'
             /\ Opened(f) => Opened(f)'
  <2>1. FileOK(f) /\ CardOK(f)
    BY DEF OInv
  <2>2. Live(f) => \A c \in Set(FileChain(f)) : c \in Data
    BY TakenIsNotFree DEF OInv
  <2>3. Live(f) /\ Same(f) => Same(f)'
    BY <1>1, <1>4, <1>8, <2>2 DEF Same
  <2>4. Holding(f)' = Holding(f)
    BY <1>1, <1>8 DEF Holding
  <2>5. FileOK(f)'
    BY <1>1, <1>8, <2>1, <2>3, <2>4 DEF FileOK
  <2>6. Opened(f) => Opened(f)'
    BY <1>1, <1>4 DEF Opened
  <2>7. Ready(f) => Ready(f)'
    BY <1>1, <2>6 DEF Ready, HasFirst
  <2>8. ASSUME Closed(f)' PROVE Kept(f)'
    <3>1. CASE f \in us
      <4>1. card'.entry[f] = mem.entry[f] /\ Live(f) /\ mem.entry[f].closed
        BY <1>1, <1>4, <2>8, <3>1 DEF Closed, Live
      <4>2. Same(f) /\ mem.entry[f].holds = Holding(f)
        BY <2>1, <4>1 DEF FileOK
      <4> QED BY <1>1, <2>3, <2>4, <4>1, <4>2 DEF Kept, Live
    <3>2. CASE f \notin us
      <4>1. card'.entry[f] = card.entry[f] /\ Closed(f)
        BY <1>1, <1>4, <2>8, <3>2 DEF Closed
      <4>2. Kept(f)
        BY <1>2, <2>1, <3>2, <4>1 DEF CardOK, Leaving
      <4>3. Live(f)
        BY <4>1, <4>2 DEF Kept, Live, Closed
      <4> QED BY <1>1, <2>3, <2>4, <4>1, <4>2, <4>3 DEF Kept
    <3> QED BY <3>1, <3>2
  <2>9. CardOK(f)'
    BY <1>1, <1>4, <1>8, <2>1, <2>8 DEF CardOK
  <2> QED BY <1>1, <2>5, <2>6, <2>7, <2>9 DEF AtRest
<1>10. ASSUME NEW f \in Files, NEW g \in Files
       PROVE  Apart(f, g)'
  <2>1. Apart(f, g)
    BY DEF OInv
  <2> QED BY <2>1, <1>8 DEF Apart
<1>11. \A first : Loose(first) => Loose(first)'
  BY <1>1, <1>8 DEF Loose
<1>12. PICK f \in Files : InCall(f)
  BY <1>1 DEF OInv
<1>13. /\ Writer(f) => Writer(f)'
       /\ HasNew(f) => HasNew(f)'
       /\ Opened(f) => Opened(f)'
       /\ Ready(f) => Ready(f)'
  <2>1. Writer(f) => Writer(f)'
    BY <1>1, <1>8 DEF Writer, HasFirst
  <2>2. HasNew(f) => HasNew(f)'
    BY <1>1, <1>11 DEF HasNew
  <2> QED BY <2>1, <2>2, <1>9
<1>14. InCall(f)'
  <2>1. CASE Ended(f)
    BY <1>1, <1>13, <2>1 DEF InCall, Ended
  <2>2. CASE Sealed(f)
    <3>1. Sealed(f)'
      BY <1>1, <1>8, <2>2 DEF Sealed, HasFirst
    <3> QED BY <3>1 DEF InCall
  <2>3. CASE Unsealing(f)
    <3>1. Unsealing(f)'
      BY <1>1, <1>8, <1>13, <2>3 DEF Unsealing
    <3> QED BY <3>1 DEF InCall
  <2>4. CASE Unsealed(f)
    <3>1. Unsealed(f)'
      BY <1>1, <1>8, <1>13, <2>4 DEF Unsealed
    <3> QED BY <3>1 DEF InCall
  <2>5. CASE Working(f)
    <3>1. Working(f)'
      BY <1>1, <1>8, <1>13, <2>5 DEF Working
    <3> QED BY <3>1 DEF InCall
  <2>6. CASE Begins(f)
    <3>1. Begins(f)'
      BY <1>1, <1>8, <1>13, <2>6 DEF Begins
    <3> QED BY <3>1 DEF InCall
  <2>7. CASE Begun(f)
    <3>1. Begun(f)'
      BY <1>1, <1>8, <1>13, <2>7 DEF Begun
    <3> QED BY <3>1 DEF InCall
  <2>8. CASE Links(f)
    <3>1. Links(f)'
      BY <1>1, <1>8, <1>13, <2>8 DEF Links
    <3> QED BY <3>1 DEF InCall
  <2>9. CASE Linked(f)
    <3>1. Linked(f)'
      BY <1>1, <1>8, <1>13, <2>9 DEF Linked
    <3> QED BY <3>1 DEF InCall
  <2>10. CASE PutDone(f)
    <3>1. PutDone(f)'
      BY <1>1, <1>13, <2>10 DEF PutDone
    <3> QED BY <3>1 DEF InCall
  <2>11. CASE Leaves(f)
    BY <1>1, <2>11 DEF Leaves
  <2>12. CASE Frees(f)
    <3>1. Frees(f)'
      BY <1>1, <1>11, <2>12 DEF Frees
    <3> QED BY <3>1 DEF InCall
  <2>13. CASE Strays(f)
    <3>1. Strays(f)'
      BY <1>1, <2>13 DEF Strays, Straying, StrayLeaves, StrayFrees
    <3> QED BY <3>1 DEF InCall
  <2> QED BY <1>12, <2>1, <2>2, <2>3, <2>4, <2>5, <2>6, <2>7, <2>8, <2>9, <2>10, <2>11, <2>12,
             <2>13 DEF InCall
<1>15. \A g \in Files : AtRest(g)' => Ready(g)'
  BY <1>9 DEF OInv
<1> QED BY <1>6, <1>7, <1>9, <1>10, <1>14, <1>15 DEF OInv
-----------------------------------------------------------------------------
(* A card without files                                                    *)
LEMMA InitFits == Init => OInv
<1> SUFFICES ASSUME Init PROVE OInv
  OBVIOUS
<1>1. /\ mem = Empty /\ card = Empty /\ dirty = << >> /\ todo = << >> /\ torn = {}
      /\ \A f \in Files : fh[f] = NoHandle
      /\ fh = [f \in Files |-> NoHandle]
  BY DEF Init
<1>2. Gone \in Entry /\ Gone.exists = FALSE /\ Gone.closed = FALSE
  <2>1. << >> \in [1 .. 0 -> Content] /\ 0 \in 0 .. MaxSize
    BY Constants
  <2>2. << >> \in UNION {[1 .. n -> Content] : n \in 0 .. MaxSize}
    BY <2>1
  <2>3. ASSUME NEW h, h \in UNION {[1 .. n -> Content] : n \in 0 .. MaxSize}
        PROVE  [exists |-> FALSE, closed |-> FALSE, first |-> Null, holds |-> h] \in Entry
    BY <2>3 DEF Entry
  <2> QED BY <2>2, <2>3 DEF Gone
<1>3. Empty \in Image /\ \A f \in Files : Empty.entry[f] = Gone
  BY <1>2 DEF Empty, Image, Content
<1>4. NoHandle \in Handle /\ NoHandle.open = FALSE /\ NoHandle.marked = FALSE
  BY DEF NoHandle, Handle
<1>5. TypeOK
  BY <1>1, <1>3, <1>4 DEF TypeOK
<1>6. DirtyOK
  BY <1>1 DEF DirtyOK
<1>7. ASSUME NEW f \in Files
      PROVE  FileOK(f) /\ CardOK(f) /\ Ready(f) /\ ~Live(f)
  <2>1. ~Live(f) /\ ~Closed(f) /\ ~card.entry[f].exists
    BY <1>1, <1>2, <1>3 DEF Live, Closed
  <2>2. ~fh[f].open /\ ~fh[f].marked
    BY <1>1, <1>4
  <2> QED BY <2>1, <2>2 DEF FileOK, CardOK, Ready
<1>8. \A f, g \in Files : Apart(f, g)
  BY <1>7 DEF Apart
<1> QED BY <1>1, <1>5, <1>6, <1>7, <1>8 DEF OInv

(* What a cut finds on the card, whenever it comes.                        *)
LEMMA CardIsIntact ==
  ASSUME OInv, NEW f \in Files, Closed(f)
  PROVE  /\ Whole(card.fat, card.entry[f].first)
         /\ card.entry[f].holds =
              [k \in DOMAIN ChainOn(card, f) |-> card.data[ChainOn(card, f)[k]]]
<1>1. CardOK(f) /\ FileOK(f)
  BY DEF OInv
<1>2. CASE Kept(f)
  <2>1. Live(f)
    BY <1>2 DEF Kept, Live, Closed
  <2> QED BY <1>1, <1>2, <2>1, KeptIsIntact
<1>3. CASE Leaving(f)
  BY <1>3 DEF Leaving, Intact
<1> QED BY <1>1, <1>2, <1>3 DEF CardOK

(* Two closed files share no cluster on the card.                          *)
LEMMA CardIsApart ==
  ASSUME OInv, NEW f \in Files, NEW g \in Files, f # g, Closed(f), Closed(g)
  PROVE  Set(ChainOn(card, f)) \cap Set(ChainOn(card, g)) = {}
<1>1. CardOK(f) /\ FileOK(f) /\ CardOK(g) /\ FileOK(g) /\ Apart(f, g)
  BY DEF OInv
<1>2. Kept(f) => Live(f) /\ ChainOn(card, f) = FileChain(f)
  <2>1. Kept(f) => Live(f)
    BY DEF Kept, Live, Closed
  <2> QED BY <1>1, <2>1, KeptIsIntact
<1>3. Kept(g) => Live(g) /\ ChainOn(card, g) = FileChain(g)
  <2>1. Kept(g) => Live(g)
    BY DEF Kept, Live, Closed
  <2> QED BY <1>1, <2>1, KeptIsIntact
<1>4. CASE Kept(f) /\ Kept(g)
  BY <1>1, <1>2, <1>3, <1>4 DEF Apart
<1>5. CASE Kept(f) /\ Leaving(g)
  BY <1>2, <1>5 DEF Leaving, Intact
<1>6. CASE Leaving(f) /\ Kept(g)
  <2>1. Set(FileChain(g)) \cap Set(ChainOn(card, f)) = {}
    BY <1>3, <1>6 DEF Leaving, Intact
  <2> QED BY <2>1, <1>3, <1>6
<1>7. CASE Leaving(f) /\ Leaving(g)
  BY <1>7 DEF Leaving
<1> QED BY <1>1, <1>4, <1>5, <1>6, <1>7 DEF CardOK

(* A cut: memory is what the card had.                                     *)
LEMMA CutFits == OInv /\ Cut => OInv'
<1> SUFFICES ASSUME OInv, Cut PROVE OInv'
  OBVIOUS
<1>1. /\ mem' = card /\ card' = card /\ dirty' = << >> /\ todo' = << >>
      /\ fh' = [f \in Files |-> NoHandle]
      /\ torn' = torn \cup {f \in Files : card.entry[f].exists /\ ~card.entry[f].closed}
  BY DEF Cut
<1>2. TypeOK
  BY DEF OInv
<1>3. TypeOK'
  <2>1. NoHandle \in Handle
    BY DEF NoHandle, Handle
  <2> QED BY <1>1, <1>2, <2>1 DEF TypeOK
<1>4. DirtyOK'
  BY <1>1 DEF DirtyOK
<1>5. ASSUME NEW f \in Files
      PROVE  /\ Live(f)' <=> Closed(f)
             /\ FileChain(f)' = ChainOn(card, f)
             /\ FileOK(f)' /\ CardOK(f)' /\ Ready(f)'
  <2>1. Live(f)' <=> Closed(f)
    BY <1>1 DEF Live, Closed
  <2>2. FileChain(f)' = ChainOn(card, f)
    BY <1>1 DEF FileChain, ChainOn
  <2>3. Same(f)'
    BY <1>1 DEF Same
  <2>4. ~fh'[f].open /\ ~fh'[f].marked
    BY <1>1 DEF NoHandle
  <2>5. Closed(f)' => Live(f)'
    BY <1>1 DEF Closed, Live
  <2>6. CASE Closed(f)
    <3>1. /\ Whole(card.fat, card.entry[f].first)
          /\ card.entry[f].holds =
               [k \in DOMAIN ChainOn(card, f) |-> card.data[ChainOn(card, f)[k]]]
      BY <2>6, CardIsIntact
    <3>2. Holding(f)' = card.entry[f].holds
      BY <1>1, <2>2, <3>1 DEF Holding
    <3>3. FileOK(f)'
      BY <1>1, <2>1, <2>3, <2>4, <2>6, <3>1, <3>2 DEF FileOK
    <3>4. CardOK(f)'
      BY <1>1, <2>3, <2>6, <3>2 DEF CardOK, Kept, Closed
    <3> QED BY <2>1, <2>2, <2>4, <3>3, <3>4 DEF Ready
  <2>7. CASE ~Closed(f)
    BY <1>1, <2>1, <2>2, <2>4, <2>5, <2>7 DEF FileOK, CardOK, Ready
  <2> QED BY <2>6, <2>7
<1>6. ASSUME NEW f \in Files, NEW g \in Files
      PROVE  Apart(f, g)'
  BY <1>5, CardIsApart DEF Apart
<1> QED BY <1>1, <1>3, <1>4, <1>5, <1>6 DEF OInv

(* Any step.                                                               *)
LEMMA StepFits == OInv /\ [Next]_vars => OInv'
<1> SUFFICES ASSUME OInv, [Next]_vars PROVE OInv'
  OBVIOUS
<1>1. ASSUME NEW f \in Files, \/ Create(f) \/ Open(f) \/ Close(f) \/ Delete(f)
                              \/ \E p \in 1 .. MaxSize : Write(f, p)
      PROVE  OInv'
  BY <1>1, CreateFits, OpenFits, CloseFits, DeleteFits, WriteFits, OpenStrays, CloseStrays,
     DeleteStrays, WriteStrays
<1>2. CASE UNCHANGED vars
  <2>1. /\ mem' = mem /\ card' = card /\ dirty' = dirty /\ fh' = fh /\ todo' = todo
        /\ torn' = torn
    BY <1>2 DEF vars
  <2>2. TypeOK' /\ DirtyOK'
    BY <2>1 DEF OInv, TypeOK, DirtyOK
  <2>3. ASSUME NEW f \in Files
        PROVE  FileOK(f)' /\ CardOK(f)' /\ (AtRest(f)' => Ready(f)')
    <3>1. Untouched(f) /\ FileOK(f) /\ CardOK(f) /\ (AtRest(f) => Ready(f))
      BY <2>1 DEF OInv, Untouched
    <3>2. /\ FileOK(f)' /\ (Closed(f)' <=> Closed(f))
          /\ Live(f) /\ Kept(f) => Kept(f)'
          /\ Ready(f) => Ready(f)'
      BY <2>1, <3>1, Stays
    <3>3. Closed(f) /\ Kept(f) => Live(f)
      BY DEF Closed, Kept, Live
    <3>4. \A g : (Live(g)' <=> Live(g)) /\ FileChain(g)' = FileChain(g)
      BY <2>1, ChainsAgree DEF Live
    <3>5. Intact(f) => Intact(f)'
      BY <2>1, <3>4 DEF Intact, ChainOn
    <3>6. (AtRest(f)' <=> AtRest(f)) /\ (Ending(f)' <=> Ending(f))
      BY <2>1 DEF AtRest, Ending
    <3>7. CardOK(f)'
      BY <2>1, <3>1, <3>2, <3>3, <3>5, <3>6 DEF CardOK, Leaving
    <3> QED BY <3>1, <3>2, <3>6, <3>7
  <2>5. \A f \in Files : InCall(f) => InCall(f)'
    <3> SUFFICES ASSUME NEW f \in Files PROVE InCall(f) => InCall(f)'
      OBVIOUS
    <3>1. \A g : FileChain(g)' = FileChain(g) /\ (Live(g)' <=> Live(g))
      BY <2>1, ChainsAgree DEF Live
    <3>2. \A first : Loose(first)' <=> Loose(first)
      BY <2>1, <3>1 DEF Loose
    <3>3. HasNew(f)' <=> HasNew(f)
      BY <2>1, <3>2 DEF HasNew
    <3>4. (Leaves(f)' <=> Leaves(f)) /\ (Strays(f)' <=> Strays(f))
      BY <2>1, <3>1 DEF Leaves, Strays, Straying, StrayLeaves, StrayFrees
    <3>5. (HasFirst(f)' <=> HasFirst(f)) /\ (Opened(f)' <=> Opened(f))
      BY <2>1 DEF HasFirst, Opened
    <3>6. (Ready(f)' <=> Ready(f)) /\ (Writer(f)' <=> Writer(f))
      BY <2>1, <3>1, <3>5 DEF Ready, Writer
    <3>7. /\ (Ended(f)' <=> Ended(f)) /\ (Sealed(f)' <=> Sealed(f))
          /\ (Begins(f)' <=> Begins(f)) /\ (Frees(f)' <=> Frees(f)) /\ (PutDone(f)' <=> PutDone(f))
      BY <2>1, <3>1, <3>2, <3>3, <3>5, <3>6 DEF Ended, Sealed, Begins, Frees, PutDone
    <3>8. /\ (Unsealing(f)' <=> Unsealing(f)) /\ (Unsealed(f)' <=> Unsealed(f))
          /\ (Working(f)' <=> Working(f))
      BY <2>1, <3>1, <3>5, <3>6 DEF Unsealing, Unsealed, Working
    <3>9. (Begun(f)' <=> Begun(f)) /\ (Links(f)' <=> Links(f)) /\ (Linked(f)' <=> Linked(f))
      BY <2>1, <3>1, <3>3, <3>5, <3>6 DEF Begun, Links, Linked
    <3> QED BY <3>4, <3>7, <3>8, <3>9 DEF InCall
  <2>4. ASSUME NEW f \in Files, NEW g \in Files
        PROVE  Apart(f, g)'
    BY <2>1 DEF OInv, Apart, Live, FileChain, ChainOn
  <2> QED BY <2>1, <2>2, <2>3, <2>4, <2>5 DEF OInv
<1> QED
  BY <1>1, <1>2, WriteBackFits, FlushFits, MarkFits, ReserveFits, LinkFits, AgainFits, PutFits,
     UnnameFits, ReleaseFits, FlushStrays, MarkStrays, ReserveStrays, LinkStrays, AgainStrays,
     PutStrays, UnnameStrays, ReleaseStrays, CutFits DEF Next

(* The invariant: what the cache may still write never contradicts what    *)
(* the card says of a closed file, at any step of any call, on files that  *)
(* a cut has torn too.                                                     *)
THEOREM OrderHolds == Spec => []OInv
<1>1. Init => OInv
  BY InitFits
<1>2. OInv /\ [Next]_vars => OInv'
  BY StepFits
<1> QED BY <1>1, <1>2, PTL DEF Spec

(* Entries, cells and what is left of a call stay what their types say:    *)
(* no call follows a chain out of the card, or writes longer files than    *)
(* MaxSize clusters.                                                       *)
THEOREM OrderTypes == Spec => []TypeOK
<1>1. OInv => TypeOK
  BY DEF OInv
<1> QED BY <1>1, OrderHolds, PTL

(* A file with the attribute "closed" on the card is complete there after  *)
(* a cut at any time: mcio_mcWrite takes the attribute off the card before *)
(* it changes anything, mcio_mcClose puts it back when all is written.     *)
(* Torn files may be written and deleted too, and destroy only the closed  *)
(* files with which they share a cluster (Hit).                            *)
THEOREM ClosedIsIntact == Spec => []ClosedFilesAreIntact
<1>1. OInv => ClosedFilesAreIntact
  BY CardIsIntact DEF ClosedFilesAreIntact
<1> QED BY <1>1, OrderHolds, PTL

(* Its clusters are marked in the FAT of the card and belong to no other   *)
(* closed file: mcio_mcRemove lets the entry go before its clusters, and   *)
(* Card_FindFree takes what no entry still leads to, but that of a torn    *)
(* file.                                                                   *)
THEOREM ClosedOwnsItsClusters == Spec => []ClosedFilesOwnTheirClusters
<1>1. ASSUME OInv PROVE ClosedFilesOwnTheirClusters
  <2>1. ASSUME NEW f \in Files, Closed(f)
        PROVE  /\ Clusters(f) = Set(ChainOn(card, f))
               /\ \A c \in Clusters(f) : card.fat[c] # Free
    <3>1. PICK first : first = card.entry[f].first
      OBVIOUS
    <3>2. PICK fat : fat = card.fat
      OBVIOUS
    <3>3. Whole(fat, first) /\ ChainOn(card, f) = Chain(fat, first)
      BY <1>1, <2>1, <3>1, <3>2, CardIsIntact DEF ChainOn
    <3>4. Chain(fat, first) \in Seq(Data) /\ \A c \in Set(Chain(fat, first)) : fat[c] # Free
      BY <3>3, ChainFacts
    <3>5. DOMAIN ChainOn(card, f) = 1 .. Len(ChainOn(card, f))
      BY <3>3, <3>4
    <3>6. Clusters(f) = Set(ChainOn(card, f))
      BY <3>5 DEF Clusters, ClustersOn, Set
    <3> QED BY <3>2, <3>3, <3>4, <3>6
  <2>2. ASSUME NEW f \in Files, NEW g \in Files, Closed(f), Closed(g), f # g
        PROVE  Clusters(f) \cap Clusters(g) = {}
    BY <1>1, <2>1, <2>2, CardIsApart
  <2> QED BY <2>1, <2>2 DEF ClosedFilesOwnTheirClusters
<1> QED BY <1>1, OrderHolds, PTL
=============================================================================
