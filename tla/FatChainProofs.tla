--------------------------- MODULE FatChainProofs ---------------------------
(***************************************************************************)
(* Proofs about FatChain, for any card, any files and handles and files of *)
(* any length: what a file has been given stays its own, with its data,    *)
(* and a handle is on its chain, in its place.                             *)
(*                                                                         *)
(* The argument never follows a chain.  Its invariant says that the        *)
(* clusters can be given owners and numbers that fit the FAT, the          *)
(* directory and the handles; a step gives a new cluster an owner or takes *)
(* one away, and leaves the others.  Only at the end does an induction     *)
(* show that cluster number k of a file is the one that Nth finds.         *)
(***************************************************************************)
EXTENDS FatChain, TLAPS, WellFoundedInduction

(* Who owns each cluster, and its number in the chain of its owner.        *)
Whose == [Index -> Files \cup {None}]
Numbers == [Index -> 0 .. MaxLen]

Owned(who, num, i, f, k) == i \in Index /\ who[i] = f /\ num[i] = k

(* A file being deleted owns what is still to be freed.                    *)
Live(f) == entry[f].exists \/ (call.at = "free" /\ call.file = f)

(* An owner's clusters are allocated and linked by their numbers.          *)
ChainsFit(who, num) ==
  /\ \A i \in Index : who[i] # None => fat[i].used /\ Live(who[i])
  /\ \A i \in Index : who[i] # None /\ fat[i].next # End =>
       Owned(who, num, fat[i].next, who[i], num[i] + 1)
  /\ \A i, j \in Index : who[i] # None /\ who[i] = who[j] =>
       /\ num[i] = num[j] => i = j
       /\ num[i] < num[j] => fat[i].next # End
  /\ \A i \in Index : who[i] # None /\ entry[who[i]].exists =>
       \A k \in 0 .. num[i] : \E j \in Index : Owned(who, num, j, who[i], k)

(* A file that exists begins where its entry says and holds its data.      *)
HeadFits(who, num, e, f) ==
  IF e.cluster = Null THEN \A i \in Index : who[i] # f
  ELSE Owned(who, num, e.cluster, f, 0)

DataFits(who, num, e, ds, f) ==
  \A k \in 0 .. e.length - 1 :
    \E i \in Index : Owned(who, num, i, f, k) /\ ds[i] = <<f, k>>

FilesFit(who, num) ==
  \A f \in Files : entry[f].exists =>
    HeadFits(who, num, entry[f], f) /\ DataFits(who, num, entry[f], data, f)

(* What a handle remembers belongs to its file and has its number.         *)
HandleFits(who, num, es, h) ==
  /\ h.file \in Files /\ es[h.file].exists
  /\ IF h.freeclink = Null
       THEN h.clink = Null /\ h.size = 0 /\ h.offset = 0
       ELSE /\ Owned(who, num, h.freeclink, h.file, 0)
            /\ Owned(who, num, h.clink, h.file, h.offset)
  /\ h.position <= h.size /\ h.size <= es[h.file].length
  /\ h.wr => h.freeclink = es[h.file].cluster /\ h.size = es[h.file].length

HandlesFit(who, num) == \A d \in Fds : fh[d].open => HandleFits(who, num, entry, fh[d])

(* A seek is that many links before the position of its handle, or, when   *)
(* a link is missing, at the end of the chain and one cluster before.      *)
CallFits(who, num) ==
  /\ call.at = "rseek" =>
       IF call.index = Null THEN Handle.freeclink = Null /\ call.left = 0
       ELSE /\ Owned(who, num, call.index, call.file, Handle.position - call.left)
            /\ \/ call.index = Handle.clink /\ call.left = Handle.position - Handle.offset
               \/ /\ call.index = Handle.freeclink /\ call.left = Handle.position
                  /\ Handle.position < Handle.offset
  /\ call.at = "wseek" =>
       IF Handle.freeclink = Null THEN call.left = 0
       ELSE /\ Handle.position = Handle.offset + 1 /\ fat[Handle.clink].next = End
            /\ call.left > 0 => call.left = 1 /\ call.index = Handle.clink
  /\ call.at = "use" => Owned(who, num, call.index, call.file, Handle.position)
  /\ call.at = "free" => call.index \in Index /\ who[call.index] = call.file

Fits(who, num) ==
  ChainsFit(who, num) /\ FilesFit(who, num) /\ HandlesFit(who, num) /\ CallFits(who, num)

(* A file has one handle that writes.                                      *)
OneWriter ==
  \A d, x \in Fds :
    fh[d].open /\ fh[x].open /\ fh[d].wr /\ fh[x].wr /\ fh[d].file = fh[x].file => d = x

(* The call in progress and its handle, or the file it removes.            *)
CallOK ==
  /\ call.at \in {"rseek", "wseek", "use"} =>
       /\ call.op \in {"read", "write"} /\ call.fd \in Fds
       /\ Handle.open /\ call.file = Handle.file
       /\ call.op = "read" => call.at # "wseek" /\ Handle.position < Handle.size
       /\ call.op = "write" => Handle.wr /\ Handle.position < MaxLen
  /\ call.at \in {"free", "make"} =>
       /\ call.fd = None /\ call.op \in {"create", "delete"}
       /\ call.file \in Files /\ ~entry[call.file].exists

IInv ==
  /\ TypeOK /\ OneWriter /\ CallOK
  /\ \E who \in Whose, num \in Numbers : Fits(who, num)
-----------------------------------------------------------------------------
(* A set of naturals has a least element.                                  *)
LEMMA LeastNat ==
  ASSUME NEW S, S \subseteq Nat, S # {}
  PROVE  \E m \in S : \A k \in S : m <= k
<1> DEFINE R == OpToRel(<, Nat)
<1>1. IsWellFoundedOn(R, Nat)
  BY NatLessThanWellFounded
<1>2. \A x, y \in Nat : x < y => <<x, y>> \in R
  BY DEF OpToRel
<1> HIDE DEF R
<1>3. PICK m \in S : \A k \in S : ~ (<<k, m>> \in R)
  BY <1>1, WFMin
<1>4. \A k \in S : ~ (k < m)
  BY <1>2, <1>3, Zenon
<1>5. \A k \in S : m <= k
  BY <1>4
<1> QED BY <1>5

(* The search of Card_FindFree gives a cluster that is free, if there is   *)
(* one.                                                                    *)
LEMMA FoundIsFree ==
  ASSUME TypeOK, ~Full
  PROVE  Found \in Index /\ ~fat[Found].used
<1>1. FreeFrom(hint) \subseteq Nat /\ FreeFrom(hint) # {}
  BY ChainAssumption DEF Full, FreeFrom, Index
<1>2. \E i \in FreeFrom(hint) : \A j \in FreeFrom(hint) : i <= j
  BY <1>1, LeastNat
<1>3. Found \in FreeFrom(hint)
  BY <1>2 DEF Found
<1> QED BY <1>3 DEF FreeFrom

(* The definition of Nth has a solution: the clusters of a chain exist for *)
(* every number.                                                           *)
LEMMA NthSteps ==
  ASSUME NEW i
  PROVE  /\ Nth(i, 0) = i
         /\ \A k \in 1 .. MaxLen :
              Nth(i, k) = IF Nth(i, k - 1) \in Index THEN fat[Nth(i, k - 1)].next ELSE End
<1> DEFINE
      Follows(to, m) ==
        to = [n \in 0 .. m |->
                IF n = 0 THEN i
                ELSE IF to[n - 1] \in Index THEN fat[to[n - 1]].next ELSE End]
      Without == {m \in Nat : ~ \E to : Follows(to, m)}
<1>1. Without = {}
  <2> SUFFICES ASSUME Without # {} PROVE FALSE
    OBVIOUS
  <2>1. PICK m \in Without : \A k \in Without : m <= k
    BY LeastNat
  <2>2. CASE m = 0
    <3>1. Follows([n \in 0 .. 0 |-> i], 0)
      OBVIOUS
    <3> QED BY <3>1, <2>1, <2>2
  <2>3. CASE m # 0
    <3>1. m - 1 \in Nat /\ m - 1 \notin Without
      BY <2>1, <2>3
    <3>2. PICK to : Follows(to, m - 1)
      BY <3>1
    <3> DEFINE last == IF to[m - 1] \in Index THEN fat[to[m - 1]].next ELSE End
               longer == [n \in 0 .. m |-> IF n = m THEN last ELSE to[n]]
    <3>3. \A n \in 0 .. m - 1 :
            to[n] = IF n = 0 THEN i
                    ELSE IF to[n - 1] \in Index THEN fat[to[n - 1]].next ELSE End
      BY <3>1, <3>2
    <3>4. \A n \in 0 .. m :
            longer[n] = IF n = 0 THEN i
                        ELSE IF longer[n - 1] \in Index THEN fat[longer[n - 1]].next ELSE End
      <4> SUFFICES ASSUME NEW n \in 0 .. m
                   PROVE  longer[n] = IF n = 0 THEN i
                            ELSE IF longer[n - 1] \in Index
                                   THEN fat[longer[n - 1]].next ELSE End
        OBVIOUS
      <4>1. CASE n = m
        <5>1. longer[n] = last /\ longer[n - 1] = to[m - 1] /\ n # 0
          BY <4>1, <2>3, <3>1
        <5> QED BY <5>1
      <4>2. CASE n # m
        <5>1. n \in 0 .. m - 1 /\ longer[n] = to[n]
          BY <4>2, <3>1
        <5>2. n # 0 => longer[n - 1] = to[n - 1]
          BY <4>2, <3>1
        <5> QED BY <5>1, <5>2, <3>3
      <4> QED BY <4>1, <4>2
    <3>5. Follows(longer, m)
      <4> HIDE DEF last
      <4>1. longer = [n \in 0 .. m |-> longer[n]]
        OBVIOUS
      <4> HIDE DEF longer
      <4> QED BY <4>1, <3>4
    <3> QED BY <3>5, <2>1
  <2> QED BY <2>2, <2>3
<1>2. MaxLen \in Nat
  BY ChainAssumption
<1>3. PICK some : Follows(some, MaxLen)
  BY <1>1, <1>2
<1> DEFINE to == CHOOSE x : Follows(x, MaxLen)
<1>4. Follows(to, MaxLen)
  BY <1>3
<1>5. \A k : Nth(i, k) = to[k]
  BY DEF Nth
<1> HIDE DEF to
<1>6. \A n \in 0 .. MaxLen :
        to[n] = IF n = 0 THEN i
                ELSE IF to[n - 1] \in Index THEN fat[to[n - 1]].next ELSE End
  BY <1>4
<1>7. Nth(i, 0) = i
  BY <1>5, <1>6, <1>2
<1>8. ASSUME NEW k \in 1 .. MaxLen
      PROVE  Nth(i, k) = IF Nth(i, k - 1) \in Index THEN fat[Nth(i, k - 1)].next ELSE End
  <2>1. k \in 0 .. MaxLen /\ k # 0
    BY <1>2
  <2>2. Nth(i, k) = to[k] /\ Nth(i, k - 1) = to[k - 1]
    BY <1>5
  <2> QED BY <2>1, <2>2, <1>6
<1> QED BY <1>7, <1>8

(* The cluster of number k that a file owns is the one that Nth finds.     *)
LEMMA NthIsOwned ==
  ASSUME TypeOK, NEW who \in Whose, NEW num \in Numbers, ChainsFit(who, num),
         NEW f \in Files, entry[f].exists, NEW head \in Index, Owned(who, num, head, f, 0)
  PROVE  \A k \in 0 .. MaxLen, i \in Index : Owned(who, num, i, f, k) => Nth(head, k) = i
<1> DEFINE Wrong == {k \in 0 .. MaxLen :
                       \E i \in Index : Owned(who, num, i, f, k) /\ Nth(head, k) # i}
<1>0. MaxLen \in Nat /\ f # None
  BY ChainAssumption
<1> SUFFICES ASSUME Wrong # {} PROVE FALSE
  OBVIOUS
<1>1. PICK k \in Wrong : \A m \in Wrong : k <= m
  <2>1. Wrong \subseteq Nat
    BY <1>0
  <2> QED BY <2>1, LeastNat
<1>2. PICK i \in Index : Owned(who, num, i, f, k) /\ Nth(head, k) # i
  BY <1>1
<1>3. k # 0
  <2>1. k = 0 => i = head
    BY <1>2, <1>0 DEF ChainsFit, Owned
  <2> QED BY <2>1, <1>2, NthSteps
<1>4. k \in 1 .. MaxLen /\ k - 1 \in 0 .. MaxLen /\ k - 1 \notin Wrong
  BY <1>1, <1>3, <1>0
<1>5. PICK j \in Index : Owned(who, num, j, f, k - 1)
  <2>1. k - 1 \in 0 .. num[i]
    BY <1>2, <1>4 DEF Owned
  <2>2. who[i] = f
    BY <1>2 DEF Owned
  <2>3. \A m \in 0 .. num[i] : \E j \in Index : Owned(who, num, j, f, m)
    BY <2>2, <1>0 DEF ChainsFit
  <2> QED BY <2>1, <2>3
<1>6. Nth(head, k - 1) = j
  BY <1>4, <1>5
<1>7. Nth(head, k) = fat[j].next
  BY <1>6, <1>4, <1>5, NthSteps
<1>8. fat[j].next = i
  <2>1. who[i] = f /\ num[i] = k /\ who[j] = f /\ num[j] = k - 1
    BY <1>2, <1>5 DEF Owned
  <2>2. num[j] < num[i]
    BY <2>1, <1>4
  <2>3. fat[j].next # End
    BY <2>1, <2>2, <1>0 DEF ChainsFit
  <2>4. Owned(who, num, fat[j].next, f, num[j] + 1)
    BY <2>1, <2>3, <1>0 DEF ChainsFit
  <2>5. num[fat[j].next] = num[i] /\ fat[j].next \in Index /\ who[fat[j].next] = f
    BY <2>1, <2>4, <1>4 DEF Owned
  <2> QED BY <2>1, <2>5, <1>0 DEF ChainsFit
<1> QED BY <1>2, <1>7, <1>8
-----------------------------------------------------------------------------
(* What the invariant means for callers                                    *)

LEMMA FilesFollow == IInv => FilesKeepTheirData
<1> SUFFICES ASSUME IInv, NEW f \in Files, entry[f].exists,
                    NEW k \in 0 .. entry[f].length - 1
             PROVE  LET i == Nth(entry[f].cluster, k)
                    IN  i \in Index /\ fat[i].used /\ data[i] = <<f, k>>
  BY DEF FilesKeepTheirData
<1>0. f # None /\ TypeOK
  BY ChainAssumption DEF IInv
<1>1. PICK who \in Whose, num \in Numbers : Fits(who, num)
  BY DEF IInv
<1>2. PICK i \in Index : Owned(who, num, i, f, k) /\ data[i] = <<f, k>>
  BY <1>1 DEF Fits, FilesFit, HeadFits, DataFits
<1>3. entry[f].cluster \in Index /\ Owned(who, num, entry[f].cluster, f, 0)
  BY <1>1, <1>2 DEF Fits, FilesFit, HeadFits, DataFits, Owned
<1>4. k \in 0 .. MaxLen
  BY <1>0, ChainAssumption DEF TypeOK
<1>5. Nth(entry[f].cluster, k) = i
  BY <1>0, <1>1, <1>2, <1>3, <1>4, NthIsOwned DEF Fits
<1>6. fat[i].used
  BY <1>0, <1>1, <1>2 DEF Fits, ChainsFit, Owned
<1> QED BY <1>2, <1>5, <1>6

LEMMA ReadsFollow == IInv => ReadsItsPosition
<1> SUFFICES ASSUME IInv, call.op = "read", call.at = "use"
             PROVE  data[call.index] = <<call.file, Handle.position>>
  BY DEF ReadsItsPosition
<1>1. PICK who \in Whose, num \in Numbers : Fits(who, num)
  BY DEF IInv
<1>2. /\ call.fd \in Fds /\ Handle.open /\ call.file = Handle.file
      /\ Handle.position < Handle.size
  BY DEF IInv, CallOK
<1>3. HandleFits(who, num, entry, Handle)
  BY <1>1, <1>2 DEF Fits, HandlesFit, Handle
<1>4. Handle.position \in 0 .. entry[call.file].length - 1 /\ call.file \in Files
  <2>1. Handle.position \in Nat /\ Handle.size \in Nat
    BY <1>2, ChainAssumption DEF IInv, TypeOK, Handle
  <2>2. call.file \in Files
    BY <1>2, <1>3 DEF HandleFits
  <2>3. entry[call.file].length \in Nat
    BY <2>2, ChainAssumption DEF IInv, TypeOK
  <2>4. Handle.position <= Handle.size /\ Handle.size <= entry[call.file].length
    BY <1>2, <1>3 DEF HandleFits
  <2> QED BY <2>1, <2>2, <2>3, <2>4, <1>2
<1>5. PICK i \in Index : /\ Owned(who, num, i, call.file, Handle.position)
                         /\ data[i] = <<call.file, Handle.position>>
  BY <1>1, <1>2, <1>3, <1>4 DEF Fits, FilesFit, HeadFits, DataFits, HandleFits
<1>6. Owned(who, num, call.index, call.file, Handle.position)
  BY <1>1 DEF Fits, CallFits
<1>7. call.file # None
  BY <1>4, ChainAssumption
<1>8. i = call.index
  BY <1>1, <1>5, <1>6, <1>7 DEF Fits, ChainsFit, Owned
<1> QED BY <1>5, <1>8

LEMMA PlacesFollow == IInv => RemembersItsPlace
<1> SUFFICES ASSUME IInv, NEW d \in Fds, fh[d].open, fh[d].clink # Null
             PROVE  fh[d].clink = Nth(fh[d].freeclink, fh[d].offset)
  BY DEF RemembersItsPlace
<1>1. PICK who \in Whose, num \in Numbers : Fits(who, num)
  BY DEF IInv
<1>2. HandleFits(who, num, entry, fh[d])
  BY <1>1 DEF Fits, HandlesFit
<1>3. /\ Owned(who, num, fh[d].freeclink, fh[d].file, 0)
      /\ Owned(who, num, fh[d].clink, fh[d].file, fh[d].offset)
  BY <1>2 DEF HandleFits
<1>4. fh[d].freeclink \in Index /\ fh[d].clink \in Index /\ fh[d].offset \in 0 .. MaxLen
  BY <1>3 DEF Owned, IInv, TypeOK
<1>5. fh[d].file \in Files /\ entry[fh[d].file].exists
  BY <1>2 DEF HandleFits
<1> QED BY <1>1, <1>3, <1>4, <1>5, NthIsOwned DEF Fits, IInv
-----------------------------------------------------------------------------
(* The initial states                                                      *)

LEMMA InitFits == Init => IInv
<1> SUFFICES ASSUME Init PROVE IInv
  OBVIOUS
<1>0. N \in Nat /\ N # 0 /\ MaxLen \in Nat /\ None \notin Files /\ None \notin Fds
  BY ChainAssumption
<1>1. TypeOK
  BY <1>0 DEF Init, TypeOK, Index, End, Null, Unused, Idle
<1>2. OneWriter /\ CallOK
  BY DEF Init, OneWriter, CallOK, Unused, Idle
<1> DEFINE who == [i \in Index |-> None]
           num == [i \in Index |-> 0]
<1>3. who \in Whose /\ num \in Numbers
  BY <1>0 DEF Whose, Numbers
<1>4. ChainsFit(who, num)
  BY DEF ChainsFit
<1>5. FilesFit(who, num) /\ HandlesFit(who, num) /\ CallFits(who, num)
  BY DEF FilesFit, HeadFits, DataFits, HandlesFit, CallFits, Init, Unused, Idle
<1> QED BY <1>1, <1>2, <1>3, <1>4, <1>5 DEF IInv, Fits
-----------------------------------------------------------------------------
(* Steps that leave the FAT, the directory and the data alone              *)

HandleRecord == [open : BOOLEAN, wr : BOOLEAN, file : Files \cup {None},
                 freeclink : Index \cup {Null}, clink : Index \cup {Null},
                 offset : 0 .. MaxLen, position : 0 .. MaxLen, size : 0 .. MaxLen]
CallRecord == [op : {"none", "read", "write", "delete", "create"},
               fd : Fds \cup {None}, file : Files \cup {None},
               at : {"idle", "rseek", "wseek", "use", "free", "make"},
               index : Index \cup {Null, End}, left : 0 .. MaxLen]

LEMMA Constants ==
  /\ N \in Nat /\ N # 0 /\ MaxLen \in Nat /\ MaxLen # 0
  /\ None \notin Files /\ None \notin Fds
  /\ Null \notin Index /\ End \notin Index /\ Null # End
  BY ChainAssumption DEF Null, End, Index

LEMMA RecordTypes ==
  ASSUME TypeOK
  PROVE  fh \in [Fds -> HandleRecord] /\ call \in CallRecord
  BY DEF TypeOK, HandleRecord, CallRecord

LEMMA Blank == Unused \in HandleRecord /\ Idle \in CallRecord
  BY Constants DEF Unused, Idle, HandleRecord, CallRecord

LEMMA ChainsStay ==
  ASSUME NEW who, NEW num, ChainsFit(who, num), FilesFit(who, num),
         UNCHANGED <<fat, entry, data>>, call.at # "free"
  PROVE  (ChainsFit(who, num) /\ FilesFit(who, num))'
<1>1. ChainsFit(who, num)'
  BY DEF ChainsFit, Live, Owned
<1>2. FilesFit(who, num)'
  BY DEF FilesFit, HeadFits, DataFits, Owned
<1> QED BY <1>1, <1>2

LEMMA NoCall ==
  ASSUME NEW who, NEW num, call' = Idle
  PROVE  (CallFits(who, num) /\ CallOK)'
  BY DEF CallFits, CallOK, Idle

(* A handle comes, goes or moves between calls.                            *)
LEMMA HandleChanges ==
  ASSUME IInv, call = Idle, UNCHANGED <<fat, hint, entry, data, call>>,
         NEW d \in Fds, NEW h \in HandleRecord, fh' = [fh EXCEPT ![d] = h],
         \A who \in Whose, num \in Numbers :
           Fits(who, num) /\ h.open => HandleFits(who, num, entry, h),
         h.open /\ h.wr => \A x \in Fds \ {d} :
           ~(fh[x].open /\ fh[x].wr /\ fh[x].file = h.file)
  PROVE  IInv'
<1>1. TypeOK /\ OneWriter /\ CallOK
  BY DEF IInv
<1>2. fh \in [Fds -> HandleRecord]
  BY <1>1, RecordTypes
<1>3. fh' \in [Fds -> HandleRecord]
  BY <1>2
<1>4. TypeOK'
  BY <1>1, <1>3 DEF TypeOK, HandleRecord
<1>5. \A x \in Fds : fh'[x] = IF x = d THEN h ELSE fh[x]
  BY <1>2
<1>6. OneWriter'
  BY <1>1, <1>5 DEF OneWriter
<1>7. PICK who \in Whose, num \in Numbers : Fits(who, num)
  BY DEF IInv
<1>8. (ChainsFit(who, num) /\ FilesFit(who, num))'
  BY <1>7, ChainsStay DEF Fits, Idle
<1>9. HandlesFit(who, num)'
  BY <1>5, <1>7 DEF Fits, HandlesFit
<1>10. (CallFits(who, num) /\ CallOK)'
  BY NoCall
<1> QED BY <1>4, <1>6, <1>7, <1>8, <1>9, <1>10 DEF IInv, Fits

LEMMA OpenFits ==
  ASSUME IInv, NEW d \in Fds, NEW f \in Files, NEW w \in BOOLEAN, Open(d, f, w)
  PROVE  IInv'
<1> DEFINE h == [open |-> TRUE, wr |-> w, file |-> f,
                 freeclink |-> entry[f].cluster, clink |-> entry[f].cluster,
                 offset |-> 0, position |-> 0, size |-> entry[f].length]
<1>1. /\ entry[f].exists /\ entry[f].cluster \in Index \cup {Null}
      /\ entry[f].length \in 0 .. MaxLen
  BY DEF IInv, TypeOK, Open
<1>2. h \in HandleRecord
  BY <1>1, Constants DEF HandleRecord
<1>3. ASSUME NEW who \in Whose, NEW num \in Numbers, Fits(who, num)
      PROVE  HandleFits(who, num, entry, h)
  <2>1. entry[f].cluster = Null => entry[f].length = 0
    <3> SUFFICES ASSUME entry[f].cluster = Null, entry[f].length # 0 PROVE FALSE
      OBVIOUS
    <3>1. 0 \in 0 .. entry[f].length - 1
      BY <1>1, Constants
    <3> QED BY <3>1, <1>1, <1>3 DEF Fits, FilesFit, HeadFits, DataFits, Owned
  <2>2. entry[f].cluster # Null => Owned(who, num, entry[f].cluster, f, 0)
    BY <1>1, <1>3 DEF Fits, FilesFit, HeadFits, DataFits
  <2> QED BY <1>1, <2>1, <2>2, Constants DEF HandleFits
<1>4. h.wr => \A x \in Fds \ {d} : ~(fh[x].open /\ fh[x].wr /\ fh[x].file = h.file)
  BY DEF Open, HandlesOf
<1>5. fh' = [fh EXCEPT ![d] = h] /\ call = Idle /\ UNCHANGED <<fat, hint, entry, data, call>>
  BY DEF Open
<1> HIDE DEF h
<1> QED BY <1>2, <1>3, <1>4, <1>5, HandleChanges

LEMMA CloseFits ==
  ASSUME IInv, NEW d \in Fds, Close(d)
  PROVE  IInv'
<1>1. Unused \in HandleRecord /\ ~Unused.open
  BY Blank DEF Unused
<1> QED BY <1>1, HandleChanges DEF Close

LEMMA SeekFits ==
  ASSUME IInv, NEW d \in Fds, Seek(d)
  PROVE  IInv'
<1>1. PICK p \in 0 .. fh[d].size : fh' = [fh EXCEPT ![d].position = p]
  BY DEF Seek
<1> DEFINE h == [fh[d] EXCEPT !.position = p]
<1>2. fh[d] \in HandleRecord
  BY RecordTypes DEF IInv
<1>3. fh' = [fh EXCEPT ![d] = h]
  BY <1>1
<1>4. /\ h.position = p /\ h.open = fh[d].open /\ h.wr = fh[d].wr
      /\ h.file = fh[d].file /\ h.freeclink = fh[d].freeclink
      /\ h.clink = fh[d].clink /\ h.offset = fh[d].offset /\ h.size = fh[d].size
  BY <1>2 DEF HandleRecord
<1>5. h \in HandleRecord
  BY <1>2, Constants DEF HandleRecord
<1> HIDE DEF h
<1>6. ASSUME NEW who \in Whose, NEW num \in Numbers, Fits(who, num)
      PROVE  HandleFits(who, num, entry, h)
  <2>1. HandleFits(who, num, entry, fh[d])
    BY <1>6 DEF Fits, HandlesFit, Seek
  <2>2. p <= fh[d].size
    BY <1>2, Constants DEF HandleRecord
  <2> QED BY <1>4, <2>1, <2>2 DEF HandleFits
<1>7. h.wr => \A x \in Fds \ {d} : ~(fh[x].open /\ fh[x].wr /\ fh[x].file = h.file)
  BY <1>4 DEF IInv, OneWriter, Seek
<1> QED BY <1>3, <1>5, <1>6, <1>7, HandleChanges DEF Seek
-----------------------------------------------------------------------------
(* Card_FatRSeek                                                           *)

(* The call goes on, and nothing else changes.                             *)
LEMMA CallChanges ==
  ASSUME IInv, call.at # "free", UNCHANGED <<fat, hint, entry, fh, data>>,
         call' \in CallRecord, CallOK',
         \A who \in Whose, num \in Numbers : Fits(who, num) => CallFits(who, num)'
  PROVE  IInv'
<1>1. TypeOK' /\ OneWriter'
  BY DEF IInv, TypeOK, OneWriter, CallRecord
<1>2. PICK who \in Whose, num \in Numbers : Fits(who, num)
  BY DEF IInv
<1>3. (ChainsFit(who, num) /\ FilesFit(who, num))'
  BY <1>2, ChainsStay DEF Fits
<1>4. HandlesFit(who, num)'
  BY <1>2 DEF Fits, HandlesFit
<1> QED BY <1>1, <1>2, <1>3, <1>4 DEF IInv, Fits

(* Where a seek begins is that many links before the position.             *)
LEMMA SeekingFits ==
  ASSUME IInv, call = Idle, NEW d \in Fds, fh[d].open, UNCHANGED <<fat, hint, entry, fh, data>>,
         NEW op \in {"read", "write"}, Seeking(op, d, "rseek"),
         op = "read" => fh[d].position < fh[d].size,
         op = "write" => fh[d].wr /\ fh[d].position < MaxLen
  PROVE  IInv'
<1> DEFINE h == fh[d]
<1>1. /\ h \in HandleRecord /\ h.position \in 0 .. MaxLen /\ h.offset \in 0 .. MaxLen
      /\ h.freeclink \in Index \cup {Null} /\ h.clink \in Index \cup {Null}
      /\ h.file \in Files \cup {None} /\ h.size \in 0 .. MaxLen
  BY RecordTypes DEF IInv, HandleRecord
<1>2. /\ call'.op = op /\ call'.fd = d /\ call'.file = h.file /\ call'.at = "rseek"
      /\ call'.index = Walk(h).index /\ call'.left = Walk(h).left
      /\ call' = [op |-> op, fd |-> d, file |-> h.file, at |-> "rseek",
                  index |-> Walk(h).index, left |-> Walk(h).left]
  BY DEF Seeking
<1>3. h.position < h.offset =>
        Walk(h).index = h.freeclink /\ Walk(h).left = h.position
  BY DEF Walk
<1>4. ~(h.position < h.offset) =>
        /\ Walk(h).index = h.clink /\ Walk(h).left = h.position - h.offset
        /\ h.position - h.offset \in 0 .. MaxLen
  BY <1>1, Constants DEF Walk
<1>5. Walk(h).index \in Index \cup {Null, End} /\ Walk(h).left \in 0 .. MaxLen
  BY <1>1, <1>3, <1>4
<1>6. call' \in CallRecord
  BY <1>1, <1>2, <1>5 DEF CallRecord
<1>7. Handle' = h
  BY <1>2 DEF Handle
<1>8. CallOK'
  BY <1>2, <1>7 DEF CallOK
<1>9. ASSUME NEW who \in Whose, NEW num \in Numbers, Fits(who, num)
      PROVE  CallFits(who, num)'
  <2>1. HandleFits(who, num, entry, h)
    BY <1>9 DEF Fits, HandlesFit
  <2>2. CASE h.freeclink = Null
    <3>1. h.clink = Null /\ h.position = 0 /\ h.offset = 0
      BY <2>1, <2>2, <1>1, Constants DEF HandleFits
    <3>2. Walk(h).index = Null /\ Walk(h).left = 0
      BY <3>1, <1>4
    <3> QED BY <3>2, <2>2, <1>2, <1>7 DEF CallFits
  <2>3. CASE h.freeclink # Null
    <3>1. Owned(who, num, h.freeclink, h.file, 0) /\ Owned(who, num, h.clink, h.file, h.offset)
      BY <2>1, <2>3 DEF HandleFits
    <3>2. CASE h.position < h.offset
      <4>1. h.position - h.position = 0
        BY <1>1
      <4> QED BY <4>1, <3>1, <3>2, <1>2, <1>3, <1>7, <2>3 DEF CallFits
    <3>3. CASE ~(h.position < h.offset)
      <4>1. h.position - (h.position - h.offset) = h.offset
        BY <1>1
      <4>2. call'.index # Null
        BY <3>1, <3>3, <1>2, <1>4, Constants DEF Owned
      <4> QED BY <4>1, <4>2, <3>1, <3>3, <1>2, <1>4, <1>7 DEF CallFits
    <3> QED BY <3>2, <3>3
  <2> QED BY <2>2, <2>3
<1> QED BY <1>6, <1>8, <1>9, CallChanges DEF Idle

LEMMA StartFits ==
  ASSUME IInv, NEW d \in Fds, StartRead(d) \/ StartWrite(d)
  PROVE  IInv'
<1>1. CASE StartRead(d)
  BY <1>1, SeekingFits DEF StartRead
<1>2. CASE StartWrite(d)
  BY <1>2, SeekingFits DEF StartWrite
<1> QED BY <1>1, <1>2

(* What the call in progress knows of its handle.                          *)
LEMMA InTransfer ==
  ASSUME IInv, call.at \in {"rseek", "wseek", "use"}
  PROVE  /\ call \in CallRecord /\ fh \in [Fds -> HandleRecord]
         /\ call.fd \in Fds /\ call.op \in {"read", "write"}
         /\ Handle = fh[call.fd] /\ Handle \in HandleRecord
         /\ Handle.open /\ call.file = Handle.file /\ call.file \in Files /\ call.file # None
         /\ Handle.position \in 0 .. MaxLen /\ Handle.offset \in 0 .. MaxLen
         /\ Handle.size \in 0 .. MaxLen /\ call.left \in 0 .. MaxLen
         /\ \A who \in Whose, num \in Numbers :
              Fits(who, num) => HandleFits(who, num, entry, Handle)
<1>1. call \in CallRecord /\ fh \in [Fds -> HandleRecord]
  BY RecordTypes DEF IInv
<1>2. /\ call.fd \in Fds /\ call.op \in {"read", "write"}
      /\ Handle = fh[call.fd] /\ Handle.open /\ call.file = Handle.file
  BY DEF IInv, CallOK, Handle
<1>3. /\ Handle \in HandleRecord /\ Handle.position \in 0 .. MaxLen
      /\ Handle.offset \in 0 .. MaxLen /\ Handle.size \in 0 .. MaxLen
      /\ call.left \in 0 .. MaxLen
  BY <1>1, <1>2 DEF HandleRecord, CallRecord
<1>4. \A who \in Whose, num \in Numbers :
        Fits(who, num) => HandleFits(who, num, entry, Handle)
  BY <1>2 DEF Fits, HandlesFit
<1>5. call.file \in Files /\ call.file # None
  BY <1>2, <1>4, Constants DEF HandleFits, IInv
<1> QED BY <1>1, <1>2, <1>3, <1>4, <1>5

LEMMA RSeekFoundFits ==
  ASSUME IInv, RSeekFound
  PROVE  IInv'
<1>1. call \in CallRecord /\ call.at = "rseek" /\ UNCHANGED <<fat, hint, entry, fh, data>>
  BY InTransfer DEF RSeekFound
<1>2. /\ call'.op = call.op /\ call'.fd = call.fd /\ call'.file = call.file
      /\ call'.at = "use" /\ call'.index = call.index /\ call'.left = call.left
      /\ call' \in CallRecord
  BY <1>1 DEF RSeekFound, CallRecord
<1>3. Handle' = Handle
  BY <1>1, <1>2 DEF Handle
<1>4. CallOK'
  BY <1>1, <1>2, <1>3 DEF IInv, CallOK
<1>5. ASSUME NEW who \in Whose, NEW num \in Numbers, Fits(who, num)
      PROVE  CallFits(who, num)'
  <2>1. Owned(who, num, call.index, call.file, Handle.position - call.left)
    BY <1>1, <1>5 DEF Fits, CallFits, RSeekFound
  <2>2. Handle.position - call.left = Handle.position
    BY <1>1, InTransfer DEF RSeekFound
  <2> QED BY <2>1, <2>2, <1>2, <1>3 DEF CallFits
<1> QED BY <1>1, <1>2, <1>4, <1>5, CallChanges

(* One more link: the handle remembers the cluster it leads to.            *)
LEMMA RSeekStepFits ==
  ASSUME IInv, RSeekStep
  PROVE  IInv'
<1> DEFINE i == fat[call.index].next
           h == [Handle EXCEPT !.clink = i,
                               !.offset = Handle.position - (call.left - 1)]
<1>1. call.at = "rseek" /\ call.left > 0 /\ UNCHANGED <<fat, hint, entry, data>>
  BY DEF RSeekStep
<1>2. call \in CallRecord /\ Handle \in HandleRecord /\ call.fd \in Fds
  BY <1>1, InTransfer
<1>3. /\ call'.op = call.op /\ call'.fd = call.fd /\ call'.file = call.file
      /\ call'.at = "rseek" /\ call'.index = i /\ call'.left = call.left - 1
      /\ call' = [call EXCEPT !.index = i, !.left = @ - 1]
  BY <1>1, <1>2 DEF RSeekStep, CallRecord
<1>4. fh' = [fh EXCEPT ![call.fd] = h]
  BY DEF RSeekStep, Remember, SetHandle
<1>5. /\ h.open = Handle.open /\ h.wr = Handle.wr /\ h.file = Handle.file
      /\ h.freeclink = Handle.freeclink /\ h.clink = i
      /\ h.offset = Handle.position - (call.left - 1)
      /\ h.position = Handle.position /\ h.size = Handle.size
  BY <1>2 DEF HandleRecord
<1>6. Handle' = h
  BY <1>3, <1>4, <1>2, <1>1, InTransfer DEF Handle
<1>7. ~ChainEnds /\ i # End /\ call.index # Null
  <2>1. ~ChainEnds /\ i # End
    BY <1>1 DEF RSeekStep, ChainEnds
  <2>2. call.index = Null => call.left = 0
    BY <1>1 DEF IInv, Fits, CallFits
  <2> QED BY <1>1, <2>1, <2>2
<1>8. call.left - 1 \in 0 .. MaxLen /\ call.left - 1 < call.left
  BY <1>1, InTransfer, Constants
<1>9. PICK who \in Whose, num \in Numbers : Fits(who, num)
  BY DEF IInv
<1>10. Owned(who, num, call.index, call.file, Handle.position - call.left)
  BY <1>1, <1>7, <1>9 DEF Fits, CallFits
<1>11. Owned(who, num, i, call.file, Handle.position - (call.left - 1))
  <2>1. num[call.index] + 1 = Handle.position - (call.left - 1)
    BY <1>1, <1>10, InTransfer DEF Owned
  <2> QED BY <2>1, <1>1, <1>7, <1>9, <1>10, InTransfer DEF Fits, ChainsFit, Owned
<1>12. i \in Index /\ h.offset \in 0 .. MaxLen
  BY <1>11, <1>5 DEF Owned, Numbers
<1>13. h \in HandleRecord
  BY <1>2, <1>12, <1>5 DEF HandleRecord
<1> HIDE DEF h
<1>14. call' \in CallRecord
  BY <1>2, <1>3, <1>8, <1>12 DEF CallRecord
<1>15. fh' \in [Fds -> HandleRecord] /\ \A x \in Fds : fh'[x] = IF x = call.fd THEN h ELSE fh[x]
  BY <1>4, <1>13, <1>1, InTransfer
<1>16. TypeOK'
  BY <1>1, <1>14, <1>15 DEF IInv, TypeOK, CallRecord, HandleRecord
<1>17. OneWriter'
  BY <1>15, <1>5, <1>1, InTransfer DEF IInv, OneWriter
<1>18. CallOK'
  BY <1>1, <1>3, <1>5, <1>6 DEF IInv, CallOK
<1>19. (ChainsFit(who, num) /\ FilesFit(who, num))'
  BY <1>1, <1>9, ChainsStay DEF Fits
<1>20. HandleFits(who, num, entry, h)
  <2>1. HandleFits(who, num, entry, Handle)
    BY <1>1, <1>9, InTransfer
  <2>2. Handle.freeclink # Null
    <3>1. Handle.freeclink = Null => Handle.position = 0
      BY <2>1, <1>1, InTransfer DEF HandleFits
    <3>2. Handle.position - call.left \in Nat
      BY <1>10, Constants DEF Owned, Numbers
    <3> QED BY <3>1, <3>2, <1>1, InTransfer
  <2> QED BY <2>1, <2>2, <1>5, <1>11, <1>1, InTransfer DEF HandleFits
<1>21. HandlesFit(who, num)'
  BY <1>1, <1>9, <1>15, <1>20 DEF Fits, HandlesFit
<1>22. CallFits(who, num)'
  <2>1. Handle'.position - call'.left = Handle.position - (call.left - 1)
    BY <1>3, <1>5, <1>6
  <2>2. call'.left = Handle'.position - Handle'.offset
    BY <1>3, <1>5, <1>6, <1>1, InTransfer
  <2> QED BY <2>1, <2>2, <1>3, <1>5, <1>6, <1>11, <1>12, Constants DEF CallFits
<1> QED BY <1>9, <1>16, <1>17, <1>18, <1>19, <1>21, <1>22 DEF IInv, Fits
-----------------------------------------------------------------------------
(* Calls that fail                                                         *)

(* The handle is given up; what a file that is gone had left, nobody owns. *)
LEMMA GiveUpFits ==
  ASSUME IInv, GiveUp, UNCHANGED <<fat, hint, entry, data>>
  PROVE  IInv'
<1>0. /\ TypeOK /\ OneWriter /\ call' = Idle
      /\ fh \in [Fds -> HandleRecord] /\ call \in CallRecord
  BY RecordTypes DEF IInv, GiveUp
<1>1. fh' \in [Fds -> HandleRecord] /\ \A d \in Fds : fh'[d] \in {fh[d], Unused}
  <2>1. CASE call.fd = None
    BY <2>1, <1>0 DEF GiveUp
  <2>2. CASE call.fd # None
    <3>1. call.fd \in Fds /\ fh' = [fh EXCEPT ![call.fd] = Unused]
      BY <2>2, <1>0 DEF GiveUp, CallRecord
    <3> QED BY <3>1, <1>0, Blank
  <2> QED BY <2>1, <2>2
<1>2. TypeOK'
  BY <1>0, <1>1, Blank DEF TypeOK, HandleRecord, CallRecord
<1>3. \A d \in Fds : fh'[d].open => fh'[d] = fh[d]
  BY <1>1 DEF Unused
<1>4. OneWriter'
  BY <1>0, <1>3 DEF OneWriter
<1>5. PICK who \in Whose, num \in Numbers : Fits(who, num)
  BY DEF IInv
<1>6. PICK kept \in Whose :
        \A i \in Index : kept[i] = IF who[i] # None /\ entry[who[i]].exists
                                  THEN who[i] ELSE None
  <2> DEFINE some == [i \in Index |-> IF who[i] # None /\ entry[who[i]].exists
                                     THEN who[i] ELSE None]
  <2>1. some \in Whose
    BY <1>5 DEF Whose
  <2> QED BY <2>1
<1>7. /\ \A i \in Index : kept[i] # None => who[i] = kept[i] /\ entry[kept[i]].exists
      /\ \A f \in Files, i \in Index : entry[f].exists /\ who[i] = f => kept[i] = f
      /\ \A f \in Files, i \in Index : kept[i] = f => who[i] = f
  BY <1>5, <1>6, Constants DEF Whose
<1>8. \A i, k : \A f \in Files :
        entry[f].exists /\ Owned(who, num, i, f, k) => Owned(kept, num, i, f, k)
  BY <1>7 DEF Owned
<1>9. ChainsFit(kept, num)'
  <2>1. \A i \in Index : kept[i] # None => kept[i] \in Files
    BY <1>5, <1>7 DEF Whose
  <2>2. \A i \in Index : kept[i] # None => fat[i].used /\ entry[kept[i]].exists
    BY <1>5, <1>7 DEF Fits, ChainsFit
  <2>3. \A i \in Index : kept[i] # None /\ fat[i].next # End =>
          Owned(kept, num, fat[i].next, kept[i], num[i] + 1)
    BY <1>5, <1>7, <1>8, <2>1 DEF Fits, ChainsFit
  <2>4. \A i, j \in Index : kept[i] # None /\ kept[i] = kept[j] =>
          /\ num[i] = num[j] => i = j
          /\ num[i] < num[j] => fat[i].next # End
    BY <1>5, <1>7 DEF Fits, ChainsFit
  <2>5. \A i \in Index : kept[i] # None /\ entry[kept[i]].exists =>
          \A k \in 0 .. num[i] : \E j \in Index : Owned(kept, num, j, kept[i], k)
    BY <1>5, <1>7, <1>8, <2>1 DEF Fits, ChainsFit
  <2> QED BY <2>2, <2>3, <2>4, <2>5 DEF ChainsFit, Live, Owned
<1>10. FilesFit(kept, num)'
  <2>1. \A f \in Files : entry[f].exists => HeadFits(kept, num, entry[f], f)
    BY <1>5, <1>7, <1>8 DEF Fits, FilesFit, HeadFits
  <2>2. \A f \in Files : entry[f].exists => DataFits(kept, num, entry[f], data, f)
    BY <1>5, <1>8 DEF Fits, FilesFit, DataFits
  <2> QED BY <2>1, <2>2 DEF FilesFit
<1>11. HandlesFit(kept, num)'
  <2>1. \A d \in Fds : fh'[d].open => HandleFits(kept, num, entry, fh'[d])
    BY <1>3, <1>5, <1>8 DEF Fits, HandlesFit, HandleFits
  <2> QED BY <2>1 DEF HandlesFit
<1>12. (CallFits(kept, num) /\ CallOK)'
  BY <1>0, NoCall
<1> QED BY <1>2, <1>4, <1>5, <1>6, <1>9, <1>10, <1>11, <1>12 DEF IInv, Fits

LEMMA FailFits ==
  ASSUME IInv, Fail \/ FullDevice
  PROVE  IInv'
<1>1. CASE Fail
  BY <1>1, GiveUpFits DEF Fail
<1>2. CASE FullDevice
  BY <1>2, GiveUpFits DEF FullDevice
<1> QED BY <1>1, <1>2

(* The chain ends: a writer, at the end of its file, is one cluster before *)
(* its position, or its file is empty.                                     *)
LEMMA RSeekEndFits ==
  ASSUME IInv, RSeekEnd
  PROVE  IInv'
<1>1. call.at = "rseek" /\ ChainEnds /\ UNCHANGED <<fat, hint, entry, data>>
  BY DEF RSeekEnd
<1>2. CASE call.op = "read"
  BY <1>2, GiveUpFits DEF RSeekEnd
<1>3. CASE call.op # "read"
  <2>1. call.op = "write" /\ call \in CallRecord
    BY <1>1, <1>3, InTransfer
  <2>0. call' = [call EXCEPT !.at = "wseek", !.left = 0] /\ UNCHANGED fh
    BY <1>3 DEF RSeekEnd
  <2>2. /\ UNCHANGED fh
        /\ call'.op = call.op /\ call'.fd = call.fd /\ call'.file = call.file
        /\ call'.at = "wseek" /\ call'.index = call.index /\ call'.left = 0
        /\ call' \in CallRecord
    <3>1. /\ call'.op = call.op /\ call'.fd = call.fd /\ call'.file = call.file
          /\ call'.at = "wseek" /\ call'.index = call.index /\ call'.left = 0
      BY <2>0, <2>1 DEF CallRecord
    <3>2. 0 \in 0 .. MaxLen
      BY Constants
    <3>3. call' \in CallRecord
      BY <2>0, <2>1, <3>2 DEF CallRecord
    <3> QED BY <2>0, <3>1, <3>3
  <2>3. Handle' = Handle
    BY <2>2 DEF Handle
  <2>4. CallOK'
    BY <1>1, <2>1, <2>2, <2>3 DEF IInv, CallOK
  <2>5. ASSUME NEW who \in Whose, NEW num \in Numbers, Fits(who, num)
        PROVE  CallFits(who, num)'
    <3>1. HandleFits(who, num, entry, Handle)
      BY <1>1, <2>5, InTransfer
    <3>2. CASE Handle.freeclink = Null
      BY <3>2, <2>2, <2>3 DEF CallFits
    <3>3. CASE Handle.freeclink # Null
      <4> DEFINE i == call.index
                 left == call.left
                 p == Handle.position
                 o == Handle.offset
      <4>1. p \in Nat /\ o \in Nat /\ left \in Nat
        BY <1>1, InTransfer, Constants
      <4>2. i # Null /\ Owned(who, num, i, call.file, p - left)
        BY <1>1, <2>5, <3>3 DEF Fits, CallFits
      <4>3. left # 0 /\ fat[i].next = End
        <5>1. left # 0
          BY <1>1, <4>2 DEF ChainEnds
        <5>2. fat[i].used
          BY <4>2, <2>5, <1>1, InTransfer DEF Fits, ChainsFit, Owned
        <5> QED BY <5>1, <5>2, <1>1 DEF ChainEnds
      <4>4. \A j, k : Owned(who, num, j, call.file, k) => k <= p - left
        <5> SUFFICES ASSUME NEW j, NEW k, Owned(who, num, j, call.file, k), ~(k <= p - left)
                     PROVE  FALSE
          OBVIOUS
        <5>1. num[i] = p - left /\ num[j] = k /\ who[i] = call.file /\ who[j] = call.file
              /\ i \in Index /\ j \in Index
          BY <4>2 DEF Owned
        <5>2. num[i] \in Nat /\ num[j] \in Nat
          BY <5>1, Constants DEF Numbers
        <5>3. num[i] < num[j]
          BY <5>1, <5>2, <4>1
        <5> QED BY <5>1, <5>3, <4>3, <2>5, <1>1, InTransfer DEF Fits, ChainsFit
      <4>5. p = 0 \/ p - 1 <= p - left
        <5> SUFFICES ASSUME p # 0 PROVE p - 1 <= p - left
          OBVIOUS
        <5>1. p - 1 \in 0 .. entry[call.file].length - 1
          <6>1. entry[call.file].length \in Nat
            BY <1>1, InTransfer, Constants DEF IInv, TypeOK
          <6>2. Handle.position <= Handle.size /\ Handle.size <= entry[call.file].length
            BY <3>1, <1>1, InTransfer DEF HandleFits
          <6>3. Handle.size \in Nat
            BY <1>1, InTransfer, Constants
          <6> QED BY <6>1, <6>2, <6>3, <4>1
        <5>2. entry[call.file].exists
          BY <3>1, <1>1, InTransfer DEF HandleFits
        <5>3. PICK j \in Index : Owned(who, num, j, call.file, p - 1)
          BY <5>1, <5>2, <2>5, <1>1, InTransfer DEF Fits, FilesFit, HeadFits, DataFits
        <5> QED BY <5>3, <4>4
      <4>6. p - left >= 0
        <5>1. num[i] \in Nat
          BY <4>2, Constants DEF Owned, Numbers
        <5> QED BY <5>1, <4>2 DEF Owned
      <4>7. left = 1 /\ p # 0
        BY <4>1, <4>3, <4>5, <4>6
      <4>8. i = Handle.clink /\ left = p - o
        <5>1. (i = Handle.clink /\ left = p - o) \/ (left = p /\ p < o)
          BY <4>2, <1>1, <2>5 DEF Fits, CallFits
        <5>2. Owned(who, num, Handle.clink, call.file, o)
          BY <3>1, <3>3, <1>1, InTransfer DEF HandleFits
        <5>3. o <= p - left
          BY <5>2, <4>4
        <5> QED BY <5>1, <5>3, <4>1, <4>7
      <4>9. p = o + 1
        BY <4>1, <4>7, <4>8
      <4> QED BY <4>3, <4>8, <4>9, <3>3, <2>2, <2>3, <1>1 DEF CallFits
    <3> QED BY <3>2, <3>3
  <2> QED BY <1>1, <2>2, <2>4, <2>5, CallChanges
<1> QED BY <1>2, <1>3
-----------------------------------------------------------------------------
(* Card_FatWSeek                                                           *)

(* The handle of a writer that found the end: at the last cluster of its   *)
(* file, one before its position.                                          *)
LEMMA AtTheEnd ==
  ASSUME IInv, call.at = "wseek", Handle.freeclink # Null,
         NEW who \in Whose, NEW num \in Numbers, Fits(who, num)
  PROVE  /\ Owned(who, num, Handle.clink, call.file, Handle.offset)
         /\ Owned(who, num, Handle.freeclink, call.file, 0)
         /\ fat[Handle.clink] = Reserved /\ Handle.position = Handle.offset + 1
         /\ Handle.position \in 0 .. MaxLen - 1
         /\ \A i, k : Owned(who, num, i, call.file, k) => k <= Handle.offset
<1>1. /\ HandleFits(who, num, entry, Handle) /\ call.file = Handle.file /\ call.file # None
      /\ Handle.offset \in 0 .. MaxLen /\ Handle.position \in 0 .. MaxLen
      /\ call.op = "write"
  BY InTransfer DEF IInv, CallOK
<1>2. /\ Owned(who, num, Handle.clink, call.file, Handle.offset)
      /\ Owned(who, num, Handle.freeclink, call.file, 0)
  BY <1>1 DEF HandleFits
<1>3. Handle.position = Handle.offset + 1 /\ fat[Handle.clink].next = End
  BY DEF Fits, CallFits
<1>4. Handle.position \in 0 .. MaxLen - 1
  BY <1>1, Constants DEF IInv, CallOK
<1>5. fat[Handle.clink] = Reserved
  <2>1. fat[Handle.clink].used = TRUE
    BY <1>1, <1>2 DEF Fits, ChainsFit, Owned, IInv, TypeOK
  <2>2. fat[Handle.clink] \in [used : BOOLEAN, next : Index \cup {End}]
    BY <1>2 DEF IInv, TypeOK, Owned
  <2> QED BY <2>1, <2>2, <1>3 DEF Reserved
<1>6. ASSUME NEW i, NEW k, Owned(who, num, i, call.file, k)
      PROVE  k <= Handle.offset
  <2>1. /\ i \in Index /\ who[i] = call.file /\ num[i] = k /\ k \in 0 .. MaxLen
        /\ Handle.clink \in Index /\ who[Handle.clink] = call.file
        /\ num[Handle.clink] = Handle.offset
    BY <1>2, <1>6 DEF Owned, Numbers
  <2>2. ~(num[Handle.clink] < num[i])
    BY <2>1, <1>1, <1>3 DEF Fits, ChainsFit
  <2> QED BY <2>1, <2>2, <1>1, Constants
<1> QED BY <1>2, <1>3, <1>4, <1>5, <1>6

LEMMA WSeekBeginFits ==
  ASSUME IInv, WSeekBegin
  PROVE  IInv'
<1> DEFINE i == IF FromStart THEN Handle.freeclink ELSE Handle.clink
           left == IF FromStart THEN Handle.position ELSE Handle.position - Handle.offset
<1>1. /\ call.at = "wseek" /\ Handle.freeclink # Null /\ call \in CallRecord
      /\ UNCHANGED <<fat, hint, entry, fh, data>>
  BY InTransfer DEF WSeekBegin
<1>2. call' = [call EXCEPT !.index = i, !.left = left]
  BY DEF WSeekBegin
<1>3. ASSUME NEW who \in Whose, NEW num \in Numbers, Fits(who, num)
      PROVE  i = Handle.clink /\ left = 1
  <2>1. /\ Owned(who, num, Handle.clink, call.file, Handle.offset)
        /\ Owned(who, num, Handle.freeclink, call.file, 0)
        /\ Handle.position = Handle.offset + 1
        /\ Handle.offset \in 0 .. MaxLen /\ call.file # None
    BY <1>1, <1>3, AtTheEnd, InTransfer
  <2>2. CASE FromStart
    <3>1. Handle.offset = 0
      BY <2>1, <2>2, Constants DEF FromStart
    <3>2. Handle.freeclink = Handle.clink
      BY <2>1, <3>1, <1>3 DEF Fits, ChainsFit, Owned
    <3> QED BY <2>1, <2>2, <3>1, <3>2
  <2>3. CASE ~FromStart
    BY <2>1, <2>3
  <2> QED BY <2>2, <2>3
<1>4. i = Handle.clink /\ left = 1 /\ Handle.clink \in Index \cup {Null}
  BY <1>1, <1>3, InTransfer DEF IInv, HandleRecord
<1> HIDE DEF i, left
<1>5. /\ call'.op = call.op /\ call'.fd = call.fd /\ call'.file = call.file
      /\ call'.at = "wseek" /\ call'.index = Handle.clink /\ call'.left = 1
  BY <1>1, <1>2, <1>4 DEF CallRecord
<1>6. call' \in CallRecord
  <2>1. 1 \in 0 .. MaxLen
    BY Constants
  <2> QED BY <1>1, <1>2, <1>4, <2>1 DEF CallRecord
<1>7. Handle' = Handle
  BY <1>1, <1>5 DEF Handle
<1>8. CallOK'
  BY <1>1, <1>5, <1>7 DEF IInv, CallOK
<1>9. ASSUME NEW who \in Whose, NEW num \in Numbers, Fits(who, num)
      PROVE  CallFits(who, num)'
  BY <1>1, <1>5, <1>7, <1>9 DEF Fits, CallFits
<1> QED BY <1>1, <1>6, <1>8, <1>9, CallChanges

(* A cluster c that was nobody's is given to file f, with number n.        *)
Gives(who, num, c, f, n, who2, num2) ==
  /\ who[c] = None /\ who2[c] = f /\ num2[c] = n
  /\ \A i \in Index \ {c} : who2[i] = who[i] /\ num2[i] = num[i]

LEMMA Given ==
  ASSUME IInv, NEW who \in Whose, NEW num \in Numbers, Fits(who, num),
         NEW c \in Index, ~fat[c].used, NEW f \in Files, NEW n \in 0 .. MaxLen
  PROVE  \E who2 \in Whose, num2 \in Numbers : Gives(who, num, c, f, n, who2, num2)
<1>1. who[c] = None
  BY DEF Fits, ChainsFit
<1>2. [who EXCEPT ![c] = f] \in Whose /\ [num EXCEPT ![c] = n] \in Numbers
  BY DEF Whose, Numbers
<1>3. /\ [who EXCEPT ![c] = f][c] = f /\ [num EXCEPT ![c] = n][c] = n
      /\ \A i \in Index \ {c} : /\ [who EXCEPT ![c] = f][i] = who[i]
                               /\ [num EXCEPT ![c] = n][i] = num[i]
  BY DEF Whose, Numbers
<1>4. Gives(who, num, c, f, n, [who EXCEPT ![c] = f], [num EXCEPT ![c] = n])
  BY <1>1, <1>3 DEF Gives
<1> QED BY <1>2, <1>4

(* The chain of f gets the free cluster c, number n: its first one, or the *)
(* one after x, which was the last.                                        *)
LEMMA ChainGrows ==
  ASSUME IInv, NEW who \in Whose, NEW num \in Numbers, Fits(who, num),
         NEW c \in Index, ~fat[c].used, NEW f \in Files, entry[f].exists,
         NEW n \in 0 .. MaxLen, NEW x \in Index,
         IF n = 0 THEN \A i \in Index : who[i] # f
         ELSE Owned(who, num, x, f, n - 1) /\ fat[x].next = End,
         fat' = IF n = 0 THEN [fat EXCEPT ![c] = Reserved]
                ELSE [fat EXCEPT ![c] = Reserved, ![x] = [used |-> TRUE, next |-> c]],
         \A g \in Files : entry'[g].exists = entry[g].exists, call.at = "wseek",
         NEW who2 \in Whose, NEW num2 \in Numbers, Gives(who, num, c, f, n, who2, num2)
  PROVE  /\ ChainsFit(who2, num2)'
         /\ \A i, k : \A g \in Files :
              Owned(who, num, i, g, k) => Owned(who2, num2, i, g, k) /\ i # c
<1>0. /\ who[c] = None /\ f # None /\ MaxLen \in Nat /\ Null \notin Index /\ End \notin Index
      /\ fat \in [Index -> [used : BOOLEAN, next : Index \cup {End}]]
      /\ who2[c] = f /\ num2[c] = n
      /\ \A i \in Index \ {c} : who2[i] = who[i] /\ num2[i] = num[i]
  BY Constants DEF IInv, TypeOK, Gives
<1> USE <1>0
<1>1. \A i, k : \A g \in Files :
        Owned(who, num, i, g, k) => Owned(who2, num2, i, g, k) /\ i # c
  BY <1>0, Constants DEF Owned
<1>2. n # 0 => x \in Index /\ x # c /\ who[x] = f /\ num[x] = n - 1 /\ fat[x].next = End
  BY <1>1 DEF Owned
<1>3. /\ fat'[c].used /\ fat'[c].next = End
      /\ n # 0 => fat'[x].used /\ fat'[x].next = c
      /\ \A i \in Index \ {c} : i # x \/ n = 0 => fat'[i] = fat[i]
  BY <1>0, <1>2 DEF Reserved
<1>4. \A i \in Index : who2[i] # None => who2[i] \in Files
  BY DEF Whose
<1>5. \A i \in Index : who2[i] # None => entry'[who2[i]].exists /\ fat'[i].used
  <2>1. \A i \in Index : who[i] # None => entry[who[i]].exists /\ fat[i].used
    BY DEF Fits, ChainsFit, Live
  <2> QED BY <2>1, <1>3, <1>4
<1>6. \A i \in Index : who[i] = f /\ n # 0 => num[i] <= n - 1
  <2> SUFFICES ASSUME NEW i \in Index, who[i] = f, n # 0 PROVE num[i] <= n - 1
    OBVIOUS
  <2>1. num[i] \in Nat /\ num[x] \in Nat
    BY <1>0, <1>2 DEF Numbers
  <2>2. ~(num[x] < num[i])
    BY <1>0, <1>2 DEF Fits, ChainsFit
  <2> QED BY <2>1, <2>2, <1>2
<1>7. \A i \in Index : who2[i] # None /\ fat'[i].next # End =>
        Owned(who2, num2, fat'[i].next, who2[i], num2[i] + 1)
  <2> SUFFICES ASSUME NEW i \in Index, who2[i] # None, fat'[i].next # End
               PROVE  Owned(who2, num2, fat'[i].next, who2[i], num2[i] + 1)
    OBVIOUS
  <2>1. i # c
    BY <1>3
  <2>2. CASE n # 0 /\ i = x
    <3>1. num2[i] + 1 = n
      BY <2>1, <2>2, <1>2
    <3> QED BY <3>1, <2>1, <2>2, <1>2, <1>3 DEF Owned
  <2>3. CASE ~(n # 0 /\ i = x)
    <3>1. fat'[i] = fat[i] /\ who2[i] = who[i] /\ num2[i] = num[i]
      BY <2>1, <2>3, <1>3
    <3>2. Owned(who, num, fat[i].next, who[i], num[i] + 1)
      BY <3>1 DEF Fits, ChainsFit
    <3> QED BY <3>1, <3>2, <1>1, <1>4
  <2> QED BY <2>2, <2>3
<1>8. \A i, j \in Index : who2[i] # None /\ who2[i] = who2[j] =>
        /\ num2[i] = num2[j] => i = j
        /\ num2[i] < num2[j] => fat'[i].next # End
  <2> SUFFICES ASSUME NEW i \in Index, NEW j \in Index, who2[i] # None, who2[i] = who2[j]
               PROVE  /\ num2[i] = num2[j] => i = j
                      /\ num2[i] < num2[j] => fat'[i].next # End
    OBVIOUS
  <2>1. CASE i # c /\ j # c
    <3>1. /\ num[i] = num[j] => i = j
          /\ num[i] < num[j] => fat[i].next # End
      BY <2>1 DEF Fits, ChainsFit
    <3>2. fat[i].next # End => fat'[i].next # End
      BY <2>1, <1>2, <1>3
    <3> QED BY <2>1, <3>1, <3>2
  <2>2. CASE i = c /\ j = c
    BY <2>2
  <2>3. CASE i = c /\ j # c
    <3>1. who[j] = f /\ n # 0
      BY <2>3
    <3>2. num2[j] <= n - 1 /\ num2[j] \in Nat
      BY <3>1, <2>3, <1>0, <1>6 DEF Numbers
    <3> QED BY <3>2, <2>3
  <2>4. CASE i # c /\ j = c
    <3>1. who[i] = f /\ n # 0
      BY <2>4
    <3>2. num2[i] <= n - 1 /\ num2[i] \in Nat /\ num2[i] = num[i]
      BY <3>1, <2>4, <1>0, <1>6 DEF Numbers
    <3>3. CASE i = x
      BY <3>1, <3>2, <3>3, <2>4, <1>0, <1>3
    <3>4. CASE i # x
      <4>1. num[i] # num[x]
        BY <3>1, <3>4, <1>0, <1>2 DEF Fits, ChainsFit
      <4>2. num[i] < num[x]
        BY <4>1, <3>1, <3>2, <1>2
      <4>3. fat[i].next # End
        BY <4>2, <3>1, <1>0, <1>2 DEF Fits, ChainsFit
      <4>4. num2[i] # num2[j]
        BY <3>2, <2>4, <1>0
      <4>5. fat'[i].next # End
        BY <4>3, <3>4, <2>4, <1>3
      <4> QED BY <4>4, <4>5
    <3> QED BY <3>3, <3>4
  <2> QED BY <2>1, <2>2, <2>3, <2>4
<1>9. \A i \in Index : who2[i] # None =>
        \A k \in 0 .. num2[i] : \E j \in Index : Owned(who2, num2, j, who2[i], k)
  <2> SUFFICES ASSUME NEW i \in Index, who2[i] # None, NEW k \in 0 .. num2[i]
               PROVE  \E j \in Index : Owned(who2, num2, j, who2[i], k)
    OBVIOUS
  <2>1. CASE i # c
    <3>1. who[i] # None /\ entry[who[i]].exists /\ k \in 0 .. num[i]
      BY <2>1, <1>5, <1>4
    <3>2. PICK j \in Index : Owned(who, num, j, who[i], k)
      BY <3>1 DEF Fits, ChainsFit
    <3> QED BY <2>1, <3>2, <1>1, <1>4
  <2>2. CASE i = c /\ k = n
    BY <2>2 DEF Owned
  <2>3. CASE i = c /\ k # n
    <3>1. n # 0 /\ k \in 0 .. num[x]
      BY <2>3, <1>2
    <3>2. PICK j \in Index : Owned(who, num, j, f, k)
      BY <3>1, <1>0, <1>2 DEF Fits, ChainsFit
    <3> QED BY <2>3, <3>2, <1>1
  <2> QED BY <2>1, <2>2, <2>3
<1>10. ChainsFit(who2, num2)'
  BY <1>5, <1>7, <1>8, <1>9 DEF ChainsFit, Live, Owned
<1> QED BY <1>1, <1>10

(* Everything else that fitted still does when f gets the cluster c.       *)
LEMMA OthersStay ==
  ASSUME IInv, NEW who \in Whose, NEW num \in Numbers, Fits(who, num),
         NEW c \in Index, NEW f \in Files, NEW n \in 0 .. MaxLen,
         NEW who2 \in Whose, NEW num2 \in Numbers, Gives(who, num, c, f, n, who2, num2)
  PROVE  /\ \A i, k : \A g \in Files : Owned(who, num, i, g, k) => Owned(who2, num2, i, g, k)
         /\ \A d \in Fds : fh[d].open => HandleFits(who2, num2, entry, fh[d])
         /\ \A g \in Files : entry[g].exists => DataFits(who2, num2, entry[g], data, g)
         /\ \A g \in Files : entry[g].exists =>
              (g = f /\ entry[g].cluster = Null) \/ HeadFits(who2, num2, entry[g], g)
<1>0. /\ who[c] = None /\ who2[c] = f
      /\ \A i \in Index \ {c} : who2[i] = who[i] /\ num2[i] = num[i]
  BY DEF Gives
<1>1. \A i, k : \A g \in Files : Owned(who, num, i, g, k) => Owned(who2, num2, i, g, k)
  BY <1>0, Constants DEF Owned
<1>2. \A d \in Fds : fh[d].open => HandleFits(who2, num2, entry, fh[d])
  BY <1>1 DEF Fits, HandlesFit, HandleFits
<1>3. \A g \in Files : entry[g].exists => DataFits(who2, num2, entry[g], data, g)
  BY <1>1 DEF Fits, FilesFit, DataFits
<1>4. \A g \in Files : entry[g].exists =>
        (g = f /\ entry[g].cluster = Null) \/ HeadFits(who2, num2, entry[g], g)
  BY <1>0, <1>1 DEF Fits, FilesFit, HeadFits
<1> QED BY <1>1, <1>2, <1>3, <1>4

LEMMA WSeekFirstFits ==
  ASSUME IInv, WSeekFirst
  PROVE  IInv'
<1>a. PICK c \in Index : c = Found /\ ~fat[c].used
  BY FoundIsFree DEF IInv, WSeekFirst
<1>b. PICK f \in Files : f = call.file
  BY InTransfer DEF WSeekFirst
<1> DEFINE h == [Handle EXCEPT !.freeclink = c, !.clink = c]
<1>1. /\ call.at = "wseek" /\ Handle.freeclink = Null /\ ~Full
      /\ fat' = [fat EXCEPT ![c] = Reserved] /\ hint' = c
      /\ entry' = [entry EXCEPT ![f].cluster = c]
      /\ fh' = [fh EXCEPT ![call.fd] = h]
      /\ call' = [call EXCEPT !.at = "use", !.index = c]
      /\ UNCHANGED data
  BY <1>a, <1>b DEF WSeekFirst, SetHandle
<1>2. /\ call \in CallRecord /\ fh \in [Fds -> HandleRecord] /\ Handle \in HandleRecord
      /\ call.fd \in Fds /\ Handle = fh[call.fd] /\ f \in Files /\ f # None
      /\ Handle.open /\ Handle.file = f /\ Handle.position \in 0 .. MaxLen
      /\ Handle.wr /\ call.op = "write" /\ Handle.position < MaxLen
  BY <1>1, <1>b, InTransfer DEF IInv, CallOK
<1>3. c \in Index /\ ~fat[c].used /\ c # Null
  BY <1>a, Constants
<1>4. PICK who \in Whose, num \in Numbers : Fits(who, num)
  BY DEF IInv
<1>5. /\ HandleFits(who, num, entry, Handle) /\ entry[f].exists
      /\ entry[f].cluster = Null /\ \A i \in Index : who[i] # f
      /\ Handle.offset = 0 /\ Handle.size = 0 /\ Handle.position = 0 /\ entry[f].length = 0
  <2>1. HandleFits(who, num, entry, Handle)
    BY <1>1, <1>4, InTransfer
  <2>2. /\ entry[f].exists /\ entry[f].cluster = Null
        /\ Handle.offset = 0 /\ Handle.size = 0 /\ entry[f].length = 0
        /\ Handle.position <= 0
    BY <2>1, <1>1, <1>2 DEF HandleFits
  <2>3. Handle.position = 0
    BY <2>2, <1>2, Constants
  <2> QED BY <2>1, <2>2, <2>3, <1>2, <1>4 DEF Fits, FilesFit, HeadFits, DataFits
<1>6. 0 \in 0 .. MaxLen
  BY Constants
<1>7. PICK who2 \in Whose, num2 \in Numbers : Gives(who, num, c, f, 0, who2, num2)
  BY <1>3, <1>4, <1>6, Given
<1>8. Owned(who2, num2, c, f, 0)
  BY <1>3, <1>7 DEF Owned, Gives
<1>9. /\ \A g \in Files : /\ entry'[g].exists = entry[g].exists
                          /\ entry'[g].length = entry[g].length
                          /\ entry'[g].cluster = IF g = f THEN c ELSE entry[g].cluster
      /\ entry' \in [Files -> [exists : BOOLEAN, cluster : Index \cup {Null},
                                length : 0 .. MaxLen]]
  BY <1>1, <1>2, <1>3 DEF IInv, TypeOK
<1>10. ChainsFit(who2, num2)'
  <2>1. \A g \in Files : entry'[g].exists = entry[g].exists
    BY <1>9
  <2>2. fat' = IF 0 = 0 THEN [fat EXCEPT ![c] = Reserved]
               ELSE [fat EXCEPT ![c] = Reserved, ![c] = [used |-> TRUE, next |-> c]]
    BY <1>1
  <2>3. IF 0 = 0 THEN \A i \in Index : who[i] # f
        ELSE Owned(who, num, c, f, 0 - 1) /\ fat[c].next = End
    BY <1>5
  <2> QED BY <1>1, <1>3, <1>4, <1>5, <1>6, <1>7, <2>1, <2>2, <2>3, ChainGrows
<1>11. /\ h.open = Handle.open /\ h.wr = Handle.wr /\ h.file = f
       /\ h.freeclink = c /\ h.clink = c /\ h.offset = Handle.offset
       /\ h.position = Handle.position /\ h.size = Handle.size
       /\ h \in HandleRecord
  BY <1>2, <1>3 DEF HandleRecord
<1> HIDE DEF h
<1>12. /\ call'.op = call.op /\ call'.fd = call.fd /\ call'.file = f
       /\ call'.at = "use" /\ call'.index = c /\ call'.left = call.left
       /\ call' \in CallRecord
  BY <1>1, <1>2, <1>3, <1>b DEF CallRecord
<1>13. /\ fh' \in [Fds -> HandleRecord]
       /\ \A d \in Fds : fh'[d] = IF d = call.fd THEN h ELSE fh[d]
  BY <1>1, <1>2, <1>11
<1>14. Handle' = h
  BY <1>2, <1>12, <1>13 DEF Handle
<1>15. TypeOK'
  <2>1. fat' \in [Index -> [used : BOOLEAN, next : Index \cup {End}]] /\ hint' \in Index \cup {End}
    BY <1>1, <1>3 DEF IInv, TypeOK, Reserved
  <2> QED BY <1>1, <1>9, <1>12, <1>13, <2>1 DEF IInv, TypeOK, HandleRecord, CallRecord
<1>16. OneWriter'
  BY <1>2, <1>11, <1>13 DEF IInv, OneWriter
<1>17. CallOK'
  BY <1>2, <1>11, <1>12, <1>14 DEF CallOK
<1>18. /\ \A d \in Fds : fh[d].open => HandleFits(who2, num2, entry, fh[d])
       /\ \A g \in Files : entry[g].exists => DataFits(who2, num2, entry[g], data, g)
       /\ \A g \in Files : entry[g].exists =>
            (g = f /\ entry[g].cluster = Null) \/ HeadFits(who2, num2, entry[g], g)
  BY <1>4, <1>6, <1>7, OthersStay
<1>19. FilesFit(who2, num2)'
  <2>1. ASSUME NEW g \in Files, entry'[g].exists
        PROVE  HeadFits(who2, num2, entry'[g], g) /\ DataFits(who2, num2, entry'[g], data, g)
    <3>1. CASE g = f
      BY <3>1, <1>3, <1>5, <1>8, <1>9 DEF HeadFits, DataFits
    <3>2. CASE g # f
      <4>1. /\ entry[g].exists /\ entry'[g].cluster = entry[g].cluster
            /\ entry'[g].length = entry[g].length
        BY <3>2, <2>1, <1>9
      <4> QED BY <4>1, <3>2, <1>18 DEF HeadFits, DataFits
    <3> QED BY <3>1, <3>2
  <2> QED BY <2>1, <1>1 DEF FilesFit
<1>20. HandlesFit(who2, num2)'
  <2>1. ASSUME NEW d \in Fds, fh'[d].open
        PROVE  HandleFits(who2, num2, entry', fh'[d])
    <3>1. CASE d = call.fd
      BY <3>1, <1>1, <1>2, <1>3, <1>5, <1>8, <1>9, <1>11, <1>13 DEF HandleFits
    <3>2. CASE d # call.fd
      <4>1. HandleFits(who2, num2, entry, fh[d]) /\ fh'[d] = fh[d]
        BY <3>2, <2>1, <1>13, <1>18
      <4>2. fh[d].wr => fh[d].file # f
        BY <3>2, <4>1, <2>1, <1>2 DEF IInv, OneWriter
      <4> QED BY <4>1, <4>2, <1>9 DEF HandleFits
    <3> QED BY <3>1, <3>2
  <2> QED BY <2>1 DEF HandlesFit
<1>21. CallFits(who2, num2)'
  BY <1>5, <1>8, <1>11, <1>12, <1>14 DEF CallFits, Owned
<1> QED BY <1>10, <1>15, <1>16, <1>17, <1>19, <1>20, <1>21 DEF IInv, Fits

LEMMA WSeekExtendFits ==
  ASSUME IInv, WSeekExtend
  PROVE  IInv'
<1>a. PICK c \in Index : c = Found /\ ~fat[c].used
  BY FoundIsFree DEF IInv, WSeekExtend
<1>b. PICK f \in Files : f = call.file
  BY InTransfer DEF WSeekExtend
<1>c. PICK x : x = call.index
  OBVIOUS
<1> DEFINE h == [Handle EXCEPT !.clink = c, !.offset = Handle.position - 0]
<1>1. /\ call.at = "wseek" /\ call.left > 0 /\ ~Full
      /\ fat' = [fat EXCEPT ![c] = Reserved, ![x] = [used |-> TRUE, next |-> c]]
      /\ hint' = c /\ Arrive(c) /\ UNCHANGED <<entry, data>>
  BY <1>a, <1>c DEF WSeekExtend
<1>2. /\ call \in CallRecord /\ fh \in [Fds -> HandleRecord] /\ Handle \in HandleRecord
      /\ call.fd \in Fds /\ Handle = fh[call.fd] /\ f \in Files /\ f # None
      /\ Handle.open /\ Handle.file = f
      /\ Handle.wr /\ call.op = "write" /\ Handle.position < MaxLen
  BY <1>1, <1>b, InTransfer DEF IInv, CallOK
<1>3. c # Null /\ MaxLen \in Nat
  BY Constants
<1>4. PICK who \in Whose, num \in Numbers : Fits(who, num)
  BY DEF IInv
<1>5. Handle.freeclink # Null /\ call.left = 1 /\ x = Handle.clink
  <2>1. call.left # 0
    BY <1>1, <1>2, InTransfer
  <2> QED BY <2>1, <1>1, <1>4, <1>c DEF Fits, CallFits
<1>6. /\ Owned(who, num, x, f, Handle.position - 1) /\ fat[x].next = End
      /\ Handle.position \in 0 .. MaxLen - 1 /\ Handle.position # 0
  <2>1. /\ Owned(who, num, x, f, Handle.offset) /\ fat[x] = Reserved
        /\ Handle.position = Handle.offset + 1
        /\ Handle.position \in 0 .. MaxLen - 1 /\ Handle.offset \in 0 .. MaxLen
    BY <1>1, <1>4, <1>5, <1>b, AtTheEnd, InTransfer
  <2>2. Handle.position - 1 = Handle.offset /\ Handle.position # 0
    BY <2>1, <1>3
  <2> QED BY <2>1, <2>2 DEF Reserved
<1>7. PICK n \in 0 .. MaxLen : n = Handle.position
  BY <1>3, <1>6
<1>8. HandleFits(who, num, entry, Handle) /\ entry[f].exists
  <2>1. HandleFits(who, num, entry, Handle)
    BY <1>1, <1>4, InTransfer
  <2> QED BY <2>1, <1>2 DEF HandleFits
<1>9. PICK who2 \in Whose, num2 \in Numbers : Gives(who, num, c, f, n, who2, num2)
  BY <1>a, <1>4, Given
<1>10. Owned(who2, num2, c, f, n)
  BY <1>9 DEF Owned, Gives
<1>11. ChainsFit(who2, num2)'
  <2>1. \A g \in Files : entry'[g].exists = entry[g].exists
    BY <1>1
  <2>2. n # 0 /\ x \in Index
    BY <1>6, <1>7 DEF Owned
  <2>3. fat' = IF n = 0 THEN [fat EXCEPT ![c] = Reserved]
               ELSE [fat EXCEPT ![c] = Reserved, ![x] = [used |-> TRUE, next |-> c]]
    BY <1>1, <2>2
  <2>4. IF n = 0 THEN \A i \in Index : who[i] # f
        ELSE Owned(who, num, x, f, n - 1) /\ fat[x].next = End
    BY <1>6, <1>7, <2>2
  <2> QED BY <1>a, <1>1, <1>4, <1>8, <1>9, <2>1, <2>2, <2>3, <2>4, ChainGrows
<1>12. /\ h.open = Handle.open /\ h.wr = Handle.wr /\ h.file = f
       /\ h.freeclink = Handle.freeclink /\ h.clink = c /\ h.offset = n
       /\ h.position = n /\ h.size = Handle.size /\ h \in HandleRecord
  <2>1. Handle.position - 0 = n
    BY <1>7
  <2> QED BY <2>1, <1>2, <1>7 DEF HandleRecord
<1>13. fh' = [fh EXCEPT ![call.fd] = h]
       /\ call' = [call EXCEPT !.at = "use", !.index = c, !.left = 0]
  BY <1>1, <1>5 DEF Arrive, Remember, SetHandle
<1> HIDE DEF h
<1>14. /\ call'.op = call.op /\ call'.fd = call.fd /\ call'.file = f
       /\ call'.at = "use" /\ call'.index = c /\ call'.left = 0
  BY <1>2, <1>13, <1>b DEF CallRecord
<1>15. call' \in CallRecord
  <2>1. 0 \in 0 .. MaxLen
    BY <1>3
  <2> QED BY <2>1, <1>2, <1>13 DEF CallRecord
<1>16. /\ fh' \in [Fds -> HandleRecord]
       /\ \A d \in Fds : fh'[d] = IF d = call.fd THEN h ELSE fh[d]
  BY <1>2, <1>12, <1>13
<1>17. Handle' = h
  BY <1>2, <1>14, <1>16 DEF Handle
<1>18. TypeOK'
  <2>1. fat' \in [Index -> [used : BOOLEAN, next : Index \cup {End}]] /\ hint' \in Index \cup {End}
    BY <1>1 DEF IInv, TypeOK, Reserved
  <2> QED BY <1>1, <1>15, <1>16, <2>1 DEF IInv, TypeOK, HandleRecord, CallRecord
<1>19. OneWriter'
  BY <1>2, <1>12, <1>16 DEF IInv, OneWriter
<1>20. CallOK'
  BY <1>2, <1>7, <1>12, <1>14, <1>17 DEF CallOK
<1>21. /\ \A d \in Fds : fh[d].open => HandleFits(who2, num2, entry, fh[d])
       /\ \A g \in Files : entry[g].exists => DataFits(who2, num2, entry[g], data, g)
       /\ \A g \in Files : entry[g].exists =>
            (g = f /\ entry[g].cluster = Null) \/ HeadFits(who2, num2, entry[g], g)
  BY <1>4, <1>9, OthersStay
<1>22. FilesFit(who2, num2)'
  <2>1. entry[f].cluster # Null
    BY <1>2, <1>5, <1>8 DEF HandleFits
  <2> QED BY <2>1, <1>1, <1>21 DEF FilesFit
<1>23. HandlesFit(who2, num2)'
  <2>1. HandleFits(who2, num2, entry, h)
    <3>1. HandleFits(who2, num2, entry, Handle)
      BY <1>2, <1>21
    <3> QED BY <3>1, <1>2, <1>5, <1>7, <1>10, <1>12 DEF HandleFits
  <2> QED BY <2>1, <1>1, <1>16, <1>21 DEF HandlesFit
<1>24. CallFits(who2, num2)'
  BY <1>10, <1>12, <1>14, <1>17 DEF CallFits, Owned
<1> QED BY <1>11, <1>18, <1>19, <1>20, <1>22, <1>23, <1>24 DEF IInv, Fits
-----------------------------------------------------------------------------
(* Card_FileRead and Card_FileWrite                                        *)

LEMMA ReadFits ==
  ASSUME IInv, Read
  PROVE  IInv'
<1> DEFINE h == [Handle EXCEPT !.position = @ + 1]
<1>1. /\ call.at = "use" /\ call' = Idle /\ UNCHANGED <<fat, hint, entry, data>>
      /\ fh' = [fh EXCEPT ![call.fd] = h]
  BY DEF Read, SetHandle
<1>2. /\ fh \in [Fds -> HandleRecord] /\ Handle \in HandleRecord
      /\ call.fd \in Fds /\ Handle = fh[call.fd] /\ Handle.open
      /\ Handle.size \in 0 .. MaxLen /\ Handle.position \in 0 .. MaxLen
      /\ Handle.position < Handle.size
  BY <1>1, InTransfer DEF IInv, CallOK, Read
<1>3. Handle.position + 1 \in 0 .. MaxLen /\ Handle.position + 1 <= Handle.size
  BY <1>2, Constants
<1>4. /\ h.open = Handle.open /\ h.wr = Handle.wr /\ h.file = Handle.file
      /\ h.freeclink = Handle.freeclink /\ h.clink = Handle.clink
      /\ h.offset = Handle.offset /\ h.position = Handle.position + 1
      /\ h.size = Handle.size /\ h \in HandleRecord
  BY <1>2, <1>3 DEF HandleRecord
<1> HIDE DEF h
<1>5. /\ fh' \in [Fds -> HandleRecord]
      /\ \A d \in Fds : fh'[d] = IF d = call.fd THEN h ELSE fh[d]
  BY <1>1, <1>2, <1>4
<1>6. TypeOK'
  BY <1>1, <1>5, Blank DEF IInv, TypeOK, HandleRecord, CallRecord
<1>7. OneWriter'
  BY <1>2, <1>4, <1>5 DEF IInv, OneWriter
<1>8. PICK who \in Whose, num \in Numbers : Fits(who, num)
  BY DEF IInv
<1>9. (ChainsFit(who, num) /\ FilesFit(who, num))'
  BY <1>1, <1>8, ChainsStay DEF Fits
<1>10. HandlesFit(who, num)'
  <2>1. HandleFits(who, num, entry, Handle)
    BY <1>1, <1>8, InTransfer
  <2>2. HandleFits(who, num, entry, h)
    BY <2>1, <1>3, <1>4 DEF HandleFits
  <2> QED BY <2>2, <1>1, <1>5, <1>8 DEF Fits, HandlesFit
<1>11. (CallFits(who, num) /\ CallOK)'
  BY <1>1, NoCall
<1> QED BY <1>6, <1>7, <1>8, <1>9, <1>10, <1>11 DEF IInv, Fits

(* The cluster written is the one of the position: the one that the        *)
(* longer file needs, or one that had other data.                          *)
LEMMA WriteFits ==
  ASSUME IInv, Write
  PROVE  IInv'
<1>a. PICK f \in Files : f = call.file
  BY InTransfer DEF Write
<1>b. PICK x : x = call.index
  OBVIOUS
<1>c. PICK p \in 0 .. MaxLen : p = Handle.position
  BY InTransfer DEF Write
<1>d. PICK long : long = Longer(Handle)
  OBVIOUS
<1> DEFINE h == [Handle EXCEPT !.position = @ + 1, !.size = long]
<1>1. /\ call.at = "use" /\ call' = Idle /\ UNCHANGED <<fat, hint>>
      /\ data' = [data EXCEPT ![x] = <<f, p>>]
      /\ fh' = [fh EXCEPT ![call.fd] = h]
      /\ entry' = [entry EXCEPT ![f].cluster = Handle.freeclink, ![f].length = long]
  BY <1>a, <1>b, <1>c, <1>d DEF Write, SetHandle
<1>2. /\ fh \in [Fds -> HandleRecord] /\ Handle \in HandleRecord
      /\ call.fd \in Fds /\ Handle = fh[call.fd] /\ Handle.open /\ Handle.file = f
      /\ Handle.size \in 0 .. MaxLen /\ Handle.wr /\ p < MaxLen /\ MaxLen \in Nat
      /\ f # None /\ Handle.freeclink \in Index \cup {Null}
  BY <1>1, <1>a, <1>c, InTransfer, Constants DEF IInv, CallOK, Write, HandleRecord
<1>3. /\ long \in 0 .. MaxLen /\ p + 1 \in 0 .. MaxLen /\ p + 1 <= long
      /\ Handle.size <= long
      /\ \A k \in 0 .. long - 1 : k # p => k \in 0 .. Handle.size - 1 \/ p > Handle.size
  BY <1>2, <1>c, <1>d DEF Longer
<1>4. PICK who \in Whose, num \in Numbers : Fits(who, num)
  BY DEF IInv
<1>5. /\ HandleFits(who, num, entry, Handle) /\ Owned(who, num, x, f, p)
      /\ p <= Handle.size /\ entry[f].exists
      /\ entry[f].cluster = Handle.freeclink /\ entry[f].length = Handle.size
  <2>1. HandleFits(who, num, entry, Handle)
    BY <1>1, <1>4, InTransfer
  <2>2. Owned(who, num, x, f, p)
    BY <1>1, <1>4, <1>a, <1>b, <1>c DEF Fits, CallFits
  <2> QED BY <2>1, <2>2, <1>2, <1>c DEF HandleFits
<1>6. /\ \A g \in Files : /\ entry'[g].exists = entry[g].exists
                          /\ entry'[g].cluster = entry[g].cluster
                          /\ entry'[g].length = IF g = f THEN long ELSE entry[g].length
      /\ entry' \in [Files -> [exists : BOOLEAN, cluster : Index \cup {Null},
                                length : 0 .. MaxLen]]
  <2>1. entry \in [Files -> [exists : BOOLEAN, cluster : Index \cup {Null}, length : 0 .. MaxLen]]
    BY DEF IInv, TypeOK
  <2>2. entry' \in [Files -> [exists : BOOLEAN, cluster : Index \cup {Null}, length : 0 .. MaxLen]]
    <3> DEFINE e == [entry[f] EXCEPT !.cluster = Handle.freeclink, !.length = long]
    <3>1. e \in [exists : BOOLEAN, cluster : Index \cup {Null}, length : 0 .. MaxLen]
      BY <2>1, <1>2, <1>3
    <3>2. entry' = [entry EXCEPT ![f] = e]
      BY <2>1, <1>1
    <3> HIDE DEF e
    <3> QED BY <2>1, <3>1, <3>2
  <2>3. \A g \in Files : g # f => entry'[g] = entry[g]
    BY <2>1, <1>1
  <2>4. /\ entry'[f].exists = entry[f].exists /\ entry'[f].cluster = Handle.freeclink
        /\ entry'[f].length = long
    BY <2>1, <1>1
  <2> QED BY <2>2, <2>3, <2>4, <1>5
<1>7. /\ h.open = Handle.open /\ h.wr = Handle.wr /\ h.file = f
      /\ h.freeclink = Handle.freeclink /\ h.clink = Handle.clink
      /\ h.offset = Handle.offset /\ h.position = p + 1
      /\ h.size = long /\ h \in HandleRecord
  BY <1>2, <1>3, <1>c DEF HandleRecord
<1> HIDE DEF h
<1>8. /\ fh' \in [Fds -> HandleRecord]
      /\ \A d \in Fds : fh'[d] = IF d = call.fd THEN h ELSE fh[d]
  BY <1>1, <1>2, <1>7
<1>9. /\ x \in Index /\ data'[x] = <<f, p>> /\ \A i \in Index : i # x => data'[i] = data[i]
      /\ data' \in [Index -> (Files \X (0 .. MaxLen)) \cup {None}]
  BY <1>1, <1>5 DEF IInv, TypeOK, Owned
<1>10. TypeOK'
  BY <1>1, <1>6, <1>8, <1>9, Blank DEF IInv, TypeOK, HandleRecord, CallRecord
<1>11. OneWriter'
  BY <1>2, <1>7, <1>8 DEF IInv, OneWriter
<1>12. ChainsFit(who, num)'
  <2>1. \A i \in Index : who[i] # None => who[i] \in Files /\ entry[who[i]].exists
    BY <1>1, <1>4 DEF Fits, ChainsFit, Live, Whose
  <2> QED BY <2>1, <1>1, <1>4, <1>6 DEF Fits, ChainsFit, Live, Owned
<1>13. FilesFit(who, num)'
  <2>1. ASSUME NEW g \in Files, entry'[g].exists
        PROVE  HeadFits(who, num, entry'[g], g) /\ DataFits(who, num, entry'[g], data', g)
    <3>1. entry[g].exists /\ HeadFits(who, num, entry[g], g) /\ DataFits(who, num, entry[g], data, g)
      BY <2>1, <1>4, <1>6 DEF Fits, FilesFit
    <3>2. HeadFits(who, num, entry'[g], g)
      BY <3>1, <1>6 DEF HeadFits
    <3>3. ASSUME NEW k \in 0 .. entry'[g].length - 1
          PROVE  \E i \in Index : Owned(who, num, i, g, k) /\ data'[i] = <<g, k>>
      <4>1. CASE g = f /\ k = p
        BY <4>1, <1>5, <1>9
      <4>2. CASE ~(g = f /\ k = p)
        <5>1. k \in 0 .. entry[g].length - 1
          <6>1. CASE g = f
            <7>1. entry'[g].length = long /\ entry[g].length = Handle.size /\ k # p
              BY <6>1, <4>2, <1>5, <1>6
            <7> QED BY <7>1, <3>3, <1>2, <1>3, <1>5
          <6>2. CASE g # f
            BY <6>2, <3>3, <1>6
          <6> QED BY <6>1, <6>2
        <5>2. PICK i \in Index : Owned(who, num, i, g, k) /\ data[i] = <<g, k>>
          BY <3>1, <5>1 DEF DataFits
        <5>3. i # x
          BY <5>2, <4>2, <1>5 DEF Owned
        <5> QED BY <5>2, <5>3, <1>9
      <4> QED BY <4>1, <4>2
    <3> QED BY <3>2, <3>3 DEF DataFits
  <2> QED BY <2>1 DEF FilesFit
<1>14. HandlesFit(who, num)'
  <2>1. ASSUME NEW d \in Fds, fh'[d].open
        PROVE  HandleFits(who, num, entry', fh'[d])
    <3>1. CASE d = call.fd
      <4>1. fh'[d] = h
        BY <3>1, <1>8
      <4>2. /\ entry'[f].exists /\ entry'[f].length = long
            /\ entry'[f].cluster = Handle.freeclink
        BY <1>5, <1>6
      <4>3. h.freeclink # Null
        BY <1>4, <1>5, <1>7 DEF Fits, FilesFit, HeadFits, Owned
      <4>4. Owned(who, num, h.freeclink, f, 0) /\ Owned(who, num, h.clink, f, h.offset)
        BY <4>3, <1>2, <1>5, <1>7 DEF HandleFits
      <4> QED BY <4>1, <4>2, <4>3, <4>4, <1>2, <1>3, <1>7 DEF HandleFits
    <3>2. CASE d # call.fd
      <4>1. HandleFits(who, num, entry, fh[d]) /\ fh'[d] = fh[d]
        BY <3>2, <2>1, <1>4, <1>8 DEF Fits, HandlesFit
      <4>2. fh[d].wr => fh[d].file # f
        BY <3>2, <4>1, <2>1, <1>2 DEF IInv, OneWriter
      <4>3. fh[d].size <= entry[fh[d].file].length /\ fh[d].size \in Nat
        BY <4>1, <1>2 DEF HandleFits, HandleRecord
      <4>4. fh[d].size <= entry'[fh[d].file].length
        BY <4>1, <4>3, <1>2, <1>3, <1>5, <1>6 DEF HandleFits
      <4> QED BY <4>1, <4>2, <4>4, <1>6 DEF HandleFits
    <3> QED BY <3>1, <3>2
  <2> QED BY <2>1 DEF HandlesFit
<1>15. (CallFits(who, num) /\ CallOK)'
  BY <1>1, NoCall
<1> QED BY <1>4, <1>10, <1>11, <1>12, <1>13, <1>14, <1>15 DEF IInv, Fits
-----------------------------------------------------------------------------
(* Card_SetDirEntryState                                                   *)

(* No handle is on a file that a call creates or deletes.                  *)
LEMMA RemoveFits ==
  ASSUME IInv, NEW op \in {"create", "delete"}, NEW f \in Files, Remove(op, f)
  PROVE  IInv'
<1>a. PICK head : head = entry[f].cluster
  OBVIOUS
<1>1. /\ call = Idle /\ entry[f].exists /\ ~InUse(f)
      /\ entry' = [entry EXCEPT ![f].exists = FALSE]
      /\ hint' = IF head # Null /\ head < hint THEN head ELSE hint
      /\ call' = [Idle EXCEPT !.op = op, !.file = f, !.index = head,
                              !.at = IF head = Null THEN "make" ELSE "free"]
      /\ UNCHANGED <<fat, fh, data>>
  BY <1>a DEF Remove
<1>2. /\ entry \in [Files -> [exists : BOOLEAN, cluster : Index \cup {Null}, length : 0 .. MaxLen]]
      /\ head \in Index \cup {Null} /\ f # None
  BY <1>a, Constants DEF IInv, TypeOK
<1>3. /\ entry' \in [Files -> [exists : BOOLEAN, cluster : Index \cup {Null}, length : 0 .. MaxLen]]
      /\ \A g \in Files : g # f => entry'[g] = entry[g]
      /\ ~entry'[f].exists
  BY <1>1, <1>2
<1>4. /\ call'.op = op /\ call'.file = f /\ call'.fd = None /\ call'.index = head
      /\ call'.at = IF head = Null THEN "make" ELSE "free"
      /\ call' \in CallRecord
  <2>1. call' = [op |-> op, fd |-> None, file |-> f, left |-> 0, index |-> head,
                 at |-> IF head = Null THEN "make" ELSE "free"]
    BY <1>1 DEF Idle
  <2>2. 0 \in 0 .. MaxLen
    BY Constants
  <2> QED BY <2>1, <2>2, <1>2 DEF CallRecord
<1>5. TypeOK'
  <2>1. hint' \in Index \cup {End}
    BY <1>1, <1>2 DEF IInv, TypeOK
  <2> QED BY <2>1, <1>1, <1>3, <1>4 DEF IInv, TypeOK, CallRecord
<1>6. OneWriter' /\ CallOK'
  BY <1>1, <1>3, <1>4 DEF IInv, OneWriter, CallOK
<1>7. PICK who \in Whose, num \in Numbers : Fits(who, num)
  BY DEF IInv
<1>8. \A d \in Fds : fh[d].open => fh[d].file # f
  BY <1>1 DEF InUse, HandlesOf
<1>9. IF head = Null THEN \A i \in Index : who[i] # f ELSE Owned(who, num, head, f, 0)
  BY <1>1, <1>7, <1>a DEF Fits, FilesFit, HeadFits
<1>10. ChainsFit(who, num)'
  <2>1. \A i \in Index : who[i] # None => who[i] \in Files /\ fat[i].used /\ entry[who[i]].exists
    BY <1>1, <1>7 DEF Fits, ChainsFit, Live, Whose, Idle
  <2>2. \A i \in Index : who[i] # None => Live(who[i])'
    BY <2>1, <1>3, <1>4, <1>9 DEF Live
  <2>3. \A i \in Index : who[i] # None /\ entry'[who[i]].exists => entry[who[i]].exists
    BY <2>1
  <2> QED BY <2>1, <2>2, <2>3, <1>1, <1>7 DEF Fits, ChainsFit, Owned
<1>11. FilesFit(who, num)'
  <2>1. \A g \in Files : entry'[g].exists => entry'[g] = entry[g]
    BY <1>3
  <2> QED BY <2>1, <1>1, <1>7 DEF Fits, FilesFit
<1>12. HandlesFit(who, num)'
  <2>1. ASSUME NEW d \in Fds, fh[d].open
        PROVE  HandleFits(who, num, entry', fh[d])
    <3>1. HandleFits(who, num, entry, fh[d])
      BY <2>1, <1>7 DEF Fits, HandlesFit
    <3>2. fh[d].file \in Files /\ entry'[fh[d].file] = entry[fh[d].file]
      BY <3>1, <2>1, <1>3, <1>8 DEF HandleFits
    <3> QED BY <3>1, <3>2 DEF HandleFits
  <2> QED BY <2>1, <1>1 DEF HandlesFit
<1>13. CallFits(who, num)'
  BY <1>4, <1>9 DEF CallFits, Owned
<1> QED BY <1>5, <1>6, <1>7, <1>10, <1>11, <1>12, <1>13 DEF IInv, Fits

(* A cluster becomes free: it and those before it, or all when it is the   *)
(* last, belong to nobody.                                                 *)
LEMMA FreeFits ==
  ASSUME IInv, Free
  PROVE  IInv'
<1>a. PICK i : i = call.index
  OBVIOUS
<1>b. PICK f : f = call.file
  OBVIOUS
<1>1. /\ call.at = "free" /\ UNCHANGED <<entry, fh, data>>
      /\ fat' = [fat EXCEPT ![i].used = FALSE]
      /\ hint' = IF i < hint THEN fat[i].next ELSE hint
      /\ call' = [call EXCEPT !.index = fat[i].next,
                              !.at = IF fat[i].next = End THEN "make" ELSE @]
  BY <1>a DEF Free
<1>2. PICK who \in Whose, num \in Numbers : Fits(who, num)
  BY DEF IInv
<1>3. /\ call \in CallRecord /\ i \in Index /\ who[i] = f /\ f \in Files /\ f # None
      /\ ~entry[f].exists /\ call.fd = None /\ call.op \in {"create", "delete"}
  BY <1>1, <1>2, <1>a, <1>b, RecordTypes, Constants DEF IInv, CallOK, Fits, CallFits
<1>4. /\ fat \in [Index -> [used : BOOLEAN, next : Index \cup {End}]]
      /\ fat' \in [Index -> [used : BOOLEAN, next : Index \cup {End}]]
      /\ \A j \in Index : fat'[j].next = fat[j].next
      /\ \A j \in Index : j # i => fat'[j].used = fat[j].used
  <2> DEFINE cell == [fat[i] EXCEPT !.used = FALSE]
  <2>1. fat \in [Index -> [used : BOOLEAN, next : Index \cup {End}]]
    BY DEF IInv, TypeOK
  <2>2. cell \in [used : BOOLEAN, next : Index \cup {End}] /\ cell.next = fat[i].next
    BY <2>1, <1>3
  <2>3. fat' = [fat EXCEPT ![i] = cell]
    BY <1>1
  <2> HIDE DEF cell
  <2> QED BY <2>1, <2>2, <2>3, <1>3
<1>5. /\ call'.op = call.op /\ call'.file = f /\ call'.fd = None
      /\ call'.index = fat[i].next
      /\ call'.at = IF fat[i].next = End THEN "make" ELSE "free"
      /\ call' \in CallRecord
  BY <1>1, <1>3, <1>4, <1>b DEF CallRecord
<1>6. TypeOK'
  <2>1. hint' \in Index \cup {End}
    BY <1>1, <1>3, <1>4 DEF IInv, TypeOK
  <2> QED BY <2>1, <1>1, <1>4, <1>5 DEF IInv, TypeOK, CallRecord
<1>7. OneWriter' /\ CallOK'
  BY <1>1, <1>3, <1>5 DEF IInv, OneWriter, CallOK
<1>8. PICK who2 \in Whose :
        \A j \in Index :
          who2[j] = IF who[j] = f /\ (num[j] <= num[i] \/ fat[i].next = End)
                      THEN None ELSE who[j]
  <2> DEFINE some == [j \in Index |->
               IF who[j] = f /\ (num[j] <= num[i] \/ fat[i].next = End) THEN None ELSE who[j]]
  <2>1. some \in Whose
    BY DEF Whose
  <2> QED BY <2>1
<1>9. \A j, k : \A g \in Files : g # f /\ Owned(who, num, j, g, k) => Owned(who2, num, j, g, k)
  BY <1>8 DEF Owned
<1>10. \A j \in Index : who2[j] # None =>
         /\ who2[j] = who[j] /\ who[j] \in Files /\ j # i
         /\ who[j] = f => num[i] < num[j] /\ fat[i].next # End
  <2>1. \A j \in Index : num[j] \in Nat
    BY Constants DEF Numbers
  <2> QED BY <2>1, <1>3, <1>8 DEF Whose
<1>11. ChainsFit(who2, num)'
  <2>1. \A j \in Index : who2[j] # None => fat'[j].used /\ Live(who2[j])'
    <3> SUFFICES ASSUME NEW j \in Index, who2[j] # None PROVE fat'[j].used /\ Live(who2[j])'
      OBVIOUS
    <3>1. fat[j].used /\ Live(who[j]) /\ who2[j] = who[j]
      BY <1>2, <1>10 DEF Fits, ChainsFit
    <3>2. fat'[j].used
      BY <3>1, <1>4, <1>10
    <3>3. entry[who2[j]].exists \/ (call'.at = "free" /\ call'.file = who2[j])
      BY <3>1, <1>b, <1>5, <1>10 DEF Live
    <3> QED BY <3>2, <3>3, <1>1 DEF Live
  <2>2. \A j \in Index : who2[j] # None /\ fat'[j].next # End =>
          Owned(who2, num, fat'[j].next, who2[j], num[j] + 1)
    <3> SUFFICES ASSUME NEW j \in Index, who2[j] # None, fat'[j].next # End
                 PROVE  Owned(who2, num, fat'[j].next, who2[j], num[j] + 1)
      OBVIOUS
    <3>1. /\ fat'[j].next = fat[j].next /\ who2[j] = who[j] /\ who[j] \in Files
          /\ Owned(who, num, fat[j].next, who[j], num[j] + 1)
      BY <1>2, <1>4, <1>10 DEF Fits, ChainsFit
    <3>2. CASE who[j] # f
      BY <3>1, <3>2, <1>9
    <3>3. CASE who[j] = f
      <4>1. num[i] < num[j] /\ fat[i].next # End /\ num[i] \in Nat /\ num[j] \in Nat
        BY <3>3, <1>3, <1>10, Constants DEF Numbers
      <4>2. ~(num[j] + 1 <= num[i])
        BY <4>1
      <4> QED BY <3>1, <3>3, <4>1, <4>2, <1>8 DEF Owned
    <3> QED BY <3>2, <3>3
  <2>3. \A j, k \in Index : who2[j] # None /\ who2[j] = who2[k] =>
          /\ num[j] = num[k] => j = k
          /\ num[j] < num[k] => fat'[j].next # End
    BY <1>2, <1>4, <1>10 DEF Fits, ChainsFit
  <2>4. \A j \in Index : who2[j] # None /\ entry[who2[j]].exists =>
          \A k \in 0 .. num[j] : \E l \in Index : Owned(who2, num, l, who2[j], k)
    <3> SUFFICES ASSUME NEW j \in Index, who2[j] # None, entry[who2[j]].exists,
                        NEW k \in 0 .. num[j]
                 PROVE  \E l \in Index : Owned(who2, num, l, who2[j], k)
      OBVIOUS
    <3>1. who2[j] = who[j] /\ who[j] \in Files /\ who[j] # f
      BY <1>3, <1>10
    <3>2. PICK l \in Index : Owned(who, num, l, who[j], k)
      BY <3>1, <1>2 DEF Fits, ChainsFit
    <3> QED BY <3>1, <3>2, <1>9
  <2> QED BY <2>1, <2>2, <2>3, <2>4, <1>1 DEF ChainsFit, Owned
<1>12. FilesFit(who2, num)'
  <2>1. \A g \in Files : entry[g].exists => g # f
    BY <1>3
  <2>2. \A g \in Files : entry[g].exists => HeadFits(who2, num, entry[g], g)
    BY <2>1, <1>2, <1>8, <1>9, Constants DEF Fits, FilesFit, HeadFits
  <2>3. \A g \in Files : entry[g].exists => DataFits(who2, num, entry[g], data, g)
    BY <2>1, <1>2, <1>9 DEF Fits, FilesFit, DataFits
  <2> QED BY <2>2, <2>3, <1>1 DEF FilesFit
<1>13. HandlesFit(who2, num)'
  <2>1. \A d \in Fds : fh[d].open => HandleFits(who2, num, entry, fh[d])
    BY <1>2, <1>3, <1>9 DEF Fits, HandlesFit, HandleFits
  <2> QED BY <2>1, <1>1 DEF HandlesFit
<1>14. CallFits(who2, num)'
  <2>1. fat[i].next # End => fat[i].next \in Index /\ who2[fat[i].next] = f
    <3> SUFFICES ASSUME fat[i].next # End
                 PROVE  fat[i].next \in Index /\ who2[fat[i].next] = f
      OBVIOUS
    <3>1. Owned(who, num, fat[i].next, f, num[i] + 1) /\ num[i] \in Nat
      BY <1>2, <1>3, Constants DEF Fits, ChainsFit, Numbers
    <3>2. ~(num[i] + 1 <= num[i])
      BY <3>1
    <3> QED BY <3>1, <3>2, <1>8 DEF Owned
  <2> QED BY <2>1, <1>5 DEF CallFits
<1> QED BY <1>2, <1>6, <1>7, <1>8, <1>11, <1>12, <1>13, <1>14 DEF IInv, Fits

LEMMA StartRemovalFits ==
  ASSUME IInv, NEW f \in Files, StartCreate(f) \/ StartDelete(f)
  PROVE  IInv'
<1>1. CASE Remove("create", f) \/ Remove("delete", f)
  BY <1>1, RemoveFits
<1>2. CASE ~(Remove("create", f) \/ Remove("delete", f))
  <2>1. /\ call = Idle /\ ~entry[f].exists
        /\ call' = [Idle EXCEPT !.op = "create", !.file = f, !.at = "make"]
        /\ UNCHANGED <<fat, hint, entry, fh, data>>
    BY <1>2 DEF StartCreate, StartDelete
  <2>2. /\ call'.op = "create" /\ call'.file = f /\ call'.fd = None /\ call'.at = "make"
        /\ call' \in CallRecord
    <3>1. call' = [op |-> "create", fd |-> None, file |-> f, left |-> 0, index |-> Null,
                   at |-> "make"]
      BY <2>1 DEF Idle
    <3>2. 0 \in 0 .. MaxLen
      BY Constants
    <3> QED BY <3>1, <3>2 DEF CallRecord
  <2>3. CallOK'
    BY <2>1, <2>2 DEF CallOK
  <2>4. \A who \in Whose, num \in Numbers : Fits(who, num) => CallFits(who, num)'
    BY <2>2 DEF CallFits
  <2> QED BY <2>1, <2>2, <2>3, <2>4, CallChanges DEF Idle
<1> QED BY <1>1, <1>2

LEMMA DeletedFits ==
  ASSUME IInv, Deleted
  PROVE  IInv'
<1>1. call.at # "free" /\ call' = Idle /\ UNCHANGED <<fat, hint, entry, fh, data>>
  BY DEF Deleted
<1>2. \A who \in Whose, num \in Numbers : CallFits(who, num)'
  BY <1>1, NoCall
<1>3. CallOK'
  BY <1>1 DEF CallOK, Idle
<1> QED BY <1>1, <1>2, <1>3, Blank, CallChanges

LEMMA CreateFits ==
  ASSUME IInv, Create
  PROVE  IInv'
<1>a. PICK f \in Files : f = call.file /\ ~entry[f].exists
  BY DEF IInv, CallOK, Create
<1>b. PICK d \in Fds :
        /\ ~fh[d].open
        /\ fh' = [fh EXCEPT ![d] = [Unused EXCEPT !.open = TRUE, !.wr = TRUE, !.file = f]]
  BY <1>a DEF Create
<1> DEFINE h == [Unused EXCEPT !.open = TRUE, !.wr = TRUE, !.file = f]
           e == [exists |-> TRUE, cluster |-> Null, length |-> 0]
<1>1. /\ call.at = "make" /\ call' = Idle /\ UNCHANGED <<fat, hint, data>>
      /\ entry' = [entry EXCEPT ![f] = e] /\ fh' = [fh EXCEPT ![d] = h]
  BY <1>a, <1>b DEF Create
<1>2. /\ h.open = TRUE /\ h.wr = TRUE /\ h.file = f /\ h.freeclink = Null /\ h.clink = Null
      /\ h.offset = 0 /\ h.position = 0 /\ h.size = 0 /\ h \in HandleRecord
  <2>1. Unused \in HandleRecord
    BY Blank
  <2>2. h \in HandleRecord
    BY <2>1 DEF HandleRecord
  <2>3. h.open = TRUE /\ h.wr = TRUE /\ h.file = f
    BY <2>1 DEF HandleRecord
  <2>4. /\ h.freeclink = Unused.freeclink /\ h.clink = Unused.clink
        /\ h.offset = Unused.offset /\ h.position = Unused.position /\ h.size = Unused.size
    BY <2>1 DEF HandleRecord
  <2>5. /\ Unused.freeclink = Null /\ Unused.clink = Null
        /\ Unused.offset = 0 /\ Unused.position = 0 /\ Unused.size = 0
    BY DEF Unused
  <2> HIDE DEF h
  <2> QED BY <2>2, <2>3, <2>4, <2>5
<1>3. /\ e \in [exists : BOOLEAN, cluster : Index \cup {Null}, length : 0 .. MaxLen]
      /\ e.exists /\ e.cluster = Null /\ e.length = 0
  BY Constants
<1> HIDE DEF h, e
<1>4. /\ entry' \in [Files -> [exists : BOOLEAN, cluster : Index \cup {Null}, length : 0 .. MaxLen]]
      /\ \A g \in Files : entry'[g] = IF g = f THEN e ELSE entry[g]
  BY <1>1, <1>3 DEF IInv, TypeOK
<1>5. /\ fh' \in [Fds -> HandleRecord]
      /\ \A x \in Fds : fh'[x] = IF x = d THEN h ELSE fh[x]
  BY <1>1, <1>2, RecordTypes DEF IInv
<1>6. TypeOK'
  BY <1>1, <1>4, <1>5, Blank DEF IInv, TypeOK, HandleRecord, CallRecord
<1>7. PICK who \in Whose, num \in Numbers : Fits(who, num)
  BY DEF IInv
<1>8. \A x \in Fds : fh[x].open => fh[x].file # f /\ HandleFits(who, num, entry, fh[x])
  BY <1>a, <1>7 DEF Fits, HandlesFit, HandleFits
<1>9. OneWriter'
  BY <1>2, <1>5, <1>8 DEF IInv, OneWriter
<1>10. \A i \in Index : who[i] # f
  BY <1>a, <1>1, <1>7, Constants DEF Fits, ChainsFit, Live
<1>11. ChainsFit(who, num)'
  <2>1. \A i \in Index : who[i] # None =>
          who[i] \in Files /\ entry[who[i]].exists /\ entry'[who[i]] = entry[who[i]]
    BY <1>1, <1>4, <1>7, <1>10 DEF Fits, ChainsFit, Live, Whose
  <2> QED BY <2>1, <1>1, <1>7 DEF Fits, ChainsFit, Live, Owned
<1>12. FilesFit(who, num)'
  <2>1. ASSUME NEW g \in Files, entry'[g].exists
        PROVE  HeadFits(who, num, entry'[g], g) /\ DataFits(who, num, entry'[g], data, g)
    <3>1. CASE g = f
      BY <3>1, <1>3, <1>4, <1>10 DEF HeadFits, DataFits
    <3>2. CASE g # f
      BY <3>2, <2>1, <1>4, <1>7 DEF Fits, FilesFit
    <3> QED BY <3>1, <3>2
  <2> QED BY <2>1, <1>1 DEF FilesFit
<1>13. HandlesFit(who, num)'
  <2>1. ASSUME NEW x \in Fds, fh'[x].open
        PROVE  HandleFits(who, num, entry', fh'[x])
    <3>1. CASE x = d
      <4>1. entry'[f] = e /\ fh'[x] = h
        BY <3>1, <1>4, <1>5
      <4> QED BY <4>1, <1>2, <1>3 DEF HandleFits
    <3>2. CASE x # d
      <4>1. fh'[x] = fh[x] /\ fh[x].file # f /\ HandleFits(who, num, entry, fh[x])
        BY <3>2, <2>1, <1>5, <1>8
      <4>2. entry'[fh[x].file] = entry[fh[x].file]
        BY <4>1, <1>4 DEF HandleFits
      <4> QED BY <4>1, <4>2 DEF HandleFits
    <3> QED BY <3>1, <3>2
  <2> QED BY <2>1 DEF HandlesFit
<1>14. (CallFits(who, num) /\ CallOK)'
  BY <1>1, NoCall
<1> QED BY <1>6, <1>7, <1>9, <1>11, <1>12, <1>13, <1>14 DEF IInv, Fits
-----------------------------------------------------------------------------
LEMMA StepFits == IInv /\ [Next]_vars => IInv'
<1> SUFFICES ASSUME IInv, [Next]_vars PROVE IInv'
  OBVIOUS
<1>1. ASSUME NEW d \in Fds, NEW f \in Files, NEW w \in BOOLEAN, Open(d, f, w)
      PROVE  IInv'
  BY <1>1, OpenFits
<1>2. ASSUME NEW d \in Fds, Close(d) \/ Seek(d) \/ StartRead(d) \/ StartWrite(d)
      PROVE  IInv'
  BY <1>2, CloseFits, SeekFits, StartFits
<1>3. ASSUME NEW f \in Files, StartCreate(f) \/ StartDelete(f)
      PROVE  IInv'
  BY <1>3, StartRemovalFits
<1>4. CASE RSeekFound \/ RSeekEnd \/ RSeekStep
  BY <1>4, RSeekFoundFits, RSeekEndFits, RSeekStepFits
<1>5. CASE WSeekFirst \/ WSeekBegin \/ WSeekExtend
  BY <1>5, WSeekFirstFits, WSeekBeginFits, WSeekExtendFits
<1>6. CASE FullDevice \/ Fail
  BY <1>6, FailFits
<1>7. CASE Read \/ Write
  BY <1>7, ReadFits, WriteFits
<1>8. CASE Free \/ Deleted \/ Create
  BY <1>8, FreeFits, DeletedFits, CreateFits
<1>9. CASE UNCHANGED vars
  <2>1. TypeOK' /\ OneWriter' /\ CallOK'
    BY <1>9 DEF IInv, TypeOK, OneWriter, CallOK, Handle, vars
  <2>2. ASSUME NEW who \in Whose, NEW num \in Numbers, Fits(who, num)
        PROVE  Fits(who, num)'
    BY <1>9, <2>2 DEF Fits, ChainsFit, Live, FilesFit, HandlesFit, CallFits, Handle, vars
  <2> QED BY <2>1, <2>2 DEF IInv
<1> QED BY <1>1, <1>2, <1>3, <1>4, <1>5, <1>6, <1>7, <1>8, <1>9 DEF Next

(* The clusters can always be given owners and numbers that fit the FAT,   *)
(* the directory, the handles and the call in progress.                    *)
THEOREM ChainsAlwaysFit == Spec => []IInv
  BY InitFits, StepFits, PTL DEF Spec

(* Every file has its clusters with the data written there last, whatever  *)
(* other files are written, created and deleted, and whatever calls fail   *)
(* half way: Card_FindFree, Card_FatWSeek and Card_SetDirEntryState never  *)
(* share or lose a cluster of a file that exists.                          *)
THEOREM FilesAreKept == Spec => []FilesKeepTheirData
  BY ChainsAlwaysFit, FilesFollow, PTL

(* Card_FileRead returns the cluster of its position, from wherever        *)
(* Card_FatRSeek began.                                                    *)
THEOREM ReadsAreRight == Spec => []ReadsItsPosition
  BY ChainsAlwaysFit, ReadsFollow, PTL

(* The place a handle remembers stays on the chain of its file, at its     *)
(* number, also when another handle makes the file longer.                 *)
THEOREM PlacesAreRight == Spec => []RemembersItsPlace
  BY ChainsAlwaysFit, PlacesFollow, PTL

(* The variables keep their types.                                         *)
THEOREM ChainTypes == Spec => []TypeOK
<1>1. IInv => TypeOK
  BY DEF IInv
<1> QED BY <1>1, ChainsAlwaysFit, PTL
=============================================================================
