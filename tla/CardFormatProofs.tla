-------------------------- MODULE CardFormatProofs --------------------------
(***************************************************************************)
(* Proofs about CardFormat, for any cards, any worn blocks and any sizes.  *)
(***************************************************************************)
EXTENDS CardFormat, TLAPS, FunctionTheorems, FiniteSetTheorems

AtWork == {"start", "list", "clear", "ifc", "fat", "backup", "build", "flush",
               "erase"}

Steps == {"idle", "changed"} \cup Probing \cup AtWork
Calls == [op : {"none", "use", "format", "unformat"}, at : Steps, i : Int]

CallOK == call \in Calls

(* A call that works on a card has detected it; between the superblock and *)
(* the root directory nothing is known yet, but of the right card.         *)
DetectionOK ==
  /\ call.at \in AtWork => form # "unknown"
  /\ At("root") /\ authed => known = slot

RecognitionInv == CallOK /\ DetectionOK /\ RecognisedIsKnown

LEMMA InitInv == Init => RecognitionInv
BY DEF Init, Idle, At, RecognitionInv, CallOK, Calls, Steps, DetectionOK,
       RecognisedIsKnown, AtWork, Probing

(* The ways on from a step.                                                *)
LEMMA StepsOn ==
  ASSUME CallOK
  PROVE  /\ call.i \in Int /\ call.at \in Steps
         /\ Idle \in Calls /\ Idle.at = "idle"
         /\ \A x \in Steps, n \in Int :
              /\ [call EXCEPT !.at = x, !.i = n] \in Calls
              /\ [call EXCEPT !.at = x, !.i = n].at = x
         /\ \A n \in Int : /\ [call EXCEPT !.i = n] \in Calls
                            /\ [call EXCEPT !.i = n].at = call.at
<1>1. "idle" \in Steps /\ 0 \in Int
  BY DEF Steps
<1>2. Idle \in Calls /\ Idle.at = "idle"
  BY <1>1 DEF Idle, Calls
<1>3. call \in [op : {"none", "use", "format", "unformat"}, at : Steps, i : Int]
  BY DEF CallOK, Calls
<1> QED
  BY <1>2, <1>3 DEF Calls

(* Going to a step, staying there, ending.                                 *)
LEMMA CallsStay ==
  ASSUME CallOK
  PROVE  /\ \A x \in Steps : Go(x) => call' \in Calls /\ call'.at = x
         /\ \A n \in Int : Stay(n) => call' \in Calls /\ call'.at = call.at
         /\ End => call' \in Calls /\ call'.at = "idle"
<1>1. 0 \in Int
  OBVIOUS
<1>2. \A x \in Steps : Go(x) => call' \in Calls /\ call'.at = x
  <2> SUFFICES ASSUME NEW x \in Steps, Go(x) PROVE call' \in Calls /\ call'.at = x
    OBVIOUS
  <2>1. call' = [call EXCEPT !.at = x, !.i = 0]
    BY DEF Go
  <2>2. [call EXCEPT !.at = x, !.i = 0] \in Calls /\ [call EXCEPT !.at = x, !.i = 0].at = x
    BY <1>1, StepsOn, Zenon
  <2> QED
    BY <2>1, <2>2
<1>3. \A n \in Int : Stay(n) => call' \in Calls /\ call'.at = call.at
  BY StepsOn DEF Stay
<1>4. End => call' \in Calls /\ call'.at = "idle"
  BY StepsOn DEF End
<1> QED
  BY <1>2, <1>3, <1>4

LEMMA BlocksNat == Blocks \in Nat \ {0}
BY FormatAssumption, Zenon

LEMMA StepNames ==
  /\ {"idle", "changed", "auth", "validate", "terminate", "info", "root", "start",
      "list", "clear", "ifc", "fat", "backup", "build", "flush", "erase"} \subseteq Steps
  /\ AtWork \subseteq Steps /\ Failing \subseteq AtWork
BY DEF Probing, AtWork, Steps, Failing

(* The steps that work on a card, and the end of a call.                   *)
LEMMA WorkKeeps ==
  ASSUME RecognitionInv, UNCHANGED <<slot, authed, primed, known>>,
         call.at \in AtWork, form' # "unknown",
         call' \in Calls, call'.at \in AtWork \cup {"idle"}
  PROVE  RecognitionInv'
BY DEF RecognitionInv, CallOK, DetectionOK, RecognisedIsKnown, At, AtWork

(* The steps of a detection and the beginning of a call.                   *)
LEMMA RestKeeps ==
  ASSUME RecognitionInv, RecognisedIsKnown', call' \in Calls,
         call'.at \notin AtWork \cup {"root"}
  PROVE  RecognitionInv'
BY DEF RecognitionInv, CallOK, DetectionOK, At

LEMMA RecognitionStep == ASSUME RecognitionInv, [Next]_vars PROVE RecognitionInv'
<1> USE DEF At, Same, device
<1>0. CallOK /\ RecognisedIsKnown
  BY DEF RecognitionInv
<1>1. CASE Begin
  <2>1. call' \in Calls /\ call'.at = "changed"
    BY <1>1, StepNames DEF Begin, Calls
  <2> QED
    BY <1>0, <1>1, <2>1, RestKeeps DEF Begin, RecognisedIsKnown, AtWork
<1>2. CASE DetectFails
  <2>1. RecognisedIsKnown'
    BY <1>2 DEF DetectFails, RecognisedIsKnown
  <2>2. call' \in Calls /\ call'.at = "idle"
    BY <1>0, <1>2, CallsStay DEF DetectFails
  <2> QED
    BY <2>1, <2>2, RestKeeps DEF AtWork
<1>3. CASE ProbeSame
  <2>1. RecognisedIsKnown'
    BY <1>0, <1>3 DEF ProbeSame, RecognisedIsKnown
  <2>2. CASE End
    <3>1. call' \in Calls /\ call'.at = "idle"
      BY <1>0, <2>2, CallsStay
    <3> QED
      BY <2>1, <3>1, RestKeeps DEF AtWork
  <2>3. CASE Go("start")
    <3>1. call' \in Calls /\ call'.at = "start"
      BY <1>0, <2>3, CallsStay, StepNames
    <3>2. form' # "unknown"
      BY <1>3 DEF ProbeSame
    <3> QED
      BY <2>1, <3>1, <3>2 DEF RecognitionInv, CallOK, DetectionOK
  <2> QED
    BY <1>3, <2>2, <2>3 DEF ProbeSame
<1>4. CASE ProbeKnown \/ ProbeChanged \/ Authenticate \/ Validate \/ Terminate
  <2>1. Go("validate") \/ Go("auth") \/ Go("terminate") \/ Go("info")
    BY <1>4 DEF ProbeKnown, ProbeChanged, Authenticate, Validate, Terminate
  <2>2. call' \in Calls /\ call'.at \in {"validate", "auth", "terminate", "info"}
    BY <1>0, <2>1, CallsStay, StepNames
  <2>3. RecognisedIsKnown'
    BY <1>0, <1>4 DEF ProbeKnown, ProbeChanged, Authenticate, Validate, Terminate,
                      RecognisedIsKnown
  <2> QED
    BY <2>2, <2>3, RestKeeps DEF AtWork
<1>5. CASE ReadSuper
  <2>1. known' = slot' /\ RecognisedIsKnown'
    BY <1>5 DEF ReadSuper, RecognisedIsKnown
  <2>2. End \/ Go("root")
    BY <1>5 DEF ReadSuper
  <2>3. call' \in Calls /\ call'.at \in {"idle", "root"}
    BY <1>0, <2>2, CallsStay, StepNames
  <2> QED
    BY <2>1, <2>3 DEF RecognitionInv, CallOK, DetectionOK, AtWork
<1>6. CASE ReadRoot
  <2>1. RecognisedIsKnown'
    BY <1>6 DEF ReadRoot, RecognitionInv, DetectionOK, RecognisedIsKnown
  <2>2. call' \in Calls /\ call'.at = "idle"
    BY <1>0, <1>6, CallsStay DEF ReadRoot
  <2> QED
    BY <2>1, <2>2, RestKeeps DEF AtWork
<1>7. CASE StepFails
  <2>1. call.at \in AtWork /\ UNCHANGED device /\ End
    BY <1>7, StepNames DEF StepFails
  <2>2. call' \in Calls /\ call'.at = "idle"
    BY <1>0, <2>1, CallsStay
  <2> QED
    BY <2>1, <2>2, WorkKeeps DEF RecognitionInv, DetectionOK
<1>8. CASE FormatStart \/ ListBad
  <2>1. Go("list") \/ Go("clear")
    BY <1>8 DEF FormatStart, ListBad
  <2>2. call' \in Calls /\ call'.at \in {"list", "clear"}
    BY <1>0, <2>1, CallsStay, StepNames
  <2>3. /\ call.at \in AtWork /\ form' # "unknown"
        /\ UNCHANGED <<slot, authed, primed, known>>
    BY <1>8 DEF FormatStart, ListBad, AtWork, RecognitionInv, DetectionOK
  <2> QED
    BY <2>2, <2>3, WorkKeeps DEF AtWork
<1>9. CASE Clear \/ FindIfc \/ FindFat \/ NoRoom \/ FindBackup
  <2>1. /\ call.at \in {"clear", "ifc", "fat", "backup"}
        /\ UNCHANGED <<slot, authed, primed, known, form>>
    BY <1>9 DEF Clear, FindIfc, FindFat, NoRoom, FindBackup
  <2>2. \/ End \/ Go("build")
        \/ \E x \in {"clear", "ifc", "fat", "backup"}, n \in Int :
             call' = [call EXCEPT !.at = x, !.i = n]
        \/ \E n \in Int : Stay(n)
    <3>1. /\ call.i \in Int /\ call.i + 1 \in Int /\ call.i - 1 \in Int
          /\ Blocks - 1 \in Int
      <4>1. call.i \in Int
        BY <1>0, StepsOn, Zenon
      <4> QED
        BY <4>1, BlocksNat
    <3>2. CASE Clear
      <4>1. CASE End
        BY <4>1
      <4>2. CASE call' = [call EXCEPT !.at = IF call.i + 1 = First THEN "ifc" ELSE @,
                                      !.i = @ + 1]
        <5>1. call' = [call EXCEPT !.at = IF call.i + 1 = First THEN "ifc" ELSE call.at,
                                   !.i = call.i + 1]
          BY <4>2
        <5> QED
          BY <2>1, <3>1, <5>1
      <4> QED
        BY <3>2, <4>1, <4>2 DEF Clear
    <3>3. CASE FindIfc
      <4>1. Stay(call.i + 1) \/ call' = [call EXCEPT !.at = "fat", !.i = call.i + 1]
        BY <3>3 DEF FindIfc, TakeIfc
      <4> QED
        BY <3>1, <4>1
    <3>4. CASE FindFat
      <4>1. \/ Stay(call.i + 1)
            \/ call' = [call EXCEPT !.at = "backup", !.i = Blocks - 1]
        BY <3>4 DEF FindFat
      <4> QED
        BY <3>1, <4>1
    <3>5. CASE NoRoom
      BY <3>5 DEF NoRoom
    <3>6. CASE FindBackup
      <4>1. Stay(call.i - 1) \/ Go("build")
        BY <3>6 DEF FindBackup
      <4> QED
        BY <3>1, <4>1
    <3> QED
      BY <1>9, <3>2, <3>3, <3>4, <3>5, <3>6
  <2>3. call' \in Calls /\ call'.at \in AtWork \cup {"idle"}
    <3>1. /\ {"clear", "ifc", "fat", "backup", "build"} \subseteq AtWork
          /\ AtWork \subseteq Steps
      BY StepNames DEF AtWork
    <3>2. CASE End \/ Go("build")
      BY <1>0, <3>1, <3>2, CallsStay
    <3>3. CASE \E x \in {"clear", "ifc", "fat", "backup"}, n \in Int :
                 call' = [call EXCEPT !.at = x, !.i = n]
      <4>1. PICK x \in {"clear", "ifc", "fat", "backup"} :
              \E n \in Int : call' = [call EXCEPT !.at = x, !.i = n]
        BY <3>3
      <4>2. PICK n \in Int : call' = [call EXCEPT !.at = x, !.i = n]
        BY <4>1
      <4>3. x \in AtWork /\ x \in Steps
        BY <3>1
      <4>4. /\ [call EXCEPT !.at = x, !.i = n] \in Calls
            /\ [call EXCEPT !.at = x, !.i = n].at = x
        BY <1>0, <4>3, StepsOn, Zenon
      <4> QED
        BY <4>2, <4>3, <4>4
    <3>4. CASE \E n \in Int : Stay(n)
      BY <1>0, <2>1, <3>1, <3>4, CallsStay
    <3> QED
      BY <2>2, <3>2, <3>3, <3>4
  <2> QED
    BY <2>1, <2>3, WorkKeeps DEF RecognitionInv, DetectionOK, AtWork
<1>10. CASE Build \/ Flush \/ FormatDone
  <2>1. /\ call.at \in {"build", "flush"} /\ UNCHANGED <<slot, authed, primed, known>>
        /\ form' \in {form, "formatted"}
    BY <1>10 DEF Build, Flush, FormatDone
  <2>2. End \/ Go("flush") \/ call' = call
    BY <1>10 DEF Build, Flush, FormatDone
  <2>3. call' \in Calls /\ call'.at \in {"idle", "build", "flush"}
    BY <1>0, <2>1, <2>2, CallsStay, StepNames DEF CallOK
  <2>4. call.at \in AtWork /\ call'.at \in AtWork \cup {"idle"} /\ form' # "unknown"
    BY <2>1, <2>3 DEF AtWork, RecognitionInv, DetectionOK
  <2> QED
    BY <2>1, <2>3, <2>4, WorkKeeps
<1>11. CASE UseStart \/ UnformatStart \/ Erase
  <2>1. call.at \in {"start", "erase"} /\ UNCHANGED device
    BY <1>11 DEF UseStart, UnformatStart, Erase
  <2>2. \/ End \/ Go("flush") \/ call' = [call EXCEPT !.at = "erase", !.i = 1]
        \/ \E n \in Int : Stay(n)
    <3>1. (call.i + 1) % Blocks \in Int
      <4>1. call.i + 1 \in Int /\ Blocks \in Nat \ {0}
        <5>1. call.i \in Int
          BY <1>0, StepsOn, Zenon
        <5> QED
          BY <5>1, BlocksNat
      <4>2. \A m \in Int, n \in Nat \ {0} : m % n \in Int
        OBVIOUS
      <4> QED
        BY <4>1, <4>2
    <3> QED
      BY <1>11, <3>1 DEF UseStart, UnformatStart, Erase
  <2>3. call' \in Calls /\ call'.at \in {"idle", "start", "flush", "erase"}
    <3>1. CASE End \/ Go("flush")
      BY <1>0, <3>1, CallsStay, StepNames
    <3>2. CASE call' = [call EXCEPT !.at = "erase", !.i = 1]
      <4>1. "erase" \in Steps /\ 1 \in Int
        BY StepNames
      <4> QED
        BY <1>0, <3>2, <4>1, StepsOn
    <3>3. CASE \E n \in Int : Stay(n)
      BY <1>0, <2>1, <3>3, CallsStay
    <3> QED
      BY <2>2, <3>1, <3>2, <3>3
  <2>4. call.at \in AtWork /\ call'.at \in AtWork \cup {"idle"} /\ form' # "unknown"
    BY <2>1, <2>3 DEF AtWork, RecognitionInv, DetectionOK
  <2> QED
    BY <2>1, <2>3, <2>4, WorkKeeps
<1>12. CASE Exchange
  BY <1>12 DEF Exchange, RecognitionInv, CallOK, DetectionOK, RecognisedIsKnown
<1>13. CASE Restart
  <2>1. RecognisedIsKnown' /\ End
    BY <1>13 DEF Restart, RecognisedIsKnown, End
  <2> QED
    BY <1>0, <2>1, CallsStay, RestKeeps DEF AtWork
<1>14. CASE UNCHANGED vars
  BY <1>14 DEF vars, RecognitionInv, CallOK, DetectionOK, RecognisedIsKnown
<1> QED
  BY <1>1, <1>2, <1>3, <1>4, <1>5, <1>6, <1>7, <1>8, <1>9, <1>10, <1>11, <1>12,
     <1>13, <1>14
  DEF Next

(* At every step of a detection and of the calls after it, interrupted     *)
(* anywhere, what passes for known is known of the card that is there.     *)
THEOREM RecognitionHolds == Spec => []RecognitionInv
<1> QED
  BY InitInv, RecognitionStep, PTL DEF Spec

(* A card that Card_Changed takes for the same one is the one that         *)
(* mcio_devinfo describes.                                                 *)
THEOREM OnlyTheKnownCardPasses == Spec => []RecognisedIsKnown
<1>1. RecognitionInv => RecognisedIsKnown
  BY DEF RecognitionInv
<1> QED
  BY <1>1, RecognitionHolds, PTL
-----------------------------------------------------------------------------
(* What a formatting leaves on a card.                                     *)

Laying == {"list", "clear", "ifc", "fat", "backup", "build"}

CallFits ==
  /\ call.at \in Laying => call.op = "format"
  /\ At("erase") => call.op = "unformat"
  /\ At("flush") => call.op \in {"use", "format"}
  /\ At("clear") => call.i \in Nat
  /\ call.at \in {"ifc", "fat"} => call.i \in Nat /\ call.i >= First
  /\ At("backup") => call.i \in Block
  /\ call.at \in {"list", "clear", "ifc"} => info.fat = << >>

CountsOK ==
  /\ slot \in Cards \cup {None}
  /\ authed => slot \in Cards
  /\ formats \in 0 .. MaxFormats

InfoOK == info \in Layout /\ 0 \notin info.listed

(* What a superblock names comes in order, and lies in good blocks ...     *)
Rising(s, end) ==
  /\ First <= s.ifc /\ s.ifc < end
  /\ \A k \in 1 .. Len(s.fat) : /\ s.ifc < s.fat[k] /\ s.fat[k] < end
                                /\ \A j \in 1 .. k - 1 : s.fat[j] < s.fat[k]

Ordered(s, c, end) ==
  Rising(s, end) /\ \A k \in 1 .. Len(s.fat) : BlockOf(s.fat[k]) \notin Bad[c]

RisingOK ==
  /\ At("fat") => Len(info.fat) < Fats /\ Rising(info, call.i)
  /\ call.at \in {"backup", "build"} =>
       Len(info.fat) = Fats /\ Rising(info, info.alloc)

Backups(s, c) ==
  s.backup2 < s.backup1 /\ s.backup1 \notin Bad[c] /\ s.backup2 \notin Bad[c]

Sound(s, c) ==
  /\ Len(s.fat) = Fats /\ Ordered(s, c, s.alloc) /\ Backups(s, c)
  /\ BlockOf(s.ifc) \notin Bad[c] /\ BlockOf(s.alloc) \notin Bad[c]
  /\ BlockOf(s.alloc) < s.backup2

(* ... on every card that has a superblock.                                *)
CardsOK ==
  /\ card \in [Cards -> [super : Layout \cup {None}, at : [Cluster -> Content]]]
  /\ doubtful \subseteq Cards
  /\ \A c \in Cards : card[c].super # None =>
       /\ 0 \notin card[c].super.listed
       /\ c \notin doubtful => Sound(card[c].super, c) /\ Whole(c)

(* The cache has a cluster once, and new changes behind older ones.        *)
Age == Fats + 3

DirtyOK ==
  /\ dirty \subseteq [cluster : Cluster, holds : Content, used : Nat]
  /\ dirty # {} => form = "failed"
  /\ \A d, e \in dirty : d.cluster = e.cluster => d = e
  /\ \A e \in dirty : /\ e.cluster = 0 \/ e.cluster >= First
                      /\ e.used <= (formats + 1) * Age

AgesOK ==
  /\ call.at \in {"terminate", "info", "root"} => dirty = {}
  /\ call.at \in Laying =>
       /\ form = "failed" /\ info.by = formats
       /\ \A e \in dirty : e.used <= formats * Age

(* A call that writes writes to a card without a superblock, or to one     *)
(* that is in doubt already.                                               *)
Open(c) == card[c].super = None \/ c \in doubtful

OpenOK ==
  authed =>
    /\ call.at \in {"ifc", "fat", "backup", "build", "erase"} => Open(slot)
    /\ At("clear") /\ call.i > 0 => Open(slot)
    /\ At("flush") /\ dirty # {} => Open(slot)
    /\ At("flush") /\ dirty # {} /\ call.op = "use" => slot \in doubtful

(* So many clusters taken, the next one is at the same place in its block, *)
(* unless it is in a bad block behind full ones.                           *)
Good(b) == b \notin info.listed /\ b \notin Bad[slot]

Aligned(i, n) ==
  \/ /\ i % PerBlock = n % PerBlock
     /\ i % PerBlock # 0 => Good(BlockOf(i))
  \/ i % PerBlock # 0 /\ n % PerBlock = 0 /\ ~Good(BlockOf(i))

(* A test of the block of the table that failed has counted as good.       *)
BadIfc == BlockOf(info.ifc) \in Bad[slot]

Laid ==
  /\ Len(info.fat) = Fats /\ Ordered(info, slot, info.alloc)
  /\ BadIfc \/ BlockOf(info.alloc) = BlockOf(info.fat[Fats])

Ifc == Entry(info.ifc, "ifc", Fats)
LastFat == Entry(info.fat[Fats], "fat", Fats + 1)
Super == Entry(0, "super", Fats + 2)
Root == Entry(info.alloc, "root", Fats + 3)

Is(i, kind) == Latest(i) = [kind |-> kind, by |-> info.by]

(* The superblock waits for all but the root directory, and that is in the *)
(* block of the last cluster of the FAT.                                   *)
InOrder ==
  /\ Super \in dirty
  /\ \A e \in dirty : e.used < Super.used \/ e = Super \/ e = Root
  /\ BadIfc => Ifc \in dirty
  /\ ~BadIfc /\ Root \in dirty => LastFat \in dirty
  /\ Is(info.ifc, "ifc") /\ Is(info.alloc, "root")
  /\ \A k \in 1 .. Fats : Is(info.fat[k], "fat")

LayoutOK ==
  authed /\ call.op = "format" =>
    /\ At("ifc") => Aligned(call.i, 0)
    /\ At("fat") => /\ Len(info.fat) < Fats /\ Ordered(info, slot, call.i)
                    /\ BadIfc \/ Aligned(call.i, Len(info.fat) + 1)
    /\ At("backup") =>
         /\ Laid
         /\ info.backup1 # 0 => info.backup1 > call.i /\ info.backup1 \notin Bad[slot]
    /\ At("build") => Laid /\ Backups(info, slot)
    /\ At("flush") /\ dirty # {} =>
         /\ Laid /\ Backups(info, slot) /\ BlockOf(info.alloc) < info.backup2
         /\ InOrder

FormatInv ==
  /\ CallOK /\ CallFits /\ CountsOK /\ InfoOK /\ CardsOK
  /\ DirtyOK /\ AgesOK /\ OpenOK /\ RisingOK /\ LayoutOK

(* The constants, one by one.                                              *)
LEMMA Sizes == /\ Blocks \in Nat \ {0} /\ PerBlock \in Nat /\ PerBlock > 1
               /\ First \in Nat \ {0} /\ Fats \in Nat \ {0} /\ MaxFormats \in Nat
               /\ First % PerBlock = 0 /\ Fats % PerBlock = 0
               /\ Bad \in [Cards -> SUBSET (1 .. Blocks - 1)]
BY FormatAssumption, Zenon

(* From a cluster to the next one: within a block, or to the next block.   *)
LEMMA NextCluster ==
  ASSUME NEW P \in Nat, P > 1, NEW i \in Nat
  PROVE  /\ i % P \in 0 .. P - 1
         /\ i % P # P - 1 => (i + 1) % P = (i % P) + 1 /\ (i + 1) \div P = i \div P
         /\ i % P = P - 1 => (i + 1) % P = 0
         /\ i \div P \in Nat
OBVIOUS

(* Clusters and the blocks they are in, for any number of them per block.  *)
LEMMA Divided ==
  ASSUME NEW P \in Nat, P > 1
  PROVE  /\ \A i, j \in Nat : i <= j => i \div P <= j \div P
         /\ \A i, b \in Nat : i < b * P => i \div P < b
         /\ \A b \in Nat : (b * P) \div P = b
         /\ \A i \in Nat : 0 < i /\ i % P = 0 => i >= P
         /\ \A i \in Nat : i >= P => i \div P # 0
         /\ 0 \div P = 0 /\ 0 % P = 0
<1>1. \A i, j \in Nat : i <= j => i \div P <= j \div P
  OBVIOUS
<1>2. \A i, b \in Nat : i < b * P => i \div P < b
  OBVIOUS
<1>3. \A b \in Nat : (b * P) \div P = b
  OBVIOUS
<1>4. \A i \in Nat : 0 < i /\ i % P = 0 => i >= P
  OBVIOUS
<1>5. \A i \in Nat : i >= P => i \div P # 0
  OBVIOUS
<1>6. 0 \div P = 0 /\ 0 % P = 0
  OBVIOUS
<1> QED BY <1>1, <1>2, <1>3, <1>4, <1>5, <1>6

(* Formattings divide the ages of what they wrote.                         *)
LEMMA Ages == \A n, m \in Nat : (n + 1) * m = n * m + m /\ n * m \in Nat
OBVIOUS

(* Blocks and the clusters in them.                                        *)
LEMMA BlockFacts ==
  /\ BlockOf(0) = 0 /\ 0 \in Block /\ 0 \in Cluster
  /\ \A i \in Nat : i >= First => BlockOf(i) # 0 /\ i # 0
  /\ \A i \in Cluster : i \in Nat /\ BlockOf(i) \in Block
  /\ \A b \in Nat : BlockOf(b * PerBlock) = b
  /\ \A b \in Block : b * PerBlock <= Blocks * PerBlock
  /\ \A c \in Cards : 0 \notin Bad[c] /\ Bad[c] \subseteq Block
  /\ Blocks * PerBlock \in Nat
<1> USE Sizes
<1>1. /\ BlockOf(0) = 0 /\ \A b \in Nat : BlockOf(b * PerBlock) = b
      /\ \A i \in Nat : i >= PerBlock => BlockOf(i) # 0
      /\ \A i, b \in Nat : i < b * PerBlock => BlockOf(i) < b
      /\ First >= PerBlock
  BY Divided DEF BlockOf
<1>2. \A i \in Nat : BlockOf(i) \in Nat
  BY NextCluster DEF BlockOf
<1>3. Blocks * PerBlock \in Nat /\ 0 < Blocks * PerBlock
  <2>1. \A n, m \in Nat \ {0} : n * m \in Nat /\ 0 < n * m
    OBVIOUS
  <2>2. Blocks \in Nat \ {0} /\ PerBlock \in Nat \ {0}
    OBVIOUS
  <2> QED
    BY <2>1, <2>2, Zenon
<1>4. \A i \in Cluster : i \in Nat /\ BlockOf(i) \in Block
  <2> SUFFICES ASSUME NEW i \in Cluster PROVE i \in Nat /\ BlockOf(i) \in Block
    OBVIOUS
  <2>1. i \in Nat /\ i < Blocks * PerBlock
    BY <1>3 DEF Cluster
  <2>2. BlockOf(i) \in Nat /\ BlockOf(i) < Blocks
    BY <1>1, <1>2, <2>1
  <2> QED
    BY <2>1, <2>2 DEF Block
<1>5. \A b \in Block : b * PerBlock <= Blocks * PerBlock
  <2>1. \A n, m, k \in Nat : n <= m => n * k <= m * k
    OBVIOUS
  <2> QED
    BY <2>1 DEF Block
<1> QED
  BY <1>1, <1>3, <1>4, <1>5 DEF Cluster, Block

(* A search that passes a cluster stays in step with the blocks.           *)
LEMMA AlignedOn ==
  ASSUME NEW i \in Nat, NEW n \in Nat, Aligned(i, n)
  PROVE  /\ Good(BlockOf(i)) => Aligned(i + 1, n + 1) /\ i % PerBlock = n % PerBlock
         /\ ~Good(BlockOf(i)) => Aligned(i + 1, n)
<1> USE Sizes
<1>1. /\ i % PerBlock \in 0 .. PerBlock - 1 /\ n % PerBlock \in 0 .. PerBlock - 1
      /\ i % PerBlock # PerBlock - 1 =>
           (i + 1) % PerBlock = (i % PerBlock) + 1 /\ BlockOf(i + 1) = BlockOf(i)
      /\ i % PerBlock = PerBlock - 1 => (i + 1) % PerBlock = 0
      /\ n % PerBlock # PerBlock - 1 => (n + 1) % PerBlock = (n % PerBlock) + 1
      /\ n % PerBlock = PerBlock - 1 => (n + 1) % PerBlock = 0
  BY NextCluster DEF BlockOf
<1>2. CASE Good(BlockOf(i))
  <2>1. i % PerBlock = n % PerBlock
    BY <1>2 DEF Aligned
  <2>2. (i + 1) % PerBlock = (n + 1) % PerBlock
    BY <1>1, <2>1
  <2>3. (i + 1) % PerBlock # 0 => Good(BlockOf(i + 1))
    BY <1>1, <1>2
  <2> QED
    BY <1>2, <2>1, <2>2, <2>3 DEF Aligned
<1>3. CASE ~Good(BlockOf(i))
  <2>1. n % PerBlock = 0
    BY <1>3 DEF Aligned
  <2>2. CASE i % PerBlock = PerBlock - 1
    BY <1>1, <2>1, <2>2 DEF Aligned
  <2>3. CASE i % PerBlock # PerBlock - 1
    BY <1>1, <1>3, <2>1, <2>3 DEF Aligned
  <2> QED
    BY <1>3, <2>2, <2>3
<1> QED
  BY <1>2, <1>3

(* The next cluster of the FAT.                                            *)
LEMMA RisingGrows ==
  ASSUME NEW s \in Layout, NEW t \in Layout, NEW i \in Cluster, Rising(s, i),
         t.ifc = s.ifc, t.fat = Append(s.fat, i)
  PROVE  /\ Rising(t, i + 1)
         /\ Len(t.fat) = Len(s.fat) + 1 /\ t.fat[Len(t.fat)] = i /\ Len(s.fat) \in Nat
         /\ \A k \in 1 .. Len(s.fat) : t.fat[k] = s.fat[k]
<1>1. s.ifc \in Nat /\ i \in Nat /\ s.fat \in Seq(Cluster) /\ First \in Nat
  BY BlockFacts, Sizes DEF Layout
<1>2. /\ Len(t.fat) = Len(s.fat) + 1 /\ t.fat[Len(s.fat) + 1] = i /\ Len(s.fat) \in Nat
      /\ \A k \in 1 .. Len(s.fat) : t.fat[k] = s.fat[k] /\ s.fat[k] \in Nat
  <2>1. \A q \in Seq(Cluster) :
          /\ Len(Append(q, i)) = Len(q) + 1 /\ Append(q, i)[Len(q) + 1] = i
          /\ Len(q) \in Nat
          /\ \A k \in 1 .. Len(q) : Append(q, i)[k] = q[k] /\ q[k] \in Cluster
    OBVIOUS
  <2>2. \A k \in Cluster : k \in Nat
    BY BlockFacts
  <2> QED
    BY <1>1, <2>1, <2>2, Zenon
<1>3. First <= t.ifc /\ t.ifc < i + 1
  BY <1>1 DEF Rising
<1>4. ASSUME NEW k \in 1 .. Len(t.fat)
      PROVE  /\ t.ifc < t.fat[k] /\ t.fat[k] < i + 1
             /\ \A j \in 1 .. k - 1 : t.fat[j] < t.fat[k]
  <2>1. CASE k \in 1 .. Len(s.fat)
    <3>1. /\ s.ifc < s.fat[k] /\ s.fat[k] < i
          /\ \A j \in 1 .. k - 1 : s.fat[j] < s.fat[k]
      BY <2>1 DEF Rising
    <3> QED
      BY <1>1, <1>2, <2>1, <3>1
  <2>2. CASE k = Len(s.fat) + 1
    <3>1. s.ifc < i /\ \A j \in 1 .. Len(s.fat) : s.fat[j] < i
      BY DEF Rising
    <3> QED
      BY <1>1, <1>2, <2>2, <3>1
  <2> QED
    BY <1>2, <2>1, <2>2
<1> QED
  BY <1>2, <1>3, <1>4 DEF Rising

(* One more cluster of the FAT, behind all of the others.                  *)
LEMMA OrderedGrows ==
  ASSUME NEW s \in Layout, NEW t \in Layout, NEW c \in Cards, NEW i \in Cluster,
         Ordered(s, c, i), BlockOf(i) \notin Bad[c],
         t.ifc = s.ifc, t.fat = Append(s.fat, i)
  PROVE  Ordered(t, c, i + 1) /\ Len(t.fat) = Len(s.fat) + 1 /\ t.fat[Len(t.fat)] = i
<1>1. /\ Rising(t, i + 1)
      /\ Len(t.fat) = Len(s.fat) + 1 /\ t.fat[Len(t.fat)] = i /\ Len(s.fat) \in Nat
      /\ \A k \in 1 .. Len(s.fat) : t.fat[k] = s.fat[k]
  BY RisingGrows DEF Ordered
<1>2. \A k \in 1 .. Len(t.fat) : k \in 1 .. Len(s.fat) \/ k = Len(t.fat)
  BY <1>1
<1>3. \A k \in 1 .. Len(t.fat) : BlockOf(t.fat[k]) \notin Bad[c]
  BY <1>1, <1>2 DEF Ordered
<1> QED
  BY <1>1, <1>3 DEF Ordered

(* Erasing a block, which block 0 takes the superblock with.               *)
LEMMA WipedKeeps ==
  ASSUME CardsOK, slot \in Cards, UNCHANGED slot, NEW b, b = 0 \/ Open(slot),
         Wiped(b), Cleared(b)
  PROVE  CardsOK' /\ Open(slot)'
<1> DEFINE new == [super |-> IF b = 0 THEN None ELSE card[slot].super,
                   at |-> [i \in Cluster |-> IF BlockOf(i) = b THEN Blank
                                             ELSE card[slot].at[i]]]
<1>1. card' = [card EXCEPT ![slot] = new]
  BY DEF Wiped
<1>2. card[slot] \in [super : Layout \cup {None}, at : [Cluster -> Content]]
  BY DEF CardsOK
<1>3. new \in [super : Layout \cup {None}, at : [Cluster -> Content]]
  <2>1. Blank \in Content
    BY Sizes DEF Blank, Content, Kinds
  <2> QED
    BY <1>2, <2>1
<1> HIDE DEF new
<1>4. /\ card' \in [Cards -> [super : Layout \cup {None}, at : [Cluster -> Content]]]
      /\ card'[slot] = new /\ \A c \in Cards \ {slot} : card'[c] = card[c]
  BY <1>1, <1>3 DEF CardsOK
<1>5. doubtful' \subseteq Cards /\ doubtful' \subseteq doubtful
      /\ \A c \in Cards \ {slot} : c \in doubtful' <=> c \in doubtful
  BY DEF Cleared, CardsOK
<1>6. new.super # None => b # 0 /\ new.super = card[slot].super
  BY DEF new
<1>7. Open(slot)' /\ (card'[slot].super # None => slot \in doubtful')
  BY <1>4, <1>6 DEF Open, Cleared, new
<1>8. ASSUME NEW c \in Cards, card'[c].super # None
      PROVE  /\ 0 \notin card'[c].super.listed
             /\ c \notin doubtful' => Sound(card'[c].super, c) /\ Whole(c)'
  <2>1. CASE c = slot
    BY <1>4, <1>6, <1>7, <1>8, <2>1 DEF CardsOK
  <2>2. CASE c # slot
    <3>1. card'[c] = card[c] /\ (c \in doubtful' <=> c \in doubtful)
      BY <1>4, <1>5, <2>2
    <3> QED
      BY <1>8, <3>1 DEF CardsOK, Whole
  <2> QED
    BY <2>1, <2>2
<1> QED
  BY <1>4, <1>5, <1>7, <1>8 DEF CardsOK, Sound, Ordered, Rising, Backups

(* A test of a block: it is good, or bad and left alone from then on.      *)
LEMMA TestedKeeps ==
  ASSUME CardsOK, CountsOK, InfoOK, UNCHANGED slot, NEW i \in Nat,
         authed /\ BlockOf(i) # 0 => Open(slot), NEW good \in BOOLEAN, Tested(i, good)
  PROVE  /\ CardsOK' /\ (authed => Open(slot)')
         /\ good => Working /\ Good(BlockOf(i))
         /\ ~good => ~Good(BlockOf(i))
<1>1. CASE BlockOf(i) \in info.listed
  <2>1. ~good /\ UNCHANGED <<card, doubtful>> /\ BlockOf(i) # 0
    BY <1>1 DEF Tested, InfoOK
  <2>2. ~Good(BlockOf(i))
    BY <1>1 DEF Good
  <2> QED
    BY <2>1, <2>2 DEF CardsOK, Open, Whole
<1>2. CASE BlockOf(i) \notin info.listed
  <2>1. Working /\ Wiped(BlockOf(i)) /\ Cleared(BlockOf(i))
        /\ good = (BlockOf(i) \notin Bad[slot])
    BY <1>2 DEF Tested
  <2>2. slot \in Cards /\ (BlockOf(i) = 0 \/ Open(slot))
    BY <2>1 DEF Working, CountsOK
  <2>3. CardsOK' /\ Open(slot)'
    BY <2>1, <2>2, WipedKeeps
  <2>4. (BlockOf(i) \notin Bad[slot]) <=> Good(BlockOf(i))
    BY <1>2 DEF Good
  <2> QED
    BY <2>1, <2>3, <2>4
<1> QED
  BY <1>1, <1>2

(* Between two calls, and while one detects the card.                      *)
Resting == {"idle", "changed", "auth", "validate", "terminate", "info", "root",
            "start"}

(* A step that leaves formattings and what is cached as they are.          *)
LEMMA RestingKeeps ==
  ASSUME call' \in Calls, call'.at \in Resting, CountsOK', InfoOK', CardsOK', DirtyOK',
         call'.at \in {"terminate", "info", "root"} => dirty' = {}
  PROVE  FormatInv'
<1>1. /\ call'.at \notin Laying /\ call'.at \notin {"erase", "flush"}
  BY DEF Resting, Laying
<1>2. CallFits' /\ AgesOK' /\ OpenOK' /\ RisingOK' /\ LayoutOK'
  BY <1>1 DEF Laying, At, CallFits, AgesOK, OpenOK, RisingOK, LayoutOK
<1> QED
  BY <1>2 DEF FormatInv, CallOK

(* A call that ends.                                                       *)
LEMMA EndKeeps ==
  ASSUME CallOK, End, CountsOK', InfoOK', CardsOK', DirtyOK'
  PROVE  FormatInv'
<1>1. call' \in Calls /\ call'.at = "idle"
  BY CallsStay
<1> QED
  BY <1>1, RestingKeeps DEF Resting

(* What is cached and still to be written, left alone.                     *)
LEMMA DirtyKeeps ==
  ASSUME DirtyOK, dirty' \subseteq dirty, formats' = formats,
         dirty' # {} => form' = "failed"
  PROVE  DirtyOK'
BY DEF DirtyOK

(* The cards, left alone.                                                  *)
LEMMA CardsStay ==
  ASSUME CardsOK, card' = card, doubtful' = doubtful
  PROVE  CardsOK'
BY DEF CardsOK, Sound, Ordered, Rising, Backups, Whole

(* One more card whose content is in doubt.                                *)
LEMMA CardsDoubted ==
  ASSUME CardsOK, card' = card, doubtful \subseteq doubtful', doubtful' \subseteq Cards
  PROVE  CardsOK'
BY DEF CardsOK, Sound, Ordered, Rising, Backups, Whole

(* Steps that begin, detect or end, and leave the card alone.              *)
LEMMA QuietKeeps ==
  ASSUME FormatInv, call' \in Calls, call'.at \in Resting,
         UNCHANGED <<slot, info, card, formats, doubtful>>,
         authed' => slot # None,
         dirty' = dirty \/ dirty' = {}, dirty' # {} => form' = form,
         call'.at \in {"terminate", "info", "root"} => dirty' = {}
  PROVE  FormatInv'
<1>1. CountsOK' /\ InfoOK'
  BY DEF FormatInv, CountsOK, InfoOK
<1>2. CardsOK'
  BY CardsStay DEF FormatInv
<1>3. DirtyOK'
  BY DirtyKeeps DEF FormatInv, DirtyOK
<1> QED
  BY <1>1, <1>2, <1>3, RestingKeeps

(* The steps of a detection.                                               *)
LEMMA DetectionKeeps ==
  ASSUME FormatInv,
         \/ Begin \/ DetectFails \/ ProbeSame \/ ProbeKnown \/ ProbeChanged
         \/ Authenticate \/ Validate \/ Terminate \/ ReadRoot \/ NoRoom \/ FormatDone
  PROVE  FormatInv'
<1> USE DEF At, Same, device
<1>0. CallOK /\ CountsOK
  BY DEF FormatInv
<1>1. CASE Begin
  <2>1. call' \in Calls /\ call'.at = "changed"
    BY <1>1, StepNames DEF Begin, Calls
  <2>2. /\ UNCHANGED <<slot, info, card, formats, doubtful, dirty, form>>
        /\ authed' => slot # None
    BY <1>0, <1>1, FormatAssumption DEF Begin, CountsOK
  <2> QED
    BY <2>1, <2>2, QuietKeeps DEF Resting
<1>2. CASE DetectFails \/ NoRoom \/ FormatDone
  <2>1. call' \in Calls /\ call'.at = "idle"
    BY <1>0, <1>2, CallsStay DEF DetectFails, NoRoom, FormatDone
  <2>2. /\ UNCHANGED <<slot, info, card, formats, doubtful>>
        /\ authed' => slot # None
    BY <1>0, <1>2, FormatAssumption DEF DetectFails, NoRoom, FormatDone, CountsOK
  <2>3. (dirty' = dirty \/ dirty' = {}) /\ (dirty' # {} => form' = form)
    BY <1>2 DEF DetectFails, NoRoom, FormatDone
  <2> QED
    BY <2>1, <2>2, <2>3, QuietKeeps DEF Resting
<1>3. CASE ProbeSame \/ ProbeKnown \/ ProbeChanged
  <2>1. End \/ Go("start") \/ Go("validate") \/ Go("auth")
    BY <1>3 DEF ProbeSame, ProbeKnown, ProbeChanged
  <2>2. call' \in Calls /\ call'.at \in {"idle", "start", "validate", "auth"}
    BY <1>0, <2>1, CallsStay, StepNames
  <2>3. /\ UNCHANGED <<slot, info, card, formats, doubtful, dirty, form>>
        /\ authed' => slot # None
    BY <1>0, <1>3, FormatAssumption DEF ProbeSame, ProbeKnown, ProbeChanged, CountsOK
  <2> QED
    BY <2>2, <2>3, QuietKeeps DEF Resting
<1>4. CASE Authenticate
  <2>1. call' \in Calls /\ call'.at = "validate"
    BY <1>0, <1>4, CallsStay, StepNames DEF Authenticate
  <2>2. /\ UNCHANGED <<slot, info, card, formats, doubtful, dirty, form>>
        /\ authed' => slot # None
    BY <1>4 DEF Authenticate
  <2> QED
    BY <2>1, <2>2, QuietKeeps DEF Resting
<1>5. CASE Validate \/ Terminate
  <2>1. Go("terminate") \/ Go("info")
    BY <1>5 DEF Validate, Terminate
  <2>2. call' \in Calls /\ call'.at \in {"terminate", "info"}
    BY <1>0, <2>1, CallsStay, StepNames
  <2>3. UNCHANGED <<slot, authed, info, card, formats, doubtful>> /\ dirty' = {}
    BY <1>5 DEF Validate, Terminate, FormatInv, AgesOK
  <2>4. authed' => slot # None
    BY <1>0, <2>3, FormatAssumption DEF CountsOK
  <2> QED
    BY <2>2, <2>3, <2>4, QuietKeeps DEF Resting
<1>6. CASE ReadRoot
  <2>1. call' \in Calls /\ call'.at = "idle"
    BY <1>0, <1>6, CallsStay DEF ReadRoot
  <2>2. UNCHANGED <<slot, authed, info, card, formats, doubtful>> /\ dirty' = {}
    BY <1>6 DEF ReadRoot, FormatInv, AgesOK
  <2>3. authed' => slot # None
    BY <1>0, <2>2, FormatAssumption DEF CountsOK
  <2> QED
    BY <2>1, <2>2, <2>3, QuietKeeps DEF Resting
<1> QED
  BY <1>1, <1>2, <1>3, <1>4, <1>5, <1>6

(* A card without a superblock has an empty layout.                        *)
LEMMA NoLayoutIsLayout == NoLayout \in Layout /\ 0 \notin NoLayout.listed
<1>1. 0 \in Cluster /\ 0 \in Block /\ 0 \in 0 .. MaxFormats /\ 0 \in 0 .. Blocks * PerBlock
  <2>1. 0 \in Cluster /\ 0 \in Block
    BY BlockFacts
  <2>2. \A n \in Nat, m \in Nat : n * m \in Nat
    OBVIOUS
  <2>3. Blocks * PerBlock \in Nat
    BY <2>2, Sizes
  <2> QED
    BY <2>1, <2>3, Sizes
<1>2. << >> \in Seq(Cluster) /\ {} \in SUBSET Block
  OBVIOUS
<1> QED
  BY <1>1, <1>2 DEF NoLayout, Layout

(* What a superblock says is taken over.                                   *)
LEMMA ReadSuperKeeps == ASSUME FormatInv, ReadSuper PROVE FormatInv'
<1> USE DEF At, Same
<1>0. CallOK /\ CountsOK /\ CardsOK /\ slot \in Cards /\ dirty = {}
  BY DEF FormatInv, ReadSuper, CountsOK, AgesOK
<1>1. InfoOK'
  <2>1. CASE card[slot].super = None
    BY <2>1, NoLayoutIsLayout DEF ReadSuper, InfoOK
  <2>2. CASE card[slot].super # None
    <3>1. card[slot].super \in Layout
      BY <1>0, <2>2 DEF CardsOK
    <3> QED
      BY <1>0, <2>2, <3>1 DEF ReadSuper, InfoOK, CardsOK
  <2> QED
    BY <2>1, <2>2
<1>2. call' \in Calls /\ call'.at \in {"idle", "root"}
  <2>1. End \/ Go("root")
    BY DEF ReadSuper
  <2> QED
    BY <1>0, <2>1, CallsStay, StepNames
<1>3. /\ UNCHANGED <<slot, authed, card, doubtful, formats, dirty>>
  BY DEF ReadSuper
<1>4. CountsOK' /\ CardsOK' /\ DirtyOK' /\ dirty' = {}
  BY <1>0, <1>3, CardsStay, DirtyKeeps DEF CountsOK, FormatInv
<1> QED
  BY <1>1, <1>2, <1>4, RestingKeeps DEF Resting

(* The program stops anywhere and starts again.                            *)
LEMMA RestartKeeps == ASSUME FormatInv, Restart PROVE FormatInv'
<1>1. CallOK /\ End /\ CountsOK'
  BY DEF FormatInv, Restart, End, CountsOK
<1>2. InfoOK'
  BY NoLayoutIsLayout DEF Restart, InfoOK
<1>3. CardsOK' /\ DirtyOK'
  BY CardsStay, DirtyKeeps DEF FormatInv, Restart
<1> QED
  BY <1>1, <1>2, <1>3, EndKeeps

(* Another card in the slot.                                               *)
LEMMA ExchangeKeeps == ASSUME FormatInv, Exchange PROVE FormatInv'
<1>1. CountsOK' /\ authed' = FALSE
  BY DEF FormatInv, Exchange, CountsOK
<1>2. CardsOK' /\ DirtyOK'
  BY CardsStay, DirtyKeeps DEF FormatInv, Exchange, DirtyOK
<1>3. CallOK' /\ CallFits' /\ InfoOK' /\ AgesOK' /\ RisingOK'
  BY DEF FormatInv, Exchange, CallOK, CallFits, InfoOK, AgesOK, RisingOK, Rising, At
<1> QED
  BY <1>1, <1>2, <1>3 DEF FormatInv, OpenOK, LayoutOK

(* A step that fails may have lost the block it worked on.                 *)
LEMMA FailureKeeps == ASSUME FormatInv, StepFails PROVE FormatInv'
<1>0. CallOK /\ End /\ UNCHANGED <<slot, authed, info, formats, dirty, form>>
  BY DEF FormatInv, StepFails, device
<1>1. CountsOK' /\ InfoOK' /\ DirtyOK'
  BY <1>0, DirtyKeeps DEF FormatInv, CountsOK, InfoOK, DirtyOK
<1>2. CardsOK'
  <2>1. CASE UNCHANGED <<card, doubtful>>
    BY <2>1, CardsStay DEF FormatInv
  <2>2. CASE Working /\ \E b \in WorkingOn : b \in Block /\ Wiped(b) /\ Cleared(b)
    <3>1. PICK b \in WorkingOn : b \in Block /\ Wiped(b) /\ Cleared(b)
      BY <2>2
    <3>2. b = 0 \/ Open(slot)
      <4>1. CASE At("clear")
        <5>1. b = BlockOf(call.i) /\ call.i \in Nat
          BY <4>1 DEF WorkingOn, At, FormatInv, CallFits
        <5>2. call.i = 0 => b = 0
          BY <5>1, BlockFacts
        <5>3. call.i > 0 => Open(slot)
          BY <2>2, <4>1 DEF Working, FormatInv, OpenOK
        <5> QED
          BY <5>1, <5>2, <5>3
      <4>2. CASE call.at \in {"ifc", "fat", "backup", "erase"}
        BY <2>2, <4>2 DEF Working, FormatInv, OpenOK
      <4>3. CASE At("flush")
        <5>1. dirty # {}
          BY <4>3 DEF WorkingOn, At, Oldest
        <5> QED
          BY <2>2, <4>3, <5>1 DEF Working, FormatInv, OpenOK
      <4>4. call.at \in {"clear", "ifc", "fat", "backup", "erase", "flush"}
        <5>1. CASE call.at = "list"
          BY <5>1 DEF WorkingOn
        <5> QED
          BY <5>1 DEF StepFails, Failing
      <4> QED
        BY <4>1, <4>2, <4>3, <4>4 DEF At
    <3>3. slot \in Cards /\ CardsOK
      BY <2>2 DEF FormatInv, CountsOK, Working
    <3> QED
      BY <1>0, <3>1, <3>2, <3>3, WipedKeeps
  <2> QED
    BY <2>1, <2>2 DEF StepFails
<1> QED
  BY <1>0, <1>1, <1>2, EndKeeps

(* The next step of the same call.                                         *)
LEMMA CallsGoOn ==
  ASSUME CallOK
  PROVE  /\ \A x \in Steps, n \in Int : call' = [call EXCEPT !.at = x, !.i = n] =>
              call' \in Calls /\ call'.at = x /\ call'.i = n /\ call'.op = call.op
         /\ \A n \in Int : Stay(n) =>
              call' \in Calls /\ call'.at = call.at /\ call'.i = n /\ call'.op = call.op
         /\ \A x \in Steps : Go(x) =>
              call' \in Calls /\ call'.at = x /\ call'.i = 0 /\ call'.op = call.op
<1>1. call \in [op : {"none", "use", "format", "unformat"}, at : Steps, i : Int]
  BY DEF CallOK, Calls
<1>2. \A x \in Steps, n \in Int :
        /\ [call EXCEPT !.at = x, !.i = n] \in Calls
        /\ [call EXCEPT !.at = x, !.i = n].at = x
        /\ [call EXCEPT !.at = x, !.i = n].i = n
        /\ [call EXCEPT !.at = x, !.i = n].op = call.op
  BY <1>1 DEF Calls
<1>3. \A n \in Int :
        /\ [call EXCEPT !.i = n] \in Calls /\ [call EXCEPT !.i = n].at = call.at
        /\ [call EXCEPT !.i = n].i = n /\ [call EXCEPT !.i = n].op = call.op
  BY <1>1 DEF Calls
<1>4. 0 \in Int
  OBVIOUS
<1>5. \A x \in Steps, n \in Int : call' = [call EXCEPT !.at = x, !.i = n] =>
        call' \in Calls /\ call'.at = x /\ call'.i = n /\ call'.op = call.op
  <2> SUFFICES ASSUME NEW x \in Steps, NEW n \in Int,
                      call' = [call EXCEPT !.at = x, !.i = n]
               PROVE  call' \in Calls /\ call'.at = x /\ call'.i = n /\ call'.op = call.op
    OBVIOUS
  <2> DEFINE new == [call EXCEPT !.at = x, !.i = n]
  <2>1. new \in Calls /\ new.at = x /\ new.i = n /\ new.op = call.op
    BY <1>2
  <2>2. call' = new
    OBVIOUS
  <2> HIDE DEF new
  <2> QED
    BY <2>1, <2>2
<1>6. \A n \in Int : Stay(n) =>
        call' \in Calls /\ call'.at = call.at /\ call'.i = n /\ call'.op = call.op
  <2> SUFFICES ASSUME NEW n \in Int, Stay(n)
               PROVE  /\ call' \in Calls /\ call'.at = call.at /\ call'.i = n
                      /\ call'.op = call.op
    OBVIOUS
  <2> DEFINE new == [call EXCEPT !.i = n]
  <2>1. new \in Calls /\ new.at = call.at /\ new.i = n /\ new.op = call.op
    BY <1>3
  <2>2. call' = new
    BY DEF Stay
  <2> HIDE DEF new
  <2> QED
    BY <2>1, <2>2
<1> QED
  BY <1>4, <1>5, <1>6 DEF Go

(* A step within a formatting that chooses places and writes nothing.      *)
LEMMA LayingKeeps ==
  ASSUME FormatInv, call.at \in Laying, call' \in Calls,
         call'.at \in Laying \ {"list"}, call'.op = call.op,
         UNCHANGED <<slot, authed, formats, dirty, form>>, info'.by = info.by,
         InfoOK', CardsOK', CallFits', RisingOK', LayoutOK',
         authed /\ ~(call'.at = "clear" /\ call'.i = 0) => Open(slot)'
  PROVE  FormatInv'
<1>1. CountsOK' /\ DirtyOK'
  BY DirtyKeeps DEF FormatInv, CountsOK, DirtyOK
<1>2. AgesOK'
  <2>1. form = "failed" /\ info.by = formats /\ \A e \in dirty : e.used <= formats * Age
    BY DEF FormatInv, AgesOK
  <2>2. call'.at \notin {"terminate", "info", "root"}
    BY DEF Laying
  <2> QED
    BY <2>1, <2>2 DEF AgesOK, Age
<1>3. OpenOK'
  <2>1. call'.at \notin {"erase", "flush"}
    BY DEF Laying
  <2> QED
    BY <2>1 DEF OpenOK, At
<1> QED
  BY <1>1, <1>2, <1>3 DEF FormatInv, CallOK

(* The formatting begins, and lists the bad blocks.                        *)
LEMMA FormatStartKeeps == ASSUME FormatInv, FormatStart PROVE FormatInv'
<1> DEFINE bad == IF form = "noformat" THEN {} ELSE info.listed
<1>1. info' = [info EXCEPT !.by = formats + 1, !.fat = << >>, !.listed = bad]
      /\ formats' = formats + 1 /\ formats + 1 \in 0 .. MaxFormats
      /\ UNCHANGED <<slot, authed, card, dirty, doubtful>> /\ form' = "failed"
  <2>1. MaxFormats \in Nat
    BY Sizes
  <2> QED
    BY <2>1 DEF FormatStart, FormatInv, CountsOK
<1>2. InfoOK' /\ info'.by = formats + 1 /\ info'.fat = << >>
  <2>1. bad \in SUBSET Block /\ 0 \notin bad /\ info \in Layout
    BY DEF FormatInv, InfoOK, Layout
  <2>2. << >> \in Seq(Cluster)
    OBVIOUS
  <2> HIDE DEF bad
  <2>3. info' \in Layout /\ info'.listed = bad /\ info'.by = formats + 1
        /\ info'.fat = << >>
    BY <1>1, <2>1, <2>2 DEF Layout
  <2> QED
    BY <2>1, <2>3 DEF InfoOK
<1>3. call' \in Calls /\ call'.at \in {"list", "clear"} /\ call'.i = 0
      /\ call'.op = "format"
  <2>1. Go("list") \/ Go("clear")
    BY DEF FormatStart
  <2> QED
    BY <2>1, CallsGoOn, StepNames DEF FormatStart, FormatInv
<1>4. CountsOK' /\ CardsOK'
  BY <1>1, CardsStay DEF FormatInv, CountsOK
<1>5. \A e \in dirty : e.used <= (formats + 1) * Age /\ e.used <= (formats + 1 + 1) * Age
  <2>1. formats \in Nat /\ Age \in Nat
    BY Sizes DEF Age, FormatInv, CountsOK
  <2>2. \A n, m \in Nat : (n + 1 + 1) * m = (n + 1) * m + m /\ (n + 1) * m \in Nat
    OBVIOUS
  <2>3. \A e \in dirty : e.used \in Nat /\ e.used <= (formats + 1) * Age
    BY DEF FormatInv, DirtyOK
  <2>4. (formats + 1) * Age <= (formats + 1 + 1) * Age /\ (formats + 1) * Age \in Nat
        /\ (formats + 1 + 1) * Age \in Nat
    BY <2>1, <2>2
  <2> HIDE DEF Age
  <2> QED
    BY <2>3, <2>4
<1>6. DirtyOK' /\ AgesOK'
  BY <1>1, <1>2, <1>3, <1>5 DEF FormatInv, DirtyOK, AgesOK, Age
<1>7. CallFits' /\ OpenOK' /\ RisingOK' /\ LayoutOK'
  BY <1>2, <1>3 DEF CallFits, OpenOK, RisingOK, LayoutOK, At, Laying
<1> QED
  BY <1>2, <1>3, <1>4, <1>6, <1>7 DEF FormatInv, CallOK

(* The bad blocks are listed.                                              *)
LEMMA ListBadKeeps == ASSUME FormatInv, ListBad PROVE FormatInv'
<1>1. call' \in Calls /\ call'.at = "clear" /\ call'.i = 0 /\ call'.op = call.op
      /\ call.at \in Laying
  BY CallsGoOn, StepNames DEF ListBad, FormatInv, At, Laying
<1>2. slot \in Cards /\ Bad[slot] \in SUBSET Block /\ 0 \notin Bad[slot]
  BY BlockFacts DEF ListBad, Working, FormatInv, CountsOK
<1>3. InfoOK' /\ info'.by = info.by /\ info'.fat = << >>
  BY <1>2 DEF ListBad, FormatInv, InfoOK, Layout, CallFits, At
<1>4. UNCHANGED <<slot, authed, formats, dirty, form, card, doubtful>> /\ CardsOK'
  BY CardsStay DEF ListBad, FormatInv
<1>5. CallFits' /\ RisingOK' /\ LayoutOK'
  BY <1>1, <1>3 DEF CallFits, RisingOK, LayoutOK, At, Laying, FormatInv
<1> QED
  BY <1>1, <1>3, <1>4, <1>5, LayingKeeps DEF Laying

(* The first clusters.                                                     *)
LEMMA ClearKeeps == ASSUME FormatInv, Clear PROVE FormatInv'
<1>1. UNCHANGED <<slot, authed, info, formats, dirty, form>> /\ InfoOK' /\ CountsOK'
      /\ CallOK /\ call.i \in Nat /\ call.op = "format" /\ call.at = "clear"
      /\ info.fat = << >>
  BY DEF Clear, device, FormatInv, InfoOK, CountsOK, CallFits, At, Laying
<1>2. authed /\ BlockOf(call.i) # 0 => Open(slot)
  <2>1. BlockOf(call.i) # 0 => call.i > 0
    BY <1>1, BlockFacts
  <2> QED
    BY <1>1, <2>1 DEF FormatInv, OpenOK, At
<1>3. ASSUME NEW good \in BOOLEAN, Tested(call.i, good)
      PROVE  CardsOK' /\ (authed => Open(slot)') /\ (good => Good(BlockOf(call.i)))
  BY <1>1, <1>2, <1>3, TestedKeeps DEF FormatInv
<1>4. CASE Tested(call.i, FALSE) /\ End
  <2>1. DirtyOK'
    BY <1>1, DirtyKeeps DEF FormatInv, DirtyOK
  <2> QED
    BY <1>1, <1>3, <1>4, <2>1, EndKeeps
<1>5. CASE /\ Tested(call.i, TRUE)
           /\ call' = [call EXCEPT !.at = IF call.i + 1 = First THEN "ifc" ELSE @,
                                   !.i = @ + 1]
  <2> DEFINE x == IF call.i + 1 = First THEN "ifc" ELSE "clear"
  <2>1. call' = [call EXCEPT !.at = x, !.i = call.i + 1]
    BY <1>1, <1>5
  <2>2. x \in Steps /\ call.i + 1 \in Int
    BY <1>1, StepNames
  <2>3. call' \in Calls /\ call'.at = x /\ call'.i = call.i + 1 /\ call'.op = "format"
    <3> HIDE DEF x
    <3> QED
      BY <1>1, <2>1, <2>2, CallsGoOn
  <2>4. CallFits' /\ RisingOK' /\ LayoutOK'
    <3>1. CASE call.i + 1 = First
      <4>1. call'.at = "ifc" /\ call'.i = First /\ First \in Nat
        BY <2>3, <3>1, Sizes
      <4>2. Aligned(First, 0)'
        BY Sizes, Divided DEF Aligned
      <4> QED
        BY <1>1, <2>3, <4>1, <4>2 DEF CallFits, RisingOK, LayoutOK, At, Laying
    <3>2. CASE call.i + 1 # First
      BY <1>1, <2>3, <3>2 DEF CallFits, RisingOK, LayoutOK, At, Laying
    <3> QED
      BY <3>1, <3>2
  <2>5. CardsOK' /\ (authed => Open(slot)')
    BY <1>3, <1>5
  <2>6. call'.at \in {"clear", "ifc"}
    BY <2>3
  <2> QED
    BY <1>1, <2>3, <2>4, <2>5, <2>6, LayingKeeps DEF Laying
<1> QED
  BY <1>4, <1>5 DEF Clear

(* The table.                                                              *)
LEMMA FindIfcKeeps == ASSUME FormatInv, FindIfc PROVE FormatInv'
<1>1. /\ UNCHANGED <<slot, authed, formats, dirty, form>> /\ CallOK /\ call.i \in Nat
      /\ call.i >= First /\ call.i \in Cluster /\ call.at = "ifc"
      /\ call.op = "format" /\ info.fat = << >> /\ info \in Layout
      /\ 0 \notin info.listed /\ CountsOK
  BY BlockFacts DEF FindIfc, FormatInv, InfoOK, CallFits, At, Laying
<1>2. authed => Open(slot) /\ Aligned(call.i, 0)
  BY <1>1 DEF FormatInv, OpenOK, LayoutOK, At
<1>3. ASSUME NEW good \in BOOLEAN, Tested(call.i, good)
      PROVE  /\ CardsOK' /\ (authed => Open(slot)')
             /\ good => Good(BlockOf(call.i))
             /\ ~good => ~Good(BlockOf(call.i))
  BY <1>1, <1>2, <1>3, TestedKeeps DEF FormatInv
<1>4. "ifc" \in Steps /\ "fat" \in Steps /\ call.i + 1 \in Int /\ call.i + 1 >= First
  BY <1>1, StepNames, Sizes
<1>5. CASE Tested(call.i, FALSE) /\ Stay(call.i + 1) /\ UNCHANGED info
  <2>1. call' \in Calls /\ call'.at = "ifc" /\ call'.i = call.i + 1 /\ call'.op = "format"
    BY <1>1, <1>4, <1>5, CallsGoOn
  <2>2. authed => Aligned(call.i + 1, 0)
    BY <1>1, <1>2, <1>3, <1>5, AlignedOn
  <2>3. authed => Aligned(call.i, 0)'
    <3>1. authed => Aligned(call'.i, 0)
      BY <2>1, <2>2
    <3> QED
      BY <1>1, <1>5, <3>1 DEF Aligned, Good
  <2>4. CallFits' /\ RisingOK' /\ LayoutOK'
    BY <1>1, <1>4, <1>5, <2>1, <2>3 DEF CallFits, RisingOK, LayoutOK, At, Laying
  <2>5. InfoOK' /\ CardsOK' /\ (authed => Open(slot)') /\ info'.by = info.by
    BY <1>3, <1>5 DEF FormatInv, InfoOK
  <2> QED
    BY <1>1, <2>1, <2>4, <2>5, LayingKeeps DEF Laying
<1>6. CASE /\ TakeIfc
           /\ \/ Tested(call.i, TRUE)
              \/ BlockOf(call.i) \notin info.listed /\ UNCHANGED <<card, doubtful>>
  <2>1. call' \in Calls /\ call'.at = "fat" /\ call'.i = call.i + 1 /\ call'.op = "format"
    <3>1. call' = [call EXCEPT !.at = "fat", !.i = call.i + 1]
      BY <1>6 DEF TakeIfc
    <3> QED
      BY <1>1, <1>4, <3>1, CallsGoOn
  <2>2. /\ info' \in Layout /\ info'.ifc = call.i /\ info'.fat = << >>
        /\ info'.listed = info.listed /\ info'.by = info.by
    BY <1>1, <1>6 DEF TakeIfc, Layout
  <2>3. CardsOK' /\ (authed => Open(slot)')
    <3>1. CASE Tested(call.i, TRUE)
      BY <1>3, <3>1
    <3>2. CASE UNCHANGED <<card, doubtful>>
      BY <1>1, <1>2, <3>2, CardsStay DEF Open, FormatInv
    <3> QED
      BY <1>6, <3>1, <3>2
  <2>4. Len(info'.fat) = 0 /\ 0 < Fats
    BY <2>2, Sizes
  <2>5. Ordered(info, slot, call.i)'
    BY <1>1, <2>1, <2>2, <2>4 DEF Ordered, Rising
  <2>6. authed => BadIfc' \/ Aligned(call.i, Len(info.fat) + 1)'
    <3>1. CASE Good(BlockOf(call.i))
      <4>1. authed => Aligned(call.i + 1, 0 + 1)
        BY <1>1, <1>2, <3>1, AlignedOn
      <4> QED
        BY <1>1, <2>1, <2>2, <2>4, <4>1 DEF Aligned, Good
    <3>2. CASE ~Good(BlockOf(call.i))
      <4>1. BlockOf(call.i) \in Bad[slot]
        BY <1>3, <1>6, <3>2 DEF Good
      <4> QED
        BY <1>1, <2>2, <4>1 DEF BadIfc
    <3> QED
      BY <3>1, <3>2
  <2>7. CallFits' /\ RisingOK' /\ LayoutOK'
    BY <1>1, <1>4, <2>1, <2>4, <2>5, <2>6
    DEF CallFits, RisingOK, LayoutOK, At, Laying, Ordered
  <2>8. InfoOK'
    BY <1>1, <2>2 DEF InfoOK
  <2> QED
    BY <1>1, <2>1, <2>2, <2>3, <2>7, <2>8, LayingKeeps DEF Laying
<1> QED
  BY <1>5, <1>6 DEF FindIfc

(* The FAT; its last cluster is the first of a block.                      *)
LEMMA FindFatKeeps == ASSUME FormatInv, FindFat PROVE FormatInv'
<1>1. /\ UNCHANGED <<slot, authed, formats, dirty, form>> /\ CallOK /\ call.i \in Nat
      /\ call.i >= First /\ call.i \in Cluster /\ call.at = "fat"
      /\ call.op = "format" /\ info \in Layout
      /\ 0 \notin info.listed /\ CountsOK
  BY BlockFacts DEF FindFat, FormatInv, InfoOK, CallFits, At, Laying
<1>2. authed => /\ Open(slot) /\ Len(info.fat) < Fats /\ Ordered(info, slot, call.i)
                /\ BadIfc \/ Aligned(call.i, Len(info.fat) + 1)
  BY <1>1 DEF FormatInv, OpenOK, LayoutOK, At
<1>3. ASSUME NEW good \in BOOLEAN, Tested(call.i, good)
      PROVE  /\ CardsOK' /\ (authed => Open(slot)')
             /\ good => Working /\ Good(BlockOf(call.i))
             /\ ~good => ~Good(BlockOf(call.i))
  BY <1>1, <1>2, <1>3, TestedKeeps DEF FormatInv
<1>4. /\ "backup" \in Steps /\ "fat" \in Steps /\ call.i + 1 \in Int /\ call.i + 1 >= First
      /\ Len(info.fat) \in Nat /\ info.ifc \in Nat /\ Len(info.fat) + 1 \in Nat
  <2>1. Len(info.fat) \in Nat /\ info.ifc \in Nat
    BY <1>1, BlockFacts DEF Layout
  <2> QED
    BY <1>1, <2>1, StepNames, Sizes
<1>5. CASE Tested(call.i, FALSE) /\ Stay(call.i + 1) /\ UNCHANGED info
  <2>1. call' \in Calls /\ call'.at = "fat" /\ call'.i = call.i + 1 /\ call'.op = "format"
    BY <1>1, <1>4, <1>5, CallsGoOn
  <2>2. authed => BadIfc \/ Aligned(call.i + 1, Len(info.fat) + 1)
    BY <1>1, <1>2, <1>3, <1>4, <1>5, AlignedOn
  <2>3. authed => BadIfc' \/ Aligned(call.i, Len(info.fat) + 1)'
    BY <1>1, <1>5, <2>1, <2>2 DEF Aligned, Good, BadIfc
  <2>4. /\ Len(info'.fat) < Fats /\ Rising(info, call.i)'
        /\ authed => Ordered(info, slot, call.i)'
    <3>1. \A k \in 1 .. Len(info.fat) : info.fat[k] \in Nat
      BY <1>1, BlockFacts DEF Layout
    <3>2. Len(info.fat) < Fats /\ Rising(info, call.i)
      BY <1>1 DEF FormatInv, RisingOK, At
    <3>3. Rising(info, call.i)'
      BY <1>1, <1>4, <1>5, <2>1, <3>1, <3>2 DEF Rising
    <3> QED
      BY <1>1, <1>2, <1>5, <3>2, <3>3 DEF Ordered
  <2>5. CallFits' /\ RisingOK' /\ LayoutOK'
    BY <1>1, <1>2, <1>4, <1>5, <2>1, <2>3, <2>4 DEF CallFits, RisingOK, LayoutOK, At, Laying
  <2>6. InfoOK' /\ CardsOK' /\ (authed => Open(slot)') /\ info'.by = info.by
    BY <1>3, <1>5 DEF FormatInv, InfoOK
  <2> QED
    BY <1>1, <2>1, <2>5, <2>6, LayingKeeps DEF Laying
<1>6. CASE /\ Tested(call.i, TRUE)
           /\ info' = [info EXCEPT !.fat = Append(@, call.i), !.alloc = call.i + 1,
                                   !.backup1 = 0, !.backup2 = 0]
           /\ IF Len(info.fat) + 1 = Fats
                THEN call' = [call EXCEPT !.at = "backup", !.i = Blocks - 1]
                ELSE Stay(call.i + 1)
  <2>1. authed /\ slot \in Cards /\ Good(BlockOf(call.i)) /\ CardsOK' /\ Open(slot)'
    BY <1>1, <1>3, <1>6 DEF Working, CountsOK
  <2>2. /\ info' \in Layout /\ info'.fat = Append(info.fat, call.i) /\ info'.alloc = call.i + 1
        /\ info'.ifc = info.ifc /\ info'.listed = info.listed /\ info'.by = info.by
        /\ info'.backup1 = 0
    <3>1. call.i + 1 \in 0 .. Blocks * PerBlock /\ 0 \in Block
      <4>1. Blocks * PerBlock \in Nat /\ 0 \in Block
        BY BlockFacts
      <4> QED
        BY <1>1, <4>1 DEF Cluster
    <3>2. Append(info.fat, call.i) \in Seq(Cluster)
      BY <1>1 DEF Layout
    <3> QED
      BY <1>1, <1>6, <3>1, <3>2 DEF Layout
  <2>3. /\ Ordered(info', slot, call.i + 1) /\ Len(info'.fat) = Len(info.fat) + 1
        /\ info'.fat[Len(info'.fat)] = call.i
    BY <1>1, <1>2, <2>1, <2>2, OrderedGrows DEF Good
  <2>4. BadIfc' \/ (/\ Aligned(call.i + 1, Len(info'.fat) + 1)
                    /\ call.i % PerBlock = Len(info'.fat) % PerBlock)
    <3>1. CASE BadIfc
      BY <1>1, <2>2, <3>1 DEF BadIfc
    <3>2. CASE Aligned(call.i, Len(info.fat) + 1)
      BY <1>1, <1>4, <2>1, <2>3, <3>2, AlignedOn
    <3> QED
      BY <1>2, <2>1, <3>1, <3>2
  <2>5. InfoOK'
    BY <1>1, <2>2 DEF InfoOK
  <2>6. CASE Len(info.fat) + 1 = Fats
    <3>1. /\ call' \in Calls /\ call'.at = "backup" /\ call'.i = Blocks - 1
          /\ call'.op = "format"
      <4>1. Blocks - 1 \in Int
        BY Sizes
      <4> QED
        BY <1>1, <1>4, <1>6, <2>6, <4>1, CallsGoOn
    <3>2. BadIfc' \/ BlockOf(call.i + 1) = BlockOf(call.i)
      <4>1. CASE call.i % PerBlock = Fats % PerBlock
        <5>1. call.i % PerBlock = 0 /\ PerBlock \in Nat /\ PerBlock > 1
          BY <4>1, Sizes
        <5>2. call.i % PerBlock # PerBlock - 1
          BY <5>1
        <5> QED
          BY <1>1, <5>1, <5>2, NextCluster DEF BlockOf
      <4> QED
        BY <2>3, <2>4, <2>6, <4>1
    <3>3. Laid'
      BY <1>1, <2>2, <2>3, <2>6, <3>2 DEF Laid, Ordered, Rising
    <3>4. Blocks - 1 \in Block
      BY Sizes DEF Block
    <3>5. CallFits' /\ RisingOK' /\ LayoutOK'
      BY <2>2, <3>1, <3>3, <3>4
      DEF CallFits, RisingOK, LayoutOK, At, Laying, Laid, Ordered
    <3> QED
      BY <1>1, <2>1, <2>2, <2>5, <3>1, <3>5, LayingKeeps DEF Laying
  <2>7. CASE Len(info.fat) + 1 # Fats
    <3>1. call' \in Calls /\ call'.at = "fat" /\ call'.i = call.i + 1 /\ call'.op = "format"
      BY <1>1, <1>4, <1>6, <2>7, CallsGoOn
    <3>2. Len(info'.fat) < Fats
      BY <1>2, <1>4, <2>1, <2>3, <2>7, Sizes
    <3>3. Ordered(info, slot, call.i)'
      BY <1>1, <2>3, <3>1 DEF Ordered, Rising
    <3>4. BadIfc' \/ Aligned(call.i, Len(info.fat) + 1)'
      <4>1. BadIfc' \/ Aligned(call'.i, Len(info'.fat) + 1)
        BY <2>4, <3>1
      <4> QED
        BY <1>1, <2>2, <4>1 DEF Aligned, Good
    <3>5. CallFits' /\ RisingOK' /\ LayoutOK'
      BY <1>1, <1>4, <3>1, <3>2, <3>3, <3>4
      DEF CallFits, RisingOK, LayoutOK, At, Laying, Ordered
    <3> QED
      BY <1>1, <2>1, <2>2, <2>5, <3>1, <3>5, LayingKeeps DEF Laying
  <2> QED
    BY <2>6, <2>7
<1> QED
  BY <1>5, <1>6 DEF FindFat

(* The backup blocks.                                                      *)
LEMMA FindBackupKeeps == ASSUME FormatInv, FindBackup PROVE FormatInv'
<1>1. /\ UNCHANGED <<slot, authed, formats, dirty, form>> /\ CallOK /\ call.i \in Block
      /\ call.i \in Nat /\ call.i > 0 /\ call.at = "backup" /\ call.op = "format"
      /\ info \in Layout /\ 0 \notin info.listed /\ CountsOK
  BY DEF FindBackup, FormatInv, InfoOK, CallFits, At, Laying, Block
<1>2. authed => /\ Open(slot) /\ Laid
                /\ info.backup1 # 0 => info.backup1 > call.i /\ info.backup1 \notin Bad[slot]
  BY <1>1 DEF FormatInv, OpenOK, LayoutOK, At
<1>3. BlockOf(call.i * PerBlock) = call.i /\ call.i * PerBlock \in Nat
  <2>1. \A n, m \in Nat : n * m \in Nat
    OBVIOUS
  <2>2. call.i * PerBlock \in Nat
    BY <1>1, <2>1, Sizes
  <2> QED
    BY <1>1, <2>2, BlockFacts
<1>4. ASSUME NEW good \in BOOLEAN, Tested(call.i * PerBlock, good)
      PROVE  /\ CardsOK' /\ (authed => Open(slot)')
             /\ good => Working /\ Good(call.i)
  <2>1. authed /\ BlockOf(call.i * PerBlock) # 0 => Open(slot)
    BY <1>2
  <2> QED
    BY <1>1, <1>3, <1>4, <2>1, TestedKeeps DEF FormatInv
<1>5. /\ "backup" \in Steps /\ "build" \in Steps /\ call.i - 1 \in Int
      /\ call.i - 1 \in Block /\ call.i - 1 \in Nat
  BY <1>1, StepNames, Sizes DEF Block
<1>6. CASE /\ Tested(call.i * PerBlock, FALSE) /\ Stay(call.i - 1) /\ UNCHANGED info
  <2>1. /\ call' \in Calls /\ call'.at = "backup" /\ call'.i = call.i - 1
        /\ call'.op = "format"
    BY <1>1, <1>5, <1>6, CallsGoOn
  <2>2. info.backup1 \in Nat
    BY <1>1, Sizes DEF Layout, Block
  <2>3. authed => /\ Laid'
                  /\ info'.backup1 # 0 => info'.backup1 > call'.i
                                          /\ info'.backup1 \notin Bad[slot']
    BY <1>1, <1>2, <1>6, <2>1, <2>2 DEF Laid, Ordered, Rising, BadIfc
  <2>4. RisingOK'
    BY <1>1, <1>6, <2>1 DEF FormatInv, RisingOK, Rising, At
  <2>6. CallFits' /\ LayoutOK'
    BY <1>1, <1>5, <2>1, <2>3 DEF CallFits, LayoutOK, At, Laying
  <2>5. InfoOK' /\ CardsOK' /\ (authed => Open(slot)') /\ info'.by = info.by
    BY <1>4, <1>6 DEF FormatInv, InfoOK
  <2> QED
    BY <1>1, <2>1, <2>4, <2>5, <2>6, LayingKeeps DEF Laying
<1>7. CASE /\ Tested(call.i * PerBlock, TRUE)
           /\ IF info.backup1 = 0
                THEN info' = [info EXCEPT !.backup1 = call.i] /\ Stay(call.i - 1)
                ELSE info' = [info EXCEPT !.backup2 = call.i] /\ Go("build")
  <2>1. authed /\ Good(call.i) /\ CardsOK' /\ Open(slot)'
    BY <1>4, <1>7 DEF Working
  <2>2. CASE /\ info.backup1 = 0
             /\ info' = [info EXCEPT !.backup1 = call.i] /\ Stay(call.i - 1)
    <3>1. /\ call' \in Calls /\ call'.at = "backup" /\ call'.i = call.i - 1
          /\ call'.op = "format"
      BY <1>1, <1>5, <2>2, CallsGoOn
    <3>2. /\ info' \in Layout /\ info'.fat = info.fat /\ info'.alloc = info.alloc
          /\ info'.ifc = info.ifc /\ info'.listed = info.listed /\ info'.by = info.by
          /\ info'.backup1 = call.i
      BY <1>1, <2>2 DEF Layout
    <3>3. Laid'
      BY <1>1, <1>2, <2>1, <3>2 DEF Laid, Ordered, Rising, BadIfc
    <3>4. info'.backup1 > call'.i /\ info'.backup1 \notin Bad[slot']
      BY <1>1, <2>1, <3>1, <3>2 DEF Good
    <3>5. CallFits' /\ RisingOK' /\ LayoutOK' /\ InfoOK'
      BY <1>1, <1>5, <3>1, <3>2, <3>3, <3>4
      DEF CallFits, RisingOK, LayoutOK, InfoOK, At, Laying, Laid, Ordered
    <3> QED
      BY <1>1, <2>1, <3>1, <3>2, <3>5, LayingKeeps DEF Laying
  <2>3. CASE /\ info.backup1 # 0
             /\ info' = [info EXCEPT !.backup2 = call.i] /\ Go("build")
    <3>1. /\ call' \in Calls /\ call'.at = "build" /\ call'.op = "format"
      BY <1>1, <1>5, <2>3, CallsGoOn
    <3>2. /\ info' \in Layout /\ info'.fat = info.fat /\ info'.alloc = info.alloc
          /\ info'.ifc = info.ifc /\ info'.listed = info.listed /\ info'.by = info.by
          /\ info'.backup1 = info.backup1 /\ info'.backup2 = call.i
      BY <1>1, <2>3 DEF Layout
    <3>3. Laid'
      BY <1>1, <1>2, <2>1, <3>2 DEF Laid, Ordered, Rising, BadIfc
    <3>4. Backups(info, slot)'
      BY <1>1, <1>2, <2>1, <2>3, <3>2 DEF Good, Backups
    <3>5. CallFits' /\ RisingOK' /\ LayoutOK' /\ InfoOK'
      BY <1>1, <3>1, <3>2, <3>3, <3>4
      DEF CallFits, RisingOK, LayoutOK, InfoOK, At, Laying, Laid, Ordered
    <3> QED
      BY <1>1, <2>1, <3>1, <3>2, <3>5, LayingKeeps DEF Laying
  <2> QED
    BY <1>7, <2>2, <2>3
<1> QED
  BY <1>6, <1>7 DEF FindBackup

(* Calls on files write what is left, an unformatting erases.              *)
LEMMA UseKeeps == ASSUME FormatInv, UseStart \/ UnformatStart PROVE FormatInv'
<1>1. /\ UNCHANGED <<slot, authed, info, card, dirty, formats, form>> /\ CallOK
      /\ doubtful \subseteq doubtful' /\ doubtful' \subseteq Cards
  BY DEF UseStart, UnformatStart, device, FormatInv, CountsOK, CardsOK, Working
<1>2. CardsOK'
  BY <1>1, CardsDoubted DEF FormatInv
<1>3. CountsOK' /\ InfoOK' /\ DirtyOK'
  BY <1>1, DirtyKeeps DEF FormatInv, CountsOK, InfoOK, DirtyOK
<1>4. authed => Working
  BY FormatAssumption DEF FormatInv, CountsOK, Working
<1>5. CASE UseStart
  <2>1. call' \in Calls /\ call'.at = "flush" /\ call'.op = "use"
    BY <1>1, <1>5, CallsGoOn, StepNames DEF UseStart
  <2>2. authed /\ dirty # {} => slot \in doubtful'
    BY <1>4, <1>5 DEF UseStart, FormatInv, DirtyOK
  <2>3. CallFits' /\ AgesOK' /\ RisingOK' /\ LayoutOK'
    BY <2>1 DEF CallFits, AgesOK, RisingOK, LayoutOK, At, Laying
  <2>4. OpenOK'
    BY <1>1, <2>1, <2>2 DEF OpenOK, Open, At
  <2> QED
    BY <1>2, <1>3, <2>1, <2>3, <2>4 DEF FormatInv, CallOK
<1>6. CASE UnformatStart
  <2>1. call' \in Calls /\ call'.at = "erase" /\ call'.op = "unformat"
    <3>1. "erase" \in Steps /\ 1 \in Int
      BY StepNames
    <3> QED
      BY <1>1, <1>6, <3>1, CallsGoOn DEF UnformatStart
  <2>2. authed => slot \in doubtful'
    BY <1>4, <1>6 DEF UnformatStart
  <2>3. CallFits' /\ AgesOK' /\ RisingOK' /\ LayoutOK'
    BY <2>1 DEF CallFits, AgesOK, RisingOK, LayoutOK, At, Laying
  <2>4. OpenOK'
    BY <1>1, <2>1, <2>2 DEF OpenOK, Open, At
  <2> QED
    BY <1>2, <1>3, <2>1, <2>3, <2>4 DEF FormatInv, CallOK
<1> QED
  BY <1>5, <1>6

(* Erasing a card, block after block.                                      *)
LEMMA EraseKeeps == ASSUME FormatInv, Erase PROVE FormatInv'
<1>1. /\ UNCHANGED <<slot, authed, info, dirty, formats, form>> /\ CallOK /\ authed
      /\ slot \in Cards /\ call.op = "unformat" /\ call.at = "erase"
  BY DEF Erase, device, FormatInv, CountsOK, Working, CallFits, At
<1>2. CardsOK' /\ Open(slot)'
  <2>1. Open(slot)
    BY <1>1 DEF FormatInv, OpenOK
  <2> QED
    BY <1>1, <2>1, WipedKeeps DEF Erase, FormatInv
<1>3. CountsOK' /\ InfoOK' /\ DirtyOK'
  BY <1>1, DirtyKeeps DEF FormatInv, CountsOK, InfoOK, DirtyOK
<1>4. CASE End
  BY <1>1, <1>2, <1>3, <1>4, EndKeeps
<1>5. CASE Stay((call.i + 1) % Blocks)
  <2>1. (call.i + 1) % Blocks \in Int
    <3>1. call.i \in Int /\ Blocks \in Nat \ {0}
      BY <1>1, Sizes, StepsOn
    <3>2. \A m \in Int, n \in Nat \ {0} : (m + 1) % n \in Int
      OBVIOUS
    <3> QED
      BY <3>1, <3>2, Zenon
  <2>2. call' \in Calls /\ call'.at = "erase" /\ call'.op = "unformat"
    BY <1>1, <1>5, <2>1, CallsGoOn
  <2>3. CallFits' /\ AgesOK' /\ RisingOK' /\ LayoutOK' /\ OpenOK'
    BY <1>2, <2>2 DEF CallFits, AgesOK, RisingOK, LayoutOK, OpenOK, At, Laying
  <2> QED
    BY <1>2, <1>3, <2>2, <2>3 DEF FormatInv, CallOK
<1> QED
  BY <1>4, <1>5 DEF Erase

(* The clusters a layout names differ.                                     *)
LEMMA NamesDiffer ==
  ASSUME NEW s \in Layout, Len(s.fat) = Fats, Rising(s, s.alloc)
  PROVE  /\ s.ifc \in Nat /\ s.alloc \in Nat /\ s.ifc # 0 /\ s.ifc < s.alloc /\ s.alloc # 0
         /\ s.ifc >= First /\ s.alloc >= First
         /\ \A k \in 1 .. Fats : /\ s.fat[k] \in Cluster /\ s.fat[k] \in Nat
                                  /\ s.ifc < s.fat[k] /\ s.fat[k] < s.alloc
                                  /\ s.fat[k] >= First
         /\ \A j, k \in 1 .. Fats : s.fat[j] = s.fat[k] => j = k
<1>1. s.ifc \in Nat /\ s.alloc \in Nat /\ First \in Nat \ {0} /\ Fats \in Nat \ {0}
  BY Sizes, BlockFacts DEF Layout
<1>2. \A k \in 1 .. Fats : s.fat[k] \in Cluster /\ s.fat[k] \in Nat
  BY BlockFacts DEF Layout
<1>3. /\ First <= s.ifc /\ s.ifc < s.alloc
      /\ \A k \in 1 .. Fats : /\ s.ifc < s.fat[k] /\ s.fat[k] < s.alloc
                               /\ \A j \in 1 .. k - 1 : s.fat[j] < s.fat[k]
  BY DEF Rising
<1>4. ASSUME NEW j \in 1 .. Fats, NEW k \in 1 .. Fats, s.fat[j] = s.fat[k]
      PROVE  j = k
  <2>1. /\ j < k => j \in 1 .. k - 1
        /\ k < j => k \in 1 .. j - 1
    OBVIOUS
  <2>2. ~(j < k) /\ ~(k < j)
    BY <1>2, <1>3, <1>4, <2>1
  <2> QED
    BY <2>2
<1> QED
  BY <1>1, <1>2, <1>3, <1>4

(* What is made, cluster by cluster.                                       *)
LEMMA MadeFacts ==
  ASSUME InfoOK, Len(info.fat) = Fats, Rising(info, info.alloc)
  PROVE  /\ Ifc \in Made /\ LastFat \in Made /\ Super \in Made /\ Root \in Made
         /\ \A k \in 1 .. Fats : \E u : Entry(info.fat[k], "fat", u) \in Made
         /\ \A e \in Made :
              \/ e.cluster = 0 /\ e = Super
              \/ e.cluster = info.ifc /\ e = Ifc
              \/ e.cluster = info.alloc /\ e = Root
              \/ \E k \in 1 .. Fats : /\ e.cluster = info.fat[k]
                                      /\ e = Entry(info.fat[k], "fat", IF k = Fats THEN Fats + 1 ELSE k)
         /\ \A d, e \in Made : d.cluster = e.cluster => d = e
<1>1. Fats \in Nat \ {0}
  BY Sizes
<1>2. /\ Ifc \in Made /\ LastFat \in Made /\ Super \in Made /\ Root \in Made
  BY DEF Made, Ifc, LastFat, Super, Root
<1>3. \A k \in 1 .. Fats : \E u : Entry(info.fat[k], "fat", u) \in Made
  <2> SUFFICES ASSUME NEW k \in 1 .. Fats PROVE \E u : Entry(info.fat[k], "fat", u) \in Made
    OBVIOUS
  <2>1. CASE k = Fats
    BY <1>2, <2>1 DEF LastFat
  <2>2. CASE k # Fats
    <3>1. k \in 1 .. Fats - 1
      BY <1>1, <2>2
    <3> QED
      BY <3>1 DEF Made
  <2> QED
    BY <2>1, <2>2
<1> DEFINE F(k) == Entry(info.fat[k], "fat", IF k = Fats THEN Fats + 1 ELSE k)
<1>4. ASSUME NEW e \in Made
      PROVE  e = Super \/ e = Ifc \/ e = Root \/ \E k \in 1 .. Fats : e = F(k)
  <2>1. CASE \E k \in 1 .. Fats - 1 : e = Entry(info.fat[k], "fat", k)
    <3>1. PICK k \in 1 .. Fats - 1 : e = Entry(info.fat[k], "fat", k)
      BY <2>1
    <3>2. k \in 1 .. Fats /\ k # Fats
      BY <1>1
    <3> QED
      BY <3>1, <3>2
  <2>2. CASE e = LastFat
    <3>1. e = F(Fats)
      BY <2>2 DEF LastFat
    <3> QED
      BY <1>1, <3>1
  <2> QED
    BY <2>1, <2>2 DEF Made, Ifc, LastFat, Super, Root
<1>5. /\ Super.cluster = 0 /\ Ifc.cluster = info.ifc /\ Root.cluster = info.alloc
      /\ \A k \in 1 .. Fats : F(k).cluster = info.fat[k]
  BY DEF Super, Ifc, Root, Entry
<1> HIDE DEF F
<1>6. /\ info.ifc \in Nat /\ info.alloc \in Nat /\ info.ifc # 0
      /\ info.ifc < info.alloc /\ info.alloc # 0
      /\ \A k \in 1 .. Fats : info.fat[k] \in Nat /\ info.ifc < info.fat[k] /\ info.fat[k] < info.alloc
      /\ \A j, k \in 1 .. Fats : info.fat[j] = info.fat[k] => j = k
  BY NamesDiffer DEF InfoOK
<1>7. ASSUME NEW d \in Made, NEW e \in Made, d.cluster = e.cluster PROVE d = e
  <2>1. CASE d = Super
    BY <1>4, <1>5, <1>6, <1>7, <2>1
  <2>2. CASE d = Ifc
    BY <1>4, <1>5, <1>6, <1>7, <2>2
  <2>3. CASE d = Root
    BY <1>4, <1>5, <1>6, <1>7, <2>3
  <2>4. CASE \E k \in 1 .. Fats : d = F(k)
    BY <1>4, <1>5, <1>6, <1>7, <2>4
  <2> QED
    BY <1>4, <2>1, <2>2, <2>3, <2>4
<1>8. \A e \in Made :
        \/ e.cluster = 0 /\ e = Super
        \/ e.cluster = info.ifc /\ e = Ifc
        \/ e.cluster = info.alloc /\ e = Root
        \/ \E k \in 1 .. Fats : e.cluster = info.fat[k] /\ e = F(k)
  BY <1>4, <1>5, Zenon
<1> QED
  BY <1>2, <1>3, <1>7, <1>8 DEF F

(* What the cache has of a cluster.                                        *)
LEMMA OneOfMany ==
  ASSUME NEW D, \A d, e \in D : d.cluster = e.cluster => d = e, NEW x \in D
  PROVE  (CHOOSE e \in D : e.cluster = x.cluster) = x
OBVIOUS

(* The ages that belong to a formatting are numbers.                       *)
LEMMA ByFacts ==
  ASSUME info \in Layout
  PROVE  info.by \in Nat /\ info.by * Age \in Nat /\ \A u \in Nat : info.by * Age + u \in Nat
<1>1. info.by \in Nat /\ Age \in Nat
  BY Sizes DEF Layout, Age
<1>2. \A n, m \in Nat : n * m \in Nat
  OBVIOUS
<1>3. info.by * Age \in Nat
  BY <1>1, <1>2
<1> QED
  BY <1>1, <1>3

(* Everything is made when the last cluster of the FAT, the first of a     *)
(* block, has room behind it.                                              *)
LEMMA BuildRoom ==
  ASSUME InfoOK,
         Cardinality(GoodIn(info.alloc, info.backup2 * PerBlock - 1)) >= PerBlock
  PROVE  info.alloc \in Cluster /\ BlockOf(info.alloc) < info.backup2
<1>1. info.alloc \in Nat /\ info.backup2 \in Nat /\ info.backup2 \in Block
  BY BlockFacts, Sizes DEF InfoOK, Layout, Block
<1>2. PICK i \in GoodIn(info.alloc, info.backup2 * PerBlock - 1) : TRUE
  <2> DEFINE good == GoodIn(info.alloc, info.backup2 * PerBlock - 1)
  <2>1. Cardinality({}) = 0 /\ ~(0 >= PerBlock) /\ Cardinality(good) >= PerBlock
    BY FS_EmptySet, Sizes
  <2> HIDE DEF good
  <2>2. good # {}
    BY <2>1, Zenon
  <2> QED
    BY <2>2 DEF good
<1>3. \A n, m \in Nat : n * m \in Nat
  OBVIOUS
<1>4. info.backup2 * PerBlock \in Nat /\ info.backup2 * PerBlock <= Blocks * PerBlock
  BY <1>1, <1>3, BlockFacts, Sizes
<1>5. info.alloc < info.backup2 * PerBlock
  BY <1>1, <1>2, <1>4 DEF GoodIn
<1>6. info.alloc \in Cluster
  <2>1. Blocks * PerBlock \in Nat
    BY BlockFacts
  <2> QED
    BY <1>1, <1>4, <1>5, <2>1 DEF Cluster
<1> QED
  BY <1>1, <1>5, <1>6, Divided, Sizes DEF BlockOf

(* The table, the FAT and the superblock are put into the cache.           *)
LEMMA BuildKeeps == ASSUME FormatInv, Build PROVE FormatInv'
<1>1. /\ UNCHANGED <<slot, authed, info, card, formats, doubtful, form>> /\ CallOK
      /\ call.at = "build" /\ call.op = "format" /\ InfoOK /\ info \in Layout
      /\ Len(info.fat) = Fats /\ Rising(info, info.alloc)
      /\ form = "failed" /\ info.by = formats /\ \A e \in dirty : e.used <= formats * Age
  BY DEF Build, device, FormatInv, InfoOK, CallFits, RisingOK, AgesOK, At, Laying
<1>2. CountsOK' /\ InfoOK' /\ CardsOK'
  BY <1>1, CardsStay DEF FormatInv, CountsOK, InfoOK
<1>3. CASE End /\ UNCHANGED dirty
  <2>1. DirtyOK'
    BY <1>1, <1>3, DirtyKeeps DEF FormatInv, DirtyOK
  <2> QED
    BY <1>1, <1>2, <1>3, <2>1, EndKeeps
<1>4. CASE /\ Cardinality(GoodIn(info.alloc, info.backup2 * PerBlock - 1)) >= PerBlock
           /\ dirty' = Touched(Made) /\ Go("flush")
  <2>1. call' \in Calls /\ call'.at = "flush" /\ call'.op = "format"
    BY <1>1, <1>4, CallsGoOn, StepNames
  <2>2. info.alloc \in Cluster /\ BlockOf(info.alloc) < info.backup2
    BY <1>1, <1>4, BuildRoom
  <2>3. /\ info.by * Age \in Nat /\ (formats + 1) * Age = info.by * Age + Age
        /\ Fats \in Nat \ {0} /\ Age = Fats + 3
    <3>1. \A n, m \in Nat : (n + 1) * m = n * m + m
      OBVIOUS
    <3>2. formats \in Nat /\ Age \in Nat /\ Age = Fats + 3 /\ Fats \in Nat \ {0}
      BY Sizes DEF FormatInv, CountsOK, Age
    <3>3. info.by * Age \in Nat
      BY <1>1, ByFacts
    <3> QED
      BY <1>1, <3>1, <3>2, <3>3
  <2>4. /\ Super.cluster = 0 /\ Super.used = info.by * Age + (Fats + 2)
        /\ Ifc.cluster = info.ifc /\ Ifc.used = info.by * Age + Fats
        /\ Ifc.holds = [kind |-> "ifc", by |-> info.by]
        /\ Root.cluster = info.alloc /\ Root.used = info.by * Age + (Fats + 3)
        /\ Root.holds = [kind |-> "root", by |-> info.by]
        /\ LastFat.used = info.by * Age + (Fats + 1)
    BY DEF Super, Ifc, Root, LastFat, Entry, Age
  <2> DEFINE Order(k) == IF k = Fats THEN Fats + 1 ELSE k
  <2>5. \A k \in 1 .. Fats : Order(k) \in Nat /\ Order(k) <= Fats + 1
    BY <2>3
  <2>6. \A e \in Made :
          \/ e.cluster = 0 /\ e = Super
          \/ e.cluster = info.ifc /\ e = Ifc
          \/ e.cluster = info.alloc /\ e = Root
          \/ \E k \in 1 .. Fats : /\ e.cluster = info.fat[k]
                                  /\ e = Entry(info.fat[k], "fat", Order(k))
    BY <1>1, MadeFacts
  <2> HIDE DEF Order
  <2>7. ASSUME NEW e \in Made
        PROVE  /\ e \in [cluster : Cluster, holds : Content, used : Nat]
               /\ e.cluster = 0 \/ e.cluster >= First
               /\ e.used <= (formats + 1) * Age
               /\ e.used < Super.used \/ e = Super \/ e = Root
    <3>1. \A i \in Cluster, kind \in Kinds, u \in Nat :
            Entry(i, kind, u) \in [cluster : Cluster, holds : Content, used : Nat]
      <4>1. info.by \in 0 .. MaxFormats
        BY <1>1 DEF Layout
      <4>2. \A i, kind : \A u \in Nat : Entry(i, kind, u) =
              [cluster |-> i, holds |-> [kind |-> kind, by |-> info.by], used |-> info.by * Age + u]
        BY DEF Entry, Age
      <4>3. \A u \in Nat : info.by * Age + u \in Nat
        BY <2>3
      <4>4. \A kind \in Kinds : [kind |-> kind, by |-> info.by] \in Content
        BY <4>1 DEF Content
      <4> QED
        BY <4>2, <4>3, <4>4
    <3>2. /\ "super" \in Kinds /\ "ifc" \in Kinds /\ "fat" \in Kinds /\ "root" \in Kinds
          /\ 0 \in Cluster /\ info.ifc \in Cluster /\ info.alloc \in Cluster
          /\ Fats + 2 \in Nat /\ Fats + 3 \in Nat /\ Fats \in Nat
      BY <1>1, <2>2, <2>3, BlockFacts DEF Kinds, Layout
    <3>3. /\ info.ifc >= First /\ info.alloc >= First
          /\ \A k \in 1 .. Fats : info.fat[k] \in Cluster /\ info.fat[k] >= First
      BY <1>1, NamesDiffer
    <3>4. CASE e = Super
      <4>1. Super \in [cluster : Cluster, holds : Content, used : Nat]
        BY <3>1, <3>2 DEF Super
      <4> QED
        BY <2>3, <2>4, <3>3, <3>4, <4>1
    <3>5. CASE e = Ifc
      <4>1. Ifc \in [cluster : Cluster, holds : Content, used : Nat]
        BY <3>1, <3>2 DEF Ifc
      <4> QED
        BY <2>3, <2>4, <3>3, <3>5, <4>1
    <3>6. CASE e = Root
      <4>1. Root \in [cluster : Cluster, holds : Content, used : Nat]
        BY <3>1, <3>2 DEF Root
      <4> QED
        BY <2>3, <2>4, <3>3, <3>6, <4>1
    <3>7. CASE \E k \in 1 .. Fats : e = Entry(info.fat[k], "fat", Order(k))
      <4>1. PICK k \in 1 .. Fats : e = Entry(info.fat[k], "fat", Order(k))
        BY <3>7
      <4>2. e.cluster = info.fat[k] /\ e.used = info.by * Age + Order(k)
        BY <4>1 DEF Entry, Age
      <4>3. e \in [cluster : Cluster, holds : Content, used : Nat]
        BY <2>5, <3>1, <3>2, <3>3, <4>1
      <4> QED
        BY <2>3, <2>4, <2>5, <3>3, <4>2, <4>3
    <3> QED
      BY <2>6, <3>4, <3>5, <3>6, <3>7
  <2>8. dirty' = {e \in dirty : \A n \in Made : n.cluster # e.cluster} \cup Made
    BY <1>4 DEF Touched, Untouched
  <2>9. \A d, e \in dirty' : d.cluster = e.cluster => d = e
    <3>1. \A d, e \in Made : d.cluster = e.cluster => d = e
      BY <1>1, MadeFacts
    <3>2. \A d, e \in dirty : d.cluster = e.cluster => d = e
      BY DEF FormatInv, DirtyOK
    <3> QED
      BY <2>8, <3>1, <3>2
  <2>10. \A e \in dirty : /\ e \in [cluster : Cluster, holds : Content, used : Nat]
                          /\ e.cluster = 0 \/ e.cluster >= First
                          /\ e.used <= (formats + 1) * Age /\ e.used < Super.used
    <3>1. \A e \in dirty : /\ e \in [cluster : Cluster, holds : Content, used : Nat]
                           /\ e.cluster = 0 \/ e.cluster >= First
                           /\ e.used <= (formats + 1) * Age /\ e.used \in Nat
      BY DEF FormatInv, DirtyOK
    <3>2. \A e \in dirty : e.used <= info.by * Age
      BY <1>1
    <3> QED
      BY <2>3, <2>4, <3>1, <3>2
  <2>11. DirtyOK'
    <3>1. \A e \in dirty' : /\ e \in [cluster : Cluster, holds : Content, used : Nat]
                            /\ e.cluster = 0 \/ e.cluster >= First
                            /\ e.used <= (formats + 1) * Age
      BY <2>7, <2>8, <2>10
    <3> QED
      BY <1>1, <2>9, <3>1 DEF DirtyOK, Age
  <2>12. ASSUME NEW e \in Made
         PROVE  Latest(e.cluster)' = e.holds
    <3>1. e \in dirty'
      BY <2>8
    <3>2. (CHOOSE d \in dirty' : d.cluster = e.cluster) = e
      BY <2>9, <3>1, OneOfMany
    <3> QED
      BY <3>1, <3>2 DEF Latest
  <2>13. InOrder'
    <3>1. /\ Super' = Super /\ Root' = Root /\ Ifc' = Ifc /\ LastFat' = LastFat
      BY <1>1 DEF Super, Root, Ifc, LastFat, Entry
    <3>2. Super \in dirty' /\ Ifc \in dirty' /\ LastFat \in dirty'
      BY <1>1, <2>8, MadeFacts
    <3>3. \A e \in dirty' : e.used < Super.used \/ e = Super \/ e = Root
      BY <2>7, <2>8, <2>10
    <3>4. Is(info.ifc, "ifc")' /\ Is(info.alloc, "root")'
      <4>1. Ifc \in Made /\ Root \in Made
        BY <1>1, MadeFacts
      <4> QED
        BY <1>1, <2>4, <2>12, <4>1 DEF Is
    <3>5. \A k \in 1 .. Fats : Is(info.fat[k], "fat")'
      <4> SUFFICES ASSUME NEW k \in 1 .. Fats PROVE Is(info.fat[k], "fat")'
        OBVIOUS
      <4>1. PICK u : Entry(info.fat[k], "fat", u) \in Made
        BY <1>1, MadeFacts
      <4>2. /\ Entry(info.fat[k], "fat", u).cluster = info.fat[k]
            /\ Entry(info.fat[k], "fat", u).holds = [kind |-> "fat", by |-> info.by]
        BY DEF Entry
      <4>3. Latest(info.fat[k])' = [kind |-> "fat", by |-> info.by]
        BY <1>1, <2>12, <4>1, <4>2
      <4> QED
        BY <1>1, <4>3 DEF Is
    <3> QED
      BY <3>1, <3>2, <3>3, <3>4, <3>5 DEF InOrder
  <2>14. LayoutOK'
    <3>1. authed => Laid /\ Backups(info, slot)
      BY <1>1 DEF FormatInv, LayoutOK, At
    <3>2. authed' => Laid' /\ Backups(info, slot)'
      BY <1>1, <3>1 DEF Laid, Ordered, Rising, BadIfc, Backups
    <3> QED
      BY <1>1, <2>1, <2>2, <2>13, <3>2 DEF LayoutOK, At
  <2>15. CallFits' /\ AgesOK' /\ RisingOK'
    BY <2>1 DEF CallFits, AgesOK, RisingOK, At, Laying
  <2>16. OpenOK'
    <3>1. authed => Open(slot)
      BY <1>1 DEF FormatInv, OpenOK
    <3> QED
      BY <1>1, <2>1, <3>1 DEF OpenOK, Open, At
  <2> QED
    BY <1>2, <2>1, <2>11, <2>14, <2>15, <2>16 DEF FormatInv, CallOK
<1> QED
  BY <1>3, <1>4 DEF Build

(* The first free cluster lies in front of the backup blocks, on the card. *)
LEMMA AllocFits ==
  ASSUME InfoOK, Len(info.fat) = Fats, Rising(info, info.alloc),
         BlockOf(info.alloc) < info.backup2
  PROVE  info.alloc \in Cluster
<1>1. info.backup2 \in Nat /\ info.backup2 < Blocks /\ info.alloc \in Nat
  BY Sizes, NamesDiffer DEF InfoOK, Layout, Block
<1>2. BlockOf(info.alloc) \in Nat
  BY <1>1, NextCluster, Sizes DEF BlockOf
<1>3. BlockOf(info.alloc) < Blocks
  BY <1>1, <1>2, Sizes
<1>4. \A P, n, i \in Nat : P > 1 /\ i \div P < n => i < n * P
  OBVIOUS
<1>5. info.alloc < Blocks * PerBlock
  BY <1>1, <1>3, <1>4, Sizes DEF BlockOf
<1>6. Blocks * PerBlock \in Nat
  BY BlockFacts
<1> QED
  BY <1>1, <1>5, <1>6 DEF Cluster

(* When block 0 is written in a formatting, nothing else is left to write. *)
LEMMA FirstBlockLast ==
  ASSUME FormatInv, authed, call.op = "format", At("flush"),
         NEW x \in dirty, Oldest(x), BlockOf(x.cluster) = 0
  PROVE  /\ \A d \in dirty : BlockOf(d.cluster) = 0
         /\ ~BadIfc /\ Laid /\ Backups(info, slot) /\ BlockOf(info.alloc) < info.backup2
         /\ \A i \in Nat : i >= First => Latest(i) = card[slot].at[i]
         /\ Is(info.ifc, "ifc") /\ Is(info.alloc, "root")
         /\ \A k \in 1 .. Fats : Is(info.fat[k], "fat")
<1>1. /\ Laid /\ Backups(info, slot) /\ BlockOf(info.alloc) < info.backup2 /\ InOrder
      /\ info \in Layout
  BY DEF FormatInv, LayoutOK, At, InfoOK
<1>2. /\ \A d \in dirty : d.used \in Nat /\ (d.cluster = 0 \/ d.cluster >= First)
                          /\ d.cluster \in Nat
      /\ \A d, e \in dirty : d.cluster = e.cluster => d = e
  BY BlockFacts DEF FormatInv, DirtyOK
<1>3. /\ Super.cluster = 0 /\ Super.used = info.by * Age + (Fats + 2)
      /\ Ifc.used = info.by * Age + Fats /\ LastFat.used = info.by * Age + (Fats + 1)
  BY DEF Super, Ifc, LastFat, Entry, Age
<1>4. x = Super /\ Super \in dirty
  <2>1. x.cluster = 0
    BY <1>2, BlockFacts
  <2> QED
    BY <1>1, <1>2, <1>3, <2>1 DEF InOrder
<1>5. \A d \in dirty : Super.used <= d.used
  BY <1>4 DEF Oldest
<1>6. info.by * Age \in Nat /\ Fats \in Nat
  BY <1>1, ByFacts, Sizes
<1>7. Ifc \notin dirty /\ LastFat \notin dirty
  BY <1>3, <1>5, <1>6
<1>8. ~BadIfc /\ \A d \in dirty : d = Super
  <2>1. ~BadIfc /\ Root \notin dirty
    BY <1>1, <1>7 DEF InOrder
  <2>2. \A d \in dirty : ~(d.used < Super.used)
    BY <1>2, <1>3, <1>5, <1>6
  <2> QED
    BY <1>1, <2>1, <2>2 DEF InOrder
<1>9. ASSUME NEW i \in Nat, i >= First
      PROVE  Latest(i) = card[slot].at[i]
  <2>1. i # 0
    BY <1>9, BlockFacts
  <2>2. ~\E e \in dirty : e.cluster = i
    BY <1>3, <1>8, <2>1
  <2> QED
    BY <2>2 DEF Latest
<1> QED
  BY <1>1, <1>3, <1>8, <1>9, BlockFacts DEF InOrder

(* The entry of a cluster that counts.                                     *)
LEMMA LatestTyped ==
  ASSUME CardsOK, DirtyOK, slot \in Cards
  PROVE  \A i \in Cluster : Latest(i) \in Content /\ card[slot].at[i] \in Content
<1> SUFFICES ASSUME NEW i \in Cluster
             PROVE  Latest(i) \in Content /\ card[slot].at[i] \in Content
  OBVIOUS
<1>1. card[slot].at[i] \in Content
  BY DEF CardsOK
<1>2. CASE \E e \in dirty : e.cluster = i
  <2>1. PICK e \in dirty : e.cluster = i
    BY <1>2
  <2>2. (CHOOSE d \in dirty : d.cluster = i) = e
    BY <2>1, OneOfMany DEF DirtyOK
  <2>3. e.holds \in Content
    BY DEF DirtyOK
  <2> QED
    BY <1>1, <1>2, <2>2, <2>3 DEF Latest
<1> QED
  BY <1>1, <1>2 DEF Latest

(* A cluster is written to its card, the oldest first.                     *)
LEMMA FlushKeeps == ASSUME FormatInv, Flush PROVE FormatInv'
<1>1. PICK x \in dirty :
        /\ Oldest(x)
        /\ dirty' = {d \in dirty : BlockOf(d.cluster) # BlockOf(x.cluster)}
        /\ IF BlockOf(x.cluster) \in Bad[slot]
             THEN Wiped(BlockOf(x.cluster)) /\ Cleared(BlockOf(x.cluster)) /\ End
             ELSE /\ card' = [card EXCEPT ![slot] =
                       [super |-> IF BlockOf(x.cluster) = 0 THEN info ELSE @.super,
                        at |-> Contents(BlockOf(x.cluster))]]
                  /\ UNCHANGED <<call, doubtful>>
  BY DEF Flush
<1> DEFINE b == BlockOf(x.cluster)
<1>2. /\ UNCHANGED <<slot, authed, info, formats, form>> /\ CallOK /\ authed
      /\ slot \in Cards /\ call.at = "flush" /\ call.op \in {"use", "format"}
      /\ InfoOK /\ CardsOK /\ DirtyOK /\ Open(slot)
      /\ call.op = "use" => slot \in doubtful
  BY DEF Flush, device, FormatInv, CountsOK, Working, CallFits, OpenOK, At
<1>3. CountsOK' /\ InfoOK' /\ DirtyOK'
  BY <1>1, <1>2, DirtyKeeps DEF FormatInv, CountsOK, InfoOK, DirtyOK
<1>4. CASE b \in Bad[slot]
  <2>1. CardsOK'
    BY <1>1, <1>2, <1>4, WipedKeeps
  <2> QED
    BY <1>1, <1>2, <1>3, <1>4, <2>1, EndKeeps
<1>5. CASE b \notin Bad[slot]
  <2> DEFINE new == [super |-> IF b = 0 THEN info ELSE card[slot].super, at |-> Contents(b)]
  <2>1. card' = [card EXCEPT ![slot] = new] /\ UNCHANGED <<call, doubtful>>
    BY <1>1, <1>5
  <2>2. new \in [super : Layout \cup {None}, at : [Cluster -> Content]]
    <3>1. Contents(b) \in [Cluster -> Content]
      BY <1>2, LatestTyped DEF Contents
    <3>2. info \in Layout /\ card[slot].super \in Layout \cup {None}
      BY <1>2 DEF InfoOK, CardsOK
    <3> HIDE DEF b
    <3> QED
      BY <3>1, <3>2
  <2>3. /\ new.super = IF b = 0 THEN info ELSE card[slot].super
        /\ \A i \in Cluster : new.at[i] = IF BlockOf(i) = b THEN Latest(i) ELSE card[slot].at[i]
    BY DEF Contents
  <2> HIDE DEF new, b
  <2>4. /\ card' \in [Cards -> [super : Layout \cup {None}, at : [Cluster -> Content]]]
        /\ card'[slot] = new /\ \A c \in Cards \ {slot} : card'[c] = card[c]
    BY <1>2, <2>1, <2>2 DEF CardsOK
  <2>5. ASSUME b = 0, call.op = "format"
        PROVE  dirty' = {} /\ Sound(info, slot) /\ \A c \in Cards : c = slot => Whole(c)'
    <3>1. /\ \A d \in dirty : BlockOf(d.cluster) = 0
          /\ ~BadIfc /\ Laid /\ Backups(info, slot) /\ BlockOf(info.alloc) < info.backup2
          /\ \A i \in Nat : i >= First => Latest(i) = card[slot].at[i]
          /\ Is(info.ifc, "ifc") /\ Is(info.alloc, "root")
          /\ \A k \in 1 .. Fats : Is(info.fat[k], "fat")
      BY <1>1, <1>2, <2>5, FirstBlockLast DEF At, b
    <3>2. dirty' = {}
      BY <1>1, <2>5, <3>1 DEF b
    <3>3. /\ info.ifc \in Cluster /\ info.alloc \in Nat /\ info.ifc \in Nat
          /\ info.ifc >= First /\ info.alloc >= First
          /\ \A k \in 1 .. Fats : /\ info.fat[k] \in Cluster /\ info.fat[k] \in Nat
                                   /\ info.fat[k] >= First
      BY <1>2, <3>1, NamesDiffer, BlockFacts DEF InfoOK, Laid, Ordered, Layout
    <3>4. info.alloc \in Cluster
      BY <1>2, <3>1, AllocFits DEF Laid, Ordered
    <3>5. Sound(info, slot)
      <4>1. BlockOf(info.ifc) \notin Bad[slot] /\ BlockOf(info.alloc) = BlockOf(info.fat[Fats])
        BY <3>1 DEF Laid, BadIfc
      <4>2. BlockOf(info.fat[Fats]) \notin Bad[slot]
        BY <3>1, Sizes DEF Laid, Ordered
      <4> QED
        BY <3>1, <4>1, <4>2 DEF Sound, Laid
    <3>6. \A i \in Cluster : \A kind : i >= First /\ Is(i, kind) =>
            new.at[i] = [kind |-> kind, by |-> info.by]
      <4> SUFFICES ASSUME NEW i \in Cluster, NEW kind, i >= First, Is(i, kind)
                   PROVE  new.at[i] = [kind |-> kind, by |-> info.by]
        OBVIOUS
      <4>1. i \in Nat /\ BlockOf(i) # b
        BY <2>5, BlockFacts
      <4> QED
        BY <2>3, <3>1, <4>1 DEF Is
    <3>7. new.super = info
      BY <2>3, <2>5
    <3>8. \A c \in Cards : c = slot => Whole(c)'
      <4>1. /\ new.at[info.ifc] = [kind |-> "ifc", by |-> info.by]
            /\ new.at[info.alloc] = [kind |-> "root", by |-> info.by]
            /\ \A k \in 1 .. Fats : new.at[info.fat[k]] = [kind |-> "fat", by |-> info.by]
        BY <3>1, <3>3, <3>4, <3>6
      <4> QED
        BY <1>2, <2>4, <3>7, <4>1 DEF Whole
    <3> QED
      BY <3>2, <3>5, <3>8
  <2>6. Sound(info, slot)' <=> Sound(info, slot)
    BY <1>2 DEF Sound, Ordered, Rising, Backups
  <2>7. ASSUME NEW c \in Cards, card'[c].super # None
        PROVE  /\ 0 \notin card'[c].super.listed
               /\ c \notin doubtful' => Sound(card'[c].super, c) /\ Whole(c)'
    <3>1. CASE c # slot
      <4>1. card'[c] = card[c] /\ (c \in doubtful' <=> c \in doubtful)
        BY <2>1, <2>4, <3>1
      <4> QED
        BY <1>2, <2>7, <4>1 DEF CardsOK, Whole
    <3>2. CASE c = slot /\ b = 0
      <4>1. card'[c].super = info
        BY <2>3, <2>4, <3>2
      <4>2. 0 \notin info.listed
        BY <1>2 DEF InfoOK
      <4>3. c \notin doubtful' => call.op = "format"
        BY <1>2, <2>1, <3>2
      <4> QED
        BY <2>5, <3>2, <4>1, <4>2, <4>3
    <3>3. CASE c = slot /\ b # 0
      <4>1. card'[c].super = card[c].super
        BY <2>3, <2>4, <3>3
      <4>2. c \in doubtful'
        BY <1>2, <2>1, <2>7, <3>3, <4>1 DEF Open
      <4> QED
        BY <1>2, <2>7, <4>1, <4>2 DEF CardsOK
    <3> QED
      BY <3>1, <3>2, <3>3
  <2>8. CardsOK'
    BY <1>2, <2>1, <2>4, <2>7 DEF CardsOK, Sound, Ordered, Rising, Backups
  <2>9. CallOK' /\ CallFits' /\ AgesOK' /\ RisingOK'
    BY <1>2, <2>1 DEF CallOK, CallFits, AgesOK, RisingOK, At, Laying, FormatInv
  <2>10. OpenOK'
    <3>1. dirty' # {} => Open(slot)'
      <4>1. CASE b = 0
        BY <1>2, <2>1, <2>5, <4>1 DEF Open
      <4>2. CASE b # 0
        BY <1>2, <2>1, <2>3, <2>4, <4>2 DEF Open
      <4> QED
        BY <4>1, <4>2
    <3> QED
      BY <1>2, <2>1, <3>1 DEF OpenOK, At
  <2>11. LayoutOK'
    <3>1. SUFFICES ASSUME call.op = "format", dirty' # {}
                   PROVE  /\ Laid' /\ Backups(info, slot)' /\ BlockOf(info'.alloc) < info'.backup2
                          /\ InOrder'
      BY <1>2, <2>1 DEF LayoutOK, At
    <3>2. Laid /\ Backups(info, slot) /\ BlockOf(info.alloc) < info.backup2 /\ InOrder
      BY <1>2, <3>1 DEF FormatInv, LayoutOK, At
    <3>3. Laid' /\ Backups(info, slot)'
      BY <1>2, <3>2 DEF Laid, Ordered, Rising, BadIfc, Backups
    <3>4. b # 0
      BY <2>5, <3>1
    <3>5. /\ Super' = Super /\ Root' = Root /\ Ifc' = Ifc /\ LastFat' = LastFat
      BY <1>2 DEF Super, Root, Ifc, LastFat, Entry
    <3>6. dirty' = {d \in dirty : BlockOf(d.cluster) # b}
      BY <1>1 DEF b
    <3>7. Super \in dirty' /\ (BadIfc => Ifc \in dirty') /\ (BadIfc <=> BadIfc')
      <4>1. Super.cluster = 0 /\ Ifc.cluster = info.ifc
        BY DEF Super, Ifc, Entry
      <4> QED
        BY <1>2, <1>5, <3>2, <3>4, <3>6, <4>1, BlockFacts DEF InOrder, BadIfc
    <3>8. ~BadIfc /\ Root \in dirty' => LastFat \in dirty'
      <4>1. Root.cluster = info.alloc /\ LastFat.cluster = info.fat[Fats]
        BY DEF Root, LastFat, Entry
      <4>2. ~BadIfc => BlockOf(info.alloc) = BlockOf(info.fat[Fats])
        BY <3>2 DEF Laid
      <4> QED
        BY <3>2, <3>6, <4>1, <4>2 DEF InOrder
    <3>9. \A i \in Cluster : Latest(i)' = Latest(i)
      <4> SUFFICES ASSUME NEW i \in Cluster PROVE Latest(i)' = Latest(i)
        OBVIOUS
      <4>1. CASE BlockOf(i) = b
        <5>1. ~\E e \in dirty' : e.cluster = i
          BY <3>6, <4>1
        <5>2. card'[slot].at[i] = Latest(i)
          BY <2>3, <2>4, <4>1
        <5> QED
          BY <1>2, <5>1, <5>2 DEF Latest
      <4>2. CASE BlockOf(i) # b
        <5>1. card'[slot].at[i] = card[slot].at[i]
          BY <2>3, <2>4, <4>2
        <5>2. CASE \E e \in dirty : e.cluster = i
          <6>1. PICK e \in dirty : e.cluster = i
            BY <5>2
          <6>2. e \in dirty'
            BY <3>6, <4>2, <6>1
          <6>3. (CHOOSE d \in dirty : d.cluster = i) = e
            BY <1>2, <6>1, OneOfMany DEF DirtyOK
          <6>4. (CHOOSE d \in dirty' : d.cluster = i) = e
            BY <1>3, <6>1, <6>2, OneOfMany DEF DirtyOK
          <6> QED
            BY <6>1, <6>2, <6>3, <6>4 DEF Latest
        <5>3. CASE ~\E e \in dirty : e.cluster = i
          <6>1. ~\E e \in dirty' : e.cluster = i
            BY <3>6, <5>3
          <6> QED
            BY <1>2, <5>1, <5>3, <6>1 DEF Latest
        <5> QED
          BY <5>2, <5>3
      <4> QED
        BY <4>1, <4>2
    <3>10. /\ info.ifc \in Cluster /\ info.alloc \in Cluster
           /\ \A k \in 1 .. Fats : info.fat[k] \in Cluster
      BY <1>2, <3>2, NamesDiffer, AllocFits DEF InfoOK, Layout, Laid, Ordered
    <3>11. /\ Is(info.ifc, "ifc")' /\ Is(info.alloc, "root")'
           /\ \A k \in 1 .. Fats : Is(info.fat[k], "fat")'
      BY <1>2, <3>2, <3>9, <3>10 DEF Is, InOrder
    <3> QED
      BY <1>2, <3>2, <3>3, <3>5, <3>6, <3>7, <3>8, <3>11 DEF InOrder
  <2> QED
    BY <1>3, <2>8, <2>9, <2>10, <2>11 DEF FormatInv
<1> QED
  BY <1>4, <1>5

(* Nothing has been formatted at first.                                    *)
LEMMA InitFormat == Init => FormatInv
<1> SUFFICES ASSUME Init PROVE FormatInv
  OBVIOUS
<1>1. call = Idle /\ CallOK
  BY InitInv DEF Init, RecognitionInv
<1>2. call.at = "idle" /\ CallFits /\ OpenOK /\ RisingOK /\ LayoutOK /\ AgesOK
  BY <1>1 DEF Idle, CallFits, OpenOK, RisingOK, LayoutOK, AgesOK, At, Laying
<1>3. CountsOK
  BY Sizes DEF Init, CountsOK
<1>4. InfoOK
  BY NoLayoutIsLayout DEF Init, InfoOK
<1>5. DirtyOK
  BY DEF Init, DirtyOK
<1>6. CardsOK
  <2>1. Blank \in Content
    BY Sizes DEF Blank, Content, Kinds
  <2>2. [super |-> None, at |-> [i \in Cluster |-> Blank]]
          \in [super : Layout \cup {None}, at : [Cluster -> Content]]
    BY <2>1
  <2>3. \A c \in Cards : card[c] = [super |-> None, at |-> [i \in Cluster |-> Blank]]
    BY DEF Init
  <2>4. card \in [Cards -> [super : Layout \cup {None}, at : [Cluster -> Content]]]
    BY <2>2 DEF Init
  <2>5. \A c \in Cards : card[c].super = None
    BY <2>3
  <2> QED
    BY <2>4, <2>5 DEF Init, CardsOK
<1> QED
  BY <1>1, <1>2, <1>3, <1>4, <1>5, <1>6 DEF FormatInv

(* Every step keeps the invariant.                                         *)
LEMMA FormatStep == ASSUME FormatInv, [Next]_vars PROVE FormatInv'
<1>1. CASE \/ Begin \/ DetectFails \/ ProbeSame \/ ProbeKnown \/ ProbeChanged
           \/ Authenticate \/ Validate \/ Terminate \/ ReadRoot \/ NoRoom \/ FormatDone
  BY <1>1, DetectionKeeps
<1>2. CASE ReadSuper \/ StepFails \/ Exchange \/ Restart
  BY <1>2, ReadSuperKeeps, FailureKeeps, ExchangeKeeps, RestartKeeps
<1>3. CASE FormatStart \/ ListBad \/ Clear \/ FindIfc \/ FindFat \/ FindBackup
  BY <1>3, FormatStartKeeps, ListBadKeeps, ClearKeeps, FindIfcKeeps, FindFatKeeps,
     FindBackupKeeps
<1>4. CASE Build \/ Flush \/ UseStart \/ UnformatStart \/ Erase
  BY <1>4, BuildKeeps, FlushKeeps, UseKeeps, EraseKeeps
<1>5. CASE UNCHANGED vars
  <2>1. /\ UNCHANGED <<slot, authed, info, card, dirty, call, formats, doubtful, form>>
    BY <1>5 DEF vars, device
  <2>2. CardsOK' /\ DirtyOK' /\ CountsOK' /\ InfoOK'
    BY <2>1, CardsStay, DirtyKeeps DEF FormatInv, CountsOK, InfoOK, DirtyOK
  <2>3. CallOK' /\ CallFits' /\ AgesOK' /\ OpenOK' /\ RisingOK'
    BY <2>1 DEF FormatInv, CallOK, CallFits, AgesOK, OpenOK, Open, RisingOK, Rising, At
  <2>4. LayoutOK'
    BY <2>1 DEF FormatInv, LayoutOK, At, Aligned, Good, Ordered, Rising, BadIfc, Laid,
                Backups, InOrder, Super, Root, Ifc, LastFat, Entry, Is, Latest
  <2> QED
    BY <2>2, <2>3, <2>4 DEF FormatInv
<1> QED
  BY <1>1, <1>2, <1>3, <1>4, <1>5 DEF Next

(* The inductive invariant of formatting, unformatting, and whatever fails *)
(* or is cut in between.                                                   *)
THEOREM FormattingHolds == Spec => []FormatInv
<1> QED
  BY InitFormat, FormatStep, PTL DEF Spec

(* What detection takes for formatted is one whole file system, of one     *)
(* formatting, wherever Card_Format was cut, failed or was repeated.       *)
THEOREM FormattedCardsAreWhole == Spec => []FormattedMeansWhole
<1>1. FormatInv => FormattedMeansWhole
  BY DEF FormatInv, CardsOK, FormattedMeansWhole, HasRoot
<1> QED
  BY <1>1, FormattingHolds, PTL

(* The clusters that a sound layout names are as many as it has names for. *)
LEMMA NamesCount ==
  ASSUME NEW s \in Layout, NEW c \in Cards, Sound(s, c)
  PROVE  Cardinality({s.ifc, s.alloc} \cup {s.fat[k] : k \in 1 .. Fats}) = Fats + 2
<1> DEFINE F == {s.fat[k] : k \in 1 .. Fats}
<1>1. /\ s.ifc < s.alloc /\ s.ifc \in Nat /\ s.alloc \in Nat
      /\ \A k \in 1 .. Fats : s.fat[k] \in Nat /\ s.ifc < s.fat[k] /\ s.fat[k] < s.alloc
      /\ \A j, k \in 1 .. Fats : s.fat[j] = s.fat[k] => j = k
  BY NamesDiffer DEF Sound, Ordered
<1>2. IsFiniteSet(1 .. Fats) /\ Cardinality(1 .. Fats) = Fats
  BY FS_Interval, Sizes
<1>3. IsFiniteSet(F) /\ Cardinality(F) = Fats
  <2> DEFINE f == [k \in 1 .. Fats |-> s.fat[k]]
  <2>1. f \in [1 .. Fats -> F]
    OBVIOUS
  <2>2. \A j, k \in 1 .. Fats : f[j] = f[k] => j = k
    BY <1>1
  <2>3. \A t \in F : \E k \in 1 .. Fats : f[k] = t
    OBVIOUS
  <2> HIDE DEF f, F
  <2>4. f \in Bijection(1 .. Fats, F)
    BY <2>1, <2>2, <2>3, Fun_IsBij
  <2>5. ExistsBijection(1 .. Fats, F)
    BY <2>4, Fun_ExistsBij
  <2> QED
    BY <1>2, <2>5, FS_Bijection
<1>4. s.alloc \notin F /\ s.ifc \notin F \cup {s.alloc}
  BY <1>1
<1> HIDE DEF F
<1>5. IsFiniteSet(F \cup {s.alloc}) /\ Cardinality(F \cup {s.alloc}) = Fats + 1
  BY <1>3, <1>4, FS_AddElement
<1>6. Cardinality((F \cup {s.alloc}) \cup {s.ifc}) = Fats + 1 + 1
  BY <1>4, <1>5, FS_AddElement
<1>7. {s.ifc, s.alloc} \cup F = (F \cup {s.alloc}) \cup {s.ifc}
  OBVIOUS
<1>8. Cardinality({s.ifc, s.alloc} \cup F) = Fats + 2
  <2>1. Cardinality({s.ifc, s.alloc} \cup F) = Fats + 1 + 1
    BY <1>6, <1>7, Zenon
  <2>2. Fats + 1 + 1 = Fats + 2
    BY Sizes
  <2> QED
    BY <2>1, <2>2, Zenon
<1> QED
  BY <1>8 DEF F

(* The places a formatting chose differ, lie in good blocks and in front   *)
(* of the two backup blocks.                                               *)
THEOREM LayoutsAreSound == Spec => []LayoutIsSound
<1>1. FormatInv => LayoutIsSound
  <2> SUFFICES ASSUME FormatInv, NEW c \in Cards \ doubtful, HasRoot(c)
               PROVE  LET s == card[c].super
                          named == {s.ifc, s.alloc} \cup {s.fat[k] : k \in 1 .. Fats}
                      IN  /\ Cardinality(named) = Fats + 2
                          /\ \A i \in named : i >= First /\ BlockOf(i) \notin Bad[c]
                          /\ \A i \in named : BlockOf(i) < s.backup2
                          /\ s.backup2 < s.backup1 /\ {s.backup1, s.backup2} \cap Bad[c] = {}
    BY DEF LayoutIsSound
  <2> DEFINE s == card[c].super
  <2>1. s # None /\ s \in Layout /\ Sound(s, c)
    BY DEF FormatInv, CardsOK, HasRoot
  <2> HIDE DEF s
  <2>2. /\ s.ifc \in Nat /\ s.alloc \in Nat /\ s.ifc >= First /\ s.alloc >= First
        /\ s.ifc < s.alloc
        /\ \A k \in 1 .. Fats : s.fat[k] \in Nat /\ s.fat[k] >= First /\ s.fat[k] < s.alloc
    BY <2>1, NamesDiffer DEF Sound, Ordered
  <2>3. /\ BlockOf(s.ifc) \notin Bad[c] /\ BlockOf(s.alloc) \notin Bad[c]
        /\ \A k \in 1 .. Fats : BlockOf(s.fat[k]) \notin Bad[c]
    BY <2>1 DEF Sound, Ordered
  <2>4. \A i \in Nat : i <= s.alloc => BlockOf(i) < s.backup2
    <3>1. \A i \in Nat : i <= s.alloc => BlockOf(i) <= BlockOf(s.alloc)
      BY <2>2, Divided, Sizes DEF BlockOf
    <3>2. \A i \in Nat : BlockOf(i) \in Nat
      BY NextCluster, Sizes DEF BlockOf
    <3>3. BlockOf(s.alloc) < s.backup2 /\ s.backup2 \in Nat
      BY <2>1, Sizes DEF Sound, Layout, Block
    <3> QED
      BY <2>2, <3>1, <3>2, <3>3
  <2>5. Cardinality({s.ifc, s.alloc} \cup {s.fat[k] : k \in 1 .. Fats}) = Fats + 2
    BY <2>1, NamesCount
  <2>6. \A i \in {s.ifc, s.alloc} \cup {s.fat[k] : k \in 1 .. Fats} :
          i >= First /\ BlockOf(i) \notin Bad[c] /\ BlockOf(i) < s.backup2
    <3>1. BlockOf(s.ifc) < s.backup2 /\ BlockOf(s.alloc) < s.backup2
          /\ \A k \in 1 .. Fats : BlockOf(s.fat[k]) < s.backup2
      BY <2>2, <2>4
    <3> QED
      BY <2>2, <2>3, <3>1
  <2>7. s.backup2 < s.backup1 /\ {s.backup1, s.backup2} \cap Bad[c] = {}
    BY <2>1 DEF Sound, Backups
  <2> QED
    BY <2>5, <2>6, <2>7 DEF s
<1> QED
  BY <1>1, FormattingHolds, PTL

(* Types.                                                                  *)
ScalarsOK ==
  /\ authed \in BOOLEAN /\ primed \in BOOLEAN /\ known \in Cards \cup {None}
  /\ form \in {"unknown", "formatted", "noformat", "failed"}

(* The variables of detection and formatting keep their types.             *)
THEOREM FormatTypes == Spec => []TypeOK
<1>1. Init => ScalarsOK
  BY DEF Init, ScalarsOK
<1>2. FormatInv /\ ScalarsOK /\ [Next]_vars => ScalarsOK'
  <2> SUFFICES ASSUME FormatInv, ScalarsOK, [Next]_vars PROVE ScalarsOK'
    OBVIOUS
  <2> USE DEF ScalarsOK, device
  <2>1. CASE \/ Begin \/ DetectFails \/ ProbeSame \/ ProbeKnown \/ ProbeChanged
             \/ Authenticate \/ Validate \/ Terminate \/ ReadRoot
    BY <2>1 DEF Begin, DetectFails, ProbeSame, ProbeKnown, ProbeChanged, Authenticate,
                Validate, Terminate, ReadRoot
  <2>2. CASE ReadSuper
    BY <2>2 DEF ReadSuper, FormatInv, CountsOK
  <2>3. CASE StepFails \/ Exchange \/ Restart \/ NoRoom \/ FormatDone
    BY <2>3 DEF StepFails, Exchange, Restart, NoRoom, FormatDone
  <2>4. CASE FormatStart \/ ListBad \/ Clear \/ FindIfc \/ FindFat \/ FindBackup
    BY <2>4 DEF FormatStart, ListBad, Clear, FindIfc, FindFat, FindBackup
  <2>5. CASE Build \/ Flush \/ UseStart \/ UnformatStart \/ Erase
    BY <2>5 DEF Build, Flush, UseStart, UnformatStart, Erase
  <2>6. CASE UNCHANGED vars
    BY <2>6 DEF vars
  <2> QED
    BY <2>1, <2>2, <2>3, <2>4, <2>5, <2>6 DEF Next
<1>3. FormatInv /\ ScalarsOK => TypeOK
  BY DEF FormatInv, ScalarsOK, TypeOK, CountsOK, InfoOK, CardsOK, DirtyOK, CallOK, Calls
<1> QED
  BY <1>1, <1>2, <1>3, FormattingHolds, PTL DEF Spec
=============================================================================
