------------------------------ MODULE CardFormat ------------------------------
(***************************************************************************)
(* Detecting, formatting and unformatting a card (AnthonyPS2/mcio.cpp):    *)
(* mcio_mcDetect with the steps of Card_Probe, Card_Format, Card_Unformat, *)
(* Card_WriteCluster and Card_ReportBadBlocks, over cards with bad blocks  *)
(* that are exchanged, or cut from power, between any two steps.           *)
(*                                                                         *)
(* Of the content of a card there is what makes it a file system: the      *)
(* superblock, the table of the FAT clusters ("ifc"), the FAT and the root *)
(* directory, each marked with the formatting that wrote it.  Calls on     *)
(* files appear as what they do to a card that is not formatted: they      *)
(* write what is left in the cache.                                        *)
(***************************************************************************)
EXTENDS Integers, Sequences, FiniteSets

CONSTANTS
  Cards, Bad,       (* the cards and, of each, the blocks that are worn    *)
  Blocks, PerBlock, (* erase blocks of a card, and clusters in one (8)     *)
  First,            (* clusters cleared first: the pages of a block (16)   *)
  Fats,             (* clusters of the FAT (32 on a card of 8 MB)          *)
  MaxFormats,       (* bound: how often a card is formatted                *)
  None              (* no card, no superblock                              *)

ASSUME FormatAssumption ==
  /\ None \notin Cards
  /\ Blocks \in Nat \ {0} /\ PerBlock \in Nat /\ MaxFormats \in Nat
  /\ First \in Nat \ {0} /\ Fats \in Nat \ {0} /\ First % PerBlock = 0
  /\ Bad \in [Cards -> SUBSET (1 .. Blocks - 1)]
  (* ... which puts the last cluster of the FAT first in its block, and    *)
  (* the root directory behind it in the same one                          *)
  /\ Fats % PerBlock = 0 /\ PerBlock > 1

Block == 0 .. Blocks - 1
Cluster == 0 .. Blocks * PerBlock - 1
BlockOf(i) == i \div PerBlock

Kinds == {"blank", "super", "ifc", "fat", "root"}
Content == [kind : Kinds, by : 0 .. MaxFormats]
Blank == [kind |-> "blank", by |-> 0]

(* The parts of mcio_devinfo that Card_Format fills in and the superblock  *)
(* has: the places of the table, the FAT, the first cluster for files and  *)
(* the root, the backup blocks, the blocks known as bad.                   *)
Layout == [by : 0 .. MaxFormats, ifc : Cluster, fat : Seq(Cluster),
           alloc : 0 .. Blocks * PerBlock, backup1 : Block, backup2 : Block,
           listed : SUBSET Block]

VARIABLES
  slot,      (* the card in the adaptor                                    *)
  authed,    (* it was authenticated since it was put in                   *)
  primed,    (* ... and holds the termination code                         *)
  known,     (* the card mcio_devinfo describes                            *)
  form,      (* mcio_devinfo.cardform: unknown, 1, sceMcResNoFormat, -1    *)
  info,      (* the layout in mcio_devinfo                                 *)
  card,      (* the clusters of the cards, and their superblocks           *)
  dirty,     (* changed clusters in the cache, and when they were used     *)
  call,      (* the call in progress: what it is, its step, a counter      *)
  formats,   (* history: formattings begun                                 *)
  doubtful   (* history: cards that were being unformatted, or written to  *)
             (* by other calls after a formatting had failed               *)

device == <<slot, authed, primed, known, form, info>>
vars == <<device, card, dirty, call, formats, doubtful>>

Idle == [op |-> "none", at |-> "idle", i |-> 0]
NoLayout == [by |-> 0, ifc |-> 0, fat |-> << >>, alloc |-> 0,
             backup1 |-> 0, backup2 |-> 0, listed |-> {}]

TypeOK ==
  /\ slot \in Cards \cup {None} /\ authed \in BOOLEAN /\ primed \in BOOLEAN
  /\ known \in Cards \cup {None}
  /\ form \in {"unknown", "formatted", "noformat", "failed"}
  /\ info \in Layout
  /\ card \in [Cards -> [super : Layout \cup {None}, at : [Cluster -> Content]]]
  /\ dirty \subseteq [cluster : Cluster, holds : Content, used : Nat]
  /\ call.op \in {"none", "use", "format", "unformat"}
  /\ formats \in 0 .. MaxFormats /\ doubtful \subseteq Cards

(* New cards.                                                              *)
Init ==
  /\ slot \in Cards \cup {None} /\ authed = FALSE /\ primed = FALSE
  /\ known = None /\ form = "unknown" /\ info = NoLayout
  /\ card = [c \in Cards |-> [super |-> None, at |-> [i \in Cluster |-> Blank]]]
  /\ dirty = {} /\ call = Idle /\ formats = 0 /\ doubtful = {}
-----------------------------------------------------------------------------
(* Calls begin with mcio_mcDetect, that is Card_Probe.                     *)

At(step) == call.at = step
Go(step) == call' = [call EXCEPT !.at = step, !.i = 0]
Stay(n) == call' = [call EXCEPT !.i = n]
End == call' = Idle

Begin ==
  /\ call = Idle
  /\ \E op \in {"use", "format", "unformat"} :
       /\ op = "format" => formats < MaxFormats
       /\ call' = [op |-> op, at |-> "changed", i |-> 0]
  /\ UNCHANGED <<device, card, dirty, formats, doubtful>>

Same == UNCHANGED <<card, formats, doubtful>>

(* Any exchange with the card may fail, the answer alone may be lost.  The *)
(* device is then unknown and the cache cleared.                           *)
Probing == {"auth", "validate", "terminate", "info", "root"}

DetectFails_Keeps ==   (* a mutated form *)
  /\ call.at \in Probing /\ dirty' = {} /\ End
  /\ primed' \in {primed, primed \/ (authed /\ At("terminate"))}
  /\ UNCHANGED <<slot, authed, known, form, info>> /\ Same

DetectFails ==
  /\ call.at \in Probing
  /\ form' = "unknown" /\ dirty' = {} /\ End
  /\ primed' \in {primed, primed \/ (authed /\ At("terminate"))}
  /\ UNCHANGED <<slot, authed, known, info>> /\ Same

(* Card_Changed: the termination code says that the card is the same one.  *)
ProbeSame ==
  /\ At("changed") /\ primed /\ form # "unknown"
  /\ IF call.op = "use" /\ form = "noformat" THEN End ELSE Go("start")
  /\ UNCHANGED <<device, dirty>> /\ Same

ProbeKnown ==
  /\ At("changed") /\ primed /\ form = "unknown" /\ Go("validate")
  /\ UNCHANGED <<device, dirty>> /\ Same

(* Five failures look like another card.                                   *)
ProbeChanged ==
  /\ At("changed") /\ Go("auth") /\ UNCHANGED <<device, dirty>> /\ Same

(* CardAuth_Reset and Card_Authentificate                                  *)
Authenticate ==
  /\ At("auth") /\ slot # None /\ authed' = TRUE /\ Go("validate")
  /\ UNCHANGED <<slot, primed, known, form, info, dirty>> /\ Same

(* Card_Validate and Card_ClearCache                                       *)
Validate ==
  /\ At("validate") /\ authed /\ dirty' = {} /\ Go("terminate")
  /\ UNCHANGED device /\ Same

(* Card_SetTerminationCode; Card_SetDeviceInfo forgets what was known,     *)
(* reads the superblock ...                                                *)
Terminate ==
  /\ At("terminate") /\ authed /\ primed' = TRUE /\ form' = "unknown" /\ Go("info")
  /\ UNCHANGED <<slot, authed, known, info, dirty>> /\ Same

ReadSuper ==
  /\ At("info") /\ authed /\ known' = slot
  /\ IF card[slot].super = None
       THEN info' = NoLayout /\ form' = "noformat" /\ End
       ELSE info' = card[slot].super /\ form' = "unknown" /\ Go("root")
  /\ UNCHANGED <<slot, authed, primed, dirty>> /\ Same

(* ... and the root directory, from whatever formatting it is.  A card     *)
(* that is formatted is reported as another one.                           *)
HasRoot(c) ==
  card[c].super # None /\ card[c].at[card[c].super.alloc].kind = "root"

ReadRoot ==
  /\ At("root") /\ authed
  /\ form' = IF card[slot].at[info.alloc].kind = "root" THEN "formatted" ELSE "noformat"
  /\ End /\ UNCHANGED <<slot, authed, primed, known, info, dirty>> /\ Same
-----------------------------------------------------------------------------
(* What becomes of a block: erased, or written.  Block 0 has the           *)
(* superblock.                                                             *)

Wiped(b) ==
  card' = [card EXCEPT ![slot] =
    [super |-> IF b = 0 THEN None ELSE @.super,
     at |-> [i \in Cluster |-> IF BlockOf(i) = b THEN Blank ELSE @.at[i]]]]

Cleared(b) ==
  doubtful' = IF b = 0 THEN doubtful \ {slot} ELSE doubtful

(* Card_WriteCluster with a test of the block: it is bad (0), good (1), or *)
(* the card did not answer.                                                *)
Working == authed /\ slot # None

Tested(i, good) ==
  LET b == BlockOf(i)
  IN  IF b \in info.listed THEN good = FALSE /\ UNCHANGED <<card, doubtful>>
      ELSE Working /\ Wiped(b) /\ Cleared(b) /\ good = (b \notin Bad[slot])

(* The cluster used longest ago is the first to be written.                *)
Oldest(e) == e \in dirty /\ \A d \in dirty : e.used <= d.used

(* Any step may fail instead; the block it works on may be lost, the cache *)
(* stays as it is.                                                         *)
WorkingOn ==
  CASE call.at \in {"clear", "ifc", "fat"} -> {BlockOf(call.i)}
    [] call.at \in {"backup", "erase"} -> {call.i}
    [] call.at = "flush" -> {BlockOf(e.cluster) : e \in {d \in dirty : Oldest(d)}}
    [] OTHER -> {}

Failing == {"list", "clear", "ifc", "fat", "backup", "flush", "erase"}

StepFails ==
  /\ call.at \in Failing /\ End
  /\ \/ UNCHANGED <<card, doubtful>>
     \/ Working /\ \E b \in WorkingOn : b \in Block /\ Wiped(b) /\ Cleared(b)
  /\ UNCHANGED <<device, dirty, formats>>
-----------------------------------------------------------------------------
(* Card_Format                                                             *)

(* Of a card that was not formatted no bad blocks are known; one whose     *)
(* last formatting failed is searched for them.                            *)
FormatStart ==
  /\ At("start") /\ call.op = "format" /\ formats < MaxFormats
  /\ formats' = formats + 1
  /\ info' = [info EXCEPT !.by = formats + 1, !.fat = << >>,
                          !.listed = IF form = "noformat" THEN {} ELSE @]
  /\ form' = "failed"
  /\ IF form = "failed" THEN Go("list") ELSE Go("clear")
  /\ UNCHANGED <<slot, authed, primed, known, card, dirty, doubtful>>

(* Card_ReportBadBlocks                                                    *)
ListBad ==
  /\ At("list") /\ Working /\ info' = [info EXCEPT !.listed = Bad[slot]]
  /\ Go("clear")
  /\ UNCHANGED <<slot, authed, primed, known, form, card, dirty, formats, doubtful>>

(* The first clusters, with the superblock; none may be bad.               *)
Clear ==
  /\ At("clear")
  /\ \/ Tested(call.i, FALSE) /\ End
     \/ /\ Tested(call.i, TRUE)
        /\ call' = [call EXCEPT !.at = IF call.i + 1 = First THEN "ifc" ELSE @,
                                !.i = @ + 1]
  /\ UNCHANGED <<device, dirty, formats>>

(* The next cluster that is good takes the table of the FAT.  An error     *)
(* counts as good.                                                         *)
TakeIfc ==
  /\ info' = [info EXCEPT !.ifc = call.i]
  /\ call' = [call EXCEPT !.at = "fat", !.i = @ + 1]

FindIfc ==
  /\ At("ifc") /\ call.i \in Cluster
  /\ \/ Tested(call.i, FALSE) /\ Stay(call.i + 1) /\ UNCHANGED info
     \/ Tested(call.i, TRUE) /\ TakeIfc
     \/ BlockOf(call.i) \notin info.listed /\ TakeIfc /\ UNCHANGED <<card, doubtful>>
  /\ UNCHANGED <<slot, authed, primed, known, form, dirty, formats>>

(* ... and the next ones the FAT; the first behind it is for files.        *)
FindFat ==
  /\ At("fat") /\ call.i \in Cluster
  /\ \/ Tested(call.i, FALSE) /\ Stay(call.i + 1) /\ UNCHANGED info
     \/ /\ Tested(call.i, TRUE)
        /\ info' = [info EXCEPT !.fat = Append(@, call.i), !.alloc = call.i + 1,
                                !.backup1 = 0, !.backup2 = 0]
        /\ IF Len(info.fat) + 1 = Fats
             THEN call' = [call EXCEPT !.at = "backup", !.i = Blocks - 1]
             ELSE Stay(call.i + 1)
  /\ UNCHANGED <<slot, authed, primed, known, form, dirty, formats>>

NoRoom ==
  /\ \/ call.at \in {"ifc", "fat"} /\ call.i \notin Cluster
     \/ At("backup") /\ call.i = 0
  /\ End /\ UNCHANGED <<device, card, dirty, formats, doubtful>>

(* The backup blocks are the last two that are good.                       *)
FindBackup_EvenBad ==   (* a mutated form *)
  /\ At("backup") /\ call.i > 0
  /\ \/ /\ Tested(call.i * PerBlock, FALSE) /\ Stay(call.i - 1)
        /\ info' = IF info.backup1 = 0 THEN [info EXCEPT !.backup1 = call.i] ELSE info
     \/ /\ Tested(call.i * PerBlock, TRUE)
        /\ IF info.backup1 = 0
             THEN info' = [info EXCEPT !.backup1 = call.i] /\ Stay(call.i - 1)
             ELSE info' = [info EXCEPT !.backup2 = call.i] /\ Go("build")
  /\ UNCHANGED <<slot, authed, primed, known, form, dirty, formats>>

FindBackup ==
  /\ At("backup") /\ call.i > 0
  /\ \/ Tested(call.i * PerBlock, FALSE) /\ Stay(call.i - 1) /\ UNCHANGED info
     \/ /\ Tested(call.i * PerBlock, TRUE)
        /\ IF info.backup1 = 0
             THEN info' = [info EXCEPT !.backup1 = call.i] /\ Stay(call.i - 1)
             ELSE info' = [info EXCEPT !.backup2 = call.i] /\ Go("build")
  /\ UNCHANGED <<slot, authed, primed, known, form, dirty, formats>>

(* What is in the cache when the FAT, the superblock and the root          *)
(* directory are made, in the order of use: the table is used again for    *)
(* the last cluster of the FAT.  Older changes are still there.            *)
Entry(i, kind, k) ==
  [cluster |-> i, holds |-> [kind |-> kind, by |-> info.by],
   used |-> info.by * (Fats + 3) + k]

Made ==
  {Entry(info.fat[k], "fat", k) : k \in 1 .. Fats - 1}
    \cup {Entry(info.ifc, "ifc", Fats), Entry(info.fat[Fats], "fat", Fats + 1),
          Entry(0, "super", Fats + 2), Entry(info.alloc, "root", Fats + 3)}

Untouched(new) == {e \in dirty : \A n \in new : n.cluster # e.cluster}

Touched_NewestFirst(new) ==   (* a mutated form *)
  Untouched(new) \cup {[n EXCEPT !.used = -@] : n \in new}

Touched(new) == Untouched(new) \cup new

(* Fewer good clusters than a block has are not enough.                    *)
GoodIn(lo, hi) == {i \in lo .. hi : BlockOf(i) \notin info.listed}

Build ==
  /\ At("build")
  /\ IF Cardinality(GoodIn(info.alloc, info.backup2 * PerBlock - 1)) >= PerBlock
       THEN dirty' = Touched(Made) /\ Go("flush")
       ELSE End /\ UNCHANGED dirty
  /\ UNCHANGED <<device, card, formats, doubtful>>
-----------------------------------------------------------------------------
(* Card_FlushMCCache: the cluster used longest ago, with those of its      *)
(* block; a block that cannot be written is given up for clean.            *)

(* A cluster as the program has it, and what a block has with it written.  *)
Latest(i) ==
  IF \E e \in dirty : e.cluster = i
    THEN (CHOOSE e \in dirty : e.cluster = i).holds
    ELSE card[slot].at[i]

Contents(b) ==
  [i \in Cluster |-> IF BlockOf(i) = b THEN Latest(i) ELSE card[slot].at[i]]

Flush ==
  /\ At("flush") /\ Working
  /\ \E e \in dirty :
       LET b == BlockOf(e.cluster)
       IN  /\ Oldest(e)
           /\ dirty' = {d \in dirty : BlockOf(d.cluster) # b}
           /\ IF b \in Bad[slot]
                THEN Wiped(b) /\ Cleared(b) /\ End
                ELSE /\ card' = [card EXCEPT ![slot] =
                          [super |-> IF b = 0 THEN info ELSE @.super, at |-> Contents(b)]]
                     /\ UNCHANGED <<call, doubtful>>
  /\ UNCHANGED <<device, formats>>

FormatDone ==
  /\ At("flush") /\ dirty = {} /\ End
  /\ form' = IF call.op = "format" THEN "formatted" ELSE form
  /\ UNCHANGED <<slot, authed, primed, known, info, card, dirty, formats, doubtful>>
-----------------------------------------------------------------------------
(* Another call.  mcio_mcOpen and the others refuse a card for             *)
(* sceMcResNoFormat, but not for the -1 of a formatting that failed.       *)
UseStart ==
  /\ At("start") /\ call.op = "use" /\ Go("flush")
  /\ doubtful' = IF form = "failed" /\ Working THEN doubtful \cup {slot} ELSE doubtful
  /\ UNCHANGED <<device, card, dirty, formats>>

(* Card_Unformat: every block from the second on, then the first.          *)
UnformatStart ==
  /\ At("start") /\ call.op = "unformat"
  /\ call' = [call EXCEPT !.at = "erase", !.i = 1]
  /\ doubtful' = IF Working THEN doubtful \cup {slot} ELSE doubtful
  /\ UNCHANGED <<device, card, dirty, formats>>

Erase ==
  /\ At("erase") /\ Working /\ Wiped(call.i) /\ Cleared(call.i)
  /\ IF call.i = 0 THEN End ELSE Stay((call.i + 1) % Blocks)
  /\ UNCHANGED <<device, dirty, formats>>
-----------------------------------------------------------------------------
(* The card is pulled out or put in, or exchanged.  A card needs to be     *)
(* authenticated anew before it carries out anything.                      *)
Exchange ==
  /\ slot' \in (Cards \cup {None}) \ {slot}
  /\ authed' = FALSE /\ primed' = FALSE
  /\ UNCHANGED <<known, form, info, card, dirty, call, formats, doubtful>>

(* The program ends, in the middle of a call or not, and starts again.     *)
Restart ==
  /\ known' = None /\ form' = "unknown" /\ info' = NoLayout
  /\ dirty' = {} /\ call' = Idle
  /\ UNCHANGED <<slot, authed, primed, card, formats, doubtful>>

Next ==
  \/ Begin \/ DetectFails \/ ProbeSame \/ ProbeKnown \/ ProbeChanged
  \/ Authenticate \/ Validate \/ Terminate \/ ReadSuper \/ ReadRoot
  \/ StepFails \/ FormatStart \/ ListBad \/ Clear \/ FindIfc \/ FindFat
  \/ NoRoom \/ FindBackup \/ Build \/ Flush \/ FormatDone
  \/ UseStart \/ UnformatStart \/ Erase
  \/ Exchange \/ Restart

Spec == Init /\ [][Next]_vars
-----------------------------------------------------------------------------
(* A card that detection would take for formatted has everything of one    *)
(* file system, all from the same formatting: whenever Card_Format is cut, *)
(* fails or is repeated, the superblock is there only when the table, the  *)
(* FAT and the root directory are.  Not so when Card_Unformat is cut, or   *)
(* when other calls go on after a formatting that failed.                  *)
Whole(c) ==
  LET s == card[c].super
      has(i, kind) == card[c].at[i] = [kind |-> kind, by |-> s.by]
  IN  /\ has(s.ifc, "ifc") /\ has(s.alloc, "root")
      /\ \A k \in 1 .. Fats : has(s.fat[k], "fat")

FormattedMeansWhole ==
  \A c \in Cards \ doubtful : HasRoot(c) => Whole(c)

(* What the superblock names does not overlap, and none of it lies in a    *)
(* block that is worn; the backup blocks are two, behind all the rest.     *)
LayoutIsSound ==
  \A c \in Cards \ doubtful :
    LET s == card[c].super
        named == {s.ifc, s.alloc} \cup {s.fat[k] : k \in 1 .. Fats}
    IN  HasRoot(c) =>
          /\ Cardinality(named) = Fats + 2
          /\ \A i \in named : i >= First /\ BlockOf(i) \notin Bad[c]
          /\ \A i \in named : BlockOf(i) < s.backup2
          /\ s.backup2 < s.backup1 /\ {s.backup1, s.backup2} \cap Bad[c] = {}

(* A card that passes for the one that was there is the one mcio_devinfo   *)
(* describes, at whatever step of an earlier detection cards were          *)
(* exchanged: formatting never works with the layout of another card.      *)
RecognisedIsKnown ==
  primed /\ form # "unknown" => known = slot
=============================================================================
