---------------------------- MODULE BackupJournal ----------------------------
(***************************************************************************)
(* The write-back of one erase block of a PS2 memory card and its crash    *)
(* recovery: Card_FlushCacheEntry, Card_FillBackupBlock1,                  *)
(* Card_ReplaceBackupBlock and Card_CheckBackupBlocks of                   *)
(* AnthonyPS2/mcio.cpp.                                                    *)
(*                                                                         *)
(* A block can only be erased whole and then written page by page.  Before *)
(* the target block is erased its complete new content is copied into      *)
(* backup block 1, between two marker pages written into backup block 2    *)
(* that name the target.  When a card is detected, two markers mean "copy  *)
(* backup block 1 over the named block".                                   *)
(*                                                                         *)
(* Every step is one erase or page-write command.  Power cuts and the      *)
(* command failures of the set Faults may hit any of them; a step that     *)
(* does not complete may have done part of its work.                       *)
(***************************************************************************)
EXTENDS Integers, Sequences, FiniteSets

CONSTANTS
  DataBlocks,    (* blocks of the allocatable area                         *)
  RootBlock,     (* the block that holds the root directory                *)
  Backup1,       (* backup_block1 and backup_block2 of the superblock      *)
  Backup2,
  Spares,        (* blocks at the end of the area, in order of replacement *)
  BadListSlots,  (* free entries of bad_block_list (16 on an empty list)   *)
  PagesPerBlock, (* blocksize                                              *)
  Data,          (* contents of a written page                             *)
  Erased,        (* content of an erased page                              *)
  Bad,           (* a page whose ECC cannot be corrected                   *)
  NoBlock,       (* a negative error code stored as a block number, and 0  *)
  Replaced,      (* the value -1 of mcio_badblock                          *)
  Faults         (* commands that may fail: "error" (any code but          *)
                 (* FailReplace), "replace" (FailReplace), "recovery"      *)
                 (* (Card_ReadCluster during recovery)                     *)

Pages == 0 .. PagesPerBlock - 1
SpareBlocks == {Spares[i] : i \in DOMAIN Spares}
Blocks == DataBlocks \cup {Backup1, Backup2} \cup SpareBlocks
PageValues == Data \cup DataBlocks \cup {Erased, Bad}
Readable == Data \cup {Erased}
Contents == [Pages -> Readable]
RawContents == [Pages -> PageValues]

ASSUME JournalAssumption ==
  /\ PagesPerBlock \in Nat \ {0, 1}
  /\ Backup1 \notin DataBlocks /\ Backup2 \notin DataBlocks
  /\ Backup1 # Backup2
  /\ Spares \in Seq(SpareBlocks)
  /\ SpareBlocks \cap (DataBlocks \cup {Backup1, Backup2}) = {}
  /\ BadListSlots \in Nat
  /\ NoBlock \notin Blocks /\ Replaced \notin Blocks /\ NoBlock # Replaced
  /\ Data \cap Blocks = {}
  /\ Erased \notin Data \cup Blocks /\ Bad \notin Data \cup Blocks
  /\ Erased # Bad
  /\ Faults \subseteq {"error", "replace", "recovery"}

VARIABLES
  flash,         (* content of every page of every block                   *)
  bb1, bb2,      (* mcdi->backup_block1 and backup_block2, in memory       *)
  used,          (* spares taken: alloc_end and bad_block_list, in memory  *)
  badblock,      (* mcio_badblock: NoBlock (0), Replaced (-1) or a block   *)
  pc,            (* the command the program issues next                    *)
  job,           (* the rewrite or the recovery in progress                *)
  todo,          (* pages it has still to write                            *)
  result,        (* what the last flush returned                           *)
  loose          (* history: blocks in, or left by, a rewrite the journal  *)
                 (* does not protect                                       *)

device == <<bb1, bb2, used, badblock>>
vars == <<flash, device, pc, job, todo, result, loose>>

FlushSteps == {"eraseB1", "mark1", "copy", "mark2", "eraseT", "writeT",
               "eraseB2", "fillE2", "fillE1", "fillW"}
RecoverySteps == {"recErase", "recWrite", "recB2"}

Job == [block : Blocks \cup {NoBlock}, new : RawContents,
        dirty : SUBSET Pages, flag : BOOLEAN]

TypeOK ==
  /\ flash \in [Blocks -> RawContents]
  /\ bb1 \in Blocks \cup {NoBlock} /\ bb2 \in Blocks \cup {NoBlock}
  /\ used \in 0 .. Len(Spares)
  /\ badblock \in Blocks \cup {NoBlock, Replaced}
  /\ pc \in {"off", "check", "idle"} \cup FlushSteps \cup RecoverySteps
  /\ job \in Job
  /\ todo \in SUBSET Pages
  /\ result \in {"none", "succeed", "failed"}
  /\ loose \in SUBSET DataBlocks

Blank == [p \in Pages |-> Erased]

NoJob == [block |-> NoBlock, new |-> Blank, dirty |-> {}, flag |-> FALSE]

(* A formatted card whose backup blocks are erased, in no slot yet.  The   *)
(* spare blocks are ordinary free blocks: they keep what was deleted.      *)
Init ==
  /\ \E old \in [DataBlocks \cup SpareBlocks -> Contents] :
       flash = [b \in Blocks |->
                  IF b \in {Backup1, Backup2} THEN Blank ELSE old[b]]
  /\ bb1 = Backup1 /\ bb2 = Backup2 /\ used = 0 /\ badblock = NoBlock
  /\ pc = "off"
  /\ job = NoJob /\ todo = {} /\ result = "none" /\ loose = {}
-----------------------------------------------------------------------------
(* Commands                                                                *)

(* The block the pending erase command names.                              *)
Erasing(blk) ==
  \/ pc \in {"eraseB1", "fillE1"} /\ blk = bb1
  \/ pc \in {"eraseB2", "fillE2", "recB2"} /\ blk = bb2
  \/ pc \in {"eraseT", "recErase"} /\ blk = job.block

(* Pages are written in ascending order; the target of a flush gets the    *)
(* pages that are not dirty first.                                         *)
IsNext(p) ==
  LET clean == todo \ job.dirty
      batch == IF pc = "writeT" /\ clean # {} THEN clean ELSE todo
  IN  p \in batch /\ \A q \in batch : p <= q

(* The page the pending write command names, and its data.                 *)
Writing(blk, p, v) ==
  \/ pc = "mark1" /\ blk = bb2 /\ p = 0 /\ v = job.block
  \/ pc = "mark2" /\ blk = bb2 /\ p = 1 /\ v = job.block
  \/ pc \in {"copy", "fillW"} /\ blk = bb1 /\ IsNext(p) /\ v = job.new[p]
  \/ pc \in {"writeT", "recWrite"} /\ blk = job.block
     /\ IsNext(p) /\ v = job.new[p]

(* Programming can only clear bits: a page must be erased before it takes  *)
(* new data.                                                               *)
Programmed(old, v) == IF old \in {Erased, v} THEN v ELSE Bad

(* The command completes.                                                  *)
Erase(blk) ==
  /\ Erasing(blk) /\ blk \in Blocks
  /\ flash' = [flash EXCEPT ![blk] = Blank]

Write(blk, p, v) ==
  /\ Writing(blk, p, v) /\ blk \in Blocks
  /\ flash' = [flash EXCEPT ![blk] =
                 [@ EXCEPT ![p] = Programmed(flash[blk][p], v)]]

(* The command stops somewhere on its way.                                 *)
HalfErased(blk) ==
  {c \in RawContents :
     \A p \in Pages : c[p] \in {flash[blk][p], Erased, Bad}}

Interrupted ==
  \/ UNCHANGED flash
  \/ \E blk \in Blocks :
       /\ Erasing(blk)
       /\ \E c \in HalfErased(blk) : flash' = [flash EXCEPT ![blk] = c]
  \/ \E blk \in Blocks, p \in Pages, v \in PageValues :
       /\ Writing(blk, p, v)
       /\ \E x \in {Programmed(flash[blk][p], v), Bad} :
            flash' = [flash EXCEPT ![blk] = [@ EXCEPT ![p] = x]]

Go(step) == pc' = step
Return(r) == pc' = "idle" /\ result' = r

(* The locals of the function that ends go with it.                        *)
Forget == job' = NoJob /\ todo' = {}
-----------------------------------------------------------------------------
(* Card_FlushCacheEntry                                                    *)

(* The journal is not used while a block is redirected to backup block 1.  *)
Journalling == job.flag /\ badblock \notin Blocks

(* A restart looks for it in the blocks the superblock names.              *)
InPlace == bb1 = Backup1 /\ bb2 = Backup2
Protected == Journalling /\ InPlace

Exposed == loose \cup ({job.block} \cap DataBlocks)
Loosened == IF Protected THEN loose ELSE Exposed

(* A cached cluster carries the number of the block it was read from: that *)
(* of a redirected block is backup block 1 if it was read since.           *)
LabelsOf(b) == IF badblock = b THEN {b, bb1} ELSE {b}

(* The new content: what the dirty entries hold, completed by the pages    *)
(* of the card no dirty entry covers.                                      *)
NewContents(blk, dirty) ==
  {c \in Contents : /\ \A p \in Pages \ dirty : c[p] = flash[blk][p]
                    /\ \A p \in dirty : c[p] \in Data}

(* A flush that finds backup block 2 not erased - an earlier one failed -  *)
(* or replaced puts its target and the block named there at risk.          *)
Named(b) == flash[Backup2][0] = b /\ flash[Backup2][1] = b
JournalErased == flash[Backup2][0] = Erased /\ flash[Backup2][1] = Erased

AtRisk(blk) ==
  IF JournalErased /\ InPlace
    THEN loose
    ELSE loose \cup {b \in DataBlocks : b = blk \/ Named(b)}

(* flag tells whether one of the entries was read to be modified           *)
(* (rd_flag = 0); an entry whose old content does not matter has 1.        *)
BeginFlush(b) ==
  /\ pc = "idle"
  /\ \E blk \in LabelsOf(b) \cap Blocks, dirty \in SUBSET Pages \ {{}},
        flag \in BOOLEAN :
       \E new \in NewContents(blk, dirty) :
         /\ job' = [block |-> blk, new |-> new, dirty |-> dirty, flag |-> flag]
         /\ Go(IF flag /\ badblock \notin Blocks THEN "eraseB1" ELSE "eraseT")
         /\ todo' = Pages
         /\ result' = "none"
         /\ loose' = AtRisk(blk)
  /\ UNCHANGED <<flash, device>>

(* A page that no dirty entry covers cannot be read: -51.                  *)
BeginFlushUnreadable(b) ==
  /\ pc = "idle"
  /\ \E blk \in LabelsOf(b) \cap Blocks, p \in Pages :
       flash[blk][p] \notin Readable
  /\ Return("failed") /\ Forget
  /\ UNCHANGED <<flash, device, loose>>

EraseBackup1 ==
  /\ pc = "eraseB1" /\ Erase(bb1)
  /\ Go("mark1") /\ todo' = Pages
  /\ UNCHANGED <<device, job, result, loose>>

WriteMarker1_CopyLater ==   (* a mutated form *)
  /\ pc = "mark1" /\ Write(bb2, 0, job.block)
  /\ Go("mark2")
  /\ UNCHANGED <<device, job, todo, result, loose>>

WriteMarker1 ==
  /\ pc = "mark1" /\ Write(bb2, 0, job.block)
  /\ Go("copy")
  /\ UNCHANGED <<device, job, todo, result, loose>>

CopyPage(p) ==
  /\ pc = "copy" /\ Write(bb1, p, job.new[p])
  /\ todo' = todo \ {p}
  /\ Go(IF todo' = {} THEN "mark2" ELSE "copy")
  /\ UNCHANGED <<device, job, result, loose>>

(* The commit point: from here on a recovery installs the new content.     *)
WriteMarker2 ==
  /\ pc = "mark2" /\ Write(bb2, 1, job.block)
  /\ Go("eraseT")
  /\ loose' = IF InPlace /\ flash'[bb2][0] = job.block /\ flash'[bb2][1] = job.block
                THEN loose \ {job.block} ELSE loose
  /\ UNCHANGED <<device, job, todo, result>>

Settled == IF JournalErased THEN loose \ {job.block} ELSE loose

PagesToWrite_DirtyOnly == job.dirty   (* a mutated form *)
PagesToWrite == Pages

EraseTarget ==
  /\ pc = "eraseT" /\ Erase(job.block)
  /\ Go("writeT") /\ todo' = PagesToWrite
  /\ loose' = Loosened
  /\ UNCHANGED <<device, job, result>>

WriteTargetPage(p) ==
  /\ pc = "writeT" /\ Write(job.block, p, job.new[p])
  /\ todo' = todo \ {p}
  /\ CASE todo' # {}  -> Go("writeT") /\ UNCHANGED <<result, loose>>
       [] todo' = {} /\ Journalling
                      -> Go("eraseB2") /\ UNCHANGED <<result, loose>>
       [] OTHER       -> Return("succeed") /\ loose' = Settled
  /\ UNCHANGED <<device, job>>

EraseBackup2_Skipped ==   (* a mutated form *)
  /\ pc = "eraseB2"
  /\ Return("succeed")
  /\ loose' = loose \ {job.block}
  /\ UNCHANGED <<flash, device, job, todo>>

EraseBackup2 ==
  /\ pc = "eraseB2" /\ Erase(bb2)
  /\ Return("succeed")
  /\ loose' = IF JournalErased' THEN loose \ {job.block} ELSE loose
  /\ UNCHANGED <<device, job, todo>>
-----------------------------------------------------------------------------
(* Card_ReplaceBackupBlock: the next spare, or an error code where a block *)
(* number is expected.  Nothing of it is written to the superblock.        *)

CanReplace ==
  badblock \notin Blocks /\ used < BadListSlots /\ used < Len(Spares)

NewBackup == IF CanReplace THEN Spares[used + 1] ELSE NoBlock

TakeSpare_NotCounted ==   (* a mutated form *)
  /\ UNCHANGED used
  /\ badblock' = IF CanReplace THEN Replaced ELSE badblock
TakeSpare ==
  /\ used' = IF CanReplace THEN used + 1 ELSE used
  /\ badblock' = IF CanReplace THEN Replaced ELSE badblock

ReplaceBackup1 ==
  /\ pc \in {"eraseB1", "copy"}
  /\ bb1' = NewBackup /\ TakeSpare /\ UNCHANGED bb2
  /\ Go("eraseB1") /\ loose' = Exposed
  /\ UNCHANGED <<job, todo, result>>

ReplaceBackup2 ==
  /\ pc \in {"mark1", "mark2", "eraseB2"}
  /\ bb2' = NewBackup /\ TakeSpare /\ UNCHANGED bb1
  /\ Go("eraseB1") /\ loose' = Exposed
  /\ UNCHANGED <<job, todo, result>>

(* Card_FillBackupBlock1: the target is bad, backup block 1 stands in for  *)
(* it.  The flush reports a failure even when this succeeds.               *)

MayStandIn ==
  /\ badblock \in {NoBlock, job.block}
  /\ job.block # RootBlock

TargetBad ==
  /\ pc \in {"eraseT", "writeT"}
  /\ IF MayStandIn THEN Go("fillE2") /\ UNCHANGED <<job, todo, result>>
                   ELSE Return("failed") /\ Forget
  /\ loose' = Exposed
  /\ UNCHANGED device

FillEraseBackup2 ==
  /\ pc = "fillE2" /\ Erase(bb2)
  /\ Go("fillE1")
  /\ UNCHANGED <<device, job, todo, result, loose>>

FillEraseBackup1 ==
  /\ pc = "fillE1" /\ Erase(bb1)
  /\ IF used < BadListSlots
       THEN Go("fillW") /\ todo' = Pages /\ UNCHANGED <<job, result>>
       ELSE Return("failed") /\ Forget
  /\ UNCHANGED <<device, loose>>

FillPage(p) ==
  /\ pc = "fillW" /\ Write(bb1, p, job.new[p])
  /\ IF todo = {p}
       THEN Return("failed") /\ Forget /\ badblock' = job.block
       ELSE Go("fillW") /\ todo' = todo \ {p} /\ UNCHANGED <<job, result, badblock>>
  /\ UNCHANGED <<bb1, bb2, used, loose>>
-----------------------------------------------------------------------------
(* Card_SetDeviceInfo and Card_CheckBackupBlocks: a card is detected.      *)

(* The superblock is read again; mcio_badblock keeps its value.            *)
Connect ==
  /\ pc = "off"
  /\ bb1' = Backup1 /\ bb2' = Backup2 /\ used' = 0
  /\ Go("check") /\ result' = "none"
  /\ UNCHANGED <<flash, badblock, job, todo, loose>>

Marker(i) == flash[bb2][i]

(* Only the first marker: the copy was not finished.                       *)
OneMarkerOnly_Ignored == FALSE   (* a mutated form *)
OneMarkerOnly_AnyMarker == Marker(0) # Erased   (* a mutated form *)
OneMarkerOnly == Marker(0) # Erased /\ Marker(1) = Erased

(* A marker page that cannot be read, for whatever reason, has the same    *)
(* effect: the copy is not trusted.                                        *)
DropCopy ==
  \/ OneMarkerOnly
  \/ Bad \in {Marker(0), Marker(1)}
  \/ "recovery" \in Faults

(* A page that is read wrongly puts the block that is named at risk.       *)
Doubted ==
  IF "recovery" \in Faults THEN loose \cup {b \in DataBlocks : Named(b)}
                           ELSE loose

CheckNothingToDo ==
  /\ pc = "check" /\ Marker(0) = Erased /\ Marker(1) = Erased
  /\ Go("idle")
  /\ UNCHANGED <<flash, device, job, todo, result, loose>>

CheckDrop ==
  /\ pc = "check" /\ DropCopy
  /\ Go("recB2") /\ loose' = Doubted
  /\ UNCHANGED <<flash, device, job, todo, result>>

(* What Card_ReadCluster leaves in the cache entries of backup block 1:    *)
(* its result is not looked at, so a page that cannot be read is whatever  *)
(* the entry held.                                                         *)
CopyAsRead ==
  {c \in Contents :
     \A p \in Pages :
       \/ c[p] = flash[bb1][p]
       \/ flash[bb1][p] \notin Readable
       \/ "recovery" \in Faults}

(* The first marker names the block; an erased one reads as block -1.      *)
MarkedBlock == IF Marker(0) = Erased THEN NoBlock ELSE Marker(0)

CheckRestore ==
  /\ pc = "check"
  /\ Bad \notin {Marker(0), Marker(1)} /\ ~OneMarkerOnly
  /\ ~(Marker(0) = Erased /\ Marker(1) = Erased)
  /\ \E c \in CopyAsRead :
       job' = [block |-> MarkedBlock, new |-> c, dirty |-> {}, flag |-> TRUE]
  /\ Go("recErase") /\ todo' = Pages /\ loose' = Doubted
  /\ UNCHANGED <<flash, device, result>>

RecoverEraseTarget ==
  /\ pc = "recErase" /\ Erase(job.block)
  /\ Go("recWrite")
  /\ UNCHANGED <<device, job, todo, result, loose>>

RecoverPage(p) ==
  /\ pc = "recWrite" /\ Write(job.block, p, job.new[p])
  /\ todo' = todo \ {p}
  /\ Go(IF todo' = {} THEN "recB2" ELSE "recWrite")
  /\ UNCHANGED <<device, job, result, loose>>

RecoverEraseBackup2 ==
  /\ pc = "recB2" /\ Erase(bb2)
  /\ Go("idle") /\ Forget
  /\ UNCHANGED <<device, result, loose>>
-----------------------------------------------------------------------------
(* Failures                                                                *)

Refused ==
  \/ Erasing(NoBlock)
  \/ \E p \in Pages, v \in PageValues : Writing(NoBlock, p, v)

(* The card answers nothing, or an error: -5x, and the session goes on; a  *)
(* failed detection leaves no card.  A block number that is no block is    *)
(* always refused.                                                         *)
CommandFails ==
  /\ pc \in FlushSteps \cup RecoverySteps
  /\ \/ "error" \in Faults /\ Interrupted
     \/ Refused /\ UNCHANGED flash
  /\ IF pc \in FlushSteps THEN Return("failed")
                          ELSE Go("off") /\ UNCHANGED result
  /\ loose' = IF pc = "eraseT" THEN Loosened ELSE loose
  /\ Forget
  /\ UNCHANGED device

(* The card reports that the block is worn out.                            *)
CommandFailReplace ==
  /\ "replace" \in Faults /\ ~Refused
  /\ Interrupted
  /\ \/ ReplaceBackup1
     \/ ReplaceBackup2
     \/ TargetBad
     \/ /\ pc \in {"fillE2", "fillE1", "fillW"} /\ Return("failed") /\ Forget
        /\ UNCHANGED <<device, loose>>
     \/ /\ pc \in RecoverySteps /\ Go("off") /\ Forget
        /\ UNCHANGED <<device, result, loose>>

(* The card is pulled out or loses power in the middle of anything, with   *)
(* or without the end of the program, whose memory starts afresh.          *)
PowerCut ==
  /\ pc # "off"
  /\ Interrupted
  /\ Go("off") /\ result' = "none"
  /\ badblock' \in {badblock, NoBlock}
  /\ loose' = IF pc = "eraseT" THEN Loosened ELSE loose
  /\ Forget
  /\ UNCHANGED <<bb1, bb2, used>>
-----------------------------------------------------------------------------
FlushStep ==
  \/ EraseBackup1 \/ WriteMarker1 \/ WriteMarker2
  \/ EraseTarget \/ EraseBackup2 \/ FillEraseBackup2 \/ FillEraseBackup1
  \/ \E p \in Pages : CopyPage(p) \/ WriteTargetPage(p) \/ FillPage(p)

RecoveryStep ==
  \/ Connect \/ CheckNothingToDo \/ CheckDrop \/ CheckRestore
  \/ RecoverEraseTarget \/ RecoverEraseBackup2
  \/ \E p \in Pages : RecoverPage(p)

HostStep == FlushStep \/ RecoveryStep \/ CommandFails \/ CommandFailReplace

ProgramStep ==
  \/ \E b \in DataBlocks : BeginFlush(b) \/ BeginFlushUnreadable(b)
  \/ HostStep

Next == ProgramStep \/ PowerCut

Spec == Init /\ [][Next]_vars

-----------------------------------------------------------------------------
(* The abstract block store                                                *)

Logical(b) == IF Named(b) THEN flash[Backup1] ELSE flash[b]

Store == INSTANCE AtomicBlocks
           WITH content <- [b \in DataBlocks |-> Logical(b)]

(* Seen through the recovery, a journalled flush replaces the content of   *)
(* one block in one step and touches no other, power cuts during flushes   *)
(* and recoveries included.  When commands fail, the blocks that can be    *)
(* lost are those AtRisk names and no others.                              *)
WritesAreAtomic == Store!Spec

(* A flush that returned success left exactly the content it was asked to  *)
(* write in the block it was asked to write, whatever failed on the way.   *)
SuccessMeansStored ==
  result = "succeed" => flash[job.block] = job.new

(* ... and a restart at any later time finds it there.                     *)
SuccessMeansDurable ==
  result = "succeed" => Logical(job.block) = job.new

(* While the two markers name a block the copy in backup block 1 is what   *)
(* a restart installs there ("backup block2 is not erased, so programming  *)
(* is assumed to have not been completed", mcio.cpp:2413): nobody touches  *)
(* it.                                                                     *)
CopyKeptWhileNamed ==
  [][\A b \in DataBlocks :
       Named(b) /\ Named(b)' => flash'[Backup1] = flash[Backup1]]_vars

(* A detection erases backup block 2 only when every block it names has    *)
(* the content of backup block 1 ("reads content of backup block1",        *)
(* mcio.cpp:2414).                                                         *)
DetectionRestores ==
  [][pc = "recB2" /\ pc' = "idle" =>
       \A b \in DataBlocks : Named(b) => flash[b] = flash[Backup1]]_vars

(* "This block should be erased to all ones" (mcio.cpp:65): between        *)
(* flushes the marker pages are erased, so the next flush starts a journal *)
(* that no older marker can end.                                           *)
JournalErasedWhenIdle == pc = "idle" => JournalErased

(* While the target is rewritten, the copy a restart would look for - in   *)
(* the backup blocks the superblock names - is the new content.            *)
RestartFindsCopy ==
  pc \in {"eraseT", "writeT"} /\ Journalling =>
    Named(job.block) /\ flash[Backup1] = job.new

(* A flush ends, even when every block of the card wears out: each turn of *)
(* the goto loop uses up a spare, or leaves a backup block that is no      *)
(* block, whose next command is refused and ends the flush.                *)
Gone(blk) == IF blk = NoBlock THEN 1 ELSE 0
Consumed == used + Gone(bb1) + Gone(bb2)
Turn == pc \in FlushSteps /\ pc' = "eraseB1"

ReplacementEnds ==
  [][Turn => Consumed' > Consumed /\ used' <= BadListSlots /\ used' <= Len(Spares)]_vars
=============================================================================
