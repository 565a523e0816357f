------------------------- MODULE BackupJournalProofs -------------------------
(***************************************************************************)
(* Proofs about BackupJournal, for any number of blocks and pages.  The    *)
(* first part is about a card whose commands do not fail (Faults = {}):    *)
(* only power cuts happen, at any moment.  The second part, from the       *)
(* module's second comment of this kind on, allows any set of faults.      *)
(***************************************************************************)
EXTENDS BackupJournal, TLAPS

(* No command ever failed: the backup blocks are those of the superblock   *)
(* and no block is redirected.                                             *)
Nominal ==
  /\ bb1 = Backup1 /\ bb2 = Backup2 /\ badblock = NoBlock
  /\ pc \notin {"fillE2", "fillE1", "fillW"}

(* What the rewrite or the recovery in progress may be.                    *)
JobOK ==
  /\ pc \in FlushSteps => job.block \in DataBlocks /\ job.new \in Contents
  /\ pc \in {"eraseB1", "mark1", "copy", "mark2", "eraseB2"} => job.flag
  /\ pc \in {"recErase", "recWrite"} =>
       /\ job.block \in DataBlocks \cup {NoBlock}
       /\ job.new \in Contents

(* The markers a restart may find: never those of two different blocks,    *)
(* and never two of them beside a copy that cannot be read.                *)
MarkersOK ==
  /\ \A p \in Pages : flash[Backup2][p] \in DataBlocks \cup {Erased, Bad}
  /\ flash[Backup2][0] \in DataBlocks /\ flash[Backup2][1] \in DataBlocks =>
       flash[Backup2][0] = flash[Backup2][1]
  /\ flash[Backup2][0] \in DataBlocks /\ flash[Backup2][1] \in DataBlocks =>
       flash[Backup1] \in Contents

Filled(blk) ==
  \A p \in Pages : flash[blk][p] = IF p \in todo THEN Erased ELSE job.new[p]

(* The journal at each step of a flush.                                    *)
FlushOK ==
  /\ pc \in {"idle", "eraseB1", "mark1"} => JournalErased
  /\ pc = "mark1" => flash[Backup1] = Blank /\ todo = Pages
  /\ pc = "copy" => /\ flash[Backup2][0] = job.block
                    /\ flash[Backup2][1] = Erased
                    /\ Filled(Backup1)
  /\ pc = "mark2" => /\ flash[Backup2][0] = job.block
                     /\ flash[Backup2][1] = Erased
                     /\ flash[Backup1] = job.new
  /\ pc \in {"eraseT", "writeT", "eraseB2"} /\ job.flag =>
       Named(job.block) /\ flash[Backup1] = job.new
  /\ pc \in {"eraseT", "writeT"} /\ ~job.flag => JournalErased
  /\ pc = "writeT" => Filled(job.block)
  /\ pc = "eraseB2" => flash[job.block] = job.new
  /\ pc = "writeT" /\ ~job.flag => job.block \in loose

(* ... and at each step of a recovery.                                     *)
RecoveryOK ==
  /\ pc \in {"recErase", "recWrite"} /\ job.block # NoBlock =>
       Named(job.block) /\ flash[Backup1] = job.new
  /\ pc = "recErase" => todo = Pages
  /\ pc = "recWrite" => job.block # NoBlock /\ Filled(job.block)
  /\ pc = "recB2" =>
       \A b \in DataBlocks : Named(b) => flash[b] = flash[Backup1]

ResultOK ==
  result = "succeed" =>
    /\ pc = "idle" /\ job.block \in DataBlocks
    /\ flash[job.block] = job.new

Inv == TypeOK /\ Nominal /\ JobOK /\ MarkersOK /\ FlushOK /\ RecoveryOK /\ ResultOK
-----------------------------------------------------------------------------
(* Facts about the commands                                                *)

(* The constants that name blocks and page contents are apart.             *)
LEMMA ConstantFacts ==
  /\ 0 \in Pages /\ 1 \in Pages
  /\ Backup1 \in Blocks /\ Backup2 \in Blocks /\ Backup1 # Backup2
  /\ DataBlocks \subseteq Blocks
  /\ Backup1 \notin DataBlocks /\ Backup2 \notin DataBlocks
  /\ NoBlock \notin Blocks /\ Replaced \notin Blocks /\ NoBlock # Replaced
  /\ Erased \notin DataBlocks /\ Bad \notin DataBlocks /\ Erased # Bad
  /\ Bad \notin Readable /\ Erased \in Readable
  /\ Readable \subseteq PageValues /\ DataBlocks \subseteq PageValues
  /\ Erased \in PageValues /\ Bad \in PageValues
  /\ Blank \in Contents /\ Contents \subseteq RawContents
BY JournalAssumption, SMT DEF JournalAssumption, Pages, Blocks, Readable,
   PageValues, Blank, Contents, RawContents

(* What a completed erase does to the card.                                *)
LEMMA EraseEffect ==
  ASSUME TypeOK, NEW blk, Erase(blk)
  PROVE  /\ blk \in Blocks
         /\ flash' \in [Blocks -> RawContents]
         /\ flash'[blk] = Blank
         /\ \A c \in Blocks : c # blk => flash'[c] = flash[c]
BY ConstantFacts DEF Erase, TypeOK

(* What a completed page write does to the card.                           *)
LEMMA WriteEffect ==
  ASSUME TypeOK, NEW blk, NEW p \in Pages, NEW v \in PageValues,
         Write(blk, p, v)
  PROVE  /\ blk \in Blocks
         /\ flash' \in [Blocks -> RawContents]
         /\ flash'[blk][p] = Programmed(flash[blk][p], v)
         /\ \A q \in Pages : q # p => flash'[blk][q] = flash[blk][q]
         /\ \A c \in Blocks : c # blk => flash'[c] = flash[c]
<1>1. blk \in Blocks /\ flash \in [Blocks -> RawContents]
  BY DEF Write, TypeOK
<1>2. flash[blk] \in [Pages -> PageValues]
  BY <1>1 DEF RawContents
<1>3. Programmed(flash[blk][p], v) \in PageValues
  BY ConstantFacts DEF Programmed
<1>4. [flash[blk] EXCEPT ![p] = Programmed(flash[blk][p], v)] \in RawContents
  BY <1>2, <1>3 DEF RawContents
<1>5. flash' = [flash EXCEPT ![blk] =
                  [flash[blk] EXCEPT ![p] = Programmed(flash[blk][p], v)]]
  BY <1>1 DEF Write
<1> QED
  BY <1>1, <1>2, <1>4, <1>5

(* A block whose pages all hold what they should has the whole content.    *)
LEMMA Complete ==
  ASSUME NEW c \in RawContents, NEW d \in Contents,
         \A p \in Pages : c[p] = d[p]
  PROVE  c = d
BY DEF RawContents, Contents
-----------------------------------------------------------------------------
(* Each action preserves the invariant                                     *)

LEMMA EraseBackup1Inv == Inv /\ EraseBackup1 => Inv'
<1> SUFFICES ASSUME Inv, EraseBackup1 PROVE Inv'
  OBVIOUS
<1>1. /\ flash' \in [Blocks -> RawContents]
      /\ flash'[Backup1] = Blank
      /\ \A c \in Blocks : c # Backup1 => flash'[c] = flash[c]
  BY EraseEffect DEF EraseBackup1, Inv, Nominal
<1>2. TypeOK' /\ Nominal' /\ JobOK' /\ ResultOK'
  BY <1>1, ConstantFacts
  DEF EraseBackup1, Inv, TypeOK, Nominal, JobOK, ResultOK, Go, device, FlushSteps
<1>3. MarkersOK'
  BY <1>1, ConstantFacts
  DEF EraseBackup1, Inv, MarkersOK, FlushOK, JournalErased
<1>4. FlushOK' /\ RecoveryOK'
  BY <1>1, ConstantFacts
  DEF EraseBackup1, Inv, FlushOK, RecoveryOK, JournalErased, Go
<1> QED
  BY <1>2, <1>3, <1>4 DEF Inv

LEMMA WriteMarker1Inv == Inv /\ WriteMarker1 => Inv'
<1> SUFFICES ASSUME Inv, WriteMarker1 PROVE Inv'
  OBVIOUS
<1>0. job.block \in DataBlocks /\ job.block \in PageValues /\ job.flag
  BY ConstantFacts DEF WriteMarker1, Inv, JobOK, FlushSteps
<1>1. /\ flash' \in [Blocks -> RawContents]
      /\ flash'[Backup2][0] = Programmed(flash[Backup2][0], job.block)
      /\ \A q \in Pages : q # 0 => flash'[Backup2][q] = flash[Backup2][q]
      /\ \A c \in Blocks : c # Backup2 => flash'[c] = flash[c]
  BY WriteEffect, ConstantFacts, <1>0 DEF WriteMarker1, Inv, Nominal
<1>2. flash'[Backup2][0] = job.block /\ flash'[Backup2][1] = Erased
  BY <1>1, ConstantFacts
  DEF WriteMarker1, Inv, FlushOK, JournalErased, Programmed
<1>3. TypeOK' /\ Nominal' /\ JobOK' /\ ResultOK'
  BY <1>1, ConstantFacts
  DEF WriteMarker1, Inv, TypeOK, Nominal, JobOK, ResultOK, Go, device,
      FlushSteps
<1>4. MarkersOK'
  BY <1>0, <1>1, <1>2, ConstantFacts DEF Inv, MarkersOK
<1>5. \A p \in Pages : flash'[Backup1][p] = Erased
  BY <1>1, ConstantFacts DEF WriteMarker1, Inv, FlushOK, Blank
<1>6. FlushOK' /\ RecoveryOK'
  BY <1>1, <1>2, <1>5, ConstantFacts
  DEF WriteMarker1, Inv, FlushOK, RecoveryOK, Go, Filled
<1> QED
  BY <1>3, <1>4, <1>6 DEF Inv

LEMMA CopyPageInv == \A p \in Pages : Inv /\ CopyPage(p) => Inv'
<1> SUFFICES ASSUME NEW p \in Pages, Inv, CopyPage(p) PROVE Inv'
  OBVIOUS
<1>0. /\ job.block \in DataBlocks /\ job.flag
      /\ job.new \in Contents /\ job.new[p] \in PageValues
      /\ p \in todo
  BY ConstantFacts
  DEF CopyPage, Inv, JobOK, FlushSteps, Contents, Write, Writing, IsNext,
      Nominal
<1>1. /\ flash' \in [Blocks -> RawContents]
      /\ flash'[Backup1][p] = Programmed(flash[Backup1][p], job.new[p])
      /\ \A q \in Pages : q # p => flash'[Backup1][q] = flash[Backup1][q]
      /\ \A c \in Blocks : c # Backup1 => flash'[c] = flash[c]
  BY WriteEffect, <1>0 DEF CopyPage, Inv, Nominal
<1>2. \A q \in Pages :
        flash'[Backup1][q] = IF q \in todo' THEN Erased ELSE job.new[q]
  BY <1>0, <1>1 DEF CopyPage, Inv, FlushOK, Filled, Programmed
<1>3. todo' = {} => flash'[Backup1] = job.new
  <2>1. flash'[Backup1] \in RawContents
    BY <1>1, ConstantFacts
  <2> QED
    BY <2>1, <1>0, <1>2, Complete
<1>4. TypeOK' /\ Nominal' /\ JobOK' /\ ResultOK'
  BY <1>0, <1>1, ConstantFacts
  DEF CopyPage, Inv, TypeOK, Nominal, JobOK, ResultOK, Go, device, FlushSteps
<1>5. MarkersOK'
  BY <1>1, ConstantFacts DEF CopyPage, Inv, MarkersOK, FlushOK
<1>6. FlushOK' /\ RecoveryOK'
  BY <1>1, <1>2, <1>3, ConstantFacts
  DEF CopyPage, Inv, FlushOK, RecoveryOK, Go, Filled
<1> QED
  BY <1>4, <1>5, <1>6 DEF Inv

LEMMA WriteMarker2Inv == Inv /\ WriteMarker2 => Inv'
<1> SUFFICES ASSUME Inv, WriteMarker2 PROVE Inv'
  OBVIOUS
<1>0. job.block \in DataBlocks /\ job.block \in PageValues /\ job.flag
      /\ job.new \in Contents
  BY ConstantFacts DEF WriteMarker2, Inv, JobOK, FlushSteps
<1>1. /\ flash' \in [Blocks -> RawContents]
      /\ flash'[Backup2][1] = Programmed(flash[Backup2][1], job.block)
      /\ \A q \in Pages : q # 1 => flash'[Backup2][q] = flash[Backup2][q]
      /\ \A c \in Blocks : c # Backup2 => flash'[c] = flash[c]
  BY WriteEffect, ConstantFacts, <1>0 DEF WriteMarker2, Inv, Nominal
<1>2. flash'[Backup2][0] = job.block /\ flash'[Backup2][1] = job.block
  BY <1>1, ConstantFacts DEF WriteMarker2, Inv, FlushOK, Programmed
<1>3. TypeOK' /\ Nominal' /\ JobOK' /\ ResultOK'
  BY <1>1, ConstantFacts
  DEF WriteMarker2, Inv, TypeOK, Nominal, JobOK, ResultOK, Go, device,
      FlushSteps
<1>4. MarkersOK' /\ FlushOK' /\ RecoveryOK'
  BY <1>0, <1>1, <1>2, ConstantFacts
  DEF WriteMarker2, Inv, MarkersOK, FlushOK, RecoveryOK, Go, Named
<1> QED
  BY <1>3, <1>4 DEF Inv

(* While no backup block is replaced only the flag decides.                *)
LEMMA LoosenedByFlag ==
  ASSUME Inv
  PROVE  /\ InPlace
         /\ Loosened = IF job.flag THEN loose
                       ELSE loose \cup ({job.block} \cap DataBlocks)
BY ConstantFacts
DEF Inv, Nominal, InPlace, Loosened, Protected, Journalling, Exposed

LEMMA EraseTargetInv == Inv /\ EraseTarget => Inv'
<1> SUFFICES ASSUME Inv, EraseTarget PROVE Inv'
  OBVIOUS
<1>0. job.block \in DataBlocks /\ job.new \in Contents
  BY DEF EraseTarget, Inv, JobOK, FlushSteps
<1>1. /\ flash' \in [Blocks -> RawContents]
      /\ flash'[job.block] = Blank
      /\ \A c \in Blocks : c # job.block => flash'[c] = flash[c]
  BY EraseEffect DEF EraseTarget, Inv
<1>2. flash'[Backup1] = flash[Backup1] /\ flash'[Backup2] = flash[Backup2]
  BY <1>0, <1>1, ConstantFacts
<1>3. ~job.flag => job.block \in loose'
  BY <1>0, LoosenedByFlag DEF EraseTarget
<1>4. TypeOK' /\ Nominal' /\ JobOK' /\ ResultOK'
  BY <1>0, <1>1, ConstantFacts, LoosenedByFlag
  DEF EraseTarget, Inv, TypeOK, Nominal, JobOK, ResultOK, Go, device,
      FlushSteps, PagesToWrite
<1>5. MarkersOK'
  BY <1>2 DEF Inv, MarkersOK
<1>6. FlushOK' /\ RecoveryOK'
  BY <1>1, <1>2, <1>3, ConstantFacts
  DEF EraseTarget, Inv, FlushOK, RecoveryOK, Go, Filled, PagesToWrite,
      Blank, Named, JournalErased
<1> QED
  BY <1>4, <1>5, <1>6 DEF Inv

LEMMA WriteTargetPageInv == \A p \in Pages : Inv /\ WriteTargetPage(p) => Inv'
<1> SUFFICES ASSUME NEW p \in Pages, Inv, WriteTargetPage(p) PROVE Inv'
  OBVIOUS
<1>0. /\ job.block \in DataBlocks
      /\ job.new \in Contents /\ job.new[p] \in PageValues
      /\ p \in todo
  BY ConstantFacts
  DEF WriteTargetPage, Inv, JobOK, FlushSteps, Contents, Write, Writing,
      IsNext, Nominal
<1>1. /\ flash' \in [Blocks -> RawContents]
      /\ flash'[job.block][p] = Programmed(flash[job.block][p], job.new[p])
      /\ \A q \in Pages : q # p => flash'[job.block][q] = flash[job.block][q]
      /\ \A c \in Blocks : c # job.block => flash'[c] = flash[c]
  BY WriteEffect, <1>0 DEF WriteTargetPage, Inv
<1>2. flash'[Backup1] = flash[Backup1] /\ flash'[Backup2] = flash[Backup2]
  BY <1>0, <1>1, ConstantFacts
<1>3. \A q \in Pages :
        flash'[job.block][q] = IF q \in todo' THEN Erased ELSE job.new[q]
  BY <1>0, <1>1 DEF WriteTargetPage, Inv, FlushOK, Filled, Programmed
<1>4. todo' = {} => flash'[job.block] = job.new
  <2>1. flash'[job.block] \in RawContents
    BY <1>0, <1>1, ConstantFacts
  <2> QED
    BY <2>1, <1>0, <1>3, Complete
<1>5. Journalling <=> job.flag
  BY ConstantFacts DEF Inv, Nominal, Journalling
<1>6. loose' \in SUBSET DataBlocks
  BY DEF WriteTargetPage, Inv, TypeOK, Settled
<1>7. TypeOK' /\ Nominal' /\ JobOK' /\ ResultOK'
  BY <1>0, <1>1, <1>4, <1>5, <1>6
  DEF WriteTargetPage, Inv, TypeOK, Nominal, JobOK, ResultOK, Go, Return,
      device, FlushSteps
<1>8. MarkersOK'
  BY <1>2 DEF Inv, MarkersOK
<1>9. FlushOK' /\ RecoveryOK'
  BY <1>2, <1>3, <1>4, <1>5
  DEF WriteTargetPage, Inv, FlushOK, RecoveryOK, Go, Return, Filled, Named,
      JournalErased
<1> QED
  BY <1>7, <1>8, <1>9 DEF Inv

LEMMA EraseBackup2Inv == Inv /\ EraseBackup2 => Inv'
<1> SUFFICES ASSUME Inv, EraseBackup2 PROVE Inv'
  OBVIOUS
<1>0. job.block \in DataBlocks /\ job.new \in Contents
  BY DEF EraseBackup2, Inv, JobOK, FlushSteps
<1>1. /\ flash' \in [Blocks -> RawContents]
      /\ flash'[Backup2] = Blank
      /\ \A c \in Blocks : c # Backup2 => flash'[c] = flash[c]
  BY EraseEffect DEF EraseBackup2, Inv, Nominal
<1>2. TypeOK' /\ Nominal' /\ JobOK' /\ ResultOK'
  BY <1>0, <1>1, ConstantFacts
  DEF EraseBackup2, Inv, TypeOK, Nominal, JobOK, FlushOK, ResultOK, Return,
      device, FlushSteps
<1>3. MarkersOK' /\ FlushOK' /\ RecoveryOK'
  BY <1>1, ConstantFacts
  DEF EraseBackup2, Inv, MarkersOK, FlushOK, RecoveryOK, Return, Blank,
      JournalErased
<1> QED
  BY <1>2, <1>3 DEF Inv

LEMMA BeginInv ==
  \A b \in DataBlocks :
    Inv /\ (BeginFlush(b) \/ BeginFlushUnreadable(b)) => Inv'
<1> SUFFICES ASSUME NEW b \in DataBlocks, Inv PROVE
      /\ BeginFlush(b) => Inv'
      /\ BeginFlushUnreadable(b) => Inv'
  OBVIOUS
<1>1. CASE BeginFlush(b)
  <2>0. LabelsOf(b) = {b} /\ b \in Blocks
    BY ConstantFacts DEF Inv, Nominal, LabelsOf
  <2>1. PICK dirty \in SUBSET Pages, flag \in BOOLEAN, new \in Contents :
          /\ job' = [block |-> b, new |-> new, dirty |-> dirty, flag |-> flag]
          /\ Go(IF flag /\ badblock \notin Blocks THEN "eraseB1" ELSE "eraseT")
    BY <1>1, <2>0 DEF BeginFlush, NewContents
  <2>2. /\ job'.block = b /\ job'.new \in Contents /\ job'.flag = flag
        /\ pc' = IF flag THEN "eraseB1" ELSE "eraseT"
        /\ job' \in Job /\ UNCHANGED <<flash, device>>
        /\ todo' = Pages /\ result' = "none" /\ loose' \in SUBSET DataBlocks
    BY <1>1, <2>0, <2>1, ConstantFacts
    DEF BeginFlush, Inv, Nominal, TypeOK, AtRisk, Go, Job
  <2>3. pc = "idle" /\ JournalErased
    BY <1>1 DEF BeginFlush, Inv, FlushOK
  <2>4. TypeOK' /\ Nominal' /\ JobOK' /\ MarkersOK' /\ ResultOK'
    BY <2>2 DEF Inv, TypeOK, Nominal, JobOK, MarkersOK, ResultOK, device,
       FlushSteps
  <2>5. FlushOK' /\ RecoveryOK'
    BY <2>2, <2>3 DEF FlushOK, RecoveryOK, JournalErased
  <2> QED
    BY <2>4, <2>5 DEF Inv
<1>2. CASE BeginFlushUnreadable(b)
  <2>1. NoJob \in Job
    BY ConstantFacts DEF NoJob, Job
  <2> QED
    BY <1>2, <2>1
    DEF BeginFlushUnreadable, Return, Forget, device, Inv, TypeOK, Nominal,
        JobOK, MarkersOK, FlushOK, RecoveryOK, ResultOK, JournalErased,
        FlushSteps
<1> QED
  BY <1>1, <1>2

LEMMA ConnectInv == Inv /\ Connect => Inv'
BY ConstantFacts
DEF Connect, Go, Inv, TypeOK, Nominal, JobOK, MarkersOK, FlushOK, RecoveryOK,
    ResultOK, FlushSteps

LEMMA CheckInv ==
  ASSUME Faults = {}
  PROVE  Inv /\ (CheckNothingToDo \/ CheckDrop \/ CheckRestore) => Inv'
<1> SUFFICES ASSUME Inv PROVE /\ CheckNothingToDo => Inv'
                              /\ CheckDrop => Inv'
                              /\ CheckRestore => Inv'
  OBVIOUS
<1>0. \A p \in Pages : Marker(p) \in DataBlocks \cup {Erased, Bad}
  BY DEF Marker, Inv, MarkersOK, Nominal
<1>1. CASE CheckNothingToDo
  BY <1>1
  DEF CheckNothingToDo, Go, device, Marker, Inv, TypeOK, Nominal, JobOK,
      MarkersOK, FlushOK, RecoveryOK, ResultOK, JournalErased, FlushSteps
<1>2. CASE CheckDrop
  <2>1. \A b \in DataBlocks : ~Named(b)
    BY <1>2, ConstantFacts
    DEF CheckDrop, DropCopy, OneMarkerOnly, Marker, Inv, Nominal, Named
  <2>2. TypeOK' /\ Nominal' /\ JobOK' /\ MarkersOK' /\ FlushOK' /\ ResultOK'
    BY <1>2
    DEF CheckDrop, Doubted, Go, device, Inv, TypeOK, Nominal, JobOK, MarkersOK,
        FlushOK, ResultOK, FlushSteps, RecoverySteps
  <2>3. RecoveryOK'
    BY <1>2, <2>1 DEF CheckDrop, Go, RecoveryOK, Named
  <2> QED
    BY <2>2, <2>3 DEF Inv
<1>3. CASE CheckRestore
  <2>1. PICK c \in CopyAsRead :
          job' = [block |-> MarkedBlock, new |-> c, dirty |-> {}, flag |-> TRUE]
    BY <1>3 DEF CheckRestore
  <2>2. c \in Contents
    BY <2>1 DEF CopyAsRead
  <2>3. /\ MarkedBlock \in DataBlocks \cup {NoBlock}
        /\ MarkedBlock \in DataBlocks => Marker(0) = MarkedBlock
        /\ MarkedBlock # NoBlock => Marker(1) \in DataBlocks
    BY <1>0, <1>3, ConstantFacts
    DEF CheckRestore, MarkedBlock, OneMarkerOnly
  <2>4. MarkedBlock # NoBlock =>
          Named(MarkedBlock) /\ flash[Backup1] \in Contents
    BY <2>3, ConstantFacts DEF Inv, Nominal, MarkersOK, Marker, Named
  <2>5. MarkedBlock # NoBlock => flash[Backup1] = c
    <3> SUFFICES ASSUME MarkedBlock # NoBlock PROVE flash[Backup1] = c
      OBVIOUS
    <3>1. \A p \in Pages : c[p] = flash[Backup1][p]
      BY <2>1, <2>4 DEF CopyAsRead, Inv, Nominal, Contents
    <3> QED
      BY <2>2, <2>4, <3>1, ConstantFacts, Complete
  <2>6. /\ pc' = "recErase" /\ todo' = Pages
        /\ job'.block = MarkedBlock /\ job'.new = c
        /\ UNCHANGED <<flash, device, result, loose>>
    BY <1>3, <2>1 DEF CheckRestore, Doubted, Go
  <2>7. job' \in Job
    BY <2>1, <2>2, <2>3, ConstantFacts DEF Job
  <2>8. TypeOK' /\ Nominal' /\ JobOK' /\ MarkersOK'
    BY <2>2, <2>3, <2>6, <2>7
    DEF Inv, TypeOK, Nominal, JobOK, MarkersOK, device, FlushSteps,
        RecoverySteps
  <2>9. FlushOK' /\ RecoveryOK' /\ ResultOK'
    BY <1>3, <2>4, <2>5, <2>6
    DEF CheckRestore, Inv, FlushOK, RecoveryOK, ResultOK, Named
  <2> QED
    BY <2>8, <2>9 DEF Inv
<1> QED
  BY <1>1, <1>2, <1>3

LEMMA RecoverEraseTargetInv == Inv /\ RecoverEraseTarget => Inv'
<1> SUFFICES ASSUME Inv, RecoverEraseTarget PROVE Inv'
  OBVIOUS
<1>1. /\ job.block \in Blocks
      /\ flash' \in [Blocks -> RawContents]
      /\ flash'[job.block] = Blank
      /\ \A c \in Blocks : c # job.block => flash'[c] = flash[c]
  BY EraseEffect DEF RecoverEraseTarget, Inv
<1>2. job.block \in DataBlocks
  BY <1>1, ConstantFacts DEF RecoverEraseTarget, Inv, JobOK
<1>3. flash'[Backup1] = flash[Backup1] /\ flash'[Backup2] = flash[Backup2]
  BY <1>1, <1>2, ConstantFacts
<1>4. /\ pc = "recErase" /\ pc' = "recWrite"
      /\ UNCHANGED <<device, job, todo, result, loose>>
  BY DEF RecoverEraseTarget, Go
<1>5. TypeOK' /\ Nominal' /\ JobOK' /\ ResultOK'
  BY <1>1, <1>4
  DEF Inv, TypeOK, Nominal, JobOK, ResultOK, device, FlushSteps, RecoverySteps
<1>6. MarkersOK' /\ FlushOK'
  BY <1>3, <1>4 DEF Inv, MarkersOK, FlushOK
<1>7. RecoveryOK'
  BY <1>1, <1>2, <1>3, <1>4, ConstantFacts
  DEF Inv, RecoveryOK, Filled, Named, Blank
<1> QED
  BY <1>5, <1>6, <1>7 DEF Inv

LEMMA RecoverPageInv == \A p \in Pages : Inv /\ RecoverPage(p) => Inv'
<1> SUFFICES ASSUME NEW p \in Pages, Inv, RecoverPage(p) PROVE Inv'
  OBVIOUS
<1>0. /\ job.block \in DataBlocks
      /\ job.new \in Contents /\ job.new[p] \in PageValues
      /\ p \in todo
  BY ConstantFacts
  DEF RecoverPage, Inv, JobOK, RecoveryOK, Contents, Write, Writing, IsNext,
      Nominal
<1>1. /\ flash' \in [Blocks -> RawContents]
      /\ flash'[job.block][p] = Programmed(flash[job.block][p], job.new[p])
      /\ \A q \in Pages : q # p => flash'[job.block][q] = flash[job.block][q]
      /\ \A c \in Blocks : c # job.block => flash'[c] = flash[c]
  BY WriteEffect, <1>0 DEF RecoverPage, Inv
<1>2. flash'[Backup1] = flash[Backup1] /\ flash'[Backup2] = flash[Backup2]
  BY <1>0, <1>1, ConstantFacts
<1>3. \A q \in Pages :
        flash'[job.block][q] = IF q \in todo' THEN Erased ELSE job.new[q]
  BY <1>0, <1>1 DEF RecoverPage, Inv, RecoveryOK, Filled, Programmed
<1>4. todo' = {} => flash'[job.block] = job.new
  <2>1. flash'[job.block] \in RawContents
    BY <1>0, <1>1, ConstantFacts
  <2> QED
    BY <2>1, <1>0, <1>3, Complete
<1>5. /\ pc = "recWrite" /\ UNCHANGED <<device, job, result, loose>>
      /\ pc' = IF todo' = {} THEN "recB2" ELSE "recWrite"
      /\ todo' \in SUBSET Pages
  BY DEF RecoverPage, Go, Inv, TypeOK
<1>6. Named(job.block) /\ flash[Backup1] = job.new
  BY <1>0, <1>5, ConstantFacts DEF Inv, RecoveryOK
<1>7. TypeOK' /\ Nominal' /\ JobOK' /\ ResultOK'
  BY <1>0, <1>1, <1>5
  DEF Inv, TypeOK, Nominal, JobOK, ResultOK, device, FlushSteps, RecoverySteps
<1>8. MarkersOK' /\ FlushOK'
  BY <1>2, <1>5 DEF Inv, MarkersOK, FlushOK
<1>9. RecoveryOK'
  BY <1>0, <1>2, <1>3, <1>4, <1>5, <1>6, ConstantFacts
  DEF RecoveryOK, Filled, Named
<1> QED
  BY <1>7, <1>8, <1>9 DEF Inv

LEMMA RecoverEraseBackup2Inv == Inv /\ RecoverEraseBackup2 => Inv'
<1> SUFFICES ASSUME Inv, RecoverEraseBackup2 PROVE Inv'
  OBVIOUS
<1>1. /\ flash' \in [Blocks -> RawContents]
      /\ flash'[Backup2] = Blank
      /\ \A c \in Blocks : c # Backup2 => flash'[c] = flash[c]
  BY EraseEffect DEF RecoverEraseBackup2, Inv, Nominal
<1>2. /\ pc = "recB2" /\ pc' = "idle" /\ UNCHANGED <<device, result, loose>>
      /\ job' = NoJob /\ todo' = {}
  BY DEF RecoverEraseBackup2, Go, Forget
<1>3. NoJob \in Job
  BY ConstantFacts DEF NoJob, Job
<1>4. TypeOK' /\ Nominal' /\ JobOK' /\ ResultOK'
  BY <1>1, <1>2, <1>3
  DEF Inv, TypeOK, Nominal, JobOK, ResultOK, device, FlushSteps
<1>5. MarkersOK' /\ FlushOK' /\ RecoveryOK'
  BY <1>1, <1>2, ConstantFacts
  DEF MarkersOK, FlushOK, RecoveryOK, Blank, JournalErased
<1> QED
  BY <1>4, <1>5 DEF Inv

(* An interrupted command leaves markers that a recovery can act upon.     *)
LEMMA InterruptedMarkers ==
  ASSUME Inv, Interrupted
  PROVE  flash' \in [Blocks -> RawContents] /\ MarkersOK'
<1>1. CASE UNCHANGED flash
  BY <1>1 DEF Inv, TypeOK, MarkersOK
<1>2. CASE \E blk \in Blocks :
             /\ Erasing(blk)
             /\ \E c \in HalfErased(blk) : flash' = [flash EXCEPT ![blk] = c]
  <2>1. PICK blk \in Blocks : 
          /\ Erasing(blk)
          /\ \E c \in HalfErased(blk) : flash' = [flash EXCEPT ![blk] = c]
    BY <1>2
  <2>2. PICK c \in HalfErased(blk) : flash' = [flash EXCEPT ![blk] = c]
    BY <2>1
  <2>3. /\ c \in RawContents
        /\ \A p \in Pages : c[p] \in {flash[blk][p], Erased, Bad}
    BY <2>2 DEF HalfErased
  <2>4. /\ flash' \in [Blocks -> RawContents]
        /\ flash'[blk] = c
        /\ \A d \in Blocks : d # blk => flash'[d] = flash[d]
    BY <2>2, <2>3 DEF Inv, TypeOK
  <2>5. CASE blk = Backup1
    <3>1. pc = "eraseB1"
      BY <2>1, <2>5, ConstantFacts
      DEF Erasing, Inv, Nominal, JobOK, FlushSteps
    <3> QED
      BY <2>4, <2>5, <3>1, ConstantFacts
      DEF Inv, FlushOK, JournalErased, MarkersOK
  <2>6. CASE blk = Backup2
    BY <2>3, <2>4, <2>6, ConstantFacts DEF Inv, MarkersOK
  <2>7. CASE blk \notin {Backup1, Backup2}
    BY <2>4, <2>7, ConstantFacts DEF Inv, MarkersOK
  <2> QED
    BY <2>4, <2>5, <2>6, <2>7
<1>3. CASE \E blk \in Blocks, p \in Pages, v \in PageValues :
             /\ Writing(blk, p, v)
             /\ \E x \in {Programmed(flash[blk][p], v), Bad} :
                  flash' = [flash EXCEPT ![blk] = [@ EXCEPT ![p] = x]]
  <2>1. PICK blk \in Blocks, p \in Pages, v \in PageValues :
             /\ Writing(blk, p, v)
             /\ \E x \in {Programmed(flash[blk][p], v), Bad} :
                  flash' = [flash EXCEPT ![blk] = [@ EXCEPT ![p] = x]]
    BY <1>3
  <2>2. PICK x \in {Programmed(flash[blk][p], v), Bad} :
                  flash' = [flash EXCEPT ![blk] = [flash[blk] EXCEPT ![p] = x]]
    BY <2>1
  <2>3. x \in PageValues
    BY <2>2, ConstantFacts DEF Programmed
  <2>4. flash \in [Blocks -> RawContents] /\ flash[blk] \in RawContents
    BY DEF Inv, TypeOK
  <2>5. [flash[blk] EXCEPT ![p] = x] \in RawContents
    BY <2>3, <2>4 DEF RawContents
  <2>6. /\ flash' \in [Blocks -> RawContents]
        /\ flash'[blk][p] = x
        /\ \A q \in Pages : q # p => flash'[blk][q] = flash[blk][q]
        /\ \A d \in Blocks : d # blk => flash'[d] = flash[d]
    BY <2>2, <2>4, <2>5 DEF RawContents
  <2>7. CASE blk = Backup1
    <3>1. pc = "copy"
      BY <2>1, <2>7, ConstantFacts
      DEF Writing, Inv, Nominal, JobOK, FlushSteps
    <3> QED
      BY <2>6, <2>7, <3>1, ConstantFacts DEF Inv, FlushOK, MarkersOK
  <2>8. CASE blk = Backup2
    <3>1. \/ pc = "mark1" /\ p = 0 /\ v = job.block
          \/ pc = "mark2" /\ p = 1 /\ v = job.block
      BY <2>1, <2>8, ConstantFacts
      DEF Writing, Inv, Nominal, JobOK, FlushSteps
    <3>2. job.block \in DataBlocks /\ job.new \in Contents
      BY <3>1 DEF Inv, JobOK, FlushSteps
    <3>3. x \in {job.block, Bad}
      BY <2>2, <2>8, <3>1, ConstantFacts
      DEF Programmed, Inv, FlushOK, JournalErased
    <3> QED
      BY <2>6, <2>8, <3>1, <3>2, <3>3, ConstantFacts
      DEF Inv, MarkersOK, FlushOK, JournalErased
  <2>9. CASE blk \notin {Backup1, Backup2}
    BY <2>6, <2>9, ConstantFacts DEF Inv, MarkersOK
  <2> QED
    BY <2>6, <2>7, <2>8, <2>9
<1> QED
  BY <1>1, <1>2, <1>3 DEF Interrupted

LEMMA PowerCutInv == Inv /\ PowerCut => Inv'
<1> SUFFICES ASSUME Inv, PowerCut PROVE Inv'
  OBVIOUS
<1>1. flash' \in [Blocks -> RawContents] /\ MarkersOK'
  BY InterruptedMarkers DEF PowerCut
<1>2. loose' \in SUBSET DataBlocks
  BY LoosenedByFlag DEF PowerCut, Inv, TypeOK
<1>3. NoJob \in Job
  BY ConstantFacts DEF NoJob, Job
<1>4. TypeOK' /\ Nominal' /\ JobOK'
  BY <1>1, <1>2, <1>3
  DEF PowerCut, Go, Forget, Inv, TypeOK, Nominal, JobOK, FlushSteps
<1>5. FlushOK' /\ RecoveryOK' /\ ResultOK'
  BY DEF PowerCut, Go, FlushOK, RecoveryOK, ResultOK
<1> QED
  BY <1>1, <1>4, <1>5 DEF Inv

(* With no command failing, the only refusal is that of a recovery told    *)
(* to restore block -1: detection fails and the card is as it was.         *)
LEMMA CommandFailsEffect ==
  ASSUME Faults = {}, Inv, CommandFails
  PROVE  /\ UNCHANGED <<flash, device, result, loose>>
         /\ pc = "recErase" /\ pc' = "off" /\ job' = NoJob /\ todo' = {}
<1>1. Refused
  BY DEF CommandFails
<1>2. pc = "recErase"
  BY <1>1, ConstantFacts
  DEF Refused, Erasing, Writing, Inv, Nominal, JobOK, RecoveryOK, FlushSteps
<1> QED
  BY <1>2 DEF CommandFails, Forget, Go, FlushSteps, device

LEMMA CommandFailsInv ==
  ASSUME Faults = {} PROVE Inv /\ CommandFails => Inv'
<1> SUFFICES ASSUME Inv, CommandFails PROVE Inv'
  OBVIOUS
<1>1. NoJob \in Job
  BY ConstantFacts DEF NoJob, Job
<1> QED
  BY <1>1, CommandFailsEffect
  DEF Inv, TypeOK, Nominal, JobOK, MarkersOK, FlushOK, RecoveryOK, ResultOK,
      device, FlushSteps
-----------------------------------------------------------------------------
LEMMA InitInv == Init => Inv
<1> SUFFICES ASSUME Init PROVE Inv
  OBVIOUS
<1>1. PICK old \in [DataBlocks \cup SpareBlocks -> Contents] :
        flash = [b \in Blocks |->
                   IF b \in {Backup1, Backup2} THEN Blank ELSE old[b]]
  BY DEF Init
<1>2. \A b \in Blocks \ {Backup1, Backup2} : b \in DataBlocks \cup SpareBlocks
  BY DEF Blocks
<1>3. flash \in [Blocks -> RawContents]
  BY <1>1, <1>2, ConstantFacts
<1>4. flash[Backup1] = Blank /\ flash[Backup2] = Blank
  BY <1>1, ConstantFacts
<1>5. NoJob \in Job
  BY ConstantFacts DEF NoJob, Job
<1>6. Len(Spares) \in Nat
  BY JournalAssumption DEF JournalAssumption
<1>7. TypeOK /\ Nominal /\ JobOK
  BY <1>3, <1>5, <1>6, ConstantFacts
  DEF Init, TypeOK, Nominal, JobOK, FlushSteps
<1>8. MarkersOK /\ FlushOK /\ RecoveryOK /\ ResultOK
  BY <1>4, ConstantFacts
  DEF Init, MarkersOK, FlushOK, RecoveryOK, ResultOK, Blank
<1> QED
  BY <1>7, <1>8 DEF Inv

LEMMA NextInv ==
  ASSUME Faults = {} PROVE Inv /\ [Next]_vars => Inv'
<1> SUFFICES ASSUME Inv, [Next]_vars PROVE Inv'
  OBVIOUS
<1>1. CASE FlushStep
  <2>1. ~FillEraseBackup2 /\ ~FillEraseBackup1 /\ \A p \in Pages : ~FillPage(p)
    BY DEF FillEraseBackup2, FillEraseBackup1, FillPage, Inv, Nominal
  <2> QED
    BY <1>1, <2>1, EraseBackup1Inv, WriteMarker1Inv, WriteMarker2Inv,
       EraseTargetInv, EraseBackup2Inv, CopyPageInv, WriteTargetPageInv
    DEF FlushStep
<1>2. CASE RecoveryStep
  BY <1>2, ConnectInv, CheckInv, RecoverEraseTargetInv, RecoverPageInv,
     RecoverEraseBackup2Inv DEF RecoveryStep
<1>3. CASE CommandFails
  BY <1>3, CommandFailsInv
<1>4. ~CommandFailReplace
  BY DEF CommandFailReplace
<1>5. CASE \E b \in DataBlocks : BeginFlush(b) \/ BeginFlushUnreadable(b)
  BY <1>5, BeginInv
<1>6. CASE PowerCut
  BY <1>6, PowerCutInv
<1>7. CASE UNCHANGED vars
  BY <1>7
  DEF vars, device, Inv, TypeOK, Nominal, JobOK, MarkersOK, FlushOK,
      RecoveryOK, ResultOK, JournalErased, Named, Filled
<1> QED
  BY <1>1, <1>2, <1>3, <1>4, <1>5, <1>6, <1>7
  DEF Next, ProgramStep, HostStep
-----------------------------------------------------------------------------
(* The theorems                                                            *)

(* The strengthened invariant holds in every state that power cuts alone   *)
(* can lead to.                                                            *)
THEOREM InvHolds == ASSUME Faults = {} PROVE Spec => []Inv
BY InitInv, NextInv, PTL DEF Spec

(* The variables of the write-back keep to their types.                    *)
THEOREM TypeCorrect == ASSUME Faults = {} PROVE Spec => []TypeOK
<1>1. Inv => TypeOK
  BY DEF Inv
<1> QED
  BY <1>1, InvHolds, PTL

(* Between flushes the marker pages are erased (mcio.cpp:65).              *)
THEOREM JournalIsErasedWhenIdle ==
  ASSUME Faults = {} PROVE Spec => []JournalErasedWhenIdle
<1>1. Inv => JournalErasedWhenIdle
  BY DEF Inv, FlushOK, JournalErasedWhenIdle
<1> QED
  BY <1>1, InvHolds, PTL

(* A restart during the rewrite of the target finds the new content in     *)
(* backup block 1.                                                         *)
THEOREM RestartAlwaysFindsCopy ==
  ASSUME Faults = {} PROVE Spec => []RestartFindsCopy
<1>1. Inv => RestartFindsCopy
  BY DEF Inv, FlushOK, RestartFindsCopy, Journalling
<1> QED
  BY <1>1, InvHolds, PTL

(* A flush that returned success is durable.                               *)
THEOREM SuccessIsDurable ==
  ASSUME Faults = {} PROVE Spec => []SuccessMeansDurable
<1>1. Inv => SuccessMeansDurable
  BY ConstantFacts
  DEF Inv, ResultOK, FlushOK, JournalErased, SuccessMeansDurable, Logical,
      Named
<1> QED
  BY <1>1, InvHolds, PTL

(* Where an interrupted command may have left its mark.                    *)
LEMMA InterruptedEffect ==
  ASSUME Inv, Interrupted, ~UNCHANGED flash
  PROVE  \E blk \in Blocks :
           /\ \A c \in Blocks : c # blk => flash'[c] = flash[c]
           /\ \/ pc \in {"eraseB1", "copy"} /\ blk = Backup1
              \/ /\ pc \in {"eraseB2", "recB2"} /\ blk = Backup2
                 /\ \A b \in DataBlocks : Named(b)' => Named(b)
              \/ pc \in {"mark1", "mark2"} /\ blk = Backup2
              \/ /\ pc \in {"eraseT", "writeT", "recErase", "recWrite"}
                 /\ blk = job.block
<1>1. CASE \E blk \in Blocks :
             /\ Erasing(blk)
             /\ \E c \in HalfErased(blk) : flash' = [flash EXCEPT ![blk] = c]
  <2>1. PICK blk \in Blocks :
          /\ Erasing(blk)
          /\ \E c \in HalfErased(blk) : flash' = [flash EXCEPT ![blk] = c]
    BY <1>1
  <2>2. PICK c \in HalfErased(blk) : flash' = [flash EXCEPT ![blk] = c]
    BY <2>1
  <2>3. /\ \A p \in Pages : flash'[blk][p] \in {flash[blk][p], Erased, Bad}
        /\ \A d \in Blocks : d # blk => flash'[d] = flash[d]
    BY <2>2 DEF HalfErased, Inv, TypeOK
  <2>4. blk = Backup2 => \A b \in DataBlocks : Named(b)' => Named(b)
    BY <2>3, ConstantFacts DEF Named
  <2> QED
    BY <2>1, <2>3, <2>4 DEF Erasing, Inv, Nominal
<1>2. CASE \E blk \in Blocks, p \in Pages, v \in PageValues :
             /\ Writing(blk, p, v)
             /\ \E x \in {Programmed(flash[blk][p], v), Bad} :
                  flash' = [flash EXCEPT ![blk] = [@ EXCEPT ![p] = x]]
  <2>1. PICK blk \in Blocks, p \in Pages, v \in PageValues :
             /\ Writing(blk, p, v)
             /\ \E x \in {Programmed(flash[blk][p], v), Bad} :
                  flash' = [flash EXCEPT ![blk] = [@ EXCEPT ![p] = x]]
    BY <1>2
  <2>2. \A d \in Blocks : d # blk => flash'[d] = flash[d]
    BY <2>1 DEF Inv, TypeOK
  <2> QED
    BY <2>1, <2>2 DEF Writing, Inv, Nominal
<1> QED
  BY <1>1, <1>2 DEF Interrupted

(* While a block is named, nothing touches its copy.                       *)
LEMMA CopyKept ==
  ASSUME Faults = {}, Inv, [Next]_vars, NEW b \in DataBlocks, Named(b)
  PROVE  flash'[Backup1] = flash[Backup1]
<1>1. pc \notin {"eraseB1", "mark1", "copy"}
  BY ConstantFacts DEF Inv, FlushOK, JournalErased, Named
<1>2. pc \in FlushSteps \cup {"recErase", "recWrite"} /\ job.block # NoBlock =>
        job.block # Backup1
  BY ConstantFacts DEF Inv, JobOK
<1>3. CASE FlushStep
  <2>1. CASE WriteMarker2
    BY <2>1, ConstantFacts DEF WriteMarker2, Write, Inv, Nominal, TypeOK
  <2>2. CASE EraseTarget \/ \E p \in Pages : WriteTargetPage(p)
    BY <2>2, <1>2, ConstantFacts
    DEF EraseTarget, WriteTargetPage, Erase, Write, Inv, TypeOK, JobOK,
        FlushSteps
  <2>3. CASE EraseBackup2
    BY <2>3, ConstantFacts DEF EraseBackup2, Erase, Inv, Nominal, TypeOK
  <2> QED
    BY <1>1, <1>3, <2>1, <2>2, <2>3
    DEF FlushStep, EraseBackup1, WriteMarker1, CopyPage, FillEraseBackup2,
        FillEraseBackup1, FillPage, Inv, Nominal
<1>4. CASE RecoveryStep
  <2>1. CASE RecoverEraseTarget
    BY <2>1, ConstantFacts
    DEF RecoverEraseTarget, Erase, Inv, TypeOK, JobOK
  <2>2. ASSUME NEW p \in Pages, RecoverPage(p)
        PROVE  flash'[Backup1] = flash[Backup1]
    BY <2>2, ConstantFacts
    DEF RecoverPage, Write, Inv, TypeOK, JobOK
  <2>3. CASE RecoverEraseBackup2
    BY <2>3, ConstantFacts
    DEF RecoverEraseBackup2, Erase, Inv, Nominal, TypeOK
  <2>4. CASE Connect \/ CheckNothingToDo \/ CheckDrop \/ CheckRestore
    BY <2>4 DEF Connect, CheckNothingToDo, CheckDrop, CheckRestore
  <2> QED
    BY <1>4, <2>1, <2>2, <2>3, <2>4 DEF RecoveryStep
<1>5. CASE CommandFails
  BY <1>5, CommandFailsEffect
<1>6. ~CommandFailReplace
  BY DEF CommandFailReplace
<1>7. CASE \E d \in DataBlocks : BeginFlush(d) \/ BeginFlushUnreadable(d)
  BY <1>7 DEF BeginFlush, BeginFlushUnreadable
<1>8. CASE PowerCut
  <2>1. CASE UNCHANGED flash
    BY <2>1
  <2>2. CASE ~UNCHANGED flash
    <3>1. PICK blk \in Blocks :
           /\ \A c \in Blocks : c # blk => flash'[c] = flash[c]
           /\ \/ pc \in {"eraseB1", "copy"} /\ blk = Backup1
              \/ pc \in {"eraseB2", "recB2", "mark1", "mark2"} /\ blk = Backup2
              \/ /\ pc \in {"eraseT", "writeT", "recErase", "recWrite"}
                 /\ blk = job.block
      BY <1>8, <2>2, InterruptedEffect DEF PowerCut
    <3>2. blk # Backup1
      BY <3>1, <1>1, ConstantFacts DEF Inv, JobOK, FlushSteps
    <3> QED
      BY <3>1, <3>2, ConstantFacts
  <2> QED
    BY <2>1, <2>2
<1>9. CASE UNCHANGED vars
  BY <1>9 DEF vars
<1> QED
  BY <1>3, <1>4, <1>5, <1>6, <1>7, <1>8, <1>9 DEF Next, ProgramStep, HostStep

(* Nobody touches the copy a restart is going to install (mcio.cpp:2413).  *)
THEOREM CopyIsKeptWhileNamed ==
  ASSUME Faults = {} PROVE Spec => CopyKeptWhileNamed
<1>1. Inv /\ [Next]_vars =>
        [\A b \in DataBlocks :
           Named(b) /\ Named(b)' => flash'[Backup1] = flash[Backup1]]_vars
  BY CopyKept
<1> QED
  BY <1>1, InvHolds, PTL DEF Spec, CopyKeptWhileNamed

(* A detection erases the markers only when the block they name has the    *)
(* content of the copy (mcio.cpp:2413-2453).                               *)
THEOREM DetectionHasRestored ==
  ASSUME Faults = {} PROVE Spec => DetectionRestores
<1>1. Inv => (pc = "recB2" /\ pc' = "idle" =>
                \A b \in DataBlocks : Named(b) => flash[b] = flash[Backup1])
  BY DEF Inv, RecoveryOK
<1> QED
  BY <1>1, InvHolds, PTL DEF Spec, DetectionRestores
-----------------------------------------------------------------------------
(***************************************************************************)
(* From here on commands may fail in any way: lost answers, worn blocks,   *)
(* pages that cannot be read, and power cuts at any moment.                *)
(***************************************************************************)

Journal == {"eraseB1", "mark1", "copy", "mark2", "eraseB2"}

(* The backup blocks are those of the superblock, spares, or none; a copy  *)
(* is only made into a block.                                              *)
BackupsOK ==
  /\ bb1 \in {Backup1, NoBlock} \cup SpareBlocks
  /\ bb2 \in {Backup2, NoBlock} \cup SpareBlocks
  /\ used <= BadListSlots
  /\ pc \in {"mark1", "copy"} => bb1 # NoBlock
  /\ pc \in {"check"} \cup RecoverySteps => bb1 = Backup1 /\ bb2 = Backup2

(* What is rewritten: a block of data as long as the journal is used, else *)
(* perhaps the one that stands in for it, but never the marker block.      *)
RewriteOK ==
  /\ pc \in FlushSteps => job.block \in Blocks \ {Backup2} /\ job.new \in Contents
  /\ pc \in Journal => job.block \in DataBlocks
  /\ pc \in {"eraseT", "writeT"} /\ Journalling => job.block \in DataBlocks
  /\ pc \in {"recErase", "recWrite"} =>
       job.block \in DataBlocks \cup {NoBlock} /\ job.new \in Contents

(* The marker pages hold markers.                                          *)
MarkersOnly == \A p \in Pages : flash[Backup2][p] \in DataBlocks \cup {Erased, Bad}

(* The target while it is rewritten, and after a success.                  *)
TargetOK ==
  /\ pc = "writeT" => Filled(job.block)
  /\ pc = "eraseB2" => flash[job.block] = job.new
  /\ result = "succeed" =>
       /\ pc = "idle" /\ job.block \in Blocks /\ flash[job.block] = job.new

FInv == TypeOK /\ BackupsOK /\ RewriteOK /\ MarkersOnly /\ TargetOK
-----------------------------------------------------------------------------
LEMMA SpareFacts ==
  /\ SpareBlocks \subseteq Blocks
  /\ SpareBlocks \cap (DataBlocks \cup {Backup1, Backup2, NoBlock}) = {}
  /\ \A n \in 0 .. Len(Spares) : n < Len(Spares) => Spares[n + 1] \in SpareBlocks
  /\ Len(Spares) \in Nat /\ BadListSlots \in Nat
BY JournalAssumption, SMT DEF JournalAssumption, SpareBlocks, Blocks

LEMMA NoJobIsJob == NoJob \in Job
BY ConstantFacts DEF NoJob, Job

(* A command that stops on its way leaves pages of known kinds, and only   *)
(* markers in the marker block.                                            *)
LEMMA AnyInterruption ==
  ASSUME FInv, Interrupted
  PROVE  flash' \in [Blocks -> RawContents] /\ MarkersOnly'
<1>1. CASE UNCHANGED flash
  BY <1>1 DEF FInv, TypeOK, MarkersOnly
<1>2. CASE \E blk \in Blocks :
             /\ Erasing(blk)
             /\ \E c \in HalfErased(blk) : flash' = [flash EXCEPT ![blk] = c]
  <2>0. PICK blk \in Blocks :
          \E c \in HalfErased(blk) : flash' = [flash EXCEPT ![blk] = c]
    BY <1>2
  <2>1. PICK c \in HalfErased(blk) : flash' = [flash EXCEPT ![blk] = c]
    BY <2>0
  <2>2. c \in RawContents /\ \A p \in Pages : c[p] \in {flash[blk][p], Erased, Bad}
    BY DEF HalfErased
  <2>3. /\ flash' \in [Blocks -> RawContents]
        /\ flash'[blk] = c
        /\ \A d \in Blocks : d # blk => flash'[d] = flash[d]
    BY <2>1, <2>2 DEF FInv, TypeOK
  <2>4. CASE blk = Backup2
    BY <2>2, <2>3, <2>4 DEF FInv, MarkersOnly
  <2>5. CASE blk # Backup2
    BY <2>3, <2>5, ConstantFacts DEF FInv, MarkersOnly
  <2> QED
    BY <2>4, <2>5
<1>3. CASE \E blk \in Blocks, p \in Pages, v \in PageValues :
             /\ Writing(blk, p, v)
             /\ \E x \in {Programmed(flash[blk][p], v), Bad} :
                  flash' = [flash EXCEPT ![blk] = [@ EXCEPT ![p] = x]]
  <2>1. PICK blk \in Blocks, p \in Pages, v \in PageValues :
             /\ Writing(blk, p, v)
             /\ \E x \in {Programmed(flash[blk][p], v), Bad} :
                  flash' = [flash EXCEPT ![blk] = [@ EXCEPT ![p] = x]]
    BY <1>3
  <2>2. PICK x \in {Programmed(flash[blk][p], v), Bad} :
          flash' = [flash EXCEPT ![blk] = [@ EXCEPT ![p] = x]]
    BY <2>1
  <2>3. x \in {v, Bad} /\ x \in PageValues
    BY ConstantFacts DEF Programmed
  <2>4. flash[blk] \in [Pages -> PageValues]
    BY DEF FInv, TypeOK, RawContents
  <2>5. [flash[blk] EXCEPT ![p] = x] \in RawContents
    BY <2>3, <2>4 DEF RawContents
  <2>6. /\ flash' \in [Blocks -> RawContents]
        /\ flash'[blk][p] = x
        /\ \A q \in Pages : q # p => flash'[blk][q] = flash[blk][q]
        /\ \A d \in Blocks : d # blk => flash'[d] = flash[d]
    BY <2>2, <2>4, <2>5 DEF FInv, TypeOK
  <2>7. blk = Backup2 => v \in DataBlocks
    BY <2>1, ConstantFacts, SpareFacts
    DEF Writing, FInv, BackupsOK, RewriteOK, FlushSteps, Journal, RecoverySteps
  <2>8. CASE blk = Backup2
    BY <2>3, <2>6, <2>7, <2>8 DEF FInv, MarkersOnly
  <2>9. CASE blk # Backup2
    BY <2>6, <2>9, ConstantFacts DEF FInv, MarkersOnly
  <2> QED
    BY <2>8, <2>9
<1> QED
  BY <1>1, <1>2, <1>3 DEF Interrupted

(* The same of a command that completes.                                   *)
LEMMA EraseMarkers ==
  ASSUME FInv, NEW blk, Erase(blk)
  PROVE  MarkersOnly'
BY EraseEffect, ConstantFacts DEF FInv, MarkersOnly, Blank

LEMMA WriteMarkers ==
  ASSUME FInv, NEW blk, NEW p \in Pages, NEW v \in PageValues, Write(blk, p, v),
         blk = Backup2 => v \in DataBlocks
  PROVE  MarkersOnly'
<1>1. Programmed(flash[blk][p], v) \in {v, Bad}
  BY DEF Programmed
<1>2. /\ blk \in Blocks
      /\ flash'[blk][p] = Programmed(flash[blk][p], v)
      /\ \A q \in Pages : q # p => flash'[blk][q] = flash[blk][q]
      /\ \A c \in Blocks : c # blk => flash'[c] = flash[c]
  BY WriteEffect DEF FInv
<1> QED
  BY <1>1, <1>2, ConstantFacts DEF FInv, MarkersOnly
-----------------------------------------------------------------------------
(* Each action preserves the invariant                                     *)

LEMMA EraseBackupFInv ==
  ASSUME FInv,
         EraseBackup1 \/ EraseBackup2 \/ FillEraseBackup2 \/ FillEraseBackup1
  PROVE  FInv'
<1>0. PICK blk \in {bb1, bb2} : Erase(blk)
  BY DEF EraseBackup1, EraseBackup2, FillEraseBackup2, FillEraseBackup1
<1>1. /\ blk \in Blocks
      /\ flash' \in [Blocks -> RawContents]
      /\ \A c \in Blocks : c # blk => flash'[c] = flash[c]
  BY <1>0, EraseEffect DEF FInv
<1>2. MarkersOnly'
  BY <1>0, EraseMarkers
<1>3. TypeOK' /\ BackupsOK'
  BY <1>0, <1>1, ConstantFacts, NoJobIsJob
  DEF EraseBackup1, EraseBackup2, FillEraseBackup2, FillEraseBackup1, FInv,
      TypeOK, BackupsOK, Go, Return, Forget, device, FlushSteps, RecoverySteps,
      Erase
<1>4. RewriteOK'
  BY DEF EraseBackup1, EraseBackup2, FillEraseBackup2, FillEraseBackup1, FInv,
         RewriteOK, Go, Return, Forget, device, FlushSteps, Journal
<1>5. pc = "eraseB2" => job.block \in DataBlocks /\ blk = bb2
  BY <1>0 DEF FInv, RewriteOK, Journal, EraseBackup2, EraseBackup1,
              FillEraseBackup2, FillEraseBackup1, Erase, Erasing
<1>6. TargetOK'
  BY <1>1, <1>5, ConstantFacts, SpareFacts
  DEF EraseBackup1, EraseBackup2, FillEraseBackup2, FillEraseBackup1, FInv,
      TargetOK, BackupsOK, Go, Return, Forget
<1> QED
  BY <1>2, <1>3, <1>4, <1>6 DEF FInv

LEMMA MarkerFInv ==
  ASSUME FInv, WriteMarker1 \/ WriteMarker2
  PROVE  FInv'
<1>0. job.block \in DataBlocks /\ job.block \in PageValues
  BY ConstantFacts DEF FInv, RewriteOK, Journal, WriteMarker1, WriteMarker2
<1>1. PICK p \in Pages : Write(bb2, p, job.block)
  BY ConstantFacts DEF WriteMarker1, WriteMarker2
<1>2. flash' \in [Blocks -> RawContents]
  BY <1>0, <1>1, WriteEffect DEF FInv
<1>3. MarkersOnly'
  BY <1>0, <1>1, WriteMarkers
<1>4. TypeOK' /\ BackupsOK'
  BY <1>2 DEF WriteMarker1, WriteMarker2, FInv, TypeOK, BackupsOK, Go, device,
              FlushSteps, RecoverySteps
<1>5. RewriteOK' /\ TargetOK'
  BY <1>0 DEF WriteMarker1, WriteMarker2, FInv, RewriteOK, TargetOK, Go, Journal,
         FlushSteps, device
<1> QED
  BY <1>3, <1>4, <1>5 DEF FInv

LEMMA FillCopyFInv ==
  ASSUME FInv, NEW p \in Pages, CopyPage(p) \/ FillPage(p)
  PROVE  FInv'
<1>0. /\ job.new[p] \in PageValues /\ Write(bb1, p, job.new[p])
      /\ bb1 # Backup2 /\ job.block \in Blocks
  BY ConstantFacts, SpareFacts
  DEF CopyPage, FillPage, FInv, BackupsOK, RewriteOK, FlushSteps, Contents
<1>1. flash' \in [Blocks -> RawContents]
  BY <1>0, WriteEffect DEF FInv
<1>2. MarkersOnly'
  BY <1>0, WriteMarkers
<1>3. TypeOK' /\ BackupsOK'
  BY <1>0, <1>1, NoJobIsJob
  DEF CopyPage, FillPage, FInv, TypeOK, BackupsOK, Go, Return, Forget, device,
      FlushSteps, RecoverySteps
<1>4. RewriteOK' /\ TargetOK'
  BY DEF CopyPage, FillPage, FInv, RewriteOK, TargetOK, Go, Return, Forget,
         Journal, FlushSteps, device
<1> QED
  BY <1>2, <1>3, <1>4 DEF FInv

LEMMA EraseTargetFInv ==
  ASSUME FInv, EraseTarget
  PROVE  FInv'
<1>1. /\ job.block \in Blocks
      /\ flash' \in [Blocks -> RawContents]
      /\ flash'[job.block] = Blank
  BY EraseEffect DEF EraseTarget, FInv
<1>2. MarkersOnly'
  BY EraseMarkers DEF EraseTarget
<1>3. TypeOK' /\ BackupsOK'
  BY <1>1 DEF EraseTarget, FInv, TypeOK, BackupsOK, Go, device, FlushSteps,
              RecoverySteps, PagesToWrite, Loosened, Exposed
<1>4. RewriteOK'
  BY DEF EraseTarget, FInv, RewriteOK, Go, device, Journal, FlushSteps,
         Journalling
<1>5. TargetOK'
  BY <1>1 DEF EraseTarget, FInv, TargetOK, Go, Filled, Blank, PagesToWrite
<1> QED
  BY <1>2, <1>3, <1>4, <1>5 DEF FInv

LEMMA WriteTargetFInv ==
  ASSUME FInv, NEW p \in Pages, WriteTargetPage(p)
  PROVE  FInv'
<1>0. /\ job.new \in Contents /\ job.new[p] \in PageValues
      /\ job.block \in Blocks \ {Backup2} /\ p \in todo
  BY ConstantFacts
  DEF WriteTargetPage, FInv, RewriteOK, FlushSteps, Contents, Write, Writing,
      IsNext
<1>1. /\ flash' \in [Blocks -> RawContents]
      /\ flash'[job.block][p] = Programmed(flash[job.block][p], job.new[p])
      /\ \A q \in Pages : q # p => flash'[job.block][q] = flash[job.block][q]
  BY <1>0, WriteEffect DEF WriteTargetPage, FInv
<1>2. MarkersOnly'
  BY <1>0, WriteMarkers DEF WriteTargetPage
<1>3. \A q \in Pages :
        flash'[job.block][q] = IF q \in todo' THEN Erased ELSE job.new[q]
  BY <1>0, <1>1 DEF WriteTargetPage, FInv, TargetOK, Filled, Programmed
<1>4. todo' = {} => flash'[job.block] = job.new
  <2>1. flash'[job.block] \in RawContents
    BY <1>0, <1>1
  <2> QED
    BY <2>1, <1>0, <1>3, Complete
<1>5. TypeOK' /\ BackupsOK'
  BY <1>1 DEF WriteTargetPage, FInv, TypeOK, BackupsOK, Go, Return, device,
              FlushSteps, RecoverySteps, Settled
<1>6. RewriteOK'
  BY DEF WriteTargetPage, FInv, RewriteOK, Go, Return, device, Journal,
         FlushSteps, Journalling
<1>7. TargetOK'
  BY <1>0, <1>3, <1>4 DEF WriteTargetPage, FInv, TargetOK, Go, Return, Filled
<1> QED
  BY <1>2, <1>5, <1>6, <1>7 DEF FInv

LEMMA BeginFInv ==
  ASSUME FInv, NEW b \in DataBlocks, BeginFlush(b) \/ BeginFlushUnreadable(b)
  PROVE  FInv'
<1>1. CASE BeginFlush(b)
  <2>1. PICK blk \in LabelsOf(b) \cap Blocks, dirty \in SUBSET Pages,
             flag \in BOOLEAN, new \in Contents :
          /\ job' = [block |-> blk, new |-> new, dirty |-> dirty, flag |-> flag]
          /\ Go(IF flag /\ badblock \notin Blocks THEN "eraseB1" ELSE "eraseT")
          /\ loose' = AtRisk(blk)
    BY <1>1 DEF BeginFlush, NewContents
  <2>2. /\ pc = "idle" /\ todo' = Pages /\ result' = "none"
        /\ UNCHANGED <<flash, device>>
    BY <1>1 DEF BeginFlush
  <2>3. /\ job'.block = blk /\ job'.new = new /\ job'.flag = flag /\ job' \in Job
        /\ blk \in Blocks \ {Backup2}
    BY <2>1, ConstantFacts, SpareFacts DEF LabelsOf, FInv, BackupsOK, Job
  <2>4. badblock \notin Blocks => blk \in DataBlocks
    BY <2>1, ConstantFacts DEF LabelsOf
  <2>5. TypeOK' /\ BackupsOK'
    BY <2>1, <2>2, <2>3
    DEF FInv, TypeOK, BackupsOK, Go, device, FlushSteps, RecoverySteps, AtRisk
  <2>6. RewriteOK'
    BY <2>1, <2>2, <2>3, <2>4
    DEF RewriteOK, Go, device, Journal, FlushSteps, Journalling
  <2>7. MarkersOnly' /\ TargetOK'
    BY <2>1, <2>2 DEF FInv, MarkersOnly, TargetOK, Go
  <2> QED
    BY <2>5, <2>6, <2>7 DEF FInv
<1>2. CASE BeginFlushUnreadable(b)
  BY <1>2, NoJobIsJob
  DEF BeginFlushUnreadable, FInv, TypeOK, BackupsOK, RewriteOK, MarkersOnly,
      TargetOK, Return, Forget, device, Journal, FlushSteps, RecoverySteps
<1> QED
  BY <1>1, <1>2

LEMMA RecoveryFInv ==
  ASSUME FInv, RecoveryStep
  PROVE  FInv'
<1>1. CASE Connect \/ CheckNothingToDo \/ CheckDrop
  <2>1. TypeOK' /\ BackupsOK'
    BY <1>1, ConstantFacts, SpareFacts
    DEF Connect, CheckNothingToDo, CheckDrop, FInv, TypeOK, BackupsOK, Go,
        device, RecoverySteps, FlushSteps, Doubted
  <2>2. RewriteOK' /\ MarkersOnly' /\ TargetOK'
    BY <1>1
    DEF Connect, CheckNothingToDo, CheckDrop, FInv, RewriteOK, MarkersOnly,
        TargetOK, Go, device, Journal, FlushSteps
  <2> QED
    BY <2>1, <2>2 DEF FInv
<1>2. CASE CheckRestore
  <2>1. PICK c \in Contents :
          job' = [block |-> MarkedBlock, new |-> c, dirty |-> {}, flag |-> TRUE]
    BY <1>2 DEF CheckRestore, CopyAsRead
  <2>2. bb2 = Backup2 /\ Marker(0) \in DataBlocks \cup {Erased}
    BY <1>2, ConstantFacts
    DEF CheckRestore, FInv, BackupsOK, MarkersOnly, Marker
  <2>3. job' \in Job /\ job'.block \in DataBlocks \cup {NoBlock} /\ job'.new = c
    BY <2>1, <2>2, ConstantFacts DEF MarkedBlock, Job
  <2>4. TypeOK' /\ BackupsOK'
    BY <1>2, <2>3
    DEF CheckRestore, FInv, TypeOK, BackupsOK, Go, device, RecoverySteps,
        FlushSteps, Doubted
  <2>5. RewriteOK' /\ MarkersOnly' /\ TargetOK'
    BY <1>2, <2>1, <2>3
    DEF CheckRestore, FInv, RewriteOK, MarkersOnly, TargetOK, Go, device,
        Journal, FlushSteps
  <2> QED
    BY <2>4, <2>5 DEF FInv
<1>3. CASE RecoverEraseTarget \/ RecoverEraseBackup2
  <2>1. PICK blk : Erase(blk)
    BY <1>3 DEF RecoverEraseTarget, RecoverEraseBackup2
  <2>2. flash' \in [Blocks -> RawContents] /\ MarkersOnly'
    BY <2>1, EraseEffect, EraseMarkers DEF FInv
  <2>3. TypeOK' /\ BackupsOK'
    BY <1>3, <2>2, NoJobIsJob
    DEF RecoverEraseTarget, RecoverEraseBackup2, FInv, TypeOK, BackupsOK, Go,
        Forget, device, RecoverySteps, FlushSteps
  <2>4. RewriteOK' /\ TargetOK'
    BY <1>3
    DEF RecoverEraseTarget, RecoverEraseBackup2, FInv, RewriteOK, TargetOK, Go,
        Forget, device, Journal, FlushSteps
  <2> QED
    BY <2>2, <2>3, <2>4 DEF FInv
<1>4. ASSUME NEW p \in Pages, RecoverPage(p) PROVE FInv'
  <2>1. /\ Write(job.block, p, job.new[p]) /\ job.new[p] \in PageValues
        /\ job.block # Backup2
    BY <1>4, ConstantFacts
    DEF RecoverPage, FInv, RewriteOK, Contents, Write
  <2>2. flash' \in [Blocks -> RawContents] /\ MarkersOnly'
    BY <2>1, WriteEffect, WriteMarkers DEF FInv
  <2>3. TypeOK' /\ BackupsOK'
    BY <1>4, <2>2
    DEF RecoverPage, FInv, TypeOK, BackupsOK, Go, device, RecoverySteps,
        FlushSteps
  <2>4. RewriteOK' /\ TargetOK'
    BY <1>4
    DEF RecoverPage, FInv, RewriteOK, TargetOK, Go, device, Journal, FlushSteps
  <2> QED
    BY <2>2, <2>3, <2>4 DEF FInv
<1> QED
  BY <1>1, <1>2, <1>3, <1>4 DEF RecoveryStep

(* The next backup block is a spare that was not taken yet, or none.       *)
LEMMA SpareTaken ==
  ASSUME FInv, TakeSpare
  PROVE  /\ NewBackup \in SpareBlocks \cup {NoBlock}
         /\ used' \in 0 .. Len(Spares) /\ used' <= BadListSlots
         /\ badblock' \in Blocks \cup {NoBlock, Replaced}
         /\ NewBackup # NoBlock => used' = used + 1
         /\ used' >= used
<1>1. used \in Nat /\ used \in 0 .. Len(Spares) /\ used <= BadListSlots
      /\ badblock \in Blocks \cup {NoBlock, Replaced}
  BY SpareFacts DEF FInv, TypeOK, BackupsOK
<1>2. CASE CanReplace
  BY <1>1, <1>2, SpareFacts DEF CanReplace, NewBackup, TakeSpare
<1>3. CASE ~CanReplace
  BY <1>1, <1>3, SpareFacts DEF NewBackup, TakeSpare
<1> QED
  BY <1>2, <1>3

LEMMA ReplaceFInv ==
  ASSUME FInv, CommandFailReplace
  PROVE  FInv'
<1>1. flash' \in [Blocks -> RawContents] /\ MarkersOnly'
  BY AnyInterruption DEF CommandFailReplace
<1>2. CASE ReplaceBackup1 \/ ReplaceBackup2
  <2>1. TakeSpare
    BY <1>2 DEF ReplaceBackup1, ReplaceBackup2
  <2>2. TypeOK' /\ BackupsOK'
    BY <1>1, <1>2, <2>1, SpareTaken, ConstantFacts, SpareFacts
    DEF ReplaceBackup1, ReplaceBackup2, FInv, TypeOK, BackupsOK, Go,
        RecoverySteps, FlushSteps, Exposed
  <2>3. RewriteOK' /\ TargetOK'
    BY <1>2
    DEF ReplaceBackup1, ReplaceBackup2, FInv, RewriteOK, TargetOK, Go, Journal,
        FlushSteps
  <2> QED
    BY <1>1, <2>2, <2>3 DEF FInv
<1>3. CASE TargetBad
  BY <1>1, <1>3, NoJobIsJob
  DEF TargetBad, FInv, TypeOK, BackupsOK, RewriteOK, TargetOK, Go, Return,
      Forget, device, Exposed, Journal, FlushSteps, RecoverySteps
<1>4. CASE \/ /\ pc \in {"fillE2", "fillE1", "fillW"}
              /\ Return("failed") /\ Forget /\ UNCHANGED <<device, loose>>
           \/ /\ pc \in RecoverySteps /\ Go("off") /\ Forget
              /\ UNCHANGED <<device, result, loose>>
  BY <1>1, <1>4, NoJobIsJob
  DEF FInv, TypeOK, BackupsOK, RewriteOK, TargetOK, Go, Return, Forget, device,
      Journal, FlushSteps, RecoverySteps
<1> QED
  BY <1>2, <1>3, <1>4 DEF CommandFailReplace

LEMMA StopFInv ==
  ASSUME FInv, CommandFails \/ PowerCut
  PROVE  FInv'
<1>1. Interrupted
  BY DEF CommandFails, PowerCut, Interrupted
<1>2. flash' \in [Blocks -> RawContents] /\ MarkersOnly'
  BY <1>1, AnyInterruption
<1>3. loose' \in SUBSET DataBlocks
  BY DEF CommandFails, PowerCut, Loosened, Exposed, FInv, TypeOK
<1>4. TypeOK' /\ BackupsOK'
  BY <1>2, <1>3, NoJobIsJob
  DEF CommandFails, PowerCut, FInv, TypeOK, BackupsOK, Go, Return, Forget,
      device, FlushSteps, RecoverySteps
<1>5. RewriteOK' /\ TargetOK'
  BY DEF CommandFails, PowerCut, FInv, RewriteOK, TargetOK, Go, Return, Forget,
         Journal, FlushSteps, RecoverySteps
<1> QED
  BY <1>2, <1>4, <1>5 DEF FInv
-----------------------------------------------------------------------------
(* The theorems                                                            *)

(* The card and the program stay in the states FInv describes whatever     *)
(* command fails.                                                          *)
THEOREM FaultInvHolds == Spec => []FInv
<1>1. Init => FInv
  <2> SUFFICES ASSUME Init PROVE FInv
    OBVIOUS
  <2>1. PICK old \in [DataBlocks \cup SpareBlocks -> Contents] :
          flash = [b \in Blocks |->
                     IF b \in {Backup1, Backup2} THEN Blank ELSE old[b]]
    BY DEF Init
  <2>2. flash \in [Blocks -> RawContents] /\ flash[Backup2] = Blank
    BY <2>1, ConstantFacts DEF Blocks
  <2>3. TypeOK /\ BackupsOK
    BY <2>2, NoJobIsJob, ConstantFacts, SpareFacts DEF Init, TypeOK, BackupsOK
  <2>4. RewriteOK /\ MarkersOnly /\ TargetOK
    BY <2>2 DEF Init, RewriteOK, MarkersOnly, TargetOK, Blank, FlushSteps, Journal
  <2> QED
    BY <2>3, <2>4 DEF FInv
<1>2. FInv /\ [Next]_vars => FInv'
  <2> SUFFICES ASSUME FInv, [Next]_vars PROVE FInv'
    OBVIOUS
  <2>1. CASE UNCHANGED vars
    BY <2>1 DEF vars, device, FInv, TypeOK, BackupsOK, RewriteOK, MarkersOnly,
                TargetOK, Filled, Journalling
  <2>2. CASE FlushStep
    BY <2>2, EraseBackupFInv, MarkerFInv, FillCopyFInv, EraseTargetFInv,
       WriteTargetFInv DEF FlushStep
  <2>3. CASE Next /\ ~FlushStep
    BY <2>3, BeginFInv, RecoveryFInv, ReplaceFInv, StopFInv
    DEF Next, ProgramStep, HostStep
  <2> QED
    BY <2>1, <2>2, <2>3
<1> QED
  BY <1>1, <1>2, PTL DEF Spec

(* Every variable keeps its type whatever command fails, the block numbers *)
(* that Card_ReplaceBackupBlock makes up included.                         *)
THEOREM TypesHoldUnderFaults == Spec => []TypeOK
BY FaultInvHolds, PTL DEF FInv

(* A flush that reports success has stored its content, whatever failed on *)
(* the way, for any card.                                                  *)
THEOREM SuccessIsStored == Spec => []SuccessMeansStored
<1>1. FInv => SuccessMeansStored
  BY DEF FInv, TargetOK, SuccessMeansStored
<1> QED
  BY <1>1, FaultInvHolds, PTL

(* The loop over the backup blocks ends: each turn consumes one of them.   *)
THEOREM ReplacementTerminates == Spec => ReplacementEnds
<1>1. FInv /\ [Next]_vars =>
        [Turn => Consumed' > Consumed /\ used' <= BadListSlots
                 /\ used' <= Len(Spares)]_vars
  <2> SUFFICES ASSUME FInv, Next, Turn
               PROVE  /\ Consumed' > Consumed
                      /\ used' <= BadListSlots /\ used' <= Len(Spares)
    OBVIOUS
  <2>1. CommandFailReplace /\ (ReplaceBackup1 \/ ReplaceBackup2)
    BY DEF Turn, FlushSteps, RecoverySteps, Next, ProgramStep, HostStep,
           FlushStep, RecoveryStep, BeginFlush, BeginFlushUnreadable,
           EraseBackup1, WriteMarker1, WriteMarker2, CopyPage, EraseTarget,
           WriteTargetPage, EraseBackup2, FillEraseBackup2, FillEraseBackup1,
           FillPage, Connect, CheckNothingToDo, CheckDrop, CheckRestore,
           RecoverEraseTarget, RecoverEraseBackup2, RecoverPage, CommandFails,
           CommandFailReplace, TargetBad, PowerCut, Go, Return
  <2>2. /\ used \in Nat /\ used' \in Nat /\ used' >= used
        /\ used' <= Len(Spares) /\ used' <= BadListSlots
        /\ NewBackup # NoBlock => used' = used + 1
    BY <2>1, SpareTaken, SpareFacts DEF ReplaceBackup1, ReplaceBackup2, FInv, TypeOK
  <2>3. CASE ReplaceBackup1
    <3>1. bb1 # NoBlock
      BY <2>1, <2>3
      DEF CommandFailReplace, ReplaceBackup1, Refused, Erasing, FInv, BackupsOK
    <3>2. bb1' = NewBackup /\ bb2' = bb2
      BY <2>3 DEF ReplaceBackup1
    <3>3. /\ Gone(bb1) = 0 /\ Gone(bb2) \in Nat /\ Gone(bb2)' = Gone(bb2)
          /\ Gone(bb1)' \in Nat /\ (NewBackup = NoBlock => Gone(bb1)' = 1)
      BY <3>1, <3>2 DEF Gone
    <3>4. used' + Gone(bb1)' + Gone(bb2)' > used + Gone(bb1) + Gone(bb2)
      BY <2>2, <3>3
    <3> QED
      BY <2>2, <3>4 DEF Consumed
  <2>4. CASE ReplaceBackup2
    <3>1. bb2 # NoBlock
      <4>1. job.block \in PageValues
        BY <2>4, ConstantFacts DEF ReplaceBackup2, FInv, RewriteOK, Journal
      <4> QED
        BY <2>1, <2>4, <4>1, ConstantFacts
        DEF CommandFailReplace, ReplaceBackup2, Refused, Erasing, Writing
    <3>2. bb2' = NewBackup /\ bb1' = bb1
      BY <2>4 DEF ReplaceBackup2
    <3>3. /\ Gone(bb2) = 0 /\ Gone(bb1) \in Nat /\ Gone(bb1)' = Gone(bb1)
          /\ Gone(bb2)' \in Nat /\ (NewBackup = NoBlock => Gone(bb2)' = 1)
      BY <3>1, <3>2 DEF Gone
    <3>4. used' + Gone(bb1)' + Gone(bb2)' > used + Gone(bb1) + Gone(bb2)
      BY <2>2, <3>3
    <3> QED
      BY <2>2, <3>4 DEF Consumed
  <2> QED
    BY <2>1, <2>2, <2>3, <2>4
<1> QED
  BY <1>1, FaultInvHolds, PTL DEF Spec, ReplacementEnds
-----------------------------------------------------------------------------
(* Atomicity                                                               *)

(* The markers, at any time: a named block that is not loose has a copy    *)
(* that can be read, and a recovery that finds the markers of two blocks   *)
(* overwrites a loose one.                                                 *)
MarkerCopy ==
  /\ \A b \in DataBlocks : Named(b) /\ b \notin loose => flash[Backup1] \in Contents
  /\ \A b, c \in DataBlocks :
       flash[Backup2][0] = b /\ flash[Backup2][1] = c /\ b # c => b \in loose

(* A flush puts the other block that is named at risk, if there is one.    *)
OthersLoose ==
  pc \in FlushSteps =>
    \A b \in DataBlocks : Named(b) => b \in loose \/ b = job.block

(* The journal before the commit point: it starts erased, in the blocks of *)
(* the superblock, or else the target is loose.                            *)
Opening ==
  /\ pc \in {"eraseB1", "mark1"} /\ job.block \notin loose =>
       InPlace /\ JournalErased
  /\ pc \in {"copy", "mark2"} /\ job.block \notin loose =>
       InPlace /\ flash[Backup2][0] = job.block /\ flash[Backup2][1] = Erased
  /\ pc \in {"copy", "mark2"} /\ bb2 = Backup2 =>
       flash[Backup2][0] \in {job.block, Bad}
  /\ pc = "mark1" /\ bb1 = Backup1 => flash[Backup1] = Blank /\ todo = Pages
  /\ pc = "copy" /\ bb1 = Backup1 => Filled(Backup1)
  /\ pc = "mark2" /\ bb1 = Backup1 => flash[Backup1] = job.new

(* ... and after it: the target is loose, or a restart finds its copy.     *)
Closing == (pc \in {"eraseT", "writeT"} /\ Journalling) \/ pc = "eraseB2"

Sealed ==
  /\ Closing /\ job.block \notin loose =>
       InPlace /\ Named(job.block) /\ flash[Backup1] = job.new
  /\ Closing /\ bb2 = Backup2 =>
       \A p \in {0, 1} : flash[Backup2][p] \in {job.block, Bad}
  /\ pc = "writeT" /\ job.block \in DataBlocks \ loose => Journalling
  /\ pc \in {"fillE2", "fillE1", "fillW"} /\ job.block \in DataBlocks =>
       job.block \in loose

(* A recovery rewrites the named block, from a copy it has read correctly, *)
(* or a loose one.                                                         *)
Restoring ==
  /\ pc \in {"recErase", "recWrite"} =>
       /\ \A b \in DataBlocks : Named(b) => b = job.block
       /\ job.block \in DataBlocks \ loose =>
            Named(job.block) /\ flash[Backup1] = job.new
  /\ pc = "recErase" => todo = Pages
  /\ pc = "recWrite" => job.block \in DataBlocks /\ Filled(job.block)
  /\ pc = "recB2" =>
       \A b \in DataBlocks : Named(b) /\ b \notin loose => flash[b] = flash[Backup1]

AInv == MarkerCopy /\ OthersLoose /\ Opening /\ Sealed /\ Restoring

Roles == DataBlocks \cup {Backup1, Backup2}

(* No other block that a restart looks at changes.                         *)
OnlyChanges(blk) == \A c \in Roles : c # blk => flash'[c] = flash[c]

LEMMA RoleFacts ==
  ASSUME FInv
  PROVE  /\ bb1 \notin DataBlocks \cup {Backup2}
         /\ bb2 \notin DataBlocks \cup {Backup1}
         /\ bb1 \in Roles => bb1 = Backup1
         /\ bb2 \in Roles => bb2 = Backup2
         /\ pc \in FlushSteps => job.block \in Blocks /\ job.block # Backup2
         /\ pc \in RecoverySteps /\ job.block \in Blocks /\ pc # "recB2" =>
              job.block \in DataBlocks
BY ConstantFacts, SpareFacts
DEF FInv, BackupsOK, RewriteOK, Roles, RecoverySteps

(* What a command may change, whether it completes or not.                 *)
MayTouchCopy ==
  \/ pc \in {"eraseB1", "copy", "fillE1", "fillW"} /\ bb1 = Backup1
  \/ pc \in {"eraseT", "writeT"} /\ job.block = Backup1

MayTouchTarget ==
  pc \in {"eraseT", "writeT", "recErase", "recWrite"} /\ job.block \in DataBlocks

MarkersFade ==
  /\ pc \in {"eraseB2", "fillE2", "recB2"} /\ bb2 = Backup2
  /\ \A p \in Pages : flash'[Backup2][p] \in {flash[Backup2][p], Erased, Bad}

MarkerAppears(p) ==
  /\ pc = (IF p = 0 THEN "mark1" ELSE "mark2") /\ bb2 = Backup2
  /\ flash'[Backup2][p] \in {job.block, Bad}
  /\ flash'[Backup2][1 - p] = flash[Backup2][1 - p]

LEMMA Reach ==
  ASSUME FInv, Interrupted
  PROVE  \/ \A c \in Roles : flash'[c] = flash[c]
         \/ OnlyChanges(Backup1) /\ MayTouchCopy
         \/ OnlyChanges(Backup2) /\ MarkersFade
         \/ OnlyChanges(Backup2) /\ \E p \in {0, 1} : MarkerAppears(p)
         \/ OnlyChanges(job.block) /\ MayTouchTarget
<1>0. flash \in [Blocks -> RawContents]
  BY DEF FInv, TypeOK
<1>1. CASE UNCHANGED flash
  BY <1>1
<1>2. CASE \E blk \in Blocks :
             /\ Erasing(blk)
             /\ \E c \in HalfErased(blk) : flash' = [flash EXCEPT ![blk] = c]
  <2>0. PICK blk \in Blocks :
          /\ Erasing(blk)
          /\ \E c \in HalfErased(blk) : flash' = [flash EXCEPT ![blk] = c]
    BY <1>2
  <2>1. PICK c \in HalfErased(blk) : flash' = [flash EXCEPT ![blk] = c]
    BY <2>0
  <2>2. \A p \in Pages : c[p] \in {flash[blk][p], Erased, Bad}
    BY DEF HalfErased
  <2>3. /\ flash'[blk] = c
        /\ \A d \in Blocks : d # blk => flash'[d] = flash[d]
    BY <1>0, <2>1
  <2>4. Roles \subseteq Blocks
    BY ConstantFacts DEF Roles
  <2>5. CASE blk \notin Roles
    BY <2>3, <2>4, <2>5
  <2>6. OnlyChanges(blk)
    BY <2>3, <2>4 DEF OnlyChanges
  <2>7. CASE pc \in {"eraseB1", "fillE1"} /\ blk = bb1 /\ blk \in Roles
    BY <2>6, <2>7, RoleFacts DEF MayTouchCopy
  <2>8. CASE pc \in {"eraseB2", "fillE2", "recB2"} /\ blk = bb2 /\ blk \in Roles
    BY <2>2, <2>3, <2>6, <2>8, RoleFacts DEF MarkersFade
  <2>9. CASE pc \in {"eraseT", "recErase"} /\ blk = job.block /\ blk \in Roles
    BY <2>6, <2>9, RoleFacts, ConstantFacts
    DEF MayTouchCopy, MayTouchTarget, Roles, FlushSteps, RecoverySteps
  <2> QED
    BY <2>0, <2>5, <2>7, <2>8, <2>9 DEF Erasing
<1>3. CASE \E blk \in Blocks, p \in Pages, v \in PageValues :
             /\ Writing(blk, p, v)
             /\ \E x \in {Programmed(flash[blk][p], v), Bad} :
                  flash' = [flash EXCEPT ![blk] = [@ EXCEPT ![p] = x]]
  <2>1. PICK blk \in Blocks, p \in Pages, v \in PageValues :
             /\ Writing(blk, p, v)
             /\ \E x \in {Programmed(flash[blk][p], v), Bad} :
                  flash' = [flash EXCEPT ![blk] = [@ EXCEPT ![p] = x]]
    BY <1>3
  <2>2. PICK x \in {Programmed(flash[blk][p], v), Bad} :
          flash' = [flash EXCEPT ![blk] = [@ EXCEPT ![p] = x]]
    BY <2>1
  <2>3. flash[blk] \in [Pages -> PageValues]
    BY <1>0 DEF RawContents
  <2>4. /\ flash'[blk][p] = x
        /\ \A q \in Pages : q # p => flash'[blk][q] = flash[blk][q]
        /\ \A d \in Blocks : d # blk => flash'[d] = flash[d]
    BY <1>0, <2>2, <2>3
  <2>5. Roles \subseteq Blocks
    BY ConstantFacts DEF Roles
  <2>6. CASE blk \notin Roles
    BY <2>4, <2>5, <2>6
  <2>7. OnlyChanges(blk)
    BY <2>4, <2>5 DEF OnlyChanges
  <2>8. CASE pc \in {"copy", "fillW"} /\ blk = bb1 /\ blk \in Roles
    BY <2>7, <2>8, RoleFacts DEF MayTouchCopy
  <2>9. CASE /\ pc = (IF p = 0 THEN "mark1" ELSE "mark2") /\ p \in {0, 1}
             /\ blk = bb2 /\ v = job.block /\ blk \in Roles
    <3>1. x \in {job.block, Bad}
      BY <2>9 DEF Programmed
    <3>2. 1 - p \in Pages /\ 1 - p # p
      BY <2>9, ConstantFacts
    <3>3. MarkerAppears(p)
      BY <2>4, <2>9, <3>1, <3>2, RoleFacts DEF MarkerAppears
    <3> QED
      BY <2>7, <2>9, <3>3, RoleFacts
  <2>10. CASE pc \in {"writeT", "recWrite"} /\ blk = job.block /\ blk \in Roles
    BY <2>7, <2>10, RoleFacts, ConstantFacts
    DEF MayTouchCopy, MayTouchTarget, Roles, FlushSteps, RecoverySteps
  <2> QED
    BY <2>1, <2>6, <2>8, <2>9, <2>10 DEF Writing
<1> QED
  BY <1>1, <1>2, <1>3 DEF Interrupted

(* A command that completes is one way to be interrupted.                  *)
LEMMA CompletedErase ==
  ASSUME FInv, NEW blk, Erase(blk) PROVE Interrupted
<1>1. blk \in Blocks /\ Blank \in HalfErased(blk)
  BY ConstantFacts DEF Erase, HalfErased, Blank, FInv, TypeOK
<1> QED
  BY <1>1 DEF Erase, Interrupted

LEMMA CompletedWrite ==
  ASSUME FInv, NEW blk, NEW p \in Pages, NEW v \in PageValues, Write(blk, p, v)
  PROVE  Interrupted
BY DEF Write, Interrupted

(* A command that may change the copy leaves every named block loose.      *)
LEMMA CopyMayChange ==
  ASSUME FInv, AInv, MayTouchCopy
  PROVE  /\ pc \in FlushSteps
         /\ \A b \in DataBlocks : Named(b) => b \in loose
         /\ \/ job.block \in loose
            \/ job.block \notin DataBlocks
            \/ \A b \in DataBlocks : ~Named(b)
<1>1. pc \in FlushSteps /\ \A b \in DataBlocks : Named(b) => b \in loose \/ b = job.block
  BY DEF MayTouchCopy, FlushSteps, AInv, OthersLoose
<1>2. CASE pc \in {"eraseB1", "copy"} /\ job.block \notin loose
  BY <1>1, <1>2, ConstantFacts DEF AInv, Opening, JournalErased, Named
<1>3. CASE pc \in {"eraseB1", "copy"} /\ job.block \in loose
  BY <1>1, <1>3
<1>4. CASE pc \in {"fillE1", "fillW"}
  BY <1>1, <1>4 DEF AInv, Sealed
<1>5. CASE pc \in {"eraseT", "writeT"} /\ job.block = Backup1
  BY <1>1, <1>5, ConstantFacts
<1> QED
  BY <1>2, <1>3, <1>4, <1>5 DEF MayTouchCopy

(* ... and one that may change the target finds it loose or named.         *)
LEMMA TargetMayChange ==
  ASSUME FInv, AInv, MayTouchTarget
  PROVE  \/ job.block \in loose
         \/ Named(job.block)
         \/ pc = "eraseT" /\ ~Protected
<1>1. CASE pc \in {"recErase", "recWrite"}
  BY <1>1 DEF AInv, Restoring, MayTouchTarget
<1>2. CASE pc \in {"eraseT", "writeT"}
  BY <1>2 DEF AInv, Sealed, Closing, MayTouchTarget, Protected
<1> QED
  BY <1>1, <1>2 DEF MayTouchTarget

LEMMA MarkerBefore ==
  ASSUME FInv, AInv, NEW p \in {0, 1}, MarkerAppears(p)
  PROVE  /\ job.block \in DataBlocks
         /\ \A b \in DataBlocks : Named(b) => b \in loose
         /\ \A b \in DataBlocks : Named(b)' => b = job.block
         /\ job.block \notin loose => \A b \in DataBlocks : ~Named(b)
         /\ \A b \in DataBlocks : Named(b)' /\ b \notin loose =>
              pc = "mark2" /\ flash[Backup1] = job.new
         /\ \A b, c \in DataBlocks :
              flash'[Backup2][0] = b /\ flash'[Backup2][1] = c /\ b # c => b \in loose
<1>1. /\ pc \in {"mark1", "mark2"} /\ bb2 = Backup2 /\ job.block \in DataBlocks
      /\ \A b \in DataBlocks : Named(b) => b \in loose \/ b = job.block
  BY DEF MarkerAppears, FInv, RewriteOK, Journal, AInv, OthersLoose, FlushSteps
<1>2. flash'[Backup2][p] \in {job.block, Bad}
      /\ flash'[Backup2][1 - p] = flash[Backup2][1 - p]
  BY DEF MarkerAppears
<1>3. CASE p = 0
  <2>1. pc = "mark1" /\ flash'[Backup2][1] = flash[Backup2][1]
    BY <1>2, <1>3 DEF MarkerAppears
  <2>2. job.block \notin loose => flash[Backup2][0] = Erased /\ flash[Backup2][1] = Erased
    BY <2>1 DEF AInv, Opening, JournalErased
  <2> QED
    BY <1>1, <1>2, <1>3, <2>1, <2>2, ConstantFacts DEF Named
<1>4. CASE p = 1
  <2>1. pc = "mark2" /\ flash'[Backup2][0] = flash[Backup2][0]
    BY <1>2, <1>4 DEF MarkerAppears
  <2>2. /\ flash[Backup2][0] \in {job.block, Bad}
        /\ job.block \notin loose =>
             flash[Backup2][1] = Erased /\ flash[Backup1] = job.new
    BY <1>1, <2>1 DEF AInv, Opening, InPlace
  <2> QED
    BY <1>1, <1>2, <1>4, <2>1, <2>2, ConstantFacts DEF Named
<1> QED
  BY <1>3, <1>4

(* Whatever a command does, a block that becomes named or stays named has  *)
(* its copy, or is loose.                                                  *)
LEMMA MarkersKept ==
  ASSUME FInv, AInv, Interrupted
  PROVE  /\ \A b \in DataBlocks : Named(b)' /\ b \notin loose => flash'[Backup1] \in Contents
         /\ \A b, c \in DataBlocks :
              flash'[Backup2][0] = b /\ flash'[Backup2][1] = c /\ b # c => b \in loose
         /\ pc \in FlushSteps =>
              \A b \in DataBlocks : Named(b)' => b \in loose \/ b = job.block
<1>0. /\ \A b \in DataBlocks : Named(b) /\ b \notin loose => flash[Backup1] \in Contents
      /\ \A b, c \in DataBlocks :
           flash[Backup2][0] = b /\ flash[Backup2][1] = c /\ b # c => b \in loose
      /\ pc \in FlushSteps =>
           \A b \in DataBlocks : Named(b) => b \in loose \/ b = job.block
  BY DEF AInv, MarkerCopy, OthersLoose
<1>1. CASE \A c \in Roles : flash'[c] = flash[c]
  <2>1. flash'[Backup1] = flash[Backup1] /\ flash'[Backup2] = flash[Backup2]
    BY <1>1 DEF Roles
  <2> QED
    BY <1>0, <2>1 DEF Named
<1>2. CASE OnlyChanges(Backup1) /\ MayTouchCopy
  <2>1. flash'[Backup2] = flash[Backup2]
    BY <1>2, ConstantFacts DEF OnlyChanges, Roles
  <2>2. \A b \in DataBlocks : Named(b)' => b \in loose
    BY <1>2, <2>1, CopyMayChange DEF Named
  <2> QED
    BY <1>0, <2>1, <2>2
<1>3. CASE OnlyChanges(Backup2) /\ MarkersFade
  <2>1. flash'[Backup1] = flash[Backup1]
    BY <1>3, ConstantFacts DEF OnlyChanges, Roles
  <2>2. \A p \in {0, 1} : flash'[Backup2][p] \in DataBlocks =>
          flash'[Backup2][p] = flash[Backup2][p]
    BY <1>3, ConstantFacts DEF MarkersFade
  <2> QED
    BY <1>0, <2>1, <2>2 DEF Named
<1>4. ASSUME NEW p \in {0, 1}, OnlyChanges(Backup2), MarkerAppears(p)
      PROVE  /\ \A b \in DataBlocks :
                  Named(b)' /\ b \notin loose => flash'[Backup1] \in Contents
             /\ \A b, c \in DataBlocks :
                  flash'[Backup2][0] = b /\ flash'[Backup2][1] = c /\ b # c => b \in loose
             /\ pc \in FlushSteps =>
                  \A b \in DataBlocks : Named(b)' => b \in loose \/ b = job.block
  <2>1. flash'[Backup1] = flash[Backup1]
    BY <1>4, ConstantFacts DEF OnlyChanges, Roles
  <2>2. pc \in FlushSteps /\ job.new \in Contents
    BY <1>4 DEF MarkerAppears, FInv, RewriteOK, FlushSteps
  <2>3. \A b \in DataBlocks : Named(b)' => b = job.block
    BY <1>4, MarkerBefore
  <2>4. \A b \in DataBlocks : Named(b)' /\ b \notin loose => flash[Backup1] = job.new
    BY <1>4, MarkerBefore
  <2>5. \A b, c \in DataBlocks :
          flash'[Backup2][0] = b /\ flash'[Backup2][1] = c /\ b # c => b \in loose
    BY <1>4, MarkerBefore
  <2> QED
    BY <2>1, <2>2, <2>3, <2>4, <2>5
<1>5. CASE OnlyChanges(job.block) /\ MayTouchTarget
  <2>1. flash'[Backup1] = flash[Backup1] /\ flash'[Backup2] = flash[Backup2]
    BY <1>5, ConstantFacts DEF OnlyChanges, Roles, MayTouchTarget
  <2> QED
    BY <1>0, <2>1 DEF Named
<1> QED
  BY <1>1, <1>2, <1>3, <1>4, <1>5, Reach

(* A command changes at most one block, as a restart sees it.              *)
LEMMA OneBlockAtMost ==
  ASSUME FInv, AInv, Interrupted
  PROVE  \/ \A c \in DataBlocks : Logical(c)' = Logical(c)
         \/ \E b \in loose :
              /\ \A c \in DataBlocks : c # b => Logical(c)' = Logical(c)
              /\ pc \in FlushSteps => job.block \in loose \/ job.block \notin DataBlocks
         \/ \E b \in DataBlocks :
              /\ b = job.block
              /\ \A c \in DataBlocks : c # b => Logical(c)' = Logical(c)
              /\ \/ pc = "eraseT" /\ ~Protected
                 \/ pc = "mark2" /\ Logical(b)' \in Contents
<1>0. loose \subseteq DataBlocks
  BY DEF FInv, TypeOK
<1>1. CASE \A c \in Roles : flash'[c] = flash[c]
  BY <1>1 DEF Roles, Logical, Named
<1>2. CASE OnlyChanges(Backup1) /\ MayTouchCopy
  <2>1. /\ flash'[Backup2] = flash[Backup2]
        /\ \A c \in DataBlocks : flash'[c] = flash[c]
    BY <1>2, ConstantFacts DEF OnlyChanges, Roles
  <2>2. \A c \in DataBlocks : Named(c)' = Named(c)
    BY <2>1 DEF Named
  <2>3. CASE \A b \in DataBlocks : ~Named(b)
    BY <2>1, <2>2, <2>3 DEF Logical
  <2>4. ASSUME NEW b \in DataBlocks, Named(b)
        PROVE  /\ b \in loose
               /\ \A c \in DataBlocks : c # b => Logical(c)' = Logical(c)
               /\ job.block \in loose \/ job.block \notin DataBlocks
    <3>1. \A c \in DataBlocks : c # b => ~Named(c)
      BY <2>4 DEF Named
    <3>2. b \in loose /\ (job.block \in loose \/ job.block \notin DataBlocks)
      BY <1>2, <2>4, CopyMayChange
    <3> QED
      BY <2>1, <2>2, <3>1, <3>2 DEF Logical
  <2> QED
    BY <2>3, <2>4
<1>3. CASE OnlyChanges(Backup2) /\ MarkersFade
  <2>1. /\ flash'[Backup1] = flash[Backup1]
        /\ \A c \in DataBlocks : flash'[c] = flash[c]
    BY <1>3, ConstantFacts DEF OnlyChanges, Roles
  <2>2. \A c \in DataBlocks : Named(c)' => Named(c)
    BY <1>3, ConstantFacts DEF MarkersFade, Named
  <2>3. CASE \A b \in DataBlocks : ~Named(b)
    BY <2>1, <2>2, <2>3 DEF Logical
  <2>4. ASSUME NEW b \in DataBlocks, Named(b)
        PROVE  \/ \A c \in DataBlocks : Logical(c)' = Logical(c)
               \/ /\ b \in loose
                  /\ \A c \in DataBlocks : c # b => Logical(c)' = Logical(c)
                  /\ pc \in FlushSteps =>
                       job.block \in loose \/ job.block \notin DataBlocks
    <3>1. \A c \in DataBlocks : c # b => ~Named(c)
      BY <2>4 DEF Named
    <3>2. \A c \in DataBlocks : c # b => Logical(c)' = Logical(c)
      BY <2>1, <2>2, <3>1 DEF Logical
    <3>3. b \notin loose => flash[b] = flash[Backup1]
      <4>1. CASE pc = "eraseB2"
        <5>1. b = job.block
          BY <1>3, <2>4, <4>1, ConstantFacts
          DEF MarkersFade, AInv, Sealed, Closing, Named
        <5>2. flash[job.block] = job.new
          BY <4>1 DEF FInv, TargetOK
        <5> QED
          BY <4>1, <5>1, <5>2 DEF AInv, Sealed, Closing
      <4>2. CASE pc = "fillE2"
        BY <2>4, <4>2 DEF AInv, OthersLoose, Sealed, FlushSteps
      <4>3. CASE pc = "recB2"
        BY <2>4, <4>3 DEF AInv, Restoring
      <4> QED
        BY <1>3, <4>1, <4>2, <4>3 DEF MarkersFade
    <3>4. CASE b \notin loose
      BY <2>1, <2>4, <3>2, <3>3, <3>4 DEF Logical
    <3>5. CASE b \in loose
      <4>1. pc \in FlushSteps => job.block \in loose \/ job.block \notin DataBlocks
        <5>1. CASE pc = "eraseB2"
          BY <1>3, <2>4, <3>5, <5>1, ConstantFacts
          DEF MarkersFade, AInv, Sealed, Closing, Named
        <5>2. CASE pc = "fillE2"
          BY <5>2 DEF AInv, Sealed
        <5> QED
          BY <1>3, <5>1, <5>2 DEF MarkersFade, FlushSteps
      <4> QED
        BY <3>2, <3>5, <4>1
    <3> QED
      BY <3>4, <3>5
  <2> QED
    BY <2>3, <2>4
<1>4. ASSUME NEW p \in {0, 1}, OnlyChanges(Backup2), MarkerAppears(p)
      PROVE  \/ \A c \in DataBlocks : Logical(c)' = Logical(c)
             \/ \E b \in loose :
                  /\ \A c \in DataBlocks : c # b => Logical(c)' = Logical(c)
                  /\ job.block \in loose
             \/ \E b \in DataBlocks :
                  /\ b = job.block
                  /\ \A c \in DataBlocks : c # b => Logical(c)' = Logical(c)
                  /\ pc = "mark2" /\ Logical(b)' \in Contents
  <2>1. /\ flash'[Backup1] = flash[Backup1]
        /\ \A c \in DataBlocks : flash'[c] = flash[c]
    BY <1>4, ConstantFacts DEF OnlyChanges, Roles
  <2>2. /\ job.block \in DataBlocks
        /\ \A b \in DataBlocks : Named(b) => b \in loose
        /\ \A b \in DataBlocks : Named(b)' => b = job.block
        /\ job.block \notin loose => \A b \in DataBlocks : ~Named(b)
        /\ \A b \in DataBlocks : Named(b)' /\ b \notin loose =>
             pc = "mark2" /\ flash[Backup1] = job.new
    BY <1>4, MarkerBefore
  <2>3. ASSUME \A c \in DataBlocks : c # job.block => ~Named(c),
               NEW b \in DataBlocks, b = job.block
        PROVE  /\ \A c \in DataBlocks : c # b => Logical(c)' = Logical(c)
               /\ \/ b \in loose
                  \/ pc = "mark2" /\ Logical(b)' \in Contents
                  \/ Logical(b)' = Logical(b)
    <3>1. \A c \in DataBlocks : c # b => Logical(c)' = Logical(c)
      BY <2>1, <2>2, <2>3 DEF Logical
    <3>2. CASE b \notin loose /\ Named(b)'
      <4>1. job.new \in Contents
        BY <2>2, <3>2 DEF FInv, RewriteOK, FlushSteps
      <4>2. Logical(b)' = flash'[Backup1]
        BY <3>2 DEF Logical
      <4> QED
        BY <2>1, <2>2, <3>1, <3>2, <4>1, <4>2
    <3>3. CASE b \notin loose /\ ~Named(b)'
      BY <2>1, <2>2, <2>3, <3>1, <3>3 DEF Logical
    <3> QED
      BY <3>1, <3>2, <3>3
  <2>4. ASSUME NEW b \in DataBlocks, b # job.block, Named(b)
        PROVE  /\ b \in loose /\ job.block \in loose
               /\ \A c \in DataBlocks : c # b => Logical(c)' = Logical(c)
    <3>1. flash'[Backup2][1 - p] = b
      <4>1. flash[Backup2][0] = b /\ flash[Backup2][1] = b
        BY <2>4 DEF Named
      <4> QED
        BY <1>4, <4>1 DEF MarkerAppears
    <3>2. \A c \in DataBlocks : Named(c)' => c = b
      BY <3>1 DEF Named
    <3>3. \A c \in DataBlocks : ~Named(c)'
      BY <2>2, <2>4, <3>2
    <3>4. \A c \in DataBlocks : c # b => ~Named(c)
      BY <2>4 DEF Named
    <3> QED
      BY <2>1, <2>2, <2>4, <3>3, <3>4 DEF Logical
  <2>5. CASE \A c \in DataBlocks : c # job.block => ~Named(c)
    <3>1. PICK b \in DataBlocks : b = job.block
      BY <2>2
    <3>2. /\ \A c \in DataBlocks : c # b => Logical(c)' = Logical(c)
          /\ \/ b \in loose
             \/ pc = "mark2" /\ Logical(b)' \in Contents
             \/ Logical(b)' = Logical(b)
      BY <2>3, <2>5, <3>1
    <3> QED
      BY <3>1, <3>2
  <2> QED
    BY <2>4, <2>5
<1>5. CASE OnlyChanges(job.block) /\ MayTouchTarget
  <2>1. /\ job.block \in DataBlocks
        /\ flash'[Backup1] = flash[Backup1] /\ flash'[Backup2] = flash[Backup2]
        /\ \A c \in DataBlocks : c # job.block => flash'[c] = flash[c]
    BY <1>5, ConstantFacts DEF OnlyChanges, Roles, MayTouchTarget
  <2>2. \A c \in DataBlocks : c # job.block => Logical(c)' = Logical(c)
    BY <2>1 DEF Logical, Named
  <2>3. CASE Named(job.block)
    BY <2>1, <2>2, <2>3 DEF Logical, Named
  <2> QED
    BY <1>5, <2>1, <2>2, <2>3, TargetMayChange
<1> QED
  BY <1>1, <1>2, <1>3, <1>4, <1>5, Reach

(* The ways a step can look in the abstract store: one block changes, or   *)
(* none does.                                                              *)
LEMMA NothingChanges ==
  ASSUME \A b \in DataBlocks : Logical(b)' = Logical(b),
         loose \subseteq loose', loose' \in SUBSET DataBlocks
  PROVE  Store!Next
<1>1. [b \in DataBlocks |-> Logical(b)]' = [b \in DataBlocks |-> Logical(b)]
  OBVIOUS
<1> QED
  BY <1>1 DEF Store!Next, Store!Loosen

LEMMA OneBlockChanges ==
  ASSUME NEW b \in DataBlocks,
         \A c \in DataBlocks : c # b => Logical(c)' = Logical(c)
  PROVE  [c \in DataBlocks |-> Logical(c)]' =
           [[c \in DataBlocks |-> Logical(c)] EXCEPT ![b] = Logical(b)']
OBVIOUS

LEMMA BlockIsTorn ==
  ASSUME TypeOK', NEW b \in DataBlocks,
         \A c \in DataBlocks : c # b => Logical(c)' = Logical(c),
         loose' = loose \cup {b}
  PROVE  Store!Next
<1>1. Logical(b)' \in RawContents
  BY ConstantFacts DEF TypeOK, Logical
<1>2. Store!Tear(b)
  BY <1>1, OneBlockChanges DEF Store!Tear
<1> QED
  BY <1>2 DEF Store!Next

LEMMA BlockIsWritten ==
  ASSUME NEW b \in DataBlocks,
         \A c \in DataBlocks : c # b => Logical(c)' = Logical(c),
         Logical(b)' \in Contents,
         \/ loose' = loose \ {b}
         \/ b \notin loose /\ loose' = loose
  PROVE  Store!Next
<1>1. CASE b \in loose
  <2>1. Store!Settle(b)
    BY <1>1, OneBlockChanges DEF Store!Settle
  <2> QED
    BY <2>1 DEF Store!Next
<1>2. CASE b \notin loose
  <2>1. loose' = loose
    BY <1>2
  <2>2. Store!Commit(b)
    BY <1>2, <2>1, OneBlockChanges DEF Store!Commit
  <2> QED
    BY <2>2 DEF Store!Next
<1> QED
  BY <1>1, <1>2

(* A command that stops on its way, or completes without ending the        *)
(* rewrite, is one step of the abstract store.                             *)
LEMMA CommandRefines ==
  ASSUME FInv, FInv', AInv, Interrupted,
         \/ pc # "eraseT" /\ loose' = loose
         \/ pc \in FlushSteps /\ loose' = Exposed
         \/ pc = "eraseT" /\ loose' = Loosened
  PROVE  Store!Next
<1>0. /\ loose \in SUBSET DataBlocks /\ loose' \in SUBSET DataBlocks
      /\ TypeOK' /\ loose \subseteq loose'
  BY DEF FInv, TypeOK, Exposed, Loosened
<1>1. CASE \A c \in DataBlocks : Logical(c)' = Logical(c)
  BY <1>0, <1>1, NothingChanges
<1>2. ASSUME NEW b \in loose,
             \A c \in DataBlocks : c # b => Logical(c)' = Logical(c),
             pc \in FlushSteps => job.block \in loose \/ job.block \notin DataBlocks
      PROVE  Store!Next
  <2>1. pc \in FlushSteps => Exposed = loose
    BY <1>2 DEF Exposed
  <2>2. loose' = loose
    BY <2>1 DEF Loosened, FlushSteps
  <2>3. loose' = loose \cup {b} /\ b \in DataBlocks
    BY <1>0, <1>2, <2>2
  <2> QED
    BY <1>0, <1>2, <2>3, BlockIsTorn
<1>3. ASSUME NEW b \in DataBlocks, b = job.block,
             \A c \in DataBlocks : c # b => Logical(c)' = Logical(c),
             \/ pc = "eraseT" /\ ~Protected
             \/ pc = "mark2" /\ Logical(b)' \in Contents
      PROVE  Store!Next
  <2>1. Exposed = loose \cup {b}
    BY <1>3 DEF Exposed
  <2>2. CASE loose' = Exposed
    BY <1>0, <1>3, <2>1, <2>2, BlockIsTorn
  <2>3. CASE loose' = loose /\ pc = "mark2"
    <3>1. CASE b \in loose
      <4>1. loose' = loose \cup {b}
        BY <2>3, <3>1
      <4> QED
        BY <1>0, <1>3, <4>1, BlockIsTorn
    <3>2. CASE b \notin loose
      BY <1>3, <2>3, <3>2, BlockIsWritten
    <3> QED
      BY <3>1, <3>2
  <2> QED
    BY <1>3, <2>2, <2>3 DEF Loosened
<1> QED
  BY <1>1, <1>2, <1>3, OneBlockAtMost

-----------------------------------------------------------------------------
(* Each action preserves AInv, and is a step of the abstract store         *)

(* What every step keeps that takes no block out of loose.                 *)
LEMMA OthersKept ==
  ASSUME FInv, AInv, Interrupted, loose \subseteq loose',
         pc' \in FlushSteps => pc \in FlushSteps /\ job' = job
  PROVE  MarkerCopy' /\ OthersLoose'
<1>1. MarkerCopy'
  <2>1. \A b \in DataBlocks : Named(b)' /\ b \notin loose => flash'[Backup1] \in Contents
    BY MarkersKept
  <2>2. \A b, c \in DataBlocks :
          flash'[Backup2][0] = b /\ flash'[Backup2][1] = c /\ b # c => b \in loose
    BY MarkersKept
  <2> QED
    BY <2>1, <2>2 DEF MarkerCopy
<1>2. OthersLoose'
  <2>1. pc \in FlushSteps => \A b \in DataBlocks : Named(b)' => b \in loose \/ b = job.block
    BY MarkersKept
  <2> QED
    BY <2>1 DEF OthersLoose
<1> QED
  BY <1>1, <1>2

LEMMA OpeningEraseAInv ==
  ASSUME FInv, AInv, EraseBackup1
  PROVE  AInv'
<1>1. /\ bb1 \in Blocks
      /\ flash'[bb1] = Blank
      /\ \A c \in Blocks : c # bb1 => flash'[c] = flash[c]
  BY EraseEffect DEF EraseBackup1, FInv
<1>2. flash'[Backup2] = flash[Backup2]
  BY <1>1, RoleFacts, ConstantFacts
<1>3. /\ pc = "eraseB1" /\ pc' = "mark1" /\ todo' = Pages
      /\ UNCHANGED <<device, job, loose>>
  BY DEF EraseBackup1, Go
<1>4. MarkerCopy' /\ OthersLoose'
  BY <1>3, CompletedErase, OthersKept DEF EraseBackup1, FlushSteps
<1>5. Opening'
  BY <1>1, <1>2, <1>3 DEF AInv, Opening, InPlace, JournalErased, device
<1>6. Sealed' /\ Restoring'
  BY <1>3 DEF Sealed, Closing, Restoring
<1> QED
  BY <1>4, <1>5, <1>6 DEF AInv

LEMMA Marker1AInv ==
  ASSUME FInv, AInv, WriteMarker1
  PROVE  AInv'
<1>0. job.block \in DataBlocks /\ job.block \in PageValues
  BY ConstantFacts DEF WriteMarker1, FInv, RewriteOK, Journal
<1>1. /\ bb2 \in Blocks
      /\ flash'[bb2][0] = Programmed(flash[bb2][0], job.block)
      /\ \A q \in Pages : q # 0 => flash'[bb2][q] = flash[bb2][q]
      /\ \A c \in Blocks : c # bb2 => flash'[c] = flash[c]
  BY <1>0, WriteEffect, ConstantFacts DEF WriteMarker1, FInv
<1>2. flash'[Backup1] = flash[Backup1]
  BY <1>1, RoleFacts, ConstantFacts
<1>3. /\ pc = "mark1" /\ pc' = "copy"
      /\ UNCHANGED <<device, job, todo, loose>>
  BY DEF WriteMarker1, Go
<1>4. MarkerCopy' /\ OthersLoose'
  BY <1>0, <1>3, CompletedWrite, OthersKept, ConstantFacts DEF WriteMarker1, FlushSteps
<1>5. Opening'
  <2>1. job.block \notin loose =>
          /\ InPlace' /\ flash'[Backup2][0] = job.block
          /\ flash'[Backup2][1] = Erased
    BY <1>1, <1>3, ConstantFacts
    DEF AInv, Opening, InPlace, JournalErased, device, Programmed
  <2>2. bb2 = Backup2 => flash'[Backup2][0] \in {job.block, Bad}
    BY <1>1 DEF Programmed
  <2>3. bb1 = Backup1 => Filled(Backup1)'
    BY <1>2, <1>3 DEF AInv, Opening, Filled, Blank
  <2> QED
    BY <1>3, <2>1, <2>2, <2>3 DEF Opening, device
<1>6. Sealed' /\ Restoring'
  BY <1>3 DEF Sealed, Closing, Restoring
<1> QED
  BY <1>4, <1>5, <1>6 DEF AInv

LEMMA CopyAInv ==
  ASSUME FInv, AInv, NEW p \in Pages, CopyPage(p)
  PROVE  AInv'
<1>0. /\ job.new \in Contents /\ job.new[p] \in PageValues /\ p \in todo
      /\ bb1 # NoBlock
  BY ConstantFacts
  DEF CopyPage, FInv, RewriteOK, BackupsOK, FlushSteps, Contents, Write,
      Writing, IsNext
<1>1. /\ flash' \in [Blocks -> RawContents]
      /\ flash'[bb1][p] = Programmed(flash[bb1][p], job.new[p])
      /\ \A q \in Pages : q # p => flash'[bb1][q] = flash[bb1][q]
      /\ \A c \in Blocks : c # bb1 => flash'[c] = flash[c]
  BY <1>0, WriteEffect DEF CopyPage, FInv
<1>2. flash'[Backup2] = flash[Backup2]
  BY <1>1, RoleFacts, ConstantFacts
<1>3. /\ pc = "copy" /\ pc' = (IF todo' = {} THEN "mark2" ELSE "copy")
      /\ todo' = todo \ {p}
      /\ UNCHANGED <<device, job, loose>>
  BY DEF CopyPage, Go
<1>4. MarkerCopy' /\ OthersLoose'
  BY <1>0, <1>3, CompletedWrite, OthersKept DEF CopyPage, FlushSteps
<1>5. bb1 = Backup1 =>
        \A q \in Pages :
          flash'[Backup1][q] = IF q \in todo' THEN Erased ELSE job.new[q]
  BY <1>0, <1>1, <1>3 DEF AInv, Opening, Filled, Programmed
<1>6. bb1 = Backup1 /\ todo' = {} => flash'[Backup1] = job.new
  <2>1. flash'[Backup1] \in RawContents
    BY <1>1, ConstantFacts
  <2> QED
    BY <2>1, <1>0, <1>5, Complete
<1>7. Opening'
  BY <1>2, <1>3, <1>5, <1>6 DEF AInv, Opening, InPlace, Filled, device
<1>8. Sealed' /\ Restoring'
  BY <1>3 DEF Sealed, Closing, Restoring
<1> QED
  BY <1>4, <1>7, <1>8 DEF AInv

(* The step that takes the target out of loose, when its markers are both  *)
(* there and the copy is.                                                  *)
LEMMA Marker2Effect ==
  ASSUME FInv, AInv, WriteMarker2
  PROVE  /\ job.block \in DataBlocks /\ job.new \in Contents
         /\ pc = "mark2" /\ pc' = "eraseT" /\ UNCHANGED <<device, job>>
         /\ Interrupted
         /\ flash'[Backup1] = flash[Backup1]
         /\ \A c \in DataBlocks : flash'[c] = flash[c]
         /\ bb1 = Backup1 => flash[Backup1] = job.new
         /\ bb2 = Backup2 =>
              /\ flash[Backup2][0] \in {job.block, Bad}
              /\ flash'[Backup2][0] = flash[Backup2][0]
              /\ flash'[Backup2][1] = Programmed(flash[Backup2][1], job.block)
         /\ job.block \notin loose =>
              /\ InPlace
              /\ flash'[Backup2][0] = job.block /\ flash'[Backup2][1] = job.block
         /\ \/ loose' = loose
            \/ /\ loose' = loose \ {job.block} /\ InPlace
               /\ flash'[Backup2][0] = job.block /\ flash'[Backup2][1] = job.block
<1>0. job.block \in DataBlocks /\ job.block \in PageValues /\ job.new \in Contents
  BY ConstantFacts DEF WriteMarker2, FInv, RewriteOK, Journal, FlushSteps
<1>1. /\ bb2 \in Blocks
      /\ flash'[bb2][1] = Programmed(flash[bb2][1], job.block)
      /\ \A q \in Pages : q # 1 => flash'[bb2][q] = flash[bb2][q]
      /\ \A c \in Blocks : c # bb2 => flash'[c] = flash[c]
  BY <1>0, WriteEffect, ConstantFacts DEF WriteMarker2, FInv
<1>2. /\ flash'[Backup1] = flash[Backup1]
      /\ \A c \in DataBlocks : flash'[c] = flash[c]
  BY <1>1, RoleFacts, ConstantFacts
<1>3. Interrupted
  BY <1>0, CompletedWrite, ConstantFacts DEF WriteMarker2
<1>4. pc = "mark2" /\ pc' = "eraseT" /\ UNCHANGED <<device, job>>
  BY DEF WriteMarker2, Go
<1>5. /\ bb1 = Backup1 => flash[Backup1] = job.new
      /\ bb2 = Backup2 =>
           /\ flash[Backup2][0] \in {job.block, Bad}
           /\ flash'[Backup2][0] = flash[Backup2][0]
           /\ flash'[Backup2][1] = Programmed(flash[Backup2][1], job.block)
  BY <1>1, <1>4, ConstantFacts DEF AInv, Opening
<1>6. job.block \notin loose =>
        /\ InPlace
        /\ flash'[Backup2][0] = job.block /\ flash'[Backup2][1] = job.block
  BY <1>4, <1>5, ConstantFacts DEF AInv, Opening, InPlace, Programmed
<1>7. \/ loose' = loose
      \/ /\ loose' = loose \ {job.block} /\ InPlace
         /\ flash'[Backup2][0] = job.block /\ flash'[Backup2][1] = job.block
  BY DEF WriteMarker2, InPlace
<1> QED
  BY <1>0, <1>2, <1>3, <1>4, <1>5, <1>6, <1>7

LEMMA Marker2AInv ==
  ASSUME FInv, AInv, WriteMarker2
  PROVE  AInv'
<1>1. CASE loose' = loose
  <2>1. MarkerCopy' /\ OthersLoose'
    BY <1>1, Marker2Effect, OthersKept DEF FlushSteps
  <2>2. Opening' /\ Restoring'
    BY Marker2Effect DEF Opening, Restoring
  <2>3. Sealed'
    BY <1>1, Marker2Effect
    DEF Sealed, Closing, InPlace, Named, device, Programmed
  <2> QED
    BY <2>1, <2>2, <2>3 DEF AInv
<1>2. CASE /\ loose' = loose \ {job.block} /\ InPlace
           /\ flash'[Backup2][0] = job.block /\ flash'[Backup2][1] = job.block
  <2>1. flash'[Backup1] = job.new /\ job.new \in Contents
    BY <1>2, Marker2Effect DEF InPlace
  <2>2. \A b \in DataBlocks : Named(b)' => b = job.block
    BY <1>2 DEF Named
  <2>3. MarkerCopy' /\ OthersLoose'
    BY <1>2, <2>1, <2>2, Marker2Effect DEF MarkerCopy, OthersLoose, Named
  <2>4. Opening' /\ Restoring'
    BY Marker2Effect DEF Opening, Restoring
  <2>5. Sealed'
    BY <1>2, <2>1, Marker2Effect DEF Sealed, Closing, InPlace, Named, device
  <2> QED
    BY <2>3, <2>4, <2>5 DEF AInv
<1> QED
  BY <1>1, <1>2, Marker2Effect

LEMMA Marker2Refines ==
  ASSUME FInv, FInv', AInv, WriteMarker2
  PROVE  Store!Next
<1>1. CASE loose' = loose
  BY <1>1, Marker2Effect, CommandRefines
<1>2. ASSUME NEW b \in DataBlocks, b = job.block,
             loose' = loose \ {b}, InPlace,
             flash'[Backup2][0] = b, flash'[Backup2][1] = b
      PROVE  Store!Next
  <2>1. /\ flash[Backup2][0] = b /\ flash'[Backup1] \in Contents
        /\ flash'[Backup1] = flash[Backup1]
        /\ \A c \in DataBlocks : flash'[c] = flash[c]
    BY <1>2, Marker2Effect DEF InPlace
  <2>2. \A c \in DataBlocks : c # b => ~Named(c) /\ ~Named(c)'
    BY <1>2, <2>1 DEF Named
  <2>3. \A c \in DataBlocks : c # b => Logical(c)' = Logical(c)
    BY <2>1, <2>2 DEF Logical
  <2>4. Logical(b)' \in Contents
    BY <1>2, <2>1 DEF Logical, Named
  <2> QED
    BY <1>2, <2>3, <2>4, BlockIsWritten
<1> QED
  BY <1>1, <1>2, Marker2Effect

LEMMA EraseTargetAInv ==
  ASSUME FInv, AInv, EraseTarget
  PROVE  AInv'
<1>1. /\ job.block \in Blocks \ {Backup2}
      /\ \A c \in Blocks : c # job.block => flash'[c] = flash[c]
  BY EraseEffect DEF EraseTarget, FInv, RewriteOK, FlushSteps
<1>2. /\ flash'[Backup2] = flash[Backup2]
      /\ job.block # Backup1 => flash'[Backup1] = flash[Backup1]
  BY <1>1, ConstantFacts
<1>3. /\ pc = "eraseT" /\ pc' = "writeT" /\ loose' = Loosened
      /\ UNCHANGED <<device, job>> /\ loose \subseteq loose'
  BY DEF EraseTarget, Go, Loosened, Exposed
<1>4. MarkerCopy' /\ OthersLoose'
  BY <1>3, CompletedErase, OthersKept DEF EraseTarget, FlushSteps
<1>5. Opening' /\ Restoring'
  BY <1>3 DEF Opening, Restoring
<1>6. Sealed'
  <2>1. Journalling' <=> Journalling
    BY <1>3 DEF Journalling, device
  <2>2. Journalling => job.block \in DataBlocks
    BY <1>3 DEF FInv, RewriteOK
  <2>3. Journalling /\ job.block \notin loose' =>
          InPlace' /\ Named(job.block) /\ flash[Backup1] = job.new
    BY <1>3 DEF AInv, Sealed, Closing, InPlace, device
  <2>4. Journalling /\ bb2 = Backup2 =>
          \A p \in {0, 1} : flash[Backup2][p] \in {job.block, Bad}
    BY <1>3 DEF AInv, Sealed, Closing
  <2>5. job.block \in DataBlocks \ loose' => Journalling
    BY <1>3 DEF Loosened, Exposed, Protected
  <2> QED
    BY <1>2, <1>3, <2>1, <2>2, <2>3, <2>4, <2>5, ConstantFacts
    DEF Sealed, Closing, Named, device
<1> QED
  BY <1>4, <1>5, <1>6 DEF AInv

LEMMA WriteTargetEffect ==
  ASSUME FInv, NEW p \in Pages, WriteTargetPage(p)
  PROVE  /\ pc = "writeT" /\ UNCHANGED <<device, job>> /\ Interrupted
         /\ job.block \in Blocks \ {Backup2} /\ job.new \in Contents
         /\ flash'[Backup2] = flash[Backup2]
         /\ job.block # Backup1 => flash'[Backup1] = flash[Backup1]
         /\ \A c \in DataBlocks : c # job.block => flash'[c] = flash[c]
         /\ \/ /\ pc' = "writeT" /\ loose' = loose
            \/ /\ pc' = "eraseB2" /\ loose' = loose /\ Journalling
            \/ /\ pc' = "idle" /\ loose' = Settled /\ ~Journalling
               /\ result' = "succeed"
<1>0. /\ job.new \in Contents /\ job.new[p] \in PageValues
      /\ job.block \in Blocks \ {Backup2}
  BY ConstantFacts DEF WriteTargetPage, FInv, RewriteOK, FlushSteps, Contents
<1>1. \A c \in Blocks : c # job.block => flash'[c] = flash[c]
  BY <1>0, WriteEffect DEF WriteTargetPage, FInv
<1>2. Interrupted
  BY <1>0, CompletedWrite DEF WriteTargetPage
<1>3. \/ /\ pc' = "writeT" /\ loose' = loose
      \/ /\ pc' = "eraseB2" /\ loose' = loose /\ Journalling
      \/ /\ pc' = "idle" /\ loose' = Settled /\ ~Journalling
         /\ result' = "succeed"
  BY DEF WriteTargetPage, Go, Return
<1>4. pc = "writeT" /\ UNCHANGED <<device, job>>
  BY DEF WriteTargetPage
<1> QED
  BY <1>0, <1>1, <1>2, <1>3, <1>4, ConstantFacts

LEMMA WriteTargetAInv ==
  ASSUME FInv, AInv, NEW p \in Pages, WriteTargetPage(p)
  PROVE  AInv'
<1>0. Journalling' <=> Journalling
  BY WriteTargetEffect DEF Journalling, device
<1>1. CASE pc' \in {"writeT", "eraseB2"}
  <2>1. /\ loose' = loose /\ pc = "writeT" /\ UNCHANGED <<device, job>>
        /\ pc' = "eraseB2" => Journalling
    BY <1>1, WriteTargetEffect
  <2>2. MarkerCopy' /\ OthersLoose'
    BY <2>1, WriteTargetEffect, OthersKept DEF FlushSteps
  <2>3. Opening' /\ Restoring'
    BY <1>1 DEF Opening, Restoring
  <2>4. Sealed'
    <3>1. Journalling => job.block \in DataBlocks
      BY <2>1 DEF FInv, RewriteOK
    <3>2. /\ Journalling /\ job.block \notin loose =>
               InPlace /\ Named(job.block) /\ flash[Backup1] = job.new
          /\ Journalling /\ bb2 = Backup2 =>
               \A q \in {0, 1} : flash[Backup2][q] \in {job.block, Bad}
          /\ job.block \in DataBlocks \ loose => Journalling
      BY <2>1 DEF AInv, Sealed, Closing
    <3>3. flash'[Backup2] = flash[Backup2]
          /\ (Journalling => flash'[Backup1] = flash[Backup1])
      BY <3>1, WriteTargetEffect, ConstantFacts
    <3> QED
      BY <1>0, <1>1, <2>1, <3>2, <3>3 DEF Sealed, Closing, InPlace, Named, device
  <2> QED
    BY <2>2, <2>3, <2>4 DEF AInv
<1>2. CASE pc' = "idle"
  <2>1. loose' = Settled /\ flash'[Backup2] = flash[Backup2] /\ Interrupted
    BY <1>2, WriteTargetEffect
  <2>2. MarkerCopy'
    <3>1. CASE JournalErased
      BY <2>1, <3>1, ConstantFacts DEF JournalErased, MarkerCopy, Named
    <3>2. CASE ~JournalErased
      <4>1. loose' = loose
        BY <2>1, <3>2 DEF Settled
      <4> QED
        BY <1>2, <2>1, <4>1, OthersKept DEF FlushSteps
    <3> QED
      BY <3>1, <3>2
  <2>3. OthersLoose' /\ Opening' /\ Sealed' /\ Restoring'
    BY <1>2 DEF OthersLoose, Opening, Sealed, Closing, Restoring, FlushSteps
  <2> QED
    BY <2>2, <2>3 DEF AInv
<1> QED
  BY <1>1, <1>2, WriteTargetEffect

LEMMA WriteTargetRefines ==
  ASSUME FInv, FInv', AInv, NEW p \in Pages, WriteTargetPage(p)
  PROVE  Store!Next
<1>1. CASE loose' = loose
  BY <1>1, WriteTargetEffect, CommandRefines
<1>2. CASE loose' # loose
  <2>1. /\ loose' = Settled /\ result' = "succeed" /\ UNCHANGED job
        /\ flash'[Backup2] = flash[Backup2]
        /\ job.new \in Contents
        /\ \A c \in DataBlocks : c # job.block => flash'[c] = flash[c]
    BY <1>2, WriteTargetEffect
  <2>2. JournalErased /\ loose' = loose \ {job.block} /\ job.block \in loose
    BY <1>2, <2>1 DEF Settled
  <2>3. PICK b \in DataBlocks : b = job.block
    BY <2>2 DEF FInv, TypeOK
  <2>4. flash'[b] = job.new
    BY <2>1, <2>3 DEF FInv, TargetOK
  <2>5. \A c \in DataBlocks : ~Named(c) /\ ~Named(c)'
    BY <2>1, <2>2, ConstantFacts DEF JournalErased, Named
  <2>6. \A c \in DataBlocks : c # b => Logical(c)' = Logical(c)
    BY <2>1, <2>3, <2>5 DEF Logical
  <2>7. Logical(b)' \in Contents
    BY <2>1, <2>4, <2>5 DEF Logical
  <2> QED
    BY <2>2, <2>3, <2>6, <2>7, BlockIsWritten
<1> QED
  BY <1>1, <1>2

LEMMA ClosingEraseAInv ==
  ASSUME FInv, AInv, EraseBackup2
  PROVE  AInv'
<1>1. pc = "eraseB2" /\ pc' = "idle" /\ Interrupted
  BY CompletedErase DEF EraseBackup2, Return
<1>2. \/ loose' = loose
      \/ loose' = loose \ {job.block} /\ JournalErased'
  BY DEF EraseBackup2
<1>3. MarkerCopy'
  <2>1. CASE loose' = loose
    BY <1>1, <2>1, OthersKept DEF FlushSteps
  <2>2. CASE JournalErased'
    BY <2>2, ConstantFacts DEF JournalErased, MarkerCopy, Named
  <2> QED
    BY <1>2, <2>1, <2>2
<1>4. OthersLoose' /\ Opening' /\ Sealed' /\ Restoring'
  BY <1>1 DEF OthersLoose, Opening, Sealed, Closing, Restoring, FlushSteps
<1> QED
  BY <1>3, <1>4 DEF AInv

LEMMA ClosingEraseRefines ==
  ASSUME FInv, FInv', AInv, EraseBackup2
  PROVE  Store!Next
<1>1. /\ pc = "eraseB2" /\ Interrupted
      /\ job.block \in DataBlocks /\ job.new \in Contents
      /\ flash[job.block] = job.new
  BY CompletedErase
  DEF EraseBackup2, FInv, RewriteOK, TargetOK, Journal, FlushSteps
<1>2. CASE loose' = loose
  BY <1>1, <1>2, CommandRefines
<1>3. CASE loose' # loose
  <2>1. loose' = loose \ {job.block} /\ JournalErased'
    BY <1>3 DEF EraseBackup2
  <2>2. PICK b \in DataBlocks : b = job.block
    BY <1>1
  <2>3. \A c \in Blocks : c # bb2 => flash'[c] = flash[c]
    BY EraseEffect DEF EraseBackup2, FInv
  <2>4. \A c \in DataBlocks : flash'[c] = flash[c]
    BY <2>3, RoleFacts, ConstantFacts
  <2>5. \A c \in DataBlocks : ~Named(c)'
    BY <2>1, ConstantFacts DEF JournalErased, Named
  <2>6. \A c \in DataBlocks : c # b => ~Named(c)
    <3>1. CASE bb2 = Backup2
      BY <1>1, <2>2, <3>1, ConstantFacts DEF AInv, Sealed, Closing, Named
    <3>2. CASE bb2 # Backup2
      <4>1. flash'[Backup2] = flash[Backup2]
        BY <2>3, <3>2, ConstantFacts
      <4> QED
        BY <2>5, <4>1 DEF Named
    <3> QED
      BY <3>1, <3>2
  <2>7. \A c \in DataBlocks : c # b => Logical(c)' = Logical(c)
    BY <2>4, <2>5, <2>6 DEF Logical
  <2>8. Logical(b)' \in Contents
    BY <1>1, <2>2, <2>4, <2>5 DEF Logical
  <2> QED
    BY <2>1, <2>2, <2>7, <2>8, BlockIsWritten
<1> QED
  BY <1>2, <1>3

LEMMA FillAInv ==
  ASSUME FInv, AInv,
         FillEraseBackup2 \/ FillEraseBackup1 \/ \E p \in Pages : FillPage(p)
  PROVE  AInv' /\ Interrupted /\ pc \in FlushSteps \ {"eraseT"} /\ loose' = loose
<1>1. Interrupted
  <2>1. CASE FillEraseBackup2 \/ FillEraseBackup1
    BY <2>1, CompletedErase DEF FillEraseBackup2, FillEraseBackup1
  <2>2. ASSUME NEW p \in Pages, FillPage(p) PROVE Interrupted
    <3>1. job.new[p] \in PageValues
      BY <2>2, ConstantFacts DEF FillPage, FInv, RewriteOK, FlushSteps, Contents
    <3> QED
      BY <2>2, <3>1, CompletedWrite DEF FillPage
  <2> QED
    BY <2>1, <2>2
<1>2. /\ pc \in {"fillE2", "fillE1", "fillW"} /\ loose' = loose
      /\ pc' \in {"fillE1", "fillW", "idle"}
      /\ pc' # "idle" => job' = job
  BY DEF FillEraseBackup2, FillEraseBackup1, FillPage, Go, Return
<1>3. MarkerCopy' /\ OthersLoose'
  BY <1>1, <1>2, OthersKept DEF FlushSteps
<1>4. Opening' /\ Sealed' /\ Restoring'
  BY <1>2 DEF AInv, Opening, Sealed, Closing, Restoring
<1> QED
  BY <1>1, <1>2, <1>3, <1>4 DEF AInv, FlushSteps

LEMMA BeginAInv ==
  ASSUME FInv, AInv, NEW b \in DataBlocks, BeginFlush(b) \/ BeginFlushUnreadable(b)
  PROVE  AInv' /\ flash' = flash /\ loose \subseteq loose'
<1>1. CASE BeginFlush(b)
  <2>1. PICK blk \in LabelsOf(b) \cap Blocks, dirty \in SUBSET Pages,
             flag \in BOOLEAN, new \in Contents :
          /\ job' = [block |-> blk, new |-> new, dirty |-> dirty, flag |-> flag]
          /\ Go(IF flag /\ badblock \notin Blocks THEN "eraseB1" ELSE "eraseT")
          /\ loose' = AtRisk(blk)
    BY <1>1 DEF BeginFlush, NewContents
  <2>2. /\ UNCHANGED <<flash, device>> /\ loose \subseteq loose'
        /\ job'.block = blk /\ job'.flag = flag
        /\ pc' = IF flag /\ badblock \notin Blocks THEN "eraseB1" ELSE "eraseT"
    BY <1>1, <2>1 DEF BeginFlush, AtRisk, Go
  <2>3. badblock \notin Blocks => blk \in DataBlocks
    BY <2>1, ConstantFacts DEF LabelsOf
  <2>4. MarkerCopy'
    BY <2>2 DEF AInv, MarkerCopy, Named
  <2>5. \A c \in DataBlocks : Named(c) => c \in loose'
    BY <2>1, ConstantFacts DEF AtRisk, JournalErased, Named
  <2>6. OthersLoose'
    BY <2>2, <2>5 DEF OthersLoose, Named
  <2>7. pc' = "eraseB1" /\ blk \notin loose' => InPlace /\ JournalErased
    BY <2>1, <2>2, <2>3 DEF AtRisk
  <2>8. Opening'
    BY <2>2, <2>7 DEF Opening, InPlace, JournalErased, device
  <2>9. Sealed' /\ Restoring'
    BY <2>2 DEF Sealed, Closing, Journalling, Restoring, device
  <2> QED
    BY <2>2, <2>4, <2>6, <2>8, <2>9 DEF AInv
<1>2. CASE BeginFlushUnreadable(b)
  BY <1>2
  DEF BeginFlushUnreadable, Return, device, AInv, MarkerCopy, OthersLoose,
      Opening, Sealed, Closing, Restoring, Named, FlushSteps
<1> QED
  BY <1>1, <1>2

LEMMA CheckAInv ==
  ASSUME FInv, AInv, Connect \/ CheckNothingToDo \/ CheckDrop \/ CheckRestore
  PROVE  AInv' /\ flash' = flash /\ loose \subseteq loose'
<1>1. /\ flash' = flash /\ loose \subseteq loose'
      /\ pc' \in {"check", "idle", "recB2", "recErase"}
  BY DEF Connect, CheckNothingToDo, CheckDrop, CheckRestore, Doubted, Go
<1>2. MarkerCopy' /\ OthersLoose' /\ Opening' /\ Sealed'
  BY <1>1
  DEF AInv, MarkerCopy, OthersLoose, Opening, Sealed, Closing, Named, FlushSteps
<1>3. CASE Connect \/ CheckNothingToDo
  BY <1>1, <1>2, <1>3 DEF Connect, CheckNothingToDo, Go, AInv, Restoring
<1>4. CASE CheckDrop
  <2>1. bb2 = Backup2 /\ pc' = "recB2" /\ loose' = Doubted
    BY <1>4 DEF CheckDrop, Go, FInv, BackupsOK
  <2>2. \A b \in DataBlocks : Named(b) => b \in loose'
    BY <1>4, <2>1, ConstantFacts
    DEF CheckDrop, DropCopy, OneMarkerOnly, Marker, Doubted, Named
  <2>3. Restoring'
    BY <1>1, <2>1, <2>2 DEF Restoring, Named
  <2> QED
    BY <1>1, <1>2, <2>3 DEF AInv
<1>5. CASE CheckRestore
  <2>0. bb1 = Backup1 /\ bb2 = Backup2
    BY <1>5 DEF CheckRestore, FInv, BackupsOK
  <2>1. PICK c \in CopyAsRead :
          job' = [block |-> MarkedBlock, new |-> c, dirty |-> {}, flag |-> TRUE]
    BY <1>5 DEF CheckRestore
  <2>2. /\ pc' = "recErase" /\ todo' = Pages /\ loose' = Doubted
        /\ job'.block = MarkedBlock /\ job'.new = c
    BY <1>5, <2>1 DEF CheckRestore, Go
  <2>3. \A b \in DataBlocks : Named(b) => b = MarkedBlock
    BY <2>0, ConstantFacts DEF Named, MarkedBlock, Marker
  <2>4. ASSUME MarkedBlock \in DataBlocks, MarkedBlock \notin loose'
        PROVE  Named(MarkedBlock) /\ flash[Backup1] = c
    <3>1. flash[Backup2][0] = MarkedBlock
      BY <2>0, <2>4, ConstantFacts DEF MarkedBlock, Marker
    <3>2. flash[Backup2][1] \in DataBlocks
      BY <1>5, <2>0, <2>4, <3>1, ConstantFacts
      DEF CheckRestore, OneMarkerOnly, Marker, FInv, MarkersOnly
    <3>3. flash[Backup2][1] = MarkedBlock
      BY <1>1, <2>4, <3>1, <3>2 DEF AInv, MarkerCopy
    <3>4. Named(MarkedBlock)
      BY <3>1, <3>3 DEF Named
    <3>5. flash[Backup1] \in Contents
      BY <1>1, <2>4, <3>4 DEF AInv, MarkerCopy
    <3>6. "recovery" \notin Faults
      BY <2>2, <2>4, <3>4 DEF Doubted
    <3>7. c \in Contents /\ \A p \in Pages : c[p] = flash[Backup1][p]
      BY <2>0, <2>1, <3>5, <3>6 DEF CopyAsRead, Contents
    <3> QED
      BY <3>4, <3>5, <3>7, Complete, ConstantFacts
  <2>5. Restoring'
    BY <1>1, <2>2, <2>3, <2>4 DEF Restoring, Named
  <2> QED
    BY <1>1, <1>2, <2>5 DEF AInv
<1> QED
  BY <1>3, <1>4, <1>5

LEMMA RestoreAInv ==
  ASSUME FInv, AInv,
         RecoverEraseTarget \/ RecoverEraseBackup2 \/ \E p \in Pages : RecoverPage(p)
  PROVE  AInv' /\ Interrupted /\ pc # "eraseT" /\ loose' = loose
<1>1. CASE RecoverEraseTarget
  <2>1. /\ pc = "recErase" /\ pc' = "recWrite" /\ Erase(job.block)
        /\ UNCHANGED <<device, job, todo, loose>>
    BY <1>1 DEF RecoverEraseTarget, Go
  <2>2. /\ job.block \in DataBlocks
        /\ flash'[job.block] = Blank
        /\ \A c \in Blocks : c # job.block => flash'[c] = flash[c]
    BY <2>1, EraseEffect, ConstantFacts DEF FInv, RewriteOK, Erase
  <2>3. flash'[Backup1] = flash[Backup1] /\ flash'[Backup2] = flash[Backup2]
    BY <2>2, ConstantFacts
  <2>4. Interrupted
    BY <2>1, CompletedErase
  <2>5. MarkerCopy' /\ OthersLoose'
    BY <2>1, <2>4, OthersKept DEF FlushSteps
  <2>6. Opening' /\ Sealed'
    BY <2>1 DEF Opening, Sealed, Closing
  <2>7. todo = Pages /\ Filled(job.block)'
    BY <2>1, <2>2 DEF AInv, Restoring, Filled, Blank
  <2>8. Restoring'
    BY <2>1, <2>2, <2>3, <2>7 DEF AInv, Restoring, Named, Filled
  <2> QED
    BY <2>1, <2>4, <2>5, <2>6, <2>8 DEF AInv
<1>2. ASSUME NEW p \in Pages, RecoverPage(p)
      PROVE  AInv' /\ Interrupted /\ pc # "eraseT" /\ loose' = loose
  <2>1. /\ pc = "recWrite" /\ todo' = todo \ {p}
        /\ pc' = (IF todo' = {} THEN "recB2" ELSE "recWrite")
        /\ Write(job.block, p, job.new[p]) /\ p \in todo
        /\ UNCHANGED <<device, job, loose>>
    BY <1>2 DEF RecoverPage, Go, Write, Writing, IsNext
  <2>2. /\ job.block \in DataBlocks /\ job.new \in Contents
        /\ job.new[p] \in PageValues /\ Filled(job.block)
    BY <2>1, ConstantFacts DEF AInv, Restoring, FInv, RewriteOK, Contents
  <2>3. /\ flash' \in [Blocks -> RawContents]
        /\ flash'[job.block][p] = Programmed(flash[job.block][p], job.new[p])
        /\ \A q \in Pages : q # p => flash'[job.block][q] = flash[job.block][q]
        /\ \A c \in Blocks : c # job.block => flash'[c] = flash[c]
    BY <2>1, <2>2, WriteEffect DEF FInv
  <2>4. flash'[Backup1] = flash[Backup1] /\ flash'[Backup2] = flash[Backup2]
    BY <2>2, <2>3, ConstantFacts
  <2>5. Interrupted
    BY <2>1, <2>2, CompletedWrite
  <2>6. MarkerCopy' /\ OthersLoose'
    BY <2>1, <2>5, OthersKept DEF FlushSteps
  <2>7. Opening' /\ Sealed'
    BY <2>1 DEF Opening, Sealed, Closing
  <2>8. \A q \in Pages :
          flash'[job.block][q] = IF q \in todo' THEN Erased ELSE job.new[q]
    BY <2>1, <2>2, <2>3 DEF Filled, Programmed
  <2>9. todo' = {} => flash'[job.block] = job.new
    <3>1. flash'[job.block] \in RawContents
      BY <2>2, <2>3, ConstantFacts
    <3> QED
      BY <3>1, <2>2, <2>8, Complete
  <2>10. Restoring'
    <3>1. /\ \A b \in DataBlocks : Named(b) => b = job.block
          /\ job.block \notin loose => flash[Backup1] = job.new /\ Named(job.block)
      BY <2>1, <2>2 DEF AInv, Restoring
    <3>2. CASE todo' = {}
      BY <2>1, <2>4, <2>9, <3>1, <3>2 DEF Restoring, Named
    <3>3. CASE todo' # {}
      BY <2>1, <2>2, <2>4, <2>8, <3>1, <3>3 DEF Restoring, Named, Filled
    <3> QED
      BY <3>2, <3>3
  <2> QED
    BY <2>1, <2>5, <2>6, <2>7, <2>10 DEF AInv
<1>3. CASE RecoverEraseBackup2
  <2>1. Interrupted /\ pc = "recB2" /\ pc' = "idle" /\ loose' = loose
    BY <1>3, CompletedErase DEF RecoverEraseBackup2, Go
  <2>2. MarkerCopy' /\ OthersLoose'
    BY <2>1, OthersKept DEF FlushSteps
  <2>3. Opening' /\ Sealed' /\ Restoring'
    BY <2>1 DEF Opening, Sealed, Closing, Restoring
  <2> QED
    BY <2>1, <2>2, <2>3 DEF AInv
<1> QED
  BY <1>1, <1>2, <1>3

(* A command fails, or the power does.                                     *)
LEMMA FailureAInv ==
  ASSUME FInv, AInv, CommandFails \/ CommandFailReplace \/ PowerCut
  PROVE  /\ AInv' /\ Interrupted
         /\ \/ pc # "eraseT" /\ loose' = loose
            \/ pc \in FlushSteps /\ loose' = Exposed
            \/ pc = "eraseT" /\ loose' = Loosened
<1>1. Interrupted
  BY DEF CommandFails, CommandFailReplace, PowerCut, Interrupted
<1>2. CASE pc' \in {"off", "idle"}
  <2>1. \/ pc # "eraseT" /\ loose' = loose
        \/ pc \in FlushSteps /\ loose' = Exposed
        \/ pc = "eraseT" /\ loose' = Loosened
    BY <1>2
    DEF CommandFails, CommandFailReplace, PowerCut, ReplaceBackup1,
        ReplaceBackup2, TargetBad, Go, Return, FlushSteps, RecoverySteps
  <2>2. loose \subseteq loose'
    BY <2>1 DEF Exposed, Loosened
  <2>3. MarkerCopy' /\ OthersLoose'
    BY <1>1, <1>2, <2>2, OthersKept DEF FlushSteps
  <2>4. Opening' /\ Sealed' /\ Restoring'
    BY <1>2 DEF Opening, Sealed, Closing, Restoring
  <2> QED
    BY <1>1, <2>1, <2>3, <2>4 DEF AInv
<1>3. CASE pc' \notin {"off", "idle"}
  <2>1. /\ pc \in FlushSteps /\ loose' = Exposed /\ job' = job
        /\ \/ pc \in Journal /\ pc' = "eraseB1"
           \/ pc' = "fillE2"
    BY <1>3
    DEF CommandFails, CommandFailReplace, PowerCut, ReplaceBackup1,
        ReplaceBackup2, TargetBad, Go, Return, FlushSteps, RecoverySteps, Journal
  <2>2. loose \subseteq loose' /\ (job.block \in DataBlocks => job.block \in loose')
    BY <2>1 DEF Exposed
  <2>3. MarkerCopy' /\ OthersLoose'
    BY <1>1, <2>1, <2>2, OthersKept
  <2>4. pc' = "eraseB1" => job.block \in DataBlocks
    BY <2>1 DEF FInv, RewriteOK
  <2>5. Opening' /\ Sealed' /\ Restoring'
    BY <2>1, <2>2, <2>4 DEF Opening, Sealed, Closing, Restoring
  <2> QED
    BY <1>1, <2>1, <2>3, <2>5 DEF AInv
<1> QED
  BY <1>2, <1>3

(* Every step is one of the abstract store.                                *)
LEMMA StepRefinesUnderFaults ==
  ASSUME FInv, FInv', AInv, [Next]_vars
  PROVE  AInv' /\ [Store!Next]_(Store!vars)
<1>0. loose' \in SUBSET DataBlocks
  BY DEF FInv, TypeOK
<1>1. CASE \E p \in Pages : WriteTargetPage(p)
  BY <1>1, WriteTargetAInv, WriteTargetRefines
<1>2. CASE WriteMarker2
  BY <1>2, Marker2AInv, Marker2Refines
<1>3. CASE EraseBackup2
  BY <1>3, ClosingEraseAInv, ClosingEraseRefines
<1>4. CASE EraseTarget
  <2>1. Interrupted /\ pc = "eraseT" /\ loose' = Loosened
    BY <1>4, CompletedErase DEF EraseTarget
  <2> QED
    BY <1>4, <2>1, EraseTargetAInv, CommandRefines
<1>5. CASE EraseBackup1
  <2>1. Interrupted /\ pc # "eraseT" /\ loose' = loose
    BY <1>5, CompletedErase DEF EraseBackup1
  <2> QED
    BY <1>5, <2>1, OpeningEraseAInv, CommandRefines
<1>6. CASE WriteMarker1
  <2>1. job.block \in PageValues
    BY <1>6, ConstantFacts DEF WriteMarker1, FInv, RewriteOK, Journal
  <2>2. Interrupted /\ pc # "eraseT" /\ loose' = loose
    BY <1>6, <2>1, CompletedWrite, ConstantFacts DEF WriteMarker1
  <2> QED
    BY <1>6, <2>2, Marker1AInv, CommandRefines
<1>7. ASSUME NEW p \in Pages, CopyPage(p)
      PROVE  AInv' /\ Store!Next
  <2>1. job.new[p] \in PageValues
    BY <1>7, ConstantFacts DEF CopyPage, FInv, RewriteOK, FlushSteps, Contents
  <2>2. Interrupted /\ pc # "eraseT" /\ loose' = loose
    BY <1>7, <2>1, CompletedWrite DEF CopyPage
  <2> QED
    BY <1>7, <2>2, CopyAInv, CommandRefines
<1>8. CASE FillEraseBackup2 \/ FillEraseBackup1 \/ \E p \in Pages : FillPage(p)
  BY <1>8, FillAInv, CommandRefines
<1>9. CASE RecoverEraseTarget \/ RecoverEraseBackup2 \/ \E p \in Pages : RecoverPage(p)
  BY <1>9, RestoreAInv, CommandRefines
<1>10. CASE CommandFails \/ CommandFailReplace \/ PowerCut
  BY <1>10, FailureAInv, CommandRefines
<1>11. ASSUME AInv', flash' = flash, loose \subseteq loose'
       PROVE  AInv' /\ Store!Next
  <2>1. \A b \in DataBlocks : Logical(b)' = Logical(b)
    BY <1>11 DEF Logical, Named
  <2> QED
    BY <1>0, <1>11, <2>1, NothingChanges
<1>12. CASE Connect \/ CheckNothingToDo \/ CheckDrop \/ CheckRestore
  BY <1>11, <1>12, CheckAInv
<1>13. ASSUME NEW b \in DataBlocks, BeginFlush(b) \/ BeginFlushUnreadable(b)
       PROVE  AInv' /\ Store!Next
  BY <1>11, <1>13, BeginAInv
<1>14. CASE UNCHANGED vars
  <2>1. AInv'
    BY <1>14
    DEF vars, device, AInv, MarkerCopy, OthersLoose, Opening, Sealed, Closing,
        Restoring, Named, Filled, InPlace, JournalErased, Journalling
  <2> QED
    BY <1>11, <1>14, <2>1 DEF vars
<1> QED
  BY <1>1, <1>2, <1>3, <1>4, <1>5, <1>6, <1>7, <1>8, <1>9, <1>10, <1>12,
     <1>13, <1>14
  DEF Next, ProgramStep, HostStep, FlushStep, RecoveryStep

(* Seen through the recovery a flush is atomic, whatever commands fail and *)
(* whatever power cuts happen: the blocks that can be lost are those       *)
(* AtRisk and Exposed name, and no others.                                 *)
THEOREM WriteBackIsAtomic == Spec => WritesAreAtomic
<1>1. Init => Store!Init /\ AInv
  <2> SUFFICES ASSUME Init PROVE Store!Init /\ AInv
    OBVIOUS
  <2>1. PICK old \in [DataBlocks \cup SpareBlocks -> Contents] :
          flash = [b \in Blocks |->
                     IF b \in {Backup1, Backup2} THEN Blank ELSE old[b]]
    BY DEF Init
  <2>2. /\ \A b \in DataBlocks : flash[b] \in Contents
        /\ flash[Backup2] = Blank /\ Blank[0] = Erased /\ Blank[1] = Erased
    BY <2>1, ConstantFacts DEF Blank
  <2>3. \A b \in DataBlocks : ~Named(b)
    BY <2>2, ConstantFacts DEF Named
  <2>4. \A b \in DataBlocks : Logical(b) \in Contents
    BY <2>2, <2>3 DEF Logical
  <2>5. AInv
    BY <2>2, <2>3, ConstantFacts
    DEF Init, AInv, MarkerCopy, OthersLoose, Opening, Sealed, Closing,
        Restoring, FlushSteps
  <2> QED
    BY <2>4, <2>5 DEF Init, Store!Init
<1>2. FInv /\ FInv' /\ AInv /\ [Next]_vars => AInv' /\ [Store!Next]_(Store!vars)
  BY StepRefinesUnderFaults
<1> QED
  BY <1>1, <1>2, FaultInvHolds, PTL DEF Spec, WritesAreAtomic, Store!Spec
=============================================================================
