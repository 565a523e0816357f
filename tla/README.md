# A TLA+ verification of Anthony

Anthony is a pair of Windows programs that read and write memory cards of
Sony's consoles through the PlayStation 3 adaptor CECHZM1: `Anthony/` for the
cards of the PlayStation, `AnthonyPS2/` for those of the PlayStation 2.  The
second one contains a whole driver for the PS2 card's file system
(`AnthonyPS2/mcio.cpp`): commands with retries and ECC, a write-back cache, a
journal that survives power cuts, FAT chains, directories and file handles.

This directory holds TLA+ modules that model the programs, configurations with
which TLC checks them on small instances, and proofs that TLAPS checks.
`PROJECT.json` maps every definition to the lines it translates, and lists the
runs, the mutants that show that each property can fail, the theorems
and the hazards.

Paths below are relative to the root of the repository; `mcio.cpp` is
`AnthonyPS2/mcio.cpp`.

## 1. Inventory

| Component (source) | State | Operations | What is hard |
|---|---|---|---|
| Dialog and worker threads (`AnthonyPS2/Anthony.cpp`, `Anthony/Anthony.cpp`) | `isThreadRunning`, `hThread`, the buttons | `DialogProc`, `ReadorWrite` | threads of earlier operations wait for a global handle while the next one starts |
| Card image (`AnthonyPS2/Anthony.cpp`) | `byteMemDat` | `ReadFromFile`, `ReadFromCard`, `WriteToFile`, `WriteToCard` | failures in the middle, pages copied in part and reported as copied, an image of two cards, a window closed during a transfer, sizes that were never set |
| Frame transfer (`Anthony/Anthony.cpp`) | `byteMemDat.Frame`, `InData` | `ReadFromCard`, `WriteToCard`, `ReadFromFile` | the reply of the frame before is still in the buffer when a read fails or is short; a late reply cannot be told from the right one |
| File handles, card detection (`mcio.cpp`) | `mcio_fdhandles`, `mcio_devinfo` | `mcio_init`, `mcDetect`, `mcOpen`, `mcClose`, `mcRead`, `mcWrite`, `mcSeek`, `mcGetInfo`, `Card_Probe` | cards exchanged between calls, a program that ends between calls, failures that drop the cache |
| Directory entries (`mcio.cpp`) | directory clusters, `mcio_dircache` | `mcMkDir`, `mcRmDir`, `mcDopen`, `mcDread`, `mcRemove`, `Card_ReadDirEntry`, `Card_CreateDirEntry`, `Card_Delete` | handles and listings hold entries by their index while slots come, go and are used again; the way up leads over an index kept elsewhere; a card that becomes full in the middle |
| FAT chains (`mcio.cpp`) | the FAT, `mcio_fatcache`, `unknown2`, the handle's place in the chain | `Card_FindFree`, `FatRSeek`, `FatWSeek`, `SetFatEntry`, `SetDirEntryState` | long sequences of creations and deletions, a remembered place, a full card; which of FAT, entry and data are on the card when power is cut, and what is done later to the files that the cut has torn |
| Cluster cache (`mcio.cpp`) | `mcio_entrycache`, `mcio_mccache` | `Card_ReadCluster`, `AddCacheEntry`, `FreeCluster`, `FlushMCCache`, `ClearCache` | eviction of dirty entries, flushes that clean several entries at once, entries relabelled before they are read |
| Block write-back and recovery (`mcio.cpp`) | the flash, the backup blocks, `mcio_badblock` | `Card_FlushCacheEntry`, `FillBackupBlock1`, `ReplaceBackupBlock`, `CheckBackupBlocks` | a power cut at any command, another one during the recovery, commands that fail, worn blocks |
| Page and block commands (`mcio.cpp`) | the exchange in progress | `Card_EraseBlock`, `WritePageData`, `ReadPageData`, `ReadPage` | lost answers, retries of what was already done, ECC results of several attempts |
| Formatting (`mcio.cpp`) | superblock, indirect FAT, FAT, `cardform` | `Card_Format`, `Unformat`, `WriteCluster`, `ReportBadBlocks` | bad blocks found on the way, a cut or a failure at any step, repeating it, another card |
| Geometry (`mcio.cpp`) | `mcio_devinfo` | `Card_GetSpecs`, `SetDeviceSpecs`, `SetDeviceInfo` | the number of allocatable clusters when blocks are bad |
| Authentication (`mcio.cpp`, `mecha_emu.cpp`, `cipher.cpp`) | keys | `Card_Authentificate` | a fixed sequence; success or failure is all that the rest sees |
| USB transport (`usbd.cpp`, `device.cpp`) | handles of WinUSB | `usb_*` | reads without a timeout |
| List of saves, byte order helpers | none | `UpdateDataList`, `read_le_*` | nothing |

How they interact: the dialog starts one thread per operation; the thread works
on the image and calls mcio (PS2) or the adaptor (PS1).  Every call of mcio
begins with `mcio_mcDetect`, which compares the termination code of the card and,
if the card is another one, authenticates, clears the cache, reads the
superblock and runs `Card_CheckBackupBlocks`.  File calls use the FAT chains,
these the cache, the cache flushes whole erase blocks through the journal, and
the journal issues page and block commands.  There are no callbacks and no
threads below the dialog: what interleaves is the program, the card (pulled out,
exchanged, cut from power, worn), the adaptor (no answer, late, lost) and the user.

What makes the components correct: one operation at a time; an image that says it
was copied was; a handle never works on another card unnoticed; a file that
carries the attribute "closed" is complete; a file has its clusters and
nobody else's, on the card too when power is cut; directories are a tree of names;
no update is lost between cache and card; a card taken for formatted is one whole
file system; a block is rewritten
wholly or not at all; a command that reports success was carried out.

## 2. Modules

Each component has a module of its own, with the constants the code fixes as
CONSTANTS; the `MC` module beside it gives TLC its small values, a `Proofs`
module has its theorems.  `ProgramProofs` has those of `CardImage`, `WorkerThread`,
`FrameTransfer` and `PageCommands`: the four share nothing but the module, and the last three
prefix the names that others would use (`ThreadTypes`, `frameVars`, `CommandSpec`).

| Module | Models | Stands on |
|---|---|---|
| `AtomicBlocks` | what the write-back promises: a block changes in one step | |
| `BackupJournal` | flush and recovery, one action per erase or page write | implements `AtomicBlocks` (`Store!Spec`) |
| `PageCommands` | the exchanges of one command and its retries | success and failure of `BackupJournal`'s steps |
| `ClusterCache` | the cache and its order of use | `Card_FlushCacheEntry` as one step, with success and failure |
| `FatChain` | allocation, chains and the place a handle remembers | the cache as a memory |
| `WriteOrder` | the same operations, with the cache's order of writing and power cuts | a flush of a block as one step (`AtomicBlocks`) |
| `NameSpace` | what directories promise: names come and go one at a time | |
| `Directory` | entries, directories, handles and listings | implements `NameSpace` (`Promise!Spec`) |
| `FileSession` | handles, detection, exchange of cards, the attribute "closed" | the cache as "may have been written, in part" |
| `CardFormat` | detection step by step, formatting and unformatting | the cache as changed clusters, each with its age |
| `CardImage` | the four operations of the PS2 program | pages and blocks that may fail |
| `FrameTransfer` | the loops of the PS1 program | replies of the adaptor |
| `WorkerThread` | dialog and threads of both programs | |

The modules meet where one says "this step succeeds or fails as a whole" and
another one shows it: `PageCommands` says what a command's success means to
`BackupJournal`, this one that a block changes in one step, which `WriteOrder` and
`ClusterCache` use; `ClusterCache` shows that the cache is a memory, which
`FatChain` and `Directory` use.  `FileSession` and `CardFormat` share the
detection: the first has it as one step before each call, the second its steps.

How state and actions correspond to the code:

* **BackupJournal.** `flash` is every page of every block; `bb1`, `bb2`,
  `used` and `badblock` are `backup_block1`, `backup_block2`, the spares taken
  from `alloc_end` and `mcio_badblock`; `job` holds the locals of a flush or a
  recovery, `pc` the next command.  A flush is `BeginFlush` (the collection of
  the dirty entries and the reading of the pages between them),
  `EraseBackup1`, `WriteMarker1`, `CopyPage`, `WriteMarker2`, `EraseTarget`,
  `WriteTargetPage`, `EraseBackup2`, in the order of the code; a recovery is
  `Connect`, one of the `Check` actions, `RecoverEraseTarget`, `RecoverPage`,
  `RecoverEraseBackup2`.  `CommandFails` and `CommandFailReplace` are the
  `return` and `goto` after each command; `PowerCut` can hit each of them, and
  leaves an erase half done or a page torn.  `Faults` selects which commands fail.
* **PageCommands.** One action per exchange (`Start`, `Chunk`, `Spare`, `End`,
  `Poll`); each has the outcomes "done and answered", "done, answer lost",
  "not done", and the return or retry of the code.  `sel` and `pos` are the
  card's side, `rot` and `worn` the wrong bits of page and spare area.  `Correct` has
  the results of `Card_CorrectData`: 0, -1 (an odd number of wrong bits; a bit of the
  spare area is then inverted, perhaps in the ECC of a later chunk, `Changed`), -2 and -3.
* **ClusterCache.** `entry` is `mcio_entrycache`, `order` is `mcio_mccache`,
  `next` the index of `Card_FlushMCCache`.  `held` is the pointer the last
  `Card_ReadCluster` returned, which `Modify` writes through.  A content is only
  "latest" (what the callers wrote last) or "lost".
* **FatChain.** `fat` with allocated bit and link, `hint` (`unknown2`), the
  directory entry's cluster and length, and the handles with `freeclink`,
  `clink` and `offset` (`clust_offset`).  Each link followed or made is a step
  that may fail.
* **WriteOrder.** `mem` is what the program sees, `card` what is on it, `dirty` the
  changed clusters in the order of use; each entry is in a cluster of its own, the
  FAT has two.  A call is a list of changes (`todo`) in the order in which the
  code makes them, flushes among them; between any two the cache may write back
  the cluster used longest ago, and `Cut` throws away what is in memory.  A file that
  a cut found open is `torn`: it is opened, written, replaced and deleted like any other,
  over a chain of which little is known, and the files whose clusters such a call changes
  (`Hit`) are torn from then on.
* **Directory.** `slot` is what the clusters of directories hold, `fat` their
  chains, `fh` the handles with the place of the entry, of the directory above and of
  a listing.  Each call is one action, since nothing else runs during a call; its
  partial failures (the card full after the directory above has grown) are disjuncts.
  `due` and `fresh` are histories of a listing.  Reading a path follows the entries
  from the root, the way up follows the entry ".".
* **FileSession.** Every call is "detect", then its work, in the steps between
  which the program may end: a write of an unchanged handle is `Mark` and
  `Write`, a close is `Close` and `Seal`.
* **CardFormat.** `call` is the step of detection, formatting or unformatting,
  named for the function it is in; each test or write of a cluster is one action.
  Of the content of a cluster there is its kind and the formatting that wrote it.
  `StepFails` may come instead of every step, and `Exchange` or `Restart` between
  any two.  `doubtful` is a history, explained in section 6.
* **CardImage.** The image, the card and a file are sequences of pages, each
  with the save it comes from; one action per page or block.  `flawed` is a history: the
  pages that mcio reported as read or written and did not copy exactly.
* **FrameTransfer.** One action per frame; an answer is good, without its
  header, short, the reply to an earlier command, or none (`Replies`).
* **WorkerThread.** One action per statement of `ReadorWrite` and of
  `DialogProc`'s button case that touches the flag, the handle or a button.
  `EnableWindow` needs the dialog's thread in its message loop.

## 3. Runs

Each run takes at most about two and a half minutes with two workers.

| Run | Properties | Bounds | Distinct states |
|---|---|---|---|
| `journal_crash` | `SuccessMeansDurable`, `RestartFindsCopy`, `CopyKeptWhileNamed`, `DetectionRestores`, `WritesAreAtomic` | 2 data blocks (one with the root directory), 2 pages, 2 contents, power cuts without bound | 595,000 |
| `journal_faults` | `WritesAreAtomic`, `SuccessMeansStored`, `ReplacementEnds` | 1 data block, 1 spare, 1 place in the list of bad blocks; any command may fail or report a worn block, any read of a recovery may fail, power cuts without bound | 1,300,000 |
| `commands` | `EraseMeansErased`, `WriteMeansWritten`, `ReadMeansPage`, `Returns` | pages of 2 chunks, 3 attempts of 5, 2 reads of 5, 2 polls of 100, two patterns of wear of the page and two of the spare area | 2,093,000 |
| `cache` | `OneEntryPerCluster`, `RecentStaysCached`, `NoLostUpdate`, `FlushAllWritesAll` | 3 entries of 36, 4 clusters in 2 blocks | 235,000 |
| `fat` | `FilesKeepTheirData`, `ReadsItsPosition`, `RemembersItsPlace` | 4 clusters, 2 files of at most 3, 2 handles of 3 | 4,750,000 |
| `order` | `ClosedFilesAreIntact`, `ClosedFilesOwnTheirClusters` | 2 files of at most 2 clusters, 2 data clusters each with a FAT cluster of its own, 2 values; not both files torn; files alike, clusters alike (symmetry) | 5,002,000 |
| `directory` | `TreeIsSound`, `HandlesKeepTheirEntry`, `ListingIsExact`, `ImplementsNameSpace` | 2 names, the root and 2 more clusters of 3 entries (the card has 2), 2 handles of 3 | 106,000 |
| `session` | `WorksOnKnownCard`, `StaleHandleNeedsError`, `ClosedMeansComplete`, `OneWriter` | 2 formatted cards and one that is not, 1 file, 2 handles of 3 | 5,360,000 |
| `format` | `FormattedMeansWhole`, `LayoutIsSound`, `RecognisedIsKnown` | 3 cards of 8 blocks of 2 clusters (of 1024 blocks of 8): good, with 2 worn blocks, with 6; a FAT of 2 clusters of 32; 2 formattings | 3,840,000 |
| `image` | `TypeOK`, `FinishedMeansCopied`, `WrittenIsOneSave`, `FailureIsConfined` | 2 saves, of 2 and 3 blocks of 2 pages, a buffer of 2 blocks | 4,467,000 |
| `frames` | `FramesInPlace`, `WrittenUnlessRefused` | 2 frames of 1024, 2 saves, five kinds of answers | 25,500 |
| `threads` | `OneOperationAtATime`, `BecomesReady` | 3 threads, 2 buttons of 4 | 23,000 |

What each shows:

* `journal_crash`: wherever power is cut, and again during the recovery, a block is
  the old or the new one, and a flush that was reported is durable.
* `journal_faults`: with failing commands and worn blocks too, that holds of every
  block the journal could protect; the loop of replacements ends.
* `commands`: no retry makes a success of what was not done, but for the chunks that are
  never sent and the pages with wrong bits of section 6, and every command returns.
* `cache`: what was written last is what is read, through evictions and failed flushes.
* `fat`: a file reads back what was written to it, whoever else grew, deleted or
  created files; a handle's remembered place is right.
* `order`: after a power cut, a file that is marked as closed is complete, its clusters
  are allocated and nobody else's; what is done afterwards to a file that the cut has torn
  harms a closed file only if the torn one leads into its clusters, which the code does
  not prevent (section 6).
* `directory`: to the callers there is a tree of names that changes by one at a time;
  an open file keeps its entry, a listing misses and repeats nothing.
* `session`: calls work on the card they know, or the caller was told.
* `format`: what detection takes for formatted is one whole file system on good blocks.
* `image`, `frames`: what is reported as copied was copied, but for the pages and
  frames of which the layers below said so wrongly; a failure leaves no gap.
* `threads`: one operation at a time, and the dialog becomes ready again.

Only `image` lists the type invariant: there it says that no page is written past
`byteMemDat`.  Elsewhere `TypeOK` says that the model is well formed; it holds in every
instance above (add it to the `INVARIANTS` to see so), and section 4 proves it for all but the
directories.

Why the bounds are enough for what they show:

* *Journal.* Two blocks distinguish the block rewritten from one that must not
  change; two pages are the least for two markers, a half-written and a
  half-erased block.  A run may contain any number of flushes, cuts and
  recoveries, so a cut during the recovery of a cut recovery is included.
* *Commands.* Three attempts have a first, a middle and a last one; the number of
  attempts only bounds the loop.  Two chunks are the least for a check that changes the ECC of
  the next one; a worn page has one wrong bit in the first and two in the second, a worn
  spare area one in the ECC of the second.
* *Cache.* Three entries have a first, a middle and a last one; one more cluster
  than entries forces evictions, two clusters in each of two blocks make flushes
  clean entries that are and are not next to each other in the order.  Only
  equality of blocks matters, so blocks and clusters are interchangeable.
* *FAT.* Four clusters with cluster 0 taken give chains that run backwards,
  interleaved chains of two files and a full card.
* *Order.* A file of two clusters whose FAT entries are in different clusters, so
  that one can be on the card without the other; two files for clusters that change hands, of
  which one may be torn.  When both are, nothing is said of either, and `SomeWhole` ends
  the search there; the proofs (section 4) have no such bound.
* *Directory.* Three entries in a cluster of which two are "." and "..": the second
  name makes a directory grow; two more clusters are a directory in a directory, a
  directory of two clusters, and a full card.  With two names, and a third entry per
  cluster instead of the two of a card, holes appear before, at and after the last entry.
* *Format.* The worn blocks are one among those the layout passes over and one among
  the last two; six worn blocks leave no room.  Two formattings tell a whole file system from
  one made of two.
* *Session.* Two cards make a stale handle, the third is not formatted.  One
  file suffices for "closed" and for two writers; calls never relate two files
  except through the same cache, whose flushes are already arbitrary.
* *Image.* A save that fits and one too large for the buffer, of which a file or a card
  has the beginning only; two pages per block make a failure in the middle of a block.
* *Frames.* A frame and one that follows it: whose reply is left over, short or late.
* *Threads.* Two threads that finished and wait, for each other or for
  themselves, while a third one works.

Only `threads` disables the check for deadlock: the user may leave, and the
model's threads are used up.

### Fairness

`PageCommands!Spec` has weak fairness of `Step`: every exchange ends, be it
without an answer.  `WorkerThread!FairSpec`
has weak fairness of each thread and of the dialog's unfinished handler:
Windows schedules every thread that can run, and each operation returns.  Nothing
forces the user to press or to leave, or an operation to succeed.  The code
gives one reason to doubt it: a read from the adaptor has no timeout
(`usbd.cpp:189`), so an adaptor that never answers blocks a thread for ever.

## 4. Proofs

All theorems are checked to the last leaf, from the assumptions on constants that stand in
the modules.

The first part of `BackupJournalProofs` assumes `JournalAssumption` (distinct blocks, at least two
pages) and `Faults = {}`: commands are interrupted by power cuts, at any moment
and any number of times, but do not fail otherwise.  It proves for any number of
blocks, pages, spares and contents:

`TypeCorrect`, `JournalIsErasedWhenIdle`, `RestartAlwaysFindsCopy`, `SuccessIsDurable`,
`CopyIsKeptWhileNamed` and `DetectionHasRestored`: the properties of `journal_crash`
(the refinement is below), and the types.

The inductive invariant `Inv` (theorem `InvHolds`) is the conjunction of
`TypeOK`; `Nominal` (backup blocks are those of the superblock); `JobOK` (what a
job may be); `MarkersOK` (markers name one block, and two of them come with a
readable copy); `FlushOK` and `RecoveryOK` (at each step, what the journal and
the target hold); `ResultOK` (what was reported is still found).  None of the
properties is inductive: that the target may be erased depends on the markers and
the copy written several steps before, and that an interrupted recovery can be
repeated depends on the copy surviving it.  The proof has one lemma per action; lemmas
`InterruptedEffect` and `CommandFailsEffect` say what an interrupted or refused command can have done.

The second part of the module has no assumption on `Faults`: `SuccessIsStored`,
`ReplacementTerminates` and `WriteBackIsAtomic` (`Spec => Store!Spec`, the refinement of
`AtomicBlocks`, of which `Faults = {}` is one instance), whatever fails, for any number of blocks, pages and spares.
The invariant `FInv` says where the backup blocks can have gone (`BackupsOK`), which block a
step may rewrite (`RewriteOK`), that marker pages hold markers only, and which pages of the
target are written at each step (`TargetOK`); what the loop uses up is spares and places of
the list.

The refinement needs more, `AInv`, which stands on `FInv` and says for a block that is not
`loose` what `Inv` says for all: it starts from an erased journal in the superblock's
blocks (`Opening`), a restart finds its copy from the second marker on (`Sealed`) and can
read it as long as it is named (`MarkerCopy`).  The rest is about what earlier failures
left: another block that is named is loose before its copy is erased (`OthersLoose`), and if the
two markers name different blocks the first, which a recovery would overwrite
(`Restoring`), is loose.  The key lemma, `OneBlockAtMost`, is about any command, complete
or not: it changes the content of at most one block as a restart sees it, and that block is loose,
or the target at the commit point or of a rewrite that begins without the journal.  So
`CommandRefines` handles the failing commands, the power cuts and most completed
commands at once; only `WriteMarker2`, `WriteTargetPage` and `EraseBackup2`, which take
the target out of `loose`, are looked at one by one.

`ClusterCacheProofs`: `OneEntryHolds`, `NoUpdateIsLost`, `CleanEntriesAreCoherent`,
`FlushAllHasWritten` and `RecentUsesStayCached`, all that `cache` checks, and `CacheTypes`, for
any number of entries, clusters and blocks.  `CacheInv` joins the first to the order of use
naming every entry and to what a flush has passed: behind its index nothing is dirty.
`OrderInv` stands on it: every entry has one place in the order, and the cluster of the
i-th use from now is among the first i of them, so what is evicted, the last, was not used
recently.

`FileSessionProofs`: `SessionTypes`, `KnownCardHolds`, `StaleHandleHolds`,
`OneWriterHolds` and `ClosedFilesAreComplete`, for any number of cards, files and
handles.  That a file marked as closed is complete is not inductive: `SessionInv` says
in addition what calls, handles and device know, and `FilesOK` that a file with data in the
cache or lost is marked as open on the card, and is so before its data is changed.

`CardFormatProofs`: `RecognitionHolds`, `OnlyTheKnownCardPasses`, `FormattedCardsAreWhole`,
`LayoutsAreSound` and `FormatTypes`, for any cards, worn blocks, sizes and number of
formattings, of which each step may fail or be the last one before a cut.
`RecognitionInv` adds that between the superblock and the root directory the card at hand
is the one just read, and that no step of a formatting or another call runs while the
state of the card is unknown.  `FormatInv` (theorem `FormattingHolds`) is about what is on
the cards.  That a card with a superblock and a root directory is whole depends on the
order in which the cache writes back, long after the layout was chosen; so the invariant says
what the layout has so far (`RisingOK`, `LayoutOK`: places rise, lie in good blocks, and the search
has passed as many good clusters as it has chosen, `Aligned`), that a card being formatted has lost its
superblock before anything else (`OpenOK`), which formatting the cached clusters are of and
that those of an older one are written first (`DirtyOK`, `AgesOK`), and that a superblock
on a card comes with what is older than it (`CardsOK`).  The root directory is younger than
the superblock: it is safe because it lies in the block of the last cluster of the FAT, with which
it is written.  That is arithmetic (`Fats % PerBlock = 0`, `PerBlock > 1`, true of a card of 8 MB with 32
clusters of FAT and 8 per block), and `Aligned` carries it over blocks that are passed.

`FatChainProofs`: `FilesAreKept`, `ReadsAreRight`, `PlacesAreRight`, all that `fat` checks, and
`ChainTypes`, for any number of clusters, files and handles and files of any size.  An
invariant that follows chains would need induction over them at each step.  Instead
`ChainsAlwaysFit` says that clusters can be given owners and numbers: a link leads from a
number to the next one of the same owner, entries lead to number one, each number has one
cluster, and handles and the walk in progress know the numbers of the clusters they
remember.  A step changes the numbering of a file at most, and that a walk which counts its
links is at the cluster of its number follows from the numbering alone.

`ProgramProofs`, for the commands: `ErasedIsErased`, `WrittenIsWritten`, `ReadIsThePage` and
`CommandTypes`, for pages of any size and any number of attempts, reads and polls.
`CommandInv` relates the place the exchange is at in the code to the one the card is at
(`PlaceOK`), which differ after a lost answer; what earlier attempts programmed of a page
is part of the same page (`WritingOK`), so a retry cannot mix two; and the spare area that
a read checks is the card's (`ReadOK`).  `ReadIsThePage` follows at the check itself: the ECC
of a chunk is that of the card unless a chunk in front of it was found odd, so of the first
wrong chunk the result is what its own bits, or a worn ECC, make it.

`WriteOrderProofs`: `ClosedIsIntact`, `ClosedOwnsItsClusters` and `OrderTypes`, for any
number of files, clusters and FAT clusters, wherever power is cut.  Neither is inductive: that
the card is sound depends on what the cache will write, and in which order.  `OInv` (theorem
`OrderHolds`) says that what differs between card and memory is in `dirty` (`DirtyOK`), so
that a flush makes them the same; that an entry which says "closed" in memory leads to
clusters that the card has already (`FileOK`), so that it may be written at any time; and that
an entry which says so on the card is that of memory (`Kept`), or of a file being deleted
whose entry is the next cluster to be written and whose clusters no other file has
yet (`Leaving`).  The rest of a call is one of twelve forms (`InCall`), with what has reached
the card by then, or that of a call on a torn file (`Strays`), of which nothing is known but its
remaining changes.  What such a call changes is out of the chains of all files that are not
torn afterwards, so it leaves them as they were (`FitsTorn`, `Spared`).  A chain is the sequence of its clusters (`Chained`); lemma `ChainIs` shows
that following the links finds it, by the least number where the two would
differ (`LeastNat`), since induction is out of reach.  That the cache writes clusters
of one kind and block together plays no part, except in one case, a deletion begun while
another file has changes left, which `torn` leaves out (section 6).

`DirectoryProofs`: `TreeStaysSound`, `HandlesStay`, `ListingsExact` and `DirectoryIsNameSpace`, all
that `directory` checks, and `DirectoryTypes`, for any card, any names, any number of entries in a
cluster and of handles.  `DInv` (theorem `DirectoryInvariant`) says that there are first
clusters H, chains ch that share no cluster, and a table T of what their slots hold, such
that the FAT and the slots lay the table out (`Laid`), the table is a tree (`Good`: the entry "."
of a directory has the place of its own entry, this entry its first cluster and a length
there is room for, no name is there twice, and each directory has a distance from the
root, `Ranked`), and each handle is on its entry or has still
to tell the names it should (`HandleOK`).  With the table, reading a slot needs no walk
along the chain: `NthIs` is the one induction, by the least number where walk and chain would
differ.  Below it the lemmas on the storage (`PutLaid`, `GrowLaid`, `NewLaid`, `DropLaid`) say
what a write, a cluster linked, taken or freed does to the table; above it those on the tree
(`InsertGood`, `InsertHandle`, `RemoveGood`, `RemoveHandle`) do not see the FAT; the calls are
composed of both (`InsertEntry`, `StrikeEntry`).  That a length never leaves its type rests on
counting: names in use differ, so there is room for one that is not there (`Room`).  That
paths lead only to directories of the table is again an induction, over their depth
(`DirectoriesAre`).  That they lead to all of them (`DirectoriesReached`) needs the distance:
on its way up a directory passes one of each smaller distance, so none is greater than there
are clusters (`Near`).  Hence the tree of `NameSpace` is what the table holds (`TreeOf`,
`TreeIs`), and every call keeps the invariant and changes this tree by one name or not at all
(`FineStep`); `TreeInserted`, `TreeStruck` and `TreeExtends` follow what an entry that comes or
goes and a longer chain do to it, `TreeMade` and `TreeRemoved` that `NameSpace` allows it.

`ProgramProofs`, for the images: `FailuresAreConfined`, `FinishedIsCopied`, `OneSaveIsWritten` and
`PagesStayInTheBuffer`, all that `image` checks, for any sizes of saves, blocks and buffer and
any sizes that were never set.  The first invariant, `ImageInv`, says what of the
card is written: within a block the pages before the current one, and an erase begins at
the first page of a block (lemmas on `\div` say when page `p + 1` is in the next one).
The second, `CopyInv`, stands on it and says what is copied: pages read so far equal the
card's but for the flawed ones, a transfer that knows the sizes has the card's, and an image that needs no excuse is that
of its superblock.

`ProgramProofs`, for the frames: `FramesStayInPlace` and `WriteKeepsItsWord`, for any number of frames.
`Ahead` (the frames ahead have not been answered) and `Progress` (what the loop has passed)
make them inductive.  `ProgramProofs`, for the threads:
`ThreadTypesHold`, `OperationsExcludeEachOther` and `DisabledButtonsHaveAThread`, for any number
of threads and buttons; the flag is tested and set without a lock, and `FlagOK`,
`CreatingOK` and `ButtonsOK` say what it means to the dialog and to a thread being created.

Only model-checked: liveness (`Returns`, `BecomesReady`).  It is out of the prover's reach,
which does not handle fairness and `ENABLED`; that the loop of replacements ends is proved as a
measure that falls.

## 5. What the hazards are about

`PROJECT.json` lists, at each line where it bites, what tests of this code would hardly
reach, and the properties that would see it go wrong.  Two have no property:
the cached FAT of the root directory, which `Directory` leaves out, and the reads
without a timeout, which the fairness assumes away.

## 6. Disagreements and excuses

Seen while modelling.  What the code does is in the models; where a property would be
false because of it, the property says which case it leaves out.

* A flush that fails after its second marker leaves both markers; the next flush
  erases the copy they stand for (`mcio.cpp:1305`), and a power cut then makes the
  next detection write an erased block over a good one.  `CopyKeptWhileNamed` is checked
  without failing commands; `WritesAreAtomic` counts that block as at risk.
* A detection does not look at the results of its reads and erases the markers all the
  same (`mcio.cpp:2407`, `2418`): `DetectionRestores` is checked without failing
  reads, and `journal_faults` counts the named block as at risk.
* A replaced backup block is known in memory only (`mcio.cpp:1309`): with failing
  commands `RestartFindsCopy` would be violated.
* Deleting a chain that runs backwards moves the hint of the search past the
  cluster just freed (`mcio.cpp:2209`); the card is then reported full with clusters free.
* A deletion removes the entry before it frees the chain, but when another open file
  has left the same cluster of the FAT to be written, that goes first, and a cut in between
  leaves an entry whose clusters are free (`mcio.cpp:2196`): `torn` in `WriteOrder`.
* A file that a cut has torn can destroy a closed one.  Its entry may name a cluster whose
  cell of the FAT never reached the card; after the restart another file takes this
  cluster and is closed; then `mcio_mcRemove` of the torn file (`mcio.cpp:3992`), creating over
  it (`3149`) frees the cluster, and `mcio_mcWrite` (`3653`) writes into it: neither looks at the
  attribute "closed", and `Card_SetDirEntryState` (`2202`) frees whatever the chain leads
  to, free cells included, which keep their old link.  `WriteOrder` has these calls; the properties
  excuse exactly the files whose clusters one of them changes, until they are deleted and
  created anew, and hold for all others.  On a torn file left open, a write may arrive at any
  cluster in the model, more than the code can reach, since its remembered place is not followed.
  Over a chain that has become a ring the loop of `Card_SetDirEntryState` does not end; no
  property speaks of it.
* A formatting that failed leaves `cardform` at -1, and `mcio_mcOpen` and the others
  only refuse `sceMcResNoFormat`: they go on with half a layout and write what is left in
  the cache (`mcio.cpp:2732`).  `Card_Unformat` erases block 0 last (`mcio.cpp:2629`): when it
  is cut the superblock is there without its FAT.  Such cards are `doubtful` in `CardFormat`.
* In `Card_Format` an error of `Card_WriteCluster` is taken for a good cluster when
  the table of the FAT is placed (`FindIfc`).
* With all 16 places of the list of bad blocks in use, `max_allocatable_clusters` of
  `Card_SetDeviceInfo` can be more than `alloc_end`; nothing in the models depends on it.
* `Card_WritePageData` skips a chunk that had no valid answer and succeeds
  (`mcio.cpp:653`); `WriteMeansWritten` excludes such pages.  `mcio_mcWriteBlock` (`3970`) takes
  that for success, and `WriteToCard` says "Finish": such a page is `flawed` in `CardImage`, and
  its properties leave it out.
* `Card_CorrectData` does not correct the page: where one bit of a chunk is wrong it inverts a
  bit of the spare area, at `ecc[xor2]`, up to 127 bytes behind the ECC of the chunk (`mcio.cpp:286`).
  That may be in the ECC of a later chunk, which is then checked against the wrong one, so
  that a wrong chunk can pass and a right one fail; or behind the spare area.  A page with an
  odd number of wrong bits is taken as it is at the last of five attempts.  `ReadMeansPage` says
  what is left: if no attempt found a wrong bit the page is right, and if one did, the first
  wrong chunk is odd, or its ECC worn, and of those behind it nothing is known.  For
  `mcio_mcReadPageWithEcc` the spare area lies in `byteMemDat` (`AnthonyPS2/Anthony.cpp:431-433`),
  in front of the next page: `Arrives` in `CardImage`.  What lies behind the 32 bytes
  on the stack of `Card_ReadPage`, or behind `byteMemDat` after its last page, is overwritten as
  well and not modelled: `TypeOK` of `image` is about the pages that are read, not about that byte.
* In `PageCommands` the ECC tells every content of a chunk from every other.  That of the code is
  three bytes and misses some patterns of four or more wrong bits.
* `mcio_mcGetInfo` succeeds although `Card_GetSpecs` failed, with sizes that
  were never set (`mcio.cpp:3899`): `guessed` in `CardImage`.
* `mcio_init` and `mcio_mcDetect` report another card without invalidating the
  handles (`mcio.cpp:3519`, `3540`): `StaleHandleNeedsError` states what is left.
* Directories: the components of a path before the last one are not checked to be
  directories; creating under ".." in a directory of the second level writes over the
  entry "." of the root; `Card_Delete` passes a `maxent` it has not set;
  `mcio_mcMkDir` gives `strncpy_s` the size of a pointer, which ends the program for a long
  name; a directory that grew for an entry that could not be made stays longer, and a
  file to be replaced is deleted although making it anew can fail.  The first four are
  kept out of `Directory` by its inputs.
* PS1: after a read without a reply the header of the frame before passes the test
  of "戻りの先頭2byte" (`Anthony/Anthony.cpp:434`), and the frame is left out silently.  A reply that is
  shorter than a frame is stored with the end of the frame before (the test of `Length` is
  commented out, `442-446`), and a reply that comes late is stored as the next frame, since
  nothing in it is compared with the frame that was asked for.  Both are in `FrameTransfer`;
  `FramesInPlace` excuses these frames, and `WrittenUnlessRefused` those whose reply was
  that to another frame, and no others.
* A thread that reset `isThreadRunning`, with the comment that its execution has
  ended, then waits for `hThread` without a timeout; when no other thread was
  started that is its own handle (`AnthonyPS2/Anthony.cpp:250-251`).  It never
  ends; nobody waits for it.
* `mcio_mcGetAvailableSpace` overwrites the 0 of a full card with a negative number
  (`mcio.cpp:3923`); a success of the last attempt of an erase counts as a failure
  (`mcio.cpp:567`); the version of the superblock is looked at in a buffer that
  the marker pages have overwritten (`mcio.cpp:2510`).

## 7. Not modelled

* Keys, ciphers and the messages of the authentication: `CardFormat` has its steps, which
  succeed or fail.  Tables and 64-bit arithmetic are out of TLC's reach.
* USB (`usbd.cpp`, `device.cpp`): pure I/O; what a lost exchange does is in
  `PageCommands` and `FrameTransfer`.
* The list of saves (`UpdateDataList`; `UpdateDataListfromCard` is never called), and the byte
  order helpers: no state.
* Cards without ECC, erase-to-zeroes cards (`CF_ERASE_ZEROES`): the same control
  with other bytes.
* In `FatChain` and `WriteOrder`: partial clusters, seeks beyond the end, the indirect
  FAT.  In `WriteOrder`: directories, and entries that share a cluster.
* In `Directory`: paths through files or with dots inside, attributes and times,
  `Card_CreateCrossLinkedFile`, failing commands, the cached FAT of the root directory.
* In `CardFormat`: `Build`, which makes FAT and root directory, is one step, so the error
  exits -45 to -49 and the FAT entries changed before them (`mcio.cpp:2866`, `2878`) are not told
  apart; the numbers of the geometry (`Card_GetSpecs`, `SetDeviceSpecs`), the
  fallback of `Card_Format` for small cards, and `Card_CheckBackupBlocks` during detection,
  which `BackupJournal` has.
* In `FrameTransfer`: checksums.  A reply left over from an earlier session of the
  adaptor is a late one that may bring any frame of the card.
* In `WriteOrder`: which of the files whose calls fail lose their cache; that is `Cut`, at any time.
* `mcio_mcGetAvailableSpace`.

## 8. Plan

Done, in this order: `AtomicBlocks` and `BackupJournal` with their proof (the
promise everything above relies on), `PageCommands`, `ClusterCache`,
`WorkerThread`, `FileSession`, `FatChain`, `CardImage`, `FrameTransfer`; then `Directory`
over `NameSpace`, `WriteOrder`, `CardFormat`, faults and wear of the journal in one run, and
the proofs about the cache, the sessions, the journal under faults, detection and the image;
then those about formatting, the order of use of the cache, the refinements of
`AtomicBlocks` and `NameSpace`, the chains, the commands, the order of writing and the
directories.

What would add most now:

1. Directories on a card that fails: `Directory`'s calls as lists of changes in the
   manner of `WriteOrder`.
2. The cached FAT of the root directory and `max_allocatable_clusters`, against a
   reference definition.
