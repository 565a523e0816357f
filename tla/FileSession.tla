---------------------------- MODULE FileSession -----------------------------
(***************************************************************************)
(* File handles over a removable card: the calls of AnthonyPS2/mcio.cpp    *)
(* that begin with mcio_mcDetect (init, Open, Read, Write, Close, GetInfo),*)
(* Card_Probe below them, and what they leave in the cache and on the card.*)
(* A file is its directory entry, with the attribute "closed" or without,  *)
(* and its data.  Between two calls the card may be exchanged; between two *)
(* steps of one the program may end.                                       *)
(***************************************************************************)
EXTENDS FiniteSets

CONSTANTS
  Cards, Formatted,   (* the cards, and those with a file system           *)
  Files,              (* files, present on every formatted card            *)
  Fds,                (* the handles, MAX_FDHANDLES (3)                    *)
  None                (* no card, no file, no handle                       *)

ASSUME SessionAssumption ==
  /\ Formatted \subseteq Cards
  /\ None \notin Cards \cup Files \cup Fds

VARIABLES
  slot,       (* the card in the adaptor                                   *)
  primed,     (* it holds the termination code: it was not exchanged       *)
  known,      (* the card mcio_devinfo describes                           *)
  form,       (* mcio_devinfo.cardform                                     *)
  fh,         (* mcio_fdhandles: status, wrflag, unknown2 as "changed",    *)
              (* the file; the card it was opened on and whether the       *)
              (* caller was given the handle                               *)
  entry,      (* cached directory entries that are not on the card yet     *)
  dirty,      (* files with data in the cache that is not on the card      *)
  disk,       (* the directory entries on the cards                        *)
  call,       (* the call in progress: its name, handle and next step      *)
  lost,       (* history: files with data dropped since they were opened   *)
  told,       (* history: files in use when a call failed or mcio_init was *)
              (* called                                                    *)
  spoiled     (* history: cards written through a handle of another one    *)

device == <<slot, primed, known, form>>
cache == <<entry, dirty, disk, lost>>
vars == <<device, cache, fh, call, told, spoiled>>

Handle == [open : BOOLEAN, wr : BOOLEAN, changed : BOOLEAN, given : BOOLEAN,
           file : Files \cup {None}, card : Cards \cup {None}]
Unused == [open |-> FALSE, wr |-> FALSE, changed |-> FALSE, given |-> FALSE,
           file |-> None, card |-> None]
Idle == [op |-> "none", fd |-> None, at |-> "idle"]

TypeOK ==
  /\ slot \in Cards \cup {None} /\ primed \in BOOLEAN
  /\ known \in Cards \cup {None} /\ form \in {"none", "formatted", "noformat"}
  /\ fh \in [Fds -> Handle]
  /\ entry \in [Files -> {"same", "open", "closed"}]
  /\ dirty \subseteq Files
  /\ (dirty # {} \/ \E f \in Files : entry[f] # "same") => known \in Formatted
  /\ disk \in [Formatted -> [Files -> {"open", "closed"}]]
  /\ call \in [op : {"none", "init", "info", "open", "create", "read",
                     "write", "close"},
               fd : Fds \cup {None},
               at : {"idle", "detect", "work", "data", "seal"}]
  /\ lost \subseteq Cards \X Files /\ told \subseteq Cards \X Files
  /\ spoiled \subseteq Cards

Init ==
  /\ slot \in Cards \cup {None} /\ primed = FALSE
  /\ known = None /\ form = "none"
  /\ fh = [d \in Fds |-> Unused]
  /\ entry = [f \in Files |-> "same"] /\ dirty = {}
  /\ disk = [c \in Formatted |-> [f \in Files |-> "closed"]]
  /\ call = Idle /\ lost = {} /\ told = {} /\ spoiled = {}
-----------------------------------------------------------------------------
(* The cache.  e are the cached entries and ds the files with dirty data;  *)
(* of these, some reach the card: while clusters are evicted, in a flush   *)
(* that fails, or in one that succeeds.                                    *)

Reach(e, es) ==
  disk' = [c \in Formatted |->
            [f \in Files |-> IF c = known /\ f \in es /\ e[f] # "same"
                               THEN e[f] ELSE disk[c][f]]]

Clean == [f \in Files |-> "same"]

FlushAll(e) ==
  Reach(e, Files) /\ entry' = Clean /\ dirty' = {} /\ UNCHANGED lost

FlushSome(e, ds) ==
  /\ \E es \in SUBSET Files :
       Reach(e, es) /\ entry' = [f \in Files |-> IF f \in es THEN "same" ELSE e[f]]
  /\ dirty' \in SUBSET ds /\ UNCHANGED lost

(* Card_ClearCache, perhaps after a part was flushed.                      *)
Drop(e, ds) ==
  /\ \E es \in SUBSET Files : Reach(e, es)
  /\ \E rest \in SUBSET ds : lost' = lost \cup ({known} \X rest)
  /\ entry' = Clean /\ dirty' = {}

ClearCache ==
  /\ lost' = lost \cup ({known} \X dirty)
  /\ entry' = Clean /\ dirty' = {} /\ UNCHANGED disk

InvFileHandles == fh' = [d \in Fds |-> [fh[d] EXCEPT !.open = FALSE]]
-----------------------------------------------------------------------------
(* How calls begin and end                                                 *)

Name(d) == <<fh[d].card, fh[d].file>>

Begin(op, d) ==
  /\ call = Idle /\ call' = [op |-> op, fd |-> d, at |-> "detect"]
  /\ UNCHANGED <<device, spoiled>>

Start(op, d) == Begin(op, d) /\ UNCHANGED told

At(op, at) == call.op = op /\ call.at = at
Go(at) == call' = [call EXCEPT !.at = at] /\ UNCHANGED told
Succeed == call' = Idle /\ UNCHANGED told
Tell == told' = told \cup {Name(d) : d \in {x \in Fds : fh[x].open \/ x = call.fd}}
Report == call' = Idle /\ Tell

(* A result of -1 to -9 ends the call, and for Read and Write the handle;  *)
(* one below -9 also invalidates all handles and clears the cache.         *)
Fail(e, ds) ==
  /\ Report /\ UNCHANGED <<device, spoiled>>
  /\ \/ /\ FlushSome(e, ds)
        /\ fh' = IF call.op \in {"read", "write"}
                   THEN [fh EXCEPT ![call.fd].open = FALSE] ELSE fh
     \/ Drop(e, ds) /\ InvFileHandles
-----------------------------------------------------------------------------
(* Card_Probe and mcio_mcDetect                                            *)

Recognised_ByCodeOnly == primed   (* a mutated form *)
Recognised == primed /\ form # "none"

(* Card_Changed succeeds and the card was looked at before.                *)
DetectSame ==
  /\ call.at = "detect" /\ Recognised
  /\ IF call.op \in {"init", "info"} THEN Succeed ELSE Go("work")
  /\ UNCHANGED <<device, cache, fh, spoiled>>

Changed_Unnoticed ==   (* a mutated form *)
  IF call.op \in {"init", "info"} THEN Succeed ELSE Go("work")
Changed == IF call.op = "init" THEN Succeed ELSE Report

(* The card is another one, or several exchanges with it failed: it is     *)
(* validated, the cache is cleared, its superblock and root directory are  *)
(* read.  mcio_init takes sceMcResChangedCard for success.                 *)
DetectChanged ==
  /\ call.at = "detect" /\ slot \in Formatted
  /\ ClearCache /\ Changed
  /\ primed' = TRUE /\ known' = slot /\ form' = "formatted"
  /\ UNCHANGED <<slot, fh, spoiled>>

(* No file system, or a page of it that could not be read.                 *)
DetectNoFormat ==
  /\ call.at = "detect" /\ slot # None
  /\ ClearCache /\ Report
  /\ primed' = TRUE /\ known' = slot /\ form' = "noformat"
  /\ UNCHANGED <<slot, fh, spoiled>>

GiveUp == InvFileHandles /\ ClearCache

(* No card, or reset, authentication, validation or the reading failed,    *)
(* before the termination code was set or after.                           *)
DetectFails ==
  /\ call.at = "detect"
  /\ GiveUp /\ Report
  /\ primed' \in (IF slot = None THEN {FALSE} ELSE BOOLEAN)
  /\ known' = None /\ form' = "none"
  /\ UNCHANGED <<slot, spoiled>>
-----------------------------------------------------------------------------
(* mcio_init and mcio_mcGetInfo.  The first begins with Card_InitCache; it *)
(* leaves the handles as they are.                                         *)

CallInit == Begin("init", None) /\ Tell /\ ClearCache /\ UNCHANGED fh
CallInfo == Start("info", None) /\ UNCHANGED <<cache, fh>>
-----------------------------------------------------------------------------
(* mcio_mcOpen and Card_FileOpen                                           *)

CallOpen ==
  /\ Start("open", None) \/ Start("create", None)
  /\ UNCHANGED <<cache, fh>>

(* The handles of a file, on whichever card they were opened.              *)
HandlesOf(f) == {d \in Fds : fh[d].open /\ fh[d].file = f}

OtherWriter_Ignored(f) == FALSE   (* a mutated form *)
OtherWriter(f) == \E d \in HandlesOf(f) : fh[d].wr

TakeHandle(f, w, returned) ==
  \E d \in Fds :
    /\ ~fh[d].open
    /\ fh' = [fh EXCEPT ![d] =
                [open |-> TRUE, wr |-> w, changed |-> FALSE, given |-> returned,
                 file |-> f, card |-> slot]]

(* What was lost or reported before a file is opened for writing is not    *)
(* held against what follows, unless data of the failed call is still in   *)
(* the cache.                                                              *)
Afresh(f) ==
  /\ lost' = lost \ {<<slot, f>>}
  /\ told' = IF f \in dirty' THEN told ELSE told \ {<<slot, f>>}

Open(f, w) ==
  /\ At("open", "work") /\ form = "formatted"
  /\ w => ~OtherWriter(f)
  /\ TakeHandle(f, w, TRUE) /\ call' = Idle
  /\ UNCHANGED <<device, entry, dirty, disk, spoiled>>
  /\ IF w THEN Afresh(f) ELSE UNCHANGED <<lost, told>>

(* sceMcFileCreateFile: the file is deleted, if nobody has it open; a new  *)
(* entry, not closed, is made; everything is flushed.                      *)
AsNew(f) == [entry EXCEPT ![f] = "open"]

Create(f) ==
  /\ At("create", "work") /\ form = "formatted" /\ HandlesOf(f) = {}
  /\ TakeHandle(f, TRUE, TRUE) /\ call' = Idle
  /\ Reach(AsNew(f), Files) /\ entry' = Clean /\ dirty' = {}
  /\ Afresh(f)
  /\ UNCHANGED <<device, spoiled>>

(* If the last flush fails the handle stays in use, unknown to the caller. *)
CreateFlushFails(f) ==
  /\ At("create", "work") /\ form = "formatted" /\ HandlesOf(f) = {}
  /\ TakeHandle(f, TRUE, FALSE) /\ Report
  /\ FlushSome(AsNew(f), dirty)
  /\ UNCHANGED <<device, spoiled>>

(* No format, no entry, no permission, no handle, a full or failing card.  *)
OpenFails ==
  /\ call.op \in {"open", "create"} /\ call.at = "work"
  /\ Fail(entry, dirty)
-----------------------------------------------------------------------------
(* mcio_mcRead and Card_FileRead, mcio_mcWrite and Card_FileWrite          *)

Usable(d) == fh[d].open /\ fh[d].given

CallRead(d) == Usable(d) /\ Start("read", d) /\ UNCHANGED <<cache, fh>>

Read ==
  /\ At("read", "work") /\ Succeed
  /\ FlushSome(entry, dirty)
  /\ UNCHANGED <<device, fh, spoiled>>

ReadFails == At("read", "work") /\ Fail(entry, dirty)

CallWrite(d) ==
  /\ Usable(d) /\ fh[d].wr /\ Start("write", d)
  /\ UNCHANGED <<cache, fh>>

(* Card_FileClose marks the directory entry of the handle in the cache. A  *)
(* handle of another card finds some other entry there, or none.           *)
Own == fh[call.fd].card = slot
Marked(m) == IF Own THEN [entry EXCEPT ![fh[call.fd].file] = m] ELSE entry
Misuse == spoiled' = IF Own THEN spoiled ELSE spoiled \cup {slot}

MarkFlush_Later(e) == FlushSome(e, dirty)   (* a mutated form *)
MarkFlush(e) == FlushAll(e)

(* Before the first data is written the entry loses its attribute "closed" *)
(* and everything is flushed.                                              *)
Mark ==
  /\ At("write", "work") /\ ~fh[call.fd].changed
  /\ fh' = [fh EXCEPT ![call.fd].changed = TRUE]
  /\ MarkFlush(Marked("open")) /\ Go("data") /\ Misuse
  /\ UNCHANGED device

MarkFails ==
  /\ At("write", "work") /\ ~fh[call.fd].changed
  /\ Fail(Marked("open"), dirty)

NewData == IF Own THEN dirty \cup {fh[call.fd].file} ELSE dirty

WriteStep ==
  \/ At("write", "data")
  \/ At("write", "work") /\ fh[call.fd].changed

Write ==
  /\ WriteStep /\ Succeed /\ Misuse
  /\ FlushSome(Marked("open"), NewData)
  /\ UNCHANGED <<device, fh>>

(* An eviction, the chain or the directory entry failed.                   *)
WriteFails == WriteStep /\ \E e \in {entry, Marked("open")} : Fail(e, NewData)

(* No bytes: only Card_FileClose, which marks an unchanged file "closed".  *)
WriteNothing ==
  /\ At("write", "work") /\ Succeed /\ Misuse
  /\ FlushSome(Marked(IF fh[call.fd].changed THEN "open" ELSE "closed"), dirty)
  /\ UNCHANGED <<device, fh>>
-----------------------------------------------------------------------------
(* mcio_mcClose and Card_FileClose                                         *)

CallClose(d) ==
  /\ Usable(d) /\ Start("close", d)
  /\ fh' = [fh EXCEPT ![d].open = FALSE]
  /\ UNCHANGED cache

(* The data is flushed first; a handle that was not written is done.       *)
Close ==
  /\ At("close", "work")
  /\ FlushAll(entry)
  /\ IF fh[call.fd].changed THEN Go("seal") ELSE Succeed
  /\ UNCHANGED <<device, fh, spoiled>>

Seal ==
  /\ At("close", "seal") /\ Succeed /\ Misuse
  /\ FlushAll(Marked("closed"))
  /\ fh' = [fh EXCEPT ![call.fd].changed = FALSE]
  /\ UNCHANGED device

CloseFails ==
  \/ At("close", "work") /\ Fail(entry, dirty)
  \/ At("close", "seal") /\ \E e \in {entry, Marked("closed")} : Fail(e, dirty)
-----------------------------------------------------------------------------
Exchange ==
  /\ call = Idle /\ primed' = FALSE
  /\ slot' \in (Cards \cup {None}) \ {slot}
  /\ UNCHANGED <<known, form, cache, fh, call, told, spoiled>>

(* The program ends, in the middle of a call or not, and starts again.     *)
Restart ==
  /\ known' = None /\ form' = "none"
  /\ fh' = [d \in Fds |-> Unused] /\ call' = Idle
  /\ ClearCache
  /\ UNCHANGED <<slot, primed, told, spoiled>>
-----------------------------------------------------------------------------
Next ==
  \/ CallInit \/ CallInfo \/ CallOpen
  \/ \E d \in Fds : CallRead(d) \/ CallWrite(d) \/ CallClose(d)
  \/ DetectSame \/ DetectChanged \/ DetectNoFormat \/ DetectFails
  \/ \E f \in Files : \/ \E w \in BOOLEAN : Open(f, w)
                      \/ Create(f) \/ CreateFlushFails(f)
  \/ OpenFails \/ Read \/ ReadFails
  \/ Mark \/ MarkFails \/ Write \/ WriteFails \/ WriteNothing
  \/ Close \/ Seal \/ CloseFails
  \/ Exchange \/ Restart

Spec == Init /\ [][Next]_vars
-----------------------------------------------------------------------------
(* A call that gets beyond mcio_mcDetect works with the superblock of the  *)
(* card that is in the adaptor, whatever failed or was exchanged before.   *)
WorksOnKnownCard ==
  call.at \in {"work", "data", "seal"} => known = slot

(* A handle stays valid when mcio_mcDetect reports another card, and the   *)
(* next call uses it on that card.  It never happens before some call has  *)
(* reported an error, or mcio_init was called, since the file was opened.  *)
StaleHandleNeedsError ==
  call.at \in {"work", "data", "seal"} /\ call.fd # None /\ ~Own =>
    Name(call.fd) \in told

(* The attribute "closed" on the card means that all data of the file is   *)
(* there: not while it is being written, and not after the program ended   *)
(* or failed at any point - except for files in use when a call reported   *)
(* an error, and for cards that a stale handle wrote to.                   *)
ClosedMeansComplete ==
  \A c \in Formatted \ spoiled, f \in Files :
    /\ disk[c][f] = "closed"
    /\ <<c, f>> \in lost \/ (c = known /\ f \in dirty)
    => <<c, f>> \in told

(* No two handles write the same file of the same card.                    *)
OneWriter ==
  \A a, b \in Fds :
    fh[a].open /\ fh[a].wr /\ fh[b].open /\ fh[b].wr /\ Name(a) = Name(b) => a = b
=============================================================================
