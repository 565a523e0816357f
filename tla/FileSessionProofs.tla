-------------------------- MODULE FileSessionProofs ---------------------------
(***************************************************************************)
(* Proofs about FileSession for any number of cards, files and handles:    *)
(* what exchanges, failures and restarts may do to handles and files.      *)
(***************************************************************************)
EXTENDS FileSession, TLAPS

(* What mcio_devinfo says of the card is true as long as the card was not  *)
(* exchanged, and it was looked at before a call goes on.                  *)
DeviceOK ==
  /\ primed => slot # None
  /\ primed /\ form # "none" => known = slot
  /\ form = "formatted" => known \in Formatted
  /\ call.at \in {"work", "data", "seal"} => primed /\ form # "none"

(* The steps of each call, and the handle it was given.                    *)
CallOK ==
  /\ call.op \in {"read", "write", "close"} =>
       call.fd \in Fds /\ fh[call.fd].given
  /\ call.op \in {"read", "write"} => fh[call.fd].open
  /\ call.op = "write" => fh[call.fd].wr
  /\ call.op \notin {"read", "write", "close"} => call.fd = None
  /\ call.op = "none" => call.at = "idle"
  /\ call.op \in {"init", "info"} => call.at = "detect"
  /\ call.at = "data" => call.op = "write" /\ fh[call.fd].changed
  /\ call.at = "seal" => call.op = "close" /\ fh[call.fd].changed

(* A handle in use is that of a file of a formatted card; only one opened  *)
(* for writing is ever changed.                                            *)
HandlesOK ==
  \A d \in Fds :
    /\ fh[d].open \/ fh[d].given =>
         fh[d].file \in Files /\ fh[d].card \in Formatted
    /\ fh[d].changed => fh[d].wr

(* The handles that can still be used, the one of the call included.       *)
InUse(d) == fh[d].open \/ d = call.fd
Owner(d) == InUse(d) /\ fh[d].wr

OneOwner ==
  \A a, b \in Fds : Owner(a) /\ Owner(b) /\ Name(a) = Name(b) => a = b

(* Handles of a card that is no longer there follow a reported error.      *)
StaleAreTold ==
  /\ \A d \in Fds : InUse(d) => fh[d].card = known \/ Name(d) \in told
  /\ call.op = "init" => \A d \in Fds : fh[d].open => Name(d) \in told

SessionInv ==
  TypeOK /\ DeviceOK /\ CallOK /\ HandlesOK /\ OneOwner /\ StaleAreTold

(* Files with data that is lost or still in the cache are marked as open,  *)
(* as are those of a handle that wrote; such data belongs to one handle.   *)
Pending(c, f) == <<c, f>> \in lost \/ (c = known /\ f \in dirty)
WrittenBy(d, c, f) == Owner(d) /\ fh[d].given /\ Name(d) = <<c, f>>
MarkedOpen(c, f) == disk[c][f] = "open" /\ (c = known => entry[f] # "closed")

FileOK(c, f) ==
  /\ Pending(c, f) => MarkedOpen(c, f)
  /\ \A d \in Fds : WrittenBy(d, c, f) /\ fh[d].changed => MarkedOpen(c, f)
  /\ c = known /\ f \in dirty =>
       \E d \in Fds : WrittenBy(d, c, f) /\ fh[d].changed
  /\ <<c, f>> \in lost => \A d \in Fds : ~WrittenBy(d, c, f)

FilesOK ==
  \A c \in Formatted \ spoiled, f \in Files :
    <<c, f>> \notin told => FileOK(c, f)
-----------------------------------------------------------------------------
(* What the helpers do to the cache                                        *)

Entries == [Files -> {"same", "open", "closed"}]
Backed(e, ds) == (ds # {} \/ \E f \in Files : e[f] # "same") => known \in Formatted

LEMMA CleanFacts ==
  /\ Clean \in Entries /\ \A f \in Files : Clean[f] = "same"
  /\ None \notin Cards /\ None \notin Files /\ None \notin Fds
  /\ Formatted \subseteq Cards
  /\ Unused \in Handle
BY SessionAssumption DEF SessionAssumption, Clean, Entries, Unused, Handle

LEMMA ReachEffect ==
  ASSUME TypeOK, NEW e \in Entries, NEW es \in SUBSET Files, Reach(e, es)
  PROVE  /\ disk' \in [Formatted -> [Files -> {"open", "closed"}]]
         /\ \A c \in Formatted, f \in Files :
              disk'[c][f] = IF c = known /\ f \in es /\ e[f] # "same"
                              THEN e[f] ELSE disk[c][f]
BY DEF Reach, TypeOK, Entries

CacheTyped ==
  /\ entry \in Entries /\ dirty \subseteq Files
  /\ disk \in [Formatted -> [Files -> {"open", "closed"}]]
  /\ lost \subseteq Cards \X Files

LEMMA FlushTypes ==
  ASSUME TypeOK, NEW e \in Entries, NEW ds \in SUBSET Files, Backed(e, ds)
  PROVE  /\ FlushAll(e) => CacheTyped' /\ entry' = Clean /\ dirty' = {}
         /\ FlushSome(e, ds) =>
              /\ CacheTyped'
              /\ (dirty' # {} \/ \E f \in Files : entry'[f] # "same") =>
                   known \in Formatted
         /\ Drop(e, ds) => CacheTyped' /\ entry' = Clean /\ dirty' = {}
<1>1. ASSUME FlushAll(e) PROVE CacheTyped' /\ entry' = Clean /\ dirty' = {}
  BY <1>1, ReachEffect, CleanFacts DEF FlushAll, CacheTyped, TypeOK
<1>2. ASSUME FlushSome(e, ds)
      PROVE  /\ CacheTyped'
             /\ (dirty' # {} \/ \E f \in Files : entry'[f] # "same") =>
                  known \in Formatted
  <2>1. PICK es \in SUBSET Files :
          Reach(e, es) /\ entry' = [f \in Files |-> IF f \in es THEN "same" ELSE e[f]]
    BY <1>2 DEF FlushSome
  <2>2. dirty' \in SUBSET ds /\ lost' = lost
    BY <1>2 DEF FlushSome
  <2>3. entry' \in Entries /\ \A f \in Files : entry'[f] \in {"same", e[f]}
    BY <2>1 DEF Entries
  <2> QED
    BY <2>1, <2>2, <2>3, ReachEffect DEF CacheTyped, TypeOK, Backed
<1>3. ASSUME Drop(e, ds) PROVE CacheTyped' /\ entry' = Clean /\ dirty' = {}
  <2>1. PICK es \in SUBSET Files : Reach(e, es)
    BY <1>3 DEF Drop
  <2>2. PICK rest \in SUBSET ds : lost' = lost \cup ({known} \X rest)
    BY <1>3 DEF Drop
  <2>3. {known} \X rest \subseteq Cards \X Files
    BY <2>2, CleanFacts DEF Backed
  <2> QED
    BY <1>3, <2>1, <2>2, <2>3, ReachEffect, CleanFacts DEF Drop, CacheTyped, TypeOK
<1> QED
  BY <1>1, <1>2, <1>3

LEMMA ClearTypes ==
  ASSUME TypeOK, ClearCache
  PROVE  CacheTyped' /\ entry' = Clean /\ dirty' = {}
<1>1. {known} \X dirty \subseteq Cards \X Files
  BY CleanFacts DEF TypeOK
<1> QED
  BY <1>1, CleanFacts DEF ClearCache, TypeOK, CacheTyped

(* The cache as it is, or with the entry of the open handle marked.        *)
LEMMA MarkedTypes ==
  ASSUME SessionInv, call.at \in {"work", "data", "seal"}
  PROVE  /\ entry \in Entries /\ dirty \in SUBSET Files /\ Backed(entry, dirty)
         /\ call.fd # None =>
              /\ \A m \in {"open", "closed"} :
                   Marked(m) \in Entries /\ Backed(Marked(m), dirty)
              /\ NewData \in SUBSET Files
              /\ Backed(Marked("open"), NewData) /\ Backed(entry, NewData)
<1>1. entry \in Entries /\ dirty \in SUBSET Files /\ Backed(entry, dirty)
  BY DEF SessionInv, TypeOK, Entries, Backed
<1>2. ASSUME call.fd # None
      PROVE  /\ \A m \in {"open", "closed"} :
                   Marked(m) \in Entries /\ Backed(Marked(m), dirty)
             /\ NewData \in SUBSET Files
             /\ Backed(Marked("open"), NewData) /\ Backed(entry, NewData)
  <2>1. call.fd \in Fds /\ fh[call.fd].given
    BY <1>2 DEF SessionInv, CallOK
  <2>2. fh[call.fd].file \in Files /\ fh[call.fd].card \in Formatted
    BY <2>1 DEF SessionInv, HandlesOK
  <2>3. known = slot
    BY DEF SessionInv, DeviceOK
  <2> QED
    BY <1>1, <2>2, <2>3 DEF Marked, NewData, Own, Entries, Backed
<1> QED
  BY <1>1, <1>2

(* Handles are only closed: in use at most as before, on the same files.   *)
Alike(g) ==
  /\ g \in [Fds -> Handle]
  /\ \A x \in Fds : /\ g[x].given = fh[x].given /\ g[x].wr = fh[x].wr
                    /\ g[x].changed = fh[x].changed
                    /\ g[x].file = fh[x].file /\ g[x].card = fh[x].card
                    /\ g[x].open => fh[x].open

LEMMA ClosedAlike ==
  ASSUME TypeOK
  PROVE  /\ Alike(fh)
         /\ \A d \in Fds : Alike([fh EXCEPT ![d].open = FALSE])
         /\ InvFileHandles => Alike(fh') /\ \A d \in Fds : ~fh'[d].open
<1>1. \A h \in Handle : LET g == [h EXCEPT !.open = FALSE]
                       IN  /\ g \in Handle /\ g.given = h.given /\ g.wr = h.wr
                           /\ g.changed = h.changed /\ g.file = h.file
                           /\ g.card = h.card /\ g.open = FALSE
  BY DEF Handle
<1>2. Alike(fh)
  BY DEF Alike, TypeOK
<1>3. ASSUME NEW d \in Fds PROVE Alike([fh EXCEPT ![d].open = FALSE])
  <2>1. /\ [fh EXCEPT ![d].open = FALSE][d] = [fh[d] EXCEPT !.open = FALSE]
        /\ \A x \in Fds \ {d} : [fh EXCEPT ![d].open = FALSE][x] = fh[x]
        /\ [fh EXCEPT ![d].open = FALSE] \in [Fds -> Handle]
    BY <1>1 DEF TypeOK
  <2> QED
    BY <1>1, <2>1 DEF Alike, TypeOK
<1>4. ASSUME InvFileHandles PROVE Alike(fh') /\ \A d \in Fds : ~fh'[d].open
  BY <1>1, <1>4 DEF InvFileHandles, Alike, TypeOK
<1> QED
  BY <1>2, <1>3, <1>4

(* The handles, seen by the files they are open on.                        *)
LEMMA TellEffect ==
  ASSUME SessionInv, Tell
  PROVE  /\ told' \subseteq Cards \X Files
         /\ told \subseteq told'
         /\ \A d \in Fds : InUse(d) => Name(d) \in told'
<1>1. \A d \in Fds : InUse(d) => Name(d) \in Cards \X Files
  BY CleanFacts DEF SessionInv, HandlesOK, CallOK, InUse, Name
<1> QED
  BY <1>1 DEF Tell, InUse, SessionInv, TypeOK
-----------------------------------------------------------------------------
(* Each action preserves SessionInv                                        *)

LEMMA CallSteps ==
  ASSUME SessionInv,
         \/ CallInit \/ CallInfo \/ CallOpen
         \/ \E d \in Fds : CallRead(d) \/ CallWrite(d) \/ CallClose(d)
  PROVE  SessionInv'
<1>1. CASE CallInit
  <2>1. /\ call = Idle /\ call' = [op |-> "init", fd |-> None, at |-> "detect"]
        /\ UNCHANGED <<device, spoiled, fh>> /\ Tell /\ ClearCache
    BY <1>1 DEF CallInit, Begin
  <2>2. CacheTyped' /\ entry' = Clean /\ dirty' = {}
    BY <2>1, ClearTypes DEF SessionInv
  <2>3. /\ told' \subseteq Cards \X Files /\ told \subseteq told'
        /\ \A d \in Fds : InUse(d) => Name(d) \in told'
    BY <2>1, TellEffect
  <2>4. TypeOK'
    BY <2>1, <2>2, <2>3, CleanFacts
    DEF SessionInv, TypeOK, CacheTyped, device, Entries
  <2>5. DeviceOK' /\ CallOK' /\ HandlesOK' /\ OneOwner'
    BY <2>1, CleanFacts
    DEF SessionInv, DeviceOK, CallOK, HandlesOK, OneOwner, Owner, InUse, Name,
        device, Idle
  <2>6. StaleAreTold'
    BY <2>1, <2>3, CleanFacts DEF SessionInv, StaleAreTold, InUse, Name, device
  <2> QED
    BY <2>4, <2>5, <2>6 DEF SessionInv
<1>2. CASE CallInfo \/ CallOpen
  <2>1. /\ call = Idle /\ call'.op \in {"info", "open", "create"}
        /\ call' \in [op : {"info", "open", "create"}, fd : {None}, at : {"detect"}]
        /\ UNCHANGED <<device, spoiled, fh, cache, told>>
    BY <1>2 DEF CallInfo, CallOpen, Start, Begin
  <2>2. TypeOK' /\ DeviceOK' /\ CallOK'
    BY <2>1 DEF SessionInv, TypeOK, DeviceOK, CallOK, device, cache, Idle
  <2>3. HandlesOK' /\ OneOwner' /\ StaleAreTold'
    BY <2>1, CleanFacts
    DEF SessionInv, HandlesOK, OneOwner, StaleAreTold, Owner, InUse, Name, device,
        Idle
  <2> QED
    BY <2>2, <2>3 DEF SessionInv
<1>3. ASSUME NEW d \in Fds, CallRead(d) \/ CallWrite(d) \/ CallClose(d)
      PROVE  SessionInv'
  <2>1. /\ call = Idle /\ call'.fd = d /\ Usable(d)
        /\ call' \in [op : {"read", "write", "close"}, fd : Fds, at : {"detect"}]
        /\ UNCHANGED <<device, spoiled, cache, told>>
        /\ fh' \in {fh, [fh EXCEPT ![d].open = FALSE]}
        /\ call'.op \in {"read", "write"} => fh' = fh
        /\ call'.op = "write" => fh[d].wr
    BY <1>3 DEF CallRead, CallWrite, CallClose, Start, Begin
  <2>2. Alike(fh')
    <3>1. TypeOK
      BY DEF SessionInv
    <3> QED
      BY <2>1, <3>1, ClosedAlike
  <2>3. \A x \in Fds : /\ InUse(x)' => InUse(x)
                       /\ Name(x)' = Name(x)
    BY <2>1, <2>2, CleanFacts DEF Alike, InUse, Name, Usable, Idle
  <2>4. TypeOK'
    BY <2>1, <2>2 DEF Alike, SessionInv, TypeOK, device, cache
  <2>5. DeviceOK' /\ CallOK' /\ HandlesOK'
    BY <2>1, <2>2 DEF Alike, SessionInv, DeviceOK, CallOK, HandlesOK, device, Usable
  <2>6. OneOwner'
    BY <2>2, <2>3 DEF Alike, SessionInv, OneOwner, Owner
  <2>7. StaleAreTold'
    BY <2>1, <2>2, <2>3 DEF Alike, SessionInv, StaleAreTold, device
  <2> QED
    BY <2>4, <2>5, <2>6, <2>7 DEF SessionInv
<1> QED
  BY <1>1, <1>2, <1>3

LEMMA DetectSteps ==
  ASSUME SessionInv,
         DetectSame \/ DetectChanged \/ DetectNoFormat \/ DetectFails
  PROVE  SessionInv'
<1>1. CASE DetectSame
  <2>1. /\ call.at = "detect" /\ primed /\ form # "none"
        /\ UNCHANGED <<device, cache, fh, spoiled, told>>
        /\ IF call.op \in {"init", "info"} THEN call' = Idle
                                          ELSE call' = [call EXCEPT !.at = "work"]
    BY <1>1 DEF DetectSame, Recognised, Succeed, Go
  <2>2. /\ call' \in [op : {"none", "open", "create", "read", "write", "close"},
                      fd : Fds \cup {None}, at : {"idle", "work"}]
        /\ call'.at = "work" => call'.op = call.op
        /\ call'.fd = call.fd
        /\ call'.op = "none" => call'.at = "idle" /\ call.fd = None
        /\ call'.op = call.op \/ call'.op = "none"
    BY <2>1 DEF SessionInv, TypeOK, CallOK, Idle
  <2>3. TypeOK'
    BY <2>1, <2>2 DEF SessionInv, TypeOK, device, cache
  <2>4. DeviceOK' /\ CallOK' /\ HandlesOK'
    BY <2>1, <2>2 DEF SessionInv, DeviceOK, CallOK, HandlesOK, device
  <2>5. OneOwner' /\ StaleAreTold'
    BY <2>1, <2>2
    DEF SessionInv, OneOwner, StaleAreTold, Owner, InUse, Name, device
  <2> QED
    BY <2>3, <2>4, <2>5 DEF SessionInv
<1>2. CASE DetectChanged \/ DetectNoFormat \/ DetectFails
  <2>1. /\ call.at = "detect" /\ call' = Idle /\ UNCHANGED <<slot, spoiled>>
        /\ ClearCache
        /\ primed' \in BOOLEAN /\ (slot = None => primed' = FALSE)
        /\ \/ known' = slot /\ form' = "noformat"
           \/ known' = slot /\ form' = "formatted" /\ slot \in Formatted
           \/ known' = None /\ form' = "none"
        /\ fh' = fh \/ InvFileHandles
        /\ Tell \/ (call.op = "init" /\ told' = told)
    <3>1. CASE DetectChanged
      BY <3>1, CleanFacts DEF DetectChanged, Changed, Report, Succeed
    <3>2. CASE DetectNoFormat
      BY <3>2 DEF DetectNoFormat, Report
    <3>3. CASE DetectFails
      <4>1. primed' \in BOOLEAN /\ (slot = None => primed' = FALSE)
        BY <3>3 DEF DetectFails
      <4> QED
        BY <3>3, <4>1 DEF DetectFails, GiveUp, Report
    <3> QED
      BY <1>2, <3>1, <3>2, <3>3
  <2>2. Alike(fh') /\ TypeOK
    BY <2>1, ClosedAlike DEF SessionInv
  <2>3. CacheTyped' /\ entry' = Clean /\ dirty' = {}
    BY <2>1, ClearTypes DEF SessionInv
  <2>4. /\ told' \subseteq Cards \X Files
        /\ \A d \in Fds : fh[d].open => Name(d) \in told'
    BY <2>1, TellEffect DEF SessionInv, TypeOK, InUse, StaleAreTold
  <2>5. /\ TypeOK'
    BY <2>1, <2>2, <2>3, <2>4, CleanFacts
    DEF Alike, TypeOK, CacheTyped, Entries, Idle
  <2>6. DeviceOK' /\ CallOK' /\ HandlesOK'
    <3>0. slot' = slot
      BY <2>1
    <3>1. form' # "none" => known' = slot'
      BY <2>1, <3>0
    <3>2. form' = "formatted" => known' \in Formatted
      BY <2>1
    <3>3. primed' => slot' # None
      BY <2>1, <3>0
    <3> QED
      BY <2>1, <2>2, <3>1, <3>2, <3>3
      DEF Alike, SessionInv, DeviceOK, CallOK, HandlesOK, Idle
  <2>7. \A d \in Fds : /\ InUse(d)' => fh[d].open /\ InUse(d)
                      /\ Name(d)' = Name(d) /\ fh'[d].wr = fh[d].wr
    BY <2>1, <2>2, CleanFacts DEF Alike, InUse, Name, Idle
  <2>8. OneOwner'
    BY <2>7 DEF SessionInv, OneOwner, Owner
  <2>9. StaleAreTold'
    BY <2>1, <2>4, <2>7 DEF StaleAreTold, Idle
  <2> QED
    BY <2>5, <2>6, <2>8, <2>9 DEF SessionInv
<1> QED
  BY <1>1, <1>2

(* The end of a call that fails.                                           *)
LEMMA FailKeeps ==
  ASSUME SessionInv, NEW e \in Entries, NEW ds \in SUBSET Files, Backed(e, ds),
         call.at \in {"work", "data", "seal"}, Fail(e, ds)
  PROVE  SessionInv'
<1>1. /\ call' = Idle /\ Tell /\ UNCHANGED <<device, spoiled>>
      /\ FlushSome(e, ds) \/ Drop(e, ds)
      /\ \/ fh' = fh
         \/ InvFileHandles
         \/ call.op \in {"read", "write"} /\ fh' = [fh EXCEPT ![call.fd].open = FALSE]
  BY DEF Fail, Report
<1>2. Alike(fh') /\ TypeOK
  BY <1>1, ClosedAlike DEF SessionInv, CallOK
<1>3. CacheTyped' /\ ((dirty' # {} \/ \E f \in Files : entry'[f] # "same") =>
                       known \in Formatted)
  BY <1>1, <1>2, FlushTypes, CleanFacts
<1>4. /\ told' \subseteq Cards \X Files
      /\ \A d \in Fds : InUse(d) => Name(d) \in told'
  BY <1>1, TellEffect
<1>5. TypeOK'
  BY <1>1, <1>2, <1>3, <1>4 DEF Alike, TypeOK, CacheTyped, Entries, Idle, device
<1>6. DeviceOK' /\ CallOK' /\ HandlesOK'
  BY <1>1, <1>2 DEF Alike, SessionInv, DeviceOK, CallOK, HandlesOK, Idle, device
<1>7. \A d \in Fds : /\ InUse(d)' => InUse(d)
                    /\ Name(d)' = Name(d) /\ fh'[d].wr = fh[d].wr
  BY <1>1, <1>2, CleanFacts DEF Alike, InUse, Name, Idle
<1>8. OneOwner' /\ StaleAreTold'
  BY <1>1, <1>4, <1>7 DEF SessionInv, OneOwner, StaleAreTold, Owner, Idle
<1> QED
  BY <1>5, <1>6, <1>8 DEF SessionInv

LEMMA FailSteps ==
  ASSUME SessionInv,
         OpenFails \/ ReadFails \/ MarkFails \/ WriteFails \/ CloseFails
  PROVE  SessionInv'
<1>1. call.at \in {"work", "data", "seal"}
  BY DEF OpenFails, ReadFails, MarkFails, WriteFails, CloseFails, At, WriteStep
<1>2. /\ entry \in Entries /\ dirty \in SUBSET Files /\ Backed(entry, dirty)
  BY <1>1, MarkedTypes
<1>3. CASE OpenFails \/ ReadFails
  BY <1>1, <1>2, <1>3, FailKeeps DEF OpenFails, ReadFails
<1>4. CASE MarkFails \/ WriteFails \/ CloseFails
  <2>1. call.fd # None
    BY <1>4, CleanFacts
    DEF MarkFails, WriteFails, WriteStep, CloseFails, At, SessionInv, CallOK
  <2>2. PICK e \in {entry, Marked("open"), Marked("closed")},
             ds \in {dirty, NewData} :
          /\ Fail(e, ds)
          /\ Backed(e, ds)
    BY <1>1, <1>4, <2>1, MarkedTypes DEF MarkFails, WriteFails, CloseFails
  <2> QED
    BY <1>1, <1>2, <2>1, <2>2, MarkedTypes, FailKeeps
<1> QED
  BY <1>3, <1>4

(* A handle is taken for a file nobody writes.                             *)
LEMMA TakeKeeps ==
  ASSUME SessionInv, NEW f \in Files, NEW w \in BOOLEAN, NEW given \in BOOLEAN,
         call.fd = None, call' = Idle, form = "formatted", call.at = "work",
         w => ~OtherWriter(f), TakeHandle(f, w, given), UNCHANGED device,
         \A n \in Cards \X Files : n \in told \ told' => n = <<slot, f>>,
         told' \subseteq Cards \X Files
  PROVE  /\ fh' \in [Fds -> Handle]
         /\ HandlesOK' /\ OneOwner' /\ StaleAreTold' /\ DeviceOK' /\ CallOK'
<1>1. PICK d \in Fds :
        /\ ~fh[d].open
        /\ fh' = [fh EXCEPT ![d] =
                    [open |-> TRUE, wr |-> w, changed |-> FALSE, given |-> given,
                     file |-> f, card |-> slot]]
  BY DEF TakeHandle
<1>2. known = slot /\ slot \in Formatted /\ slot \in Cards
  BY CleanFacts DEF SessionInv, DeviceOK
<1>3. /\ fh' \in [Fds -> Handle]
      /\ fh'[d].open /\ (fh'[d].wr <=> w) /\ (fh'[d].given <=> given)
      /\ fh'[d].file = f /\ fh'[d].card = slot /\ ~fh'[d].changed
      /\ \A x \in Fds \ {d} : fh'[x] = fh[x]
  BY <1>1, <1>2 DEF SessionInv, TypeOK, Handle
<1>4. HandlesOK' /\ DeviceOK' /\ CallOK'
  BY <1>2, <1>3 DEF SessionInv, HandlesOK, DeviceOK, CallOK, Idle, device
<1>5. /\ \A x \in Fds : InUse(x)' <=> x = d \/ fh[x].open
      /\ \A x \in Fds \ {d} : Name(x)' = Name(x) /\ fh'[x].wr = fh[x].wr
      /\ Name(d)' = <<slot, f>>
  BY <1>3, CleanFacts DEF InUse, Name, Idle
<1>6. OneOwner'
  <2>1. \A x \in Fds : fh[x].open /\ fh[x].wr /\ w => Name(x) # <<slot, f>>
    BY DEF OtherWriter, HandlesOf, Name
  <2>2. \A x \in Fds : fh[x].open => InUse(x)
    BY DEF InUse
  <2> QED
    BY <1>3, <1>5, <2>1, <2>2 DEF SessionInv, OneOwner, Owner
<1>7. StaleAreTold'
  <2>1. ASSUME NEW x \in Fds, InUse(x)', fh'[x].card # known'
        PROVE  Name(x)' \in told'
    <3>1. x # d /\ fh[x].open /\ fh'[x] = fh[x] /\ known' = known
      BY <1>2, <1>3, <1>5, <2>1 DEF device
    <3>2. Name(x) \in told /\ Name(x) # <<slot, f>> /\ Name(x)' = Name(x)
      BY <1>2, <1>5, <2>1, <3>1 DEF SessionInv, StaleAreTold, InUse, Name
    <3> QED
      BY <3>2 DEF SessionInv, TypeOK
  <2> QED
    BY <2>1 DEF StaleAreTold, Idle
<1> QED
  BY <1>3, <1>4, <1>6, <1>7

LEMMA OpenSteps ==
  ASSUME SessionInv, NEW f \in Files, NEW w \in BOOLEAN,
         Open(f, w) \/ Create(f) \/ CreateFlushFails(f)
  PROVE  SessionInv'
<1>1. /\ call.fd = None /\ call' = Idle /\ form = "formatted" /\ call.at = "work"
      /\ UNCHANGED device /\ spoiled' = spoiled
  BY DEF Open, Create, CreateFlushFails, Report, At, SessionInv, CallOK
<1>2. known = slot /\ known \in Formatted
  BY <1>1 DEF SessionInv, DeviceOK
<1>3. /\ AsNew(f) \in Entries /\ Backed(AsNew(f), dirty) /\ TypeOK
      /\ dirty \in SUBSET Files
  BY <1>2 DEF SessionInv, TypeOK, AsNew, Entries, Backed
<1>4. CASE Open(f, w)
  <2>1. /\ told' \subseteq told
        /\ \A n \in Cards \X Files : n \in told \ told' => n = <<slot, f>>
        /\ lost' \subseteq lost
    BY <1>4 DEF Open, Afresh
  <2>2. /\ fh' \in [Fds -> Handle]
        /\ HandlesOK' /\ OneOwner' /\ StaleAreTold' /\ DeviceOK' /\ CallOK'
    <3>1. (w => ~OtherWriter(f)) /\ TakeHandle(f, w, TRUE)
      BY <1>4 DEF Open
    <3>2. told' \subseteq Cards \X Files
      BY <1>3, <2>1 DEF TypeOK
    <3> QED
      BY <1>1, <2>1, <3>1, <3>2, TakeKeeps
  <2>3. TypeOK'
    BY <1>1, <1>2, <1>3, <1>4, <2>1, <2>2 DEF Open, TypeOK, Idle, device
  <2> QED
    BY <2>2, <2>3 DEF SessionInv
<1>5. CASE Create(f)
  <2>1. /\ told' \subseteq told
        /\ \A n \in Cards \X Files : n \in told \ told' => n = <<slot, f>>
        /\ lost' \subseteq lost
    BY <1>5 DEF Create, Afresh
  <2>2. ~OtherWriter(f) /\ TakeHandle(f, TRUE, TRUE)
    BY <1>5 DEF Create, OtherWriter
  <2>3. /\ fh' \in [Fds -> Handle]
        /\ HandlesOK' /\ OneOwner' /\ StaleAreTold' /\ DeviceOK' /\ CallOK'
    BY <1>1, <1>3, <2>1, <2>2, TakeKeeps DEF TypeOK
  <2>4. disk' \in [Formatted -> [Files -> {"open", "closed"}]]
    BY <1>3, <1>5, ReachEffect DEF Create
  <2>5. TypeOK'
    BY <1>1, <1>2, <1>3, <1>5, <2>1, <2>3, <2>4, CleanFacts
    DEF Create, TypeOK, Idle, device, Entries
  <2> QED
    BY <2>3, <2>5 DEF SessionInv
<1>6. CASE CreateFlushFails(f)
  <2>1. told \subseteq told' /\ told' \subseteq Cards \X Files
    BY <1>6, TellEffect DEF CreateFlushFails, Report
  <2>2. ~OtherWriter(f) /\ TakeHandle(f, TRUE, FALSE)
    BY <1>6 DEF CreateFlushFails, OtherWriter
  <2>3. /\ fh' \in [Fds -> Handle]
        /\ HandlesOK' /\ OneOwner' /\ StaleAreTold' /\ DeviceOK' /\ CallOK'
    BY <1>1, <2>1, <2>2, TakeKeeps
  <2>4. CacheTyped'
    BY <1>3, <1>6, FlushTypes DEF CreateFlushFails
  <2>5. TypeOK'
    BY <1>1, <1>2, <1>3, <2>1, <2>3, <2>4
    DEF TypeOK, Idle, device, CacheTyped, Entries
  <2> QED
    BY <2>3, <2>5 DEF SessionInv
<1> QED
  BY <1>4, <1>5, <1>6

LEMMA ReadWriteSteps ==
  ASSUME SessionInv, Read \/ Mark \/ Write \/ WriteNothing \/ Close \/ Seal
  PROVE  SessionInv'
<1>1. /\ call.at \in {"work", "data", "seal"}
      /\ call.op \in {"read", "write", "close"}
      /\ UNCHANGED device /\ told' = told
      /\ \/ call' = Idle
         \/ Mark /\ call' = [call EXCEPT !.at = "data"]
         \/ Close /\ fh[call.fd].changed /\ call' = [call EXCEPT !.at = "seal"]
  BY DEF Read, Mark, Write, WriteNothing, WriteStep, Close, Seal, At, Go, Succeed
<1>2. call.fd \in Fds /\ call.fd # None /\ fh[call.fd].given
      /\ fh[call.fd].card \in Formatted /\ known = slot /\ TypeOK
      /\ slot \in Cards
  BY <1>1, CleanFacts DEF SessionInv, TypeOK, CallOK, HandlesOK, DeviceOK
<1>3. /\ CacheTyped'
      /\ (dirty' # {} \/ \E f \in Files : entry'[f] # "same") => known \in Formatted
  <2>1. PICK e \in {entry, Marked("open"), Marked("closed")}, ds \in {dirty, NewData} :
          /\ FlushAll(e) \/ FlushSome(e, ds)
          /\ Backed(e, ds)
    BY <1>1, <1>2, MarkedTypes
    DEF Read, Mark, MarkFlush, Write, WriteNothing, Close, Seal
  <2>2. e \in Entries /\ ds \in SUBSET Files
    BY <1>1, <1>2, MarkedTypes
  <2> QED
    BY <1>2, <2>1, <2>2, FlushTypes, CleanFacts
<1>4. /\ fh' \in [Fds -> Handle]
      /\ \A x \in Fds : /\ fh'[x].open = fh[x].open /\ fh'[x].given = fh[x].given
                        /\ fh'[x].wr = fh[x].wr
                        /\ fh'[x].file = fh[x].file /\ fh'[x].card = fh[x].card
      /\ Mark => fh'[call.fd].changed
      /\ Close => fh' = fh
      /\ \A x \in Fds : fh'[x].changed => fh[x].changed \/ (Mark /\ x = call.fd)
  <2>1. \A h \in Handle :
          LET g == [h EXCEPT !.changed = TRUE]
          IN  /\ g \in Handle /\ g.open = h.open /\ g.given = h.given
              /\ g.wr = h.wr /\ g.file = h.file /\ g.card = h.card
              /\ g.changed = TRUE
    BY DEF Handle
  <2>2. \A h \in Handle :
          LET g == [h EXCEPT !.changed = FALSE]
          IN  /\ g \in Handle /\ g.open = h.open /\ g.given = h.given
              /\ g.wr = h.wr /\ g.file = h.file /\ g.card = h.card
              /\ g.changed = FALSE
    BY DEF Handle
  <2>3. CASE fh' = fh /\ ~Mark
    BY <1>2, <2>3 DEF TypeOK
  <2>4. CASE Mark
    <3>1. /\ fh'[call.fd] = [fh[call.fd] EXCEPT !.changed = TRUE]
          /\ \A x \in Fds \ {call.fd} : fh'[x] = fh[x]
          /\ fh' \in [Fds -> Handle]
      BY <1>2, <2>1, <2>4 DEF Mark, TypeOK
    <3>2. ~Close
      BY <2>4 DEF Mark, Close, At
    <3>3. fh[call.fd] \in Handle
      BY <1>2 DEF TypeOK
    <3>4. /\ fh'[call.fd].open = fh[call.fd].open
          /\ fh'[call.fd].given = fh[call.fd].given
          /\ fh'[call.fd].wr = fh[call.fd].wr
          /\ fh'[call.fd].file = fh[call.fd].file
          /\ fh'[call.fd].card = fh[call.fd].card
          /\ Mark => fh'[call.fd].changed
      BY <2>1, <3>1, <3>2, <3>3
    <3> QED
      BY <2>4, <3>1, <3>2, <3>4
  <2>5. CASE Seal
    <3>1. /\ fh'[call.fd] = [fh[call.fd] EXCEPT !.changed = FALSE]
          /\ \A x \in Fds \ {call.fd} : fh'[x] = fh[x]
          /\ fh' \in [Fds -> Handle]
      BY <1>2, <2>2, <2>5 DEF Seal, TypeOK
    <3>2. ~Close /\ ~Mark
      BY <2>5 DEF Seal, Mark, Close, At
    <3>3. fh[call.fd] \in Handle
      BY <1>2 DEF TypeOK
    <3>4. /\ fh'[call.fd].open = fh[call.fd].open
          /\ fh'[call.fd].given = fh[call.fd].given
          /\ fh'[call.fd].wr = fh[call.fd].wr
          /\ fh'[call.fd].file = fh[call.fd].file
          /\ fh'[call.fd].card = fh[call.fd].card
      BY <2>2, <3>1, <3>3
    <3>5. fh'[call.fd].changed = FALSE
      BY <2>2, <3>1, <3>3
    <3> QED
      BY <3>1, <3>2, <3>4, <3>5
  <2> QED
    BY <2>3, <2>4, <2>5 DEF Read, Write, WriteNothing, Close, Mark, At
<1>5. spoiled' \subseteq Cards
  BY <1>2, CleanFacts
  DEF Read, Mark, Write, WriteNothing, Close, Seal, Misuse, TypeOK, Own, device
<1>6. /\ call' \in [op : {"none", "read", "write", "close"},
                    fd : Fds \cup {None}, at : {"idle", "data", "seal"}]
      /\ call' = Idle \/ (call'.op = call.op /\ call'.fd = call.fd)
      /\ call'.at = "data" => Mark
      /\ call'.at = "seal" => Close /\ fh[call.fd].changed
  BY <1>1, <1>2 DEF TypeOK, Idle
<1>7. TypeOK'
  BY <1>1, <1>2, <1>3, <1>4, <1>5, <1>6 DEF TypeOK, CacheTyped, Entries, device
<1>8. DeviceOK' /\ CallOK' /\ HandlesOK'
  BY <1>1, <1>2, <1>4, <1>6
  DEF SessionInv, DeviceOK, CallOK, HandlesOK, Idle, device, Mark, Close, At
<1>9. OneOwner' /\ StaleAreTold'
  <2>1. \A x \in Fds : /\ InUse(x)' => InUse(x) /\ Name(x)' = Name(x)
                       /\ fh'[x].wr = fh[x].wr /\ fh'[x].card = fh[x].card
    BY <1>4, <1>6, CleanFacts DEF InUse, Name, Idle
  <2> QED
    BY <1>1, <1>6, <2>1
    DEF SessionInv, OneOwner, StaleAreTold, Owner, Idle, device
<1> QED
  BY <1>7, <1>8, <1>9 DEF SessionInv

LEMMA ExchangeRestart ==
  ASSUME SessionInv, Exchange \/ Restart
  PROVE  SessionInv'
<1>1. CASE Exchange
  BY <1>1, CleanFacts
  DEF Exchange, SessionInv, TypeOK, DeviceOK, CallOK, HandlesOK, OneOwner,
      StaleAreTold, Owner, InUse, Name, Idle, cache
<1>2. CASE Restart
  <2>1. CacheTyped' /\ entry' = Clean /\ dirty' = {}
    BY <1>2, ClearTypes DEF Restart, SessionInv
  <2>2. /\ fh' \in [Fds -> Handle] /\ call' = Idle
        /\ \A d \in Fds : ~fh'[d].open /\ ~fh'[d].given /\ ~fh'[d].changed
    BY <1>2, CleanFacts DEF Restart, Unused
  <2>3. TypeOK'
    BY <1>2, <2>1, <2>2, CleanFacts
    DEF Restart, SessionInv, TypeOK, CacheTyped, Entries, Idle
  <2>4. /\ DeviceOK' /\ CallOK' /\ HandlesOK' /\ OneOwner' /\ StaleAreTold'
    BY <1>2, <2>2, CleanFacts
    DEF Restart, SessionInv, DeviceOK, CallOK, HandlesOK, OneOwner, StaleAreTold, Owner,
        InUse, Idle
  <2> QED
    BY <2>3, <2>4 DEF SessionInv
<1> QED
  BY <1>1, <1>2

LEMMA SessionStep == SessionInv /\ [Next]_vars => SessionInv'
<1> SUFFICES ASSUME SessionInv, [Next]_vars PROVE SessionInv'
  OBVIOUS
<1>1. CASE UNCHANGED vars
  BY <1>1
  DEF vars, device, cache, SessionInv, TypeOK, DeviceOK, CallOK, HandlesOK,
      OneOwner, StaleAreTold, Owner, InUse, Name
<1>2. CASE Next
  BY <1>2, CallSteps, DetectSteps, OpenSteps, FailSteps, ReadWriteSteps,
     ExchangeRestart DEF Next
<1> QED
  BY <1>1, <1>2

(* Handles, cache and the call in progress stay in the states SessionInv   *)
(* describes, whatever fails, is exchanged or ends.                        *)
THEOREM SessionInvHolds == Spec => []SessionInv
<1>1. Init => SessionInv
  <2> SUFFICES ASSUME Init PROVE SessionInv
    OBVIOUS
  <2>1. /\ fh \in [Fds -> Handle] /\ call = Idle
        /\ \A d \in Fds : ~fh[d].open /\ ~fh[d].given /\ ~fh[d].changed
    BY CleanFacts DEF Init, Unused
  <2>2. /\ entry \in Entries /\ (\A f \in Files : entry[f] = "same") /\ dirty = {}
        /\ disk \in [Formatted -> [Files -> {"open", "closed"}]]
    BY DEF Init, Entries
  <2>3. TypeOK
    <3>1. /\ slot \in Cards \cup {None} /\ primed = FALSE /\ known = None
          /\ form = "none" /\ lost = {} /\ told = {} /\ spoiled = {}
      BY DEF Init
    <3> QED
      BY <2>1, <2>2, <3>1 DEF TypeOK, Idle, Entries
  <2> QED
    BY <2>1, <2>3, CleanFacts
    DEF Init, SessionInv, DeviceOK, CallOK, HandlesOK, OneOwner, StaleAreTold,
        Owner, InUse, Idle
<1> QED
  BY <1>1, SessionStep, PTL DEF Spec

(* The state of the handles and the cache keeps its type.                  *)
THEOREM SessionTypes == Spec => []TypeOK
BY SessionInvHolds, PTL DEF SessionInv

(* No call ever works with the superblock of another card.                 *)
THEOREM KnownCardHolds == Spec => []WorksOnKnownCard
<1>1. SessionInv => WorksOnKnownCard
  BY DEF SessionInv, DeviceOK, WorksOnKnownCard
<1> QED
  BY <1>1, SessionInvHolds, PTL

(* A handle of another card is only used after a reported error.           *)
THEOREM StaleHandleHolds == Spec => []StaleHandleNeedsError
<1>1. SessionInv => StaleHandleNeedsError
  <2> SUFFICES ASSUME SessionInv, call.at \in {"work", "data", "seal"},
                      call.fd # None, ~Own
               PROVE  Name(call.fd) \in told
    BY DEF StaleHandleNeedsError
  <2>1. call.fd \in Fds /\ known = slot
    BY DEF SessionInv, TypeOK, DeviceOK
  <2> QED
    BY <2>1 DEF SessionInv, StaleAreTold, InUse, Own
<1> QED
  BY <1>1, SessionInvHolds, PTL

(* Two handles never write the same file.                                  *)
THEOREM OneWriterHolds == Spec => []OneWriter
<1>1. SessionInv => OneWriter
  BY DEF SessionInv, OneOwner, OneWriter, Owner, InUse
<1> QED
  BY <1>1, SessionInvHolds, PTL
-----------------------------------------------------------------------------
(* Each action preserves FilesOK                                           *)

(* A step that tells of all handles in use, drops or flushes what is in    *)
(* the cache - ds and the entries e - and leaves no other handle in use.   *)
LEMMA ToldStep ==
  ASSUME SessionInv, FilesOK, NEW c \in Formatted \ spoiled, NEW f \in Files,
         <<c, f>> \notin told,
         \A d \in Fds : InUse(d) => Name(d) # <<c, f>>,
         NEW e \in Entries, NEW ds \in SUBSET Files,
         c = known => e[f] \in {entry[f], "open"},
         c = known /\ f \in ds => f \in dirty,
         <<c, f>> \in lost' => <<c, f>> \in lost \/ (c = known /\ f \in ds),
         disk'[c][f] = disk[c][f]
           \/ (c = known /\ e[f] # "same" /\ disk'[c][f] = e[f]),
         \/ known' = known /\ entry'[f] \in {"same", e[f]} /\ dirty' \subseteq ds
         \/ entry'[f] = "same" /\ dirty' = {},
         \A d \in Fds : InUse(d)' /\ fh'[d].given => InUse(d) /\ Name(d)' = Name(d)
  PROVE  FileOK(c, f)'
<1>1. \A d \in Fds : ~WrittenBy(d, c, f) /\ ~WrittenBy(d, c, f)'
  BY DEF WrittenBy, Owner
<1>2. FileOK(c, f)
  BY DEF FilesOK
<1>3. ~(c = known /\ f \in ds)
  BY <1>1, <1>2 DEF FileOK
<1>4. <<c, f>> \in lost' => disk[c][f] = "open" /\ (c = known => entry[f] # "closed")
  BY <1>2, <1>3 DEF FileOK, Pending, MarkedOpen
<1>5. ~(c = known' /\ f \in dirty')
  BY <1>3
<1>6. <<c, f>> \in lost' => MarkedOpen(c, f)'
  <2>1. SUFFICES ASSUME <<c, f>> \in lost' PROVE MarkedOpen(c, f)'
    OBVIOUS
  <2>2. disk'[c][f] = "open"
    BY <1>4, <2>1 DEF Entries
  <2>3. c = known' => entry'[f] # "closed"
    BY <1>4, <2>1
  <2> QED
    BY <2>2, <2>3 DEF MarkedOpen
<1> QED
  BY <1>1, <1>5, <1>6 DEF FileOK, Pending

(* What a flush or a drop does to one file of one card.                    *)
LEMMA CacheOfFile ==
  ASSUME TypeOK, NEW e \in Entries, NEW ds \in SUBSET Files,
         NEW c \in Formatted, NEW f \in Files
  PROVE  /\ FlushAll(e) =>
              /\ disk'[c][f] = IF c = known /\ e[f] # "same" THEN e[f] ELSE disk[c][f]
              /\ entry'[f] = "same" /\ dirty' = {} /\ lost' = lost
         /\ FlushSome(e, ds) =>
              /\ disk'[c][f] = disk[c][f]
                   \/ (c = known /\ e[f] # "same" /\ disk'[c][f] = e[f])
              /\ entry'[f] \in {"same", e[f]} /\ dirty' \subseteq ds /\ lost' = lost
         /\ Drop(e, ds) =>
              /\ disk'[c][f] = disk[c][f]
                   \/ (c = known /\ e[f] # "same" /\ disk'[c][f] = e[f])
              /\ entry'[f] = "same" /\ dirty' = {}
              /\ <<c, f>> \in lost' => <<c, f>> \in lost \/ (c = known /\ f \in ds)
         /\ ClearCache =>
              /\ disk'[c][f] = disk[c][f] /\ entry'[f] = "same" /\ dirty' = {}
              /\ <<c, f>> \in lost' => <<c, f>> \in lost \/ (c = known /\ f \in dirty)
<1>1. ASSUME FlushAll(e)
      PROVE  /\ disk'[c][f] = IF c = known /\ e[f] # "same" THEN e[f] ELSE disk[c][f]
             /\ entry'[f] = "same" /\ dirty' = {} /\ lost' = lost
  BY <1>1, ReachEffect, CleanFacts DEF FlushAll
<1>2. ASSUME FlushSome(e, ds)
      PROVE  /\ disk'[c][f] = disk[c][f]
                  \/ (c = known /\ e[f] # "same" /\ disk'[c][f] = e[f])
             /\ entry'[f] \in {"same", e[f]} /\ dirty' \subseteq ds /\ lost' = lost
  <2>1. PICK es \in SUBSET Files :
          Reach(e, es) /\ entry' = [g \in Files |-> IF g \in es THEN "same" ELSE e[g]]
    BY <1>2 DEF FlushSome
  <2> QED
    BY <1>2, <2>1, ReachEffect DEF FlushSome
<1>3. ASSUME Drop(e, ds)
      PROVE  /\ disk'[c][f] = disk[c][f]
                  \/ (c = known /\ e[f] # "same" /\ disk'[c][f] = e[f])
             /\ entry'[f] = "same" /\ dirty' = {}
             /\ <<c, f>> \in lost' => <<c, f>> \in lost \/ (c = known /\ f \in ds)
  <2>1. PICK es \in SUBSET Files : Reach(e, es)
    BY <1>3 DEF Drop
  <2>2. PICK rest \in SUBSET ds : lost' = lost \cup ({known} \X rest)
    BY <1>3 DEF Drop
  <2> QED
    BY <1>3, <2>1, <2>2, ReachEffect, CleanFacts DEF Drop
<1>4. ASSUME ClearCache
      PROVE  /\ disk'[c][f] = disk[c][f] /\ entry'[f] = "same" /\ dirty' = {}
             /\ <<c, f>> \in lost' => <<c, f>> \in lost \/ (c = known /\ f \in dirty)
  BY <1>4, CleanFacts DEF ClearCache
<1> QED
  BY <1>1, <1>2, <1>3, <1>4

(* A step that leaves the cache and the use of the handles alone.          *)
LEMMA QuietStep ==
  ASSUME FilesOK, NEW c \in Formatted \ spoiled, NEW f \in Files,
         <<c, f>> \notin told, UNCHANGED <<known, cache>>,
         \A d \in Fds : /\ InUse(d)' <=> InUse(d)
                       /\ Name(d)' = Name(d) /\ fh'[d].wr = fh[d].wr
                       /\ fh'[d].given = fh[d].given /\ fh'[d].changed = fh[d].changed
  PROVE  FileOK(c, f)'
<1>1. FileOK(c, f)
  BY DEF FilesOK
<1>2. \A d \in Fds : WrittenBy(d, c, f)' <=> WrittenBy(d, c, f)
  BY DEF WrittenBy, Owner
<1>3. (Pending(c, f)' <=> Pending(c, f)) /\ (MarkedOpen(c, f)' <=> MarkedOpen(c, f))
  BY DEF Pending, MarkedOpen, cache
<1> QED
  BY <1>1, <1>2, <1>3 DEF FileOK, cache

LEMMA QuietSteps ==
  ASSUME SessionInv, FilesOK, NEW c \in Formatted \ spoiled', NEW f \in Files,
         <<c, f>> \notin told',
         \/ CallInfo \/ CallOpen \/ DetectSame \/ Exchange
         \/ \E d \in Fds : CallRead(d) \/ CallWrite(d) \/ CallClose(d)
  PROVE  FileOK(c, f)'
<1>1. UNCHANGED <<known, cache, told, spoiled>>
  BY DEF CallInfo, CallOpen, DetectSame, Exchange, CallRead, CallWrite, CallClose,
         Start, Begin, Succeed, Go, device
<1>2. c \in Formatted \ spoiled /\ <<c, f>> \notin told
  BY <1>1
<1>3. \A d \in Fds : /\ InUse(d)' <=> InUse(d)
                    /\ Name(d)' = Name(d) /\ fh'[d].wr = fh[d].wr
                    /\ fh'[d].given = fh[d].given /\ fh'[d].changed = fh[d].changed
  <2>1. CASE CallInfo \/ CallOpen \/ DetectSame \/ Exchange
    <3>1. fh' = fh /\ (call'.fd = call.fd \/ (call.fd = None /\ call'.fd = None))
      BY <2>1 DEF CallInfo, CallOpen, DetectSame, Exchange, Start, Begin, Succeed, Go,
                  Idle, SessionInv, TypeOK, CallOK
    <3> QED
      BY <3>1 DEF InUse, Name
  <2>2. ASSUME NEW x \in Fds, CallRead(x) \/ CallWrite(x) \/ CallClose(x)
        PROVE  \A d \in Fds : /\ InUse(d)' <=> InUse(d)
                             /\ Name(d)' = Name(d) /\ fh'[d].wr = fh[d].wr
                             /\ fh'[d].given = fh[d].given
                             /\ fh'[d].changed = fh[d].changed
    <3>1. /\ call = Idle /\ call'.fd = x /\ fh[x].open
          /\ fh' \in {fh, [fh EXCEPT ![x].open = FALSE]}
      BY <2>2 DEF CallRead, CallWrite, CallClose, Start, Begin, Usable
    <3>2. Alike(fh') /\ TypeOK
      BY <3>1, ClosedAlike DEF SessionInv
    <3>3. \A d \in Fds : d # x => fh'[d] = fh[d]
      BY <3>1, <3>2 DEF TypeOK
    <3> QED
      BY <3>1, <3>2, <3>3, CleanFacts DEF Alike, InUse, Name, Idle
  <2> QED
    BY <2>1, <2>2
<1> QED
  BY <1>1, <1>2, <1>3, QuietStep

LEMMA TellSteps ==
  ASSUME SessionInv, FilesOK, NEW c \in Formatted \ spoiled', NEW f \in Files,
         <<c, f>> \notin told',
         CallInit \/ DetectChanged \/ DetectNoFormat \/ DetectFails
  PROVE  FileOK(c, f)'
<1>1. /\ ClearCache /\ spoiled' = spoiled
      /\ fh' = fh \/ InvFileHandles
      /\ call'.fd = None
      /\ Tell \/ (call.op = "init" /\ told' = told)
  <2>1. CASE CallInit
    BY <2>1 DEF CallInit, Begin
  <2>2. CASE DetectChanged
    BY <2>2 DEF DetectChanged, Changed, Report, Succeed, Idle
  <2>3. CASE DetectNoFormat
    BY <2>3 DEF DetectNoFormat, Report, Idle
  <2>4. CASE DetectFails
    BY <2>4 DEF DetectFails, GiveUp, Report, Idle
  <2> QED
    BY <2>1, <2>2, <2>3, <2>4
<1>2. /\ \A d \in Fds : InUse(d) => Name(d) # <<c, f>>
      /\ <<c, f>> \notin told
  <2>1. CASE Tell
    BY <2>1, TellEffect
  <2>2. CASE call.op = "init" /\ told' = told
    <3>1. call.fd = None
      BY <2>2 DEF SessionInv, CallOK
    <3> QED
      BY <2>2, <3>1, CleanFacts DEF SessionInv, StaleAreTold, InUse
  <2> QED
    BY <1>1, <2>1, <2>2
<1>3. /\ disk'[c][f] = disk[c][f] /\ entry'[f] = "same" /\ dirty' = {}
      /\ <<c, f>> \in lost' => <<c, f>> \in lost \/ (c = known /\ f \in dirty)
  <2>1. TypeOK /\ entry \in Entries /\ dirty \in SUBSET Files
    BY DEF SessionInv, TypeOK, Entries
  <2> QED
    BY <1>1, <2>1, CacheOfFile
<1>4. \A d \in Fds : InUse(d)' /\ fh'[d].given => InUse(d) /\ Name(d)' = Name(d)
  <2>1. Alike(fh')
    BY <1>1, ClosedAlike DEF SessionInv
  <2> QED
    BY <1>1, <2>1, CleanFacts DEF Alike, InUse, Name
<1>5. /\ entry \in Entries /\ dirty \in SUBSET Files
      /\ c \in Formatted \ spoiled
  BY <1>1 DEF SessionInv, TypeOK, Entries
<1> QED
  BY <1>2, <1>3, <1>4, <1>5, ToldStep

(* The end of a call that fails: e and ds may differ from the cache for    *)
(* the file of the call, whose handle is in use.                           *)
LEMMA FailFiles ==
  ASSUME SessionInv, FilesOK, NEW c \in Formatted \ spoiled', NEW f \in Files,
         <<c, f>> \notin told',
         NEW e \in Entries, NEW ds \in SUBSET Files,
         <<c, f>> # Name(call.fd) \/ call.fd = None =>
           /\ c = known => e[f] = entry[f]
           /\ c = known /\ f \in ds => f \in dirty,
         Fail(e, ds)
  PROVE  FileOK(c, f)'
<1>1. /\ call' = Idle /\ Tell /\ UNCHANGED <<device, spoiled>>
      /\ FlushSome(e, ds) \/ Drop(e, ds)
      /\ \/ fh' = fh
         \/ InvFileHandles
         \/ call.op \in {"read", "write"} /\ fh' = [fh EXCEPT ![call.fd].open = FALSE]
  BY DEF Fail, Report
<1>2. Alike(fh') /\ TypeOK
  BY <1>1, ClosedAlike DEF SessionInv, CallOK
<1>3. /\ \A d \in Fds : InUse(d) => Name(d) # <<c, f>>
      /\ <<c, f>> \notin told
  BY <1>1, TellEffect
<1>4. <<c, f>> # Name(call.fd) \/ call.fd = None
  BY <1>2, <1>3 DEF InUse, TypeOK
<1>5. \A d \in Fds : InUse(d)' /\ fh'[d].given => InUse(d) /\ Name(d)' = Name(d)
  BY <1>1, <1>2, CleanFacts DEF Alike, InUse, Name, Idle
<1>6. c \in Formatted \ spoiled /\ known' = known
  BY <1>1 DEF device
<1>7. /\ disk'[c][f] = disk[c][f]
           \/ (c = known /\ e[f] # "same" /\ disk'[c][f] = e[f])
      /\ \/ known' = known /\ entry'[f] \in {"same", e[f]} /\ dirty' \subseteq ds
         \/ entry'[f] = "same" /\ dirty' = {}
      /\ <<c, f>> \in lost' => <<c, f>> \in lost \/ (c = known /\ f \in ds)
  BY <1>1, <1>2, <1>6, CacheOfFile
<1>8. c = known => e[f] \in {entry[f], "open"}
  BY <1>4
<1> QED
  BY <1>3, <1>4, <1>5, <1>6, <1>7, <1>8, ToldStep

(* Only the file of the call is marked, or gets new data.                  *)
LEMMA OthersUnmarked ==
  ASSUME SessionInv, call.at \in {"work", "data", "seal"}, call.fd # None,
         NEW f \in Files, <<known, f>> # Name(call.fd)
  PROVE  /\ \A m \in {"open", "closed"} : Marked(m)[f] = entry[f]
         /\ f \in NewData => f \in dirty
<1>1. known = slot /\ entry \in Entries
  BY DEF SessionInv, DeviceOK, TypeOK, Entries
<1>2. Own => fh[call.fd].file # f
  BY <1>1 DEF Own, Name
<1> QED
  BY <1>1, <1>2 DEF Marked, NewData, Entries

LEMMA FailStepsFiles ==
  ASSUME SessionInv, FilesOK, NEW c \in Formatted \ spoiled', NEW f \in Files,
         <<c, f>> \notin told',
         OpenFails \/ ReadFails \/ MarkFails \/ WriteFails \/ CloseFails
  PROVE  FileOK(c, f)'
<1>1. call.at \in {"work", "data", "seal"}
  BY DEF OpenFails, ReadFails, MarkFails, WriteFails, CloseFails, At, WriteStep
<1>2. entry \in Entries /\ dirty \in SUBSET Files
  BY DEF SessionInv, TypeOK, Entries
<1>3. CASE OpenFails \/ ReadFails
  <2>1. Fail(entry, dirty)
    BY <1>3 DEF OpenFails, ReadFails
  <2> QED
    BY <1>2, <2>1, FailFiles
<1>4. CASE MarkFails \/ WriteFails \/ CloseFails
  <2>1. call.fd # None
    BY <1>4, CleanFacts
    DEF MarkFails, WriteFails, WriteStep, CloseFails, At, SessionInv, CallOK
  <2>2. PICK e \in {entry, Marked("open"), Marked("closed")},
             ds \in {dirty, NewData} : Fail(e, ds)
    BY <1>4 DEF MarkFails, WriteFails, CloseFails
  <2>3. e \in Entries /\ ds \in SUBSET Files
    BY <1>1, <1>2, <2>1, MarkedTypes
  <2>4. <<c, f>> # Name(call.fd) \/ call.fd = None =>
          /\ c = known => e[f] = entry[f]
          /\ c = known /\ f \in ds => f \in dirty
    BY <1>1, <2>1, OthersUnmarked
  <2> QED
    BY <2>2, <2>3, <2>4, FailFiles
<1> QED
  BY <1>3, <1>4

LEMMA RestartFiles ==
  ASSUME SessionInv, FilesOK, NEW c \in Formatted \ spoiled', NEW f \in Files,
         <<c, f>> \notin told', Restart
  PROVE  FileOK(c, f)'
<1>1. c \in Formatted \ spoiled /\ <<c, f>> \notin told
  BY DEF Restart
<1>2. FileOK(c, f)
  BY <1>1 DEF FilesOK
<1>3. /\ disk'[c][f] = disk[c][f] /\ entry'[f] = "same" /\ dirty' = {}
      /\ <<c, f>> \in lost' => <<c, f>> \in lost \/ (c = known /\ f \in dirty)
  <2>1. TypeOK /\ entry \in Entries /\ dirty \in SUBSET Files
    BY DEF SessionInv, TypeOK, Entries
  <2> QED
    BY <2>1, CacheOfFile DEF Restart
<1>4. \A d \in Fds : ~InUse(d)'
  BY CleanFacts DEF Restart, Unused, InUse, Idle
<1> QED
  BY <1>2, <1>3, <1>4 DEF FileOK, Pending, MarkedOpen, WrittenBy, Owner

(* A file is opened, or made anew.                                         *)
LEMMA TakenFiles ==
  ASSUME SessionInv, FilesOK, NEW c \in Formatted \ spoiled, NEW f \in Files,
         NEW g \in Files, NEW w \in BOOLEAN,
         call.fd = None, call'.fd = None, TakeHandle(g, w, TRUE),
         <<c, f>> = <<slot, g>> /\ w => ~OtherWriter(g)
  PROVE  \A d \in Fds :
           /\ WrittenBy(d, c, f) => WrittenBy(d, c, f)' /\ fh'[d] = fh[d]
           /\ WrittenBy(d, c, f)' =>
                \/ WrittenBy(d, c, f) /\ fh'[d] = fh[d]
                \/ w /\ ~fh'[d].changed /\ <<c, f>> = <<slot, g>>
                     /\ \A x \in Fds : ~WrittenBy(x, c, f)
<1>1. PICK t \in Fds :
        /\ ~fh[t].open
        /\ fh' = [fh EXCEPT ![t] =
                    [open |-> TRUE, wr |-> w, changed |-> FALSE, given |-> TRUE,
                     file |-> g, card |-> slot]]
  BY DEF TakeHandle
<1>2. /\ (fh'[t].wr <=> w) /\ ~fh'[t].changed /\ Name(t)' = <<slot, g>>
      /\ \A x \in Fds \ {t} : fh'[x] = fh[x]
  BY <1>1 DEF SessionInv, TypeOK, Name
<1>3. \A x \in Fds \ {t} : WrittenBy(x, c, f)' <=> WrittenBy(x, c, f)
  BY <1>2, CleanFacts DEF WrittenBy, Owner, InUse, Name
<1>4. ~WrittenBy(t, c, f)
  BY <1>1, CleanFacts DEF WrittenBy, Owner, InUse
<1>5. WrittenBy(t, c, f)' => /\ w /\ <<c, f>> = <<slot, g>>
                             /\ \A x \in Fds : ~WrittenBy(x, c, f)
  <2>1. SUFFICES ASSUME WrittenBy(t, c, f)'
                 PROVE  /\ w /\ <<c, f>> = <<slot, g>>
                        /\ \A x \in Fds : ~WrittenBy(x, c, f)
    OBVIOUS
  <2>2. w /\ <<c, f>> = <<slot, g>>
    BY <1>2, <2>1 DEF WrittenBy, Owner
  <2>3. \A x \in Fds : ~WrittenBy(x, c, f)
    BY <2>2, CleanFacts DEF WrittenBy, Owner, InUse, Name, OtherWriter, HandlesOf
  <2> QED
    BY <2>2, <2>3
<1> QED
  BY <1>2, <1>3, <1>4, <1>5

LEMMA OpenFiles ==
  ASSUME SessionInv, FilesOK, NEW c \in Formatted \ spoiled', NEW f \in Files,
         <<c, f>> \notin told', NEW g \in Files, NEW w \in BOOLEAN, Open(g, w)
  PROVE  FileOK(c, f)'
<1>1. /\ call.fd = None /\ call'.fd = None /\ TakeHandle(g, w, TRUE)
      /\ w => ~OtherWriter(g)
      /\ UNCHANGED <<known, slot, entry, dirty, disk, spoiled>>
      /\ call.at = "work" /\ form = "formatted"
  BY DEF Open, At, Idle, SessionInv, CallOK, device
<1>2. known = slot
  BY <1>1 DEF SessionInv, DeviceOK
<1>3. c \in Formatted \ spoiled
  BY <1>1
<1>4. \A d \in Fds :
        /\ WrittenBy(d, c, f) => WrittenBy(d, c, f)' /\ fh'[d] = fh[d]
        /\ WrittenBy(d, c, f)' =>
             \/ WrittenBy(d, c, f) /\ fh'[d] = fh[d]
             \/ w /\ ~fh'[d].changed /\ <<c, f>> = <<slot, g>>
                  /\ \A x \in Fds : ~WrittenBy(x, c, f)
  <2>1. CASE w = TRUE
    <3>1. TakeHandle(g, TRUE, TRUE) /\ ~OtherWriter(g)
      BY <1>1, <2>1
    <3> QED
      BY <1>1, <1>3, <2>1, <3>1, TakenFiles
  <2>2. CASE w = FALSE
    <3>1. TakeHandle(g, FALSE, TRUE)
      BY <1>1, <2>2
    <3> QED
      BY <1>1, <1>3, <2>2, <3>1, TakenFiles
  <2> QED
    BY <2>1, <2>2
<1>5. MarkedOpen(c, f)' <=> MarkedOpen(c, f)
  BY <1>1 DEF MarkedOpen
<1>6. CASE w /\ <<c, f>> = <<slot, g>>
  <2>1. /\ <<c, f>> \notin lost'
        /\ f \in dirty => told' = told
    BY <1>1, <1>6 DEF Open, Afresh
  <2>2. ~(c = known /\ f \in dirty)
    <3>1. SUFFICES ASSUME c = known, f \in dirty PROVE FALSE
      OBVIOUS
    <3>2. FileOK(c, f)
      BY <1>3, <2>1, <3>1 DEF FilesOK
    <3>3. PICK d \in Fds : WrittenBy(d, c, f)
      BY <3>1, <3>2 DEF FileOK
    <3>4. fh[d].open /\ fh[d].wr /\ fh[d].file = g
      BY <1>1, <1>6, <3>3, CleanFacts DEF WrittenBy, Owner, InUse, Name
    <3> QED
      BY <1>1, <1>6, <3>4 DEF OtherWriter, HandlesOf
  <2>3. \A d \in Fds : ~WrittenBy(d, c, f)
    BY <1>1, <1>6, CleanFacts
    DEF WrittenBy, Owner, InUse, Name, OtherWriter, HandlesOf
  <2> QED
    BY <1>1, <1>4, <2>1, <2>2, <2>3 DEF FileOK, Pending
<1>7. CASE ~(w /\ <<c, f>> = <<slot, g>>)
  <2>1. /\ <<c, f>> \notin told
        /\ <<c, f>> \in lost' <=> <<c, f>> \in lost
    BY <1>1, <1>7 DEF Open, Afresh
  <2>2. FileOK(c, f)
    BY <1>3, <2>1 DEF FilesOK
  <2>3. \A d \in Fds : WrittenBy(d, c, f)' => WrittenBy(d, c, f) /\ fh'[d] = fh[d]
    BY <1>4, <1>7
  <2> QED
    BY <1>1, <1>4, <1>5, <2>1, <2>2, <2>3 DEF FileOK, Pending
<1> QED
  BY <1>6, <1>7

LEMMA CreateFiles ==
  ASSUME SessionInv, FilesOK, NEW c \in Formatted \ spoiled', NEW f \in Files,
         <<c, f>> \notin told', NEW g \in Files, Create(g)
  PROVE  FileOK(c, f)'
<1>1. /\ call.fd = None /\ call'.fd = None /\ TakeHandle(g, TRUE, TRUE)
      /\ HandlesOf(g) = {} /\ ~OtherWriter(g)
      /\ UNCHANGED <<known, slot, spoiled>>
      /\ entry' = Clean /\ dirty' = {} /\ Reach(AsNew(g), Files)
      /\ lost' = lost \ {<<slot, g>>} /\ told' = told \ {<<slot, g>>}
  BY DEF Create, At, Idle, SessionInv, CallOK, device, OtherWriter, Afresh
<1>2. c \in Formatted \ spoiled
  BY <1>1
<1>3. \A d \in Fds :
        /\ WrittenBy(d, c, f) => WrittenBy(d, c, f)' /\ fh'[d] = fh[d]
        /\ WrittenBy(d, c, f)' =>
             \/ WrittenBy(d, c, f) /\ fh'[d] = fh[d]
             \/ ~fh'[d].changed /\ <<c, f>> = <<slot, g>>
                  /\ \A x \in Fds : ~WrittenBy(x, c, f)
  BY <1>1, <1>2, TakenFiles
<1>4. CASE <<c, f>> = <<slot, g>>
  <2>1. \A d \in Fds : ~WrittenBy(d, c, f)
    BY <1>1, <1>4, CleanFacts DEF WrittenBy, Owner, InUse, Name, HandlesOf
  <2> QED
    BY <1>1, <1>3, <1>4, <2>1 DEF FileOK, Pending
<1>5. CASE <<c, f>> # <<slot, g>>
  <2>1. <<c, f>> \notin told /\ (<<c, f>> \in lost' <=> <<c, f>> \in lost)
    BY <1>1, <1>5
  <2>2. FileOK(c, f)
    BY <1>2, <2>1 DEF FilesOK
  <2>3. MarkedOpen(c, f) => MarkedOpen(c, f)'
    <3>1. AsNew(g) \in Entries /\ TypeOK /\ (AsNew(g)[f] \in {entry[f], "open"})
      BY DEF AsNew, Entries, SessionInv, TypeOK
    <3>2. disk'[c][f] = IF c = known /\ AsNew(g)[f] # "same" THEN AsNew(g)[f]
                                                              ELSE disk[c][f]
      BY <1>1, <1>2, <3>1, ReachEffect
    <3>3. entry'[f] = "same"
      BY <1>1, CleanFacts
    <3>4. entry[f] \in {"same", "open", "closed"}
      BY DEF SessionInv, TypeOK
    <3> QED
      BY <1>1, <3>1, <3>2, <3>3, <3>4 DEF MarkedOpen
  <2> QED
    BY <1>1, <1>3, <1>5, <2>1, <2>2, <2>3 DEF FileOK, Pending
<1> QED
  BY <1>4, <1>5

LEMMA CreateFailsFiles ==
  ASSUME SessionInv, FilesOK, NEW c \in Formatted \ spoiled', NEW f \in Files,
         <<c, f>> \notin told', NEW g \in Files, CreateFlushFails(g)
  PROVE  FileOK(c, f)'
<1>1. /\ call.fd = None /\ call'.fd = None /\ TakeHandle(g, TRUE, FALSE) /\ Tell
      /\ UNCHANGED <<known, slot, spoiled>> /\ FlushSome(AsNew(g), dirty)
  BY DEF CreateFlushFails, At, Idle, SessionInv, CallOK, device, Report
<1>2. /\ \A d \in Fds : InUse(d) => Name(d) # <<c, f>>
      /\ <<c, f>> \notin told
  BY <1>1, TellEffect
<1>3. /\ AsNew(g) \in Entries /\ TypeOK /\ (AsNew(g)[f] \in {entry[f], "open"})
      /\ dirty \in SUBSET Files /\ c \in Formatted \ spoiled
  BY <1>1 DEF AsNew, Entries, SessionInv, TypeOK
<1>4. /\ disk'[c][f] = disk[c][f]
           \/ (c = known /\ AsNew(g)[f] # "same" /\ disk'[c][f] = AsNew(g)[f])
      /\ entry'[f] \in {"same", AsNew(g)[f]} /\ dirty' \subseteq dirty /\ lost' = lost
  BY <1>1, <1>3, CacheOfFile
<1>5. \A d \in Fds : InUse(d)' /\ fh'[d].given => InUse(d) /\ Name(d)' = Name(d)
  <2>1. PICK t \in Fds :
          fh' = [fh EXCEPT ![t] =
                    [open |-> TRUE, wr |-> TRUE, changed |-> FALSE, given |-> FALSE,
                     file |-> g, card |-> slot]]
    BY <1>1 DEF TakeHandle
  <2>2. ~fh'[t].given /\ \A x \in Fds \ {t} : fh'[x] = fh[x]
    BY <2>1 DEF SessionInv, TypeOK
  <2> QED
    BY <1>1, <2>2, CleanFacts DEF InUse, Name
<1> QED
  BY <1>1, <1>2, <1>3, <1>4, <1>5, ToldStep

(* The handle and the cards during a call that reads, writes or closes.    *)
LEMMA DuringCall ==
  ASSUME SessionInv, call.at \in {"work", "data", "seal"},
         call.op \in {"read", "write", "close"}
  PROVE  /\ call.fd \in Fds /\ call.fd # None /\ fh[call.fd].given
         /\ fh[call.fd].file \in Files /\ fh[call.fd].card \in Formatted
         /\ known = slot /\ TypeOK
         /\ entry \in Entries /\ dirty \in SUBSET Files
         /\ call.op = "write" => fh[call.fd].wr
         /\ call.op \in {"read", "write"} => fh[call.fd].open
         /\ call.at = "seal" => fh[call.fd].wr /\ fh[call.fd].changed
         /\ call.at = "data" => fh[call.fd].changed
BY CleanFacts DEF SessionInv, CallOK, HandlesOK, DeviceOK, TypeOK, Entries

(* The handles only change in whether they are changed.                    *)
SameHandles ==
  \A x \in Fds : /\ fh'[x].open = fh[x].open /\ fh'[x].given = fh[x].given
                /\ fh'[x].wr = fh[x].wr
                /\ fh'[x].file = fh[x].file /\ fh'[x].card = fh[x].card

LEMMA SameUse ==
  ASSUME SessionInv, SameHandles, call' = Idle \/ call'.fd = call.fd
  PROVE  \A d \in Fds : /\ InUse(d)' => InUse(d)
                       /\ Name(d)' = Name(d)
                       /\ \A c, f : WrittenBy(d, c, f)' => WrittenBy(d, c, f)
BY CleanFacts DEF SameHandles, InUse, Name, WrittenBy, Owner, Idle

LEMMA ReadFiles ==
  ASSUME SessionInv, FilesOK, NEW c \in Formatted \ spoiled', NEW f \in Files,
         <<c, f>> \notin told', Read
  PROVE  FileOK(c, f)'
<1>1. /\ call.at = "work" /\ call.op = "read" /\ call' = Idle
      /\ UNCHANGED <<known, fh, spoiled, told>> /\ FlushSome(entry, dirty)
  BY DEF Read, At, Succeed, device
<1>2. /\ fh[call.fd].open /\ TypeOK /\ entry \in Entries /\ dirty \in SUBSET Files
      /\ c \in Formatted \ spoiled /\ call.fd # None
  BY <1>1, DuringCall
<1>3. /\ disk'[c][f] = disk[c][f]
           \/ (c = known /\ entry[f] # "same" /\ disk'[c][f] = entry[f])
      /\ entry'[f] \in {"same", entry[f]} /\ dirty' \subseteq dirty /\ lost' = lost
  BY <1>1, <1>2, CacheOfFile
<1>4. FileOK(c, f) /\ entry[f] \in {"same", "open", "closed"}
  BY <1>1, <1>2 DEF FilesOK, Entries
<1>5. MarkedOpen(c, f) => MarkedOpen(c, f)'
  BY <1>1, <1>3, <1>4 DEF MarkedOpen
<1>6. \A d \in Fds : (WrittenBy(d, c, f)' <=> WrittenBy(d, c, f)) /\ fh'[d] = fh[d]
  BY <1>1, <1>2, CleanFacts DEF WrittenBy, Owner, InUse, Name, Idle
<1> QED
  BY <1>1, <1>3, <1>4, <1>5, <1>6 DEF FileOK, Pending

LEMMA MarkFiles ==
  ASSUME SessionInv, FilesOK, NEW c \in Formatted \ spoiled', NEW f \in Files,
         <<c, f>> \notin told', Mark
  PROVE  FileOK(c, f)'
<1>1. /\ call.at = "work" /\ call.op = "write" /\ call'.fd = call.fd
      /\ UNCHANGED <<known, slot, told>> /\ Misuse /\ FlushAll(Marked("open"))
  BY DEF Mark, At, Go, device, MarkFlush, SessionInv, TypeOK
<1>2. /\ call.fd \in Fds /\ call.fd # None /\ TypeOK /\ known = slot
      /\ fh[call.fd].file \in Files
      /\ Marked("open") \in Entries /\ entry \in Entries
      /\ fh[call.fd].wr /\ fh[call.fd].given
  BY <1>1, DuringCall, MarkedTypes
<1>3. c \in Formatted \ spoiled /\ <<c, f>> \notin told
  BY <1>1 DEF Misuse
<1>4. FileOK(c, f)
  BY <1>3 DEF FilesOK
<1>5. /\ disk'[c][f] = IF c = known /\ Marked("open")[f] # "same"
                          THEN Marked("open")[f] ELSE disk[c][f]
      /\ entry'[f] = "same" /\ dirty' = {} /\ lost' = lost
  BY <1>1, <1>2, <1>3, CacheOfFile
<1>6. Marked("open")[f] \in {entry[f], "open"} /\ entry[f] \in {"same", "open", "closed"}
  BY <1>2 DEF Marked, Entries
<1>7. MarkedOpen(c, f) => MarkedOpen(c, f)'
  BY <1>1, <1>5, <1>6 DEF MarkedOpen
<1>8. /\ SameHandles
      /\ \A x \in Fds \ {call.fd} : fh'[x] = fh[x]
  BY <1>2 DEF Mark, SameHandles, TypeOK, Handle
<1>9. ASSUME NEW d \in Fds, WrittenBy(d, c, f)', fh'[d].changed
      PROVE  MarkedOpen(c, f)'
  <2>1. WrittenBy(d, c, f)
    BY <1>1, <1>8, <1>9, SameUse
  <2>2. CASE d = call.fd
    <3>1. fh[d].card = known /\ Own /\ fh[d].file = f /\ c = known
      BY <1>2, <1>3, <2>1, <2>2
      DEF SessionInv, StaleAreTold, InUse, WrittenBy, Owner, Name, Own
    <3>2. Marked("open")[f] = "open"
      BY <1>2, <2>2, <3>1 DEF Marked, Entries
    <3> QED
      BY <1>5, <3>1, <3>2 DEF MarkedOpen
  <2>3. CASE d # call.fd
    BY <1>4, <1>7, <1>8, <1>9, <2>1, <2>3 DEF FileOK
  <2> QED
    BY <2>2, <2>3
<1>10. \A d \in Fds : WrittenBy(d, c, f)' => WrittenBy(d, c, f)
  BY <1>1, <1>8, SameUse
<1> QED
  BY <1>4, <1>5, <1>7, <1>9, <1>10 DEF FileOK, Pending

LEMMA WriteFiles ==
  ASSUME SessionInv, FilesOK, NEW c \in Formatted \ spoiled', NEW f \in Files,
         <<c, f>> \notin told', Write \/ WriteNothing
  PROVE  FileOK(c, f)'
<1>1. /\ call.at \in {"work", "data"} /\ call.op = "write" /\ call' = Idle
      /\ UNCHANGED <<known, slot, fh, told>> /\ Misuse
      /\ \/ /\ fh[call.fd].changed
            /\ FlushSome(Marked("open"), NewData) \/ FlushSome(Marked("open"), dirty)
         \/ ~fh[call.fd].changed /\ FlushSome(Marked("closed"), dirty)
  <2>1. CASE Write
    BY <2>1, DuringCall DEF Write, WriteStep, At, Succeed, device
  <2>2. CASE WriteNothing
    BY <2>2 DEF WriteNothing, At, Succeed, device
  <2> QED
    BY <2>1, <2>2
<1>2. /\ call.fd \in Fds /\ call.fd # None /\ TypeOK /\ known = slot
      /\ fh[call.fd].file \in Files
      /\ \A m \in {"open", "closed"} : Marked(m) \in Entries
      /\ entry \in Entries /\ dirty \in SUBSET Files /\ NewData \in SUBSET Files
      /\ fh[call.fd].wr /\ fh[call.fd].given /\ fh[call.fd].open
  BY <1>1, DuringCall, MarkedTypes
<1>3. c \in Formatted \ spoiled /\ <<c, f>> \notin told
  BY <1>1 DEF Misuse
<1>4. FileOK(c, f) /\ entry[f] \in {"same", "open", "closed"}
  BY <1>2, <1>3 DEF FilesOK, Entries
<1>5. PICK m \in {"open", "closed"}, ds \in {dirty, NewData} :
        /\ FlushSome(Marked(m), ds)
        /\ m = "closed" => ds = dirty /\ ~fh[call.fd].changed
        /\ m = "open" => fh[call.fd].changed
  BY <1>1
<1>6. /\ disk'[c][f] = disk[c][f]
           \/ (c = known /\ Marked(m)[f] # "same" /\ disk'[c][f] = Marked(m)[f])
      /\ entry'[f] \in {"same", Marked(m)[f]} /\ dirty' \subseteq ds /\ lost' = lost
  BY <1>2, <1>3, <1>5, CacheOfFile
<1>7. \A d \in Fds : (WrittenBy(d, c, f)' <=> WrittenBy(d, c, f)) /\ fh'[d] = fh[d]
  BY <1>1, <1>2, CleanFacts DEF WrittenBy, Owner, InUse, Name, Idle
<1>8. CASE c = known /\ <<c, f>> = Name(call.fd)
  <2>1. /\ WrittenBy(call.fd, c, f) /\ Own
        /\ \A d \in Fds : WrittenBy(d, c, f) => d = call.fd
    BY <1>2, <1>8
    DEF WrittenBy, Owner, InUse, Own, Name, SessionInv, OneOwner
  <2>2. <<c, f>> \notin lost
    BY <1>2, <1>4, <2>1 DEF FileOK
  <2>3. CASE m = "open"
    <3>1. MarkedOpen(c, f) /\ fh[call.fd].changed
      BY <1>2, <1>4, <1>5, <2>1, <2>3 DEF FileOK
    <3>2. Marked("open")[f] \in {entry[f], "open"}
      BY <1>2 DEF Marked, Entries
    <3>3. MarkedOpen(c, f)'
      BY <1>1, <1>4, <1>6, <2>3, <3>1, <3>2 DEF MarkedOpen
    <3> QED
      BY <1>2, <1>6, <1>7, <2>1, <2>2, <3>1, <3>3 DEF FileOK
  <2>4. CASE m = "closed"
    <3>1. f \notin dirty
      BY <1>2, <1>4, <1>5, <1>8, <2>1, <2>4 DEF FileOK
    <3>2. \A d \in Fds : WrittenBy(d, c, f)' => ~fh'[d].changed
      BY <1>5, <1>7, <2>1, <2>4
    <3> QED
      BY <1>5, <1>6, <2>2, <2>4, <3>1, <3>2 DEF FileOK, Pending
  <2> QED
    BY <2>3, <2>4
<1>9. CASE ~(c = known /\ <<c, f>> = Name(call.fd))
  <2>1. c = known => /\ Marked(m)[f] = entry[f]
                     /\ f \in ds => f \in dirty
    BY <1>1, <1>2, <1>9, OthersUnmarked
  <2>2. MarkedOpen(c, f) => MarkedOpen(c, f)'
    BY <1>1, <1>4, <1>6, <2>1 DEF MarkedOpen
  <2> QED
    BY <1>1, <1>4, <1>6, <1>7, <2>1, <2>2 DEF FileOK, Pending
<1> QED
  BY <1>8, <1>9

LEMMA CloseFiles ==
  ASSUME SessionInv, FilesOK, NEW c \in Formatted \ spoiled', NEW f \in Files,
         <<c, f>> \notin told', Close
  PROVE  FileOK(c, f)'
<1>1. /\ call.at = "work" /\ call.op = "close"
      /\ UNCHANGED <<known, fh, spoiled, told>> /\ FlushAll(entry)
      /\ call' = Idle \/ call'.fd = call.fd
  BY DEF Close, At, Go, Succeed, device, SessionInv, TypeOK
<1>2. /\ TypeOK /\ entry \in Entries /\ c \in Formatted \ spoiled
  BY <1>1, DuringCall
<1>3. FileOK(c, f) /\ entry[f] \in {"same", "open", "closed"}
  BY <1>1, <1>2 DEF FilesOK, Entries
<1>4. /\ disk'[c][f] = IF c = known /\ entry[f] # "same" THEN entry[f] ELSE disk[c][f]
      /\ entry'[f] = "same" /\ dirty' = {} /\ lost' = lost
  BY <1>1, <1>2, CacheOfFile
<1>5. MarkedOpen(c, f) => MarkedOpen(c, f)'
  BY <1>1, <1>3, <1>4 DEF MarkedOpen
<1>6. \A d \in Fds : WrittenBy(d, c, f)' => WrittenBy(d, c, f) /\ fh'[d] = fh[d]
  BY <1>1, SameUse DEF SameHandles
<1> QED
  BY <1>3, <1>4, <1>5, <1>6 DEF FileOK, Pending

LEMMA SealFiles ==
  ASSUME SessionInv, FilesOK, NEW c \in Formatted \ spoiled', NEW f \in Files,
         <<c, f>> \notin told', Seal
  PROVE  FileOK(c, f)'
<1>1. /\ call.at = "seal" /\ call.op = "close" /\ call' = Idle
      /\ UNCHANGED <<known, slot, told>> /\ Misuse /\ FlushAll(Marked("closed"))
  BY DEF Seal, At, Succeed, device
<1>2. /\ call.fd \in Fds /\ call.fd # None /\ TypeOK /\ known = slot
      /\ fh[call.fd].file \in Files
      /\ Marked("closed") \in Entries /\ entry \in Entries
      /\ fh[call.fd].wr /\ fh[call.fd].given
  BY <1>1, DuringCall, MarkedTypes
<1>3. c \in Formatted \ spoiled /\ <<c, f>> \notin told
  BY <1>1 DEF Misuse
<1>4. FileOK(c, f) /\ entry[f] \in {"same", "open", "closed"}
  BY <1>2, <1>3 DEF FilesOK, Entries
<1>5. /\ disk'[c][f] = IF c = known /\ Marked("closed")[f] # "same"
                          THEN Marked("closed")[f] ELSE disk[c][f]
      /\ entry'[f] = "same" /\ dirty' = {} /\ lost' = lost
  BY <1>1, <1>2, <1>3, CacheOfFile
<1>6. /\ SameHandles /\ ~fh'[call.fd].changed
      /\ \A x \in Fds \ {call.fd} : fh'[x] = fh[x]
  BY <1>2 DEF Seal, SameHandles, TypeOK, Handle
<1>7. \A d \in Fds : WrittenBy(d, c, f)' /\ fh'[d].changed =>
                      WrittenBy(d, c, f) /\ fh[d].changed /\ d # call.fd
  BY <1>1, <1>6, SameUse
<1>8. CASE <<c, f>> = Name(call.fd)
  <2>1. /\ WrittenBy(call.fd, c, f)
        /\ \A d \in Fds : WrittenBy(d, c, f) => d = call.fd
    BY <1>2, <1>8 DEF WrittenBy, Owner, InUse, SessionInv, OneOwner
  <2>2. <<c, f>> \notin lost
    BY <1>2, <1>4, <2>1 DEF FileOK
  <2> QED
    BY <1>5, <1>7, <2>1, <2>2 DEF FileOK, Pending
<1>9. CASE <<c, f>> # Name(call.fd)
  <2>1. c = known => Marked("closed")[f] = entry[f]
    BY <1>1, <1>2, <1>9, OthersUnmarked
  <2>2. MarkedOpen(c, f) => MarkedOpen(c, f)'
    BY <1>1, <1>4, <1>5, <2>1 DEF MarkedOpen
  <2>3. \A d \in Fds : WrittenBy(d, c, f)' => WrittenBy(d, c, f)
    BY <1>1, <1>6, SameUse
  <2> QED
    BY <1>4, <1>5, <1>7, <2>2, <2>3 DEF FileOK, Pending
<1> QED
  BY <1>8, <1>9

LEMMA FilesStep == SessionInv /\ FilesOK /\ [Next]_vars => FilesOK'
<1> SUFFICES ASSUME SessionInv, FilesOK, [Next]_vars,
                    NEW c \in Formatted \ spoiled', NEW f \in Files,
                    <<c, f>> \notin told'
             PROVE  FileOK(c, f)'
  BY DEF FilesOK
<1>1. CASE UNCHANGED vars
  BY <1>1, QuietStep DEF vars, device, cache, InUse, Name
<1>2. CASE Next
  BY <1>2, QuietSteps, TellSteps, FailStepsFiles, RestartFiles, OpenFiles,
     CreateFiles, CreateFailsFiles, ReadFiles, MarkFiles, WriteFiles, CloseFiles,
     SealFiles DEF Next
<1> QED
  BY <1>1, <1>2

(* The attribute "closed" on the card means that the data is there, for    *)
(* any exchange, failure and restart.                                      *)
THEOREM ClosedFilesAreComplete == Spec => []ClosedMeansComplete
<1>1. Init => FilesOK
  BY CleanFacts
  DEF Init, FilesOK, FileOK, Pending, WrittenBy, Owner, InUse, Unused, Idle
<1>2. FilesOK => ClosedMeansComplete
  BY DEF FilesOK, FileOK, MarkedOpen, Pending, ClosedMeansComplete
<1> QED
  BY <1>1, <1>2, SessionInvHolds, FilesStep, PTL DEF Spec
=============================================================================
