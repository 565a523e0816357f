---------------------------- MODULE PageCommands ----------------------------
(***************************************************************************)
(* The page and block commands of AnthonyPS2/mcio.cpp and their retries:   *)
(* Card_EraseBlock, Card_WritePageData, Card_ReadPageData and, around the  *)
(* last, Card_ReadPage with its ECC check.                                 *)
(*                                                                         *)
(* A command is a series of exchanges with the card through the adapter.   *)
(* An exchange may stay without a valid answer, and then the card may have *)
(* carried it out or not.  One page of a card with ECC is modelled.  The   *)
(* card itself is external: data goes to, or comes from, a position in the *)
(* page that advances by itself after the request that names the page.     *)
(***************************************************************************)
EXTENDS Integers

CONSTANTS
  Count,      (* 128-byte chunks of a page (4)                             *)
  Tries,      (* attempts of a command (5)                                 *)
  PageReads,  (* attempts of Card_ReadPage (5)                             *)
  Polls,      (* questions after an erase (100)                            *)
  Vals,       (* contents of a chunk                                       *)
  OddVals,    (* the contents with an odd number of ones                   *)
  Rots,       (* wear of the page: wrong bits of each chunk when it is     *)
              (* read, 0, 1 or 2                                           *)
  Worn,       (* wear of the spare area: sets of chunks whose stored ECC   *)
              (* has one wrong bit                                         *)
  ErasedCell, (* an erased chunk, an erased spare area                     *)
  Mixed       (* a chunk or a spare area programmed twice                  *)

ASSUME CommandAssumption ==
  /\ Count \in Nat \ {0} /\ Tries \in Nat \ {0, 1}
  /\ PageReads \in Nat \ {0} /\ Polls \in Nat \ {0}
  /\ Rots \subseteq [0 .. Count - 1 -> 0 .. 2]
  /\ Worn \subseteq SUBSET (0 .. Count - 1)
  /\ ErasedCell \notin Vals /\ Mixed \notin Vals /\ ErasedCell # Mixed

Chunks == 0 .. Count - 1
Areas == 0 .. Count              (* the chunks, then the spare area        *)
Eccs == [Chunks -> Vals]         (* an ECC tells every chunk from others   *)
Cells == Vals \cup {ErasedCell, Mixed}
Results == {0, -1, -2, -3}       (* of Card_CorrectData                    *)

VARIABLES
  op, step,   (* the command in progress and its next exchange             *)
  try,        (* the attempt of the current loop                           *)
  idx,        (* chunk index, or questions asked                           *)
  sel, pos,   (* the card: request it is in, position in the page          *)
  cell,       (* the card: chunks and spare area of the page               *)
  rot, worn,  (* the card: the wear of the page and of its spare area      *)
  page, bits, (* the caller's page, and the wrong bits of each chunk read  *)
  ecc,        (* the caller's spare area, as it arrived                    *)
  off,        (* chunks whose ECC in that area the check has changed, in   *)
              (* the attempt that was taken                                *)
  reads,      (* retries of Card_ReadPage                                  *)
  ecres,      (* the worst ECC result so far                               *)
  result,     (* what the last command returned                            *)
  inStep,     (* history: every data request of a write command, or of an  *)
              (* attempt to read, reached the card                         *)
  blank       (* history: the page was erased when the write began         *)

cardVars == <<sel, pos, cell, rot, worn>>
control == <<op, step, try, idx, result>>
buffer == <<page, bits, ecc, off>>
commandVars == <<control, cardVars, buffer, reads, ecres, inStep, blank>>

CommandTypeOK ==
  /\ op \in {"idle", "erase", "write", "read"}
  /\ step \in {"start", "confirm", "poll", "chunk", "spare", "end", "check"}
  /\ try \in 0 .. Tries /\ idx \in 0 .. Count + Polls
  /\ sel \in {"none", "erase", "program", "read"} /\ pos \in 0 .. Count + 1
  /\ cell \in [Areas -> Cells \cup Eccs] /\ rot \in Rots /\ worn \in Worn
  /\ page \in [Chunks -> Cells] /\ bits \in [Chunks -> 0 .. 2]
  /\ ecc \in Cells \cup Eccs /\ off \subseteq Chunks
  /\ reads \in 0 .. PageReads - 1 /\ ecres \in Results
  /\ result \in {"none", "succeed", "changed", "noformat", "replace"}
  /\ inStep \in BOOLEAN /\ blank \in BOOLEAN

BlankPage == [a \in Areas |-> ErasedCell]
PageOf(e) == [a \in Areas |-> IF a = Count THEN e ELSE e[a]]

(* The page is erased or holds data; the caller's buffer holds anything.   *)
CommandInit ==
  /\ op = "idle" /\ step = "start" /\ try = 0 /\ idx = 0 /\ result = "none"
  /\ sel = "none" /\ pos = 0
  /\ cell \in {BlankPage} \cup {PageOf(e) : e \in Eccs}
  /\ rot \in Rots /\ worn \in Worn
  /\ page \in Eccs /\ bits = [k \in Chunks |-> 0] /\ ecc = ErasedCell /\ off = {}
  /\ reads = 0 /\ ecres = 0
  /\ inStep = TRUE /\ blank = FALSE
-----------------------------------------------------------------------------
(* Card_EraseBlock, Card_WritePageData or Card_ReadPage is called.         *)

Call(o) ==
  /\ op = "idle" /\ op' = o /\ step' = "start" /\ try' = 1 /\ idx' = 0
  /\ result' = "none" /\ inStep' = TRUE
  /\ reads' = 0 /\ ecres' = 0 /\ off' = {} /\ UNCHANGED cardVars

CallErase == Call("erase") /\ UNCHANGED <<page, bits, ecc, blank>>

CallWrite ==
  /\ Call("write")
  /\ page' \in Eccs /\ ecc' = page' /\ bits' = [k \in Chunks |-> 0]
  /\ blank' = (cell = BlankPage)

CallRead == Call("read") /\ UNCHANGED <<page, bits, ecc, blank>>

Return(r) ==
  /\ op' = "idle" /\ result' = r /\ step' = "start" /\ try' = 0 /\ idx' = 0
-----------------------------------------------------------------------------
(* The card's part of an exchange.                                         *)

CardStarts(s) == sel' = s /\ pos' = 0 /\ UNCHANGED <<cell, rot, worn>>

CardErases ==
  /\ cell' = IF sel = "erase" THEN BlankPage ELSE cell
  /\ sel' = "none" /\ UNCHANGED <<pos, rot, worn>>

(* Area a of the caller's page arrives.                                    *)
CardTakes(a, v) ==
  /\ cell' = [cell EXCEPT ![pos] =
       IF (a = Count <=> pos = Count) /\ @ \in {ErasedCell, v} THEN v ELSE Mixed]
  /\ pos' = pos + 1 /\ UNCHANGED <<sel, rot, worn>>

CardGives == pos' = pos + 1 /\ UNCHANGED <<sel, cell, rot, worn>>
CardEnds == sel' = "none" /\ UNCHANGED <<pos, cell, rot, worn>>

(* The host's part: the next exchange, or another turn of a while loop.    *)
GoOn(s) == step' = s /\ idx' = 0 /\ UNCHANGED <<op, try, result>>

Again(exhausted) ==
  IF try < Tries
    THEN try' = try + 1 /\ step' = "start" /\ idx' = 0 /\ UNCHANGED <<op, result>>
    ELSE exhausted

(* A success of the last attempt counts as a failure (retries >= 5).       *)
InTime == try < Tries

(* mc_data[3] decides which error it is.  After an exchange that failed it *)
(* is the status only if the request was four bytes long; otherwise it is  *)
(* a byte of the page number, of the data or of an answer.                 *)
ReplaceOrNoFormat == Return("replace") \/ Return("noformat")
-----------------------------------------------------------------------------
(* Card_EraseBlock: 0x21 names the block, 0x82 erases it, 0x12 asks        *)
(* whether that is done.                                                   *)

EraseStart ==
  /\ op = "erase" /\ step = "start"
  /\ \/ CardStarts("erase") /\ GoOn("confirm")
     \/ (CardStarts("erase") \/ UNCHANGED cardVars) /\ Again(Return("changed"))
  /\ UNCHANGED <<buffer, reads, ecres, inStep, blank>>

EraseConfirm_Assumed ==   (* a mutated form *)
  /\ op = "erase" /\ step = "confirm"
  /\ CardErases \/ UNCHANGED cardVars
  /\ IF InTime THEN GoOn("poll") ELSE Return("changed")
  /\ UNCHANGED <<buffer, reads, ecres, inStep, blank>>

EraseConfirm ==
  /\ op = "erase" /\ step = "confirm"
  /\ \/ CardErases /\ IF InTime THEN GoOn("poll") ELSE Return("changed")
     \/ (CardErases \/ UNCHANGED cardVars) /\ Again(Return("changed"))
  /\ UNCHANGED <<buffer, reads, ecres, inStep, blank>>

ErasePoll ==
  /\ op = "erase" /\ step = "poll"
  /\ \/ Return("succeed")
     \/ idx + 1 < Polls /\ idx' = idx + 1 /\ UNCHANGED <<op, step, try, result>>
     \/ idx + 1 = Polls /\ ReplaceOrNoFormat
  /\ UNCHANGED <<cardVars, buffer, reads, ecres, inStep, blank>>
-----------------------------------------------------------------------------
(* Card_WritePageData: 0x22 names the page, 0x42 carries one chunk, or the *)
(* spare area, 0x81 ends.                                                  *)

WriteStart ==
  /\ op = "write" /\ step = "start"
  /\ \/ CardStarts("program") /\ GoOn("chunk")
     \/ /\ CardStarts("program") \/ UNCHANGED cardVars
        /\ Again(ReplaceOrNoFormat)
  /\ UNCHANGED <<buffer, reads, ecres, inStep, blank>>

NextChunk ==
  /\ IF idx + 1 < Count THEN idx' = idx + 1 /\ step' = "chunk"
                      ELSE idx' = 0 /\ step' = "spare"
  /\ UNCHANGED <<op, try, result>>

(* The continue of a chunk without an answer is that of the for loop: the  *)
(* chunk is not sent again.                                                *)
WriteChunk ==
  /\ op = "write" /\ step = "chunk"
  /\ \/ CardTakes(idx, page[idx]) /\ UNCHANGED inStep
     \/ UNCHANGED cardVars /\ inStep' = FALSE
  /\ NextChunk
  /\ UNCHANGED <<buffer, reads, ecres, blank>>

WriteSpare_Ignored ==   (* a mutated form *)
  /\ op = "write" /\ step = "spare"
  /\ CardTakes(Count, ecc) \/ UNCHANGED cardVars
  /\ GoOn("end")
  /\ UNCHANGED <<buffer, reads, ecres, inStep, blank>>

WriteSpare ==
  /\ op = "write" /\ step = "spare"
  /\ \/ CardTakes(Count, ecc) /\ GoOn("end")
     \/ /\ CardTakes(Count, ecc) \/ UNCHANGED cardVars
        /\ Again(ReplaceOrNoFormat)
  /\ UNCHANGED <<buffer, reads, ecres, inStep, blank>>

WriteEnd ==
  /\ op = "write" /\ step = "end"
  /\ \/ CardEnds /\ Return("succeed")
     \/ (CardEnds \/ UNCHANGED cardVars) /\ Again(ReplaceOrNoFormat)
  /\ UNCHANGED <<buffer, reads, ecres, inStep, blank>>
-----------------------------------------------------------------------------
(* Card_ReadPageData: 0x23 names the page, 0x43 fetches one chunk, or the  *)
(* spare area, 0x81 ends.  When it fails Card_ReadPage calls it again.     *)

ReadAgain_Forever ==   (* a mutated form *)
  /\ try' = 1 /\ step' = "start" /\ idx' = 0
  /\ UNCHANGED <<op, result, reads>>
ReadAgain ==
  IF reads + 1 < PageReads
    THEN /\ reads' = reads + 1 /\ try' = 1 /\ step' = "start" /\ idx' = 0
         /\ UNCHANGED <<op, result>>
    ELSE /\ Return(IF ecres' # 0 THEN "noformat" ELSE "changed")
         /\ UNCHANGED reads

ReadRetry == (InTime /\ UNCHANGED reads /\ Again(FALSE)) \/ (~InTime /\ ReadAgain)

ReadStart ==
  /\ op = "read" /\ step = "start"
  /\ UNCHANGED ecres
  /\ \/ CardStarts("read") /\ GoOn("chunk") /\ UNCHANGED reads
     \/ (CardStarts("read") \/ UNCHANGED cardVars) /\ ReadRetry
  /\ inStep' = TRUE
  /\ UNCHANGED <<buffer, blank>>

(* A chunk that did not arrive, or arrived with a wrong EDC, is not asked  *)
(* for again: the caller's page keeps what it had there.                   *)
ReadChunk ==
  /\ op = "read" /\ step = "chunk"
  /\ \/ /\ CardGives
        /\ page' = [page EXCEPT ![idx] = cell[pos]]
        /\ bits' = [bits EXCEPT ![idx] = rot[pos]]
        /\ UNCHANGED inStep
     \/ CardGives /\ UNCHANGED <<page, bits, inStep>>
     \/ UNCHANGED cardVars /\ inStep' = FALSE /\ UNCHANGED <<page, bits>>
  /\ NextChunk
  /\ UNCHANGED <<ecc, off, reads, ecres, blank>>

ReadSpare ==
  /\ op = "read" /\ step = "spare"
  /\ UNCHANGED ecres
  /\ \/ CardGives /\ ecc' = cell[pos] /\ GoOn("end") /\ UNCHANGED reads
     \/ (CardGives \/ UNCHANGED cardVars) /\ UNCHANGED ecc /\ ReadRetry
  /\ UNCHANGED <<page, bits, off, inStep, blank>>

ReadEnd ==
  /\ op = "read" /\ step = "end"
  /\ UNCHANGED ecres
  /\ \/ CardEnds /\ InTime /\ GoOn("check") /\ UNCHANGED reads
     \/ CardEnds /\ ~InTime /\ ReadAgain
     \/ (CardEnds \/ UNCHANGED cardVars) /\ ReadRetry
  /\ UNCHANGED <<buffer, inStep, blank>>
-----------------------------------------------------------------------------
(* Card_ReadPage and Card_ReadPageWithEcc, with Card_CorrectData for each  *)
(* chunk, which never corrects the data.                                   *)

Right(k) == page[k] = ecc[k] /\ bits[k] = 0

(* An odd number of its bits is wrong.                                     *)
Odd(v) == IF v \in OddVals THEN 1 ELSE 0
OddlyWrong(k) == (Odd(page[k]) + Odd(ecc[k]) + bits[k]) % 2 = 1

(* The result for a chunk: with its own ECC, and with one that has a wrong *)
(* bit.  An ECC the check of an earlier chunk has changed can miss what is *)
(* wrong, but does not find an odd number of wrong bits in a sound chunk.  *)
Sound(k) == IF Right(k) THEN 0 ELSE IF OddlyWrong(k) THEN -1 ELSE -3
Unsound(k) == IF OddlyWrong(k) THEN -3 ELSE -2

Correct(k, changed) ==
  CASE ecc \notin Eccs       -> Results
    [] ecc \in Eccs /\ changed -> IF Right(k) THEN Results \ {-1} ELSE Results
    [] OTHER                 -> {IF k \in worn THEN Unsound(k) ELSE Sound(k)}

(* After a result of -1 one bit of the spare area is inverted, at up to    *)
(* 127 bytes from the ECC of the chunk: hit[k] is the chunk in whose ECC   *)
(* that is, and Count stands for what lies behind the last one.            *)
Changed(res, hit, last) == {hit[j] : j \in {j \in 0 .. last : res[j] = -1}} \cap Chunks

Checks(res, hit) ==
  \A k \in Chunks :
    /\ hit[k] \in k .. Count
    /\ res[k] \in Correct(k, k \in Changed(res, hit, k - 1))

(* ecres is the least result and is not reset between the attempts.        *)
WorstResult_LastChunk(res) ==   (* a mutated form *)
  IF res[Count - 1] < ecres THEN res[Count - 1] ELSE ecres
WorstResult(res) ==
  CHOOSE r \in Results :
    /\ r = ecres \/ \E k \in Chunks : r = res[k]
    /\ r <= ecres /\ \A k \in Chunks : r <= res[k]

(* The last byte of the spare area tells an erased page; whatever arrived  *)
(* in its place may end with that byte as well.  An attempt that follows   *)
(* another reads the spare area anew, before it checks it.                 *)
ReadCheck ==
  /\ op = "read" /\ step = "check"
  /\ \/ ecc \notin Eccs /\ Return("succeed") /\ UNCHANGED <<off, ecres, reads>>
     \/ /\ ecc # ErasedCell
        /\ \E res \in [Chunks -> Results], hit \in [Chunks -> Areas] :
             /\ Checks(res, hit)
             /\ ecres' = WorstResult(res)
             /\ IF ecres' = 0 \/ (reads = PageReads - 1 /\ ~(ecres' < -2))
                  THEN /\ Return("succeed") /\ UNCHANGED reads
                       /\ off' = Changed(res, hit, Count - 1)
                  ELSE ReadAgain /\ UNCHANGED off
  /\ UNCHANGED <<cardVars, page, bits, ecc, inStep, blank>>
-----------------------------------------------------------------------------
Step ==
  \/ EraseStart \/ EraseConfirm \/ ErasePoll
  \/ WriteStart \/ WriteChunk \/ WriteSpare \/ WriteEnd
  \/ ReadStart \/ ReadChunk \/ ReadSpare \/ ReadEnd \/ ReadCheck

CommandNext == CallErase \/ CallWrite \/ CallRead \/ Step

(* Every exchange ends at some time, if only without a valid answer.       *)
CommandSpec == CommandInit /\ [][CommandNext]_commandVars /\ WF_commandVars(Step)
-----------------------------------------------------------------------------
Succeeds(o) == op = o /\ result' = "succeed"

(* A block reported erased is erased: of all that was lost, repeated or    *)
(* refused before, the attempt that counts was carried out entirely.       *)
EraseMeansErased == [][Succeeds("erase") => cell = BlankPage]_commandVars

(* A page reported written holds the data and the ECC, even if earlier     *)
(* attempts programmed parts of it - unless a chunk never reached the      *)
(* card: that chunk is not sent again, and the page still counts as        *)
(* written.                                                                *)
WriteMeansWritten ==
  [][Succeeds("write") /\ blank /\ inStep => cell = PageOf(page)]_commandVars

(* A page reported read is the one its ECC was computed from, and the      *)
(* spare area handed on is the card's, if no attempt has found a wrong     *)
(* bit, whatever the buffer held before and whatever chunks did not        *)
(* arrive.  Otherwise, in the attempt that is taken, the first chunk that  *)
(* is not its ECC's has an odd number of wrong bits, or an ECC that is     *)
(* worn itself.  Of the chunks behind it nothing is known: its check has   *)
(* inverted a bit that may belong to their ECC (mcio.cpp:286).             *)
ReadMeansPage ==
  [][Succeeds("read") /\ inStep /\ cell[Count] \in Eccs =>
       /\ ecc = cell[Count]
       /\ ecres' = 0 => off' = {} /\ \A k \in Chunks : Right(k)
       /\ \A k \in Chunks \ worn :
            Right(k) \/ OddlyWrong(k) \/ \E j \in 0 .. k - 1 : ~Right(j)]_commandVars

(* Every command returns: no series of lost exchanges makes it try forever *)
Returns == (op # "idle") ~> (op = "idle")
=============================================================================
