----------------------------- MODULE CardImage ------------------------------
(***************************************************************************)
(* The four operations of AnthonyPS2/Anthony.cpp on byteMemDat, the image  *)
(* of a card in memory: ReadFromFile, ReadFromCard, WriteToFile and        *)
(* WriteToCard, with mcio_mcGetInfo, mcio_mcReadPageWithEcc and            *)
(* mcio_mcWriteBlock below them.  What a page holds is the save it comes   *)
(* from; page 1, the superblock, says how long that save is.  All saves    *)
(* have pages and blocks of the same size.  A command of mcio can report   *)
(* success for a page it has not copied exactly (module PageCommands).     *)
(***************************************************************************)
EXTENDS Integers, Sequences

CONSTANTS
  Saves,       (* what a card or a file can hold                           *)
  Length,      (* the pages of a save, by its superblock                   *)
  PerBlock,    (* pages_per_block                                          *)
  Buffer,      (* pages that fit in byteMemDat                             *)
  Garbage,     (* pages that sizes never set may amount to                 *)
  Blank        (* no save: zeroes, or a page erased, torn or with wrong    *)
               (* bits                                                     *)

ASSUME ImageAssumption ==
  /\ PerBlock \in Nat \ {0} /\ Buffer \in Nat \ {0}
  /\ Blank \notin Saves /\ Garbage \subseteq Nat \ {0}
  /\ \A s \in Saves : Length[s] \in Nat \ {0} /\ Length[s] % PerBlock = 0

VARIABLES
  image,       (* byteMemDat                                               *)
  card,        (* the pages of the card                                    *)
  file,        (* the pages of the file on disk                            *)
  at,          (* the step of the operation                                *)
  i,           (* the page it has come to                                  *)
  count,       (* how many pages it transfers                              *)
  shown,       (* which operation has just reported that it finished       *)
  before,      (* history: the card when the operation began, or now        *)
  guessed,     (* history: the operation had sizes that are not the card's *)
  flawed,      (* history: the pages that the operation has not copied     *)
               (* exactly, although mcio reported success                  *)
  excused      (* history: the image was not loaded to its end, or from a  *)
               (* file or a card that does not hold one whole save         *)

vars == <<image, card, file, at, i, count, shown, before, guessed, flawed, excused>>

Content == Saves \cup {Blank}
Sizes == {Length[s] : s \in Saves}
Least(m, n) == IF m <= n THEN m ELSE n
Full(s) == [p \in 1 .. Length[s] |-> s]

TypeOK ==
  /\ image \in [1 .. Buffer -> Content]
  /\ \E n \in Sizes : card \in [1 .. n -> Content] /\ before \in [1 .. n -> Content]
  /\ \E n \in {0, PerBlock} \cup Sizes \cup 1 .. Buffer : file \in [1 .. n -> Content]
  /\ at \in {"idle", "read", "erase", "write"}
  /\ at = "idle" => i = 0 /\ count = 0
  /\ at # "idle" => i \in 1 .. count /\ count \in 1 .. Buffer
  /\ shown \in {"none", "read", "written"} /\ guessed \in BOOLEAN /\ excused \in BOOLEAN
  /\ flawed \subseteq 1 .. Buffer

Init ==
  /\ image = [p \in 1 .. Buffer |-> Blank]
  /\ \E s \in Saves : card = Full(s)
  /\ \E s \in Saves : file = Full(s)
  /\ at = "idle" /\ i = 0 /\ count = 0 /\ shown = "none"
  /\ before = card /\ guessed = FALSE /\ flawed = {} /\ excused = FALSE

HasSuperblock == image[1] # Blank
ImagePages == Length[image[1]]
InBuffer == HasSuperblock /\ ImagePages <= Buffer

Show(m) == at' = "idle" /\ i' = 0 /\ count' = 0 /\ shown' = m
Start(stage, n) == at' = stage /\ i' = 1 /\ count' = n /\ shown' = "none"
-----------------------------------------------------------------------------
(* How much of a file may be transferred before an error: whole blocks.    *)
Parts(n) == {m \in 0 .. n - 1 : m % PerBlock = 0}

Loaded(pages) == [p \in 1 .. Buffer |-> IF p <= Len(pages) THEN pages[p] ELSE image[p]]

Whole(pages) ==
  /\ pages[1] # Blank
  /\ \A p \in 1 .. Least(Buffer, Length[pages[1]]) :
       p \in DOMAIN pages /\ pages[p] = pages[1]

(* ReadFromFile: whatever the file has is taken, if it has anything.       *)
ReadFromFile ==
  /\ at = "idle" /\ shown' = "none" /\ guessed' = FALSE /\ flawed' = {}
  /\ \/ /\ Len(file) > 0
        /\ image' = Loaded(file) /\ excused' = ~Whole(file)
     \/ /\ excused' = TRUE
        /\ \E n \in Parts(Len(file)) : image' = Loaded([p \in 1 .. n |-> file[p]])
  /\ UNCHANGED <<card, file, at, i, count, before>>

(* WriteToFile: the file is emptied first; an image without a superblock   *)
(* leaves it so.                                                           *)
WriteToFile ==
  /\ at = "idle" /\ shown' = "none" /\ guessed' = FALSE /\ flawed' = {}
  /\ \/ /\ InBuffer
        /\ \E n \in Parts(ImagePages) \cup {ImagePages} :
             file' = [p \in 1 .. n |-> image[p]]
     \/ /\ ~InBuffer
        /\ file' = << >>
     \/ UNCHANGED file   (* it cannot be opened *)
  /\ UNCHANGED <<image, card, at, i, count, before, excused>>
-----------------------------------------------------------------------------
(* mcio_mcGetInfo.  If Card_GetSpecs fails it returns success and leaves   *)
(* the sizes as they were, not initialised.                                *)
CardSizes == {Len(card)} \cup Garbage

Attempt(n) ==
  at = "idle" /\ guessed' = (n # Len(card)) /\ flawed' = {} /\ UNCHANGED before

NoCardInfo ==
  /\ Attempt(Len(card)) /\ Show("none")
  /\ UNCHANGED <<image, card, file, excused>>
-----------------------------------------------------------------------------
(* ReadFromCard                                                            *)

Fits_NotChecked(n) == TRUE   (* a mutated form *)
Fits(n) == n <= Buffer

StartReading ==
  /\ \E n \in CardSizes :
       /\ Attempt(n)
       /\ IF Fits(n) THEN Start("read", n) /\ excused' = TRUE
                     ELSE Show("none") /\ UNCHANGED excused
  /\ UNCHANGED <<image, card, file>>

(* Page i arrives in the image as v.  Card_CorrectData may have inverted a *)
(* bit in the page behind it, where the spare area ends (mcio.cpp:286).    *)
Arrives(v) ==
  \E spilt \in SUBSET ({i + 1} \cap DOMAIN image) :
    image' = [p \in DOMAIN image |->
                IF p = i THEN v ELSE IF p \in spilt THEN Blank ELSE image[p]]

(* A page with an odd number of wrong bits is taken at the last attempt,   *)
(* and an erased one although parts of it did not arrive.  Its save can    *)
(* still be told, or not.                                                  *)
ReadPage ==
  /\ at = "read" /\ i \in DOMAIN card
  /\ \/ Arrives(card[i]) /\ UNCHANGED flawed
     \/ (Arrives(card[i]) \/ Arrives(Blank)) /\ flawed' = flawed \cup {i}
  /\ IF i < count
       THEN i' = i + 1 /\ UNCHANGED <<at, count, shown, excused>>
       ELSE /\ Show("read")
            /\ excused' = (guessed \/ flawed' # {} \/ ~Whole(card))
  /\ UNCHANGED <<card, file, before, guessed>>

AfterBadPage_GoOn ==   (* a mutated form *)
  IF i < count THEN i' = i + 1 /\ UNCHANGED <<at, count, shown, excused>>
  ELSE Show("read") /\ excused' = ~Whole(card)
AfterBadPage == Show("none") /\ UNCHANGED excused

(* The page that cannot be read may have been overwritten.                 *)
ReadPageFails ==
  /\ at = "read" /\ AfterBadPage
  /\ Arrives(image[i]) \/ Arrives(Blank)
  /\ UNCHANGED <<card, file, before, guessed, flawed>>
-----------------------------------------------------------------------------
(* WriteToCard, after the user confirmed                                   *)

RightSize_Smaller(n) == ImagePages <= n   (* a mutated form *)
RightSize(n) == ImagePages = n

StartWriting ==
  /\ \E n \in CardSizes :
       /\ Attempt(n)
       /\ IF InBuffer /\ RightSize(n) THEN Start("erase", ImagePages)
                                      ELSE Show("none")
  /\ UNCHANGED <<image, card, file, excused>>

(* mcio_mcWriteBlock: the block is erased, then each page written.         *)
BlockOf(p) == (p - 1) \div PerBlock
Erased == [p \in DOMAIN card |-> IF BlockOf(p) = BlockOf(i) THEN Blank ELSE card[p]]

Erase ==
  /\ at = "erase" /\ i \in DOMAIN card
  /\ card' = Erased /\ at' = "write"
  /\ UNCHANGED <<image, file, i, count, shown, before, guessed, flawed, excused>>

(* The history is kept while the operation lasts.                         *)
Since == IF at' = "idle" THEN card' ELSE before

LastOfBlock == i % PerBlock = 0

Holds(v) == card' = [card EXCEPT ![i] = v]

(* A page of which a chunk was never sent is a success                     *)
(* (mcio.cpp:653-657).                                                     *)
WritePage ==
  /\ at = "write" /\ i \in DOMAIN card
  /\ \/ Holds(image[i]) /\ UNCHANGED flawed
     \/ (Holds(image[i]) \/ Holds(Blank)) /\ flawed' = flawed \cup {i}
  /\ IF i = count THEN Show("written")
     ELSE /\ i' = i + 1 /\ at' = IF LastOfBlock THEN "erase" ELSE "write"
          /\ UNCHANGED <<count, shown>>
  /\ before' = Since /\ UNCHANGED <<image, file, guessed, excused>>

AfterBadBlock_GoOn ==   (* a mutated form *)
  LET next == PerBlock * (BlockOf(i) + 1) + 1
  IN  IF next > count THEN Show("written")
      ELSE at' = "erase" /\ i' = next /\ UNCHANGED <<count, shown>>
AfterBadBlock == Show("none")

WriteFails ==
  /\ at \in {"erase", "write"} /\ AfterBadBlock
  /\ card' \in IF at = "erase" THEN {card, Erased}
               ELSE {card} \cup {[card EXCEPT ![p] = Blank] : p \in {i} \cap DOMAIN card}
  /\ before' = Since /\ UNCHANGED <<image, file, guessed, flawed, excused>>
-----------------------------------------------------------------------------
(* Another card, or another file, is taken.                                *)
Exchange ==
  /\ at = "idle" /\ \E s \in Saves : card' = Full(s)
  /\ before' = card' /\ shown' = "none" /\ guessed' = FALSE /\ flawed' = {}
  /\ UNCHANGED <<image, file, at, i, count, excused>>

ChooseFile ==
  /\ at = "idle"
  /\ \E s \in Saves : \E n \in {Length[s], PerBlock} :
       file' = [p \in 1 .. n |-> s]
  /\ UNCHANGED <<image, card, at, i, count, shown, before, guessed, flawed, excused>>

(* The window is closed in the middle of an operation; the program starts  *)
(* again with an empty image.                                              *)
Restart ==
  /\ image' = [p \in 1 .. Buffer |-> Blank]
  /\ guessed' = FALSE /\ flawed' = {} /\ excused' = FALSE
  /\ at' = "idle" /\ i' = 0 /\ count' = 0 /\ shown' = "none"
  /\ before' = card /\ UNCHANGED <<card, file>>
-----------------------------------------------------------------------------
Next ==
  \/ ReadFromFile \/ WriteToFile \/ NoCardInfo
  \/ StartReading \/ ReadPage \/ ReadPageFails
  \/ StartWriting \/ Erase \/ WritePage \/ WriteFails
  \/ Exchange \/ ChooseFile \/ Restart

Spec == Init /\ [][Next]_vars
-----------------------------------------------------------------------------
(* When the message says that reading or writing finished, the image and   *)
(* the card hold the same, page by page, unless the card did not tell its  *)
(* sizes - but for the pages that mcio has not copied exactly and reported *)
(* all the same: nobody is told of them.                                   *)
FinishedMeansCopied ==
  shown \in {"read", "written"} /\ ~guessed =>
    \A p \in DOMAIN card : p <= Buffer /\ (p \in flawed \/ image[p] = card[p])

(* What is written to a card without an error is one save from beginning   *)
(* to end, not parts of two, unless what the image was loaded from was not *)
(* one save itself, could not be read to its end, which was reported, the  *)
(* card did not tell its sizes, or a page was not copied exactly.          *)
WrittenIsOneSave ==
  shown = "written" /\ ~excused /\ ~guessed /\ flawed = {} =>
    \A p \in DOMAIN card : card[p] = card[1]

(* A write that fails leaves the blocks behind the failing one as they     *)
(* were, and those before it hold the image, but for the pages that were   *)
(* not copied exactly: the card never has a gap.                           *)
FailureIsConfined ==
  at \in {"erase", "write"} =>
    \A p \in DOMAIN card :
      /\ BlockOf(p) < BlockOf(i) => p \in flawed \/ card[p] = image[p]
      /\ BlockOf(p) > BlockOf(i) => card[p] = before[p]
=============================================================================
