--------------------------- MODULE ProgramProofs ----------------------------
(***************************************************************************)
(* Proofs about four components that share nothing but this module:        *)
(*  - the operations of AnthonyPS2/Anthony.cpp (CardImage), for saves and  *)
(*    blocks of any size, any buffer and any sizes that were never set;    *)
(*  - its dialog and the threads that run them (WorkerThread), for any     *)
(*    number of threads and buttons;                                       *)
(*  - the transfer of frames by Anthony/Anthony.cpp (FrameTransfer), for   *)
(*    any number of frames and any answers;                                *)
(*  - the page and block commands of mcio (PageCommands), for pages of any *)
(*    size, any number of attempts and any wear.                           *)
(***************************************************************************)
EXTENDS CardImage, WorkerThread, FrameTransfer, PageCommands, TLAPS

Writing == at \in {"erase", "write"}

(* The card has pages 1 .. n; what stands before the current page is the   *)
(* image, what stands behind its block is what was there.  Inside the      *)
(* block nothing can be said but of the pages written.                     *)
PagesOK ==
  /\ \E n \in Nat : DOMAIN card = 1 .. n
  /\ i \in Nat
  /\ ~Writing => before = card
  /\ Writing => i > 0

WriteOK ==
  Writing =>
    \A p \in DOMAIN card :
      /\ BlockOf(p) < BlockOf(i) \/ (at = "write" /\ p < i) =>
           p \in flawed \/ card[p] = image[p]
      /\ BlockOf(p) > BlockOf(i) => card[p] = before[p]
      /\ at = "erase" => (p < i => BlockOf(p) < BlockOf(i))

ImageInv == PagesOK /\ WriteOK
-----------------------------------------------------------------------------
(* Blocks of pages, counted from page 1.                                   *)
LEMMA PerBlockNat == PerBlock \in Nat \ {0}
BY ImageAssumption, Zenon

LEMMA DivGrows ==
  ASSUME NEW n \in Nat \ {0}, NEW p \in Nat, NEW q \in Nat, p <= q
  PROVE  p \div n <= q \div n
OBVIOUS

LEMMA DivWithin ==
  ASSUME NEW n \in Nat \ {0}, NEW p \in Nat, (p + 1) % n # 0
  PROVE  (p + 1) \div n = p \div n
OBVIOUS

LEMMA DivNext ==
  ASSUME NEW n \in Nat \ {0}, NEW p \in Nat, (p + 1) % n = 0
  PROVE  (p + 1) \div n = p \div n + 1
OBVIOUS

LEMMA DivInt == ASSUME NEW n \in Nat \ {0}, NEW p \in Nat PROVE p \div n \in Int
OBVIOUS

LEMMA Blocks ==
  /\ \A p \in Nat \ {0} : BlockOf(p) \in Int
  /\ \A p, q \in Nat \ {0} : p <= q => BlockOf(p) <= BlockOf(q)
  /\ \A p \in Nat \ {0} :
       BlockOf(p + 1) = IF p % PerBlock = 0 THEN BlockOf(p) + 1 ELSE BlockOf(p)
<1>1. ASSUME NEW p \in Nat \ {0} PROVE BlockOf(p) \in Int
  <2>1. p - 1 \in Nat
    OBVIOUS
  <2> QED
    BY <2>1, PerBlockNat, DivInt DEF BlockOf
<1>2. ASSUME NEW p \in Nat \ {0}, NEW q \in Nat \ {0}, p <= q
      PROVE  BlockOf(p) <= BlockOf(q)
  <2>1. p - 1 \in Nat /\ q - 1 \in Nat /\ p - 1 <= q - 1
    BY <1>2
  <2> QED
    BY <2>1, PerBlockNat, DivGrows DEF BlockOf
<1>3. ASSUME NEW p \in Nat \ {0}
      PROVE  BlockOf(p + 1) = IF p % PerBlock = 0 THEN BlockOf(p) + 1 ELSE BlockOf(p)
  <2>1. p - 1 \in Nat /\ (p - 1) + 1 = p /\ (p + 1) - 1 = p
    OBVIOUS
  <2>2. CASE p % PerBlock = 0
    <3>1. p \div PerBlock = (p - 1) \div PerBlock + 1
      BY <2>1, <2>2, PerBlockNat, DivNext
    <3> QED
      BY <2>1, <2>2, <3>1 DEF BlockOf
  <2>3. CASE p % PerBlock # 0
    <3>1. p \div PerBlock = (p - 1) \div PerBlock
      BY <2>1, <2>3, PerBlockNat, DivWithin
    <3> QED
      BY <2>1, <2>3, <3>1 DEF BlockOf
  <2> QED
    BY <2>2, <2>3
<1> QED
  BY <1>1, <1>2, <1>3
-----------------------------------------------------------------------------
LEMMA InitInv == Init => ImageInv
<1> SUFFICES ASSUME Init PROVE ImageInv
  OBVIOUS
<1>1. PICK s \in Saves : card = Full(s)
  BY DEF Init
<1>2. Length[s] \in Nat
  <2>1. Length[s] \in Nat \ {0}
    BY ImageAssumption, Zenon
  <2> QED
    BY <2>1
<1>3. DOMAIN card = 1 .. Length[s]
  BY <1>1 DEF Full
<1> QED
  BY <1>2, <1>3 DEF Init, ImageInv, PagesOK, WriteOK, Writing

(* A new card.                                                             *)
LEMMA FullPages == ASSUME NEW s \in Saves PROVE \E n \in Nat : DOMAIN Full(s) = 1 .. n
<1>1. Length[s] \in Nat \ {0}
  BY ImageAssumption, Zenon
<1> QED
  BY <1>1 DEF Full

(* Steps after which nothing is being written.                             *)
LEMMA NotWriting ==
  ASSUME ImageInv, ~Writing', before' = card', i' \in Nat,
         DOMAIN card' = DOMAIN card \/ \E n \in Nat : DOMAIN card' = 1 .. n
  PROVE  ImageInv'
BY DEF ImageInv, PagesOK, WriteOK

(* The block of page i is erased.                                          *)
LEMMA EraseKeeps == ASSUME ImageInv, Erase PROVE ImageInv'
<1>1. PICK n \in Nat : DOMAIN card = 1 .. n
  BY DEF ImageInv, PagesOK
<1>2. i \in Nat \ {0} /\ Writing /\ at = "erase"
  BY DEF Erase, Writing, ImageInv, PagesOK
<1>3. /\ DOMAIN card' = DOMAIN card
      /\ \A p \in DOMAIN card : BlockOf(p) # BlockOf(i) => card'[p] = card[p]
  BY DEF Erase, Erased
<1>4. PagesOK'
  BY <1>1, <1>2, <1>3 DEF Erase, PagesOK, Writing
<1>5. WriteOK'
  <2> SUFFICES ASSUME NEW p \in DOMAIN card
               PROVE  /\ BlockOf(p) < BlockOf(i) \/ p < i => p \in flawed \/ card'[p] = image[p]
                      /\ BlockOf(p) > BlockOf(i) => card'[p] = before[p]
    BY <1>3 DEF WriteOK, Erase, BlockOf
  <2>1. p \in Nat \ {0}
    BY <1>1
  <2>2. BlockOf(p) \in Int /\ BlockOf(i) \in Int
    BY <1>2, <2>1, Blocks, Zenon
  <2>3. /\ BlockOf(p) < BlockOf(i) => p \in flawed \/ card[p] = image[p]
        /\ BlockOf(p) > BlockOf(i) => card[p] = before[p]
        /\ p < i => BlockOf(p) < BlockOf(i)
    BY <1>2, Zenon DEF ImageInv, WriteOK
  <2> QED
    BY <1>3, <2>2, <2>3
<1> QED
  BY <1>4, <1>5 DEF ImageInv

(* Page i is written, and the next one is in the same block or in the next.*)
LEMMA WritePageKeeps == ASSUME ImageInv, WritePage PROVE ImageInv'
<1>1. PICK n \in Nat : DOMAIN card = 1 .. n
  BY DEF ImageInv, PagesOK
<1>2. i \in Nat \ {0} /\ Writing /\ i \in DOMAIN card /\ at = "write"
  BY DEF WritePage, Writing, ImageInv, PagesOK
<1>3. /\ DOMAIN card' = DOMAIN card /\ image' = image
      /\ i \in flawed' \/ card'[i] = image[i]
      /\ \A p \in DOMAIN card : p # i => card'[p] = card[p]
      /\ \A p \in DOMAIN card : p \in flawed => p \in flawed'
  BY <1>2 DEF WritePage, Holds
<1>4. CASE i = count
  <2>1. ~Writing' /\ before' = card' /\ i' \in Nat
    BY <1>4 DEF WritePage, Writing, Show, Since
  <2> QED
    BY <1>3, <2>1, NotWriting
<1>5. CASE i # count
  <2>1. /\ i' = i + 1 /\ before' = before
        /\ at' = IF i % PerBlock = 0 THEN "erase" ELSE "write"
    BY <1>5 DEF WritePage, LastOfBlock, Since
  <2>2. PagesOK'
    BY <1>1, <1>2, <1>3, <2>1 DEF PagesOK, Writing
  <2>3. WriteOK'
    <3> SUFFICES ASSUME NEW p \in DOMAIN card
                 PROVE  /\ BlockOf(p) < BlockOf(i + 1) \/ (at' = "write" /\ p < i + 1)
                             => p \in flawed' \/ card'[p] = image[p]
                        /\ BlockOf(p) > BlockOf(i + 1) => card'[p] = before[p]
                        /\ at' = "erase" => (p < i + 1 => BlockOf(p) < BlockOf(i + 1))
      BY <1>3, <2>1 DEF WriteOK, BlockOf
    <3>1. p \in Nat \ {0} /\ i + 1 \in Nat \ {0}
      BY <1>1, <1>2
    <3>2. /\ BlockOf(p) \in Int /\ BlockOf(i) \in Int
          /\ p <= i => BlockOf(p) <= BlockOf(i)
          /\ i + 1 <= p => BlockOf(i + 1) <= BlockOf(p)
          /\ BlockOf(i + 1) = IF i % PerBlock = 0 THEN BlockOf(i) + 1 ELSE BlockOf(i)
      BY <1>2, <3>1, Blocks, Zenon
    <3>3. /\ BlockOf(p) < BlockOf(i) \/ p < i => p \in flawed \/ card[p] = image[p]
          /\ BlockOf(p) > BlockOf(i) => card[p] = before[p]
      BY <1>2, Zenon DEF ImageInv, WriteOK
    <3>4. CASE i % PerBlock = 0
      <4>1. at' = "erase" /\ BlockOf(i + 1) = BlockOf(i) + 1
        BY <2>1, <3>2, <3>4
      <4> QED
        BY <1>2, <1>3, <3>1, <3>2, <3>3, <4>1
    <3>5. CASE i % PerBlock # 0
      <4>1. at' = "write" /\ BlockOf(i + 1) = BlockOf(i)
        BY <2>1, <3>2, <3>5
      <4> QED
        BY <1>2, <1>3, <3>1, <3>2, <3>3, <4>1
    <3> QED
      BY <3>4, <3>5
  <2> QED
    BY <2>2, <2>3 DEF ImageInv
<1> QED
  BY <1>4, <1>5

(* An operation begins; no page of the card is before the first.           *)
LEMMA StartKeeps == ASSUME ImageInv, StartWriting PROVE ImageInv'
<1>1. PICK n \in Nat : DOMAIN card = 1 .. n
  BY DEF ImageInv, PagesOK
<1>2. card' = card /\ before' = before /\ before = card
  BY DEF StartWriting, Attempt, ImageInv, PagesOK, Writing
<1>3. CASE ~Writing'
  <2>1. i' \in Nat
    BY DEF StartWriting, Start, Show
  <2> QED
    BY <1>2, <1>3, <2>1, NotWriting
<1>4. CASE Writing'
  <2>1. at' = "erase" /\ i' = 1
    BY <1>4 DEF StartWriting, Start, Show, Writing
  <2>2. PagesOK'
    BY <1>1, <1>2, <2>1 DEF PagesOK, Writing
  <2>3. WriteOK'
    <3> SUFFICES ASSUME NEW p \in DOMAIN card
                 PROVE  ~(BlockOf(p) < BlockOf(1)) /\ ~(p < 1)
      BY <1>2, <2>1 DEF WriteOK, BlockOf
    <3>1. p \in Nat \ {0} /\ 1 \in Nat \ {0} /\ 1 <= p
      BY <1>1
    <3>2. BlockOf(p) \in Int /\ BlockOf(1) \in Int /\ BlockOf(1) <= BlockOf(p)
      BY <3>1, Blocks, Zenon
    <3> QED
      BY <3>1, <3>2
  <2> QED
    BY <2>2, <2>3 DEF ImageInv
<1> QED
  BY <1>3, <1>4

LEMMA ImageStep == ASSUME ImageInv, [Next]_vars PROVE ImageInv'
<1>1. CASE ReadFromFile \/ WriteToFile \/ NoCardInfo \/ ChooseFile
  <2>1. ~Writing' /\ UNCHANGED <<card, before>> /\ i' \in Nat /\ ~Writing
    BY <1>1 DEF ReadFromFile, WriteToFile, NoCardInfo, ChooseFile, Attempt, Show,
                Writing, ImageInv, PagesOK
  <2> QED
    BY <2>1, NotWriting DEF ImageInv, PagesOK
<1>2. CASE StartReading \/ ReadPage \/ ReadPageFails
  <2>1. ~Writing' /\ UNCHANGED <<card, before>> /\ i' \in Nat /\ ~Writing
    BY <1>2 DEF StartReading, ReadPage, ReadPageFails, AfterBadPage, Attempt, Show,
                Start, Writing, ImageInv, PagesOK
  <2> QED
    BY <2>1, NotWriting DEF ImageInv, PagesOK
<1>3. CASE StartWriting
  BY <1>3, StartKeeps
<1>4. CASE Erase
  BY <1>4, EraseKeeps
<1>5. CASE WritePage
  BY <1>5, WritePageKeeps
<1>6. CASE WriteFails
  <2>1. ~Writing' /\ before' = card' /\ i' \in Nat
    BY <1>6 DEF WriteFails, AfterBadBlock, Show, Since, Writing
  <2>2. DOMAIN card' = DOMAIN card
    BY <1>6 DEF WriteFails, Erased
  <2> QED
    BY <2>1, <2>2, NotWriting
<1>7. CASE Exchange
  <2>1. ~Writing' /\ before' = card' /\ i' \in Nat
    BY <1>7 DEF Exchange, Writing, ImageInv, PagesOK
  <2>2. \E n \in Nat : DOMAIN card' = 1 .. n
    BY <1>7, FullPages DEF Exchange
  <2> QED
    BY <2>1, <2>2, NotWriting
<1>8. CASE Restart
  <2>1. ~Writing' /\ before' = card' /\ i' \in Nat /\ card' = card
    BY <1>8 DEF Restart, Writing
  <2> QED
    BY <2>1, NotWriting
<1>9. CASE UNCHANGED vars
  BY <1>9 DEF vars, ImageInv, PagesOK, WriteOK, Writing, BlockOf
<1> QED
  BY <1>1, <1>2, <1>3, <1>4, <1>5, <1>6, <1>7, <1>8, <1>9 DEF Next

-----------------------------------------------------------------------------
(* What a transfer has copied, and what the image was loaded from.         *)

CopyOK ==
  /\ at # "idle" /\ ~guessed => DOMAIN card = 1 .. count
  /\ at = "read" => excused /\ \A p \in DOMAIN card : p < i => p \in flawed \/ image[p] = card[p]
  /\ Writing => image[1] # Blank /\ count = Length[image[1]]
  /\ shown # "none" => at = "idle"

(* An image that is not excused is that of its superblock.                 *)
LoadOK ==
  ~excused /\ image[1] # Blank =>
    \A p \in 1 .. Buffer : p <= Length[image[1]] => image[p] = image[1]

CopyInv == TypeOK /\ CopyOK /\ LoadOK /\ FinishedMeansCopied /\ WrittenIsOneSave

LEMMA Constants ==
  /\ PerBlock \in Nat \ {0} /\ Buffer \in Nat \ {0} /\ Blank \notin Saves
  /\ Garbage \subseteq Nat \ {0}
  /\ \A s \in Saves : Length[s] \in Nat \ {0} /\ Length[s] \in Sizes
  /\ Sizes \subseteq Nat \ {0}
<1>1. \A s \in Saves : Length[s] \in Nat \ {0}
  BY ImageAssumption, Zenon
<1>2. PerBlock \in Nat \ {0} /\ Buffer \in Nat \ {0} /\ Blank \notin Saves
      /\ Garbage \subseteq Nat \ {0}
  BY ImageAssumption, Zenon
<1> QED
  BY <1>1, <1>2 DEF Sizes

LEMMA Lengths ==
  ASSUME NEW n \in Nat, NEW f \in [1 .. n -> Content]
  PROVE  Len(f) = n /\ DOMAIN f = 1 .. n
OBVIOUS

(* The card has as many pages as its length says.                          *)
LEMMA CardPages ==
  ASSUME TypeOK
  PROVE  \E n \in Sizes : /\ n \in Nat \ {0} /\ card \in [1 .. n -> Content]
                          /\ Len(card) = n /\ DOMAIN card = 1 .. n
BY Constants, Lengths DEF TypeOK

LEMMA FilePages ==
  ASSUME TypeOK
  PROVE  \E n \in Nat : file \in [1 .. n -> Content] /\ Len(file) = n /\ DOMAIN file = 1 .. n
<1>1. PICK n \in {0, PerBlock} \cup Sizes \cup 1 .. Buffer : file \in [1 .. n -> Content]
  BY DEF TypeOK
<1>2. n \in Nat
  BY Constants
<1> QED
  BY <1>1, <1>2, Lengths

LEMMA FullIsPages == ASSUME NEW s \in Saves
  PROVE \E n \in Sizes : Full(s) \in [1 .. n -> Content]
BY Constants DEF Full, Content

(* The types of what is copied, and of where an operation is.              *)
CopiesTyped ==
  /\ image \in [1 .. Buffer -> Content]
  /\ \E n \in Sizes : card \in [1 .. n -> Content] /\ before \in [1 .. n -> Content]
  /\ \E n \in {0, PerBlock} \cup Sizes \cup 1 .. Buffer : file \in [1 .. n -> Content]

StepTyped ==
  /\ at \in {"idle", "read", "erase", "write"}
  /\ at = "idle" => i = 0 /\ count = 0
  /\ at # "idle" => i \in 1 .. count /\ count \in 1 .. Buffer
  /\ shown \in {"none", "read", "written"} /\ guessed \in BOOLEAN /\ excused \in BOOLEAN
  /\ flawed \subseteq 1 .. Buffer

LEMMA Types == TypeOK <=> CopiesTyped /\ StepTyped
BY Zenon DEF TypeOK, CopiesTyped, StepTyped

LEMMA CopyInit == Init => CopyInv
<1> SUFFICES ASSUME Init PROVE CopyInv
  OBVIOUS
<1>1. image = [p \in 1 .. Buffer |-> Blank] /\ image[1] = Blank
  BY Constants DEF Init
<1>2. \E n \in Sizes : card \in [1 .. n -> Content] /\ before \in [1 .. n -> Content]
  BY FullIsPages DEF Init
<1>3. \E n \in {0, PerBlock} \cup Sizes \cup 1 .. Buffer : file \in [1 .. n -> Content]
  BY FullIsPages DEF Init
<1>4. TypeOK
  BY <1>1, <1>2, <1>3 DEF Init, TypeOK, Content
<1> QED
  BY <1>1, <1>4 DEF Init, CopyInv, CopyOK, LoadOK, Writing, FinishedMeansCopied,
                    WrittenIsOneSave

(* Nothing is reported, and nothing in progress.                           *)
LEMMA Quiet ==
  ASSUME TypeOK', at' = "idle", shown' = "none", LoadOK'
  PROVE  CopyInv'
BY DEF CopyInv, CopyOK, Writing, FinishedMeansCopied, WrittenIsOneSave

LEMMA PartsAreLess == ASSUME NEW n, NEW m \in Parts(n) PROVE m \in 0 .. n - 1
BY DEF Parts

LEMMA LoadKeeps == ASSUME CopyInv, ReadFromFile PROVE CopyInv'
<1>1. PICK n \in Nat :
        file \in [1 .. n -> Content] /\ Len(file) = n /\ DOMAIN file = 1 .. n
  BY FilePages DEF CopyInv
<1>2. image \in [1 .. Buffer -> Content] /\ Buffer \in Nat \ {0}
  BY Constants DEF CopyInv, TypeOK
<1>3. \/ image' = Loaded(file) /\ excused' = ~Whole(file) /\ Len(file) > 0
      \/ excused' = TRUE /\ \E m \in Parts(Len(file)) :
                              image' = Loaded([p \in 1 .. m |-> file[p]])
  BY DEF ReadFromFile
<1>4. ASSUME NEW m \in 0 .. n, NEW pages \in [1 .. m -> Content]
      PROVE  Loaded(pages) \in [1 .. Buffer -> Content]
  <2>1. m \in Nat /\ Len(pages) = m
    BY <1>1, Lengths
  <2> QED
    BY <1>2, <2>1 DEF Loaded
<1>5. image' \in [1 .. Buffer -> Content]
  <2>1. CASE image' = Loaded(file)
    BY <1>1, <1>4, <2>1
  <2>2. CASE \E m \in Parts(Len(file)) : image' = Loaded([p \in 1 .. m |-> file[p]])
    <3>1. PICK m \in Parts(n) : image' = Loaded([p \in 1 .. m |-> file[p]])
      BY <1>1, <2>2
    <3>2. m \in 0 .. n
      BY <1>1, <3>1, PartsAreLess
    <3>3. [p \in 1 .. m |-> file[p]] \in [1 .. m -> Content]
      BY <1>1, <3>2
    <3> QED
      BY <1>4, <3>1, <3>2, <3>3
  <2> QED
    BY <1>3, <2>1, <2>2
<1>6. TypeOK'
  BY <1>3, <1>5 DEF ReadFromFile, CopyInv, TypeOK
<1>7. LoadOK'
  <2> SUFFICES ASSUME ~excused', image'[1] # Blank, NEW p \in 1 .. Buffer,
                      p <= Length[image'[1]]
               PROVE  image'[p] = image'[1]
    BY DEF LoadOK
  <2>1. image' = Loaded(file) /\ Whole(file) /\ n > 0
    BY <1>1, <1>3
  <2>2. image'[1] = file[1]
    BY <1>1, <1>2, <2>1 DEF Loaded
  <2>3. file[1] \in Saves
    BY <1>1, <2>1 DEF Whole, Content
  <2>4. Length[file[1]] \in Nat
    BY <2>3, Constants
  <2>5. p \in 1 .. Least(Buffer, Length[file[1]])
    BY <1>2, <2>2, <2>4 DEF Least
  <2>6. p \in DOMAIN file /\ file[p] = file[1]
    BY <2>1, <2>5 DEF Whole
  <2>7. image'[p] = file[p]
    BY <1>1, <1>2, <2>1, <2>6 DEF Loaded
  <2> QED
    BY <2>2, <2>6, <2>7
<1>8. at' = "idle" /\ shown' = "none"
  BY DEF ReadFromFile
<1> QED
  BY <1>6, <1>7, <1>8, Quiet

LEMMA SaveKeeps == ASSUME CopyInv, WriteToFile PROVE CopyInv'
<1>1. image \in [1 .. Buffer -> Content] /\ Buffer \in Nat \ {0}
  BY Constants DEF CopyInv, TypeOK
<1>2. \E n \in {0, PerBlock} \cup Sizes \cup 1 .. Buffer : file' \in [1 .. n -> Content]
  <2>1. CASE InBuffer /\ \E n \in Parts(ImagePages) \cup {ImagePages} :
                           file' = [p \in 1 .. n |-> image[p]]
    <3>1. ImagePages \in 1 .. Buffer
      <4>1. image[1] \in Saves
        BY <1>1, <2>1 DEF InBuffer, HasSuperblock, Content
      <4> QED
        BY <1>1, <2>1, <4>1, Constants DEF InBuffer, ImagePages
    <3>2. PICK n \in Parts(ImagePages) \cup {ImagePages} :
            file' = [p \in 1 .. n |-> image[p]]
      BY <2>1
    <3>3. n \in 0 .. Buffer
      BY <1>1, <3>1, <3>2, PartsAreLess
    <3>4. file' \in [1 .. n -> Content]
      BY <1>1, <3>2, <3>3
    <3> QED
      BY <1>1, <3>3, <3>4
  <2>2. CASE file' = << >>
    <3>1. file' \in [1 .. 0 -> Content]
      BY <2>2
    <3> QED
      BY <3>1
  <2>3. CASE UNCHANGED file
    BY <2>3 DEF CopyInv, TypeOK
  <2> QED
    BY <2>1, <2>2, <2>3 DEF WriteToFile
<1>3. TypeOK'
  BY <1>2 DEF WriteToFile, CopyInv, TypeOK, InBuffer, HasSuperblock
<1>4. LoadOK' /\ at' = "idle" /\ shown' = "none"
  BY DEF WriteToFile, CopyInv, LoadOK
<1> QED
  BY <1>3, <1>4, Quiet

LEMMA StartReadingKeeps == ASSUME CopyInv, StartReading PROVE CopyInv'
<1>1. PICK n \in CardSizes :
        /\ guessed' = (n # Len(card))
        /\ \/ n <= Buffer /\ Start("read", n) /\ excused' = TRUE
           \/ Show("none") /\ UNCHANGED excused
  BY DEF StartReading, Attempt, Fits
<1>2. PICK k \in Sizes : /\ k \in Nat \ {0} /\ card \in [1 .. k -> Content]
                         /\ Len(card) = k /\ DOMAIN card = 1 .. k
  BY CardPages DEF CopyInv
<1>3. n \in Nat \ {0} /\ Buffer \in Nat \ {0}
  BY <1>1, <1>2, Constants DEF CardSizes
<1>4. /\ at = "idle" /\ UNCHANGED <<image, card, file, before>> /\ guessed' \in BOOLEAN
      /\ flawed' = {}
  BY <1>1 DEF StartReading, Attempt
<1>5. CASE n <= Buffer /\ Start("read", n) /\ excused' = TRUE
  <2>1. TypeOK'
    <3>1. CopiesTyped'
      BY <1>4, Types DEF CopyInv, CopiesTyped
    <3>2. StepTyped'
      BY <1>3, <1>4, <1>5, Types DEF Start, CopyInv, StepTyped
    <3> QED
      BY <3>1, <3>2, Types, PTL
  <2>2. CopyOK'
    <3>1. at' = "read" /\ i' = 1 /\ count' = n /\ shown' = "none"
      BY <1>5 DEF Start
    <3>2. ~guessed' => DOMAIN card' = 1 .. count'
      BY <1>1, <1>2, <1>4, <3>1
    <3>3. \A p \in DOMAIN card' : ~(p < i')
      BY <1>2, <1>4, <3>1
    <3> QED
      BY <1>5, <3>1, <3>2, <3>3 DEF CopyOK, Writing
  <2> QED
    BY <1>5, <2>1, <2>2 DEF Start, CopyInv, LoadOK, FinishedMeansCopied, WrittenIsOneSave
<1>6. CASE Show("none") /\ UNCHANGED excused
  <2>1. TypeOK' /\ LoadOK'
    BY <1>4, <1>6 DEF Show, CopyInv, TypeOK, LoadOK
  <2> QED
    BY <1>6, <2>1, Quiet DEF Show
<1> QED
  BY <1>1, <1>5, <1>6

(* A page arrives in its place, and the pages before it stay.              *)
LEMMA ArrivesEffect ==
  ASSUME image \in [1 .. Buffer -> Content], i \in 1 .. Buffer, NEW v \in Content, Arrives(v)
  PROVE  /\ image' \in [1 .. Buffer -> Content] /\ image'[i] = v
         /\ \A p \in 1 .. Buffer : p < i => image'[p] = image[p]
<1>1. PICK spilt \in SUBSET ({i + 1} \cap DOMAIN image) :
        image' = [p \in DOMAIN image |->
                    IF p = i THEN v ELSE IF p \in spilt THEN Blank ELSE image[p]]
  BY DEF Arrives
<1>2. DOMAIN image = 1 .. Buffer /\ Blank \in Content
  BY DEF Content
<1> QED
  BY <1>1, <1>2, Constants

LEMMA ReadPageKeeps == ASSUME CopyInv, ReadPage PROVE CopyInv'
<1>1. PICK k \in Sizes : /\ k \in Nat \ {0} /\ card \in [1 .. k -> Content]
                         /\ Len(card) = k /\ DOMAIN card = 1 .. k
  BY CardPages DEF CopyInv
<1>2. /\ image \in [1 .. Buffer -> Content] /\ Buffer \in Nat \ {0}
      /\ i \in 1 .. count /\ count \in 1 .. Buffer /\ i \in 1 .. k /\ at = "read"
      /\ guessed \in BOOLEAN
  BY <1>1, Constants DEF ReadPage, CopyInv, TypeOK
<1>3. /\ image' \in [1 .. Buffer -> Content]
      /\ i \in flawed' \/ image'[i] = card[i]
      /\ \A p \in 1 .. Buffer : p < i => image'[p] = image[p]
      /\ flawed' \in {flawed, flawed \cup {i}} /\ flawed' \subseteq 1 .. Buffer
      /\ UNCHANGED <<card, file, before, guessed>>
  <2>1. /\ i \in 1 .. Buffer /\ card[i] \in Content /\ Blank \in Content
        /\ flawed \subseteq 1 .. Buffer
    BY <1>1, <1>2 DEF Content, CopyInv, TypeOK
  <2>2. \/ Arrives(card[i]) /\ flawed' \in {flawed, flawed \cup {i}}
        \/ Arrives(Blank) /\ flawed' = flawed \cup {i}
    BY DEF ReadPage
  <2> QED BY <1>2, <2>1, <2>2, ArrivesEffect DEF ReadPage
<1>4. \A p \in DOMAIN card :
        p <= i => p \in 1 .. Buffer /\ (p \in flawed' \/ image'[p] = card[p])
  BY <1>1, <1>2, <1>3 DEF CopyInv, CopyOK
<1>5. CASE i < count /\ i' = i + 1 /\ UNCHANGED <<at, count, shown, excused>>
  <2>1. TypeOK'
    <3>1. CopiesTyped'
      BY <1>3, Types DEF CopyInv, CopiesTyped
    <3>2. StepTyped'
      BY <1>2, <1>3, <1>5, Types DEF CopyInv, StepTyped
    <3> QED
      BY <3>1, <3>2, Types, PTL
  <2>2. CopyOK'
    BY <1>1, <1>2, <1>3, <1>4, <1>5 DEF CopyInv, CopyOK, Writing
  <2> QED
    BY <1>2, <1>3, <1>5, <2>1, <2>2
    DEF CopyInv, CopyOK, LoadOK, FinishedMeansCopied, WrittenIsOneSave
<1>6. CASE /\ ~(i < count) /\ Show("read")
           /\ excused' = (guessed \/ flawed' # {} \/ ~Whole(card))
  <2>1. TypeOK'
    BY <1>2, <1>3, <1>6 DEF Show, CopyInv, TypeOK
  <2>2. CopyOK'
    BY <1>6 DEF Show, CopyOK, Writing
  <2>3. ~guessed => \A p \in DOMAIN card :
                      p \in 1 .. Buffer /\ (p \in flawed' \/ image'[p] = card[p])
    BY <1>1, <1>2, <1>4, <1>6 DEF CopyInv, CopyOK
  <2>4. FinishedMeansCopied'
    BY <1>1, <1>2, <1>3, <2>3 DEF FinishedMeansCopied
  <2>5. LoadOK'
    <3> SUFFICES ASSUME ~guessed, flawed' = {}, Whole(card), NEW p \in 1 .. Buffer,
                        p <= Length[image'[1]]
                 PROVE  image'[p] = image'[1]
      BY <1>6 DEF LoadOK
    <3>1. 1 \in DOMAIN card /\ image'[1] = card[1]
      BY <1>1, <2>3
    <3>2. card[1] \in Saves
      BY <1>1 DEF Whole, Content
    <3>3. Length[card[1]] \in Nat
      BY <3>2, Constants
    <3>4. p \in 1 .. Least(Buffer, Length[card[1]])
      BY <1>2, <3>1, <3>3 DEF Least
    <3>5. p \in DOMAIN card /\ card[p] = card[1]
      BY <3>4 DEF Whole
    <3> QED
      BY <2>3, <3>1, <3>5
  <2> QED
    BY <1>6, <2>1, <2>2, <2>4, <2>5 DEF Show, CopyInv, WrittenIsOneSave
<1> QED
  BY <1>5, <1>6 DEF ReadPage

LEMMA ReadFailsKeeps == ASSUME CopyInv, ReadPageFails PROVE CopyInv'
<1>1. /\ at = "read" /\ excused' /\ Show("none") /\ UNCHANGED excused
      /\ UNCHANGED <<card, file, before, guessed, flawed>>
  BY DEF ReadPageFails, AfterBadPage, CopyInv, CopyOK
<1>2. image' \in [1 .. Buffer -> Content]
  <2>1. i \in 1 .. Buffer /\ image \in [1 .. Buffer -> Content]
    BY <1>1, Constants DEF CopyInv, TypeOK
  <2>2. image[i] \in Content /\ Blank \in Content
    BY <2>1 DEF Content
  <2>3. Arrives(image[i]) \/ Arrives(Blank)
    BY DEF ReadPageFails
  <2> QED
    BY <2>1, <2>2, <2>3, ArrivesEffect
<1>3. TypeOK'
  BY <1>1, <1>2 DEF Show, CopyInv, TypeOK
<1>4. LoadOK'
  BY <1>1 DEF LoadOK
<1> QED
  BY <1>1, <1>3, <1>4, Quiet DEF Show

LEMMA StartWritingKeeps == ASSUME CopyInv, StartWriting PROVE CopyInv'
<1>1. PICK n \in CardSizes :
        /\ guessed' = (n # Len(card))
        /\ \/ InBuffer /\ ImagePages = n /\ Start("erase", ImagePages)
           \/ Show("none")
  BY DEF StartWriting, Attempt, RightSize
<1>2. PICK k \in Sizes : /\ k \in Nat \ {0} /\ card \in [1 .. k -> Content]
                         /\ Len(card) = k /\ DOMAIN card = 1 .. k
  BY CardPages DEF CopyInv
<1>3. n \in Nat \ {0} /\ Buffer \in Nat \ {0}
  BY <1>1, <1>2, Constants DEF CardSizes
<1>4. /\ at = "idle" /\ UNCHANGED <<image, card, file, before, excused>>
      /\ guessed' \in BOOLEAN /\ flawed' = {}
  BY <1>1 DEF StartWriting, Attempt
<1>5. CASE InBuffer /\ ImagePages = n /\ Start("erase", ImagePages)
  <2>1. TypeOK'
    <3>1. CopiesTyped'
      BY <1>4, Types DEF CopyInv, CopiesTyped
    <3>2. StepTyped'
      BY <1>3, <1>4, <1>5, Types DEF InBuffer, Start, CopyInv, StepTyped
    <3> QED
      BY <3>1, <3>2, Types, PTL
  <2>2. CopyOK'
    BY <1>1, <1>2, <1>4, <1>5
    DEF InBuffer, HasSuperblock, ImagePages, Start, CopyOK, Writing
  <2> QED
    BY <1>4, <1>5, <2>1, <2>2
    DEF Start, CopyInv, LoadOK, FinishedMeansCopied, WrittenIsOneSave
<1>6. CASE Show("none")
  <2>1. TypeOK' /\ LoadOK'
    BY <1>4, <1>6 DEF Show, CopyInv, TypeOK, LoadOK
  <2> QED
    BY <1>6, <2>1, Quiet DEF Show
<1> QED
  BY <1>1, <1>5, <1>6

(* What is on the card while it is written keeps its type.                 *)
LEMMA ErasedPages ==
  ASSUME NEW n \in Sizes, card \in [1 .. n -> Content]
  PROVE  Erased \in [1 .. n -> Content]
<1>1. DOMAIN card = 1 .. n
  OBVIOUS
<1>2. ASSUME NEW p \in 1 .. n
      PROVE  (IF BlockOf(p) = BlockOf(i) THEN Blank ELSE card[p]) \in Content
  BY DEF Content
<1> QED
  BY <1>1, <1>2 DEF Erased

LEMMA EraseCopies == ASSUME CopyInv, Erase PROVE CopyInv'
<1>1. PICK n \in Sizes : card \in [1 .. n -> Content] /\ before \in [1 .. n -> Content]
  BY DEF CopyInv, TypeOK
<1>2. card' \in [1 .. n -> Content] /\ DOMAIN card' = DOMAIN card
  BY <1>1, ErasedPages DEF Erase
<1>3. /\ at = "erase" /\ at' = "write"
      /\ UNCHANGED <<image, file, i, count, shown, before, guessed, flawed, excused>>
  BY DEF Erase
<1>4. TypeOK'
  BY <1>1, <1>2, <1>3 DEF CopyInv, TypeOK
<1>5. CopyOK' /\ shown = "none"
  BY <1>2, <1>3 DEF CopyInv, TypeOK, CopyOK, Writing
<1> QED
  BY <1>3, <1>4, <1>5 DEF CopyInv, LoadOK, FinishedMeansCopied, WrittenIsOneSave

LEMMA WriteCopies == ASSUME ImageInv, CopyInv, WritePage PROVE CopyInv'
<1>1. PICK n \in Sizes : card \in [1 .. n -> Content] /\ before \in [1 .. n -> Content]
  BY DEF CopyInv, TypeOK
<1>2. /\ at = "write" /\ i \in 1 .. n /\ UNCHANGED <<image, file, guessed, excused>>
      /\ image \in [1 .. Buffer -> Content] /\ Buffer \in Nat \ {0} /\ n \in Nat \ {0}
      /\ i \in 1 .. count /\ count \in 1 .. Buffer
  BY <1>1, Constants DEF WritePage, CopyInv, TypeOK
<1>3. /\ card' \in [1 .. n -> Content] /\ DOMAIN card' = DOMAIN card
      /\ DOMAIN card = 1 .. n
      /\ i \in flawed' \/ card'[i] = image[i]
      /\ \A p \in 1 .. n : p # i => card'[p] = card[p]
      /\ flawed' \in {flawed, flawed \cup {i}} /\ flawed' \subseteq 1 .. Buffer
  <2>1. /\ i \in 1 .. Buffer /\ image[i] \in Content /\ Blank \in Content
        /\ flawed \subseteq 1 .. Buffer
    BY <1>2 DEF Content, CopyInv, TypeOK
  <2>2. \/ Holds(image[i]) /\ flawed' \in {flawed, flawed \cup {i}}
        \/ Holds(Blank) /\ flawed' = flawed \cup {i}
    BY DEF WritePage
  <2> QED BY <1>1, <1>2, <2>1, <2>2 DEF Holds
<1>4. LoadOK'
  BY <1>2 DEF CopyInv, LoadOK
<1>5. CASE i = count
  <2>1. Show("written") /\ before' = card'
    BY <1>5 DEF WritePage, Show, Since
  <2>2. TypeOK'
    BY <1>1, <1>2, <1>3, <2>1 DEF Show, CopyInv, TypeOK
  <2>3. CopyOK'
    BY <2>1 DEF Show, CopyOK, Writing
  <2>4. \A p \in 1 .. n : p < i => p \in flawed \/ card[p] = image[p]
    BY <1>2, <1>3, Zenon DEF ImageInv, WriteOK, Writing
  <2>5. ~guessed => n = count
    BY <1>2, <1>3 DEF CopyInv, CopyOK
  <2>6. ~guessed => \A p \in 1 .. n : p <= Buffer /\ (p \in flawed' \/ card'[p] = image[p])
    BY <1>2, <1>3, <1>5, <2>4, <2>5
  <2>7. FinishedMeansCopied'
    BY <1>2, <1>3, <2>6 DEF FinishedMeansCopied
  <2>8. WrittenIsOneSave'
    <3> SUFFICES ASSUME ~excused, ~guessed, flawed' = {}, NEW p \in 1 .. n
                 PROVE  card'[p] = card'[1]
      BY <1>2, <1>3 DEF WrittenIsOneSave
    <3>1. image[1] # Blank /\ count = Length[image[1]]
      BY <1>2 DEF CopyInv, CopyOK, Writing
    <3>2. image[p] = image[1]
      BY <1>2, <2>5, <3>1 DEF CopyInv, LoadOK
    <3> QED
      BY <1>2, <2>6, <3>2
  <2> QED
    BY <1>4, <2>2, <2>3, <2>7, <2>8 DEF CopyInv
<1>6. CASE i # count
  <2>1. /\ i' = i + 1 /\ at' \in {"erase", "write"} /\ before' = before
        /\ UNCHANGED <<count, shown>>
    BY <1>6 DEF WritePage, Since
  <2>2. TypeOK'
    <3>1. CopiesTyped'
      BY <1>1, <1>2, <1>3, <2>1, Types DEF CopyInv, CopiesTyped
    <3>2. StepTyped'
      BY <1>2, <1>3, <1>6, <2>1, Types DEF CopyInv, StepTyped
    <3> QED
      BY <3>1, <3>2, Types, PTL
  <2>3. CopyOK' /\ shown' = "none"
    BY <1>2, <1>3, <2>1 DEF CopyInv, TypeOK, CopyOK, Writing
  <2> QED
    BY <1>4, <2>2, <2>3 DEF CopyInv, FinishedMeansCopied, WrittenIsOneSave
<1> QED
  BY <1>5, <1>6

LEMMA WriteFailsCopies == ASSUME CopyInv, WriteFails PROVE CopyInv'
<1>1. PICK n \in Sizes : card \in [1 .. n -> Content] /\ before \in [1 .. n -> Content]
  BY DEF CopyInv, TypeOK
<1>2. Show("none") /\ before' = card' /\ UNCHANGED <<image, file, guessed, flawed, excused>>
  BY DEF WriteFails, AfterBadBlock, Show, Since
<1>3. card' \in [1 .. n -> Content]
  <2>1. Blank \in Content
    BY DEF Content
  <2>2. card' \in {card, Erased} \/ \E p \in {i} \cap DOMAIN card : card' = [card EXCEPT ![p] = Blank]
    BY DEF WriteFails
  <2> QED
    BY <1>1, <2>1, <2>2, ErasedPages
<1>4. TypeOK'
  BY <1>1, <1>2, <1>3 DEF Show, CopyInv, TypeOK
<1>5. LoadOK'
  BY <1>2 DEF CopyInv, LoadOK
<1> QED
  BY <1>2, <1>4, <1>5, Quiet DEF Show

LEMMA CopyStep == ASSUME ImageInv, CopyInv, [Next]_vars PROVE CopyInv'
<1>1. CASE ReadFromFile
  BY <1>1, LoadKeeps
<1>2. CASE WriteToFile
  BY <1>2, SaveKeeps
<1>3. CASE NoCardInfo
  <2>1. TypeOK' /\ LoadOK' /\ at' = "idle" /\ shown' = "none"
    BY <1>3 DEF NoCardInfo, Attempt, Show, CopyInv, TypeOK, LoadOK
  <2> QED
    BY <2>1, Quiet
<1>4. CASE StartReading
  BY <1>4, StartReadingKeeps
<1>5. CASE ReadPage
  BY <1>5, ReadPageKeeps
<1>6. CASE ReadPageFails
  BY <1>6, ReadFailsKeeps
<1>7. CASE StartWriting
  BY <1>7, StartWritingKeeps
<1>8. CASE Erase
  BY <1>8, EraseCopies
<1>9. CASE WritePage
  BY <1>9, WriteCopies
<1>10. CASE WriteFails
  BY <1>10, WriteFailsCopies
<1>11. CASE Exchange
  <2>1. \E n \in Sizes : card' \in [1 .. n -> Content] /\ before' \in [1 .. n -> Content]
    BY <1>11, FullIsPages DEF Exchange
  <2>2. TypeOK' /\ LoadOK' /\ at' = "idle" /\ shown' = "none"
    BY <1>11, <2>1 DEF Exchange, CopyInv, TypeOK, LoadOK
  <2> QED
    BY <2>2, Quiet
<1>12. CASE ChooseFile
  <2>1. \E n \in {0, PerBlock} \cup Sizes \cup 1 .. Buffer : file' \in [1 .. n -> Content]
    <3>1. PICK s \in Saves : \E n \in {Length[s], PerBlock} : file' = [p \in 1 .. n |-> s]
      BY <1>12 DEF ChooseFile
    <3>2. PICK n \in {Length[s], PerBlock} : file' = [p \in 1 .. n |-> s]
      BY <3>1
    <3>3. n \in {0, PerBlock} \cup Sizes
      BY Constants
    <3>4. file' \in [1 .. n -> Content]
      BY <3>2 DEF Content
    <3> QED
      BY <3>3, <3>4
  <2>2. TypeOK'
    BY <1>12, <2>1 DEF ChooseFile, CopyInv, TypeOK
  <2> QED
    BY <1>12, <2>2 DEF ChooseFile, CopyInv, CopyOK, LoadOK, Writing,
                       FinishedMeansCopied, WrittenIsOneSave
<1>13. CASE Restart
  <2>1. image' = [p \in 1 .. Buffer |-> Blank] /\ image'[1] = Blank
    BY <1>13, Constants DEF Restart
  <2>2. TypeOK'
    BY <1>13, <2>1 DEF Restart, CopyInv, TypeOK, Content
  <2>3. LoadOK' /\ at' = "idle" /\ shown' = "none"
    BY <1>13, <2>1 DEF Restart, LoadOK
  <2> QED
    BY <2>2, <2>3, Quiet
<1>14. CASE UNCHANGED vars
  BY <1>14 DEF vars, CopyInv, TypeOK, CopyOK, LoadOK, Writing, FinishedMeansCopied,
               WrittenIsOneSave
<1> QED
  BY <1>1, <1>2, <1>3, <1>4, <1>5, <1>6, <1>7, <1>8, <1>9, <1>10, <1>11, <1>12,
     <1>13, <1>14
  DEF Next
-----------------------------------------------------------------------------
(* At every page of a transfer, however it was begun and whatever failed   *)
(* before, the card is the image up to that page, but for the pages not    *)
(* copied exactly, and its old self behind its block.                      *)
THEOREM ImageInvHolds == Spec => []ImageInv
BY InitInv, ImageStep, PTL DEF Spec

(* A write that stops leaves no gap: whole blocks of the image in front,   *)
(* the old card behind.                                                    *)
THEOREM FailuresAreConfined == Spec => []FailureIsConfined
<1>1. ImageInv => FailureIsConfined
  BY Zenon DEF ImageInv, WriteOK, Writing, FailureIsConfined
<1> QED
  BY <1>1, ImageInvHolds, PTL

(* What the transfers have copied, from the first page to the one they are *)
(* at, and what the image holds; by the invariant above.                   *)
THEOREM CopyInvHolds == Spec => []CopyInv
<1>1. ImageInv /\ CopyInv /\ [Next]_vars => CopyInv'
  BY CopyStep
<1> QED
  BY <1>1, CopyInit, ImageInvHolds, PTL DEF Spec

(* Pages stay in byteMemDat, and the sizes are those of cards.             *)
THEOREM PagesStayInTheBuffer == Spec => []TypeOK
<1>1. CopyInv => TypeOK
  BY DEF CopyInv
<1> QED
  BY <1>1, CopyInvHolds, PTL

(* A transfer that says it finished has made image and card the same, page *)
(* by page, but for the pages that mcio passed off as copied               *)
(* (AnthonyPS2/Anthony.cpp:398-471, 540-640, mcio.cpp:286, 653-657).       *)
THEOREM FinishedIsCopied == Spec => []FinishedMeansCopied
<1>1. CopyInv => FinishedMeansCopied
  BY DEF CopyInv
<1> QED
  BY <1>1, CopyInvHolds, PTL

(* A card written without an error holds one save, unless something that   *)
(* the user was told of, sizes never set or a page passed off as copied    *)
(* came before.                                                            *)
THEOREM OneSaveIsWritten == Spec => []WrittenIsOneSave
<1>1. CopyInv => WrittenIsOneSave
  BY DEF CopyInv
<1> QED
  BY <1>1, CopyInvHolds, PTL
-----------------------------------------------------------------------------
(***************************************************************************)
(* Dialog and threads.                                                     *)
(***************************************************************************)

NoneBusy == \A t \in Threads : ~Busy(t)

(* The flag is the lock: while it is reset no thread is busy, ...          *)
FlagOK == ~isThreadRunning => NoneBusy

(* ... and while the dialog creates a thread only that one may be there.   *)
(* It cannot get past its first EnableWindow before hThread is assigned.   *)
CreatingOK ==
  /\ ui \in {"create", "failed"} => NoneBusy
  /\ ui \in {"create", "store", "failed"} => isThreadRunning
  /\ ui = "store" => \A t \in Threads : Busy(t) => t = created /\ pc[t] = "disable"

(* Nobody is left to enable buttons, or has enabled them all.              *)
ButtonsOK ==
  /\ NoneBusy => enabled = Buttons
  /\ ui \in {"create", "store", "failed"} => enabled = Buttons
  /\ \A t \in Threads : pc[t] = "report" => enabled = Buttons

ThreadInv == ThreadTypes /\ OneOperationAtATime /\ FlagOK /\ CreatingOK /\ ButtonsOK

LEMMA InitThreadInv == ThreadInit => ThreadInv
BY DEF ThreadInit, ThreadInv, ThreadTypes, OneOperationAtATime, FlagOK, CreatingOK, ButtonsOK,
       NoneBusy, Busy, Steps

-----------------------------------------------------------------------------
(* The dialog                                                              *)

LEMMA PressInv == ASSUME ThreadInv, Press PROVE ThreadInv'
<1>1. NoneBusy
  BY DEF Press, MayStart, ThreadInv, FlagOK
<1> QED
  BY <1>1
  DEF Press, ThreadInv, ThreadTypes, OneOperationAtATime, FlagOK, CreatingOK, ButtonsOK,
      NoneBusy, Busy, handles

LEMMA CreateInv == ASSUME ThreadInv, NEW t \in Threads, Create(t) PROVE ThreadInv'
<1>1. NoneBusy /\ isThreadRunning /\ enabled = Buttons
  BY DEF Create, ThreadInv, CreatingOK, ButtonsOK
<1>2. /\ pc' \in [Threads -> Steps] /\ pc'[t] = "disable"
      /\ \A s \in Threads : s # t => pc'[s] = pc[s]
  BY DEF Create, ThreadInv, ThreadTypes, Steps
<1>3. \A s \in Threads : Busy(s)' => s = t
  BY <1>1, <1>2 DEF NoneBusy, Busy
<1>4. ThreadTypes'
  BY <1>2 DEF Create, ThreadInv, ThreadTypes, handles
<1>5. OneOperationAtATime' /\ FlagOK' /\ CreatingOK'
  BY <1>1, <1>2, <1>3
  DEF Create, OneOperationAtATime, FlagOK, CreatingOK
<1>6. ButtonsOK'
  BY <1>1 DEF Create, ButtonsOK
<1> QED
  BY <1>4, <1>5, <1>6 DEF ThreadInv

(* A step of the dialog in which no thread moves.                          *)
LEMMA DialogInv ==
  ASSUME ThreadInv, CreateFails \/ Store \/ Failed \/ Exit PROVE ThreadInv'
<1>1. pc' = pc /\ enabled' = enabled
  BY DEF CreateFails, Store, Failed, Exit
<1>2. (\A t \in Threads : Busy(t)' = Busy(t)) /\ NoneBusy' = NoneBusy
  BY <1>1 DEF NoneBusy, Busy
<1>3. ThreadTypes'
  BY DEF CreateFails, Store, Failed, Exit, AfterFailure, ThreadInv, ThreadTypes, handles
<1>4. OneOperationAtATime'
  BY <1>2 DEF ThreadInv, OneOperationAtATime
<1>5. ui \in {"create", "failed"} => NoneBusy
  BY DEF ThreadInv, CreatingOK
<1>6. FlagOK' /\ CreatingOK'
  <2>1. CASE CreateFails
    BY <1>2, <1>5, <2>1 DEF CreateFails, ThreadInv, FlagOK, CreatingOK, NoneBusy
  <2>2. CASE Store
    <3>1. created = NoThread => NoneBusy
      BY <2>2, ThreadAssumption DEF Store, ThreadInv, CreatingOK, NoneBusy
    <3> QED
      BY <1>2, <2>2, <3>1 DEF Store, ThreadInv, FlagOK, CreatingOK
  <2>3. CASE Failed
    BY <1>2, <1>5, <2>3 DEF Failed, FlagOK, CreatingOK
  <2>4. CASE Exit
    BY <1>2, <2>4 DEF Exit, ThreadInv, FlagOK, CreatingOK
  <2> QED
    BY <2>1, <2>2, <2>3, <2>4
<1>7. ButtonsOK'
  BY <1>1, <1>2 DEF CreateFails, Store, Failed, Exit, ThreadInv, ButtonsOK
<1> QED
  BY <1>3, <1>4, <1>6, <1>7 DEF ThreadInv
-----------------------------------------------------------------------------
(* The threads                                                             *)

(* A busy thread that moves on stays the only one.                         *)
LEMMA BusyInv ==
  ASSUME ThreadInv, NEW t \in Threads,
         DisableOne(t) \/ Begin(t) \/ Finish(t) \/ EnableOne(t) \/ Enabled(t)
  PROVE  ThreadInv'
<1>1. /\ Busy(t) /\ \A s \in Threads : Busy(s) => s = t
      /\ isThreadRunning
  <2>1. Busy(t)
    BY DEF DisableOne, Begin, Finish, EnableOne, Enabled, At, Busy
  <2> QED
    BY <2>1 DEF ThreadInv, OneOperationAtATime, FlagOK, NoneBusy
<1>2. ui = "loop"
  <2>1. ui \notin {"create", "failed"}
    BY <1>1 DEF ThreadInv, CreatingOK, NoneBusy
  <2>2. ui = "store" => pc[t] = "disable" /\ enabled = Buttons
    BY <1>1 DEF ThreadInv, CreatingOK, ButtonsOK
  <2>3. ui # "exited"
    BY DEF DisableOne, Begin, Finish, EnableOne, Enabled, At
  <2>4. ui # "store"
    BY <2>2, ThreadAssumption
    DEF DisableOne, Begin, Finish, EnableOne, Enabled, At
  <2> QED
    BY <2>1, <2>3, <2>4 DEF ThreadInv, ThreadTypes
<1>3. /\ \A s \in Threads : s # t => pc'[s] = pc[s]
      /\ pc' \in [Threads -> Steps]
      /\ pc'[t] \in {"disable", "work", "enable", "report"}
      /\ UNCHANGED <<isThreadRunning, ui, created, handles>>
      /\ enabled' \subseteq Buttons
  BY DEF DisableOne, Begin, Finish, EnableOne, Enabled, At, dialog, ThreadInv,
         ThreadTypes, Steps
<1>4. Busy(t)' /\ \A s \in Threads : Busy(s)' => s = t
  BY <1>1, <1>3 DEF Busy
<1>5. pc'[t] = "report" => enabled' = Buttons
  BY DEF DisableOne, Begin, Finish, EnableOne, Enabled, AllEnabled, At, dialog,
         ThreadInv, ThreadTypes
<1>6. ThreadTypes'
  BY <1>3 DEF ThreadInv, ThreadTypes, handles
<1>7. OneOperationAtATime' /\ FlagOK' /\ CreatingOK'
  BY <1>1, <1>2, <1>3, <1>4
  DEF OneOperationAtATime, FlagOK, CreatingOK
<1>8. ButtonsOK'
  <2>1. \A s \in Threads : pc'[s] = "report" => s = t
    BY <1>4 DEF Busy
  <2> QED
    BY <1>2, <1>3, <1>4, <1>5, <2>1 DEF ButtonsOK, NoneBusy
<1> QED
  BY <1>6, <1>7, <1>8 DEF ThreadInv

LEMMA ReportInv == ASSUME ThreadInv, NEW t \in Threads, Report(t) PROVE ThreadInv'
<1>1. Busy(t) /\ \A s \in Threads : Busy(s) => s = t
  BY DEF Report, At, Busy, ThreadInv, OneOperationAtATime
<1>2. ui = "loop" /\ enabled = Buttons
  BY <1>1
  DEF Report, At, ThreadInv, ThreadTypes, CreatingOK, ButtonsOK, NoneBusy
<1>3. /\ \A s \in Threads : s # t => pc'[s] = pc[s]
      /\ pc' \in [Threads -> Steps] /\ pc'[t] = "wait"
  BY DEF Report, At, ThreadInv, ThreadTypes, Steps
<1>4. NoneBusy'
  BY <1>1, <1>3 DEF NoneBusy, Busy
<1>5. ThreadTypes'
  BY <1>3 DEF Report, ThreadInv, ThreadTypes, handles
<1> QED
  BY <1>2, <1>4, <1>5
  DEF Report, ThreadInv, OneOperationAtATime, FlagOK, CreatingOK, ButtonsOK, NoneBusy

(* What is left of a thread that has reported touches handles only.        *)
LEMMA AfterReportInv ==
  ASSUME ThreadInv, NEW t \in Threads, Wait(t) \/ Resume(t) \/ Close(t) \/ Forget(t)
  PROVE  ThreadInv'
<1>1. /\ \A s \in Threads : s # t => pc'[s] = pc[s]
      /\ pc' \in [Threads -> Steps]
      /\ pc'[t] \in {"waiting", "close", "forget", "ended"}
      /\ pc[t] \in {"wait", "waiting", "close", "forget"}
      /\ UNCHANGED dialog
  BY DEF Wait, Resume, Close, Forget, At, ThreadInv, ThreadTypes, Steps
<1>2. (\A s \in Threads : Busy(s)' = Busy(s)) /\ NoneBusy' = NoneBusy
  <2>1. \A s \in Threads : Busy(s)' = Busy(s)
    BY <1>1 DEF Busy
  <2> QED
    BY <2>1 DEF NoneBusy
<1>3. hThread' \in Threads \cup {NoThread} /\ closed' \subseteq Threads
      /\ target' \in [Threads -> Threads \cup {NoThread}]
  BY DEF Wait, Resume, Close, ToClose, Forget, handles, ThreadInv, ThreadTypes
<1>4. ThreadTypes'
  BY <1>1, <1>3 DEF dialog, ThreadInv, ThreadTypes
<1>5. OneOperationAtATime' /\ FlagOK'
  BY <1>1, <1>2 DEF dialog, ThreadInv, OneOperationAtATime, FlagOK
<1>6. CreatingOK'
  BY <1>1, <1>2 DEF dialog, ThreadInv, CreatingOK, Busy
<1>7. ButtonsOK'
  BY <1>1, <1>2 DEF dialog, ThreadInv, ButtonsOK
<1> QED
  BY <1>4, <1>5, <1>6, <1>7 DEF ThreadInv

LEMMA NextThreadInv == ThreadInv /\ [ThreadNext]_threadVars => ThreadInv'
<1> SUFFICES ASSUME ThreadInv, [ThreadNext]_threadVars PROVE ThreadInv'
  OBVIOUS
<1>1. CASE UNCHANGED threadVars
  BY <1>1
  DEF threadVars, dialog, handles, ThreadInv, ThreadTypes, OneOperationAtATime, FlagOK,
      CreatingOK, ButtonsOK, NoneBusy, Busy
<1>2. CASE Press \/ Exit \/ Dialog
  BY <1>2, PressInv, CreateInv, DialogInv DEF Dialog
<1>3. CASE \E t \in Threads : Worker(t)
  BY <1>3, BusyInv, ReportInv, AfterReportInv DEF Worker
<1> QED
  BY <1>1, <1>2, <1>3 DEF ThreadNext
-----------------------------------------------------------------------------
(* The strengthened invariant holds in every state.                        *)
THEOREM ThreadInvHolds == ThreadSpec => []ThreadInv
BY InitThreadInv, NextThreadInv, PTL DEF ThreadSpec

(* The variables keep their types, however many threads wait.              *)
THEOREM ThreadTypesHold == ThreadSpec => []ThreadTypes
<1>1. ThreadInv => ThreadTypes
  BY DEF ThreadInv
<1> QED
  BY <1>1, ThreadInvHolds, PTL

(* One operation at a time works on byteMemDat and the device, although    *)
(* isThreadRunning is tested and set without a lock                        *)
(* (AnthonyPS2/Anthony.cpp:196-254).                                       *)
THEOREM OperationsExcludeEachOther == ThreadSpec => []OneOperationAtATime
<1>1. ThreadInv => OneOperationAtATime
  BY DEF ThreadInv
<1> QED
  BY <1>1, ThreadInvHolds, PTL

(* Disabled buttons are always going to be enabled by somebody.            *)
THEOREM DisabledButtonsHaveAThread == ThreadSpec => []DisabledMeansRunning
<1>1. ThreadInv => DisabledMeansRunning
  BY DEF ThreadInv, ButtonsOK, NoneBusy, Busy, DisabledMeansRunning
<1> QED
  BY <1>1, ThreadInvHolds, PTL
-----------------------------------------------------------------------------
(***************************************************************************)
(* Frame transfer.                                                         *)
(***************************************************************************)

(* What the loop of WriteToCard has done and not yet done.                 *)
Progress ==
  /\ finished => loop = "idle"
  /\ loop = "write" => memDat = old.image
  /\ WrittenUnlessRefused

(* The frames ahead have not been answered.                                *)
Ahead == loop # "idle" => \A n \in Frame : n >= frame => answers[n] = Pending

FrameInv == FrameTypes /\ FramesInPlace /\ Ahead /\ Progress

LEMMA FullIsContent ==
  \A s \in Owners :
    FramesOf(s) \in [Frame -> FrameContent]
BY DEF FramesOf, FrameContent

LEMMA InitFrameInv == FrameInit => FrameInv
<1> SUFFICES ASSUME FrameInit PROVE FrameInv
  OBVIOUS
<1>1. /\ memDat \in [Frame -> FrameContent] /\ cardFrames \in [Frame -> FrameContent]
  BY FullIsContent DEF FrameInit
<1>2. 0 \in Frame /\ NoFrame \in FrameContent
  BY FramesAssumption DEF Frame, FrameContent
<1>3. NoReply \in [header : BOOLEAN, data : FrameContent]
  BY <1>2 DEF NoReply
<1>4. NoAnswers \in [Frame -> Answers \cup {Pending}]
  BY DEF NoAnswers
<1>5. FrameTypes
  BY <1>1, <1>2, <1>3, <1>4 DEF FrameInit, FrameTypes
<1> QED
  BY <1>1, <1>5
  DEF FrameInit, FrameInv, FramesInPlace, Ahead, Progress, WrittenUnlessRefused

LEMMA StartInv ==
  ASSUME FrameInv, StartReadFromCard \/ StartWriteToCard PROVE FrameInv'
<1>1. PICK which \in {"read", "write"} : StartLoop(which)
  BY DEF StartReadFromCard, StartWriteToCard
<1>2. 0 \in Frame /\ NoFrame \in FrameContent
  BY FramesAssumption DEF Frame, FrameContent
<1>3. NoReply \in [header : BOOLEAN, data : FrameContent]
  BY <1>2 DEF NoReply
<1>4. NoAnswers \in [Frame -> Answers \cup {Pending}]
  BY DEF NoAnswers
<1>5. FrameTypes'
  BY <1>1, <1>2, <1>3, <1>4 DEF StartLoop, FrameInv, FrameTypes
<1>6. FramesInPlace'
  BY <1>1 DEF StartLoop, FramesInPlace
<1>8. Ahead'
  BY <1>1 DEF StartLoop, Ahead, NoAnswers, Frame
<1>7. Progress'
  BY <1>1 DEF StartLoop, FrameInv, Progress, WrittenUnlessRefused, Frame
<1> QED
  BY <1>5, <1>6, <1>7, <1>8 DEF FrameInv

LEMMA AheadStays ==
  ASSUME FrameInv, loop # "idle", NEW answer \in Answers,
         answers' = [answers EXCEPT ![frame] = answer],
         NEW m \in BOOLEAN, Advance(m) \/ Stop(m)
  PROVE  Ahead'
<1>1. frame \in Frame /\ answers \in [Frame -> Answers \cup {Pending}]
  BY DEF FrameInv, FrameTypes
<1>2. CASE loop' = "idle"
  BY <1>2 DEF Ahead
<1>3. CASE loop' # "idle"
  <2>1. frame' = frame + 1
    BY <1>3 DEF Advance, Stop
  <2>2. \A n \in Frame : n >= frame + 1 => n # frame /\ n >= frame
    BY <1>1 DEF Frame
  <2> QED BY <1>1, <2>1, <2>2 DEF FrameInv, Ahead
<1> QED BY <1>2, <1>3

LEMMA ReadFrameInv ==
  ASSUME FrameInv, NEW answer \in Answers, ReadFrame(answer) PROVE FrameInv'
<1>1. answer \in {"good", "bad", "none", "short", "late"}
  BY FramesAssumption
<1>2. /\ InData' \in [header : BOOLEAN, data : FrameContent]
      /\ answer \in {"good", "bad"} => InData'.data = cardFrames[frame]
  <2>1. /\ InData' \in Replies(answer) /\ frame \in Frame
        /\ InData \in [header : BOOLEAN, data : FrameContent]
        /\ \A n \in Frame : cardFrames[n] \in FrameContent
    BY DEF ReadFrame, FrameInv, FrameTypes
  <2>2. NoFrame \in FrameContent
    BY DEF FrameContent
  <2> QED BY <1>1, <2>1, <2>2 DEF Replies
<1>3. /\ memDat' \in [Frame -> FrameContent]
      /\ \A n \in Frame : n # frame => memDat'[n] = memDat[n]
      /\ memDat'[frame] \in {memDat[frame], cardFrames[frame]} \/ answer \in {"short", "late"}
  BY <1>1, <1>2 DEF ReadFrame, Stored, FrameInv, FrameTypes
<1>4. /\ frame' \in Frame /\ loop' \in {"idle", "read"} /\ finished' = FALSE
  BY FramesAssumption
  DEF ReadFrame, Advance, Stop, Frame, FrameInv, FrameTypes, Progress
<1>5. FrameTypes'
  BY <1>2, <1>3, <1>4 DEF ReadFrame, FrameInv, FrameTypes
<1>6. FramesInPlace'
  <2>1. /\ frame \in Frame /\ UNCHANGED <<cardFrames, old>>
        /\ \A n \in Frame : answers'[n] = IF n = frame THEN answer ELSE answers[n]
        /\ loop = "read"
    BY DEF ReadFrame, FrameInv, FrameTypes
  <2>2. answers[frame] = Pending
    BY <2>1 DEF FrameInv, Ahead, Frame
  <2>3. memDat[frame] \in {old.image[frame], cardFrames[frame]}
    BY <2>1, <2>2 DEF FrameInv, FramesInPlace, Pending
  <2>4. ASSUME NEW n \in Frame
        PROVE  memDat'[n] \in {old.image[n], cardFrames[n]} \/ answers'[n] \in {"short", "late"}
    BY <1>3, <2>1, <2>3 DEF FrameInv, FramesInPlace
  <2> QED BY <2>1, <2>4 DEF FramesInPlace
<1>7. Progress'
  BY <1>4 DEF Progress, WrittenUnlessRefused
<1>8. Ahead'
  BY AheadStays DEF ReadFrame
<1> QED
  BY <1>5, <1>6, <1>7, <1>8 DEF FrameInv

LEMMA WriteFrameInv ==
  ASSUME FrameInv, NEW answer \in Answers, WriteFrame(answer) PROVE FrameInv'
<1>1. answer \in {"good", "bad", "none", "short", "late"}
  BY FramesAssumption
<1>2. /\ cardFrames' \in [Frame -> FrameContent]
      /\ \A n \in Frame : n # frame => cardFrames'[n] = cardFrames[n]
      /\ cardFrames'[frame] \in {cardFrames[frame], memDat[frame]}
      /\ answer = "good" => cardFrames'[frame] = memDat[frame]
  BY DEF WriteFrame, FrameInv, FrameTypes
<1>3. /\ answers' \in [Frame -> Answers \cup {Pending}]
      /\ \A n \in Frame : n # frame => answers'[n] = answers[n]
      /\ answers'[frame] = answer
  BY DEF WriteFrame, FrameInv, FrameTypes
<1>4. /\ loop = "write" /\ frame \in Frame /\ frame' \in Frame
      /\ \/ loop' = "idle" /\ finished' = FALSE
         \/ /\ loop' = "idle" /\ finished' = TRUE
            /\ frame = Frames - 1 /\ ~GivesUp(answer)
         \/ /\ loop' = "write" /\ finished' = FALSE
            /\ frame' = frame + 1 /\ ~GivesUp(answer)
  <2>1. loop = "write" /\ frame \in Frame /\ finished = FALSE
    BY DEF WriteFrame, FrameInv, FrameTypes, Progress
  <2>2. 0 \in Frame /\ (frame # Frames - 1 => frame + 1 \in Frame)
    BY <2>1, FramesAssumption DEF Frame
  <2>3. CASE GivesUp(answer)
    BY <2>1, <2>2, <2>3 DEF WriteFrame, Stop
  <2>4. CASE ~GivesUp(answer)
    BY <2>1, <2>2, <2>4 DEF WriteFrame, Advance, Stop
  <2> QED
    BY <2>3, <2>4
<1>5. FrameTypes'
  BY <1>2, <1>3, <1>4 DEF WriteFrame, FrameInv, FrameTypes
<1>6. FramesInPlace'
  <2>1. loop = "write" /\ memDat' = memDat /\ old' = old
    BY DEF WriteFrame
  <2>2. \A n \in Frame : memDat[n] = old.image[n]
    BY <2>1 DEF FrameInv, Progress
  <2> QED BY <2>1, <2>2 DEF FramesInPlace
<1>8. Ahead'
  BY AheadStays DEF WriteFrame
<1>7. Progress'
  <2>1. \A n \in Frame : n < frame => answers[n] \in {"bad", "late"} \/ cardFrames[n] = memDat[n]
    BY <1>4 DEF FrameInv, Progress, WrittenUnlessRefused
  <2>2. \A n \in Frame : ~(n < frame) => cardFrames[n] = old.card[n]
    BY <1>4 DEF FrameInv, Progress, WrittenUnlessRefused
  <2>3. ~GivesUp(answer) =>
          answers'[frame] \in {"bad", "late"} \/ cardFrames'[frame] = memDat[frame]
    BY <1>1, <1>2, <1>3 DEF GivesUp
  <2>4. memDat' = memDat /\ old' = old /\ memDat = old.image
    BY DEF WriteFrame, FrameInv, Progress
  <2>5. CASE loop' = "idle" /\ ~finished'
    BY <2>5 DEF Progress, WrittenUnlessRefused
  <2>6. CASE loop' = "idle" /\ finished'
    <3>1. frame = Frames - 1 /\ ~GivesUp(answer)
      BY <1>4, <2>6
    <3>2. \A n \in Frame : n < frame \/ n = frame
      BY <3>1, FramesAssumption DEF Frame
    <3> QED
      BY <1>2, <1>3, <2>1, <2>3, <2>4, <2>6, <3>1, <3>2
      DEF Progress, WrittenUnlessRefused
  <2>7. CASE loop' = "write"
    <3>1. frame' = frame + 1 /\ ~GivesUp(answer) /\ ~finished'
      BY <1>4, <2>7
    <3>2. \A n \in Frame : /\ n < frame' => n < frame \/ n = frame
                           /\ ~(n < frame') => ~(n < frame) /\ n # frame
      BY <1>4, <3>1, FramesAssumption DEF Frame
    <3> QED
      BY <1>2, <1>3, <2>1, <2>2, <2>3, <2>4, <2>7, <3>1, <3>2
      DEF Progress, WrittenUnlessRefused
  <2> QED
    BY <1>4, <2>5, <2>6, <2>7
<1> QED
  BY <1>5, <1>6, <1>7, <1>8 DEF FrameInv

LEMMA ExchangeInv == ASSUME FrameInv, ExchangeCard PROVE FrameInv'
<1>1. cardFrames' \in [Frame -> FrameContent]
  BY FullIsContent DEF ExchangeCard
<1>2. NoAnswers \in [Frame -> Answers \cup {Pending}]
  BY DEF NoAnswers
<1>3. FrameTypes'
  BY <1>1, <1>2 DEF ExchangeCard, FrameInv, FrameTypes
<1> QED
  BY <1>1, <1>3
  DEF ExchangeCard, FrameInv, FramesInPlace, Ahead, Progress, WrittenUnlessRefused

LEMMA ReadFromFileInv == ASSUME FrameInv, LoadFile PROVE FrameInv'
<1>1. PICK s \in Owners, m \in Frame :
        memDat' = [f \in Frame |-> IF f <= m THEN FramesOf(s)[f] ELSE memDat[f]]
  BY DEF LoadFile
<1>2. memDat' \in [Frame -> FrameContent]
  BY <1>1, FullIsContent DEF FrameInv, FrameTypes
<1>3. NoAnswers \in [Frame -> Answers \cup {Pending}]
  BY DEF NoAnswers
<1>4. FrameTypes'
  BY <1>2, <1>3 DEF LoadFile, FrameInv, FrameTypes
<1> QED
  BY <1>2, <1>4
  DEF LoadFile, FrameInv, FramesInPlace, Ahead, Progress, WrittenUnlessRefused

LEMMA NextFrameInv == FrameInv /\ [FrameNext]_frameVars => FrameInv'
<1> SUFFICES ASSUME FrameInv, [FrameNext]_frameVars PROVE FrameInv'
  OBVIOUS
<1>1. CASE UNCHANGED frameVars
  BY <1>1
  DEF frameVars, FrameInv, FrameTypes, FramesInPlace, Ahead, Progress,
      WrittenUnlessRefused
<1> QED
  BY <1>1, StartInv, ExchangeInv, ReadFromFileInv, ReadFrameInv, WriteFrameInv
  DEF FrameNext

(* The strengthened invariant holds in every state.                        *)
THEOREM FrameInvHolds == FrameSpec => []FrameInv
BY InitFrameInv, NextFrameInv, PTL DEF FrameSpec

(* A failed read of the pipe, which leaves the reply of the frame before   *)
(* in InData, never puts a frame in another one's place; only a reply that *)
(* is short, or that to another frame, can (Anthony/Anthony.cpp:426-453).  *)
THEOREM FramesStayInPlace == FrameSpec => []FramesInPlace
<1>1. FrameInv => FramesInPlace
  BY DEF FrameInv
<1> QED
  BY <1>1, FrameInvHolds, PTL

(* Whenever WriteToCard says "Finish!", and wherever it stands before, the *)
(* frames it has passed are on the card, were refused by it or were taken  *)
(* for written because of another one's reply, and the others are          *)
(* untouched (Anthony/Anthony.cpp:541-579).                                *)
THEOREM WriteKeepsItsWord == FrameSpec => []WrittenUnlessRefused
<1>1. FrameInv => WrittenUnlessRefused
  BY DEF FrameInv, Progress
<1> QED
  BY <1>1, FrameInvHolds, PTL
-----------------------------------------------------------------------------
(***************************************************************************)
(* Page and block commands.                                                *)
(***************************************************************************)

(* How many areas of the page the exchange has passed.                     *)
Passed ==
  IF step = "start" THEN 0
  ELSE IF step = "chunk" THEN idx
  ELSE IF step = "spare" THEN Count
  ELSE Count + 1

(* The chunks of the card never hold an ECC, and its position is never     *)
(* past the exchange: it falls behind when one does not reach it.          *)
PlaceOK ==
  /\ \A k \in Chunks : cell[k] \in Cells
  /\ op \in {"write", "read"} =>
       /\ step = "chunk" => idx \in Chunks
       /\ step \in {"chunk", "spare"} => pos <= Passed
       /\ step \in {"chunk", "spare"} /\ inStep => pos = Passed

EraseOK ==
  op = "erase" =>
    /\ step \in {"start", "confirm", "poll"}
    /\ step = "confirm" => sel = "erase"
    /\ step = "poll" => cell = BlankPage

(* As long as nothing was skipped, earlier attempts have programmed parts  *)
(* of the same page, and this one all that it has passed.                  *)
Programmed(n) ==
  inStep /\ blank =>
    \A a \in Areas :
      /\ cell[a] \in {ErasedCell, PageOf(page)[a]}
      /\ a < n => cell[a] = PageOf(page)[a]

WritingOK ==
  op = "write" =>
    /\ step \in {"start", "chunk", "spare", "end"}
    /\ page \in Eccs /\ ecc = page
    /\ Programmed(Passed)

(* What arrived as the spare area is the card's.                           *)
ReadOK ==
  op = "read" =>
    /\ step \in {"start", "chunk", "spare", "end", "check"}
    /\ inStep /\ step \in {"end", "check"} => ecc = cell[Count]

(* A command in progress has not returned anything.                        *)
ResultOK == op # "idle" => result = "none"

CommandInv == CommandTypeOK /\ PlaceOK /\ EraseOK /\ WritingOK /\ ReadOK /\ ResultOK
-----------------------------------------------------------------------------
LEMMA CountFacts ==
  /\ Count \in Nat /\ Count > 0 /\ Tries \in Nat /\ Polls \in Nat /\ PageReads \in Nat
  /\ Tries > 1 /\ Polls > 0 /\ PageReads > 0
BY CommandAssumption

LEMMA PageOfFacts ==
  ASSUME NEW e \in Eccs
  PROVE  /\ PageOf(e) \in [Areas -> Cells \cup Eccs] /\ PageOf(e)[Count] = e
         /\ \A k \in Chunks : PageOf(e)[k] = e[k] /\ e[k] \in Vals
<1>1. /\ Count \in Areas
      /\ \A k \in Chunks : k \in Areas /\ k # Count
      /\ \A a \in Areas : a = Count \/ a \in Chunks
  BY CountFacts DEF Areas, Chunks
<1>2. \A k \in Chunks : e[k] \in Vals
  BY DEF Eccs
<1>3. PageOf(e) \in [Areas -> Cells \cup Eccs]
  BY <1>1, <1>2 DEF PageOf, Cells
<1> QED BY <1>1, <1>2, <1>3 DEF PageOf

LEMMA InitCommand == CommandInit => CommandInv
<1> SUFFICES ASSUME CommandInit PROVE CommandInv
  OBVIOUS
<1>1. /\ cell \in [Areas -> Cells \cup Eccs]
      /\ \A k \in Chunks : cell[k] \in Cells
  <2>1. CASE cell = BlankPage
    BY <2>1, CountFacts DEF BlankPage, Areas, Chunks, Cells
  <2>2. CASE \E e \in Eccs : cell = PageOf(e)
    BY <2>2, PageOfFacts DEF Cells
  <2> QED BY <2>1, <2>2 DEF CommandInit
<1>2. /\ page \in [Chunks -> Cells] /\ bits \in [Chunks -> 0 .. 2]
      /\ ecc \in Cells \cup Eccs /\ rot \in Rots /\ worn \in Worn
      /\ off \subseteq Chunks /\ ecres \in Results
  BY DEF CommandInit, Eccs, Cells, Results
<1>3. /\ try \in 0 .. Tries /\ idx \in 0 .. Count + Polls /\ pos \in 0 .. Count + 1
      /\ reads \in 0 .. PageReads - 1
  BY CountFacts DEF CommandInit
<1>4. CommandTypeOK
  BY <1>1, <1>2, <1>3 DEF CommandInit, CommandTypeOK
<1> QED BY <1>1, <1>4 DEF CommandInit, CommandInv, PlaceOK, EraseOK, WritingOK, ReadOK, ResultOK
-----------------------------------------------------------------------------
LEMMA CallsKeep == ASSUME CommandInv, CallErase \/ CallWrite \/ CallRead PROVE CommandInv'
<1>1. /\ op' \in {"erase", "write", "read"} /\ step' = "start" /\ try' = 1 /\ idx' = 0
      /\ result' = "none" /\ inStep' = TRUE
      /\ sel' = sel /\ pos' = pos /\ cell' = cell /\ rot' = rot /\ worn' = worn
      /\ reads' = 0 /\ ecres' = 0 /\ off' = {} /\ ecres' \in Results
      /\ reads' \in 0 .. PageReads - 1 /\ off' \subseteq Chunks
  BY CountFacts DEF CallErase, CallWrite, CallRead, Call, cardVars, Results
<1>2. CASE CallErase \/ CallRead
  <2>1. /\ page' = page /\ bits' = bits /\ ecc' = ecc /\ blank' = blank
        /\ op' # "write"
    BY <1>2 DEF CallErase, CallRead, Call
  <2>2. CommandTypeOK'
    BY <1>1, <2>1, CountFacts DEF CommandInv, CommandTypeOK
  <2> QED BY <1>1, <2>1, <2>2 DEF CommandInv, PlaceOK, EraseOK, WritingOK, ReadOK, ResultOK
<1>3. CASE CallWrite
  <2>1. /\ page' \in Eccs /\ ecc' = page' /\ bits' = [k \in Chunks |-> 0]
        /\ blank' = (cell = BlankPage)
        /\ op' = "write"
    BY <1>3 DEF CallWrite, Call
  <2>2. page' \in [Chunks -> Cells] /\ bits' \in [Chunks -> 0 .. 2]
    BY <2>1 DEF Eccs, Cells
  <2>3. CommandTypeOK'
    BY <1>1, <2>1, <2>2, CountFacts DEF CommandInv, CommandTypeOK
  <2>4. blank' => \A a \in Areas : cell'[a] = ErasedCell
    BY <1>1, <2>1 DEF BlankPage
  <2>5. Passed' = 0 /\ \A a \in Areas : ~(a < 0)
    BY <1>1, CountFacts DEF Passed, Areas
  <2>6. WritingOK'
    BY <1>1, <2>1, <2>4, <2>5 DEF WritingOK, Programmed
  <2> QED BY <1>1, <2>1, <2>3, <2>6 DEF CommandInv, PlaceOK, EraseOK, ReadOK, ResultOK
<1> QED BY <1>2, <1>3
-----------------------------------------------------------------------------
(* The control after an exchange: on with the next one, again from the     *)
(* start, or back to the caller.                                           *)
ControlTypes ==
  /\ op \in {"idle", "erase", "write", "read"}
  /\ try \in 0 .. Tries /\ idx \in 0 .. Count + Polls
  /\ result \in {"none", "succeed", "changed", "noformat", "replace"}
  /\ step \in {"start", "confirm", "poll", "chunk", "spare", "end", "check"}

LEMMA ReturnEffect ==
  ASSUME NEW r \in {"succeed", "changed", "noformat", "replace"}, Return(r)
  PROVE  ControlTypes' /\ op' = "idle" /\ result' = r
BY CountFacts DEF Return, ControlTypes

LEMMA GoOnEffect ==
  ASSUME CommandInv, NEW s \in {"confirm", "poll", "chunk", "spare", "end", "check"}, GoOn(s)
  PROVE  /\ ControlTypes' /\ op' = op /\ step' = s /\ idx' = 0 /\ result' = result
BY CountFacts DEF GoOn, ControlTypes, CommandInv, CommandTypeOK

(* Whatever Again tries when all attempts are used up, it starts again or  *)
(* does that.                                                              *)
LEMMA AgainEffect ==
  /\ CommandInv /\ Again(Return("changed")) =>
       /\ ControlTypes'
       /\ \/ op' = "idle" /\ result' = "changed"
          \/ op' = op /\ step' = "start" /\ result' = result
  /\ CommandInv /\ Again(ReplaceOrNoFormat) =>
       /\ ControlTypes'
       /\ \/ op' = "idle" /\ result' \in {"replace", "noformat"}
          \/ op' = op /\ step' = "start" /\ result' = result
  /\ CommandInv /\ InTime /\ Again(FALSE) =>
       /\ ControlTypes'
       /\ op' = op /\ step' = "start" /\ result' = result
BY CountFacts, ReturnEffect DEF Again, ReplaceOrNoFormat, InTime, ControlTypes, CommandInv, CommandTypeOK

LEMMA NextChunkEffect ==
  ASSUME CommandInv, op \in {"write", "read"}, step = "chunk", NextChunk
  PROVE  /\ ControlTypes' /\ op' = op /\ result' = result
         /\ step' \in {"chunk", "spare"}
         /\ step' = "chunk" => idx' \in Chunks
         /\ Passed' = Passed + 1 /\ Passed = idx /\ idx \in Chunks
<1>1. idx \in Chunks /\ Passed = idx
  BY DEF CommandInv, PlaceOK, Passed
<1>2. UNCHANGED <<op, try, result>> /\ ControlTypes
  BY DEF NextChunk, ControlTypes, CommandInv, CommandTypeOK
<1>3. CASE idx + 1 < Count
  <2>1. idx' = idx + 1 /\ step' = "chunk"
    BY <1>3 DEF NextChunk
  <2> QED BY <1>1, <1>2, <1>3, <2>1, CountFacts DEF Chunks, Passed, ControlTypes
<1>4. CASE ~(idx + 1 < Count)
  <2>1. idx' = 0 /\ step' = "spare" /\ idx + 1 = Count
    BY <1>1, <1>4, CountFacts DEF NextChunk, Chunks
  <2> QED BY <1>1, <1>2, <2>1, CountFacts DEF Passed, ControlTypes
<1> QED BY <1>3, <1>4

LEMMA TypesFollow ==
  ASSUME CommandInv, ControlTypes',
         /\ sel' \in {"none", "erase", "program", "read"} /\ pos' \in 0 .. Count + 1
         /\ cell' \in [Areas -> Cells \cup Eccs] /\ rot' = rot /\ worn' = worn,
         /\ page' \in [Chunks -> Cells] /\ bits' \in [Chunks -> 0 .. 2]
         /\ ecc' \in Cells \cup Eccs /\ off' \subseteq Chunks,
         /\ reads' \in 0 .. PageReads - 1 /\ ecres' \in Results
         /\ inStep' \in BOOLEAN /\ blank' = blank
  PROVE  CommandTypeOK'
BY DEF ControlTypes, CommandInv, CommandTypeOK
-----------------------------------------------------------------------------
(* Card_EraseBlock                                                         *)
LEMMA EraseCommandKeeps ==
  ASSUME CommandInv, EraseStart \/ EraseConfirm \/ ErasePoll
  PROVE  /\ CommandInv'
         /\ result' = "succeed" => cell = BlankPage
<1>1. /\ UNCHANGED <<page, bits, ecc, off, reads, ecres, inStep, blank>>
      /\ op = "erase" /\ result = "none" /\ rot' = rot /\ worn' = worn
  BY DEF EraseStart, EraseConfirm, ErasePoll, buffer, CardStarts, CardErases, cardVars,
         CommandInv, ResultOK
<1>2. /\ ControlTypes' /\ cell' \in {cell, BlankPage}
      /\ sel' \in {"none", "erase", "program", "read"} /\ pos' \in 0 .. Count + 1
      /\ \/ op' = "idle"
         \/ /\ op' = "erase" /\ step' \in {"start", "confirm", "poll"}
            /\ result' = "none"
            /\ step' = "confirm" => sel' = "erase"
            /\ step' = "poll" => cell' = BlankPage
      /\ result' = "succeed" => cell = BlankPage
  <2>1. CASE EraseStart
    BY <1>1, <2>1, AgainEffect, GoOnEffect, CountFacts
    DEF EraseStart, CardStarts, cardVars, CommandInv, CommandTypeOK
  <2>2. CASE EraseConfirm
    <3>1. sel = "erase"
      BY <1>1, <2>2 DEF EraseConfirm, CommandInv, EraseOK
    <3> QED BY <1>1, <2>2, <3>1, AgainEffect, GoOnEffect, ReturnEffect
        DEF EraseConfirm, CardErases, cardVars, CommandInv, CommandTypeOK
  <2>3. CASE ErasePoll
    <3>1. cell = BlankPage /\ UNCHANGED <<sel, pos, cell>> /\ step = "poll"
      BY <1>1, <2>3 DEF ErasePoll, CommandInv, EraseOK, cardVars
    <3>2. CASE Return("succeed") \/ ReplaceOrNoFormat
      BY <1>1, <3>1, <3>2, ReturnEffect DEF ReplaceOrNoFormat, CommandInv, CommandTypeOK
    <3>3. CASE idx + 1 < Polls /\ idx' = idx + 1 /\ UNCHANGED <<op, step, try, result>>
      BY <1>1, <3>1, <3>3, CountFacts DEF ControlTypes, CommandInv, CommandTypeOK
    <3> QED BY <2>3, <3>2, <3>3 DEF ErasePoll
  <2> QED BY <2>1, <2>2, <2>3
<1>3. BlankPage \in [Areas -> Cells \cup Eccs] /\ \A k \in Chunks : BlankPage[k] \in Cells
  BY CountFacts DEF BlankPage, Areas, Chunks, Cells
<1>4. /\ cell' \in [Areas -> Cells \cup Eccs] /\ \A k \in Chunks : cell'[k] \in Cells
      /\ page' \in [Chunks -> Cells] /\ bits' \in [Chunks -> 0 .. 2]
      /\ ecc' \in Cells \cup Eccs /\ off' \subseteq Chunks
      /\ reads' \in 0 .. PageReads - 1 /\ ecres' \in Results
      /\ inStep' \in BOOLEAN
  BY <1>1, <1>2, <1>3 DEF CommandInv, CommandTypeOK, PlaceOK
<1>5. CommandTypeOK'
  BY <1>1, <1>2, <1>4, TypesFollow
<1> QED BY <1>2, <1>4, <1>5 DEF CommandInv, PlaceOK, EraseOK, WritingOK, ReadOK, ResultOK
-----------------------------------------------------------------------------
(* Card_WritePageData                                                      *)

CardTypes ==
  /\ sel \in {"none", "erase", "program", "read"} /\ pos \in 0 .. Count + 1
  /\ cell \in [Areas -> Cells \cup Eccs] /\ \A k \in Chunks : cell[k] \in Cells

(* The exchange in progress sends the area it has come to, at its place or *)
(* at one before.                                                          *)
LEMMA TakesEffect ==
  ASSUME CommandInv, op = "write", UNCHANGED <<page, inStep, blank>>,
         \/ step = "chunk" /\ CardTakes(idx, page[idx])
         \/ step = "spare" /\ CardTakes(Count, ecc)
  PROVE  /\ CardTypes' /\ sel' = sel /\ rot' = rot /\ worn' = worn
         /\ pos' <= Passed + 1
         /\ inStep => pos' = Passed + 1
         /\ inStep /\ blank =>
              \A a \in Areas :
                /\ cell'[a] \in {ErasedCell, PageOf(page)[a]}
                /\ a < Passed + 1 => cell'[a] = PageOf(page)[a]
<1>1. PICK a \in Areas, v \in Cells \cup Eccs :
        /\ CardTakes(a, v) /\ a = Passed /\ v = PageOf(page)[a]
        /\ a # Count => v \in Cells
        /\ pos \in Nat /\ pos <= a /\ (inStep => pos = a)
  <2>1. page \in Eccs /\ ecc = page
    BY DEF CommandInv, WritingOK
  <2>2. CASE step = "chunk" /\ CardTakes(idx, page[idx])
    <3>1. idx \in Chunks /\ idx \in Areas /\ idx # Count
      BY <2>2, CountFacts DEF CommandInv, PlaceOK, Chunks, Areas
    <3>2. page[idx] = PageOf(page)[idx] /\ page[idx] \in Cells
      BY <2>1, <3>1, PageOfFacts DEF Cells
    <3>3. Passed = idx /\ pos \in Nat /\ pos <= idx /\ (inStep => pos = idx)
      BY <2>2 DEF Passed, CommandInv, PlaceOK, CommandTypeOK
    <3> QED BY <2>2, <3>1, <3>2, <3>3
  <2>3. CASE step = "spare" /\ CardTakes(Count, ecc)
    <3>1. Count \in Areas
      BY CountFacts DEF Areas
    <3>2. ecc = PageOf(page)[Count] /\ ecc \in Cells \cup Eccs
      BY <2>1, PageOfFacts
    <3>3. Passed = Count /\ pos \in Nat /\ pos <= Count /\ (inStep => pos = Count)
      BY <2>3 DEF Passed, CommandInv, PlaceOK, CommandTypeOK
    <3> QED BY <2>3, <3>1, <3>2, <3>3
  <2> QED BY <2>2, <2>3
<1>2. /\ a \in 0 .. Count /\ pos \in Areas /\ pos' = pos + 1 /\ pos' \in 0 .. Count + 1
      /\ sel' = sel /\ rot' = rot /\ worn' = worn /\ pos' <= Passed + 1 /\ (inStep => pos' = Passed + 1)
  BY <1>1, CountFacts DEF CardTakes, Areas
<1>3. PICK w \in {v, Mixed} :
           /\ cell' = [cell EXCEPT ![pos] = w]
           /\ w = v \/ ~((a = Count <=> pos = Count) /\ cell[pos] \in {ErasedCell, v})
           /\ w = Mixed \/ (a = Count <=> pos = Count)
  BY <1>1 DEF CardTakes
<1>4. cell \in [Areas -> Cells \cup Eccs] /\ (\A k \in Chunks : cell[k] \in Cells)
  BY DEF CommandInv, CommandTypeOK, PlaceOK
<1>5. w \in Cells \cup Eccs
  BY <1>1, <1>3 DEF Cells
<1>6. pos \in Chunks => w \in Cells
  <2>1. CASE w = Mixed
    BY <2>1 DEF Cells
  <2>2. CASE w = v /\ pos \in Chunks
    <3>1. pos # Count
      BY <2>2, CountFacts DEF Chunks
    <3>2. CASE a # Count
      BY <1>1, <2>2, <3>2
    <3>3. CASE a = Count
      BY <1>3, <3>1, <3>3, <2>1, <2>2
    <3> QED BY <3>2, <3>3
  <2> QED BY <1>3, <2>1, <2>2
<1>7. CardTypes'
  BY <1>2, <1>3, <1>4, <1>5, <1>6 DEF CardTypes, CommandInv, CommandTypeOK
<1>8. ASSUME inStep, blank, NEW b \in Areas
      PROVE  /\ cell'[b] \in {ErasedCell, PageOf(page)[b]}
             /\ b < Passed + 1 => cell'[b] = PageOf(page)[b]
  <2>1. pos = a
    BY <1>1, <1>8
  <2>2. /\ cell[b] \in {ErasedCell, PageOf(page)[b]}
        /\ b < Passed => cell[b] = PageOf(page)[b]
    BY <1>8 DEF CommandInv, WritingOK, Programmed
  <2>3. CASE b = a
    BY <1>1, <1>3, <1>4, <2>1, <2>2, <2>3
  <2>4. CASE b # a
    <3>1. cell'[b] = cell[b]
      BY <1>3, <1>4, <2>1, <2>4
    <3>2. b < Passed + 1 => b < Passed
      BY <1>1, <1>8, <2>4 DEF Areas
    <3> QED BY <2>2, <3>1, <3>2
  <2> QED BY <2>3, <2>4
<1> QED BY <1>2, <1>7, <1>8

(* A step of a write that leaves things as they should be keeps the        *)
(* invariant.                                                              *)
LEMMA WriteFollows ==
  ASSUME CommandInv, op = "write", ControlTypes', CardTypes', rot' = rot /\ worn' = worn,
         UNCHANGED <<page, bits, ecc, off, reads, ecres, blank>>, inStep' \in BOOLEAN,
         op' \in {"write", "idle"},
         op' = "write" =>
           /\ result' = "none" /\ step' \in {"start", "chunk", "spare", "end"}
           /\ step' = "chunk" => idx' \in Chunks
           /\ step' \in {"chunk", "spare"} => pos' <= Passed' /\ (inStep' => pos' = Passed')
           /\ Programmed(Passed)'
  PROVE  CommandInv'
<1>1. CommandTypeOK'
  BY TypesFollow DEF CardTypes, CommandInv, CommandTypeOK
<1>2. PlaceOK' /\ ResultOK' /\ EraseOK' /\ ReadOK'
  BY DEF PlaceOK, CardTypes, ResultOK, EraseOK, ReadOK
<1>3. WritingOK'
  BY DEF CommandInv, WritingOK
<1> QED BY <1>1, <1>2, <1>3 DEF CommandInv

LEMMA LessProgrammed ==
  ASSUME CommandInv, op = "write", UNCHANGED <<cell, page, blank>>, inStep' => inStep,
         Passed' = Passed \/ step' = "start"
  PROVE  Programmed(Passed)'
<1>1. Programmed(Passed)
  BY DEF CommandInv, WritingOK
<1>2. \A a \in Areas : step' = "start" => ~(a < Passed')
  BY CountFacts DEF Passed, Areas
<1> QED BY <1>1, <1>2 DEF Programmed

LEMMA WriteKeeps ==
  ASSUME CommandInv, WriteStart \/ WriteChunk \/ WriteSpare \/ WriteEnd
  PROVE  /\ CommandInv'
         /\ result' = "succeed" /\ blank /\ inStep => cell = PageOf(page)
<1>1. /\ UNCHANGED <<page, bits, ecc, off, reads, ecres, blank>> /\ rot' = rot /\ worn' = worn
      /\ op = "write" /\ result = "none" /\ inStep \in BOOLEAN
      /\ inStep' \in {FALSE, inStep} /\ CardTypes
  BY DEF WriteStart, WriteChunk, WriteSpare, WriteEnd, buffer, CardStarts, CardTakes, CardEnds,
         cardVars, CommandInv, ResultOK, CommandTypeOK, CardTypes, PlaceOK
<1>2. CASE WriteStart
  <2>1. /\ CardTypes' /\ UNCHANGED <<cell, inStep>>
    BY <1>1, <1>2, CountFacts DEF WriteStart, CardStarts, cardVars, CardTypes
  <2>2. CASE CardStarts("program") /\ GoOn("chunk")
    <3>1. /\ ControlTypes' /\ op' = op /\ step' = "chunk" /\ idx' = 0 /\ result' = result
          /\ pos' = 0 /\ Passed' = 0 /\ idx' \in Chunks /\ Passed = 0
      BY <1>2, <2>2, GoOnEffect, CountFacts DEF CardStarts, Passed, Chunks, WriteStart
    <3>2. Programmed(Passed)'
      BY <1>1, <2>1, <3>1, LessProgrammed
    <3> QED BY <1>1, <2>1, <3>1, <3>2, WriteFollows
  <2>3. CASE Again(ReplaceOrNoFormat)
    <3>1. Programmed(Passed)' \/ op' = "idle"
      BY <1>1, <2>1, <2>3, AgainEffect, LessProgrammed
    <3> QED BY <1>1, <2>1, <2>3, <3>1, AgainEffect, WriteFollows
  <2> QED BY <1>2, <2>2, <2>3 DEF WriteStart
<1>3. CASE WriteChunk
  <2>1. /\ ControlTypes' /\ op' = op /\ result' = result
        /\ step' \in {"chunk", "spare"} /\ step = "chunk"
        /\ step' = "chunk" => idx' \in Chunks
        /\ Passed' = Passed + 1 /\ Passed = idx /\ idx \in Chunks
    BY <1>1, <1>3, NextChunkEffect DEF WriteChunk
  <2>2. CASE CardTakes(idx, page[idx]) /\ UNCHANGED inStep
    <3>1. CardTypes' /\ pos' <= Passed' /\ (inStep' => pos' = Passed')
      BY <1>1, <2>1, <2>2, TakesEffect
    <3>2. Programmed(Passed)'
      BY <1>1, <2>1, <2>2, TakesEffect DEF Programmed
    <3> QED BY <1>1, <2>1, <2>2, <3>1, <3>2, WriteFollows
  <2>3. CASE UNCHANGED cardVars /\ inStep' = FALSE
    <3>1. CardTypes' /\ pos' = pos /\ pos <= Passed /\ pos \in Nat
      BY <1>1, <2>1, <2>3 DEF cardVars, CardTypes, CommandInv, PlaceOK
    <3>2. Programmed(Passed)' /\ pos' <= Passed'
      BY <2>1, <2>3, <3>1, CountFacts DEF Programmed, Chunks
    <3> QED BY <1>1, <2>1, <2>3, <3>1, <3>2, WriteFollows
  <2> QED BY <1>3, <2>2, <2>3 DEF WriteChunk
<1>4. CASE WriteSpare
  <2>1. step = "spare" /\ UNCHANGED inStep /\ Passed = Count
    BY <1>4 DEF WriteSpare, Passed
  <2>2. CASE CardTakes(Count, ecc) /\ GoOn("end")
    <3>1. /\ ControlTypes' /\ op' = op /\ step' = "end" /\ result' = result
          /\ Passed' = Passed + 1
      BY <2>1, <2>2, GoOnEffect DEF Passed
    <3>2. Programmed(Passed)' /\ CardTypes'
      BY <1>1, <2>1, <2>2, <3>1, TakesEffect DEF Programmed
    <3> QED BY <1>1, <2>1, <3>1, <3>2, WriteFollows
  <2>3. CASE CardTakes(Count, ecc) /\ Again(ReplaceOrNoFormat)
    <3>1. CardTypes'
      BY <1>1, <2>1, <2>3, TakesEffect
    <3>2. ASSUME step' = "start" PROVE Programmed(Passed)'
      <4>1. Passed' = 0 /\ \A a \in Areas : ~(a < 0)
        BY <3>2, CountFacts DEF Passed, Areas
      <4>2. inStep /\ blank => \A a \in Areas : cell'[a] \in {ErasedCell, PageOf(page)[a]}
        BY <1>1, <2>1, <2>3, TakesEffect
      <4> QED BY <1>1, <2>1, <4>1, <4>2 DEF Programmed
    <3> QED BY <1>1, <2>1, <2>3, <3>1, <3>2, AgainEffect, WriteFollows
  <2>4. CASE UNCHANGED cardVars /\ Again(ReplaceOrNoFormat)
    <3>1. CardTypes' /\ (Programmed(Passed)' \/ op' = "idle")
      BY <1>1, <2>1, <2>4, AgainEffect, LessProgrammed DEF cardVars, CardTypes
    <3> QED BY <1>1, <2>1, <2>4, <3>1, AgainEffect, WriteFollows
  <2> QED BY <1>4, <2>2, <2>3, <2>4 DEF WriteSpare
<1>5. CASE WriteEnd
  <2>1. /\ step = "end" /\ CardTypes' /\ UNCHANGED <<cell, inStep>>
    BY <1>1, <1>5 DEF WriteEnd, CardEnds, cardVars, CardTypes
  <2>2. blank /\ inStep => cell = PageOf(page)
    <3>1. \A a \in Areas : a < Passed
      BY <2>1, CountFacts DEF Passed, Areas
    <3>2. blank /\ inStep => \A a \in Areas : cell[a] = PageOf(page)[a]
      BY <1>1, <3>1 DEF CommandInv, WritingOK, Programmed
    <3>3. cell \in [Areas -> Cells \cup Eccs] /\ PageOf(page) \in [Areas -> Cells \cup Eccs]
      BY <1>1, PageOfFacts DEF CardTypes, CommandInv, WritingOK
    <3> QED BY <3>2, <3>3
  <2>3. CASE Return("succeed")
    BY <1>1, <2>1, <2>2, <2>3, ReturnEffect, WriteFollows
  <2>4. CASE Again(ReplaceOrNoFormat)
    <3>1. Programmed(Passed)' \/ op' = "idle"
      BY <1>1, <2>1, <2>4, AgainEffect, LessProgrammed
    <3> QED BY <1>1, <2>1, <2>4, <3>1, AgainEffect, WriteFollows
  <2> QED BY <1>5, <2>3, <2>4 DEF WriteEnd
<1> QED BY <1>2, <1>3, <1>4, <1>5
-----------------------------------------------------------------------------
(* Card_ReadPageData and Card_ReadPage                                     *)
BufferTypes ==
  /\ page \in [Chunks -> Cells] /\ bits \in [Chunks -> 0 .. 2]
  /\ ecc \in Cells \cup Eccs /\ off \subseteq Chunks
  /\ reads \in 0 .. PageReads - 1 /\ ecres \in Results /\ inStep \in BOOLEAN

LEMMA ReadFollows ==
  ASSUME CommandInv, op = "read", ControlTypes', CardTypes', BufferTypes',
         cell' = cell, rot' = rot /\ worn' = worn, blank' = blank,
         op' \in {"read", "idle"},
         op' = "read" =>
           /\ result' = "none" /\ step' \in {"start", "chunk", "spare", "end", "check"}
           /\ step' = "chunk" => idx' \in Chunks
           /\ step' \in {"chunk", "spare"} => pos' <= Passed' /\ (inStep' => pos' = Passed')
           /\ inStep' /\ step' \in {"end", "check"} => ecc' = cell[Count]
  PROVE  CommandInv'
<1>1. CommandTypeOK'
  BY TypesFollow DEF CardTypes, BufferTypes, CommandInv, CommandTypeOK
<1>2. PlaceOK' /\ ResultOK' /\ EraseOK' /\ WritingOK'
  BY DEF PlaceOK, CardTypes, ResultOK, EraseOK, WritingOK
<1>3. ReadOK'
  BY DEF CommandInv, ReadOK
<1> QED BY <1>1, <1>2, <1>3 DEF CommandInv

LEMMA ReadAgainEffect ==
  ASSUME CommandInv, op = "read", ReadAgain
  PROVE  /\ ControlTypes' /\ reads' \in 0 .. PageReads - 1
         /\ \/ op' = "idle" /\ result' \in {"noformat", "changed"}
            \/ op' = "read" /\ step' = "start" /\ result' = result
<1>1. CASE reads + 1 < PageReads
  <2>1. /\ reads' = reads + 1 /\ try' = 1 /\ step' = "start" /\ idx' = 0
        /\ UNCHANGED <<op, result>>
    BY <1>1 DEF ReadAgain
  <2> QED BY <1>1, <2>1, CountFacts DEF CommandInv, CommandTypeOK, ControlTypes
<1>2. CASE ~(reads + 1 < PageReads)
  <2>1. (Return("noformat") \/ Return("changed")) /\ UNCHANGED reads
    BY <1>2 DEF ReadAgain
  <2> QED BY <2>1, ReturnEffect DEF CommandInv, CommandTypeOK
<1> QED BY <1>1, <1>2

LEMMA ReadRetryEffect ==
  ASSUME CommandInv, op = "read", ReadRetry
  PROVE  /\ ControlTypes' /\ reads' \in 0 .. PageReads - 1
         /\ \/ op' = "idle" /\ result' \in {"noformat", "changed"}
            \/ op' = "read" /\ step' = "start" /\ result' = result
BY ReadAgainEffect, AgainEffect DEF ReadRetry, CommandInv, CommandTypeOK

(* The result of an attempt is the worst of its chunks.                    *)
LEMMA WorstIsLeast ==
  ASSUME CommandInv, NEW res \in [Chunks -> Results]
  PROVE  /\ WorstResult(res) \in Results /\ WorstResult(res) <= ecres
         /\ \A k \in Chunks : WorstResult(res) <= res[k]
<1> DEFINE R == {ecres} \cup {res[k] : k \in Chunks}
<1>1. R \subseteq Results /\ ecres \in R
  BY DEF CommandInv, CommandTypeOK
<1>2. \E r \in R : \A s \in R : r <= s
  <2>1. CASE -3 \in R
    BY <1>1, <2>1 DEF Results
  <2>2. CASE -3 \notin R /\ -2 \in R
    BY <1>1, <2>2 DEF Results
  <2>3. CASE -3 \notin R /\ -2 \notin R /\ -1 \in R
    BY <1>1, <2>3 DEF Results
  <2>4. CASE -3 \notin R /\ -2 \notin R /\ -1 \notin R
    BY <1>1, <2>4 DEF Results
  <2> QED BY <2>1, <2>2, <2>3, <2>4
<1>3. \E r \in Results :
        /\ r = ecres \/ \E k \in Chunks : r = res[k]
        /\ r <= ecres /\ \A k \in Chunks : r <= res[k]
  BY <1>1, <1>2
<1> QED BY <1>3 DEF WorstResult

(* As long as the chunks before it are sound, no check has changed the ECC *)
(* of a chunk; then a wrong chunk is found.                                *)
LEMMA FirstWrong ==
  ASSUME CommandInv, ecc \in Eccs,
         NEW res \in [Chunks -> Results], NEW hit \in [Chunks -> Areas], Checks(res, hit),
         NEW k \in Chunks, \A j \in 0 .. k - 1 : Right(j)
  PROVE  /\ k \notin Changed(res, hit, k - 1)
         /\ res[k] = IF k \in worn THEN Unsound(k) ELSE Sound(k)
<1>1. \A j \in 0 .. k - 1 : j \in Chunks
  BY CountFacts DEF Chunks
<1>2. ASSUME NEW j \in 0 .. k - 1 PROVE res[j] # -1
  <2>1. res[j] \in Correct(j, j \in Changed(res, hit, j - 1)) /\ Right(j)
    BY <1>1 DEF Checks
  <2> QED BY <2>1 DEF Correct, Sound, Unsound, Results
<1>3. k \notin Changed(res, hit, k - 1)
  BY <1>2 DEF Changed
<1>4. res[k] \in Correct(k, k \in Changed(res, hit, k - 1))
  BY DEF Checks
<1> QED BY <1>3, <1>4 DEF Correct

(* What the result of an attempt says of its chunks.                       *)
LEMMA ChecksMean ==
  ASSUME CommandInv, ecc \in Eccs,
         NEW res \in [Chunks -> Results], NEW hit \in [Chunks -> Areas], Checks(res, hit)
  PROVE  /\ (\A k \in Chunks : res[k] = 0) =>
              Changed(res, hit, Count - 1) = {} /\ \A k \in Chunks : Right(k)
         /\ (\A k \in Chunks : -2 <= res[k]) =>
              \A k \in Chunks \ worn :
                Right(k) \/ OddlyWrong(k) \/ \E j \in 0 .. k - 1 : ~Right(j)
<1>1. ASSUME \A k \in Chunks : res[k] = 0
      PROVE  Changed(res, hit, Count - 1) = {} /\ \A k \in Chunks : Right(k)
  <2>1. \A n \in Int : Changed(res, hit, n) \subseteq {hit[j] : j \in {j \in 0 .. n : j \notin Chunks}}
    BY <1>1 DEF Changed
  <2>2. ASSUME NEW n \in Int, n < Count PROVE Changed(res, hit, n) = {}
    BY <2>1, <2>2, CountFacts DEF Chunks
  <2>3. ASSUME NEW k \in Chunks PROVE Right(k)
    <3>1. k \notin Changed(res, hit, k - 1)
      BY <2>2, CountFacts DEF Chunks
    <3>2. 0 \in Correct(k, k \in Changed(res, hit, k - 1))
      BY <1>1 DEF Checks
    <3> QED BY <3>1, <3>2 DEF Correct, Sound, Unsound
  <2> QED BY <2>2, <2>3, CountFacts
<1>2. ASSUME \A k \in Chunks : -2 <= res[k], NEW k \in Chunks \ worn,
             ~ \E j \in 0 .. k - 1 : ~Right(j)
      PROVE  Right(k) \/ OddlyWrong(k)
  <2>1. res[k] = Sound(k) /\ -2 <= res[k]
    BY <1>2, FirstWrong
  <2> QED BY <2>1 DEF Sound
<1> QED BY <1>1, <1>2

LEMMA ReadKeeps ==
  ASSUME CommandInv, ReadStart \/ ReadChunk \/ ReadSpare \/ ReadEnd \/ ReadCheck
  PROVE  /\ CommandInv'
         /\ result' = "succeed" /\ inStep /\ cell[Count] \in Eccs =>
              /\ ecc = cell[Count]
              /\ ecres' = 0 => off' = {} /\ \A k \in Chunks : Right(k)
              /\ \A k \in Chunks \ worn :
                   Right(k) \/ OddlyWrong(k) \/ \E j \in 0 .. k - 1 : ~Right(j)
<1>1. /\ cell' = cell /\ rot' = rot /\ worn' = worn /\ blank' = blank /\ op = "read" /\ result = "none"
      /\ CardTypes /\ BufferTypes
  BY DEF ReadStart, ReadChunk, ReadSpare, ReadEnd, ReadCheck, CardStarts, CardGives, CardEnds,
         cardVars, CommandInv, ResultOK, CommandTypeOK, CardTypes, PlaceOK, BufferTypes
<1>2. CASE ReadStart
  <2>1. CardTypes' /\ UNCHANGED <<page, bits, ecc, off, ecres>> /\ inStep' = TRUE
    BY <1>1, <1>2, CountFacts DEF ReadStart, CardStarts, cardVars, CardTypes, buffer
  <2>2. CASE CardStarts("read") /\ GoOn("chunk") /\ UNCHANGED reads
    <3>1. /\ ControlTypes' /\ op' = op /\ step' = "chunk" /\ idx' = 0 /\ result' = result
          /\ pos' = 0 /\ Passed' = 0 /\ idx' \in Chunks
      BY <2>2, GoOnEffect, CountFacts DEF CardStarts, Passed, Chunks
    <3>2. BufferTypes'
      BY <1>1, <2>1, <2>2 DEF BufferTypes
    <3> QED BY <1>1, <2>1, <3>1, <3>2, ReadFollows
  <2>3. CASE ReadRetry
    <3>1. BufferTypes'
      BY <1>1, <2>1, <2>3, ReadRetryEffect DEF BufferTypes
    <3> QED BY <1>1, <2>1, <2>3, <3>1, ReadRetryEffect, ReadFollows
  <2> QED BY <1>2, <2>2, <2>3 DEF ReadStart
<1>3. CASE ReadChunk
  <2>1. /\ ControlTypes' /\ op' = op /\ result' = result
        /\ step' \in {"chunk", "spare"} /\ step = "chunk"
        /\ step' = "chunk" => idx' \in Chunks
        /\ Passed' = Passed + 1 /\ Passed = idx /\ idx \in Chunks
    BY <1>1, <1>3, NextChunkEffect DEF ReadChunk
  <2>2. /\ pos \in Chunks /\ pos <= Passed /\ (inStep => pos = Passed)
    BY <1>1, <2>1, CountFacts DEF CommandInv, PlaceOK, CommandTypeOK, Chunks
  <2>3. rot[pos] \in 0 .. 2 /\ cell[pos] \in Cells
    BY <1>1, <2>2, CommandAssumption DEF CardTypes, CommandInv, CommandTypeOK, Chunks
  <2>4. BufferTypes'
    BY <1>1, <1>3, <2>1, <2>3 DEF ReadChunk, BufferTypes
  <2>5. /\ CardTypes' /\ pos' <= Passed' /\ (inStep' => pos' = Passed')
    <3>1. CASE CardGives /\ UNCHANGED inStep
      BY <1>1, <2>1, <2>2, <3>1, CountFacts DEF CardGives, CardTypes, Chunks
    <3>2. CASE UNCHANGED cardVars /\ inStep' = FALSE
      BY <1>1, <2>1, <2>2, <3>2, CountFacts DEF cardVars, CardTypes, Chunks
    <3> QED BY <1>3, <3>1, <3>2 DEF ReadChunk
  <2> QED BY <1>1, <2>1, <2>4, <2>5, ReadFollows
<1>4. CASE ReadSpare
  <2>1. /\ UNCHANGED <<page, bits, off, inStep, ecres>> /\ step = "spare"
        /\ pos \in 0 .. Count /\ (inStep => pos = Count)
    BY <1>1, <1>4, CountFacts DEF ReadSpare, CommandInv, CommandTypeOK, PlaceOK, Passed
  <2>2. CardTypes'
    BY <1>1, <1>4, <2>1, CountFacts DEF ReadSpare, CardGives, cardVars, CardTypes
  <2>3. CASE CardGives /\ ecc' = cell[pos] /\ GoOn("end") /\ UNCHANGED reads
    <3>1. ControlTypes' /\ op' = op /\ step' = "end" /\ result' = result
      BY <2>3, GoOnEffect
    <3>2. BufferTypes'
      BY <1>1, <2>1, <2>3 DEF BufferTypes, CardTypes, Areas
    <3> QED BY <1>1, <2>1, <2>2, <2>3, <3>1, <3>2, ReadFollows
  <2>4. CASE UNCHANGED ecc /\ ReadRetry
    <3>1. BufferTypes'
      BY <1>1, <2>1, <2>4, ReadRetryEffect DEF BufferTypes
    <3> QED BY <1>1, <2>2, <2>4, <3>1, ReadRetryEffect, ReadFollows
  <2> QED BY <1>4, <2>3, <2>4 DEF ReadSpare
<1>5. CASE ReadEnd
  <2>1. /\ UNCHANGED <<page, bits, ecc, off, inStep, ecres>> /\ step = "end" /\ CardTypes'
        /\ inStep => ecc = cell[Count]
    BY <1>1, <1>5 DEF ReadEnd, CardEnds, cardVars, CardTypes, buffer, CommandInv, ReadOK
  <2>2. CASE GoOn("check") /\ UNCHANGED reads
    <3>1. ControlTypes' /\ op' = op /\ step' = "check" /\ result' = result
      BY <2>2, GoOnEffect
    <3>2. BufferTypes'
      BY <1>1, <2>1, <2>2 DEF BufferTypes
    <3> QED BY <1>1, <2>1, <2>2, <3>1, <3>2, ReadFollows
  <2>3. CASE ReadAgain \/ ReadRetry
    <3>1. BufferTypes'
      BY <1>1, <2>1, <2>3, ReadAgainEffect, ReadRetryEffect DEF BufferTypes
    <3> QED BY <1>1, <2>1, <2>3, <3>1, ReadAgainEffect, ReadRetryEffect, ReadFollows
  <2> QED BY <1>5, <2>2, <2>3 DEF ReadEnd
<1>6. CASE ReadCheck
  <2>1. /\ UNCHANGED <<page, bits, ecc, inStep>> /\ CardTypes'
        /\ inStep => ecc = cell[Count]
    BY <1>1, <1>6 DEF ReadCheck, cardVars, CardTypes, CommandInv, ReadOK
  <2>2. CASE ecc \notin Eccs /\ Return("succeed") /\ UNCHANGED <<off, ecres, reads>>
    <3>1. BufferTypes'
      BY <1>1, <2>1, <2>2 DEF BufferTypes
    <3> QED BY <1>1, <2>1, <2>2, <3>1, ReturnEffect, ReadFollows
  <2>3. ASSUME NEW res \in [Chunks -> Results], NEW hit \in [Chunks -> Areas],
               Checks(res, hit), ecres' = WorstResult(res),
               \/ ReadAgain /\ UNCHANGED off
               \/ /\ ecres' = 0 \/ ~(ecres' < -2)
                  /\ Return("succeed") /\ UNCHANGED reads
                  /\ off' = Changed(res, hit, Count - 1)
        PROVE  /\ CommandInv'
               /\ result' = "succeed" /\ inStep /\ cell[Count] \in Eccs =>
                    /\ ecc = cell[Count]
                    /\ ecres' = 0 => off' = {} /\ \A k \in Chunks : Right(k)
                    /\ \A k \in Chunks \ worn :
                         Right(k) \/ OddlyWrong(k) \/ \E j \in 0 .. k - 1 : ~Right(j)
    <3>1. /\ ecres' \in Results /\ ecres' <= ecres /\ \A k \in Chunks : ecres' <= res[k]
          /\ ecres \in Results
      BY <2>3, WorstIsLeast DEF CommandInv, CommandTypeOK
    <3>2. CASE ReadAgain /\ UNCHANGED off
      <4>1. BufferTypes'
        BY <1>1, <2>1, <3>1, <3>2, ReadAgainEffect DEF BufferTypes
      <4> QED BY <1>1, <2>1, <3>2, <4>1, ReadAgainEffect, ReadFollows
    <3>3. CASE /\ ecres' = 0 \/ ~(ecres' < -2)
               /\ Return("succeed") /\ UNCHANGED reads
               /\ off' = Changed(res, hit, Count - 1)
      <4>1. BufferTypes'
        BY <1>1, <2>1, <3>1, <3>3 DEF BufferTypes, Changed
      <4>2. CommandInv'
        BY <1>1, <2>1, <3>3, <4>1, ReturnEffect, ReadFollows
      <4>3. (\A k \in Chunks : -2 <= res[k]) /\ (ecres' = 0 => \A k \in Chunks : res[k] = 0)
        BY <3>1, <3>3 DEF Results
      <4>4. inStep /\ cell[Count] \in Eccs => ecc = cell[Count] /\ ecc \in Eccs
        BY <2>1
      <4> QED BY <2>3, <3>3, <4>2, <4>3, <4>4, ChecksMean
    <3> QED BY <2>3, <3>2, <3>3
  <2>4. CASE \E res \in [Chunks -> Results], hit \in [Chunks -> Areas] :
               /\ Checks(res, hit)
               /\ ecres' = WorstResult(res)
               /\ IF ecres' = 0 \/ (reads = PageReads - 1 /\ ~(ecres' < -2))
                    THEN /\ Return("succeed") /\ UNCHANGED reads
                         /\ off' = Changed(res, hit, Count - 1)
                    ELSE ReadAgain /\ UNCHANGED off
    BY <2>3, <2>4
  <2> QED BY <1>6, <2>2, <2>4 DEF ReadCheck
<1> QED BY <1>2, <1>3, <1>4, <1>5, <1>6
-----------------------------------------------------------------------------
LEMMA CommandStutters == ASSUME CommandInv, UNCHANGED commandVars PROVE CommandInv'
BY DEF commandVars, control, cardVars, buffer, CommandInv, CommandTypeOK, PlaceOK, EraseOK, WritingOK, ReadOK,
       ResultOK, Passed, Programmed

LEMMA StepsKeep == CommandInv /\ [CommandNext]_commandVars => CommandInv'
BY CallsKeep, EraseCommandKeeps, WriteKeeps, ReadKeeps, CommandStutters DEF CommandNext, Step

(* The inductive invariant of a command, its retries and the card.         *)
THEOREM CommandHolds == CommandSpec => []CommandInv
BY InitCommand, StepsKeep, PTL DEF CommandSpec

(* The variables keep their types: no exchange leaves the page.            *)
THEOREM CommandTypes == CommandSpec => []CommandTypeOK
<1>1. CommandInv => CommandTypeOK
  BY DEF CommandInv
<1> QED BY <1>1, CommandHolds, PTL

(* The command that returns is of its own kind.                            *)
LEMMA ReturnsOfItsKind ==
  ASSUME CommandInv, CommandNext
  PROVE  /\ op = "erase" => EraseStart \/ EraseConfirm \/ ErasePoll
         /\ op = "write" => WriteStart \/ WriteChunk \/ WriteSpare \/ WriteEnd
         /\ op = "read" => ReadStart \/ ReadChunk \/ ReadSpare \/ ReadEnd \/ ReadCheck
BY DEF CommandNext, Step, CallErase, CallWrite, CallRead, Call, EraseStart, EraseConfirm, ErasePoll,
       WriteStart, WriteChunk, WriteSpare, WriteEnd, ReadStart, ReadChunk, ReadSpare, ReadEnd,
       ReadCheck

(* A block reported erased is erased, whatever answers to earlier attempts *)
(* were lost (mcio.cpp:523-614).                                           *)
THEOREM ErasedIsErased == CommandSpec => EraseMeansErased
<1>1. CommandInv /\ [CommandNext]_commandVars => [Succeeds("erase") => cell = BlankPage]_commandVars
  BY EraseCommandKeeps, ReturnsOfItsKind DEF Succeeds
<1> QED BY <1>1, CommandHolds, PTL DEF CommandSpec, EraseMeansErased

(* A page reported written holds data and ECC, whatever earlier attempts   *)
(* programmed of it, unless a chunk never reached the card                 *)
(* (mcio.cpp:617-699).                                                     *)
THEOREM WrittenIsWritten == CommandSpec => WriteMeansWritten
<1>1. CommandInv /\ [CommandNext]_commandVars =>
        [Succeeds("write") /\ blank /\ inStep => cell = PageOf(page)]_commandVars
  BY WriteKeeps, ReturnsOfItsKind DEF Succeeds
<1> QED BY <1>1, CommandHolds, PTL DEF CommandSpec, WriteMeansWritten

(* A page reported read is the one its ECC was computed from, unless an    *)
(* attempt found a wrong bit; then only an odd number of them may be in    *)
(* the first wrong chunk, or its ECC is worn (mcio.cpp:258-308, 702-790,   *)
(* 923-1019).                                                              *)
THEOREM ReadIsThePage == CommandSpec => ReadMeansPage
<1>1. CommandInv /\ [CommandNext]_commandVars =>
        [Succeeds("read") /\ inStep /\ cell[Count] \in Eccs =>
           /\ ecc = cell[Count]
           /\ ecres' = 0 => off' = {} /\ \A k \in Chunks : Right(k)
           /\ \A k \in Chunks \ worn :
                Right(k) \/ OddlyWrong(k) \/ \E j \in 0 .. k - 1 : ~Right(j)]_commandVars
  BY ReadKeeps, ReturnsOfItsKind DEF Succeeds
<1> QED BY <1>1, CommandHolds, PTL DEF CommandSpec, ReadMeansPage
=============================================================================
