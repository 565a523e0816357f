--------------------------- MODULE FrameTransfer ----------------------------
(***************************************************************************)
(* ReadFromCard and WriteToCard of Anthony/Anthony.cpp: the frames of a    *)
(* PlayStation card are transferred one by one, each by a command written  *)
(* to the adaptor's pipe and a reply read from the other pipe.  InData,    *)
(* the reply, is a variable of the whole loop: a read from the pipe that   *)
(* fails leaves the reply of the frame before in it, and one that brings   *)
(* less than a frame leaves its end.  Nothing in a reply tells which frame *)
(* it belongs to.                                                          *)
(***************************************************************************)
EXTENDS Integers

CONSTANTS
  Frames,      (* frames of a card, 64 * 16                                *)
  Owners,      (* what a frame may belong to: the card's or a file's save  *)
  Answers      (* what can come of a command: "good", "bad" (without the   *)
               (* header 0x55 0x5a), "none" (the pipe fails), "short" (the *)
               (* pipe succeeds with fewer bytes), "late" (the reply to an *)
               (* earlier command)                                         *)

ASSUME FramesAssumption ==
  Frames \in Nat \ {0} /\ Answers \subseteq {"good", "bad", "none", "short", "late"}

VARIABLES
  memDat,      (* byteMemDat.Frame                                         *)
  cardFrames,  (* the frames of the card                                   *)
  InData,      (* the last reply to a read: its header and its frame       *)
  loop,        (* "idle", or the loop that runs                            *)
  frame,       (* its frame                                                *)
  finished,    (* TRUE if the message was "Finish!"                        *)
  answers,     (* history: what each frame of this loop was answered       *)
  old          (* history: image and card when the loop began              *)

frameVars == <<memDat, cardFrames, InData, loop, frame, finished, answers, old>>

Frame == 0 .. Frames - 1

(* A frame has a save and its own number, so that one in a place that is   *)
(* not its own is seen.                                                    *)
NoFrame == [save |-> "none", number |-> Frames]   (* zeroes, parts of two  *)
FrameContent == [save : Owners, number : Frame] \cup {NoFrame}
FramesOf(s) == [n \in Frame |-> [save |-> s, number |-> n]]
Pending == "pending"
NoAnswers == [n \in Frame |-> Pending]
NoReply == [header |-> FALSE, data |-> NoFrame]

FrameTypes ==
  /\ memDat \in [Frame -> FrameContent] /\ cardFrames \in [Frame -> FrameContent]
  /\ InData \in [header : BOOLEAN, data : FrameContent]
  /\ loop \in {"idle", "read", "write"} /\ frame \in Frame
  /\ finished \in BOOLEAN /\ answers \in [Frame -> Answers \cup {Pending}]
  /\ old \in [image : [Frame -> FrameContent], card : [Frame -> FrameContent]]

FrameInit ==
  /\ \E s \in Owners : memDat = FramesOf(s)
  /\ \E s \in Owners : cardFrames = FramesOf(s)
  /\ InData = NoReply /\ loop = "idle" /\ frame = 0 /\ finished = FALSE
  /\ answers = NoAnswers /\ old = [image |-> memDat, card |-> cardFrames]
-----------------------------------------------------------------------------
(* SetupWinUsb has found the adaptor.                                      *)
StartLoop(which) ==
  /\ loop = "idle" /\ loop' = which /\ frame' = 0 /\ finished' = FALSE
  /\ InData' = NoReply /\ answers' = NoAnswers
  /\ old' = [image |-> memDat, card |-> cardFrames]
  /\ UNCHANGED <<memDat, cardFrames>>

StartReadFromCard == StartLoop("read")
StartWriteToCard == StartLoop("write")

Stop(message) == loop' = "idle" /\ frame' = 0 /\ finished' = message
Advance(message) ==
  IF frame = Frames - 1 THEN Stop(message)
  ELSE frame' = frame + 1 /\ UNCHANGED <<loop, finished>>

(* What may be in InData after the read command for this frame.  Neither   *)
(* loop looks at what a reply says of itself, nor ReadFromCard at its      *)
(* length: a short one overwrites the beginning of InData, with or without *)
(* the header.                                                             *)
Replies(answer) ==
  CASE answer = "good"  -> [header : {TRUE}, data : {cardFrames[frame]}]
    [] answer = "bad"   -> [header : {FALSE}, data : {cardFrames[frame]}]
    [] answer = "none"  -> {InData}
    [] answer = "short" ->
         [header : BOOLEAN, data : {InData.data, NoFrame, cardFrames[frame]}]
    [] answer = "late"  -> [header : BOOLEAN, data : {cardFrames[n] : n \in Frame}]

Stored_Always(answer) == [memDat EXCEPT ![frame] = InData'.data]   (* a mutated form *)
Stored(answer) ==
  IF answer = "none" THEN memDat ELSE [memDat EXCEPT ![frame] = InData'.data]

(* One round of ReadFromCard's loop.                                       *)
ReadFrame(answer) ==
  /\ loop = "read" /\ InData' \in Replies(answer)
  /\ answers' = [answers EXCEPT ![frame] = answer]
  /\ IF InData'.header
       THEN memDat' = Stored(answer) /\ Advance(FALSE)
       ELSE UNCHANGED memDat /\ Stop(FALSE)
  /\ UNCHANGED <<cardFrames, old>>

(* One round of WriteToCard's loop.  The reply is taken for good by its    *)
(* length alone: the card may have refused the frame, or the reply may be  *)
(* that to another one.  After a reply of another length, or none, it      *)
(* stops, whether the card has got the frame or not.                       *)
GivesUp_OnlyAtTheEnd(answer) ==   (* a mutated form *)
  answer \in {"none", "short"} /\ frame = Frames - 1
GivesUp(answer) == answer \in {"none", "short"}

WriteFrame(answer) ==
  /\ loop = "write"
  /\ \/ cardFrames' = [cardFrames EXCEPT ![frame] = memDat[frame]]
     \/ answer # "good" /\ UNCHANGED cardFrames
  /\ answers' = [answers EXCEPT ![frame] = answer]
  /\ IF GivesUp(answer) THEN Stop(FALSE) ELSE Advance(TRUE)
  /\ UNCHANGED <<memDat, InData, old>>

(* Another card is put in, or another file is loaded, in full or in part.  *)
ExchangeCard ==
  /\ loop = "idle" /\ \E s \in Owners : cardFrames' = FramesOf(s)
  /\ finished' = FALSE /\ answers' = NoAnswers
  /\ old' = [image |-> memDat, card |-> cardFrames']
  /\ UNCHANGED <<memDat, InData, loop, frame>>

LoadFile ==
  /\ loop = "idle"
  /\ \E s \in Owners, n \in Frame :
       memDat' = [f \in Frame |-> IF f <= n THEN FramesOf(s)[f] ELSE memDat[f]]
  /\ finished' = FALSE /\ answers' = NoAnswers
  /\ old' = [image |-> memDat', card |-> cardFrames]
  /\ UNCHANGED <<cardFrames, InData, loop, frame>>

FrameNext ==
  \/ StartReadFromCard \/ StartWriteToCard \/ ExchangeCard \/ LoadFile
  \/ \E answer \in Answers : ReadFrame(answer) \/ WriteFrame(answer)

FrameSpec == FrameInit /\ [][FrameNext]_frameVars
-----------------------------------------------------------------------------
(* A pipe that fails never puts a frame in the place of another one,       *)
(* although the frame before is still in InData: what ReadFromCard leaves  *)
(* in the place of a frame is that frame of the card, or what was there -  *)
(* unless it took for its reply one that was short or that of another      *)
(* frame, which it does not notice.                                        *)
FramesInPlace ==
  \A n \in Frame :
    memDat[n] \in {old.image[n], cardFrames[n]} \/ answers[n] \in {"short", "late"}

(* A write that stops leaves the frames behind as they were; the frames it *)
(* has passed, all of them when it says "Finish!", hold the image, but for *)
(* those the card refused, or whose reply was that to another one, which   *)
(* WriteToCard does not notice.                                            *)
WrittenUnlessRefused ==
  loop = "write" \/ finished =>
    \A n \in Frame :
      IF n < frame \/ finished
        THEN answers[n] \in {"bad", "late"} \/ cardFrames[n] = memDat[n]
        ELSE cardFrames[n] = old.card[n]
=============================================================================
