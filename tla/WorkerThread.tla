---------------------------- MODULE WorkerThread ----------------------------
(***************************************************************************)
(* The dialog of AnthonyPS2/Anthony.cpp (the one of Anthony/Anthony.cpp is *)
(* the same) and the threads it starts: DialogProc creates a thread for    *)
(* the button pressed, ReadorWrite disables the buttons, runs the          *)
(* operation, enables them, resets isThreadRunning and then waits for      *)
(* hThread, the global with the handle of the last thread created.         *)
(***************************************************************************)
EXTENDS FiniteSets

CONSTANTS
  Threads,    (* the threads this session may create                       *)
  Buttons,    (* IDC_BUTTON_FROMFILE, _FROMCARD, _TOFILE and _TOCARD       *)
  NoThread    (* NULL                                                      *)

ASSUME ThreadAssumption == NoThread \notin Threads /\ Buttons # {}

VARIABLES
  isThreadRunning, hThread,
  enabled,    (* the buttons that can be pressed                           *)
  ui,         (* where the thread of the dialog is                         *)
  created,    (* what CreateThread returned, before it is stored           *)
  pc,         (* where each thread is                                      *)
  target,     (* the handle a thread waits for                             *)
  closed      (* the handles that were closed                              *)

dialog == <<isThreadRunning, enabled, ui, created>>
handles == <<hThread, target, closed>>
threadVars == <<dialog, handles, pc>>

Steps == {"none", "disable", "work", "enable", "report", "wait", "waiting",
          "close", "forget", "ended"}

ThreadTypes ==
  /\ isThreadRunning \in BOOLEAN
  /\ hThread \in Threads \cup {NoThread}
  /\ enabled \subseteq Buttons
  /\ ui \in {"loop", "create", "store", "failed", "exited"}
  /\ created \in Threads \cup {NoThread}
  /\ pc \in [Threads -> Steps]
  /\ target \in [Threads -> Threads \cup {NoThread}]
  /\ closed \subseteq Threads

ThreadInit ==
  /\ isThreadRunning = FALSE /\ hThread = NoThread
  /\ enabled = Buttons /\ ui = "loop" /\ created = NoThread
  /\ pc = [t \in Threads |-> "none"]
  /\ target = [t \in Threads |-> NoThread] /\ closed = {}
-----------------------------------------------------------------------------
(* DialogProc                                                              *)

MayStart_AnyTime == TRUE   (* a mutated form *)
MayStart == ~isThreadRunning

(* WM_COMMAND of a button: pressed while a thread runs it does nothing.    *)
Press ==
  /\ ui = "loop" /\ enabled # {} /\ MayStart
  /\ \E t \in Threads : pc[t] = "none"      \* the bound of the model
  /\ isThreadRunning' = TRUE /\ ui' = "create"
  /\ UNCHANGED <<enabled, created, handles, pc>>

Create(t) ==
  /\ ui = "create" /\ pc[t] = "none"
  /\ pc' = [pc EXCEPT ![t] = "disable"]
  /\ created' = t /\ ui' = "store"
  /\ UNCHANGED <<isThreadRunning, enabled, handles>>

CreateFails ==
  /\ ui = "create" /\ created' = NoThread /\ ui' = "store"
  /\ UNCHANGED <<isThreadRunning, enabled, handles, pc>>

(* The assignment of hThread; the new thread may be running already.       *)
Store ==
  /\ ui = "store" /\ hThread' = created
  /\ ui' = IF created = NoThread THEN "failed" ELSE "loop"
  /\ UNCHANGED <<isThreadRunning, enabled, created, target, closed, pc>>

AfterFailure_StillRunning == isThreadRunning   (* a mutated form *)
AfterFailure == FALSE

(* The flag is reset, then a message box shows the failure.                *)
Failed ==
  /\ ui = "failed" /\ isThreadRunning' = AfterFailure /\ ui' = "loop"
  /\ UNCHANGED <<enabled, created, handles, pc>>

(* IDEXIT or IDCANCEL: the window is destroyed, the process ends.          *)
Exit ==
  /\ ui = "loop" /\ ui' = "exited"
  /\ UNCHANGED <<isThreadRunning, enabled, created, handles, pc>>
-----------------------------------------------------------------------------
(* ReadorWrite                                                             *)

At(t, here, there) ==
  /\ ui # "exited" /\ pc[t] = here
  /\ pc' = [pc EXCEPT ![t] = there]

(* EnableWindow sends WM_ENABLE to the thread of the dialog, and waits     *)
(* until that one is back in its message loop - if the state changes.      *)
DisableOne(t) ==
  /\ ui = "loop" /\ pc[t] = "disable"
  /\ \E b \in enabled : enabled' = enabled \ {b}
  /\ UNCHANGED <<isThreadRunning, ui, created, handles, pc>>

Begin(t) ==
  /\ enabled = {} /\ At(t, "disable", "work")
  /\ UNCHANGED <<dialog, handles>>

(* ReadFromFile, ReadFromCard, WriteToFile or WriteToCard returns.         *)
Finish(t) ==
  /\ At(t, "work", "enable")
  /\ UNCHANGED <<dialog, handles>>

EnableOne(t) ==
  /\ ui = "loop" /\ pc[t] = "enable"
  /\ \E b \in Buttons \ enabled : enabled' = enabled \cup {b}
  /\ UNCHANGED <<isThreadRunning, ui, created, handles, pc>>

AllEnabled == enabled = Buttons

Enabled(t) ==
  /\ AllEnabled /\ At(t, "enable", "report")
  /\ UNCHANGED <<dialog, handles>>

Report(t) ==
  /\ At(t, "report", "wait")
  /\ isThreadRunning' = FALSE
  /\ UNCHANGED <<enabled, ui, created, handles>>

(* hThread is read here, whoever assigned it last.                         *)
Wait(t) ==
  /\ At(t, "wait", "waiting")
  /\ target' = [target EXCEPT ![t] = hThread]
  /\ UNCHANGED <<dialog, hThread, closed>>

(* WaitForSingleObject returns for a thread that ended or an invalid       *)
(* handle.                                                                 *)
Resume(t) ==
  /\ At(t, "waiting", "close")
  /\ \/ target[t] \in closed \cup {NoThread}
     \/ \E s \in Threads : target[t] = s /\ pc[s] = "ended"
  /\ UNCHANGED <<dialog, handles>>

ToClose == {hThread} \ {NoThread}

(* Closing a handle that is NULL does nothing.                             *)
Close(t) ==
  /\ At(t, "close", "forget")
  /\ closed' = closed \cup ToClose
  /\ UNCHANGED <<dialog, hThread, target>>

Forget(t) ==
  /\ At(t, "forget", "ended")
  /\ hThread' = NoThread
  /\ UNCHANGED <<dialog, target, closed>>
-----------------------------------------------------------------------------
Worker(t) ==
  \/ DisableOne(t) \/ Begin(t) \/ Finish(t) \/ EnableOne(t) \/ Enabled(t)
  \/ Report(t) \/ Wait(t) \/ Resume(t) \/ Close(t) \/ Forget(t)

Dialog == (\E t \in Threads : Create(t)) \/ CreateFails \/ Store \/ Failed

ThreadNext == Press \/ Exit \/ Dialog \/ \E t \in Threads : Worker(t)

ThreadSpec == ThreadInit /\ [][ThreadNext]_threadVars

(* Every thread that can run is scheduled, and every operation returns.    *)
(* Nobody has to press a button, or to leave.                              *)
FairSpec ==
  /\ ThreadSpec /\ WF_threadVars(Dialog)
  /\ \A t \in Threads : WF_threadVars(Worker(t))
-----------------------------------------------------------------------------
Busy(t) == pc[t] \in {"disable", "work", "enable", "report"}

(* byteMemDat, the device handle and the progress bar belong to one        *)
(* operation at a time, although the threads of earlier operations are     *)
(* still there and touch hThread.                                          *)
OneOperationAtATime ==
  \A s, t \in Threads : Busy(s) /\ Busy(t) => s = t

(* A button is disabled only while a thread runs that will enable it: a    *)
(* thread never leaves behind, or is overtaken by, disabled buttons.       *)
DisabledMeansRunning ==
  enabled # Buttons => \E t \in Threads : pc[t] \in {"disable", "work", "enable"}

(* Whatever threads failed to start or wait for each other, the dialog is  *)
(* ready for another operation in the end, unless the user left.           *)
BecomesReady ==
  isThreadRunning ~> ((~isThreadRunning /\ enabled = Buttons) \/ ui = "exited")
=============================================================================
