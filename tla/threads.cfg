SPECIFICATION FairSpec
CONSTANTS
  Threads = {t1, t2, t3}
  Buttons = {b1, b2}
  NoThread = nothread
INVARIANTS
  OneOperationAtATime
PROPERTY BecomesReady
CHECK_DEADLOCK FALSE
