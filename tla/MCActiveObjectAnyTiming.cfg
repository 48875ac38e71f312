CONSTANTS
  NoThread = NoThread
  Caller = {c1, c2}
  Worker = {w1, w2, w3}
  InitInTime = FALSE
  SelfStop = TRUE
SPECIFICATION Spec
INVARIANT OneBody
INVARIANT StartNeverBlocks
PROPERTY NoThreadAfterStop
CHECK_DEADLOCK FALSE
