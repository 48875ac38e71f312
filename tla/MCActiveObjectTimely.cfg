CONSTANTS
  NoThread = NoThread
  Caller = {c1, c2}
  Worker = {w1, w2}
  InitInTime = TRUE
  SelfStop = TRUE
SPECIFICATION FairSpec
INVARIANT OneThread
 
 
PROPERTY ImplementsLifecycle
CHECK_DEADLOCK FALSE
