CONSTANTS
  User = {u1}
  Dev = Dev
  Endpoint = {1, 2}
  NoEndpoint = NoEndpoint
  Interval <- MCInterval
  MaxTime = 2
SPECIFICATION FairSpec
INVARIANT WithinInterval
INVARIANT OneTurn
PROPERTY LostByCollision
PROPERTY LostUntilStopped
PROPERTY NoStarvation
CHECK_DEADLOCK FALSE
