CONSTANTS
  Sockets = 2
  Sensors = 3
  Tries = 3
  OK = OK
  ERROR = ERROR
  NoNetwork = NoNetwork
  None = None
  MaxBehind = 2
  MaxFail = 8
SPECIFICATION FairSpec
INVARIANT ConnectFirst
INVARIANT NoneSkipped
PROPERTY Reconnects
