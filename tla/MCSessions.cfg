CONSTANTS
  c1 = c1
  c2 = c2
  c3 = c3
  p1 = p1
  p2 = p2
  Conn = {c1, c2, c3}
  Caller = {c3}
  Port = {p1, p2}
  PortOf <- MCPortOf
  MaxSessions = 2
  MaxFrames = 2
  NoEntry = NoEntry
  Null = Null
  TimedOut = TimedOut
  Invalid = Invalid
  NoReply = NoReply
  MaxCalls = 3
SPECIFICATION SessionsFairSpec
INVARIANT Undisturbed
INVARIANT LagByTimeouts
INVARIANT InOrder
PROPERTY SlotReturned
