CONSTANTS
  Caller = {device, manager}
  MaxRequest = 3
SPECIFICATION SnmpFairSpec
INVARIANT OwnAnswer
PROPERTY CallsEnd
CHECK_DEADLOCK FALSE
