CONSTANTS
  User = {u1, u2}
  Topic = {1, 2}
  NoTopic = NoTopic
  MaxFail = 2
SPECIFICATION FairSpec
INVARIANT AllSubscribed
INVARIANT NoFalseUp
PROPERTY EndsDown
PROPERTY EventuallyUp
PROPERTY EventuallySubscribed
CHECK_DEADLOCK FALSE
