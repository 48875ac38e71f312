CONSTANTS
  Client = {linker}
  Node = {device}
  Prop = {p1, p2}
  Value = {v1, v2}
  Default = v1
  NotSet = NotSet
  OnlyNew = {p1}
  Checks = FALSE
  MaxFail = 1
SPECIFICATION FairSpec
INVARIANT LostByCrossing
PROPERTY EventuallyWritten
