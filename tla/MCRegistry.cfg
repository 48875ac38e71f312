CONSTANTS
  Client = {linker, session}
  Gateway = {g1}
  Device = {d1}
  Endpoint = {e1}
  Rule = {r1}
  NoParent = NoParent
  Absent = Absent
  NoCall = NoCall
  MaxCopies = 2
SPECIFICATION Spec
 
INVARIANT Heard
 
 
CHECK_DEADLOCK FALSE
SYMMETRY ClientsAlike
