CONSTANTS
  s1 = s1
  a1 = a1
  r1 = r1
  r2 = r2
  WithBand = FALSE
  Sensor = {s1}
  Actuator = {a1}
  Value <- MCSteady
  Rule = {r1}
  Conditions <- MCConditions
  Actions <- MCActions
  Remote = {rcs}
  Manager = manager
  NoValue = NoValue
  Attempts = 2
  Passing = {}
  MaxQueue = 1
  MaxFail = 1
SPECIFICATION FairSpec
PROPERTY EventuallyEnforced
