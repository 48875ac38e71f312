CONSTANTS
  s1 = s1
  a1 = a1
  r1 = r1
  r2 = r2
  WithBand = TRUE
  Sensor = {s1}
  Actuator = {a1}
  Value <- MCValue
  Rule = {r1, r2}
  Conditions <- MCConditions
  Actions <- MCActions
  Remote = {}
  Manager = manager
  NoValue = NoValue
  Attempts = 2
  Passing = {s1}
  MaxQueue = 1
  MaxFail = 0
SPECIFICATION Spec
INVARIANT RulesAgree
PROPERTY FiresOnRise
PROPERTY EnforcedAgain
