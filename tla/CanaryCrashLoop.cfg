SPECIFICATION FairSpec
CONSTANTS
  s1 = s1
  s2 = s2
  Scopes = {s1, s2}
  Order <- TwoScopes
  Timer = Timer
  Clients = {}
  c = c
  Interval = 1
  MinSample = 1
  MaxFailurePercent = 50
  Torn = Torn
  Nothing = Nothing
  MaxClock = 1
  MaxRuns = 0
  MaxEvents = 1
PROPERTIES CanaryEvaluationIsPeriodic
