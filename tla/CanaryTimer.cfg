SPECIFICATION TimerSpec
CONSTANTS
  s1 = s1
  s2 = s2
  Scopes = {s1}
  Order <- OneScope
  Timer = Timer
  Clients = {c}
  c = c
  Interval = 1
  MinSample = 1
  MaxFailurePercent = 50
  Torn = Torn
  Nothing = Nothing
  MaxClock = 2
  MaxRuns = 1
  MaxEvents = 2
INVARIANTS AutomatedChecksAreSpaced DecisionsHaveGrounds
PROPERTIES AutomationAloneStaysUp DueCanaryIsEvaluated
