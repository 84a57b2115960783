SPECIFICATION MCSpec
CONSTANTS
  r1 = r1
  r2 = r2
  r3 = r3
  Runs = {r1, r2, r3}
  Worker = w
  Callers = {c}
  None = None
  Empty = Empty
  Torn = Torn
  SampleFloor = 1
  SampleCeiling = 2
  RetentionTime = 0
  MaximumSnapshots = 2
  SentimentRequired = FALSE
  Readiness <- Wanted
  Window = 2
  MaxClock = 1
  MaxEvents = 1
  MaxDecisions = 1
  All = 0
  RejectedPacks = {2}
  Installed <- ToFind
  Configs <- ToPut
  ApplyRequests <- ToAsk
  Tasks <- ToDo
  Outcomes = {"VERIFIED"}
INVARIANTS ExportsAreRead RecommendedThresholdsAreQuiet
PROPERTIES DueScopeIsReported
