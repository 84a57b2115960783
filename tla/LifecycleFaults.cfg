SPECIFICATION FaultsSpec
CONSTANTS
  j1 = j1
  j2 = j2
  w1 = w1
  w2 = w2
  l1 = l1
  l2 = l2
  plain = plain
  flagged = flagged
  reviewed = reviewed
  a1 = a1
  Jobs = {j1}
  Workers = {w1, w2}
  Loops = {l1, l2}
  WorkerOf <- OneLoopEach
  Results = {plain, flagged, reviewed}
  EngineResults = {plain, flagged}
  Flagged = {flagged}
  AnalysisOf <- Analyses
  Reviews = {a1}
  LogOf <- Decisions
  NoResult = NoResult
  Nobody = Nobody
  Timestamps = {0}
  NoRun = NoRun
  NoLoop = NoLoop
  MaxFaults = 2
  MaxStops = 1
INVARIANTS RecordMatchesStatus LogIsOnePath SentimentOfCompletedRuns OrphansNeedFaults
PROPERTIES OutcomeSpec SettledIsKept RunsSettle
