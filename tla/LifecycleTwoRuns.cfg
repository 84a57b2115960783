SPECIFICATION Spec
CONSTANTS
  j1 = j1
  j2 = j2
  w1 = w1
  w2 = w2
  l1 = l1
  l2 = l2
  plain = plain
  flagged = flagged
  reviewed = reviewed
  a1 = a1
  Jobs = {j1, j2}
  Workers = {w1}
  Loops = {l1, l2}
  WorkerOf <- TwoLoopsOneWorker
  Results = {flagged, reviewed}
  EngineResults = {flagged}
  Flagged = {flagged}
  AnalysisOf <- Analyses
  Reviews = {}
  LogOf <- Decisions
  NoResult = NoResult
  Nobody = Nobody
  Timestamps = {0}
  NoRun = NoRun
  NoLoop = NoLoop
  MaxFaults = 1
  MaxStops = 1
SYMMETRY JobSymmetry
INVARIANTS ExclusiveProcessing QuietLogTellsOutcome
