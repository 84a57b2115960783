SPECIFICATION TablesSpec
CONSTANTS
  j1 = j1
  j2 = j2
  j3 = j3
  Jobs = {j1, j2, j3}
  Analysed <- AnalysedOf
  Nothing = Nothing
  AnyUseCase = AnyUseCase
  Turns = 2
  Moments = 1
  Labels = {48}
  BaselineSpan = 2
  RecentSpan = 1
  AnalysisSpan = 2
  WindowSpan = 1
  TotalSpan = 2
  MinBaseline = 1
  MinRecent = 1
  MinPerWindow = 1
  AnalysisLimit = 2
  SampleLimit = 2
  MaxTime = 2
  MaxWriting = 1
  MaxFaults = 1
CONSTRAINT OneStoreReported
CHECK_DEADLOCK FALSE
INVARIANTS PartsFollowTheAnalysis RecommendationNeverHurts SignificantDriftIsComplete ReportsBalance
