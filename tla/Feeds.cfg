SPECIFICATION FairSpec
CONSTANTS
  r1 = r1
  r2 = r2
  c1 = c1
  c2 = c2
  q1 = q1
  s1 = s1
  Runs = {r1, r2}
  Callers = {c1, c2, q1}
  Readers = {q1}
  Streams = {s1}
  Nothing = Nothing
  InitialRows <- Found
  ScopeOf <- UseCaseOf
  DefaultScope = "support"
  Targets = {1, 2}
  DefaultTarget = 2
  MaxFlights = 2
  MaxPuts = 1
  MaxFaults = 1
  MaxWrites = 2
  MaxTime = 2
CONSTRAINT Bounded
CHECK_DEADLOCK FALSE
INVARIANTS CallsApartLoseNothing StreamTellsEachOnce AnalyticsAddUp
PROPERTY OpenStreamCatchesUp
