SPECIFICATION Spec
CONSTANTS
  v1 = v1
  v2 = v2
  ann = ann
  bob = bob
  h1 = h1
  h2 = h2
  Versions = {v1, v2}
  Actors = {ann, bob}
  Requests <- EveryRequest
  Handlers = {h1, h2}
  Nothing = Nothing
  Torn = Torn
  MaxCalls = 5
  MaxFaults = 1
CHECK_DEADLOCK FALSE
CONSTRAINT Bounded
SYMMETRY HandlerSymmetry
INVARIANTS AtMostOneActive ReleasesPassedTheirGates FilesAgree
