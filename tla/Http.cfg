SPECIFICATION Spec
CONSTANTS
  t1 = t1
  t2 = t2
  a = a
  b = b
  c = c
  d = d
  writer = writer
  reader = reader
  Requests = {writer, reader}
  Tenants = {t1, t2}
  RunIds = {a, b, c, d}
  InitialRuns <- OneRunEach
  Modes = {"none", "api_key"}
  Offered <- AllButAlerts
  Sends <- Clients
  Nothing = Nothing
  MaxFaults = 1
CONSTRAINT OneFails
SYMMETRY Fresh
CHECK_DEADLOCK FALSE
INVARIANTS  AuditTrailTells
