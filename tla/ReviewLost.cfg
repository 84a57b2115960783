SPECIFICATION Spec
CONSTANTS
  take = take
  note = note
  verify = verify
  doubt = doubt
  Requests = {take, note, verify}
  Kind <- KindOf
  Decision <- DecisionOf
  Labelled = {verify}
  Policies <- AnyPolicy
  Nothing = Nothing
  MaxInFlight = 2
  MaxPuts = 0
  MaxFaults = 0
CHECK_DEADLOCK FALSE
INVARIANT AnsweredIsPersisted
