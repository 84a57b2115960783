SPECIFICATION Spec
CONSTANTS
  take = take
  note = note
  verify = verify
  doubt = doubt
  Requests = {take, note, verify, doubt}
  Kind <- KindOf
  Decision <- DecisionOf
  Labelled = {verify, doubt}
  Policies <- AnyPolicy
  Nothing = Nothing
  MaxInFlight = 3
  MaxPuts = 1
  MaxFaults = 1
CONSTRAINT Scenario
CHECK_DEADLOCK FALSE
INVARIANTS ReviewReplaysHistory AnsweredIsLogged DecisionsAreAssigned
INVARIANTS LogMatchesHistory SampleIsFirstLabel
PROPERTIES HistoryOnlyGrows
