SPECIFICATION FairSpec
CONSTANTS
  a = a
  b = b
  None = None
  Bad = Bad
  Calls = {a, b}
  Abortable = {a}
  Cases <- SmallCases
  CasesOf <- SmallCasesOf
  BuiltIn <- Examples
  BuiltInTypes <- Types
  Threshold = 75
  MaxTriggers = 5
  HasTimeout = TRUE
CHECK_DEADLOCK FALSE
INVARIANTS LateAnswersAreDropped GuidanceIsGrounded VerifiedIsGrounded HiddenThenRestored
PROPERTIES EveryCallEnds
