CONSTANTS
  Shapes <- Both
  Signals = TRUE
  SelfEnd = TRUE
  MaxRuns = 3
  MaxAsked = 3
SPECIFICATION FairSpec
CHECK_DEADLOCK FALSE
INVARIANT RequestStands
PROPERTIES
  RunNotCutShort
  RequestEndsRun
