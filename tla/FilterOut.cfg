SPECIFICATION Spec
CONSTANTS
  Text <- MCText
  Inputs <- MCInputs
  PatternSets <- MCPatternSets
  NewLine = "empty"
  MaxRuns = 3
INVARIANTS
  MarksRight
  FilteredExactly
  ContextPreserved
  Idempotent
\* MaxRuns ends the calls
CHECK_DEADLOCK FALSE
