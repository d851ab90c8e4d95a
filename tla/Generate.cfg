SPECIFICATION ScriptSpec
CONSTANTS
  Types <- MCTypes
  Attrs <- MCAttrs
  Base <- MCBase
  TwoPart <- MCTwoPart
  At <- MCAt
  Latest = 1
  Target = 2
  NewObjects <- MCNewObjects
  NewObjectsType = "new_objects"
  Inputs <- MCInputs
  MaxRuns = 2
  Sources <- MCSources
INVARIANTS SameTreatment NewTypesCovered LatestKept InStep NothingTwice
\* the last run ends
CHECK_DEADLOCK FALSE
