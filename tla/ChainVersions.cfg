SPECIFICATION Spec
CONSTANTS
  Types <- MCTypes
  Attrs <- MCAttrs
  Base <- MCBase
  TwoPart <- MCOnePart
  Last = 2
  At <- MCAt
  NewObjects <- MCNewObjects
  Histories <- MCHistories
INVARIANTS RemovedDeclared

\* a build ends
CHECK_DEADLOCK FALSE
