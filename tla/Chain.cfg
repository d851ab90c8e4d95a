SPECIFICATION Spec
CONSTANTS
  Types <- MCTypes
  Attrs <- MCAttrs
  Base <- MCBase
  TwoPart <- MCTwoPart
  Last = 2
  At <- MCAt
  NewObjects <- MCNewObjects
  Histories <- MCHistories
INVARIANTS TypesDeclared ChainComplete
PROPERTY Finishes
\* a build ends
CHECK_DEADLOCK FALSE
