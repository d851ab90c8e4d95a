SPECIFICATION LoopSpec
CONSTANTS
  Types <- MCTypes
  Attrs <- MCAttrs
  Base <- MCBase
  TwoPart <- MCTwoPart
  Maps <- MCMaps
PROPERTY IsAtomic
CHECK_DEADLOCK FALSE
