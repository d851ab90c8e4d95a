SPECIFICATION FairSpec
CONSTANTS
  NoValue = NoValue
  NoPolicy = NoPolicy
  Untouched = Untouched
  OtherCase <- MCOtherCase
  Lines <- MCLines
  Files <- MCFiles
  Policies <- MCPolicies
  TableSize = 4
INVARIANTS
  VerdictSound
  VerdictJustified
PROPERTIES Implements Terminates
\* the program ends
CHECK_DEADLOCK FALSE
