SPECIFICATION Spec
CONSTANTS
  NPrim = 6
  Attributes = {5, 6}
  Members <- MCMembers
  Calls <- MCCalls
INVARIANTS ListsCanonical VerdictsRight PairsAccounted DupsRight ListedRight
\* the program ends
CHECK_DEADLOCK FALSE
