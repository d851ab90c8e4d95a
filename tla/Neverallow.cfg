SPECIFICATION ReadSpec
CONSTANTS
  Blocks = {"x", "y"}
  BeginOf <- MCBegin
  EndOf <- MCEnd
  Types <- MCTypes
  Members <- MCMembers
  Perms <- MCPerms
  Files <- MCFiles
INVARIANTS
  ReadRight
  FilterPreserves
\* both files are read once
CHECK_DEADLOCK FALSE
