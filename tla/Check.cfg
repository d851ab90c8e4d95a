SPECIFICATION SystemSpec
CONSTANTS
  Types <- MCTypes
  Members <- MCMembers
  Classes <- MCClasses
  Perms <- MCPerms
  Value <- MCValue
  MaskBits = 2
  Policies <- MCBases
  Queries <- MCQueries
  Paths = {"base", "out"}
  None = None
  Unreadable = Unreadable
  Missing = Missing
  Jobs <- MCJobs
  Bases <- MCBases
  NoQuery <- MCNoQuery
INVARIANTS NoMissedGrant MatchReal AuditOfAmended
\* the programs end
CHECK_DEADLOCK FALSE
