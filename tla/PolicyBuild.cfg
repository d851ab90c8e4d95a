SPECIFICATION Spec
CONSTANTS
  Types <- MCTypes
  Current = "current"
  Versions <- MCVersions
  Sources <- MCSources
  Cases <- MCCases
  Exempt = {"odm"}
  Edits <- MCEdits
  MaxFaults <- MCMaxFaults
  MaxBuilds = 2
INVARIANTS
  SplitEqualsWhole
  VendorIndependent
  PermissiveChecked
  NeverallowsHold
  NothingStale
  BuildCilAgrees
\* a build ends
CHECK_DEADLOCK FALSE
