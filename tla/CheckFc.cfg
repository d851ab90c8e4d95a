SPECIFICATION TestSpec
CONSTANTS
  Attributes <- MCAttributes
  Exempt = "exempt"
  Cases <- MCCases
  Inputs <- MCInputs
  Denoted <- MCDenoted
  Policy <- MCPolicy
  Idle <- MCIdle
  COMMON_PREFIXES <- MCCommonPrefixes
  AttrTests <- MCAttrTests
  Domains <- MCDomains
  CoredomainAllowlist = {"init_d"}
  VendorPaths <- MCVendorPaths
  SystemPaths <- MCSystemPaths
  SystemPath <- MCSystemPath
  SystemVendor <- MCSystemVendor
INVARIANTS AcceptedRight TwoMeansRight BinValid Precedence TestsMean
\* the program ends
CHECK_DEADLOCK FALSE
