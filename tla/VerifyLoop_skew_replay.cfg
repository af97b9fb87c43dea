SPECIFICATION Spec
CONSTANTS
  ScratchCodes <- NoScratchCodes
  Hosts <- NoHosts
  NoHost = nohost
  MaxLogins = 1
  SixDigitCodes <- DistinctCodes
  Compute <- DistinctCompute
  SkewSearch = 3
  InitialConfigs <- SkewReuseConfigs
  OptionSets <- SkewOptions
  TypedTokens <- SkewTokens
  StartTimes <- StartAtThree
  ClockSteps <- Forward
  MaxTime = 6
  MaxCalls = 4
PROPERTIES TotpNoReplay
CHECK_DEADLOCK FALSE
