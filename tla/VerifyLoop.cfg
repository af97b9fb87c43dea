SPECIFICATION SliceSpec
CONSTANTS
  ScratchCodes = {s1}
  Hosts <- NoHosts
  NoHost = nohost
  MaxLogins = 1
  SixDigitCodes <- DistinctCodes
  Compute <- EarlyCompute
  SkewSearch = 3
  InitialConfigs <- AllConfigs
  OptionSets <- AllOptions
  TypedTokens <- AllTokens
  StartTimes <- AllStarts
  ClockSteps <- Forward
  MaxTime = 46
  MaxCalls = 5
INVARIANTS TypeOK HotpInv TotpInv RateInv
PROPERTIES HotpNoReplay TotpNoReplay LimiterRefinement SkewNeedsThreeSteps AdaptedSkewFits
CHECK_DEADLOCK FALSE
