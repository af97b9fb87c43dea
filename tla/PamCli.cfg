SPECIFICATION SliceSpec
CONSTANTS
  first = first
  second = second
  Commands <- TwoCommands
  CliOpts <- CliFlags
  alice = alice
  bob = bob
  carol = carol
  here = here
  there = there
  ScratchCodes = {s1}
  Hosts <- NoHosts
  NoHost = nohost
  MaxLogins = 1
  SixDigitCodes <- Counters
  Compute <- SameCounter
  SkewSearch = 1
  Sessions <- TwoLogins
  InitialConfigs <- CodeConfigs
  OwnerConfigs <- NoConfigs
  TypedTokens <- FewTokens
  Params <- Arguments
  Malformed = malformed
  StartTimes <- StartAtOne
  ClockSteps <- Forward
  WriteErrors <- AnyWriteError
  PowerFails = FALSE
  MaxTime = 1
  MaxInodes = 1
INVARIANTS CliTypeOK SavedWhole SpentForBoth
PROPERTIES LoginsProceed
