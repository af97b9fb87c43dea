SPECIFICATION Spec
CONSTANTS
  alice = alice
  bob = bob
  carol = carol
  here = here
  there = there
  ScratchCodes = {s1}
  Hosts <- NoHosts
  NoHost = nohost
  MaxLogins = 1
  SixDigitCodes <- Counters
  Compute <- SameCounter
  SkewSearch = 1
  Sessions <- OneLoginEach
  InitialConfigs <- CodeAndRateConfigs
  OwnerConfigs <- NoConfigs
  TypedTokens <- CodeAndRateTokens
  Params <- Arguments
  Malformed = malformed
  StartTimes <- StartAtOne
  ClockSteps <- Forward
  WriteErrors <- OneWriteError
  PowerFails = TRUE
  MaxTime = 3
  MaxInodes = 1
SYMMETRY Logins
INVARIANTS TypeOK EachCodeOnce EachStepOnce LoginsLimited SpentOnDisk
