SPECIFICATION SerialSpec
CONSTANTS
  alice = alice
  bob = bob
  carol = carol
  here = here
  there = there
  ScratchCodes = {s1}
  Hosts <- NoHosts
  NoHost = nohost
  MaxLogins = 1
  SixDigitCodes <- Counters
  Compute <- SameCounter
  SkewSearch = 1
  Sessions <- TwoLogins
  InitialConfigs <- OneAttempt
  OwnerConfigs <- NoConfigs
  TypedTokens <- RightOrWrong
  Params <- Arguments
  Malformed = malformed
  StartTimes <- StartAtOne
  ClockSteps <- Forward
  WriteErrors <- NoWriteError
  PowerFails = FALSE
  MaxTime = 1
  MaxInodes = 1
INVARIANTS AttemptsLimited
