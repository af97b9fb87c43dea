SPECIFICATION Spec
CONSTANTS
  alice = alice
  bob = bob
  carol = carol
  here = here
  there = there
  ScratchCodes = {s1}
  Hosts <- TwoHosts
  NoHost = nohost
  MaxLogins = 1
  SixDigitCodes <- Counters
  Compute <- SameCounter
  SkewSearch = 1
  Sessions <- TwoLogins
  InitialConfigs <- GraceConfigs
  OwnerConfigs <- OwnersEdits
  TypedTokens <- GraceTokens
  Params <- GraceArguments
  Malformed = malformed
  StartTimes <- StartAtOne
  ClockSteps <- Forward
  WriteErrors <- AnyWriteError
  PowerFails = FALSE
  MaxTime = 3
  MaxInodes = 2
INVARIANTS NoBlindOverwrite
PROPERTIES GraceRooted ImplementsAtomicFile
