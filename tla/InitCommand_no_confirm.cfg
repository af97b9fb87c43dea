SPECIFICATION Spec
CONSTANTS
  ScratchCodes = {s1}
  Hosts <- NoHosts
  Rejoined <- NothingRejoined
  NoHost = nohost
  MaxLogins = 1
  SixDigitCodes <- Codes
  Compute <- DistinctCompute
  SkewSearch = 1
  Calls <- NoConfirmCalls
  Files <- OldFiles
  Times <- TryTimes
INVARIANTS NoConfirmNeverAsks
