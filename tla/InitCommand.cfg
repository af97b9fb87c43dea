SPECIFICATION FairSpec
CONSTANTS
  ScratchCodes = {s1}
  Hosts <- NoHosts
  Rejoined <- NothingRejoined
  NoHost = nohost
  MaxLogins = 1
  SixDigitCodes <- Codes
  Compute <- DistinctCompute
  SkewSearch = 1
  Calls <- AllCalls
  Files <- OldFiles
  Times <- TryTimes
INVARIANTS TypeOK FilesLoad ConfirmationAgrees NoYesNoFile
PROPERTIES InitEnds
