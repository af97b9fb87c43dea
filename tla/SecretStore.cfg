SPECIFICATION Spec
CONSTANTS
  ScratchCodes = {s1}
  plain = plain
  spaced = spaced
  blank = blank
  other = other
  Hosts <- RemoteHosts
  Rejoined <- RejoinedHosts
  NoHost = nohost
  MaxLogins = 2
  InitialConfigs <- StoreConfigs
  Times <- LoginTimes
  UsedCounters <- OneCounter
  Skews <- Skew
INVARIANTS TypeOK RoundTrip
PROPERTIES OrderIrrelevant
