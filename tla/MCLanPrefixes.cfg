SPECIFICATION PrefixSpec
CONSTANTS
  PdPrefixes = {1, 2}
  Narrow = {}
  Terms <- ChainTerms
  T2_DEFAULT = 4
  SOLICIT_LIMIT = 1
  REQUEST_LIMIT = 0
  MAX_CONNECT_BACKOFF = 1
  PdEventRoom = 1
  MaxPdRuns = 1
  TooLong = {2}
  BroadcastRoom = 1
  MaxLanRuns = 1
INVARIANTS PdInv LanInv
PROPERTIES PdLive WithdrawnReachesLan
CHECK_DEADLOCK FALSE
