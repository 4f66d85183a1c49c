SPECIFICATION PppSpec
CONSTANTS
  PppIps = {1}
  requested_mru = 2
  Mrus = {1, 3}
  MAX_DISCOVERY_RETRIES = 1
  MAX_LCP_RETRIES = 1
  MAX_AUTH_RETRIES = 1
  MAX_NCP_RETRIES = 1
  MAX_ECHO_FAILURES = 1
  DEFAULT_TIMEOUT = 2
  LCP_ECHO_INTERVAL = 2
  BackoffCap = 1
  MaxPppRuns = 2
INVARIANT PppInv
CHECK_DEADLOCK FALSE
PROPERTIES PppStopEnds PhasesEnd
