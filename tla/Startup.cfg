SPECIFICATION Spec
CONSTANTS
  Value <- MCValue
  Lower <- MCLower
  IpLiterals <- MCIpLiterals
  Inputs <- MCInputs
  MIN_IDLE_SECS = 1
  MAX_IDLE_SECS = 86400
  MIN_LATCH_IDLE_SECS = 1
  MAX_LATCH_IDLE_SECS = 86400
  DEFAULT_STATS_INTERVAL_SECS = 5
  MIN_STATS_INTERVAL_SECS = 1
  DEFAULT_DEDUP_MS = 0
  MAX_DEDUP_MS = 10000
  DEFAULT_PEER_CAPACITY = 256
  DEFAULT_TCPS_PEER_BUDGET = 64
INVARIANTS
  RunsOnlyValid
  NothingIsLost
  TomlMatchesCommandLine
  FilterMeansItsText
\* main returns, or hands over to the tasks the other modules describe.
CHECK_DEADLOCK FALSE
