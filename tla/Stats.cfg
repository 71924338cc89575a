SPECIFICATION FairSpec
CONSTANTS
  Ids = {e1, e2}
  Enabled = TRUE
  QueueCapacity = 1
  ChannelCapacity = 2
  POST_CANCEL_DRAIN = 1
  PER_TASK_DRAIN = 2
  SHUTDOWN_GRACE = 3
  MaxTicks = 1
  MaxCount = 1
INVARIANTS
  TerminalAccounted
  OutputOrdered
  EndStateReported
  AbortOnlyIfStalled
PROPERTIES
  ShutdownReturns
CHECK_DEADLOCK FALSE
