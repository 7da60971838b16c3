SPECIFICATION GracefulSpec
CONSTANTS
  Jobs = {1, 2}
  Sessions <- OneSession
  Endpoints = {1}
  Pools <- OnePool
  Job <- ReplacementJobs
  EpPool <- AllOnGpu
  EpEstimate <- Instant
  EpReserve <- Free
  EpMaxInflight <- OneInflight
  PoolSlots <- OneSlot
  Scheduler = "slack"
  Placement = "fastest"
  Consumers = {c1}
  NoConsumer = none
  MaxAttempts = 2
  MaxMicrousd = 0
  Extensions <- NoExtension
  Costs = {0}
  Reachable = {1}
  MaxQueue = 2
  MaxJobs = 2
  MaxTime = 1
  MaxEpoch = 0
  MaxStarts = 1
  MaxBuffer = 0
PROPERTIES NeededParentKept
CHECK_DEADLOCK FALSE
