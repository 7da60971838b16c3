SPECIFICATION Spec
CONSTANTS
  Jobs = {1}
  Sessions <- OneSession
  Endpoints = {1}
  Pools <- OnePool
  Job <- OneJob
  EpPool <- AllOnGpu
  EpEstimate <- Instant
  EpReserve <- QuoteTwo
  EpMaxInflight <- OneInflight
  PoolSlots <- OneSlot
  Scheduler = "slack"
  Placement = "fastest"
  Consumers = {c1}
  NoConsumer = none
  MaxAttempts = 1
  MaxMicrousd = 2
  Extensions <- NoExtension
  Costs = {1}
  Reachable = {1}
  MaxQueue = 1
  MaxJobs = 1
  MaxTime = 1
  MaxEpoch = 0
  MaxStarts = 2
  MaxBuffer = 0
PROPERTIES SettledIsFinal
CHECK_DEADLOCK FALSE
