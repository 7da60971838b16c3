SPECIFICATION Spec
CONSTANTS
  Jobs = {1, 2}
  Sessions <- OneSession
  Endpoints = {1}
  Pools <- OnePool
  Job <- TwinJobs
  EpPool <- AllOnGpu
  EpEstimate <- Instant
  EpReserve <- QuoteTwo
  EpMaxInflight <- OneInflight
  PoolSlots <- OneSlot
  Scheduler = "fifo"
  Placement = "fastest"
  Consumers = {c1, c2}
  NoConsumer = none
  MaxAttempts = 2
  MaxMicrousd = 3
  Extensions <- LedgerExtension
  Costs = {1, 3}
  Reachable = {1}
  MaxQueue = 2
  MaxJobs = 2
  MaxTime = 1
  MaxEpoch = 1
  MaxStarts = 3
  MaxBuffer = 0
INVARIANTS ReservationsHaveTasks GenerationFence SpendWithinCeiling
PROPERTIES ImplementsLifecycle
CHECK_DEADLOCK FALSE
