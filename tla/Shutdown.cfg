SPECIFICATION FairSpec
CONSTANTS
  Jobs = {1, 2}
  Sessions <- OneSession
  Endpoints = {1}
  Pools <- OnePool
  Job <- FamilyJobs
  EpPool <- AllOnGpu
  EpEstimate <- Instant
  EpReserve <- Free
  EpMaxInflight <- OneInflight
  PoolSlots <- OneSlot
  Scheduler = "slack"
  Placement = "fastest"
  Consumers = {}
  NoConsumer = none
  MaxAttempts = 2
  MaxMicrousd = 0
  Extensions <- NoExtension
  Costs = {0, 1}
  Reachable = {1}
  MaxQueue = 2
  MaxJobs = 2
  MaxTime = 1
  MaxEpoch = 1
  MaxStarts = 2
  MaxBuffer = 0
INVARIANTS UnconfirmedWorkQuarantined
PROPERTIES SettledIsFinal EveryJobResolved EverySlotReturned ShutdownTerminates
CHECK_DEADLOCK FALSE
