SPECIFICATION GracefulSpec
CONSTANTS
  Jobs = {1, 2, 3}
  Sessions <- OneSession
  Endpoints = {1, 2}
  Pools <- OnePool
  Job <- CoordinatorJobs
  EpPool <- AllOnGpu
  EpEstimate <- Instant
  EpReserve <- Free
  EpMaxInflight <- OneInflight
  PoolSlots <- OneSlot
  Scheduler = "edf"
  Placement = "fastest"
  Consumers = {}
  NoConsumer = none
  MaxAttempts = 3
  MaxMicrousd = 0
  Extensions <- NoExtension
  Costs = {0}
  Reachable = {1, 2}
  MaxQueue = 2
  MaxJobs = 3
  MaxTime = 2
  MaxEpoch = 1
  MaxStarts = 1
  MaxBuffer = 1
INVARIANTS TypeOK SlotAccounting QueueBounded ParentsComputedFirst
PROPERTIES NeededParentKept
CHECK_DEADLOCK FALSE
