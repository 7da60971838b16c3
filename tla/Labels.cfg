SPECIFICATION MCSpec
CONSTANTS
  Parts = {"campaign"}
  Traces <- SampleTraces
  SlotCounts = {1, 2}
  Plans <- SamplePlans
  MaxQueue = 1
  MaxStored = 2
  Timeout = 2
  Grace = 1
  MaxTime = 8
  Inputs <- Drivers
  MaxCases = 4
  MaxAttempts = 2
  MaxJobs = 3
  Slots = 1
  Cohorts <- SampleCohorts
  MaxRows = 2
  MaxFaults = 3
  Requests = {"r1", "r2", "r3"}
  DropCount = 1
INVARIANT LabelsAfterCompletion
CHECK_DEADLOCK FALSE
