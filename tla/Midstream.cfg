SPECIFICATION MCSpec
CONSTANTS
  Parts = {"http"}
  None = None
  MaxLines = 3
  Calls <- SampleCalls
  Scripts <- SampleScripts
  MaxResponse = 15
  Counts = {0, 1, 3}
  Rates = {0, 1, 4}
  Reserves = {0, 1}
  Charges <- SampleCharges
  Million = 3
  Importers = {"i1", "i2"}
  Coordinator = "coordinator"
  Attempts = {1, 2, 3}
  Exports <- SampleExports
  MaxBytes = 3
  MaxRecords = 2
  MaxCap = 1
  Free = "free"
  Keys = {"k1", "k2", "k3"}
  NoKey = "uncacheable"
  Payloads = {"small", "medium", "large", "oversized"}
  Size <- PayloadSize
  MaxEntries = 2
  MaxCached = 3
  TtlNs = 2
  MaxTime = 3
INVARIANT KnownMeansOver
CHECK_DEADLOCK FALSE
