SPECIFICATION MCSpec
CONSTANTS
  Parts = {"sidecar", "delivery", "bridge"}
  Clients = {"c1", "c2"}
  Requests <- Routes
  Limit = 3
  FieldLimit = 2
  MaxTries = 3
  Jobs = {"still", "act"}
  Body <- Results
  Consumers = {"a", "b"}
  Offset = 1
  MapError = 1
  MapValidUntil = 2
  MaxError = 1
  Useful = 4
  Spans = {1}
  MaxTime = 5
  MaxEpoch = 1
  Sources <- Videos
  ParentDeadlines = {1, 3}
  Timeout = 2
  Margin = 1
  MapLifetime = 2
  MaxCalls = 2
  MaxReplayTime = 3
INVARIANTS BoundedAndWhole RetryAppliesOnce FreshOnDelivery ValidUntilKept OneClaimant FirstCallFinishes CompletedIsWhole IdentityStable CausalViews
CHECK_DEADLOCK FALSE
