CONSTANTS
  c1 = c1
  c2 = c2
  c3 = c3
  Clients = {c1, c2, c3}
  MaximumRequests = 2
  WindowSeconds = 2
  MaximumBuckets = 2
  TicksPerSecond = 2
  MaxTime = 6
SPECIFICATION Spec
SYMMETRY Hosts
INVARIANTS
  WindowBound
  MemoryBounded
  RetryAfterSuffices
CHECK_DEADLOCK FALSE
