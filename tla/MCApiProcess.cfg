CONSTANTS
  r1 = r1
  r2 = r2
  r3 = r3
  d1 = d1
  d2 = d2
  Requests = {r1, r2, r3}
  Loads <- MCLoads
  Chunkers = {"fixed", "structure"}
  FixedChunker = "fixed"
  Documents = {d1, d2}
  MaxVersions = 1
  Places = 1
  MaxRestarts = 1
  None = None
SPECIFICATION FairSpec
INVARIANTS
  PlacesAddUp
  LockHeldByReader
  IndexIsASnapshot
  FailsClosed
  MetricsAddUp
PROPERTIES
  RequestsEnd
CHECK_DEADLOCK FALSE
