CONSTANTS
  w1 = w1
  w2 = w2
  o1 = o1
  o2 = o2
  clean1 = clean1
  clean2 = clean2
  stray = stray
  next = next
  sparse = sparse
  broken = broken
  file = file
  A = A
  B = B
  C = C
  D = D
  E = E
  Payloads = {clean1, clean2, stray, next, sparse, broken, file}
  Batches = {A, B, C, D, E}
  BatchOf <- MCBatchOf
  Malformed = {broken}
  Quarantined = {stray}
  Checks <- MCChecks
  BatchFailures <- MCBatchFailures
  Workers = {w1, w2}
  Operators = {}
  Waivable = {}
  Feeds <- MCForwardFeeds
  Fixtures = {}
  Flaky = {}
  MaxFaults = 2
SPECIFICATION FairSpec
INVARIANTS
  OneScheduledRun
  PublishedInSourceOrder
PROPERTIES
  SourceGetsServed
