CONSTANTS
  w1 = w1
  w2 = w2
  o1 = o1
  o2 = o2
  clean1 = clean1
  clean2 = clean2
  stray = stray
  next = next
  sparse = sparse
  broken = broken
  file = file
  A = A
  B = B
  C = C
  D = D
  E = E
  Payloads = {clean1, clean2, stray, next, sparse, broken, file}
  Batches = {A, B, C, D, E}
  BatchOf <- MCBatchOf
  Malformed = {broken}
  Quarantined = {stray}
  Checks <- MCChecks
  BatchFailures <- MCBatchFailures
  Workers = {w1}
  Operators = {o1}
  Waivable = {}
  Feeds <- MCTwoStepFeeds
  Fixtures = {file}
  Flaky = {w1}
  MaxFaults = 1
SPECIFICATION Spec
INVARIANTS
  TypeOK
  PublishedHasLineage
  OnePublicationPerChecksum
  OutcomeIsCommitted
PROPERTIES
  PublishesAtomically
