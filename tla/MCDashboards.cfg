CONSTANTS
  r1 = r1
  o1 = o1
  o2 = o2
  Contracts <- MCContracts
  Indicators <- MCIndicators
  Readers = {r1}
  Loads <- MCLoads
  Operators = {o1, o2}
  ClosedStatuses = {"resolved"}
  PeriodsOf <- MCPeriodsOf
  MaxRuns = 3
  MaxUpdates = 2
  FreshnessSla = 0
  MaxTime = 1
SPECIFICATION Spec
SYMMETRY Colleagues
INVARIANTS
  OpenIncidentIsCritical
  FailureShows
  VersionsAreGoodAndCurrent
  PartsAreOfOneVersion
  ResolutionIsStamped
CONSTRAINTS
  SomebodyReads
  SeenByReport
CHECK_DEADLOCK FALSE
