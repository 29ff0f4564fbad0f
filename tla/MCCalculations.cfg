CONSTANTS
  Unit = 100
  ChunkSize = 3
  Rounds = 10
  LateArticle = 3
  EarlyArticle = 1
  Naming <- MCNaming
  ScoreRequests <- MCScoreRequests
  SensitivityRequests <- MCSensitivityRequests
  FeatureTables <- MCFeatureTables
  ClusterRequests <- MCClusterRequests
  Editions <- MCEditions
  Indexes <- MCIndexes
  Questions <- MCQuestions
SPECIFICATION Spec
INVARIANTS
  RankingIsFair
  SensitivityIsComplete
  SimilarityIsMutual
  ClustersAreAgreed
  TextIsKept
  HitsAreEarned
  AnswersAreCited
CHECK_DEADLOCK FALSE
