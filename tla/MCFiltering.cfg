SPECIFICATION Spec
CONSTANTS
  Inf = 1000
  Counters <- MCCounters
  Ranks <- MCRanks
  Scenarios <- MCScenarios
INVARIANTS
  TypeOK
  CollectivesMatch
  ErrorsAgree
  NothingLeaks
  NoDangling
  CellsExact
  DomainsKept
  SlicesMerged
  AnswersTrue
  BlocksKnown
  SampleShared
PROPERTIES
  InputKept
