SPECIFICATION FairSpec
CONSTANTS
  Ranks <- MCRanks
  Root = 0
  Inputs <- UniformInputs
  NumRenders = 2
  UserRange <- MCUserRange
  Inf = 9
  DoComposite = TRUE
INVARIANT TypeOK
INVARIANT CollectivesMatch
INVARIANT NoRankLeftBehind
INVARIANT RangeIsGlobal
INVARIANT FrontToBack
PROPERTY UpdateEnds
