SPECIFICATION Spec
CONSTANTS
  Ranks <- MCRanks
  Root = 0
  Inputs <- MixedFieldInputs
  NumRenders = 2
  UserRange <- MCUserRange
  Inf = 9
  DoComposite = TRUE
INVARIANT NoRankLeftBehind
