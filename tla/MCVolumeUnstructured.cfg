SPECIFICATION Spec
CONSTANTS
  Ranks <- MCRanks
  Root = 0
  Inputs <- UnstructuredInputs
  NumRenders = 2
  UserRange <- MCUserRange
  Inf = 9
  DoComposite = TRUE
INVARIANT CollectivesMatch
