SPECIFICATION Spec
CONSTANTS
  Ranks = {0, 1}
  Root = 0
  NumImages = 3
  MaxPlots = 3
  BatchSizes = {1, 2, 4}
INVARIANT RenderOrder
