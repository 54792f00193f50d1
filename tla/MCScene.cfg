SPECIFICATION FairSpec
CONSTANTS
  Ranks = {0, 1}
  Root = 0
  NumImages = 3
  MaxPlots = 3
  BatchSizes = {1, 2, 4}
INVARIANT TypeOK
INVARIANT VolumeLast
INVARIANT ImagesWhole
INVARIANT VolumeBehindOpaque
PROPERTY RenderEnds
