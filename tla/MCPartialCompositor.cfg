SPECIFICATION Spec
CONSTANTS
  N = 3
  Inputs <- SeveralPerRank
INVARIANT TypeOK
INVARIANT ImageComplete
INVARIANT OneOwnerPerPixel
