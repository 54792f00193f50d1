SPECIFICATION Spec
CONSTANTS
  N = 6
  K = 2
  Inputs <- MCInputs
INVARIANT TypeOK
INVARIANT PiecesFit
INVARIANT NearestShown
INVARIANT BlendedInOrder
INVARIANT Premultiplied
INVARIANT PartnersAgree
