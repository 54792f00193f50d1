SPECIFICATION Spec
CONSTANTS
  N = 3
  Inputs <- FewPartials
INVARIANT ImageComplete
