CONSTANTS
  MaxBuilds = 3
SPECIFICATION Spec
INVARIANT SuccessMeansFresh
