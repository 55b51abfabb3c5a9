CONSTANTS
  Req = {r1, r2}
  Paths <- MCPaths
  MaxEdits = 3
SYMMETRY MCSymmetry
SPECIFICATION Spec
INVARIANT TypeOK
INVARIANT HandleSafety
INVARIANT ServedNotOlderThanNotified
INVARIANT ReadyServesLatest
PROPERTY ActiveMonotonic
