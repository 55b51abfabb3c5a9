CONSTANTS
  Routes <- MCRoutes
  Paths <- MCPaths
  ParamSegs = {":id"}
  I32Segs = {"7"}
  ErrStatuses = {500}
SPECIFICATION Spec
INVARIANT PostTierSeparation
INVARIANT GetTierSeparation
