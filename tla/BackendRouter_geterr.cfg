CONSTANTS
  Routes <- MCRoutes
  Paths <- MCPaths
  ParamSegs = {":id"}
  I32Segs = {"7"}
  ErrStatuses = {400, 500}
SPECIFICATION Spec
INVARIANT GetInternalFailureIs500
