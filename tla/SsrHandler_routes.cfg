CONSTANTS
  Paths <- MCPaths
  Undefined = Undefined
SPECIFICATION Spec
INVARIANT PageRoutesRender
