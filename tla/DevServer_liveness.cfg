CONSTANTS
  Req = {r1, r2}
  Paths <- MCPaths
  MaxEdits = 2
SPECIFICATION FairSpec
PROPERTY NoLostChange
PROPERTY RetiredEventuallyReleased
