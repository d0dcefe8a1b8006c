SPECIFICATION FairSpec
CONSTANTS
  PidMax = 4
  StrayFlags = {FALSE}
  Exposed = {}
INVARIANTS ScreenOwned PacmanEscapable
PROPERTIES Scheduled LineServed
