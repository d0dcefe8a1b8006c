SPECIFICATION FairSpec
CONSTANTS
  PidMax = 4
  StrayFlags = {FALSE}
  Exposed = {"launch_at_limit"}
PROPERTIES NeverReturns
