SPECIFICATION FairSpec
CONSTANTS
  PidMax = 4
  StrayFlags = {FALSE}
  Exposed = {"launch_in_halt"}
PROPERTIES FreshPid
