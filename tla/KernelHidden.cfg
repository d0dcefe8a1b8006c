SPECIFICATION Spec
CONSTANTS
  PidMax = 4
  StrayFlags = {FALSE}
  Exposed = {}
INVARIANTS HiddenIsSilent
