SPECIFICATION Spec
CONSTANTS
  PidMax = 6
  StrayFlags = {TRUE, FALSE}
  Exposed = {}
INVARIANTS ResumeSafe OwnStack CorrectPage PidMaxCounts ModeMatches
PROPERTIES FreshPid HaltsItself
