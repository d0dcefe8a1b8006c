SPECIFICATION ProgramsSpec
CONSTANTS
  Names <- MCNames
  Lines <- MCLines
  Exit <- MCExit
  Counts = {0, 2, 4}
  Fifo = 3
  Buffer = 3
  MaxRuns = 3
  Maze <- MCMaze
  Beyond = 0
  StrayBeans = {FALSE}
  ScreenW = 36
  ScreenH = 26
  PacStart <- MCPacStart
  GhostStart <- MCGhostStart
  CountWin = 2
  StopMax = 1
INVARIANTS Heard OneSpeaks ExitMeant Straight
PROPERTIES NoneStuck NotPassed
CHECK_DEADLOCK FALSE
