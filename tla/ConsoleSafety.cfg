SPECIFICATION ConsoleSpec
CONSTANTS
  Rows = 3
  Cols = 2
  Keys = {"a", "b"}
  Output = "p"
  LineMax = 3
  LongLine = 0
  Exposed = {}
  Bits = 8
  Size = 9
  Strings <- MCStrings
  Formats <- MCFormats
  Board <- MCBoard
  Hands = 2
  Allowed = {}
INVARIANTS OnScreen Echoed CallsRight Typed
PROPERTIES Confined
CHECK_DEADLOCK FALSE
