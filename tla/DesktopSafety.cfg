SPECIFICATION DesktopSpec
CONSTANTS
  Icons <- MCIcons
  Exposed = {}
  W = 5
  H = 9
  Watched <- MCWatched
  Size <- MCSize
  Place <- MCPlace
  Holes <- MCHoles
  Arrow <- MCArrow
  Margin = 0
  Title = 3
  MaxStep = 2
  Deltas <- MCDeltas
  MaxMoves = 1
  EdgeDrags = FALSE
INVARIANTS Linked Framed IconInside Painted
PROPERTIES Stacks Clicked
