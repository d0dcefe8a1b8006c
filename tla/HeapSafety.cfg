SPECIFICATION Spec
CONSTANTS
  Bottom = 15
  Top = 6
  Word = 18
  Sizes = {1, 2, 4, 9}
  NodeMax = 7
  Exposed = {"refusal"}
INVARIANTS Accounted
PROPERTIES FitFound Allocates
