SPECIFICATION Spec
CONSTANTS
  a = a
  Space = Space
  Chars <- MCChars
  Files <- MCFiles
  Nul = Nul
  Newline = Newline
  BufMax = 3
  HistoryMax = 3
  Exposed = {}
PROPERTIES LineDelivered Edits
