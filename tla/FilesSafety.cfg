SPECIFICATION SysSpec
CONSTANTS
  Dentries <- MCDentries
  Inode <- MCInode
  Data <- MCData
  BlockSize = 2
  Magic = "g"
  HighFd = 4
  Sizes = {1, 3}
  LoadSize = 3
  IrqNames = {"text", "prog"}
  Exposed = {}
  Spell <- MCSpell
  FieldSize = 4
  Hello = "prog"
  Shell = "text"
INVARIANTS Passes
PROPERTIES Serves LoadsNamed
