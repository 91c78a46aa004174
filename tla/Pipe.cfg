SPECIFICATION PipeFairSpec
CONSTANTS
  p1 = p1
  p2 = p2
  p3 = p3
  x = x
  y = y
  Process <- MCProcess
  Cell <- MCCell
  Docs <- MCDocs
  Tag = Tag
  None = None
  REPAIR = 1
  GIVEUP = 2
INVARIANTS
  PipeTypeOK
  FileIsLast
PROPERTIES
  IsRegister
  NoWriteIsDropped
  WritesEnd
