SPECIFICATION Spec
CONSTANTS
  Alphabet <- Memory64Alphabet
  MaxLength = 4
  FunctionType <- NoResult
  LocalTypes <- TwoLocals
  FunctionTypes <- CallTypes
  Callees <- Suppliers
  Natives <- LastTwo
  Globals <- OneOfEach
  Memories <- BothMemories
  Tables <- BothTables
  Elements <- OneElement
  DataBlocks = 1
  HasDataCount = TRUE
  U32 = 65536
  StrayLabels <- NoStray
  ForeignTypes <- OtherModules
INVARIANT
  NeverPopsOtherType
CHECK_DEADLOCK FALSE
