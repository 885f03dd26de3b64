SPECIFICATION Spec
CONSTANTS
  Alphabet <- OperandAlphabet
  MaxLength = 4
  FunctionType <- NoResult
  LocalTypes <- TwoLocals
  FunctionTypes <- CallTypes
  Callees <- Suppliers
  Natives <- LastTwo
  Globals <- OneOfEach
  Memories <- BothMemories
  Tables <- BothTables
  Elements <- OneElement
  DataBlocks = 1
  HasDataCount = TRUE
  U32 = 65536
  StrayLabels <- NoStray
  ForeignTypes <- OtherModules
INVARIANTS
  ValidatedCodeIsSafe
CHECK_DEADLOCK FALSE
