SPECIFICATION Spec
CONSTANTS
  Alphabet <- IfBranchAlphabet
  MaxLength = 7
  FunctionType <- NoResult
  LocalTypes <- NoTypes
  FunctionTypes <- NoTypes
  Callees <- NoTypes
  Natives = {}
  Globals <- NoTypes
  Memories <- NoTypes
  Tables <- NoTypes
  Elements <- NoTypes
  DataBlocks = 0
  HasDataCount = FALSE
  U32 = 65536
  StrayLabels <- Stray
  ForeignTypes <- NoForeign
INVARIANT
  NeverPopsEmpty
CHECK_DEADLOCK FALSE
