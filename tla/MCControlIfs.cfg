SPECIFICATION Spec
CONSTANTS
  Alphabet <- IfAlphabet
  MaxLength = 7
  FunctionType <- TwoFunction
  LocalTypes <- NoTypes
  FunctionTypes <- NoTypes
  Callees <- TwoValues
  Natives = {}
  Globals <- NoTypes
  Memories <- NoTypes
  Tables <- NoTypes
  Elements <- NoTypes
  DataBlocks = 0
  HasDataCount = FALSE
  U32 = 65536
  StrayLabels <- Stray
  ForeignTypes <- NoForeign
INVARIANTS
  BranchesResolved
  ValidationIsBalanced
  ValidatedCodeIsSafe
PROPERTY
  JumpsAreStructured
CHECK_DEADLOCK FALSE
