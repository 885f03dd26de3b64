SPECIFICATION Spec
CONSTANTS
  Alphabet <- LoopAlphabet
  MaxLength = 6
  FunctionType <- IntFunction
  LocalTypes <- NoTypes
  FunctionTypes <- NoTypes
  Callees <- NoTypes
  Natives = {}
  Globals <- NoTypes
  Memories <- NoTypes
  Tables <- NoTypes
  Elements <- NoTypes
  DataBlocks = 0
  HasDataCount = FALSE
  U32 = 65536
  StrayLabels <- Stray
  ForeignTypes <- NoForeign
INVARIANTS
  TypeOK
  BranchesResolved
  ValidationIsBalanced
  HeightsNested
  ValidatedCodeIsSafe
PROPERTY
  JumpsAreStructured
CHECK_DEADLOCK FALSE
