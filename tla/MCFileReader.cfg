SPECIFICATION Spec
CONSTANTS
  Sections <- MCSections
  Garbled = Garbled
  NoIndex = NoIndex
  U32Max = 2
  MaxReads = 2
  MaxSections = 4
INVARIANTS
  AritiesStay
  ParsedForItsFile
  NothingLost
  ValidatorStaysDefined
\* The bound on the files read stops the run.
CHECK_DEADLOCK FALSE
