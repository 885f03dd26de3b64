SPECIFICATION Spec
CONSTANTS
  Files <- AllFiles
  Names = {"host", "a"}
  HostName = "host"
  HostFile <- Host
  MaxCells = 3
  U64 = 6
  MaxInstances = 3
  NoMax = NoMax
INVARIANTS
  TypeOK
  ValidatedModulesLoad
  ImportedLimitsHold
  OnlyReadyModulesVisible
  ReferencesNameFunctions
PROPERTIES
  LoadsEnd
\* The bound on the instances stops the run.
CHECK_DEADLOCK FALSE
