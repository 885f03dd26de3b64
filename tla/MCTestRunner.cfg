SPECIFICATION Spec
CONSTANTS
  Names = {"spectest", "a"}
  HostName = "spectest"
  MaxCommands = 5
INVARIANTS
  CountsAddUp
  ActionsRunWhereMeant
  CrashesExplained
\* A test file ends.
CHECK_DEADLOCK FALSE
