SPECIFICATION CfgSpec
CONSTANTS
  Tool = {"t1", "t2"}
  ErrId = {"1", "2"}
  Source = {"f", "g"}
  Argument = {"a"}
  Executable = {"x", "y"}
  Detail = {"d", "e"}
  None = None
  Unset = Unset
  Torn = Torn
  MaxOps = 4
  MaxCrashes = 1
INVARIANTS
  StartupRunnable
  ConfiguredIsRead
  AcknowledgedStored
PROPERTY
  CompletedRunHeals
CHECK_DEADLOCK FALSE
