SPECIFICATION CfgSpec
CONSTANTS
  Tool = {"t1", "t2"}
  ErrId = {"1"}
  Source = {"f"}
  Argument = {"a"}
  Executable = {"x", "y"}
  Detail = {"d", "e"}
  None = None
  Unset = Unset
  Torn = Torn
  MaxOps = 3
  MaxCrashes = 0
INVARIANT
  RegisteredParametersPassed
CHECK_DEADLOCK FALSE
