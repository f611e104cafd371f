SPECIFICATION Spec
CONSTANTS
  ErrType = {1, 2}
  Text = {"m"}
  File <- RunFile
  NoFile = NoFile
  Folded <- RunFolded
  Within <- RunWithin
  MaxReports = 2
  ALLOC_INC = 8
  NULL = NULL
  JUNK = JUNK
  Lists <- RunLists
  MaxCalls = 0
  MaxFaults = 0
  PENALTY_COUNT = 3
  INF = INF
  NoDetail = NoDetail
  Unmapped = Unmapped
  PenaltyDocs <- RunDocs
  FloatGarbage = {0, 9}
  MaxPenaltyFaults = 0
  Tool = {"T1", "T2", "U"}
  Configs <- RunConfigs
PROPERTY
  Implements
