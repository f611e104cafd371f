SPECIFICATION Spec
CONSTANTS
  ErrType = {1, 2}
  Text = {"m"}
  File <- MCFile
  NoFile = NoFile
  Folded <- MCFolded
  Within <- MCWithin
  MaxReports = 5
  ALLOC_INC = 4
  NULL = NULL
  JUNK = JUNK
  Lists <- MCLists
  MaxCalls = 3
  MaxFaults = 1
  PENALTY_COUNT = 3
  INF = INF
  NoDetail = NoDetail
  Unmapped = Unmapped
  PenaltyDocs <- MCPenaltyDocs
  FloatGarbage = {0, 9}
  MaxPenaltyFaults = 1
  MAX_BUFF_SIZE = 4
  Args <- MCArgs
  Buff = 12
  Stamp = 3
  RBC_TAG = 2
  Tool <- MCTool
  Length <- MCLength
INVARIANTS
  ListKept
  VectorUnique
  NothingLost
  UndefinedOnlyAtLimit
  SortedWhenDone
  TableFollowsConfig
  ArgumentsFit
  BlocksReleased
  MessageFits
