SPECIFICATION Spec
CONSTANTS
  ErrType = {1, 2, 3}
  Text = {"m", "cut"}
  CutText = "cut"
  File <- MCFile
  NoFile = NoFile
  Folded <- MCFolded
  Within <- MCWithin
  MaxReports = 5
  Proc = {p1, p2}
  Root = p1
  Results <- MCResults
  Tracked = {1, 2}
  PipeCap = 1
  MaxOutput = 2
  MaxKills = 2
  NULL = NULL
INVARIANTS
  AnnouncedErrorsDetected
  DetectedIsPrefix
PROPERTIES
  RemovedAfterWriting
  RunReturns
CHECK_DEADLOCK FALSE
