SPECIFICATION Spec
CONSTANTS
  ErrType = {1, 2, 3, 4, 5, 6}
  Text = {"m", "a", "b"}
  File <- MCFile
  NoFile = NoFile
  Folded <- MCFolded
  Within <- MCWithin
  MaxReports = 8
  NULL = NULL
  Tracked = {1, 2, 4, 5, 6}
  ERR_FILE_DESCRIPTORS = 4
  ERR_DATA_RACE = 5
  ERR_HOLD_LOCK = 6
  ValgrindLog <- MCValgrindLog
  HelgrindLog <- MCHelgrindLog
  Name = {"f", "g"}
  FileScope = FileScope
  SplintReports <- MCSplintReports
  SplintFlags <- MCSplintFlags
  Place = {"a", "b", "c"}
  FoundIn = {"c"}
  Room = 3
  SimianReports <- MCSimianReports
  Programs <- MCPrograms
  NoName = NoName
  Tools <- MCTools
  Child = {"child"}
  MaxRuns = 2
  Absent = Absent
INVARIANT
  ToolsExtractAll
