SPECIFICATION Spec
CONSTANTS
  Function = {"malloc", "fork"}
  Chopped = Chopped
  Files <- MCFiles
  BL_SIZE_INC = 5
  PTR = 2
  Functions <- MCFunctions
  Var = {"v", "w"}
  NoVar = NoVar
  Sources <- MCSources
  MaxLineCount = 3
  MaxIndentLevel = 2
INVARIANTS
  BlackListExact
  OmissionsReported
  ComplaintsJustified
  LineScanSound
  SummaryIsOwn
