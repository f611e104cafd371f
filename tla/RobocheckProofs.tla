--------------------------- MODULE RobocheckProofs ---------------------------
(***************************************************************************)
(* Proofs about a whole run of robocheck, for every configuration, every   *)
(* number of tools and errors and every sequence of failed allocations.    *)
(* What the vector, the tools' lists and the penalty table guarantee by    *)
(* themselves is taken from the proofs about these components.             *)
(***************************************************************************)
EXTENDS Robocheck, LibraryProofs, TLAPS

\* What the components are doing where the program is.
ControlInv ==
  /\ pc \in {"start", "penalty", "run", "loop", "tool", "collect"} => phase = "idle"
  /\ pc = "adding" => phase \in {"idle", "adding", "undefined"}
  /\ pc = "sort" => phase \in {"sorting", "sorted", "undefined"}
  /\ pc = "report" => phase = "sorted"
  /\ pc \in {"close", "log", "undefined"} => phase \in {"idle", "sorted"}
  /\ pc = "free" => phase \in {"idle", "sorted", "undefined"}
  /\ pc = "done" => phase = "freed"
  /\ pc = "start" => pstate = "unset"
  /\ pc = "penalty" => pstate # "freed" /\ lib = "open"
  /\ pc \notin {"start", "penalty"} => pstate \notin {"filling", "undefined"}
  /\ apply => /\ pc \notin {"start", "penalty"} /\ lib # "none"
              /\ pc \notin {"log", "free", "done", "undefined"} => pstate = "ready"

\* How much of the report stdout holds.
OutputInv ==
  /\ pc \in {"close", "log", "free", "done"} => json # "open"
  /\ pc = "report" => json = "open"
  /\ pc \in {"sort", "report"} => apply
  /\ pc \notin {"report", "close", "log", "free", "done", "undefined"} =>
       json = "none" /\ printed = <<>>
  /\ json = "none" => printed = <<>>

\* Every reference dlopen gave out is in the table of handles.
HandlesInv == refs = IF pc = "done" THEN 0 ELSE handlers

\* A tool that was called has left a block behind, unless there was no memory.
SilenceInv ==
  /\ pc \in {"start", "penalty", "run"} => ran = <<>>
  /\ pc = "tool" => ran # <<>>
  /\ pc \in {"loop", "adding"} => ran = <<>> \/ cap > 0 \/ faults > 0
  /\ pc \in {"close", "log", "free", "done"} /\ json = "none" =>
       ~apply \/ ran = <<>> \/ faults > 0

\* update_errors' positions: slots before ri have been read and hold errors,
\* from start on they have the same code, and codes change at start.
ScanInv ==
  pc = "report" =>
    /\ start <= ri /\ (start = ri => ri = 1)
    /\ ri <= Len(out) + 2
    /\ ri = Len(out) + 2 => start = Len(out) + 1
    /\ \A k \in 1..Len(out) : k < ri => IsError(k)
    /\ \A k \in 1..Len(out) : start <= k /\ k < ri =>
         out[k].err_type = out[start].err_type
    /\ \A k, m \in 1..Len(out) :
         k < start /\ start <= m /\ out[k] \in Finding /\ out[m] \in Finding =>
           out[k].err_type < out[m].err_type

\* The slots a..b are all the errors of code t.
IsGroup(t, a, b) ==
  /\ a \in 1..Len(out) /\ b \in 1..Len(out) /\ a <= b
  /\ \A k \in 1..Len(out) :
       out[k] \in Finding => (out[k].err_type = t <=> k \in a..b)

\* The groups printed so far are the slots before start.
GroupsInv ==
  pc = "report" /\ faults = 0 =>
    /\ \A k \in 1..Len(out) : k < start =>
         \E g \in 1..Len(printed) : out[k] \in Members(g)
    /\ \A g \in 1..Len(printed) : \E a, b \in 1..Len(out) :
         /\ IsGroup(printed[g].type, a, b) /\ b < start
         /\ printed[g].members = SubSeq(out, a, b)
    /\ \A g, h \in 1..Len(printed) : g < h => printed[g].type < printed[h].type
    /\ \A g \in 1..Len(printed), k \in 1..Len(out) :
         start <= k /\ out[k] \in Finding => printed[g].type < out[k].err_type
    /\ \A g \in 1..Len(printed) :
         printed[g].comma <=> g < Len(printed) \/ start <= Len(out)

-----------------------------------------------------------------------------
(* The components keep their invariants inside a run. *)

ComponentsInv == ListInv /\ VecInv /\ ShrunkInv /\ PenInv

\* Steps of the main program alone.
LEMMA ComponentsStutter ==
  ASSUME ComponentsInv
  PROVE  /\ UNCHANGED listVars => ListInv'
         /\ UNCHANGED vecVars => VecInv' /\ ShrunkInv'
         /\ UNCHANGED penVars => PenInv'
<1>1. UNCHANGED listVars => ListInv'
  BY DEF ComponentsInv, listVars, ListInv, ListTypeOK, ListUnique, SizeCoversList
<1>2. UNCHANGED vecVars => VecInv' /\ ShrunkInv'
  BY StutterPreserves, OtherStepShowsShrunk DEF ComponentsInv
<1>3. UNCHANGED penVars => PenInv'
  BY OtherPenaltyStepPreserves DEF ComponentsInv
<1>. QED
  BY <1>1, <1>2, <1>3

\* apply_penalty's failed allocation counts as a fault and nothing else.
LEMMA FaultPreserves ==
  ASSUME VecInv, ShrunkInv, faults' \in {faults, faults + 1},
         UNCHANGED <<out, cap, inc, phase, pending, si, sj, calls, handed>>
  PROVE  VecInv' /\ ShrunkInv'
<1>1. faults \in Nat /\ (faults' = faults \/ faults' # 0) /\ faults' \in Nat
      /\ (faults > 0 => faults' > 0)
  BY DEF VecInv, VecTypeOK
<1>2. VecTypeOK'
  BY <1>1 DEF VecInv, VecTypeOK
<1>3. VectorUnique' /\ SortInv'
  BY DEF VecInv, VectorUnique, SortInv
<1>4. BlockInv' /\ NothingLost' /\ LimitInv' /\ ShrunkInv'
  BY <1>1 DEF VecInv, BlockInv, NothingLost, LimitInv, ShrunkInv, FirstBlock, Live
<1>5. UndefinedOnlyAtLimit'
  BY <1>1 DEF VecInv, UndefinedOnlyAtLimit
<1>. QED
  BY <1>2, <1>3, <1>4, <1>5 DEF VecInv

\* Whatever the run does with its components, each keeps its own invariant:
\* the main program calls their operations as they expect.
LEMMA ComponentsPreserved ==
  ASSUME ComponentsInv, [Next]_vars
  PROVE  ComponentsInv'
<1>. USE DEF ComponentsInv
<1>1. CASE UNCHANGED <<listVars, vecVars, penVars>>
  BY <1>1, ComponentsStutter
<1>2. CASE ToolReports
  BY <1>2, AddPreserves, ComponentsStutter DEF ToolReports
<1>3. CASE Collect
  <2>. DEFINE l == IF size > 0 THEN list ELSE <<>>
  <2>1. l \in Seq(Finding)
    BY DEF ListInv, ListTypeOK
  <2>2. AddRange(l) \/ AddRangeFails(l)
    BY <1>3 DEF Collect
  <2>3. UNCHANGED listVars /\ UNCHANGED penVars
    BY <1>3 DEF Collect
  <2>. HIDE DEF l
  <2>. QED
    BY <2>1, <2>2, <2>3, ComponentsStutter, AddRangePreserves,
       AddRangeFailsPreserves, OtherStepShowsShrunk
<1>4. CASE Adding
  BY <1>4, ComponentsStutter, AddStepShowsShrunk, SkipNodePreserves, StoreNodePreserves,
     GrowFailsPreserves, AddOverrunPreserves DEF Adding, AddStep
<1>5. CASE NextTool
  <2>1. ListInv'
    BY <1>5 DEF NextTool, ListInv, ListTypeOK, ListUnique, SizeCoversList
  <2>. QED
    BY <1>5, <2>1, ComponentsStutter DEF NextTool
<1>6. CASE SortErrors
  BY <1>6, ComponentsStutter, OtherStepShowsShrunk, StartSortPreserves,
     CompareStepPreserves, NextRowPreserves, SortOverrunPreserves, EndSortPreserves
     DEF SortErrors, SortStep
<1>7. CASE PrintGroup
  BY <1>7, FaultPreserves, ComponentsStutter DEF PrintGroup
<1>8. CASE CloseLibpenalty
  BY <1>8, ComponentsStutter, OtherPenaltyStepPreserves DEF CloseLibpenalty
<1>9. CASE CloseRobocheck
  BY <1>9, ComponentsStutter, OtherStepShowsShrunk, FreeVectorPreserves DEF CloseRobocheck
<1>10. CASE FillPenalty
  BY <1>10, ComponentsStutter, OtherPenaltyStepPreserves, FillStepPreserves DEF FillPenalty
<1>11. CASE \/ WithoutPenalty \/ OpenPenalty \/ PenaltyLoaded \/ EnterRun \/ SkipTool
            \/ OpenFails \/ LoadModule \/ ToolUndefined \/ ToolReturns
  BY <1>11, <1>1 DEF WithoutPenalty, OpenPenalty, PenaltyLoaded, EnterRun, SkipTool,
     OpenFails, LoadModule, ToolUndefined, ToolReturns
<1>12. CASE \/ NoReport \/ StartReport \/ GroupGoesOn \/ PrintNothing
            \/ ReportUndefined \/ EndReport \/ CloseLogger \/ Stopped \/ UNCHANGED vars
  BY <1>12, <1>1 DEF NoReport, StartReport, GroupGoesOn, PrintNothing,
     ReportUndefined, EndReport, CloseLogger, Stopped, vars
<1>. QED
  BY <1>2, <1>3, <1>4, <1>5, <1>6, <1>7, <1>8, <1>9, <1>10, <1>11, <1>12
     DEF Next, InitSteps, ToolSteps, ReportSteps, CloseSteps
-----------------------------------------------------------------------------
(* Control, handles and silence *)

\* The parts of TypeOK that are about the main program.
MainTypeOK == /\ config \in Configs
              /\ pc \in PC
              /\ i \in Nat \ {0} /\ cur \in Nat \ {0}
              /\ lib \in {"none", "open", "closed"} /\ apply \in BOOLEAN
              /\ refs \in Nat /\ handlers \in Nat
              /\ ri \in Nat \ {0} /\ start \in Nat \ {0}
              /\ json \in {"none", "open", "complete"}
              /\ ran \in Seq(Tool)
              /\ stream \in {"open", "closed"}

\* What the assumption says of the configuration a run reads.
LEMMA ConfigFacts ==
  ASSUME MainTypeOK
  PROVE  /\ config.file \in {"unreadable", "no tools", "full"}
         /\ config.tools \in Seq(Tool) /\ config.count \in Nat
<1>1. config \in Config
  BY ConfigsAssumption DEF MainTypeOK
<1>. QED
  BY <1>1 DEF Config

BaseInv == ComponentsInv /\ MainTypeOK /\ ControlInv /\ OutputInv /\ HandlesInv

\* How a step of the vector moves its phase.
LEMMA PhaseSteps ==
  /\ \A l : AddRange(l) \/ AddRangeFails(l) => phase' \in {"idle", "adding"}
  /\ AddStep => phase' \in {"idle", "adding", "undefined"}
  /\ StartSort => phase' = "sorting"
  /\ SortStep => phase' \in {"sorting", "sorted", "undefined"}
  /\ FreeVector => phase' \in {"freed", "undefined"}
<1>1. \A l : AddRange(l) \/ AddRangeFails(l) => phase' \in {"idle", "adding"}
  BY DEF AddRange, AddRangeFails
<1>2. AddStep => phase' \in {"idle", "adding", "undefined"}
  BY DEF AddStep, SkipNode, StoreNode, NextNode, GrowFails, AddOverrun
<1>3. StartSort => phase' = "sorting"
  BY DEF StartSort
<1>4. SortStep => phase' \in {"sorting", "sorted", "undefined"}
  BY DEF SortStep, CompareStep, NextRow, SortOverrun, EndSort
<1>5. FreeVector => phase' \in {"freed", "undefined"}
  BY DEF FreeVector
<1>. QED
  BY <1>1, <1>2, <1>3, <1>4, <1>5

\* init_robocheck keeps the main program's invariants.
LEMMA InitStepsBase ==
  ASSUME BaseInv, InitSteps
  PROVE  MainTypeOK' /\ ControlInv' /\ OutputInv' /\ HandlesInv'
<1>. USE DEF BaseInv, MainTypeOK, PC
<1>1. CASE WithoutPenalty
  BY <1>1 DEF WithoutPenalty, vecVars, penVars, ControlInv, OutputInv, HandlesInv
<1>2. CASE OpenPenalty
  BY <1>2 DEF OpenPenalty, vecVars, penVars, ControlInv, OutputInv, HandlesInv
<1>3. CASE FillPenalty
  <2>1. pstate' # "freed"
    BY <1>3 DEF FillPenalty, init_penalties, InitFails, FillStep, create_err_mapping,
       FillDone, ControlInv
  <2>. QED
    BY <1>3, <2>1 DEF FillPenalty, vecVars, mainVars, ControlInv, OutputInv, HandlesInv
<1>4. CASE PenaltyLoaded
  BY <1>4 DEF PenaltyLoaded, vecVars, penVars, ControlInv, OutputInv, HandlesInv
<1>. QED
  BY <1>1, <1>2, <1>3, <1>4 DEF InitSteps

\* So does the loop over the tools.
LEMMA ToolStepsBase ==
  ASSUME BaseInv, ToolSteps
  PROVE  MainTypeOK' /\ ControlInv' /\ OutputInv' /\ HandlesInv'
<1>. USE DEF BaseInv, MainTypeOK, PC
<1>1. CASE EnterRun
  BY <1>1, ConfigFacts DEF EnterRun, vecVars, penVars, ControlInv, OutputInv, HandlesInv
<1>2. CASE SkipTool
  BY <1>2 DEF SkipTool, MoreTools, vecVars, penVars, ControlInv, OutputInv, HandlesInv
<1>3. CASE OpenFails \/ LoadModule
  <2>1. config.tools[cur] \in Tool
    <3>1. cur \in Nat \ {0} /\ cur <= Len(config.tools)
      BY <1>3 DEF OpenFails, LoadModule, Installed
    <3>2. config.tools \in Seq(Tool)
      BY ConfigFacts
    <3>. QED
      BY <3>1, <3>2
  <2>2. ran \in Seq(Tool) /\ ran' = Append(ran, config.tools[cur])
    BY <1>3 DEF OpenFails, LoadModule
  <2>3. ran' \in Seq(Tool)
    BY <2>1, <2>2
  <2>. QED
    BY <1>3, <2>3 DEF OpenFails, LoadModule, MoreTools, vecVars, penVars, ControlInv,
       OutputInv, HandlesInv
<1>4. CASE ToolReports
  BY <1>4 DEF ToolReports, vecVars, penVars, mainVars, ControlInv, OutputInv, HandlesInv
<1>5. CASE ToolUndefined \/ ToolReturns
  BY <1>5 DEF ToolUndefined, ToolReturns, vecVars, penVars, ControlInv, OutputInv, HandlesInv
<1>6. CASE Collect
  BY <1>6, PhaseSteps DEF Collect, penVars, ControlInv, OutputInv, HandlesInv
<1>7. CASE Adding
  BY <1>7, PhaseSteps DEF Adding, penVars, mainVars, ControlInv, OutputInv, HandlesInv
<1>8. CASE NextTool
  BY <1>8 DEF NextTool, vecVars, penVars, ControlInv, OutputInv, HandlesInv
<1>. QED
  BY <1>1, <1>2, <1>3, <1>4, <1>5, <1>6, <1>7, <1>8 DEF ToolSteps

\* So does update_errors.
LEMMA ReportStepsBase ==
  ASSUME BaseInv, ReportSteps
  PROVE  MainTypeOK' /\ ControlInv' /\ OutputInv' /\ HandlesInv'
<1>. USE DEF BaseInv, MainTypeOK, PC
<1>1. CASE NoReport
  BY <1>1 DEF NoReport, ToolsDone, vecVars, penVars, ControlInv, OutputInv, HandlesInv
<1>2. CASE SortErrors
  BY <1>2, PhaseSteps DEF SortErrors, ToolsDone, ReportSkipped, penVars, ControlInv, OutputInv, HandlesInv
<1>3. CASE StartReport
  BY <1>3 DEF StartReport, vecVars, penVars, ControlInv, OutputInv, HandlesInv
<1>4. CASE GroupGoesOn \/ PrintNothing
  BY <1>4 DEF GroupGoesOn, PrintNothing, Reporting, vecVars, penVars, ControlInv,
     OutputInv, HandlesInv
<1>5. CASE PrintGroup
  BY <1>5 DEF PrintGroup, Reporting, penVars, ControlInv, OutputInv, HandlesInv
<1>6. CASE ReportUndefined \/ EndReport
  BY <1>6 DEF ReportUndefined, EndReport, Reporting, vecVars, penVars, ControlInv,
     OutputInv, HandlesInv
<1>. QED
  BY <1>1, <1>2, <1>3, <1>4, <1>5, <1>6 DEF ReportSteps

\* So does close_robocheck.
LEMMA CloseStepsBase ==
  ASSUME BaseInv, CloseSteps
  PROVE  MainTypeOK' /\ ControlInv' /\ OutputInv' /\ HandlesInv'
<1>. USE DEF BaseInv, MainTypeOK, PC
<1>1. CASE CloseLibpenalty
  <2>1. pstate' \in {pstate, "freed"} /\ lib' \in {lib, "closed"} /\ UNCHANGED phase
    BY <1>1 DEF CloseLibpenalty, free_penalties, penVars, vecVars
  <2>. QED
    BY <1>1, <2>1 DEF CloseLibpenalty, ControlInv, OutputInv, HandlesInv
<1>2. CASE CloseLogger
  BY <1>2 DEF CloseLogger, vecVars, penVars, ControlInv, OutputInv, HandlesInv
<1>3. CASE CloseRobocheck
  BY <1>3, PhaseSteps DEF CloseRobocheck, penVars, ControlInv, OutputInv, HandlesInv
<1>. QED
  BY <1>1, <1>2, <1>3 DEF CloseSteps

\* The main program's control invariants hold initially and are inductive.
LEMMA BaseInductive == /\ Init => BaseInv
                       /\ BaseInv /\ [Next]_vars => BaseInv'
<1>1. ASSUME Init PROVE BaseInv
  <2>1. ListInv
    BY <1>1 DEF Init, ListInit, ListInv, ListTypeOK, ListUnique, SizeCoversList
  <2>2. VecInv /\ PenInv
    BY <1>1, InitEstablishes, PenInitEstablishes DEF Init
  <2>3. ShrunkInv
    BY <1>1 DEF Init, VecInit, ShrunkInv
  <2>4. MainTypeOK
    <3>1. apply = FALSE /\ ran = <<>>
      BY <1>1 DEF Init
    <3>2. apply \in BOOLEAN
      BY <3>1
    <3>3. ran \in Seq(Tool)
      BY <3>1
    <3>. QED
      BY <1>1, <3>2, <3>3 DEF Init, MainTypeOK, PC
  <2>5. ControlInv /\ OutputInv /\ HandlesInv
    BY <1>1 DEF Init, VecInit, PenInit, ControlInv, OutputInv, HandlesInv
  <2>. QED
    BY <2>1, <2>2, <2>3, <2>4, <2>5 DEF BaseInv, ComponentsInv
<1>2. ASSUME BaseInv, [Next]_vars PROVE BaseInv'
  <2>1. ComponentsInv'
    BY <1>2, ComponentsPreserved DEF BaseInv
  <2>2. CASE UNCHANGED vars
    <3>1. MainTypeOK' /\ ControlInv' /\ OutputInv' /\ HandlesInv'
      BY <1>2, <2>2 DEF vars, vecVars, penVars, mainVars, BaseInv, MainTypeOK,
         ControlInv, OutputInv, HandlesInv
    <3>. QED
      BY <2>1, <3>1 DEF BaseInv
  <2>. QED
    BY <1>2, <2>1, <2>2, InitStepsBase, ToolStepsBase, ReportStepsBase, CloseStepsBase
       DEF BaseInv, Next, Stopped
<1>. QED
  BY <1>1, <1>2

\* A tool that has been called leaves a block or a failed allocation behind.
LEMMA SilencePreserved ==
  ASSUME BaseInv, SilenceInv, [Next]_vars
  PROVE  SilenceInv'
<1>. USE DEF SilenceInv, BaseInv
<1>1. cap \in Nat /\ faults \in Nat /\ inc \in Nat
  BY DEF ComponentsInv, VecInv, VecTypeOK
<1>2. CASE InitSteps
  BY <1>2 DEF InitSteps, WithoutPenalty, OpenPenalty, FillPenalty, PenaltyLoaded,
     mainVars
<1>3. CASE EnterRun \/ SkipTool \/ ToolReports \/ ToolUndefined \/ ToolReturns \/ NextTool
  BY <1>3, ConfigFacts DEF EnterRun, SkipTool, MoreTools, ToolReports, ToolUndefined,
     ToolReturns, NextTool, mainVars, vecVars
<1>4. CASE OpenFails \/ LoadModule
  <2>1. ran' # <<>>
    BY <1>4 DEF OpenFails, LoadModule, MainTypeOK
  <2>. QED
    BY <1>4, <2>1 DEF OpenFails, LoadModule
<1>5. CASE Collect
  BY <1>1, <1>5, AllocAssumption DEF Collect, AddRange, AddRangeFails
<1>6. CASE Adding
  <2>1. cap' > 0 \/ faults' > 0
    BY <1>1, <1>6 DEF Adding, AddStep, SkipNode, StoreNode, GrowBlock, SlotsNow, GrowFails,
       AddOverrun, ComponentsInv, VecInv, BlockInv
  <2>. QED
    BY <1>6, <2>1 DEF Adding, mainVars
<1>7. CASE NoReport
  BY <1>1, <1>7 DEF NoReport, ToolsDone, ReportSkipped, ControlInv, OutputInv, vecVars
<1>8. CASE \/ SortErrors \/ StartReport \/ GroupGoesOn \/ PrintGroup \/ PrintNothing
           \/ ReportUndefined \/ EndReport
  BY <1>8 DEF SortErrors, StartReport, GroupGoesOn, PrintGroup, PrintNothing,
     ReportUndefined, EndReport, Reporting
<1>9. CASE CloseSteps
  BY <1>9 DEF CloseSteps, CloseLibpenalty, CloseLogger, CloseRobocheck, FreeVector, vecVars
<1>10. CASE UNCHANGED vars
  BY <1>10 DEF vars, vecVars, mainVars
<1>. QED
  BY <1>2, <1>3, <1>4, <1>5, <1>6, <1>7, <1>8, <1>9, <1>10
     DEF Next, ToolSteps, ReportSteps, Stopped
-----------------------------------------------------------------------------
(* update_errors *)

\* The steps after which update_errors is in its loop.
LEMMA ReportEntered ==
  ASSUME MainTypeOK, [Next]_vars, pc' = "report"
  PROVE  \/ StartReport
         \/ pc = "report" /\ (GroupGoesOn \/ PrintGroup \/ PrintNothing \/ UNCHANGED vars)
<1>1. ~InitSteps
  BY DEF InitSteps, WithoutPenalty, OpenPenalty, FillPenalty, PenaltyLoaded, mainVars
<1>2. ~ToolSteps
  BY ConfigFacts DEF ToolSteps, EnterRun, SkipTool, MoreTools, OpenFails, LoadModule, ToolReports,
     ToolUndefined, ToolReturns, Collect, Adding, NextTool, mainVars
<1>3. ~NoReport /\ ~SortErrors /\ ~ReportUndefined /\ ~EndReport
  BY DEF NoReport, SortErrors, ReportUndefined, EndReport
<1>4. ~CloseSteps
  BY DEF CloseSteps, CloseLibpenalty, CloseLogger, CloseRobocheck
<1>5. GroupGoesOn \/ PrintGroup \/ PrintNothing \/ UNCHANGED vars => pc = "report"
  BY DEF GroupGoesOn, PrintGroup, PrintNothing, Reporting, vars, mainVars
<1>. QED
  BY <1>1, <1>2, <1>3, <1>4, <1>5 DEF Next, ReportSteps, Stopped

\* Only json_output_error adds a group to stdout.
LEMMA PrintedSteps ==
  ASSUME [Next]_vars
  PROVE  PrintGroup \/ UNCHANGED printed
<1>1. InitSteps => UNCHANGED printed
  BY DEF InitSteps, WithoutPenalty, OpenPenalty, FillPenalty, PenaltyLoaded, mainVars
<1>2. ToolSteps => UNCHANGED printed
  BY DEF ToolSteps, EnterRun, SkipTool, OpenFails, LoadModule, ToolReports,
     ToolUndefined, ToolReturns, Collect, Adding, NextTool, mainVars
<1>3. ReportSteps => PrintGroup \/ UNCHANGED printed
  BY DEF ReportSteps, NoReport, SortErrors, StartReport, GroupGoesOn, PrintNothing,
     ReportUndefined, EndReport
<1>4. CloseSteps => UNCHANGED printed
  BY DEF CloseSteps, CloseLibpenalty, CloseLogger, CloseRobocheck
<1>. QED
  BY <1>1, <1>2, <1>3, <1>4 DEF Next, Stopped, vars, mainVars

\* A part of a sequence whose elements are all in S.
LEMMA SubSeqFacts ==
  ASSUME NEW T, NEW S, NEW v \in Seq(T), NEW a \in 1..Len(v), NEW b \in 1..Len(v),
         a <= b, \A k \in a..b : v[k] \in S
  PROVE  /\ SubSeq(v, a, b) \in Seq(S)
         /\ Len(SubSeq(v, a, b)) = b - a + 1
         /\ \A n \in 1..(b - a + 1) : SubSeq(v, a, b)[n] = v[a + n - 1]
<1>. DEFINE w == SubSeq(v, a, b)
<1>1. /\ Len(w) = b - a + 1 /\ w \in Seq(T)
      /\ \A n \in 1..(b - a + 1) : w[n] = v[a + n - 1]
  OBVIOUS
<1>2. \A n \in 1..Len(w) : w[n] \in S
  BY <1>1
<1>. HIDE DEF w
<1>3. w \in Seq(S)
  BY <1>1, <1>2
<1>. QED
  BY <1>1, <1>3 DEF w

\* The slots of the group that is being printed.
LEMMA GroupSlots ==
  ASSUME BaseInv, ScanInv, Reporting, GroupComplete
  PROVE  /\ start \in 1..Len(out) /\ ri \in 1..(Len(out) + 1) /\ start < ri
         /\ Len(out) \in Nat
         /\ out[start] \in Finding /\ out[start].err_type \in ErrType
         /\ \A k \in start..(ri - 1) :
              out[k] \in Finding /\ out[k].err_type = out[start].err_type
         /\ SubSeq(out, start, ri - 1) \in Seq(Finding)
         /\ Len(SubSeq(out, start, ri - 1)) = ri - start
         /\ \A n \in 1..(ri - start) :
              SubSeq(out, start, ri - 1)[n] = out[start + n - 1]
<1>1. /\ out \in Seq(Slot) /\ Len(out) \in Nat /\ cap \in Nat
      /\ ri \in Nat \ {0} /\ start \in Nat \ {0}
  BY DEF BaseInv, ComponentsInv, VecInv, VecTypeOK, MainTypeOK
<1>2. /\ start \in 1..Len(out) /\ ri \in 1..(Len(out) + 1) /\ start <= ri
      /\ IsError(start)
  BY <1>1 DEF Reporting, GroupComplete, ScanInv
<1>3. start < ri
  BY <1>1, <1>2 DEF GroupComplete, SameGroup
<1>4. \A k \in start..(ri - 1) :
        out[k] \in Finding /\ out[k].err_type = out[start].err_type
  BY <1>1, <1>2 DEF ScanInv, Reporting, IsError
<1>5. out[start] \in Finding /\ out[start].err_type \in ErrType
  BY <1>2 DEF IsError, Finding
<1>6. ri - 1 \in 1..Len(out) /\ start <= ri - 1
  BY <1>1, <1>2, <1>3
<1>7. (ri - 1) - start + 1 = ri - start
  BY <1>1
<1>. QED
  BY <1>1, <1>2, <1>3, <1>4, <1>5, <1>6, <1>7, SubSeqFacts

\* Error codes of errors are numbers.
LEMMA CodesAreNumbers == \A f \in Finding : f.err_type \in Nat
BY ErrTypeAssumption DEF Finding

\* update_errors' two positions move over the vector without gaps.
LEMMA ScanPreserved ==
  ASSUME BaseInv, ScanInv, [Next]_vars
  PROVE  ScanInv'
<1>1. /\ out \in Seq(Slot) /\ Len(out) \in Nat /\ ri \in Nat \ {0}
      /\ start \in Nat \ {0}
  BY DEF BaseInv, ComponentsInv, VecInv, VecTypeOK, MainTypeOK
<1>2. SUFFICES ASSUME pc' = "report" PROVE ScanInv'
  BY DEF ScanInv
<1>3. CASE StartReport
  <2>1. ri' = 1 /\ start' = 1 /\ out' = out
    BY <1>3 DEF StartReport, vecVars
  <2>. QED
    BY <1>1, <2>1 DEF ScanInv
<1>4. CASE pc = "report" /\ GroupGoesOn
  <2>1. /\ out' = out /\ cap' = cap /\ start' = start /\ ri' = ri + 1
        /\ ri <= Len(out) /\ IsError(ri) /\ out[ri].err_type = out[start].err_type
    BY <1>4 DEF GroupGoesOn, SameGroup, vecVars
  <2>. QED
    BY <1>1, <1>4, <2>1 DEF ScanInv, IsError
<1>5. CASE pc = "report" /\ PrintGroup
  <2>1. /\ out' = out /\ cap' = cap /\ start' = ri /\ ri' = ri + 1
        /\ Reporting /\ GroupComplete
    BY <1>5 DEF PrintGroup
  <2>2. /\ start \in 1..Len(out) /\ ri \in 1..(Len(out) + 1) /\ start < ri
        /\ out[start] \in Finding
        /\ \A k \in start..(ri - 1) :
             out[k] \in Finding /\ out[k].err_type = out[start].err_type
    BY <2>1, GroupSlots
  <2>3. ri <= Len(out) => IsError(ri) /\ out[ri].err_type # out[start].err_type
    BY <2>1 DEF GroupComplete, SameGroup
  <2>4. ASSUME NEW k \in 1..Len(out), NEW m \in 1..Len(out), k < ri, ri <= m,
               out[k] \in Finding, out[m] \in Finding
        PROVE  out[k].err_type < out[m].err_type
    <3>1. \A a, b \in 1..Len(out) :
            a < b /\ out[a] \in Finding /\ out[b] \in Finding
              => out[a].err_type <= out[b].err_type
      BY <1>5 DEF BaseInv, ComponentsInv, ControlInv, VecInv, SortInv, Ordered
    <3>2. CASE k < start
      BY <1>1, <1>5, <2>2, <2>4, <3>2 DEF ScanInv
    <3>3. CASE start <= k
      <4>1. out[k].err_type = out[start].err_type
        BY <1>1, <2>2, <2>4, <3>3
      <4>2. ri \in 1..Len(out) /\ out[ri] \in Finding
        BY <1>1, <2>3, <2>4 DEF IsError
      <4>3. out[start].err_type < out[ri].err_type
        BY <1>1, <2>2, <2>3, <3>1, <4>2, CodesAreNumbers
      <4>4. out[ri].err_type <= out[m].err_type
        BY <1>1, <2>4, <3>1, <4>2, CodesAreNumbers
      <4>. QED
        BY <2>2, <2>4, <4>1, <4>2, <4>3, <4>4, CodesAreNumbers
    <3>. QED
      BY <1>1, <2>4, <3>2, <3>3
  <2>5. \A k \in 1..Len(out) : k < ri + 1 => IsError(k)
    BY <1>1, <1>5, <2>3 DEF ScanInv
  <2>. QED
    BY <1>1, <2>1, <2>2, <2>4, <2>5 DEF ScanInv, IsError
<1>6. CASE pc = "report" /\ PrintNothing
  <2>1. out' = out /\ cap' = cap /\ start' = start /\ ri' = ri + 1 /\ out = <<>> /\ ri <= 1
    BY <1>1, <1>6 DEF PrintNothing, Reporting, vecVars
  <2>2. start = 1 /\ ri = 1 /\ Len(out) = 0
    BY <1>1, <1>6, <2>1 DEF ScanInv
  <2>. QED
    BY <2>1, <2>2 DEF ScanInv
<1>7. CASE pc = "report" /\ UNCHANGED vars
  BY <1>7 DEF ScanInv, IsError, vars, vecVars, mainVars
<1>. QED
  BY <1>2, <1>3, <1>4, <1>5, <1>6, <1>7, ReportEntered DEF BaseInv
-----------------------------------------------------------------------------
(* The printed groups *)

\* What apply_penalty computes from an entry with a usable step.
LEMMA ChargeFacts ==
  ASSUME NEW p \in Detail, p.step # 0, NEW count \in Nat, NEW f \in FloatValue(p)
  PROVE  /\ Charge(p, count, f) \in Nat
         /\ IF p.step = INF THEN Charge(p, count, f) = f
            ELSE \E q \in 0..count : /\ q * p.step <= count /\ count < (q + 1) * p.step
                                     /\ Charge(p, count, f) = q * f
<1>1. f \in Nat
  BY PenaltyAssumption DEF FloatValue, Detail
<1>2. CASE p.step = INF
  BY <1>1, <1>2 DEF Charge
<1>3. CASE p.step # INF
  <2>1. p.step \in Nat
    BY <1>3 DEF Detail
  <2>. DEFINE s == p.step
              q == count \div s
  <2>2. s \in Nat /\ s # 0
    BY <2>1
  <2>3. q \in Nat /\ q * s <= count /\ count < (q + 1) * s /\ q <= count
    <3>. HIDE DEF s
    <3>. QED
      BY <2>2
  <2>4. Charge(p, count, f) = q * f
    BY <1>3 DEF Charge
  <2>. HIDE DEF s, q
  <2>5. q * f \in Nat /\ q \in 0..count
    BY <1>1, <2>3
  <2>. QED
    BY <1>3, <2>3, <2>4, <2>5 DEF s
<1>. QED
  BY <1>2, <1>3

\* A step of the loop that prints: the group goes to stdout with a penalty
\* that the table gives, or there was no memory for it.
LEMMA PrintGroupFacts ==
  ASSUME BaseInv, ScanInv, PrintGroup
  PROVE  LET t == out[start].err_type
         IN  \/ faults' = faults + 1 /\ printed' = printed
             \/ /\ faults' = faults
                /\ table[t] \in Detail /\ table[t].step # 0
                /\ \E f \in FloatValue(table[t]) :
                     printed' = Append(printed, Group(Charge(table[t], ri - start, f)))
<1>. DEFINE t == out[start].err_type
<1>1. Reporting /\ GroupComplete
  BY DEF PrintGroup
<1>2. t \in Code /\ ri - start \in Nat /\ ri - start > 0
  BY <1>1, GroupSlots, CodesAssumption
<1>3. ~NoPenalty(t, ri - start)
  BY <1>2 DEF NoPenalty
<1>4. table \in [Code -> Detail \cup {Unmapped}]
  BY DEF BaseInv, ComponentsInv, PenInv, PenTypeOK
<1>5. CASE /\ ~PenaltyUndefined(t, ri - start) /\ UNCHANGED faults
           /\ \E value \in PenaltyValues(t, ri - start) :
                printed' = Append(printed, Group(value))
  <2>1. table[t] # Unmapped /\ table[t].step # 0
    BY <1>3, <1>5 DEF PenaltyUndefined
  <2>2. table[t] \in Detail
    BY <1>2, <1>4, <2>1
  <2>. QED
    BY <1>5, <2>1, <2>2 DEF PenaltyValues
<1>6. CASE faults' = faults + 1 /\ UNCHANGED printed
  BY <1>6
<1>. QED
  BY <1>5, <1>6 DEF PrintGroup

\* Every printed group has the type the report reader expects.
LEMMA PrintedTyped ==
  ASSUME BaseInv, ScanInv, printed \in Seq(GroupType), [Next]_vars
  PROVE  printed' \in Seq(GroupType)
<1>. SUFFICES ASSUME PrintGroup, printed' # printed PROVE printed' \in Seq(GroupType)
  BY PrintedSteps
<1>. DEFINE t == out[start].err_type
<1>1. Reporting /\ GroupComplete
  BY DEF PrintGroup
<1>2. /\ t \in ErrType /\ ri - start \in Nat
      /\ SubSeq(out, start, ri - 1) \in Seq(Finding)
  BY <1>1, GroupSlots
<1>3. PICK f \in FloatValue(table[t]) :
        /\ table[t] \in Detail /\ table[t].step # 0
        /\ printed' = Append(printed, Group(Charge(table[t], ri - start, f)))
  BY PrintGroupFacts
<1>. DEFINE v == Charge(table[t], ri - start, f)
<1>4. v \in Nat
  BY <1>2, <1>3, ChargeFacts
<1>. HIDE DEF v
<1>5. (ri <= Len(out)) \in BOOLEAN
  OBVIOUS
<1>6. Group(v) \in GroupType
  BY <1>2, <1>4, <1>5 DEF Group, GroupType
<1>. QED
  BY <1>3, <1>6 DEF v

\* Group x is charged what the details p say, the value being what float_value
\* shows of it.
Charged(x, p) ==
  \E y \in FloatValue(p) :
    IF p.step = INF THEN x.value = y
    ELSE \E q \in 0..Len(x.members) :
           /\ q * p.step <= Len(x.members) /\ Len(x.members) < (q + 1) * p.step
           /\ x.value = q * y

\* The last details of a group's code are the ones it is charged by.
ChargedByLast(x) ==
  \E n \in DetailsOf(x.type) : /\ \A m \in DetailsOf(x.type) : m <= n
                               /\ Charged(x, doc.nodes[n].detail)

\* The printed penalties, as the code reads the configured values.  This is the
\* inductive form of ChargeFollowsConfig.
ChargedAsRead ==
  pfaults = 0 => \A g \in 1..Len(printed) : ChargedByLast(printed[g])

\* A float or a double is read as it was configured.
LEMMA FloatsChargedAsConfigured ==
  ASSUME ChargedAsRead PROVE ChargeFollowsConfig
<1>. SUFFICES ASSUME pfaults = 0, NEW g \in 1..Len(printed)
              PROVE  \E n \in DetailsOf(printed[g].type) :
                       /\ \A m \in DetailsOf(printed[g].type) : m <= n
                       /\ doc.nodes[n].detail.type \in {"float", "double"} =>
                            Costs(printed[g], doc.nodes[n].detail)
  BY DEF ChargeFollowsConfig, ChargesConfigured
<1>. DEFINE x == printed[g]
<1>1. PICK n \in DetailsOf(x.type) : /\ \A m \in DetailsOf(x.type) : m <= n
                                     /\ Charged(x, doc.nodes[n].detail)
  BY DEF ChargedAsRead, ChargedByLast
<1>. DEFINE p == doc.nodes[n].detail
<1>2. ASSUME p.type \in {"float", "double"} PROVE Costs(x, p)
  <2>1. FloatValue(p) = {p.value}
    BY <1>2 DEF FloatValue
  <2>. HIDE DEF x, p
  <2>. QED
    BY <1>1, <2>1 DEF Charged, Costs, p
<1>. QED
  BY <1>1, <1>2

\* The configuration does not change, and no allocation of the penalty
\* library fails once groups are printed.
LEMMA ConfigurationFixed ==
  ASSUME BaseInv, [Next]_vars
  PROVE  doc' = doc /\ (pfaults' = 0 /\ printed # <<>> => pfaults = 0)
<1>1. CASE FillPenalty
  BY <1>1 DEF FillPenalty, init_penalties, InitFails, FillStep, FillDone, BaseInv,
     OutputInv
<1>2. CASE CloseLibpenalty
  BY <1>2 DEF CloseLibpenalty, free_penalties, penVars
<1>3. CASE ~FillPenalty /\ ~CloseLibpenalty
  <2>1. UNCHANGED penVars
    BY <1>3 DEF Next, InitSteps, ToolSteps, ReportSteps, CloseSteps, Stopped, vars,
       WithoutPenalty, OpenPenalty, PenaltyLoaded, EnterRun, SkipTool, OpenFails,
       LoadModule, ToolReports, ToolUndefined, ToolReturns, Collect, Adding, NextTool,
       NoReport, SortErrors, StartReport, GroupGoesOn, PrintGroup, PrintNothing,
       ReportUndefined, EndReport, CloseLogger, CloseRobocheck
  <2>. QED
    BY <2>1 DEF penVars
<1>. QED
  BY <1>1, <1>2, <1>3

\* The group about to be printed is charged by the last details of its code.
LEMMA NewGroupCharged ==
  ASSUME BaseInv, ScanInv, PrintGroup, printed' # printed, pfaults = 0
  PROVE  \E value : printed' = Append(printed, Group(value)) /\ ChargedByLast(Group(value))
<1>. DEFINE t == out[start].err_type
            n0 == ri - start
<1>1. Reporting /\ GroupComplete
  BY DEF PrintGroup
<1>2. /\ t \in Code /\ n0 \in Nat
      /\ Len(SubSeq(out, start, ri - 1)) = n0
  BY <1>1, GroupSlots, CodesAssumption
<1>3. PICK f \in FloatValue(table[t]) :
        /\ table[t] \in Detail /\ table[t].step # 0
        /\ printed' = Append(printed, Group(Charge(table[t], n0, f)))
  BY PrintGroupFacts
<1>4. TableFollowsConfig /\ pstate = "ready"
  BY <1>1, ReadyTable DEF BaseInv, ComponentsInv, ControlInv, OutputInv, Reporting
<1>5. DetailsOf(t) # {}
  BY <1>2, <1>3, <1>4, PenaltyAssumption DEF TableFollowsConfig
<1>6. PICK n \in DetailsOf(t) : /\ table[t] = doc.nodes[n].detail
                                /\ \A m \in DetailsOf(t) : m <= n
  BY <1>2, <1>4, <1>5 DEF TableFollowsConfig
<1>. DEFINE v == Charge(table[t], n0, f)
            e == Group(v)
<1>7. e.type = t /\ Len(e.members) = n0 /\ e.value = v
  BY <1>2 DEF Group
<1>. HIDE DEF t, n0, e
<1>8. IF table[t].step = INF THEN v = f
      ELSE \E q \in 0..n0 : /\ q * table[t].step <= n0 /\ n0 < (q + 1) * table[t].step
                            /\ v = q * f
  BY <1>2, <1>3, ChargeFacts
<1>. HIDE DEF v
<1>9. Charged(e, table[t])
  BY <1>3, <1>7, <1>8 DEF Charged
<1>10. ChargedByLast(e)
  BY <1>6, <1>7, <1>9 DEF ChargedByLast
<1>. QED
  BY <1>3, <1>10 DEF e, v

\* The penalties printed follow the configuration.
LEMMA ChargePreserved ==
  ASSUME BaseInv, ScanInv, printed \in Seq(GroupType), ChargedAsRead, [Next]_vars
  PROVE  ChargedAsRead'
<1>1. doc' = doc /\ (pfaults' = 0 /\ printed # <<>> => pfaults = 0)
  BY ConfigurationFixed
<1>2. \A x : ChargedByLast(x)' <=> ChargedByLast(x)
  BY <1>1 DEF ChargedByLast, Charged, DetailsOf, Visited
<1>3. ChargedAsRead' <=>
        (pfaults' = 0 => \A g \in 1..Len(printed') : (ChargedByLast(printed[g]))')
  BY DEF ChargedAsRead
<1>4. SUFFICES ASSUME pfaults' = 0, NEW g \in 1..Len(printed')
               PROVE  ChargedByLast(printed'[g])
  BY <1>2, <1>3
<1>5. \A h \in 1..Len(printed) : ChargedByLast(printed[h])
  BY <1>1, <1>4 DEF ChargedAsRead
<1>6. CASE UNCHANGED printed
  BY <1>4, <1>5, <1>6
<1>7. CASE PrintGroup /\ printed' # printed
  <2>1. pfaults = 0
    BY <1>4, <1>7 DEF PrintGroup, penVars
  <2>2. PICK value : printed' = Append(printed, Group(value)) /\ ChargedByLast(Group(value))
    BY <1>7, <2>1, NewGroupCharged
  <2>. DEFINE e == Group(value)
  <2>. HIDE DEF e
  <2>3. CASE g \in 1..Len(printed)
    BY <1>5, <2>2, <2>3 DEF e
  <2>4. CASE g = Len(printed) + 1
    BY <2>2, <2>4 DEF e
  <2>. QED
    BY <1>4, <2>2, <2>3, <2>4 DEF e
<1>. QED
  BY <1>6, <1>7, PrintedSteps
\* When a group is complete its slots are all the errors of its code.
LEMMA SlotsAreGroup ==
  ASSUME BaseInv, ScanInv, PrintGroup, ScanInv', pc = "report", pc' = "report"
  PROVE  /\ IsGroup(out[start].err_type, start, ri - 1)
         /\ \A k \in 1..Len(out) : ri <= k /\ out[k] \in Finding =>
              out[start].err_type < out[k].err_type
<1>1. Reporting /\ GroupComplete /\ out' = out /\ start' = ri
  BY DEF PrintGroup
<1>2. /\ start \in 1..Len(out) /\ ri \in 1..(Len(out) + 1) /\ start < ri
      /\ Len(out) \in Nat /\ out[start] \in Finding
      /\ \A k \in start..(ri - 1) :
           out[k] \in Finding /\ out[k].err_type = out[start].err_type
  BY <1>1, GroupSlots
<1>3. \A k \in 1..Len(out) : k < start /\ out[k] \in Finding =>
        out[k].err_type < out[start].err_type
  BY <1>2 DEF ScanInv
<1>4. \A k \in 1..Len(out) : ri <= k /\ out[k] \in Finding =>
        out[start].err_type < out[k].err_type
  BY <1>1, <1>2 DEF ScanInv
<1>5. ASSUME NEW k \in 1..Len(out), out[k] \in Finding
      PROVE  out[k].err_type = out[start].err_type <=> k \in start..(ri - 1)
  <2>1. out[k].err_type \in Nat /\ out[start].err_type \in Nat
    BY <1>2, <1>5, CodesAreNumbers
  <2>2. CASE k < start
    BY <1>2, <1>3, <1>5, <2>1, <2>2
  <2>3. CASE ri <= k
    BY <1>2, <1>4, <1>5, <2>1, <2>3
  <2>4. CASE start <= k /\ k < ri
    BY <1>2, <1>5, <2>4
  <2>. QED
    BY <1>2, <2>2, <2>3, <2>4
<1>. QED
  BY <1>2, <1>4, <1>5 DEF IsGroup

\* update_errors prints the groups of the sorted vector one after the other.
LEMMA GroupsPreserved ==
  ASSUME BaseInv, ScanInv, GroupsInv, printed \in Seq(GroupType), [Next]_vars
  PROVE  GroupsInv'
<1>1. SUFFICES ASSUME pc' = "report", faults' = 0 PROVE GroupsInv'
  BY DEF GroupsInv
<1>2. CASE StartReport
  <2>1. printed' = <<>> /\ start' = 1
    BY <1>2 DEF StartReport, BaseInv, OutputInv
  <2>. QED
    BY <2>1 DEF GroupsInv
<1>3. CASE pc = "report" /\ (GroupGoesOn \/ PrintNothing \/ UNCHANGED vars)
  <2>1. UNCHANGED <<out, faults, start, printed>>
    BY <1>3 DEF GroupGoesOn, PrintNothing, vars, vecVars, mainVars
  <2>2. /\ \A t, a, b : IsGroup(t, a, b)' <=> IsGroup(t, a, b)
        /\ \A g : Members(g)' = Members(g)
    BY <2>1 DEF IsGroup, Members
  <2>. QED
    BY <1>1, <1>3, <2>1, <2>2 DEF GroupsInv
<1>4. CASE pc = "report" /\ PrintGroup
  <2>1. Reporting /\ GroupComplete /\ out' = out /\ start' = ri
    BY <1>4 DEF PrintGroup
  <2>2. /\ start \in 1..Len(out) /\ ri \in 1..(Len(out) + 1) /\ start < ri
        /\ Len(out) \in Nat /\ out[start] \in Finding
        /\ Len(SubSeq(out, start, ri - 1)) = ri - start
        /\ \A n \in 1..(ri - start) :
             SubSeq(out, start, ri - 1)[n] = out[start + n - 1]
    BY <2>1, GroupSlots
  <2>3. /\ IsGroup(out[start].err_type, start, ri - 1)
        /\ \A k \in 1..Len(out) : ri <= k /\ out[k] \in Finding =>
             out[start].err_type < out[k].err_type
    BY <1>1, <1>4, ScanPreserved, SlotsAreGroup
  <2>4. faults = 0 /\ faults' # faults + 1
    <3>1. faults \in Nat /\ faults' \in {faults, faults + 1}
      BY <1>4 DEF PrintGroup, BaseInv, ComponentsInv, VecInv, VecTypeOK
    <3>. QED
      BY <1>1, <3>1
  <2>5. PICK value : printed' = Append(printed, Group(value))
    BY <1>4, <2>4, PrintGroupFacts
  <2>. DEFINE e == Group(value)
              t == out[start].err_type
              N == Len(printed)
  <2>6. /\ e.type = t /\ e.members = SubSeq(out, start, ri - 1)
    BY DEF Group
  <2>61. e.comma <=> ri <= Len(out)
    BY DEF Group
  <2>. HIDE DEF e, t, N
  <2>7. /\ N \in Nat /\ Len(printed') = N + 1
        /\ \A g \in 1..N : printed'[g] = printed[g]
        /\ printed'[N + 1] = e
    BY <2>5 DEF e, N
  <2>73. \A g \in 1..(N + 1) : g = N + 1 \/ g \in 1..N
    BY <2>7
  <2>70. /\ \A k \in 1..Len(out) : k < start => \E g \in 1..N : out[k] \in Members(g)
         /\ \A g \in 1..N : \E a, b \in 1..Len(out) :
              /\ IsGroup(printed[g].type, a, b) /\ b < start
              /\ printed[g].members = SubSeq(out, a, b)
         /\ \A g, h \in 1..N : g < h => printed[g].type < printed[h].type
         /\ \A g \in 1..N : printed[g].comma <=> g < N \/ start <= Len(out)
    BY <1>4, <2>4 DEF GroupsInv, N
  <2>72. ASSUME NEW g \in 1..N, NEW k \in 1..Len(out), start <= k, out[k] \in Finding
         PROVE  printed[g].type < out[k].err_type
    BY <1>4, <2>4, <2>72 DEF GroupsInv, N
  <2>. DEFINE MembersOf(x) == {x.members[k] : k \in 1..Len(x.members)}
  <2>71. \A g : Members(g) = MembersOf(printed[g]) /\ Members(g)' = MembersOf(printed'[g])
    BY DEF Members
  <2>8. \A k \in 1..Len(out) : k < ri =>
          \E g \in 1..(N + 1) : out[k] \in MembersOf(printed'[g])
    <3>. SUFFICES ASSUME NEW k \in 1..Len(out), k < ri
                  PROVE  \E g \in 1..(N + 1) : out[k] \in MembersOf(printed'[g])
      OBVIOUS
    <3>1. CASE k < start
      <4>1. PICK g \in 1..N : out[k] \in MembersOf(printed[g])
        BY <2>70, <2>71, <3>1
      <4>. QED
        BY <2>7, <4>1
    <3>2. CASE start <= k
      <4>. DEFINE n == k - start + 1
      <4>1. n \in 1..(ri - start) /\ start + n - 1 = k
        BY <2>2, <3>2
      <4>. HIDE DEF n
      <4>2. out[k] \in MembersOf(e)
        BY <2>2, <2>6, <4>1
      <4>. QED
        BY <2>7, <4>2
    <3>. QED
      BY <2>2, <3>1, <3>2
  <2>9. \A g \in 1..(N + 1) : \E a, b \in 1..Len(out) :
          /\ IsGroup(printed'[g].type, a, b) /\ b < ri
          /\ printed'[g].members = SubSeq(out, a, b)
    <3>1. ASSUME NEW g \in 1..N
          PROVE  \E a, b \in 1..Len(out) :
                   /\ IsGroup(printed[g].type, a, b) /\ b < ri
                   /\ printed[g].members = SubSeq(out, a, b)
      <4>1. PICK a \in 1..Len(out), b \in 1..Len(out) :
              /\ IsGroup(printed[g].type, a, b) /\ b < start
              /\ printed[g].members = SubSeq(out, a, b)
        BY <2>70
      <4>2. b < ri
        BY <2>2, <4>1
      <4>. QED
        BY <4>1, <4>2
    <3>2. /\ IsGroup(e.type, start, ri - 1) /\ ri - 1 < ri
          /\ start \in 1..Len(out) /\ ri - 1 \in 1..Len(out)
          /\ e.members = SubSeq(out, start, ri - 1)
      BY <2>2, <2>3, <2>6 DEF t
    <3>3. ASSUME NEW g \in 1..(N + 1)
          PROVE  \E a, b \in 1..Len(out) :
                   /\ IsGroup(printed'[g].type, a, b) /\ b < ri
                   /\ printed'[g].members = SubSeq(out, a, b)
      <4>1. CASE g = N + 1
        BY <2>7, <3>2, <4>1
      <4>2. CASE g \in 1..N
        BY <2>7, <3>1, <4>2
      <4>. QED
        BY <2>73, <4>1, <4>2, Zenon
    <3>. QED
      BY <3>3
  <2>10. \A g, h \in 1..(N + 1) : g < h => printed'[g].type < printed'[h].type
    <3>2. \A g \in 1..N : printed[g].type < e.type
      BY <2>2, <2>6, <2>72 DEF t
    <3>3. ASSUME NEW g \in 1..(N + 1), NEW h \in 1..(N + 1), g < h
          PROVE  printed'[g].type < printed'[h].type
      <4>1. g \in 1..N /\ printed'[g] = printed[g]
        BY <2>7, <3>3
      <4>2. CASE h = N + 1
        BY <2>7, <3>2, <4>1, <4>2
      <4>3. CASE h \in 1..N
        BY <2>7, <2>70, <3>3, <4>1, <4>3
      <4>. QED
        BY <2>7, <4>2, <4>3
    <3>. QED
      BY <3>3
  <2>11. \A g \in 1..(N + 1), k \in 1..Len(out) :
           ri <= k /\ out[k] \in Finding => printed'[g].type < out[k].err_type
    <3>1. \A g \in 1..N, k \in 1..Len(out) :
            ri <= k /\ out[k] \in Finding => printed[g].type < out[k].err_type
      BY <2>2, <2>72
    <3>2. \A k \in 1..Len(out) :
            ri <= k /\ out[k] \in Finding => e.type < out[k].err_type
      BY <2>3, <2>6 DEF t
    <3>. QED
      BY <2>7, <3>1, <3>2
  <2>12. \A g \in 1..(N + 1) :
           printed'[g].comma <=> g < N + 1 \/ ri <= Len(out)
    <3>1. \A g \in 1..N : printed[g].comma
      <4>1. start <= Len(out)
        BY <2>2
      <4>. QED
        BY <2>70, <4>1, Zenon
    <3>2. ASSUME NEW g \in 1..(N + 1)
          PROVE  printed'[g].comma <=> g < N + 1 \/ ri <= Len(out)
      <4>1. CASE g = N + 1
        BY <2>61, <2>7, <4>1
      <4>2. CASE g \in 1..N
        BY <2>7, <3>1, <4>2
      <4>. QED
        BY <2>7, <4>1, <4>2
    <3>. QED
      BY <3>2
  <2>13. \A t1, a, b : IsGroup(t1, a, b)' <=> IsGroup(t1, a, b)
    BY <2>1 DEF IsGroup
  <2>. QED
    BY <2>1, <2>7, <2>71, <2>8, <2>9, <2>10, <2>11, <2>12, <2>13 DEF GroupsInv
<1>. QED
  BY <1>1, <1>2, <1>3, <1>4, ReportEntered DEF BaseInv
-----------------------------------------------------------------------------
(* The complete report *)

\* What stdout holds when update_errors has passed the last slot.
WholeReport ==
  /\ \A k \in 1..Len(out) : out[k] \in Finding
  /\ \A k \in 1..Len(out) : \E g \in 1..Len(printed) : out[k] \in Members(g)
  /\ \A g \in 1..Len(printed) : \E a, b \in 1..Len(out) :
       IsGroup(printed[g].type, a, b) /\ printed[g].members = SubSeq(out, a, b)
  /\ \A g, h \in 1..Len(printed) : g < h => printed[g].type < printed[h].type
  /\ \A g \in 1..Len(printed) : printed[g].comma <=> g < Len(printed)

LEMMA ReportIsWhole ==
  ASSUME BaseInv, ScanInv, GroupsInv, pc = "report", ri > Len(out) + 1, faults = 0
  PROVE  WholeReport
<1>1. Len(out) \in Nat /\ ri \in Nat /\ start \in Nat
  BY DEF BaseInv, ComponentsInv, VecInv, VecTypeOK, MainTypeOK
<1>2. ri = Len(out) + 2 /\ start = Len(out) + 1
  BY <1>1 DEF ScanInv
<1>3. \A k \in 1..Len(out) : out[k] \in Finding
  BY <1>1, <1>2 DEF ScanInv, IsError
<1>4. \A k \in 1..Len(out) : k < start
  BY <1>1, <1>2
<1>5. ~(start <= Len(out))
  BY <1>1, <1>2
<1>6. \A k \in 1..Len(out) : \E g \in 1..Len(printed) : out[k] \in Members(g)
  BY <1>4 DEF GroupsInv
<1>7. \A g \in 1..Len(printed) : \E a, b \in 1..Len(out) :
        IsGroup(printed[g].type, a, b) /\ printed[g].members = SubSeq(out, a, b)
  BY DEF GroupsInv
<1>8. \A g \in 1..Len(printed) : printed[g].comma <=> g < Len(printed)
  BY <1>5 DEF GroupsInv
<1>. QED
  BY <1>3, <1>6, <1>7, <1>8 DEF WholeReport, GroupsInv

\* The members of a group are the slots of its code, in the vector's order.
LEMMA GroupMembers ==
  ASSUME WholeReport, out \in Seq(Slot), NEW g \in 1..Len(printed)
  PROVE  \E a, b \in 1..Len(out) :
           /\ IsGroup(printed[g].type, a, b) /\ a <= b
           /\ printed[g].members = SubSeq(out, a, b)
           /\ Len(printed[g].members) = b - a + 1
           /\ \A n \in 1..(b - a + 1) : /\ printed[g].members[n] = out[a + n - 1]
                                        /\ a + n - 1 \in a..b
           /\ \A k \in a..b : out[k].err_type = printed[g].type /\ k \in 1..Len(out)
<1>1. PICK a \in 1..Len(out), b \in 1..Len(out) :
        IsGroup(printed[g].type, a, b) /\ printed[g].members = SubSeq(out, a, b)
  BY DEF WholeReport
<1>2. a <= b /\ \A k \in 1..Len(out) : out[k].err_type = printed[g].type <=> k \in a..b
  BY <1>1 DEF IsGroup, WholeReport
<1>3. \A k \in a..b : k \in 1..Len(out) /\ out[k] \in Finding
  <2>1. \A k \in a..b : k \in 1..Len(out)
    OBVIOUS
  <2>2. \A k \in 1..Len(out) : out[k] \in Finding
    BY DEF WholeReport
  <2>. QED
    BY <2>1, <2>2
<1>4. /\ Len(SubSeq(out, a, b)) = b - a + 1
      /\ \A n \in 1..(b - a + 1) : SubSeq(out, a, b)[n] = out[a + n - 1]
  BY <1>2, <1>3, SubSeqFacts
<1>5. \A n \in 1..(b - a + 1) : a + n - 1 \in a..b
  BY <1>2
<1>. QED
  BY <1>1, <1>2, <1>3, <1>4, <1>5

\* One group per code, with all its errors.
LEMMA WholeIsPartition ==
  ASSUME WholeReport, out \in Seq(Slot)
  PROVE  /\ {printed[g].type : g \in 1..Len(printed)} = Types
         /\ \A g, h \in 1..Len(printed) : g < h => printed[g].type < printed[h].type
         /\ \A g \in 1..Len(printed) : \E a, b \in 1..Len(out) :
              /\ printed[g].members = SubSeq(out, a, b)
              /\ {k \in 1..Len(out) : out[k].err_type = printed[g].type} = a..b
<1>1. ASSUME NEW g \in 1..Len(printed) PROVE printed[g].type \in Types
  <2>1. PICK a \in 1..Len(out), b \in 1..Len(out) :
          a <= b /\ \A k \in a..b : out[k].err_type = printed[g].type
    BY GroupMembers
  <2>2. out[a] \in Finding /\ out[a].err_type = printed[g].type
    BY <2>1 DEF WholeReport
  <2>. QED
    BY <2>2 DEF Types
<1>2. ASSUME NEW k \in 1..Len(out)
      PROVE  out[k].err_type \in {printed[g].type : g \in 1..Len(printed)}
  <2>1. PICK g \in 1..Len(printed) : out[k] \in Members(g)
    BY DEF WholeReport
  <2>2. PICK a \in 1..Len(out), b \in 1..Len(out) :
          /\ Len(printed[g].members) = b - a + 1
          /\ \A n \in 1..(b - a + 1) : /\ printed[g].members[n] = out[a + n - 1]
                                       /\ a + n - 1 \in a..b
          /\ \A m \in a..b : out[m].err_type = printed[g].type
    BY GroupMembers
  <2>3. PICK n \in 1..(b - a + 1) : out[k] = printed[g].members[n]
    BY <2>1, <2>2 DEF Members
  <2>. QED
    BY <2>2, <2>3
<1>3. ASSUME NEW g \in 1..Len(printed)
      PROVE  \E a, b \in 1..Len(out) :
               /\ printed[g].members = SubSeq(out, a, b)
               /\ {k \in 1..Len(out) : out[k].err_type = printed[g].type} = a..b
  <2>1. PICK a \in 1..Len(out), b \in 1..Len(out) :
          IsGroup(printed[g].type, a, b) /\ printed[g].members = SubSeq(out, a, b)
    BY DEF WholeReport
  <2>2. \A k \in 1..Len(out) : out[k].err_type = printed[g].type <=> k \in a..b
    BY <2>1 DEF IsGroup, WholeReport
  <2>3. \A k \in a..b : k \in 1..Len(out)
    OBVIOUS
  <2>4. {k \in 1..Len(out) : out[k].err_type = printed[g].type} = a..b
    BY <2>2, <2>3
  <2>. QED
    BY <2>1, <2>4
<1>4. Types \subseteq {printed[g].type : g \in 1..Len(printed)}
  BY <1>2 DEF Types
<1>. QED
  BY <1>1, <1>3, <1>4 DEF WholeReport

\* Every error handed over is printed, up to duplicates, and printed once.
LEMMA WholeCovers ==
  ASSUME WholeReport, VecInv, ShrunkInv, phase = "sorted", faults = 0
  PROVE  /\ \A f \in handed : \E g \in 1..Len(printed) : \E e \in Members(g) :
              e = f \/ Duplicate(f, e)
         /\ \A g, h \in 1..Len(printed) :
              \A j \in 1..Len(printed[g].members), k \in 1..Len(printed[h].members) :
                g # h \/ j # k =>
                  ~Duplicate(printed[g].members[j], printed[h].members[k])
<1>1. out \in Seq(Slot) /\ Len(out) \in Nat /\ inc \in Nat
  BY DEF VecInv, VecTypeOK
<1>2. FirstBlock
  <2>1. \A k \in 1..Len(out) : out[k] # JUNK
    BY SlotAssumption DEF WholeReport
  <2>2. ~(inc > 1)
    BY <2>1 DEF ShrunkInv, Live
  <2>. QED
    BY <1>1, <2>2 DEF FirstBlock
<1>3. \A f \in handed : \E k \in 1..Len(out) : out[k] = f \/ Duplicate(f, out[k])
  BY <1>2 DEF VecInv, NothingLost
<1>4. \A f \in handed : \E g \in 1..Len(printed) : \E e \in Members(g) :
        e = f \/ Duplicate(f, e)
  BY <1>3 DEF WholeReport
<1>5. ASSUME NEW g \in 1..Len(printed), NEW h \in 1..Len(printed),
             NEW j \in 1..Len(printed[g].members), NEW k \in 1..Len(printed[h].members),
             g # h \/ j # k
      PROVE  ~Duplicate(printed[g].members[j], printed[h].members[k])
  <2>1. CASE g # h
    <3>1. \A x \in 1..Len(printed) : \A n \in 1..Len(printed[x].members) :
            printed[x].members[n].err_type = printed[x].type
      <4>. TAKE x \in 1..Len(printed)
      <4>1. PICK a \in 1..Len(out), b \in 1..Len(out) :
              /\ Len(printed[x].members) = b - a + 1
              /\ \A n \in 1..(b - a + 1) : /\ printed[x].members[n] = out[a + n - 1]
                                           /\ a + n - 1 \in a..b
              /\ \A m \in a..b : out[m].err_type = printed[x].type
        BY <1>1, GroupMembers
      <4>. TAKE n \in 1..Len(printed[x].members)
      <4>2. n \in 1..(b - a + 1)
        BY <4>1
      <4>3. printed[x].members[n] = out[a + n - 1] /\ a + n - 1 \in a..b
        BY <4>1, <4>2
      <4>. QED
        BY <4>1, <4>3
    <3>2. \A x \in 1..Len(printed) : printed[x].type \in Nat
      <4>. TAKE x \in 1..Len(printed)
      <4>1. PICK a \in 1..Len(out), b \in 1..Len(out) :
              a <= b /\ \A m \in a..b : out[m].err_type = printed[x].type
        BY <1>1, GroupMembers
      <4>2. out[a] \in Finding /\ out[a].err_type = printed[x].type
        BY <4>1 DEF WholeReport
      <4>. QED
        BY <4>2, CodesAreNumbers
    <3>3. g < h \/ h < g
      BY <2>1
    <3>4. \A x, y \in 1..Len(printed) : x < y => printed[x].type < printed[y].type
      BY DEF WholeReport
    <3>5. printed[g].type < printed[h].type \/ printed[h].type < printed[g].type
      BY <3>3, <3>4
    <3>6. printed[g].type # printed[h].type
      BY <3>2, <3>5
    <3>. QED
      BY <3>1, <3>6 DEF Duplicate
  <2>2. CASE g = h /\ j # k
    <3>1. PICK a \in 1..Len(out), b \in 1..Len(out) :
            /\ Len(printed[g].members) = b - a + 1
            /\ \A n \in 1..(b - a + 1) : /\ printed[g].members[n] = out[a + n - 1]
                                         /\ a + n - 1 \in a..b
            /\ \A m \in a..b : m \in 1..Len(out)
      BY <1>1, GroupMembers
    <3>. DEFINE x == a + j - 1
                y == a + k - 1
    <3>2. x # y /\ x \in 1..Len(out) /\ y \in 1..Len(out)
      BY <2>2, <3>1
    <3>3. printed[g].members[j] = out[x] /\ printed[h].members[k] = out[y]
      BY <2>2, <3>1
    <3>. HIDE DEF x, y
    <3>4. out[x] \in Finding /\ out[y] \in Finding
      BY <3>2 DEF WholeReport
    <3>. QED
      BY <3>2, <3>3, <3>4 DEF VecInv, VectorUnique
  <2>. QED
    BY <1>5, <2>1, <2>2
<1>. QED
  BY <1>4, <1>5
\* The report is complete when json_output_end has run, and stays as it is.
LEMMA CompleteSteps ==
  ASSUME BaseInv, [Next]_vars, json' = "complete"
  PROVE  \/ EndReport
         \/ /\ json = "complete" /\ UNCHANGED <<printed, handed, faults>>
            /\ phase' = "sorted" => phase = "sorted" /\ UNCHANGED out
<1>1. CASE json = "complete"
  <2>1. pc \in {"close", "log", "free", "done", "undefined"}
    BY <1>1 DEF BaseInv, OutputInv, MainTypeOK, PC
  <2>2. ~InitSteps /\ ~ToolSteps /\ ~ReportSteps
    BY <2>1 DEF InitSteps, WithoutPenalty, OpenPenalty, FillPenalty, PenaltyLoaded,
       ToolSteps, EnterRun, SkipTool, MoreTools, OpenFails, LoadModule, ToolReports,
       ToolUndefined, ToolReturns, Collect, Adding, NextTool, ReportSteps, NoReport,
       SortErrors, ToolsDone, StartReport, GroupGoesOn, PrintGroup, PrintNothing,
       ReportUndefined, EndReport, Reporting
  <2>3. CloseSteps => /\ UNCHANGED <<printed, handed, faults>>
                      /\ phase' = "sorted" => phase = "sorted" /\ UNCHANGED out
    BY DEF CloseSteps, CloseLibpenalty, CloseLogger, CloseRobocheck, FreeVector, vecVars
  <2>. QED
    BY <1>1, <2>2, <2>3 DEF Next, Stopped, vars, vecVars, mainVars
<1>2. CASE json # "complete"
  <2>1. ~InitSteps /\ ~CloseSteps
    BY <1>2 DEF InitSteps, WithoutPenalty, OpenPenalty, FillPenalty, PenaltyLoaded,
       CloseSteps, CloseLibpenalty, CloseLogger, CloseRobocheck, mainVars
  <2>2. ~ToolSteps
    BY <1>2 DEF ToolSteps, EnterRun, SkipTool, OpenFails, LoadModule, ToolReports,
       ToolUndefined, ToolReturns, Collect, Adding, NextTool, mainVars
  <2>3. ReportSteps => EndReport
    BY <1>2 DEF ReportSteps, NoReport, SortErrors, StartReport, GroupGoesOn, PrintGroup,
       PrintNothing, ReportUndefined
  <2>. QED
    BY <1>2, <2>1, <2>2, <2>3 DEF Next, Stopped, vars, mainVars
<1>. QED
  BY <1>1, <1>2

\* What ReportIsPartition says of groups p, a vector v and its codes T.
PartitionOf(p, v, T) ==
  /\ {p[g].type : g \in 1..Len(p)} = T
  /\ \A g, h \in 1..Len(p) : g < h => p[g].type < p[h].type
  /\ \A g \in 1..Len(p) : \E a, b \in 1..Len(v) :
       /\ p[g].members = SubSeq(v, a, b)
       /\ {k \in 1..Len(v) : v[k].err_type = p[g].type} = a..b

\* The end of update_errors establishes what is said of a complete report,
\* and close_robocheck leaves it as it is.
LEMMA ReportPreserved ==
  ASSUME BaseInv, ScanInv, GroupsInv, ReportWellFormed, ReportCoversErrors, [Next]_vars
  PROVE  ReportWellFormed' /\ ReportCoversErrors'
<1>0. /\ ReportIsPartition <=>
           (json = "complete" /\ phase = "sorted" /\ faults = 0 =>
              PartitionOf(printed, out, Types))
      /\ ReportIsPartition' <=>
           (json' = "complete" /\ phase' = "sorted" /\ faults' = 0 =>
              PartitionOf(printed', out', Types'))
  BY DEF ReportIsPartition, PartitionOf
<1>1. CASE json' # "complete"
  BY <1>1 DEF ReportWellFormed, ReportIsPartition, CommasSeparateGroups, ReportCoversErrors
<1>2. CASE EndReport
  <2>1. /\ pc = "report" /\ ri > Len(out) + 1
        /\ UNCHANGED <<out, phase, faults, handed, printed>>
    BY <1>2 DEF EndReport, vecVars
  <2>2. SUFFICES ASSUME faults = 0 PROVE ReportWellFormed' /\ ReportCoversErrors'
    BY <2>1 DEF ReportWellFormed, ReportIsPartition, CommasSeparateGroups,
       ReportCoversErrors
  <2>3. WholeReport /\ out \in Seq(Slot) /\ phase = "sorted" /\ VecInv /\ ShrunkInv
    BY <2>1, <2>2, ReportIsWhole DEF BaseInv, ComponentsInv, ControlInv, VecInv, VecTypeOK
  <2>4. ReportIsPartition'
    <3>1. Types' = Types
      BY <2>1 DEF Types
    <3>2. PartitionOf(printed, out, Types)
      BY <2>3, WholeIsPartition DEF PartitionOf
    <3>. QED
      BY <1>0, <2>1, <3>1, <3>2
  <2>5. CommasSeparateGroups'
    BY <2>1, <2>3 DEF CommasSeparateGroups, WholeReport
  <2>6. ReportCoversErrors'
    <3>1. \A g : Members(g)' = Members(g)
      BY <2>1 DEF Members
    <3>. QED
      BY <2>1, <2>2, <2>3, <3>1, WholeCovers DEF ReportCoversErrors
  <2>. QED
    BY <2>4, <2>5, <2>6 DEF ReportWellFormed
<1>3. CASE /\ json = "complete" /\ UNCHANGED <<printed, handed, faults>>
           /\ phase' = "sorted" => phase = "sorted" /\ UNCHANGED out
  <2>1. ReportIsPartition'
    <3>1. phase' = "sorted" => Types' = Types
      BY <1>3 DEF Types
    <3>. QED
      BY <1>0, <1>3, <3>1 DEF ReportWellFormed
  <2>2. CommasSeparateGroups'
    BY <1>3 DEF ReportWellFormed, CommasSeparateGroups
  <2>3. ReportCoversErrors'
    <3>1. \A g : Members(g)' = Members(g)
      BY <1>3 DEF Members
    <3>. QED
      BY <1>3, <3>1 DEF ReportCoversErrors
  <2>. QED
    BY <2>1, <2>2, <2>3 DEF ReportWellFormed
<1>. QED
  BY <1>1, <1>2, <1>3, CompleteSteps

-----------------------------------------------------------------------------
(* Undefined behaviour *)

\* The steps of the main program whose outcome is undefined.
LEMMA UndefinedEntered ==
  ASSUME MainTypeOK, [Next]_vars, pc' = "undefined"
  PROVE  \/ EnterRun /\ config.file = "unreadable"
         \/ ToolUndefined \/ ReportUndefined
         \/ CloseLogger /\ stream' = "closed"
         \/ UNCHANGED vars
<1>1. ~InitSteps
  BY DEF InitSteps, WithoutPenalty, OpenPenalty, FillPenalty, PenaltyLoaded, mainVars
<1>2. ToolSteps => ToolUndefined \/ (EnterRun /\ config.file = "unreadable")
  <2>1. EnterRun => config.file = "unreadable"
    BY ConfigFacts DEF EnterRun
  <2>2. ~SkipTool /\ ~OpenFails /\ ~LoadModule /\ ~ToolReturns /\ ~Collect /\ ~NextTool
    BY DEF SkipTool, MoreTools, OpenFails, LoadModule, ToolReturns, Collect, NextTool
  <2>3. ~ToolReports /\ ~Adding
    BY DEF ToolReports, Adding, mainVars
  <2>. QED
    BY <2>1, <2>2, <2>3 DEF ToolSteps
<1>3. ReportSteps => ReportUndefined
  BY DEF ReportSteps, NoReport, SortErrors, StartReport, GroupGoesOn, PrintGroup,
     PrintNothing, EndReport, Reporting
<1>4. CloseSteps => CloseLogger /\ stream' = "closed"
  BY DEF CloseSteps, CloseLibpenalty, CloseLogger, CloseRobocheck
<1>. QED
  BY <1>1, <1>2, <1>3, <1>4 DEF Next, Stopped

\* Below the limit and without failed allocations, update_errors reads errors
\* only, and only the configuration can make apply_penalty's result undefined.
LEMMA ReportUndefinedExplained ==
  ASSUME BaseInv, ScanInv, ReportUndefined, out # <<>>, Len(out) < ALLOC_INC - 1,
         faults = 0, pfaults = 0
  PROVE  \E t \in Types : \/ DetailsOf(t) = {}
                          \/ \E n \in DetailsOf(t) : doc.nodes[n].detail.step = 0
<1>. DEFINE t == out[start].err_type
<1>1. /\ out \in Seq(Slot) /\ Len(out) \in Nat /\ Len(out) # 0 /\ inc \in Nat /\ cap \in Nat
      /\ ri \in Nat \ {0} /\ start \in Nat \ {0} /\ phase = "sorted" /\ Reporting
  BY DEF BaseInv, ComponentsInv, VecInv, VecTypeOK, MainTypeOK, ControlInv,
     ReportUndefined, Reporting
<1>2. FirstBlock /\ Live
  BY <1>1, AllocAssumption DEF BaseInv, ComponentsInv, VecInv, LimitInv, FirstBlock, Live
<1>3. cap # 0
  BY <1>2 DEF BaseInv, ComponentsInv, VecInv, BlockInv
<1>4. cap = ALLOC_INC /\ Len(out) < cap /\ \A k \in 1..Len(out) : out[k] \in Finding
  BY <1>2, <1>3 DEF BaseInv, ComponentsInv, VecInv, BlockInv
<1>5. \A k \in 1..Len(out) : IsError(k)
  BY <1>1, <1>4 DEF IsError
<1>6. start <= Len(out)
  BY <1>1 DEF ScanInv, Reporting
<1>7. GroupComplete
  BY <1>1, <1>5, <1>6 DEF GroupComplete, ReportUndefined
<1>8. PenaltyUndefined(t, ri - start)
  BY <1>7 DEF ReportUndefined
<1>9. t \in Code /\ out[start] \in Finding /\ start \in 1..Len(out)
  BY <1>1, <1>7, GroupSlots, CodesAssumption
<1>10. t \in Types
  BY <1>9 DEF Types
<1>11. TableFollowsConfig /\ pstate = "ready"
  BY <1>1, ReadyTable DEF BaseInv, ComponentsInv, ControlInv, OutputInv, Reporting
<1>12. CASE DetailsOf(t) # {}
  <2>1. PICK n \in DetailsOf(t) : table[t] = doc.nodes[n].detail
    BY <1>9, <1>11, <1>12 DEF TableFollowsConfig
  <2>2. table[t] \in Detail
    <3>1. n \in 1..Len(doc.nodes) /\ doc.nodes[n].detail # NoDetail
      BY VisitedFacts DEF DetailsOf, BaseInv, ComponentsInv, PenInv
    <3>. QED
      BY <2>1, <3>1, DocFacts DEF BaseInv, ComponentsInv, PenInv
  <2>3. table[t].step = 0
    BY <1>8, <2>2, PenaltyAssumption DEF PenaltyUndefined
  <2>. QED
    BY <1>10, <2>1, <2>3
<1>. QED
  BY <1>10, <1>12

\* Every way into undefined behaviour has one of the listed causes.
LEMMA UndefinedPreserved ==
  ASSUME BaseInv, BaseInv', SilenceInv, ScanInv, UndefinedExplained, [Next]_vars
  PROVE  UndefinedExplained'
<1>1. CASE phase' = "undefined"
  BY <1>1 DEF BaseInv, ComponentsInv, VecInv, UndefinedOnlyAtLimit, UndefinedExplained
<1>2. CASE pstate' = "undefined"
  BY <1>2 DEF BaseInv, ComponentsInv, PenInv, BeyondTable, UndefinedExplained
<1>3. CASE pc' = "undefined"
  <2>1. CASE EnterRun /\ config.file = "unreadable"
    BY <2>1 DEF EnterRun, UndefinedExplained
  <2>2. CASE ToolUndefined
    BY <2>2 DEF ToolUndefined, SilenceInv, UndefinedExplained
  <2>3. CASE ReportUndefined
    <3>1. json = "open" /\ UNCHANGED <<json, vecVars, penVars>>
      BY <2>3 DEF ReportUndefined, Reporting, BaseInv, OutputInv
    <3>2. Types' = Types /\ \A t : DetailsOf(t)' = DetailsOf(t)
      BY <3>1 DEF vecVars, penVars, Types, DetailsOf, Visited
    <3>3. \/ out = <<>> \/ Len(out) >= ALLOC_INC - 1 \/ faults > 0 \/ pfaults > 0
          \/ \E t \in Types : \/ DetailsOf(t) = {}
                              \/ \E n \in DetailsOf(t) : doc.nodes[n].detail.step = 0
      <4>1. Len(out) \in Nat /\ faults \in Nat /\ pfaults \in Nat
        BY DEF BaseInv, ComponentsInv, VecInv, VecTypeOK, PenInv, PenTypeOK
      <4>2. \/ Len(out) >= ALLOC_INC - 1 \/ faults > 0 \/ pfaults > 0
            \/ Len(out) < ALLOC_INC - 1 /\ faults = 0 /\ pfaults = 0
        BY <4>1, AllocAssumption
      <4>. QED
        BY <2>3, <4>2, ReportUndefinedExplained
    <3>. QED
      BY <3>1, <3>2, <3>3 DEF UndefinedExplained, vecVars, penVars
  <2>4. CASE CloseLogger /\ stream' = "closed"
    BY <2>4 DEF CloseLogger, BaseInv, OutputInv, UndefinedExplained
  <2>5. CASE UNCHANGED vars
    <3>1. Types' = Types /\ \A t : DetailsOf(t)' = DetailsOf(t)
      BY <2>5 DEF vars, vecVars, penVars, Types, DetailsOf, Visited
    <3>2. UNCHANGED <<phase, pstate, pc, config, doc, json, out, faults, pfaults, ran, stream>>
      BY <2>5 DEF vars, vecVars, penVars, mainVars
    <3>3. Undefined
      BY <1>3, <3>2 DEF Undefined
    <3>. QED
      BY <3>1, <3>2, <3>3 DEF UndefinedExplained
  <2>. QED
    BY <1>3, <2>1, <2>2, <2>3, <2>4, <2>5, UndefinedEntered DEF BaseInv
<1>. QED
  BY <1>1, <1>2, <1>3 DEF UndefinedExplained, Undefined
-----------------------------------------------------------------------------
(* The theorems *)

\* What holds at every step of a run.
RunInv == /\ BaseInv /\ SilenceInv /\ ScanInv /\ GroupsInv
          /\ printed \in Seq(GroupType)
          /\ ChargedAsRead
          /\ ReportWellFormed /\ ReportCoversErrors
          /\ UndefinedExplained

\* RunInv holds when main starts.
LEMMA RunInitially == Init => RunInv
<1>. SUFFICES ASSUME Init PROVE RunInv
  OBVIOUS
<1>1. BaseInv
  BY BaseInductive
<1>2. printed = <<>> /\ json = "none" /\ pc = "start" /\ ran = <<>>
  BY DEF Init
<1>3. printed \in Seq(GroupType) /\ Len(printed) = 0
  BY <1>2
<1>4. SilenceInv /\ ScanInv /\ GroupsInv
  BY <1>2 DEF SilenceInv, ScanInv, GroupsInv
<1>5. ChargedAsRead
  BY <1>3 DEF ChargedAsRead
<1>6. ReportWellFormed /\ ReportCoversErrors
  BY <1>2 DEF ReportWellFormed, ReportIsPartition, CommasSeparateGroups, ReportCoversErrors
<1>7. UndefinedExplained
  BY DEF UndefinedExplained, Undefined, Init, VecInit, PenInit
<1>. QED
  BY <1>1, <1>3, <1>4, <1>5, <1>6, <1>7 DEF RunInv

\* RunInv is inductive.
LEMMA RunPreserved == RunInv /\ [Next]_vars => RunInv'
<1>. SUFFICES ASSUME RunInv, [Next]_vars PROVE RunInv'
  OBVIOUS
<1>. USE DEF RunInv
<1>1. BaseInv'
  BY BaseInductive
<1>2. SilenceInv' /\ ScanInv' /\ GroupsInv'
  BY SilencePreserved, ScanPreserved, GroupsPreserved
<1>3. printed' \in Seq(GroupType) /\ ChargedAsRead'
  BY PrintedTyped, ChargePreserved
<1>4. ReportWellFormed' /\ ReportCoversErrors'
  BY ReportPreserved
<1>5. UndefinedExplained'
  BY <1>1, UndefinedPreserved
<1>. QED
  BY <1>1, <1>2, <1>3, <1>4, <1>5

(***************************************************************************)
(* A whole run, from main's start to its end, keeps the invariant RunInv.  *)
(***************************************************************************)
THEOREM RunInvariant == Spec => []RunInv
BY RunInitially, RunPreserved, PTL DEF Spec

(***************************************************************************)
(* Every variable of the run keeps its type: the components are called     *)
(* inside their preconditions, and the groups printed have the shape the   *)
(* report reader expects.                                                  *)
(***************************************************************************)
THEOREM RunTyping == Spec => []TypeOK
<1>1. RunInv => TypeOK
  BY DEF RunInv, BaseInv, ComponentsInv, ListInv, VecInv, PenInv, MainTypeOK, TypeOK
<1>. QED
  BY <1>1, RunInvariant, PTL

(***************************************************************************)
(* In every complete report of a run without failed allocations each       *)
(* collected code has one group with all its errors, the groups ascend,    *)
(* and commas separate them (update_errors' start and i, for any number of *)
(* tools and errors).                                                      *)
(***************************************************************************)
THEOREM ReportAlwaysWellFormed == Spec => []ReportWellFormed
<1>1. RunInv => ReportWellFormed
  BY DEF RunInv
<1>. QED
  BY <1>1, RunInvariant, PTL

(***************************************************************************)
(* Every error a tool handed to add_range is in the complete report or     *)
(* duplicates an error that is, and nothing is reported twice.             *)
(***************************************************************************)
THEOREM ReportAlwaysCovers == Spec => []ReportCoversErrors
<1>1. RunInv => ReportCoversErrors
  BY DEF RunInv
<1>. QED
  BY <1>1, RunInvariant, PTL

(***************************************************************************)
(* The value printed for a group whose penalty is a float or a double is   *)
(* the configured value, once or once per full step of members, as the     *)
(* last details loaded for its code say (apply_penalty).                   *)
(***************************************************************************)
THEOREM ChargeAlwaysFollows == Spec => []ChargeFollowsConfig
<1>1. RunInv => ChargeFollowsConfig
  BY FloatsChargedAsConfigured DEF RunInv
<1>. QED
  BY <1>1, RunInvariant, PTL

(***************************************************************************)
(* close_library_handlers has closed every module load_module opened when  *)
(* the run is done.                                                        *)
(***************************************************************************)
THEOREM HandlesAlwaysReleased == Spec => []HandlesReleased
<1>1. RunInv => HandlesReleased
  BY DEF RunInv, BaseInv, HandlesInv, HandlesReleased
<1>. QED
  BY <1>1, RunInvariant, PTL

(***************************************************************************)
(* A run that ends with nothing on stdout had no penalty library, no tool  *)
(* to call or a failed allocation (update_errors' early return).           *)
(***************************************************************************)
THEOREM SilenceAlwaysExplained == Spec => []SilenceExplained
<1>1. RunInv => SilenceExplained
  BY DEF RunInv, SilenceInv, SilenceExplained
<1>. QED
  BY <1>1, RunInvariant, PTL

(***************************************************************************)
(* Whatever makes a run's behaviour undefined is one of the causes         *)
(* UndefinedExplained lists: a readable configuration with usable          *)
(* penalties, working allocations, fewer than ALLOC_INC - 1 errors and     *)
(* some error to report leave only the message logged after fclose.        *)
(***************************************************************************)
THEOREM UndefinedAlwaysExplained == Spec => []UndefinedExplained
<1>1. RunInv => UndefinedExplained
  BY DEF RunInv
<1>. QED
  BY <1>1, RunInvariant, PTL
=============================================================================
