-------------------------- MODULE ErrorReportProofs --------------------------
(***************************************************************************)
(* A run of robocheck keeps the promise of ErrorReport: proof of the       *)
(* refinement Robocheck states as Implements, for every run in which no    *)
(* allocation fails and the vector stays below the realloc limit.          *)
(***************************************************************************)
EXTENDS RobocheckProofs, FiniteSetTheorems

(* Bags of sequences *)

\* The positions at which e stands in s.
At(s, e) == {k \in 1..Len(s) : s[k] = e}

\* Positions are counted by a number.
LEMMA AtFinite ==
  ASSUME NEW T, NEW s \in Seq(T), NEW e
  PROVE  IsFiniteSet(At(s, e)) /\ Cardinality(At(s, e)) \in Nat
<1>1. IsFiniteSet(1..Len(s))
  BY FS_Interval
<1>2. At(s, e) \in SUBSET (1..Len(s))
  BY DEF At
<1>. QED
  BY <1>1, <1>2, FS_Subset, FS_CardinalityType

\* A map between two sets with an inverse: they have equally many elements.
LEMMA SameCount ==
  ASSUME NEW S, NEW T, IsFiniteSet(S), NEW f \in [S -> T], NEW g \in [T -> S],
         \A x \in S : g[f[x]] = x, \A y \in T : f[g[y]] = y
  PROVE  Cardinality(T) = Cardinality(S)
<1>1. \A a, b \in S : f[a] = f[b] => a = b
  OBVIOUS
<1>2. \A t \in T : \E x \in S : f[x] = t
  OBVIOUS
<1>3. f \in Injection(S, T)
  BY <1>1 DEF Injection, IsInjective
<1>4. f \in Surjection(S, T)
  BY <1>2 DEF Surjection
<1>. QED
  BY <1>3, <1>4, FS_Bijection DEF ExistsBijection, Bijection

\* One more error: one more copy in the bag.
LEMMA BagAppend ==
  ASSUME NEW T, NEW s \in Seq(T), NEW f \in T
  PROVE  BagOf(Append(s, f)) = BagOf(s) (+) SetToBag({f})
<1>. DEFINE w == Append(s, f)
            D == {s[k] : k \in 1..Len(s)}
            E == {w[k] : k \in 1..Len(w)}
            B == BagOf(s) (+) SetToBag({f})
<1>1. /\ w \in Seq(T) /\ Len(w) = Len(s) + 1 /\ Len(s) \in Nat
      /\ \A k \in 1..Len(s) : w[k] = s[k]
      /\ w[Len(s) + 1] = f
  OBVIOUS
<1>2. BagOf(w) = [e \in E |-> Cardinality(At(w, e))]
  BY DEF BagOf, At
<1>3. BagOf(s) = [e \in D |-> Cardinality(At(s, e))]
  BY DEF BagOf, At
<1>. HIDE DEF w
<1>4. E = D \cup {f}
  BY <1>1
<1>5. DOMAIN BagOf(s) = D /\ DOMAIN SetToBag({f}) = {f}
  BY <1>3 DEF SetToBag
<1>6. ASSUME NEW e \in E
      PROVE  B[e] = Cardinality(At(w, e))
  <2>1. Cardinality(At(s, e)) \in Nat /\ IsFiniteSet(At(s, e))
    BY AtFinite
  <2>2. e \notin D => Cardinality(At(s, e)) = 0
    <3>1. e \notin D => At(s, e) = {}
      BY DEF At
    <3>. QED
      BY <3>1, FS_EmptySet
  <2>3. CASE e = f
    <3>1. At(w, e) = At(s, e) \cup {Len(s) + 1} /\ Len(s) + 1 \notin At(s, e)
      BY <1>1, <2>3 DEF At
    <3>2. Cardinality(At(w, e)) = Cardinality(At(s, e)) + 1
      BY <2>1, <3>1, FS_AddElement
    <3>3. B[e] = (IF e \in D THEN BagOf(s)[e] ELSE 0) + 1
      BY <1>4, <1>5, <2>3 DEF (+), SetToBag
    <3>4. e \in D => BagOf(s)[e] = Cardinality(At(s, e))
      BY <1>3
    <3>. QED
      BY <2>1, <2>2, <3>2, <3>3, <3>4
  <2>4. CASE e # f
    <3>1. At(w, e) = At(s, e)
      BY <1>1, <2>4 DEF At
    <3>2. e \in D
      BY <1>4, <2>4
    <3>3. B[e] = BagOf(s)[e] + 0
      BY <1>4, <1>5, <2>4, <3>2 DEF (+)
    <3>4. BagOf(s)[e] = Cardinality(At(s, e))
      BY <1>3, <3>2
    <3>. QED
      BY <2>1, <3>1, <3>3, <3>4
  <2>. QED
    BY <2>3, <2>4
<1>7. B = [e \in D \cup {f} |-> B[e]]
  BY <1>5 DEF (+)
<1>. HIDE DEF B
<1>8. BagOf(w) = B
  BY <1>2, <1>4, <1>6, <1>7
<1>. QED
  BY <1>8 DEF w, B

\* Exchanging two slots leaves the bag alone.
LEMMA BagExchange ==
  ASSUME NEW T, NEW s \in Seq(T), NEW m \in 1..Len(s), NEW n \in 1..Len(s)
  PROVE  BagOf(Exchange(s, m, n)) = BagOf(s)
<1>. DEFINE w == Exchange(s, m, n)
            Other(k) == IF k = m THEN n ELSE IF k = n THEN m ELSE k
<1>1. /\ w \in Seq(T) /\ Len(w) = Len(s)
      /\ \A k \in 1..Len(s) : Other(k) \in 1..Len(s) /\ w[k] = s[Other(k)]
  BY DEF Exchange
<1>2. \A k \in 1..Len(s) : Other(Other(k)) = k /\ w[Other(k)] = s[k]
  BY <1>1
<1>. HIDE DEF w, Other
<1>3. {w[k] : k \in 1..Len(w)} = {s[k] : k \in 1..Len(s)}
  BY <1>1, <1>2
<1>4. ASSUME NEW e
      PROVE  Cardinality(At(w, e)) = Cardinality(At(s, e))
  <2>. DEFINE f == [k \in At(s, e) |-> Other(k)]
              g == [k \in At(w, e) |-> Other(k)]
  <2>1. f \in [At(s, e) -> At(w, e)]
    BY <1>1, <1>2 DEF At
  <2>2. g \in [At(w, e) -> At(s, e)]
    BY <1>1, <1>2 DEF At
  <2>3. (\A x \in At(s, e) : g[f[x]] = x) /\ (\A y \in At(w, e) : f[g[y]] = y)
    <3>1. \A x \in At(s, e) : f[x] \in At(w, e) /\ x \in 1..Len(s)
      BY <2>1 DEF At
    <3>2. \A y \in At(w, e) : g[y] \in At(s, e) /\ y \in 1..Len(s)
      BY <1>1, <2>2 DEF At
    <3>. QED
      BY <1>2, <3>1, <3>2
  <2>. HIDE DEF f, g
  <2>. QED
    BY <2>1, <2>2, <2>3, AtFinite, SameCount
<1>5. BagOf(w) = BagOf(s)
  BY <1>3, <1>4 DEF BagOf, At
<1>. QED
  BY <1>5 DEF w
\* The errors of bag B with code t.
BagPart(B, t) == [e \in {x \in DOMAIN B : x.err_type = t} |-> B[e]]

\* The bag of the slots a..b: the part of the whole bag with their code, if
\* these are all its slots.
LEMMA BagOfSlice ==
  ASSUME NEW T, NEW s \in Seq(T), NEW t, NEW a \in 1..Len(s), NEW b \in 1..Len(s),
         a <= b, \A k \in 1..Len(s) : s[k].err_type = t <=> k \in a..b
  PROVE  BagOf(SubSeq(s, a, b)) = BagPart(BagOf(s), t)
<1>. DEFINE w == SubSeq(s, a, b)
            D == {s[k] : k \in 1..Len(s)}
<1>1. /\ Len(w) = b - a + 1
      /\ \A n \in 1..(b - a + 1) : w[n] = s[a + n - 1]
  OBVIOUS
<1>. HIDE DEF w
<1>2. BagOf(s) = [e \in D |-> Cardinality(At(s, e))]
  BY DEF BagOf, At
<1>3. \A n \in 1..Len(w) : a + n - 1 \in a..b /\ a + n - 1 \in 1..Len(s)
  BY <1>1
<1>4. \A k \in a..b : k - a + 1 \in 1..Len(w) /\ w[k - a + 1] = s[k]
  <2>. TAKE k \in a..b
  <2>1. k - a + 1 \in 1..(b - a + 1) /\ a + (k - a + 1) - 1 = k
    OBVIOUS
  <2>. QED
    BY <1>1, <2>1
<1>5. {w[n] : n \in 1..Len(w)} = {x \in D : x.err_type = t}
  <2>1. ASSUME NEW n \in 1..Len(w) PROVE w[n] \in D /\ w[n].err_type = t
    BY <1>1, <1>3
  <2>2. ASSUME NEW k \in 1..Len(s), s[k].err_type = t
        PROVE  s[k] \in {w[n] : n \in 1..Len(w)}
    <3>1. k \in a..b
      BY <2>2
    <3>. QED
      BY <1>4, <3>1
  <2>. QED
    BY <2>1, <2>2
<1>6. ASSUME NEW e, e.err_type = t
      PROVE  Cardinality(At(w, e)) = Cardinality(At(s, e))
  <2>. DEFINE f == [k \in At(s, e) |-> k - a + 1]
              g == [n \in At(w, e) |-> a + n - 1]
  <2>1. \A k \in At(s, e) : k \in a..b
    BY <1>6 DEF At
  <2>2. f \in [At(s, e) -> At(w, e)]
    BY <1>4, <2>1 DEF At
  <2>3. \A n \in At(w, e) : a + n - 1 \in At(s, e) /\ n \in Int
    BY <1>1, <1>3 DEF At
  <2>4. g \in [At(w, e) -> At(s, e)]
    BY <2>3
  <2>5. (\A x \in At(s, e) : g[f[x]] = x) /\ (\A y \in At(w, e) : f[g[y]] = y)
    <3>1. \A x \in At(s, e) : f[x] \in At(w, e) /\ x \in Int /\ f[x] = x - a + 1
      BY <2>1, <2>2
    <3>2. \A y \in At(w, e) : g[y] \in At(s, e) /\ y \in Int /\ g[y] = a + y - 1
      BY <2>3, <2>4
    <3>3. \A x \in At(s, e) : g[f[x]] = a + f[x] - 1
      BY <3>1
    <3>4. \A y \in At(w, e) : f[g[y]] = g[y] - a + 1
      BY <3>2
    <3>. HIDE DEF f, g
    <3>. QED
      BY <3>1, <3>2, <3>3, <3>4
  <2>. HIDE DEF f, g
  <2>. QED
    BY <2>2, <2>4, <2>5, AtFinite, SameCount
<1>7. BagOf(w) = [e \in {x \in D : x.err_type = t} |-> Cardinality(At(w, e))]
  BY <1>5 DEF BagOf, At
<1>8. BagOf(w) = [e \in {x \in D : x.err_type = t} |-> Cardinality(At(s, e))]
  BY <1>6, <1>7
<1>. HIDE DEF D
<1>9. BagPart(BagOf(s), t) = [e \in {x \in D : x.err_type = t} |-> Cardinality(At(s, e))]
  BY <1>2 DEF BagPart
<1>. QED
  BY <1>8, <1>9 DEF w

-----------------------------------------------------------------------------
(* The refinement mapping *)

found == IF Checking THEN BagOf(out) ELSE EmptyBag
report == IF json = "complete"
            THEN {[type |-> printed[g].type, members |-> BagOf(printed[g].members)] :
                    g \in 1..Len(printed)}
            ELSE {}
status == IF Undefined THEN "aborted"
          ELSE IF json = "complete" THEN "reported"
          ELSE IF Checking THEN "checking"
          ELSE "silent"

\* ErrorReport's own copies of the operators on bags and errors.
LEMMA SameOperators ==
  /\ Promise!EmptyBag = EmptyBag
  /\ \A S : Promise!SetToBag(S) = SetToBag(S)
  /\ \A B : Promise!BagToSet(B) = DOMAIN B
  /\ \A x, y : Promise!Duplicate(x, y) <=> Duplicate(x, y)
  /\ Promise!Finding = Finding
<1>1. /\ Promise!EmptyBag = EmptyBag
      /\ \A S : Promise!SetToBag(S) = SetToBag(S)
      /\ \A B : Promise!BagToSet(B) = DOMAIN B
  BY DEF Promise!EmptyBag, Promise!SetToBag, Promise!BagToSet, EmptyBag, SetToBag
<1>2. \A x, y : Promise!Duplicate(x, y) <=> Duplicate(x, y)
  BY DEF Promise!Duplicate, Promise!cmp_msg_file, Promise!SameName, Duplicate,
     cmp_msg_file, SameName
<1>3. Promise!Finding = Finding
  BY DEF Finding, Message, Promise!Finding, Promise!Message
<1>. QED
  BY <1>1, <1>2, <1>3

\* Steps of the mapped variables that are steps of ErrorReport.
LEMMA CollectedStep ==
  ASSUME NEW f \in Finding, status = "checking",
         \A g \in DOMAIN found : ~Duplicate(f, g),
         found' = found (+) SetToBag({f}), UNCHANGED <<report, status>>
  PROVE  Promise!ReportNext
<1>1. Promise!Collected(f)
  BY SameOperators DEF found, report, status, Promise!Collected, Promise!(+), (+)
<1>2. f \in Promise!Finding
  BY SameOperators
<1>. QED
  BY <1>1, <1>2 DEF Promise!ReportNext

LEMMA EndSilentlyStep ==
  ASSUME status = "checking", status' = "silent", found' = EmptyBag, report' = report
  PROVE  Promise!ReportNext
BY SameOperators DEF found, report, status, Promise!EndSilently, Promise!ReportNext

LEMMA AbortStep ==
  ASSUME status # "aborted", status' = "aborted", found' = EmptyBag, report' = report
  PROVE  Promise!ReportNext
BY SameOperators DEF found, report, status, Promise!Abort, Promise!ReportNext

LEMMA PublishStep ==
  ASSUME status = "checking", status' = "reported", found' = EmptyBag,
         report' = {[type |-> t, members |-> BagPart(found, t)] :
                      t \in {x.err_type : x \in DOMAIN found}}
  PROVE  Promise!ReportNext
BY SameOperators DEF found, report, status, BagPart,
   Promise!Publish, Promise!OfType, Promise!ReportNext
-----------------------------------------------------------------------------
(* The steps of a run *)

\* No allocation has failed and the block has never been reallocated.
InFirstBlock == faults = 0 /\ Len(out) < ALLOC_INC - 1

\* A run whose behaviour is undefined makes no more steps.
LEMMA UndefinedStops ==
  ASSUME BaseInv, Undefined, [Next]_vars
  PROVE  UNCHANGED vars
<1>1. CASE pc = "undefined"
  <2>1. ~InitSteps /\ ~ToolSteps /\ ~ReportSteps /\ ~CloseSteps
    BY <1>1 DEF InitSteps, WithoutPenalty, OpenPenalty, FillPenalty, PenaltyLoaded,
       ToolSteps, EnterRun, SkipTool, MoreTools, OpenFails, LoadModule, ToolReports,
       ToolUndefined, ToolReturns, Collect, Adding, NextTool, ReportSteps, NoReport,
       SortErrors, ToolsDone, StartReport, GroupGoesOn, PrintGroup, PrintNothing,
       ReportUndefined, EndReport, Reporting, CloseSteps, CloseLibpenalty, CloseLogger,
       CloseRobocheck
  <2>. QED
    BY <2>1 DEF Next, Stopped
<1>2. CASE phase = "undefined"
  <2>1. pc \in {"adding", "sort", "free"}
    BY <1>2 DEF BaseInv, ControlInv, MainTypeOK, PC
  <2>2. ~AddStep /\ ~SortStep /\ ~FreeVector /\ ~StartSort
    BY <1>2 DEF AddStep, SkipNode, StoreNode, GrowFails, AddOverrun, SortStep, CompareStep,
       NextRow, SortOverrun, EndSort, FreeVector, StartSort
  <2>3. ~InitSteps /\ ~ToolSteps
    BY <1>2, <2>1, <2>2 DEF InitSteps, WithoutPenalty, OpenPenalty, FillPenalty,
       PenaltyLoaded, ToolSteps, EnterRun, SkipTool, MoreTools, OpenFails, LoadModule,
       ToolReports, ToolUndefined, ToolReturns, Collect, Adding, NextTool
  <2>4. ~ReportSteps /\ ~CloseSteps
    BY <1>2, <2>1, <2>2 DEF ReportSteps, NoReport, SortErrors, ToolsDone, StartReport,
       GroupGoesOn, PrintGroup, PrintNothing, ReportUndefined, EndReport, Reporting,
       CloseSteps, CloseLibpenalty, CloseLogger, CloseRobocheck
  <2>. QED
    BY <2>3, <2>4 DEF Next, Stopped
<1>3. CASE pstate = "undefined"
  <2>1. pc = "penalty"
    BY <1>3 DEF BaseInv, ControlInv, MainTypeOK, PC
  <2>2. ~InitSteps
    BY <1>3, <2>1 DEF InitSteps, WithoutPenalty, OpenPenalty, FillPenalty, PenaltyLoaded,
       init_penalties, InitFails, FillStep, FillDone
  <2>3. ~ToolSteps /\ ~ReportSteps /\ ~CloseSteps
    BY <2>1 DEF ToolSteps, EnterRun, SkipTool, MoreTools, OpenFails, LoadModule, ToolReports,
       ToolUndefined, ToolReturns, Collect, Adding, NextTool, ReportSteps, NoReport,
       SortErrors, ToolsDone, StartReport, GroupGoesOn, PrintGroup, PrintNothing,
       ReportUndefined, EndReport, Reporting, CloseSteps, CloseLibpenalty, CloseLogger,
       CloseRobocheck
  <2>. QED
    BY <2>2, <2>3 DEF Next, Stopped
<1>. QED
  BY <1>1, <1>2, <1>3 DEF Undefined

\* close_robocheck neither reports nor goes back to checking.
LEMMA ClosingGoesOn ==
  ASSUME BaseInv, [Next]_vars, pc \in {"close", "log", "free", "done"}
  PROVE  /\ pc' \in {"close", "log", "free", "done", "undefined"}
         /\ UNCHANGED <<json, printed>>
<1>1. ~InitSteps /\ ~ToolSteps /\ ~ReportSteps
  BY DEF InitSteps, WithoutPenalty, OpenPenalty, FillPenalty, PenaltyLoaded,
     ToolSteps, EnterRun, SkipTool, MoreTools, OpenFails, LoadModule, ToolReports,
     ToolUndefined, ToolReturns, Collect, Adding, NextTool, ReportSteps, NoReport,
     SortErrors, ToolsDone, StartReport, GroupGoesOn, PrintGroup, PrintNothing,
     ReportUndefined, EndReport, Reporting
<1>2. CloseSteps => /\ pc' \in {"close", "log", "free", "done", "undefined"}
                    /\ UNCHANGED <<json, printed>>
  BY DEF CloseSteps, CloseLibpenalty, CloseLogger, CloseRobocheck
<1>. QED
  BY <1>1, <1>2 DEF Next, Stopped, vars, mainVars

\* A report that is complete stays as it is.
LEMMA CompleteStays ==
  ASSUME BaseInv, [Next]_vars, json = "complete"
  PROVE  UNCHANGED <<json, printed>>
<1>1. CASE pc = "undefined"
  BY <1>1, UndefinedStops DEF Undefined, vars, mainVars
<1>2. CASE pc \in {"close", "log", "free", "done"}
  BY <1>2, ClosingGoesOn
<1>. QED
  BY <1>1, <1>2 DEF BaseInv, OutputInv, MainTypeOK, PC

\* While errors are collected, a step leaves them as they are, reorders them
\* or adds one that duplicates none.
LEMMA CollectingSteps ==
  ASSUME BaseInv, InFirstBlock, InFirstBlock', Checking, Checking', [Next]_vars
  PROVE  \/ BagOf(out') = BagOf(out)
         \/ \E f \in Finding : /\ out' = Append(out, f)
                               /\ \A k \in 1..Len(out) : ~Duplicate(f, out[k])
<1>1. /\ out \in Seq(Slot) /\ Len(out) \in Nat /\ cap \in Nat /\ inc \in Nat
      /\ pending \in Seq(Finding) /\ faults = 0 /\ Live
      /\ (phase = "adding" => pending # <<>>) /\ si \in Nat /\ sj \in Nat
  BY DEF BaseInv, ComponentsInv, VecInv, VecTypeOK, InFirstBlock, Checking, Undefined, Live,
     ControlInv, MainTypeOK, PC
<1>2. FirstBlock
  BY <1>1, AllocAssumption DEF BaseInv, ComponentsInv, VecInv, LimitInv, FirstBlock, InFirstBlock
<1>3. faults' # faults + 1
  BY DEF InFirstBlock
<1>4. ~Undefined'
  BY DEF Checking
<1>5. CASE out' = out
  BY <1>5
<1>6. CASE Collect
  <2>1. out = <<>> => Unwritten(Len(out)) = <<>>
    BY DEF Unwritten
  <2>2. cap = 0 => out = <<>>
    BY <1>1 DEF BaseInv, ComponentsInv, VecInv, BlockInv
  <2>3. out' = out
    BY <1>6, <2>1, <2>2 DEF Collect, AddRange, AddRangeFails
  <2>. QED
    BY <2>3
<1>7. CASE Adding
  <2>1. phase = "adding" => ~Grow /\ SlotsNow = cap
    BY <1>1, AllocAssumption DEF InFirstBlock, Grow, SlotsNow
  <2>2. phase = "adding" => cap = ALLOC_INC
    BY <1>1, <1>2 DEF BaseInv, ComponentsInv, VecInv, BlockInv
  <2>3. CASE SkipNode
    <3>1. phase = "adding" /\ out' = Kept
      BY <2>3 DEF SkipNode
    <3>2. \A k \in 1..Len(out) : k <= SlotsNow
      BY <1>1, <2>1, <2>2, <3>1, AllocAssumption DEF InFirstBlock
    <3>3. Kept = out
      BY <1>1, <3>2 DEF Kept
    <3>. QED
      BY <3>1, <3>3
  <2>4. CASE StoreNode
    <3>1. out' = Append(out, Head(pending)) /\ NoDuplicate(Head(pending)) /\ phase = "adding"
      BY <1>3, <2>4 DEF StoreNode
    <3>2. Head(pending) \in Finding
      BY <1>1, <3>1
    <3>. QED
      BY <3>1, <3>2 DEF NoDuplicate
  <2>5. CASE GrowFails
    BY <1>3, <2>5 DEF GrowFails
  <2>6. CASE AddOverrun
    BY <1>4, <2>6 DEF AddOverrun, Undefined
  <2>. QED
    BY <1>7, <2>3, <2>4, <2>5, <2>6 DEF Adding, AddStep
<1>8. CASE SortErrors
  <2>1. CASE CompareStep
    <3>1. si \in 1..Len(out) /\ sj \in 1..Len(out)
      BY <1>1, <2>1 DEF CompareStep, BaseInv, ComponentsInv, VecInv, VecTypeOK
    <3>2. out' = out \/ out' = Exchange(out, si, sj)
      BY <2>1 DEF CompareStep
    <3>. QED
      BY <1>1, <3>1, <3>2, BagExchange
  <2>2. CASE out' = out
    BY <2>2
  <2>. QED
    BY <1>8, <2>1, <2>2 DEF SortErrors, StartSort, SortStep, NextRow, SortOverrun, EndSort
<1>9. CASE ~Collect /\ ~Adding /\ ~SortErrors
  <2>1. InitSteps => out' = out
    BY DEF InitSteps, WithoutPenalty, OpenPenalty, FillPenalty, PenaltyLoaded, vecVars
  <2>2. ToolSteps => out' = out
    BY <1>9 DEF ToolSteps, EnterRun, SkipTool, OpenFails, LoadModule, ToolReports,
       ToolUndefined, ToolReturns, NextTool, vecVars
  <2>3. ReportSteps => out' = out
    BY <1>9 DEF ReportSteps, NoReport, StartReport, GroupGoesOn, PrintGroup, PrintNothing,
       ReportUndefined, EndReport, vecVars
  <2>4. ~CloseSteps
    BY DEF CloseSteps, CloseLibpenalty, CloseLogger, CloseRobocheck, Checking
  <2>5. out' = out
    BY <2>1, <2>2, <2>3, <2>4 DEF Next, Stopped, vars, vecVars
  <2>. QED
    BY <2>5
<1>. QED
  BY <1>6, <1>7, <1>8, <1>9
\* The end of update_errors publishes what has been collected.
LEMMA EndReportPublishes ==
  ASSUME RunInv, InFirstBlock, EndReport, ~Undefined, ~Undefined'
  PROVE  Promise!ReportNext
<1>1. /\ pc = "report" /\ ri > Len(out) + 1 /\ UNCHANGED <<out, printed>>
      /\ json' = "complete" /\ json = "open" /\ faults = 0
  BY DEF EndReport, vecVars, RunInv, BaseInv, OutputInv, InFirstBlock
<1>2. WholeReport /\ out \in Seq(Slot)
  BY <1>1, ReportIsWhole DEF RunInv, BaseInv, ComponentsInv, VecInv, VecTypeOK
<1>3. Checking /\ ~Checking'
  BY <1>1 DEF Checking
<1>4. status = "checking" /\ status' = "reported"
  BY <1>1, <1>3 DEF status
<1>5. found = BagOf(out) /\ found' = EmptyBag
  <2>1. found = BagOf(out)
    BY <1>3 DEF found
  <2>2. found' = EmptyBag'
    BY <1>3 DEF found
  <2>3. EmptyBag' = EmptyBag
    BY DEF EmptyBag, SetToBag
  <2>. QED
    BY <2>1, <2>2, <2>3
<1>6. DOMAIN found = {out[k] : k \in 1..Len(out)}
  BY <1>5 DEF BagOf
<1>7. {x.err_type : x \in DOMAIN found} = {printed[g].type : g \in 1..Len(printed)}
  <2>1. {out[k] : k \in 1..Len(out)} \cap Finding = {out[k] : k \in 1..Len(out)}
    BY <1>2 DEF WholeReport
  <2>2. Types = {x.err_type : x \in DOMAIN found}
    BY <1>6, <2>1 DEF Types
  <2>. QED
    BY <1>2, <2>2, WholeIsPartition
<1>8. ASSUME NEW g \in 1..Len(printed)
      PROVE  BagOf(printed[g].members) = BagPart(found, printed[g].type)
  <2>1. PICK a \in 1..Len(out), b \in 1..Len(out) :
          IsGroup(printed[g].type, a, b) /\ printed[g].members = SubSeq(out, a, b)
    BY <1>2 DEF WholeReport
  <2>. DEFINE t == printed[g].type
  <2>2. a <= b /\ \A k \in 1..Len(out) : out[k].err_type = t <=> k \in a..b
    BY <1>2, <2>1 DEF IsGroup, WholeReport
  <2>. HIDE DEF t
  <2>3. BagOf(SubSeq(out, a, b)) = BagPart(BagOf(out), t)
    BY <1>2, <2>2, BagOfSlice
  <2>. QED
    BY <1>5, <2>1, <2>3 DEF t
<1>9. report' = {[type |-> printed[g].type, members |-> BagOf(printed[g].members)] :
                   g \in 1..Len(printed)}
  <2>1. report' = {[type |-> printed'[g].type, members |-> BagOf(printed'[g].members)] :
                     g \in 1..Len(printed')}
    BY <1>1 DEF report, BagOf
  <2>. QED
    BY <1>1, <2>1
<1>10. report' = {[type |-> t, members |-> BagPart(found, t)] : t \in {x.err_type : x \in DOMAIN found}}
  <2>. DEFINE Rec(t, m) == [type |-> t, members |-> m]
              TT == {printed[g].type : g \in 1..Len(printed)}
  <2>1. report' = {Rec(printed[g].type, BagOf(printed[g].members)) : g \in 1..Len(printed)}
    BY <1>9
  <2>. HIDE DEF Rec
  <2>2. report' = {Rec(printed[g].type, BagPart(found, printed[g].type)) : g \in 1..Len(printed)}
    BY <1>8, <2>1
  <2>3. report' = {Rec(t, BagPart(found, t)) : t \in TT}
    BY <2>2
  <2>. QED
    BY <1>7, <2>3 DEF Rec
<1>. QED
  BY <1>4, <1>5, <1>10, PublishStep

\* Every step of the run is a step of ErrorReport or leaves it alone.
LEMMA StepImplements ==
  ASSUME RunInv, InFirstBlock, InFirstBlock', [Next]_vars
  PROVE  Promise!ReportNext \/ UNCHANGED <<found, report, status>>
<1>0. BaseInv
  BY DEF RunInv
<1>1. EmptyBag' = EmptyBag
  BY DEF EmptyBag, SetToBag
<1>2. json = "complete" \/ json' = "complete" => EndReport \/ UNCHANGED <<json, printed>>
  BY <1>0, CompleteSteps, CompleteStays
<1>3. ~EndReport => report' = report
  BY <1>2 DEF report, BagOf
<1>4. CASE Undefined
  <2>1. UNCHANGED vars
    BY <1>0, <1>4, UndefinedStops
  <2>2. UNCHANGED Undefined /\ UNCHANGED <<json, pc, printed>>
    BY <2>1 DEF Undefined, vars, vecVars, penVars, mainVars
  <2>3. UNCHANGED <<found, status>>
    BY <1>1, <1>4, <2>2 DEF found, status, Checking
  <2>4. ~EndReport
    BY <2>2 DEF EndReport
  <2>. QED
    BY <1>3, <2>3, <2>4
<1>5. CASE ~Undefined /\ Undefined'
  <2>1. ~EndReport
    BY <1>0, <1>5 DEF EndReport, Undefined, BaseInv, ControlInv, vecVars, penVars
  <2>2. found' = EmptyBag /\ status # "aborted" /\ status' = "aborted"
    BY <1>1, <1>5 DEF found, status, Checking
  <2>. QED
    BY <1>3, <2>1, <2>2, AbortStep
<1>6. CASE ~Undefined /\ ~Undefined'
  <2>1. CASE EndReport
    BY <1>6, <2>1, EndReportPublishes
  <2>2. CASE ~EndReport /\ json = "complete"
    <3>1. json' = "complete"
      BY <1>0, <2>2, CompleteStays
    <3>2. UNCHANGED <<found, status>>
      BY <1>1, <1>6, <2>2, <3>1 DEF found, status, Checking
    <3>. QED
      BY <1>3, <2>2, <3>2
  <2>3. CASE ~EndReport /\ json # "complete"
    <3>1. json' # "complete" /\ report' = report
      BY <1>2, <1>3, <2>3
    <3>2. CASE ~Checking
      <4>1. pc \in {"close", "log", "free", "done"}
        BY <1>6, <2>3, <3>2 DEF Checking
      <4>2. ~Checking'
        BY <1>0, <1>6, <4>1, ClosingGoesOn DEF Checking, Undefined
      <4>3. UNCHANGED <<found, status>>
        BY <1>1, <1>6, <2>3, <3>1, <3>2, <4>2 DEF found, status
      <4>. QED
        BY <3>1, <4>3
    <3>3. CASE Checking /\ ~Checking'
      <4>1. status = "checking" /\ status' = "silent" /\ found' = EmptyBag
        BY <1>1, <1>6, <2>3, <3>1, <3>3 DEF found, status
      <4>. QED
        BY <3>1, <4>1, EndSilentlyStep
    <3>4. CASE Checking /\ Checking'
      <4>1. status = "checking" /\ status' = "checking"
        BY <1>6, <2>3, <3>1, <3>4 DEF status
      <4>2. found = BagOf(out)
        BY <3>4 DEF found
      <4>3. found' = BagOf(out')
        BY <3>4 DEF found, BagOf
      <4>4. CASE BagOf(out') = BagOf(out)
        BY <3>1, <4>1, <4>2, <4>3, <4>4
      <4>5. ASSUME NEW f \in Finding, out' = Append(out, f),
                   \A k \in 1..Len(out) : ~Duplicate(f, out[k])
            PROVE  Promise!ReportNext
        <5>1. out \in Seq(Slot) /\ f \in Slot
          BY <1>0 DEF BaseInv, ComponentsInv, VecInv, VecTypeOK, Slot
        <5>2. found' = found (+) SetToBag({f})
          BY <4>2, <4>3, <4>5, <5>1, BagAppend
        <5>3. \A g \in DOMAIN found : ~Duplicate(f, g)
          BY <4>2, <4>5 DEF BagOf
        <5>. QED
          BY <3>1, <4>1, <5>2, <5>3, CollectedStep
      <4>. QED
        BY <1>0, <3>4, <4>4, <4>5, CollectingSteps
    <3>. QED
      BY <3>2, <3>3, <3>4
  <2>. QED
    BY <2>1, <2>2, <2>3
<1>. QED
  BY <1>4, <1>5, <1>6

\* main starts with nothing collected and nothing published.
LEMMA InitImplements == Init => Promise!ReportInit
<1>. SUFFICES ASSUME Init PROVE Promise!ReportInit
  OBVIOUS
<1>1. out = <<>> /\ json = "none" /\ ~Undefined /\ Checking
  BY DEF Init, VecInit, PenInit, Undefined, Checking
<1>2. BagOf(<<>>) = EmptyBag
  BY DEF BagOf, EmptyBag, SetToBag
<1>. QED
  BY <1>1, <1>2, SameOperators DEF Promise!ReportInit

(***************************************************************************)
(* A run in which no allocation fails and fewer than ALLOC_INC - 1 errors  *)
(* are collected implements ErrorReport, whatever the configuration, the   *)
(* tools and the errors are: add_range collects errors one at a time and   *)
(* no duplicate of a collected one, sort_output_vector loses none, and     *)
(* update_errors publishes each of them under its code.                    *)
(***************************************************************************)
THEOREM RunImplements == Spec /\ []InFirstBlock => Implements
<1>1. RunInv /\ InFirstBlock /\ InFirstBlock' /\ [Next]_vars
        => [Promise!ReportNext]_<<found, report, status>>
  BY StepImplements
<1>. QED
  BY <1>1, InitImplements, RunInvariant, PTL
     DEF Spec, Implements, Promise!ReportSpec, found, report, status
=============================================================================
