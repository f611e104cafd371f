-------------------------- MODULE ToolModuleProofs --------------------------
(***************************************************************************)
(* Proofs about the tool modules: about the scratch files they share, for  *)
(* every order of tools, every set of child processes and every number of  *)
(* runs; and about the Dr. Memory module beside the processes it watches,  *)
(* for every program, results file and interleaving.                       *)
(***************************************************************************)
EXTENDS ScratchFiles, DrMemoryModule, TLAPS

-----------------------------------------------------------------------------
(* ScratchFiles *)

ScratchPC == {"system", "list", "open", "fopen", "rm", "off"}

ScratchTypeOK == /\ run \in Nat /\ step \in 1..Len(Tools)
                 /\ scratch_pc \in ScratchPC
                 /\ scratch = [n \in ScratchName |-> scratch[n]]
                 /\ readonly \subseteq ScratchName

\* A file of this step, or one with an excuse.
Excused(o) == o \in abandoned \cup {User}
OwnOrExcused(o) == Stale(o) => Excused(o)

\* Logs that nobody excused belong to the step that is about to remove them.
LogsInv ==
  /\ \A o \in fil : Excused(o) \/ (scratch_pc \in {"list", "open"} /\ ~Stale(o))
  /\ \A o \in todo : OwnOrExcused(o)
  /\ todo # {} => scratch_pc = "open"
  /\ scratch_pc \in {"list", "open"} => tool \in Grind

\* So does an output file; what the shell cannot overwrite is the user's.
OutputInv ==
  /\ \A n \in readonly : scratch[n] = User
  /\ \A n \in ScratchName :
       \/ Excused(scratch[n]) \/ scratch[n] = Absent
       \/ scratch_pc \in {"fopen", "rm"} /\ n = OUTPUT_FILE[tool]
  /\ scratch_pc \in {"fopen", "rm"} =>
       tool \notin Grind /\ scratch[OUTPUT_FILE[tool]] \in {At("main"), User}

ParsedInv ==
  /\ scratch_pc \in {"system", "list", "off"} => parsed = {}
  /\ \A o \in parsed : OwnOrExcused(o) /\ (tool \notin Grind /\ Stale(o) => o = User)

ScratchInv == ScratchTypeOK /\ LogsInv /\ OutputInv /\ ParsedInv

\* Every step runs one of the five tools, and a static one writes to a file
\* of a known name.
LEMMA ToolFacts ==
  ASSUME ScratchTypeOK
  PROVE  /\ tool \in Grind \cup DOMAIN OUTPUT_FILE
         /\ tool \notin Grind => OUTPUT_FILE[tool] \in ScratchName
<1>1. tool \in Grind \cup DOMAIN OUTPUT_FILE
  BY ToolsAssumption DEF ScratchTypeOK, tool
<1>. QED
  BY <1>1 DEF OUTPUT_FILE, ScratchName

\* The user's files, or none, are all there is before the first run.
LEMMA ScratchInitEstablishes == ScratchInit => ScratchInv
BY ToolsAssumption DEF ScratchInit, ScratchInv, ScratchTypeOK, ScratchPC, LogsInv,
   OutputInv, ParsedInv, Excused

\* When a step ends, the next one has parsed nothing yet.
LEMMA NextToolFacts ==
  ASSUME ScratchTypeOK, NextTool
  PROVE  /\ run' = run /\ step' \in 1..Len(Tools)
         /\ scratch_pc' \in {"system", "off"} /\ parsed' = {}
BY ToolsAssumption DEF NextTool, ScratchTypeOK

\* A step of a Valgrind or Helgrind module keeps every log its own or excused.
LEMMA GrindStepPreserves ==
  ASSUME ScratchInv,
         \/ RunValgrind \/ ListOutput \/ ParseLog \/ OpenFails
         \/ RemoveLogs \/ ChildLogs
  PROVE  ScratchInv'
<1>. USE DEF ScratchInv, LogsInv, OutputInv, ParsedInv, Excused, OwnOrExcused
<1>1. CASE RunValgrind
  <2>1. ~Stale(At("main"))
    BY DEF Stale, At
  <2>. QED
    BY <1>1, <2>1 DEF RunValgrind, ScratchTypeOK, ScratchPC, Stale, At, tool
<1>2. CASE ListOutput
  BY <1>2 DEF ListOutput, ScratchTypeOK, ScratchPC, Stale, At, tool
<1>3. CASE ParseLog
  BY <1>3 DEF ParseLog, Parse, ScratchTypeOK, ScratchPC, Stale, At, tool
<1>4. CASE OpenFails
  <2>1. ScratchTypeOK' /\ scratch_pc' \in {"system", "off"} /\ parsed' = {}
    BY <1>4, NextToolFacts DEF OpenFails, ScratchTypeOK, ScratchPC
  <2>. QED
    BY <1>4, <2>1 DEF OpenFails
<1>5. CASE RemoveLogs
  <2>1. ScratchTypeOK' /\ scratch_pc' \in {"system", "off"} /\ parsed' = {}
    BY <1>5, NextToolFacts DEF RemoveLogs, ScratchTypeOK, ScratchPC
  <2>. QED
    BY <1>5, <2>1 DEF RemoveLogs
<1>6. CASE ChildLogs
  BY <1>6 DEF ChildLogs, ScratchTypeOK, ScratchPC, Stale, At, tool
<1>. QED
  BY <1>1, <1>2, <1>3, <1>4, <1>5, <1>6

\* A step of a Splint, Simian or Sparse module writes, parses and removes a
\* file that is its own, unless the user's could not be overwritten.
LEMMA StaticStepPreserves ==
  ASSUME ScratchInv, RunStatic \/ ParseOutput \/ NoOutput \/ RemoveOutput
  PROVE  ScratchInv'
<1>. USE DEF ScratchInv, LogsInv, OutputInv, ParsedInv, Excused, OwnOrExcused
<1>1. CASE RunStatic
  <2>. DEFINE n == OUTPUT_FILE[tool]
  <2>1. /\ n \in ScratchName /\ tool \notin Grind /\ tool' = tool
        /\ At("main")' = At("main")
    BY <1>1, ToolFacts DEF RunStatic, tool, At
  <2>2. /\ scratch'[n] = IF n \in readonly THEN User ELSE At("main")
        /\ \A m \in ScratchName : m # n => scratch'[m] = scratch[m]
        /\ scratch' = [m \in ScratchName |-> scratch'[m]]
    BY <1>1, <2>1 DEF RunStatic, ScratchTypeOK
  <2>3. ScratchTypeOK'
    BY <1>1, <2>2 DEF RunStatic, ScratchTypeOK, ScratchPC
  <2>4. LogsInv' /\ ParsedInv'
    BY <1>1, <2>1 DEF RunStatic, Stale
  <2>5. OutputInv'
    BY <1>1, <2>1, <2>2 DEF RunStatic, ScratchTypeOK
  <2>. QED
    BY <2>3, <2>4, <2>5
<1>2. CASE ParseOutput
  <2>1. ~Stale(At("main"))
    BY DEF Stale, At
  <2>. QED
    BY <1>2, <2>1 DEF ParseOutput, Parse, ScratchTypeOK, ScratchPC, Stale, At, tool
<1>3. CASE NoOutput
  <2>1. ScratchTypeOK' /\ scratch_pc' \in {"system", "off"} /\ parsed' = {}
    BY <1>3, NextToolFacts DEF NoOutput, ScratchTypeOK, ScratchPC
  <2>. QED
    BY <1>3, <2>1 DEF NoOutput
<1>4. CASE RemoveOutput
  <2>1. run' = run /\ scratch_pc' \in {"system", "off"} /\ parsed' = {}
        /\ step' \in 1..Len(Tools)
    BY <1>4, NextToolFacts DEF RemoveOutput
  <2>2. OUTPUT_FILE[tool] \in ScratchName
    BY <1>4, ToolFacts DEF RemoveOutput
  <2>3. /\ scratch'[OUTPUT_FILE[tool]] = Absent
        /\ \A m \in ScratchName : m # OUTPUT_FILE[tool] => scratch'[m] = scratch[m]
        /\ scratch' = [m \in ScratchName |-> scratch'[m]]
    BY <1>4, <2>2 DEF RemoveOutput, ScratchTypeOK
  <2>4. ScratchTypeOK'
    BY <1>4, <2>1, <2>3 DEF RemoveOutput, ScratchTypeOK, ScratchPC
  <2>5. LogsInv' /\ ParsedInv'
    BY <1>4, <2>1 DEF RemoveOutput
  <2>6. OutputInv'
    BY <1>4, <2>1, <2>3 DEF RemoveOutput, ScratchTypeOK
  <2>. QED
    BY <2>4, <2>5, <2>6
<1>. QED
  BY <1>1, <1>2, <1>3, <1>4

\* An interrupt excuses every file there is; a new run finds only those.
LEMMA RunStepPreserves ==
  ASSUME ScratchInv, Interrupt \/ NewRun \/ UNCHANGED scratchVars
  PROVE  ScratchInv'
<1>. USE DEF ScratchInv, LogsInv, OutputInv, ParsedInv, Excused, OwnOrExcused
<1>1. CASE Interrupt
  BY <1>1 DEF Interrupt, ScratchTypeOK, ScratchPC
<1>2. CASE NewRun
  <2>1. 1 \in 1..Len(Tools)
    BY ToolsAssumption
  <2>2. ScratchTypeOK'
    BY <1>2, <2>1 DEF NewRun, ScratchTypeOK, ScratchPC
  <2>. QED
    BY <1>2, <2>2 DEF NewRun
<1>3. CASE UNCHANGED scratchVars
  BY <1>3 DEF scratchVars, ScratchTypeOK, Stale, At, tool
<1>. QED
  BY <1>1, <1>2, <1>3

\* In every history of runs, interrupts and late children, every scratch file
\* is the current step's own or has an excuse.
THEOREM ScratchInvariant == ScratchSpec => []ScratchInv
<1>1. ScratchInv /\ [ScratchNext]_scratchVars => ScratchInv'
  BY GrindStepPreserves, StaticStepPreserves, RunStepPreserves DEF ScratchNext
<1>. QED
  BY <1>1, ScratchInitEstablishes, PTL DEF ScratchSpec

\* No tool module takes errors from a file of another step or run, and none
\* leaves one behind, except after an interrupt, a failed fopen or a child
\* that opens its log late, or when the file is the user's: for every order
\* of tools and every number of runs.
THEOREM ScratchFilesExplained == ScratchSpec => []StaleFilesExplained
<1>1. ScratchInv => StaleFilesExplained
  BY DEF ScratchInv, LogsInv, OutputInv, ParsedInv, Excused, OwnOrExcused,
     StaleFilesExplained, StaticOutputFresh, StaleLogExplained, LeftoversExplained
<1>. QED
  BY <1>1, ScratchInvariant, PTL

-----------------------------------------------------------------------------
(* DrMemoryModule: what the parser has made of the lines it has read *)

\* The header on line i has err_type t, and only frames of libraries follow it
\* up to line a.
Tracing(f, i, a, t) == /\ i \in 1..a /\ f[i].k = "error" /\ f[i].t = t /\ t \in Tracked
                       /\ \A n \in (i + 1)..a : f[n].k = "foreign"

\* What run_tool has detected with a lines read: get_info is at work, or not.
Progress(f, a, t, d) ==
  /\ t = NULL => Lists(f, a, d)
  /\ t # NULL => \E i \in 1..a : Tracing(f, i, a, t) /\ Lists(f, i - 1, d)

LEMMA LineTyping ==
  ASSUME NEW f \in Results
  PROVE  /\ Len(f) \in Nat
         /\ \A i \in 1..Len(f) : f[i] \in Line
         /\ \A i \in 1..Len(f) : f[i].k \in {"error", "own", "foreign", "text", "blank"}
         /\ \A i \in 1..Len(f) : f[i].k = "error" => f[i].t \in ErrType
         /\ \A i \in 1..Len(f) : f[i].k = "own" => f[i].m \in Message
  <1>1. f \in Seq(Line)
    BY DrMemoryAssumption
  <1>2. Len(f) \in Nat /\ \A i \in 1..Len(f) : f[i] \in Line
    BY <1>1
  <1>3. \A x \in Line : /\ x.k \in {"error", "own", "foreign", "text", "blank"}
                        /\ x.k = "error" => x.t \in ErrType
                        /\ x.k = "own" => x.m \in Message
    BY DEF Line
  <1> QED  BY <1>2, <1>3

LEMMA TraceUnique ==
  ASSUME NEW f \in Results, NEW i \in 1..Len(f), NEW j \in 1..Len(f), NEW k \in 1..Len(f),
         IsTraced(f, i, j), IsTraced(f, i, k)
  PROVE  j = k
  <1>1. Len(f) \in Nat
    BY LineTyping
  <1>2. CASE j < k
    <2>1. j \in (i + 1)..(k - 1)
      BY <1>1, <1>2 DEF IsTraced
    <2> QED  BY <2>1 DEF IsTraced
  <1>3. CASE k < j
    <2>1. k \in (i + 1)..(j - 1)
      BY <1>1, <1>3 DEF IsTraced
    <2> QED  BY <2>1 DEF IsTraced
  <1> QED  BY <1>1, <1>2, <1>3

LEMMA ErrorOfTrace ==
  ASSUME NEW f \in Results, NEW i \in 1..Len(f), NEW j \in 1..Len(f), IsTraced(f, i, j)
  PROVE  ErrorAt(f, i) = [err_type |-> f[i].t, err_msg |-> f[j].m]
  <1> DEFINE c == CHOOSE k \in 1..Len(f) : IsTraced(f, i, k)
  <1>1. c \in 1..Len(f) /\ IsTraced(f, i, c)
    OBVIOUS
  <1>2. c = j
    <2> HIDE DEF c
    <2> QED  BY <1>1, TraceUnique
  <1> QED  BY <1>2 DEF ErrorAt

LEMMA OrderNone == \A H : H = {} => InOrder(0, H) # {}
  <1> SUFFICES InOrder(0, {}) # {}
    OBVIOUS
  <1> DEFINE h == [k \in 1..0 |-> 0]
  <1>1. h \in [1..0 -> {}]
    OBVIOUS
  <1> HIDE DEF h
  <1> QED  BY <1>1 DEF InOrder

\* G can be numbered as h does, with i behind.
Continues(n, G, h, i) ==
  \E g \in InOrder(n + 1, G) : g[n + 1] = i /\ \A k \in 1..n : g[k] = h[k]

LEMMA OrderOne ==
  ASSUME NEW n \in Nat, NEW H, H \subseteq Nat, NEW h \in InOrder(n, H),
         NEW i \in Nat, \A j \in H : j < i, NEW G, G = H \cup {i}
  PROVE  Continues(n, G, h, i)
  <1> DEFINE g == [k \in 1..(n + 1) |-> IF k = n + 1 THEN i ELSE h[k]]
  <1>1. /\ h \in [1..n -> H] /\ \A j \in H : \E k \in 1..n : h[k] = j
        /\ \A k, l \in 1..n : k < l => h[k] < h[l]
    BY DEF InOrder
  <1>2. /\ \A k \in 1..n : k \in 1..(n + 1) /\ k # n + 1
        /\ \A k \in 1..(n + 1) : k = n + 1 \/ k \in 1..n
        /\ n + 1 \in 1..(n + 1)
    OBVIOUS
  <1>3. g[n + 1] = i /\ \A k \in 1..n : g[k] = h[k]
    BY <1>2
  <1>4. g \in [1..(n + 1) -> H \cup {i}]
    BY <1>1, <1>2
  <1> HIDE DEF g
  <1>5. \A j \in H \cup {i} : \E k \in 1..(n + 1) : g[k] = j
    BY <1>1, <1>2, <1>3
  <1>6. ASSUME NEW k \in 1..(n + 1), NEW l \in 1..(n + 1), k < l PROVE g[k] < g[l]
    <2>1. k \in 1..n
      BY <1>6
    <2>2. CASE l = n + 1
      BY <1>1, <1>3, <2>1, <2>2
    <2>3. CASE l \in 1..n
      BY <1>1, <1>3, <1>6, <2>1, <2>3
    <2> QED  BY <1>2, <2>2, <2>3
  <1>7. g \in InOrder(n + 1, H \cup {i})
    BY <1>4, <1>5, <1>6 DEF InOrder
  <1> QED  BY <1>3, <1>7 DEF Continues

LEMMA ListsNone ==
  ASSUME NEW f \in Results
  PROVE  Lists(f, 0, <<>>)
  <1>1. Headers(f, 0) = {} /\ Len(<<>>) = 0
    BY LineTyping DEF Headers, Traced
  <1> QED  BY <1>1, OrderNone DEF Lists

\* Lines that are no header of a traced error change nothing.
LEMMA ListsSkip ==
  ASSUME NEW f \in Results, NEW i \in Nat, NEW l \in Nat, i <= l, NEW d,
         Lists(f, i, d), \A n \in (i + 1)..l : n \notin Traced(f)
  PROVE  Lists(f, l, d)
  <1>1. Headers(f, i) = Headers(f, l)
    <2>1. Traced(f) \subseteq Nat
      BY LineTyping DEF Traced
    <2> QED  BY <2>1 DEF Headers
  <1> QED  BY <1>1 DEF Lists

\* A header of a traced error on line i is the one after those before it.
LEMMA HeaderNext ==
  ASSUME NEW f \in Results, NEW i \in Traced(f), NEW d \in Seq(Finding), Lists(f, i - 1, d)
  PROVE  \E g \in InOrder(Len(d) + 1, Headers(f, i)) :
           g[Len(d) + 1] = i /\ \A n \in 1..Len(d) : d[n] = ErrorAt(f, g[n])
  <1>1. /\ Len(d) \in Nat /\ i \in Nat /\ Traced(f) \subseteq Nat
    BY LineTyping DEF Traced
  <1>2. /\ Headers(f, i) = Headers(f, i - 1) \cup {i}
        /\ Headers(f, i - 1) \subseteq Nat /\ \A j \in Headers(f, i - 1) : j < i
    BY <1>1 DEF Headers
  <1>3. PICK h \in InOrder(Len(d), Headers(f, i - 1)) : \A n \in 1..Len(d) : d[n] = ErrorAt(f, h[n])
    BY DEF Lists
  <1>4. \E g \in InOrder(Len(d) + 1, Headers(f, i)) :
          g[Len(d) + 1] = i /\ \A k \in 1..Len(d) : g[k] = h[k]
    <2> DEFINE n == Len(d)
               H == Headers(f, i - 1)
               G == Headers(f, i)
    <2>1. /\ n \in Nat /\ H \subseteq Nat /\ h \in InOrder(n, H) /\ i \in Nat
          /\ (\A j \in H : j < i) /\ G = H \cup {i}
      BY <1>1, <1>2
    <2> HIDE DEF n, H, G
    <2>2. Continues(n, G, h, i)
      BY <2>1, OrderOne
    <2> QED  BY <2>2 DEF n, G, Continues
  <1> QED  BY <1>3, <1>4

LEMMA ListsOne ==
  ASSUME NEW f \in Results, NEW i \in Traced(f), NEW d \in Seq(Finding), Lists(f, i - 1, d),
         NEW e, e = ErrorAt(f, i), e \in Finding
  PROVE  Lists(f, i, Append(d, e))
  <1> DEFINE r == Append(d, e)
  <1>1. /\ Len(d) \in Nat /\ Len(r) = Len(d) + 1 /\ r[Len(d) + 1] = e
        /\ \A n \in 1..Len(d) : r[n] = d[n]
    OBVIOUS
  <1> HIDE DEF r
  <1>2. PICK g \in InOrder(Len(d) + 1, Headers(f, i)) :
          g[Len(d) + 1] = i /\ \A n \in 1..Len(d) : d[n] = ErrorAt(f, g[n])
    BY HeaderNext
  <1>3. \A n \in 1..(Len(d) + 1) : n = Len(d) + 1 \/ n \in 1..Len(d)
    BY <1>1
  <1>4. \A n \in 1..Len(r) : r[n] = ErrorAt(f, g[n])
    BY <1>1, <1>2, <1>3
  <1> QED  BY <1>1, <1>2, <1>4 DEF Lists, r

-----------------------------------------------------------------------------
(* One line more *)

LEMMA ParseOne ==
  ASSUME NEW f \in Results, NEW a \in Nat, a < Len(f), NEW d,
         Progress(f, a, NULL, d),
         NEW t, t = IF f[a + 1].k = "error" /\ f[a + 1].t \in Tracked THEN f[a + 1].t ELSE NULL
  PROVE  Progress(f, a + 1, t, d)
  <1>1. Lists(f, a, d) /\ Len(f) \in Nat /\ a + 1 \in 1..Len(f)
    BY LineTyping DEF Progress
  <1>2. CASE f[a + 1].k = "error" /\ f[a + 1].t \in Tracked
    <2>1. t = f[a + 1].t /\ t # NULL
      BY <1>2, DrMemoryAssumption
    <2>2. Tracing(f, a + 1, a + 1, t)
      BY <1>1, <1>2, <2>1 DEF Tracing
    <2>3. Lists(f, (a + 1) - 1, d) /\ a + 1 \in 1..(a + 1)
      BY <1>1
    <2> QED  BY <2>1, <2>2, <2>3 DEF Progress
  <1>3. CASE ~(f[a + 1].k = "error" /\ f[a + 1].t \in Tracked)
    <2>1. t = NULL
      BY <1>3
    <2>2. \A n \in (a + 1)..(a + 1) : n \notin Traced(f)
      BY <1>3 DEF Traced
    <2>3. Lists(f, a + 1, d)
      BY <1>1, <2>2, ListsSkip
    <2> QED  BY <2>1, <2>3 DEF Progress
  <1> QED  BY <1>2, <1>3

\* The trace get_info reads ends at line j.
LEMMA TraceEnds ==
  ASSUME NEW f \in Results, NEW a \in Nat, a < Len(f), NEW t, NEW i \in 1..a,
         Tracing(f, i, a, t)
  PROVE  /\ i \in 1..Len(f) /\ a + 1 \in 1..Len(f)
         /\ \A n \in (i + 1)..a : n \notin Traced(f)
         /\ f[a + 1].k = "own" => IsTraced(f, i, a + 1) /\ i \in Traced(f)
         /\ f[a + 1].k \notin {"own", "foreign"} => i \notin Traced(f)
         /\ a + 1 \notin Traced(f)
  <1>1. Len(f) \in Nat /\ i \in 1..Len(f) /\ a + 1 \in 1..Len(f)
    BY LineTyping
  <1>2. \A n \in (i + 1)..a : n \notin Traced(f)
    BY DEF Tracing, Traced
  <1>3. ASSUME f[a + 1].k = "own" PROVE IsTraced(f, i, a + 1) /\ i \in Traced(f)
    <2>1. IsTraced(f, i, a + 1)
      BY <1>1, <1>3 DEF Tracing, IsTraced
    <2> QED  BY <1>1, <2>1 DEF Tracing, Traced
  <1>4. ASSUME f[a + 1].k \notin {"own", "foreign"}, NEW j \in 1..Len(f), IsTraced(f, i, j)
        PROVE  FALSE
    <2>1. CASE j \in (i + 1)..a
      BY <1>4, <2>1 DEF IsTraced, Tracing
    <2>2. CASE j = a + 1
      BY <1>4, <2>2 DEF IsTraced
    <2>3. CASE j > a + 1
      <3>1. a + 1 \in (i + 1)..(j - 1)
        BY <1>1, <2>3
      <3> QED  BY <1>4, <3>1 DEF IsTraced
    <2>4. i < j
      BY <1>4 DEF IsTraced
    <2> QED  BY <1>1, <2>1, <2>2, <2>3, <2>4
  <1>5. a + 1 \notin Traced(f)
    <2>1. f[a].k \in {"error", "foreign"}
      <3>1. i = a \/ a \in (i + 1)..a
        OBVIOUS
      <3> QED  BY <3>1 DEF Tracing
    <2>2. a + 1 \in 2..Len(f) /\ (a + 1) - 1 = a
      BY <1>1
    <2>3. f[a + 1].k # "error"
      BY <2>1, <2>2, DrMemoryAssumption
    <2> QED  BY <2>3 DEF Traced
  <1>6. f[a + 1].k \notin {"own", "foreign"} => i \notin Traced(f)
    BY <1>4 DEF Traced
  <1> QED  BY <1>1, <1>2, <1>3, <1>5, <1>6

LEMMA TraceOne ==
  ASSUME NEW f \in Results, NEW a \in Nat, a < Len(f), NEW t, t # NULL,
         NEW d \in Seq(Finding), Progress(f, a, t, d)
  PROVE  /\ f[a + 1].k = "own" =>
              /\ [err_type |-> t, err_msg |-> f[a + 1].m] \in Finding
              /\ Progress(f, a + 1, NULL, Append(d, [err_type |-> t, err_msg |-> f[a + 1].m]))
              /\ \E i \in Traced(f) :
                   /\ Lists(f, i - 1, d)
                   /\ ErrorAt(f, i) = [err_type |-> t, err_msg |-> f[a + 1].m]
         /\ f[a + 1].k = "foreign" => Progress(f, a + 1, t, d)
         /\ f[a + 1].k \notin {"own", "foreign"} => Progress(f, a + 1, NULL, d)
  <1>1. PICK i \in 1..a : Tracing(f, i, a, t) /\ Lists(f, i - 1, d)
    BY DEF Progress
  <1>2. /\ i \in 1..Len(f) /\ a + 1 \in 1..Len(f)
        /\ \A n \in (i + 1)..a : n \notin Traced(f)
        /\ f[a + 1].k = "own" => IsTraced(f, i, a + 1) /\ i \in Traced(f)
        /\ f[a + 1].k \notin {"own", "foreign"} => i \notin Traced(f)
        /\ a + 1 \notin Traced(f)
    BY <1>1, TraceEnds
  <1>3. Len(f) \in Nat /\ t \in Tracked /\ f[i].t = t
    BY <1>1, LineTyping DEF Tracing
  <1>4. ASSUME f[a + 1].k = "own"
        PROVE  /\ [err_type |-> t, err_msg |-> f[a + 1].m] \in Finding
               /\ Progress(f, a + 1, NULL, Append(d, [err_type |-> t, err_msg |-> f[a + 1].m]))
               /\ \E j \in Traced(f) :
                    /\ Lists(f, j - 1, d)
                    /\ ErrorAt(f, j) = [err_type |-> t, err_msg |-> f[a + 1].m]
    <2> DEFINE e == [err_type |-> t, err_msg |-> f[a + 1].m]
    <2>1. e \in Finding
      <3>1. f[a + 1].m \in Message /\ t \in ErrType
        BY <1>2, <1>3, <1>4, LineTyping, DrMemoryAssumption
      <3> QED  BY <3>1 DEF Finding
    <2>2. ErrorAt(f, i) = e
      BY <1>2, <1>3, <1>4, ErrorOfTrace
    <2> HIDE DEF e
    <2>3. Lists(f, i, Append(d, e))
      BY <1>1, <1>2, <1>4, <2>1, <2>2, ListsOne
    <2>4. \A n \in (i + 1)..(a + 1) : n \notin Traced(f)
      BY <1>2
    <2>5. Lists(f, a + 1, Append(d, e))
      <3>1. i \in Nat /\ a + 1 \in Nat /\ i <= a + 1
        OBVIOUS
      <3> QED  BY <2>3, <2>4, <3>1, ListsSkip
    <2>6. Progress(f, a + 1, NULL, Append(d, e))
      BY <2>5 DEF Progress
    <2> QED  BY <1>1, <1>2, <1>4, <2>1, <2>2, <2>6 DEF e
  <1>5. ASSUME f[a + 1].k = "foreign" PROVE Progress(f, a + 1, t, d)
    <2>1. Tracing(f, i, a + 1, t) /\ i \in 1..(a + 1)
      BY <1>1, <1>5 DEF Tracing
    <2> QED  BY <1>1, <2>1 DEF Progress
  <1>6. ASSUME f[a + 1].k \notin {"own", "foreign"} PROVE Progress(f, a + 1, NULL, d)
    <2>1. \A n \in ((i - 1) + 1)..(a + 1) : n \notin Traced(f)
      BY <1>2, <1>6
    <2>2. i - 1 \in Nat /\ a + 1 \in Nat /\ i - 1 <= a + 1
      OBVIOUS
    <2>3. Lists(f, a + 1, d)
      BY <1>1, <2>1, <2>2, ListsSkip
    <2> QED  BY <2>3 DEF Progress
  <1> QED  BY <1>4, <1>5, <1>6

\* Where the parser stops, the detected errors are those of the lines up to
\* some place; at the end of the file, they are all.
LEMMA ParseEnds ==
  ASSUME NEW f \in Results, NEW a \in Nat, a <= Len(f), NEW t, NEW d, Progress(f, a, t, d)
  PROVE  /\ \E i \in 0..Len(f) : Lists(f, i, d)
         /\ a = Len(f) => Lists(f, Len(f), d)
  <1>1. Len(f) \in Nat
    BY LineTyping
  <1>2. CASE t = NULL
    BY <1>1, <1>2 DEF Progress
  <1>3. CASE t # NULL
    <2>1. PICK i \in 1..a : Tracing(f, i, a, t) /\ Lists(f, i - 1, d)
      BY <1>3 DEF Progress
    <2>2. i - 1 \in 0..Len(f)
      BY <1>1
    <2>3. ASSUME a = Len(f) PROVE Lists(f, Len(f), d)
      <3>1. \A n \in i..Len(f) : n \notin Traced(f)
        <4>1. i \notin Traced(f)
          BY <1>1, <2>1, <2>3 DEF Traced, IsTraced, Tracing
        <4>2. \A n \in (i + 1)..a : n \notin Traced(f)
          BY <2>1 DEF Traced, Tracing
        <4> QED  BY <2>3, <4>1, <4>2
      <3>2. i - 1 \in Nat /\ i - 1 <= Len(f) /\ (i - 1) + 1 = i
        BY <2>3
      <3> QED  BY <1>1, <2>1, <3>1, <3>2, ListsSkip
    <2> QED  BY <2>1, <2>2, <2>3
  <1> QED  BY <1>2, <1>3

-----------------------------------------------------------------------------
(* The inductive invariant *)

DrTypes ==
  /\ pc \in {"read", "no_details", "wait", "close", "no_file", "parse", "done", "undefined"}
  /\ name \in Proc \cup {NULL} /\ at \in Nat /\ err_type \in Tracked \cup {NULL}
  /\ fuser \in BOOLEAN
  /\ pipe \in Seq(Proc \cup {NULL})
  /\ post \in [Proc -> {"new", "open", "said", "end", "dead"}]
  /\ results \in [Proc -> Results] /\ written \in [Proc -> Nat]
  /\ detected \in Seq(Finding)

\* A post-processor prints its Details line after it has opened its file, and
\* never opens it again.
HasSaid(p) == post[p] \in {"said", "end", "dead"}
SaidInv ==
  /\ \A k \in 1..Len(pipe) : pipe[k] # NULL => HasSaid(pipe[k])
  /\ name # NULL => HasSaid(name)
  /\ name = NULL <=> pc \in {"read", "no_details"}

\* Behind wait_end_of_writing the file is closed, and complete unless its
\* post-processor died.
ClosedInv ==
  /\ \A p \in Proc : /\ written[p] <= Len(results[p])
                     /\ post[p] = "end" => written[p] = Len(results[p])
  /\ fuser /\ pc \notin {"read", "no_details", "wait"} => post[name] \in {"end", "dead"}
  /\ name # NULL => at <= written[name]

ParseInv ==
  /\ pc \in {"read", "no_details", "wait", "close", "no_file"} =>
       at = 0 /\ err_type = NULL /\ detected = <<>>
  /\ pc = "parse" => Progress(results[name], at, err_type, detected)

DrInv == /\ DrTypes /\ SaidInv /\ ClosedInv /\ ParseInv
         /\ AnnouncedErrorsDetected /\ DetectedIsPrefix

LEMMA PrefixNext ==
  ASSUME NEW i \in 0..Len(results'[name']), Lists(results'[name'], i, detected')
  PROVE  DetectedIsPrefix'
  BY DEF DetectedIsPrefix

LEMMA DrInit ==
  ASSUME Init
  PROVE  DrInv
  <1>1. DrTypes
    BY DEF Init, ListInit, DrTypes
  <1>2. SaidInv
    BY DEF Init, SaidInv
  <1>3. ClosedInv
    BY LineTyping DEF Init, ClosedInv
  <1>4. ParseInv
    BY DEF Init, ListInit, ParseInv
  <1>5. AnnouncedErrorsDetected /\ DetectedIsPrefix
    BY DEF Init, AnnouncedErrorsDetected, DetectedIsPrefix
  <1> QED  BY <1>1, <1>2, <1>3, <1>4, <1>5 DEF DrInv

-----------------------------------------------------------------------------
(* Steps of the processes beside run_tool *)

\* A dead post-processor stays dead, one that has announced its file does not
\* open it again, and a file only grows while it is open.
LEMMA ToolSteps ==
  ASSUME DrInv, NEW p \in Proc, Tool(p)
  PROVE  /\ UNCHANGED <<runVars, fuser, results, listVars>>
         /\ post' \in [Proc -> {"new", "open", "said", "end", "dead"}]
         /\ written' \in [Proc -> Nat]
         /\ \A q \in Proc : /\ post[q] = "dead" => post'[q] = "dead"
                            /\ post[q] = "end" => post'[q] \in {"end", "dead"}
                            /\ HasSaid(q) => post'[q] \in {"said", "end", "dead"}
                            /\ written[q] <= written'[q] /\ written'[q] <= Len(results[q])
                            /\ post'[q] = "end" => written'[q] = Len(results[q])
         /\ \/ pipe' = pipe
            \/ pipe' = Append(pipe, NULL)
            \/ pipe' = Append(pipe, p) /\ post'[p] = "said"
  <1>1. /\ UNCHANGED <<runVars, fuser, results, listVars>>
        /\ DrTypes
        /\ \A q \in Proc : /\ written[q] <= Len(results[q])
                           /\ post[q] = "end" => written[q] = Len(results[q])
        /\ \A q \in Proc : Len(results[q]) \in Nat /\ written[q] \in Nat
    BY LineTyping DEF Tool, DrInv, ClosedInv, DrTypes
  <1>2. CASE AppStep(p)
    <2>1. /\ post' = post /\ written' = written
          /\ pipe' = pipe \/ pipe' = Append(pipe, NULL)
      BY <1>2 DEF AppStep, PrintOutput, OutputFails, AppEnds
    <2> QED  BY <1>1, <2>1 DEF DrTypes, HasSaid
  <1>3. CASE OpenResults(p)
    BY <1>1, <1>3 DEF OpenResults, DrTypes, HasSaid
  <1>4. CASE WriteResults(p)
    BY <1>1, <1>4 DEF WriteResults, DrTypes, HasSaid
  <1>5. CASE SayDetails(p)
    BY <1>1, <1>5 DEF SayDetails, DrTypes, HasSaid
  <1>6. CASE DetailsFail(p)
    BY <1>1, <1>6 DEF DetailsFail, DrTypes, HasSaid
  <1>7. CASE PostEnds(p)
    BY <1>1, <1>7 DEF PostEnds, DrTypes, HasSaid
  <1>8. CASE PostKilled(p)
    BY <1>1, <1>8 DEF PostKilled, DrTypes, HasSaid
  <1> QED  BY <1>2, <1>3, <1>4, <1>5, <1>6, <1>7, <1>8 DEF Tool, PostStep

\* A file that was not waited for never becomes one that was.
LEMMA PrefixStays ==
  ASSUME DetectedIsPrefix, UNCHANGED <<pc, name, results, detected>>,
         name # NULL => (waited' => waited)
  PROVE  DetectedIsPrefix'
  BY DEF DetectedIsPrefix

LEMMA ToolKeeps ==
  ASSUME DrInv, NEW p \in Proc, Tool(p)
  PROVE  DrInv'
  <1>1. /\ UNCHANGED <<pc, name, at, err_type, fuser, results, detected>>
        /\ DrTypes
        /\ post' \in [Proc -> {"new", "open", "said", "end", "dead"}]
        /\ written' \in [Proc -> Nat]
        /\ \A q \in Proc : /\ post[q] = "dead" => post'[q] = "dead"
                           /\ post[q] = "end" => post'[q] \in {"end", "dead"}
                           /\ HasSaid(q) => post'[q] \in {"said", "end", "dead"}
                           /\ written[q] <= written'[q] /\ written'[q] <= Len(results[q])
                           /\ post'[q] = "end" => written'[q] = Len(results[q])
    BY ToolSteps DEF DrInv, runVars, listVars
  <1>2. \/ pipe' = pipe
        \/ pipe' = Append(pipe, NULL)
        \/ pipe' = Append(pipe, p) /\ post'[p] = "said"
    BY ToolSteps
  <1>3. pipe \in Seq(Proc \cup {NULL}) /\ Len(pipe) \in Nat
    BY <1>1 DEF DrTypes
  <1>4. DrTypes'
    <2>1. pipe' \in Seq(Proc \cup {NULL})
      BY <1>2, <1>3
    <2> QED  BY <1>1, <2>1 DEF DrTypes
  <1>5. name # NULL => name \in Proc
    BY <1>1 DEF DrTypes
  <1>6. \A q \in Proc : HasSaid(q) => HasSaid(q)'
    BY <1>1 DEF HasSaid
  <1>7. \A k \in 1..Len(pipe') : pipe'[k] # NULL => post'[pipe'[k]] \in {"said", "end", "dead"}
    <2>0. \A k \in 1..Len(pipe) : pipe[k] # NULL => post'[pipe[k]] \in {"said", "end", "dead"}
      BY <1>1, <1>3 DEF DrInv, SaidInv
    <2>1. CASE pipe' = pipe
      BY <2>0, <2>1
    <2>2. ASSUME NEW x \in Proc \cup {NULL}, pipe' = Append(pipe, x),
                 x # NULL => post'[x] \in {"said", "end", "dead"}
          PROVE  \A k \in 1..Len(pipe') :
                   pipe'[k] # NULL => post'[pipe'[k]] \in {"said", "end", "dead"}
      <3>1. /\ Len(pipe') = Len(pipe) + 1 /\ pipe'[Len(pipe) + 1] = x
            /\ \A k \in 1..Len(pipe) : pipe'[k] = pipe[k]
        BY <1>3, <2>2
      <3>2. \A k \in 1..Len(pipe') : k = Len(pipe) + 1 \/ k \in 1..Len(pipe)
        BY <1>3, <3>1
      <3> QED  BY <2>0, <2>2, <3>1, <3>2
    <2> QED  BY <1>2, <2>1, <2>2
  <1>8. SaidInv'
    BY <1>1, <1>5, <1>6, <1>7 DEF DrInv, SaidInv, HasSaid
  <1>9. ClosedInv'
    <2>1. ASSUME fuser, pc \notin {"read", "no_details", "wait"}
          PROVE  post'[name] \in {"end", "dead"}
      <3>1. name \in Proc /\ post[name] \in {"end", "dead"}
        BY <1>5, <2>1 DEF DrInv, ClosedInv, SaidInv
      <3> QED  BY <1>1, <3>1
    <2>2. ASSUME name # NULL PROVE at <= written'[name]
      <3>1. /\ name \in Proc /\ at <= written[name] /\ written[name] <= written'[name]
            /\ at \in Nat /\ written[name] \in Nat /\ written'[name] \in Nat
        BY <1>1, <1>5, <2>2 DEF DrInv, ClosedInv, DrTypes
      <3> QED  BY <3>1
    <2> QED  BY <1>1, <2>1, <2>2 DEF ClosedInv
  <1>10. ParseInv'
    BY <1>1 DEF DrInv, ParseInv
  <1>11. ASSUME name # NULL PROVE waited' => waited
    BY <1>1, <1>5, <1>11 DEF waited
  <1>12. pc \in {"done", "undefined"} => name # NULL
    BY DEF DrInv, SaidInv
  <1>13. AnnouncedErrorsDetected'
    BY <1>1, <1>11, <1>12 DEF DrInv, AnnouncedErrorsDetected
  <1>14. DetectedIsPrefix'
    BY <1>1, <1>11, PrefixStays DEF DrInv
  <1> QED  BY <1>4, <1>8, <1>9, <1>10, <1>13, <1>14 DEF DrInv

-----------------------------------------------------------------------------
(* Steps of run_tool *)

\* Nothing has been parsed.
LEMMA PrefixAtStart ==
  ASSUME results' \in [Proc -> Results], name' \in Proc \cup {NULL}, detected' = <<>>
  PROVE  DetectedIsPrefix'
  <1>1. CASE name' = NULL
    BY <1>1 DEF DetectedIsPrefix
  <1>2. CASE name' # NULL
    <2>1. results'[name'] \in Results
      BY <1>2
    <2>2. Lists(results'[name'], 0, detected')
      BY <2>1, ListsNone
    <2>3. 0 \in 0..Len(results'[name'])
      BY <2>1, LineTyping
    <2> QED  BY <2>2, <2>3, PrefixNext
  <1> QED  BY <1>1, <1>2

LEMMA ReadLineKeeps ==
  ASSUME DrInv, ReadLine
  PROVE  DrInv'
  <1>1. /\ pc = "read" /\ name = NULL /\ at = 0 /\ err_type = NULL /\ detected = <<>>
        /\ UNCHANGED <<at, err_type, fuser, post, results, written, detected>> /\ DrTypes
    BY DEF DrInv, SaidInv, ParseInv, ReadLine, listVars
  <1>2. /\ pipe \in Seq(Proc \cup {NULL}) /\ pipe # <<>> /\ pipe' = Tail(pipe)
    BY <1>1 DEF DrTypes, ReadLine
  <1>3. /\ Head(pipe) = pipe[1] /\ 1 \in 1..Len(pipe) /\ Head(pipe) \in Proc \cup {NULL}
        /\ pipe' \in Seq(Proc \cup {NULL})
        /\ \A k \in 1..Len(pipe') : k + 1 \in 1..Len(pipe) /\ pipe'[k] = pipe[k + 1]
    BY <1>2
  <1>4. \/ Head(pipe) = NULL /\ pc' = "read" /\ name' = NULL
        \/ Head(pipe) # NULL /\ pc' = "wait" /\ name' = Head(pipe)
    BY <1>1 DEF ReadLine
  <1>5. DrTypes'
    BY <1>1, <1>3, <1>4 DEF DrTypes
  <1>6. SaidInv'
    <2>1. \A k \in 1..Len(pipe) : pipe[k] # NULL => HasSaid(pipe[k])
      BY DEF DrInv, SaidInv
    <2>2. \A k \in 1..Len(pipe') : pipe'[k] # NULL => post'[pipe'[k]] \in {"said", "end", "dead"}
      BY <1>1, <1>3, <2>1 DEF HasSaid
    <2>3. name' # NULL => post'[name'] \in {"said", "end", "dead"}
      BY <1>1, <1>3, <1>4, <2>1 DEF HasSaid
    <2> QED  BY <1>4, <2>2, <2>3 DEF SaidInv, HasSaid
  <1>7. ClosedInv'
    <2>1. name' # NULL => written[name'] \in Nat
      BY <1>1, <1>3, <1>4 DEF DrTypes
    <2> QED  BY <1>1, <1>4, <2>1 DEF DrInv, ClosedInv
  <1>8. ParseInv'
    BY <1>1, <1>4 DEF ParseInv
  <1>9. AnnouncedErrorsDetected'
    BY <1>4 DEF AnnouncedErrorsDetected
  <1>10. DetectedIsPrefix'
    BY <1>1, <1>5, PrefixAtStart DEF DrTypes
  <1> QED  BY <1>5, <1>6, <1>7, <1>8, <1>9, <1>10 DEF DrInv

\* The steps between reading the pipe and parsing the file.
LEMMA ApproachKeeps ==
  ASSUME DrInv, ReadEnd \/ wait_end_of_writing \/ CloseStream
  PROVE  DrInv'
  <1>1. /\ UNCHANGED <<name, at, err_type, fuser, post, results, written, detected>>
        /\ DrTypes
        /\ at = 0 /\ err_type = NULL /\ detected = <<>>
    BY DEF DrInv, ParseInv, ReadEnd, wait_end_of_writing, CloseStream, listVars, toolVars
  <1>2. \/ pc = "read" /\ pc' = "no_details" /\ pipe' = pipe
        \/ pc = "wait" /\ pc' = "close" /\ pipe' = <<>> /\ (~fuser \/ ~Holds(name))
        \/ pc = "close" /\ pc' \in {"parse", "no_file"} /\ pipe' = pipe
    BY DEF ReadEnd, wait_end_of_writing, CloseStream, toolVars
  <1>3. /\ name = NULL <=> pc \in {"read", "no_details"}
        /\ name # NULL => name \in Proc /\ HasSaid(name)
    BY <1>1 DEF DrInv, SaidInv, DrTypes
  <1>4. DrTypes'
    <2>1. pipe \in Seq(Proc \cup {NULL}) /\ <<>> \in Seq(Proc \cup {NULL})
      BY <1>1 DEF DrTypes
    <2>2. pipe' \in Seq(Proc \cup {NULL})
      BY <1>2, <2>1
    <2> QED  BY <1>1, <1>2, <2>2 DEF DrTypes
  <1>5. SaidInv'
    <2>1. \A k \in 1..Len(pipe') : pipe'[k] # NULL => HasSaid(pipe'[k])
      <3>1. CASE pipe' = <<>>
        BY <3>1
      <3>2. CASE pipe' = pipe
        BY <3>2 DEF DrInv, SaidInv
      <3> QED  BY <1>2, <3>1, <3>2
    <2>2. \A k \in 1..Len(pipe') : pipe'[k] # NULL => post'[pipe'[k]] \in {"said", "end", "dead"}
      BY <1>1, <2>1 DEF HasSaid
    <2>3. name' # NULL => post'[name'] \in {"said", "end", "dead"}
      BY <1>1, <1>3 DEF HasSaid
    <2>4. name' = NULL <=> pc' \in {"read", "no_details"}
      BY <1>1, <1>2, <1>3
    <2> QED  BY <2>2, <2>3, <2>4 DEF SaidInv, HasSaid
  <1>6. fuser /\ pc' \notin {"read", "no_details", "wait"} => post[name] \in {"end", "dead"}
    <2>1. CASE pc = "read"
      BY <1>2, <2>1
    <2>2. CASE pc = "wait"
      BY <1>2, <1>3, <2>2 DEF Holds, HasSaid
    <2>3. CASE pc = "close"
      BY <2>3 DEF DrInv, ClosedInv
    <2> QED  BY <1>2, <2>1, <2>2, <2>3
  <1>7. ClosedInv'
    BY <1>1, <1>6 DEF DrInv, ClosedInv
  <1>8. ParseInv'
    <2>1. ASSUME pc' = "parse" PROVE Progress(results[name], 0, NULL, <<>>)
      <3>1. results[name] \in Results
        BY <1>1, <1>2, <1>3, <2>1 DEF DrTypes
      <3> QED  BY <3>1, ListsNone DEF Progress
    <2> QED  BY <1>1, <2>1 DEF ParseInv
  <1>9. AnnouncedErrorsDetected'
    BY <1>2 DEF AnnouncedErrorsDetected
  <1>10. DetectedIsPrefix'
    BY <1>1, <1>4, PrefixAtStart DEF DrTypes
  <1> QED  BY <1>4, <1>5, <1>7, <1>8, <1>9, <1>10 DEF DrInv

\* Where run_tool parses the file.
LEMMA Parsing ==
  ASSUME DrInv, pc = "parse"
  PROVE  /\ DrTypes /\ SaidInv /\ ClosedInv
         /\ name \in Proc /\ name # NULL /\ results[name] \in Results
         /\ Len(results[name]) \in Nat
         /\ written[name] \in Nat /\ written[name] <= Len(results[name]) /\ at <= written[name]
         /\ waited => written[name] = Len(results[name])
         /\ fuser => ~Holds(name)
         /\ Progress(results[name], at, err_type, detected)
  <1>1. DrTypes /\ SaidInv /\ ClosedInv /\ name # NULL
    BY DEF DrInv, SaidInv
  <1>2. name \in Proc /\ results[name] \in Results /\ written[name] \in Nat
    BY <1>1 DEF DrTypes
  <1>3. fuser => post[name] \in {"end", "dead"}
    BY <1>1 DEF ClosedInv
  <1>4. waited => written[name] = Len(results[name])
    BY <1>1, <1>2, <1>3 DEF ClosedInv, waited
  <1>5. fuser => ~Holds(name)
    BY <1>3 DEF Holds
  <1> QED  BY <1>1, <1>2, <1>4, <1>5, LineTyping DEF ClosedInv, DrInv, ParseInv

\* A line of the file.
LEMMA LineKeeps ==
  ASSUME DrInv, pc = "parse", hasLine, at' = at + 1,
         UNCHANGED <<pc, name, fuser, toolVars, results>>,
         err_type' \in Tracked \cup {NULL}, detected' \in Seq(Finding),
         Progress(results[name], at + 1, err_type', detected')
  PROVE  DrInv'
  <1>1. UNCHANGED <<pc, name, fuser, pipe, post, written, results>>
    BY DEF toolVars
  <1>2. /\ DrTypes /\ SaidInv /\ ClosedInv
        /\ name \in Proc /\ results[name] \in Results /\ Len(results[name]) \in Nat
        /\ written[name] \in Nat /\ written[name] <= Len(results[name])
        /\ at < written[name] /\ at \in Nat
    BY Parsing DEF hasLine, DrTypes
  <1>3. DrTypes'
    BY <1>1, <1>2 DEF DrTypes
  <1>4. SaidInv'
    BY <1>1, <1>2 DEF SaidInv, HasSaid
  <1>5. at + 1 <= written[name]
    BY <1>2
  <1>6. ClosedInv'
    BY <1>1, <1>2, <1>5 DEF ClosedInv
  <1>7. ParseInv'
    BY <1>1 DEF ParseInv
  <1>8. AnnouncedErrorsDetected'
    BY <1>1 DEF AnnouncedErrorsDetected
  <1>9. PICK i \in 0..Len(results[name]) : Lists(results[name], i, detected')
    <2>1. at + 1 \in Nat /\ at + 1 <= Len(results[name])
      BY <1>2
    <2> QED  BY <1>2, <2>1, ParseEnds
  <1>10. DetectedIsPrefix'
    BY <1>1, <1>9, PrefixNext
  <1> QED  BY <1>3, <1>4, <1>6, <1>7, <1>8, <1>10 DEF DrInv

LEMMA ParseOutputKeeps ==
  ASSUME DrInv, parse_output
  PROVE  DrInv'
  <1>1. /\ pc = "parse" /\ err_type = NULL /\ hasLine /\ at' = at + 1
        /\ err_type' = IF line.k = "error" /\ line.t \in Tracked THEN line.t ELSE NULL
        /\ UNCHANGED <<pc, name, fuser, toolVars, results>> /\ detected' = detected
    BY DEF parse_output, listVars
  <1>2. /\ results[name] \in Results /\ at \in Nat /\ detected \in Seq(Finding)
        /\ at < Len(results[name]) /\ Progress(results[name], at, NULL, detected)
    BY <1>1, Parsing DEF hasLine, DrTypes
  <1>3. Progress(results[name], at + 1, err_type', detected')
    BY <1>1, <1>2, ParseOne DEF line
  <1>4. err_type' \in Tracked \cup {NULL}
    BY <1>1
  <1> QED  BY <1>1, <1>2, <1>3, <1>4, LineKeeps

LEMMA GetInfoKeeps ==
  ASSUME DrInv, get_info
  PROVE  DrInv'
  <1> DEFINE e == [err_type |-> err_type, err_msg |-> line.m]
  <1>1. /\ pc = "parse" /\ err_type # NULL /\ hasLine /\ at' = at + 1
        /\ err_type' = IF line.k = "foreign" THEN err_type ELSE NULL
        /\ line.k = "own" => detected' = Append(detected, e)
        /\ line.k # "own" => detected' = detected
        /\ UNCHANGED <<pc, name, fuser, toolVars, results>>
    BY DEF get_info, add, listVars
  <1>2. /\ results[name] \in Results /\ at \in Nat /\ detected \in Seq(Finding)
        /\ at < Len(results[name]) /\ Progress(results[name], at, err_type, detected)
        /\ err_type \in Tracked \cup {NULL}
    BY <1>1, Parsing DEF hasLine, DrTypes
  <1>3. /\ line.k = "own" => e \in Finding /\ Progress(results[name], at + 1, NULL, Append(detected, e))
        /\ line.k = "foreign" => Progress(results[name], at + 1, err_type, detected)
        /\ line.k \notin {"own", "foreign"} => Progress(results[name], at + 1, NULL, detected)
    BY <1>1, <1>2, TraceOne DEF line
  <1> HIDE DEF e
  <1>4. Progress(results[name], at + 1, err_type', detected')
    BY <1>1, <1>3
  <1>5. err_type' \in Tracked \cup {NULL} /\ detected' \in Seq(Finding)
    BY <1>1, <1>2, <1>3
  <1> QED  BY <1>1, <1>4, <1>5, LineKeeps

\* The end of the file, whole or cut.
LEMMA EndKeeps ==
  ASSUME DrInv, pc = "parse", pc' \in {"done", "undefined"}, err_type' = NULL,
         UNCHANGED <<name, at, fuser, pipe, post, results, written>>,
         detected' \in Seq(Finding), AnnouncedErrorsDetected', DetectedIsPrefix'
  PROVE  DrInv'
  <1>1. DrTypes /\ SaidInv /\ ClosedInv
    BY Parsing
  <1>2. DrTypes'
    BY <1>1 DEF DrTypes
  <1>3. SaidInv'
    BY <1>1 DEF SaidInv, HasSaid
  <1>4. ClosedInv'
    BY <1>1 DEF ClosedInv
  <1>5. ParseInv'
    BY DEF ParseInv
  <1> QED  BY <1>2, <1>3, <1>4, <1>5 DEF DrInv

LEMMA RemoveKeeps ==
  ASSUME DrInv, remove_output_dir
  PROVE  DrInv'
  <1>1. /\ pc = "parse" /\ ~hasLine /\ pc' = "done" /\ err_type' = NULL
        /\ UNCHANGED <<name, at, fuser, pipe, post, results, written, detected>>
    BY DEF remove_output_dir, listVars
  <1>2. /\ DrTypes /\ results[name] \in Results /\ Len(results[name]) \in Nat
        /\ at \in Nat /\ at = written[name] /\ at <= Len(results[name])
        /\ waited => at = Len(results[name])
        /\ Progress(results[name], at, err_type, detected)
    BY <1>1, Parsing DEF hasLine, DrTypes
  <1>3. /\ \E i \in 0..Len(results[name]) : Lists(results[name], i, detected)
        /\ at = Len(results[name]) => Lists(results[name], Len(results[name]), detected)
    BY <1>2, ParseEnds
  <1>4. DetectedIsPrefix'
    BY <1>1, <1>3, PrefixNext
  <1>5. waited' <=> waited
    BY <1>1 DEF waited
  <1>6. waited => Lists(results[name], Len(results[name]), detected)
    BY <1>2, <1>3
  <1>7. AnnouncedErrorsDetected'
    BY <1>1, <1>5, <1>6 DEF AnnouncedErrorsDetected
  <1> QED  BY <1>1, <1>2, <1>4, <1>7, EndKeeps DEF DrTypes

LEMMA TornKeeps ==
  ASSUME DrInv, TornLine
  PROVE  DrInv'
  <1> DEFINE f == results[name]
             m == [line.m EXCEPT !.text = CutText]
             c == [err_type |-> err_type, err_msg |-> m]
             d == detected
             r == Append(d, c)
  <1>1. /\ pc = "parse" /\ err_type # NULL /\ ~hasLine /\ at < Len(f)
        /\ err_type' = NULL
        /\ UNCHANGED <<name, at, fuser, pipe, post, results, written>>
    BY DEF TornLine
  <1>2. \/ line.k = "own" /\ pc' = "done" /\ detected' = r
        \/ pc' = "undefined" /\ detected' = d
    BY DEF TornLine, add, listVars
  <1>3. /\ DrTypes /\ f \in Results /\ Len(f) \in Nat /\ at \in Nat /\ d \in Seq(Finding)
        /\ at <= Len(f) /\ Progress(f, at, err_type, d)
    BY <1>1, Parsing DEF DrTypes
  <1>4. ~waited /\ ~waited'
    <2>1. ~waited
      BY <1>1, <1>3, Parsing DEF hasLine
    <2> QED  BY <1>1, <2>1 DEF waited
  <1>7. CASE line.k = "own" /\ pc' = "done" /\ detected' = r
    <2>1. PICK i \in Traced(f) :
            Lists(f, i - 1, d) /\ ErrorAt(f, i) = [err_type |-> err_type, err_msg |-> line.m]
      BY <1>1, <1>3, <1>7, TraceOne DEF line
    <2>2. c = CutError(ErrorAt(f, i)) /\ c \in Finding
      <3>1. [err_type |-> err_type, err_msg |-> line.m] \in Finding
        BY <1>1, <1>3, <1>7, TraceOne DEF line
      <3>2. err_type \in ErrType /\ line.m \in Message
        BY <3>1 DEF Finding
      <3>3. m \in Message
        BY <3>2, DrMemoryAssumption DEF Message
      <3> HIDE DEF m
      <3>4. c \in Finding
        BY <3>2, <3>3 DEF Finding
      <3>5. CutError([err_type |-> err_type, err_msg |-> line.m]) = c
        BY DEF CutError, m
      <3> QED  BY <2>1, <3>4, <3>5
    <2> HIDE DEF c, m
    <2>3. /\ Len(d) \in Nat /\ Len(r) = Len(d) + 1 /\ r[Len(d) + 1] = c
          /\ \A n \in 1..Len(d) : r[n] = d[n]
          /\ r \in Seq(Finding)
      BY <1>3, <2>2
    <2>4. SubSeq(r, 1, Len(r) - 1) = d /\ Len(r) > 0
      BY <1>3, <2>2
    <2>5. i \in 0..Len(f)
      BY <1>3 DEF Traced
    <2> HIDE DEF f, r, d
    <2>6. ListsCut(f, i, r)
      BY <2>1, <2>2, <2>3, <2>4 DEF ListsCut
    <2>7. results'[name'] = f /\ detected' = r
      BY <1>1, <1>7 DEF f
    <2>8. DetectedIsPrefix'
      BY <1>4, <1>7, <2>5, <2>6, <2>7 DEF DetectedIsPrefix
    <2>9. AnnouncedErrorsDetected'
      BY <1>4 DEF AnnouncedErrorsDetected
    <2> QED  BY <1>1, <1>7, <2>3, <2>8, <2>9, EndKeeps
  <1>8. CASE pc' = "undefined" /\ detected' = d
    <2>1. PICK l \in 0..Len(f) : Lists(f, l, d)
      BY <1>3, ParseEnds
    <2>2. DetectedIsPrefix'
      BY <1>1, <1>8, <2>1, PrefixNext
    <2>3. AnnouncedErrorsDetected'
      BY <1>4 DEF AnnouncedErrorsDetected
    <2> QED  BY <1>1, <1>3, <1>8, <2>2, <2>3, EndKeeps
  <1> QED  BY <1>2, <1>7, <1>8

LEMMA DrNext ==
  ASSUME DrInv, [Next]_vars
  PROVE  DrInv'
  <1>1. CASE UNCHANGED vars
    <2>1. UNCHANGED <<pc, name, at, err_type, fuser, pipe, post, results, written, detected>>
      BY <1>1 DEF vars, runVars, toolVars, listVars
    <2>2. DrTypes' /\ SaidInv' /\ ClosedInv' /\ ParseInv'
      BY <2>1 DEF DrInv, DrTypes, SaidInv, HasSaid, ClosedInv, ParseInv
    <2>3. AnnouncedErrorsDetected'
      BY <2>1 DEF DrInv, AnnouncedErrorsDetected, waited
    <2>4. DetectedIsPrefix'
      <3>1. waited' => waited
        BY <2>1 DEF waited
      <3> QED  BY <2>1, <3>1, PrefixStays DEF DrInv
    <2> QED  BY <2>2, <2>3, <2>4 DEF DrInv
  <1>2. CASE run_tool
    BY <1>2, ReadLineKeeps, ApproachKeeps, ParseOutputKeeps, GetInfoKeeps, TornKeeps,
       RemoveKeeps DEF run_tool
  <1>3. CASE \E p \in Proc : Tool(p)
    BY <1>3, ToolKeeps
  <1> QED  BY <1>1, <1>2, <1>3 DEF Next

(***************************************************************************)
(* The invariant holds however run_tool, the program's processes and their *)
(* post-processors interleave: the file that is parsed has been announced  *)
(* and what was detected is what its lines read so far announce.           *)
(***************************************************************************)
THEOREM DrMemoryInvariant == Spec => []DrInv
  <1>1. Init => DrInv
    BY DrInit
  <1>2. DrInv /\ [Next]_vars => DrInv'
    BY DrNext
  <1> QED  BY <1>1, <1>2, PTL DEF Spec

(***************************************************************************)
(* For every program, every number of processes, every results file and    *)
(* every interleaving with the post-processors: if fuser is there and the  *)
(* post-processor of the announced file was not killed, run_tool detects   *)
(* exactly that file's errors and does nothing undefined.                  *)
(***************************************************************************)
THEOREM AnnouncedAlwaysDetected == Spec => []AnnouncedErrorsDetected
  <1>1. DrInv => AnnouncedErrorsDetected
    BY DEF DrInv
  <1> QED  BY <1>1, DrMemoryInvariant, PTL

(***************************************************************************)
(* Without fuser, with dead post-processors and with a file that grows     *)
(* under the parser too, what run_tool detects is a prefix of the file's   *)
(* errors, of which only the last may have a cut line number.              *)
(***************************************************************************)
THEOREM DetectedAlwaysPrefix == Spec => []DetectedIsPrefix
  <1>1. DrInv => DetectedIsPrefix
    BY DEF DrInv
  <1> QED  BY <1>1, DrMemoryInvariant, PTL

(***************************************************************************)
(* No step of run_tool removes a results file that a process still has     *)
(* open, if fuser exists, whatever the other processes do meanwhile.       *)
(***************************************************************************)
THEOREM AlwaysRemovedAfterWriting == Spec => RemovedAfterWriting
  <1>1. ASSUME DrInv, [Next]_vars PROVE [\A p \in dirs \ dirs' : fuser => ~Holds(p)]_vars
    <2>1. CASE TornLine \/ remove_output_dir
      <3>1. pc = "parse" /\ (dirs' = dirs \/ dirs' = dirs \ {name})
        BY <2>1 DEF TornLine, remove_output_dir
      <3>2. fuser => ~Holds(name)
        BY <1>1, <3>1, Parsing
      <3> QED  BY <3>1, <3>2
    <2>2. CASE ReadLine \/ ReadEnd \/ wait_end_of_writing \/ CloseStream \/ parse_output \/ get_info
      <3>1. dirs' = dirs
        BY <2>2 DEF ReadLine, ReadEnd, wait_end_of_writing, CloseStream, parse_output, get_info,
                    toolVars
      <3> QED  BY <3>1
    <2>3. CASE \E p \in Proc : Tool(p)
      <3>1. dirs \subseteq dirs'
        BY <2>3 DEF Tool, AppStep, PrintOutput, OutputFails, AppEnds, PostStep, OpenResults,
                    WriteResults, SayDetails, DetailsFail, PostEnds, PostKilled
      <3> QED  BY <3>1
    <2>4. CASE UNCHANGED vars
      BY <2>4
    <2> QED  BY <1>1, <2>1, <2>2, <2>3, <2>4 DEF Next, run_tool
  <1> QED  BY <1>1, DrMemoryInvariant, PTL DEF Spec, RemovedAfterWriting
=============================================================================
