--------------------------- MODULE MCToolModules ---------------------------
(***************************************************************************)
(* The tool modules that read a file their tool has written, and the files *)
(* they all leave in the working directory.  load_module runs one module   *)
(* at a time and none keeps anything for the next, so a behaviour is one   *)
(* run_tool of one module, or a history of the files over several runs;    *)
(* the state of the other parts stands still at its idle value.            *)
(***************************************************************************)
EXTENDS ValgrindModule, HelgrindModule, SplintModule, SimianModule, SparseModule,
        ScratchFiles, MCFindings

VARIABLE part

readerVars == <<valVars, found_a_file>>

\* Bound on the flags of the sparse module: none, one pass, the other, both, all.
MCSparseFlags == {{}, {"call"}, {"indent", "tabs"}, {"call", "lines"}, ErrorKind}

vars == <<part, readerVars, splintVars, simianVars, sparseVars, scratchVars>>

GrindIdle == /\ LogInit("none", {<<>>})
             /\ nr_fds = 0 /\ err_msg = NULL /\ found_a_file = FALSE

SplintIdle == /\ complaints = <<>> /\ splint_flags = {} /\ splint_line = EndOfOutput
              /\ function = FileScope /\ splint_errs = <<>>

SimianIdle == /\ blocks = <<>> /\ simian_line = AfterSummary
              /\ block_msg = "taken" /\ message = <<>> /\ simian_errs = <<>>
              /\ simian_pc = "done"

SparseIdle == /\ program = <<>> /\ opts = {} /\ joined = {} /\ sparse_flags = {}
              /\ sparse_pc = "done" /\ k = 1 /\ sym = 0 /\ instruction = 0
              /\ printed = <<>> /\ crashed = FALSE
              /\ sparse_at = 0 /\ file_name = NoName /\ func_name = NoName
              /\ sparse_errs = <<>>

ScratchIdle == /\ run = 1 /\ step = 1 /\ scratch_pc = "off" /\ fil = {}
               /\ scratch = [n \in ScratchName |-> Absent] /\ readonly = {}
               /\ todo = {} /\ slow = {} /\ parsed = {} /\ abandoned = {}

Init ==
  \/ /\ part = "valgrind" /\ ValInit /\ found_a_file = FALSE
     /\ SplintIdle /\ SimianIdle /\ SparseIdle /\ ScratchIdle
  \/ /\ part = "helgrind" /\ HelInit /\ nr_fds = 0 /\ err_msg = NULL
     /\ SplintIdle /\ SimianIdle /\ SparseIdle /\ ScratchIdle
  \/ part = "splint" /\ SplintInit /\ GrindIdle /\ SimianIdle /\ SparseIdle /\ ScratchIdle
  \/ part = "simian" /\ SimianInit /\ GrindIdle /\ SplintIdle /\ SparseIdle /\ ScratchIdle
  \/ /\ part = "sparse" /\ SparseInit /\ sparse_flags \in MCSparseFlags
     /\ GrindIdle /\ SplintIdle /\ SimianIdle /\ ScratchIdle
  \/ part = "files" /\ ScratchInit /\ GrindIdle /\ SplintIdle /\ SimianIdle /\ SparseIdle

\* A log has been read, or robocheck is not run again.
Stops == \/ part \in {"valgrind", "helgrind"} /\ mode \in {"done", "undefined"}
         \/ part = "files" /\ scratch_pc = "off"

StaticUnchanged == UNCHANGED <<splintVars, simianVars, sparseVars>>

Next ==
  /\ UNCHANGED part
  /\ \/ /\ part = "valgrind" /\ ValNext
        /\ StaticUnchanged /\ UNCHANGED <<found_a_file, scratchVars>>
     \/ /\ part = "helgrind" /\ HelNext
        /\ StaticUnchanged /\ UNCHANGED <<fdVars, scratchVars>>
     \/ /\ part = "splint" /\ SplintNext
        /\ UNCHANGED <<readerVars, simianVars, sparseVars, scratchVars>>
     \/ /\ part = "simian" /\ SimianNext
        /\ UNCHANGED <<readerVars, splintVars, sparseVars, scratchVars>>
     \/ /\ part = "sparse" /\ SparseNext
        /\ UNCHANGED <<readerVars, splintVars, simianVars, scratchVars>>
     \/ part = "files" /\ ScratchNext /\ StaticUnchanged /\ UNCHANGED readerVars
     \/ Stops /\ UNCHANGED vars

\* Nothing is asked of the other parts that needs fairness.
Spec == Init /\ [][Next]_vars /\ SparseFairness

(***************************************************************************)
(* Claim, above every run_tool: it parses its tool's output "in order to   *)
(* extract all the errors reported by the tool".  Helgrind's, splint's and *)
(* Simian's do not; what they lose is what HelgrindReadsAll,               *)
(* SplintReadsAll and SimianFaithful leave out.                            *)
(***************************************************************************)
ToolsExtractAll == HelgrindExtractsAll /\ SplintExtractsAll /\ SimianExtractsAll

-----------------------------------------------------------------------------
(* Logs of Valgrind and Helgrind: three records, cut off after any line.   *)

Msg(f) == [text |-> "m", file |-> f]
Own(f) == [k |-> "own", m |-> Msg(f)]
Is(kind) == [k |-> kind]
Hdr(t) == [k |-> "header", t |-> t]
Names(kind, text) == [k |-> kind, m |-> [text |-> text, file |-> NoFile]]

CutAnywhere(logs) == UNION {{SubSeq(l, 1, n) : n \in 0..Len(l)} : l \in logs}

ValRecord == { <<Hdr(1), Own("x/a.c"), Own("y/a.c"), Is("break")>>,
               <<Hdr(1), Is("foreign"), Own("y/a.c"), Is("text"), Is("break")>>,
               <<Hdr(2), Is("foreign"), Is("break")>>,
               <<Hdr(2), Is("bare"), Own("x/a.c"), Is("break")>>,
               <<Hdr(3), Own("x/a.c"), Is("break")>>,
               <<Is("text"), Is("break")>> }

\* Descriptors: opened by the program, inherited, without a name.
ValOpen == { <<Names("open", "a"), Own("x/a.c"), Is("break")>>,
             <<Names("open", "b"), Is("inherited"), Is("break")>>,
             <<Is("unnamed"), Own("y/a.c"), Is("break")>> }

ValDescriptors ==
  {<<[k |-> "fds", n |-> 0], Is("break")>>} \cup
  {<<[k |-> "fds", n |-> 2]>> \o a \o b : a \in ValOpen, b \in ValOpen} \cup
  {<<[k |-> "fds", n |-> 1], Is("break")>> \o a : a \in ValOpen}

\* Errors, then the descriptors, then the leaks.
MCValgrindLog == CutAnywhere({a \o d \o c : a, c \in ValRecord, d \in ValDescriptors} \cup
                             {a \o b \o c : a, b, c \in ValRecord})

\* Races: both accesses in the program, the first or the second only, and one
\* whose conflicting access helgrind did not record.
HelRace == { <<Is("race"), Is("foreign"), Own("x/a.c"), Own("y/a.c"), Is("conflicts"),
               Is("foreign"), Own("y/a.c"), Is("break")>>,
             <<Is("race"), Own("x/a.c"), Is("conflicts"), Is("foreign"), Is("break")>>,
             <<Is("race"), Is("foreign"), Is("conflicts"), Own("x/a.c"), Is("break")>>,
             <<Is("race"), Own("x/a.c"), Is("bare"), Is("conflicts"), Own("y/a.c"),
               Is("break")>>,
             <<Is("race"), Own("x/a.c"), Is("break")>> }

HelRecord == { <<Hdr(1), Is("foreign"), Own("y/a.c"), Is("break")>>,
               <<Hdr(1), Is("bare"), Own("y/a.c"), Is("break")>>,
               <<Hdr(3), Own("x/a.c"), Is("break")>>,
               <<Names("holds", "a"), Own("x/a.c"), Is("break")>>,
               <<Is("text"), Is("break")>> }

MCHelgrindLog == CutAnywhere({a \o b \o c : a, b, c \in HelRace \cup HelRecord})

-----------------------------------------------------------------------------
(* Outputs of the static tools.                                            *)

SplintSays(kind, func, sign, long) ==
  [kind |-> kind, func |-> func, sign |-> sign, long |-> long, cut |-> long]

\* Complaints of each way the loop can take, in two functions and at file scope.
SomeComplaints ==
  {SplintSays(kind, f, FALSE, FALSE) : kind \in {"leak", "static"}, f \in {"f", FileScope}}
  \cup {SplintSays("uninit", "g", FALSE, TRUE), SplintSays("access", "f", FALSE, FALSE)}
  \cup {SplintSays("initializer", f, s, l) : f \in {"f", "g"}, s \in BOOLEAN, l \in BOOLEAN}
  \cup {SplintSays("initializer", FileScope, TRUE, FALSE),
        SplintSays("assignment", "g", TRUE, FALSE), SplintSays("assignment", "f", TRUE, TRUE),
        [SplintSays("assignment", "f", TRUE, TRUE) EXCEPT !.cut = FALSE]}

MCSplintReports == UNION {[1..n -> SomeComplaints] : n \in 0..3}
MCSplintFlags == {Plain \cup {"sign"}, {"leak", "sign"}, Plain}

Duplicates == UNION {[1..n -> Place] : n \in 2..3}
MCSimianReports == UNION {[1..n -> Duplicates] : n \in 0..2}
                   \cup {<<<<"a", "b">>, <<"b", "c">>, <<"a", "b">>>>,
                         <<<<"a", "c">>, <<"c", "a">>, <<"a", "b", "c">>>>,
                         <<<<"a", "b", "a", "b", "a">>, <<"a", "b">>>>}

Fn(calls, other) == [calls |-> calls, other |-> other]

\* A function with complaints of both passes, one with an initializer list,
\* one the analyzer cannot survive; files with none, one and two functions.
MCPrograms ==
  {<<>>,
   << <<Fn(<<"call">>, {}), Fn(<<>>, {"indent", "blank"})>>, << >> >>,
   << <<Fn(<<"init", "call">>, {"tabs", "lines"})>>, <<Fn(<<"call">>, {"indent"})>> >>,
   << <<Fn(<<"call", "call">>, {})>>, <<Fn(<<"call", "init", "return">>, {"tabs"})>> >>}

MCTools == <<"splint", "valgrind", "simian">>
=============================================================================
