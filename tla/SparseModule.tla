---------------------------- MODULE SparseModule ----------------------------
(***************************************************************************)
(* The sparse tool: static_analyzer (sparse-0.4.1/rbc_sparse_utils), which *)
(* prints what it finds in two sections, and libsparse.c, whose            *)
(* parse_output_file reads them back once the analyzer has ended.          *)
(*                                                                         *)
(* A line is what the reader can tell apart: its kind, and where it was    *)
(* printed.  A function is the sequence of its statements as the first     *)
(* pass meets them and the set of complaints the second pass has about it. *)
(***************************************************************************)
EXTENDS Naturals, Sequences, FiniteSets

CONSTANTS Programs,  \* the programs that are checked
          NoName     \* a name no line has given yet

\* What -l, -i and the two forms of -s ask for; -c asks for "call".
Other == {"lines", "indent", "tabs", "blank"}
ErrorKind == {"call"} \cup Other

\* "call": a black-listed call whose value is never looked at; "init": an
\* initializer list; "return": a return without a value.
Statement == {"call", "init", "return"}

Function == [calls : Seq(Statement), other : SUBSET Other]

ASSUME ProgramsAssumption == Programs \subseteq Seq(Seq(Function))

VARIABLES
  program,       \* the files in argument order, each the sequence of its functions
  opts,          \* the options among the tool's parameters
  joined,        \* the options whose argument is written without a blank: -l150
  sparse_flags,  \* flags of run_tool
  sparse_pc,     \* where analyzer and module are
  k,             \* analyzer: the file; module: i, counted from 1
  sym,           \* analyzer: the function, 0 before the file's first line
  instruction,   \* analyzer: the statement, 0 before the function's first line
  printed,       \* __sparse_output
  crashed,       \* the analyzer did not return from main
  sparse_at,     \* module: lines read
  file_name, func_name,
  sparse_errs    \* module: the errors added, each with the line it was read from

input == <<program, opts, joined, sparse_flags>>
analyzerVars == <<sym, instruction, printed, crashed>>
moduleVars == <<sparse_at, file_name, func_name, sparse_errs>>
sparseVars == <<input, sparse_pc, k, analyzerVars, moduleVars>>

SparseInit == /\ program \in Programs
              /\ opts \in SUBSET ErrorKind /\ sparse_flags \in SUBSET ErrorKind
              /\ joined \in SUBSET (opts \cap Other)
              /\ sparse_pc = "main" /\ k = 1 /\ sym = 0 /\ instruction = 0
              /\ printed = <<>> /\ crashed = FALSE
              /\ sparse_at = 0 /\ file_name = NoName /\ func_name = NoName
              /\ sparse_errs = <<>>

-----------------------------------------------------------------------------
(* static_analyzer *)

Line(kind, f, g, s) == [kind |-> kind, file |-> f, func |-> g, stmt |-> s]

Passes == {"calls", "others"}

\* EXPR_INITIALIZER prints "init" and "end init" with a line end before each:
\* a blank line and "init" precede whatever is printed next, on whose line
\* "end init" is.
Noise == {"gap", "init"}

\* The complaints of examine_stmt_indent come with the statements,
\* parse_function_list's own after them.
SummaryOrder == <<"tabs", "blank", "indent", "lines">>

\* main counts an option and its argument as two words of argv, however they
\* are written: a joined one costs a file.
FirstFile == 1 + Cardinality(joined)

\* new_argv holds the name of the program, the files that are left and one word
\* more; malloc is asked for less than nothing if main counted too many words.
NewArgvFits == Cardinality(joined) <= Len(program) + 2

\* Starts a section.
Section(pass) ==
  /\ printed' = Append(printed, Line(pass, NoName, NoName, 0))
  /\ k' = FirstFile /\ sym' = 0 /\ instruction' = 0
  /\ sparse_pc' = pass

\* main: the options are read and the black list is set up.
main ==
  /\ sparse_pc = "main" /\ NewArgvFits
  /\ \/ /\ "call" \in opts /\ Section("calls")
     \/ /\ "call" \notin opts /\ opts \cap Other # {} /\ Section("others")
     \/ /\ opts = {}
        /\ sparse_pc' = "open" /\ UNCHANGED <<k, sym, instruction, printed>>
  /\ UNCHANGED <<input, crashed, moduleVars>>

\* main: /tmp/black_list cannot be read, or there is no room for new_argv.
NoBlackList ==
  /\ sparse_pc = "main"
  /\ crashed' = TRUE /\ sparse_pc' = "open"
  /\ UNCHANGED <<input, k, sym, instruction, printed, moduleVars>>

InFile == sparse_pc \in Passes /\ k <= Len(program)
InFunction == InFile /\ sym \in 1..Len(program[k]) /\ instruction > 0
statements == program[k][sym].calls
Here(kind) == Line(kind, k, sym, instruction)

\* parse_file_list: a line before the functions of file k and one after them.
FileBegins ==
  /\ InFile /\ sym = 0
  /\ printed' = Append(printed, Line("file", k, NoName, 0))
  /\ sym' = 1
  /\ UNCHANGED <<input, sparse_pc, k, instruction, crashed, moduleVars>>

FileEnds ==
  /\ InFile /\ sym > Len(program[k])
  /\ printed' = Append(printed, Line("end file", k, NoName, 0))
  /\ k' = k + 1 /\ sym' = 0
  /\ UNCHANGED <<input, sparse_pc, instruction, crashed, moduleVars>>

\* parse_function_list: a line before the statements and one after them.
FunctionBegins ==
  /\ InFile /\ sym \in 1..Len(program[k]) /\ instruction = 0
  /\ printed' = Append(printed, Here("function"))
  /\ instruction' = 1
  /\ UNCHANGED <<input, sparse_pc, k, sym, crashed, moduleVars>>

FunctionEnds ==
  /\ InFunction
  /\ instruction > IF sparse_pc = "calls" THEN Len(statements) ELSE Len(SummaryOrder)
  /\ printed' = Append(printed, Here("end function"))
  /\ sym' = sym + 1 /\ instruction' = 0
  /\ UNCHANGED <<input, sparse_pc, k, crashed, moduleVars>>

\* A statement in the first pass: emit_error, or the lines of an initializer.
examine_stmt_expression ==
  /\ InFunction /\ sparse_pc = "calls"
  /\ instruction <= Len(statements) /\ statements[instruction] # "return"
  /\ printed' = IF statements[instruction] = "call" THEN Append(printed, Here("call"))
                ELSE Append(Append(printed, Here("gap")), Here("init"))
  /\ instruction' = instruction + 1
  /\ UNCHANGED <<input, sparse_pc, k, sym, crashed, moduleVars>>

\* A complaint in the second pass, if there is reason and it was asked for.
Summary ==
  /\ InFunction /\ sparse_pc = "others" /\ instruction <= Len(SummaryOrder)
  /\ LET kind == SummaryOrder[instruction]
     IN  printed' = IF kind \in program[k][sym].other \cap opts
                    THEN Append(printed, Here(kind)) ELSE printed
  /\ instruction' = instruction + 1
  /\ UNCHANGED <<input, sparse_pc, k, sym, crashed, moduleVars>>

\* "end init", if the analyzer has not ended its line yet.
Unended == instruction > 1 /\ statements[instruction - 1] = "init"

\* examine_stmt_expression writes through the NULL ret_value of "return;" and
\* the analyzer dies.  What stdio has not written to the file yet is lost, at
\* whatever character the buffer began.
AnalyzerDies ==
  /\ InFunction /\ sparse_pc = "calls"
  /\ instruction <= Len(statements) /\ statements[instruction] = "return"
  /\ LET all == IF Unended THEN Append(printed, Here("torn")) ELSE printed
     IN  \E n \in 0..Len(all) :
           \/ printed' = SubSeq(all, 1, n)
           \/ /\ n < Len(all)
              /\ printed' = Append(SubSeq(all, 1, n), [all[n + 1] EXCEPT !.kind = "torn"])
  /\ crashed' = TRUE /\ sparse_pc' = "open"
  /\ UNCHANGED <<input, k, sym, instruction, moduleVars>>

\* All files are done: the next section that was asked for starts, or main ends.
EndPass ==
  /\ sparse_pc \in Passes /\ k > Len(program)
  /\ \/ sparse_pc = "calls" /\ opts \cap Other # {} /\ Section("others")
     \/ /\ sparse_pc = "others" \/ opts \cap Other = {}
        /\ sparse_pc' = "open" /\ UNCHANGED <<k, sym, instruction, printed>>
  /\ UNCHANGED <<input, crashed, moduleVars>>

parse_file_list == FileBegins \/ FileEnds
parse_function_list == FunctionBegins \/ examine_stmt_expression \/ Summary \/ FunctionEnds

-----------------------------------------------------------------------------
(* libsparse.c *)

\* fgets
More == sparse_at < Len(printed)
read == printed[sparse_at + 1]
Read == More /\ sparse_at' = sparse_at + 1

TracksCalls == "call" \in sparse_flags
TracksOthers == sparse_flags \cap Other # {}

\* run_tool and parse_output_file: the file is opened, and the sections that
\* are tracked are looked for in turn.
fopen ==
  /\ sparse_pc = "open"
  /\ sparse_pc' = CASE TracksCalls                   -> "find calls"
             [] ~TracksCalls /\ TracksOthers  -> "find others"
             [] OTHER                         -> "done"
  /\ UNCHANGED <<input, k, analyzerVars, moduleVars>>

\* Mutant: i is not reset for the second section.
FindSection_KeepsIndex(pass, find, file) ==
  /\ sparse_pc = find
  /\ \/ Read /\ sparse_pc' = IF read.kind = pass THEN file ELSE find
     \/ ~More /\ sparse_pc' = file /\ UNCHANGED sparse_at
  /\ k' = IF pass = "calls" THEN 1 ELSE k
  /\ UNCHANGED <<input, analyzerVars, file_name, func_name, sparse_errs>>

\* Mutant: the search for the section ignores that the output has ended.
FindSection_Forever(pass, find, file) ==
  /\ sparse_pc = find
  /\ \/ /\ Read
        /\ IF read.kind = pass THEN sparse_pc' = file /\ k' = 1 ELSE UNCHANGED <<sparse_pc, k>>
     \/ ~More /\ UNCHANGED <<sparse_pc, k, sparse_at>>
  /\ UNCHANGED <<input, analyzerVars, file_name, func_name, sparse_errs>>

\* The lines before the section are skipped; without it, all of them are.
FindSection(pass, find, file) ==
  /\ sparse_pc = find
  /\ \/ /\ Read
        /\ IF read.kind = pass THEN sparse_pc' = file /\ k' = 1 ELSE UNCHANGED <<sparse_pc, k>>
     \/ ~More /\ sparse_pc' = file /\ k' = 1 /\ UNCHANGED sparse_at
  /\ UNCHANGED <<input, analyzerVars, file_name, func_name, sparse_errs>>

\* Mutant: the file's name is only taken while there is none.
ReadFile_Once(file, functions) ==
  /\ sparse_pc = file /\ k <= Len(program)
  /\ \/ /\ Read
        /\ file_name' = IF file_name = NoName THEN read.file ELSE file_name
     \/ ~More /\ UNCHANGED <<sparse_at, file_name>>
  /\ sparse_pc' = functions
  /\ UNCHANGED <<input, k, analyzerVars, func_name, sparse_errs>>

\* for (i = 0; i < file_count; i++): the file's name, whatever line it is.
ReadFile(file, functions) ==
  /\ sparse_pc = file /\ k <= Len(program)
  /\ \/ /\ Read
        /\ file_name' = IF read.kind = "file" THEN read.file ELSE file_name
     \/ ~More /\ UNCHANGED <<sparse_at, file_name>>
  /\ sparse_pc' = functions
  /\ UNCHANGED <<input, k, analyzerVars, func_name, sparse_errs>>

ReadFunction(file, functions, errors) ==
  /\ sparse_pc = functions
  /\ \/ /\ Read
        /\ \/ /\ read.kind = "end file"
              /\ sparse_pc' = file /\ k' = k + 1 /\ UNCHANGED func_name
           \/ /\ read.kind # "end file"
              /\ func_name' = IF read.kind = "function" THEN read.func ELSE func_name
              /\ sparse_pc' = errors /\ UNCHANGED k
     \/ /\ ~More
        /\ sparse_pc' = file /\ k' = k + 1 /\ UNCHANGED <<sparse_at, func_name>>
  /\ UNCHANGED <<input, analyzerVars, file_name, sparse_errs>>

\* In the first section every line is an error; in the second it is one if
\* its text says so and the error is tracked.
Wanted(file, l) == file = "calls file" \/ l.kind \in Other \cap sparse_flags

ReadError(file, functions, errors) ==
  /\ sparse_pc = errors
  /\ \/ /\ Read
        /\ sparse_pc' = IF read.kind = "end function" THEN functions ELSE errors
        /\ sparse_errs' =
             IF read.kind # "end function" /\ Wanted(file, read)
             THEN Append(sparse_errs,
                         [type |-> IF file = "calls file" THEN "call" ELSE read.kind,
                          file |-> file_name, func |-> func_name, line |-> read])
             ELSE sparse_errs
     \/ /\ ~More
        /\ sparse_pc' = functions /\ UNCHANGED <<sparse_at, sparse_errs>>
  /\ UNCHANGED <<input, k, analyzerVars, file_name, func_name>>

SectionRead ==
  /\ sparse_pc \in {"calls file", "others file"} /\ k > Len(program)
  /\ sparse_pc' = IF sparse_pc = "calls file" /\ TracksOthers THEN "find others" ELSE "done"
  /\ UNCHANGED <<input, k, analyzerVars, moduleVars>>

parse_output_file ==
  \/ FindSection("calls", "find calls", "calls file")
  \/ ReadFile("calls file", "calls functions")
  \/ ReadFunction("calls file", "calls functions", "calls errors")
  \/ ReadError("calls file", "calls functions", "calls errors")
  \/ FindSection("others", "find others", "others file")
  \/ ReadFile("others file", "others functions")
  \/ ReadFunction("others file", "others functions", "others errors")
  \/ ReadError("others file", "others functions", "others errors")
  \/ SectionRead

Analyze == \/ main \/ NoBlackList \/ EndPass
           \/ parse_file_list \/ parse_function_list \/ AnalyzerDies

SparseStopped == sparse_pc = "done" /\ UNCHANGED sparseVars

SparseNext == Analyze \/ fopen \/ parse_output_file \/ SparseStopped

SparseSpec == SparseInit /\ [][SparseNext]_sparseVars

\* getchar: behind "init" the analyzer waits for a character of robocheck's own
\* standard input, which nobody has to type.
AtGetchar == /\ InFunction /\ sparse_pc = "calls"
             /\ instruction <= Len(statements) /\ statements[instruction] = "init"

\* Everything else is a loop of the analyzer or of the module.
SparseFairness == WF_sparseVars(SparseNext /\ ~AtGetchar)

-----------------------------------------------------------------------------

(* What a reader of the program expects.                                   *)

\* The lines that statement s stands for in the first pass.
Says(s) == CASE s = "call" -> {"call"} [] s = "init" -> Noise [] s = "return" -> {}

\* The complaints about function g of file f that are tracked.
Deserved(f, g) ==
  LET func == program[f][g]
  IN  {l \in {Line(kind, f, g, s) : kind \in {"call"} \cup Noise, s \in 1..Len(func.calls)} :
         TracksCalls /\ l.kind \in Says(func.calls[l.stmt])}
      \cup {Line(SummaryOrder[s], f, g, s) :
              s \in {t \in 1..Len(SummaryOrder) :
                       SummaryOrder[t] \in func.other \cap opts \cap sparse_flags}}

\* Line a belongs before line b: the first pass, then by file, function and
\* statement.
InFirst(l) == l.kind \notin Other
Precedes(a, b) ==
  \/ InFirst(a) /\ ~InFirst(b)
  \/ /\ InFirst(a) <=> InFirst(b)
     /\ \/ a.file < b.file
        \/ a.file = b.file /\ a.func < b.func
        \/ a.file = b.file /\ a.func = b.func /\ a.stmt < b.stmt
        \/ /\ a.file = b.file /\ a.func = b.func /\ a.stmt = b.stmt
           /\ a.kind = "gap" /\ b.kind = "init"

(***************************************************************************)
(* If the analyzer lives to the end, its options are written as main       *)
(* counts them, and unverified calls are only tracked when -c asks for     *)
(* them, then parse_output_file adds exactly the program's complaints of   *)
(* the tracked kinds (and the analyzer's noise), each once and in order:   *)
(* neither section is entered late or left early, whichever is there.      *)
(***************************************************************************)
SparseReadsAll ==
  sparse_pc = "done" /\ ~crashed /\ joined = {} /\ (TracksCalls => "call" \in opts) =>
    /\ \A n \in 1..Len(sparse_errs) : \E f \in 1..Len(program) :
         \E g \in 1..Len(program[f]) : sparse_errs[n].line \in Deserved(f, g)
    /\ \A f \in 1..Len(program) : \A g \in 1..Len(program[f]) : \A l \in Deserved(f, g) :
         \E n \in 1..Len(sparse_errs) : sparse_errs[n].line = l
    /\ \A m, n \in 1..Len(sparse_errs) :
         m < n => Precedes(sparse_errs[m].line, sparse_errs[n].line)

(***************************************************************************)
(* Even when the analyzer dies in the middle of a line, and whichever      *)
(* options and errors are asked for, an error is added under the file and  *)
(* the function it was printed for, and a line that is no complaint is     *)
(* taken for one only where the output was torn.  It does not hold if main *)
(* miscounted the files: the reader then runs over the end of the section. *)
(***************************************************************************)
SparseAttribution ==
  joined = {} =>
    \A n \in 1..Len(sparse_errs) :
      LET e == sparse_errs[n]
      IN  /\ e.file = e.line.file /\ e.func = e.line.func
          /\ \/ e.line.kind = e.type
             \/ e.type = "call" /\ e.line.kind \in Noise
             \/ /\ crashed /\ e.line.kind = "torn"
                /\ sparse_at = Len(printed) /\ n = Len(sparse_errs)

(***************************************************************************)
(* Whatever the analyzer printed and however far it got, with sections     *)
(* missing, files miscounted or its output torn, run_tool comes to an end: *)
(* each of parse_output_file's nested loops ends with the output if not    *)
(* with its own line.  Only an initializer list that the analyzer stops at *)
(* to wait for a character can keep it from returning.                     *)
(***************************************************************************)
SparseReturns == <>(sparse_pc = "done") \/ <>[]AtGetchar
=============================================================================
