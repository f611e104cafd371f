----------------------------- MODULE LineChecks -----------------------------
(***************************************************************************)
(* The second pass of static_analyzer over one file: parse_function_list   *)
(* walks every function's statements, examine_stmt_indent measures each of *)
(* them and looks at the text of the source line it begins on, which it    *)
(* finds by moving a single position through the mapped file.              *)
(*                                                                         *)
(* A statement is its line, its parent in the tree (0 for the body),       *)
(* whether it is a compound and whether it stands in the file itself: that *)
(* of an included file counts its lines there, and the code does not tell  *)
(* them apart.  The statements of a function are listed in the order       *)
(* examine_statement visits them, so the last part of a for statement      *)
(* comes after the loop's body.  All four options are given, as            *)
(* gen_config.sh registers them.                                           *)
(***************************************************************************)
EXTENDS Integers, Sequences, FiniteSets

CONSTANTS Sources,        \* the files
          MaxLineCount,   \* -l
          MaxIndentLevel  \* -i

LineStatement == [line : Nat \ {0}, parent : Nat, compound : BOOLEAN, own : BOOLEAN]

\* A line's text: its indentation mixes tabs and spaces; it ends in so many
\* blanks.  eol: the last line ends in a newline.
Source == [text : Seq([mixed : BOOLEAN, trail : Nat]), eol : BOOLEAN,
           functions : Seq([line : Nat \ {0}, stmts : Seq(LineStatement)])]

ASSUME LimitsAssumption == MaxLineCount \in Int /\ MaxIndentLevel \in Int

\* The parser's positions: a statement of the file stands on one of its lines.
ASSUME SourcesAssumption ==
  /\ Sources \subseteq Source
  /\ \A s \in Sources : \A f \in 1..Len(s.functions) :
       LET stmts == s.functions[f].stmts
       IN  \A n \in 1..Len(stmts) : /\ stmts[n].own => stmts[n].line <= Len(s.text)
                                    /\ stmts[n].parent < n

VARIABLES
  source,
  FileMapping,  \* what it points to
  CurrentLine,  \* lines MappingIndex has passed
  CurrentIndentLevel, LastInstructionLine,
  level,        \* indent_level of the statements visited in this function
  fun,          \* the function being parsed
  line_pc,
  messages      \* what was printed, in order

lineVars == <<source, FileMapping, CurrentLine, CurrentIndentLevel, LastInstructionLine,
              level, fun, line_pc, messages>>

\* parse_file_list maps the file and sets its position back.  If open or lseek
\* fails there is no mapping; if mmap fails it is MAP_FAILED, which is not NULL.
LineInit == /\ source \in Sources
            /\ FileMapping \in {"NULL", "mapped", "MAP_FAILED"}
            /\ CurrentLine = 0
            /\ CurrentIndentLevel = -1 /\ LastInstructionLine = -1
            /\ level = <<>> /\ fun = 1
            /\ line_pc = "walk" /\ messages = <<>>

-----------------------------------------------------------------------------

MAX_NUM(a, b) == IF a > b THEN a ELSE b

Stmts == source.functions[fun].stmts
Walking == line_pc = "walk" /\ fun <= Len(source.functions) /\ Len(level) < Len(Stmts)

\* The statement examine_statement comes to.
stmt == Stmts[Len(level) + 1]

indent_level ==
  LET parent == IF stmt.parent = 0 THEN 0 ELSE level[stmt.parent]
  IN  IF stmt.compound THEN parent ELSE parent + 1

Message(kind, line) == [kind |-> kind, line |-> line, func |-> fun]
Says(holds, kind, line) == IF holds THEN <<Message(kind, line)>> ELSE <<>>

\* The loop passes lines up to the statement's.  If it has passed that one
\* already, start_index is the line after the last one passed.
Passed == MAX_NUM(CurrentLine, stmt.line)
\* Mutant: start_index stays where the position stood before the loop.
StartLine_Next == CurrentLine + 1

StartLine == IF stmt.line > CurrentLine THEN stmt.line ELSE CurrentLine + 1

\* The scan for the newlines leaves the mapping.
LeavesFile == /\ stmt.line > CurrentLine
              /\ \/ stmt.line > Len(source.text)
                 \/ stmt.line = Len(source.text) /\ ~source.eol

\* It does, or that for the first character that is no blank may, or there is
\* nothing to scan.
Overruns == LeavesFile \/ StartLine > Len(source.text) \/ FileMapping = "MAP_FAILED"

Measure ==
  /\ level' = Append(level, indent_level)
  /\ CurrentIndentLevel' = MAX_NUM(CurrentIndentLevel, indent_level)
  /\ LastInstructionLine' = MAX_NUM(LastInstructionLine, stmt.line)

\* Without a mapping the text is not looked at.
examine_unmapped ==
  /\ Walking /\ FileMapping = "NULL"
  /\ Measure
  /\ UNCHANGED <<source, FileMapping, CurrentLine, fun, line_pc, messages>>

\* MappingIndex - end_index - 2 >= 2
EndsInBlanks(line) == source.text[line].trail >= 2

\* What lies behind the file's end is no blank, if it can be read at all.
examine_stmt_indent ==
  /\ Walking /\ FileMapping = "mapped" /\ ~LeavesFile
  /\ Measure
  /\ CurrentLine' = Passed
  /\ messages' = messages
       \o Says(StartLine <= Len(source.text) /\ source.text[StartLine].mixed,
               "mixed", stmt.line)
       \o Says(EndsInBlanks(Passed), "trailing", stmt.line)
  /\ UNCHANGED <<source, FileMapping, fun, line_pc>>

Overrun ==
  /\ Walking /\ FileMapping # "NULL" /\ Overruns
  /\ line_pc' = "undefined"
  /\ UNCHANGED <<source, FileMapping, CurrentLine, CurrentIndentLevel,
                 LastInstructionLine, level, fun, messages>>

LineCount == LastInstructionLine - source.functions[fun].line + 1

\* Mutant: the level has to be above the maximum.
TooDeep_Above == CurrentIndentLevel > MaxIndentLevel

TooDeep == CurrentIndentLevel >= MaxIndentLevel
TooLong == MaxLineCount <= 0 \/ LineCount >= MaxLineCount

\* parse_function_list: the summary of a function with statements, and the
\* reset before the next one.
EndFunction ==
  /\ line_pc = "walk" /\ fun <= Len(source.functions) /\ Len(level) = Len(Stmts)
  /\ messages' = IF Stmts = <<>> THEN messages
                 ELSE messages \o Says(TooDeep, "indent", CurrentIndentLevel)
                               \o Says(TooLong, "lines", LineCount)
  /\ CurrentIndentLevel' = -1 /\ LastInstructionLine' = -1
  /\ level' = <<>> /\ fun' = fun + 1
  /\ UNCHANGED <<source, FileMapping, CurrentLine, line_pc>>

EndFile ==
  /\ line_pc = "walk" /\ fun > Len(source.functions)
  /\ line_pc' = "done"
  /\ UNCHANGED <<source, FileMapping, CurrentLine, CurrentIndentLevel,
                 LastInstructionLine, level, fun, messages>>

LineStopped == line_pc # "walk" /\ UNCHANGED lineVars

LineNext == \/ examine_unmapped \/ examine_stmt_indent \/ Overrun
            \/ EndFunction \/ EndFile \/ LineStopped

LineSpec == LineInit /\ [][LineNext]_lineVars

-----------------------------------------------------------------------------

\* The statements visited so far, as pairs of function and position.
VisitedIn(f) == IF f < fun THEN 1..Len(source.functions[f].stmts)
                ELSE IF f = fun THEN 1..Len(level) ELSE {}
Visited == UNION {{f} \X VisitedIn(f) : f \in 1..Len(source.functions)}
LineOf(v) == source.functions[v[1]].stmts[v[2]].line
InFile(v) == source.functions[v[1]].stmts[v[2]].own
Before(v, w) == v[1] < w[1] \/ (v[1] = w[1] /\ v[2] < w[2])

\* The position in the file only came to the statement's line with it.
Ascends(v) == \A w \in Visited : Before(w, v) => LineOf(w) < LineOf(v)

Said(kind, line) == \E n \in 1..Len(messages) :
                      messages[n].kind = kind /\ messages[n].line = line

(***************************************************************************)
(* No complaint is lost: a statement of the file that is visited in line   *)
(* order has its line's mixed indentation and its trailing blanks          *)
(* reported, from two blanks on, whatever functions and loops came before  *)
(* it.  A function of an included file spoils the order of what follows    *)
(* if its lines there are not below the file's own.                        *)
(***************************************************************************)
LineFaultsReported ==
  FileMapping = "mapped" =>
    \A v \in Visited :
      InFile(v) /\ Ascends(v) =>
        /\ source.text[LineOf(v)].mixed => Said("mixed", LineOf(v))
        /\ source.text[LineOf(v)].trail >= 2 => Said("trailing", LineOf(v))

(***************************************************************************)
(* A line that is reported is at fault, unless a statement on it was       *)
(* visited out of line order: then the complaint may be about the line     *)
(* where the position in the file stood, or about the one after it.        *)
(***************************************************************************)
LineFaultsReal ==
  \A n \in 1..Len(messages) :
    LET m == messages[n]
        stray == \E v \in Visited : LineOf(v) = m.line /\ ~Ascends(v)
    IN  /\ m.kind = "mixed" => source.text[m.line].mixed \/ stray
        /\ m.kind = "trailing" => source.text[m.line].trail >= 2 \/ stray

\* The statements on the path from the body down to statement n: the smallest
\* set that holds n and, with a statement, its parent.
Path(f, n) ==
  LET Closed(S) == \A k \in S : source.functions[f].stmts[k].parent \in S \cup {0}
  IN  {m \in 1..n : \A S \in SUBSET (1..n) : n \in S /\ Closed(S) => m \in S}
Depth(f, n) == Cardinality({m \in Path(f, n) : ~source.functions[f].stmts[m].compound})

\* Function f is nested d deep somewhere; the lines it has up to its statements.
Nested(f, d) == \E n \in 1..Len(source.functions[f].stmts) : Depth(f, n) >= d
Extents(f) == {source.functions[f].stmts[n].line - source.functions[f].line + 1 :
                 n \in 1..Len(source.functions[f].stmts)}

Summary(f, kind) == {n \in 1..Len(messages) : messages[n].kind = kind /\ messages[n].func = f}

(***************************************************************************)
(* A function's summary is about this function alone: its deepest nesting  *)
(* and its extent, whatever the functions before it were like.             *)
(***************************************************************************)
SummaryIsOwn ==
  \A f \in 1..(fun - 1) :
    /\ Summary(f, "indent") # {} <=>
         source.functions[f].stmts # <<>> /\ (MaxIndentLevel <= 0 \/ Nested(f, MaxIndentLevel))
    /\ Summary(f, "lines") # {} <=>
         \/ source.functions[f].stmts # <<>> /\ MaxLineCount <= 0
         \/ \E c \in Extents(f) : c >= MaxLineCount
    /\ \A n \in Summary(f, "indent") :
         Nested(f, messages[n].line) /\ ~Nested(f, messages[n].line + 1)
    /\ \A n \in Summary(f, "lines") : messages[n].line \in Extents(f)

(***************************************************************************)
(* The scans leave the mapped file only if mmap failed, if the file's last *)
(* line has no newline or a statement is visited after the position has    *)
(* passed that line, or if a statement of an included file stands on a     *)
(* line the file does not have.                                            *)
(***************************************************************************)
OverrunExplained ==
  line_pc = "undefined" =>
    \/ FileMapping = "MAP_FAILED"
    \/ ~source.eol \/ CurrentLine = Len(source.text)
    \/ ~stmt.own /\ stmt.line > Len(source.text)

(***************************************************************************)
(* The forward-only scan of examine_stmt_indent over the mapped file finds *)
(* the faults of the lines it comes to in order, reports no others unless  *)
(* it stands at a stray line, and leaves the file only at its end, for a   *)
(* line of another file or because there is no mapping.                    *)
(***************************************************************************)
LineScanSound == LineFaultsReported /\ LineFaultsReal /\ OverrunExplained
=============================================================================
