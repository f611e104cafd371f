----------------------------- MODULE Robocheck -----------------------------
(***************************************************************************)
(* One run of robocheck (main.c: init_robocheck, run_robocheck,            *)
(* close_robocheck of src/librobocheck.c), composed of the list a tool     *)
(* module builds (ToolList), the vector of collected errors (OutputVector) *)
(* and the penalty library (Penalty).                                      *)
(*                                                                         *)
(* The program is sequential: pc says where it is, and every loop          *)
(* iteration is a step.  What the environment decides is chosen by the     *)
(* steps: which libraries and symbols load, what errors a tool detects,    *)
(* which allocations fail.                                                 *)
(***************************************************************************)
EXTENDS ToolList, OutputVector, Penalty, Bags

CONSTANTS Tool,     \* names of tools
          Configs   \* start-up parts the configuration file may have

\* The part of the file run_robocheck reads: whether it parses and has a
\* <tools> node, the <add> children of <tools> and their count attribute, the
\* names under <installed_tools>, the load attribute of <penalty>, and
\* whether the nodes <static>, <dynamic> and <parameters> are there.  logger
\* is the stream init_robocheck is given (main.c passes stderr).
Config == [file : {"unreadable", "no tools", "full"}, tools : Seq(Tool),
           count : Nat, installed : SUBSET Tool, load : BOOLEAN,
           inputs : BOOLEAN, logger : {"standard", "file"}]

ASSUME ConfigsAssumption == Configs \subseteq Config

\* PENALTY_COUNT is ERR_MAX, the last member of enum EN_err_type.
ASSUME CodesAssumption == ErrType \subseteq Code

VARIABLES
  config,    \* the configuration of this run
  pc,        \* where the program is
  i,         \* i of run_robocheck, counted from 1
  cur,       \* position of current_tool_node in <tools>
  lib,       \* __libpenalty: "none", "open" or "closed"
  apply,     \* apply_penalty_ptr is set
  refs,      \* references to tool modules dlopen has given out
  handlers,  \* num_lib_handlers
  ri, start, \* i and start of update_errors, counted from 1
  stream,    \* FileLogger: "open" or "closed"
  json,      \* what stdout holds: "none", "open" or "complete"
  printed,   \* the groups printed, in order
  ran        \* history: tools load_module was called for, in order

mainVars == <<config, pc, i, cur, lib, apply, refs, handlers, ri, start, json,
              printed, ran, stream>>
vars == <<listVars, vecVars, penVars, mainVars>>

Init == /\ ListInit /\ VecInit /\ PenInit
        /\ config \in Configs
        /\ pc = "start"
        /\ i = 1 /\ cur = 1
        /\ lib = "none" /\ apply = FALSE
        /\ refs = 0 /\ handlers = 0
        /\ ri = 1 /\ start = 1
        /\ json = "none" /\ printed = <<>>
        /\ ran = <<>>
        /\ stream = "open"

-----------------------------------------------------------------------------
(* init_robocheck: read_startup_info, load_libpenalty *)

\* check_libpenalty: __root is there and load="true".
WantsPenalty == config.file # "unreadable" /\ config.load

\* No penalty module is wanted, or dlopen fails.
WithoutPenalty ==
  /\ pc = "start"
  /\ pc' = "run"
  /\ UNCHANGED <<listVars, vecVars, penVars, config, i, cur, lib, apply, refs,
                 handlers, ri, start, json, printed, ran, stream>>

\* dlopen succeeds; if the symbol init_penalties is missing the module stays
\* loaded and unused.
OpenPenalty ==
  /\ pc = "start" /\ WantsPenalty
  /\ lib' = "open"
  /\ pc' \in {"penalty", "run"}
  /\ UNCHANGED <<listVars, vecVars, penVars, config, i, cur, apply, refs,
                 handlers, ri, start, json, printed, ran, stream>>

FillPenalty ==
  /\ pc = "penalty"
  /\ init_penalties \/ InitFails \/ FillStep \/ FillDone
  /\ UNCHANGED <<listVars, vecVars, mainVars>>

\* apply_penalty_ptr is looked up only if init_penalties returned 0.
PenaltyLoaded ==
  /\ pc = "penalty" /\ pstate \in {"ready", "failed"}
  /\ apply' \in IF pstate = "ready" THEN BOOLEAN ELSE {FALSE}
  /\ pc' = "run"
  /\ UNCHANGED <<listVars, vecVars, penVars, config, i, cur, lib, refs,
                 handlers, ri, start, json, printed, ran, stream>>

-----------------------------------------------------------------------------
(* run_robocheck: the loop over the registered tools *)

\* __root is dereferenced even if the file could not be read; without a
\* <tools> node run_robocheck returns.
EnterRun ==
  /\ pc = "run"
  /\ pc' = CASE config.file = "unreadable" -> "undefined"
             [] config.file = "no tools"   -> "close"
             [] config.file = "full"       -> "loop"
  /\ UNCHANGED <<listVars, vecVars, penVars, config, i, cur, lib, apply, refs,
                 handlers, ri, start, json, printed, ran, stream>>

MoreTools == pc = "loop" /\ i <= config.count

\* current_tool_node exists and names an installed tool.
Installed == cur <= Len(config.tools) /\ config.tools[cur] \in config.installed

\* Mutant: the loop counter does not advance when a tool is skipped.
SkipTool_Forever ==
  /\ MoreTools /\ ~Installed
  /\ UNCHANGED vars

\* continue: the loop counter advances, current_tool_node does not.
SkipTool ==
  /\ MoreTools /\ ~Installed
  /\ i' = i + 1
  /\ UNCHANGED <<listVars, vecVars, penVars, config, pc, cur, lib, apply, refs,
                 handlers, ri, start, json, printed, ran, stream>>

\* load_module: dlopen fails and the output is NULL.
OpenFails ==
  /\ MoreTools /\ Installed
  /\ ran' = Append(ran, config.tools[cur])
  /\ pc' = "collect"
  /\ UNCHANGED <<listVars, vecVars, penVars, config, i, cur, lib, apply, refs,
                 handlers, ri, start, json, printed, stream>>

\* Mutant: the handle is recorded after run_tool has been found.
LoadModule_RecordsLate ==
  /\ MoreTools /\ Installed
  /\ ran' = Append(ran, config.tools[cur])
  /\ refs' = refs + 1
  /\ pc' \in {"tool", "collect"}
  /\ handlers' = IF pc' = "tool" THEN handlers + 1 ELSE handlers
  /\ UNCHANGED <<listVars, vecVars, penVars, config, i, cur, lib, apply,
                 ri, start, json, printed, stream>>

\* load_module: the handle is recorded, then run_tool is looked up and
\* called; without the symbol the output is NULL.
LoadModule ==
  /\ MoreTools /\ Installed
  /\ ran' = Append(ran, config.tools[cur])
  /\ refs' = refs + 1
  /\ handlers' = handlers + 1
  /\ pc' \in {"tool", "collect"}
  /\ UNCHANGED <<listVars, vecVars, penVars, config, i, cur, lib, apply,
                 ri, start, json, printed, stream>>

\* The module detects an error and adds it to its list.
ToolReports ==
  /\ pc = "tool"
  /\ \E node \in Finding : add(node)
  /\ UNCHANGED <<vecVars, penVars, mainVars>>

\* A module reads file_count, params_count or args_count.  Without the node
\* they come from, extract_static_input, extract_dynamic_input and
\* extract_input return a structure in which nobody set them.
ToolUndefined ==
  /\ pc = "tool" /\ ~config.inputs
  /\ pc' = "undefined"
  /\ UNCHANGED <<listVars, vecVars, penVars, config, i, cur, lib, apply, refs,
                 handlers, ri, start, json, printed, ran, stream>>

ToolReturns ==
  /\ pc = "tool"
  /\ pc' = "collect"
  /\ UNCHANGED <<listVars, vecVars, penVars, config, i, cur, lib, apply, refs,
                 handlers, ri, start, json, printed, ran, stream>>

\* add_range(output): output->size > 0 is the test for a list worth reading.
Collect ==
  /\ pc = "collect"
  /\ LET l == IF size > 0 THEN list ELSE <<>>
     IN  AddRange(l) \/ AddRangeFails(l)
  /\ pc' = "adding"
  /\ UNCHANGED <<listVars, penVars, config, i, cur, lib, apply, refs, handlers,
                 ri, start, json, printed, ran, stream>>

Adding == /\ pc = "adding"
          /\ AddStep
          /\ UNCHANGED <<listVars, penVars, mainVars>>

NextTool ==
  /\ pc = "adding" /\ phase = "idle"
  /\ i' = i + 1 /\ cur' = cur + 1
  /\ list' = <<>> /\ size' = 0 /\ detected' = <<>>
  /\ pc' = "loop"
  /\ UNCHANGED <<vecVars, penVars, config, lib, apply, refs, handlers,
                 ri, start, json, printed, ran, stream>>

-----------------------------------------------------------------------------
(* update_errors *)

ToolsDone == pc = "loop" /\ i > config.count

\* Mutant: apply_penalty_ptr is tested the wrong way round.
ReportSkipped_Inverted == lib = "none" \/ apply \/ cap = 0

\* __libpenalty == NULL || apply_penalty_ptr == NULL || __output == NULL
ReportSkipped == lib = "none" \/ ~apply \/ cap = 0

NoReport ==
  /\ ToolsDone /\ ReportSkipped
  /\ pc' = "close"
  /\ UNCHANGED <<listVars, vecVars, penVars, config, i, cur, lib, apply, refs,
                 handlers, ri, start, json, printed, ran, stream>>

SortErrors ==
  /\ \/ ToolsDone /\ ~ReportSkipped /\ StartSort /\ pc' = "sort"
     \/ pc = "sort" /\ SortStep /\ UNCHANGED pc
  /\ UNCHANGED <<listVars, penVars, config, i, cur, lib, apply, refs, handlers,
                 ri, start, json, printed, ran, stream>>

\* json_output_start, start = 0, i = 0
StartReport ==
  /\ pc = "sort" /\ phase = "sorted"
  /\ json' = "open" /\ ri' = 1 /\ start' = 1
  /\ pc' = "report"
  /\ UNCHANGED <<listVars, vecVars, penVars, config, i, cur, lib, apply, refs,
                 handlers, printed, ran, stream>>

Reporting == pc = "report" /\ ri <= Len(out) + 1

IsError(k) == k <= cap /\ out[k] \in Finding

SameGroup == /\ ri <= Len(out) /\ IsError(ri) /\ IsError(start)
             /\ out[ri].err_type = out[start].err_type

\* i is inside the group that began at start.
GroupGoesOn ==
  /\ Reporting /\ SameGroup
  /\ ri' = ri + 1
  /\ UNCHANGED <<listVars, vecVars, penVars, config, pc, i, cur, lib, apply, refs,
                 handlers, start, json, printed, ran, stream>>

\* Mutant: __output[i] is read before i is compared with __output_size.
GroupComplete_ReadsFirst == /\ start <= Len(out) /\ IsError(start)
                            /\ ri <= Len(out) /\ IsError(ri) /\ ~SameGroup

\* The group start..ri-1 is complete and its slots can be read.
GroupComplete == /\ start <= Len(out) /\ IsError(start)
                 /\ ri <= Len(out) => IsError(ri) /\ ~SameGroup

\* Mutant: the loop over the group's members ends at j < i - 1.
Group_DropsLast(value) == [type    |-> out[start].err_type,
                           value   |-> value,
                           members |-> SubSeq(out, start, ri - 2),
                           comma   |-> ri <= Len(out)]

\* Mutant: i is compared with __output_size - 1 for the comma.
Group_NoComma(value) == [type    |-> out[start].err_type,
                         value   |-> value,
                         members |-> SubSeq(out, start, ri - 1),
                         comma   |-> ri < Len(out)]

\* json_output_error, one json_output_error_message per member, and
\* json_output_error_end with a comma unless i == __output_size.
Group(value) == [type    |-> out[start].err_type,
                 value   |-> value,
                 members |-> SubSeq(out, start, ri - 1),
                 comma   |-> ri <= Len(out)]

PrintGroup ==
  /\ Reporting /\ GroupComplete
  /\ LET type == out[start].err_type
         count == ri - start
     IN  \/ \* apply_penalty returns a penalty
            /\ ~PenaltyUndefined(type, count)
            /\ \E value \in PenaltyValues(type, count) :
                  printed' = Append(printed, Group(value))
            /\ UNCHANGED faults
         \/ \* apply_penalty returns NULL for want of memory
            /\ faults < MaxFaults
            /\ faults' = faults + 1
            /\ UNCHANGED printed
  /\ start' = ri /\ ri' = ri + 1
  /\ UNCHANGED <<listVars, out, cap, inc, phase, pending, si, sj, calls, handed,
                 penVars, config, pc, i, cur, lib, apply, refs, handlers, json, ran, stream>>

\* Nothing was collected: the type of __output[0], which nobody wrote, is
\* passed to apply_penalty with count 0, which returns NULL if the read
\* itself goes well.
PrintNothing ==
  /\ Reporting /\ out = <<>>
  /\ ri' = ri + 1
  /\ UNCHANGED <<listVars, vecVars, penVars, config, pc, i, cur, lib, apply, refs,
                 handlers, start, json, printed, ran, stream>>

\* A slot without an error is read, or apply_penalty meets an unmapped error
\* or a step of 0.
ReportUndefined ==
  /\ Reporting /\ ~SameGroup
  /\ GroupComplete => PenaltyUndefined(out[start].err_type, ri - start)
  /\ pc' = "undefined"
  /\ UNCHANGED <<listVars, vecVars, penVars, config, i, cur, lib, apply, refs,
                 handlers, ri, start, json, printed, ran, stream>>

EndReport ==
  /\ pc = "report" /\ ri > Len(out) + 1
  /\ json' = "complete"
  /\ pc' = "close"
  /\ UNCHANGED <<listVars, vecVars, penVars, config, i, cur, lib, apply, refs,
                 handlers, ri, start, printed, ran, stream>>

-----------------------------------------------------------------------------
(* close_robocheck *)

\* close_libpenalty: free_penalties returns at once if init_penalties never
\* ran; without the symbol free_penalties the module is not closed.
CloseLibpenalty ==
  /\ pc = "close"
  /\ \/ lib = "none" /\ UNCHANGED <<lib, penVars>>
     \/ /\ lib = "open"
        /\ \/ lib' = "closed" /\ free_penalties
           \/ lib' = "closed" /\ pstate = "unset" /\ UNCHANGED penVars
           \/ UNCHANGED <<lib, penVars>>
  /\ pc' = "log"
  /\ UNCHANGED <<listVars, vecVars, config, i, cur, apply, refs, handlers,
                 ri, start, json, printed, ran, stream>>

\* is_internal_stream: stderr, stdin or stdout.
is_internal_stream == config.logger = "standard"

\* close_robocheck closes FileLogger if it is a standard stream, and only
\* then, frees the inputs, and logs that it did: to a stream that is closed.
CloseLogger ==
  /\ pc = "log"
  /\ stream' = IF is_internal_stream THEN "closed" ELSE "open"
  /\ pc' \in IF stream' = "closed" THEN {"free", "undefined"} ELSE {"free"}
  /\ UNCHANGED <<listVars, vecVars, penVars, config, i, cur, lib, apply, refs,
                 handlers, ri, start, json, printed, ran>>

\* Mutant: close_library_handlers runs up to i <= num_lib_handlers.
CloseRobocheck_OneMore ==
  /\ pc = "free"
  /\ FreeVector
  /\ IF phase' = "undefined" THEN UNCHANGED <<pc, refs>>
     ELSE pc' = "done" /\ refs' = refs - (handlers + 1)
  /\ UNCHANGED <<listVars, penVars, config, i, cur, lib, apply, handlers,
                 ri, start, json, printed, ran, stream>>

\* free_output_vector, then close_library_handlers over the recorded handles.
CloseRobocheck ==
  /\ pc = "free"
  /\ FreeVector
  /\ IF phase' = "undefined" THEN UNCHANGED <<pc, refs>>
     ELSE pc' = "done" /\ refs' = refs - handlers
  /\ UNCHANGED <<listVars, penVars, config, i, cur, lib, apply, handlers,
                 ri, start, json, printed, ran, stream>>

-----------------------------------------------------------------------------

Undefined == pc = "undefined" \/ phase = "undefined" \/ pstate = "undefined"

Stopped == (pc = "done" \/ Undefined) /\ UNCHANGED vars

InitSteps   == WithoutPenalty \/ OpenPenalty \/ FillPenalty \/ PenaltyLoaded
ToolSteps   == \/ EnterRun \/ SkipTool \/ OpenFails \/ LoadModule
               \/ ToolReports \/ ToolUndefined \/ ToolReturns \/ Collect \/ Adding \/ NextTool
ReportSteps == \/ NoReport \/ SortErrors \/ StartReport \/ GroupGoesOn
               \/ PrintGroup \/ PrintNothing \/ ReportUndefined \/ EndReport
CloseSteps  == CloseLibpenalty \/ CloseLogger \/ CloseRobocheck

Next == InitSteps \/ ToolSteps \/ ReportSteps \/ CloseSteps \/ Stopped

Fairness == WF_vars(Next)

Spec == Init /\ [][Next]_vars /\ Fairness

-----------------------------------------------------------------------------

PC == {"start", "penalty", "run", "loop", "tool", "collect", "adding", "sort",
       "report", "close", "log", "free", "done", "undefined"}

GroupType == [type : ErrType, value : Nat, members : Seq(Finding), comma : BOOLEAN]

TypeOK == /\ ListTypeOK /\ VecTypeOK /\ PenTypeOK
          /\ config \in Configs
          /\ pc \in PC
          /\ i \in Nat \ {0} /\ cur \in Nat \ {0}
          /\ lib \in {"none", "open", "closed"} /\ apply \in BOOLEAN
          /\ refs \in Nat /\ handlers \in Nat
          /\ ri \in Nat \ {0} /\ start \in Nat \ {0}
          /\ json \in {"none", "open", "complete"}
          /\ printed \in Seq(GroupType)
          /\ ran \in Seq(Tool)
          /\ stream \in {"open", "closed"}

Types == {f.err_type : f \in {out[k] : k \in 1..Len(out)} \cap Finding}

(***************************************************************************)
(* When the report ends, each error code of the vector has exactly one     *)
(* group, the groups ascend, and a group's members are all the collected   *)
(* errors of its code in the vector's order: update_errors' start and i    *)
(* neither split, merge, drop nor repeat anything.                         *)
(***************************************************************************)
ReportIsPartition ==
  json = "complete" /\ phase = "sorted" /\ faults = 0 =>
    /\ {printed[g].type : g \in 1..Len(printed)} = Types
    /\ \A g, h \in 1..Len(printed) : g < h => printed[g].type < printed[h].type
    /\ \A g \in 1..Len(printed) : \E a, b \in 1..Len(out) :
         /\ printed[g].members = SubSeq(out, a, b)
         /\ {k \in 1..Len(out) : out[k].err_type = printed[g].type} = a..b

(***************************************************************************)
(* In a complete report a comma follows every group but the last, as the   *)
(* JSON reader parser.py needs it.  The comma is printed before it is      *)
(* known whether a later group will be, so it fails if apply_penalty       *)
(* returns NULL for want of memory.                                        *)
(***************************************************************************)
CommasSeparateGroups ==
  json = "complete" /\ faults = 0 =>
    \A g \in 1..Len(printed) : printed[g].comma <=> g < Len(printed)

(***************************************************************************)
(* A complete report is well formed: one group per collected code, with    *)
(* all its errors, in ascending order, and commas between the groups.      *)
(***************************************************************************)
ReportWellFormed == ReportIsPartition /\ CommasSeparateGroups

\* The errors printed in group g.
Members(g) == {printed[g].members[k] : k \in 1..Len(printed[g].members)}

(***************************************************************************)
(* End to end: in a complete report every error that a tool handed over is *)
(* printed or duplicates a printed one, and no two printed errors are      *)
(* duplicates.                                                             *)
(***************************************************************************)
ReportCoversErrors ==
  json = "complete" /\ faults = 0 =>
    /\ \A f \in handed : \E g \in 1..Len(printed) : \E e \in Members(g) :
         e = f \/ Duplicate(f, e)
    /\ \A g, h \in 1..Len(printed) :
         \A j \in 1..Len(printed[g].members), k \in 1..Len(printed[h].members) :
           g # h \/ j # k => ~Duplicate(printed[g].members[j], printed[h].members[k])

\* Group x costs what the details p say: the configured value once if the
\* count is INF, else once per full step of members.
Costs(x, p) ==
  IF p.step = INF THEN x.value = p.value
  ELSE \E q \in 0..Len(x.members) :
         /\ q * p.step <= Len(x.members) /\ Len(x.members) < (q + 1) * p.step
         /\ x.value = q * p.value

\* Every group of the report costs what the last details that are loaded for
\* its code say, if the type of their value is one of types.
ChargesConfigured(types) ==
  pfaults = 0 =>
    \A g \in 1..Len(printed) :
      \E n \in DetailsOf(printed[g].type) :
        /\ \A m \in DetailsOf(printed[g].type) : m <= n
        /\ doc.nodes[n].detail.type \in types => Costs(printed[g], doc.nodes[n].detail)

(***************************************************************************)
(* The value printed for a group is the penalty the configuration gives    *)
(* its code, for penalties of type float or double: apply_penalty reads    *)
(* float_value whatever was stored, so the property says nothing of the    *)
(* value of an int, a short or a long penalty (see EveryTypeCharged).      *)
(***************************************************************************)
ChargeFollowsConfig == ChargesConfigured({"float", "double"})

(***************************************************************************)
(* The same of every type get_data_type knows, as the usage text of        *)
(* --add-error-details offers it.  The code does not: an int stored in the *)
(* union is read as a float, a short or a long is not stored at all.       *)
(***************************************************************************)
EveryTypeCharged == ChargesConfigured({"float", "double", "int", "short", "long"})

(***************************************************************************)
(* close_library_handlers closes every module handle load_module obtained, *)
(* those of modules without the symbol run_tool included, once each.       *)
(***************************************************************************)
HandlesReleased == pc = "done" => refs = 0

(***************************************************************************)
(* A run that ends without printing anything had no penalty library to     *)
(* apply, no tool to call, or an allocation failure.                       *)
(***************************************************************************)
SilenceExplained ==
  pc = "done" /\ json = "none" => ~apply \/ ran = <<>> \/ faults > 0

(***************************************************************************)
(* Everything that makes a run's behaviour undefined: an unreadable        *)
(* configuration, an error code beyond the table, a report of no errors at *)
(* all, a reported code without a usable penalty, ALLOC_INC - 1 collected  *)
(* errors, a failed allocation, a tool run without the inputs it reads, or *)
(* the message logged to a closed stream, which comes too late to cut a    *)
(* report short.                                                           *)
(***************************************************************************)
UndefinedExplained ==
  Undefined =>
    \/ config.file = "unreadable"
    \/ \E n \in 1..Len(doc.nodes) : doc.nodes[n].id \notin Code
    \/ json = "open" /\ out = <<>>
    \/ \E t \in Types : \/ DetailsOf(t) = {}
                        \/ \E n \in DetailsOf(t) : doc.nodes[n].detail.step = 0
    \/ Len(out) >= ALLOC_INC - 1
    \/ faults > 0 \/ pfaults > 0
    \/ ~config.inputs /\ ran # <<>>
    \/ stream = "closed" /\ json # "open"

(***************************************************************************)
(* "for each registered tool" (comment in run_robocheck): when the loop is *)
(* over, every registered tool that is installed has been run.             *)
(***************************************************************************)
EachRegisteredToolRuns ==
  pc \in {"sort", "report", "close", "log", "free", "done"} =>
    \A k \in 1..Len(config.tools) :
      config.tools[k] \in config.installed =>
        \E m \in 1..Len(ran) : ran[m] = config.tools[k]

(***************************************************************************)
(* Every run comes to an end, whatever the tools report and whichever      *)
(* library or allocation fails.                                            *)
(***************************************************************************)
RunEnds == <>(pc = "done" \/ Undefined)

-----------------------------------------------------------------------------

\* The bag of the elements of a sequence.
BagOf(s) == [e \in {s[k] : k \in 1..Len(s)} |->
               Cardinality({k \in 1..Len(s) : s[k] = e})]

\* The run is still collecting errors or preparing its report.
Checking == ~Undefined /\ json # "complete" /\ pc \notin {"close", "log", "free", "done"}

Promise == INSTANCE ErrorReport WITH
  found  <- IF Checking THEN BagOf(out) ELSE EmptyBag,
  report <- IF json = "complete"
              THEN {[type |-> printed[g].type, members |-> BagOf(printed[g].members)] :
                      g \in 1..Len(printed)}
              ELSE {},
  status <- IF Undefined THEN "aborted"
            ELSE IF json = "complete" THEN "reported"
            ELSE IF Checking THEN "checking"
            ELSE "silent"

(***************************************************************************)
(* A run without allocation failures that stays below the realloc limit    *)
(* implements the abstract ErrorReport: errors are collected one at a time *)
(* and never twice, and the report then holds each of them under its code, *)
(* whatever the sort, the grouping and the tools' order do in between.     *)
(***************************************************************************)
Implements == Promise!ReportSpec
=============================================================================
