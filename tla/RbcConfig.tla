------------------------------ MODULE RbcConfig ------------------------------
(***************************************************************************)
(* The configuration file rbc_config.xml as robo_config (config/) edits it *)
(* and robocheck reads it.                                                 *)
(*                                                                         *)
(* Each run of robo_config parses the file, applies one operation to the   *)
(* document in memory, saves it, and then has indent_xml_file parse what   *)
(* was saved and save it again with indentation.  A crash may come between *)
(* any two of these steps; a save truncates the file before it writes it.  *)
(*                                                                         *)
(* An element is [lead, kids, count]: lead says whether white space comes  *)
(* before its first child, and count is its count attribute (of no meaning *)
(* for <input> and the error nodes, which have none).  All lookups start   *)
(* with get_next_node(get_child(node)), which steps over the first child   *)
(* without looking at it, so that without white space the first child is   *)
(* never seen.  White space is added by the second save only.              *)
(***************************************************************************)
EXTENDS Integers, Sequences, FiniteSets

CONSTANTS Tool,       \* tool names
          ErrId,      \* ids of the <err_n> nodes gen_config.sh writes
          Source,     \* names of source files
          Argument,   \* parameters of the tested program and of tools
          Executable, \* names of the tested program
          Detail,     \* contents of an error's <add> node
          None,       \* no executable, no details
          Unset,      \* a structure from malloc whose fields nobody set
          Torn,       \* a file that does not parse
          MaxOps,     \* bound: runs of robo_config
          MaxCrashes  \* bound: runs that crash

\* An id that is not there reads as 0, which is no error's.
ASSUME CfgAssumption == /\ None \notin Executable \cup Detail \cup ErrId
                        /\ Tool # {} /\ ErrId # {}
                        /\ MaxOps \in Nat /\ MaxCrashes \in Nat

VARIABLES disk,    \* rbc_config.xml
          mem,     \* doc of the running robo_config
          step,    \* where it is
          asked,   \* history: what the completed runs accepted to configure
          job,     \* history: asked with the current run's operation
          ops,     \* runs started
          crashes  \* runs that crashed

cfgVars == <<disk, mem, step, asked, job, ops, crashes>>

-----------------------------------------------------------------------------
(* Elements *)

Empty(lead) == [lead |-> lead, kids |-> <<>>, count |-> 0]

\* The positions of the children that get_next_node reaches.
Seen(e) == (IF e.lead THEN 1 ELSE 2)..Len(e.kids)

\* The first of the children that pass the filter, 0 if none does.
lookup_node(hits) ==
  IF hits = {} THEN 0 ELSE CHOOSE k \in hits : \A j \in hits : k <= j

\* Mutant: the count attribute is not incremented.
AddChild_Uncounted(e, kid) == [e EXCEPT !.kids = Append(@, kid)]

\* xmlNewTextChild, and the increment of the count attribute.
AddChild(e, kid) == [e EXCEPT !.kids = Append(@, kid), !.count = @ + 1]

\* The loop of the extract_* functions: count values, None past the children.
ReadAll(e) ==
  LET first == IF e.lead THEN 1 ELSE 2
  IN  [k \in 1..e.count |->
         IF first + k - 1 <= Len(e.kids) THEN e.kids[first + k - 1] ELSE None]

\* What indent_xml_file does to one element: white space appears before the
\* children if there are any.
Indent(e) == [e EXCEPT !.lead = @ \/ e.kids # <<>>]

-----------------------------------------------------------------------------
(* Documents *)

\* The tool nodes hold <parameters>, <errors> and <input>, in this order;
\* lead is that of the tool node.
NewTool(t) == [name |-> t, lead |-> FALSE,
               params |-> Empty(FALSE), errs |-> Empty(FALSE)]

\* A child of <init><input>: value is the executable's name.
NewInput(tag, value) == [tag |-> tag, value |-> value, body |-> Empty(FALSE)]

\* The file gen_config.sh writes: <tools> and <installed_tools> have white
\* space inside, <input/> and the error nodes have nothing.
Fresh == [tools     |-> Empty(TRUE),
          installed |-> Empty(TRUE),
          input     |-> Empty(FALSE),
          errors    |-> [id \in ErrId |-> Empty(FALSE)],
          load      |-> FALSE]

\* The same for a tool node, which always has children, and for a child of
\* <init><input>.
IndentTool(n) == [n EXCEPT !.lead = TRUE, !.params = Indent(@), !.errs = Indent(@)]
IndentInput(n) == [n EXCEPT !.body = Indent(@)]

indent_xml_file(d) ==
  [d EXCEPT
     !.tools     = Indent(@),
     !.installed = [Indent(d.installed) EXCEPT !.kids =
                      [k \in 1..Len(d.installed.kids) |-> IndentTool(d.installed.kids[k])]],
     !.input     = [Indent(d.input) EXCEPT !.kids =
                      [k \in 1..Len(d.input.kids) |-> IndentInput(d.input.kids[k])]],
     !.errors    = [id \in ErrId |-> Indent(d.errors[id])]]

ToolAt(d, t) == lookup_node({k \in Seen(d.installed) : d.installed.kids[k].name = t})

ErrorAt(e, id) == lookup_node({k \in Seen(e) : e.kids[k] = id})

InputAt(d, tag) == lookup_node({k \in Seen(d.input) : d.input.kids[k].tag = tag})

\* What the completed runs of robo_config accepted.  A request that an
\* operation ignores (a parameter of the tested program before there is an
\* executable, an error of a tool that is not installed) is not recorded.
NothingAsked == [created |-> {}, tools |-> <<>>, files |-> <<>>, args |-> <<>>,
                 exec |-> None, load |-> FALSE,
                 errs    |-> [t \in Tool |-> {}],
                 params  |-> [t \in Tool |-> <<>>],
                 details |-> [id \in ErrId |-> None]]

CfgInit == /\ disk = Fresh /\ mem = Fresh
           /\ step = "idle"
           /\ asked = NothingAsked /\ job = NothingAsked
           /\ ops = 0 /\ crashes = 0

-----------------------------------------------------------------------------
(* The operations of rbc_config.c *)

\* main: the operation changes the parsed document in memory.
Run(doc, wish) ==
  /\ mem' = doc /\ job' = wish
  /\ step' = "raw"
  /\ ops' = ops + 1
  /\ UNCHANGED <<disk, asked, crashes>>

\* The --list options, --help, --create-error (deprecated), unknown options
\* and missing arguments: nothing changes, and yet the file is saved.
Query == Run(disk, asked)

create_tool(t) ==
  Run([disk EXCEPT !.installed = AddChild(@, NewTool(t))],
      [asked EXCEPT !.created = @ \cup {t}])

\* Mutant: the tool is registered whether or not it is installed.
register_tool_Unchecked(t) ==
  Run([disk EXCEPT !.tools = AddChild(@, t)],
      [asked EXCEPT !.tools = Append(@, t)])

register_tool(t) ==
  IF ToolAt(disk, t) = 0 THEN Query
  ELSE Run([disk EXCEPT !.tools = AddChild(@, t)],
           [asked EXCEPT !.tools = Append(@, t)])

\* An id that the tool's <errors> shows already is not added again; for a
\* tool that is not installed the new node goes nowhere.
register_error(id, t) ==
  LET k == ToolAt(disk, t)
  IN  IF k = 0 THEN Query
      ELSE IF ErrorAt(disk.installed.kids[k].errs, id) # 0 THEN Query
      ELSE Run([disk EXCEPT !.installed.kids[k].errs = AddChild(@, id)],
               [asked EXCEPT !.errs[t] = @ \cup {id}])

\* The filter looks for the tags "tool_name" and "paramteres", which no file
\* has: the new node goes nowhere.
register_parameter(a, t) ==
  Run(disk, IF ToolAt(disk, t) = 0 THEN asked
            ELSE [asked EXCEPT !.params[t] = Append(@, a)])

\* Mutant: the file replaces the one there is, as in set_exec.
add_static_parameter_Overwrites(f) ==
  LET k == InputAt(disk, "static")
      input == IF k # 0 THEN disk.input
               ELSE AddChild(disk.input, NewInput("static", None))
      at == IF k # 0 THEN k ELSE Len(input.kids)
  IN  Run([disk EXCEPT !.input =
             [input EXCEPT !.kids[at].body = AddChild(Empty(@.lead), f)]],
          [asked EXCEPT !.files = Append(@, f)])

add_static_parameter(f) ==
  LET k == InputAt(disk, "static")
      input == IF k # 0 THEN disk.input
               ELSE AddChild(disk.input, NewInput("static", None))
      at == IF k # 0 THEN k ELSE Len(input.kids)
  IN  Run([disk EXCEPT !.input = [input EXCEPT !.kids[at].body = AddChild(@, f)]],
          [asked EXCEPT !.files = Append(@, f)])

set_exec(x) ==
  LET k == InputAt(disk, "dynamic")
  IN  Run([disk EXCEPT !.input =
             IF k = 0 THEN AddChild(@, NewInput("dynamic", x))
             ELSE [disk.input EXCEPT !.kids[k].value = x]],
          [asked EXCEPT !.exec = x])

add_dynamic_parameter(a) ==
  LET k == InputAt(disk, "dynamic")
  IN  IF k = 0 THEN Query
      ELSE Run([disk EXCEPT !.input.kids[k].body = AddChild(@, a)],
               [asked EXCEPT !.args = Append(@, a)])

\* The first child that is seen is overwritten, or a child is added.
add_err_details(id, d) ==
  LET k == lookup_node(Seen(disk.errors[id]))
  IN  Run([disk EXCEPT !.errors[id] =
             IF k = 0 THEN AddChild(@, d) ELSE [disk.errors[id] EXCEPT !.kids[k] = d]],
          [asked EXCEPT !.details[id] = d])

set_libpenalty_info(load) ==
  Run([disk EXCEPT !.load = load], [asked EXCEPT !.load = load])

-----------------------------------------------------------------------------
(* main's two saves *)

\* xmlSaveFormatFile opens the file, which truncates it ...
BeginSave ==
  /\ step \in {"raw", "pretty"}
  /\ disk' = Torn
  /\ step' = IF step = "raw" THEN "writing raw" ELSE "writing pretty"
  /\ UNCHANGED <<mem, asked, job, ops, crashes>>

\* ... and writes the document.  The first save adds no white space, because
\* the document was parsed with the white space it had.
EndRawSave ==
  /\ step = "writing raw"
  /\ disk' = mem
  /\ step' = "indent"
  /\ UNCHANGED <<mem, asked, job, ops, crashes>>

\* Mutant: without xmlKeepBlanksDefault(0) the second save indents nothing.
Reparse_KeepsBlanks ==
  /\ step = "indent"
  /\ mem' = disk
  /\ step' = "pretty"
  /\ UNCHANGED <<disk, asked, job, ops, crashes>>

Reparse ==
  /\ step = "indent"
  /\ mem' = indent_xml_file(disk)
  /\ step' = "pretty"
  /\ UNCHANGED <<disk, asked, job, ops, crashes>>

EndPrettySave ==
  /\ step = "writing pretty"
  /\ disk' = mem
  /\ asked' = job
  /\ step' = "idle"
  /\ UNCHANGED <<mem, job, ops, crashes>>

\* robo_config is killed, or a save runs out of space (which leaves the same
\* file, because indent_xml_file then cannot parse it).
Crash ==
  /\ step # "idle" /\ crashes < MaxCrashes
  /\ crashes' = crashes + 1
  /\ step' = "idle"
  /\ UNCHANGED <<disk, mem, asked, job, ops>>

\* main does nothing if the file does not parse.
Ready == step = "idle" /\ disk # Torn /\ ops < MaxOps

Operation ==
  \/ Query
  \/ \E t \in Tool : create_tool(t) \/ register_tool(t)
  \/ \E t \in Tool, id \in ErrId : register_error(id, t)
  \/ \E t \in Tool, a \in Argument : register_parameter(a, t)
  \/ \E f \in Source : add_static_parameter(f)
  \/ \E x \in Executable : set_exec(x)
  \/ \E a \in Argument : add_dynamic_parameter(a)
  \/ \E id \in ErrId, d \in Detail : add_err_details(id, d)
  \/ \E load \in BOOLEAN : set_libpenalty_info(load)

CfgNext ==
  \/ Ready /\ Operation
  \/ BeginSave \/ EndRawSave \/ Reparse \/ EndPrettySave
  \/ Crash

CfgSpec == CfgInit /\ [][CfgNext]_cfgVars

-----------------------------------------------------------------------------
(* What robocheck finds in a file, librobocheck.c and penalty.c *)

\* Without the node the functions return a structure whose counts and whose
\* executable are whatever malloc left there.
extract_static_input(d) ==
  LET k == InputAt(d, "static")
  IN  IF k = 0 THEN Unset ELSE ReadAll(d.input.kids[k].body)

extract_dynamic_input(d) ==
  LET k == InputAt(d, "dynamic")
  IN  IF k = 0 THEN Unset
      ELSE [exec |-> d.input.kids[k].value, args |-> ReadAll(d.input.kids[k].body)]

\* <errors> is the second child of a tool node and always seen; ids read
\* past the children are 0 and skipped.
extract_tool_errset(d, t) ==
  LET e == d.installed.kids[ToolAt(d, t)].errs
  IN  {ReadAll(e)[k] : k \in 1..e.count} \ {None}

\* <parameters> is the first child of a tool node.
extract_tool_input(d, t) ==
  LET n == d.installed.kids[ToolAt(d, t)]
  IN  IF n.lead THEN ReadAll(n.params) ELSE Unset

\* run_robocheck: the tools to run.
startup_tools(d) == ReadAll(d.tools)

\* create_err_mapping: the first child that is seen.
error_details(d, id) ==
  LET k == lookup_node(Seen(d.errors[id]))
  IN  IF k = 0 THEN None ELSE d.errors[id].kids[k]

-----------------------------------------------------------------------------

\* robocheck's lookups and loops meet every child of d: none is stepped over,
\* and no count leads past the last one.
FullyRead(d) ==
  /\ ReadAll(d.tools) = d.tools.kids
  /\ Seen(d.installed) = 1..Len(d.installed.kids)
  /\ \A k \in 1..Len(d.installed.kids) :
       LET n == d.installed.kids[k]
       IN  n.lead /\ ReadAll(n.params) = n.params.kids /\ ReadAll(n.errs) = n.errs.kids
  /\ Seen(d.input) = 1..Len(d.input.kids)
  /\ \A k \in 1..Len(d.input.kids) :
       ReadAll(d.input.kids[k].body) = d.input.kids[k].body.kids
  /\ \A id \in ErrId : Seen(d.errors[id]) = 1..Len(d.errors[id].kids)

(***************************************************************************)
(* A run of robo_config that completes heals what a crash had hidden.  The *)
(* file of a run killed between its two saves may hide the first child of  *)
(* an element, and a reader's loop then yields a NULL for it; whatever     *)
(* such runs left behind, after the next complete run, of any operation,   *)
(* every reader meets all the children of its element and nothing else.    *)
(* (A second <static> node stays; robocheck looks at the first one.)       *)
(***************************************************************************)
CompletedRunHeals ==
  [][step = "writing pretty" /\ step' = "idle" /\ disk' # Torn => FullyRead(disk')]_cfgVars

(***************************************************************************)
(* Every tool that run_robocheck finds registered in a file that parses is *)
(* installed there, crashes included: no order of robo_config runs makes   *)
(* the start-up loop meet a name it has to skip.                           *)
(***************************************************************************)
StartupRunnable ==
  disk # Torn => \A k \in 1..Len(startup_tools(disk)) :
                   ToolAt(disk, startup_tools(disk)[k]) # 0

(***************************************************************************)
(* As long as no run has crashed, robocheck reads exactly what robo_config *)
(* accepted: every file, argument, tool and error in order, the last       *)
(* executable, penalty option and error details, although the element an   *)
(* operation creates is invisible until the second save.  The structures   *)
(* that extract_static_input and extract_dynamic_input return are unset    *)
(* exactly as long as no file, or no executable, has been configured.      *)
(* Requests that an operation ignores, and register_parameter's, are not   *)
(* among what was accepted; see RegisteredParametersPassed for the latter. *)
(***************************************************************************)
ConfiguredIsRead ==
  step = "idle" /\ crashes = 0 =>
    /\ startup_tools(disk) = asked.tools
    /\ extract_static_input(disk) = IF asked.files = <<>> THEN Unset ELSE asked.files
    /\ extract_dynamic_input(disk) = IF asked.exec = None THEN Unset
                                     ELSE [exec |-> asked.exec, args |-> asked.args]
    /\ \A t \in asked.created : extract_tool_errset(disk, t) = asked.errs[t]
    /\ \A id \in ErrId : error_details(disk, id) = asked.details[id]
    /\ disk.load = asked.load

\* Some node of <init><input> with this tag has the child v.
Stored(d, tag, v) ==
  \E k \in 1..Len(d.input.kids) : /\ d.input.kids[k].tag = tag
                                  /\ \E j \in 1..Len(d.input.kids[k].body.kids) :
                                       d.input.kids[k].body.kids[j] = v

(***************************************************************************)
(* A crash damages the file as a whole or not at all: while the file still *)
(* parses, nothing the completed runs added is missing from it (files,     *)
(* arguments, tools and their errors), even where a crash before the       *)
(* second save has made robo_config start a second <static> node beside a  *)
(* hidden one.  A setting that a later run replaces (the executable, the   *)
(* details of an error) is still set; its value may be a crashed run's,    *)
(* whose first save was complete.  The penalty option always has a value,  *)
(* which may be a crashed run's too: nothing is said about it.             *)
(***************************************************************************)
AcknowledgedStored ==
  step = "idle" /\ disk # Torn =>
    /\ \A k \in 1..Len(asked.files) : Stored(disk, "static", asked.files[k])
    /\ \A k \in 1..Len(asked.args) : Stored(disk, "dynamic", asked.args[k])
    /\ asked.exec # None =>
         \E k \in 1..Len(disk.input.kids) : disk.input.kids[k].tag = "dynamic"
    /\ \A k \in 1..Len(asked.tools) :
         \E j \in 1..Len(disk.tools.kids) : disk.tools.kids[j] = asked.tools[k]
    /\ \A t \in asked.created :
         \E k \in 1..Len(disk.installed.kids) : disk.installed.kids[k].name = t
    /\ \A t \in asked.created :
         \A id \in asked.errs[t] : \E k \in 1..Len(disk.installed.kids) :
            /\ disk.installed.kids[k].name = t
            /\ \E j \in 1..Len(disk.installed.kids[k].errs.kids) :
                 disk.installed.kids[k].errs.kids[j] = id
    /\ \A id \in ErrId : asked.details[id] # None => disk.errors[id].kids # <<>>

(***************************************************************************)
(* "Register parameters used when tool is running" (gen_config.sh): the    *)
(* parameters registered for a tool are the ones robocheck passes to it.   *)
(***************************************************************************)
RegisteredParametersPassed ==
  step = "idle" /\ crashes = 0 =>
    \A t \in asked.created : extract_tool_input(disk, t) = asked.params[t]
=============================================================================
