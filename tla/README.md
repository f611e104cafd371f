# Robocheck: a TLA+ model

Robocheck runs analysis tools (valgrind, helgrind, Dr. Memory, splint, simian,
sparse) on a program, collects the errors they report, drops those that several
tools report, and prints a JSON report in which each kind of error carries a
penalty. A second program, `robo_config`, edits the XML file that says which
tools, inputs and penalties to use. A third, `static_analyzer`, is built on the
sparse library and checks C sources for the sparse module.

Source paths below are relative to the repository; "vector" is the array
`__output` of `src/librobocheck.c`.

## 1. Inventory

| Component | State | Operations | Interacts through |
|---|---|---|---|
| Error records (`lib/tool.h`, `src/utils.c`) | `struct rbc_output`: code, message | `cmp_msg_file`: do two messages differ only in how they name the file? | used by `add` and `check_for_duplicates` |
| Tool module's list (`lib/tool.h`) | linked list, `size` in its head | `add` | returned by `run_tool` to the run |
| Collected errors (`src/librobocheck.c`) | `__output`, `__output_size`, `__output_inc_count` | `add_range`, `check_for_duplicates`, `dup_rbc_output`, `sort_output_vector`, `free_output_vector` | filled by the tool loop, read by `update_errors` |
| Penalty library (`src/penalty.c`, loaded with dlopen) | `__penalties`, `__doc` | `init_penalties`, `apply_penalty`, `free_penalties` | called through function pointers by the run |
| Run (`src/librobocheck.c`, `main.c`) | library handles, loop counters, the log stream, what has been printed | `init_robocheck`, `run_robocheck`, `load_module`, `update_errors`, `close_robocheck` | reads the file once, calls everything above |
| Configuration (`config/`, `gen_config.sh`) | `rbc_config.xml` | the options of `robo_config`; the `extract_*` readers | the file is shared by `robo_config` and robocheck |
| Dr. Memory module | a pipe, the results file of each process of the program | `run_tool`, `wait_end_of_writing`, `parse_output`, `get_info`, `remove_output_dir` | polls files that post-processors are still writing |
| Valgrind and Helgrind modules | one log `fil<pid>` per process | `run_tool`, `get_info`, `file_descriptors`, `data_race` | list, parse and remove every file that matches `fil*` |
| Splint and Simian modules | the file `output` | `run_tool`, `get_function`, `get_info` | both use the same file name |
| Sparse module | the file `__sparse_output` | `run_tool`, `parse_output_file` | reads two sections by the number of files it was given |
| Process API (`src/rbc_task.c`, `rbc_api.c`) | command string, task, stream | `open_process`, `wait_process`, `make_comm_string` | offered to modules |
| Logging API (`src/rbc_api.c`, `rbc_utils.c`) | `LoggerBuff`, `CurrentModule`, `FileLogger` | `log_message`, `create_log_message`, `set_running_module` | called everywhere |
| `static_analyzer` (`sparse-0.4.1/rbc_sparse_utils`) | black list; per function: nesting, last line; the mapped source and a position in it | `set_black_list`, the pass over calls, the pass over lines, `main` | prints the file the sparse module parses |
| Vendored: Dr. Memory with DynamoRIO, sparse, Windows libraries, dlfcn | | | not this program's code |

**What is hard.** robocheck itself has one thread, but it is not alone: Dr.
Memory's post-processors, the processes of the checked program and children that
outlive it write the files and the pipe it reads, and a run may be interrupted
and started again in the same directory. The other hazards are in what the
environment decides (which libraries and symbols load, what tools report and in
which order, which allocations fail, where a process or a file ends), in readers
that share one stream and stop a line late or early, and in data that two pieces
of code keep in step by hand: a list and its `size`, the vector and its block,
the count attributes and the XML children, the sort and the grouping, a position
in a mapped file and the statement being looked at. `PROJECT.json` lists each at
its line, with the properties that would catch it going wrong.

**What makes each component correct.**

* list: no duplicates; `size` never hides a list that holds errors;
* vector: no duplicates, nothing else dropped, accesses inside the block, sorted;
* penalty table: exactly what the file says, whatever its counts are;
* run: every collected error is printed once under its code at the right price,
  handles are released, every run ends;
* configuration: what was configured is what is read, and a crash never leaves
  a file that parses but has lost something;
* tool modules: they add the errors a reader of the complete output would find,
  each with its own place, and from their own run's output; `run_tool` returns;
* APIs: strings stay inside their buffers, every block and stream is released;
* analyzer: omissions are reported, complaints are justified and about the line
  and function they name, scans end inside the file.

## 2. Modules

| Module | Models | Abstracts |
|---|---|---|
| `Findings` | `rbc_output`, `cmp_msg_file`, the duplicate test | a message is its file name and the text around it; `strcasecmp`/`strstr` on names are the constants `Folded`, `Within` |
| `ToolList` | `add` | nothing: list, size, and a history of the calls |
| `OutputVector` | the vector's life | slot contents are an error, `NULL`, or `JUNK` (never written) |
| `Penalty` | `src/penalty.c` | the `<errors>` part of the file is a sequence of nodes and a count; values are hundredths of a point |
| `Robocheck` | one run, composed of the three above, with the log stream's end | the start-up part of the file is a record; a tool is any sequence of calls of `add`; printing appends a group to `printed` |
| `ErrorReport` | what a run promises: collect without duplicates, publish everything by code or nothing | the abstract specification `Robocheck` is checked to implement |
| `RbcConfig` | `robo_config`, its two saves, crashes, the readers | an element is its children, its count attribute, and whether white space precedes the first child |
| `DrMemoryModule` | `run_tool` beside the program's processes and their post-processors | a line is what the parser can tell apart; Dr. Memory, the program and `fuser` are external |
| `GrindLog` | the reader Valgrind and Helgrind share: the main loop and `get_info` | as above; `grind` says whose log is read |
| `ValgrindModule`, `HelgrindModule` | `file_descriptors`; `data_race` and held locks | what a log may look like is an assumption on the set of logs, not a grammar |
| `SplintModule`, `SimianModule` | the readers of `output` | the file is its report (complaints, blocks) and a position in it; `LineAfter` and `NextLine` say what is written on the next line |
| `SparseModule` | `main`, `parse_file_list` and `parse_function_list` of the analyzer, printing line by line, and `parse_output_file` | a function is the statements of the first pass and the complaints of the second; `getchar` is a step that need not come |
| `ScratchFiles` | the life of `fil*`, `output`, `__sparse_output` over several runs | a file is its origin: run, step and process |
| `ProcessApi`, `Logger` | `open_process` to `wait_process`; `log_message` | strings are their lengths |
| `BlackList` | `set_black_list`, `is_black_listed` | |
| `UncheckedCalls` | the pass over calls, `find_usages`, `get_next_statement` | a statement has one expression; the walks along `prt_stmt` are smallest closed sets (`Way`) |
| `LineChecks` | the pass over lines, `examine_stmt_indent`, the summaries | a line is whether its indentation is mixed and how many blanks end it |
| `*Proofs` | theorems and the invariants they need (section 4) | |
| `MC*` | the instances TLC checks | |

One action models one loop iteration or one call. Where C leaves the behaviour
undefined (a slot outside the block, a null pointer, a division by zero, an
unset count) the state becomes "undefined" and the model stops: nothing is
claimed of what follows. The exception is a place where the build may well
survive: reading the never-written `__output[0]` of an empty vector, which either
goes well (`PrintNothing`) or not (`ReportUndefined`).

Three MC modules instantiate several components, one of which is at work in each
behaviour while the others stand still: `MCLibrary`, `MCToolModules` and
`MCStaticAnalyzer`. This loses nothing. The modules of the library that do
interact are composed in `Robocheck`; tool modules run one after the other and
keep nothing but files, which `ScratchFiles` shares between them; the analyzer's
parts run one after the other, and what one hands to the next is any value there.

Correspondences worth knowing when reading:

* `add` links the new node behind `q`, the node before the duplicate, so it
  replaces the duplicate *and drops what followed it*; `add` in `ToolList` does.
* `realloc` in `add_range` asks for `__output_inc_count` slots. `SlotsNow` is
  that number, and `Kept` is what remains of the slots.
* `Robocheck` counts `i`, `start` and positions from 1. `ri = Len(out) + 1` is
  the iteration `i == __output_size` that closes the last group.
* `RbcConfig`: every lookup is `get_next_node(get_child(n))`, which skips the
  first child unread (normally white space). `lead = FALSE` means there is no
  white space there, so the first element is skipped (`Seen`). Only the second
  save, by `indent_xml_file`, adds it. `Unset` is a structure from malloc that a
  reader returns without setting its fields, when the node it looks for is not there.
* The parsers are line-driven: `mode` (Valgrind, Helgrind) or `err_type` (Dr.
  Memory) is the loop that reads the next line of the shared stream. The
  properties compare what they add with a reference that is stated on positions
  of the whole file (`Lists`, `ValgrindErrors`, `Expected` ...).
* `SparseModule`: `sym` and `instruction` are the loop variables of
  `parse_file_list` and `parse_function_list`; 0 is before the line that opens the
  file or the function. In the second pass `instruction` counts the kinds of
  complaints (`SummaryOrder`). A torn line is what stdio left of a line when the
  analyzer died.
* `DrMemoryModule`: the post-processor prints its Details line when its process
  has ended and flushes its file when it exits; `written` may lag behind until
  then. `PostKilled` ends it early. After `CloseStream` a writer gets SIGPIPE.
* `Logger.Room` is `max_length` at the point where the message is appended.
* `LineChecks.CurrentLine` is `MappingIndex` in lines; it never moves back. A
  statement whose `own` is FALSE comes from an included file; the analyzer moves its
  position in the mapped file by that statement's line all the same.
* `UncheckedCalls`: `handle_call_simple` gives up on a call that is assigned
  somewhere around it (`get_last_expression` is NULL), and `handle_assignment_expr`
  takes it up only if the right side is the call itself or a cast. Between them they
  leave out `x = f() < 0` (kind "derived").

Definitions named `X_Something` and marked "Mutant" are faulty variants of `X`:
plausible bugs, kept to show that each property notices one.

## 3. Runs

| Run | Instance | What it shows |
|---|---|---|
| `library` | list: 5 reports of 8 errors; vector: lists of up to 2 of 5 errors, 3 calls, `ALLOC_INC = 4`, 1 failed allocation; penalties: all files of up to 3 of 5 nodes, counts -1..4; process API: up to 4 arguments of length 0..4, `MAX_BUFF_SIZE = 4`, every call may fail; log: `Buff = 12`, `Stamp = 3`, messages of 0..20 characters | `ListKept`; `VectorUnique`, `NothingLost`, `UndefinedOnlyAtLimit`, `SortedWhenDone`; `TableFollowsConfig`; `ArgumentsFit`, `BlocksReleased`; `MessageFits` |
| `tool_list_unique` (violation) | same | "Only adds if unique." is not what `add` does: reports A, B, A leave only A |
| `run` | 2 tools with 2 reports each, nine start-up parts, 3 penalty files, `ALLOC_INC = 4`, a failed allocation on each side | the report is well formed and covers the errors, float and double penalties are charged as configured, handles, silence, undefined behaviour, and every run ends |
| `registered_tools` (violation) | same | "for each registered tool" fails behind a name that is not installed |
| `penalty_types` (violation) | same | `EveryTypeCharged`: an int penalty is not charged |
| `promise` | same with `ALLOC_INC = 8`, no failures | the run implements `ErrorReport` |
| `config` | 4 runs of `robo_config`, 1 crash, 2 tools, 2 errors, 2 files | registered tools are installed, what is configured is read, a crash loses the file or nothing that was added, and the next complete run makes every element readable again (`CompletedRunHeals`) |
| `tool_parameters` (violation) | 3 runs, no crash | `--register-parameter` stores nothing |
| `drmemory` | 2 processes, 2 output lines, a pipe of 1 line, either post-processor may be killed, with and without `fuser` | the announced file's errors are detected, never a mixture, files are removed only when complete, `run_tool` returns |
| `tool_modules` | logs of 3 records cut anywhere; splint outputs of up to 3 complaints, short and wrapped; simian outputs of up to 3 blocks with room for 3 places; 4 programs for sparse with every set of options, joined to their arguments or not, and 5 sets of flags; scratch files of 2 runs of splint, Valgrind and Simian, an interrupt anywhere and a child that outlives the program | each reader adds what a reader of the whole file would, with its own function and file, left-over files are explained, and the sparse module returns unless the analyzer waits at `getchar` |
| `tools_extract_all` (violation) | same | "all the errors reported by the tool" are not extracted: a complaint of splint is read as another's second line |
| `static_analyzer` | black lists of up to 6 lines, `BL_SIZE_INC = 5`, pointers of 2; 9 shapes of functions with a call, any other expression and a third one; files of 8 lines with two functions out of five bodies, or one of an included file, with and without a mapping, limits 3 and 2 | the list is exact and when it overruns; omissions are reported, complaints justified; line faults are found, real and attributed |

**Bounds.** `ALLOC_INC` is 128 in the code; 4 puts the reallocation limit within
reach of four errors, and the errors chosen include the non-transitive triple
`a.c`, `x/a.c`, `y/a.c`. Three calls of `add_range` reach a call after a failed
`realloc`. Two tools suffice for "the next tool": the loop keeps nothing else
from one iteration to the next. In `config` a crash damage needs one crashed run
and one or two later ones to show; four runs leave room for a tool to be created
and registered first. The readers keep at most one record's state, so three
records put every kind of record before and after every other; cutting the log at
every line covers every place where a tool can die. A pipe of one line makes a
writer wait as soon as the reader stops; two processes are needed to announce two
files. `MAX_BUFF_SIZE = 4` and arguments of 0 to 4 characters surround every
comparison of `make_comm_string`; messages of 0 to 20 characters surround those
of `create_log_message`. Two runs suffice for a file to survive into the next; they call
splint, Valgrind and Simian, two modules that share `output` and one whose logs
match `fil*` (Helgrind's module takes the same steps as Valgrind's). The flags of
the sparse module are none, the first pass, the second, both, and all
(`MCSparseFlags`); its options are every set.
Assumptions such as `ALLOC_INC > 3` only exclude sizes with which the first error
would already meet the limit.

**Deadlock** is checked in every run but `drmemory`, `config` and
`tool_parameters`: there the module has returned and the processes have ended, or
the user stops configuring. Elsewhere the end states have explicit stuttering
actions (`Stopped`, `Stops`).

**Fairness.** `Robocheck` assumes weak fairness of its whole next-state relation:
one thread that is always scheduled. That a tool's `run_tool` returns is part of
it (`MaxReports` bounds a module's reports). `DrMemoryModule` assumes weak fairness
of each process by itself (`run_tool`, every process of the program, every
post-processor): the operating system schedules them, and none is guaranteed to be
faster. The checked program is assumed to end; robocheck has no time limit, and
with a program that does not end its run does not end either. `SparseModule` assumes
weak fairness of everything but the step behind `getchar`: analyzer and module are
sequential programs, but nobody has to type a character.

**Guards of properties.** `ReportWellFormed` and `ReportCoversErrors` assume no
allocation failed: after a failure a group may be missing. `NothingLost` assumes
the first block for the reason in section 5. `ChargeFollowsConfig` is about float
and double penalties. `ConfiguredIsRead` and `AcknowledgedStored` are about the
requests `robo_config` acts on: an argument before there is an executable, or an
error of a tool that is not installed, is ignored, and reported as a success.
`AcknowledgedStored` promises the value of what is added, and of what is replaced (the
executable, the details of an error) only that it is set. The guards of the
readers' and the analyzer's properties name the inputs with which the code does
something else: section 5 lists them.

## 4. Proofs

`tlapm` proves 37 of the 40 properties the passing runs check, for every value of the
constants that satisfies the named assumptions: any number of tools, errors,
files, calls, failed allocations, crashes and processes, and outputs of the tools
of any length.

| Module | Theorems |
|---|---|
| `LibraryProofs` | list: `ListAlwaysKept`; vector: `VectorTyping`, `VectorKeepsUnique`, `VectorLosesNothing`, `VectorStaysInBlock`, `VectorGetsSorted`; penalty table: `TableAlwaysFollows` |
| `RobocheckProofs` | `RunTyping`, `ReportAlwaysWellFormed`, `ReportAlwaysCovers`, `ChargeAlwaysFollows`, `HandlesAlwaysReleased`, `SilenceAlwaysExplained`, `UndefinedAlwaysExplained` |
| `ErrorReportProofs` | `RunImplements`: the refinement of `ErrorReport` |
| `RbcConfigProofs` | `StartupAlwaysRunnable`, `AcknowledgedAlwaysStored`, `ConfiguredAlwaysRead`, and the action property `CompletedRunsHeal` |
| `ApiProofs` | process API: `ArgumentsAlwaysFit`, `BlocksAlwaysReleased`; log: `MessageAlwaysFits` and its three parts |
| `ToolModuleProofs` | scratch files: `ScratchFilesExplained`; Dr. Memory: `AnnouncedAlwaysDetected`, `DetectedAlwaysPrefix`, and the action property `AlwaysRemovedAfterWriting` |
| `AnalyzerProofs` | black list: `BlackListAlwaysExact`; lines: `LineScanAlwaysSound`, `SummaryAlwaysOwn`; calls: `OmissionsAreReported`, `ComplaintsAreJustified` |
| `ReaderProofs` | splint: `SplintAllRead`, `SplintAttributed`; Simian: `SimianAlwaysFaithful`; Valgrind: `ValgrindAllRead`; Helgrind: `HelgrindAllRead`; sparse: `SparseAttributed`, `SparseAllRead` |

Each rests on an inductive invariant of its specification, one lemma per action or
group of similar actions, and a lemma that combines them.

**Assumptions.** They are named beside the constants and evaluated by TLC in the
runs. Most give constants their types. Those that say more: `AllocAssumption`
(`ALLOC_INC > 3`; 128 in the code) and `BuffAssumption` (`MAX_BUFF_SIZE >= 2`);
`CodesAssumption` (`ErrType \subseteq Code`: `PENALTY_COUNT` is the last member of
the enumeration); `CfgAssumption` (`None` is no name); `ToolsAssumption` (a run
has a tool: otherwise no scratch file is written); `DrMemoryAssumption` (a record
of Dr. Memory's results ends in a line that is no header and no frame of its
trace, as a comment of `get_info` says); `SourcesAssumption` (a statement of the file
itself begins on one of its lines, and any is visited after the statement that holds
it, as `examine_statement` recurses); `FunctionsAssumption` (the same of the
statements of the first pass; blocks and labels compute nothing; the initializer of a
declaration assigns no other variable);
`ValgrindLogAssumption` and `HelgrindLogAssumption` (a record begins behind a
break line; the heading of the open descriptors comes once, announces at least the
descriptors below it, and a named one has a line more). `ReportsAssumption`,
`SimianAssumption` and `ProgramsAssumption` are types only: splint, Simian and the
analyzer may report anything.

**Vector** (`VecInv`). `BlockInv`: in the first block every slot below
`__output_size` holds an error and there is room for one more. `LimitInv`: if
realloc has been called without a failure, at least `ALLOC_INC - 1` errors are
there. `SortInv`: rows before `i` are final and slot `i` is a minimum of what it
was compared with. With `BlockInv`, `check_for_duplicates` reads every slot, so
`AddOverrun` is impossible below the limit, a skipped node duplicates a readable
slot, and a stored one duplicates none. Uniqueness needs the duplicate relation
to be symmetric (`DuplicateSymmetric`) and not to be transitive.

**List.** `StopsAt` says that no node before the stop duplicates the new one;
exactly those nodes are kept.

**Penalty table** (`PenInv`). `FillInv`: the table follows the nodes that have been
visited, the last one with details winning; when the library is ready all of them
have been. A node that takes the library out of its table has an id beyond it.

**Run** (`RunInv`). The components' invariants are imported, not proved again:
`ComponentsInv` is their conjunction, and every step of the run is a step of a
component or leaves it alone. `ShrunkInv` is added to the vector's: where no allocation
failed, a vector that was reallocated has a slot that was never written, which
explains the undefined behaviour of the sort. On top: `ControlInv` (which phase
each component is in at each `pc`), `OutputInv` (how much of the JSON is out), `HandlesInv`
(references equal handles), `SilenceInv` (a tool that ran has left a block),
`ScanInv` (`update_errors` at `ri`: the slots from `start` on have one code, which
is above all codes before) and `GroupsInv` (the groups printed are exactly the
slots before `start`, in order of code, with commas between them). The scan's part
is what makes "every error once, under its code" inductive: it needs the vector
sorted, which `VecInv` gives when the phase is "sorted".

**Refinement.** `RunImplements == Spec /\ []InFirstBlock => Implements`. The abstract
state is a function of the run's: the bag of the collected errors, the set of
groups once the JSON is complete, and a status. Steps of `add_range` that store are
`Collected`, those that skip, the sort's exchanges and the printing of single groups
are stutters (`BagOf` is unchanged by an exchange), the end of `update_errors` is
`Publish`; `GroupsInv` shows that a printed group is the part of the bag with
its code. The hypothesis `InFirstBlock`, no failed allocation and fewer than
`ALLOC_INC - 1` errors, is where the code keeps the promise (section 5); it is
satisfied by every behaviour of the run `promise`.

**Configuration** (`CfgInv`). A document in memory is `Sound` (counts match, tools to
run are installed, white space where lookups skip it), and so is the file unless it
is torn. It `Keeps` what completed runs asked for; from the operation on it also
keeps the current request. Before the first crash it moreover `Means` the request,
that is, holds nothing else and each thing where the readers look; between runs it is
`Pretty`, so that `Seen` skips nothing. `ConfiguredAlwaysRead` follows because a
counted element that shows its children is read completely. While robo_config writes,
the file is `Torn`, so a run that ends with a file that parses has ended its second
save; what that save writes went through `indent_xml_file` and is `Pretty` whatever
earlier crashes left, which is `CompletedRunsHeal`.

**Process API, log.** One enlargement by `MAX_BUFF_SIZE` is enough because an argument
shorter than that needs at most `MAX_BUFF_SIZE` more bytes with its space. Which
blocks are allocated is a function of where `open_process` is. `TagInv`: if tags
leave room for the time, so does the current one; a message's length is then bounded
in the three cases of `create_log_message`.

**Scratch files** (`ScratchInv`). Every file is the current step's own, or is the
user's, or was excused by an interrupt, a failed `fopen` or a late child. What is
listed and parsed inherits this.

**Dr. Memory** (`DrInv`). `SaidInv`: a name in the pipe, and the one `run_tool` took from
it, belongs to a post-processor that has opened its file. `ClosedInv`: behind
`wait_end_of_writing`, with `fuser`, that file's writer has ended or died; if it has
ended the file is complete. `ParseInv`: what was detected is what the lines read so
far announce, in order (`Lists`), with one error pending while `get_info` is in a
trace. `Lists` relates a file to a list of errors by an order-preserving
numbering of its headers, so that one line more is a small change of it.

**Black list** (`BlInv`). The stored names are the lines read, and the block has its
first size until `BL_SIZE_INC` names are there.

**Lines** (`LineInv`, `SummaryInv`). `PositionInv`: the position stands on the line
of some visited statement, and none visited lies behind it. So a statement that
ascends moves it, and one that does not is stray, which is exactly the exception
`LineFaultsReal` makes. For the summaries, `LevelInv`: the levels measured so far are
depths in the tree of statements, `CurrentIndentLevel` and `LastInstructionLine` are
their maxima. `DepthStep` shows that a depth is the parent's, or one more: `Path` is
the smallest set closed under parents, which avoids a recursive definition.
`OwnerInv`: no summary of the current function is out yet.

**Calls** (`CallInv`). Of the statements examined so far, one that calls a
black-listed function is complained of exactly when it is `Unverified`, and any
other complaint is about a cast while the last call was a black-listed one
(`Explained`), which is what `AnalyzedFunction` remembers. `Way`, the smallest set
closed under one step of a walk, gives what `get_next_statement` returns: the walk
outward never leaves the compounds around a statement, because parents have smaller
numbers.

**Splint** (`SplintInv`). Stated at the line read next: the errors are those `Due`
among the complaints before it, in order (`ErrsBefore`), the line is not a complaint
that is already swallowed, and `function` is right for it or its name was lost.
`SwallowedComplaint(n)` counts how far back the chain of exposed complaints goes;
parity changes from one complaint to the next, which is what one step needs.

**Simian** (`SimianInv`). `Gathered`: the messages added are starts of the blocks
before the current one, and `message` is the start of the current one as far as it
was read. With no "Found" in a name each of these starts is the whole block.

**Valgrind** (`ValInv`), **Helgrind** (`HelInv`). For each `mode`, where the loop is
in the log and what has been detected: in `scan`, exactly the errors that the lines so
far announce (`Lists`, as for Dr. Memory); inside `get_info`, one error more is
pending and no frame of the program came yet. `file_descriptors` counts: `FdLeft` says
that `nr_fds` is the number of descriptors still to come, so the loop does not run
into the next record. For `data_race`, whether a record is swallowed depends on
whether the race before it was itself swallowed. `Swallowed` is a set that
answers this for all lines. That there is one is proved by extending the answer for
the first lines by one line (`Settles`, `SettleOne`), since a race hands over only
later lines; there is no least line up to which there is none.

**Sparse** (`SparseAt`, then `SparseWhole`). The analyzer's half: `Printed` says which
line may follow which (`Follow`) and that the two sections come in order
(`Sectioned`), and `CursorAt` ties the last line to `k`, `sym` and `instruction`.
When the analyzer dies, any prefix is still `Printed`, with at most a torn last line.
The reader's half: `Position` says that each loop of `parse_output_file` is at the
end of the output or behind a line of a known kind whose file and function it has
stored. `SparseAttributed` follows, for torn outputs too. For `SparseAllRead`,
`Whole`: all that the cursor has passed and that was asked for is printed, nothing
else is, and it is in order; and `ErrorsTo`: the errors are the tracked lines among those
read, none missing. A section is left only at its end: in the file loop `k` is one
more than the file that the last "end file" line read ended (`AtFile`).

**Only model-checked:** `RunEnds`, `RunReturns` and `SparseReturns`, liveness under
fairness.

## 5. What the checks found

With a run that shows it:

* `add` (`lib/tool.h:90`) drops everything behind a repeated error.
* `run_robocheck` (`librobocheck.c:461`) does not advance past a name that is not
  installed. `StartupRunnable` shows that files made by `robo_config` alone never
  contain such a name; it takes an edited file.
* `register_parameter` (`rbc_config.c:215`) has two wrong tags and does nothing.
* `run_tool` of splint (`rbc_splint.c:297`): a short complaint about an initializer
  consumes the line behind it, the next complaint included, and a wrapped
  "Assignment of" complaint is judged without its second line, where the types are.
* `apply_penalty` (`penalty.c:112`) reads every penalty as a float: an int penalty
  costs 0.00, a short or long one whatever malloc left there.

The comment above every `run_tool`, "parses its output in order to extract all the
errors reported by the tool", promises more than four readers do. `tools_extract_all`
checks it of three, and stops at its first counterexample, splint's. What each reader
loses follows from the properties of the passing runs, which say exactly what is
detected on the inputs they name:

* splint, as above (`SplintReadsAll`);
* Helgrind: `data_race` (`rbc_helgrind.c:240`) takes the next record for the second
  access when a race shows only one (`HelgrindReadsAll`);
* Simian: a file with "Found" in its name ends its own block (`rbc_simian.c:104`;
  `SimianFaithful`);
* Dr. Memory: only the first results file that is announced is parsed
  (`rbc_drmemory.c:383`), and the others' writers get SIGPIPE: what is detected are the
  errors of that file and no others (`AnnouncedErrorsDetected`).

For Valgrind nothing had to be excluded.

As guards and causes in properties (no text of the repository promises
otherwise, so no run expects a violation):

* With `ALLOC_INC - 1` errors the vector's block shrinks (`librobocheck.c:726`).
* Dr. Memory: without `fuser`, or when the post-processor dies, the file is parsed as
  far as it goes, and a cut last line is added or dereferences null.
* Configuration: without a `<static>` or a `<dynamic>` node, robocheck is given a
  structure with unset counts (`Unset`), which the modules loop by.
* Valgrind, Helgrind: `ls fil*` also finds the user's `file.c`, and `rm` removes it;
  a log of an interrupted run or of a late child is parsed as this run's.
* Splint: `function` keeps its value at file scope.
* Sparse: tracking unverified calls without `-c` loses everything, as the reader
  searches for a section that is not there; every option like `-l150`, written
  as one word, costs a file; debug lines about initializer lists are added as
  unverified calls, and the analyzer waits at them for a character (`getchar`);
  `return;` makes the analyzer dereference null.
* Unverified calls: a call behind a case label is judged by what follows its
  switch; loop conditions and declarations are no uses, overwriting is one;
  a cast assignment is complained of when the last call was black-listed. A value
  computed from a call's (`x = f() < 0`) is never complained of. A use under a postfix
  operator or in a statement expression (`if (x-- > 0)`) is not seen, so that a
  verified value is complained of.
* Lines: limits are compared with `>=`; one trailing blank is not reported; the last
  part of a `for` is judged by a later line's text. Functions of included files are
  looked up in the text of the including one, and may lead the scan out of it. A failed
  `mmap` is not noticed, and MAP_FAILED is read.
* Black list: the block holds `BL_SIZE_INC` characters, not pointers. The shipped
  list of 13 names needs 104 of 100 bytes.
* Process API: if the task cannot be allocated the stream stays open. (Terminating the
  command string is not modelled, being a matter of two statements: `make_comm_string`
  swaps memset's arguments, `rbc_api.c:52`, and copies no terminator.)

`UndefinedExplained` lists all causes of undefined behaviour the model of a run
knows.

## 6. Not modelled

* Vendored code. Dr. Memory with DynamoRIO, the sparse library and the Windows
  libraries are nearly all lines under `src/`: third-party programs that robocheck
  starts or links. What robocheck relies on is modelled as external steps
  (`DrMemoryModule`, `ScratchFiles`) or as sets of outputs. `wrapper/dlfcn.c` is
  third-party too; its promise is a choice in `OpenPenalty`, `OpenFails` and
  `LoadModule`.
* Wording and layout, rewriting of file names in messages (`transform_file_name`),
  quoting inside JSON strings, the report reader `parser.py`.
* Fixed-size command buffers that the modules fill with `strcat`, and the missing
  null pointer at the end of the analyzer's `new_argv`: properties of single
  statements that no sequence of steps changes.
* `extract_tool_input`'s failing allocations.
* `create_error`: unreachable, the command line calls it deprecated.
* Two runs of `robo_config` at once: the scripts run it one after the other.
* The `getchar` of `lookup_expression`, at a conditional that mentions the variable
  looked for: it prints no line of its own (a word in front of the next one, which
  `parse_output_file` skips by `strstr`), and as a place to wait it is like the one at an
  initializer list, which `SparseModule` has.
* In `UncheckedCalls`, expressions with several calls, calls where
  `examine_expression` does not look (arguments of calls, postfix operators,
  initializers in braces), and
  the code for `VEC_ACCESS`, which is not compiled. `Init` is the analyzer's first
  function, so `AnalyzedFunction` is not left over from an earlier one.

## 7. Plan

1. *(done)* list, vector, penalty table, run, abstract report, configuration;
   theorems about the list and the vector.
2. *(done)* tool modules, scratch files, process and logging API, the analyzer's
   black list and passes; theorems about both APIs.
3. *(done)* theorems about the penalty table, the run and its refinement of
   `ErrorReport`, the configuration, the scratch files, the Dr. Memory module, the
   black list and the pass over lines.
4. *(done)* theorems about the pass over calls and about the readers of splint,
   Simian, Valgrind, Helgrind and sparse.
5. Compose `RbcConfig` with `Robocheck`: the start-up record as what the readers
   extract from the file.
