---------------------------- MODULE ScratchFiles ----------------------------
(***************************************************************************)
(* The scratch files the tool modules leave in the working directory, over *)
(* several runs of robocheck that may be interrupted.                      *)
(*                                                                         *)
(* The Valgrind and Helgrind modules let the tool write one log per        *)
(* process of the program (fil<pid>), list the files that match fil*,      *)
(* parse each one and remove all that match.  Splint and Simian let the    *)
(* shell send the output to the file "output", Sparse to                   *)
(* "__sparse_output"; they parse that file and remove it.                  *)
(*                                                                         *)
(* A file is known by its origin: the run and the step of the run that     *)
(* wrote it and the process that was checked, or run 0 for a file that     *)
(* was there before (User), such as the program's own file.c.              *)
(***************************************************************************)
EXTENDS Naturals, Sequences, FiniteSets

CONSTANTS Tools,    \* the order in which a run calls the tools
          Child,    \* processes of the program that may outlive the main one
          MaxRuns,  \* bound: runs of robocheck
          Absent

Grind == {"valgrind", "helgrind"}
OUTPUT_FILE == [t \in {"splint", "simian", "sparse"} |->
                  IF t = "sparse" THEN "__sparse_output" ELSE "output"]

ScratchName == {"output", "__sparse_output"}

\* A run that calls no tool touches no file.
ASSUME ToolsAssumption == /\ Tools \in Seq(Grind \cup DOMAIN OUTPUT_FILE)
                          /\ Tools # <<>>

User == [run |-> 0, step |-> 0, proc |-> "main"]

VARIABLES run,         \* which run of robocheck this is
          step,        \* which of its tools
          scratch_pc,  \* where the module's run_tool is; "off" between runs
          fil,         \* origins of the files that match fil*
          scratch,     \* origin of the file of each name, or Absent
          readonly,    \* the names whose file the shell cannot overwrite
          todo,        \* listed logs the module has still to parse
          slow,        \* children of the program that have not opened their log
          parsed,      \* origins of the files this step has parsed
          abandoned    \* history: origins whose step did not reach its rm, or
                      \* that were written after it

scratchVars == <<run, step, scratch_pc, fil, scratch, readonly, todo, slow, parsed, abandoned>>

\* The files the user may already have: file.c matches fil*.
ScratchInit ==
  /\ run = 1 /\ step = 1 /\ scratch_pc = "system"
  /\ fil \in SUBSET {User}
  /\ scratch \in [ScratchName -> {User, Absent}]
  /\ readonly \in SUBSET {n \in ScratchName : scratch[n] = User}
  /\ todo = {} /\ slow = {} /\ parsed = {} /\ abandoned = {}

tool == Tools[step]
At(p) == [run |-> run, step |-> step, proc |-> p]

\* The step ends: the next tool, or the end of the run.
NextTool ==
  /\ parsed' = {} /\ UNCHANGED run
  /\ IF step < Len(Tools) THEN step' = step + 1 /\ scratch_pc' = "system"
                          ELSE scratch_pc' = "off" /\ UNCHANGED step

Parse(o) == parsed' = parsed \cup {o}

-----------------------------------------------------------------------------
(* The Valgrind and Helgrind modules.                                      *)

\* system(valgrind --log-file=fil%p ...) returns when the main process ends.
RunValgrind ==
  /\ scratch_pc = "system" /\ tool \in Grind
  /\ \E c \in SUBSET Child : slow' = slow \cup {At(p) : p \in c}
  /\ fil' = fil \cup {At("main")}
  /\ scratch_pc' = "list"
  /\ UNCHANGED <<run, step, scratch, readonly, todo, parsed, abandoned>>

ListOutput ==
  /\ scratch_pc = "list"
  /\ todo' = fil /\ scratch_pc' = "open"
  /\ UNCHANGED <<run, step, fil, scratch, readonly, slow, parsed, abandoned>>

ParseLog ==
  /\ scratch_pc = "open"
  /\ \E o \in todo : todo' = todo \ {o} /\ Parse(o)
  /\ UNCHANGED <<run, step, scratch_pc, fil, scratch, readonly, slow, abandoned>>

\* A listed name that fopen refuses (a directory's line of ls): return NULL.
OpenFails ==
  /\ scratch_pc = "open" /\ todo # {}
  /\ todo' = {} /\ abandoned' = abandoned \cup fil
  /\ NextTool
  /\ UNCHANGED <<fil, scratch, readonly, slow>>

\* Mutant: the logs are not removed.
RemoveLogs_Missing ==
  /\ scratch_pc = "open" /\ todo = {}
  /\ NextTool
  /\ UNCHANGED <<fil, scratch, readonly, todo, slow, abandoned>>

RemoveLogs ==
  /\ scratch_pc = "open" /\ todo = {}
  /\ fil' = {}
  /\ NextTool
  /\ UNCHANGED <<scratch, readonly, todo, slow, abandoned>>

\* A child of the program opens its log, which may be after the module's ls.
ChildLogs ==
  /\ \E o \in slow :
       /\ slow' = slow \ {o} /\ fil' = fil \cup {o}
       /\ abandoned' = IF o.run = run /\ o.step = step /\ scratch_pc = "list"
                       THEN abandoned ELSE abandoned \cup {o}
  /\ UNCHANGED <<run, step, scratch_pc, scratch, readonly, todo, parsed>>

-----------------------------------------------------------------------------
(* The Splint, Simian and Sparse modules.                                  *)

\* system(tool ... > output): the shell creates or truncates the file first.
RunStatic ==
  /\ scratch_pc = "system" /\ tool \notin Grind
  /\ LET n == OUTPUT_FILE[tool]
     IN  scratch' = [scratch EXCEPT ![n] = IF n \in readonly THEN @ ELSE At("main")]
  /\ scratch_pc' = "fopen"
  /\ UNCHANGED <<run, step, fil, readonly, todo, slow, parsed, abandoned>>

ParseOutput ==
  /\ scratch_pc = "fopen" /\ Parse(scratch[OUTPUT_FILE[tool]])
  /\ scratch_pc' = "rm"
  /\ UNCHANGED <<run, step, fil, scratch, readonly, todo, slow, abandoned>>

\* fopen fails: the module returns without its rm.
NoOutput ==
  /\ scratch_pc = "fopen"
  /\ abandoned' = abandoned \cup {scratch[OUTPUT_FILE[tool]]}
  /\ NextTool
  /\ UNCHANGED <<fil, scratch, readonly, todo, slow>>

RemoveOutput ==
  /\ scratch_pc = "rm"
  /\ scratch' = [scratch EXCEPT ![OUTPUT_FILE[tool]] = Absent]
  /\ readonly' = readonly \ {OUTPUT_FILE[tool]}
  /\ NextTool
  /\ UNCHANGED <<fil, todo, slow, abandoned>>

-----------------------------------------------------------------------------

\* The user interrupts robocheck: nothing is cleaned up.
Interrupt ==
  /\ scratch_pc # "off"
  /\ scratch_pc' = "off" /\ todo' = {} /\ parsed' = {}
  /\ abandoned' = abandoned \cup fil \cup ({scratch[n] : n \in ScratchName} \ {Absent})
  /\ UNCHANGED <<run, step, fil, scratch, readonly, slow>>

NewRun ==
  /\ scratch_pc = "off" /\ run < MaxRuns
  /\ run' = run + 1 /\ step' = 1 /\ scratch_pc' = "system"
  /\ UNCHANGED <<fil, scratch, readonly, todo, slow, parsed, abandoned>>

ScratchNext == \/ RunValgrind \/ ListOutput \/ ParseLog \/ OpenFails \/ RemoveLogs \/ ChildLogs
               \/ RunStatic \/ ParseOutput \/ NoOutput \/ RemoveOutput
               \/ Interrupt \/ NewRun

ScratchSpec == ScratchInit /\ [][ScratchNext]_scratchVars

-----------------------------------------------------------------------------

\* A file that another step, another run or the user wrote.
Stale(o) == o.run # run \/ o.step # step

(***************************************************************************)
(* A Splint, Simian or Sparse step parses its own tool's output whatever   *)
(* earlier steps and runs left behind, because the shell truncates the     *)
(* file; the one exception is a file of the user that cannot be written.   *)
(***************************************************************************)
StaticOutputFresh ==
  tool \notin Grind => \A o \in parsed : Stale(o) => o = User

(***************************************************************************)
(* A Valgrind or Helgrind step takes errors from a log that is not its own *)
(* only when the step that wrote it was interrupted or gave up before its  *)
(* rm, when a child of the program opened it too late, or when the user's  *)
(* own file matches fil*.                                                  *)
(***************************************************************************)
StaleLogExplained ==
  \A o \in parsed : Stale(o) => o \in abandoned \cup {User}

(***************************************************************************)
(* A file that is still there when a run has ended comes from a step that  *)
(* never reached its rm, from a child that outlived it, or from the user.  *)
(***************************************************************************)
LeftoversExplained ==
  scratch_pc = "off" =>
    \A o \in fil \cup {scratch[n] : n \in ScratchName} : o \in abandoned \cup {User, Absent}

(***************************************************************************)
(* No module takes a file that another step or run left in the working     *)
(* directory for its own, and none leaves one behind, but for the causes   *)
(* named above, however runs, interrupts and children follow each other.   *)
(***************************************************************************)
StaleFilesExplained == StaticOutputFresh /\ StaleLogExplained /\ LeftoversExplained
=============================================================================
