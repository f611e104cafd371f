--------------------------- MODULE DrMemoryModule ---------------------------
(***************************************************************************)
(* The Dr. Memory module (modules/drmemory/rbc_drmemory.c): run_tool and   *)
(* the processes it runs beside.                                           *)
(*                                                                         *)
(* run_tool reads Dr. Memory's output through a pipe until a line names    *)
(* the results file ("~~Dr.M~~ Details: "), polls fuser until no process   *)
(* has that file open, closes the pipe, parses the file and removes its    *)
(* directory.  Dr. Memory itself is external: every process of the checked *)
(* program is served by a post-processor of its own, which opens a results *)
(* file, fills it through a buffer, prints the Details line when that      *)
(* process has ended and flushes the rest of the buffer when it exits.     *)
(* All of them write to the one pipe run_tool reads.                       *)
(*                                                                         *)
(* A results file is a sequence of lines; a line is one of                 *)
(*   [k |-> "error", t |-> err_type]   "Error #1: LEAK ...", one kind a    *)
(*                                     type of Findings                    *)
(*   [k |-> "own", m |-> message]      "# 0 f  [a.c:3]", a source of the   *)
(*                                     program (is_source)                 *)
(*   [k |-> "foreign"]                 any other line that starts with '#' *)
(*   [k |-> "text"], [k |-> "blank"]   everything else                     *)
(***************************************************************************)
EXTENDS ToolList, FiniteSets

CONSTANTS Proc,        \* processes of the checked program
          Root,        \* the one popen's shell turns into
          Results,     \* the possible contents of a results file
          Tracked,     \* the error types whose bit is set in flags
          PipeCap,     \* lines the pipe holds
          MaxOutput,   \* bound: lines the program prints
          MaxKills,    \* bound: post-processors that die early
          CutText,     \* the text of a message whose line number was cut short
          NULL

Line == [k : {"error"}, t : ErrType] \cup [k : {"own"}, m : Message]
          \cup [k : {"foreign", "text", "blank"}]

\* "Output finishes with an empty line" (get_info): no record's header follows
\* directly on another one's header or on its trace.
ASSUME DrMemoryAssumption ==
  /\ Root \in Proc /\ NULL \notin Proc
  /\ Tracked \subseteq ErrType /\ NULL \notin ErrType /\ CutText \in Text
  /\ Results \subseteq Seq(Line)
  /\ \A f \in Results : \A i \in 2..Len(f) :
       f[i].k = "error" => f[i - 1].k \notin {"error", "foreign"}

VARIABLES pc,        \* where run_tool is
          name,      \* the process whose results file was announced, or NULL
          at,        \* lines of the results file read so far
          err_type,  \* get_info's error type while it reads a call trace, or NULL
          fuser,     \* does the fuser command exist here
          pipe,      \* lines in the pipe
          app,       \* process of the program -> "run", "end" or "sigpipe"
          post,      \* its post-processor -> "new", "open", "said", "end" or "dead"
          results,   \* what that post-processor prints to its results file
          written,   \* how many of those lines are in the file
          dirs,      \* the log directories on disk
          printed    \* lines the program has printed

runVars  == <<pc, name, at, err_type>>
toolVars == <<pipe, app, post, written, dirs, printed>>
vars     == <<runVars, fuser, toolVars, results, listVars>>

Init ==
  /\ ListInit
  /\ pc = "read" /\ name = NULL /\ at = 0 /\ err_type = NULL
  /\ fuser \in BOOLEAN
  /\ pipe = <<>> /\ printed = 0
  /\ app = [p \in Proc |-> "run"] /\ post = [p \in Proc |-> "new"]
  /\ results \in [Proc -> Results] /\ written = [p \in Proc |-> 0]
  /\ dirs = {}

-----------------------------------------------------------------------------
(* Dr. Memory and the program under it.                                    *)

reading == pc = "read" \/ pc = "wait"   \* run_tool's end of the pipe is open

PrintOutput(p) ==
  /\ app[p] = "run" /\ reading /\ Len(pipe) < PipeCap /\ printed < MaxOutput
  /\ pipe' = Append(pipe, NULL) /\ printed' = printed + 1
  /\ UNCHANGED <<app, post, written, dirs>>

\* A write to a pipe nobody reads.
OutputFails(p) ==
  /\ app[p] = "run" /\ ~reading /\ printed < MaxOutput
  /\ app' = [app EXCEPT ![p] = "sigpipe"]
  /\ UNCHANGED <<pipe, printed, post, written, dirs>>

AppEnds(p) ==
  /\ app[p] = "run"
  /\ app' = [app EXCEPT ![p] = "end"]
  /\ UNCHANGED <<pipe, printed, post, written, dirs>>

OpenResults(p) ==
  /\ post[p] = "new"
  /\ post' = [post EXCEPT ![p] = "open"] /\ dirs' = dirs \cup {p}
  /\ UNCHANGED <<pipe, printed, app, written>>

WriteResults(p) ==
  /\ post[p] \in {"open", "said"} /\ written[p] < Len(results[p])
  /\ written' = [written EXCEPT ![p] = @ + 1]
  /\ UNCHANGED <<pipe, printed, app, post, dirs>>

SayDetails(p) ==
  /\ post[p] = "open" /\ app[p] # "run" /\ reading /\ Len(pipe) < PipeCap
  /\ pipe' = Append(pipe, p) /\ post' = [post EXCEPT ![p] = "said"]
  /\ UNCHANGED <<printed, app, written, dirs>>

DetailsFail(p) ==
  /\ post[p] = "open" /\ app[p] # "run" /\ ~reading
  /\ post' = [post EXCEPT ![p] = "dead"]
  /\ UNCHANGED <<pipe, printed, app, written, dirs>>

PostEnds(p) ==
  /\ post[p] = "said"
  /\ post' = [post EXCEPT ![p] = "end"]
  /\ written' = [written EXCEPT ![p] = Len(results[p])]
  /\ UNCHANGED <<pipe, printed, app, dirs>>

PostKilled(p) ==
  /\ post[p] \in {"new", "open", "said"}
  /\ Cardinality({q \in Proc : post[q] = "dead"}) < MaxKills
  /\ post' = [post EXCEPT ![p] = "dead"]
  /\ UNCHANGED <<pipe, printed, app, written, dirs>>

AppStep(p)  == PrintOutput(p) \/ OutputFails(p) \/ AppEnds(p)
PostStep(p) == \/ OpenResults(p) \/ WriteResults(p) \/ SayDetails(p)
               \/ DetailsFail(p) \/ PostEnds(p)
Tool(p) == (AppStep(p) \/ PostStep(p) \/ PostKilled(p))
           /\ UNCHANGED <<runVars, fuser, results, listVars>>

-----------------------------------------------------------------------------
(* run_tool.                                                               *)

ReadLine ==
  /\ pc = "read" /\ pipe # <<>>
  /\ pipe' = Tail(pipe)
  /\ IF Head(pipe) = NULL THEN UNCHANGED <<pc, name>>
                          ELSE name' = Head(pipe) /\ pc' = "wait"
  /\ UNCHANGED <<at, err_type, fuser, app, post, results, written, dirs, printed, listVars>>

\* No Details line: return NULL without pclose.
ReadEnd ==
  /\ pc = "read" /\ pipe = <<>>
  /\ \A p \in Proc : app[p] # "run" /\ post[p] \in {"end", "dead"}
  /\ pc' = "no_details"
  /\ UNCHANGED <<name, at, err_type, fuser, toolVars, results, listVars>>

Holds(p) == post[p] \in {"open", "said"}   \* fuser's output names its process

\* Mutant: fuser is run once, whatever it prints.
wait_end_of_writing_Once ==
  /\ pc = "wait"
  /\ pc' = "close" /\ pipe' = <<>>
  /\ UNCHANGED <<name, at, err_type, fuser, app, post, results, written, dirs, printed, listVars>>

\* Mutant: the loop ends when fuser has printed something.
wait_end_of_writing_Inverted ==
  /\ pc = "wait" /\ fuser /\ Holds(name)
  /\ pc' = "close" /\ pipe' = <<>>
  /\ UNCHANGED <<name, at, err_type, fuser, app, post, results, written, dirs, printed, listVars>>

\* The loop of wait_end_of_writing ends at the first empty output of fuser,
\* which is also what the shell prints when there is no such command.
wait_end_of_writing ==
  /\ pc = "wait" /\ (~fuser \/ ~Holds(name))
  /\ pc' = "close" /\ pipe' = <<>>
  /\ UNCHANGED <<name, at, err_type, fuser, app, post, results, written, dirs, printed, listVars>>

\* pclose closes the pipe, then waits for the process popen started.
CloseStream ==
  /\ pc = "close" /\ app[Root] # "run"
  /\ pc' \in {"parse", "no_file"}   \* fopen succeeds or fails
  /\ UNCHANGED <<name, at, err_type, fuser, toolVars, results, listVars>>

line    == results[name][at + 1]
hasLine == at < written[name]

\* One turn of parse_output's loop: an error whose bit is set starts get_info.
parse_output ==
  /\ pc = "parse" /\ err_type = NULL /\ hasLine
  /\ at' = at + 1
  /\ err_type' = IF line.k = "error" /\ line.t \in Tracked THEN line.t ELSE NULL
  /\ UNCHANGED <<pc, name, fuser, toolVars, results, listVars>>

\* Mutant: the loop goes on at a line that is not a frame.
get_info_ReadsOn ==
  /\ pc = "parse" /\ err_type # NULL /\ hasLine
  /\ at' = at + 1
  /\ err_type' = IF line.k = "own" THEN NULL ELSE err_type
  /\ IF line.k = "own" THEN add([err_type |-> err_type, err_msg |-> line.m])
                       ELSE UNCHANGED listVars
  /\ UNCHANGED <<pc, name, fuser, toolVars, results>>

\* One turn of get_info's loop, up to the first frame in a source of the program.
get_info ==
  /\ pc = "parse" /\ err_type # NULL /\ hasLine
  /\ at' = at + 1
  /\ err_type' = IF line.k = "foreign" THEN err_type ELSE NULL
  /\ IF line.k = "own" THEN add([err_type |-> err_type, err_msg |-> line.m])
                       ELSE UNCHANGED listVars
  /\ UNCHANGED <<pc, name, fuser, toolVars, results>>

\* The file may end inside a line of the writer's buffer.  A frame of the program
\* cut in its line number is reported with the digits that are there; a frame,
\* the program's or not, cut in its file name has no ':', and parse_line
\* subtracts from a null pointer.
TornLine ==
  /\ pc = "parse" /\ err_type # NULL /\ ~hasLine
  /\ at < Len(results[name])
  /\ \/ /\ line.k = "own" /\ pc' = "done" /\ dirs' = dirs \ {name}
        /\ add([err_type |-> err_type, err_msg |-> [line.m EXCEPT !.text = CutText]])
     \/ /\ line.k \in {"own", "foreign"}
        /\ pc' = "undefined" /\ UNCHANGED <<dirs, listVars>>
  /\ err_type' = NULL
  /\ UNCHANGED <<name, at, fuser, pipe, app, post, results, written, printed>>

\* The end of the file: fclose, remove_output_dir.
remove_output_dir ==
  /\ pc = "parse" /\ ~hasLine
  /\ pc' = "done" /\ err_type' = NULL
  /\ dirs' = dirs \ {name}
  /\ UNCHANGED <<name, at, fuser, pipe, app, post, results, written, printed, listVars>>

run_tool == \/ ReadLine \/ ReadEnd \/ wait_end_of_writing \/ CloseStream
            \/ parse_output \/ get_info \/ TornLine \/ remove_output_dir

Next == run_tool \/ \E p \in Proc : Tool(p)

\* The module, the program and the post-processors keep running: every loop of
\* theirs is finite, and the program is one that ends.
Fairness == /\ WF_vars(run_tool)
            /\ \A p \in Proc : /\ WF_vars(AppStep(p) /\ Tool(p))
                               /\ WF_vars(AppEnds(p) /\ Tool(p))
                               /\ WF_vars(PostStep(p) /\ Tool(p))

Spec == Init /\ [][Next]_vars /\ Fairness

-----------------------------------------------------------------------------

\* run_tool has returned, or has done something undefined.
finished == pc \in {"no_details", "no_file", "done", "undefined"}

\* The results file was closed by a post-processor that finished it.
waited == fuser /\ post[name] # "dead"

\* The error a record's trace stands for: the first own frame of the frames
\* that follow the header at line i.
IsTraced(f, i, j) == /\ i < j /\ f[j].k = "own"
                     /\ \A n \in (i + 1)..(j - 1) : f[n].k = "foreign"
Traced(f) == {i \in 1..Len(f) : /\ f[i].k = "error" /\ f[i].t \in Tracked
                                /\ \E j \in 1..Len(f) : IsTraced(f, i, j)}
ErrorAt(f, i) == [err_type |-> f[i].t,
                  err_msg |-> f[CHOOSE j \in 1..Len(f) : IsTraced(f, i, j)].m]
CutError(e) == [e EXCEPT !.err_msg = [e.err_msg EXCEPT !.text = CutText]]

\* The ways to number the lines of H from 1 to n in the order of the file.
InOrder(n, H) ==
  {h \in [1..n -> H] : /\ \A i \in H : \E k \in 1..n : h[k] = i
                       /\ \A k, l \in 1..n : k < l => h[k] < h[l]}

\* d lists the errors whose headers are among the first i lines of f, in order.
Headers(f, i) == {j \in Traced(f) : j <= i}
Lists(f, i, d) == \E h \in InOrder(Len(d), Headers(f, i)) :
                    \A n \in 1..Len(d) : d[n] = ErrorAt(f, h[n])

\* As before, but the error of the header on line i, the last, is cut.
ListsCut(f, i, d) == /\ i \in Traced(f) /\ Lists(f, i - 1, SubSeq(d, 1, Len(d) - 1))
                     /\ Len(d) > 0 /\ d[Len(d)] = CutError(ErrorAt(f, i))

(***************************************************************************)
(* A run that waits with fuser, and whose post-processor was not killed,   *)
(* detects exactly the errors of the results file that was announced       *)
(* first, in its order: the post-processor opens the file before it        *)
(* announces it, so the file is complete when the loop of                  *)
(* wait_end_of_writing first finds it free.  The files of the program's    *)
(* other processes are not read.                                           *)
(***************************************************************************)
AnnouncedErrorsDetected ==
  /\ pc = "done" /\ waited => Lists(results[name], Len(results[name]), detected)
  /\ pc = "undefined" => ~waited

(***************************************************************************)
(* Whatever goes wrong (no fuser, a dead post-processor, a file that grows *)
(* under the parser), run_tool detects the errors of the announced file up *)
(* to some line of it, in their order, all of them, and never one put      *)
(* together from the header of one record and the trace of another: only   *)
(* the last may have its line number cut.                                  *)
(***************************************************************************)
DetectedIsPrefix ==
  name # NULL =>
    \E i \in 0..Len(results[name]) :
      \/ Lists(results[name], i, detected)
      \/ pc = "done" /\ ~waited /\ ListsCut(results[name], i, detected)

(***************************************************************************)
(* The results file is not removed from under a process that writes it, if *)
(* fuser exists.                                                           *)
(***************************************************************************)
RemovedAfterWriting ==
  [][\A p \in dirs \ dirs' : fuser => ~Holds(p)]_vars

(***************************************************************************)
(* run_tool returns: no writer waits for room in the pipe that run_tool    *)
(* stopped reading while run_tool waits for that writer's file.            *)
(***************************************************************************)
RunReturns == <>finished
=============================================================================
