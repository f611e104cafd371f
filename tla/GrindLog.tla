------------------------------ MODULE GrindLog ------------------------------
(***************************************************************************)
(* What the Valgrind and the Helgrind module share: a log file of valgrind *)
(* that is read line by line by nested loops, each of which consumes the   *)
(* line it stops at.                                                       *)
(*                                                                         *)
(* A line is a record whose field k is one of                              *)
(*   "header"     names an error of type t                                 *)
(*   "own"        a frame ("at"/"by") in a source of the program, which    *)
(*                gives the message m                                      *)
(*   "foreign"    a frame that parse_line accepts and is_source does not   *)
(*   "bare"       a frame that parse_line rejects ("by 0x4: ???")          *)
(*   "break"      only the process id (is_break_line)                      *)
(*   "text"       anything else                                            *)
(* or a kind that one of the two modules adds.                             *)
(***************************************************************************)
EXTENDS ToolList

CONSTANTS Tracked,  \* the error types whose bit is set in flags
          NULL

ASSUME TrackedAssumption == Tracked \subseteq ErrType

VARIABLES grind,     \* the module that reads: "valgrind" or "helgrind"
          log,       \* the file being read
          at,        \* lines read so far
          mode,      \* the loop that reads the next line
          err_type   \* get_info's error type, NULL outside get_info

logVars == <<grind, log, at, mode, err_type, listVars>>

\* The lines that both modules tell apart.
GrindLine == [k : {"header"}, t : ErrType] \cup [k : {"own"}, m : Message]
             \cup [k : {"foreign", "bare", "break", "text"}]

\* Line j is the first one of l or follows a break line.
Begins(l, j) == j = 1 \/ l[j - 1].k = "break"

\* A module begins with one of the logs its tool may write.
LogInit(module, logs) ==
  /\ ListInit
  /\ grind = module
  /\ log \in logs /\ at = 0 /\ mode = "scan" /\ err_type = NULL

line == log[at + 1]

\* The loop m reads a line.
Reads(m) == mode = m /\ at < Len(log) /\ at' = at + 1 /\ UNCHANGED <<grind, log>>

\* A line of the main loop that names a tracked error: get_info is called.
ScanHeader ==
  /\ Reads("scan")
  /\ line.k = "header" /\ line.t \in Tracked
  /\ mode' = "info" /\ err_type' = line.t
  /\ UNCHANGED listVars

\* One turn of get_info's loop.  It returns at a break line, at a line that is
\* no frame and at a frame it cannot parse; it adds the first own frame.
get_info ==
  /\ Reads("info")
  /\ IF line.k = "foreign" THEN UNCHANGED <<mode, err_type>>
                           ELSE mode' = "scan" /\ err_type' = NULL
  /\ IF line.k = "own" THEN add([err_type |-> err_type, err_msg |-> line.m])
                       ELSE UNCHANGED listVars

\* Every loop ends at the end of the file.
EndOfLog ==
  /\ mode \notin {"done", "undefined"} /\ at = Len(log)
  /\ mode' = "done" /\ err_type' = NULL
  /\ UNCHANGED <<grind, log, at, listVars>>

-----------------------------------------------------------------------------
(* The reference the parsers are checked against: what a reader of the     *)
(* whole log takes from it, stated on positions instead of loops.          *)

\* The first own frame of the call trace that follows line i is line j.
Traces(l, i, j) == /\ l[j].k = "own" /\ i < j
                   /\ \A n \in (i + 1)..(j - 1) : l[n].k = "foreign"

HasTrace(l, i) == \E j \in 1..Len(l) : Traces(l, i, j)
Trace(l, i) == l[CHOOSE j \in 1..Len(l) : Traces(l, i, j)].m

IsError(l, i) == l[i].k = "header" /\ l[i].t \in Tracked /\ HasTrace(l, i)

\* d lists the errors e, each at the line that announces it, in the order of
\* the file.
Lists(e, d) ==
  \E h \in [1..Len(d) -> DOMAIN e] :
    /\ \A i \in DOMAIN e : \E n \in 1..Len(d) : h[n] = i
    /\ \A m, n \in 1..Len(d) : m < n => h[m] < h[n]
    /\ \A n \in 1..Len(d) : d[n] = e[h[n]]
=============================================================================
