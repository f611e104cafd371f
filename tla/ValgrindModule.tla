--------------------------- MODULE ValgrindModule ---------------------------
(***************************************************************************)
(* The Valgrind module's parser (modules/valgrind/rbc_valgrind.c): the     *)
(* main loop of run_tool over one log file, get_info and file_descriptors. *)
(*                                                                         *)
(* Further kinds of lines: [k |-> "fds", n |-> count], the heading         *)
(* "FILE DESCRIPTORS: n open at exit."; [k |-> "open", m |-> message], a   *)
(* descriptor and its name; [k |-> "unnamed"], a descriptor without one;   *)
(* [k |-> "inherited"], "<inherited from parent>".                         *)
(***************************************************************************)
EXTENDS GrindLog, FiniteSets

CONSTANTS ERR_FILE_DESCRIPTORS,
          ValgrindLog  \* the possible contents of a log file

ValLine == GrindLine \cup [k : {"fds"}, n : Nat] \cup [k : {"open"}, m : Message]
           \cup [k : {"unnamed", "inherited"}]

\* The descriptors among the first j lines.
Descriptors(l, j) == {i \in 1..j : l[i].k \in {"open", "unnamed"}}

\* A record ends with a break line.  The heading comes once and is followed by
\* as many descriptors as it says; a descriptor with a name has a line below.
\* The log may end anywhere.
ASSUME ValgrindLogAssumption ==
  /\ ERR_FILE_DESCRIPTORS \in ErrType
  /\ \A l \in ValgrindLog :
       /\ l \in Seq(ValLine)
       /\ \A j \in 1..Len(l) :
            /\ l[j].k \in {"header", "fds"} => Begins(l, j)
            /\ l[j].k \in {"open", "unnamed"} =>
                 /\ j > 1 /\ l[j - 1].k \in {"break", "fds"}
                 /\ \E f \in 1..(j - 1) :
                      l[f].k = "fds" /\ Cardinality(Descriptors(l, j)) <= l[f].n
            /\ l[j].k = "break" /\ j > 1 => l[j - 1].k # "open"
       /\ \A f \in 1..Len(l) : l[f].k = "fds" =>
            /\ \A g \in 1..Len(l) : l[g].k = "fds" => g = f
            /\ \A j \in (f + 1)..Len(l) :
                 l[j - 1].k \in {"break", "fds"} /\ Cardinality(Descriptors(l, j - 1)) < l[f].n =>
                   l[j].k \in {"break", "open", "unnamed"}

VARIABLES nr_fds,  \* descriptors file_descriptors has still to read
          err_msg  \* the name it has read for the current one

valVars == <<logVars, nr_fds, err_msg>>

ValInit == LogInit("valgrind", ValgrindLog) /\ nr_fds = 0 /\ err_msg = NULL

fdVars == <<nr_fds, err_msg>>

\* The heading of the descriptors: the first line of file_descriptors.
ScanDescriptors ==
  /\ Reads("scan") /\ line.k = "fds" /\ ERR_FILE_DESCRIPTORS \in Tracked
  /\ nr_fds' = line.n
  /\ mode' = IF line.n = 0 THEN "scan" ELSE "fd"
  /\ UNCHANGED <<err_type, err_msg, listVars>>

SkipInValgrind ==
  /\ Reads("scan")
  /\ \/ line.k \notin {"header", "fds"}
     \/ line.k = "header" /\ line.t \notin Tracked
     \/ line.k = "fds" /\ ERR_FILE_DESCRIPTORS \notin Tracked
  /\ UNCHANGED <<mode, err_type, fdVars, listVars>>

\* Break lines are skipped; the sixth word of the next line is the name.
fd_name ==
  /\ Reads("fd")
  /\ IF line.k = "break" THEN UNCHANGED <<mode, err_msg>>
     ELSE IF line.k = "unnamed" THEN mode' = "void_fd" /\ UNCHANGED err_msg
     ELSE mode' = "fd_next" /\ err_msg' = line.m
  /\ UNCHANGED <<err_type, nr_fds, listVars>>

\* Mutant: inherited descriptors are added as well.
fd_next_NoTest ==
  /\ Reads("fd_next")
  /\ mode' = "void_fd" /\ err_msg' = NULL
  /\ add([err_type |-> ERR_FILE_DESCRIPTORS, err_msg |-> err_msg])
  /\ UNCHANGED <<err_type, nr_fds>>

\* The line below the name tells whether the program opened the descriptor.
fd_next ==
  /\ Reads("fd_next")
  /\ mode' = "void_fd" /\ err_msg' = NULL
  /\ IF line.k = "inherited" THEN UNCHANGED listVars
     ELSE add([err_type |-> ERR_FILE_DESCRIPTORS, err_msg |-> err_msg])
  /\ UNCHANGED <<err_type, nr_fds>>

\* The lines up to the next break line belong to the same descriptor.
void_fd ==
  /\ Reads("void_fd")
  /\ IF line.k # "break" THEN UNCHANGED <<mode, nr_fds>>
     ELSE nr_fds' = nr_fds - 1 /\ mode' = IF nr_fds = 1 THEN "scan" ELSE "fd"
  /\ UNCHANGED <<err_type, err_msg, listVars>>

ValNext == \/ ScanDescriptors \/ SkipInValgrind \/ fd_name \/ fd_next \/ void_fd
           \/ ScanHeader /\ UNCHANGED fdVars
           \/ get_info /\ UNCHANGED fdVars
           \/ EndOfLog /\ UNCHANGED fdVars

ValSpec == ValInit /\ [][ValNext]_valVars

-----------------------------------------------------------------------------

\* A descriptor the program opened itself, with a line below it that shows so.
IsLeft(l, i) == /\ l[i].k = "open" /\ ERR_FILE_DESCRIPTORS \in Tracked
                /\ i < Len(l) /\ l[i + 1].k # "inherited"

\* The errors that the first n lines of l announce.
ValgrindErrors(l, n) ==
  [i \in {j \in 1..n : IsError(l, j) \/ IsLeft(l, j)} |->
     IF l[i].k = "open" THEN [err_type |-> ERR_FILE_DESCRIPTORS, err_msg |-> l[i].m]
                        ELSE [err_type |-> l[i].t, err_msg |-> Trace(l, i)]]

(***************************************************************************)
(* From every log valgrind writes, cut off anywhere (a killed process),    *)
(* the nested loops detect exactly the tracked errors with a frame in the  *)
(* program and the descriptors the program opened: no loop consumes a line *)
(* that starts the next record.                                            *)
(***************************************************************************)
ValgrindReadsAll ==
  mode = "done" /\ grind = "valgrind" => Lists(ValgrindErrors(log, Len(log)), detected)
=============================================================================
