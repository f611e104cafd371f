--------------------------- MODULE HelgrindModule ---------------------------
(***************************************************************************)
(* The Helgrind module's parser (modules/helgrind/rbc_helgrind.c): the     *)
(* main loop of run_tool over one log file, get_info and data_race.        *)
(*                                                                         *)
(* Further kinds of lines: [k |-> "race"], "Possible data race during";    *)
(* [k |-> "conflicts"], "This conflicts with a previous"; [k |-> "holds",  *)
(* m |-> message], "Thread #2: Exiting thread still holds 1 lock".         *)
(*                                                                         *)
(* data_race reads the first access in one loop and the conflicting one in *)
(* a second loop.  A break line ends the first loop and not the function,  *)
(* and the node's type is set by the first loop only.                      *)
(***************************************************************************)
EXTENDS GrindLog

CONSTANTS ERR_DATA_RACE, ERR_HOLD_LOCK,
          HelgrindLog  \* the possible contents of a log file

HelLine == GrindLine \cup [k : {"race", "conflicts"}] \cup [k : {"holds"}, m : Message]

\* A record ends with a break line and does not begin with a frame.  The log
\* may end anywhere.
ASSUME HelgrindLogAssumption ==
  /\ {ERR_DATA_RACE, ERR_HOLD_LOCK} \subseteq ErrType
  /\ \A l \in HelgrindLog :
       /\ l \in Seq(HelLine)
       /\ \A j \in 1..Len(l) :
            /\ l[j].k \in {"header", "race", "holds"} => Begins(l, j)
            /\ l[j].k \in {"own", "foreign"} => ~Begins(l, j)

VARIABLE found_a_file  \* data_race: the first access has an own frame

helVars == <<logVars, found_a_file>>

HelInit == LogInit("helgrind", HelgrindLog) /\ found_a_file = FALSE

\* Mutant: found_a_file keeps its value from the race before.
ScanRace_NoReset ==
  /\ Reads("scan") /\ line.k = "race" /\ ERR_DATA_RACE \in Tracked
  /\ mode' = "race"
  /\ UNCHANGED <<err_type, found_a_file, listVars>>

ScanRace ==
  /\ Reads("scan") /\ line.k = "race" /\ ERR_DATA_RACE \in Tracked
  /\ mode' = "race" /\ found_a_file' = FALSE
  /\ UNCHANGED <<err_type, listVars>>

\* The thread's number is the whole message.
ScanHold ==
  /\ Reads("scan") /\ line.k = "holds" /\ ERR_HOLD_LOCK \in Tracked
  /\ add([err_type |-> ERR_HOLD_LOCK, err_msg |-> line.m])
  /\ UNCHANGED <<mode, err_type, found_a_file>>

SkipInHelgrind ==
  /\ Reads("scan")
  /\ line.k = "header" => line.t \notin Tracked
  /\ line.k = "race" => ERR_DATA_RACE \notin Tracked
  /\ line.k = "holds" => ERR_HOLD_LOCK \notin Tracked
  /\ UNCHANGED <<mode, err_type, found_a_file, listVars>>

\* The first loop of data_race.
race ==
  /\ Reads("race")
  /\ mode' = IF line.k \in {"conflicts", "break"} THEN "conflicts_with"
             ELSE IF line.k \in {"own", "foreign"} THEN "race" ELSE "scan"
  /\ found_a_file' = (found_a_file \/ line.k = "own")
  /\ UNCHANGED <<err_type, listVars>>

\* The second loop.  Without an own frame in the first access the message is
\* appended to an uninitialised buffer and the node has no type.
conflicts_with ==
  /\ Reads("conflicts_with")
  /\ mode' = IF line.k = "foreign" THEN mode
             ELSE IF line.k = "own" /\ ~found_a_file THEN "undefined" ELSE "scan"
  /\ IF line.k = "own" /\ found_a_file
     THEN add([err_type |-> ERR_DATA_RACE, err_msg |-> line.m])
     ELSE UNCHANGED listVars
  /\ UNCHANGED <<err_type, found_a_file>>

HelNext == \/ ScanRace \/ ScanHold \/ SkipInHelgrind \/ race \/ conflicts_with
           \/ ScanHeader /\ UNCHANGED found_a_file
           \/ get_info /\ UNCHANGED found_a_file
           \/ EndOfLog /\ UNCHANGED found_a_file

HelSpec == HelInit /\ [][HelNext]_helVars

-----------------------------------------------------------------------------
(* The reference: the two accesses of a race on positions.                 *)

\* Line j ends the first access of the race at line i.
FirstAccess(l, i, j) == /\ i < j /\ l[j].k \in {"conflicts", "break"}
                        /\ \A n \in (i + 1)..(j - 1) : l[n].k \in {"own", "foreign"}

\* The race at line i ends its first access with a break line.
Unpaired(l, i) == /\ l[i].k = "race"
                  /\ \E j \in 1..Len(l) : FirstAccess(l, i, j) /\ l[j].k = "break"

\* Both accesses are in the program, or only the conflicting one is.
IsPaired(l, i, both) ==
  /\ l[i].k = "race"
  /\ \E j \in 1..Len(l) : /\ FirstAccess(l, i, j) /\ l[j].k = "conflicts"
                          /\ HasTrace(l, j)
                          /\ both <=> \E n \in i..j : l[n].k = "own"

Conflict(l, i) == Trace(l, CHOOSE j \in 1..Len(l) : FirstAccess(l, i, j))

Detectable(l, i) ==
  \/ IsError(l, i)
  \/ l[i].k = "holds" /\ ERR_HOLD_LOCK \in Tracked
  \/ IsPaired(l, i, TRUE) /\ ERR_DATA_RACE \in Tracked

ErrorAt(l, i) ==
  CASE l[i].k = "header" -> [err_type |-> l[i].t, err_msg |-> Trace(l, i)]
    [] l[i].k = "holds"  -> [err_type |-> ERR_HOLD_LOCK, err_msg |-> l[i].m]
    [] l[i].k = "race"   -> [err_type |-> ERR_DATA_RACE, err_msg |-> Conflict(l, i)]

\* Line i is the first one after the break line that ends the race at line h.
Hands(l, h, i) == /\ ERR_DATA_RACE \in Tracked /\ h < i
                  /\ Unpaired(l, h) /\ FirstAccess(l, h, i - 1)

\* The lines that follow a race which ended with a break line and was itself
\* read as one, so that the second loop of data_race consumes them.
Swallowed(l) ==
  LET next == {i \in 1..Len(l) : \E h \in 1..Len(l) : Hands(l, h, i)}
  IN  CHOOSE S \in SUBSET next :
        \A i \in next : i \in S <=> \E h \in (1..Len(l)) \ S : Hands(l, h, i)

\* The errors that the first n lines of l announce and that are not swallowed.
HelgrindErrors(l, n) ==
  [i \in {j \in 1..n : Detectable(l, j)} \ Swallowed(l) |-> ErrorAt(l, i)]

(***************************************************************************)
(* The module detects the records of the log, and loses a record only when *)
(* it directly follows a race without a conflicting access: the first loop *)
(* of data_race stops at the break line and the second one consumes the    *)
(* next record's first line.  A race of which only the conflicting access  *)
(* is in the program is the one case that is undefined.                    *)
(***************************************************************************)
HelgrindReadsAll ==
  grind = "helgrind" =>
    /\ mode = "done" => Lists(HelgrindErrors(log, Len(log)), detected)
    /\ mode = "undefined" =>
         \E i \in 1..at : IsPaired(log, i, FALSE) /\ Lists(HelgrindErrors(log, i - 1), detected)

(***************************************************************************)
(* The module extracts all the errors the tool reported, as the comment on *)
(* run_tool says.                                                          *)
(***************************************************************************)
HelgrindExtractsAll ==
  mode = "done" /\ grind = "helgrind" =>
    \A i \in 1..Len(log) : Detectable(log, i) =>
      \E n \in 1..Len(detected) : detected[n] = ErrorAt(log, i)
=============================================================================
