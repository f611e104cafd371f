----------------------------- MODULE MCLibrary -----------------------------
(***************************************************************************)
(* The parts of the library that Robocheck composes (a module's list, the  *)
(* collected errors, the penalty table) and the API for modules (starting  *)
(* a process, logging), each by itself and with larger inputs than a whole *)
(* run can have.  A behaviour is one part at work; the others stand still. *)
(***************************************************************************)
EXTENDS ToolList, MCOutputVector, MCPenalty, ProcessApi, Logger

VARIABLE part

vars == <<part, listVars, vecVars, penVars, procVars, loggerVars>>

Init == /\ part \in {"list", "vector", "penalty", "process", "log"}
        /\ ListInit /\ VecInit /\ PenInit /\ ProcInit /\ LoggerInit
        /\ part # "penalty" => doc = [nodes |-> <<>>, errCount |-> 0]
        /\ part # "process" => args = <<>>

\* A module may stop reporting, a caller may stop calling the API.
Stops == part \in {"list", "process", "log"}

Next ==
  /\ UNCHANGED part
  /\ \/ part = "list" /\ ListNext /\ UNCHANGED <<vecVars, penVars, procVars, loggerVars>>
     \/ part = "vector" /\ VecNext /\ UNCHANGED <<listVars, penVars, procVars, loggerVars>>
     \/ part = "penalty" /\ PenNext /\ UNCHANGED <<listVars, vecVars, procVars, loggerVars>>
     \/ part = "process" /\ ProcNext /\ UNCHANGED <<listVars, vecVars, penVars, loggerVars>>
     \/ part = "log" /\ LoggerNext /\ UNCHANGED <<listVars, vecVars, penVars, procVars>>
     \/ Stops /\ UNCHANGED vars

Spec == Init /\ [][Next]_vars

\* Lengths of arguments around the boundaries of a buffer of four bytes.
MCArgs == UNION {[1..n -> 0..4] : n \in 0..4}

\* Lengths of tool names, and of messages around the size of LoggerBuff.
MCTool   == 1..5
MCLength == 0..20
=============================================================================
