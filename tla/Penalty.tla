------------------------------- MODULE Penalty -------------------------------
(***************************************************************************)
(* The penalty library, src/penalty.c: the table __penalties from error    *)
(* code to penalty, filled by init_penalties from the <errors> node of the *)
(* configuration, read by apply_penalty and released by free_penalties.    *)
(*                                                                         *)
(* An error node of the configuration has an id and, once                  *)
(* --add-error-details was given for it, a child with the penalty.  The    *)
(* value is a number of hundredths of a point; the union it is stored in   *)
(* is read as a float whatever type was stored.                            *)
(***************************************************************************)
EXTENDS Integers, Sequences

CONSTANTS PENALTY_COUNT,  \* ERR_MAX: entries of the table
          INF,            \* the step INT32_MAX, written "INF" in the file
          NoDetail,       \* an error node without a child
          Unmapped,       \* a null entry of the table
          PenaltyDocs,    \* contents the <errors> part of the file may have
          FloatGarbage,   \* values an uninitialised float may show
          MaxPenaltyFaults \* bound: allocations that fail

\* get_data_type: the names it knows, and everything else.
DataType == {"int", "short", "long", "float", "double", "none"}

Detail == [step : Nat \cup {INF}, type : DataType, value : Nat]

ErrNode == [id : Nat, detail : Detail \cup {NoDetail}]

\* errCount is <err_count value="...">, -1 when that node or its attribute or
\* the <errors> node is missing.
PenaltyDoc == [nodes : Seq(ErrNode), errCount : Nat \cup {-1}]

ASSUME PenaltyAssumption ==
  /\ PENALTY_COUNT \in Nat
  /\ INF \notin Nat
  /\ NoDetail \notin Detail /\ Unmapped \notin Detail
  /\ PenaltyDocs \subseteq PenaltyDoc
  /\ FloatGarbage \subseteq Nat
  /\ MaxPenaltyFaults \in Nat

Code == 0..(PENALTY_COUNT - 1)

VARIABLES doc,       \* the configuration the library reads
          table,     \* __penalties
          pstate,    \* life of the library
          next,      \* i of fill_penalty_array, counted from 1
          pfaults    \* allocations that have failed

penVars == <<doc, table, pstate, next, pfaults>>

PState == {"unset", "filling", "ready", "failed", "freed", "undefined"}

PenInit == /\ doc \in PenaltyDocs
           /\ table = [c \in Code |-> Unmapped]
           /\ pstate = "unset"
           /\ next = 1
           /\ pfaults = 0

-----------------------------------------------------------------------------

\* init_penalties up to the loop of fill_penalty_array.
init_penalties ==
  /\ pstate = "unset"
  /\ pstate' = IF doc.errCount = -1 THEN "failed" ELSE "filling"
  /\ UNCHANGED <<doc, table, next, pfaults>>

\* No memory for the table itself.
InitFails ==
  /\ pstate = "unset" /\ pfaults < MaxPenaltyFaults
  /\ pstate' = "failed" /\ pfaults' = pfaults + 1
  /\ UNCHANGED <<doc, table, next>>

\* create_err_mapping: an error without details leaves the table alone, a
\* later node with the same id replaces an earlier one.
create_err_mapping(node) ==
  \/ /\ node.detail = NoDetail
     /\ UNCHANGED <<table, pstate, pfaults>>
  \/ /\ node.detail # NoDetail /\ node.id \in Code
     /\ table' = [table EXCEPT ![node.id] = node.detail]
     /\ UNCHANGED <<pstate, pfaults>>
  \/ /\ node.detail # NoDetail /\ node.id \notin Code
     /\ pstate' = "undefined"
     /\ UNCHANGED <<table, pfaults>>
  \/ /\ node.detail # NoDetail /\ pfaults < MaxPenaltyFaults
     /\ pfaults' = pfaults + 1
     /\ UNCHANGED <<table, pstate>>

FillStep ==
  /\ pstate = "filling" /\ next <= doc.errCount
  /\ IF next <= Len(doc.nodes)
       THEN create_err_mapping(doc.nodes[next])
       ELSE UNCHANGED <<table, pstate, pfaults>>
  /\ next' = next + 1
  /\ UNCHANGED doc

\* Mutant: the loop of fill_penalty_array ends one node early.
FillDone_Early ==
  /\ pstate = "filling" /\ next >= doc.errCount
  /\ pstate' = "ready"
  /\ UNCHANGED <<doc, table, next, pfaults>>

FillDone ==
  /\ pstate = "filling" /\ next > doc.errCount
  /\ pstate' = "ready"
  /\ UNCHANGED <<doc, table, next, pfaults>>

-----------------------------------------------------------------------------

\* What value.float_value shows for a stored penalty.  A small integer's bits
\* are a float below one hundredth; the types that store nothing leave the
\* allocated memory as it was.
FloatValue(p) == CASE p.type \in {"float", "double"} -> {p.value}
                   [] p.type = "int" -> {0}
                   [] OTHER -> FloatGarbage

\* Mutant: a step that is not full is charged too.
Charge_RoundedUp(p, count, float) ==
  IF p.step = INF THEN float ELSE ((count + p.step - 1) \div p.step) * float

\* The value apply_penalty computes from the entry p for count errors.
Charge(p, count, float) ==
  IF p.step = INF THEN float ELSE (count \div p.step) * float

\* apply_penalty returns NULL without looking at the table.
NoPenalty(type, count) == count <= 0 \/ type \notin Code

\* apply_penalty dereferences a null entry or divides by zero.
PenaltyUndefined(type, count) ==
  /\ ~NoPenalty(type, count)
  /\ table[type] # Unmapped => table[type].step = 0

PenaltyValues(type, count) ==
  {Charge(table[type], count, f) : f \in FloatValue(table[type])}

free_penalties ==
  /\ pstate \in {"ready", "failed"}
  /\ pstate' = "freed"
  /\ table' = [c \in Code |-> Unmapped]
  /\ UNCHANGED <<doc, next, pfaults>>

-----------------------------------------------------------------------------

PenStopped == pstate \in {"freed", "undefined"} /\ UNCHANGED penVars

PenNext == \/ init_penalties \/ InitFails
           \/ FillStep \/ FillDone
           \/ free_penalties
           \/ PenStopped

PenSpec == PenInit /\ [][PenNext]_penVars

-----------------------------------------------------------------------------

PenTypeOK == /\ doc \in PenaltyDocs
             /\ table \in [Code -> Detail \cup {Unmapped}]
             /\ pstate \in PState
             /\ next \in Nat \ {0}
             /\ pfaults \in Nat

\* The nodes that fill_penalty_array visits.
Visited == 1..(IF doc.errCount < Len(doc.nodes) THEN doc.errCount ELSE Len(doc.nodes))

\* The visited nodes that give error c a penalty.
DetailsOf(c) == {n \in Visited : doc.nodes[n].id = c /\ doc.nodes[n].detail # NoDetail}

(***************************************************************************)
(* Once the table is ready, an error code has exactly the penalty of the   *)
(* last detailed node with its id among the first err_count nodes, and a   *)
(* code without one is unmapped (create_err_mapping's overwriting, and     *)
(* err_count and the node list disagreeing, included).                     *)
(***************************************************************************)
TableFollowsConfig ==
  pstate = "ready" /\ pfaults = 0 =>
    \A c \in Code :
       IF DetailsOf(c) = {} THEN table[c] = Unmapped
       ELSE \E n \in DetailsOf(c) : /\ table[c] = doc.nodes[n].detail
                                    /\ \A m \in DetailsOf(c) : m <= n
=============================================================================
