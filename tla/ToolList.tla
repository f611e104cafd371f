------------------------------ MODULE ToolList ------------------------------
(***************************************************************************)
(* The list of detected errors that a tool module builds while it parses   *)
(* its tool's output, one call of add (lib/tool.h) per error.              *)
(*                                                                         *)
(* add walks the list up to the first node that duplicates the new one, q  *)
(* being the node before it, then allocates a node in every case and makes *)
(* it q's successor.  Only the head's size field is maintained, and it is  *)
(* the field add_range tests before it reads the list.                     *)
(***************************************************************************)
EXTENDS Findings

CONSTANT MaxReports  \* bound: errors one tool run detects

ASSUME MaxReportsAssumption == MaxReports \in Nat

VARIABLES list,      \* the nodes reachable from *list
          size,      \* (*list)->size, 0 for the empty list
          detected   \* history: what the module has passed to add, in order

listVars == <<list, size, detected>>

ListInit == list = <<>> /\ size = 0 /\ detected = <<>>

\* add's walk stops at position k: at the first duplicate, or at the end.
StopsAt(l, node, k) ==
  /\ k <= Len(l) => Duplicate(l[k], node)
  /\ \A j \in 1..(k - 1) : ~Duplicate(l[j], node)

\* Mutant: the node is appended without a look for duplicates.
add_NoWalk(node) ==
  /\ Len(detected) < MaxReports
  /\ list' = Append(list, node)
  /\ size' = size + 1
  /\ detected' = Append(detected, node)

add(node) ==
  /\ Len(detected) < MaxReports
  /\ \E k \in 1..(Len(list) + 1) :
       /\ StopsAt(list, node, k)
       /\ list' = Append(SubSeq(list, 1, k - 1), node)
       /\ size' = IF k = 1 THEN 1 ELSE size + 1
  /\ detected' = Append(detected, node)

ListNext == \E node \in Finding : add(node)

ListSpec == ListInit /\ [][ListNext]_listVars

-----------------------------------------------------------------------------

ListTypeOK == /\ list \in Seq(Finding)
              /\ size \in Nat
              /\ detected \in Seq(Finding)

(***************************************************************************)
(* Two nodes of a module's list never duplicate each other, whatever the   *)
(* order in which the module detects errors and replaces nodes (add's walk *)
(* compares the new node with every node it keeps).                        *)
(***************************************************************************)
ListUnique ==
  \A i, j \in 1..Len(list) : i < j => ~Duplicate(list[i], list[j])

(***************************************************************************)
(* The head's size is positive exactly when the list has nodes, and never  *)
(* smaller than their number: add_range's test output->size > 0 then never *)
(* drops a list that holds errors, although add's truncation leaves size   *)
(* and length apart.                                                       *)
(***************************************************************************)
SizeCoversList == /\ size > 0 <=> list # <<>>
                  /\ Len(list) <= size

(***************************************************************************)
(* What add keeps true of a module's list over any order of reports.       *)
(***************************************************************************)
ListKept == ListUnique /\ SizeCoversList

(***************************************************************************)
(* Every error the module has detected is in the list or duplicates a node *)
(* of it.  This is what the comment "Only adds if unique." in add says: a  *)
(* repeated error leaves the list as it is.                                *)
(***************************************************************************)
OnlyDuplicatesDropped ==
  \A i \in 1..Len(detected) : \E k \in 1..Len(list) :
     \/ list[k] = detected[i]
     \/ Duplicate(list[k], detected[i])
=============================================================================
