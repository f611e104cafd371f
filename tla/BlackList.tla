----------------------------- MODULE BlackList -----------------------------
(***************************************************************************)
(* The list of functions whose return value has to be verified             *)
(* (sparse-0.4.1/rbc_sparse_utils/black_list.c): set_black_list reads it   *)
(* from /tmp/black_list, is_black_listed looks a name up.                  *)
(***************************************************************************)
EXTENDS Naturals, Sequences

CONSTANTS Function,  \* names of functions
          Chopped,   \* a name that has lost its last character
          Files,     \* what /tmp/black_list may hold
          BL_SIZE_INC,
          PTR        \* sizeof(char *)

\* names: the lines; eol: the last one ends in a newline.
ASSUME FilesAssumption == Files \subseteq [names : Seq(Function), eol : BOOLEAN]
ASSUME SizesAssumption == BL_SIZE_INC \in Nat \ {0} /\ PTR \in Nat \ {0}
ASSUME ChoppedAssumption == Chopped \notin Function

VARIABLES file,   \* the file
          list,   \* the names stored: BlackList[0 .. BlackListCount - 1]
          bytes,  \* the size of the block BlackList points to, 0 for NULL
          over,   \* a name's pointer was stored beyond the block
          bl_pc

blVars == <<file, list, bytes, over, bl_pc>>

BlInit == /\ file \in Files
          /\ list = <<>> /\ bytes = 0 /\ over = FALSE
          /\ bl_pc = "malloc"

\* Mutant: the size is divided by that of a pointer.
Block_Divided(inc) == inc \div PTR

\* sizeof(**BlackList) is the size of a character.
Block(inc) == inc

malloc ==
  /\ bl_pc = "malloc"
  /\ \/ bytes' = Block(BL_SIZE_INC) /\ bl_pc' = "fopen"
     \/ bytes' = 0 /\ bl_pc' = "failed"
  /\ UNCHANGED <<file, list, over>>

fopen ==
  /\ bl_pc = "fopen"
  /\ bl_pc' \in {"read", "failed"}
  /\ UNCHANGED <<file, list, bytes, over>>

More == bl_pc = "read" /\ Len(list) < Len(file.names)

\* inc has grown by BL_SIZE_INC each time the count was a multiple of it.
Grows == Len(list) > 0 /\ Len(list) % BL_SIZE_INC = 0

\* line[str_size - 1] = '\0' also where there is no newline.
NextName == LET n == Len(list) + 1
            IN  IF n = Len(file.names) /\ ~file.eol THEN Chopped ELSE file.names[n]

\* The write beyond the block may go unnoticed.
ReadName ==
  /\ More
  /\ bytes' = IF Grows THEN Block(BL_SIZE_INC * (Len(list) \div BL_SIZE_INC + 1)) ELSE bytes
  /\ over' = (over \/ (Len(list) + 1) * PTR > bytes')
  /\ list' = Append(list, NextName)
  /\ bl_pc' \in IF over' THEN {"read", "undefined"} ELSE {"read"}
  /\ UNCHANGED file

ReallocFails ==
  /\ More /\ Grows
  /\ bytes' = 0 /\ bl_pc' = "failed"
  /\ UNCHANGED <<file, list, over>>

EndOfFile ==
  /\ bl_pc = "read" /\ Len(list) = Len(file.names)
  /\ bl_pc' = "set"
  /\ UNCHANGED <<file, list, bytes, over>>

\* set_black_list has returned: main goes on, or exits.
BlStopped == bl_pc \in {"set", "failed", "undefined"} /\ UNCHANGED blVars

BlNext == malloc \/ fopen \/ ReadName \/ ReallocFails \/ EndOfFile \/ BlStopped

BlSpec == BlInit /\ [][BlNext]_blVars

is_black_listed(f) == \E n \in 1..Len(list) : list[n] = f

-----------------------------------------------------------------------------

(***************************************************************************)
(* When main goes on, exactly the functions of the file are black-listed,  *)
(* up to one: the last, if its line has no newline and no other line names *)
(* it.                                                                     *)
(***************************************************************************)
BlackListFaithful ==
  bl_pc = "set" =>
    \A f \in Function :
      is_black_listed(f) <=>
        \E n \in 1..Len(file.names) : /\ file.names[n] = f
                                      /\ n < Len(file.names) \/ file.eol

(***************************************************************************)
(* The block is one of characters and holds pointers, so the list is       *)
(* written beyond its end exactly when it has more than BL_SIZE_INC / PTR  *)
(* names, long before the count reaches BL_SIZE_INC and the block grows.   *)
(***************************************************************************)
BlackListOverflow ==
  /\ Len(list) > BL_SIZE_INC \div PTR /\ PTR > 1 => over
  /\ over \/ bl_pc = "undefined" => Len(list) > BL_SIZE_INC \div PTR

(***************************************************************************)
(* set_black_list lists the functions of its file, up to an unterminated   *)
(* last line, and leaves its block exactly when there are more names than  *)
(* the block has pointers.                                                 *)
(***************************************************************************)
BlackListExact == BlackListFaithful /\ BlackListOverflow
=============================================================================
