----------------------------- MODULE ProcessApi -----------------------------
(***************************************************************************)
(* One task of the process API: open_process and wait_process              *)
(* (src/rbc_task.c) over make_comm_string, rbc_get_mem and rbc_free_mem    *)
(* (src/rbc_api.c).                                                        *)
(*                                                                         *)
(* make_comm_string copies the arguments, a space after each, into a       *)
(* buffer that it enlarges by MAX_BUFF_SIZE at most once per argument.     *)
(* Arguments are known by their lengths; 0 stands for an empty argument    *)
(* and for a null pointer, which the loop both skips.                      *)
(***************************************************************************)
EXTENDS Integers, Sequences

CONSTANTS MAX_BUFF_SIZE,
          Args  \* the argument vectors, as sequences of lengths

ASSUME BuffAssumption == MAX_BUFF_SIZE \in Nat /\ MAX_BUFF_SIZE >= 2
ASSUME ArgsAssumption == Args \subseteq Seq(Nat)

VARIABLES pc,
          args,
          i,               \* arguments that have been dealt with
          ret_string_len,  \* characters written to the buffer
          max_len,         \* its size
          heap,            \* the blocks that are allocated
          stream           \* the stream popen returned: "none", "open" or "closed"

procVars == <<pc, args, i, ret_string_len, max_len, heap, stream>>

ProcInit ==
  /\ pc = "open_process" /\ args \in Args /\ i = 0
  /\ ret_string_len = 0 /\ max_len = 0
  /\ heap = {} /\ stream = "none"

GetMem ==
  /\ pc = "open_process"
  /\ \/ /\ pc' = "copy" /\ heap' = {"comm"}
        /\ max_len' = MAX_BUFF_SIZE
     \/ pc' = "null" /\ UNCHANGED <<heap, max_len>>
  /\ UNCHANGED <<args, i, ret_string_len, stream>>

arg == args[i + 1]
copying == pc = "copy" /\ i < Len(args)

SkipArg ==
  /\ copying /\ arg = 0
  /\ i' = i + 1
  /\ UNCHANGED <<pc, args, ret_string_len, max_len, heap, stream>>

\* Mutant: the test leaves out the space and the final 0.
Exceeds_NoSpare == arg + ret_string_len > max_len

Exceeds == arg + ret_string_len + 3 > max_len

\* The argument and a space are copied, after a realloc if they need one.
CopyArg ==
  /\ copying /\ arg > 0
  /\ max_len' = IF Exceeds THEN max_len + MAX_BUFF_SIZE ELSE max_len
  /\ ret_string_len' = ret_string_len + arg + 1
  /\ i' = i + 1
  /\ UNCHANGED <<pc, args, heap, stream>>

ReallocFails ==
  /\ copying /\ arg > 0 /\ Exceeds
  /\ heap' = {} /\ pc' = "null"
  /\ UNCHANGED <<args, i, ret_string_len, max_len, stream>>

\* The command is complete: popen starts it, or fails.
StartProcess ==
  /\ pc = "copy" /\ i = Len(args)
  /\ \/ pc' = "task" /\ stream' = "open" /\ UNCHANGED heap
     \/ pc' = "null" /\ heap' = {} /\ UNCHANGED stream
  /\ UNCHANGED <<args, i, ret_string_len, max_len>>

\* Mutant: the command string is freed only with a task.
MakeTask_KeepsComm ==
  /\ pc = "task"
  /\ \/ pc' = "opened" /\ heap' = {"task"}
     \/ pc' = "null" /\ UNCHANGED heap
  /\ UNCHANGED <<args, i, ret_string_len, max_len, stream>>

\* The task's block; the command string is freed in either case.
MakeTask ==
  /\ pc = "task"
  /\ \/ pc' = "opened" /\ heap' = {"task"}
     \/ pc' = "null" /\ heap' = {}
  /\ UNCHANGED <<args, i, ret_string_len, max_len, stream>>

wait_process ==
  /\ pc = "opened"
  /\ pc' = "waited" /\ heap' = {} /\ stream' = "closed"
  /\ UNCHANGED <<args, i, ret_string_len, max_len>>

ProcNext == \/ GetMem \/ SkipArg \/ CopyArg \/ ReallocFails
            \/ StartProcess \/ MakeTask \/ wait_process

ProcSpec == ProcInit /\ [][ProcNext]_procVars

-----------------------------------------------------------------------------

ProcTypeOK ==
  /\ pc \in {"open_process", "copy", "task", "opened", "waited", "null"}
  /\ args \in Seq(Nat) /\ i \in 0..Len(args)
  /\ ret_string_len \in Nat /\ max_len \in Nat
  /\ heap \subseteq {"comm", "task"}
  /\ stream \in {"none", "open", "closed"}

Short == \A k \in 1..Len(args) : args[k] < MAX_BUFF_SIZE

(***************************************************************************)
(* make_comm_string never writes past its buffer, and keeps two bytes      *)
(* free, if every argument is shorter than MAX_BUFF_SIZE: one enlargement  *)
(* per argument is then enough, however many arguments there are.          *)
(***************************************************************************)
ArgumentsFit == Short /\ max_len > 0 => ret_string_len + 2 <= max_len

(***************************************************************************)
(* A task that was opened can be waited for with its own stream, and the   *)
(* command string never outlives open_process.                             *)
(***************************************************************************)
BlocksReleased ==
  /\ pc \in {"opened", "waited", "null"} => "comm" \notin heap
  /\ pc = "opened" <=> "task" \in heap
  /\ pc = "opened" => stream = "open"
=============================================================================
