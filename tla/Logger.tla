------------------------------- MODULE Logger -------------------------------
(***************************************************************************)
(* The message buffer of the log (src/rbc_utils.c, log_message of          *)
(* src/rbc_api.c): LoggerBuff receives the time, the tag of the running    *)
(* module, a space and the message.                                        *)
(*                                                                         *)
(* create_log_message keeps the room that is left in max_length, which it  *)
(* starts at MAX(2 * MAX_BUFF_SIZE, strlen(message) + 1), more than the    *)
(* buffer has when the message is longer, and from which it takes the      *)
(* length of the time twice.  Strings are known by their lengths.          *)
(***************************************************************************)
EXTENDS Integers

CONSTANTS Buff,     \* 2 * MAX_BUFF_SIZE, the size of LoggerBuff and of CurrentModule
          Stamp,    \* the length of "%d-%m-%Y %T - "
          RBC_TAG,  \* the length of "[robocheck]"
          Tool,     \* lengths of a tool's name (between LIB_START and LIB_END)
          Length    \* lengths of a message

ASSUME LoggerAssumption ==
  /\ Buff \in Nat /\ Stamp \in Nat /\ RBC_TAG \in Nat
  /\ Tool \subseteq Nat /\ Length \subseteq Nat

VARIABLES CurrentModule,  \* the length of the tag
          used,           \* bytes of LoggerBuff the last message took, 0 included
          stamp,          \* length of its time: 0 when there is no local time
          length,         \* length of the message
          copied          \* characters of it that were copied

loggerVars == <<CurrentModule, used, stamp, length, copied>>

LoggerInit == /\ CurrentModule = RBC_TAG
              /\ used = 0 /\ stamp = 0 /\ length = 0 /\ copied = 0

Least(a, b)    == IF a < b THEN a ELSE b
Greatest(a, b) == IF a >= b THEN a ELSE b

\* Mutant: the length of the time is taken off once.
Room_Once(n, time, current) == Greatest(Buff, n + 1) - current

\* max_length, when the message is about to be appended behind n characters.
Room(n, time, current) == Greatest(Buff, n + 1) - time - current

create_log_message(n, time) ==
  LET current_length == time + Least(CurrentModule, Greatest(Buff, n + 1) - time)
      len == IF n > Room(n, time, current_length) - 1
             THEN Room(n, time, current_length) - 1 ELSE n
  IN  /\ copied' = Greatest(len, 0)
      /\ used' = current_length + Greatest(len, 0) + 2
      /\ stamp' = time /\ length' = n
      /\ UNCHANGED CurrentModule

\* localtime may fail; strftime writes the time otherwise.
log_message == \E n \in Length : \E time \in {0, Stamp} : create_log_message(n, time)

set_robocheck_module == /\ CurrentModule' = RBC_TAG
                        /\ UNCHANGED <<used, stamp, length, copied>>

\* "[%s]" with the name of the tool.
set_running_module == /\ \E t \in Tool : CurrentModule' = t + 2
                      /\ UNCHANGED <<used, stamp, length, copied>>

LoggerNext == log_message \/ set_robocheck_module \/ set_running_module

LoggerSpec == LoggerInit /\ [][LoggerNext]_loggerVars

-----------------------------------------------------------------------------

LogTypeOK == /\ CurrentModule \in Nat /\ used \in Nat
             /\ stamp \in {0, Stamp} /\ length \in Nat /\ copied \in Nat

\* Tags leave room for the time, a space and the final 0.
TagsFit == \A t \in Tool \cup {RBC_TAG} : Stamp + t + 4 <= Buff

(***************************************************************************)
(* A message never overruns LoggerBuff if it has its time and is at most   *)
(* Stamp - 2 characters longer than the buffer.  That much more is safe    *)
(* only because the length of the time is subtracted twice; the limit      *)
(* max_length itself does not stop a message that is longer still.         *)
(***************************************************************************)
BufferKept ==
  TagsFit /\ stamp > 0 /\ length + 2 <= Buff + stamp => used <= Buff

(***************************************************************************)
(* Without a time the message may take one byte more than the buffer has,  *)
(* and never two, up to messages as long as the buffer.                    *)
(***************************************************************************)
OffByOne == TagsFit /\ length < Buff => used <= Buff + 1

(***************************************************************************)
(* A message that fits with room for a second time is copied whole.        *)
(***************************************************************************)
MessageKept ==
  copied < length => used + stamp > Buff

(***************************************************************************)
(* What create_log_message guarantees of LoggerBuff although it counts the *)
(* room it has left in two wrong ways: a message with its time stays       *)
(* inside, one without a time is at most one byte too long, and a message  *)
(* is cut only if a second time would not have fitted behind it.           *)
(***************************************************************************)
MessageFits == BufferKept /\ OffByOne /\ MessageKept
=============================================================================
