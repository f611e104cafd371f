----------------------------- MODULE ApiProofs ------------------------------
(***************************************************************************)
(* Proofs about the API for tool modules: starting a process, for every    *)
(* MAX_BUFF_SIZE, every number of arguments and every length of an         *)
(* argument; and the log's message buffer, for every size of the buffer    *)
(* and every length of the time, the tags and the messages.                *)
(***************************************************************************)
EXTENDS ProcessApi, Logger, TLAPS

(***************************************************************************)
(* ArgumentsFit is inductive only with the control state: the buffer has a *)
(* size as soon as arguments are copied into it.                           *)
(***************************************************************************)
ProcInv == /\ ProcTypeOK
           /\ ArgumentsFit
           /\ BlocksReleased
           /\ pc = "open_process" => ret_string_len = 0 /\ max_len = 0 /\ heap = {}
           /\ pc = "copy" => max_len > 0 /\ heap = {"comm"}
           /\ pc = "task" => stream = "open"

\* The state before open_process satisfies the invariant.
LEMMA ProcInitInv == ProcInit => ProcInv
BY ArgsAssumption
DEF ProcInit, ProcInv, ProcTypeOK, ArgumentsFit, BlocksReleased

\* Every step of the task keeps the invariant; only CopyArg changes the
\* length, and grows the buffer by more than the argument when it must.
LEMMA ProcNextInv == ProcInv /\ [ProcNext]_procVars => ProcInv'
<1> SUFFICES ASSUME ProcInv, [ProcNext]_procVars PROVE ProcInv'
  OBVIOUS
<1> USE BuffAssumption
<1>1. CASE GetMem
  <2>1. ProcTypeOK'
    BY <1>1 DEF GetMem, ProcInv, ProcTypeOK
  <2>2. CASE pc' = "copy"
    <3>1. max_len' = MAX_BUFF_SIZE /\ ret_string_len' = 0 /\ heap' = {"comm"}
      BY <1>1, <2>2 DEF GetMem, ProcInv
    <3> QED
      BY <2>1, <2>2, <3>1 DEF ProcInv, ArgumentsFit, BlocksReleased
  <2>3. CASE pc' = "null"
    <3>1. max_len' = 0 /\ heap' = {}
      BY <1>1, <2>3 DEF GetMem, ProcInv
    <3> QED
      BY <2>1, <2>3, <3>1 DEF ProcInv, ArgumentsFit, BlocksReleased
  <2> QED
    BY <1>1, <2>2, <2>3 DEF GetMem
<1>2. CASE SkipArg
  BY <1>2 DEF SkipArg, copying, ProcInv, ProcTypeOK, ArgumentsFit, BlocksReleased, Short
<1>3. CASE CopyArg
  <2>1. arg \in Nat /\ arg > 0 /\ i \in 0..Len(args) /\ i < Len(args)
    BY <1>3 DEF CopyArg, copying, arg, ProcInv, ProcTypeOK
  <2>2. Short => arg < MAX_BUFF_SIZE
    BY <2>1 DEF Short, arg, ProcInv, ProcTypeOK
  <2>3. ProcTypeOK'
    BY <1>3, <2>1 DEF CopyArg, copying, ProcInv, ProcTypeOK
  <2>4. ArgumentsFit'
    <3>1. Short' <=> Short
      BY <1>3 DEF CopyArg, Short
    <3>2. CASE Exceeds
      BY <1>3, <2>1, <2>2, <3>1, <3>2 DEF CopyArg, copying, ProcInv, ProcTypeOK, ArgumentsFit
    <3>3. CASE ~Exceeds
      BY <1>3, <2>1, <3>3 DEF CopyArg, Exceeds, ProcInv, ProcTypeOK, ArgumentsFit
    <3> QED
      BY <3>2, <3>3
  <2>5. pc' = "copy" /\ max_len' > 0 /\ heap' = {"comm"} /\ stream' = stream
    BY <1>3 DEF CopyArg, copying, ProcInv, ProcTypeOK
  <2> QED
    BY <2>3, <2>4, <2>5 DEF ProcInv, BlocksReleased
<1>4. CASE ReallocFails
  BY <1>4 DEF ReallocFails, copying, ProcInv, ProcTypeOK, ArgumentsFit, BlocksReleased, Short
<1>5. CASE StartProcess
  BY <1>5 DEF StartProcess, ProcInv, ProcTypeOK, ArgumentsFit, BlocksReleased, Short
<1>6. CASE MakeTask
  BY <1>6 DEF MakeTask, ProcInv, ProcTypeOK, ArgumentsFit, BlocksReleased, Short
<1>7. CASE wait_process
  BY <1>7 DEF wait_process, ProcInv, ProcTypeOK, ArgumentsFit, BlocksReleased, Short
<1>8. CASE UNCHANGED procVars
  BY <1>8 DEF procVars, ProcInv, ProcTypeOK, ArgumentsFit, BlocksReleased, Short
<1> QED
  BY <1>1, <1>2, <1>3, <1>4, <1>5, <1>6, <1>7, <1>8 DEF ProcNext

\* The invariant holds in every state of a task.
LEMMA ProcInvariant == ProcSpec => []ProcInv
BY ProcInitInv, ProcNextInv, PTL DEF ProcSpec

(***************************************************************************)
(* make_comm_string stays inside its buffer for every number of arguments  *)
(* shorter than MAX_BUFF_SIZE.                                             *)
(***************************************************************************)
THEOREM ArgumentsAlwaysFit == ProcSpec => []ArgumentsFit
<1>1. ProcInv => ArgumentsFit
  BY DEF ProcInv
<1> QED
  BY <1>1, ProcInvariant, PTL

(***************************************************************************)
(* The command string is freed by open_process, and an open task has the   *)
(* stream that wait_process closes.                                        *)
(***************************************************************************)
THEOREM BlocksAlwaysReleased == ProcSpec => []BlocksReleased
<1>1. ProcInv => BlocksReleased
  BY DEF ProcInv
<1> QED
  BY <1>1, ProcInvariant, PTL

-----------------------------------------------------------------------------
(* The log *)

\* The tag that the next message carries is one TagsFit speaks of.
TagInv == TagsFit => CurrentModule + Stamp + 2 <= Buff

LogInv == LogTypeOK /\ TagInv /\ BufferKept /\ OffByOne /\ MessageKept

\* The buffer is empty at first.
LEMMA LogInitInv == LoggerInit => LogInv
BY LoggerAssumption
DEF LoggerInit, LogInv, LogTypeOK, TagInv, TagsFit, BufferKept, OffByOne, MessageKept

\* One message: the room that is left bounds what is copied.
LEMMA LogMessageInv ==
  ASSUME LogInv, NEW n \in Length, NEW time \in {0, Stamp}, create_log_message(n, time)
  PROVE  LogInv'
<1>1. /\ Buff \in Nat /\ Stamp \in Nat /\ n \in Nat /\ time \in Nat
      /\ CurrentModule \in Nat
  BY LoggerAssumption DEF LogInv, LogTypeOK
<1>2. PICK top \in Nat : /\ top = Greatest(Buff, n + 1)
                         /\ top >= Buff /\ top >= n + 1 /\ (top = Buff \/ top = n + 1)
  BY <1>1 DEF Greatest
<1>3. PICK cur \in Int : /\ cur = time + Least(CurrentModule, top - time)
                         /\ cur <= time + CurrentModule /\ cur <= top
                         /\ cur = time + CurrentModule \/ cur = top
  BY <1>1, <1>2 DEF Least
<1>4. PICK rest \in Int : rest = top - time - cur
  BY <1>1, <1>2, <1>3
<1>5. PICK cop \in Nat : /\ cop = Greatest(IF n > rest - 1 THEN rest - 1 ELSE n, 0)
                         /\ cop <= n
                         /\ cop = 0 \/ cop <= rest - 1
                         /\ cop < n => cop >= rest - 1
  <2>1. CASE n <= rest - 1
    BY <1>1, <1>4, <2>1 DEF Greatest
  <2>2. CASE n > rest - 1 /\ rest - 1 >= 0
    BY <1>1, <1>4, <2>2 DEF Greatest
  <2>3. CASE n > rest - 1 /\ rest - 1 < 0
    BY <1>1, <1>4, <2>3 DEF Greatest
  <2> QED
    BY <1>1, <1>4, <2>1, <2>2, <2>3
<1>6. /\ copied' = cop /\ used' = cur + cop + 2
      /\ stamp' = time /\ length' = n /\ CurrentModule' = CurrentModule
  BY <1>2, <1>3, <1>4, <1>5 DEF create_log_message, Room
<1>7. TagsFit' <=> TagsFit
  BY DEF TagsFit
<1>8. LogTypeOK'
  <2>1. cur >= 0
    BY <1>1, <1>2, <1>3
  <2> QED
    BY <1>1, <1>3, <1>5, <1>6, <2>1 DEF LogTypeOK
<1>9. TagInv'
  BY <1>6, <1>7 DEF LogInv, TagInv
<1>10. BufferKept'
  <2> SUFFICES ASSUME TagsFit, time > 0, n + 2 <= Buff + time
               PROVE  cur + cop + 2 <= Buff
    BY <1>6, <1>7 DEF BufferKept
  <2>1. time = Stamp /\ CurrentModule + Stamp + 2 <= Buff
    BY <1>1 DEF LogInv, TagInv
  <2>2. CASE cop = 0
    BY <1>1, <1>3, <2>1, <2>2
  <2>3. CASE cop <= rest - 1
    BY <1>1, <1>2, <1>4, <2>3
  <2> QED
    BY <1>5, <2>2, <2>3
<1>11. OffByOne'
  <2> SUFFICES ASSUME TagsFit, n < Buff
               PROVE  cur + cop + 2 <= Buff + 1
    BY <1>6, <1>7 DEF OffByOne
  <2>1. CurrentModule + time + 2 <= Buff
    BY <1>1 DEF LogInv, TagInv
  <2>2. CASE cop = 0
    BY <1>1, <1>3, <2>1, <2>2
  <2>3. CASE cop <= rest - 1
    BY <1>1, <1>2, <1>4, <2>3
  <2> QED
    BY <1>5, <2>2, <2>3
<1>12. MessageKept'
  BY <1>1, <1>2, <1>3, <1>4, <1>5, <1>6 DEF MessageKept
<1> QED
  BY <1>8, <1>9, <1>10, <1>11, <1>12 DEF LogInv

\* Every step keeps the invariant.
LEMMA LogNextInv == LogInv /\ [LoggerNext]_loggerVars => LogInv'
<1> SUFFICES ASSUME LogInv, [LoggerNext]_loggerVars PROVE LogInv'
  OBVIOUS
<1>1. CASE log_message
  BY <1>1, LogMessageInv DEF log_message
<1>2. CASE set_robocheck_module
  <2>1. TagInv'
    BY <1>2, LoggerAssumption DEF set_robocheck_module, TagInv, TagsFit
  <2> QED
    BY <1>2, <2>1, LoggerAssumption
    DEF set_robocheck_module, LogInv, LogTypeOK, BufferKept, OffByOne, MessageKept, TagsFit
<1>3. CASE set_running_module
  <2>1. PICK t \in Tool : CurrentModule' = t + 2
    BY <1>3 DEF set_running_module
  <2>2. TagInv'
    BY <2>1, LoggerAssumption DEF TagInv, TagsFit
  <2> QED
    BY <1>3, <2>1, <2>2, LoggerAssumption
    DEF set_running_module, LogInv, LogTypeOK, BufferKept, OffByOne, MessageKept, TagsFit
<1>4. CASE UNCHANGED loggerVars
  BY <1>4 DEF loggerVars, LogInv, LogTypeOK, TagInv, BufferKept, OffByOne, MessageKept, TagsFit
<1> QED
  BY <1>1, <1>2, <1>3, <1>4 DEF LoggerNext

(***************************************************************************)
(* create_log_message stays inside LoggerBuff for every message with a     *)
(* time that is less than Stamp - 1 characters longer than the buffer.     *)
(***************************************************************************)
THEOREM BufferAlwaysKept == LoggerSpec => []BufferKept
<1>1. LogInv => BufferKept
  BY DEF LogInv
<1> QED
  BY <1>1, LogInitInv, LogNextInv, PTL DEF LoggerSpec

(***************************************************************************)
(* Without a time, a message shorter than the buffer takes at most one     *)
(* byte behind it.                                                         *)
(***************************************************************************)
THEOREM OffByAtMostOne == LoggerSpec => []OffByOne
<1>1. LogInv => OffByOne
  BY DEF LogInv
<1> QED
  BY <1>1, LogInitInv, LogNextInv, PTL DEF LoggerSpec

(***************************************************************************)
(* A message is cut only when a second time would not have fitted.         *)
(***************************************************************************)
THEOREM MessageAlwaysKept == LoggerSpec => []MessageKept
<1>1. LogInv => MessageKept
  BY DEF LogInv
<1> QED
  BY <1>1, LogInitInv, LogNextInv, PTL DEF LoggerSpec

(***************************************************************************)
(* The three together, the property of the log's buffer.                   *)
(***************************************************************************)
THEOREM MessageAlwaysFits == LoggerSpec => []MessageFits
<1>1. LogInv => MessageFits
  BY DEF LogInv, MessageFits
<1> QED
  BY <1>1, LogInitInv, LogNextInv, PTL DEF LoggerSpec
=============================================================================
