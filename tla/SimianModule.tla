---------------------------- MODULE SimianModule ----------------------------
(***************************************************************************)
(* The simian module (modules/simian/rbc_simian.c): run_tool gathers the   *)
(* lines of a block of duplicate code into one message, and adds it when a *)
(* later line says "Found".                                                *)
(***************************************************************************)
EXTENDS Naturals, Sequences

CONSTANTS SimianReports,  \* what Simian finds: the blocks, each a sequence of places
          Place,          \* a file name with a range of lines
          FoundIn,        \* the places whose file name contains "Found"
          Room            \* the places that fit into message

ASSUME SimianAssumption == /\ SimianReports \subseteq Seq(Seq(Place))
                           /\ FoundIn \subseteq Place
                           /\ Room \in Nat

VARIABLES blocks,       \* the blocks of this run
          simian_line,  \* the line of OUTPUT_FILE that fgets reads next
          block_msg,    \* node.err_msg: "taken" (0x01) or "open" (NULL)
          message,      \* the places gathered
          simian_errs,  \* the messages added
          simian_pc

simianVars == <<blocks, simian_line, block_msg, message, simian_errs, simian_pc>>

-----------------------------------------------------------------------------
(* What Simian writes: place 0 of a block is its header, "Found ..         *)
(* duplicate lines in the following files:", and the line behind the last  *)
(* block the summary, "Found .. duplicate lines in .. blocks in .. files". *)

BlockLine(b, p) == [block |-> b, place |-> p]
SummaryLine == BlockLine(Len(blocks) + 1, 0)
AfterSummary == BlockLine(Len(blocks) + 1, 1)

IsHeader(l) == l.block <= Len(blocks) /\ l.place = 0
IsBetween(l) == l.block <= Len(blocks) /\ l.place > 0

NextLine(l) ==
  IF l = SummaryLine THEN AfterSummary
  ELSE IF l.place < Len(blocks[l.block]) THEN BlockLine(l.block, l.place + 1)
  ELSE BlockLine(l.block + 1, 0)

-----------------------------------------------------------------------------

SimianInit == /\ blocks \in SimianReports
              /\ simian_line = BlockLine(1, 0)
              /\ block_msg = "taken" /\ message = <<>> /\ simian_errs = <<>>
              /\ simian_pc = "read"

\* fgets
SimianReads == /\ simian_pc = "read" /\ simian_line # AfterSummary
               /\ simian_line' = NextLine(simian_line)

place == blocks[simian_line.block][simian_line.place]

\* strstr(line, "Found")
SaysFound == IsBetween(simian_line) => place \in FoundIn

\* The first test: an open message is added.
Flushes == SaysFound /\ block_msg = "open"
Flush == simian_errs' = IF Flushes THEN Append(simian_errs, message) ELSE simian_errs
Taken == Flushes \/ block_msg = "taken"

\* Mutant: message is not emptied.
OpenBlock_NoMemset ==
  /\ SimianReads /\ IsHeader(simian_line) /\ Taken
  /\ Flush
  /\ block_msg' = "open"
  /\ UNCHANGED <<blocks, message, simian_pc>>

OpenBlock ==
  /\ SimianReads /\ IsHeader(simian_line) /\ Taken
  /\ Flush
  /\ block_msg' = "open" /\ message' = <<>>
  /\ UNCHANGED <<blocks, simian_pc>>

\* sprintf(message + strlen(message), ..): nothing keeps it inside message.
AddPlace ==
  /\ SimianReads /\ IsBetween(simian_line) /\ ~Taken
  /\ message' = Append(message, place)
  /\ simian_pc' = IF Len(message) < Room THEN "read" ELSE "undefined"
  /\ UNCHANGED <<blocks, block_msg, simian_errs>>

SkipLine ==
  /\ SimianReads
  /\ \/ simian_line = SummaryLine
     \/ IsBetween(simian_line) /\ Taken
  /\ Flush
  /\ block_msg' = IF Taken THEN "taken" ELSE block_msg
  /\ UNCHANGED <<blocks, message, simian_pc>>

\* fgets returns NULL, behind the summary or where Simian was stopped between
\* two lines: a message that is still open is dropped.
EndOfFile ==
  /\ simian_pc = "read"
  /\ simian_pc' = "done"
  /\ UNCHANGED <<blocks, simian_line, block_msg, message, simian_errs>>

SimianStopped == simian_pc # "read" /\ UNCHANGED simianVars

SimianNext == OpenBlock \/ AddPlace \/ SkipLine \/ EndOfFile \/ SimianStopped

SimianSpec == SimianInit /\ [][SimianNext]_simianVars

-----------------------------------------------------------------------------

Complete == simian_line = AfterSummary
\* The blocks of which a later line was written.
Closed == {n \in 1..Len(blocks) :
             \/ simian_line.block > n + 1
             \/ simian_line.block = n + 1 /\ simian_line.place > 0}
StartOf(s, t) == Len(s) <= Len(t) /\ \A n \in 1..Len(s) : s[n] = t[n]
NoFoundName ==
  \A n \in 1..Len(blocks) : \A m \in 1..Len(blocks[n]) : blocks[n][m] \notin FoundIn

(***************************************************************************)
(* Every block that another line saying "Found" follows becomes one error, *)
(* whole and in order: all of them if Simian wrote its summary, and all    *)
(* but the last if its output was cut short.  Two conditions: no file has  *)
(* "Found" in its name, as such a line ends its own block, and every block *)
(* fits into message.                                                      *)
(***************************************************************************)
SimianReadsAll ==
  simian_pc # "read" /\ NoFoundName /\ (\A n \in 1..Len(blocks) : Len(blocks[n]) <= Room) =>
    /\ simian_pc = "done"
    /\ simian_errs = [n \in Closed |-> blocks[n]]
    /\ Complete => simian_errs = blocks

(***************************************************************************)
(* Whatever the files are called and wherever the output ends, an error is *)
(* the beginning of one block, and never mixes places of two: message is   *)
(* emptied at every header that is heeded.                                 *)
(***************************************************************************)
SimianBlocksApart ==
  /\ Len(simian_errs) <= Len(blocks)
  /\ \A n \in 1..Len(simian_errs) : StartOf(simian_errs[n], blocks[n])

(***************************************************************************)
(* The errors run_tool takes from Simian's output are the duplicated       *)
(* blocks: complete ones each whole, and never two in one.                 *)
(***************************************************************************)
SimianFaithful == SimianReadsAll /\ SimianBlocksApart

(***************************************************************************)
(* Claim, above run_tool: it parses Simian's output "in order to extract   *)
(* all the errors reported by the tool", whatever the files are called.    *)
(***************************************************************************)
SimianExtractsAll == simian_pc = "done" /\ Complete => simian_errs = blocks
=============================================================================
