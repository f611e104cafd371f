---------------------------- MODULE OutputVector ----------------------------
(***************************************************************************)
(* The vector of collected errors of src/librobocheck.c: the statics       *)
(* __output, __output_size and __output_inc_count, filled by add_range     *)
(* (one call per tool), sorted by sort_output_vector and released by       *)
(* free_output_vector.                                                     *)
(*                                                                         *)
(* Each iteration of a loop is a step.  An allocation may fail, at most    *)
(* MaxFaults times.  Reading a slot outside the allocated block, or        *)
(* through a NULL or never written slot, and writing outside the block are *)
(* undefined behaviour in C: the phase becomes "undefined" and nothing is  *)
(* known of what follows.                                                  *)
(***************************************************************************)
EXTENDS Findings, FiniteSets

CONSTANTS ALLOC_INC,  \* slots of the first block (128 in lib/rbc_constants.h)
          NULL,       \* a slot holding a null pointer
          JUNK,       \* a slot nobody has written
          Lists,      \* lists that tool modules return
          MaxCalls,   \* bound: calls of add_range, one per registered tool
          MaxFaults   \* bound: allocations that fail

ASSUME AllocAssumption == ALLOC_INC \in Nat /\ ALLOC_INC > 3

ASSUME SlotAssumption == NULL \notin Finding /\ JUNK \notin Finding

ASSUME ListsAssumption == Lists \subseteq Seq(Finding)

ASSUME BoundsAssumption == MaxCalls \in Nat /\ MaxFaults \in Nat

VARIABLES
  out,      \* the first __output_size slots
  cap,      \* slots in the block __output points to, 0 when it is NULL
  inc,      \* __output_inc_count
  phase,    \* what the library is doing with the vector
  pending,  \* crs and the list nodes behind it
  si, sj,   \* i and j of sort_output_vector, counted from 1
  calls,    \* calls of add_range
  faults,   \* allocations that have failed
  handed    \* history: the list nodes add_range has been through

vecVars == <<out, cap, inc, phase, pending, si, sj, calls, faults, handed>>

Slot == Finding \cup {NULL, JUNK}

Phase == {"idle", "adding", "sorting", "sorted", "freed", "undefined"}

VecInit == /\ out = <<>> /\ cap = 0 /\ inc = 0
           /\ phase = "idle" /\ pending = <<>>
           /\ si = 1 /\ sj = 2
           /\ calls = 0 /\ faults = 0 /\ handed = {}

-----------------------------------------------------------------------------
(* add_range *)

\* What a reader finds in n slots of a block that was just allocated.
Unwritten(n) == [k \in 1..n |-> JUNK]

\* The head of add_range: allocate the block if there is none, then walk the
\* list if it holds anything.  __output_size is not reset here.
AddRange(l) ==
  /\ phase = "idle"
  /\ calls' = calls + 1
  /\ \/ cap > 0 /\ UNCHANGED <<out, cap, inc>>
     \/ /\ cap = 0
        /\ cap' = ALLOC_INC
        /\ inc' = 1
        /\ out' = Unwritten(Len(out))
  /\ pending' = l
  /\ phase' = IF l = <<>> THEN "idle" ELSE "adding"
  /\ UNCHANGED <<si, sj, faults, handed>>

\* malloc fails: add_range returns and the list is lost.
AddRangeFails(l) ==
  /\ phase = "idle"
  /\ cap = 0 /\ faults < MaxFaults
  /\ calls' = calls + 1
  /\ faults' = faults + 1
  /\ handed' = handed \cup {l[k] : k \in 1..Len(l)}
  /\ UNCHANGED <<out, cap, inc, phase, pending, si, sj>>

\* Mutant: the size test is made without the + 1.
Grow_AtStart == Len(out) % ALLOC_INC = 0

\* (__output_size + 1) % ALLOC_INC == 0
Grow == (Len(out) + 1) % ALLOC_INC = 0

\* The block's size while this node is handled.  realloc is asked for
\* __output_inc_count slots.
SlotsNow == IF Grow THEN inc + 1 ELSE cap

Readable(k) == k <= SlotsNow /\ out[k] \in Finding

\* Mutant: two errors with the same code count as duplicates.
FoundDuplicate_ByCode(f) ==
  \E k \in 1..Len(out) : /\ \A j \in 1..k : Readable(j)
                         /\ f.err_type = out[k].err_type

\* check_for_duplicates returns 1: it stops at the first duplicate.
FoundDuplicate(f) ==
  \E k \in 1..Len(out) : /\ \A j \in 1..k : Readable(j)
                         /\ Duplicate(f, out[k])

\* Mutant: the loop of check_for_duplicates leaves out the last slot.
NoDuplicate_StopsEarly(f) ==
  \A k \in 1..(Len(out) - 1) : Readable(k) /\ ~Duplicate(f, out[k])

\* check_for_duplicates returns 0: it has read every slot.
NoDuplicate(f) ==
  \A k \in 1..Len(out) : Readable(k) /\ ~Duplicate(f, out[k])

\* crs = crs->next; free (tmp)
NextNode ==
  /\ pending' = Tail(pending)
  /\ phase' = IF Tail(pending) = <<>> THEN "idle" ELSE "adding"
  /\ handed' = handed \cup {Head(pending)}

GrowBlock == /\ cap' = SlotsNow
             /\ inc' = IF Grow THEN inc + 1 ELSE inc

\* The slots that survive realloc when it is asked for fewer than there were.
Kept == [k \in 1..Len(out) |-> IF k <= SlotsNow THEN out[k] ELSE JUNK]

SkipNode ==
  /\ phase = "adding"
  /\ FoundDuplicate(Head(pending))
  /\ GrowBlock
  /\ out' = Kept
  /\ NextNode
  /\ UNCHANGED <<si, sj, calls, faults>>

StoreNode ==
  /\ phase = "adding"
  /\ NoDuplicate(Head(pending))
  /\ Len(out) < SlotsNow
  /\ GrowBlock
  /\ \/ out' = Append(out, Head(pending)) /\ UNCHANGED faults
     \/ \* dup_rbc_output finds no memory and returns NULL
        /\ faults < MaxFaults
        /\ out' = Append(out, NULL) /\ faults' = faults + 1
  /\ NextNode
  /\ UNCHANGED <<si, sj, calls>>

\* realloc fails: the block is released, __output_size stays, and the rest
\* of the list is lost.
GrowFails ==
  /\ phase = "adding" /\ Grow /\ faults < MaxFaults
  /\ faults' = faults + 1
  /\ cap' = 0 /\ inc' = inc + 1
  /\ out' = Unwritten(Len(out))
  /\ handed' = handed \cup {pending[k] : k \in 1..Len(pending)}
  /\ pending' = <<>> /\ phase' = "idle"
  /\ UNCHANGED <<si, sj, calls>>

\* The scan or the store leaves the block or meets a slot without an error.
AddOverrun ==
  /\ phase = "adding"
  /\ ~FoundDuplicate(Head(pending))
  /\ NoDuplicate(Head(pending)) => Len(out) >= SlotsNow
  /\ phase' = "undefined"
  /\ UNCHANGED <<out, cap, inc, pending, si, sj, calls, faults, handed>>

-----------------------------------------------------------------------------
(* sort_output_vector and free_output_vector *)

\* Called by update_errors, which has returned already if __output is NULL.
StartSort ==
  /\ phase = "idle" /\ cap > 0
  /\ phase' = "sorting" /\ si' = 1 /\ sj' = 2
  /\ UNCHANGED <<out, cap, inc, pending, calls, faults, handed>>

Exchange(v, i, j) == [v EXCEPT ![i] = v[j], ![j] = v[i]]

\* Slots that sort_output_vector may dereference: NULL ones are skipped.
Sortable(k) == k <= cap /\ out[k] # JUNK

\* Mutant: the comparison is the wrong way round.
OutOfOrder_Descending(i, j) == /\ out[i] # NULL /\ out[j] # NULL
                               /\ out[i].err_type < out[j].err_type

OutOfOrder(i, j) == /\ out[i] # NULL /\ out[j] # NULL
                    /\ out[i].err_type > out[j].err_type

CompareStep ==
  /\ phase = "sorting" /\ si <= Len(out) /\ sj <= Len(out)
  /\ Sortable(si) /\ Sortable(sj)
  /\ out' = IF OutOfOrder(si, sj) THEN Exchange(out, si, sj) ELSE out
  /\ sj' = sj + 1
  /\ UNCHANGED <<cap, inc, phase, pending, si, calls, faults, handed>>

NextRow ==
  /\ phase = "sorting" /\ si <= Len(out) /\ sj > Len(out)
  /\ si' = si + 1 /\ sj' = si + 2
  /\ UNCHANGED <<out, cap, inc, phase, pending, calls, faults, handed>>

SortOverrun ==
  /\ phase = "sorting" /\ si <= Len(out) /\ sj <= Len(out)
  /\ ~(Sortable(si) /\ Sortable(sj))
  /\ phase' = "undefined"
  /\ UNCHANGED <<out, cap, inc, pending, si, sj, calls, faults, handed>>

EndSort ==
  /\ phase = "sorting" /\ si > Len(out)
  /\ phase' = "sorted"
  /\ UNCHANGED <<out, cap, inc, pending, si, sj, calls, faults, handed>>

\* Does nothing when __output is NULL; a slot nobody wrote is freed as if it
\* held a pointer.
FreeVector ==
  /\ phase \in {"idle", "sorted"}
  /\ IF cap = 0
       THEN phase' = "freed" /\ UNCHANGED <<out, cap, inc>>
     ELSE IF \E k \in 1..Len(out) : k > cap \/ out[k] = JUNK
       THEN phase' = "undefined" /\ UNCHANGED <<out, cap, inc>>
     ELSE phase' = "freed" /\ out' = <<>> /\ cap' = 0 /\ inc' = 0
  /\ UNCHANGED <<pending, si, sj, calls, faults, handed>>

-----------------------------------------------------------------------------

AddStep  == SkipNode \/ StoreNode \/ GrowFails \/ AddOverrun
SortStep == CompareStep \/ NextRow \/ SortOverrun \/ EndSort

\* The library makes no step once it has released the vector or has done
\* something undefined.
VecStopped == phase \in {"freed", "undefined"} /\ UNCHANGED vecVars

VecNext == \/ /\ calls < MaxCalls
              /\ \E l \in Lists : AddRange(l) \/ AddRangeFails(l)
           \/ AddStep
           \/ StartSort \/ SortStep
           \/ FreeVector
           \/ VecStopped

VecSpec == VecInit /\ [][VecNext]_vecVars
-----------------------------------------------------------------------------

VecTypeOK == /\ out \in Seq(Slot)
             /\ cap \in Nat /\ inc \in Nat
             /\ phase \in Phase
             /\ pending \in Seq(Finding)
             /\ phase = "adding" => pending # <<>>
             /\ si \in Nat \ {0} /\ sj \in Nat \ {0}
             /\ si < sj
             /\ calls \in Nat /\ faults \in Nat
             /\ handed \subseteq Finding

(***************************************************************************)
(* No two collected errors duplicate each other, whichever tools reported  *)
(* them, in whatever order, and wherever sort_output_vector moves them     *)
(* ("Check for duplicates reported errors. (from different modules)").     *)
(***************************************************************************)
VectorUnique ==
  \A i, j \in 1..Len(out) :
     i # j /\ out[i] \in Finding /\ out[j] \in Finding
       => ~Duplicate(out[i], out[j])

\* No allocation has failed and the first block has never been reallocated.
FirstBlock == faults = 0 /\ inc <= 1

(***************************************************************************)
(* While the first block is in use, every error that add_range has been    *)
(* through is in the vector or duplicates an error of the vector: dropping *)
(* duplicates and sorting lose nothing else.                               *)
(***************************************************************************)
NothingLost ==
  FirstBlock /\ phase \notin {"freed", "undefined"} =>
    \A f \in handed : \E k \in 1..Len(out) :
       out[k] = f \/ Duplicate(f, out[k])

(***************************************************************************)
(* The vector is read and written inside its block and through written     *)
(* slots only, until an allocation fails or ALLOC_INC - 1 errors are       *)
(* collected.  At that limit realloc asks for __output_inc_count slots,    *)
(* not __output_inc_count * ALLOC_INC, so nothing stronger holds.          *)
(***************************************************************************)
UndefinedOnlyAtLimit ==
  phase = "undefined" => faults > 0 \/ Len(out) >= ALLOC_INC - 1

(***************************************************************************)
(* When sort_output_vector returns, error codes ascend: update_errors      *)
(* relies on it to meet each code in one run of neighbours.  NULL slots    *)
(* are skipped by the comparisons and may be anywhere.                     *)
(***************************************************************************)
SortedWhenDone ==
  phase = "sorted" =>
    \A i, j \in 1..Len(out) :
       i < j /\ out[i] \in Finding /\ out[j] \in Finding
         => out[i].err_type <= out[j].err_type

=============================================================================
