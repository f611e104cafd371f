--------------------------- MODULE LibraryProofs ----------------------------
(***************************************************************************)
(* Proofs about the libraries robocheck is built from.  Collecting errors: *)
(* the lists tool modules build, for every set of errors and every number  *)
(* of reports; and the vector of collected errors, for every ALLOC_INC,    *)
(* every set of lists and every number of calls and failed allocations.    *)
(* The penalty library, for every table size, every content of the         *)
(* <errors> node and every number of failed allocations.                   *)
(***************************************************************************)
EXTENDS ToolList, OutputVector, Penalty, TLAPS

ListInv == ListTypeOK /\ ListUnique /\ SizeCoversList

\* The list after add: the nodes before the stop, then the new node.
LEMMA CutFacts ==
  ASSUME NEW S, NEW l \in Seq(S), NEW node \in S, NEW k \in 1..(Len(l) + 1)
  PROVE  LET m == Append(SubSeq(l, 1, k - 1), node)
         IN  /\ m \in Seq(S)
             /\ Len(m) = k
             /\ \A j \in 1..(k - 1) : m[j] = l[j]
             /\ m[k] = node
<1>. DEFINE c == SubSeq(l, 1, k - 1)
<1>1. Len(l) \in Nat /\ k \in Nat /\ k - 1 \in Nat /\ k - 1 <= Len(l)
  OBVIOUS
<1>2. /\ c \in Seq(S)
      /\ Len(c) = k - 1
      /\ \A j \in 1..(k - 1) : c[j] = l[j]
  BY <1>1
<1>. HIDE DEF c
<1>3. /\ Append(c, node) \in Seq(S)
      /\ Len(Append(c, node)) = k
      /\ \A j \in 1..(k - 1) : Append(c, node)[j] = l[j]
      /\ Append(c, node)[k] = node
  BY <1>1, <1>2
<1>. QED
  BY <1>3 DEF c

\* A call of add keeps the list typed and free of duplicates, and its size
\* field no smaller than its length.
LEMMA AddPreserves ==
  ASSUME ListInv, NEW node \in Finding, add(node)
  PROVE  ListInv'
<1>. USE DEF ListInv
<1>1. PICK k \in 1..(Len(list) + 1) :
        /\ StopsAt(list, node, k)
        /\ list' = Append(SubSeq(list, 1, k - 1), node)
        /\ size' = IF k = 1 THEN 1 ELSE size + 1
  BY DEF add
<1>2. list \in Seq(Finding) /\ Len(list) \in Nat /\ size \in Nat
  BY DEF ListTypeOK
<1>3. /\ list' \in Seq(Finding)
      /\ Len(list') = k
      /\ \A j \in 1..(k - 1) : list'[j] = list[j]
      /\ list'[k] = node
  BY <1>1, <1>2, CutFacts
<1>4. ListTypeOK'
  BY <1>1, <1>2, <1>3 DEF ListTypeOK, add
<1>5. ListUnique'
  <2>1. ASSUME NEW i \in 1..(k - 1), NEW j \in 1..(k - 1), i < j
        PROVE  ~Duplicate(list'[i], list'[j])
    <3>1. i \in 1..Len(list) /\ j \in 1..Len(list)
      BY <1>2
    <3>2. list'[i] = list[i] /\ list'[j] = list[j]
      BY <1>3
    <3>. QED
      BY <2>1, <3>1, <3>2 DEF ListUnique
  <2>2. \A i \in 1..(k - 1) : ~Duplicate(list'[i], list'[k])
    BY <1>1, <1>3 DEF StopsAt
  <2>. QED
    BY <1>2, <1>3, <2>1, <2>2 DEF ListUnique
<1>6. SizeCoversList'
  BY <1>1, <1>2, <1>3 DEF SizeCoversList
<1>. QED
  BY <1>4, <1>5, <1>6

(***************************************************************************)
(* Whatever a module reports and in whatever order, its list stays typed   *)
(* and free of duplicates, and the head's size stays at least its length.  *)
(***************************************************************************)
THEOREM ListInvariant == ListSpec => []ListInv
<1>1. ListInit => ListInv
  BY DEF ListInit, ListInv, ListTypeOK, ListUnique, SizeCoversList
<1>2. ListInv /\ [ListNext]_listVars => ListInv'
  <2>1. ASSUME ListInv, ListNext PROVE ListInv'
    BY <2>1, AddPreserves DEF ListNext
  <2>2. ASSUME ListInv, UNCHANGED listVars PROVE ListInv'
    BY <2>2 DEF listVars, ListInv, ListTypeOK, ListUnique, SizeCoversList
  <2>. QED
    BY <2>1, <2>2
<1>. QED
  BY <1>1, <1>2, PTL DEF ListSpec

(***************************************************************************)
(* For any reports in any order: two nodes of a module's list never        *)
(* duplicate each other, as add compares the new node with every node it   *)
(* keeps, and add_range's test output->size > 0 is true exactly of the     *)
(* lists that hold errors, although add's truncation leaves size and       *)
(* length apart.                                                           *)
(***************************************************************************)
THEOREM ListAlwaysKept == ListSpec => []ListKept
<1>1. ListInv => ListKept
  BY DEF ListInv, ListKept
<1>. QED
  BY <1>1, ListInvariant, PTL

-----------------------------------------------------------------------------
(* The vector *)

\* Phases in which the vector's slots mean something.
Live == phase \notin {"freed", "undefined"}

\* In the first block every slot below __output_size has been written, and
\* there is room for one more error unless the limit is reached.
BlockInv ==
  /\ FirstBlock /\ Live =>
       /\ \A k \in 1..Len(out) : out[k] \in Finding
       /\ cap # 0 => cap = ALLOC_INC /\ inc = 1 /\ Len(out) < ALLOC_INC
  /\ faults = 0 /\ Live /\ cap = 0 => inc = 0 /\ out = <<>>
  /\ phase = "adding" => cap > 0

\* realloc has been called only at the limit.
LimitInv == faults = 0 /\ inc > 1 => Len(out) >= ALLOC_INC - 1

\* A block that realloc has cut shows it: a slot of the vector is unwritten.
ShrunkInv == faults = 0 /\ inc > 1 /\ Live => \E k \in 1..Len(out) : out[k] = JUNK

Ordered(a, b) == a \in Finding /\ b \in Finding => a.err_type <= b.err_type

\* Rows before si are final; slot si is a minimum of what it was compared to.
SortInv ==
  /\ phase = "sorting" =>
       \A i, j \in 1..Len(out) :
          i < j /\ (i < si \/ (i = si /\ j < sj)) => Ordered(out[i], out[j])
  /\ phase = "sorted" =>
       \A i, j \in 1..Len(out) : i < j => Ordered(out[i], out[j])

VecInv == /\ VecTypeOK
          /\ VectorUnique
          /\ BlockInv
          /\ NothingLost
          /\ LimitInv
          /\ UndefinedOnlyAtLimit
          /\ SortInv

-----------------------------------------------------------------------------

\* cmp_msg_file does not depend on the order of its arguments.
LEMMA DuplicateSymmetric ==
  ASSUME NEW a, NEW b, Duplicate(a, b)
  PROVE  Duplicate(b, a)
BY DEF Duplicate, cmp_msg_file, SameName

\* Fresh slots: as many as before, none of them an error.
LEMMA UnwrittenFacts ==
  ASSUME NEW n \in Nat
  PROVE  /\ Unwritten(n) \in Seq(Slot)
         /\ Len(Unwritten(n)) = n
         /\ \A k \in 1..n : Unwritten(n)[k] = JUNK
BY DEF Unwritten, Slot

\* realloc to fewer slots keeps the length of the vector and every slot that
\* is still inside the block; the others are unwritten.
LEMMA KeptFacts ==
  ASSUME out \in Seq(Slot)
  PROVE  /\ Kept \in Seq(Slot)
         /\ Len(Kept) = Len(out)
         /\ \A k \in 1..Len(out) : Kept[k] = out[k] \/ Kept[k] = JUNK
         /\ \A k \in 1..Len(out) : k <= SlotsNow => Kept[k] = out[k]
<1>1. Len(out) \in Nat /\ \A k \in 1..Len(out) : out[k] \in Slot
  OBVIOUS
<1>. DEFINE w == [k \in 1..Len(out) |-> IF k <= SlotsNow THEN out[k] ELSE JUNK]
<1>2. \A k \in 1..Len(out) : w[k] \in Slot
  BY <1>1 DEF Slot
<1>3. w \in Seq(Slot) /\ Len(w) = Len(out)
  BY <1>1, <1>2
<1>. QED
  BY <1>3 DEF Kept

\* The vector is reallocated only when it holds ALLOC_INC - 1 errors or more.
LEMMA GrowAtLimit ==
  ASSUME out \in Seq(Slot), Grow
  PROVE  Len(out) >= ALLOC_INC - 1
<1>1. Len(out) \in Nat
  OBVIOUS
<1>. QED
  BY <1>1, AllocAssumption DEF Grow

\* Appending keeps the slots there were and puts the new one last.
LEMMA AppendFacts ==
  ASSUME NEW S, NEW v \in Seq(S), NEW e \in S
  PROVE  /\ Append(v, e) \in Seq(S)
         /\ Len(Append(v, e)) = Len(v) + 1
         /\ \A k \in 1..Len(v) : Append(v, e)[k] = v[k]
         /\ Append(v, e)[Len(v) + 1] = e
OBVIOUS

-----------------------------------------------------------------------------

\* The library starts without a block, in a state that satisfies VecInv.
LEMMA InitEstablishes == VecInit => VecInv
BY DEF VecInit, VecInv, VecTypeOK, Phase, VectorUnique, BlockInv, NothingLost,
       LimitInv, UndefinedOnlyAtLimit, SortInv

\* Nothing a reader of the vector looks at has changed.
LEMMA StutterPreserves ==
  ASSUME VecInv, UNCHANGED vecVars
  PROVE  VecInv'
BY DEF vecVars, VecInv, VecTypeOK, VectorUnique, FirstBlock, Live, BlockInv,
       NothingLost, LimitInv, UndefinedOnlyAtLimit, SortInv

\* Allocating the first block, or going on with the one there is, keeps VecInv:
\* without a failure a new block is only allocated for an empty vector.
LEMMA AddRangePreserves ==
  ASSUME VecInv, NEW l \in Seq(Finding), AddRange(l)
  PROVE  VecInv'
<1>. USE DEF VecInv, VecTypeOK
<1>1. CASE cap > 0 /\ UNCHANGED <<out, cap, inc>>
  BY <1>1 DEF AddRange, Phase, VectorUnique, FirstBlock, Live, BlockInv,
     NothingLost, LimitInv, UndefinedOnlyAtLimit, SortInv
<1>2. CASE /\ cap = 0 /\ cap' = ALLOC_INC /\ inc' = 1
           /\ out' = Unwritten(Len(out))
  <2>1. /\ out' \in Seq(Slot) /\ Len(out') = Len(out)
        /\ \A k \in 1..Len(out') : out'[k] = JUNK
    BY <1>2, UnwrittenFacts
  <2>2. VecTypeOK'
    BY <1>2, <2>1, AllocAssumption DEF AddRange, Phase
  <2>3. VectorUnique'
    BY <2>1, SlotAssumption DEF VectorUnique
  <2>4. FirstBlock' /\ Live' => out = <<>> /\ FirstBlock /\ Live
    BY <1>2, AllocAssumption DEF AddRange, FirstBlock, Live, BlockInv,
       UndefinedOnlyAtLimit, LimitInv
  <2>5. out = <<>> => out' = <<>>
    BY <2>1
  <2>6. BlockInv' /\ NothingLost'
    BY <1>2, <2>1, <2>4, <2>5, AllocAssumption
       DEF AddRange, BlockInv, NothingLost, FirstBlock, Live
  <2>7. LimitInv' /\ UndefinedOnlyAtLimit' /\ SortInv'
    BY <1>2, <2>1 DEF AddRange, LimitInv, UndefinedOnlyAtLimit, SortInv
  <2>. QED
    BY <2>2, <2>3, <2>6, <2>7
<1>. QED
  BY <1>1, <1>2 DEF AddRange

\* A failed first allocation loses the list and changes no slot.
LEMMA AddRangeFailsPreserves ==
  ASSUME VecInv, NEW l \in Seq(Finding), AddRangeFails(l)
  PROVE  VecInv'
<1>1. \A k \in 1..Len(l) : l[k] \in Finding
  OBVIOUS
<1>. QED
  BY <1>1 DEF AddRangeFails, VecInv, VecTypeOK, Phase, VectorUnique, FirstBlock,
     Live, BlockInv, NothingLost, LimitInv, UndefinedOnlyAtLimit, SortInv

\* Dropping a duplicate keeps VecInv: the error it duplicates stays, unless
\* realloc has just cut the block at the limit.
LEMMA SkipNodePreserves ==
  ASSUME VecInv, SkipNode
  PROVE  VecInv'
<1>. USE DEF VecInv, VecTypeOK
<1>1. /\ out' \in Seq(Slot) /\ Len(out') = Len(out) /\ Len(out) \in Nat
      /\ \A k \in 1..Len(out) : out'[k] = out[k] \/ out'[k] = JUNK
      /\ \A k \in 1..Len(out) : k <= SlotsNow => out'[k] = out[k]
  <2>1. out \in Seq(Slot) /\ out' = Kept
    BY DEF SkipNode
  <2>2. Len(out) \in Nat
    BY <2>1
  <2>. QED
    BY <2>1, <2>2, KeptFacts
<1>2. /\ Head(pending) \in Finding /\ pending' \in Seq(Finding)
      /\ phase' = "adding" => pending' # <<>>
      /\ phase' \in {"idle", "adding"}
  BY DEF SkipNode, NextNode
<1>3. SlotsNow \in Nat /\ inc' \in Nat /\ cap' = SlotsNow
  BY DEF SkipNode, GrowBlock, SlotsNow
<1>4. VecTypeOK'
  BY <1>1, <1>2, <1>3 DEF SkipNode, NextNode, Phase
<1>5. VectorUnique'
  BY <1>1, SlotAssumption DEF VectorUnique
<1>6. FirstBlock' => FirstBlock /\ ~Grow /\ cap' = cap /\ inc' = inc
  <2>1. CASE Grow
    <3>1. Len(out) >= ALLOC_INC - 1
      BY <2>1, GrowAtLimit
    <3>2. FirstBlock' => faults = 0 /\ inc = 0
      BY <2>1 DEF FirstBlock, SkipNode, GrowBlock
    <3>3. FirstBlock' => out # <<>>
      BY <3>1, AllocAssumption
    <3>. QED
      BY <3>1, <3>2, <3>3, AllocAssumption DEF BlockInv, FirstBlock, Live, SkipNode
  <2>. QED
    BY <2>1 DEF FirstBlock, SkipNode, GrowBlock, SlotsNow
<1>7. FirstBlock' => out' = out
  <2>1. FirstBlock' => \A k \in 1..Len(out) : k <= SlotsNow
    BY <1>1, <1>6, AllocAssumption DEF BlockInv, Live, SkipNode, SlotsNow
  <2>. QED
    BY <2>1, <1>1
<1>8. BlockInv'
  BY <1>1, <1>3, <1>6, <1>7 DEF BlockInv, FirstBlock, Live, SkipNode, GrowBlock, SlotsNow
<1>9. NothingLost'
  <2>1. FirstBlock' => \E k \in 1..Len(out) : Duplicate(Head(pending), out[k])
    BY DEF SkipNode, FoundDuplicate
  <2>. QED
    BY <2>1, <1>6, <1>7 DEF NothingLost, SkipNode, NextNode
<1>10. LimitInv'
  <2>1. CASE Grow
    BY <2>1, <1>1, GrowAtLimit, AllocAssumption DEF LimitInv
  <2>2. CASE ~Grow
    BY <2>2, <1>1, AllocAssumption DEF LimitInv, SkipNode, GrowBlock
  <2>. QED
    BY <2>1, <2>2
<1>11. UndefinedOnlyAtLimit' /\ SortInv'
  BY <1>2 DEF UndefinedOnlyAtLimit, SortInv
<1>. QED
  BY <1>4, <1>5, <1>8, <1>9, <1>10, <1>11

\* Storing an error that check_for_duplicates let through keeps VecInv: it
\* duplicates no slot and there was room for it.
LEMMA StoreNodePreserves ==
  ASSUME VecInv, StoreNode
  PROVE  VecInv'
<1>. USE DEF VecInv, VecTypeOK
<1>. DEFINE f == Head(pending)
<1>1. /\ f \in Finding /\ pending' \in Seq(Finding)
      /\ phase' = "adding" => pending' # <<>>
      /\ phase' \in {"idle", "adding"}
  BY DEF StoreNode, NextNode
<1>2. PICK e \in {f, NULL} : out' = Append(out, e)
  BY DEF StoreNode
<1>3. e \in Slot
  BY <1>1 DEF Slot
<1>4. /\ out' \in Seq(Slot) /\ Len(out') = Len(out) + 1 /\ Len(out) \in Nat
      /\ \A k \in 1..Len(out) : out'[k] = out[k]
      /\ out'[Len(out) + 1] = e
  BY <1>2, <1>3, AppendFacts
<1>5. SlotsNow \in Nat /\ inc' \in Nat /\ cap' = SlotsNow
  BY DEF StoreNode, GrowBlock, SlotsNow
<1>6. VecTypeOK'
  BY <1>1, <1>4, <1>5 DEF StoreNode, NextNode, Phase
<1>7. VectorUnique'
  <2>1. \A k \in 1..Len(out) : ~Duplicate(f, out[k]) /\ ~Duplicate(out[k], f)
    BY DuplicateSymmetric DEF StoreNode, NoDuplicate
  <2>2. e \in Finding => e = f
    BY SlotAssumption
  <2>. QED
    BY <1>4, <2>1, <2>2 DEF VectorUnique
<1>8. FirstBlock' => /\ FirstBlock /\ ~Grow /\ cap' = cap /\ inc' = inc
                     /\ cap # 0
  <2>1. CASE Grow
    <3>1. Len(out) >= ALLOC_INC - 1
      BY <2>1, GrowAtLimit
    <3>2. FirstBlock' => faults = 0 /\ inc = 0
      BY <2>1 DEF FirstBlock, StoreNode, GrowBlock
    <3>3. FirstBlock' => out # <<>>
      BY <3>1, AllocAssumption
    <3>. QED
      BY <3>1, <3>2, <3>3, AllocAssumption DEF BlockInv, FirstBlock, Live, StoreNode
  <2>. QED
    BY <2>1, <1>4 DEF FirstBlock, StoreNode, GrowBlock, SlotsNow
<1>9. FirstBlock' => e = f
  BY <1>2, <1>8, SlotAssumption, <1>1, <1>4 DEF FirstBlock, StoreNode
<1>10. BlockInv'
  <2>1. ~Grow /\ Len(out) < ALLOC_INC => Len(out) + 1 < ALLOC_INC
    BY <1>4, AllocAssumption DEF Grow
  <2>2. FirstBlock' => \A k \in 1..Len(out') : out'[k] \in Finding
    BY <1>1, <1>4, <1>8, <1>9 DEF BlockInv, Live, StoreNode
  <2>3. cap' # 0
    BY <1>4, <1>5 DEF StoreNode
  <2>4. FirstBlock' => cap' = ALLOC_INC /\ inc' = 1 /\ Len(out') < ALLOC_INC
    BY <1>4, <1>8, <2>1 DEF BlockInv, Live, StoreNode
  <2>. QED
    BY <1>5, <2>2, <2>3, <2>4 DEF BlockInv
<1>11. NothingLost'
  BY <1>4, <1>8, <1>9 DEF NothingLost, StoreNode, NextNode
<1>12. LimitInv'
  <2>1. CASE Grow
    <3>1. Len(out) >= ALLOC_INC - 1
      BY <2>1, GrowAtLimit
    <3>. QED
      BY <3>1, <1>4, AllocAssumption DEF LimitInv
  <2>2. CASE ~Grow
    BY <2>2, <1>4, AllocAssumption DEF LimitInv, StoreNode, GrowBlock
  <2>. QED
    BY <2>1, <2>2
<1>13. UndefinedOnlyAtLimit' /\ SortInv'
  BY <1>1 DEF UndefinedOnlyAtLimit, SortInv
<1>. QED
  BY <1>6, <1>7, <1>10, <1>11, <1>12, <1>13

\* A failed realloc leaves no error to be read, and has counted as a fault.
LEMMA GrowFailsPreserves ==
  ASSUME VecInv, GrowFails
  PROVE  VecInv'
<1>. USE DEF VecInv, VecTypeOK
<1>1. /\ out' \in Seq(Slot) /\ Len(out') = Len(out)
      /\ \A k \in 1..Len(out') : out'[k] = JUNK
  BY UnwrittenFacts DEF GrowFails
<1>2. \A k \in 1..Len(pending) : pending[k] \in Finding
  OBVIOUS
<1>3. VecTypeOK'
  BY <1>1, <1>2 DEF GrowFails, Phase
<1>4. VectorUnique'
  BY <1>1, SlotAssumption DEF VectorUnique
<1>5. faults' # 0 /\ phase' = "idle"
  BY DEF GrowFails
<1>. QED
  BY <1>3, <1>4, <1>5 DEF BlockInv, NothingLost, FirstBlock, LimitInv,
     UndefinedOnlyAtLimit, SortInv

\* add_range leaves the block only at the limit or after a fault: in the first
\* block every slot is readable and there is room.
LEMMA AddOverrunPreserves ==
  ASSUME VecInv, AddOverrun
  PROVE  VecInv'
<1>. USE DEF VecInv, VecTypeOK
<1>1. UndefinedOnlyAtLimit'
  <2>1. SUFFICES ASSUME faults = 0, Len(out) < ALLOC_INC - 1
                 PROVE  FALSE
    BY AllocAssumption DEF AddOverrun, UndefinedOnlyAtLimit
  <2>2. FirstBlock /\ Live
    BY <2>1, AllocAssumption DEF LimitInv, FirstBlock, AddOverrun, Live
  <2>3. ~Grow
    <3>1. Len(out) \in Nat /\ ALLOC_INC \in Nat
      BY AllocAssumption
    <3>. QED
      BY <2>1, <3>1, GrowAtLimit
  <2>4. \A k \in 1..Len(out) : out[k] \in Finding
    BY <2>2 DEF BlockInv
  <2>5. cap # 0
    BY DEF AddOverrun, BlockInv
  <2>6. \A k \in 1..Len(out) : Readable(k)
    BY <2>1, <2>2, <2>3, <2>4, <2>5 DEF Readable, SlotsNow, BlockInv
  <2>7. NoDuplicate(Head(pending)) /\ Len(out) < SlotsNow
    BY <2>1, <2>2, <2>3, <2>5, <2>6
       DEF AddOverrun, FoundDuplicate, NoDuplicate, SlotsNow, BlockInv
  <2>8. SlotsNow \in Nat /\ Len(out) \in Nat
    BY DEF SlotsNow
  <2>. QED
    BY <2>7, <2>8 DEF AddOverrun
<1>. QED
  BY <1>1 DEF AddOverrun, Phase, VectorUnique, BlockInv, NothingLost, FirstBlock,
     Live, LimitInv, SortInv

-----------------------------------------------------------------------------

\* Starting the sort claims nothing yet about the order of slots.
LEMMA StartSortPreserves ==
  ASSUME VecInv, StartSort
  PROVE  VecInv'
BY DEF StartSort, VecInv, VecTypeOK, Phase, VectorUnique, BlockInv, NothingLost,
   FirstBlock, Live, LimitInv, UndefinedOnlyAtLimit, SortInv

\* At the end of a row slot si is a minimum of the slots behind it.
LEMMA NextRowPreserves ==
  ASSUME VecInv, NextRow
  PROVE  VecInv'
<1>. USE DEF VecInv, VecTypeOK
<1>1. SortInv'
  BY DEF NextRow, SortInv
<1>. QED
  BY <1>1 DEF NextRow, Phase, VectorUnique, BlockInv, NothingLost, FirstBlock,
     Live, LimitInv, UndefinedOnlyAtLimit

\* After the last row every pair is in order.
LEMMA EndSortPreserves ==
  ASSUME VecInv, EndSort
  PROVE  VecInv'
<1>. USE DEF VecInv, VecTypeOK
<1>1. SortInv'
  BY DEF EndSort, SortInv
<1>. QED
  BY <1>1 DEF EndSort, Phase, VectorUnique, BlockInv, NothingLost, FirstBlock,
     Live, LimitInv, UndefinedOnlyAtLimit

\* The sort meets an unreadable slot only at the limit or after a fault.
LEMMA SortOverrunPreserves ==
  ASSUME VecInv, SortOverrun
  PROVE  VecInv'
<1>. USE DEF VecInv, VecTypeOK
<1>1. UndefinedOnlyAtLimit'
  <2>1. SUFFICES ASSUME faults = 0, Len(out) < ALLOC_INC - 1
                 PROVE  FALSE
    BY AllocAssumption DEF SortOverrun, UndefinedOnlyAtLimit
  <2>2. FirstBlock /\ Live
    BY <2>1, AllocAssumption DEF LimitInv, FirstBlock, SortOverrun, Live
  <2>3. out # <<>>
    BY DEF SortOverrun
  <2>4. cap = ALLOC_INC
    BY <2>2, <2>3 DEF BlockInv, FirstBlock
  <2>5. \A k \in 1..Len(out) : Sortable(k)
    BY <2>1, <2>2, <2>4, SlotAssumption, AllocAssumption DEF Sortable, BlockInv
  <2>. QED
    BY <2>5 DEF SortOverrun
<1>. QED
  BY <1>1 DEF SortOverrun, Phase, VectorUnique, BlockInv, NothingLost, FirstBlock,
     Live, LimitInv, SortInv

\* An exchange keeps the finished rows, and slot si becomes a minimum of the
\* slots compared with it so far.
LEMMA CompareStepPreserves ==
  ASSUME VecInv, CompareStep
  PROVE  VecInv'
<1>. USE DEF VecInv, VecTypeOK
<1>1. CASE ~OutOfOrder(si, sj)
  <2>1. out' = out
    BY <1>1 DEF CompareStep
  <2>2. Ordered(out[si], out[sj])
    <3>1. \A x \in Finding : x.err_type \in Nat
      BY ErrTypeAssumption DEF Finding
    <3>. QED
      BY <1>1, <3>1, SlotAssumption DEF OutOfOrder, Ordered
  <2>3. SortInv'
    BY <2>1, <2>2 DEF CompareStep, SortInv
  <2>. QED
    BY <2>1, <2>3 DEF CompareStep, Phase, VectorUnique, BlockInv, NothingLost,
       FirstBlock, Live, LimitInv, UndefinedOnlyAtLimit
<1>2. CASE OutOfOrder(si, sj)
  <2>1. /\ si \in 1..Len(out) /\ sj \in 1..Len(out) /\ si # sj
        /\ out' = Exchange(out, si, sj) /\ out \in Seq(Slot)
    BY <1>2 DEF CompareStep
  <2>2. /\ out' \in Seq(Slot) /\ Len(out') = Len(out)
        /\ out'[si] = out[sj] /\ out'[sj] = out[si]
        /\ \A k \in 1..Len(out) : k # si /\ k # sj => out'[k] = out[k]
    BY <2>1 DEF Exchange
  <2>3. /\ out[si] \in Finding /\ out[sj] \in Finding
        /\ out[si].err_type \in Nat /\ out[sj].err_type \in Nat
        /\ out[si].err_type > out[sj].err_type
    <3>1. out[si] \in Slot /\ out[sj] \in Slot
      BY <2>1
    <3>2. out[si] \in Finding /\ out[sj] \in Finding
      BY <1>2, <3>1 DEF OutOfOrder, CompareStep, Sortable, Slot
    <3>. QED
      BY <1>2, <3>2, ErrTypeAssumption DEF OutOfOrder, Finding
  <2>4. VecTypeOK'
    BY <2>2 DEF CompareStep, Phase
  <2>5. VectorUnique'
    <3>1. \A i, j \in 1..Len(out) :
            i # j => \E k, m \in 1..Len(out) :
                       k # m /\ out'[i] = out[k] /\ out'[j] = out[m]
      <4>. TAKE i, j \in 1..Len(out)
      <4>. DEFINE from(n) == IF n = si THEN sj ELSE IF n = sj THEN si ELSE n
      <4>1. \A n \in 1..Len(out) : from(n) \in 1..Len(out) /\ out'[n] = out[from(n)]
        BY <2>1, <2>2
      <4>2. i # j => from(i) # from(j)
        BY <2>1
      <4>. HIDE DEF from
      <4>. QED
        BY <4>1, <4>2
    <3>2. SUFFICES ASSUME NEW i \in 1..Len(out), NEW j \in 1..Len(out), i # j,
                          out'[i] \in Finding, out'[j] \in Finding
                   PROVE  ~Duplicate(out'[i], out'[j])
      BY <2>2 DEF VectorUnique
    <3>3. PICK k, m \in 1..Len(out) :
            k # m /\ out'[i] = out[k] /\ out'[j] = out[m]
      BY <3>1, <3>2
    <3>. QED
      BY <3>2, <3>3 DEF VectorUnique
  <2>6. BlockInv'
    BY <2>1, <2>2, <2>3 DEF CompareStep, BlockInv, FirstBlock, Live
  <2>7. NothingLost'
    <3>1. \A k \in 1..Len(out) : \E m \in 1..Len(out') : out'[m] = out[k]
      BY <2>1, <2>2
    <3>. QED
      BY <3>1 DEF CompareStep, NothingLost, FirstBlock
  <2>8. LimitInv' /\ UndefinedOnlyAtLimit'
    BY <2>2 DEF CompareStep, LimitInv, UndefinedOnlyAtLimit
  <2>9. SortInv'
    <3>1. SUFFICES ASSUME NEW i \in 1..Len(out), NEW j \in 1..Len(out), i < j,
                          i < si \/ (i = si /\ j < sj + 1)
                   PROVE  Ordered(out'[i], out'[j])
      BY <2>2 DEF CompareStep, SortInv
    <3>2. \A x \in Finding : x.err_type \in Nat
      BY ErrTypeAssumption DEF Finding
    <3>3. CASE i < si
      <4>1. out'[i] = out[i]
        BY <3>3, <2>1, <2>2
      <4>2. \A k \in 1..Len(out) : i < k => Ordered(out[i], out[k])
        BY <3>3 DEF SortInv, CompareStep
      <4>3. PICK k \in 1..Len(out) : i < k /\ out'[j] = out[k]
        <5>1. CASE j = si
          BY <5>1, <3>3, <2>1, <2>2
        <5>2. CASE j = sj
          BY <5>2, <3>3, <2>1, <2>2
        <5>3. CASE j # si /\ j # sj
          BY <5>3, <3>1, <2>2
        <5>. QED
          BY <5>1, <5>2, <5>3
      <4>. QED
        BY <4>1, <4>2, <4>3
    <3>4. CASE i = si /\ j = sj
      BY <3>4, <2>2, <2>3 DEF Ordered
    <3>5. CASE i = si /\ j < sj
      <4>1. out'[i] = out[sj] /\ out'[j] = out[j]
        BY <3>5, <3>1, <2>1, <2>2
      <4>2. Ordered(out[si], out[j])
        BY <3>5, <3>1 DEF SortInv, CompareStep
      <4>. QED
        BY <4>1, <4>2, <2>3, <3>2 DEF Ordered
    <3>. QED
      BY <3>1, <3>3, <3>4, <3>5
  <2>. QED
    BY <2>4, <2>5, <2>6, <2>7, <2>8, <2>9
<1>. QED
  BY <1>1, <1>2

\* Releasing the vector keeps VecInv, undefined only where a slot was unwritten.
LEMMA FreeVectorPreserves ==
  ASSUME VecInv, FreeVector
  PROVE  VecInv'
<1>. USE DEF VecInv, VecTypeOK
<1>1. CASE cap = 0
  BY <1>1 DEF FreeVector, Phase, VectorUnique, BlockInv, NothingLost, FirstBlock,
     Live, LimitInv, UndefinedOnlyAtLimit, SortInv
<1>2. CASE cap # 0 /\ \E k \in 1..Len(out) : k > cap \/ out[k] = JUNK
  <2>1. UndefinedOnlyAtLimit'
    <3>1. SUFFICES ASSUME faults = 0, Len(out) < ALLOC_INC - 1
                   PROVE  FALSE
      BY <1>2, AllocAssumption DEF FreeVector, UndefinedOnlyAtLimit
    <3>2. FirstBlock /\ Live
      BY <3>1, AllocAssumption DEF LimitInv, FirstBlock, FreeVector, Live
    <3>. QED
      BY <1>2, <3>1, <3>2, SlotAssumption, AllocAssumption DEF BlockInv
  <2>. QED
    BY <1>2, <2>1 DEF FreeVector, Phase, VectorUnique, BlockInv, NothingLost,
       FirstBlock, Live, LimitInv, SortInv
<1>3. CASE cap # 0 /\ ~\E k \in 1..Len(out) : k > cap \/ out[k] = JUNK
  BY <1>3 DEF FreeVector, Phase, VectorUnique, BlockInv, NothingLost, FirstBlock,
     Live, LimitInv, UndefinedOnlyAtLimit, SortInv
<1>. QED
  BY <1>1, <1>2, <1>3

-----------------------------------------------------------------------------

\* realloc to fewer slots leaves an unwritten slot in the vector, and no step
\* fills it: nothing is stored behind it and the sort cannot get past it.
LEMMA AddStepShowsShrunk ==
  ASSUME VecInv, ShrunkInv, AddStep
  PROVE  ShrunkInv'
<1>. USE DEF VecInv, VecTypeOK
<1>1. CASE SkipNode
  <2>1. SUFFICES ASSUME faults = 0, inc' > 1
                 PROVE  \E k \in 1..Len(out') : out'[k] = JUNK
    BY <1>1 DEF SkipNode, ShrunkInv
  <2>2. /\ Len(out') = Len(out) /\ Len(out) \in Nat
        /\ \A k \in 1..Len(out) : out'[k] = out[k] \/ out'[k] = JUNK
    BY <1>1, KeptFacts DEF SkipNode
  <2>3. CASE inc > 1
    BY <1>1, <2>1, <2>2, <2>3 DEF ShrunkInv, Live, SkipNode
  <2>4. CASE ~(inc > 1)
    <3>1. Grow
      BY <1>1, <2>1, <2>4 DEF SkipNode, GrowBlock
    <3>2. 3 \in 1..Len(out) /\ ~(3 <= SlotsNow)
      BY <2>2, <2>4, <3>1, GrowAtLimit, AllocAssumption DEF SlotsNow
    <3>3. out'[3] = JUNK
      BY <1>1, <3>2 DEF SkipNode, Kept
    <3>. QED
      BY <2>2, <3>2, <3>3
  <2>. QED
    BY <2>3, <2>4
<1>2. CASE StoreNode
  <2>1. SUFFICES ASSUME faults = 0, inc' > 1
                 PROVE  FALSE
    BY <1>2 DEF StoreNode, ShrunkInv
  <2>2. \A k \in 1..Len(out) : out[k] # JUNK
    BY <1>2, SlotAssumption DEF StoreNode, NoDuplicate, Readable
  <2>3. ~(inc > 1)
    BY <1>2, <2>1, <2>2 DEF ShrunkInv, Live, StoreNode
  <2>4. Grow /\ SlotsNow <= 2 /\ Len(out) < SlotsNow
    BY <1>2, <2>1, <2>3 DEF StoreNode, GrowBlock, SlotsNow
  <2>. QED
    BY <2>3, <2>4, GrowAtLimit, AllocAssumption DEF SlotsNow
<1>3. CASE GrowFails
  BY <1>3 DEF GrowFails, ShrunkInv
<1>4. CASE AddOverrun
  BY <1>4 DEF AddOverrun, ShrunkInv, Live
<1>. QED
  BY <1>1, <1>2, <1>3, <1>4 DEF AddStep

\* Neither a new call of add_range nor the sort hides the unwritten slot.
LEMMA OtherStepShowsShrunk ==
  ASSUME VecInv, ShrunkInv,
         \/ \E l \in Seq(Finding) : AddRange(l) \/ AddRangeFails(l)
         \/ StartSort \/ SortStep \/ FreeVector \/ UNCHANGED vecVars
  PROVE  ShrunkInv'
<1>. USE DEF VecInv, VecTypeOK
<1>1. ASSUME NEW l \in Seq(Finding), AddRange(l) \/ AddRangeFails(l)
      PROVE  ShrunkInv'
  BY <1>1 DEF AddRange, AddRangeFails, ShrunkInv, Live
<1>2. CASE CompareStep
  <2>1. si \in 1..Len(out) /\ sj \in 1..Len(out) /\ out \in Seq(Slot)
    BY <1>2 DEF CompareStep
  <2>2. Len(out') = Len(out) /\ \A k \in 1..Len(out) : \E m \in 1..Len(out) : out'[m] = out[k]
    BY <1>2, <2>1 DEF CompareStep, Exchange
  <2>. QED
    BY <1>2, <2>2 DEF CompareStep, ShrunkInv, Live
<1>3. CASE StartSort \/ NextRow \/ SortOverrun \/ EndSort \/ FreeVector
  BY <1>3 DEF StartSort, NextRow, SortOverrun, EndSort, FreeVector, ShrunkInv, Live
<1>4. CASE UNCHANGED vecVars
  BY <1>4 DEF vecVars, ShrunkInv, Live
<1>. QED
  BY <1>1, <1>2, <1>3, <1>4 DEF SortStep

\* VecInv is inductive.
LEMMA NextPreserves == VecInv /\ [VecNext]_vecVars => VecInv'
<1>. SUFFICES ASSUME VecInv, [VecNext]_vecVars PROVE VecInv'
  OBVIOUS
<1>1. ASSUME NEW l \in Lists, AddRange(l) \/ AddRangeFails(l) PROVE VecInv'
  BY <1>1, ListsAssumption, AddRangePreserves, AddRangeFailsPreserves
<1>2. CASE AddStep
  BY <1>2, SkipNodePreserves, StoreNodePreserves, GrowFailsPreserves,
     AddOverrunPreserves DEF AddStep
<1>3. CASE StartSort \/ SortStep
  BY <1>3, StartSortPreserves, CompareStepPreserves, NextRowPreserves,
     SortOverrunPreserves, EndSortPreserves DEF SortStep
<1>4. CASE FreeVector
  BY <1>4, FreeVectorPreserves
<1>5. CASE VecStopped \/ UNCHANGED vecVars
  BY <1>5, StutterPreserves DEF VecStopped
<1>. QED
  BY <1>1, <1>2, <1>3, <1>4, <1>5 DEF VecNext

\* The vector keeps its types and its inductive invariant in every behaviour
\* of add_range, sort_output_vector and free_output_vector.
THEOREM VectorInvariant == VecSpec => []VecInv
BY InitEstablishes, NextPreserves, PTL DEF VecSpec

\* The vector's variables keep their types.
THEOREM VectorTyping == VecSpec => []VecTypeOK
<1>1. VecInv => VecTypeOK
  BY DEF VecInv
<1>. QED
  BY <1>1, VectorInvariant, PTL

\* Two errors that cmp_msg_file takes for the same are never both collected,
\* for any tools, any order of reports and any sequence of allocation failures.
THEOREM VectorKeepsUnique == VecSpec => []VectorUnique
<1>1. VecInv => VectorUnique
  BY DEF VecInv
<1>. QED
  BY <1>1, VectorInvariant, PTL

\* Until the first block is outgrown, add_range and sort_output_vector lose no
\* error that is not a duplicate of a collected one.
THEOREM VectorLosesNothing == VecSpec => []NothingLost
<1>1. VecInv => NothingLost
  BY DEF VecInv
<1>. QED
  BY <1>1, VectorInvariant, PTL

\* add_range, the sort and the release touch memory they may not touch only
\* after a failed allocation or with ALLOC_INC - 1 errors collected.
THEOREM VectorStaysInBlock == VecSpec => []UndefinedOnlyAtLimit
<1>1. VecInv => UndefinedOnlyAtLimit
  BY DEF VecInv
<1>. QED
  BY <1>1, VectorInvariant, PTL

\* sort_output_vector returns with the error codes in ascending order.
THEOREM VectorGetsSorted == VecSpec => []SortedWhenDone
<1>1. VecInv => SortedWhenDone
  BY DEF VecInv, SortInv, SortedWhenDone, Ordered
<1>. QED
  BY <1>1, VectorInvariant, PTL

-----------------------------------------------------------------------------
(* The penalty library *)

\* DetailsOf(c) as far as fill_penalty_array has come.
DetailsSoFar(c) == {n \in DetailsOf(c) : n < next}

\* The entry of code c is what the nodes in N, visited in order, make of it.
EntryFrom(c, N) ==
  IF N = {} THEN table[c] = Unmapped
  ELSE \E n \in N : table[c] = doc.nodes[n].detail /\ \A m \in N : m <= n

\* The table follows the nodes visited so far, and the loop visits them all.
FillInv ==
  /\ pstate = "unset" => next = 1 /\ table = [c \in Code |-> Unmapped]
  /\ pstate = "ready" => next > doc.errCount
  /\ pstate \in {"unset", "filling", "ready"} /\ pfaults = 0 =>
       \A c \in Code : EntryFrom(c, DetailsSoFar(c))

\* Only a node whose id is beyond the table makes the library leave it.
BeyondTable ==
  pstate = "undefined" => \E n \in 1..Len(doc.nodes) : doc.nodes[n].id \notin Code

PenInv == PenTypeOK /\ FillInv /\ BeyondTable

-----------------------------------------------------------------------------

\* What the assumptions say of the configuration the library reads.
LEMMA DocFacts ==
  ASSUME PenTypeOK
  PROVE  /\ doc.nodes \in Seq(ErrNode)
         /\ doc.errCount \in Int
         /\ Len(doc.nodes) \in Nat
         /\ \A n \in 1..Len(doc.nodes) :
              /\ doc.nodes[n] \in ErrNode
              /\ doc.nodes[n].detail # NoDetail => doc.nodes[n].detail \in Detail
<1>1. doc \in PenaltyDoc
  BY PenaltyAssumption DEF PenTypeOK
<1>2. doc.nodes \in Seq(ErrNode) /\ doc.errCount \in Nat \cup {-1}
  BY <1>1 DEF PenaltyDoc
<1>3. \A n \in 1..Len(doc.nodes) : doc.nodes[n] \in ErrNode
  BY <1>2
<1>4. \A e \in ErrNode : e.detail \in Detail \cup {NoDetail}
  BY DEF ErrNode
<1>. QED
  BY <1>2, <1>3, <1>4

\* Visited is an interval of positions of the node list.
LEMMA VisitedFacts ==
  ASSUME PenTypeOK, NEW n
  PROVE  n \in Visited <=> n \in 1..Len(doc.nodes) /\ n <= doc.errCount
BY DocFacts DEF Visited

\* Before the first node nothing is mapped, and every entry is null.
LEMMA PenInitEstablishes == PenInit => PenInv
<1>. SUFFICES ASSUME PenInit PROVE PenInv
  OBVIOUS
<1>1. PenTypeOK
  BY PenaltyAssumption DEF PenInit, PenTypeOK, PState
<1>2. \A c \in Code : DetailsSoFar(c) = {}
  <2>1. \A n \in Visited : n >= 1
    BY DocFacts, <1>1 DEF Visited
  <2>2. \A c \in Code : \A n \in DetailsOf(c) : n \in Int /\ n >= 1
    BY <2>1, <1>1, DocFacts DEF DetailsOf, Visited
  <2>. QED
    BY <2>2 DEF DetailsSoFar, PenInit
<1>3. FillInv
  BY <1>2 DEF FillInv, EntryFrom, PenInit
<1>. QED
  BY <1>1, <1>3 DEF PenInv, BeyondTable, PenInit

\* One iteration of fill_penalty_array: the node's entry is overwritten when
\* it has details, and every other entry follows the nodes it followed.
LEMMA FillStepPreserves ==
  ASSUME PenInv, FillStep
  PROVE  PenInv'
<1>. DEFINE node == doc.nodes[next]
<1>1. /\ PenTypeOK /\ doc' = doc /\ next' = next + 1 /\ next \in Nat \ {0}
      /\ pstate = "filling" /\ next <= doc.errCount
  BY DEF PenInv, PenTypeOK, FillStep
<1>2. next <= Len(doc.nodes) =>
        /\ next \in 1..Len(doc.nodes) /\ node \in ErrNode
        /\ node.detail # NoDetail => node.detail \in Detail
  BY <1>1, DocFacts
<1>3. \A c \in Code : DetailsOf(c)' = DetailsOf(c)
  BY <1>1 DEF DetailsOf, Visited
<1>4. \A c \in Code : \A n \in DetailsOf(c) : n \in Nat
  BY <1>1, DocFacts DEF DetailsOf, Visited
<1>5. PenTypeOK'
  <2>1. pfaults' \in Nat
    BY <1>1 DEF FillStep, create_err_mapping, PenTypeOK
  <2>2. pstate' \in PState
    BY <1>1 DEF FillStep, create_err_mapping, PState
  <2>3. table' \in [Code -> Detail \cup {Unmapped}]
    BY <1>1, <1>2 DEF FillStep, create_err_mapping, PenTypeOK
  <2>. QED
    BY <1>1, <2>1, <2>2, <2>3 DEF PenTypeOK
<1>6. BeyondTable'
  BY <1>1, <1>2 DEF FillStep, create_err_mapping, BeyondTable
<1>7. pstate' \in {"filling", "undefined"}
  BY <1>1 DEF FillStep, create_err_mapping
<1>8. ASSUME pstate' = "filling", pfaults' = 0, NEW c \in Code
      PROVE  EntryFrom(c, DetailsSoFar(c))'
  <2>1. pfaults = 0 /\ pfaults' = pfaults
    BY <1>1, <1>8 DEF FillStep, create_err_mapping, PenTypeOK, PenInv
  <2>2. EntryFrom(c, DetailsSoFar(c))
    BY <1>1, <2>1, <1>8 DEF PenInv, FillInv
  <2>3. CASE next \in DetailsOf(c)
    <3>1. next \in 1..Len(doc.nodes) /\ node.id = c /\ node.detail # NoDetail
      BY <2>3, <1>1, VisitedFacts DEF DetailsOf
    <3>2. create_err_mapping(node) /\ pstate' = pstate /\ pfaults' = pfaults
      BY <3>1, <2>1, <1>1, <1>8 DEF FillStep
    <3>3. table' = [table EXCEPT ![c] = node.detail]
      BY <3>1, <3>2, <2>1, <1>1 DEF create_err_mapping, PenTypeOK
    <3>4. table'[c] = node.detail
      BY <3>3, <1>1 DEF PenTypeOK
    <3>5. DetailsSoFar(c)' = DetailsSoFar(c) \cup {next}
      <4>1. \A n \in DetailsOf(c) : n < next + 1 <=> n < next \/ n = next
        BY <1>1, <1>4
      <4>2. DetailsSoFar(c)' = {n \in DetailsOf(c) : n < next + 1}
        BY <1>1, <1>3 DEF DetailsSoFar
      <4>. QED
        BY <4>1, <4>2, <2>3 DEF DetailsSoFar
    <3>6. \A m \in DetailsSoFar(c)' : m <= next
      BY <3>5, <1>1, <1>4 DEF DetailsSoFar
    <3>. QED
      BY <3>4, <3>5, <3>6, <1>1 DEF EntryFrom
  <2>4. CASE next \notin DetailsOf(c)
    <3>1. DetailsSoFar(c)' = DetailsSoFar(c)
      BY <2>4, <1>1, <1>3, <1>4 DEF DetailsSoFar
    <3>2. table'[c] = table[c]
      <4>1. CASE next > Len(doc.nodes)
        BY <4>1, <1>1, DocFacts DEF FillStep
      <4>2. CASE next <= Len(doc.nodes)
        <5>1. node.id # c \/ node.detail = NoDetail
          BY <4>2, <2>4, <1>1, <1>2, VisitedFacts DEF DetailsOf
        <5>2. create_err_mapping(node)
          BY <4>2 DEF FillStep
        <5>. QED
          BY <5>1, <5>2, <1>1, <1>8 DEF create_err_mapping, PenTypeOK
      <4>. QED
        BY <4>1, <4>2, <1>1, DocFacts
    <3>. QED
      BY <2>2, <3>1, <3>2, <1>1 DEF EntryFrom
  <2>. QED
    BY <2>3, <2>4
<1>9. FillInv'
  BY <1>7, <1>8 DEF FillInv
<1>. QED
  BY <1>5, <1>6, <1>9 DEF PenInv

\* Every other step of the library leaves the table as it is or releases it.
LEMMA OtherPenaltyStepPreserves ==
  ASSUME PenInv,
         \/ init_penalties \/ InitFails \/ FillDone \/ free_penalties
         \/ UNCHANGED penVars
  PROVE  PenInv'
<1>1. PenTypeOK'
  BY DEF PenInv, PenTypeOK, init_penalties, InitFails, FillDone, free_penalties,
     penVars, PState
<1>2. \A c : DetailsSoFar(c)' = DetailsSoFar(c)
  BY DEF init_penalties, InitFails, FillDone, free_penalties, penVars,
     DetailsSoFar, DetailsOf, Visited
<1>3. BeyondTable'
  BY DEF PenInv, BeyondTable, init_penalties, InitFails, FillDone,
     free_penalties, penVars
<1>4. FillInv'
  BY <1>2 DEF PenInv, FillInv, EntryFrom, init_penalties, InitFails, FillDone,
     free_penalties, penVars, PenTypeOK
<1>. QED
  BY <1>1, <1>3, <1>4 DEF PenInv

\* PenInv is inductive.
LEMMA PenNextPreserves == PenInv /\ [PenNext]_penVars => PenInv'
BY FillStepPreserves, OtherPenaltyStepPreserves DEF PenNext, PenStopped

\* A table that is ready follows the configuration.
LEMMA ReadyTable == PenInv => TableFollowsConfig
<1>. SUFFICES ASSUME PenInv, pstate = "ready", pfaults = 0
              PROVE  \A c \in Code : EntryFrom(c, DetailsOf(c))
  BY DEF TableFollowsConfig, EntryFrom
<1>1. next > doc.errCount /\ next \in Nat
  BY DEF PenInv, FillInv, PenTypeOK
<1>2. \A c \in Code : DetailsSoFar(c) = DetailsOf(c)
  BY <1>1, VisitedFacts, DocFacts DEF PenInv, DetailsSoFar, DetailsOf
<1>. QED
  BY <1>2 DEF PenInv, FillInv

-----------------------------------------------------------------------------

\* In every behaviour of init_penalties, fill_penalty_array and
\* free_penalties the library's variables keep their types and the table
\* follows the nodes that have been visited.
THEOREM PenaltyInvariant == PenSpec => []PenInv
BY PenInitEstablishes, PenNextPreserves, PTL DEF PenSpec

\* Once init_penalties has returned 0 and no allocation has failed, an error
\* code has the penalty of the last detailed node with its id among the first
\* err_count nodes, and no other, whatever the file holds.
THEOREM TableAlwaysFollows == PenSpec => []TableFollowsConfig
BY PenaltyInvariant, ReadyTable, PTL
=============================================================================
