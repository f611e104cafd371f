--------------------------- MODULE AnalyzerProofs ---------------------------
(***************************************************************************)
(* Proofs about static_analyzer: the black list it reads, for every file   *)
(* and block size, its pass over the lines of a source file, for every     *)
(* file and all limits, and its pass over the calls of a function, for     *)
(* every function.                                                         *)
(***************************************************************************)
EXTENDS BlackList, UncheckedCalls, LineChecks, FiniteSetTheorems, TLAPS

-----------------------------------------------------------------------------
(* The black list *)

BlackListFile == [names : Seq(Function), eol : BOOLEAN]

\* The name set_black_list stores for line n.
StoredName(n) == IF n = Len(file.names) /\ ~file.eol THEN Chopped ELSE file.names[n]

\* The block has its first size until the list has BL_SIZE_INC names, and
\* never becomes smaller.
BlInv ==
  /\ file \in BlackListFile
  /\ bl_pc \in {"malloc", "fopen", "read", "set", "failed", "undefined"}
  /\ list \in Seq(Function \cup {Chopped})
  /\ Len(list) <= Len(file.names)
  /\ \A n \in 1..Len(list) : list[n] = StoredName(n)
  /\ bl_pc \in {"malloc", "fopen"} => list = <<>>
  /\ bl_pc = "fopen" => bytes = BL_SIZE_INC
  /\ bl_pc = "set" => Len(list) = Len(file.names)
  /\ bl_pc = "read" => /\ bytes \in Nat /\ bytes >= BL_SIZE_INC
                       /\ Len(list) <= BL_SIZE_INC => bytes = BL_SIZE_INC
  /\ over \in BOOLEAN
  /\ BlackListOverflow

LEMMA FileType ==
  ASSUME file \in BlackListFile
  PROVE  file.names \in Seq(Function) /\ file.eol \in BOOLEAN /\ Len(file.names) \in Nat
  BY DEF BlackListFile

LEMMA ReadNameKeepsList ==
  ASSUME BlInv, ReadName
  PROVE  /\ list' \in Seq(Function \cup {Chopped})
         /\ Len(list') = Len(list) + 1 /\ Len(list') <= Len(file.names)
         /\ \A n \in 1..Len(list') : list'[n] = StoredName(n)
  <1>1. /\ file.names \in Seq(Function) /\ Len(file.names) \in Nat
        /\ list \in Seq(Function \cup {Chopped}) /\ Len(list) < Len(file.names)
    BY FileType DEF BlInv, ReadName, More
  <1>2. NextName = StoredName(Len(list) + 1)
    BY DEF NextName, StoredName
  <1>3. NextName \in Function \cup {Chopped}
    BY <1>1 DEF NextName
  <1>4. list' = Append(list, NextName)
    BY DEF ReadName
  <1>5. \A n \in 1..Len(list) : list[n] = StoredName(n)
    BY DEF BlInv
  <1> HIDE DEF NextName, StoredName
  <1> QED  BY <1>1, <1>2, <1>3, <1>4, <1>5

LEMMA ReadNameKeepsBlock ==
  ASSUME BlInv, ReadName
  PROVE  /\ bytes' \in Nat /\ bytes' >= BL_SIZE_INC
         /\ Len(list) + 1 <= BL_SIZE_INC => bytes' = BL_SIZE_INC
  <1> DEFINE N == Len(list)
  <1>1. /\ N \in Nat /\ BL_SIZE_INC \in Nat \ {0}
        /\ bytes \in Nat /\ bytes >= BL_SIZE_INC
        /\ N <= BL_SIZE_INC => bytes = BL_SIZE_INC
    BY SizesAssumption DEF BlInv, ReadName, More
  <1>2. bytes' = IF Grows THEN BL_SIZE_INC * (N \div BL_SIZE_INC + 1) ELSE bytes
    BY DEF ReadName, Block
  <1>3. Grows <=> N > 0 /\ N % BL_SIZE_INC = 0
    BY DEF Grows
  <1> HIDE DEF N, Grows
  <1>4. CASE ~Grows
    <2>1. bytes' = bytes
      BY <1>2, <1>4
    <2>2. N + 1 <= BL_SIZE_INC => N <= BL_SIZE_INC
      BY <1>1
    <2> QED  BY <1>1, <2>1, <2>2 DEF N
  <1>5. CASE Grows
    <2> DEFINE q == N \div BL_SIZE_INC
    <2>1. q \in Nat /\ N = BL_SIZE_INC * q
      BY <1>1, <1>3, <1>5
    <2>2. q # 0
      BY <1>1, <1>3, <1>5, <2>1
    <2> HIDE DEF q
    <2>3. N >= BL_SIZE_INC
      BY <1>1, <2>1, <2>2
    <2>4. bytes' = N + BL_SIZE_INC
      <3>1. bytes' = BL_SIZE_INC * (q + 1)
        BY <1>2, <1>5 DEF q
      <3> QED  BY <1>1, <2>1, <3>1
    <2> QED  BY <1>1, <2>3, <2>4 DEF N
  <1> QED  BY <1>4, <1>5

\* The list is written beyond the block by the first name that is one too many.
LEMMA ReadNameOverflows ==
  ASSUME BlInv, ReadName
  PROVE  /\ over' \in BOOLEAN
         /\ Len(list) + 1 > BL_SIZE_INC \div PTR /\ PTR > 1 => over'
         /\ over' => Len(list) + 1 > BL_SIZE_INC \div PTR
         /\ bl_pc' \in {"read", "undefined"}
         /\ bl_pc' = "undefined" => over'
  <1> DEFINE N == Len(list)
             q == BL_SIZE_INC \div PTR
  <1>1. N \in Nat /\ BL_SIZE_INC \in Nat \ {0} /\ PTR \in Nat \ {0}
    BY SizesAssumption DEF BlInv
  <1>2. /\ q \in Nat /\ q * PTR <= BL_SIZE_INC /\ BL_SIZE_INC < (q + 1) * PTR
        /\ PTR > 1 => q < BL_SIZE_INC
    BY <1>1
  <1>3. /\ bytes' \in Nat /\ bytes' >= BL_SIZE_INC
        /\ N + 1 <= BL_SIZE_INC => bytes' = BL_SIZE_INC
    BY ReadNameKeepsBlock
  <1>4. over' <=> over \/ (N + 1) * PTR > bytes'
    BY DEF ReadName
  <1>5. over' \in BOOLEAN
    BY DEF ReadName
  <1>6. (N > q /\ PTR > 1 => over) /\ (over => N > q)
    BY DEF BlInv, BlackListOverflow
  <1>7. bl_pc' \in {"read", "undefined"} /\ (bl_pc' = "undefined" => over')
    BY DEF ReadName
  <1> HIDE DEF N, q
  <1>8. ASSUME N + 1 > q, PTR > 1 PROVE over'
    <2>1. CASE N > q
      BY <1>4, <1>6, <1>8, <2>1
    <2>2. CASE N = q
      <3>1. bytes' = BL_SIZE_INC
        BY <1>1, <1>2, <1>3, <1>8, <2>2
      <3>2. (N + 1) * PTR > bytes'
        BY <1>1, <1>2, <2>2, <3>1
      <3> QED  BY <1>4, <3>2
    <2> QED  BY <1>1, <1>2, <1>8, <2>1, <2>2
  <1>9. ASSUME over' PROVE N + 1 > q
    <2>1. CASE over
      BY <1>1, <1>2, <1>6, <2>1
    <2>2. CASE (N + 1) * PTR > bytes'
      <3>1. (N + 1) * PTR > q * PTR
        BY <1>1, <1>2, <1>3, <2>2
      <3>2. ASSUME N + 1 <= q PROVE FALSE
        <4>1. (N + 1) * PTR <= q * PTR
          BY <1>1, <1>2, <3>2
        <4> QED  BY <1>1, <1>2, <3>1, <4>1
      <3> QED  BY <1>1, <1>2, <3>2
    <2> QED  BY <1>4, <1>9, <2>1, <2>2
  <1> QED  BY <1>5, <1>7, <1>8, <1>9 DEF N, q

LEMMA BlInvInit == BlInit => BlInv
  <1> SUFFICES ASSUME BlInit PROVE BlInv
    OBVIOUS
  <1>1. file \in BlackListFile
    BY FilesAssumption DEF BlInit, BlackListFile
  <1>2. Len(file.names) \in Nat
    BY <1>1, FileType
  <1>3. list = <<>> /\ bl_pc = "malloc" /\ over = FALSE
    BY DEF BlInit
  <1>4. /\ list \in Seq(Function \cup {Chopped})
        /\ Len(list) <= Len(file.names)
        /\ \A n \in 1..Len(list) : list[n] = StoredName(n)
    BY <1>2, <1>3
  <1>5. BlackListOverflow
    <2>1. Len(list) = 0 /\ BL_SIZE_INC \div PTR \in Nat
      BY <1>3, SizesAssumption
    <2> QED  BY <1>3, <2>1 DEF BlackListOverflow
  <1> QED  BY <1>1, <1>3, <1>4, <1>5 DEF BlInv

LEMMA BlInvNext == BlInv /\ [BlNext]_blVars => BlInv'
  <1> SUFFICES ASSUME BlInv, [BlNext]_blVars PROVE BlInv'
    OBVIOUS
  <1>1. CASE malloc
    <2>1. /\ file' = file /\ list' = list /\ over' = over
          /\ \/ bl_pc' = "failed"
             \/ bl_pc' = "fopen" /\ bytes' = BL_SIZE_INC
      BY <1>1 DEF malloc, Block
    <2>2. list = <<>>
      BY <1>1 DEF BlInv, malloc
    <2> QED  BY <1>1, <2>1, <2>2 DEF BlInv, malloc, BlackListOverflow, StoredName
  <1>2. CASE fopen
    <2>1. /\ file' = file /\ list' = list /\ over' = over /\ bytes' = bytes
          /\ bl_pc' \in {"read", "failed"}
      BY <1>2 DEF fopen
    <2>2. bytes = BL_SIZE_INC /\ bytes \in Nat /\ bytes >= BL_SIZE_INC
      BY <1>2, SizesAssumption DEF BlInv, fopen
    <2> QED  BY <1>2, <2>1, <2>2 DEF BlInv, fopen, BlackListOverflow, StoredName
  <1>3. CASE ReadName
    <2>1. /\ list' \in Seq(Function \cup {Chopped})
          /\ Len(list') = Len(list) + 1 /\ Len(list') <= Len(file.names)
          /\ \A n \in 1..Len(list') : list'[n] = StoredName(n)
      BY <1>3, ReadNameKeepsList
    <2>2. /\ bytes' \in Nat /\ bytes' >= BL_SIZE_INC
          /\ Len(list) + 1 <= BL_SIZE_INC => bytes' = BL_SIZE_INC
      BY <1>3, ReadNameKeepsBlock
    <2>3. /\ over' \in BOOLEAN
          /\ Len(list) + 1 > BL_SIZE_INC \div PTR /\ PTR > 1 => over'
          /\ over' => Len(list) + 1 > BL_SIZE_INC \div PTR
          /\ bl_pc' \in {"read", "undefined"}
          /\ bl_pc' = "undefined" => over'
      BY <1>3, ReadNameOverflows
    <2>4. file' = file /\ file \in BlackListFile
      BY <1>3 DEF ReadName, BlInv
    <2>5. BlackListOverflow'
      BY <2>1, <2>3 DEF BlackListOverflow
    <2> QED  BY <2>1, <2>2, <2>3, <2>4, <2>5 DEF BlInv, StoredName
  <1>4. CASE ReallocFails
    BY <1>4 DEF BlInv, ReallocFails, BlackListOverflow, StoredName
  <1>5. CASE EndOfFile
    BY <1>5 DEF BlInv, EndOfFile, BlackListOverflow, StoredName
  <1>6. CASE UNCHANGED blVars
    BY <1>6 DEF BlInv, blVars, BlackListOverflow, StoredName
  <1> QED  BY <1>1, <1>2, <1>3, <1>4, <1>5, <1>6 DEF BlNext, BlStopped

(***************************************************************************)
(* For every file and every size of the block, set_black_list lists        *)
(* exactly the functions of its file, up to an unterminated last line, and *)
(* writes beyond its block exactly from the first name on for which the    *)
(* block, sized in characters, has no room for a pointer.                  *)
(***************************************************************************)
THEOREM BlackListAlwaysExact == BlSpec => []BlackListExact
  <1>1. BlInv => BlackListFaithful
    <2> SUFFICES ASSUME BlInv, bl_pc = "set", NEW f \in Function
                 PROVE  is_black_listed(f) <=>
                          \E n \in 1..Len(file.names) : /\ file.names[n] = f
                                                        /\ n < Len(file.names) \/ file.eol
      BY DEF BlackListFaithful
    <2>1. /\ Len(list) = Len(file.names) /\ Len(file.names) \in Nat
          /\ \A n \in 1..Len(list) : list[n] = StoredName(n)
          /\ file.eol \in BOOLEAN
      BY FileType DEF BlInv
    <2>2. ASSUME NEW n \in 1..Len(file.names)
          PROVE  list[n] = f <=> file.names[n] = f /\ (n < Len(file.names) \/ file.eol)
      <3>1. n < Len(file.names) <=> n # Len(file.names)
        BY <2>1
      <3> QED  BY <2>1, <3>1, ChoppedAssumption DEF StoredName
    <2> QED  BY <2>1, <2>2 DEF is_black_listed
  <1>2. BlInv => BlackListExact
    BY <1>1 DEF BlInv, BlackListExact
  <1>3. BlSpec => []BlInv
    BY BlInvInit, BlInvNext, PTL DEF BlSpec
  <1> QED  BY <1>2, <1>3, PTL

-----------------------------------------------------------------------------
(* The pass over the lines *)

LineMessage == [kind : {"mixed", "trailing", "indent", "lines"}, line : Int, func : Nat]

\* level, fun and CurrentLine fit the file, and so does what was printed.
LineTypes ==
  /\ source \in Sources
  /\ FileMapping \in {"NULL", "mapped", "MAP_FAILED"}
  /\ fun \in Nat \ {0} /\ fun <= Len(source.functions) + 1
  /\ level \in Seq(Int)
  /\ fun <= Len(source.functions) => Len(level) <= Len(Stmts)
  /\ fun > Len(source.functions) => level = <<>>
  /\ CurrentLine \in 0..Len(source.text)
  /\ CurrentIndentLevel \in Int /\ LastInstructionLine \in Int
  /\ messages \in Seq(LineMessage)

\* The position in the file stands where the furthest statement visited begins.
PositionInv ==
  /\ CurrentLine = 0 \/ \E w \in Visited : LineOf(w) = CurrentLine
  /\ FileMapping = "mapped" => \A w \in Visited : LineOf(w) <= CurrentLine

LineInv == LineTypes /\ PositionInv /\ LineScanSound

LEMMA ElementOfSeq ==
  ASSUME NEW K, NEW s \in Seq(K), NEW k \in 1..Len(s)
  PROVE  s[k] \in K
  OBVIOUS

LEMMA SourceType ==
  ASSUME source \in Sources
  PROVE  /\ Len(source.functions) \in Nat /\ Len(source.text) \in Nat
         /\ \A f \in 1..Len(source.functions) :
              /\ source.functions[f].line \in Nat
              /\ source.functions[f].stmts \in Seq(LineStatement)
              /\ Len(source.functions[f].stmts) \in Nat
              /\ \A n \in 1..Len(source.functions[f].stmts) :
                   /\ source.functions[f].stmts[n] \in LineStatement
                   /\ source.functions[f].stmts[n].line \in Nat \ {0}
                   /\ source.functions[f].stmts[n].own =>
                        source.functions[f].stmts[n].line <= Len(source.text)
                   /\ source.functions[f].stmts[n].parent < n
                   /\ source.functions[f].stmts[n].parent \in Nat
  <1>1. source \in Source
    BY SourcesAssumption
  <1>2. /\ source.functions \in Seq([line : Nat \ {0}, stmts : Seq(LineStatement)])
        /\ source.text \in Seq([mixed : BOOLEAN, trail : Nat])
    BY <1>1 DEF Source
  <1>3. Len(source.functions) \in Nat /\ Len(source.text) \in Nat
    BY <1>2
  <1>4. ASSUME NEW f \in 1..Len(source.functions)
        PROVE  /\ source.functions[f].line \in Nat
               /\ source.functions[f].stmts \in Seq(LineStatement)
    <2>1. source.functions[f] \in [line : Nat \ {0}, stmts : Seq(LineStatement)]
      BY <1>2, ElementOfSeq
    <2> QED  BY <2>1
  <1>5. ASSUME NEW f \in 1..Len(source.functions)
        PROVE  Len(source.functions[f].stmts) \in Nat
    <2> DEFINE s == source.functions[f].stmts
    <2>1. s \in Seq(LineStatement)
      BY <1>4
    <2> HIDE DEF s
    <2>2. Len(s) \in Nat
      BY <2>1
    <2> QED  BY <2>2 DEF s
  <1>6. ASSUME NEW f \in 1..Len(source.functions),
               NEW n \in 1..Len(source.functions[f].stmts)
        PROVE  /\ source.functions[f].stmts[n] \in LineStatement
               /\ source.functions[f].stmts[n].line \in Nat \ {0}
               /\ source.functions[f].stmts[n].own =>
                    source.functions[f].stmts[n].line <= Len(source.text)
               /\ source.functions[f].stmts[n].parent < n
               /\ source.functions[f].stmts[n].parent \in Nat
    <2> DEFINE s == source.functions[f].stmts
    <2>1. s \in Seq(LineStatement) /\ n \in 1..Len(s)
      BY <1>4
    <2>2. (s[n].own => s[n].line <= Len(source.text)) /\ s[n].parent < n
      BY SourcesAssumption
    <2> HIDE DEF s
    <2>3. s[n] \in LineStatement
      BY <2>1
    <2>4. s[n].parent \in Nat /\ s[n].line \in Nat \ {0}
      BY <2>3 DEF LineStatement
    <2> QED  BY <2>2, <2>3, <2>4 DEF s
  <1> QED  BY <1>3, <1>4, <1>5, <1>6

LEMMA InVisited ==
  ASSUME NEW v
  PROVE  v \in Visited <=> \E f \in 1..Len(source.functions) :
                             \E n \in VisitedIn(f) : v = <<f, n>>
  BY DEF Visited

\* The statement examine_statement comes to.
Here == <<fun, Len(level) + 1>>

LEMMA NextVisited ==
  ASSUME LineTypes, Walking
  PROVE  /\ stmt.line \in Nat \ {0} /\ LineOf(Here) = stmt.line
         /\ stmt.own => stmt.line <= Len(source.text)
         /\ \A v \in Visited : Before(v, Here) /\ ~Before(Here, v)
         /\ \A v \in Visited : LineOf(v) \in Nat \ {0}
  <1>1. /\ fun \in 1..Len(source.functions) /\ Len(level) \in Nat
        /\ Len(level) < Len(Stmts) /\ source \in Sources
        /\ Len(source.functions) \in Nat
    BY SourceType DEF LineTypes, Walking
  <1>2. Len(Stmts) \in Nat
    BY <1>1, SourceType DEF Stmts
  <1>3. Len(level) + 1 \in 1..Len(Stmts)
    BY <1>1, <1>2
  <1>4. /\ stmt.line \in Nat \ {0} /\ LineOf(Here) = stmt.line
        /\ stmt.own => stmt.line <= Len(source.text)
    BY <1>1, <1>3, SourceType DEF stmt, LineOf, Here, Stmts
  <1>5. ASSUME NEW v \in Visited
        PROVE  Before(v, Here) /\ ~Before(Here, v) /\ LineOf(v) \in Nat \ {0}
    <2>0. PICK f \in 1..Len(source.functions) : \E n \in VisitedIn(f) : v = <<f, n>>
      BY InVisited
    <2>1. PICK n \in VisitedIn(f) : v = <<f, n>>
      BY <2>0
    <2>2. f \in Nat /\ fun \in Nat /\ (f < fun \/ f = fun)
      BY <1>1, <2>1 DEF VisitedIn
    <2>3. CASE f < fun
      <3>1. n \in 1..Len(source.functions[f].stmts)
        BY <2>1, <2>3 DEF VisitedIn
      <3>2. LineOf(v) \in Nat \ {0}
        BY <1>1, <2>1, <3>1, SourceType DEF LineOf
      <3> QED  BY <2>1, <2>2, <2>3, <3>2 DEF Before, Here
    <2>4. CASE f = fun
      <3>1. n \in 1..Len(level)
        BY <2>1, <2>2, <2>4 DEF VisitedIn
      <3>2. n \in 1..Len(source.functions[f].stmts)
        BY <1>1, <1>2, <2>4, <3>1 DEF Stmts
      <3>3. LineOf(v) \in Nat \ {0}
        BY <1>1, <2>1, <3>2, SourceType DEF LineOf
      <3> QED  BY <1>1, <2>1, <2>2, <2>4, <3>1, <3>3 DEF Before, Here
    <2> QED  BY <2>2, <2>3, <2>4
  <1> QED  BY <1>4, <1>5

\* A step to the next statement visits it and no other.
LEMMA VisitOne ==
  ASSUME LineTypes, Walking, Measure, UNCHANGED <<source, fun>>
  PROVE  /\ Visited' = Visited \cup {Here}
         /\ Len(level') = Len(level) + 1 /\ Len(level') <= Len(Stmts)
  <1>1. /\ fun \in 1..Len(source.functions) /\ Len(level) \in Nat
        /\ Len(level) < Len(Stmts) /\ Len(Stmts) \in Nat
    BY SourceType DEF LineTypes, Walking, Stmts
  <1>2. level' = Append(level, indent_level) /\ level \in Seq(Int)
    BY DEF Measure, LineTypes
  <1>3. Len(level') = Len(level) + 1
    BY <1>2
  <1>4. \A f \in 1..Len(source.functions) :
          VisitedIn(f)' = VisitedIn(f) \cup (IF f = fun THEN {Len(level) + 1} ELSE {})
    <2> SUFFICES ASSUME NEW f \in 1..Len(source.functions)
                 PROVE  VisitedIn(f)' =
                          VisitedIn(f) \cup (IF f = fun THEN {Len(level) + 1} ELSE {})
      OBVIOUS
    <2>1. 1..(Len(level) + 1) = (1..Len(level)) \cup {Len(level) + 1}
      BY <1>1
    <2>2. CASE f = fun
      <3>1. ~(f < fun)
        BY <1>1, <2>2
      <3> QED  BY <1>3, <2>1, <2>2, <3>1 DEF VisitedIn
    <2>3. CASE f # fun
      BY <2>3 DEF VisitedIn
    <2> QED  BY <2>2, <2>3
  <1>5. \A v : v \in Visited' <=> \E f \in 1..Len(source.functions) :
                                    \E n \in VisitedIn(f)' : v = <<f, n>>
    BY DEF Visited
  <1>6. \A v : v \in Visited' <=> v \in Visited \/ v = Here
    <2>1. ASSUME NEW v, v \in Visited' PROVE v \in Visited \/ v = Here
      <3>0. PICK f \in 1..Len(source.functions) : \E n \in VisitedIn(f)' : v = <<f, n>>
        BY <1>5, <2>1
      <3>1. PICK n \in VisitedIn(f)' : v = <<f, n>>
        BY <3>0
      <3>2. n \in VisitedIn(f) \/ (f = fun /\ n = Len(level) + 1)
        BY <1>4, <3>1
      <3> QED  BY <3>1, <3>2, InVisited DEF Here
    <2>2. ASSUME NEW v \in Visited PROVE v \in Visited'
      <3>0. PICK f \in 1..Len(source.functions) : \E n \in VisitedIn(f) : v = <<f, n>>
        BY InVisited
      <3>1. PICK n \in VisitedIn(f) : v = <<f, n>>
        BY <3>0
      <3>2. n \in VisitedIn(f)'
        BY <1>4, <3>1
      <3> QED  BY <1>5, <3>1, <3>2
    <2>3. Here \in Visited'
      <3>1. Len(level) + 1 \in VisitedIn(fun)'
        BY <1>1, <1>4
      <3> QED  BY <1>1, <1>5, <3>1 DEF Here
    <2> QED  BY <2>1, <2>2, <2>3
  <1>7. Len(level') <= Len(Stmts)
    BY <1>1, <1>3
  <1> QED  BY <1>3, <1>6, <1>7

\* Where the statements before one have been visited, no later visit changes
\* whether it came in line order.
LEMMA AscendsStable ==
  ASSUME LineTypes, Walking, Measure, UNCHANGED <<source, fun>>
  PROVE  /\ \A v \in Visited : Ascends(v)' <=> Ascends(v)
         /\ \A v : v = Here => (Ascends(v)' <=> \A w \in Visited : LineOf(w) < stmt.line)
         /\ \A v : LineOf(v)' = LineOf(v)
  <1>1. Visited' = Visited \cup {Here}
    BY VisitOne
  <1>2. /\ \A v \in Visited : Before(v, Here) /\ ~Before(Here, v)
        /\ LineOf(Here) = stmt.line
    BY NextVisited
  <1>3. \A v : LineOf(v)' = LineOf(v)
    BY DEF LineOf
  <1>4. \A v : Ascends(v)' <=> \A w \in Visited' : Before(w, v) => LineOf(w)' < LineOf(v)'
    BY DEF Ascends, Before
  <1>5. ~Before(Here, Here)
    <2>1. fun \in Nat /\ Len(level) \in Nat
      BY DEF LineTypes
    <2> QED  BY <2>1 DEF Before, Here
  <1>6. ASSUME NEW v, v = Here
        PROVE  Ascends(v)' <=> \A w \in Visited : LineOf(w) < stmt.line
    BY <1>1, <1>2, <1>3, <1>4, <1>5, <1>6
  <1>7. \A v \in Visited : Ascends(v)' <=> Ascends(v)
    BY <1>1, <1>2, <1>3, <1>4 DEF Ascends
  <1> QED  BY <1>3, <1>6, <1>7

Joined(s, t) == s \o t

\* r is s, with m at its end if t holds it.
JoinsTo(s, m, t, r) ==
  /\ r \in Seq(LineMessage) /\ Len(r) \in Nat /\ Len(s) \in Nat /\ Len(s) <= Len(r)
  /\ \A n \in 1..Len(s) : r[n] = s[n]
  /\ \A n \in 1..Len(r) : n \in 1..Len(s) \/ (t = <<m>> /\ r[n] = m)
  /\ t = <<m>> => \E n \in 1..Len(r) : r[n] = m

LEMMA JoinedWith ==
  ASSUME NEW s \in Seq(LineMessage), NEW m \in LineMessage, NEW t, t = <<>> \/ t = <<m>>
  PROVE  JoinsTo(s, m, t, Joined(s, t))
  <1> DEFINE r == Joined(s, t)
  <1>1. CASE t = <<m>>
    <2>1. /\ s \o <<m>> \in Seq(LineMessage) /\ Len(s) \in Nat
          /\ Len(s \o <<m>>) = Len(s) + 1
          /\ \A n \in 1..Len(s) : (s \o <<m>>)[n] = s[n]
          /\ (s \o <<m>>)[Len(s) + 1] = m
      OBVIOUS
    <2>2. r = s \o <<m>>
      BY <1>1 DEF Joined
    <2> HIDE DEF r
    <2>3. /\ r \in Seq(LineMessage) /\ Len(s) \in Nat /\ Len(r) = Len(s) + 1
          /\ \A n \in 1..Len(s) : r[n] = s[n]
          /\ r[Len(s) + 1] = m
      BY <2>1, <2>2
    <2>4. /\ Len(r) \in Nat /\ Len(s) <= Len(r)
          /\ \A n \in 1..Len(r) : n \in 1..Len(s) \/ r[n] = m
          /\ \E n \in 1..Len(r) : r[n] = m
      BY <2>3
    <2> QED  BY <1>1, <2>3, <2>4 DEF r, JoinsTo
  <1>2. CASE t = <<>>
    <2>1. r = s /\ Len(s) \in Nat /\ t # <<m>>
      BY <1>2 DEF Joined
    <2> HIDE DEF r
    <2>2. JoinsTo(s, m, t, r)
      BY <2>1 DEF JoinsTo
    <2> QED  BY <2>2 DEF r
  <1> QED  BY <1>1, <1>2

\* r is s, with m and then h at its end if t and u hold them.
JoinsBoth(s, m, t, h, u, r) ==
  /\ r \in Seq(LineMessage) /\ Len(s) \in Nat /\ Len(r) \in Nat /\ Len(s) <= Len(r)
  /\ \A n \in 1..Len(s) : n \in 1..Len(r) /\ r[n] = s[n]
  /\ \A n \in 1..Len(r) : \/ n \in 1..Len(s)
                          \/ t = <<m>> /\ r[n] = m
                          \/ u = <<h>> /\ r[n] = h
  /\ t = <<m>> => \E n \in 1..Len(r) : r[n] = m
  /\ u = <<h>> => \E n \in 1..Len(r) : r[n] = h

\* Two complaints, as both examine_stmt_indent and parse_function_list make
\* them: what was said stays said, and nothing but the two is new.
LEMMA JoinedTwice ==
  ASSUME NEW s \in Seq(LineMessage),
         NEW a \in LineMessage, NEW t, t = <<>> \/ t = <<a>>,
         NEW b \in LineMessage, NEW u, u = <<>> \/ u = <<b>>
  PROVE  JoinsBoth(s, a, t, b, u, Joined(Joined(s, t), u))
  <1> DEFINE r == Joined(s, t)
             q == Joined(r, u)
  <1>6. /\ r \in Seq(LineMessage) /\ Len(s) \in Nat /\ Len(r) \in Nat /\ Len(s) <= Len(r)
        /\ \A n \in 1..Len(s) : r[n] = s[n]
        /\ \A n \in 1..Len(r) : n \in 1..Len(s) \/ (t = <<a>> /\ r[n] = a)
        /\ t = <<a>> => \E n \in 1..Len(r) : r[n] = a
    <2>1. JoinsTo(s, a, t, r)
      BY JoinedWith
    <2> HIDE DEF r
    <2> QED  BY <2>1 DEF JoinsTo
  <1> HIDE DEF r
  <1>7. /\ q \in Seq(LineMessage) /\ Len(q) \in Nat /\ Len(r) <= Len(q)
        /\ \A n \in 1..Len(r) : q[n] = r[n]
        /\ \A n \in 1..Len(q) : n \in 1..Len(r) \/ (u = <<b>> /\ q[n] = b)
        /\ u = <<b>> => \E n \in 1..Len(q) : q[n] = b
    <2>1. JoinsTo(r, b, u, q)
      BY <1>6, JoinedWith
    <2> HIDE DEF q
    <2> QED  BY <2>1 DEF JoinsTo
  <1> HIDE DEF q
  <1>8. \A n \in 1..Len(s) : n \in 1..Len(r) /\ n \in 1..Len(q) /\ q[n] = s[n]
    BY <1>6, <1>7
  <1>9. \A n \in 1..Len(q) : \/ n \in 1..Len(s)
                             \/ t = <<a>> /\ q[n] = a
                             \/ u = <<b>> /\ q[n] = b
    BY <1>6, <1>7
  <1>10. t = <<a>> => \E n \in 1..Len(q) : q[n] = a
    <2>1. \A n \in 1..Len(r) : n \in 1..Len(q) /\ q[n] = r[n]
      BY <1>6, <1>7
    <2> QED  BY <1>6, <2>1
  <1>11. Len(s) <= Len(q)
    BY <1>6, <1>7
  <1>12. JoinsBoth(s, a, t, b, u, q)
    BY <1>6, <1>7, <1>8, <1>9, <1>10, <1>11 DEF JoinsBoth
  <1> QED  BY <1>12 DEF q, r

LEMMA IndentLevelType ==
  ASSUME LineTypes, Walking
  PROVE  indent_level \in Int
  <1>1. /\ fun \in 1..Len(source.functions) /\ Len(level) \in Nat /\ level \in Seq(Int)
        /\ Len(level) + 1 \in 1..Len(Stmts)
    BY SourceType DEF LineTypes, Walking, Stmts
  <1>2. stmt.parent \in Nat /\ stmt.parent < Len(level) + 1
    BY <1>1, SourceType DEF LineTypes, stmt, Stmts
  <1>3. stmt.parent # 0 => stmt.parent \in 1..Len(level)
    BY <1>1, <1>2
  <1>4. stmt.parent # 0 => level[stmt.parent] \in Int
    BY <1>1, <1>3
  <1> QED  BY <1>4 DEF indent_level

LEMMA WalkKeepsTypes ==
  ASSUME LineTypes, Walking, Measure, UNCHANGED <<source, FileMapping, fun>>,
         CurrentLine' \in 0..Len(source.text), messages' \in Seq(LineMessage)
  PROVE  LineTypes'
  <1>1. level' = Append(level, indent_level) /\ level \in Seq(Int)
    BY DEF Measure, LineTypes
  <1>2. level' \in Seq(Int)
    BY <1>1, IndentLevelType
  <1>3. Len(level') <= Len(Stmts) /\ Stmts' = Stmts
    BY VisitOne DEF Stmts
  <1>4. ~(fun > Len(source.functions))
    <2>1. fun <= Len(source.functions) /\ fun \in Nat /\ Len(source.functions) \in Nat
      BY SourceType DEF LineTypes, Walking
    <2> QED  BY <2>1
  <1>5. CurrentIndentLevel' \in Int
    BY IndentLevelType DEF Measure, MAX_NUM, LineTypes
  <1>6. LastInstructionLine' \in Int
    <2>1. stmt.line \in Int
      BY NextVisited
    <2> QED  BY <2>1 DEF Measure, MAX_NUM, LineTypes
  <1> QED  BY <1>2, <1>3, <1>4, <1>5, <1>6 DEF LineTypes

\* A message about a line that is not at fault is explained as before.
LEMMA RealStays ==
  ASSUME LineInv, Walking, Measure, UNCHANGED <<source, fun>>,
         NEW n \in 1..Len(messages), messages'[n] = messages[n]
  PROVE  LET m == messages'[n]
             stray == \E v \in Visited' : LineOf(v)' = m.line /\ ~Ascends(v)'
         IN  /\ m.kind = "mixed" => source.text[m.line].mixed \/ stray
             /\ m.kind = "trailing" => source.text[m.line].trail >= 2 \/ stray
  <1> DEFINE m == messages[n]
             old == \E v \in Visited : LineOf(v) = m.line /\ ~Ascends(v)
             new == \E v \in Visited' : LineOf(v)' = m.line /\ ~Ascends(v)'
  <1>1. /\ m.kind = "mixed" => source.text[m.line].mixed \/ old
        /\ m.kind = "trailing" => source.text[m.line].trail >= 2 \/ old
    BY DEF LineInv, LineScanSound, LineFaultsReal
  <1>2. old => new
    <2>1. Visited' = Visited \cup {Here}
      BY VisitOne DEF LineInv
    <2>2. /\ \A v \in Visited : Ascends(v)' <=> Ascends(v)
          /\ \A v : LineOf(v)' = LineOf(v)
      BY AscendsStable DEF LineInv
    <2> QED  BY <2>1, <2>2
  <1> HIDE DEF old, new
  <1> QED  BY <1>1, <1>2 DEF new

LEMMA UnmappedKeeps ==
  ASSUME LineInv, examine_unmapped
  PROVE  LineInv'
  <1>1. /\ Walking /\ FileMapping = "NULL" /\ Measure /\ LineTypes
        /\ UNCHANGED <<source, FileMapping, CurrentLine, fun, line_pc, messages>>
    BY DEF examine_unmapped, LineInv
  <1>2. LineTypes'
    BY <1>1, WalkKeepsTypes DEF LineTypes
  <1>3. Visited' = Visited \cup {Here}
    BY <1>1, VisitOne
  <1>4. /\ \A v \in Visited : Ascends(v)' <=> Ascends(v)
        /\ \A v : LineOf(v)' = LineOf(v)
    BY <1>1, AscendsStable
  <1>5. PositionInv'
    BY <1>1, <1>3, <1>4 DEF LineInv, PositionInv
  <1>6. LineFaultsReported' /\ OverrunExplained'
    BY <1>1 DEF LineFaultsReported, OverrunExplained, Walking
  <1>7. LineFaultsReal'
    BY <1>1, RealStays DEF LineFaultsReal
  <1> QED  BY <1>2, <1>5, <1>6, <1>7 DEF LineInv, LineScanSound

\* What examine_stmt_indent prints.
MixedThere == StartLine <= Len(source.text) /\ source.text[StartLine].mixed
BlankThere == EndsInBlanks(Passed)

LEMMA MappedSays ==
  ASSUME LineInv, examine_stmt_indent
  PROVE  /\ messages' \in Seq(LineMessage) /\ Len(messages) <= Len(messages')
         /\ \A n \in 1..Len(messages) : messages'[n] = messages[n]
         /\ \A n \in 1..Len(messages') :
              \/ n \in 1..Len(messages)
              \/ MixedThere /\ messages'[n] = Message("mixed", stmt.line)
              \/ BlankThere /\ messages'[n] = Message("trailing", stmt.line)
         /\ MixedThere => \E n \in 1..Len(messages') : messages'[n] = Message("mixed", stmt.line)
         /\ BlankThere => \E n \in 1..Len(messages') : messages'[n] = Message("trailing", stmt.line)
  <1>1. /\ Walking /\ LineTypes
        /\ messages' = messages \o Says(MixedThere, "mixed", stmt.line) \o Says(BlankThere, "trailing", stmt.line)
    BY DEF examine_stmt_indent, LineInv, MixedThere, BlankThere
  <1>2. stmt.line \in Nat \ {0}
    BY <1>1, NextVisited
  <1>3. fun \in Nat /\ messages \in Seq(LineMessage)
    BY <1>1 DEF LineTypes
  <1> DEFINE a == Message("mixed", stmt.line)
             b == Message("trailing", stmt.line)
             t == Says(MixedThere, "mixed", stmt.line)
             u == Says(BlankThere, "trailing", stmt.line)
  <1>4. stmt.line \in Int
    BY <1>2
  <1>5. a \in LineMessage /\ b \in LineMessage
    BY <1>3, <1>4 DEF Message, LineMessage
  <1>6. (t = <<>> \/ t = <<a>>) /\ (u = <<>> \/ u = <<b>>)
    BY DEF Says
  <1>7. t = <<a>> <=> MixedThere
    BY DEF Says
  <1>8. u = <<b>> <=> BlankThere
    BY DEF Says
  <1>9. messages' = Joined(Joined(messages, t), u)
    BY <1>1 DEF Joined
  <1> HIDE DEF a, b, t, u
  <1>10. JoinsBoth(messages, a, t, b, u, messages')
    BY <1>3, <1>5, <1>6, <1>9, JoinedTwice
  <1>11. /\ messages' \in Seq(LineMessage) /\ Len(messages) <= Len(messages')
         /\ \A n \in 1..Len(messages) : messages'[n] = messages[n]
         /\ \A n \in 1..Len(messages') : \/ n \in 1..Len(messages)
                                         \/ t = <<a>> /\ messages'[n] = a
                                         \/ u = <<b>> /\ messages'[n] = b
         /\ t = <<a>> => \E n \in 1..Len(messages') : messages'[n] = a
         /\ u = <<b>> => \E n \in 1..Len(messages') : messages'[n] = b
    BY <1>10 DEF JoinsBoth
  <1> QED  BY <1>7, <1>8, <1>11, Zenon DEF a, b

LEMMA MappedKeeps ==
  ASSUME LineInv, examine_stmt_indent
  PROVE  LineInv'
  <1> DEFINE L == stmt.line
             mixed == MixedThere
             blank == BlankThere
  <1>1. /\ Walking /\ FileMapping = "mapped" /\ Measure /\ LineTypes /\ CurrentLine' = Passed
        /\ L > CurrentLine => ~(L > Len(source.text))
        /\ messages' = messages \o Says(mixed, "mixed", L) \o Says(blank, "trailing", L)
        /\ UNCHANGED <<source, FileMapping, fun, line_pc>>
    BY DEF examine_stmt_indent, LeavesFile, LineInv, MixedThere, BlankThere
  <1>2. /\ L \in Nat \ {0} /\ LineOf(Here) = L
        /\ \A v \in Visited : LineOf(v) \in Nat \ {0}
    BY <1>1, NextVisited
  <1>3. Visited' = Visited \cup {Here}
    BY <1>1, VisitOne
  <1>4. /\ \A v \in Visited : Ascends(v)' <=> Ascends(v)
        /\ \A v : v = Here => (Ascends(v)' <=> \A w \in Visited : LineOf(w) < L)
        /\ \A v : LineOf(v)' = LineOf(v)
    BY <1>1, AscendsStable
  <1>5. /\ CurrentLine \in 0..Len(source.text) /\ Len(source.text) \in Nat /\ fun \in Nat
        /\ messages \in Seq(LineMessage)
    BY <1>1, SourceType DEF LineTypes
  <1>6. /\ Passed \in 1..Len(source.text)
        /\ CurrentLine <= Passed /\ L <= Passed /\ (Passed = L \/ Passed = CurrentLine)
    BY <1>1, <1>2, <1>5 DEF Passed, MAX_NUM
  <1>7. /\ messages' \in Seq(LineMessage) /\ Len(messages) <= Len(messages')
        /\ \A n \in 1..Len(messages) : messages'[n] = messages[n]
        /\ \A n \in 1..Len(messages') : \/ n \in 1..Len(messages)
                                        \/ mixed /\ messages'[n] = Message("mixed", L)
                                        \/ blank /\ messages'[n] = Message("trailing", L)
        /\ mixed => \E n \in 1..Len(messages') : messages'[n] = Message("mixed", L)
        /\ blank => \E n \in 1..Len(messages') : messages'[n] = Message("trailing", L)
    BY MappedSays
  <1> HIDE DEF L, mixed, blank
  <1>8. LineTypes'
    BY <1>1, <1>5, <1>6, <1>7, WalkKeepsTypes
  <1>9. PositionInv'
    <2>1. \E w \in Visited' : LineOf(w)' = CurrentLine'
      <3>1. CASE Passed = L
        BY <1>1, <1>2, <1>3, <1>4, <3>1
      <3>2. CASE Passed = CurrentLine
        <4>1. CurrentLine # 0
          BY <1>6, <3>2
        <4>2. PICK w \in Visited : LineOf(w) = CurrentLine
          BY <4>1 DEF LineInv, PositionInv
        <4> QED  BY <1>1, <1>3, <1>4, <3>2, <4>2
      <3> QED  BY <1>6, <3>1, <3>2
    <2>2. ASSUME NEW w \in Visited' PROVE LineOf(w)' <= CurrentLine'
      <3>1. CASE w = Here
        BY <1>1, <1>2, <1>4, <1>6, <3>1
      <3>2. CASE w \in Visited
        <4>1. LineOf(w) <= CurrentLine /\ LineOf(w) \in Nat
          BY <1>1, <1>2, <3>2 DEF LineInv, PositionInv
        <4> QED  BY <1>1, <1>4, <1>5, <1>6, <4>1
      <3> QED  BY <1>3, <2>2, <3>1, <3>2
    <2> QED  BY <2>1, <2>2 DEF PositionInv
  \* A statement that comes in line order finds the position before its line.
  <1>10. (\A w \in Visited : LineOf(w) < L) <=> L > CurrentLine
    <2>1. ASSUME \A w \in Visited : LineOf(w) < L PROVE L > CurrentLine
      <3>1. CASE CurrentLine = 0
        BY <1>2, <3>1
      <3>2. CASE CurrentLine # 0
        BY <2>1, <3>2 DEF LineInv, PositionInv
      <3> QED  BY <3>1, <3>2
    <2>2. ASSUME L > CurrentLine, NEW w \in Visited PROVE LineOf(w) < L
      <3>1. LineOf(w) <= CurrentLine /\ LineOf(w) \in Nat
        BY <1>1, <1>2 DEF LineInv, PositionInv
      <3> QED  BY <1>2, <1>5, <2>2, <3>1
    <2> QED  BY <2>1, <2>2
  <1>11. ASSUME L > CurrentLine
         PROVE  /\ mixed <=> source.text[L].mixed
                /\ blank <=> source.text[L].trail >= 2
    <2>1. StartLine = L
      BY <1>11 DEF StartLine, L
    <2>2. Passed = L
      BY <1>2, <1>5, <1>6, <1>11
    <2>3. L <= Len(source.text)
      BY <1>1, <1>2, <1>5, <1>11
    <2> QED  BY <2>1, <2>2, <2>3 DEF mixed, blank, MixedThere, BlankThere, EndsInBlanks
  <1>12. \A k, l : Said(k, l) => Said(k, l)'
    BY <1>5, <1>7 DEF Said
  <1>13. \A l : l = L => (mixed => Said("mixed", l)') /\ (blank => Said("trailing", l)')
    <2> SUFFICES ASSUME NEW l, l = L
                 PROVE  (mixed => Said("mixed", l)') /\ (blank => Said("trailing", l)')
      OBVIOUS
    <2>1. /\ Message("mixed", L).kind = "mixed" /\ Message("mixed", L).line = l
          /\ Message("trailing", L).kind = "trailing" /\ Message("trailing", L).line = l
      BY DEF Message
    <2>3. ASSUME mixed PROVE Said("mixed", l)'
      <3>1. PICK n \in 1..Len(messages') : messages'[n] = Message("mixed", L)
        BY <1>7, <2>3, Zenon
      <3>2. messages'[n].kind = "mixed" /\ messages'[n].line = l
        BY <2>1, <3>1
      <3> QED  BY <3>2 DEF Said
    <2>4. ASSUME blank PROVE Said("trailing", l)'
      <3>1. PICK n \in 1..Len(messages') : messages'[n] = Message("trailing", L)
        BY <1>7, <2>4, Zenon
      <3>2. messages'[n].kind = "trailing" /\ messages'[n].line = l
        BY <2>1, <3>1
      <3> QED  BY <3>2 DEF Said
    <2> QED  BY <2>3, <2>4
  <1>14. LineFaultsReported'
    <2> SUFFICES ASSUME NEW v \in Visited', InFile(v), Ascends(v)'
                 PROVE  /\ source.text[LineOf(v)].mixed => Said("mixed", LineOf(v))'
                        /\ source.text[LineOf(v)].trail >= 2 => Said("trailing", LineOf(v))'
      BY <1>1, <1>4 DEF LineFaultsReported, InFile
    <2>1. CASE v \in Visited
      BY <1>1, <1>4, <1>12, <2>1 DEF LineInv, LineScanSound, LineFaultsReported
    <2>2. CASE v = Here
      <3>1. LineOf(v) = L
        BY <1>2, <2>2
      <3>2. L > CurrentLine
        BY <1>4, <1>10, <2>2
      <3>3. \A l : l = L => (source.text[l].mixed => Said("mixed", l)')
        BY <1>11, <1>13, <3>2, Zenon
      <3>4. \A l : l = L => (source.text[l].trail >= 2 => Said("trailing", l)')
        BY <1>11, <1>13, <3>2, Zenon
      <3> QED  BY <1>4, <3>1, <3>3, <3>4
    <2> QED  BY <1>3, <2>1, <2>2
  <1>15. LineFaultsReal'
    <2> SUFFICES ASSUME NEW n \in 1..Len(messages')
                 PROVE  LET m == messages'[n]
                            stray == \E v \in Visited' : LineOf(v)' = m.line /\ ~Ascends(v)'
                        IN  /\ m.kind = "mixed" => source.text[m.line].mixed \/ stray
                            /\ m.kind = "trailing" => source.text[m.line].trail >= 2 \/ stray
      BY <1>1 DEF LineFaultsReal
    <2>1. CASE n \in 1..Len(messages)
      BY <1>1, <1>7, <2>1, RealStays
    <2>2. CASE ~(n \in 1..Len(messages))
      <3>1. \/ mixed /\ messages'[n] = Message("mixed", L)
            \/ blank /\ messages'[n] = Message("trailing", L)
        BY <1>7, <2>2
      <3>2. messages'[n].line = L
        BY <3>1 DEF Message
      <3>3. CASE L > CurrentLine
        BY <1>11, <3>1, <3>3 DEF Message
      <3>4. CASE ~(L > CurrentLine)
        <4>1. \E v \in Visited' : LineOf(v)' = L /\ ~Ascends(v)'
          BY <1>2, <1>3, <1>4, <1>10, <3>4
        <4> QED  BY <3>2, <4>1
      <3> QED  BY <3>3, <3>4
    <2> QED  BY <2>1, <2>2
  <1>16. OverrunExplained'
    <2>1. line_pc' = "walk"
      BY <1>1 DEF Walking
    <2> QED  BY <2>1 DEF OverrunExplained
  <1> QED  BY <1>8, <1>9, <1>14, <1>15, <1>16 DEF LineInv, LineScanSound

LEMMA LineInvInit ==
  ASSUME LineInit
  PROVE  LineInv
  <1>1. LineTypes
    BY SourceType DEF LineInit, LineTypes
  <1>2. Visited = {}
    <2>1. fun = 1 /\ Len(level) = 0
      BY DEF LineInit
    <2>2. ASSUME NEW v \in Visited PROVE FALSE
      <3>0. PICK f \in 1..Len(source.functions) : \E n \in VisitedIn(f) : v = <<f, n>>
        BY InVisited
      <3> QED  BY <2>1, <3>0 DEF VisitedIn
    <2> QED  BY <2>2
  <1>3. PositionInv
    BY <1>2 DEF PositionInv, LineInit
  <1>4. Len(messages) = 0 /\ line_pc = "walk"
    BY DEF LineInit
  <1>5. LineFaultsReported
    BY <1>2 DEF LineFaultsReported
  <1>6. LineFaultsReal /\ OverrunExplained
    BY <1>4 DEF LineFaultsReal, OverrunExplained
  <1> QED  BY <1>1, <1>3, <1>5, <1>6 DEF LineInv, LineScanSound

\* Leaving a function changes none of what was visited.
LEMMA VisitedAfterFunction ==
  ASSUME LineTypes, EndFunction
  PROVE  Visited' = Visited
  <1>1. /\ fun \in 1..Len(source.functions) /\ fun' = fun + 1 /\ source' = source
        /\ Len(level) = Len(source.functions[fun].stmts) /\ Len(level') = 0
    BY SourceType DEF EndFunction, LineTypes, Stmts
  <1>2. \A f \in 1..Len(source.functions) : VisitedIn(f)' = VisitedIn(f)
    <2> SUFFICES ASSUME NEW f \in 1..Len(source.functions) PROVE VisitedIn(f)' = VisitedIn(f)
      OBVIOUS
    <2>1. CASE f < fun
      BY <1>1, <2>1 DEF VisitedIn
    <2>2. CASE f = fun
      BY <1>1, <2>2 DEF VisitedIn
    <2>3. CASE f = fun + 1
      BY <1>1, <2>3 DEF VisitedIn
    <2>4. CASE f > fun + 1
      BY <1>1, <2>4 DEF VisitedIn
    <2> QED  BY <1>1, <2>1, <2>2, <2>3, <2>4
  <1> QED  BY <1>1, <1>2 DEF Visited

\* What parse_function_list prints about a function with statements.
LEMMA EndSays ==
  ASSUME LineInv, EndFunction, Stmts # <<>>
  PROVE  /\ messages' \in Seq(LineMessage) /\ Len(messages) \in Nat
         /\ Len(messages) <= Len(messages')
         /\ \A n \in 1..Len(messages) : n \in 1..Len(messages') /\ messages'[n] = messages[n]
         /\ \A n \in 1..Len(messages') :
              \/ n \in 1..Len(messages)
              \/ TooDeep /\ messages'[n] = Message("indent", CurrentIndentLevel)
              \/ TooLong /\ messages'[n] = Message("lines", LineCount)
         /\ TooDeep => \E n \in 1..Len(messages') :
                         messages'[n] = Message("indent", CurrentIndentLevel)
         /\ TooLong => \E n \in 1..Len(messages') : messages'[n] = Message("lines", LineCount)
  <1> DEFINE a == Message("indent", CurrentIndentLevel)
             b == Message("lines", LineCount)
             t == Says(TooDeep, "indent", CurrentIndentLevel)
             u == Says(TooLong, "lines", LineCount)
  <1>1. /\ fun \in 1..Len(source.functions) /\ messages \in Seq(LineMessage)
        /\ CurrentIndentLevel \in Int /\ LineCount \in Int
    <2>1. /\ fun \in 1..Len(source.functions) /\ messages \in Seq(LineMessage)
          /\ CurrentIndentLevel \in Int /\ LastInstructionLine \in Int
      BY SourceType DEF EndFunction, LineTypes, LineInv
    <2>2. source.functions[fun].line \in Nat
      BY <2>1, SourceType DEF LineTypes, LineInv
    <2> QED  BY <2>1, <2>2 DEF LineCount
  <1>2. messages' = Joined(Joined(messages, t), u)
    BY DEF EndFunction, Joined
  <1>3. a \in LineMessage /\ b \in LineMessage
    BY <1>1 DEF Message, LineMessage
  <1>4. (t = <<>> \/ t = <<a>>) /\ (u = <<>> \/ u = <<b>>)
    BY DEF Says
  <1>5. t = <<a>> <=> TooDeep
    BY DEF Says
  <1>6. u = <<b>> <=> TooLong
    BY DEF Says
  <1> HIDE DEF a, b, t, u
  <1>7. JoinsBoth(messages, a, t, b, u, messages')
    BY <1>1, <1>2, <1>3, <1>4, JoinedTwice
  <1>8. /\ messages' \in Seq(LineMessage) /\ Len(messages) \in Nat
        /\ Len(messages) <= Len(messages')
        /\ \A n \in 1..Len(messages) : n \in 1..Len(messages') /\ messages'[n] = messages[n]
        /\ \A n \in 1..Len(messages') : \/ n \in 1..Len(messages)
                                        \/ t = <<a>> /\ messages'[n] = a
                                        \/ u = <<b>> /\ messages'[n] = b
        /\ t = <<a>> => \E n \in 1..Len(messages') : messages'[n] = a
        /\ u = <<b>> => \E n \in 1..Len(messages') : messages'[n] = b
    BY <1>7 DEF JoinsBoth
  <1> QED  BY <1>5, <1>6, <1>8, Zenon DEF a, b

\* What the scan of the lines has to show for itself does not change while the
\* position, the visited statements and the complaints about lines do not.
LEMMA FunctionEndKeeps ==
  ASSUME LineInv, EndFunction
  PROVE  LineInv'
  <1> DEFINE c == CurrentIndentLevel
             l == LineCount
  <1>1. /\ fun \in 1..Len(source.functions) /\ fun' = fun + 1 /\ level' = <<>>
        /\ CurrentIndentLevel' = -1 /\ LastInstructionLine' = -1
        /\ UNCHANGED <<source, FileMapping, CurrentLine, line_pc>> /\ line_pc = "walk"
        /\ LineTypes /\ messages \in Seq(LineMessage) /\ c \in Int
    BY SourceType DEF EndFunction, LineTypes, LineInv
  <1>2. l \in Int
    BY <1>1, SourceType DEF LineCount, LineTypes
  <1>3. /\ messages' \in Seq(LineMessage) /\ Len(messages) \in Nat
        /\ Len(messages) <= Len(messages')
        /\ \A n \in 1..Len(messages) : n \in 1..Len(messages') /\ messages'[n] = messages[n]
        /\ \A n \in 1..Len(messages') : \/ n \in 1..Len(messages)
                                        \/ messages'[n] = Message("indent", c)
                                        \/ messages'[n] = Message("lines", l)
    <2>1. CASE Stmts = <<>>
      <3>1. messages' = messages
        BY <2>1 DEF EndFunction
      <3> QED  BY <1>1, <3>1
    <2>2. CASE Stmts # <<>>
      BY <2>2, EndSays
    <2> QED  BY <2>1, <2>2
  <1> HIDE DEF c, l
  <1>4. LineTypes'
    <2>1. ASSUME ~(fun' > Len(source.functions)) PROVE Len(level') <= Len(Stmts')
      <3>1. fun + 1 \in 1..Len(source.functions) /\ Len(level') = 0
        BY <1>1, <2>1, SourceType DEF LineTypes
      <3>2. Stmts' = source.functions[fun + 1].stmts
        BY <1>1 DEF Stmts
      <3>3. Len(source.functions[fun + 1].stmts) \in Nat
        BY <1>1, <3>1, SourceType DEF LineTypes
      <3> QED  BY <3>1, <3>2, <3>3
    <2> QED  BY <1>1, <1>3, <2>1, SourceType DEF LineTypes
  <1>5. Visited' = Visited /\ \A v : LineOf(v)' = LineOf(v)
    BY <1>1, VisitedAfterFunction DEF LineOf
  <1>6. \A v : Ascends(v)' <=> Ascends(v)
    BY <1>5 DEF Ascends, Before
  <1>7. PositionInv'
    BY <1>1, <1>5 DEF PositionInv, LineInv
  <1>8. \A k, i : Said(k, i) => Said(k, i)'
    BY <1>3 DEF Said
  <1>9. LineFaultsReported'
    BY <1>1, <1>5, <1>6, <1>8 DEF LineInv, LineScanSound, LineFaultsReported, InFile
  <1>10. LineFaultsReal'
    <2> SUFFICES ASSUME NEW n \in 1..Len(messages')
                 PROVE  LET m == messages'[n]
                            stray == \E v \in Visited' : LineOf(v)' = m.line /\ ~Ascends(v)'
                        IN  /\ m.kind = "mixed" => source.text[m.line].mixed \/ stray
                            /\ m.kind = "trailing" => source.text[m.line].trail >= 2 \/ stray
      BY <1>1 DEF LineFaultsReal
    <2>1. CASE n \in 1..Len(messages)
      BY <1>3, <1>5, <1>6, <2>1 DEF LineInv, LineScanSound, LineFaultsReal
    <2>2. CASE ~(n \in 1..Len(messages))
      <3>1. messages'[n].kind \in {"indent", "lines"}
        BY <1>3, <2>2 DEF Message
      <3> QED  BY <3>1
    <2> QED  BY <2>1, <2>2
  <1>11. OverrunExplained'
    BY <1>1 DEF OverrunExplained
  <1> QED  BY <1>4, <1>7, <1>9, <1>10, <1>11 DEF LineInv, LineScanSound

\* Steps that only move line_pc.
LEMMA LineStutterKeeps ==
  ASSUME LineInv, OverrunExplained',
         UNCHANGED <<source, FileMapping, CurrentLine, CurrentIndentLevel,
                     LastInstructionLine, level, fun, messages>>
  PROVE  LineInv'
  <1>1. LineTypes'
    BY DEF LineInv, LineTypes, Stmts
  <1>2. Visited' = Visited /\ \A v : LineOf(v)' = LineOf(v)
    BY DEF Visited, VisitedIn, LineOf
  <1>3. \A v : Ascends(v)' <=> Ascends(v)
    BY <1>2 DEF Ascends, Before
  <1>4. PositionInv'
    BY <1>2 DEF PositionInv, LineInv
  <1>5. \A k, i : Said(k, i)' <=> Said(k, i)
    BY DEF Said
  <1>6. LineFaultsReported'
    BY <1>2, <1>3, <1>5 DEF LineInv, LineScanSound, LineFaultsReported, InFile
  <1>7. LineFaultsReal'
    BY <1>2, <1>3 DEF LineInv, LineScanSound, LineFaultsReal
  <1> QED  BY <1>1, <1>4, <1>6, <1>7 DEF LineInv, LineScanSound

LEMMA LineInvNext ==
  ASSUME LineInv, [LineNext]_lineVars
  PROVE  LineInv'
  <1>1. CASE examine_unmapped
    BY <1>1, UnmappedKeeps
  <1>2. CASE examine_stmt_indent
    BY <1>2, MappedKeeps
  <1>3. CASE Overrun
    \* The position can only have come to the last line.
    <2>1. \/ FileMapping = "MAP_FAILED"
          \/ ~source.eol \/ CurrentLine = Len(source.text)
          \/ ~stmt.own /\ stmt.line > Len(source.text)
      <3>1. /\ CurrentLine \in 0..Len(source.text) /\ Len(source.text) \in Nat
            /\ stmt.line \in Nat \ {0} /\ (stmt.own => stmt.line <= Len(source.text))
        BY <1>3, SourceType, NextVisited DEF Overrun, LineInv, LineTypes
      <3>2. \/ LeavesFile \/ StartLine > Len(source.text)
            \/ FileMapping = "MAP_FAILED"
        BY <1>3 DEF Overrun, Overruns
      <3>3. LeavesFile => ~source.eol \/ (~stmt.own /\ stmt.line > Len(source.text))
        BY <3>1 DEF LeavesFile
      <3>4. /\ StartLine > Len(source.text) /\ ~(stmt.line > Len(source.text))
            => CurrentLine = Len(source.text)
        BY <3>1 DEF StartLine
      <3>5. stmt.line > Len(source.text) => ~stmt.own
        BY <3>1
      <3> QED  BY <3>2, <3>3, <3>4, <3>5
    <2>2. OverrunExplained'
      BY <1>3, <2>1 DEF Overrun, OverrunExplained, stmt, Stmts
    <2> QED  BY <1>3, <2>2, LineStutterKeeps DEF Overrun
  <1>4. CASE EndFunction
    BY <1>4, FunctionEndKeeps
  <1>5. CASE EndFile
    <2>1. OverrunExplained'
      BY <1>5 DEF EndFile, OverrunExplained
    <2> QED  BY <1>5, <2>1, LineStutterKeeps DEF EndFile
  <1>6. CASE UNCHANGED lineVars
    <2>1. OverrunExplained'
      BY <1>6 DEF LineInv, LineScanSound, lineVars, OverrunExplained, stmt, Stmts
    <2> QED  BY <1>6, <2>1, LineStutterKeeps DEF lineVars
  <1> QED  BY <1>1, <1>2, <1>3, <1>4, <1>5, <1>6 DEF LineNext, LineStopped

(***************************************************************************)
(* For every file, every order of its statements and every limit, the      *)
(* forward-only scan of examine_stmt_indent reports the faults of the      *)
(* lines of the file it comes to in order, invents none but at a stray     *)
(* line, and leaves the mapped file only at its end, for a line of another *)
(* file, or where there is no mapping.                                     *)
(***************************************************************************)
THEOREM LineScanAlwaysSound == LineSpec => []LineScanSound
  <1>1. LineInit => LineInv
    BY LineInvInit
  <1>2. LineInv /\ [LineNext]_lineVars => LineInv'
    BY LineInvNext
  <1>3. LineInv => LineScanSound
    BY DEF LineInv
  <1> QED  BY <1>1, <1>2, <1>3, PTL DEF LineSpec

-----------------------------------------------------------------------------
(* LineChecks: nesting and the summaries *)

\* The parent of a statement, and sets that hold parents with children.
ParentOf(f, n) == source.functions[f].stmts[n].parent
ClosedUp(f, S) == \A k \in S : ParentOf(f, k) \in S \cup {0}
InAll(f, n, m) == \A S \in SUBSET (1..n) : n \in S /\ ClosedUp(f, S) => m \in S

LEMMA OnPath ==
  ASSUME NEW f, NEW n, NEW m
  PROVE  m \in Path(f, n) <=> m \in 1..n /\ InAll(f, n, m)
  BY DEF Path, InAll, ClosedUp, ParentOf

\* A statement's path is its parent's path and the statement.
LEMMA PathStep ==
  ASSUME source \in Sources, NEW f \in 1..Len(source.functions),
         NEW n \in 1..Len(source.functions[f].stmts)
  PROVE  /\ ParentOf(f, n) = 0 => Path(f, n) = {n}
         /\ ParentOf(f, n) # 0 =>
              /\ ParentOf(f, n) \in 1..(n - 1)
              /\ Path(f, n) = Path(f, ParentOf(f, n)) \cup {n}
              /\ n \notin Path(f, ParentOf(f, n))
  <1> DEFINE p == ParentOf(f, n)
  <1>1. n \in Nat /\ n \in 1..n /\ p \in Nat /\ p < n
    BY SourceType DEF ParentOf
  <1>2. n \in Path(f, n)
    BY <1>1, OnPath DEF InAll
  <1>3. ASSUME p = 0 PROVE Path(f, n) = {n}
    <2>1. {n} \in SUBSET (1..n) /\ ClosedUp(f, {n})
      BY <1>1, <1>3 DEF ClosedUp
    <2>2. \A m \in Path(f, n) : m = n
      BY <2>1, OnPath DEF InAll
    <2> QED  BY <1>2, <2>2
  <1>4. ASSUME p # 0
        PROVE  p \in 1..(n - 1) /\ Path(f, n) = Path(f, p) \cup {n} /\ n \notin Path(f, p)
    <2>1. p \in 1..(n - 1) /\ p \in 1..p /\ 1..p \subseteq 1..n /\ n \notin 1..p
      BY <1>1, <1>4
    <2>2. p \in Path(f, p)
      BY <2>1, OnPath DEF InAll
    <2> HIDE DEF p
    <2>3. \A m \in Path(f, p) : m \in 1..p /\ InAll(f, p, m)
      BY OnPath
    <2>4. ClosedUp(f, Path(f, p))
      <3> SUFFICES ASSUME NEW m \in Path(f, p), ParentOf(f, m) # 0
                   PROVE  ParentOf(f, m) \in Path(f, p)
        BY DEF ClosedUp
      <3>1. m \in 1..p /\ m \in 1..Len(source.functions[f].stmts) /\ m \in Nat
        <4>1. Len(source.functions[f].stmts) \in Nat
          BY SourceType
        <4> QED  BY <1>1, <2>1, <2>3, <4>1
      <3>2. ParentOf(f, m) \in Nat /\ ParentOf(f, m) < m
        BY <3>1, SourceType DEF ParentOf
      <3>3. ParentOf(f, m) \in 1..p
        BY <1>1, <3>1, <3>2
      <3>4. InAll(f, p, ParentOf(f, m))
        BY <2>3 DEF InAll, ClosedUp
      <3> QED  BY <3>3, <3>4, OnPath
    \* The parent's path and n together are closed.
    <2>5. ASSUME NEW m \in Path(f, n) PROVE m \in Path(f, p) \cup {n}
      <3>1. Path(f, p) \cup {n} \in SUBSET (1..n)
        BY <1>1, <2>1, <2>3
      <3>2. ClosedUp(f, Path(f, p) \cup {n})
        BY <2>2, <2>4 DEF ClosedUp, p
      <3> QED  BY <2>5, <3>1, <3>2, OnPath DEF InAll
    \* What is closed and holds n holds the parent's path.
    <2>6. ASSUME NEW m \in Path(f, p), NEW S \in SUBSET (1..n), n \in S, ClosedUp(f, S)
          PROVE  m \in S
      <3> DEFINE T == S \cap (1..p)
      <3>1. p \in T
        BY <1>4, <2>1, <2>6 DEF ClosedUp, p
      <3>2. ClosedUp(f, T)
        <4> SUFFICES ASSUME NEW k \in T, ParentOf(f, k) # 0 PROVE ParentOf(f, k) \in T
          BY DEF ClosedUp
        <4>1. ParentOf(f, k) \in S
          BY <2>6 DEF ClosedUp
        <4>2. k \in 1..p /\ k \in 1..Len(source.functions[f].stmts)
          <5>1. Len(source.functions[f].stmts) \in Nat
            BY SourceType
          <5> QED  BY <1>1, <2>1, <5>1
        <4>3. ParentOf(f, k) \in Nat /\ ParentOf(f, k) < k
          BY <4>2, SourceType DEF ParentOf
        <4>4. ParentOf(f, k) \in 1..p
          BY <1>1, <4>2, <4>3
        <4> QED  BY <4>1, <4>4
      <3>3. T \in SUBSET (1..p)
        OBVIOUS
      <3> HIDE DEF T
      <3>4. m \in T
        BY <2>3, <2>6, <3>1, <3>2, <3>3 DEF InAll
      <3> QED  BY <3>4 DEF T
    <2>7. ASSUME NEW m \in Path(f, p) PROVE m \in Path(f, n)
      <3>1. m \in 1..n
        BY <2>1, <2>3
      <3>2. InAll(f, n, m)
        BY <2>6 DEF InAll
      <3> QED  BY <3>1, <3>2, OnPath
    <2> QED  BY <1>2, <2>1, <2>3, <2>5, <2>7
  <1> QED  BY <1>3, <1>4

\* The statements of n's path that indent.
Indenting(f, n) == {m \in Path(f, n) : ~source.functions[f].stmts[m].compound}

LEMMA DepthType ==
  ASSUME NEW f, NEW n \in Nat
  PROVE  IsFiniteSet(Indenting(f, n)) /\ Depth(f, n) \in Nat
  <1>1. IsFiniteSet(1..n)
    BY FS_Interval
  <1>2. Indenting(f, n) \subseteq 1..n
    BY DEF Indenting, Path
  <1>3. IsFiniteSet(Indenting(f, n))
    BY <1>1, <1>2, FS_Subset
  <1> QED  BY <1>3, FS_CardinalityType DEF Depth, Indenting

LEMMA DepthStep ==
  ASSUME source \in Sources, NEW f \in 1..Len(source.functions),
         NEW n \in 1..Len(source.functions[f].stmts)
  PROVE  LET parent == IF ParentOf(f, n) = 0 THEN 0 ELSE Depth(f, ParentOf(f, n))
         IN  Depth(f, n) = IF source.functions[f].stmts[n].compound THEN parent ELSE parent + 1
  <1> DEFINE c == source.functions[f].stmts[n].compound
             p == ParentOf(f, n)
  <1>1. n \in Nat /\ p \in Nat
    BY SourceType DEF ParentOf
  <1>2. CASE p = 0
    <2>1. Path(f, n) = {n}
      BY <1>2, PathStep
    <2>2. CASE c
      <3>1. Indenting(f, n) = {}
        BY <2>1, <2>2 DEF Indenting
      <3>2. Depth(f, n) = 0
        BY <3>1, FS_EmptySet DEF Depth, Indenting
      <3> QED  BY <1>2, <2>2, <3>2
    <2>3. CASE ~c
      <3>1. Indenting(f, n) = {n}
        BY <2>1, <2>3 DEF Indenting
      <3>2. Depth(f, n) = 1
        BY <3>1, FS_Singleton DEF Depth, Indenting
      <3> QED  BY <1>2, <2>3, <3>2
    <2> QED  BY <2>2, <2>3
  <1>3. CASE p # 0
    <2>1. Path(f, n) = Path(f, p) \cup {n} /\ n \notin Path(f, p)
      BY <1>3, PathStep
    <2>2. IsFiniteSet(Indenting(f, p)) /\ Depth(f, p) \in Nat
      BY <1>1, DepthType
    <2>3. CASE c
      <3>1. Indenting(f, n) = Indenting(f, p)
        BY <2>1, <2>3 DEF Indenting
      <3>2. Depth(f, n) = Depth(f, p)
        BY <3>1 DEF Depth, Indenting
      <3> QED  BY <1>3, <2>3, <3>2
    <2>4. CASE ~c
      <3>1. Indenting(f, n) = Indenting(f, p) \cup {n} /\ n \notin Indenting(f, p)
        BY <2>1, <2>4 DEF Indenting
      <3>2. Cardinality(Indenting(f, n)) = Cardinality(Indenting(f, p)) + 1
        BY <2>2, <3>1, FS_AddElement
      <3>3. Depth(f, n) = Depth(f, p) + 1
        BY <3>2 DEF Depth, Indenting
      <3> QED  BY <1>3, <2>4, <3>3
    <2> QED  BY <2>3, <2>4
  <1> QED  BY <1>2, <1>3

\* The levels measured so far are depths, and the two extremes are theirs.
LevelInv ==
  fun <= Len(source.functions) =>
    /\ \A n \in 1..Len(level) : /\ level[n] = Depth(fun, n) /\ level[n] <= CurrentIndentLevel
                                /\ Stmts[n].line <= LastInstructionLine
    /\ CurrentIndentLevel = -1 \/ \E n \in 1..Len(level) : CurrentIndentLevel = Depth(fun, n)
    /\ LastInstructionLine = -1 \/ \E n \in 1..Len(level) : LastInstructionLine = Stmts[n].line

\* A summary is printed about a function that has ended.
OwnerInv ==
  \A n \in 1..Len(messages) :
    messages[n].kind \in {"indent", "lines"} => messages[n].func \in 1..(fun - 1)

\* SummaryIsOwn, of one function.
Own(f) ==
  /\ Summary(f, "indent") # {} <=>
       source.functions[f].stmts # <<>> /\ (MaxIndentLevel <= 0 \/ Nested(f, MaxIndentLevel))
  /\ Summary(f, "lines") # {} <=>
       \/ source.functions[f].stmts # <<>> /\ MaxLineCount <= 0
       \/ \E c \in Extents(f) : c >= MaxLineCount
  /\ \A n \in Summary(f, "indent") :
       \A d : d = messages[n].line => Nested(f, d) /\ ~Nested(f, d + 1)
  /\ \A n \in Summary(f, "lines") : messages[n].line \in Extents(f)

AllOwn == \A f \in 1..(fun - 1) : Own(f)

SummaryInv == LineInv /\ LevelInv /\ OwnerInv /\ AllOwn

LEMMA SameSource ==
  ASSUME source' = source
  PROVE  /\ \A f, n : Depth(f, n)' = Depth(f, n)
         /\ \A f, d : Nested(f, d)' <=> Nested(f, d)
         /\ \A f : Extents(f)' = Extents(f)
  <1>1. \A f, n : Depth(f, n)' = Depth(f, n)
    BY DEF Depth, Path
  <1>2. \A f, d : Nested(f, d)' <=> Nested(f, d)
    BY <1>1 DEF Nested
  <1> QED  BY <1>1, <1>2 DEF Extents

\* examine_stmt_indent's level is the depth of the statement.
LEMMA LevelIsDepth ==
  ASSUME LineTypes, LevelInv, Walking
  PROVE  indent_level = Depth(fun, Len(level) + 1) /\ indent_level \in Nat
  <1> DEFINE n == Len(level) + 1
  <1>1. /\ fun \in 1..Len(source.functions) /\ Len(level) \in Nat /\ source \in Sources
        /\ n \in 1..Len(source.functions[fun].stmts) /\ n \in Nat
    BY SourceType DEF LineTypes, Walking, Stmts
  <1>2. stmt = source.functions[fun].stmts[n] /\ stmt.parent = ParentOf(fun, n)
    BY DEF stmt, Stmts, ParentOf
  <1>3. ParentOf(fun, n) # 0 => ParentOf(fun, n) \in 1..Len(level)
    <2>1. ParentOf(fun, n) \in Nat /\ ParentOf(fun, n) < n
      BY <1>1, SourceType DEF ParentOf
    <2> QED  BY <1>1, <2>1
  <1>4. ParentOf(fun, n) # 0 => level[ParentOf(fun, n)] = Depth(fun, ParentOf(fun, n))
    BY <1>1, <1>3 DEF LevelInv
  <1>5. Depth(fun, n) =
          LET parent == IF ParentOf(fun, n) = 0 THEN 0 ELSE Depth(fun, ParentOf(fun, n))
          IN  IF source.functions[fun].stmts[n].compound THEN parent ELSE parent + 1
    BY <1>1, DepthStep
  <1>6. Depth(fun, n) \in Nat
    BY <1>1, DepthType
  <1> HIDE DEF n
  <1>7. indent_level = Depth(fun, n)
    BY <1>2, <1>4, <1>5 DEF indent_level
  <1> QED  BY <1>6, <1>7 DEF n

LEMMA MeasureKeeps ==
  ASSUME LineTypes, LevelInv, Walking, Measure, UNCHANGED <<source, fun>>
  PROVE  LevelInv'
  <1> DEFINE N == Len(level)
             D == Depth(fun, N + 1)
             c == CurrentIndentLevel
             l == LastInstructionLine
  <1>1. /\ fun \in 1..Len(source.functions) /\ fun <= Len(source.functions)
        /\ N \in Nat /\ level \in Seq(Int) /\ c \in Int /\ l \in Int
    BY SourceType DEF LineTypes, Walking
  <1>2. indent_level = D /\ D \in Nat
    BY LevelIsDepth
  <1>3. /\ Len(level') = N + 1 /\ level'[N + 1] = D
        /\ \A n \in 1..N : level'[n] = level[n]
    BY <1>1, <1>2 DEF Measure
  <1>4. stmt.line \in Nat /\ stmt = Stmts[N + 1] /\ Stmts' = Stmts
    BY NextVisited DEF stmt, Stmts
  <1>5. /\ c' \in Int /\ c <= c' /\ D <= c' /\ (c' = c \/ c' = D)
    BY <1>1, <1>2 DEF Measure, MAX_NUM
  <1>6. /\ l' \in Int /\ l <= l' /\ stmt.line <= l' /\ (l' = l \/ l' = stmt.line)
    BY <1>1, <1>4 DEF Measure, MAX_NUM
  <1>7. \A n \in 1..N : /\ level[n] = Depth(fun, n) /\ level[n] <= c /\ Stmts[n].line <= l
                        /\ level[n] \in Int /\ Stmts[n].line \in Int
    <2>1. \A n \in 1..N : level[n] = Depth(fun, n) /\ level[n] <= c /\ Stmts[n].line <= l
      BY <1>1 DEF LevelInv
    <2>2. \A n \in 1..N : level[n] \in Int
      BY <1>1
    <2>3. \A n \in 1..N : n \in 1..Len(Stmts)
      BY <1>1 DEF Walking
    <2>4. \A n \in 1..Len(Stmts) : Stmts[n].line \in Int
      BY <1>1, SourceType DEF Stmts, LineTypes
    <2> QED  BY <2>1, <2>2, <2>3, <2>4
  <1>8. /\ c = -1 \/ \E n \in 1..N : c = Depth(fun, n)
        /\ l = -1 \/ \E n \in 1..N : l = Stmts[n].line
    BY <1>1 DEF LevelInv
  <1>9. \A f, n : Depth(f, n)' = Depth(f, n)
    BY SameSource
  <1> HIDE DEF N, D, c, l
  <1>10. /\ \A n \in 1..(N + 1) : n = N + 1 \/ n \in 1..N
         /\ \A n \in 1..N : n \in 1..(N + 1)
         /\ N + 1 \in 1..(N + 1)
    BY <1>1
  <1>11. \A n \in 1..(N + 1) : level'[n] = Depth(fun, n)
    BY <1>3, <1>7, <1>10 DEF D
  <1>12. ASSUME NEW n \in 1..(N + 1) PROVE level'[n] <= c' /\ Stmts[n].line <= l'
    <2>1. CASE n = N + 1
      BY <1>3, <1>4, <1>5, <1>6, <2>1
    <2>2. CASE n \in 1..N
      BY <1>1, <1>3, <1>5, <1>6, <1>7, <2>2
    <2> QED  BY <1>10, <2>1, <2>2
  <1>13. c' = -1 \/ \E n \in 1..(N + 1) : c' = Depth(fun, n)
    BY <1>5, <1>8, <1>10 DEF D
  <1>14. l' = -1 \/ \E n \in 1..(N + 1) : l' = Stmts[n].line
    BY <1>4, <1>6, <1>8, <1>10
  <1> QED  BY <1>3, <1>4, <1>9, <1>11, <1>12, <1>13, <1>14 DEF LevelInv, c, l, N

\* A function's summary is not touched by what is printed about other ones.
LEMMA OwnStays ==
  ASSUME NEW f, Own(f), source' = source,
         \A n \in 1..Len(messages) : n \in 1..Len(messages') /\ messages'[n] = messages[n],
         \A n \in 1..Len(messages') : \/ n \in 1..Len(messages)
                                      \/ messages'[n].func # f
                                      \/ messages'[n].kind \notin {"indent", "lines"}
  PROVE  Own(f)'
  <1>1. \A k \in {"indent", "lines"} : Summary(f, k)' = Summary(f, k)
    BY DEF Summary
  <1>2. \A k, n : n \in Summary(f, k) => messages'[n] = messages[n]
    BY DEF Summary
  <1>3. /\ \A d : Nested(f, d)' <=> Nested(f, d)
        /\ Extents(f)' = Extents(f)
    BY SameSource
  <1>4. Summary(f, "indent")' = Summary(f, "indent") /\ Summary(f, "lines")' = Summary(f, "lines")
    BY <1>1
  <1>5. (Summary(f, "indent") # {} <=>
          source.functions[f].stmts # <<>> /\ (MaxIndentLevel <= 0 \/ Nested(f, MaxIndentLevel)))'
    BY <1>3, <1>4 DEF Own
  <1>6. (Summary(f, "lines") # {} <=>
          \/ source.functions[f].stmts # <<>> /\ MaxLineCount <= 0
          \/ \E c \in Extents(f) : c >= MaxLineCount)'
    BY <1>3, <1>4 DEF Own
  <1>7. \A n \in Summary(f, "indent")' :
          \A d : d = messages'[n].line => Nested(f, d)' /\ ~Nested(f, d + 1)'
    BY <1>2, <1>3, <1>4 DEF Own
  <1>8. \A n \in Summary(f, "lines")' : messages'[n].line \in Extents(f)'
    BY <1>2, <1>3, <1>4 DEF Own
  <1> QED  BY <1>5, <1>6, <1>7, <1>8 DEF Own

\* A function whose statements have all been visited is nested as deep as
\* CurrentIndentLevel says and extends to LastInstructionLine.
LEMMA MeasuresAtEnd ==
  ASSUME LineTypes, LevelInv, fun <= Len(source.functions), Len(level) = Len(Stmts),
         Stmts # <<>>
  PROVE  /\ CurrentIndentLevel \in Nat
         /\ \A d \in Int : Nested(fun, d) <=> CurrentIndentLevel >= d
         /\ LineCount \in Extents(fun)
         /\ \A c \in Extents(fun) : c \in Int /\ c <= LineCount /\ LineCount \in Int
  <1> DEFINE N == Len(Stmts)
             c == CurrentIndentLevel
             l == LastInstructionLine
  <1>1. /\ fun \in 1..Len(source.functions) /\ source \in Sources
        /\ c \in Int /\ l \in Int
    BY SourceType DEF LineTypes
  <1>2. Stmts \in Seq(LineStatement) /\ source.functions[fun].line \in Nat
    BY <1>1, SourceType DEF Stmts
  <1>3. N \in Nat /\ N > 0 /\ 1 \in 1..N
    BY <1>2
  <1>4. \A n \in 1..N : Depth(fun, n) \in Nat /\ Stmts[n].line \in Nat
    <2>1. \A n \in 1..N : n \in Nat
      BY <1>3
    <2>2. \A n \in 1..N : Depth(fun, n) \in Nat
      BY <2>1, DepthType
    <2>3. \A n \in 1..N : Stmts[n].line \in Nat
      BY <1>1, SourceType DEF Stmts
    <2> QED  BY <2>2, <2>3
  <1>5. /\ \A n \in 1..N : Depth(fun, n) <= c /\ Stmts[n].line <= l
        /\ c = -1 \/ \E n \in 1..N : c = Depth(fun, n)
        /\ l = -1 \/ \E n \in 1..N : l = Stmts[n].line
    BY DEF LevelInv
  <1> HIDE DEF c, l, N
  <1>6. /\ c # -1 /\ l # -1
    BY <1>1, <1>3, <1>4, <1>5
  <1>7. PICK n \in 1..N : c = Depth(fun, n)
    BY <1>5, <1>6
  <1>8. PICK m \in 1..N : l = Stmts[m].line
    BY <1>5, <1>6
  <1>9. ASSUME NEW d \in Int PROVE Nested(fun, d) <=> c >= d
    <2>1. Nested(fun, d) <=> \E k \in 1..N : Depth(fun, k) >= d
      BY DEF Nested, N, Stmts
    <2>2. c >= d => Depth(fun, n) >= d
      BY <1>7
    <2>3. \A k \in 1..N : Depth(fun, k) >= d => c >= d
      BY <1>1, <1>4, <1>5
    <2> QED  BY <2>1, <2>2, <2>3
  <1>10. Extents(fun) = {Stmts[k].line - source.functions[fun].line + 1 : k \in 1..N}
    BY DEF Extents, Stmts, N
  <1>11. LineCount = l - source.functions[fun].line + 1
    BY DEF LineCount, l
  <1>12. LineCount \in Extents(fun)
    BY <1>8, <1>10, <1>11
  <1>13. ASSUME NEW e \in Extents(fun) PROVE e \in Int /\ e <= LineCount /\ LineCount \in Int
    <2>1. PICK k \in 1..N : e = Stmts[k].line - source.functions[fun].line + 1
      BY <1>10
    <2> DEFINE a == Stmts[k].line
               b == source.functions[fun].line
    <2>2. a \in Nat /\ a <= l /\ b \in Nat /\ l \in Int
      BY <1>1, <1>2, <1>4, <1>5
    <2>3. e = a - b + 1 /\ LineCount = l - b + 1
      BY <1>11, <2>1
    <2> HIDE DEF a, b
    <2> QED  BY <2>2, <2>3
  <1> QED  BY <1>4, <1>7, <1>9, <1>12, <1>13 DEF c

\* The summary parse_function_list prints is that of the function it ends.
LEMMA EndOwn ==
  ASSUME LineInv, LevelInv, OwnerInv, EndFunction, NEW f, f = fun
  PROVE  Own(f)'
  <1>1. /\ LineTypes /\ fun \in 1..Len(source.functions) /\ fun <= Len(source.functions)
        /\ Len(level) = Len(Stmts) /\ source' = source
        /\ messages \in Seq(LineMessage) /\ f \in Nat
    BY SourceType DEF EndFunction, LineTypes, LineInv
  <1>2. /\ \A d : Nested(f, d)' <=> Nested(f, d)
        /\ Extents(f)' = Extents(f)
        /\ source.functions[f].stmts' = Stmts
    BY <1>1, SameSource DEF Stmts
  <1>3. \A n \in 1..Len(messages) :
          messages[n].kind \in {"indent", "lines"} => messages[n].func # f
    BY <1>1 DEF OwnerInv
  <1>4. CASE Stmts = <<>>
    <2>1. messages' = messages
      BY <1>4 DEF EndFunction
    <2>2. Summary(f, "indent")' = {} /\ Summary(f, "lines")' = {}
      BY <1>3, <2>1 DEF Summary
    <2>3. Extents(f) = {}
      <3>1. Len(source.functions[f].stmts) = 0
        BY <1>4 DEF Stmts
      <3> QED  BY <3>1 DEF Extents
    <2> QED  BY <1>2, <1>4, <2>2, <2>3 DEF Own
  <1>5. CASE Stmts # <<>>
    <2>1. /\ \A n \in 1..Len(messages) : n \in 1..Len(messages') /\ messages'[n] = messages[n]
          /\ \A n \in 1..Len(messages') :
              \/ n \in 1..Len(messages)
              \/ TooDeep /\ messages'[n] = Message("indent", CurrentIndentLevel)
              \/ TooLong /\ messages'[n] = Message("lines", LineCount)
          /\ TooDeep => \E n \in 1..Len(messages') :
                         messages'[n] = Message("indent", CurrentIndentLevel)
          /\ TooLong => \E n \in 1..Len(messages') : messages'[n] = Message("lines", LineCount)
      BY <1>5, EndSays
    <2>2. /\ CurrentIndentLevel \in Nat
          /\ \A d \in Int : Nested(f, d) <=> CurrentIndentLevel >= d
          /\ LineCount \in Extents(f)
          /\ \A c \in Extents(f) : c \in Int /\ c <= LineCount /\ LineCount \in Int
      BY <1>1, <1>5, MeasuresAtEnd
    <2>3. /\ Message("indent", CurrentIndentLevel).kind = "indent"
          /\ Message("indent", CurrentIndentLevel).func = f
          /\ Message("indent", CurrentIndentLevel).line = CurrentIndentLevel
          /\ Message("lines", LineCount).kind = "lines"
          /\ Message("lines", LineCount).func = f
          /\ Message("lines", LineCount).line = LineCount
      BY DEF Message
    <2>4. \A n \in Summary(f, "indent")' : TooDeep /\ messages'[n].line = CurrentIndentLevel
      <3> SUFFICES ASSUME NEW n \in 1..Len(messages'), messages'[n].kind = "indent",
                          messages'[n].func = f
                   PROVE  TooDeep /\ messages'[n].line = CurrentIndentLevel
        BY DEF Summary
      <3>1. n \notin 1..Len(messages)
        BY <1>3, <2>1
      <3>2. messages'[n] # Message("lines", LineCount)
        BY <2>3
      <3> QED  BY <2>1, <2>3, <3>1, <3>2
    <2>5. \A n \in Summary(f, "lines")' : TooLong /\ messages'[n].line = LineCount
      <3> SUFFICES ASSUME NEW n \in 1..Len(messages'), messages'[n].kind = "lines",
                          messages'[n].func = f
                   PROVE  TooLong /\ messages'[n].line = LineCount
        BY DEF Summary
      <3>1. n \notin 1..Len(messages)
        BY <1>3, <2>1
      <3>2. messages'[n] # Message("indent", CurrentIndentLevel)
        BY <2>3
      <3> QED  BY <2>1, <2>3, <3>1, <3>2
    <2>6. Summary(f, "indent")' # {} <=> TooDeep
      <3>1. TooDeep => Summary(f, "indent")' # {}
        BY <2>1, <2>3 DEF Summary
      <3> QED  BY <2>4, <3>1
    <2>7. Summary(f, "lines")' # {} <=> TooLong
      <3>1. TooLong => Summary(f, "lines")' # {}
        BY <2>1, <2>3 DEF Summary
      <3> QED  BY <2>5, <3>1
    <2>8. TooDeep <=> MaxIndentLevel <= 0 \/ Nested(f, MaxIndentLevel)
      BY <2>2, LimitsAssumption DEF TooDeep
    <2>9. TooLong <=> MaxLineCount <= 0 \/ \E c \in Extents(f) : c >= MaxLineCount
      BY <2>2, LimitsAssumption DEF TooLong
    <2>10. Nested(f, CurrentIndentLevel) /\ ~Nested(f, CurrentIndentLevel + 1)
      BY <2>2
    <2>11. \A n \in Summary(f, "indent")' :
             \A d : d = messages'[n].line => Nested(f, d)' /\ ~Nested(f, d + 1)'
      BY <1>2, <2>4, <2>10
    <2>12. \A n \in Summary(f, "lines")' : messages'[n].line \in Extents(f)'
      BY <1>2, <2>2, <2>5
    <2>13. (Summary(f, "indent") # {} <=>
             source.functions[f].stmts # <<>> /\ (MaxIndentLevel <= 0 \/ Nested(f, MaxIndentLevel)))'
      BY <1>2, <1>5, <2>6, <2>8
    <2>14. (Summary(f, "lines") # {} <=>
             \/ source.functions[f].stmts # <<>> /\ MaxLineCount <= 0
             \/ \E c \in Extents(f) : c >= MaxLineCount)'
      BY <1>2, <1>5, <2>7, <2>9
    <2> QED  BY <2>11, <2>12, <2>13, <2>14 DEF Own
  <1> QED  BY <1>4, <1>5

LEMMA SummaryInvInit == LineInit => SummaryInv
  <1> SUFFICES ASSUME LineInit PROVE SummaryInv
    OBVIOUS
  <1>1. LineInv
    BY LineInvInit
  <1>2. level = <<>> /\ messages = <<>> /\ fun = 1
        /\ CurrentIndentLevel = -1 /\ LastInstructionLine = -1
    BY DEF LineInit
  <1>3. LevelInv
    BY <1>2 DEF LevelInv
  <1>4. OwnerInv
    BY <1>2 DEF OwnerInv
  <1>5. AllOwn
    BY <1>2 DEF AllOwn
  <1> QED  BY <1>1, <1>3, <1>4, <1>5 DEF SummaryInv

\* While a function is walked no summary is printed.
LEMMA WalkKeepsSummaries ==
  ASSUME LineTypes, OwnerInv, AllOwn, UNCHANGED <<source, fun>>,
         \A n \in 1..Len(messages) : n \in 1..Len(messages') /\ messages'[n] = messages[n],
         \A n \in 1..Len(messages') : \/ n \in 1..Len(messages)
                                      \/ messages'[n].kind \notin {"indent", "lines"}
  PROVE  OwnerInv' /\ AllOwn'
  <1>1. OwnerInv'
    BY DEF OwnerInv
  <1>2. ASSUME NEW f \in 1..(fun - 1) PROVE Own(f)'
    <2>1. Own(f)
      BY DEF AllOwn
    <2> QED  BY <2>1, OwnStays
  <1> QED  BY <1>1, <1>2 DEF AllOwn

LEMMA FunctionEndKeepsSummaries ==
  ASSUME SummaryInv, EndFunction
  PROVE  LevelInv' /\ OwnerInv' /\ AllOwn'
  <1>1. /\ LineInv /\ LevelInv /\ OwnerInv /\ AllOwn
        /\ fun \in Nat \ {0} /\ fun' = fun + 1 /\ source' = source
        /\ level' = <<>> /\ CurrentIndentLevel' = -1 /\ LastInstructionLine' = -1
    BY DEF SummaryInv, LineInv, LineTypes, EndFunction
  <1>2. LevelInv'
    BY <1>1 DEF LevelInv
  <1>3. /\ \A n \in 1..Len(messages) : n \in 1..Len(messages') /\ messages'[n] = messages[n]
        /\ \A n \in 1..Len(messages') : \/ n \in 1..Len(messages)
                                        \/ messages'[n].func = fun
    <2>1. CASE Stmts = <<>>
      <3>1. messages' = messages
        BY <2>1 DEF EndFunction
      <3> QED  BY <3>1
    <2>2. CASE Stmts # <<>>
      <3>1. \A k, c : Message(k, c).func = fun
        BY DEF Message
      <3> QED  BY <1>1, <2>2, <3>1, EndSays
    <2> QED  BY <2>1, <2>2
  <1>4. OwnerInv'
    <2>1. fun \in 1..(fun' - 1) /\ \A f \in 1..(fun - 1) : f \in 1..(fun' - 1)
      BY <1>1
    <2>2. \A n \in 1..Len(messages') :
            messages'[n].kind \in {"indent", "lines"} => messages'[n].func \in 1..(fun' - 1)
      BY <1>1, <1>3, <2>1 DEF OwnerInv
    <2> QED  BY <2>2 DEF OwnerInv
  <1>5. ASSUME NEW f \in 1..fun PROVE Own(f)'
    <2>1. CASE f = fun
      BY <1>1, <2>1, EndOwn
    <2>2. CASE f # fun
      <3>1. f \in 1..(fun - 1)
        BY <1>1, <2>2
      <3>2. Own(f)
        BY <1>1, <3>1 DEF AllOwn
      <3>3. \A n \in 1..Len(messages') : \/ n \in 1..Len(messages)
                                         \/ messages'[n].func # f
                                         \/ messages'[n].kind \notin {"indent", "lines"}
        BY <1>3, <2>2
      <3> QED  BY <1>1, <1>3, <3>2, <3>3, OwnStays
    <2> QED  BY <2>1, <2>2
  <1>6. 1..(fun - 1)' = 1..fun
    BY <1>1
  <1>7. AllOwn'
    BY <1>5, <1>6 DEF AllOwn
  <1> QED  BY <1>2, <1>4, <1>7

LEMMA SummaryInvNext == SummaryInv /\ [LineNext]_lineVars => SummaryInv'
  <1> SUFFICES ASSUME SummaryInv, [LineNext]_lineVars PROVE SummaryInv'
    OBVIOUS
  <1>1. LineInv /\ LineTypes /\ LevelInv /\ OwnerInv /\ AllOwn
    BY DEF SummaryInv, LineInv
  <1>2. LineInv'
    BY <1>1, LineInvNext
  <1>3. CASE examine_unmapped
    <2>1. /\ Walking /\ Measure /\ UNCHANGED <<source, fun>> /\ messages' = messages
      BY <1>3 DEF examine_unmapped
    <2>2. LevelInv'
      BY <1>1, <2>1, MeasureKeeps
    <2>3. OwnerInv' /\ AllOwn'
      BY <1>1, <2>1, WalkKeepsSummaries
    <2> QED  BY <1>2, <2>2, <2>3 DEF SummaryInv
  <1>4. CASE examine_stmt_indent
    <2>1. Walking /\ Measure /\ UNCHANGED <<source, fun>>
      BY <1>4 DEF examine_stmt_indent
    <2>2. LevelInv'
      BY <1>1, <2>1, MeasureKeeps
    <2>3. /\ Message("mixed", stmt.line).kind = "mixed"
          /\ Message("trailing", stmt.line).kind = "trailing"
      BY DEF Message
    <2>4. /\ messages' \in Seq(LineMessage) /\ Len(messages) <= Len(messages')
          /\ \A n \in 1..Len(messages) : messages'[n] = messages[n]
          /\ \A n \in 1..Len(messages') :
               \/ n \in 1..Len(messages)
               \/ messages'[n] = Message("mixed", stmt.line)
               \/ messages'[n] = Message("trailing", stmt.line)
      BY <1>1, <1>4, MappedSays
    <2>5. messages \in Seq(LineMessage)
      BY <1>1 DEF LineTypes
    <2>6. \A n \in 1..Len(messages) : n \in 1..Len(messages')
      BY <2>4, <2>5
    <2>7. \A n \in 1..Len(messages') : \/ n \in 1..Len(messages)
                                       \/ messages'[n].kind \notin {"indent", "lines"}
      BY <2>3, <2>4
    <2>8. OwnerInv' /\ AllOwn'
      BY <1>1, <2>1, <2>4, <2>6, <2>7, WalkKeepsSummaries
    <2> QED  BY <1>2, <2>2, <2>8 DEF SummaryInv
  <1>5. CASE EndFunction
    BY <1>2, <1>5, FunctionEndKeepsSummaries DEF SummaryInv
  <1>6. CASE Overrun \/ EndFile \/ UNCHANGED lineVars
    <2>1. UNCHANGED <<source, CurrentIndentLevel, LastInstructionLine, level, fun, messages>>
      BY <1>6 DEF Overrun, EndFile, lineVars
    <2>2. \A f, n : Depth(f, n)' = Depth(f, n)
      BY <2>1, SameSource
    <2>3. LevelInv'
      BY <1>1, <2>1, <2>2 DEF LevelInv, Stmts
    <2>4. OwnerInv' /\ AllOwn'
      BY <1>1, <2>1, WalkKeepsSummaries
    <2> QED  BY <1>2, <2>3, <2>4 DEF SummaryInv
  <1> QED  BY <1>3, <1>4, <1>5, <1>6 DEF LineNext, LineStopped

(***************************************************************************)
(* For every file and every limit, a function's summary is printed when    *)
(* its own statements call for it and gives its own deepest nesting and    *)
(* its own extent: parse_function_list's reset of CurrentIndentLevel and   *)
(* LastInstructionLine keeps the functions apart.                          *)
(***************************************************************************)
THEOREM SummaryAlwaysOwn == LineSpec => []SummaryIsOwn
  <1>1. SummaryInv => SummaryIsOwn
    BY DEF SummaryInv, AllOwn, Own, SummaryIsOwn
  <1> QED  BY <1>1, SummaryInvInit, SummaryInvNext, PTL DEF LineSpec

-----------------------------------------------------------------------------
(* Unverified calls *)

\* What examine_expression decides about the call of statement n.
Unverified(n) == /\ fn[n].expr.kind # "derived"
                 /\ IF fn[n].expr.kind = "call" THEN CallUnverified(n)
                                                ELSE ~Checked(n, fn[n].expr.var)
                 /\ ~OutChecked(n)

\* The last call before statement n is one of a black-listed function.
Explained(n) == \E m \in 1..(n - 1) :
                  /\ Calls(m)
                  /\ \A k \in (m + 1)..(n - 1) : fn[k].expr.kind # "plain"

CallInv ==
  /\ fn \in Functions /\ examined \in 0..Len(fn)
  /\ complaints \subseteq 1..examined
  /\ AnalyzedFunction => Explained(examined + 1)
  /\ \A n \in 1..examined : Calls(n) => (n \in complaints <=> Unverified(n))
  /\ \A n \in complaints : ~Calls(n) => fn[n].expr.kind = "cast" /\ Explained(n)

LEMMA FunctionType ==
  ASSUME fn \in Functions
  PROVE  /\ fn \in Seq(CallStatement) /\ Len(fn) \in Nat /\ NoStmt = Len(fn) + 1
         /\ \A n \in 1..Len(fn) :
              /\ fn[n] \in CallStatement /\ fn[n].parent \in Nat /\ fn[n].line \in Nat
              /\ fn[n].parent < n
              /\ fn[n].parent > 0 => fn[n].line >= fn[fn[n].parent].line
              /\ fn[n].type \in {"COMPOUND", "LABEL", "CASE", "GOTO"} =>
                   fn[n].expr.kind = "none"
              /\ fn[n].type = "DECLARATION" => fn[n].expr.kind \notin {"assign", "derived"}
              /\ fn[n].expr.arg # NoVar => fn[n].expr.kind \in {"call", "assign", "derived"}
              /\ fn[n].expr.var # NoVar =>
                   /\ fn[n].expr.kind # "none"
                   /\ fn[n].expr.kind = "call" => fn[n].type = "DECLARATION"
  <1>1. fn \in Seq(CallStatement) /\ Len(fn) \in Nat
    BY FunctionsAssumption
  <1>2. ASSUME NEW n \in 1..Len(fn)
        PROVE  /\ fn[n] \in CallStatement /\ fn[n].parent \in Nat /\ fn[n].line \in Nat
    <2>1. fn[n] \in CallStatement
      BY <1>1
    <2> QED  BY <2>1 DEF CallStatement
  <1> QED  BY <1>1, <1>2, FunctionsAssumption DEF NoStmt

\* The way from n holds n and what step leads to, and nothing that some
\* closed set does not hold.
LEMMA WayHolds ==
  ASSUME NEW step, NEW n \in DOMAIN step, step[n] \in DOMAIN step
  PROVE  n \in Way(step, n) /\ step[n] \in Way(step, n)
  BY DEF Way

LEMMA WayWithin ==
  ASSUME NEW step, NEW n, NEW S \in SUBSET DOMAIN step, n \in S,
         \A k \in S : step[k] \in S
  PROVE  Way(step, n) \subseteq S
  BY DEF Way

\* What lookup_expression finds occurs there, and outside declarations it finds
\* what occurs, but for postfix operators and statement expressions.
LEMMA MentionsOccur ==
  ASSUME fn \in Functions, NEW n \in 1..Len(fn), NEW var
  PROVE  /\ Mentions(fn[n].expr, var) => Occurs(fn[n].expr, var)
         /\ /\ Occurs(fn[n].expr, var)
            /\ fn[n].type # "DECLARATION" /\ fn[n].expr.kind # "postop"
            => Mentions(fn[n].expr, var)
  <1>1. fn[n].expr \in Expression
    BY FunctionType DEF CallStatement
  <1>2. fn[n].expr.kind \in Kind
    BY <1>1 DEF Expression
  <1>3. Mentions(fn[n].expr, var) => Occurs(fn[n].expr, var)
    BY DEF Mentions, Occurs, build_symbol, get_out_symbol
  <1>4. /\ fn[n].expr.arg # NoVar => fn[n].expr.kind \in {"call", "assign", "derived"}
        /\ fn[n].expr.var # NoVar =>
             /\ fn[n].expr.kind # "none"
             /\ fn[n].expr.kind = "call" => fn[n].type = "DECLARATION"
    BY FunctionType
  <1>5. ASSUME Occurs(fn[n].expr, var), fn[n].type # "DECLARATION", fn[n].expr.kind # "postop"
        PROVE  Mentions(fn[n].expr, var)
    <2>1. CASE var = fn[n].expr.arg
      BY <1>4, <1>5, <2>1 DEF Mentions, Occurs, get_out_symbol
    <2>2. CASE var = fn[n].expr.var
      BY <1>2, <1>4, <1>5, <2>2 DEF Kind, Mentions, Occurs, build_symbol
    <2> QED  BY <1>5, <2>1, <2>2 DEF Occurs
  <1> QED  BY <1>3, <1>5

\* A statement begins no earlier than the ones above it.
LEMMA BelowIsLater ==
  ASSUME fn \in Functions, NEW n \in 1..Len(fn), NEW m \in 1..Len(fn), Below(n, m)
  PROVE  fn[m].line <= fn[n].line
  <1> DEFINE step == [k \in 0..NoStmt |-> prt_stmt(k)]
             S == {k \in 0..NoStmt : k \in 1..Len(fn) => fn[k].line <= fn[n].line}
  <1>1. /\ Len(fn) \in Nat /\ NoStmt = Len(fn) + 1
        /\ \A k \in 1..Len(fn) :
             /\ fn[k].parent \in Nat /\ fn[k].line \in Nat /\ fn[k].parent < k
             /\ fn[k].parent > 0 => fn[k].line >= fn[fn[k].parent].line
    BY FunctionType
  <1>2. DOMAIN step = 0..NoStmt /\ S \in SUBSET DOMAIN step
    OBVIOUS
  <1>3. n \in S
    BY <1>1
  <1>4. ASSUME NEW k \in S PROVE step[k] \in S
    <2>1. CASE k \in 1..Len(fn)
      <3> DEFINE p == fn[k].parent
      <3>1. step[k] = p
        BY <2>1, <1>1 DEF prt_stmt
      <3>2. p \in Nat /\ p < k /\ (p > 0 => fn[k].line >= fn[p].line)
        BY <1>1, <2>1
      <3>3. fn[k].line <= fn[n].line /\ fn[k].line \in Nat /\ fn[n].line \in Nat
        BY <1>1, <2>1
      <3> HIDE DEF p
      <3>4. p \in 0..NoStmt
        BY <3>2, <2>1, <1>1
      <3>5. p \in 1..Len(fn) => fn[p].line \in Nat
        BY <1>1
      <3>6. p \in 1..Len(fn) => fn[p].line <= fn[n].line
        BY <3>2, <3>3, <3>5
      <3> QED  BY <3>1, <3>4, <3>6
    <2>2. CASE k \notin 1..Len(fn)
      BY <2>2, <1>1 DEF prt_stmt
    <2> QED  BY <2>1, <2>2
  <1>5. m \in Way(step, n)
    BY DEF Below
  <1> HIDE DEF step, S
  <1>6. m \in S
    BY <1>2, <1>3, <1>4, <1>5, WayWithin
  <1> QED  BY <1>6 DEF S

\* What find_usages finds is on a later line.
LEMMA UsageIsLater ==
  ASSUME fn \in Functions, NEW s \in 1..Len(fn), NEW var, find_usages(s, var)
  PROVE  LaterMention(s, var)
  <1>1. PICK c : UsedIn(c, fn[s].line, var)
    BY DEF find_usages
  <1>2. PICK m \in 1..Len(fn) : \E n \in 1..Len(fn) :
          fn[m].line > fn[s].line /\ Below(n, m) /\ lookup_var(n, var)
    BY <1>1 DEF UsedIn
  <1>3. PICK n \in 1..Len(fn) :
          fn[m].line > fn[s].line /\ Below(n, m) /\ lookup_var(n, var)
    BY <1>2
  <1>4. fn[m].line <= fn[n].line
    BY <1>3, BelowIsLater
  <1>5. fn[s].line \in Nat /\ fn[m].line \in Nat /\ fn[n].line \in Nat
    BY FunctionType
  <1>6. fn[n].line > fn[s].line
    BY <1>3, <1>4, <1>5
  <1>7. Occurs(fn[n].expr, var)
    BY <1>3, MentionsOccur DEF lookup_var
  <1> QED  BY <1>6, <1>7 DEF LaterMention

\* A statement of a compound begins its search there.
LEMMA NextIsBlock ==
  ASSUME fn \in Functions, NEW n \in 1..Len(fn), TypeOf(fn[n].parent) = "COMPOUND",
         fn[n].type \in {"DECLARATION", "EXPRESSION", "IF", "ITERATOR", "LABEL", "SWITCH"}
  PROVE  get_next_statement(n) = fn[n].parent
  <1> DEFINE p == fn[n].parent
  <1>1. /\ Len(fn) \in Nat /\ NoStmt = Len(fn) + 1 /\ p \in Nat /\ p < n
    BY FunctionType
  <1>2. n \in 0..NoStmt /\ p \in 0..NoStmt /\ n # NoStmt /\ n # 0 /\ DOMAIN Outward = 0..NoStmt
    BY <1>1 DEF Outward
  <1>3. TypeOf(n) = fn[n].type /\ prt_stmt(n) = p
    BY <1>1, <1>2 DEF TypeOf, prt_stmt
  <1>4. Outward[n] = p
    BY <1>2, <1>3 DEF Outward
  <1>5. Outward[p] = p
    BY <1>2 DEF Outward
  <1> HIDE DEF p
  <1>6. p \in Way(Outward, n)
    BY <1>2, <1>4, WayHolds
  <1>7. Way(Outward, n) \subseteq {n, p}
    <2> DEFINE S == {n, p}
    <2>1. S \in SUBSET DOMAIN Outward /\ n \in S /\ \A k \in S : Outward[k] \in S
      BY <1>2, <1>4, <1>5
    <2> HIDE DEF S
    <2>2. Way(Outward, n) \subseteq S
      BY <2>1, WayWithin
    <2> QED  BY <2>2 DEF S
  <1>8. n # p
    BY <1>1
  <1>9. \A c \in Way(Outward, n) : Outward[c] = c => c = p
    BY <1>4, <1>7, <1>8
  <1> QED  BY <1>5, <1>6, <1>9 DEF get_next_statement, p

\* find_usages looks first where get_next_statement says.
LEMMA LooksThere ==
  ASSUME fn \in Functions, NEW s \in 1..Len(fn), NEW var,
         get_next_statement(s) \in 0..Len(fn), UsedIn(get_next_statement(s), fn[s].line, var)
  PROVE  find_usages(s, var)
  <1> DEFINE Up == [c \in 0..NoStmt |-> get_next_statement(prt_stmt(c))]
             c0 == get_next_statement(s)
  <1>1. c0 \in DOMAIN Up
    BY FunctionType
  <1>2. find_usages(s, var) <=> \E c \in Way(Up, c0) : UsedIn(c, fn[s].line, var)
    BY DEF find_usages
  <1>3. UsedIn(c0, fn[s].line, var)
    OBVIOUS
  <1> HIDE DEF Up, c0
  <1>4. c0 \in Way(Up, c0)
    BY <1>1 DEF Way
  <1> QED  BY <1>2, <1>3, <1>4

LEMMA InitCallInv ==
  ASSUME CallInit
  PROVE  CallInv
  BY FunctionType DEF CallInit, CallInv

\* The function does not change, nor what is decided from it.
LEMMA DecisionsStay ==
  ASSUME fn' = fn, NEW n
  PROVE  /\ Unverified(n)' <=> Unverified(n)
         /\ Calls(n)' <=> Calls(n)
         /\ Explained(n)' <=> Explained(n)
  <1>1. Unverified(n)' <=> Unverified(n)
    BY SMT DEF NoStmt, TypeOf, prt_stmt, Outward, get_next_statement, Way, Unverified,
               CallUnverified, OutChecked, Checked, find_usages, UsedIn, Below, lookup_var,
               Mentions, build_symbol, get_out_symbol, handle_declaration, handle_call_simple,
               get_last_expression
  <1>2. Calls(n)' <=> Calls(n)
    BY DEF Calls
  <1>3. Explained(n)' <=> Explained(n)
    BY DEF Explained, Calls
  <1> QED  BY <1>1, <1>2, <1>3

\* After a call of a black-listed function the next statement is explained by
\* it; any other statement but a call hands the explanation on.
LEMMA ExplainedNext ==
  ASSUME fn \in Functions, NEW s \in 1..Len(fn)
  PROVE  /\ Calls(s) => Explained(s + 1)
         /\ Explained(s) /\ fn[s].expr.kind # "plain" => Explained(s + 1)
  <1>1. Len(fn) \in Nat
    BY FunctionType
  <1>2. ASSUME Calls(s) PROVE Explained(s + 1)
    <2>1. s \in 1..((s + 1) - 1) /\ \A k \in (s + 1)..((s + 1) - 1) : FALSE
      OBVIOUS
    <2> QED  BY <1>2, <2>1 DEF Explained
  <1>3. ASSUME Explained(s), fn[s].expr.kind # "plain" PROVE Explained(s + 1)
    <2>1. PICK m \in 1..(s - 1) : Calls(m) /\ \A k \in (m + 1)..(s - 1) : fn[k].expr.kind # "plain"
      BY <1>3 DEF Explained
    <2>2. m \in 1..((s + 1) - 1)
      OBVIOUS
    <2>3. ASSUME NEW k \in (m + 1)..((s + 1) - 1) PROVE fn[k].expr.kind # "plain"
      <3>1. k = s \/ k \in (m + 1)..(s - 1)
        OBVIOUS
      <3> QED  BY <3>1, <2>1, <1>3
    <2> QED  BY <2>1, <2>2, <2>3 DEF Explained
  <1> QED  BY <1>2, <1>3

\* One statement more: what it takes to keep the invariant.
LEMMA ExamineKeeps ==
  ASSUME CallInv, NEW s, s = examined + 1, s <= Len(fn), examined' = s, fn' = fn,
         complaints' = complaints \/ complaints' = complaints \cup {s},
         Calls(s) => (s \in complaints' <=> Unverified(s)),
         ~Calls(s) /\ s \in complaints' => fn[s].expr.kind = "cast" /\ Explained(s),
         AnalyzedFunction' => Explained(s + 1)
  PROVE  CallInv'
  <1>1. fn \in Functions /\ Len(fn) \in Nat /\ examined \in Nat /\ s \in 1..Len(fn)
    BY FunctionType DEF CallInv
  <1>2. fn' \in Functions /\ examined' \in 0..Len(fn')
    BY <1>1
  <1>3. complaints' \subseteq 1..s
    <2>1. complaints \subseteq 1..examined
      BY DEF CallInv
    <2>2. 1..examined \subseteq 1..s /\ s \in 1..s
      BY <1>1
    <2> QED  BY <2>1, <2>2
  <1>4. \A n \in 1..s : n = s \/ n \in 1..examined
    BY <1>1
  <1>5. s \notin 1..examined
    BY <1>1
  <1>6. \A n \in 1..s : n # s => (n \in complaints' <=> n \in complaints)
    OBVIOUS
  <1>7. ASSUME NEW n \in 1..s PROVE Calls(n)' => (n \in complaints' <=> Unverified(n)')
    <2>1. Calls(n) => (n \in complaints' <=> Unverified(n))
      BY <1>4, <1>6 DEF CallInv
    <2> QED  BY <2>1, DecisionsStay
  <1>8. ASSUME NEW n \in complaints' PROVE ~Calls(n)' => fn'[n].expr.kind = "cast" /\ Explained(n)'
    <2>1. ~Calls(n) => fn[n].expr.kind = "cast" /\ Explained(n)
      BY DEF CallInv
    <2> QED  BY <2>1, DecisionsStay
  <1>9. AnalyzedFunction' => Explained(examined + 1)'
    BY DecisionsStay DEF Explained, Calls
  <1> QED  BY <1>2, <1>3, <1>7, <1>8, <1>9 DEF CallInv

LEMMA NextCallInv ==
  ASSUME CallInv, [CallNext]_callVars
  PROVE  CallInv'
  <1> DEFINE s == examined + 1
  <1>0. /\ fn \in Functions /\ Len(fn) \in Nat /\ examined \in Nat
        /\ complaints \subseteq 1..examined /\ s \notin complaints
        /\ AnalyzedFunction => Explained(s)
    BY FunctionType DEF CallInv
  <1>1. CASE UNCHANGED callVars
    <2>1. fn' = fn /\ examined' = examined /\ complaints' = complaints
          /\ AnalyzedFunction' = AnalyzedFunction
      BY <1>1 DEF callVars
    <2>2. Explained(examined + 1)' <=> Explained(examined + 1)
      BY <2>1 DEF Explained, Calls
    <2> QED  BY <2>1, <2>2, DecisionsStay DEF CallInv
  <1>2. CASE ExamineCall
    <2>1. /\ s <= Len(fn) /\ examined' = s /\ fn' = fn /\ fn[s].expr.kind = "call"
          /\ AnalyzedFunction' = TRUE
          /\ complaints' = IF CallUnverified(s) /\ ~OutChecked(s) THEN complaints \cup {s}
                                                                 ELSE complaints
      BY <1>2 DEF ExamineCall, Examine
    <2>2. Calls(s) /\ (Unverified(s) <=> CallUnverified(s) /\ ~OutChecked(s))
      BY <2>1 DEF Calls, Unverified
    <2>3. Explained(s + 1)
      BY <1>0, <2>1, <2>2, ExplainedNext
    <2>4. s \in complaints' <=> Unverified(s)
      BY <1>0, <2>1, <2>2
    <2>5. complaints' = complaints \/ complaints' = complaints \cup {s}
      BY <2>1
    <2> HIDE DEF s
    <2> QED  BY <2>1, <2>2, <2>3, <2>4, <2>5, ExamineKeeps DEF s
  <1>3. CASE ExaminePlain
    <2>1. /\ s <= Len(fn) /\ examined' = s /\ fn' = fn /\ fn[s].expr.kind = "plain"
          /\ AnalyzedFunction' = FALSE /\ complaints' = complaints
      BY <1>3 DEF ExaminePlain, Examine
    <2>2. ~Calls(s)
      BY <2>1 DEF Calls
    <2> HIDE DEF s
    <2> QED  BY <1>0, <2>1, <2>2, ExamineKeeps DEF s
  <1>4. CASE ExamineAssign
    <2>1. /\ s <= Len(fn) /\ examined' = s /\ fn' = fn /\ fn[s].expr.kind = "assign"
          /\ AnalyzedFunction' = TRUE
          /\ complaints' = IF ~Checked(s, fn[s].expr.var) /\ ~OutChecked(s)
                           THEN complaints \cup {s} ELSE complaints
      BY <1>4 DEF ExamineAssign, Examine
    <2>2. Calls(s) /\ (Unverified(s) <=> ~Checked(s, fn[s].expr.var) /\ ~OutChecked(s))
      BY <2>1 DEF Calls, Unverified
    <2>3. Explained(s + 1)
      BY <1>0, <2>1, <2>2, ExplainedNext
    <2>4. s \in complaints' <=> Unverified(s)
      BY <1>0, <2>1, <2>2
    <2>5. complaints' = complaints \/ complaints' = complaints \cup {s}
      BY <2>1
    <2> HIDE DEF s
    <2> QED  BY <2>1, <2>2, <2>3, <2>4, <2>5, ExamineKeeps DEF s
  <1>8. CASE ExamineDerived
    <2>1. /\ s <= Len(fn) /\ examined' = s /\ fn' = fn /\ fn[s].expr.kind = "derived"
          /\ AnalyzedFunction' = TRUE /\ complaints' = complaints
      BY <1>8 DEF ExamineDerived, Examine, handle_call_simple, get_last_expression
    <2>2. Calls(s) /\ ~Unverified(s)
      BY <2>1 DEF Calls, Unverified
    <2>3. Explained(s + 1)
      BY <1>0, <2>1, <2>2, ExplainedNext
    <2>4. s \notin complaints'
      BY <1>0, <2>1
    <2> HIDE DEF s
    <2> QED  BY <2>1, <2>2, <2>3, <2>4, ExamineKeeps DEF s
  <1>5. CASE ExamineCast
    <2>1. /\ s <= Len(fn) /\ examined' = s /\ fn' = fn /\ fn[s].expr.kind = "cast"
          /\ AnalyzedFunction' = AnalyzedFunction
          /\ complaints' = IF AnalyzedFunction /\ ~Checked(s, fn[s].expr.var)
                           THEN complaints \cup {s} ELSE complaints
      BY <1>5 DEF ExamineCast, Examine
    <2>2. ~Calls(s)
      BY <2>1 DEF Calls
    <2>3. AnalyzedFunction' => Explained(s + 1)
      BY <1>0, <2>1, ExplainedNext
    <2>4. s \in complaints' => Explained(s)
      BY <1>0, <2>1
    <2>5. complaints' = complaints \/ complaints' = complaints \cup {s}
      BY <2>1
    <2> HIDE DEF s
    <2> QED  BY <2>1, <2>2, <2>3, <2>4, <2>5, ExamineKeeps DEF s
  <1>6. CASE ExamineOther
    <2>1. /\ s <= Len(fn) /\ examined' = s /\ fn' = fn /\ fn[s].expr.kind \in {"none", "mention", "postop"}
          /\ AnalyzedFunction' = AnalyzedFunction /\ complaints' = complaints
      BY <1>6 DEF ExamineOther, Examine
    <2>2. ~Calls(s)
      BY <2>1 DEF Calls
    <2>3. AnalyzedFunction' => Explained(s + 1)
      BY <1>0, <2>1, ExplainedNext
    <2> HIDE DEF s
    <2> QED  BY <1>0, <2>1, <2>2, <2>3, ExamineKeeps DEF s
  <1>7. CASE CallsDone
    BY <1>1, <1>7 DEF CallsDone
  <1> QED  BY <1>1, <1>2, <1>3, <1>4, <1>5, <1>6, <1>7, <1>8 DEF CallNext

(***************************************************************************)
(* Of the statements the first pass has examined, those that call a        *)
(* black-listed function are complained of exactly when find_usages finds  *)
(* nothing, and the others only for an earlier call: CallInv is inductive. *)
(***************************************************************************)
THEOREM CallInvariance == CallSpec => []CallInv
  <1>1. CallInit => CallInv
    BY InitCallInv
  <1>2. CallInv /\ [CallNext]_callVars => CallInv'
    BY NextCallInv
  <1> QED  BY <1>1, <1>2, PTL DEF CallSpec

LEMMA OmittedIsUnverified ==
  ASSUME fn \in Functions, NEW n \in 1..Len(fn),
         Calls(n), fn[n].expr.kind # "derived", fn[n].expr.arg = NoVar,
         fn[n].type \in {"EXPRESSION", "DECLARATION"},
         Kept(n) => ~LaterMention(n, fn[n].expr.var)
  PROVE  Unverified(n)
  <1>1. ~OutChecked(n)
    BY DEF OutChecked, get_out_symbol
  <1>2. Kept(n) => ~find_usages(n, fn[n].expr.var)
    BY UsageIsLater
  <1>3. CASE fn[n].expr.kind = "call"
    <2>1. CASE fn[n].type = "DECLARATION"
      BY <1>1, <1>2, <1>3, <2>1 DEF Unverified, CallUnverified, handle_declaration, Kept
    <2>2. CASE fn[n].type = "EXPRESSION"
      <3>1. get_last_expression(n) # NoStmt
        BY <1>3, FunctionType DEF get_last_expression
      <3> QED  BY <1>1, <1>3, <2>2, <3>1 DEF Unverified, CallUnverified, handle_call_simple
    <2> QED  BY <2>1, <2>2
  <1>4. CASE fn[n].expr.kind = "assign"
    BY <1>1, <1>2, <1>4 DEF Unverified, Checked, Kept
  <1> QED  BY <1>3, <1>4 DEF Calls

LEMMA UnverifiedIsUntested ==
  ASSUME fn \in Functions, NEW n \in 1..Len(fn), Calls(n), Unverified(n)
  PROVE  /\ ~TestedThere(n)
         /\ Kept(n) => \A m \in 1..Len(fn) :
              /\ fn[m].type \in {"IF", "SWITCH", "RETURN"} /\ Follows(m, n)
              /\ fn[m].expr.kind # "postop"
              => ~Occurs(fn[m].expr, fn[n].expr.var)
  <1> DEFINE var == fn[n].expr.var
  <1>1. ~TestedThere(n)
    BY DEF Calls, Unverified, CallUnverified, handle_call_simple, Checked, TestedThere
  <1>2. Kept(n) => /\ ~find_usages(n, var)
                   /\ fn[n].type \in {"DECLARATION", "EXPRESSION", "LABEL"}
    <2>1. ~(fn[n].type \in {"COMPOUND", "LABEL", "CASE", "GOTO"})
      BY FunctionType DEF Calls
    <2>2. fn[n].type \in Type
      BY FunctionType DEF CallStatement
    <2>3. Kept(n) => ~find_usages(n, var) /\ fn[n].type # "ITERATOR"
      BY DEF Kept, Calls, Unverified, CallUnverified, handle_declaration, Checked
    <2> QED  BY <1>1, <2>1, <2>2, <2>3 DEF Type, TestedThere
  <1>3. ASSUME Kept(n), NEW m \in 1..Len(fn), fn[m].type \in {"IF", "SWITCH", "RETURN"},
               Follows(m, n), fn[m].expr.kind # "postop", Occurs(fn[m].expr, var)
        PROVE  FALSE
    <2>1. TypeOf(fn[n].parent) = "COMPOUND"
      BY <1>3 DEF Follows
    <2>2. PICK t \in 1..Len(fn) : /\ Below(m, t) /\ fn[t].parent = fn[n].parent
                                  /\ fn[t].line > fn[n].line
      BY <1>3 DEF Follows
    <2>3. lookup_var(m, var)
      BY <1>3, MentionsOccur DEF lookup_var
    <2>4. UsedIn(fn[n].parent, fn[n].line, var)
      BY <2>2, <2>3 DEF UsedIn
    <2>5. get_next_statement(n) = fn[n].parent
      BY <1>2, <1>3, <2>1, NextIsBlock
    <2>6. fn[n].parent \in 0..Len(fn)
      BY FunctionType
    <2>7. find_usages(n, var)
      BY <2>4, <2>5, <2>6, LooksThere
    <2> QED  BY <1>2, <1>3, <2>7
  <1> QED  BY <1>1, <1>3

(***************************************************************************)
(* The pass over calls misses no omission it looks for, for every          *)
(* function: a discarded value, or one kept as it is in a variable no      *)
(* later line mentions, is complained of, however deep the call stands and *)
(* wherever get_next_statement and find_usages go from there.              *)
(***************************************************************************)
THEOREM OmissionsAreReported == CallSpec => []OmissionsReported
  <1>1. ASSUME CallInv PROVE OmissionsReported
    <2>1. ASSUME NEW n \in 1..examined,
                 Calls(n), fn[n].expr.kind # "derived", fn[n].expr.arg = NoVar,
                 fn[n].type \in {"EXPRESSION", "DECLARATION"},
                 Kept(n) => ~LaterMention(n, fn[n].expr.var)
          PROVE  n \in complaints
      <3>1. fn \in Functions /\ n \in 1..Len(fn)
        BY <1>1, FunctionType DEF CallInv
      <3>2. Unverified(n)
        BY <2>1, <3>1, OmittedIsUnverified
      <3> QED  BY <1>1, <2>1, <3>2 DEF CallInv
    <2> QED  BY <2>1 DEF OmissionsReported
  <1> QED  BY <1>1, CallInvariance, PTL

(***************************************************************************)
(* Every complaint about an unverified call is justified, for every        *)
(* function: nothing that follows in the call's block tests the value,     *)
(* except under a postfix operator or in a statement expression, or        *)
(* it is a cast assignment and AnalyzedFunction is left over from the last *)
(* call, which was a black-listed one.                                     *)
(***************************************************************************)
THEOREM ComplaintsAreJustified == CallSpec => []ComplaintsJustified
  <1>1. ASSUME CallInv PROVE ComplaintsJustified
    <2>0. /\ fn \in Functions /\ Len(fn) \in Nat
          /\ \A n \in complaints : n \in 1..examined /\ n \in 1..Len(fn)
      BY <1>1, FunctionType DEF CallInv
    <2>1. ASSUME NEW n \in complaints, Calls(n)
          PROVE  /\ ~TestedThere(n)
                 /\ Kept(n) => \A m \in 1..Len(fn) :
                      /\ fn[m].type \in {"IF", "SWITCH", "RETURN"} /\ Follows(m, n)
                      /\ fn[m].expr.kind # "postop"
                      => ~Occurs(fn[m].expr, fn[n].expr.var)
      <3>1. Unverified(n)
        BY <1>1, <2>0, <2>1 DEF CallInv
      <3> QED  BY <2>0, <2>1, <3>1, UnverifiedIsUntested
    <2>2. VerifiedNotReported
      BY <2>1 DEF VerifiedNotReported
    <2>3. StaleComplaintExplained
      BY <1>1 DEF CallInv, StaleComplaintExplained, Explained
    <2> QED  BY <2>2, <2>3 DEF ComplaintsJustified
  <1> QED  BY <1>1, CallInvariance, PTL
=============================================================================
