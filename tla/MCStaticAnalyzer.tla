-------------------------- MODULE MCStaticAnalyzer --------------------------
(***************************************************************************)
(* The parts of static_analyzer: reading the black list, the pass over     *)
(* calls and the pass over lines.  main runs them one after the other, the *)
(* passes keep nothing for each other, and what one hands to the next (a   *)
(* function is black-listed, an option is set) is any value in the next,   *)
(* so a behaviour is one part at work; the others stand still.             *)
(***************************************************************************)
EXTENDS BlackList, UncheckedCalls, LineChecks

VARIABLE part

vars == <<part, blVars, callVars, lineVars>>

BlIdle == /\ file = [names |-> <<>>, eol |-> TRUE] /\ list = <<>> /\ bytes = 0
          /\ over = FALSE /\ bl_pc = "failed"

CallIdle == fn = <<>> /\ examined = 0 /\ AnalyzedFunction = FALSE /\ complaints = {}

LineIdle == /\ source = [text |-> <<>>, eol |-> TRUE, functions |-> <<>>]
            /\ FileMapping = "NULL" /\ CurrentLine = 0
            /\ CurrentIndentLevel = -1 /\ LastInstructionLine = -1
            /\ level = <<>> /\ fun = 1 /\ line_pc = "done" /\ messages = <<>>

Init == \/ part = "black list" /\ BlInit /\ CallIdle /\ LineIdle
        \/ part = "calls" /\ CallInit /\ BlIdle /\ LineIdle
        \/ part = "lines" /\ LineInit /\ BlIdle /\ CallIdle

Next == /\ UNCHANGED part
        /\ \/ part = "black list" /\ BlNext /\ UNCHANGED <<callVars, lineVars>>
           \/ part = "calls" /\ CallNext /\ UNCHANGED <<blVars, lineVars>>
           \/ part = "lines" /\ LineNext /\ UNCHANGED <<blVars, callVars>>

Spec == Init /\ [][Next]_vars

-----------------------------------------------------------------------------
(* Black lists of up to six lines.                                         *)

MCFiles == [names : UNION {[1..n -> Function] : n \in 0..6}, eol : BOOLEAN]

-----------------------------------------------------------------------------
(* Functions for the pass over calls.                                      *)

St(type, parent) == <<type, parent>>

\* Straight-line code; blocks and branches with and without braces; a loop; a
\* switch whose second statement belongs to the case's label, not to the case.
Shapes ==
  { <<St("EXPRESSION", 0), St("EXPRESSION", 0), St("IF", 0)>>,
    <<St("DECLARATION", 0), St("EXPRESSION", 0), St("RETURN", 0)>>,
    <<St("IF", 0), St("COMPOUND", 1), St("EXPRESSION", 2), St("IF", 2), St("RETURN", 0)>>,
    <<St("EXPRESSION", 0), St("IF", 0), St("COMPOUND", 2), St("RETURN", 3), St("EXPRESSION", 0)>>,
    <<St("IF", 0), St("EXPRESSION", 1), St("DECLARATION", 0), St("EXPRESSION", 0)>>,
    <<St("ITERATOR", 0), St("COMPOUND", 1), St("DECLARATION", 2), St("EXPRESSION", 2)>>,
    <<St("ITERATOR", 0), St("EXPRESSION", 1), St("ITERATOR", 0), St("GOTO", 0)>>,
    <<St("LABEL", 0), St("EXPRESSION", 1), St("IF", 0), St("EXPRESSION", 3)>>,
    <<St("SWITCH", 0), St("COMPOUND", 1), St("CASE", 2), St("EXPRESSION", 3), St("IF", 2)>> }

Expr(kind, var, arg) == [kind |-> kind, var |-> var, arg |-> arg]
None == Expr("none", NoVar, NoVar)

\* What a statement of each type may compute.
Exprs(type) ==
  CASE type \in {"COMPOUND", "LABEL", "CASE", "GOTO"} -> {None}
    [] type = "DECLARATION" ->
         {None, Expr("plain", NoVar, NoVar)} \cup {Expr("call", "v", a) : a \in {NoVar, "w"}}
    [] OTHER ->
         {None, Expr("cast", "w", NoVar), Expr("mention", "v", NoVar), Expr("postop", "v", NoVar)}
         \cup {Expr("plain", v, NoVar) : v \in {NoVar, "v"}}
         \cup {Expr(k, IF k = "call" THEN NoVar ELSE "v", a) :
                 k \in {"call", "assign", "derived"}, a \in {NoVar, "w"}}

\* The lines on which the statements begin: all different, or statement p
\* shares its line with the next one.
Lines(n, p) == {[k \in 1..n |-> k], [k \in 1..n |-> IF k <= p THEN k ELSE k - 1]}

IsCall(e) == e.kind \in {"call", "assign", "derived"}

\* A call at p, anything at q, and at r a cast or another function's call.
MCFunctions ==
  UNION {UNION {
    LET here == [k \in 1..Len(s) |-> Exprs(s[k][1])]
        third == {e \in here[t[3]] : e.kind \in {"none", "plain", "cast"} /\ e.var # "v"}
    IN  {[k \in 1..Len(s) |->
            [type |-> s[k][1], parent |-> s[k][2], line |-> lines[k],
             expr |-> IF k = t[1] THEN a ELSE IF k = t[2] THEN b
                      ELSE IF k = t[3] THEN c ELSE None]] :
          lines \in Lines(Len(s), t[1]), a \in {e \in here[t[1]] : IsCall(e)},
          b \in here[t[2]], c \in third} :
    t \in {u \in (1..Len(s)) \X (1..Len(s)) \X (1..Len(s)) :
             u[1] # u[2] /\ u[3] \notin {u[1], u[2]}}} :
  s \in Shapes}

-----------------------------------------------------------------------------
(* Files for the pass over lines.                                          *)

S(line, parent, compound) ==
  [line |-> line, parent |-> parent, compound |-> compound, own |-> TRUE]

\* An assignment, then a for loop (first part, compound, statement, last
\* part) and a return; the loop alone; two statements on one line; nested
\* ifs without braces; an empty body.
Bodies == << <<S(2, 0, FALSE), S(3, 0, FALSE), S(3, 2, FALSE), S(3, 2, TRUE),
               S(4, 4, FALSE), S(3, 2, FALSE)>>,
             <<S(2, 0, FALSE), S(2, 1, FALSE), S(3, 1, FALSE), S(2, 1, FALSE)>>,
             <<S(2, 0, FALSE), S(2, 0, FALSE)>>,
             <<S(2, 0, FALSE), S(3, 1, FALSE), S(4, 2, FALSE)>>,
             <<>> >>

Shifted(off, body) == [n \in 1..Len(body) |-> [body[n] EXCEPT !.line = body[n].line + off]]
Fn(off, b) == [line |-> off + 1, stmts |-> Shifted(off, Bodies[b])]

\* Up to two of the eight lines mix tabs and spaces or end in blanks.
Texts == LET clean == [mixed |-> FALSE, trail |-> 0]
         IN  {[n \in 1..8 |-> IF n = a THEN [mixed |-> TRUE, trail |-> t]
                              ELSE IF n = b THEN [mixed |-> t = 1, trail |-> 2]
                              ELSE clean] :
                a \in 1..8, b \in 1..8, t \in 0..2}

\* A function of an included file with two statements, the second on a line
\* that the file has or has not.
Included(line) ==
  [line |-> 1, stmts |-> <<[S(1, 0, FALSE) EXCEPT !.own = FALSE],
                           [S(line, 1, FALSE) EXCEPT !.own = FALSE]>>]

MCSources ==
  {[text |-> t, eol |-> e, functions |-> <<Fn(0, b), Fn(4, c)>>] :
     t \in Texts, e \in BOOLEAN, b \in 1..5, c \in 1..5}
  \cup
  {[text |-> t, eol |-> TRUE, functions |-> <<Included(n), Fn(4, c)>>] :
     t \in Texts, n \in {1, 5, 9}, c \in {1, 2}}
=============================================================================
