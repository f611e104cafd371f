--------------------------- MODULE UncheckedCalls ---------------------------
(***************************************************************************)
(* The first pass of static_analyzer over a function: which calls of       *)
(* black-listed functions have a return value that nobody verifies.        *)
(*                                                                         *)
(* A function is the sequence of its statements in the order               *)
(* examine_statement visits them, parents first.  parent is prt_stmt, 0    *)
(* for the body.  What a statement computes is its expression:             *)
(*   call    f(arg), or an expression that contains it but does not assign *)
(*           it; in a declaration the initializer of var                   *)
(*   assign  an expression that contains var = f(arg), or var = a cast of  *)
(*           an expression that contains f(arg)                            *)
(*   derived var = an expression computed from f(arg): a comparison, a     *)
(*           negation, a conditional                                       *)
(*   cast    var = an expression with a cast, written or implied, without  *)
(*           a call of f                                                   *)
(*   plain   a call of a function that is not black-listed; var, if any,   *)
(*           is its argument                                               *)
(*   mention an expression in which var occurs                             *)
(*   postop  one in which var occurs only under a postfix ++ or --, or in  *)
(*           a statement expression                                        *)
(* with f a black-listed function and arg an array passed to it, or NoVar  *)
(* (sparse turns other variables into dereferences, which get_out_symbol   *)
(* does not look into).  examine_expression does not look into the         *)
(* arguments of a call, under ++ or --, or into an initializer in braces:  *)
(* a call of f there is not seen, and counts for none of these.            *)
(***************************************************************************)
EXTENDS Naturals, Sequences

CONSTANTS Functions, Var, NoVar

Type == {"COMPOUND", "DECLARATION", "EXPRESSION", "IF", "ITERATOR", "LABEL", "CASE",
         "SWITCH", "RETURN", "GOTO"}
Kind == {"none", "call", "assign", "derived", "cast", "plain", "mention", "postop"}
Expression == [kind : Kind, var : Var \cup {NoVar}, arg : Var \cup {NoVar}]
CallStatement == [type : Type, parent : Nat, line : Nat, expr : Expression]

\* A statement comes after the one that holds it and begins no earlier.  Blocks
\* and labels compute nothing: the value of a case label is a constant, and the
\* target of a goto is a label.  A declaration does not assign a call's value
\* inside its initializer (int y = (x = f())): that value would be two variables'.
\* Only calls have an array for an argument, and a call that is assigned to
\* nothing has no variable.
ASSUME FunctionsAssumption ==
  /\ Functions \subseteq Seq(CallStatement)
  /\ \A f \in Functions : \A n \in 1..Len(f) :
       /\ f[n].parent < n
       /\ f[n].parent > 0 => f[n].line >= f[f[n].parent].line
       /\ f[n].type \in {"COMPOUND", "LABEL", "CASE", "GOTO"} => f[n].expr.kind = "none"
       /\ f[n].type = "DECLARATION" => f[n].expr.kind \notin {"assign", "derived"}
       /\ f[n].expr.arg # NoVar => f[n].expr.kind \in {"call", "assign", "derived"}
       /\ f[n].expr.var # NoVar =>
            f[n].expr.kind # "none" /\ (f[n].expr.kind = "call" => f[n].type = "DECLARATION")

VARIABLES fn,                \* the function
          examined,          \* statements examined
          AnalyzedFunction,  \* the static variable: a black-listed function, or not
          complaints         \* the statements emit_error was called for

callVars == <<fn, examined, AnalyzedFunction, complaints>>

CallInit == /\ fn \in Functions
            /\ examined = 0
            /\ AnalyzedFunction = FALSE
            /\ complaints = {}

-----------------------------------------------------------------------------
(* get_next_statement, find_usages *)

NoStmt == Len(fn) + 1

\* The body is a compound, and its prt_stmt is NULL.
TypeOf(n) == CASE n = 0 -> "COMPOUND" [] n = NoStmt -> "NULL" [] OTHER -> fn[n].type
prt_stmt(n) == IF n \in 1..Len(fn) THEN fn[n].parent ELSE NoStmt

\* The statements on the way from n, where step leads from each to the next:
\* the smallest set that holds n and, with a statement, the next one.
Way(step, n) ==
  LET Closed(S) == \A k \in S : step[k] \in S
  IN  {m \in DOMAIN step : \A S \in SUBSET DOMAIN step : n \in S /\ Closed(S) => m \in S}

\* From a statement to the one in which get_next_statement goes on looking.
\* A case label goes past the compound it stands in to the switch around that.
Outward ==
  [n \in 0..NoStmt |->
     CASE TypeOf(n) = "COMPOUND" -> n
       [] TypeOf(n) = "CASE" -> prt_stmt(prt_stmt(n))
       [] TypeOf(n) \in {"DECLARATION", "EXPRESSION", "IF", "ITERATOR", "LABEL", "SWITCH"} ->
            prt_stmt(n)
       [] OTHER -> NoStmt]

\* The nearest compound, where the way outward ends.
get_next_statement(n) == CHOOSE c \in Way(Outward, n) : Outward[c] = c

\* Statement n is m or lies below it.
Below(n, m) == m \in Way([k \in 0..NoStmt |-> prt_stmt(k)], n)

\* The variable an assignment assigns.
build_symbol(e) == IF e.kind \in {"assign", "derived", "cast"} THEN e.var ELSE NoVar

\* An argument of the call that is an array.
get_out_symbol(e) == IF e.kind \in {"call", "assign", "derived"} THEN e.arg ELSE NoVar

\* lookup_expression: an assignment to var counts as much as a use of it.  What
\* stands under a postfix operator or in a statement expression is not looked at.
Mentions(e, var) ==
  /\ var # NoVar
  /\ \/ build_symbol(e) = var \/ get_out_symbol(e) = var
     \/ e.kind \in {"mention", "plain"} /\ e.var = var

\* Mutant: return statements are not looked into.
lookup_var_NoReturn(n, var) == /\ fn[n].type \in {"IF", "SWITCH", "EXPRESSION"}
                               /\ Mentions(fn[n].expr, var)

\* lookup_var: declarations and loop conditions are not looked into.
lookup_var(n, var) == /\ fn[n].type \in {"IF", "SWITCH", "RETURN", "EXPRESSION"}
                      /\ Mentions(fn[n].expr, var)

\* Mutant: the statements of the call's own line are looked at too.
UsedIn_SameLine(c, line, var) ==
  \E m, n \in 1..Len(fn) : /\ fn[m].parent = c /\ fn[m].line >= line
                           /\ Below(n, m) /\ lookup_var(n, var)

\* examine_statement(crt, lookup_var, 0) on the statements of compound c that
\* begin on a later line.
UsedIn(c, line, var) ==
  \E m, n \in 1..Len(fn) : /\ fn[m].parent = c /\ fn[m].line > line
                           /\ Below(n, m) /\ lookup_var(n, var)

\* The compounds find_usages goes through on its way up.
find_usages(s, var) ==
  LET Up == [c \in 0..NoStmt |-> get_next_statement(prt_stmt(c))]
  IN  \E c \in Way(Up, get_next_statement(s)) : UsedIn(c, fn[s].line, var)

\* check_start_statement returns 0.
Checked(s, var) == \/ fn[s].type \in {"IF", "SWITCH", "RETURN", "ITERATOR"}
                   \/ find_usages(s, var)

\* handle_out_call_params returns 0: an argument is looked at later.
OutChecked(s) == LET var == get_out_symbol(fn[s].expr) IN var # NoVar /\ Checked(s, var)

-----------------------------------------------------------------------------
(* examine_stmt_expression, examine_expression *)

\* The declared variable is not used later.
handle_declaration(s) == ~find_usages(s, fn[s].expr.var)

\* The statement of the expression around the call, none if it is assigned there.
get_last_expression(s) == IF fn[s].expr.kind \in {"assign", "derived"} THEN NoStmt ELSE s

\* The value of the call does not decide where the program goes on.
handle_call_simple(s) == /\ get_last_expression(s) # NoStmt
                         /\ fn[s].type \notin {"SWITCH", "CASE", "IF", "RETURN"}

\* is_declaration_call chooses between the two.
CallUnverified(s) ==
  IF fn[s].type = "DECLARATION" THEN handle_declaration(s) ELSE handle_call_simple(s)

Examine(s, analyzed, complain) ==
  /\ s <= Len(fn)
  /\ examined' = s
  /\ AnalyzedFunction' = analyzed
  /\ complaints' = IF complain THEN complaints \cup {s} ELSE complaints
  /\ UNCHANGED fn

\* EXPR_CALL of a black-listed function
ExamineCall ==
  LET s == examined + 1
  IN  /\ s <= Len(fn) /\ fn[s].expr.kind = "call"
      /\ Examine(s, TRUE, CallUnverified(s) /\ ~OutChecked(s))

\* EXPR_CALL of another function
ExaminePlain ==
  LET s == examined + 1
  IN  /\ s <= Len(fn) /\ fn[s].expr.kind = "plain"
      /\ Examine(s, FALSE, FALSE)

\* handle_assignment_expr: the call on the right is examined first, and is
\* no error by itself.
ExamineAssign ==
  LET s == examined + 1
  IN  /\ s <= Len(fn) /\ fn[s].expr.kind = "assign"
      /\ Examine(s, TRUE, ~Checked(s, fn[s].expr.var) /\ ~OutChecked(s))

\* handle_assignment_expr: what is on the right is neither a call nor a cast, so
\* the variable is not looked for.
ExamineDerived ==
  LET s == examined + 1
  IN  /\ s <= Len(fn) /\ fn[s].expr.kind = "derived"
      /\ Examine(s, TRUE, handle_call_simple(s) /\ ~OutChecked(s))

\* handle_assignment_expr: a cast on the right is taken for a call, of the
\* function analyzed last; there is no call node, so no argument is checked.
ExamineCast ==
  LET s == examined + 1
  IN  /\ s <= Len(fn) /\ fn[s].expr.kind = "cast"
      /\ Examine(s, AnalyzedFunction, AnalyzedFunction /\ ~Checked(s, fn[s].expr.var))

ExamineOther ==
  LET s == examined + 1
  IN  /\ s <= Len(fn) /\ fn[s].expr.kind \in {"none", "mention", "postop"}
      /\ Examine(s, AnalyzedFunction, FALSE)

CallsDone == examined = Len(fn) /\ UNCHANGED callVars

CallNext == \/ ExamineCall \/ ExaminePlain \/ ExamineAssign \/ ExamineDerived
            \/ ExamineCast \/ ExamineOther \/ CallsDone

CallSpec == CallInit /\ [][CallNext]_callVars

-----------------------------------------------------------------------------

Calls(n) == fn[n].expr.kind \in {"call", "assign", "derived"}

\* The value of statement n's call is given to a variable.
Kept(n) == fn[n].expr.kind = "assign" \/ fn[n].type = "DECLARATION"

\* The value decides something in the statement itself.
TestedThere(n) == fn[n].type \in {"IF", "SWITCH", "RETURN"}

\* Variable var occurs in the expression, wherever it stands in it.
Occurs(e, var) == var # NoVar /\ var \in {e.var, e.arg}

LaterMention(n, var) == \E m \in 1..Len(fn) : /\ fn[m].line > fn[n].line
                                              /\ Occurs(fn[m].expr, var)

(***************************************************************************)
(* No omission is missed, of those the pass looks for: if the return value *)
(* of a black-listed call is discarded, or kept as it is (or cast) in a    *)
(* variable that no later line of the function mentions, and the call has  *)
(* no array for an argument, then it is reported, however deep the call    *)
(* stands and whatever stands around it.  A value computed from the call's *)
(* (x = f() < 0, x = !f()) is left out: handle_assignment_expr looks for a *)
(* use of x only when the right side is a call or a cast, so it never      *)
(* complains of one.                                                       *)
(***************************************************************************)
OmissionsReported ==
  \A n \in 1..examined :
    /\ Calls(n) /\ fn[n].expr.kind # "derived" /\ fn[n].expr.arg = NoVar
    /\ fn[n].type \in {"EXPRESSION", "DECLARATION"}
    /\ Kept(n) => ~LaterMention(n, fn[n].expr.var)
    => n \in complaints

\* Statement m belongs to one that follows n in its block, on a later line.
Follows(m, n) == /\ TypeOf(fn[n].parent) = "COMPOUND"
                 /\ \E t \in 1..Len(fn) : /\ Below(m, t) /\ fn[t].parent = fn[n].parent
                                          /\ fn[t].line > fn[n].line

(***************************************************************************)
(* No verified value is reported: if a call's value is kept in a variable  *)
(* and an if, a switch or a return looks at it, in one of the statements   *)
(* that follow in the same block and begin on a later line, there is no    *)
(* complaint.  (A call directly behind a case label has no block here:     *)
(* find_usages skips the rest of its switch.)  A test that has the         *)
(* variable only under a postfix ++ or --, or in a statement expression,   *)
(* is left out: lookup_expression does not look there, and the call is     *)
(* complained of although x-- > 0 verifies it.  A value tested where the   *)
(* call stands is not reported either, unless it is a loop's condition.    *)
(***************************************************************************)
VerifiedNotReported ==
  \A n \in complaints :
    Calls(n) =>
      /\ ~TestedThere(n)
      /\ Kept(n) => \A m \in 1..Len(fn) :
           /\ fn[m].type \in {"IF", "SWITCH", "RETURN"} /\ Follows(m, n)
           /\ fn[m].expr.kind # "postop"
           => ~Occurs(fn[m].expr, fn[n].expr.var)

(***************************************************************************)
(* A statement without a call of a black-listed function is complained of  *)
(* only if it assigns with a cast, and then because the last call before   *)
(* it was black-listed.                                                    *)
(***************************************************************************)
StaleComplaintExplained ==
  \A n \in complaints :
    ~Calls(n) => /\ fn[n].expr.kind = "cast"
                 /\ \E m \in 1..(n - 1) :
                      /\ Calls(m)
                      /\ \A k \in (m + 1)..(n - 1) : fn[k].expr.kind # "plain"

(***************************************************************************)
(* Every complaint about an unverified call is justified: it is about a    *)
(* call whose value nothing that follows tests, or about a cast assignment *)
(* that the call before it explains.                                       *)
(***************************************************************************)
ComplaintsJustified == VerifiedNotReported /\ StaleComplaintExplained
=============================================================================
