---------------------------- MODULE SplintModule ----------------------------
(***************************************************************************)
(* The splint module (modules/splint/rbc_splint.c): the loop of run_tool   *)
(* over splint's output, get_function and get_info.                        *)
(*                                                                         *)
(* Splint names a function once, on a line of its own, before the first    *)
(* complaint about it; a complaint at file scope has no such line.  A long *)
(* complaint goes on on a second line; the words that tell its kind stand  *)
(* on the first.                                                           *)
(***************************************************************************)
EXTENDS Naturals, Sequences

CONSTANTS SplintReports,  \* the complaints splint may have, in order
          SplintFlags,    \* the sets of errors that may be tracked
          Name,           \* names of functions
          FileScope       \* no function

\* What splint's lines are told apart by: the words for ERR_STATIC_VARIABLE,
\* ERR_MEMORY_LEAK, ERR_UNINITIALIZED and ERR_INVALID_ACCESS, "Assignment of",
\* and "initialized to type .. expects".
Plain == {"static", "leak", "uninit", "access"}
Signs == {"assignment", "initializer"}

\* sign: one side is unsigned and the types differ otherwise.  long: the
\* complaint has a second line.  cut: the types are not all on its first line.
Complaint == [kind : Plain \cup Signs, func : Name \cup {FileScope},
              sign : BOOLEAN, long : BOOLEAN, cut : BOOLEAN]

ASSUME ReportsAssumption == /\ SplintReports \subseteq Seq(Complaint)
                            /\ SplintFlags \subseteq SUBSET (Plain \cup {"sign"})
                            /\ FileScope \notin Name

VARIABLES complaints,    \* splint's complaints about this program
          splint_flags,  \* flags
          splint_line,   \* the line of OUTPUT_FILE that fgets reads next
          function,      \* the static variable: FileScope stands for NULL
          splint_errs    \* the errors added: which complaint, under which function

splintVars == <<complaints, splint_flags, splint_line, function, splint_errs>>

-----------------------------------------------------------------------------
(* Splint's output, from line to line.                                     *)

\* A line is a part of complaint n: the name of its function, the complaint or
\* its second line.
SplintLine(kind, n) == [kind |-> kind, of |-> n]
EndOfOutput == SplintLine("end", Len(complaints) + 1)

\* The function was not named with the complaint before.
Named(n) == /\ complaints[n].func # FileScope
            /\ n = 1 \/ complaints[n - 1].func # complaints[n].func

FirstLine(n) == IF n > Len(complaints) THEN EndOfOutput
                ELSE SplintLine(IF Named(n) THEN "function" ELSE "complaint", n)

LineAfter(l) ==
  CASE l.kind = "function" -> SplintLine("complaint", l.of)
    [] l.kind = "complaint" /\ complaints[l.of].long -> SplintLine("text", l.of)
    [] OTHER -> FirstLine(l.of + 1)

-----------------------------------------------------------------------------

SplintInit == /\ complaints \in SplintReports
              /\ splint_flags \in SplintFlags
              /\ splint_line = FirstLine(1)
              /\ function = FileScope /\ splint_errs = <<>>

\* fgets
SplintReads == splint_line.kind # "end" /\ splint_line' = LineAfter(splint_line)

\* Mutant: the name is only taken while there is none.
get_function_Once ==
  /\ SplintReads /\ splint_line.kind = "function"
  /\ function' = IF function = FileScope THEN complaints[splint_line.of].func ELSE function
  /\ UNCHANGED <<complaints, splint_flags, splint_errs>>

\* strstr(line, "(in function")
get_function ==
  /\ SplintReads /\ splint_line.kind = "function"
  /\ function' = complaints[splint_line.of].func
  /\ UNCHANGED <<complaints, splint_flags, splint_errs>>

\* get_info: a static variable is never given a function.
splint_get_info(n) ==
  LET func == IF complaints[n].kind = "static" THEN FileScope ELSE function
  IN  splint_errs' = Append(splint_errs, [of |-> n, func |-> func])

PlainError ==
  /\ SplintReads /\ splint_line.kind = "complaint"
  /\ complaints[splint_line.of].kind \in Plain \cap splint_flags
  /\ splint_get_info(splint_line.of)
  /\ UNCHANGED <<complaints, splint_flags, function>>

\* Mutant: a second line is read for assignments too.
SecondLine_Always(kind, l) == LineAfter(l)

\* An initializer's complaint is read together with the line after it, l,
\* whichever that is.
SecondLine(kind, l) == IF kind = "initializer" /\ l.kind # "end" THEN LineAfter(l) ELSE l

\* Of a complaint about an assignment only the first line is there to decide.
is_signed_unsigned(c) == c.sign /\ ~(c.kind = "assignment" /\ c.long /\ c.cut)

SignError ==
  /\ splint_line.kind = "complaint"
  /\ LET c == complaints[splint_line.of]
     IN  /\ c.kind \in Signs /\ "sign" \in splint_flags
         /\ splint_line' = SecondLine(c.kind, LineAfter(splint_line))
         /\ IF is_signed_unsigned(c) THEN splint_get_info(splint_line.of) ELSE UNCHANGED splint_errs
  /\ UNCHANGED <<complaints, splint_flags, function>>

OtherLine ==
  /\ SplintReads
  /\ \/ splint_line.kind = "text"
     \/ /\ splint_line.kind = "complaint"
        /\ \/ complaints[splint_line.of].kind \in Plain \ splint_flags
           \/ complaints[splint_line.of].kind \in Signs /\ "sign" \notin splint_flags
  /\ UNCHANGED <<complaints, splint_flags, function, splint_errs>>

SplintDone == splint_line.kind = "end" /\ UNCHANGED splintVars

SplintNext == get_function \/ PlainError \/ SignError \/ OtherLine \/ SplintDone

SplintSpec == SplintInit /\ [][SplintNext]_splintVars

-----------------------------------------------------------------------------

\* splint complains of what is tracked.
WantedComplaint(n) ==
  IF complaints[n].kind \in Signs THEN "sign" \in splint_flags /\ complaints[n].sign
                                  ELSE complaints[n].kind \in splint_flags

\* Complaint n is a short one about an initializer: it takes the next line
\* with it.
SwallowsNext(n) ==
  complaints[n].kind = "initializer" /\ ~complaints[n].long /\ "sign" \in splint_flags

\* Complaint n's own line is the first one after such a complaint.
Exposed(n) == n > 1 /\ SwallowsNext(n - 1) /\ ~Named(n)

\* Of complaints that follow each other so, every second one is read as part
\* of the one before.
SwallowedComplaint(n) ==
  \E m \in 1..(n - 1) : /\ ~Exposed(m) /\ \A j \in (m + 1)..n : Exposed(j)
                        /\ (n - m) % 2 = 1

\* The types of complaint n, about an assignment, stand on the line after it.
CutOff(n) == complaints[n].kind = "assignment" /\ complaints[n].long /\ complaints[n].cut

(***************************************************************************)
(* run_tool parses splint's output "in order to extract all the errors     *)
(* reported by the tool": at its end every tracked complaint is an error.  *)
(***************************************************************************)
SplintExtractsAll ==
  splint_line.kind = "end" =>
    \A n \in 1..Len(complaints) :
      WantedComplaint(n) => \E i \in 1..Len(splint_errs) : splint_errs[i].of = n

(***************************************************************************)
(* At the end of the output, the tracked complaints have been added once   *)
(* each and in order, all but two sorts, which the loop loses: those whose *)
(* line was read as the second line of a short complaint about an          *)
(* initializer, and those about an assignment whose types stand on the     *)
(* second line, which is not read for them.                                *)
(***************************************************************************)
SplintReadsAll ==
  splint_line.kind = "end" =>
    /\ \A j, k \in 1..Len(splint_errs) : j < k => splint_errs[j].of < splint_errs[k].of
    /\ {splint_errs[k].of : k \in 1..Len(splint_errs)} =
         {n \in 1..Len(complaints) : /\ WantedComplaint(n)
                                    /\ ~SwallowedComplaint(n) /\ ~CutOff(n)}

(***************************************************************************)
(* An error found inside a function is reported under it, unless the line  *)
(* naming the function was swallowed.  At file scope it is reported under  *)
(* the last function named, in whatever file that was.                     *)
(***************************************************************************)
SplintAttribution ==
  \A k \in 1..Len(splint_errs) :
    LET n == splint_errs[k].of
        named == {m \in 1..n : complaints[m].func # FileScope}
    IN  \/ complaints[n].kind = "static" /\ splint_errs[k].func = FileScope
        \/ splint_errs[k].func = complaints[n].func
        \/ /\ complaints[n].func = FileScope
           /\ \E m \in named : splint_errs[k].func = complaints[m].func
        \/ \E m \in 1..(n - 1) :
             /\ SwallowsNext(m) /\ ~SwallowedComplaint(m) /\ Named(m + 1)
             /\ \A j \in (m + 1)..n : complaints[j].func = complaints[n].func
=============================================================================
