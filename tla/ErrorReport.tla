---------------------------- MODULE ErrorReport ----------------------------
(***************************************************************************)
(* What robocheck promises its caller: it collects errors, no two of which *)
(* are duplicates, and then either publishes all of them at once, each     *)
(* under its error code, or ends without a report.  A run whose behaviour  *)
(* becomes undefined publishes nothing.                                    *)
(*                                                                         *)
(* found is a bag: an error without a file name may be collected twice,    *)
(* and each occurrence counts for the penalty.                             *)
(***************************************************************************)
EXTENDS Findings, Bags

VARIABLES found,   \* the errors collected and not yet published
          report,  \* the published groups
          status   \* "checking", "reported", "silent" or "aborted"

ReportInit == found = EmptyBag /\ report = {} /\ status = "checking"

Collected(f) ==
  /\ status = "checking"
  /\ \A g \in BagToSet(found) : ~Duplicate(f, g)
  /\ found' = found (+) SetToBag({f})
  /\ UNCHANGED <<report, status>>

OfType(t) == [f \in {g \in BagToSet(found) : g.err_type = t} |-> found[f]]

Publish ==
  /\ status = "checking"
  /\ report' = {[type |-> t, members |-> OfType(t)] :
                  t \in {f.err_type : f \in BagToSet(found)}}
  /\ status' = "reported"
  /\ found' = EmptyBag

EndSilently == /\ status = "checking" /\ status' = "silent"
               /\ found' = EmptyBag
               /\ UNCHANGED report

Abort == /\ status # "aborted" /\ status' = "aborted"
         /\ found' = EmptyBag
         /\ UNCHANGED report

ReportNext == (\E f \in Finding : Collected(f)) \/ Publish \/ EndSilently \/ Abort

ReportSpec == ReportInit /\ [][ReportNext]_<<found, report, status>>
=============================================================================
