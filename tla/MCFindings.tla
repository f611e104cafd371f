----------------------------- MODULE MCFindings -----------------------------
(* Small sets of errors shared by the model-checking modules.              *)
EXTENDS Findings

MCFile == {"a.c", "x/a.c", "y/a.c"}

\* "a.c" occurs in the two longer names, which do not occur in each other.
MCFolded == [f \in MCFile |-> f]
MCWithin == {<<f, f>> : f \in MCFile} \cup {<<"x/a.c", "a.c">>, <<"y/a.c", "a.c">>}

Err(t, m, f) == [err_type |-> t, err_msg |-> [text |-> m, file |-> f]]
=============================================================================
