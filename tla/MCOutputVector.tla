--------------------------- MODULE MCOutputVector ---------------------------
EXTENDS OutputVector, MCFindings

\* Three errors of one kind, of which "a.c" duplicates both others, and two of
\* another kind, one without a file name.
Pool == {Err(2, "m", f) : f \in MCFile} \cup {Err(1, "m", "a.c"), Err(1, "m", NoFile)}

\* Lists as add builds them: without duplicates.
MCLists ==
  {l \in UNION {[1..n -> Pool] : n \in 0..2} :
     \A i, j \in 1..Len(l) : i < j => ~Duplicate(l[i], l[j])}
=============================================================================
