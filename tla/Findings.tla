------------------------------ MODULE Findings ------------------------------
(***************************************************************************)
(* The errors robocheck passes around (struct rbc_output of lib/tool.h)    *)
(* and the test by which two of them count as the same error.              *)
(*                                                                         *)
(* A message is kept as the two parts cmp_msg_file compares: the file name *)
(* that follows "in file", and the text around it with letter case         *)
(* removed.  What the C library says about two names is given by constants *)
(* (Folded for strcasecmp, Within for strstr).                             *)
(***************************************************************************)
EXTENDS Integers, Sequences

CONSTANTS ErrType,  \* codes of enum EN_err_type the tools report
          Text,     \* texts around the file name
          File,     \* file names that messages mention
          NoFile,   \* the file part of a message without "in file"
          Folded,   \* Folded[f] is f in lower case (strcasecmp)
          Within    \* <<f, g>> \in Within: g occurs in f (strstr(f, g))

ASSUME ErrTypeAssumption == ErrType \subseteq Nat

ASSUME NameAssumption == /\ NoFile \notin File
                         /\ DOMAIN Folded = File
                         /\ Within \subseteq File \X File

Message == [text : Text, file : File \cup {NoFile}]

Finding == [err_type : ErrType, err_msg : Message]

\* strcasecmp(name1, name2) == 0 || strstr(name1, name2) || strstr(name2, name1)
SameName(f, g) == \/ Folded[f] = Folded[g]
                  \/ <<f, g>> \in Within
                  \/ <<g, f>> \in Within

cmp_msg_file(m1, m2) == /\ m1.file # NoFile
                        /\ m2.file # NoFile
                        /\ SameName(m1.file, m2.file)
                        /\ m1.text = m2.text

\* The condition check_for_duplicates and add apply to a pair of nodes.
Duplicate(a, b) == /\ a.err_type = b.err_type
                   /\ cmp_msg_file(a.err_msg, b.err_msg)
=============================================================================
