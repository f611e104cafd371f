----------------------------- MODULE MCDrMemory -----------------------------
EXTENDS DrMemoryModule, MCFindings

Msg(f) == [text |-> "m", file |-> f]

\* A record of a library, one with two frames of the program, one that is not
\* tracked, and one without a library frame.
MCLibrary   == <<[k |-> "error", t |-> 2], [k |-> "foreign"], [k |-> "blank"]>>
MCLeak      == <<[k |-> "error", t |-> 1], [k |-> "foreign"], [k |-> "own", m |-> Msg("x/a.c")],
                 [k |-> "own", m |-> Msg("y/a.c")], [k |-> "text"]>>
MCUntracked == <<[k |-> "error", t |-> 3], [k |-> "own", m |-> Msg("x/a.c")], [k |-> "blank"]>>
MCOther     == <<[k |-> "error", t |-> 2], [k |-> "own", m |-> Msg("y/a.c")], [k |-> "blank"]>>
MCResults   == {MCLibrary \o MCLeak, MCOther \o MCUntracked}
=============================================================================
