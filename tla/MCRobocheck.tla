---------------------------- MODULE MCRobocheck ----------------------------
EXTENDS Robocheck, MCPenalty

\* "a.c" occurs in "x/a.c".
RunFile   == {"a.c", "x/a.c"}
RunFolded == [f \in RunFile |-> f]
RunWithin == {<<f, f>> : f \in RunFile} \cup {<<"x/a.c", "a.c">>}

\* The lists come from the tools, not from this constant.
RunLists == {<<>>}

Start(file, tools, count, load) ==
  [file |-> file, tools |-> tools, count |-> count,
   installed |-> {"T1", "T2"}, load |-> load, inputs |-> TRUE,
   logger |-> "standard"]

\* Two installed tools, with the count and without; an uninstalled one before
\* an installed one; no penalty library; no tools; no file; no inputs; a log
\* file of the caller's.
RunConfigs ==
  {Start("full", <<"T1", "T2">>, 2, TRUE),
   Start("full", <<"T1">>, 2, TRUE),
   Start("full", <<"T1", "T2">>, 1, FALSE),
   Start("full", <<"U", "T1">>, 2, TRUE),
   Start("full", <<>>, 0, TRUE),
   Start("no tools", <<>>, 0, TRUE),
   Start("unreadable", <<>>, 0, FALSE),
   [Start("full", <<"T1">>, 1, TRUE) EXCEPT !.inputs = FALSE],
   [Start("full", <<"T1">>, 1, TRUE) EXCEPT !.logger = "file"]}

\* Both codes have penalties; their values are stored as an int and not at
\* all; code 2 has no penalty and code 1 has step 0.
RunDocs ==
  {[nodes |-> <<Pays(1, INF, "float", 50), Pays(2, 2, "float", 10)>>, errCount |-> 2],
   [nodes |-> <<Pays(1, 2, "int", 5), Pays(2, 1, "short", 3)>>, errCount |-> 2],
   [nodes |-> <<Pays(1, 0, "float", 50), Plain(2)>>, errCount |-> 2]}
=============================================================================
