----------------------------- MODULE MCPenalty -----------------------------
EXTENDS Penalty

Pays(id, step, type, value) ==
  [id |-> id, detail |-> [step |-> step, type |-> type, value |-> value]]

Plain(id) == [id |-> id, detail |-> NoDetail]

\* Two penalties and a node without one for code 1, one for code 2, and one
\* for code 3, which is beyond a table of three entries.
Nodes == {Pays(1, INF, "float", 50), Pays(1, 2, "int", 5), Plain(1),
          Pays(2, 1, "short", 3), Pays(3, INF, "float", 20)}

\* Every file of up to three error nodes, with every count from missing to one
\* too many.
MCPenaltyDocs == [nodes : UNION {[1..n -> Nodes] : n \in 0..3}, errCount : -1..4]
=============================================================================
