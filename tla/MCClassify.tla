----------------------------- MODULE MCClassify -----------------------------
(* Every graph of three nodes with at most MaxEdges edges, each of one of    *)
(* six makes: one per way classify can look at an edge.                      *)
EXTENDS Classify

CONSTANTS MaxEdges

Makes == {<<"invoke", "certain", "active">>, <<"publish", "high", "active">>,
          <<"consume", "medium", "unsettled">>, <<"references", "medium", "active">>,
          <<"invoke", "certain", "disabled">>, <<"http", "low", "active">>}

Drawn(pair, m) == [from |-> pair[1], to |-> pair[2], kind |-> m[1],
                   confidence |-> m[2], status |-> m[3]]

Pairs == {q \in Nodes \X Nodes : q[1] # q[2]}

SmallGraphs ==
  UNION {{{Drawn(q, f[q]) : q \in P} : f \in [P -> Makes]} :
         P \in {Q \in SUBSET Pairs : Cardinality(Q) <= MaxEdges}}
=============================================================================
