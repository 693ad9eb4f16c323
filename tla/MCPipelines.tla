----------------------------- MODULE MCPipelines -----------------------------
(* Instances of Pipelines for TLC: every graph on three nodes, with an empty *)
(* wallet, and one acyclic graph of each shape with the money to run it.     *)
EXTENDS Pipelines

Graph(d1, d2, d3) == [n \in Nodes |-> IF n = 1 THEN d1 ELSE IF n = 2 THEN d2 ELSE d3]

MCShapes ==
    {Graph({}, {}, {}),         \* no dependency
     Graph({3}, {}, {}),        \* one, against the order of the ids
     Graph({2}, {3}, {}),       \* a chain
     Graph({2}, {}, {2}),       \* a fork
     Graph({}, {}, {1, 2}),     \* a join
     Graph({2, 3}, {}, {2})}    \* a full order

MCStarts ==
    {[deps |-> d, funds |-> 0] : d \in [Nodes -> SUBSET Nodes]}
    \cup {[deps |-> d, funds |-> N] : d \in MCShapes}
    \cup {[deps |-> Graph({}, {1}, {}), funds |-> N - 1]}
=============================================================================
