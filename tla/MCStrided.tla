------------------------------ MODULE MCStrided ------------------------------
(***************************************************************************)
(* The strided engines on small graphs.                                    *)
(***************************************************************************)
EXTENDS StridedEngines, MCForests

\* And a triangle at whose odd node hangs a matched pair.
PendantStarts ==
  TeamStarts \cup
  {[adj |-> AdjOf({{0, 1}, {1, 2}, {2, 0}, {1, 3}, {3, 5}}), M |-> MatesOf({{1, 2}, {3, 5}})]}

\* Every graph on the nodes, empty matching.
AllGraphs == {[adj |-> AdjOf(E), M |-> NoMates] : E \in SUBSET PairsOf(Node)}
=============================================================================
