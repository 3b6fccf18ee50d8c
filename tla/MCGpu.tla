------------------------------- MODULE MCGpu --------------------------------
(***************************************************************************)
(* The GPU engines on small graphs.                                        *)
(***************************************************************************)
EXTENDS GpuEngines, MCForests

AllEngines  == {Engine10, Engine12, NR, PerNode, Hybrid, Hybrid2}
OnlyPerNode == {PerNode}

\* Callers hand over an empty matching: a first search on the paw, or a later
\* one.  The last two graphs: two paths compete for trees while a third tree
\* is kept for the search after; and a blossom whose base is not the root.
GpuStarts ==
  {[adj |-> AdjOf(Paw), M |-> NoMates]} \cup LaterStarts \cup FarTree \cup LongFlower \cup
  {[adj |-> AdjOf({{0, 1}, {1, 2}, {2, 3}, {2, 8}, {8, 9}, {9, 4}, {4, 5}, {5, 6}}),
    M   |-> MatesOf({{1, 2}, {8, 9}, {4, 5}})],
   [adj |-> AdjOf({{0, 1}, {1, 2}, {2, 3}, {3, 4}, {4, 2}, {3, 5}, {5, 6}, {6, 7}}),
    M   |-> MatesOf({{1, 2}, {3, 4}, {5, 6}})]}

\* A triangle at the end of a path, and self-loops at two of its nodes.
SelfLoop ==
  {[adj |-> AdjOf({{0}, {1}, {0, 1}, {0, 2}, {1, 2}, {0, 3}, {3, 4}, {4, 5}}),
    M   |-> NoMates]}
=============================================================================
