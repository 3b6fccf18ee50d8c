------------------------------ MODULE MCForests -----------------------------
(***************************************************************************)
(* Small graphs and forests for the runs of the phase modules.             *)
(***************************************************************************)
EXTENDS XGraph

\* The CSR rows of an edge set, sorted by column index.
AdjOf(E) == [v \in Node |-> Ascending({w \in Node : {v, w} \in E})]

PairsOf(S) == {{v, w} : v \in S, w \in S} \ {{v} : v \in S}

\* The matching given by a set of disjoint edges.
MatesOf(S) ==
  [v \in Node |-> IF \E e \in S : v \in e
                 THEN CHOOSE w \in Node : {v, w} \in S ELSE NoNode]
NoMates == MatesOf({})

\* The blossom 4, 0 = 1, 3 = 2 with base 4, and a second one inside it.
Flower     == {{0, 1}, {2, 3}, {0, 4}, {2, 4}, {1, 3}}
TwinFlower == Flower \cup {{1, 2}}

\* The edge list of a frontier, as build_edge_endpoints_parallel lays it out.
EdgeList(adj, frontier) ==
  FlattenSeq([i \in DOMAIN frontier |-> Row(adj, frontier[i])])

\* The first phase of the first search: every node is exposed and is its own
\* tree, and the frontier holds all of them.
AllExposed(E, frontier) ==
  [adj        |-> AdjOf(E),
   M          |-> NoMates,
   is_even    |-> [v \in Node |-> 1],
   belongs    |-> [v \in Node |-> v],
   path_table |-> [v \in Node |-> <<>>],
   frontier   |-> frontier,
   edges      |-> EdgeList(AdjOf(E), frontier)]

\* A later phase on nodes 0..6: two trees grown by one expansion step,
\* 0 - 1 = 2 and 3 - 4 = 5, and the exposed node 6.  The nodes added by the
\* expansion, 2 and 5, are the frontier; the edges E join them to the rest.
TwoGrownTrees(E, frontier) ==
  LET tree == {{0, 1}, {1, 2}, {3, 4}, {4, 5}}
  IN  [adj        |-> AdjOf(tree \cup E),
       M          |-> MatesOf({{1, 2}, {4, 5}}),
       is_even    |-> [v \in Node |-> IF v \in {0, 2, 3, 5, 6} THEN 1 ELSE 0],
       belongs    |-> [v \in Node |-> CASE v \in 0..2 -> 0
                                        [] v \in 3..5 -> 3
                                        [] OTHER      -> v],
       path_table |-> [v \in Node |-> CASE v = 2 -> <<1, 0>>
                                        [] v = 5 -> <<4, 3>>
                                        [] OTHER -> <<>>],
       frontier   |-> frontier,
       edges      |-> EdgeList(AdjOf(tree \cup E), frontier)]

-----------------------------------------------------------------------------
\* Six nodes: a path, a triangle on a stem, a ring of five with a tail, the
\* complete graph on four nodes; and what later searches start from: blossoms
\* with a third tree at one of their nodes.
Path == {{0, 1}, {1, 2}, {2, 3}, {3, 4}, {4, 5}}
Stem == {{0, 1}, {1, 2}, {2, 3}, {1, 3}, {3, 4}, {2, 5}}
Ring == {{0, 1}, {1, 2}, {2, 3}, {3, 4}, {4, 0}, {1, 5}}

\* A first search with a triangle, and one with a path.
Paw    == {{0, 1}, {1, 2}, {2, 0}, {1, 3}}

\* The matching of a first search, and what it leaves to the next ones.
LaterStarts ==
  {[adj |-> AdjOf(E), M |-> MatesOf({{0, 1}, {2, 3}})] :
     E \in {Flower \cup {{0, 5}}, Flower \cup {{3, 5}}, TwinFlower \cup {{3, 5}}}}

TeamStarts ==
  {[adj |-> AdjOf(E), M |-> NoMates] : E \in {Path, Stem, Ring, PairsOf(0..3)}} \cup
  LaterStarts

\* Two nodes and the edge between them, both exposed.
OneEdge == {[adj |-> AdjOf({{0, 1}}), M |-> NoMates]}

\* Ten nodes: the twin flower with base 4, and the path 0 8=7 6=5 9 that ends
\* in the exposed node 9.  M is what the first search finds from the empty
\* matching when one thread takes the whole frontier.  The only augmenting
\* path from 4 to 9 leaves the flower at its odd node 0.
FarTree ==
  {[adj |-> AdjOf(TwinFlower \cup {{0, 8}, {8, 7}, {7, 6}, {6, 5}, {5, 9}}),
    M   |-> MatesOf({{0, 1}, {2, 3}, {5, 6}, {7, 8}})]}

\* Ten nodes: the blossom 6, 0 = 1, 2 = 3, 4 = 5 with base 6, where 5 also sees
\* 2, and the path 0 8=7 9.  M is what one thread finds first from the empty
\* matching.  The only augmenting path from 6 to 9 leaves at the odd node 0.
LongFlower ==
  {[adj |-> AdjOf({{6, 0}, {0, 1}, {1, 2}, {2, 3}, {3, 4}, {4, 5}, {5, 6}, {5, 2},
                   {0, 8}, {8, 7}, {7, 9}}),
    M   |-> MatesOf({{0, 1}, {2, 3}, {4, 5}, {7, 8}})]}
\* Small graphs, and two on which walks and entries may repeat nodes.
TenNodeStarts == TeamStarts \cup LongFlower \cup FarTree
=============================================================================
