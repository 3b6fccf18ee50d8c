------------------------------ MODULE XForest -------------------------------
(***************************************************************************)
(* The state the phases of one search share: the graph, the matching M and *)
(* the alternating forest (is_even, belongs, path_table), which the        *)
(* drivers own and every worker thread reads and writes by reference.      *)
(*                                                                         *)
(* is_even[v] and belongs[v] are plain ints, path_table[v] a plain vector: *)
(* no lock and no atomic protects them.  What keeps the threads apart is   *)
(* the CAS-guarded select_* arrays of the phase modules.                   *)
(***************************************************************************)
EXTENDS XGraph

CONSTANT NumThreads               \* num_of_threads

ASSUME ThreadAssumption == NumThreads \in Nat \ {0}

Thread == 0 .. (NumThreads - 1)

VARIABLES
  adj,          \* the graph
  M,            \* M[v]: the mate of v
  is_even,      \* is_even[v] = 1: an alternating path of even length is known
  belongs,      \* belongs[v]: the root of v's tree
  path_table    \* path_table[v]: the next piece of the path from v to its root

forestVars == <<adj, M, is_even, belongs, path_table>>

ForestTypeOK ==
  /\ adj \in [Node -> Seq(Node)]
  /\ M \in [Node -> Node \cup {NoNode}]
  /\ is_even \in [Node -> {0, 1}]
  /\ belongs \in [Node -> Node \cup {NoNode}]
  /\ path_table \in [Node -> Seq(Node)]

-----------------------------------------------------------------------------
\* The condition under which an edge (v, w) out of the frontier bridges two
\* trees, read from is_even and belongs, which no phase-1 thread writes.
IsBridge(v, w) ==
  /\ is_even[w] = 1
  /\ belongs[v] # belongs[w]
  /\ belongs[v] # NoNode
  /\ belongs[w] # NoNode

\* The walk from an even tree node: alternating, inside the node's own tree,
\* up to the root that names the tree.
EvenWalkLegal(v) ==
  LET p == Walk(path_table, v)
  IN  /\ p \in Seq(Node)
      /\ IsEvenWalk(adj, M, p)
      /\ Last(p) = belongs[v]
      /\ \A x \in Range(p) : belongs[x] = belongs[v]

\* What phase 1 relies on and the other phases must deliver: every even
\* node of a tree has a legal walk to its root.
LegalForest ==
  \A v \in Node : (is_even[v] = 1 /\ belongs[v] # NoNode) => EvenWalkLegal(v)

-----------------------------------------------------------------------------
\* What a node can be to the forest.
EvenNode(x) == is_even[x] = 1 /\ belongs[x] # NoNode
OddNode(x)  == is_even[x] = 0 /\ belongs[x] # NoNode

IsRoot(x) == belongs[x] = x /\ is_even[x] = 1 /\ path_table[x] = <<>>

\* Nothing is known of x.
Unreached(x) == belongs[x] = NoNode /\ is_even[x] = 0 /\ path_table[x] = <<>>
=============================================================================
