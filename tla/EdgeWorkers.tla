----------------------------- MODULE EdgeWorkers ----------------------------
(***************************************************************************)
(* How the edge-parallel CPU engine (run_xb_pro_peredge) shares out the    *)
(* frontier: before every phase the edges of nodes_vector are laid out one *)
(* after the other, and thread t gets the t-th of NumThreads equal slices. *)
(* The helper threads that compute degrees and endpoints write disjoint    *)
(* ranges and are joined before anybody reads them: one step.              *)
(***************************************************************************)
EXTENDS Search, Folds

VARIABLE edges        \* v_vector and w_vector: <<v, w>> by edge id

\* Phase 1 is a module of its own.
Phase1 == INSTANCE AugmentPerEdge WITH local_path <- local, Scenarios <- {}

degrees(frontier) == [i \in DOMAIN frontier |-> Len(adj[frontier[i]])]

\* exclusive_scan: edge_offsets[i] edges come before the i-th frontier node.
edge_offsets(frontier) ==
  [i \in 1..(Len(frontier) + 1) |->
     FoldLeft(+, 0, SubSeq(degrees(frontier), 1, i - 1))]

\* upper_bound over the offsets, minus one: where the edge eid starts.
UpperBound(frontier, eid) ==
  LET offsets == edge_offsets(frontier)
  IN  Cardinality({i \in DOMAIN offsets : offsets[i] <= eid})

\* Mutant: with slices rounded down nobody writes the endpoints of the last edges.
TailUnwritten(frontier) ==
  LET total == Last(edge_offsets(frontier))
  IN  [n \in 1..total |->
         IF n > NumThreads * (total \div NumThreads) THEN <<0, 0>>
         ELSE LET i == UpperBound(frontier, n - 1)
              IN  Row(adj, frontier[i])[n - edge_offsets(frontier)[i]]]

\* build_edge_endpoints_parallel
Endpoints(frontier) ==
  [n \in 1..Last(edge_offsets(frontier)) |->
     LET i == UpperBound(frontier, n - 1)
         v == frontier[i]
     IN  <<v, adj[v][n - edge_offsets(frontier)[i]]>>]

\* What thread t is given for a phase that only looks at the live edges.
Share(t, live) == Among(Phase1!Slice(t), live)

(***************************************************************************)
(* The edge list a phase works on holds every edge of the frontier once,   *)
(* row by row, also around frontier nodes without edges.                   *)
(***************************************************************************)
EdgeListExact ==
  phase \in SearchPhases =>
    edges = FlattenSeq([i \in DOMAIN nodes_vector |-> Row(adj, nodes_vector[i])])
=============================================================================
