------------------------------- MODULE XGraph -------------------------------
(***************************************************************************)
(* What every matching engine of X-Blossom reads and nobody writes during  *)
(* a search: the node ids, the CSR adjacency, and the pure functions over  *)
(* a matching vector M, a path table and a path.                           *)
(*                                                                         *)
(* A node id is an int; -1 stands for "no mate" in M and for "no tree" in  *)
(* belongs.  adj[v] is the slice columnIndices[rowOffsets[v] ..            *)
(* rowOffsets[v+1]-1] of the CSR arrays, in their order.                   *)
(***************************************************************************)
EXTENDS Integers, Sequences, FiniteSets, SequencesExt

CONSTANT nodes                    \* the number of nodes

ASSUME NodesAssumption == nodes \in Nat

Node == 0 .. (nodes - 1)

NoNode == -1

\* What a loop over s picks that looks for entries in S.
Among(s, S) ==
  LET kept[i \in 0..Len(s)] ==
        IF i = 0 THEN <<>>
        ELSE IF s[i] \in S THEN Append(kept[i - 1], s[i]) ELSE kept[i - 1]
  IN  kept[Len(s)]

\* The nodes of S in ascending order, as a loop over the ids meets them.
Ascending(S) == Among([i \in 1..nodes |-> i - 1], S)

\* The edges leaving v, in CSR order.
Row(adj, v) == [j \in 1..Len(adj[v]) |-> <<v, adj[v][j]>>]

IsAdjacent(adj, v, w) == \E j \in DOMAIN adj[v] : adj[v][j] = w

\* The loader stores every edge at both of its ends.
IsUndirected(adj) ==
  /\ adj \in [Node -> Seq(Node)]
  /\ \A v \in Node : \A w \in Range(adj[v]) : IsAdjacent(adj, w, v)

\* Simple undirected graphs: every edge is stored at both of its ends, once.
IsSimpleGraph(adj) ==
  /\ adj \in [Node -> Seq(Node)]
  /\ \A v \in Node : /\ ~IsAdjacent(adj, v, v)
                     /\ IsInjective(adj[v])
                     /\ \A w \in Range(adj[v]) : IsAdjacent(adj, w, v)

Matched(M) == {v \in Node : M[v] # NoNode}

\* ValidateMatchingCPU: mates are mutual; and they are joined by an edge.
IsMatching(adj, M) ==
  \A v \in Matched(M) : M[v] \in Node /\ M[M[v]] = v /\ IsAdjacent(adj, v, M[v])

-----------------------------------------------------------------------------
(***************************************************************************)
(* find_path_vector: start with v and keep appending the table entry of    *)
(* the last node until an entry is empty.  Appending an empty entry        *)
(* changes nothing, and an entry that is not empty is at least two nodes   *)
(* long, so MaxHops rounds show the whole walk, or a repeated node of one  *)
(* that never ends.                                                        *)
(***************************************************************************)
MaxHops == (nodes + 1) \div 2

Walk(table, v) ==
  LET more[p \in Seq(Node)] == p \o table[Last(p)]
      walk[k \in Nat] == IF k = 0 THEN <<v>> ELSE more[walk[k - 1]]
  IN  walk[MaxHops]

\* Mutant: the path through the bridge is put together without reversing.
JoinUnreversed(table, v, w) == Walk(table, v) \o Walk(table, w)

\* The augmenting path through the bridge (v, w): root(v) .. v, w .. root(w).
JoinWalks(table, v, w) == Reverse(Walk(table, v)) \o Walk(table, w)

\* The path from an even node to the root of its tree alternates: it leaves
\* an even position over the matching and an odd position over a free edge.
IsEvenWalk(adj, M, p) ==
  /\ IsInjective(p)
  /\ Len(p) % 2 = 1
  /\ M[Last(p)] = NoNode
  /\ \A i \in 1..(Len(p) - 1) :
       IF i % 2 = 1 THEN M[p[i]] = p[i + 1]
                    ELSE IsAdjacent(adj, p[i], p[i + 1]) /\ M[p[i]] # p[i + 1]

\* parCreateNewMatchingVector on one path: its nodes are mated pairwise.
FlipPath(M, p) ==
  LET at(v) == CHOOSE i \in DOMAIN p : p[i] = v
  IN  [v \in Node |->
        IF v \notin Range(p) THEN M[v]
        ELSE IF at(v) % 2 = 1 THEN p[at(v) + 1] ELSE p[at(v) - 1]]

-----------------------------------------------------------------------------
(***************************************************************************)
(* The reference the engines are measured against, by the definition of a  *)
(* maximum matching (evaluated on small graphs only).                      *)
(***************************************************************************)
Edges(adj) == UNION {{{v, w} : w \in Range(adj[v]) \ {v}} : v \in Node}

IsBipartite(adj) ==
  \E S \in SUBSET Node : \A v \in Node : \A w \in Range(adj[v]) : (v \in S) # (w \in S)

IsMaximumMatching(adj, M) ==
  /\ IsMatching(adj, M)
  /\ \A S \in SUBSET Edges(adj) :
       2 * Cardinality(S) > Cardinality(Matched(M))
         => \E e, f \in S : e # f /\ e \cap f # {}
=============================================================================
