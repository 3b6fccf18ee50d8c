------------------------------- MODULE Search -------------------------------
(***************************************************************************)
(* What the CPU engines have in common: the state of one search, the loop  *)
(* over a thread's edges, the repair of the forest before a search, the    *)
(* flip after it, and what every engine must guarantee.  An engine adds    *)
(* how its threads share the frontier and composes the phase bodies.       *)
(*                                                                         *)
(* todo[t] is what is left of thread t's share as edges <<v, w>>, without  *)
(* those that fail the test of the phase for good (each phase says which). *)
(***************************************************************************)
EXTENDS XForest

CONSTANTS
  Starts,       \* [adj, M]: the graphs and the matchings handed to the driver
  Threshold     \* stop at this matching size; INT_MAX in every caller

ASSUME ThresholdAssumption == Threshold \in Int

\* The loader builds undirected graphs, and the initial matching is one.
ASSUME StartsAssumption ==
  \A s \in Starts : /\ IsUndirected(s.adj)
                    /\ s.M \in [Node -> Node \cup {NoNode}]
                    /\ IsMatching(s.adj, s.M)
                    /\ \A v \in Node : s.M[v] # v

VARIABLES
  phase,            \* the phase the driver is in, or "finished"
  nodes_vector,     \* the frontier of the phase
  vector_1,         \* the even nodes added by expansion
  vector_2,         \* the even nodes added by blossoms
  select_tree,      \* one CAS flag per root
  select_match,     \* one CAS flag per matched pair, at its smaller node
  select_blossom,   \* one CAS flag per node
  path_collection,  \* the nonempty local paths, in the order of the merges
  pc,               \* per thread: control point
  todo,             \* per thread: the edges left of its share
  local,            \* per thread: local_path (phase 1), local_vector (2 and 3)
  lap               \* per thread: the <<node, entry>> left of its blossom

frontierVars == <<nodes_vector, vector_1, vector_2>>
flagVars     == <<select_tree, select_match, select_blossom>>
threadVars   == <<pc, todo, local, lap>>
searchVars   == <<forestVars, frontierVars, flagVars, threadVars, path_collection, phase>>

SearchPhases == {"augment", "expand", "blossom"}

ZeroFlags == [v \in Node |-> 0]
NoWork    == [t \in Thread |-> <<>>]

\* The driver before its first search; `first` is where it starts a search.
DriverInit(first) ==
  /\ \E s \in Starts : adj = s.adj /\ M = s.M
  /\ is_even = ZeroFlags
  /\ belongs = [v \in Node |-> NoNode]
  /\ path_table = [v \in Node |-> <<>>]
  /\ path_collection = <<>>
  /\ nodes_vector = <<>> /\ vector_1 = <<>> /\ vector_2 = <<>>
  /\ select_tree = ZeroFlags /\ select_match = ZeroFlags /\ select_blossom = ZeroFlags
  /\ pc = [t \in Thread |-> "stripe"]
  /\ todo = NoWork /\ local = NoWork /\ lap = NoWork
  /\ phase = first

-----------------------------------------------------------------------------
(***************************************************************************)
(* A thread in the loop over its share.                                    *)
(***************************************************************************)
Edge(t) == Head(todo[t])

Step(t, from, to) ==
  /\ pc[t] = from
  /\ pc' = [pc EXCEPT ![t] = to]

\* Go on with the edges `rest` of the share; "fetch" when there are none.
GoOn(t, rest) ==
  /\ todo' = [todo EXCEPT ![t] = rest]
  /\ pc' = [pc EXCEPT ![t] = IF rest = <<>> THEN "fetch" ELSE "scan"]

NextEdge(t) == GoOn(t, Tail(todo[t]))

\* The end of a thread: its local vector dies, having been appended to a
\* shared vector under the phase's mutex.
EndThread(t, at) ==
  /\ Step(t, at, "done")
  /\ local' = [local EXCEPT ![t] = <<>>]
  /\ UNCHANGED <<todo, lap>>

Joined == \A t \in Thread : pc[t] = "done"

\* The threads of a phase start, thread t with the edges work[t].
Spawn(work) ==
  /\ todo' = work
  /\ pc' = [t \in Thread |-> IF work[t] = <<>> THEN "fetch" ELSE "scan"]
  /\ local' = NoWork

-----------------------------------------------------------------------------
(***************************************************************************)
(* Reuse: repair the forest for the matching of this search.  M is frozen  *)
(* and a thread repairs only the nodes `mine`, so it is one step; the      *)
(* order of the steps is the order of the merges into the two vectors.     *)
(***************************************************************************)
\* Mutant: a tree is kept although its root is matched by now.
InSomeTree(x) == belongs[x] # NoNode

InValidTree(x) == belongs[x] # NoNode /\ M[belongs[x]] = NoNode

Repair(mine) ==
  LET exposed == {x \in mine : M[x] = NoNode}
      kept    == {x \in mine \ exposed : InValidTree(x)}
      reset   == mine \ (exposed \cup kept)
  IN  /\ is_even' = [x \in Node |-> CASE x \in exposed -> 1
                                      [] x \in reset   -> 0
                                      [] OTHER         -> is_even[x]]
      /\ belongs' = [x \in Node |-> CASE x \in exposed -> x
                                      [] x \in reset   -> NoNode
                                      [] OTHER         -> belongs[x]]
      /\ path_table' = [x \in Node |-> IF x \in exposed \cup reset THEN <<>>
                                       ELSE path_table[x]]
      /\ vector_1' = vector_1 \o Ascending(exposed)
      /\ vector_2' = vector_2 \o Ascending({x \in kept : is_even[x] = 1})

\* parReuseRemainingTrees: thread t has every NumThreads-th node.
Reuse(t) ==
  /\ Step(t, "stripe", "done")
  /\ Repair({x \in Node : x % NumThreads = t})
  /\ UNCHANGED <<adj, M, nodes_vector, flagVars, todo, local, lap, path_collection, phase>>

-----------------------------------------------------------------------------
(***************************************************************************)
(* Without reuse a search starts from the exposed nodes only: thread t     *)
(* scans its chunk of the nodes and merges what it found.                  *)
(***************************************************************************)
ScanChunk == (nodes + NumThreads - 1) \div NumThreads

ScanFirst(t) == t * ScanChunk
ScanEnd(t)   == IF ScanFirst(t) + ScanChunk < nodes THEN ScanFirst(t) + ScanChunk ELSE nodes

\* parFindExposedNode: reserve(end - start) throws when the chunk starts
\* behind the last node, and the exception ends the program.
FindExposed(t) ==
  LET found == {x \in ScanFirst(t) .. (ScanEnd(t) - 1) : M[x] = NoNode}
  IN  /\ Step(t, "stripe", IF ScanFirst(t) <= ScanEnd(t) THEN "done" ELSE "crashed")
      /\ nodes_vector' = nodes_vector \o Ascending(found)
      /\ UNCHANGED <<forestVars, vector_1, vector_2, flagVars, todo, local, lap,
                     path_collection, phase>>

\* Fresh arrays for the exposed nodes; the threads of parInitializeExposed
\* write disjoint ranges and are joined.
FreshForest ==
  /\ is_even' = [v \in Node |-> IF v \in Range(nodes_vector) THEN 1 ELSE 0]
  /\ belongs' = [v \in Node |-> IF v \in Range(nodes_vector) THEN v ELSE NoNode]
  /\ path_table' = [v \in Node |-> <<>>]

-----------------------------------------------------------------------------
(***************************************************************************)
(* Flip: thread t mates the nodes of every NumThreads-th path pairwise.    *)
(***************************************************************************)
Pairs(p) == [i \in 1..(Len(p) \div 2) |-> <<p[2 * i - 1], p[2 * i]>>]

PathsOf(t) ==
  [i \in DOMAIN path_collection |->
     IF (i - 1) % NumThreads = t THEN path_collection[i] ELSE <<>>]

FlipPair(t) ==
  /\ pc[t] = "flip" /\ todo[t] # <<>>
  /\ M' = [M EXCEPT ![Edge(t)[1]] = Edge(t)[2], ![Edge(t)[2]] = Edge(t)[1]]
  /\ todo' = [todo EXCEPT ![t] = Tail(@)]
  /\ UNCHANGED <<adj, is_even, belongs, path_table, frontierVars, flagVars,
                 pc, local, lap, path_collection, phase>>

FlipEnds(t) ==
  /\ todo[t] = <<>>
  /\ Step(t, "flip", "done")
  /\ UNCHANGED <<forestVars, frontierVars, flagVars, todo, local, lap, path_collection, phase>>

\* A search that found paths returns to the driver, which flips them.
StartFlip ==
  /\ phase' = "flip"
  /\ pc' = [t \in Thread |-> "flip"]
  /\ todo' = [t \in Thread |->
                FlattenSeq([i \in DOMAIN PathsOf(t) |-> Pairs(PathsOf(t)[i])])]
  /\ UNCHANGED <<frontierVars, local>>

MatesMutual == \A v \in Matched(M) : M[M[v]] = v

\* The paths are flipped: stop, or search again from `first` with fresh flags
\* and vectors.
JoinFlip(first) ==
  /\ phase = "flip" /\ Joined
  /\ path_collection' = <<>>
  /\ nodes_vector' = <<>> /\ vector_1' = <<>> /\ vector_2' = <<>>
  /\ select_tree' = ZeroFlags /\ select_match' = ZeroFlags /\ select_blossom' = ZeroFlags
  /\ IF ~MatesMutual \/ Cardinality(Matched(M)) \div 2 >= Threshold
     THEN phase' = "finished" /\ UNCHANGED pc
     ELSE phase' = first /\ pc' = [t \in Thread |-> "stripe"]
  /\ UNCHANGED <<forestVars, todo, local, lap>>

\* Mutant: the nodes that blossoms made even are not expanded.
OnlyVector1 == vector_1

Frontier == vector_1 \o vector_2

-----------------------------------------------------------------------------
TypeOK ==
  /\ ForestTypeOK
  /\ nodes_vector \in Seq(Node) /\ vector_1 \in Seq(Node) /\ vector_2 \in Seq(Node)
  /\ select_tree \in [Node -> {0, 1}]
  /\ select_match \in [Node -> {0, 1}]
  /\ select_blossom \in [Node -> {0, 1}]
  /\ path_collection \in Seq(Seq(Node))
  /\ pc \in [Thread -> {"stripe", "fetch", "scan", "merge", "done", "second",
                        "release", "claim", "grow", "own", "mate", "visit",
                        "fill", "undo", "even", "flip", "crashed"}]
  /\ todo \in [Thread -> Seq(Node \X Node)]
  /\ local \in [Thread -> Seq(Node)]
  /\ lap \in [Thread -> Seq(Node \X Seq(Node))]
  /\ phase \in SearchPhases \cup {"exposed", "reuse", "flip", "finished"}

(***************************************************************************)
(* Every even node of a tree has a legal walk to its root at every point   *)
(* of a search, also while other threads expand and shrink around it, and  *)
(* also in the trees kept from the last search.                            *)
(***************************************************************************)
ForestStaysLegal == phase \in SearchPhases => LegalForest

(***************************************************************************)
(* The paths found by all threads of a search share no node, so that       *)
(* parNewMatchingVector may flip them in parallel without a lock.          *)
(***************************************************************************)
Found == path_collection \o
         (IF phase = "augment" THEN [t \in 1..NumThreads |-> local[t - 1]] ELSE <<>>)

PathsDisjoint == IsInjective(FlattenSeq(Found))

(***************************************************************************)
(* When a phase of a search is over, a tree is closed under the matching:  *)
(* the mate of a tree node is in the same tree.  Dropping a tree in reuse  *)
(* by the state of its root relies on it.                                  *)
(***************************************************************************)
TreesClosed ==
  (phase \in SearchPhases /\ Joined) =>
    \A v \in Matched(M) : belongs[M[v]] = belongs[v]

(***************************************************************************)
(* The frontier handed from phase to phase through vector_1 and vector_2   *)
(* holds every node at most once, and only even nodes of a tree.           *)
(***************************************************************************)
FrontierSound ==
  phase \in SearchPhases =>
    /\ IsInjective(nodes_vector)
    /\ \A v \in Range(nodes_vector) : is_even[v] = 1 /\ belongs[v] # NoNode

(***************************************************************************)
(* The engine stops only when the matching is maximum, or at least as      *)
(* large as the caller asked for.                                          *)
(***************************************************************************)
FinishedMaximum ==
  phase = "finished" =>
    \/ IsMaximumMatching(adj, M)
    \/ Cardinality(Matched(M)) \div 2 >= Threshold

(***************************************************************************)
(* A search that ends without a path has looked at every edge out of its   *)
(* trees: no frontier node is lost between nodes_vector, vector_1 and      *)
(* vector_2, so no even node still has a neighbour in no tree.             *)
(***************************************************************************)
NoEdgeLeft ==
  (phase = "finished" /\ Cardinality(Matched(M)) \div 2 < Threshold) =>
    \A v \in Node : (is_even[v] = 1 /\ belongs[v] # NoNode) =>
      \A w \in Range(adj[v]) : belongs[w] # NoNode

(***************************************************************************)
(* What the engine returns is a matching of the graph.                     *)
(***************************************************************************)
ReturnsMatching == phase = "finished" => IsMatching(adj, M)

KeepsEntries ==
  \A v \in Node : (is_even[v] = 1 /\ belongs[v] # NoNode) =>
    /\ is_even'[v] = 1
    /\ belongs'[v] = belongs[v]
    /\ path_table'[v] = path_table[v]

(***************************************************************************)
(* Within a search a node that became even stays even, in its tree and     *)
(* with its entry: what find_path_vector and findBlossom read without a    *)
(* lock does not change under them.                                        *)
(***************************************************************************)
EvenEntriesFrozen == [][(phase \in SearchPhases) => KeepsEntries]_searchVars

(***************************************************************************)
(* Seen from outside, every search turns the matching into a larger one    *)
(* that keeps all matched nodes matched: the flips of a search count as    *)
(* done when its paths are found.                                          *)
(***************************************************************************)
Growth == INSTANCE MatchingGrowth WITH
            M <- IF phase = "flip" THEN FlipPath(M, FlattenSeq(path_collection)) ELSE M

GrowsMatching == Growth!Spec

(***************************************************************************)
(* The engine returns, however its threads are scheduled.                  *)
(***************************************************************************)
Terminates == <>(phase = "finished")
=============================================================================
