-------------------------- MODULE SearchInvariants --------------------------
(***************************************************************************)
(* Why the node-sharing engines are right: what holds in every state of a  *)
(* search, phase by phase.  The first group (Basic) needs no assumption.   *)
(* The second (Sound) says how the forest, the frontier, the locks, the    *)
(* found paths and the matching fit together; it is inductive as long as   *)
(* the blossom phase leaves every walk legal.  The third says that a       *)
(* search that ends without a path has left nothing out.                   *)
(***************************************************************************)
EXTENDS AugmentBody, ExpandBody, BlossomBody

Owning  == {"grow", "own", "mate"}       \* a thread that has won a pair
Filling == {"fill", "undo", "even"}      \* a thread that has won an odd node
Holding == {"second", "release"}         \* a thread that has won the tree of v
Busy    == {"scan", "claim", "visit"} \cup Owning \cup Filling \cup Holding

AugmentPoints == {"fetch", "scan", "merge", "done"} \cup Holding
ExpandPoints  == {"fetch", "scan", "claim", "merge", "done"} \cup Owning
BlossomPoints == {"fetch", "scan", "visit", "claim", "crashed", "merge", "done"} \cup Filling

\* Where the threads of a phase are; one that works on an edge, or on a node
\* of a blossom, has one.
ThreadsPlaced ==
  \A t \in Thread :
    /\ phase = "exposed" => pc[t] \in {"stripe", "done", "crashed"}
    /\ phase = "reuse" => pc[t] \in {"stripe", "done"}
    /\ phase = "augment" => pc[t] \in AugmentPoints
    /\ phase = "expand" => pc[t] \in ExpandPoints
    /\ phase = "blossom" => pc[t] \in BlossomPoints
    /\ phase = "flip" => pc[t] \in {"flip", "done"}
    /\ pc[t] \in Busy => todo[t] # <<>>
    /\ phase = "blossom" /\ pc[t] \in {"claim"} \cup Filling => lap[t] # <<>>
    /\ phase = "flip" /\ pc[t] = "done" => todo[t] = <<>>

\* Only flips touch the matching.
MatesKept == phase \notin {"flip", "finished"} => MatesMutual

\* Repair is done with x.
Repaired(x) ==
  \/ phase \in SearchPhases
  \/ phase = "reuse" /\ pc[x % NumThreads] = "done"

\* No exposed node is left without a tree.
ExposedInTrees == \A x \in Node : M[x] = NoNode /\ Repaired(x) => belongs[x] # NoNode

\* In expansion a claimed pair has one owner.
PairOwners ==
  phase = "expand" =>
    /\ \A t \in Thread : pc[t] \in {"claim"} \cup Owning => M[Edge(t)[2]] # NoNode
    /\ \A t \in Thread : pc[t] \in Owning => select_match[MatchSlot(t)] = 1
    /\ \A t, u \in Thread :
         t # u /\ pc[t] \in Owning /\ pc[u] \in Owning => MatchSlot(t) # MatchSlot(u)

\* In the blossom phase a claimed node has one owner, and is odd until he is done.
NodeOwners ==
  phase = "blossom" =>
    /\ \A t \in Thread : pc[t] = "claim" =>
         select_blossom[Current(t)] = 1 \/ is_even[Current(t)] = 0
    /\ \A t \in Thread : pc[t] \in Filling =>
         select_blossom[Current(t)] = 1 /\ is_even[Current(t)] = 0
    /\ \A t, u \in Thread :
         t # u /\ pc[t] \in Filling /\ pc[u] \in Filling => Current(t) # Current(u)

\* Entries are never a single node, so a walk is complete after MaxHops rounds.
EntriesNeverOne ==
  /\ \A x \in Node : Len(path_table[x]) # 1
  /\ \A t \in Thread : \A l \in Range(lap[t]) : Len(l[2]) \notin {0, 1}

Basic ==
  /\ TypeOK
  /\ ThreadsPlaced
  /\ MatesKept
  /\ ExposedInTrees
  /\ PairOwners
  /\ NodeOwners
  /\ EntriesNeverOne

-----------------------------------------------------------------------------
(***************************************************************************)
(* The steps of the phases as the engines take them: what a phase leaves   *)
(* alone, and a share of the frontier's edges, however it is shared out.   *)
(***************************************************************************)
IsShare(s, frontier, live) ==
  /\ s \in Seq(Node \X Node)
  /\ \A e \in Range(s) :
       e \in live /\ e[1] \in Range(frontier) /\ IsAdjacent(adj, e[1], e[2])

\* A thread takes a share, or leaves its loop.
TakesShare(t, live) ==
  /\ pc[t] = "fetch"
  /\ \E s \in Seq(Node \X Node) : IsShare(s, nodes_vector, live) /\ GoOn(t, s)
  /\ UNCHANGED <<forestVars, frontierVars, flagVars, local, lap, path_collection, phase>>

Leaves(t) ==
  /\ Step(t, "fetch", "merge")
  /\ UNCHANGED <<forestVars, frontierVars, flagVars, todo, local, lap, path_collection, phase>>

Augments(t) ==
  /\ AugmentStep(t) \/ \E at \in {"merge", "fetch"} : AugmentMerge(t, at)
  /\ UNCHANGED <<forestVars, frontierVars, select_match, select_blossom, phase>>

Expands(t) ==
  /\ ExpandStep(t) \/ \E at \in {"merge", "fetch"} : ExpandMerge(t, at)
  /\ UNCHANGED <<adj, M, nodes_vector, vector_2, select_tree, select_blossom,
                 path_collection, phase>>

Shrinks(t) ==
  /\ \/ /\ RoundBlossom(t) \/ FindBlossom(t) \/ FindCycle(t) \/ FillChecked(t)
           \/ DropEntry(t)
        /\ UNCHANGED vector_2
     \/ \E at \in {"merge", "fetch"} : BlossomMerge(t, at)
  /\ UNCHANGED <<adj, M, belongs, nodes_vector, vector_1, select_tree, select_match,
                 path_collection, phase>>

-----------------------------------------------------------------------------
Slot(w) == IF w < M[w] THEN w ELSE M[w]

\* The pairs that are half way into a tree.
Growing ==
  UNION {{Edge(t)[2], Mate(t)} : t \in {u \in Thread : phase = "expand" /\ pc[u] \in Owning}}

GraphKept ==
  /\ IsUndirected(adj)
  /\ phase # "flip" => IsMatching(adj, M) /\ \A x \in Node : M[x] # x

\* The trees of a search.
TreesSound ==
  phase \in SearchPhases =>
    /\ \A x \in Node : M[x] = NoNode => IsRoot(x)
    /\ \A x \in Node : belongs[x] # NoNode => M[belongs[x]] = NoNode
    /\ \A x \in Node : belongs[x] = NoNode /\ x \notin Growing =>
         Unreached(x) /\ select_match[Slot(x)] = 0
    /\ \A x \in Matched(M) : x \notin Growing => belongs[M[x]] = belongs[x]

\* The flags nobody has set yet.
FlagsFresh ==
  /\ phase \in {"exposed", "reuse"} => select_tree = ZeroFlags /\ select_match = ZeroFlags
  /\ phase \in {"expand", "blossom"} => select_tree = ZeroFlags
  /\ phase \notin {"augment", "flip"} => path_collection = <<>>

\* The nodes collected for the next frontiers: even, each once.
Collected ==
  phase \in SearchPhases =>
    /\ \A x \in Range(nodes_vector) \cup Range(vector_1) \cup Range(vector_2) : EvenNode(x)
    /\ IsInjective(nodes_vector) /\ IsInjective(vector_1) /\ IsInjective(vector_2)
    /\ Range(vector_1) \cap Range(vector_2) = {}

Pending ==
  phase \in {"expand", "blossom"} =>
    /\ \A t \in Thread :
         /\ IsInjective(local[t])
         /\ \A x \in Range(local[t]) :
              EvenNode(x) /\ x \notin Range(vector_1) /\ x \notin Range(vector_2)
    /\ \A t, u \in Thread : t # u => Range(local[t]) \cap Range(local[u]) = {}

\* The edges of a share leave even nodes, and lie in the graph.
SharesSound ==
  phase \in SearchPhases =>
    \A t \in Thread : \A e \in Range(todo[t]) :
      /\ EvenNode(e[1]) /\ IsAdjacent(adj, e[1], e[2])
      /\ phase = "augment" => IsBridge(e[1], e[2])
      /\ phase = "blossom" => belongs[e[2]] = belongs[e[1]]

-----------------------------------------------------------------------------
\* A path to flip, or several in a row: mates pairwise adjacent nodes, and
\* with a node holds the root of its tree.
FlipsWell(p) ==
  /\ IsInjective(p)
  /\ Len(p) % 2 = 0
  /\ \A k \in 1 .. (Len(p) \div 2) :
       IsAdjacent(adj, p[2 * k - 1], p[2 * k]) /\ IsAdjacent(adj, p[2 * k], p[2 * k - 1])
  /\ \A x \in Range(p) : belongs[x] \in Range(p)

\* And with a node its mate.
ClosedPath(p) == \A x \in Range(p) : M[x] = NoNode \/ M[x] \in Range(p)

OnCollected(x) == \E i \in DOMAIN path_collection : x \in Range(path_collection[i])
OnLocal(x)     == \E t \in Thread : x \in Range(local[t])

CollectionSound ==
  /\ \A i \in DOMAIN path_collection :
       FlipsWell(path_collection[i]) /\ path_collection[i] # <<>>
  /\ \A i, j \in DOMAIN path_collection :
       i # j => Range(path_collection[i]) \cap Range(path_collection[j]) = {}

\* The found paths and the tree locks of a search.
PathsSound ==
  phase = "augment" =>
    /\ CollectionSound
    /\ \A i \in DOMAIN path_collection : ClosedPath(path_collection[i])
    /\ \A t \in Thread : FlipsWell(local[t]) /\ ClosedPath(local[t])
    /\ \A t \in Thread : pc[t] = "done" => local[t] = <<>>
    /\ \A t \in Thread : \A x \in Range(local[t]) : ~OnCollected(x)
    /\ \A t, u \in Thread : t # u => Range(local[t]) \cap Range(local[u]) = {}

LocksSound ==
  phase = "augment" =>
    /\ \A x \in Node : OnCollected(x) \/ OnLocal(x) => select_tree[belongs[x]] = 1
    /\ \A t \in Thread : pc[t] \in Holding =>
         select_tree[TreeV(t)] = 1 /\ ~OnCollected(TreeV(t)) /\ ~OnLocal(TreeV(t))
    /\ \A t, u \in Thread : t # u /\ pc[t] \in Holding /\ pc[u] \in Holding =>
         TreeV(t) # TreeV(u)
    /\ \A r \in Node : select_tree[r] = 1 =>
         /\ belongs[r] = r
         /\ \/ OnCollected(r) \/ OnLocal(r)
            \/ \E t \in Thread : pc[t] \in Holding /\ TreeV(t) = r

\* A thread that grows a pair alone knows the state of it.
GrowthSound ==
  phase = "expand" =>
    \A t \in Thread :
      LET v == Edge(t)[1]  w == Edge(t)[2]  x == Mate(t)
      IN  /\ pc[t] = "claim" => belongs[w] = NoNode \/ select_match[Slot(w)] = 1
          /\ pc[t] = "grow" => Unreached(w) /\ Unreached(x)
          /\ pc[t] \in {"own", "mate"} =>
               /\ is_even[w] = 0 /\ is_even[x] = 1
               /\ path_table[x] = <<w, v>>
               /\ belongs[x] = NoNode
               /\ belongs[w] = IF pc[t] = "own" THEN NoNode ELSE belongs[v]

\* The nodes of a blossom are in a tree, and no thread keeps some for later.
LapsInTrees ==
  \A t \in Thread :
    /\ phase # "blossom" \/ pc[t] \notin {"visit", "claim"} \cup Filling => lap[t] = <<>>
    /\ \A l \in Range(lap[t]) : belongs[l[1]] # NoNode

-----------------------------------------------------------------------------
\* a and b are to be mates.
Joins(a, b) ==
  \E i \in DOMAIN path_collection : \E k \in 1 .. (Len(path_collection[i]) \div 2) :
    a = path_collection[i][2 * k - 1] /\ b = path_collection[i][2 * k]

\* While paths are flipped: every pair of a path is mated or in a thread's
\* share, and the trees without a path on them are as they were.
FlipSound ==
  phase = "flip" =>
    /\ CollectionSound
    /\ \A a, b \in Node : Joins(a, b) =>
         \/ M[a] = b /\ M[b] = a
         \/ \E t \in Thread : <<a, b>> \in Range(todo[t])
    /\ \A t \in Thread : \A e \in Range(todo[t]) : Joins(e[1], e[2])
    /\ \A x \in Node : ~OnCollected(x) =>
         /\ M[x] = NoNode => IsRoot(x)
         /\ M[x] # NoNode => /\ M[x] # x /\ M[M[x]] = x /\ IsAdjacent(adj, x, M[x])
                             /\ ~OnCollected(M[x]) /\ belongs[M[x]] = belongs[x]
         /\ EvenNode(x) /\ ~OnCollected(belongs[x]) => EvenWalkLegal(x)

\* While the forest is repaired: a tree whose root is exposed is whole and
\* legal, in the parts that are repaired as in those that are not.
RepairSound ==
  phase = "reuse" =>
    /\ \A x \in Node : M[x] = NoNode =>
         IsRoot(x) \/ (belongs[x] = NoNode /\ ~Repaired(x))
    /\ \A x \in Matched(M) : InValidTree(x) => belongs[M[x]] = belongs[x]
    /\ \A x \in Node : is_even[x] = 1 /\ InValidTree(x) => EvenWalkLegal(x)
    /\ \A x \in Node : Repaired(x) => InValidTree(x) \/ Unreached(x)
    /\ IsInjective(vector_1) /\ IsInjective(vector_2)
    /\ \A x \in Range(vector_1) : M[x] = NoNode /\ Repaired(x)
    /\ \A x \in Range(vector_2) :
         M[x] # NoNode /\ Repaired(x) /\ InValidTree(x) /\ is_even[x] = 1

Sound ==
  /\ GraphKept
  /\ TreesSound
  /\ phase \in {"augment", "expand"} => LegalForest
  /\ FlagsFresh
  /\ Collected
  /\ Pending
  /\ SharesSound
  /\ PathsSound
  /\ LocksSound
  /\ GrowthSound
  /\ LapsInTrees
  /\ FlipSound
  /\ RepairSound
-----------------------------------------------------------------------------
(***************************************************************************)
(* The third group (Covered, Idle): no edge is lost between nodes_vector,  *)
(* vector_1 and vector_2.  A node is `untaken` while it is in the frontier *)
(* and no thread has its row.                                              *)
(***************************************************************************)
Handed    == Range(vector_1) \cup Range(vector_2)
InHand(x) == \E t \in Thread : x \in Range(local[t])

Ahead(v, w, untaken) ==
  v \in untaken \/ \E t \in Thread : <<v, w>> \in Range(todo[t])

\* An edge from an even node to a node in no tree; one between two trees.
Waiting(v, w)  == EvenNode(v) /\ w \in Range(adj[v]) /\ belongs[w] = NoNode
Bridging(v, w) == EvenNode(v) /\ w \in Range(adj[v]) /\ IsBridge(v, w)

PathFound == path_collection # <<>> \/ \E t \in Thread : local[t] # <<>>

\* One thread alone finds a path if there is a bridge: only a path of its own
\* makes it drop one.
BridgesAhead(untaken) ==
  \/ PathFound
  \/ /\ \A t \in Thread : pc[t] # "release"
     /\ \A v, w \in Node : Bridging(v, w) => Ahead(v, w, untaken) \/ Ahead(w, v, untaken)

\* An even node with an edge to grow along is in the frontier that comes next,
\* or the edge is ahead of a thread, or another one grows its pair.
EdgesAhead(untaken) ==
  \A v, w \in Node : Waiting(v, w) =>
    v \in Range(vector_1) \/ InHand(v) \/ w \in Growing \/ Ahead(v, w, untaken)

\* A bridge comes with a node that has just become even.
BridgesNew(fresh) ==
  \A v, w \in Node : Bridging(v, w) => \E x \in {v, w} : x \in fresh \/ InHand(x)

BelowThreshold == Cardinality(Matched(M)) \div 2 < Threshold

Covered(untaken) ==
  /\ phase = "reuse" => \A x \in Node : Repaired(x) /\ EvenNode(x) => x \in Handed
  /\ phase = "augment" =>
       /\ \A v, w \in Node : Waiting(v, w) => v \in Range(nodes_vector)
       /\ NumThreads = 1 => BridgesAhead(untaken)
  /\ phase = "expand" =>
       /\ EdgesAhead(untaken)
       /\ NumThreads = 1 => BridgesNew(Range(vector_1))
  /\ phase = "blossom" =>
       /\ \A v, w \in Node : Waiting(v, w) => v \in Handed \/ InHand(v)
       /\ NumThreads = 1 => BridgesNew(Handed)
  /\ phase = "finished" /\ BelowThreshold =>
       \A v, w \in Node : ~Waiting(v, w) /\ (NumThreads = 1 => ~Bridging(v, w))

\* A thread leaves its loop with its share done, and ends with nothing in hand.
Idle ==
  phase \in SearchPhases =>
    \A t \in Thread :
      /\ pc[t] \in {"fetch", "merge", "done"} => todo[t] = <<>>
      /\ pc[t] = "done" => local[t] = <<>>
=============================================================================
