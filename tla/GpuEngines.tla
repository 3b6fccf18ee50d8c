----------------------------- MODULE GpuEngines -----------------------------
(***************************************************************************)
(* The GPU engines: engines 9 to 12, the same without reuse (NR), with a   *)
(* tasklet per node (PerNode), and with the finer of the two only above a  *)
(* threshold (Hybrid, Hybrid2).  The host runs one kernel after the other; *)
(* a kernel is a set of tasklets, taken in any order, up to NumThreads of  *)
(* them in flight.  Tasklets meet only in device memory, through           *)
(* atomicExch locks (atomicCAS in engine 9); found paths are flipped on    *)
(* the spot.                                                               *)
(*                                                                         *)
(* belongs is tree_roots_; path_table[v] the nodes that offset_length_[v]  *)
(* points to in paths_ (a slice nobody else reserves).  A tasklet that     *)
(* finds its edges ruled out for good is left out of the kernel.           *)
(***************************************************************************)
EXTENDS Blossoms, ENodeQueue

CONSTANTS
  Starts,           \* the graphs: [adj, M], M the matching handed over
  Engines,          \* the engines looked at
  BalanceThreshold  \* LOAD_BALANCING_THRESHOLD_ (500 and 50)

\* The loader builds undirected graphs, and the augment kernel leaves a matching.
ASSUME StartsAssumption ==
  \A s \in Starts : /\ IsUndirected(s.adj)
                    /\ s.M \in [Node -> Node \cup {NoNode}]
                    /\ IsMatching(s.adj, s.M)
                    /\ \A v \in Node : s.M[v] # v

VARIABLES
  engine,                   \* which of the engines runs
  root_distance,            \* root_distance[v]: the length of v's walk
  queue,                    \* enode_queue_
  atomic_locks_tree,        \* one lock per root
  atomic_locks_match,       \* one lock per matched pair, at its smaller node
  atomic_locks_odd_nodes,   \* one lock per node
  found,                    \* dev_found_, and found_ copied from it
  exhausted,                \* exhausted_
  phase,                    \* where the host is
  edge_prefix_cache,        \* col_indices_presum_, and what it was made from
  todo,                     \* the tasklets of the kernel not yet taken
  running                   \* those in flight: where they are (at), what is
                            \* left of their work and of the pairs to mate

lockVars == <<atomic_locks_tree, atomic_locks_match, atomic_locks_odd_nodes>>
hostVars == <<engine, exhausted, phase, edge_prefix_cache>>
kernelVars == <<todo, running>>
vars == <<forestVars, root_distance, queue, lockVars, found, hostVars, kernelVars>>

Engine10 == [reuse |-> TRUE,  level |-> "edges", cached |-> TRUE]
Engine12 == [reuse |-> TRUE,  level |-> "edges", cached |-> FALSE]
NR       == [reuse |-> FALSE, level |-> "edges", cached |-> FALSE]
PerNode  == [reuse |-> TRUE,  level |-> "nodes", cached |-> FALSE]
Hybrid   == [reuse |-> TRUE,  level |-> "pairs", cached |-> FALSE]
Hybrid2  == [reuse |-> TRUE,  level |-> "evens", cached |-> FALSE]

\* Engine 9 locks by atomicCAS and stores an expansion in another order, engine
\* 11 sorts the frontier before each kernel: the same steps.
Engine9  == Engine12
Engine11 == Engine12

ASSUME EnginesAssumption ==
  Engines \subseteq {Engine10, Engine12, NR, PerNode, Hybrid, Hybrid2}

Kernels == {"augment", "expand", "transform"}

Zeros == [v \in Node |-> 0]

\* A new engine: device vectors are zero, tree_roots_ too.  A start with a
\* matching is what the augment kernel of a first search leaves: every node
\* is its own tree, and the next search begins.
Init ==
  /\ engine \in Engines
  /\ \E s \in Starts : adj = s.adj /\ M = s.M
  /\ found = (Matched(M) # {})
  /\ is_even = [v \in Node |-> IF found THEN 1 ELSE 0]
  /\ belongs = [v \in Node |-> IF found THEN v ELSE 0]
  /\ root_distance = Zeros /\ path_table = [v \in Node |-> <<>>]
  /\ queue = Clear(nodes)
  /\ atomic_locks_tree = Zeros /\ atomic_locks_match = Zeros
  /\ atomic_locks_odd_nodes = Zeros
  /\ exhausted = FALSE
  /\ phase = "init"
  /\ edge_prefix_cache = [valid |-> FALSE, begin |-> 0, size |-> 0, presum |-> <<0>>]
  /\ todo = {} /\ running = {}

-----------------------------------------------------------------------------
(***************************************************************************)
(* The search starts: repair the forest.  Both kernels have a tasklet per  *)
(* node that touches no other node; the order in which they append is      *)
(* left out, as every kernel takes the frontier in any order.              *)
(***************************************************************************)
InvalidateEdgePrefixCache(cache) == [cache EXCEPT !.valid = FALSE]

InValidTree(x) == belongs[x] # NoNode /\ M[belongs[x]] = NoNode

InitAlternatingForest ==
  LET exposed == {x \in Node : M[x] = NoNode}
      kept    == {x \in Node \ exposed : engine.reuse /\ InValidTree(x)}
      reset   == Node \ kept
      window1 == AppendENodes1(PrepareForAppendingENode1(Clear(nodes)), exposed)
  IN  /\ phase = "init"
      /\ phase' = "loop"
      /\ edge_prefix_cache' = InvalidateEdgePrefixCache(edge_prefix_cache)
      /\ is_even' = [x \in Node |-> IF x \in kept THEN is_even[x]
                                ELSE IF x \in exposed THEN 1 ELSE 0]
      /\ belongs' = [x \in Node |-> IF x \in kept THEN belongs[x]
                                ELSE IF x \in exposed THEN x ELSE NoNode]
      /\ path_table' = [x \in Node |-> IF x \in reset THEN <<>> ELSE path_table[x]]
      /\ root_distance' = [x \in Node |-> IF x \in reset THEN 0 ELSE root_distance[x]]
      /\ queue' = AppendENodes2(PrepareForAppendingENode2(window1),
                                {x \in kept : is_even[x] = 1})
      /\ atomic_locks_tree' = Zeros /\ atomic_locks_match' = Zeros
      /\ atomic_locks_odd_nodes' = Zeros
      /\ found' = FALSE
      /\ UNCHANGED <<adj, M, engine, exhausted, kernelVars>>

-----------------------------------------------------------------------------
(***************************************************************************)
(* How a kernel gets its tasklets.                                         *)
(***************************************************************************)
Rows(frontier) == [i \in DOMAIN frontier |-> Row(adj, frontier[i])]

\* ExclusiveScan over the degrees: how many edges come before each row.
ExclusiveScan(frontier) ==
  [i \in 1..(Len(frontier) + 1) |-> Len(FlattenSeq(SubSeq(Rows(frontier), 1, i - 1)))]

\* Mutant: the scan is looked up by its size alone.
LookUpBySize(cache, q) ==
  IF engine.level = "nodes" \/ (engine.cached /\ cache.size = Size(q))
  THEN cache
  ELSE [valid |-> engine.cached, begin |-> Begin(q), size |-> Size(q),
        presum |-> ExclusiveScan(Frontier(q))]

\* Engine 10 keeps the scan for as long as the windows seem to stand still, the
\* others scan before every kernel.
PrepareEdgePrefix(cache, q) ==
  IF engine.level = "nodes" \/ (cache.valid /\ cache.begin = Begin(q) /\ cache.size = Size(q))
  THEN cache
  ELSE [valid |-> engine.cached, begin |-> Begin(q), size |-> Size(q),
        presum |-> ExclusiveScan(Frontier(q))]

\* FindRightmostLTEQ: the last of n rows that starts at edge tid or before.
FindRightmostLTEQ(presum, n, tid) ==
  LET narrow[span \in (0..(n - 1)) \X (0..(n - 1))] ==
        LET left == span[1]  right == span[2]  mid == (left + right) \div 2
        IN  IF left = right THEN left
            ELSE narrow[IF presum[mid + 2] <= tid THEN <<mid + 1, right>> ELSE <<left, mid>>]
  IN  narrow[<<0, n - 1>>]

\* cub::UpperBound: how many of the sums are at most tid.
UpperBound(presum, tid) == Cardinality({i \in DOMAIN presum : presum[i] <= tid})

\* The edge of tasklet tid: its row, and its place in the row.
EdgeOf(q, presum, tid) ==
  LET v_idx == IF engine.cached THEN UpperBound(presum, tid) - 1
               ELSE FindRightmostLTEQ(presum, Size(q), tid)
  IN  Rows(Frontier(q))[v_idx + 1][tid - presum[v_idx + 1] + 1]

EdgesOf(q, presum) == [n \in 1..Last(presum) |-> EdgeOf(q, presum, n - 1)]

\* Whether a kernel has a tasklet per edge, rather than per node.
ByEdge(q, presum) ==
  CASE engine.level = "edges" -> TRUE
    [] engine.level = "nodes" -> FALSE
    [] engine.level = "pairs" -> Last(presum) > BalanceThreshold
    [] engine.level = "evens" -> Size(q) > BalanceThreshold

\* The tasklets on the frontier of q, each with its edges that are live.
Tasklets(q, presum, live) ==
  (IF ByEdge(q, presum)
   THEN {<<e>> : e \in ToSet(EdgesOf(q, presum)) \cap live}
   ELSE {Among(Row(adj, v), live) : v \in ToSet(Frontier(q))})
  \ {<<>>}

Launch(kernel, tasklets) ==
  /\ phase' = kernel
  /\ todo' = tasklets
  /\ UNCHANGED running

KernelDone == todo = {} /\ running = {}

Tasklet(at, work, flips) == [at |-> at, work |-> work, flips |-> flips]

\* The tasklets about to look at their next edge, or to start.
Ready ==
  {t \in running : t.at = "scan"} \cup
  (IF Cardinality(running) < NumThreads
   THEN {Tasklet("scan", work, <<>>) : work \in todo}
   ELSE {})

At(place) == {t \in running : t.at = place}

\* A step of tasklet t, of which T = {t'} or nothing is left.
Turn(t, T) ==
  /\ todo' = todo \ {t.work}
  /\ running' = (running \ {t}) \cup T

Goto(t, place) == {Tasklet(place, t.work, t.flips)}

Edge(t) == Head(t.work)

\* On to the next edge of the tasklet.
NextEdge(t) ==
  IF Tail(t.work) = <<>> THEN {} ELSE {Tasklet("scan", Tail(t.work), <<>>)}

-----------------------------------------------------------------------------
(***************************************************************************)
(* FindAndFlipAugmentingPathInAlternatingForest: a bridge claims its two   *)
(* trees, the smaller root first, and its path is flipped at once.  The    *)
(* kernel writes no tree_roots_, is_even_ or path table.                   *)
(***************************************************************************)
Bridges == {e \in Node \X Node : IsBridge(e[1], e[2])}

First(e)  == IF belongs[e[1]] < belongs[e[2]] THEN belongs[e[1]] ELSE belongs[e[2]]
Second(e) == IF belongs[e[1]] < belongs[e[2]] THEN belongs[e[2]] ELSE belongs[e[1]]

LockFirst ==
  \E t \in Ready :
    /\ Edge(t) \in Bridges
    /\ Turn(t, IF atomic_locks_tree[First(Edge(t))] = 0 THEN Goto(t, "second") ELSE {})
    /\ atomic_locks_tree' = [atomic_locks_tree EXCEPT ![First(Edge(t))] = 1]
    /\ UNCHANGED <<M, found>>

\* The pairs AddAugmentingPath mates: the bridge, then both walks.
PairUp(p) == [i \in 1..(Len(p) \div 2) |-> <<p[2 * i], p[2 * i + 1]>>]

FlipsFor(e) ==
  <<e>> \o PairUp(Walk(path_table, e[1])) \o PairUp(Walk(path_table, e[2]))

Flipping(t) == {Tasklet("flip", t.work, FlipsFor(Edge(t)))}

\* Mutant: the second lock is not looked at.
TakeSecond ==
  \E t \in At("second") :
    /\ Turn(t, Flipping(t))
    /\ atomic_locks_tree' = [atomic_locks_tree EXCEPT ![Second(Edge(t))] = 1]
    /\ UNCHANGED <<M, found>>

LockSecond ==
  \E t \in At("second") :
    /\ Turn(t, IF atomic_locks_tree[Second(Edge(t))] = 0
               THEN Flipping(t) ELSE Goto(t, "release"))
    /\ atomic_locks_tree' = [atomic_locks_tree EXCEPT ![Second(Edge(t))] = 1]
    /\ UNCHANGED <<M, found>>

\* Mutant: the first tree stays locked.
KeepFirst ==
  \E t \in At("release") :
    /\ Turn(t, {})
    /\ UNCHANGED <<M, atomic_locks_tree, found>>

\* The lock is given back by a plain store, and the tasklet returns.
ReleaseFirst ==
  \E t \in At("release") :
    /\ Turn(t, {})
    /\ atomic_locks_tree' = [atomic_locks_tree EXCEPT ![First(Edge(t))] = 0]
    /\ UNCHANGED <<M, found>>

\* After the last pair the tasklet sets dev_found_.
FlipPair ==
  \E t \in At("flip") :
    LET pair == Head(t.flips)  last == Len(t.flips) = 1
    IN  /\ M' = [M EXCEPT ![pair[1]] = pair[2], ![pair[2]] = pair[1]]
        /\ found' = (found \/ last)
        /\ Turn(t, IF last THEN NextEdge(t) ELSE {Tasklet("flip", t.work, Tail(t.flips))})
        /\ UNCHANGED atomic_locks_tree

AugmentTasklet ==
  /\ phase = "augment"
  /\ LockFirst \/ LockSecond \/ ReleaseFirst \/ FlipPair
  /\ UNCHANGED <<adj, is_even, belongs, path_table, root_distance, queue,
                 atomic_locks_match, atomic_locks_odd_nodes, hostVars>>

-----------------------------------------------------------------------------
(***************************************************************************)
(* ExpandAlternatingForest: an edge into no tree takes the matched pair    *)
(* behind it, if it is the first to lock the pair.                         *)
(***************************************************************************)
Outward == {e \in Node \X Node : belongs[e[2]] = NoNode}

Pair(e) == IF e[2] < M[e[2]] THEN e[2] ELSE M[e[2]]

SeeFree ==
  \E t \in Ready :
    /\ Turn(t, IF Edge(t) \in Outward THEN Goto(t, "claim") ELSE NextEdge(t))
    /\ UNCHANGED <<is_even, belongs, path_table, root_distance, queue,
                   atomic_locks_match>>

\* Mutant: the pair is taken whoever holds its lock.
ClaimAnyway ==
  \E t \in At("claim") :
    /\ Turn(t, Goto(t, "grow"))
    /\ atomic_locks_match' = [atomic_locks_match EXCEPT ![Pair(Edge(t))] = 1]
    /\ UNCHANGED <<is_even, belongs, path_table, root_distance, queue>>

ClaimPair ==
  \E t \in At("claim") :
    /\ Turn(t, IF atomic_locks_match[Pair(Edge(t))] = 0 THEN Goto(t, "grow") ELSE NextEdge(t))
    /\ atomic_locks_match' = [atomic_locks_match EXCEPT ![Pair(Edge(t))] = 1]
    /\ UNCHANGED <<is_even, belongs, path_table, root_distance, queue>>

\* Only belongs is read by other tasklets, and only to skip the pair: the
\* stores and ExpandTwoNodes are one step.
Grow ==
  \E t \in At("grow") :
    LET v == Edge(t)[1]  w == Edge(t)[2]  x == M[w]
    IN  /\ is_even' = [is_even EXCEPT ![w] = 0, ![x] = 1]
        /\ belongs' = [belongs EXCEPT ![w] = belongs[v], ![x] = belongs[v]]
        /\ path_table' = [path_table EXCEPT ![x] = <<w, v>>]
        /\ root_distance' = [root_distance EXCEPT ![x] = 2 + root_distance[v]]
        /\ queue' = AppendENode1(queue, x)
        /\ Turn(t, NextEdge(t))
        /\ UNCHANGED atomic_locks_match

ExpandTasklet ==
  /\ phase = "expand"
  /\ SeeFree \/ ClaimPair \/ Grow
  /\ UNCHANGED <<adj, M, atomic_locks_tree, atomic_locks_odd_nodes, found, hostVars>>

-----------------------------------------------------------------------------
(***************************************************************************)
(* TransformOddNodesInBlossom: one kernel lists the blossoms of a forest   *)
(* that stands still (one step), another takes their odd nodes, each with  *)
(* the rest of its blossom.  A tasklet is the odd node and that rest;      *)
(* equal ones, from an edge seen from both ends, are one.                  *)
(***************************************************************************)
\* Nothing to transform: only a self-loop has so short a blossom.
NoOddNode(e) == (Len(Blossom(e[1], e[2])) - 2) \div 2 = 0

\* The edges of a tasklet up to the one where it returns.
UpToReturn(work) ==
  LET stops == {i \in DOMAIN work : NoOddNode(work[i])}
  IN  Among(work, {e \in ToSet(work) : \A i \in stops : \A j \in DOMAIN work :
                                          work[j] = e => j < i})

\* Towards v an odd node gets the nodes to its right, behind w to its left.
OddNodes(v, w) ==
  LET b  == Blossom(v, w)  n == Len(b)
      at == Len(SegmentTo(v, Chased(v, w)[1]))
  IN  {SubSeq(b, i, n) : i \in {k \in 2..(at - 1) : k % 2 = 0}} \cup
      {Reverse(SubSeq(b, 1, i)) : i \in {k \in (at + 2)..(n - 1) : k % 2 = 1}}

BlossomsOf(q, presum) ==
  UNION {ToSet(UpToReturn(work)) :
           work \in Tasklets(q, presum, {e \in Inward : is_even[e[2]] = 1})}

Transforms(q, presum) == UNION {OddNodes(e[1], e[2]) : e \in BlossomsOf(q, presum)}

SeeOdd ==
  \E t \in Ready :
    /\ Turn(t, IF is_even[t.work[1]] = 0 /\ path_table[t.work[1]] = <<>>
               THEN Goto(t, "claim") ELSE {})
    /\ UNCHANGED <<is_even, path_table, root_distance, queue, atomic_locks_odd_nodes>>

\* With a node twice in the entry the tasklet ends, and keeps the lock.
ClaimOdd ==
  \E t \in At("claim") :
    LET odd == t.work[1]
    IN  /\ Turn(t, IF atomic_locks_odd_nodes[odd] = 0 /\ IsInjective(Tail(t.work))
                   THEN Goto(t, "fill") ELSE {})
        /\ atomic_locks_odd_nodes' = [atomic_locks_odd_nodes EXCEPT ![odd] = 1]
        /\ UNCHANGED <<is_even, path_table, root_distance, queue>>

\* Mutant: the distance is that of the blossom only.
FillShort ==
  \E t \in At("fill") :
    LET odd == t.work[1]  entry == Tail(t.work)
    IN  /\ path_table' = [path_table EXCEPT ![odd] = entry]
        /\ root_distance' = [root_distance EXCEPT ![odd] = Len(entry)]
        /\ is_even' = [is_even EXCEPT ![odd] = 1]
        /\ queue' = AppendENode2(queue, odd)
        /\ Turn(t, {})
        /\ UNCHANGED atomic_locks_odd_nodes

FillOdd ==
  \E t \in At("fill") :
    LET odd == t.work[1]  entry == Tail(t.work)
    IN  /\ path_table' = [path_table EXCEPT ![odd] = entry]
        /\ root_distance' = [root_distance EXCEPT ![odd] =
                               Len(entry) + root_distance[Last(entry)]]
        /\ is_even' = [is_even EXCEPT ![odd] = 1]
        /\ queue' = AppendENode2(queue, odd)
        /\ Turn(t, {})
        /\ UNCHANGED atomic_locks_odd_nodes

TransformTasklet ==
  /\ phase = "transform"
  /\ SeeOdd \/ ClaimOdd \/ FillOdd
  /\ UNCHANGED <<adj, M, belongs, atomic_locks_tree, atomic_locks_match, found,
                 hostVars>>

-----------------------------------------------------------------------------
(***************************************************************************)
(* The host: FindMaximumMatch and FindAndFlipAugmentingPath.               *)
(***************************************************************************)
deviceVars == <<forestVars, root_distance, lockVars>>


\* exhausted_ is never reset.
IsExhausted == exhausted \/ Size(queue) = 0

Loop ==
  LET cache == PrepareEdgePrefix(edge_prefix_cache, queue)
  IN  /\ phase = "loop"
      /\ exhausted' = IsExhausted
      /\ IF exhausted'
         THEN phase' = "returned" /\ UNCHANGED <<edge_prefix_cache, kernelVars>>
         ELSE /\ Launch("augment", Tasklets(queue, cache.presum, Bridges))
              /\ edge_prefix_cache' = cache
      /\ UNCHANGED <<deviceVars, queue, found, engine>>

\* Mutant: the frontier is taken after window 1 has moved.
ExpandMovedFrontier ==
  LET moved == PrepareForAppendingENode1(queue)
      cache == PrepareEdgePrefix(edge_prefix_cache, moved)
  IN  /\ phase = "augment" /\ KernelDone
      /\ IF found
         THEN phase' = "init" /\ UNCHANGED <<queue, edge_prefix_cache, kernelVars>>
         ELSE /\ queue' = moved
              /\ edge_prefix_cache' = cache
              /\ Launch("expand", Tasklets(moved, cache.presum, Outward))
      /\ UNCHANGED <<deviceVars, found, engine, exhausted>>

\* A search that found a path is followed by another one.
EndAugment ==
  LET cache == PrepareEdgePrefix(edge_prefix_cache, queue)
  IN  /\ phase = "augment" /\ KernelDone
      /\ IF found
         THEN phase' = "init" /\ UNCHANGED <<queue, edge_prefix_cache, kernelVars>>
         ELSE /\ queue' = PrepareForAppendingENode1(queue)
              /\ edge_prefix_cache' = cache
              /\ Launch("expand", Tasklets(queue, cache.presum, Outward))
      /\ UNCHANGED <<deviceVars, found, engine, exhausted>>

EndExpand ==
  LET invalid == InvalidateEdgePrefixCache(edge_prefix_cache)
      cache   == PrepareEdgePrefix(invalid, queue)
  IN  /\ phase = "expand" /\ KernelDone
      /\ IF Size(queue) = 0
         THEN /\ phase' = "loop" /\ edge_prefix_cache' = invalid
              /\ UNCHANGED <<queue, kernelVars>>
         ELSE /\ queue' = PrepareForAppendingENode2(queue)
              /\ edge_prefix_cache' = cache
              /\ Launch("transform", Transforms(queue, cache.presum))
      /\ UNCHANGED <<deviceVars, found, engine, exhausted>>

EndTransform ==
  /\ phase = "transform" /\ KernelDone
  /\ phase' = "loop"
  /\ edge_prefix_cache' = InvalidateEdgePrefixCache(edge_prefix_cache)
  /\ UNCHANGED <<deviceVars, queue, found, engine, exhausted, kernelVars>>

Host == InitAlternatingForest \/ Loop \/ EndAugment \/ EndExpand \/ EndTransform

\* FindMaximumMatch has returned.
Finished == phase = "returned" /\ UNCHANGED vars

Next == AugmentTasklet \/ ExpandTasklet \/ TransformTasklet \/ Host \/ Finished

\* No tasklet waits for another one, so it is enough that the device and the
\* host go on.
Fairness == WF_vars(AugmentTasklet \/ ExpandTasklet \/ TransformTasklet \/ Host)

Spec == Init /\ [][Next]_vars /\ Fairness

-----------------------------------------------------------------------------
TypeOK ==
  /\ ForestTypeOK
  /\ engine \in Engines
  /\ root_distance \in [Node -> Nat]
  /\ queue \in [slots : [Node -> Node], b1 : 0..nodes, e1 : 0..nodes,
                b2 : 0..nodes, e2 : 0..nodes]
  /\ atomic_locks_tree \in [Node -> {0, 1}]
  /\ atomic_locks_match \in [Node -> {0, 1}]
  /\ atomic_locks_odd_nodes \in [Node -> {0, 1}]
  /\ found \in BOOLEAN /\ exhausted \in BOOLEAN
  /\ edge_prefix_cache \in [valid : BOOLEAN, begin : 0..nodes, size : 0..nodes,
                            presum : Seq(Nat)]
  /\ phase \in Kernels \cup {"init", "loop", "returned"}
  /\ \A work \in todo \cup {t.work : t \in running} :
       work \in Seq(IF phase = "transform" THEN Node ELSE Node \X Node)
  /\ \A t \in running :
       /\ t.at \in {"scan", "second", "release", "flip", "claim", "grow", "fill"}
       /\ t.flips \in Seq(Node \X Node)

(***************************************************************************)
(* The forest every kernel reads without a lock is legal: each even node   *)
(* of a tree has an alternating walk to its root.                          *)
(***************************************************************************)
ForestStaysLegal == phase \in {"loop", "expand", "transform"} => LegalForest

(***************************************************************************)
(* root_distance, from which FindAndAddBlossomImplicitByAnchorNode...      *)
(* computes where in the blossom buffer each node goes, is the length of   *)
(* the walk of the node, by whichever way it became even.                  *)
(***************************************************************************)
DistancesExact ==
  phase # "init" =>
    \A v \in Node : (is_even[v] = 1 /\ belongs[v] # NoNode) =>
      root_distance[v] = Len(Walk(path_table, v)) - 1

(***************************************************************************)
(* The windows never run over the buffer, whose capacity is the number of  *)
(* nodes and which nobody checks; they hold every even node of a tree at   *)
(* most once in a search; and what a kernel makes of them starts at even   *)
(* nodes, which no tasklet looks at again.                                 *)
(***************************************************************************)
QueueFits ==
  /\ End(queue) <= nodes
  /\ phase # "init" =>
       /\ IsInjective([i \in 1..End(queue) |-> queue.slots[i - 1]])
       /\ \A i \in 0..(End(queue) - 1) : is_even[queue.slots[i]] = 1
  /\ phase = "augment" => \A t \in running : is_even[Edge(t)[1]] = 1

(***************************************************************************)
(* Whenever the prefix sums would be taken from the cache they are those   *)
(* of the frontier; and the search in them, which has one form in engine   *)
(* 10 and another elsewhere, then gives the tasklets of a kernel every     *)
(* edge of the frontier once, also around nodes without edges.             *)
(***************************************************************************)
PrefixExact ==
  (phase # "init" /\ engine.level # "nodes") =>
    LET frontier == Frontier(queue)
        presum   == PrepareEdgePrefix(edge_prefix_cache, queue).presum
    IN  /\ presum = ExclusiveScan(frontier)
        /\ EdgesOf(queue, presum) = FlattenSeq(Rows(frontier))

(***************************************************************************)
(* Tasklets that flip paths at the same time never touch the same node:    *)
(* the pairs they have left share no node.                                 *)
(***************************************************************************)
Touched(t) == UNION {{e[1], e[2]} : e \in Range(t.flips)}

FlipsDisjoint ==
  \A t, u \in At("flip") : t # u => Touched(t) \cap Touched(u) = {}

(***************************************************************************)
(* No lock is lost: when the augment kernel is over the locked trees are   *)
(* those of the new paths, and a locked odd node has become even, so no    *)
(* tasklet gave up on a node with its lock held.                           *)
(***************************************************************************)
LocksAccounted ==
  KernelDone =>
    /\ phase = "augment" =>
         {r \in Node : atomic_locks_tree[r] = 1} =
           {r \in Node : belongs[r] = r /\ is_even[r] = 1 /\ M[r] # NoNode}
    /\ phase = "transform" =>
         \A v \in Node : atomic_locks_odd_nodes[v] = 1 => is_even[v] = 1

(***************************************************************************)
(* FindMaximumMatch returns a maximum matching.                            *)
(***************************************************************************)
FinishedMaximum == phase = "returned" => IsMaximumMatching(adj, M)

(***************************************************************************)
(* Seen from outside every path found by a kernel makes the matching       *)
(* larger and unmatches no node; a path counts as flipped when its second  *)
(* tree is locked.                                                         *)
(***************************************************************************)
Pending == UNION {Range(t.flips) : t \in At("flip")}

\* The mates once the paths are flipped to their end.
MateSoon(v) ==
  IF \E e \in Pending : v \in {e[1], e[2]}
  THEN CHOOSE w \in Node : <<v, w>> \in Pending \/ <<w, v>> \in Pending
  ELSE M[v]

Growth == INSTANCE MatchingGrowth WITH M <- [v \in Node |-> MateSoon(v)]

GrowsMatching == Growth!Spec

(***************************************************************************)
(* The engine returns, however the tasklets are scheduled.                 *)
(***************************************************************************)
Terminates == <>(phase = "returned")
=============================================================================
