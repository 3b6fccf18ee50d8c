--------------------------- MODULE GpuInvariants ----------------------------
(***************************************************************************)
(* Why the GPU engines are right: what holds between any two steps of the  *)
(* host and the tasklets.                                                  *)
(***************************************************************************)
EXTENDS GpuEngines, Entries

Slot(w) == IF w < M[w] THEN w ELSE M[w]

Works == todo \cup {t.work : t \in running}

\* Where the tasklets of a kernel can be.
Places ==
  [k \in Kernels |-> {"scan"} \cup CASE k = "augment"   -> {"second", "release", "flip"}
                                     [] k = "expand"    -> {"claim", "grow"}
                                     [] k = "transform" -> {"claim", "fill"}]

TaskletsPlaced ==
  /\ phase \notin Kernels => todo = {} /\ running = {}
  /\ phase \in Kernels => \A t \in running : t.at \in Places[phase]
  /\ \A t \in running : t.at = "flip" \/ t.flips = <<>>

\* The edges of the tasklets come from even nodes of trees.
WorkSound ==
  /\ phase \in {"augment", "expand"} => \A work \in Works :
       /\ work \in Seq(Node \X Node) /\ work # <<>>
       /\ \A e \in Range(work) : EvenNode(e[1]) /\ IsAdjacent(adj, e[1], e[2])
  /\ phase = "transform" => \A work \in Works : work \in Seq(Node) /\ Len(work) >= 3

-----------------------------------------------------------------------------
\* A tree belongs to a path from its second lock on.
Holders == At("second") \cup At("release")

Taken(r) == atomic_locks_tree[r] = 1 /\ \A t \in Holders : First(Edge(t)) # r

Whole(x) == belongs[x] = NoNode \/ ~Taken(belongs[x])

Unflipped(x) == \E e \in Pending : x \in {e[1], e[2]}

MatesKept ==
  \A x \in Node : ~Unflipped(x) /\ M[x] # NoNode =>
    M[x] # x /\ M[M[x]] = x /\ IsAdjacent(adj, x, M[x]) /\ ~Unflipped(M[x])

FlipsSound ==
  \A t \in At("flip") :
    /\ t.flips \in Seq(Node \X Node) /\ t.flips # <<>>
    /\ \A e \in Range(t.flips) :
         /\ e[1] # e[2] /\ IsAdjacent(adj, e[1], e[2]) /\ IsAdjacent(adj, e[2], e[1])
         /\ belongs[e[1]] \in {First(Edge(t)), Second(Edge(t))}
         /\ belongs[e[2]] \in {First(Edge(t)), Second(Edge(t))}
    /\ \A i, j \in DOMAIN t.flips : i # j =>
         {t.flips[i][1], t.flips[i][2]} \cap {t.flips[j][1], t.flips[j][2]} = {}

TreesSound ==
  phase # "init" =>
    /\ \A x \in Node : M[x] = NoNode => IsRoot(x)
    /\ \A x \in Node : belongs[x] = NoNode => Unreached(x)
    /\ \A x \in Node : belongs[x] # NoNode => IsRoot(belongs[x])
    /\ \A x \in Node : M[x] # NoNode /\ Whole(x) => belongs[M[x]] = belongs[x]
    /\ \A x \in EvenNodes : Whole(x) => EvenWalkLegal(x)

\* Before the first search with an empty matching there is no forest yet.
RepairSound ==
  phase = "init" =>
    /\ Matched(M) # {} => \A x \in Node : M[x] = NoNode => IsRoot(x)
    /\ \A x \in Node : M[x] # NoNode /\ InValidTree(x) =>
         /\ IsRoot(belongs[x])
         /\ belongs[M[x]] = belongs[x]
         /\ is_even[x] = 1 =>
              /\ EvenWalkLegal(x)
              /\ root_distance[x] = Len(Walk(path_table, x)) - 1

LocksSound ==
  phase # "init" =>
    /\ found => phase = "augment"
    /\ \A r \in Node : atomic_locks_tree[r] = 1 => phase = "augment" /\ IsRoot(r)
    /\ \A r \in Node : Taken(r) =>
         /\ M[r] # NoNode \/ Unflipped(r)
         /\ found \/ \E t \in At("flip") : r \in {First(Edge(t)), Second(Edge(t))}
    /\ \A r \in Node : IsRoot(r) /\ M[r] # NoNode => Taken(r)

\* A pair in no tree is locked by the one tasklet that grows it.
PairsSound ==
  /\ phase # "init" => \A x \in Node : belongs[x] = NoNode =>
       \/ atomic_locks_match[Slot(x)] = 0
       \/ \E t \in At("grow") : Pair(Edge(t)) = Slot(x)
  /\ phase = "expand" =>
       /\ \A t \in At("claim") :
            /\ M[Edge(t)[2]] # NoNode
            /\ belongs[Edge(t)[2]] = NoNode \/ atomic_locks_match[Pair(Edge(t))] = 1
       /\ \A t \in At("grow") :
            belongs[Edge(t)[2]] = NoNode /\ atomic_locks_match[Pair(Edge(t))] = 1
       /\ \A t, u \in At("grow") : t # u => Pair(Edge(t)) # Pair(Edge(u))

\* A locked odd node is even, or filled by one tasklet.
OddsSound ==
  /\ phase # "init" => \A x \in Node : atomic_locks_odd_nodes[x] = 1 =>
       is_even[x] = 1 \/ \E t \in At("fill") : t.work[1] = x
  /\ phase = "transform" =>
       /\ \A t \in At("claim") :
            is_even[t.work[1]] = 0 \/ atomic_locks_odd_nodes[t.work[1]] = 1
       /\ \A t \in At("fill") :
            is_even[t.work[1]] = 0 /\ atomic_locks_odd_nodes[t.work[1]] = 1
       /\ \A t, u \in At("fill") : t # u => t.work[1] # u.work[1]

-----------------------------------------------------------------------------
Turning == IF phase = "transform" THEN {work[1] : work \in Works} ELSE {}

\* The walks there are and those that will be.
Turns == IF phase = "transform" THEN {work \in Works : is_even[work[1]] = 0} ELSE {}

EntriesSound ==
  /\ EntriesLong(path_table) /\ LinksEven /\ OddsBare /\ OddsOnce(Turning)
  /\ OddsApart(Walks \cup {WalkOf(work) : work \in Turns}, Turning)
  /\ \A work \in Turns :
       /\ TurnLegal(work)
       /\ \A x \in Range(work) : is_even[x] = 1 \/ x \in Turning

-----------------------------------------------------------------------------
Slots == [i \in 1..End(queue) |-> queue.slots[i - 1]]

QueueSound ==
  /\ queue.b1 <= queue.e1 /\ queue.b2 <= queue.e2
  /\ phase = "expand" => queue.b1 = queue.e2
  /\ phase # "expand" => queue.b2 = queue.e1
  /\ phase # "init" => IsInjective(Slots) /\ \A x \in Range(Slots) : EvenNode(x)

Slice(begin, size) == [i \in 1..size |-> queue.slots[begin + i - 1]]

CacheSound ==
  LET cache == edge_prefix_cache
  IN  /\ phase = "loop" => ~cache.valid
      /\ cache.valid /\ phase # "init" =>
           /\ cache.presum = ExclusiveScan(Slice(cache.begin, cache.size))
           /\ cache.begin + cache.size <= (CASE phase = "expand"    -> queue.b1
                                             [] phase = "transform" -> queue.b2
                                             [] OTHER               -> End(queue))

-----------------------------------------------------------------------------
(***************************************************************************)
(* Why the matching is maximum in the end: nothing is left undone around   *)
(* the nodes whose turn in the queue is over.                              *)
(***************************************************************************)
\* An odd node's mate is even, and two even mates are of one blossom, but for the
\* trees a path has been found in.
Standing(x) == IF phase = "init" THEN M[x] # NoNode /\ InValidTree(x) ELSE Whole(x)

MatesMerged ==
  /\ \A x \in Node : OddNode(x) /\ Standing(x) => M[x] \in EvenNodes
  /\ \A x, y \in EvenNodes : Standing(x) /\ M[x] = y => Merged(x, y, Turning)
  /\ \A work \in Turns : \A y \in EvenNodes : M[work[1]] = y => Reaches(y, Last(work), Turning)

\* The first n nodes of the queue.
Passed(n) == {queue.slots[i] : i \in 0..(n - 1)}

\* Their edges lead out of no tree,
LeadOn(n) ==
  \A x \in Passed(n) : \A w \in Node : IsAdjacent(adj, x, w) => belongs[w] # NoNode

\* bridge no trees,
Unbridged(n) ==
  \A x, w \in Passed(n) : IsAdjacent(adj, x, w) => belongs[x] = belongs[w]

\* and are inside of blossoms.
Shrunk(n) ==
  \A x, w \in Passed(n) : IsAdjacent(adj, x, w) /\ belongs[x] = belongs[w] =>
    Merged(x, w, Turning)

\* A tasklet that has a node's edges returns at a self-loop.
Tame == engine.level = "edges" \/ \A x \in Node : ~IsAdjacent(adj, x, x)

Searched ==
  /\ exhausted => phase = "returned"
  /\ phase = "returned" => Size(queue) = 0
  /\ phase # "init" =>
       /\ EvenNodes \subseteq Passed(End(queue))
       /\ Unbridged(queue.b1)
       /\ Tame => Shrunk(queue.b2)
  /\ phase \notin {"init", "expand"} => LeadOn(queue.b1)

\* There is a new path, or somebody is about to have one.
Evidence == found \/ At("flip") # {} \/ At("second") # {}

\* Of the tasklets that meet on trees one gets its path: who gives up has lost
\* against one with a larger first root.
RaceWon ==
  phase = "augment" =>
    /\ Evidence \/ (running = {} /\ (todo = {} => Unbridged(End(queue))))
    /\ \A u \in At("release") :
         found \/ At("flip") # {} \/ \E h \in At("second") : First(Edge(h)) > First(Edge(u))

\* An edge out of the trees is looked at, or somebody grows the pair behind it.
Heading ==
  phase = "expand" =>
    \A x \in Passed(queue.b1) : \A w \in Node : IsAdjacent(adj, x, w) =>
      \/ belongs[w] # NoNode
      \/ \E work \in Works : <<x, w>> \in Range(work)
      \/ \E t \in At("grow") : Pair(Edge(t)) = Slot(w)

Thorough == MatesMerged /\ Searched /\ RaceWon /\ Heading

Sound ==
  /\ TypeOK
  /\ IsUndirected(adj)
  /\ TaskletsPlaced /\ WorkSound
  /\ MatesKept /\ FlipsSound
  /\ TreesSound /\ RepairSound /\ LocksSound /\ PairsSound /\ OddsSound
  /\ EntriesSound
  /\ DistancesExact
  /\ QueueSound /\ CacheSound
=============================================================================
