# X-Blossom in TLA+

A verification project for the parallel maximum-matching engines of X-Blossom
(`src/apps/xb`). X-Blossom finds a maximum matching of a general graph by
Edmonds' algorithm without recursion and without contracting blossoms: many
alternating trees grow at once, and all threads work on all trees. The program
exists as a family of engines, on the CPU and on the GPU, that differ in how the
work is shared and in which optimisations they have.

Contents: [the system](#the-system) · [modules](#modules-and-the-code-they-model) ·
[runs](#what-the-runs-check) · [findings](#findings) · [proofs](#what-is-proved) ·
[limits](#assumptions-and-limits) · [not modelled](#not-modelled) · [plan](#plan)

## The system

### State

| CPU | GPU | model | meaning |
|---|---|---|---|
| `M[v]` | `M_` | `M` | the mate of `v`, or -1 |
| `is_even[v]` | `is_even_` | `is_even` | an alternating path of even length from `v` to a root is known |
| `belongs[v]` | `tree_roots_` | `belongs` | the root of `v`'s tree, or -1 |
| `path_table_vector[v]` | `offset_length_` into `paths_` | `path_table` | the next piece of that path; a walk chains the pieces |
| – | `root_distance_` | `root_distance` | the length of the walk |
| `select_tree`, `select_match`, `select_blossom` | `atomic_locks_*` | same names | one flag per root, matched pair, node; fresh in every search |
| `nodes_vector`, `vector_1`, `vector_2` | `enode_queue_` | same; `queue` | the frontier, and the even nodes added by expansion and by blossoms |
| `path_collection` | – | same | the found paths; GPU tasklets flip theirs at once |

The forest is plain memory. Nothing but the CAS or exchange on a flag, a mutex
around each merge of results, and the join at the end of a phase or kernel
orders the accesses.

### Control

The driver (CPU) or host (GPU) runs searches until one finds no augmenting path,
or on the CPU until the caller's threshold is met. A search is

    repair or rebuild the forest
    repeat   1 augment   find bridges between two trees; found any? flip, next search
             2 expand    add a treeless node and its mate to a tree
             3 blossom   make the odd nodes of an odd cycle even
    until no new even node was found

| engine | work is shared by | forest of the last search | blossoms found by | tree locks |
|---|---|---|---|---|
| `par_200` | node stride | thrown away | full walks | tree of `v` first |
| `par_pro_2` | node stride | repaired by the driver | full walks | tree of `v` first |
| `par_pro_3` | node stride | thrown away | anchors | tree of `v` first |
| `par_pro_all_atomic` | node stride | repaired by the driver | anchors | tree of `v` first |
| `par_pro_pernode_nb` | node stride | repaired by threads | no blossom phase | tree of `v` first |
| `par_pro_pernode` | chunks of 64 nodes from an atomic counter | repaired by threads | anchors | tree of `v` first |
| `par_pro_1` | slices of the edge list | thrown away | full walks, entries unchecked | smaller root first |
| `par_pro_peredge` | slices of the edge list | repaired by threads | full walks, entries unchecked | smaller root first |
| `par_pro_peredge_nb` | slices of the edge list | repaired by threads | no blossom phase | smaller root first |
| GPU 9, 10, 11, 12 | a tasklet per edge | repaired | anchors | smaller root first |
| GPU NR | a tasklet per edge | thrown away | anchors | smaller root first |
| GPU PerNode | a tasklet per node | repaired | anchors | smaller root first |
| GPU Hybrid, Hybrid2 | per edge above a threshold, else per node | repaired | anchors | smaller root first |

### Components and what makes them correct

| component | state | operations | correct if |
|---|---|---|---|
| driver, search loop | phase, frontier vectors | start/join phases, hand the frontier over, flip, stop | result maximum; every search enlarges the matching; returns |
| work sharing | chunk counter; strides; edge list and slices | take a chunk; scan, binary search, slice | every edge is seen by one thread |
| augment phase | tree flags, local paths | two CAS, release, copy two walks, merge | disjoint paths; no leaked lock; at least one path if there is a bridge |
| expand phase | pair flags, forest | test, CAS, write entries, merge | one writer per pair; trees closed under the matching |
| blossom phase | node flags, forest | find base, lay out the cycle, claim, fill, drop, merge | legal walks; one writer per node; no odd node lost |
| repair of the forest | forest, frontier | keep, reset or re-root each node | kept trees are whole and legal for the new matching |
| flip | `M` | mate the nodes of every path pairwise | parallel writes do not collide |
| GPU queue (`ENodeQueue`) | one buffer, two windows | move a window, append | never overruns; each even node once; windows never overlap |
| GPU path table | entries, `root_distance_`, buffers | expand, fill, find path | distances are lengths of walks; buffers are not overrun |
| loader, validation, runners, scripts, gunrock, ligra | files, counters | I/O, measurement | not a matter of protocol |

The hard behaviours are all of one kind: unlocked reads and writes whose safety
rests on a CAS a few lines earlier or later, on a join, or on the shape of the
forest. `PROJECT.json` lists each of them at its line under `hazards`. There is
no persistence, no message and no timeout in this code.

## Modules and the code they model

| module | models |
|---|---|
| `XGraph` | nodes, CSR rows, `find_path_vector` (`Walk`), the path through a bridge, the flip of a path; the reference `IsMaximumMatching` |
| `XForest` | the forest variables; `IsBridge`; `LegalForest`, the contract between the phases |
| `Search` | what all CPU engines share: thread bookkeeping, the repair of the forest (`parReuseRemainingTrees` and the driver's serial form), a fresh forest, the flip, the driver's common pieces; the properties every CPU engine owes |
| `AugmentBody`, `ExpandBody`, `BlossomBody` | the three phase bodies, written once: the engines repeat the same text |
| `Blossoms` | the chase for the base and the layout of a blossom by anchors, CPU and GPU |
| `NodeWorkers` | the atomic chunk counter and the loop over a chunk's rows |
| `PerNodeEngine` | `par_pro_pernode`: composes the bodies with `NodeWorkers` |
| `AugmentPerEdge` | phase 1 of the edge-parallel engines, a specification of its own with any legal start |
| `EdgeWorkers` | the edge list (`xb_cpu_peredge.h`), the slices; instantiates `AugmentPerEdge` as phase 1 |
| `PerEdgeEngine` | `par_pro_peredge`, `par_pro_1`, `par_pro_peredge_nb`, told apart by the variable `engine` |
| `StridedEngines` | `par_200`, `par_pro_2`, `par_pro_3`, `par_pro_all_atomic`, `par_pro_pernode_nb` |
| `ENodeQueue` | the queue of even nodes: operators on a record |
| `GpuEngines` | engines 9 to 12, NR, PerNode, Hybrid, Hybrid2: kernels, tasklets, host loop |
| `TreePairing` | abstract: what any augment phase promises |
| `MatchingGrowth` | abstract: what an engine promises its caller |
| `SearchInvariants` | the inductive invariants `Basic`, `Sound` and `Covered` of the node-sharing engines, and the steps of a phase as these engines take them |
| `Entries`, `GpuInvariants` | how odd nodes cut the entries of a forest apart and how far blossoms are shrunk; the inductive invariants `Sound` and `Thorough` of the GPU engines |
| `ForestLemmas`, `BlossomLemmas` | lemmas on sequences, `Walk`, `BridgePath`, `FlipPath`, the repair; on anchors, the base of a blossom and the way round it, and on when a matching is maximum |
| `SearchProofs` | what each step of a thread and of the driver keeps, CPU engine by engine alike |
| `PerNodeProofs`, `StridedProofs` | theorems about the engines that share the frontier by nodes |
| `AugmentPerEdgeProofs` | theorems about phase 1 of the edge-parallel engines |
| `GpuKernelProofs`, `GpuEnginesProofs` | what each step of a tasklet and of the host keeps; the theorems about the GPU engines |
| `MCForests`, `MCAugmentPerEdge`, `MCPerNodeSolo`, `MCPerNodeTeam`, `MCPerEdge`, `MCStrided`, `MCGpu` | instances for TLC |

### How a definition of the CPU modules corresponds to the code

* A step of a thread is one access that another thread can interfere with: a
  CAS, a store that others read in the same phase, a racy test, a merge under a
  mutex. Work on data nobody else touches in the phase is part of the step next
  to it; a comment at the definition says why.
* `pc[t]` names where a thread is: `fetch` (at the chunk counter), `scan` (at the
  test of the next edge), `second`/`release` (between the two CAS of phase 1,
  after the second one failed), `claim` (test passed, CAS to come),
  `grow`/`own`/`mate` (the stores of an expansion), `visit`/`fill`/`even`/`undo`
  (one node of a blossom), `merge`, `done`; `crashed` is the read of `blossom[0]`
  of an empty vector, or the `length_error` of a negative `reserve`.
* `todo[t]` is what is left of the thread's share. Edges that can be seen to fail
  the test of the phase for good are dropped when the share is taken: in phase 1
  nothing the test reads is written, in phase 2 `belongs[w]` only ever leaves -1,
  in phase 3 `belongs` and `M` are frozen.
* The driver's actions (`JoinReuse`, `JoinAugment`, `JoinExpand`, `JoinBlossom`,
  `JoinFlip`, ...) are enabled when all threads are done; each contains
  everything the driver does up to the start of the next phase.
* The edge list appears in one step: its helper threads write disjoint ranges
  and are joined before anybody reads them. So does a thread of the repair: it
  writes only its own stripe and reads only `M`, which is frozen.

### How the GPU module corresponds to the code

* A kernel is a set of tasklets (`todo`), taken in any order, at most
  `NumThreads` of them in flight (`running`). A step of a tasklet is one
  `atomicExch` or racy access. The host does nothing while a kernel runs.
* Kernels whose tasklets touch only their own node (the initialisation of the
  forest), or read a forest that stands still (the kernel that lists the
  blossoms), are one step.
* A found path is flipped in the augment kernel itself, pair by pair
  (`FlipPair`), while other tasklets test bridges and flip theirs.
* `path_table[v]` is the slice of `paths_` that `offset_length_[v]` names. The
  slice is reserved by an atomic counter, so no two tasklets share one; the
  offsets are not modelled.
* `edge_prefix_cache` is `col_indices_presum_` with the key it was made for. A
  kernel with a tasklet per edge numbers its edges by these sums:
  `FindRightmostLTEQ` finds the row of a tasklet, in engine 10 `cub::UpperBound`.
* Engines 9, 11 and 12 are one model: 9 uses `atomicCAS` and another order of
  stores in the expansion, which is one step here, and 11 sorts the frontier,
  whose edges a kernel takes in any order.
* A start without matching is a new engine. A start with a matching is what the
  augment kernel of a first search leaves.

## What the runs check

| run | instance | properties |
|---|---|---|
| `augment_peredge` | 3 threads; every graph on 4 exposed nodes (padded to 7), two grown trees next to a third with every choice of 4 cross edges; 44,533 states | `TypeOK`, `PathsDisjoint`, `LocksAccounted`, `LocksInductive`, `SomeBridgeWins`; refinement `PairsTrees`; liveness `PhaseEnds` |
| `pernode_solo` | 1 thread, all 1024 graphs on 5 nodes; 68,904 states | `FinishedMaximum`, `EntriesSimple` |
| `pernode_team` | 2 threads, `ChunkSize` 1, 7 starts on 6 nodes; 49,420 states | `TypeOK`, `ForestStaysLegal`, `PathsDisjoint`, `LocksAccounted`, `TreesClosed`, `FrontierSound`, `BlossomHasBase`, `WritersApart`; action property `EvenEntriesFrozen`; refinement `GrowsMatching` |
| `pernode_returns` | as `pernode_team` with `Threshold` 2; 36,640 states | liveness `Terminates` |
| `pernode_tree_locks` | 2 threads, one edge | `FinishedMaximum` is violated (finding 1) |
| `pernode_dropped` | 2 threads, a flower of 10 nodes | `FinishedMaximum` is violated (finding 2) |
| `peredge_team` | 2 threads, 9 starts on 10 nodes, 3 engines; 38,808 states | `LegalUnlessRepeating`, `EdgeListExact`, `Phase1Contract`, `MaximumOrInvalid`; action property `GrowsUnlessRepeating` |
| `peredge_unchecked` | 2 threads, a long flower of 10 nodes | `ReturnsMatching` is violated (finding 3) |
| `strided_team` | 2 threads, 8 starts on 6 nodes, 5 engines; 66,563 states | `ForestStaysLegal`, `WalksAlwaysMeet`, `NoEdgeLeft`; refinement `GrowsMatching` |
| `strided_solo` | 1 thread, all 1024 graphs on 5 nodes, 5 engines; 254,556 states | `MaximumForEngine` |
| `gpu_team` | 2 tasklets in flight, 8 starts on 10 nodes, 6 kinds of engine; 72,019 states | `TypeOK`, `ForestStaysLegal`, `DistancesExact`, `QueueFits`, `PrefixExact`, `FlipsDisjoint`, `LocksAccounted`, `FinishedMaximum`; refinement `GrowsMatching`; liveness `Terminates` |
| `gpu_pernode_selfloop` | the PerNode engine, one graph with self-loops | `FinishedMaximum` is violated (finding 4) |

What they show, property by property:

* **`PathsDisjoint`, `LocksAccounted`, `LocksInductive`** – the two-CAS protocol
  gives each path two trees of its own. The flip needs it: it writes `M` without
  a lock. On the GPU `LocksAccounted` adds that a tasklet that gives up on an odd
  node never leaves its lock behind, although the code can return with it held.
* **`FlipsDisjoint`** – GPU tasklets that flip at the same time have no node in
  common, even while others test bridges against the half-flipped matching.
* **`SomeBridgeWins`** – with the smaller root locked first some thread always
  wins; the search relies on it when it gives up the edges of a phase that found
  nothing. The node-level CPU engines have no such order: finding 1.
* **`PairsTrees`** – phase 1 implements `TreePairing`: trees are paired over
  bridges, each at most once.
* **`LegalUnlessRepeating`, `Phase1Contract`, `MaximumOrInvalid`,
  `GrowsUnlessRepeating`** – the blossom phase of the edge-parallel engines does
  not look for repeated nodes, and with two threads a walk may visit a node twice
  (finding 3). These four say that nothing else goes wrong, and the starts include
  the graph of that finding. A walk always ends in the root of its tree and
  never leaves the tree, so the tree locks protect every path; a walk that
  repeats no node is legal. The lock invariant of phase 1 holds in any case, and
  the start that the theorems about phase 1 assume is there unless some walk
  repeats a node: the theorems do not speak of `par_pro_peredge` and `par_pro_1`
  from then on. A search grows the matching unless a path repeats a node. If
  what is returned is a matching at all, it is a maximum one (in the engine
  without a blossom phase, on bipartite graphs).
* **`EdgeListExact`** – offsets and binary search give every frontier edge once,
  with frontier nodes of degree 0 among them.
* **`ForestStaysLegal`** – between any two stores, every even tree node has a
  walk to its root that alternates, repeats no node and stays in its tree. This
  is what makes walks end, what makes `M[w]` a node in expansion, and what the
  repair must restore.
* **`TreesClosed`** – a tree contains the mates of its nodes when a phase ends,
  so the repair keeps or drops it whole.
* **`FrontierSound`** – the three vectors hand on every new even node once.
* **`NoEdgeLeft`** – a search of a strided engine that gives up has left no edge
  from an even node it did not use: the order in which the vectors are cleared
  and copied loses nothing.
* **`BlossomHasBase`** – the chase of `findBlossom` always ends in a base, so the
  unchecked `blossom[0]` is safe.
* **`WalksAlwaysMeet`** – the guards marked "handling data racing" in the engines
  that compare full walks never fire.
* **`WritersApart`, `EvenEntriesFrozen`** – the racy tests before the CAS let
  several threads through, but only one writes; what an unlocked reader may read
  no longer changes.
* **`DistancesExact`** – `root_distance_`, kept apart from the entries, is the
  length of the walk.
* **`QueueFits`** – the unchecked appends never overrun the buffer, and no even
  node is queued twice in a search.
* **`PrefixExact`** – a hit in the edge-prefix cache gives the sums of the
  frontier at hand, and both searches in them give every edge of it once. The
  code guards the cache twice, by its key and by invalidating it after every
  phase. The only hits are those of expansion after augmentation, and within a
  search the windows never come back to a range with other nodes in it; so
  either guard would do, and the mutant that breaks the property drops both.
* **`GrowsMatching`** – seen from the caller, the engine turns a matching into
  larger ones that keep matched nodes matched. The refinement mapping counts the
  flips as done when the paths are found (CPU) or when the second tree is locked
  (GPU).
* **`FinishedMaximum`, `MaximumForEngine`, `EntriesSimple`** – the result is
  maximum: with one thread in the node-level CPU engines, with any interleaving
  of the instances in the GPU engines; without a blossom phase on bipartite
  graphs. With one thread the check for repeated nodes is dead code.
* **`Terminates`, `PhaseEnds`** – under the fairness below.

Every property of a passing run has a mutant in `PROJECT.json`: a change of one
mapped definition (a plain store for a CAS, a lock not released, a node not
entered into the tree, slices rounded down, ...) under which TLC finds the
property violated. The mutated forms stand next to the definitions they change,
marked "Mutant", and are used by nothing else.

### Bounds and why they are enough

* *Nodes.* A blossom with a stem and a third tree to reach through it needs 6
  nodes; the three-cornered lock competition needs three roots. 5 nodes suffice
  for all one-thread behaviours up to one blossom; nested and overlapping
  blossoms are in the 6- and 10-node starts.
* *Threads.* Interference in this code is pairwise except in phase 1, where
  chains of lost CAS need three trees; that run has three threads, and the
  proofs cover any number. On the GPU two tasklets are in flight at a time.
* *`ChunkSize` 1.* The code hands out 64 nodes at a time, so that one thread
  would take the whole of a small instance. `ChunkSize` 1 stands for graphs 64
  times as large, in which the relevant nodes lie in different chunks.
* *`Threshold`.* Every caller passes INT_MAX (here 99, above any matching size);
  `pernode_returns` uses 2 so that the early exit happens too.
* *`BalanceThreshold` 3* stands for the 500 edges (Hybrid) and 50 even nodes
  (Hybrid2) at which the hybrid engines change kernels, so that both kinds of
  kernel run in one search.
* *Starts.* Most runs start some instances from a matching instead of the empty
  one: every later search starts so.

### Fairness

On the CPU each thread is weakly fair and so is the driver: a thread the
operating system has started runs until it returns, and `join` returns once it
has. On the GPU the device together with the host is weakly fair: a tasklet
never waits for another, so it is enough that the kernel goes on. No fairness is
assumed about who wins a CAS.

## Findings

1. **Tree locks taken in opposite order** (`par_pro_pernode.cu:132-150`, run
   `pernode_tree_locks`). The tree of `v` is locked first. Two threads at the two
   directions of the same bridge lock one tree each, both fail on the other's,
   both release and go on; nobody comes back to the edge. If no other path was
   found in the phase and nothing can be expanded, the search ends and the
   matching is not maximum. The strided engines have the same body. The
   edge-parallel engines order the locks by root, with a proof that this cannot
   happen (`SomePath`).
2. **A dropped entry keeps its claim** (`par_pro_pernode.cu:429-431`, run
   `pernode_dropped`). When a thread finds that the entry it just built visits a
   node twice it clears it, but `select_blossom` stays 1 and no thread will try
   the node again in this search. With one thread this never happens
   (`EntriesSimple`); with two it does, because the walks a blossom is made from
   may contain an entry the other thread added in the same phase. In the trace
   the node that is dropped is the only way out of the flower, and no tree lock
   was ever released in that instance, so the cause is not finding 1.
3. **An unchecked entry** (`par_pro_1.cu:480`, run `peredge_unchecked`). The
   edge-parallel blossom phase does not look for repeated nodes at all. The
   entry of finding 2 is stored, phase 1 later copies a path that visits nodes
   twice, and the flip gives mates that are not mutual. The engine prints that
   the matching is invalid and returns it.
4. **A `return` at a self-loop** (`xblossom_gpu_engine_pernode.cu:491`, run
   `gpu_pernode_selfloop`). The kernel that lists blossoms returns at an edge
   whose blossom has no odd node. With a tasklet per edge that ends one edge;
   with a tasklet per node it skips the rest of the row, and the blossom that
   only this node reaches is overlooked. `HGraph` keeps the self-loops of its
   input. The node-level kernel of the hybrid engines has the same line.

Each contradicts an assertion of the repository's tests, which `PROJECT.json`
quotes. Findings 1 to 3 need an unlucky interleaving on the last paths of a
computation, where few edges are left; on large inputs with many paths per
search the next search usually finds what the last one missed. In findings 2
and 3 the start of the run is the matching the first search finds from the empty
one if one thread takes the whole frontier.

## What is proved

`AugmentPerEdgeProofs`, for every number of nodes and threads and every start
that satisfies `LegalStart` (a legal forest, and a frontier of even tree nodes):

| theorem | statement |
|---|---|
| `Invariance` | `Spec => []IInv` |
| `TypeCorrect` | `Spec => []TypeOK` |
| `LocksHeld` | `Spec => []LocksInductive` |
| `DisjointPaths` | `Spec => []PathsDisjoint` |
| `NoLockLeaks` | `Spec => []LocksAccounted` |
| `SomePath` | `Spec => []SomeBridgeWins` |
| `ImplementsPairing` | `Spec => PairsTrees` |

The argument. `IInv` is `LegalStart`, `TypeOK`, `LocksInductive` and
`PathsDisjoint` together. `PathsDisjoint` alone is not inductive: that a new
path meets no old one follows from every node of an old path lying in a *locked*
tree and the two trees of the new one having been unlocked, or locked by this
thread, when it won its CAS. That is `LocksInductive`, and it in turn needs
`BridgePath`: the path through a bridge lies in exactly the two trees of the
bridge and repeats no node, which follows from `LegalForest`. The forest is
frozen in the phase, so `Walk` is never expanded.

`SomePath` needs a second invariant, `WInv`: a locked tree has an owner; as long
as there is no path, a thread that lost its second CAS lost it to the holder of
a *larger* first tree, and some holder above it has yet to decide
(`HolderClimbs`; this is where the lock order is used); and while no thread is
between its two CAS, every bridge is still ahead of some thread (`BridgesAhead`,
which starts from `SlicesCover`: the slices leave no edge out).

`PerNodeProofs` (the node-parallel engine) and `StridedProofs` (the five strided
engines), for every number of nodes and threads, every chunk size and threshold,
and every undirected graph with a matching of it to start from:

| theorem | module | statement |
|---|---|---|
| `BasicInvariance` | both | `Spec => []EngineBasic` |
| `TypeCorrectness` | both | `Spec => []TypeOK` |
| `WritersStayApart` | PerNode | `Spec => []WritersApart` |
| `SoundInvariance` | both | `Spec /\ []BlossomsLegal => []Sound` |
| `ForestLegality`, `PathsApart`, `LocksBalanced`, `TreesStayClosed`, `FrontierStaysSound` | PerNode | `Spec /\ []BlossomsLegal =>` `[]ForestStaysLegal`, `[]PathsDisjoint`, `[]LocksAccounted`, `[]TreesClosed`, `[]FrontierSound` |
| `SearchesSafe` | Strided | the same five in one |
| `MatchingReturned` | PerNode | `Spec /\ []BlossomsLegal => []ReturnsMatching` |
| `EntriesFrozen` | both | `Spec /\ []BlossomsLegal => EvenEntriesFrozen` |
| `MatchingGrows` | both | `Spec /\ []BlossomsLegal => GrowsMatching` |
| `LegalOnBipartite` | both | `Spec /\ IsBipartite(adj) => []BlossomsLegal` |
| `LegalWithoutBlossoms` | Strided | `Spec /\ engine.cycle = "none" => []BlossomsLegal` |
| `CoveredInvariance` | both | `Spec /\ []BlossomsLegal => []NothingLost` |
| `NothingLeft` | both | `Spec /\ []BlossomsLegal => []NoEdgeLeft` |
| `BipartiteInvariance` | both | `Spec /\ IsBipartite(adj) => [](Sound /\ Bipartite)` |
| `MaximumOnBipartite` | both | `NumThreads = 1`: `Spec /\ IsBipartite(adj) => []FinishedMaximum` |
| `MaximumWithoutBlossoms` | Strided | `NumThreads = 1`: `Spec /\ engine.cycle = "none" => []MaximumForEngine` |
| `SafeOnBipartite` | both | the properties above on bipartite graphs, any number of threads, without a condition |
| `SafeWithoutBlossoms` | Strided | the same for `par_pro_pernode_nb` on every graph |

The argument. `SearchInvariants` holds three groups of invariants, phase by phase. `Basic`
needs no assumption: types, where a thread can be in each phase, mates are mutual
unless paths are being flipped, and a pair (expansion) or a node (blossom) that
was won by CAS has one owner. The unlocked tests before the CAS are what makes
this worth an invariant: several threads pass the test, the flags let one
through, and `PairOwners` and `NodeOwners` say what the losers may still find.

`Sound` ties the forest, the frontier, the shares, the locks, the found paths and
the matching together. `ForestStaysLegal` alone is not inductive:

* *Expansion* appends `<<w, v>>` to the walk of `v`. That keeps walks simple only
  if `w` and its mate are in no tree, which follows from who owns the pair and
  from `TreesSound` (a pair that is not being grown is in a tree as a whole, or
  untouched with its flag down).
* *Augment* flips paths that are closed under the matching and lie in locked
  trees (`PathsSound`, `LocksSound`), so two paths share no node and what is not
  on a path keeps its mate.
* *Flip* mates pairs in any order. `FlipSound` says that every pair of a path is
  mated already or in the share of some thread, and that trees without a path
  are what they were. When the shares are empty the result is a matching again.
* *Repair* visits the nodes stripe by stripe. `RepairSound` says that the trees
  whose root is still exposed are whole and legal, in the repaired part as in
  the rest; a node of any other tree ends unreached. This is where the reuse of
  trees needs `TreesClosed`.

That a walk is the entries chained together is used through the lemmas of
`ForestLemmas` (`WalkHop`, `WalkFrame`, `WalkStays`, ...), each proved by
induction on the rounds of `Walk`.

The hypothesis `BlossomsLegal` says that the forest is legal while the blossom
phase runs: that the entries written by `FindBlossom` and `FindCycle` keep every
walk legal. It is not true of the code in general. With two threads the walks a
blossom is laid out from can contain what another thread adds in the same phase;
finding 2 is what becomes of it in the node-level engines, which look for
repeated nodes, and finding 3 in the edge-level ones, which do not. The
theorems say that nothing else can go wrong: whatever the graph and the
schedule, if blossoms are laid out legally then so is all the rest. The runs
that check `ForestStaysLegal` check the hypothesis on their instances, and two
cases are proved without it: the engine without a blossom phase, and bipartite
graphs, where the sides of the nodes on a walk alternate (`Bipartite`) and no
thread ever finds an edge between two even nodes of one tree.

`Covered` and `Idle` are the third group, for what a search must not lose.
`NoEdgeLeft` speaks of the end of a search only; what is inductive says for each
phase where the even node of an edge into no tree is waiting. In augment it is in
the frontier; in expansion in `vector_1`, or its edge is still ahead of a thread,
or some thread grows the pair behind it; in the blossom phase in one of the two
vectors to be handed over or in a thread's results. In the node-parallel engine
an edge is ahead of a thread as well when its node is in a chunk no thread has
taken (`Untaken`); that a thread only stops when the counter is past the last
chunk is `AllTaken`. The same is said of the bridges between two trees, but for
one thread only: two threads can drop a bridge, which is finding 1.

With one thread on a bipartite graph the result is therefore maximum. When the
search gives up no edge leads from an even node out of the trees and none joins
two trees; a bipartite graph has no edge within a tree between even nodes. So
the odd tree nodes, with one side of the nodes in no tree, touch every edge, and
no two of them are mates and all are matched (`CoverIsMaximum`, by `FiniteSetTheorems`).
The engine that has no blossom phase promises no more than that
(`MaximumForEngine`).

`GrowsMatching` is a refinement: `MatchingGrowth` with `Outcome`, the matching
with the collected paths flipped while the flips are under way, and `M`
otherwise. A search step maps to a stutter, the end of phase 1 with paths to
`Grow`.

`GpuEnginesProofs` (and `GpuKernelProofs` for the first row), for every number of
nodes and of tasklets in flight, every undirected graph with a matching of it to
start from and every engine, without a condition but for the last row:

| theorem | statement |
|---|---|
| `ExclusiveTrees` | `Spec => []TreesExclusive` |
| `SoundAlways` | `Spec => [](LockInv /\ Sound)` |
| `TypesKept` | `Spec => []TypeOK` |
| `LegalForests` | `Spec => []ForestStaysLegal` |
| `ExactDistances` | `Spec => []DistancesExact` |
| `FittingQueue` | `Spec => []QueueFits` |
| `ExactPrefix` | `Spec => []PrefixExact` |
| `AccountedLocks` | `Spec => []LocksAccounted` |
| `DisjointFlips` | `Spec => []FlipsDisjoint` |
| `ReturnsMatching` | `Spec => []MatingBetween` |
| `WindowsAdjoin` | `Spec => []WindowsMeet` |
| `MatchingGrows` | `Spec => GrowsMatching` |
| `ReturnsMaximum` | `Spec /\ Tame => []FinishedMaximum` |

The argument. `LockInv` is the protocol of the augment kernel: no two tasklets
hold a common tree, a held tree is locked, and the edge of a tasklet between its
locks is a bridge. `Sound` (`GpuInvariants`) says the rest, part by part:

* *Augment.* Here a path is flipped while other tasklets go on, so neither the
  forest nor the matching is whole in between. `MatesKept`, `TreesSound` and
  `LocksSound` speak of the trees that are not `Taken` and of the nodes that are
  not `Unflipped`; `FlipsSound` keeps what a tasklet has left to mate in its two
  trees. When the kernel ends with no path found the forest is `Settled`.
* *Expand.* `PairsSound`: a pair in no tree is locked by the one tasklet that
  grows it, so the walk it gets is simple. `DistancesExact` goes with it.
* *Transform.* The CPU engines need a hypothesis here, `BlossomsLegal`; the GPU
  engines do not, because one kernel lists all blossoms while the forest stands
  still and another writes the entries. What makes a list of nodes a blossom is
  `EntriesSound`: an odd node is in the entry of one even node, its mate, and it
  cuts off what is below it (`OddsApart`): any walk from below passes it. From
  that `BlossomLemmas` shows that two walks of one tree first meet in an anchor
  (`BlossomSides`), that the chase by the distances ends there, and that the way
  round from each odd node is a legal walk. Several blossoms may claim one odd
  node, and an odd node may turn even while the entries of others that pass it
  are still to be written; so the invariant covers the walks to come (`Turns`)
  along with those there are, and leaves out the odd nodes that are about to
  turn (`Turning`). The lemma for `FillOdd` shows that it does not matter which
  blossom wins nor in what order the nodes are filled.
* *Queue and cache.* An append needs a free slot: the nodes queued are even,
  each once (`QueueSound`), and the node appended was not even before.
  `CacheSound`: a cache that is valid was made from slots that nothing has
  overwritten since. `PrefixExact` follows, with `FindRightmostLTEQ` and
  `UpperBound` shown to find the row of each tasklet.
* *Repair.* `RepairSound`: the trees whose root is still exposed are whole.

`GrowsMatching` is the same refinement as above: `MatchingGrowth` with the
matching that results when all flips under way are carried out. The step that
wins a second lock maps to `Grow`, every other one to a stutter.

`ReturnsMaximum` is Edmonds' theorem for this program, and says that no
interleaving of tasklets makes a search give up too early. Its invariant is
`Sound /\ Thorough`; `Thorough` adds what a search must not lose:

* `Heading`, for expansion: an edge out of the trees, from a node of the frontier,
  is still in the work of some tasklet, or another tasklet grows the pair behind it.
* `RaceWon`, for augment: if there was a bridge there is `Evidence` of a path, one
  found, or being flipped, or a tasklet about to take its second lock. A tasklet
  that gives up has lost against one with a *larger* first root, so they cannot
  all give up: this is where the order of the two locks is needed.
* `MatesMerged`, for transform: two even nodes are `Merged` if from both one comes
  to a common even node over nodes that are even, or about to be. The mate of a
  node that turns even is merged with it; the two ends of an edge a blossom was
  made of are, because the odd nodes between it and the base turn even, whichever
  blossom fills them.
* `Searched`: for the nodes whose turn in the queue is over no edge leads out of
  the trees (`LeadOn`), none bridges two trees (`Unbridged`) and the ends of each
  one inside a tree are merged (`Shrunk`); and every even node is queued. The
  windows of the queue say whose turn is over.

When the frontier runs empty the turn of every even node is over. In such a forest
`Merged` is an equivalence of the even nodes whose classes, the blossoms as far as
they have been shrunk, each have one node without a mate in the class: the root
of a tree or a node mated to an odd one. No edge joins two classes, an edge from
an even node to another class ends in an odd node, and there is one odd node less
than classes in each tree: so every matching leaves as many nodes alone as there
are trees, which is what `M` leaves (`ShrunkIsMaximum` in `BlossomLemmas`, by
`FiniteSetTheorems`).

`Tame` says of the start that the graph has no self-loop or the engine has one
edge per tasklet. It is needed: a kernel with a node per tasklet returns from the
whole row at a self-loop and may lose what comes after it, which is finding 4 and
the run `gpu_pernode_selfloop`. The loader of the data sets is not modelled; the
theorems above the last row include graphs with self-loops.

The assumptions on constants are `nodes \in Nat` (`NodesAssumption`),
`NumThreads \in Nat \ {0}` (`ThreadAssumption`), `Threshold \in Int`
(`ThresholdAssumption`), `ChunkSize \in Nat \ {0}` (`ChunkAssumption`) and
`StartsAssumption`: every start is an undirected graph
and a matching of it in which no node is its own mate. The callers hand over the
empty matching; a start with another one is what an earlier search leaves. In
`GpuEngines`, `EnginesAssumption` says that the engines are those of the program.

Only model-checked: liveness (`PhaseEnds`, `Terminates`), which needs ENABLED;
that the result of the CPU engines is maximum (`FinishedMaximum`,
`MaximumForEngine`) where there are blossoms;
that blossoms are laid out legally by one thread of a CPU engine, with
`EntriesSimple`, `BlossomHasBase` and `WalksAlwaysMeet`; the composition `PerEdgeEngine` with
`EdgeWorkers`.

## Assumptions and limits

* *Sequential consistency.* Steps interleave; a store is seen by all at once and
  in program order. The plain accesses are data races in the terms of C++ and
  CUDA; what compilers and weak memory may do to them beyond interleaving is not
  modelled. In particular a GPU block reads each cell of the forest afresh.
* *Fixed-width integers.* Node ids and counters are unbounded here. The one
  place where width may matter, the edge count of a frontier
  (`xb_cpu_peredge.h:71`), is a hazard without a property.
* *Buffers.* `paths_` and `blossom_buffer_` have sizes tuned per data set;
  instances small enough for TLC stay far below them. A hazard without a
  property.
* *One call per engine.* The GPU engine never resets `exhausted_` and begins
  with `tree_roots_` zero. All callers build a new engine per call and hand over
  an empty matching, and so do the runs.
* *More threads than chunks.* `parNewMatchingVector` reserves a negative size
  when the last threads have no node (`functions_for_par_1.cu:39`). The thread
  goes to `crashed` in the model; the instances avoid it.
* `blossom_to_base`, counters and timers are written and never decide anything.
* In the blossom phase the visits to nodes that are even already are left out:
  they do nothing, and a node never turns odd again.

## Not modelled

* The ablations without atomics (na, nab): copies of the modelled engines with
  the CAS taken out to measure what it costs. Their races are intended.
* The development stages of the GPU engine (1-8, loc, ob, p): near-copies of
  engine 10 that no runner and no benchmark uses and no test in the build asserts
  anything of.
  They are the largest files of the implementation, with the functions of the
  path table that only they call.
* Device utilities, graph loader, validation and statistics, runners,
  benchmarks, scripts: no protocol of their own.
* gunrock and ligra: third-party baselines, vendored. Together with the
  development stages they are most of the repository's lines.

## Plan

What is left, the most useful first:

1. `BlossomsLegal` and `FinishedMaximum` for one thread of the CPU engines, with
   the lemmas of `BlossomLemmas`.
2. `PerEdgeEngine`: the invariants of `SearchInvariants` with the slices of
   `EdgeWorkers` in place of shares.
3. A module of the path buffers with reserved offsets.
