--------------------------- MODULE AugmentPerEdge ---------------------------
(***************************************************************************)
(* Phase 1 of the edge-parallel CPU engine (run_xb_pro_peredge):           *)
(* parAugmentingPath_pro_edges, run by NumThreads threads on one slice     *)
(* each of the flattened edge list.                                        *)
(*                                                                         *)
(* A thread that meets a bridge between two trees locks both by CAS, the   *)
(* smaller root first, and only then copies the two root paths.  If the    *)
(* second CAS fails it unlocks the first tree and goes on: it never comes  *)
(* back to that edge.  The forest is frozen during the phase, so a step of *)
(* the model is one CAS.                                                   *)
(***************************************************************************)
EXTENDS XForest

CONSTANT Scenarios    \* the forests and edge lists a phase may start from

VARIABLES
  edges,            \* v_vector and w_vector: <<v, w>> by edge id
  select_tree,      \* select_tree[r] = 1: the tree rooted in r is locked
  path_collection,  \* the nonempty local paths, in the order of the merges
  pc, todo,         \* per thread: control point, edges eid .. end_edge-1
  local_path        \* per thread: its augmenting paths, one after the other

workerVars == <<select_tree, path_collection, pc, todo, local_path>>
vars == <<forestVars, edges, workerVars>>

\* Mutant: rounded down, the last edges belong to no thread.
EdgesRoundedDown == Len(edges) \div NumThreads

EdgesPerThread == (Len(edges) + NumThreads - 1) \div NumThreads

\* Thread t's part of the edge list; the last parts may be short or empty.
Slice(t) ==
  LET start_edge == t * EdgesPerThread
      end_edge   == IF Len(edges) <= (t + 1) * EdgesPerThread
                    THEN Len(edges) ELSE (t + 1) * EdgesPerThread
  IN  SubSeq(edges, start_edge + 1, end_edge)

TreeOf(e, i) == belongs[e[i]]
FirstTree(e)  == IF TreeOf(e, 1) < TreeOf(e, 2) THEN TreeOf(e, 1) ELSE TreeOf(e, 2)
SecondTree(e) == IF TreeOf(e, 1) < TreeOf(e, 2) THEN TreeOf(e, 2) ELSE TreeOf(e, 1)

Edge(t) == Head(todo[t])

-----------------------------------------------------------------------------
\* What the phase relies on: a legal forest, and the edges of a frontier of
\* even tree nodes.  PerEdgeEngine says when the engines deliver it.
LegalStart ==
  /\ ForestTypeOK
  /\ LegalForest
  /\ edges \in Seq(Node \X Node)
  /\ \A e \in Range(edges) : is_even[e[1]] = 1 /\ belongs[e[1]] # NoNode

Init ==
  /\ \E s \in Scenarios :
       /\ adj = s.adj
       /\ M = s.M
       /\ is_even = s.is_even
       /\ belongs = s.belongs
       /\ path_table = s.path_table
       /\ edges = s.edges
  /\ LegalStart
  /\ select_tree = [r \in Node |-> 0]
  /\ path_collection = <<>>
  /\ pc = [t \in Thread |-> "scan"]
  /\ todo = [t \in Thread |-> Slice(t)]
  /\ local_path = [t \in Thread |-> <<>>]

\* Leave the current edge for the next one.
NextEdge(t) ==
  /\ todo' = [todo EXCEPT ![t] = Tail(@)]
  /\ pc' = [pc EXCEPT ![t] = "scan"]

Skip(t) ==
  /\ pc[t] = "scan" /\ todo[t] # <<>>
  /\ ~IsBridge(Edge(t)[1], Edge(t)[2])
  /\ NextEdge(t)
  /\ UNCHANGED <<select_tree, path_collection, local_path>>

\* The CAS on the smaller root: on failure the edge is given up.
LockFirst(t) ==
  /\ pc[t] = "scan" /\ todo[t] # <<>>
  /\ IsBridge(Edge(t)[1], Edge(t)[2])
  /\ select_tree[FirstTree(Edge(t))] = 0
  /\ select_tree' = [select_tree EXCEPT ![FirstTree(Edge(t))] = 1]
  /\ pc' = [pc EXCEPT ![t] = "second"]
  /\ UNCHANGED <<path_collection, todo, local_path>>

\* Mutant: spin on the lock instead of giving the edge up.
SpinOnFirst(t) ==
  /\ pc[t] = "scan" /\ todo[t] # <<>>
  /\ IsBridge(Edge(t)[1], Edge(t)[2])
  /\ select_tree[FirstTree(Edge(t))] = 1
  /\ UNCHANGED workerVars

LockFirstFails(t) ==
  /\ pc[t] = "scan" /\ todo[t] # <<>>
  /\ IsBridge(Edge(t)[1], Edge(t)[2])
  /\ select_tree[FirstTree(Edge(t))] = 1
  /\ NextEdge(t)
  /\ UNCHANGED <<select_tree, path_collection, local_path>>

\* Mutants of LockSecond: an atomic add for the CAS; a plain store; and the
\* first tree unlocked also after success.
AddSecond(t) ==
  /\ pc[t] = "second"
  /\ select_tree' = [select_tree EXCEPT ![SecondTree(Edge(t))] = @ + 1]
  /\ local_path' = [local_path EXCEPT ![t] =
                      @ \o JoinWalks(path_table, Edge(t)[1], Edge(t)[2])]
  /\ NextEdge(t)
  /\ UNCHANGED path_collection

StoreSecond(t) ==
  /\ pc[t] = "second"
  /\ select_tree' = [select_tree EXCEPT ![SecondTree(Edge(t))] = 1]
  /\ local_path' = [local_path EXCEPT ![t] =
                      @ \o JoinWalks(path_table, Edge(t)[1], Edge(t)[2])]
  /\ NextEdge(t)
  /\ UNCHANGED path_collection

UnlockFirstAfterSecond(t) ==
  /\ pc[t] = "second"
  /\ select_tree[SecondTree(Edge(t))] = 0
  /\ select_tree' = [select_tree EXCEPT ![SecondTree(Edge(t))] = 1,
                                        ![FirstTree(Edge(t))] = 0]
  /\ local_path' = [local_path EXCEPT ![t] =
                      @ \o JoinWalks(path_table, Edge(t)[1], Edge(t)[2])]
  /\ NextEdge(t)
  /\ UNCHANGED path_collection

\* The CAS on the larger root; both trees now belong to this path for good.
LockSecond(t) ==
  /\ pc[t] = "second"
  /\ select_tree[SecondTree(Edge(t))] = 0
  /\ select_tree' = [select_tree EXCEPT ![SecondTree(Edge(t))] = 1]
  /\ local_path' = [local_path EXCEPT ![t] =
                      @ \o JoinWalks(path_table, Edge(t)[1], Edge(t)[2])]
  /\ NextEdge(t)
  /\ UNCHANGED path_collection

LockSecondFails(t) ==
  /\ pc[t] = "second"
  /\ select_tree[SecondTree(Edge(t))] = 1
  /\ pc' = [pc EXCEPT ![t] = "release"]
  /\ UNCHANGED <<select_tree, path_collection, todo, local_path>>

\* Mutant: the first tree stays locked.
KeepFirst(t) ==
  /\ pc[t] = "release"
  /\ NextEdge(t)
  /\ UNCHANGED <<select_tree, path_collection, local_path>>

Release(t) ==
  /\ pc[t] = "release"
  /\ select_tree' = [select_tree EXCEPT ![FirstTree(Edge(t))] = 0]
  /\ NextEdge(t)
  /\ UNCHANGED <<path_collection, local_path>>

\* The merge under path_mutex_lock, then the thread ends.
Merge(t) ==
  /\ pc[t] = "scan" /\ todo[t] = <<>>
  /\ path_collection' = IF local_path[t] = <<>> THEN path_collection
                        ELSE Append(path_collection, local_path[t])
  /\ local_path' = [local_path EXCEPT ![t] = <<>>]
  /\ pc' = [pc EXCEPT ![t] = "done"]
  /\ UNCHANGED <<select_tree, todo>>

Worker(t) ==
  \/ Skip(t)
  \/ LockFirst(t) \/ LockFirstFails(t)
  \/ LockSecond(t) \/ LockSecondFails(t)
  \/ Release(t)
  \/ Merge(t)

\* All threads are joined.
Joined == \A t \in Thread : pc[t] = "done"

\* The phase is over; the driver takes it from here.
Terminated == Joined /\ UNCHANGED vars

Next ==
  \/ \E t \in Thread : Worker(t) /\ UNCHANGED <<forestVars, edges>>
  \/ Terminated

\* The operating system runs every thread until it ends.
Fairness == \A t \in Thread : WF_vars(Worker(t) /\ UNCHANGED <<forestVars, edges>>)

Spec == Init /\ [][Next]_vars /\ Fairness

-----------------------------------------------------------------------------
TypeOK ==
  /\ ForestTypeOK
  /\ edges \in Seq(Node \X Node)
  /\ select_tree \in [Node -> {0, 1}]
  /\ path_collection \in Seq(Seq(Node))
  /\ pc \in [Thread -> {"scan", "second", "release", "done"}]
  /\ todo \in [Thread -> Seq(Node \X Node)]
  /\ local_path \in [Thread -> Seq(Node)]

\* The nodes that lie on an augmenting path found so far.
OnPath ==
  (UNION {Range(local_path[t]) : t \in Thread}) \cup
  (UNION {Range(path_collection[i]) : i \in DOMAIN path_collection})

(***************************************************************************)
(* The paths found in one phase are node-disjoint: no node occurs twice in *)
(* what the threads hold and what they have merged.  Flipping them in      *)
(* parallel (parNewMatchingVector) relies on it.                           *)
(***************************************************************************)
PathsDisjoint ==
  /\ \A t \in Thread : IsInjective(local_path[t])
  /\ \A i \in DOMAIN path_collection : IsInjective(path_collection[i])
  /\ \A t, u \in Thread : t # u =>
       Range(local_path[t]) \cap Range(local_path[u]) = {}
  /\ \A t \in Thread, i \in DOMAIN path_collection :
       Range(local_path[t]) \cap Range(path_collection[i]) = {}
  /\ \A i, j \in DOMAIN path_collection : i # j =>
       Range(path_collection[i]) \cap Range(path_collection[j]) = {}

\* Thread t has locked its first tree and not yet decided about the second.
HoldsFirst(t) == pc[t] \in {"second", "release"}

(***************************************************************************)
(* No lock leaks: a locked tree is held by exactly one thread between its  *)
(* two CAS, or lies on a found path, never both.                           *)
(***************************************************************************)
LocksAccounted ==
  \A r \in Node : select_tree[r] = 1 =>
    \/ /\ \E x \in OnPath : belongs[x] = r
       /\ \A t \in Thread : HoldsFirst(t) => FirstTree(Edge(t)) # r
    \/ /\ \A x \in OnPath : belongs[x] # r
       /\ \E t \in Thread :
            /\ HoldsFirst(t) /\ FirstTree(Edge(t)) = r
            /\ \A u \in Thread \ {t} : HoldsFirst(u) => FirstTree(Edge(u)) # r

(***************************************************************************)
(* Why both hold at every step.  A thread between its two CAS is at a      *)
(* bridge and has the first tree to itself; every node of a found path is  *)
(* in a locked tree, never one of those; what a thread has left to do is   *)
(* part of the frontier.                                                   *)
(***************************************************************************)
LocksInductive ==
  /\ \A t \in Thread : Range(todo[t]) \subseteq Range(edges)
  /\ \A t \in Thread : HoldsFirst(t) =>
       /\ todo[t] # <<>>
       /\ IsBridge(Edge(t)[1], Edge(t)[2])
       /\ select_tree[FirstTree(Edge(t))] = 1
       /\ \A x \in OnPath : belongs[x] # FirstTree(Edge(t))
  /\ \A t, u \in Thread : (t # u /\ HoldsFirst(t) /\ HoldsFirst(u)) =>
       FirstTree(Edge(t)) # FirstTree(Edge(u))
  /\ \A x \in OnPath : belongs[x] \in Node /\ select_tree[belongs[x]] = 1

(***************************************************************************)
(* Losing a CAS is harmless as long as somebody wins: when the phase ends, *)
(* some path was found if the frontier held a bridge at all.  The search   *)
(* gives up the edges of the phase on the strength of this.                *)
(***************************************************************************)
SomeBridgeWins ==
  (Joined /\ \E i \in DOMAIN edges : IsBridge(edges[i][1], edges[i][2]))
    => path_collection # <<>>

(***************************************************************************)
(* The phase pairs trees, each at most once: it implements TreePairing.    *)
(***************************************************************************)
Bridges == {<<belongs[edges[i][1]], belongs[edges[i][2]]>> :
              i \in {j \in DOMAIN edges : IsBridge(edges[j][1], edges[j][2])}}

Pairing == INSTANCE TreePairing WITH
             bridges <- Bridges, taken <- {belongs[x] : x \in OnPath}

PairsTrees == Pairing!Spec

(***************************************************************************)
(* Every thread ends, whatever the others do: there is no waiting in the   *)
(* phase, a lost CAS always moves on.                                      *)
(***************************************************************************)
PhaseEnds == <>Joined
=============================================================================
