--------------------------- MODULE GpuKernelProofs --------------------------
(***************************************************************************)
(* Why the kernels of the GPU engines keep Sound and Thorough, for every   *)
(* graph, engine and number of tasklets in flight, one lemma per step of a *)
(* tasklet.  First what the lock protocol of the augment kernel            *)
(* guarantees: two tasklets never hold one tree.  Then the three kernels   *)
(* in turn, for Sound and once more for Thorough.                          *)
(***************************************************************************)
EXTENDS GpuInvariants, BlossomLemmas

-----------------------------------------------------------------------------
(***************************************************************************)
(* The trees a tasklet holds.                                              *)
(***************************************************************************)
Owned(t) ==
  {r \in Node : \/ t.at \in {"second", "release"} /\ r = First(Edge(t))
                \/ t.at = "flip" /\ r \in {First(Edge(t)), Second(Edge(t))}}

TreesExclusive ==
  \A t, u \in running : t # u => Owned(t) \cap Owned(u) = {}

\* No kernel runs unless the host has launched one.
Idle == phase \notin Kernels => running = {}

Typed ==
  /\ belongs \in [Node -> Node \cup {NoNode}]
  /\ atomic_locks_tree \in [Node -> {0, 1}]

\* What a tasklet has seen of its edge.
EdgesSeen ==
  \A t \in running :
    /\ t.at \in {"second", "release", "flip"} => phase = "augment" /\ Edge(t) \in Bridges
    /\ (t.at \in {"claim", "grow"} /\ phase = "expand") => Edge(t) \in Node \X Node

OwnedLocked ==
  \A t \in running : \A r \in Owned(t) : atomic_locks_tree[r] = 1

LockInv == Typed /\ Idle /\ EdgesSeen /\ OwnedLocked /\ TreesExclusive

-----------------------------------------------------------------------------
\* The trees of a bridge are two nodes.
LEMMA BridgeRoots ==
  ASSUME Typed, NEW e \in Bridges
  PROVE  /\ e \in Node \X Node
         /\ First(e) \in Node /\ Second(e) \in Node /\ First(e) # Second(e)
         /\ {First(e), Second(e)} = {belongs[e[1]], belongs[e[2]]}
<1>1. e \in Node \X Node /\ e[1] \in Node /\ e[2] \in Node
  BY DEF Bridges
<1>2. /\ belongs[e[1]] \in Node /\ belongs[e[2]] \in Node
      /\ belongs[e[1]] # belongs[e[2]]
  BY <1>1 DEF Bridges, IsBridge, Typed
<1>3. QED
  BY <1>1, <1>2 DEF First, Second

\* A step that leaves belongs and is_even alone changes no tasklet's trees.
LEMMA OwnedKept ==
  ASSUME belongs' = belongs, is_even' = is_even
  PROVE  /\ \A t : Owned(t)' = Owned(t)
         /\ Bridges' = Bridges
  BY DEF Owned, First, Second, Edge, Bridges, IsBridge

\* What a tasklet that holds a tree has in hand.
LEMMA OwnedOf ==
  ASSUME Typed, EdgesSeen, NEW t \in running
  PROVE  /\ t.at \in {"second", "release"} =>
              /\ Owned(t) = {First(Edge(t))}
              /\ First(Edge(t)) \in Node
         /\ t.at = "flip" => Owned(t) = {First(Edge(t)), Second(Edge(t))}
         /\ t.at \notin {"second", "release", "flip"} => Owned(t) = {}
<1>1. t.at \in {"second", "release", "flip"} =>
        First(Edge(t)) \in Node /\ Second(Edge(t)) \in Node
  BY BridgeRoots DEF EdgesSeen
<1>2. QED
  BY <1>1 DEF Owned

-----------------------------------------------------------------------------
(***************************************************************************)
(* The augment kernel: one lemma per step of a tasklet.                    *)
(***************************************************************************)
\* The step of tasklet t to n keeps the invariant if n has seen a bridge and
\* holds trees that are locked afterwards and that no other tasklet holds.
LEMMA TurnKeeps ==
  ASSUME LockInv, phase = "augment", phase' = phase,
         belongs' = belongs, is_even' = is_even, Typed',
         NEW t, NEW T, Turn(t, T),
         \A n \in T : n.at \in {"second", "release", "flip"} => Edge(n) \in Bridges,
         \A n \in T : \A r \in Owned(n) : atomic_locks_tree'[r] = 1,
         \A n \in T : \A u \in running \ {t} : Owned(n) \cap Owned(u) = {},
         \A n, m \in T : n = m,
         \A u \in running \ {t} : \A r \in Owned(u) : atomic_locks_tree'[r] = 1
  PROVE  LockInv'
<1>1. /\ \A u : Owned(u)' = Owned(u)
      /\ Bridges' = Bridges
      /\ \A u : Edge(u)' = Edge(u)
  BY OwnedKept DEF Edge
<1>2. running' = (running \ {t}) \cup T
  BY DEF Turn
<1>3. Idle'
  BY DEF Idle, Kernels
<1>4. EdgesSeen'
  BY <1>1, <1>2 DEF EdgesSeen, LockInv
<1>5. OwnedLocked'
  BY <1>1, <1>2 DEF OwnedLocked
<1>6. TreesExclusive'
  BY <1>1, <1>2 DEF TreesExclusive, LockInv
<1>7. QED
  BY <1>3, <1>4, <1>5, <1>6 DEF LockInv

\* Taking, or failing to take, the lock of the smaller tree keeps the protocol.
LEMMA LockFirstKeeps ==
  ASSUME LockInv, phase = "augment", phase' = phase,
         belongs' = belongs, is_even' = is_even, LockFirst
  PROVE  LockInv'
<1>1. PICK t \in Ready :
        /\ Edge(t) \in Bridges
        /\ Turn(t, IF atomic_locks_tree[First(Edge(t))] = 0 THEN Goto(t, "second") ELSE {})
        /\ atomic_locks_tree' = [atomic_locks_tree EXCEPT ![First(Edge(t))] = 1]
  BY DEF LockFirst
<1> DEFINE f == First(Edge(t))
           n == Tasklet("second", t.work, t.flips)
<1>2. f \in Node
  BY <1>1, BridgeRoots DEF LockInv
<1>3. Typed'
  BY <1>1, <1>2 DEF LockInv, Typed
<1>4. \A r \in Node : atomic_locks_tree[r] = 1 => atomic_locks_tree'[r] = 1
  BY <1>1, <1>2 DEF LockInv, Typed
<1>5. \A u \in running : \A r \in Owned(u) : atomic_locks_tree'[r] = 1
  BY <1>4 DEF LockInv, OwnedLocked, Owned
<1>6. CASE atomic_locks_tree[f] = 0
  <2>1. Turn(t, {n})
    BY <1>1, <1>6 DEF Goto
  <2>2. n.at = "second" /\ Edge(n) = Edge(t)
    BY DEF Tasklet, Edge
  <2>3. Owned(n) = {f}
    BY <1>2, <2>2 DEF Owned
  <2>4. atomic_locks_tree'[f] = 1
    BY <1>1, <1>2 DEF LockInv, Typed
  <2>5. \A u \in running : Owned(n) \cap Owned(u) = {}
    BY <1>6, <2>3 DEF LockInv, OwnedLocked
  <2>6. QED
    BY <1>1, <1>3, <1>5, <2>1, <2>2, <2>3, <2>4, <2>5, TurnKeeps
<1>7. CASE atomic_locks_tree[f] # 0
  <2>1. Turn(t, {})
    BY <1>1, <1>7
  <2>2. QED
    BY <1>3, <1>5, <2>1, TurnKeeps
<1>8. QED
  BY <1>6, <1>7

\* So does taking the lock of the larger one, and failing to;
LEMMA LockSecondKeeps ==
  ASSUME LockInv, phase = "augment", phase' = phase,
         belongs' = belongs, is_even' = is_even, LockSecond
  PROVE  LockInv'
<1>1. PICK t \in At("second") :
        /\ Turn(t, IF atomic_locks_tree[Second(Edge(t))] = 0
                   THEN Flipping(t) ELSE Goto(t, "release"))
        /\ atomic_locks_tree' = [atomic_locks_tree EXCEPT ![Second(Edge(t))] = 1]
  BY DEF LockSecond
<1> DEFINE f == First(Edge(t))
           s == Second(Edge(t))
<1>2. t \in running /\ t.at = "second"
  BY DEF At
<1>3. Edge(t) \in Bridges /\ Owned(t) = {f}
  BY <1>2, OwnedOf DEF LockInv, EdgesSeen
<1>4. f \in Node /\ s \in Node /\ f # s
  BY <1>3, BridgeRoots DEF LockInv
<1>5. Typed'
  BY <1>1, <1>4 DEF LockInv, Typed
<1>6. \A r \in Node : atomic_locks_tree[r] = 1 => atomic_locks_tree'[r] = 1
  BY <1>1, <1>4 DEF LockInv, Typed
<1>7. \A u \in running : \A r \in Owned(u) : atomic_locks_tree'[r] = 1
  BY <1>6 DEF LockInv, OwnedLocked, Owned
<1>8. \A u \in running \ {t} : f \notin Owned(u)
  BY <1>2, <1>3 DEF LockInv, TreesExclusive
<1>9. CASE atomic_locks_tree[s] = 0
  <2> DEFINE n == Tasklet("flip", t.work, FlipsFor(Edge(t)))
  <2>1. Turn(t, {n})
    BY <1>1, <1>9 DEF Flipping
  <2>2. n.at = "flip" /\ Edge(n) = Edge(t)
    BY DEF Tasklet, Edge
  <2>3. Owned(n) = {f, s}
    BY <1>4, <2>2 DEF Owned
  <2>4. atomic_locks_tree'[f] = 1 /\ atomic_locks_tree'[s] = 1
    BY <1>1, <1>2, <1>3, <1>4, <1>7 DEF LockInv, Typed
  <2>5. \A u \in running : s \notin Owned(u)
    BY <1>9 DEF LockInv, OwnedLocked
  <2>6. \A u \in running \ {t} : Owned(n) \cap Owned(u) = {}
    BY <1>8, <2>3, <2>5
  <2>7. QED
    BY <1>3, <1>5, <1>7, <2>1, <2>2, <2>3, <2>4, <2>6, TurnKeeps
<1>10. CASE atomic_locks_tree[s] # 0
  <2> DEFINE n == Tasklet("release", t.work, t.flips)
  <2>1. Turn(t, {n})
    BY <1>1, <1>10 DEF Goto
  <2>2. n.at = "release" /\ Edge(n) = Edge(t)
    BY DEF Tasklet, Edge
  <2>3. Owned(n) = {f}
    BY <1>4, <2>2 DEF Owned
  <2>4. \A u \in running \ {t} : Owned(n) \cap Owned(u) = {}
    BY <1>8, <2>3
  <2>5. atomic_locks_tree'[f] = 1
    BY <1>2, <1>3, <1>7
  <2>6. QED
    BY <1>3, <1>5, <1>7, <2>1, <2>2, <2>3, <2>4, <2>5, TurnKeeps
<1>11. QED
  BY <1>9, <1>10

\* so does giving the first lock back;
LEMMA ReleaseFirstKeeps ==
  ASSUME LockInv, phase = "augment", phase' = phase,
         belongs' = belongs, is_even' = is_even, ReleaseFirst
  PROVE  LockInv'
<1>1. PICK t \in At("release") :
        /\ Turn(t, {})
        /\ atomic_locks_tree' = [atomic_locks_tree EXCEPT ![First(Edge(t))] = 0]
  BY DEF ReleaseFirst
<1> DEFINE f == First(Edge(t))
<1>2. t \in running /\ t.at = "release"
  BY DEF At
<1>3. Owned(t) = {f} /\ f \in Node
  BY <1>2, OwnedOf DEF LockInv
<1>4. \A u \in running \ {t} : f \notin Owned(u)
  BY <1>2, <1>3 DEF LockInv, TreesExclusive
<1>5. Typed'
  BY <1>1, <1>3 DEF LockInv, Typed
<1>6. \A u \in running \ {t} : \A r \in Owned(u) : r \in Node /\ atomic_locks_tree[r] = 1
  BY DEF LockInv, OwnedLocked, Owned
<1>7. \A u \in running \ {t} : \A r \in Owned(u) : atomic_locks_tree'[r] = 1
  BY <1>1, <1>4, <1>6 DEF LockInv, Typed
<1>8. QED
  BY <1>1, <1>5, <1>7, TurnKeeps

\* so does flipping a pair, the last of which ends a holder's work.
LEMMA FlipPairKeeps ==
  ASSUME LockInv, phase = "augment", phase' = phase,
         belongs' = belongs, is_even' = is_even, FlipPair
  PROVE  LockInv'
<1>1. PICK t \in At("flip") :
        /\ Turn(t, IF Len(t.flips) = 1 THEN NextEdge(t)
                   ELSE {Tasklet("flip", t.work, Tail(t.flips))})
        /\ atomic_locks_tree' = atomic_locks_tree
  BY DEF FlipPair
<1>2. t \in running /\ t.at = "flip"
  BY DEF At
<1>3. Edge(t) \in Bridges
  BY <1>2 DEF LockInv, EdgesSeen
<1>4. Typed'
  BY <1>1 DEF LockInv, Typed
<1>5. \A u \in running : \A r \in Owned(u) : atomic_locks_tree'[r] = 1
  BY <1>1 DEF LockInv, OwnedLocked
<1>6. CASE Len(t.flips) # 1
  <2> DEFINE n == Tasklet("flip", t.work, Tail(t.flips))
  <2>1. Turn(t, {n})
    BY <1>1, <1>6
  <2>2. n.at = t.at /\ Edge(n) = Edge(t)
    BY <1>2 DEF Tasklet, Edge
  <2>3. Owned(n) = Owned(t)
    BY <2>2 DEF Owned
  <2>4. \A u \in running \ {t} : Owned(n) \cap Owned(u) = {}
    BY <1>2, <2>3 DEF LockInv, TreesExclusive
  <2>5. QED
    BY <1>2, <1>3, <1>4, <1>5, <2>1, <2>2, <2>3, <2>4, TurnKeeps
<1>7. CASE Len(t.flips) = 1
  <2>1. Turn(t, NextEdge(t))
    BY <1>1, <1>7
  <2>2. \A n \in NextEdge(t) : n = Tasklet("scan", Tail(t.work), <<>>)
    BY DEF NextEdge
  <2>3. \A n \in NextEdge(t) : n.at = "scan" /\ Owned(n) = {}
    BY <2>2 DEF Owned, Tasklet
  <2>4. QED
    BY <1>4, <1>5, <2>1, <2>2, <2>3, TurnKeeps
<1>8. QED
  BY <1>6, <1>7

-----------------------------------------------------------------------------
(***************************************************************************)
(* The other two kernels hold no tree; they only must keep the types.      *)
(***************************************************************************)
\* Outside of the augment kernel no tasklet holds a tree.
LEMMA NothingOwned ==
  ASSUME running' = {} \/ (EdgesSeen' /\ phase' # "augment")
  PROVE  /\ OwnedLocked'
         /\ TreesExclusive'
<1>1. \A t \in running' : t.at \notin {"second", "release", "flip"}
  BY DEF EdgesSeen
<1>2. \A t \in running' : Owned(t)' = {}
  BY <1>1 DEF Owned
<1>3. QED
  BY <1>2 DEF OwnedLocked, TreesExclusive

\* The expand kernel holds no tree.
LEMMA ExpandKeeps ==
  ASSUME LockInv, phase = "expand", phase' = phase,
         atomic_locks_tree' = atomic_locks_tree,
         SeeFree \/ ClaimPair \/ Grow
  PROVE  LockInv'
<1>1. Idle'
  BY DEF Idle, Kernels
<1>2. \A u \in running : /\ u.at \notin {"second", "release", "flip"}
                         /\ u.at \in {"claim", "grow"} => Edge(u) \in Node \X Node
  BY DEF LockInv, EdgesSeen
<1>3. \A u : \A n \in NextEdge(u) : n.at = "scan"
  BY DEF NextEdge, Tasklet
<1>4. \A u : \A n \in Goto(u, "claim") \cup Goto(u, "grow") :
         n.at \in {"claim", "grow"} /\ Edge(n) = Edge(u)
  BY DEF Goto, Tasklet, Edge
<1>5. \A u : Edge(u)' = Edge(u)
  BY DEF Edge
<1>6. CASE SeeFree
  <2>1. PICK t \in Ready :
          Turn(t, IF Edge(t) \in Outward THEN Goto(t, "claim") ELSE NextEdge(t))
    BY <1>6 DEF SeeFree
  <2>2. Edge(t) \in Outward => Edge(t) \in Node \X Node
    BY DEF Outward
  <2>3. EdgesSeen'
    BY <1>2, <1>3, <1>4, <1>5, <2>1, <2>2 DEF EdgesSeen, Turn
  <2>4. Typed'
    BY <1>6 DEF SeeFree, LockInv, Typed
  <2>5. QED
    BY <1>1, <2>3, <2>4, NothingOwned DEF LockInv
<1>7. CASE ClaimPair
  <2>1. PICK t \in At("claim") :
          Turn(t, IF atomic_locks_match[Pair(Edge(t))] = 0 THEN Goto(t, "grow") ELSE NextEdge(t))
    BY <1>7 DEF ClaimPair
  <2>2. Edge(t) \in Node \X Node
    BY <1>2 DEF At
  <2>3. EdgesSeen'
    BY <1>2, <1>3, <1>4, <1>5, <2>1, <2>2 DEF EdgesSeen, Turn
  <2>4. Typed'
    BY <1>7 DEF ClaimPair, LockInv, Typed
  <2>5. QED
    BY <1>1, <2>3, <2>4, NothingOwned DEF LockInv
<1>8. CASE Grow
  <2>1. PICK t \in At("grow") :
          /\ belongs' = [belongs EXCEPT ![Edge(t)[2]] = belongs[Edge(t)[1]],
                                        ![M[Edge(t)[2]]] = belongs[Edge(t)[1]]]
          /\ Turn(t, NextEdge(t))
    BY <1>8 DEF Grow
  <2>2. Edge(t) \in Node \X Node
    BY <1>2 DEF At
  <2>3. belongs[Edge(t)[1]] \in Node \cup {NoNode}
    BY <2>2 DEF LockInv, Typed
  <2>4. Typed'
    BY <2>1, <2>3 DEF LockInv, Typed
  <2>5. EdgesSeen'
    BY <1>2, <1>3, <1>5, <2>1 DEF EdgesSeen, Turn
  <2>6. QED
    BY <1>1, <2>4, <2>5, NothingOwned DEF LockInv
<1>9. QED
  BY <1>6, <1>7, <1>8

\* Nor does the transform kernel.
LEMMA TransformKeeps ==
  ASSUME LockInv, phase = "transform", phase' = phase, belongs' = belongs,
         atomic_locks_tree' = atomic_locks_tree,
         SeeOdd \/ ClaimOdd \/ FillOdd
  PROVE  LockInv'
<1>1. Idle' /\ Typed'
  BY DEF Idle, Kernels, LockInv, Typed
<1>2. \A u \in running : u.at \notin {"second", "release", "flip"}
  BY DEF LockInv, EdgesSeen
<1>3. \A u : \A n \in Goto(u, "claim") \cup Goto(u, "fill") :
         n.at \notin {"second", "release", "flip"}
  BY DEF Goto, Tasklet
<1>4. PICK t, T : /\ Turn(t, T)
                  /\ T \in {{}, Goto(t, "claim"), Goto(t, "fill")}
  <2>1. CASE SeeOdd
    BY <2>1 DEF SeeOdd
  <2>2. CASE ClaimOdd
    BY <2>2 DEF ClaimOdd
  <2>3. CASE FillOdd
    BY <2>3 DEF FillOdd
  <2>4. QED
    BY <2>1, <2>2, <2>3
<1>5. EdgesSeen'
  BY <1>2, <1>3, <1>4 DEF EdgesSeen, Turn
<1>6. QED
  BY <1>1, <1>5, NothingOwned DEF LockInv

\* The host steps in between two kernels, when no tasklet runs.
LEMMA HostKeeps ==
  ASSUME LockInv, Host
  PROVE  LockInv'
<1>1. running = {} /\ running' = {}
  BY DEF Host, InitAlternatingForest, Loop, EndAugment, EndExpand, EndTransform,
         KernelDone, Launch, LockInv, Idle, Kernels, kernelVars
<1>2. Typed'
  <2>1. CASE InitAlternatingForest
    BY <2>1 DEF InitAlternatingForest, LockInv, Typed, Zeros
  <2>2. CASE Loop \/ EndAugment \/ EndExpand \/ EndTransform
    BY <2>2 DEF Loop, EndAugment, EndExpand, EndTransform, deviceVars, forestVars,
                lockVars, LockInv, Typed
  <2>3. QED
    BY <2>1, <2>2 DEF Host
<1>3. Idle' /\ EdgesSeen'
  BY <1>1 DEF Idle, EdgesSeen
<1>4. QED
  BY <1>1, <1>2, <1>3, NothingOwned DEF LockInv

-----------------------------------------------------------------------------
\* A new engine holds no lock.
LEMMA InitLocks ==
  ASSUME Init PROVE LockInv
<1>1. \A v \in Node : 0 \in Node
  BY NodesAssumption DEF Node
<1>2. belongs \in [Node -> Node \cup {NoNode}]
  BY <1>1 DEF Init
<1>3. atomic_locks_tree \in [Node -> {0, 1}]
  BY DEF Init, Zeros
<1>4. running = {}
  BY DEF Init
<1>5. QED
  BY <1>2, <1>3, <1>4 DEF LockInv, Typed, Idle, EdgesSeen, OwnedLocked, TreesExclusive

\* Every step of the engine keeps the protocol.
LEMMA NextLocks == LockInv /\ [Next]_vars => LockInv'
<1>1. SUFFICES ASSUME LockInv, [Next]_vars PROVE LockInv'
  OBVIOUS
<1>2. CASE AugmentTasklet
  <2>1. phase = "augment" /\ phase' = phase /\ belongs' = belongs /\ is_even' = is_even
    BY <1>2 DEF AugmentTasklet, hostVars
  <2>2. QED
    BY SMTT(30), <1>1, <1>2, <2>1, LockFirstKeeps, LockSecondKeeps, ReleaseFirstKeeps,
       FlipPairKeeps
    DEF AugmentTasklet
<1>3. CASE ExpandTasklet
  BY <1>1, <1>3, ExpandKeeps DEF ExpandTasklet, hostVars
<1>4. CASE TransformTasklet
  BY <1>1, <1>4, TransformKeeps DEF TransformTasklet, hostVars
<1>5. CASE Host
  BY <1>1, <1>5, HostKeeps
<1>6. CASE Finished \/ UNCHANGED vars
  <2>1. UNCHANGED vars
    BY <1>6 DEF Finished
  <2>2. QED
    BY SMTT(30), <1>1, <2>1 DEF vars, forestVars, lockVars, hostVars, kernelVars, LockInv, Typed, Idle,
       EdgesSeen, OwnedLocked, TreesExclusive, Owned, First, Second, Edge, Bridges, IsBridge
<1>7. QED
  BY <1>1, <1>2, <1>3, <1>4, <1>5, <1>6 DEF Next

(***************************************************************************)
(* Two tasklets in flight never hold one tree, neither between the two     *)
(* exchanges nor while they flip nor after a lost exchange.                *)
(***************************************************************************)
THEOREM ExclusiveTrees == Spec => []TreesExclusive
<1>1. LockInv => TreesExclusive
  BY DEF LockInv
<1>2. QED
  BY <1>1, InitLocks, NextLocks, PTL DEF Spec

-----------------------------------------------------------------------------
(***************************************************************************)
(* The queue.  A queue is a record of its slots and four counters; the     *)
(* slots do not matter here.                                               *)
(***************************************************************************)
IsQueue(q) == q \in [slots : {q.slots}, b1 : Nat, e1 : Nat, b2 : Nat, e2 : Nat]

\* A queue is empty after Clear.
LEMMA Cleared ==
  /\ IsQueue(Clear(nodes))
  /\ Clear(nodes).b1 = 0 /\ Clear(nodes).e1 = 0
  /\ Clear(nodes).b2 = 0 /\ Clear(nodes).e2 = 0
BY DEF IsQueue, Clear

\* The first window moves to where the second one ends.
LEMMA Moved1 ==
  ASSUME NEW q, IsQueue(q), NEW r, r = PrepareForAppendingENode1(q)
  PROVE  IsQueue(r) /\ r.b1 = q.e2 /\ r.e1 = q.e2 /\ r.b2 = q.b2 /\ r.e2 = q.e2
BY DEF IsQueue, PrepareForAppendingENode1

\* The second window moves to where the first one ends.
LEMMA Moved2 ==
  ASSUME NEW q, IsQueue(q), NEW r, r = PrepareForAppendingENode2(q)
  PROVE  IsQueue(r) /\ r.b2 = q.e1 /\ r.e2 = q.e1 /\ r.b1 = q.b1 /\ r.e1 = q.e1
BY DEF IsQueue, PrepareForAppendingENode2

\* A queue of which the slots have changed, or a counter has moved.
LEMMA Refilled ==
  ASSUME NEW q, IsQueue(q), NEW s, NEW r, r = [q EXCEPT !.slots = s]
  PROVE  IsQueue(r) /\ r.b1 = q.b1 /\ r.e1 = q.e1 /\ r.b2 = q.b2 /\ r.e2 = q.e2
<1>1. r.slots = s
  BY DEF IsQueue
<1>2. r.b1 = q.b1 /\ r.e1 = q.e1 /\ r.b2 = q.b2 /\ r.e2 = q.e2
  BY DEF IsQueue
<1>3. r \in [slots : {s}, b1 : Nat, e1 : Nat, b2 : Nat, e2 : Nat]
  BY DEF IsQueue
<1>4. QED
  BY <1>1, <1>2, <1>3 DEF IsQueue

\* Moving the end of a window leaves the other counters alone.
LEMMA Advanced ==
  ASSUME NEW q, IsQueue(q), NEW n \in Nat
  PROVE  /\ \A r : r = [q EXCEPT !.e1 = n] =>
              IsQueue(r) /\ r.e1 = n /\ r.b1 = q.b1 /\ r.e2 = q.e2 /\ r.b2 = q.b2
         /\ \A r : r = [q EXCEPT !.e2 = n] =>
              IsQueue(r) /\ r.e2 = n /\ r.b2 = q.b2 /\ r.e1 = q.e1 /\ r.b1 = q.b1
BY DEF IsQueue

\* What an append leaves: other slots, and the end of its window moved to n.
Filled1(q, s, n) == [q EXCEPT !.slots = s, !.e1 = n]
Filled2(q, s, n) == [q EXCEPT !.slots = s, !.e2 = n]

\* Filling a window moves its end only.
LEMMA Filling ==
  ASSUME NEW q, IsQueue(q), NEW s, NEW n \in Nat
  PROVE  /\ \A r : r = Filled1(q, s, n) =>
              IsQueue(r) /\ r.e1 = n /\ r.b1 = q.b1 /\ r.e2 = q.e2 /\ r.b2 = q.b2
         /\ \A r : r = Filled2(q, s, n) =>
              IsQueue(r) /\ r.e2 = n /\ r.b2 = q.b2 /\ r.e1 = q.e1 /\ r.b1 = q.b1
<1>1. PICK p : p = [q EXCEPT !.slots = s]
  OBVIOUS
<1>2. IsQueue(p) /\ p.b1 = q.b1 /\ p.e1 = q.e1 /\ p.b2 = q.b2 /\ p.e2 = q.e2
  BY <1>1, Refilled
<1>3. Filled1(q, s, n) = [p EXCEPT !.e1 = n] /\ Filled2(q, s, n) = [p EXCEPT !.e2 = n]
  BY <1>1, Zenon DEF Filled1, Filled2
<1>4. QED
  BY <1>2, <1>3, Advanced

-----------------------------------------------------------------------------
\* The pairs made of a walk are pairs of nodes on it.
LEMMA PairsOnWalk ==
  ASSUME NEW p \in Seq(Node), Len(p) % 2 = 1
  PROVE  /\ PairUp(p) \in Seq(Node \X Node)
         /\ \A e \in Range(PairUp(p)) : \E i, j \in 1..Len(p) : e[1] = p[i] /\ e[2] = p[j]
<1> DEFINE n == Len(p) \div 2
<1>1. Len(p) \in Nat /\ \A i \in 1..Len(p) : p[i] \in Node
  BY LenProperties, ElementOfSeq
<1>2. n \in Nat /\ \A i \in 1..n : 2 * i \in 1..Len(p) /\ 2 * i + 1 \in 1..Len(p)
  BY <1>1
<1> HIDE DEF n
<1>3. PairUp(p) = [i \in 1..n |-> <<p[2 * i], p[2 * i + 1]>>]
  BY DEF PairUp, n
<1>4. \A i \in 1..n : <<p[2 * i], p[2 * i + 1]>> \in Node \X Node
  BY <1>1, <1>2
<1>5. PairUp(p) \in [1..n -> Node \X Node]
  BY <1>3, <1>4
<1>6. PairUp(p) \in Seq(Node \X Node)
  BY <1>2, <1>5, SeqDef
<1>7. ASSUME NEW e \in Range(PairUp(p))
      PROVE  \E i, j \in 1..Len(p) : e[1] = p[i] /\ e[2] = p[j]
  <2>1. PICK k \in 1..n : e = <<p[2 * k], p[2 * k + 1]>>
    BY <1>3, <1>7 DEF Range
  <2>2. e[1] = p[2 * k] /\ e[2] = p[2 * k + 1]
    BY <2>1
  <2>3. QED
    BY <1>2, <2>2
<1>8. QED
  BY <1>6, <1>7

(***************************************************************************)
(* The pairs of a path: no node twice, and with a node its mate.           *)
(***************************************************************************)
NodesOf(s) == UNION {{e[1], e[2]} : e \in Range(s)}

PairsApart(s) ==
  \A i, j \in DOMAIN s : i # j => {s[i][1], s[i][2]} \cap {s[j][1], s[j][2]} = {}

\* Two nodes to be mates.
Joinable(e) == e[1] # e[2] /\ IsAdjacent(adj, e[1], e[2]) /\ IsAdjacent(adj, e[2], e[1])

Pairs(s) ==
  /\ s \in Seq(Node \X Node)
  /\ \A e \in Range(s) : Joinable(e)
  /\ PairsApart(s)

\* Two lists of pairs without a common node make one list of pairs.
LEMMA PairsJoined ==
  ASSUME NEW s, NEW t, Pairs(s), Pairs(t), NodesOf(s) \cap NodesOf(t) = {}
  PROVE  Pairs(s \o t) /\ NodesOf(s \o t) = NodesOf(s) \cup NodesOf(t)
<1>0. PICK S : S = Node \X Node
  OBVIOUS
<1>1. s \in Seq(S) /\ t \in Seq(S)
  BY <1>0 DEF Pairs
<1> DEFINE r == s \o t
<1>2. /\ r \in Seq(S) /\ Len(r) = Len(s) + Len(t)
      /\ \A i \in 1 .. Len(s) + Len(t) : r[i] = IF i <= Len(s) THEN s[i] ELSE t[i - Len(s)]
  BY <1>1, ConcatProperties
<1>3. Range(r) = Range(s) \cup Range(t)
  BY <1>1, ConcatRange
<1>4. Len(s) \in Nat /\ Len(t) \in Nat /\ DOMAIN s = 1 .. Len(s) /\ DOMAIN t = 1 .. Len(t)
  BY <1>1, LenProperties
<1>5. DOMAIN r = 1 .. Len(s) + Len(t)
  BY <1>2, LenProperties
<1> HIDE DEF r
<1>6. ASSUME NEW i \in DOMAIN r, NEW j \in DOMAIN r, i # j
      PROVE  {r[i][1], r[i][2]} \cap {r[j][1], r[j][2]} = {}
  <2>1. \A k \in DOMAIN r : k <= Len(s) => k \in DOMAIN s /\ r[k] = s[k]
    BY <1>2, <1>4, <1>5
  <2>2. \A k \in DOMAIN r : ~(k <= Len(s)) => k - Len(s) \in DOMAIN t /\ r[k] = t[k - Len(s)]
    BY <1>2, <1>4, <1>5
  <2>3. \A k \in DOMAIN s : s[k] \in Range(s)
    BY DEF Range
  <2>4. \A k \in DOMAIN t : t[k] \in Range(t)
    BY DEF Range
  <2>5. \A k, l : k \in NodesOf(s) /\ l \in NodesOf(t) => k # l
    OBVIOUS
  <2>6. \A e \in Range(s), f \in Range(t) : {e[1], e[2]} \cap {f[1], f[2]} = {}
    BY DEF NodesOf
  <2>7. CASE i <= Len(s) /\ j <= Len(s)
    BY <1>6, <2>1, <2>7 DEF Pairs, PairsApart
  <2>8. CASE ~(i <= Len(s)) /\ ~(j <= Len(s))
    <3>1. i - Len(s) # j - Len(s)
      BY <1>4, <1>5, <1>6
    <3>2. QED
      BY <2>2, <2>8, <3>1 DEF Pairs, PairsApart
  <2>9. CASE i <= Len(s) /\ ~(j <= Len(s))
    <3>1. r[i] \in Range(s) /\ r[j] \in Range(t)
      BY <2>1, <2>2, <2>3, <2>4, <2>9
    <3>2. QED
      BY <2>6, <3>1
  <2>10. CASE ~(i <= Len(s)) /\ j <= Len(s)
    <3>1. r[j] \in Range(s) /\ r[i] \in Range(t)
      BY <2>1, <2>2, <2>3, <2>4, <2>10
    <3>2. QED
      BY <2>6, <3>1
  <2>11. QED
    BY <2>7, <2>8, <2>9, <2>10
<1>7. Pairs(r)
  BY <1>0, <1>2, <1>3, <1>6 DEF Pairs, PairsApart
<1>8. NodesOf(r) = NodesOf(s) \cup NodesOf(t)
  BY <1>3 DEF NodesOf
<1>9. QED
  BY <1>7, <1>8 DEF r

\* A list of one pair.
LEMMA OnePair ==
  ASSUME NEW e \in Node \X Node, Joinable(e)
  PROVE  Pairs(<<e>>) /\ NodesOf(<<e>>) = {e[1], e[2]}
<1>1. <<e>> \in Seq(Node \X Node) /\ DOMAIN <<e>> = {1} /\ <<e>>[1] = e
  OBVIOUS
<1> DEFINE s == <<e>>
<1>2. Range(s) = {e} /\ \A i, j \in DOMAIN s : i = j
  BY <1>1 DEF Range
<1> HIDE DEF s
<1>3. Pairs(s)
  BY <1>1, <1>2 DEF Pairs, PairsApart, s
<1>4. NodesOf(s) = {e[1], e[2]}
  BY <1>2 DEF NodesOf
<1>5. QED
  BY <1>3, <1>4 DEF s

\* The walk of an even node but for the node itself, in pairs.
LEMMA WalkPairs ==
  ASSUME ForestTypeOK, IsUndirected(adj), NEW p \in Path, IsEvenWalk(adj, M, p)
  PROVE  /\ Pairs(PairUp(p))
         /\ NodesOf(PairUp(p)) = Range(p) \ {p[1]}
<1> DEFINE n == Len(p) \div 2
           s == PairUp(p)
<1>0. p \in Seq(Node) /\ p # <<>>
  BY DEF Path
<1>1. Len(p) \in Nat \ {0} /\ DOMAIN p = 1 .. Len(p) /\ \A i \in 1 .. Len(p) : p[i] \in Node
  BY <1>0, EmptySeq, LenProperties, ElementOfSeq
<1>2. Len(p) % 2 = 1 /\ IsInjective(p)
  BY DEF IsEvenWalk
<1>3. n \in Nat /\ Len(p) = 2 * n + 1
  <2>1. \A l \in Nat : l % 2 = 1 => l \div 2 \in Nat /\ l = 2 * (l \div 2) + 1
    OBVIOUS
  <2>2. QED
    BY <1>1, <1>2, <2>1
<1>4. s = [i \in 1 .. n |-> <<p[2 * i], p[2 * i + 1]>>]
  BY DEF PairUp
<1>5. s \in Seq(Node \X Node)
  BY <1>0, <1>2, PairsOnWalk
<1> HIDE DEF n, s
<1>6. \A i \in 1 .. n : /\ 2 * i \in 1 .. Len(p) /\ 2 * i + 1 \in 1 .. Len(p) /\ 2 * i # 2 * i + 1
                        /\ 2 * i \in 1 .. (Len(p) - 1) /\ (2 * i) % 2 = 0
  BY <1>3
<1>7. \A i \in 1 .. n : s[i][1] = p[2 * i] /\ s[i][2] = p[2 * i + 1]
  BY <1>4
<1>8. \A i, j \in 1 .. Len(p) : p[i] = p[j] => i = j
  BY <1>1, <1>2 DEF IsInjective
<1>9. DOMAIN s = 1 .. n
  BY <1>4
<1>10. \A e \in Range(s) : Joinable(e)
  <2>1. SUFFICES ASSUME NEW i \in 1 .. n PROVE Joinable(s[i])
    BY <1>9 DEF Range
  <2>2. p[2 * i] # p[2 * i + 1]
    BY <1>6, <1>8
  <2>3. IsAdjacent(adj, p[2 * i], p[2 * i + 1])
    BY <1>6 DEF IsEvenWalk
  <2>4. p[2 * i] \in Node /\ p[2 * i + 1] \in Node
    BY <1>1, <1>6
  <2>5. IsAdjacent(adj, p[2 * i + 1], p[2 * i])
    BY <2>3, <2>4 DEF IsUndirected, IsAdjacent, Range
  <2>6. QED
    BY <1>7, <2>2, <2>3, <2>5 DEF Joinable
<1>11. PairsApart(s)
  <2>1. SUFFICES ASSUME NEW i \in 1 .. n, NEW j \in 1 .. n, i # j
                 PROVE  {s[i][1], s[i][2]} \cap {s[j][1], s[j][2]} = {}
    BY <1>9 DEF PairsApart
  <2>2. 2 * i # 2 * j /\ 2 * i # 2 * j + 1 /\ 2 * i + 1 # 2 * j /\ 2 * i + 1 # 2 * j + 1
    BY <1>3, <2>1
  <2>3. /\ p[2 * i] # p[2 * j] /\ p[2 * i] # p[2 * j + 1]
        /\ p[2 * i + 1] # p[2 * j] /\ p[2 * i + 1] # p[2 * j + 1]
    BY <1>6, <1>8, <2>2
  <2>4. QED
    BY <1>7, <2>3
<1>12. ASSUME NEW x PROVE x \in NodesOf(s) <=> x \in Range(p) \ {p[1]}
  <2>1. x \in NodesOf(s) <=> \E i \in 1 .. n : x = s[i][1] \/ x = s[i][2]
    BY <1>9 DEF NodesOf, Range
  <2>2. x \in NodesOf(s) <=> \E i \in 1 .. n : x = p[2 * i] \/ x = p[2 * i + 1]
    BY <1>7, <2>1
  <2>3. ASSUME x \in NodesOf(s) PROVE x \in Range(p) \ {p[1]}
    <3>1. PICK i \in 1 .. n : x = p[2 * i] \/ x = p[2 * i + 1]
      BY <2>2, <2>3
    <3>2. 2 * i # 1 /\ 2 * i + 1 # 1 /\ 1 \in 1 .. Len(p)
      BY <1>1, <1>3
    <3>3. p[2 * i] # p[1] /\ p[2 * i + 1] # p[1]
      BY <1>6, <1>8, <3>2
    <3>4. p[2 * i] \in Range(p) /\ p[2 * i + 1] \in Range(p)
      BY <1>1, <1>6 DEF Range
    <3>5. QED
      BY <3>1, <3>3, <3>4
  <2>4. ASSUME x \in Range(p), x # p[1] PROVE x \in NodesOf(s)
    <3>1. PICK k \in 1 .. Len(p) : x = p[k]
      BY <1>1, <2>4 DEF Range
    <3>2. k # 1
      BY <2>4, <3>1
    <3>3. \E i \in 1 .. n : k = 2 * i \/ k = 2 * i + 1
      <4>1. k \div 2 \in 1 .. n /\ (k = 2 * (k \div 2) \/ k = 2 * (k \div 2) + 1)
        BY <1>3, <3>2
      <4>2. QED
        BY <4>1
    <3>4. QED
      BY <2>2, <3>1, <3>3
  <2>5. QED
    BY <2>3, <2>4
<1>13. QED
  BY <1>5, <1>10, <1>11, <1>12 DEF Pairs, s
\* A walk holds with a node its mate.
LEMMA WalkMates ==
  ASSUME ForestTypeOK, NEW p \in Path, IsEvenWalk(adj, M, p),
         \A x \in Range(p) : M[x] # NoNode => M[M[x]] = x
  PROVE  \A x \in Range(p) : M[x] # NoNode => M[x] \in Range(p)
<1>1. p \in Seq(Node) /\ p # <<>>
  BY DEF Path
<1>2. Len(p) \in Nat \ {0} /\ DOMAIN p = 1 .. Len(p) /\ \A i \in 1 .. Len(p) : p[i] \in Range(p)
  BY <1>1, EmptySeq, LenProperties DEF Range
<1>3. SUFFICES ASSUME NEW k \in 1 .. Len(p), M[p[k]] # NoNode PROVE M[p[k]] \in Range(p)
  BY <1>2 DEF Range
<1>4. Last(p) = p[Len(p)] /\ M[Last(p)] = NoNode /\ Len(p) % 2 = 1
  BY DEF Last, IsEvenWalk
<1>5. k # Len(p)
  BY <1>3, <1>4
<1>6. CASE k % 2 = 1
  <2>0. \A l \in Nat : \A j \in 1 .. l : j # l => j \in 1 .. (l - 1) /\ j + 1 \in 1 .. l
    OBVIOUS
  <2>1. k \in 1 .. (Len(p) - 1) /\ k + 1 \in 1 .. Len(p)
    BY <1>2, <1>5, <2>0
  <2>2. M[p[k]] = p[k + 1]
    BY <1>6, <2>1 DEF IsEvenWalk
  <2>3. QED
    BY <1>2, <2>1, <2>2
<1>7. CASE k % 2 # 1
  <2>1. k - 1 \in 1 .. (Len(p) - 1) /\ (k - 1) % 2 = 1 /\ (k - 1) + 1 = k
    BY <1>2, <1>7
  <2>2. M[p[k - 1]] = p[k]
    BY <2>1 DEF IsEvenWalk
  <2>0. \A l \in Nat : \A j \in 1 .. (l - 1) : j \in 1 .. l
    OBVIOUS
  <2>3. k - 1 \in 1 .. Len(p) /\ p[k] \in Node
    BY <1>1, <1>2, <2>0, <2>1, ElementOfSeq
  <2>4. p[k] # NoNode
    BY <2>3 DEF Node, NoNode
  <2>5. M[p[k]] = p[k - 1]
    BY <1>2, <2>2, <2>3, <2>4
  <2>6. QED
    BY <1>2, <2>3, <2>5
<1>8. QED
  BY <1>6, <1>7

\* The pairs of a found path: both walks, whole.
LEMMA FlipsForFacts ==
  ASSUME ForestTypeOK, IsUndirected(adj), NEW e \in Bridges,
         IsAdjacent(adj, e[1], e[2]), EvenWalkLegal(e[1]), EvenWalkLegal(e[2])
  PROVE  /\ Pairs(FlipsFor(e)) /\ FlipsFor(e) # <<>>
         /\ NodesOf(FlipsFor(e)) = Range(Walk(path_table, e[1])) \cup Range(Walk(path_table, e[2]))
<1> DEFINE v == e[1]  w == e[2]
           p == Walk(path_table, v)
           q == Walk(path_table, w)
<1>1. e \in Node \X Node /\ v \in Node /\ w \in Node /\ belongs[v] # belongs[w] /\ v # w
  BY DEF Bridges, IsBridge
<1>2. /\ p \in Path /\ p[1] = v /\ IsEvenWalk(adj, M, p)
      /\ \A x \in Range(p) : belongs[x] = belongs[v]
  BY <1>1, EvenWalk DEF EvenWalkLegal
<1>3. /\ q \in Path /\ q[1] = w /\ IsEvenWalk(adj, M, q)
      /\ \A x \in Range(q) : belongs[x] = belongs[w]
  BY <1>1, EvenWalk DEF EvenWalkLegal
<1>4. v \in Range(p) /\ w \in Range(q)
  BY <1>1, WalkType DEF ForestTypeOK
<1>5. Range(p) \cap Range(q) = {}
  BY <1>1, <1>2, <1>3
<1>6. Joinable(e)
  <2>1. IsAdjacent(adj, w, v)
    BY <1>1 DEF IsUndirected, IsAdjacent, Range
  <2>2. QED
    BY <1>1, <2>1 DEF Joinable
<1> HIDE DEF p, q
<1> DEFINE B == <<e>>  P == PairUp(p)  Q == PairUp(q)
<1>7. Pairs(B) /\ NodesOf(B) = {v, w}
  BY <1>1, <1>6, OnePair
<1>8. Pairs(P) /\ NodesOf(P) = Range(p) \ {v}
  BY <1>2, WalkPairs
<1>9. Pairs(Q) /\ NodesOf(Q) = Range(q) \ {w}
  BY <1>3, WalkPairs
<1>10. FlipsFor(e) = (B \o P) \o Q
  BY DEF FlipsFor, p, q
<1>11. B # <<>>
  OBVIOUS
<1> HIDE DEF B, P, Q
<1>12. NodesOf(B) \cap NodesOf(P) = {}
  BY <1>4, <1>5, <1>7, <1>8
<1>13. Pairs(B \o P) /\ NodesOf(B \o P) = NodesOf(B) \cup NodesOf(P)
  BY <1>7, <1>8, <1>12, PairsJoined
<1>14. NodesOf(B \o P) \cap NodesOf(Q) = {}
  BY <1>4, <1>5, <1>7, <1>8, <1>9, <1>13
<1>15. Pairs((B \o P) \o Q) /\ NodesOf((B \o P) \o Q) = NodesOf(B \o P) \cup NodesOf(Q)
  BY <1>9, <1>13, <1>14, PairsJoined
<1>16. NodesOf(FlipsFor(e)) = Range(p) \cup Range(q)
  BY <1>4, <1>7, <1>8, <1>9, <1>10, <1>13, <1>15
<1>17. FlipsFor(e) # <<>>
  <2>1. v \in NodesOf(FlipsFor(e))
    BY <1>4, <1>16
  <2>2. Range(<<>>) = {}
    BY DEF Range
  <2>3. QED
    BY <2>1, <2>2 DEF NodesOf
<1>18. QED
  BY <1>10, <1>15, <1>16, <1>17 DEF p, q

-----------------------------------------------------------------------------
(***************************************************************************)
(* A step of a tasklet, whatever the kernel.                               *)
(***************************************************************************)
TaskletsTyped ==
  /\ \A work \in Works : work \in Seq(IF phase = "transform" THEN Node ELSE Node \X Node)
  /\ \A t \in running :
       /\ t.at \in {"scan", "second", "release", "flip", "claim", "grow", "fill"}
       /\ t.flips \in Seq(Node \X Node)

StateTyped ==
  /\ ForestTypeOK
  /\ engine \in Engines
  /\ root_distance \in [Node -> Nat]
  /\ queue \in [slots : [Node -> Node], b1 : 0..nodes, e1 : 0..nodes,
                b2 : 0..nodes, e2 : 0..nodes]
  /\ atomic_locks_tree \in [Node -> {0, 1}]
  /\ atomic_locks_match \in [Node -> {0, 1}]
  /\ atomic_locks_odd_nodes \in [Node -> {0, 1}]
  /\ found \in BOOLEAN /\ exhausted \in BOOLEAN
  /\ edge_prefix_cache \in [valid : BOOLEAN, begin : 0..nodes, size : 0..nodes,
                            presum : Seq(Nat)]
  /\ phase \in Kernels \cup {"init", "loop", "returned"}

\* The types of the state and of the tasklets are the type invariant.
LEMMA TypeParts == TypeOK <=> StateTyped /\ TaskletsTyped
BY DEF TypeOK, StateTyped, TaskletsTyped, Works

EdgeWork(work) ==
  /\ work \in Seq(Node \X Node) /\ work # <<>>
  /\ \A e \in Range(work) : EvenNode(e[1]) /\ IsAdjacent(adj, e[1], e[2])

\* What an edge tasklet is at: an edge from an even node.
LEMMA EdgeOfWork ==
  ASSUME NEW work, EdgeWork(work)
  PROVE  /\ Head(work) \in Node \X Node
         /\ EvenNode(Head(work)[1]) /\ IsAdjacent(adj, Head(work)[1], Head(work)[2])
         /\ Tail(work) # <<>> => EdgeWork(Tail(work))
<1>1. PICK S : S = Node \X Node
  OBVIOUS
<1>2. work \in Seq(S) /\ work # <<>>
  BY <1>1 DEF EdgeWork
<1>3. /\ Tail(work) \in Seq(S) /\ Head(work) \in Range(work) /\ Range(Tail(work)) \subseteq Range(work)
      /\ Head(work) \in S
  BY <1>2, TailRange, HeadTailProperties
<1>4. QED
  BY <1>1, <1>3 DEF EdgeWork

\* Where the tasklets of each kernel can be.
LEMMA PlacesFacts ==
  /\ Places["augment"] = {"scan", "second", "release", "flip"}
  /\ Places["expand"] = {"scan", "claim", "grow"}
  /\ Places["transform"] = {"scan", "claim", "fill"}
  /\ \A k \in Kernels : Places[k] \subseteq
       {"scan", "second", "release", "flip", "claim", "grow", "fill"}
<1>1. /\ Places["augment"] = {"scan", "second", "release", "flip"}
      /\ Places["expand"] = {"scan", "claim", "grow"}
      /\ Places["transform"] = {"scan", "claim", "fill"}
  BY DEF Places, Kernels
<1>2. QED
  BY <1>1 DEF Kernels

\* What a tasklet t can have become by a step.
Fits(n, t) ==
  /\ n.at \in Places[phase]
  /\ n.at = "flip" \/ n.flips = <<>>
  /\ n.flips \in Seq(Node \X Node)
  /\ \/ n.work = t.work
     \/ phase # "transform" /\ Tail(t.work) # <<>> /\ n.work = Tail(t.work)

\* A tasklet that takes its turn is replaced by ones that fit the kernel.
LEMMA TurnFits ==
  ASSUME TaskletsTyped, TaskletsPlaced, WorkSound, phase \in Kernels,
         phase' = phase, adj' = adj, \A x \in Node : EvenNode(x) => EvenNode(x)',
         NEW t, t.work \in Works, NEW T, Turn(t, T), \A n \in T : Fits(n, t)
  PROVE  /\ TaskletsTyped' /\ TaskletsPlaced' /\ WorkSound'
         /\ Works' \subseteq Works \cup {n.work : n \in T}
<1>1. todo' = todo \ {t.work} /\ running' = (running \ {t}) \cup T
  BY DEF Turn
<1>2. Works' \subseteq Works \cup {n.work : n \in T}
  BY <1>1 DEF Works
<1>3. TaskletsPlaced'
  <2>1. Places' = Places
    BY DEF Places
  <2>2. QED
    BY <1>1, <2>1 DEF TaskletsPlaced, Fits
<1>4. \A u \in running' :
        /\ u.at \in {"scan", "second", "release", "flip", "claim", "grow", "fill"}
        /\ u.flips \in Seq(Node \X Node)
  BY <1>1, PlacesFacts DEF TaskletsTyped, Fits
<1>5. CASE phase = "transform"
  <2>1. Works' \subseteq Works
    BY <1>2, <1>5 DEF Fits
  <2>2. QED
    BY <1>2, <1>3, <1>4, <1>5, <2>1 DEF TaskletsTyped, WorkSound
<1>6. CASE phase # "transform"
  <2>1. phase \in {"augment", "expand"}
    BY <1>6 DEF Kernels
  <2>2. \A work \in Works : EdgeWork(work)
    BY <2>1 DEF WorkSound, EdgeWork
  <2>3. EdgeWork(t.work) /\ (Tail(t.work) # <<>> => EdgeWork(Tail(t.work)))
    BY <2>2, EdgeOfWork
  <2>4. \A work \in Works' : EdgeWork(work)
    BY <1>2, <2>2, <2>3 DEF Fits
  <2>5. \A work : EdgeWork(work) =>
          \A e \in Range(work) : e[1] \in Node
    <3>1. SUFFICES ASSUME NEW work, EdgeWork(work), NEW e \in Range(work) PROVE e[1] \in Node
      OBVIOUS
    <3>2. e \in Node \X Node
      BY <3>1, ElementOfSeq, LenProperties DEF EdgeWork, Range
    <3>3. QED
      BY <3>2
  <2>6. \A work \in Works' : EdgeWork(work)'
    BY <2>4, <2>5 DEF EdgeWork
  <2>7. WorkSound'
    BY <1>6, <2>6 DEF WorkSound, EdgeWork
  <2>8. TaskletsTyped'
    BY <1>4, <1>6, <2>6 DEF TaskletsTyped, EdgeWork
  <2>9. QED
    BY <1>2, <1>3, <2>7, <2>8
<1>7. QED
  BY <1>5, <1>6

\* A tasklet that is at a place runs.
LEMMA AtFacts ==
  ASSUME NEW place, NEW t \in At(place)
  PROVE  t \in running /\ t.at = place /\ t.work \in Works
BY DEF At, Works

\* A tasklet that is to look at its next item holds nothing.
LEMMA ReadyFacts ==
  ASSUME TaskletsPlaced, NEW t \in Ready
  PROVE  t.at = "scan" /\ t.work \in Works /\ t.flips = <<>>
<1>1. CASE t \in running /\ t.at = "scan"
  BY <1>1 DEF TaskletsPlaced, Works
<1>2. CASE \E work \in todo : t = Tasklet("scan", work, <<>>)
  BY <1>2 DEF Tasklet, Works
<1>3. QED
  BY <1>1, <1>2 DEF Ready

\* Who is at a place after a turn.
LEMMA TurnAt ==
  ASSUME NEW t, NEW T, Turn(t, T), NEW place
  PROVE  At(place)' = (At(place) \ {t}) \cup {n \in T : n.at = place}
BY DEF At, Turn

\* The tasklets that come of a step.
LEMMA GotoFits ==
  ASSUME NEW t, NEW place, place \in Places[phase], place # "flip", t.flips = <<>>
  PROVE  \A n \in Goto(t, place) : /\ Fits(n, t) /\ n.at = place /\ n.work = t.work
                                   /\ Edge(n) = Edge(t)
<1>1. <<>> \in Seq(Node \X Node)
  OBVIOUS
<1>2. SUFFICES ASSUME NEW n \in Goto(t, place)
               PROVE  Fits(n, t) /\ n.at = place /\ n.work = t.work /\ Edge(n) = Edge(t)
  OBVIOUS
<1>3. n.at = place /\ n.work = t.work /\ n.flips = <<>>
  BY DEF Goto, Tasklet
<1>4. QED
  BY <1>1, <1>3 DEF Fits, Edge

\* The next edge of a tasklet fits the kernel.
LEMMA NextFits ==
  ASSUME NEW t, phase \in {"augment", "expand"}
  PROVE  \A n \in NextEdge(t) : Fits(n, t) /\ n.at = "scan"
<1>1. <<>> \in Seq(Node \X Node)
  OBVIOUS
<1>2. "scan" \in Places[phase]
  BY PlacesFacts
<1>3. ASSUME NEW n \in NextEdge(t) PROVE Fits(n, t) /\ n.at = "scan"
  <2>1. Tail(t.work) # <<>> /\ n = Tasklet("scan", Tail(t.work), <<>>)
    BY <1>3 DEF NextEdge
  <2>2. n.at = "scan" /\ n.work = Tail(t.work) /\ n.flips = <<>>
    BY <2>1 DEF Tasklet
  <2>3. QED
    BY <1>1, <1>2, <2>1, <2>2 DEF Fits
<1>4. QED
  BY <1>3

-----------------------------------------------------------------------------
(***************************************************************************)
(* The augment kernel.                                                     *)
(***************************************************************************)
AugmentStill ==
  /\ phase = "augment" /\ phase' = phase
  /\ UNCHANGED <<adj, is_even, belongs, path_table, root_distance, queue,
                 atomic_locks_match, atomic_locks_odd_nodes, hostVars>>

\* The augment kernel leaves the forest alone, so all that is read off it
\* stays.
LEMMA ForestStill ==
  ASSUME AugmentStill
  PROVE  /\ \A x : EvenNode(x)' = EvenNode(x) /\ IsRoot(x)' = IsRoot(x)
                   /\ Unreached(x)' = Unreached(x)
         /\ EvenNodes' = EvenNodes /\ Walks' = Walks
         /\ \A e : First(e)' = First(e) /\ Second(e)' = Second(e)
         /\ \A t : Edge(t)' = Edge(t)
<1>1. \A x : EvenNode(x)' = EvenNode(x) /\ IsRoot(x)' = IsRoot(x) /\ Unreached(x)' = Unreached(x)
  BY DEF AugmentStill, EvenNode, IsRoot, Unreached
<1>2. EvenNodes' = EvenNodes
  BY <1>1 DEF EvenNodes
<1>3. Walks' = Walks
  BY <1>2 DEF AugmentStill, Walks
<1>4. \A e : First(e)' = First(e) /\ Second(e)' = Second(e)
  BY DEF AugmentStill, First, Second
<1>5. \A t : Edge(t)' = Edge(t)
  BY DEF Edge
<1>6. QED
  BY <1>1, <1>2, <1>3, <1>4, <1>5

\* Nothing but the mates in trees, the tree locks and the tasklets changes.
LEMMA AugmentFrame ==
  ASSUME Sound, AugmentStill, TaskletsPlaced',
         \A x \in Node : belongs[x] = NoNode => M'[x] = M[x]
  PROVE  /\ IsUndirected(adj)' /\ RepairSound' /\ PairsSound' /\ OddsSound'
         /\ EntriesSound' /\ DistancesExact' /\ QueueSound' /\ CacheSound'
<1>0. phase = "augment" /\ phase' = "augment"
  BY DEF AugmentStill
<1>1. IsUndirected(adj)' /\ RepairSound'
  BY <1>0 DEF Sound, AugmentStill, RepairSound
<1>2. /\ At("grow") = {} /\ At("grow")' = {} /\ At("fill") = {} /\ At("fill")' = {}
  <2>1. \A t \in running : t.at \in {"scan", "second", "release", "flip"}
    BY <1>0, PlacesFacts DEF Sound, TaskletsPlaced, Kernels
  <2>2. Places' = Places
    BY DEF Places
  <2>3. \A t \in running' : t.at \in {"scan", "second", "release", "flip"}
    BY <1>0, <2>2, PlacesFacts DEF TaskletsPlaced, Kernels
  <2>4. QED
    BY <2>1, <2>3 DEF At
<1>3. PairsSound'
  <2>1. \A x \in Node : belongs[x] = NoNode => atomic_locks_match[Slot(x)] = 0
    BY <1>0, <1>2 DEF Sound, PairsSound
  <2>2. \A x \in Node : belongs[x] = NoNode => Slot(x)' = Slot(x)
    BY DEF Slot
  <2>3. \A x \in Node : belongs'[x] = NoNode => atomic_locks_match'[Slot(x)'] = 0
    BY <2>1, <2>2 DEF AugmentStill
  <2>4. QED
    BY <1>0, <2>3 DEF PairsSound
<1>4. OddsSound'
  <2>1. \A x \in Node : atomic_locks_odd_nodes[x] = 1 => is_even[x] = 1
    BY <1>0, <1>2 DEF Sound, OddsSound
  <2>2. \A x \in Node : atomic_locks_odd_nodes'[x] = 1 => is_even'[x] = 1
    BY <2>1 DEF AugmentStill
  <2>3. QED
    BY <1>0, <2>2 DEF OddsSound
<1>5. EntriesSound'
  <2>1. Turning = {} /\ Turning' = {} /\ Turns = {} /\ Turns' = {}
    BY <1>0 DEF Turning, Turns
  <2>2. /\ EntriesLong(path_table) /\ LinksEven /\ OddsBare /\ OddsOnce({}) /\ OddsApart(Walks, {})
    <3>1. Walks \cup {WalkOf(work) : work \in Turns} = Walks
      BY <2>1
    <3>2. QED
      BY <2>1, <3>1 DEF Sound, EntriesSound
  <2>3. EntriesLong(path_table)' /\ LinksEven' /\ OddsBare'
    BY <2>2, ForestStill DEF LinksEven, OddsBare, EntriesLong, AugmentStill
  <2>4. StillOdd({})' = StillOdd({})
    BY DEF StillOdd, OddNode, AugmentStill
  <2>5. OddsOnce({})'
    BY <2>2, <2>4, ForestStill DEF OddsOnce, AugmentStill
  <2>6. OddsApart(Walks, {})'
    BY <2>2, <2>4, ForestStill DEF OddsApart
  <2>7. (Walks \cup {WalkOf(work) : work \in Turns})' = Walks'
    BY <2>1
  <2>8. QED
    BY <2>1, <2>3, <2>5, <2>6, <2>7 DEF EntriesSound
<1>6. DistancesExact'
  BY <1>0 DEF Sound, DistancesExact, AugmentStill
<1>7. QueueSound'
  <2>1. Slots' = Slots
    BY DEF Slots, AugmentStill
  <2>2. QED
    BY <1>0, <2>1, ForestStill DEF Sound, QueueSound, AugmentStill
<1>8. CacheSound'
  <2>1. edge_prefix_cache' = edge_prefix_cache /\ queue' = queue /\ adj' = adj
    BY DEF AugmentStill, hostVars
  <2>2. \A b, s : (ExclusiveScan(Slice(b, s)))' = ExclusiveScan(Slice(b, s))
    BY <2>1 DEF ExclusiveScan, Slice, Rows
  <2>3. QED
    BY <1>0, <2>1, <2>2 DEF Sound, CacheSound
<1>9. QED
  BY <1>1, <1>3, <1>4, <1>5, <1>6, <1>7, <1>8

\* A step that takes no tree, gives none back and flips nothing.
LEMMA AugmentQuiet ==
  ASSUME Sound, AugmentStill, M' = M, found' = found, At("flip")' = At("flip"),
         \A r \in Node : Taken(r)' <=> Taken(r),
         \A r \in Node : atomic_locks_tree'[r] = 1 => IsRoot(r)
  PROVE  MatesKept' /\ FlipsSound' /\ TreesSound' /\ LocksSound'
<1>0. phase = "augment" /\ phase' = "augment" /\ adj' = adj /\ belongs' = belongs
  BY DEF AugmentStill
<1>1. Pending' = Pending
  BY DEF Pending
<1>2. \A x : Unflipped(x)' <=> Unflipped(x)
  BY <1>1 DEF Unflipped
<1>3. MatesKept'
  BY <1>0, <1>2 DEF Sound, MatesKept
<1>4. FlipsSound'
  BY <1>0, ForestStill DEF Sound, FlipsSound
<1>5. \A x \in Node : Whole(x)' <=> Whole(x)
  <2>1. \A x \in Node : belongs[x] \in Node \cup {NoNode}
    BY TypeParts DEF Sound, StateTyped, ForestTypeOK
  <2>2. QED
    BY <1>0, <2>1 DEF Whole
<1>6. \A x : EvenWalkLegal(x)' <=> EvenWalkLegal(x)
  BY DEF EvenWalkLegal, AugmentStill
<1>7. TreesSound'
  <2>1. EvenNodes \subseteq Node
    BY DEF EvenNodes
  <2>2. QED
    BY <1>0, <1>5, <1>6, <2>1, ForestStill DEF Sound, TreesSound
<1>8. LocksSound'
  BY <1>0, <1>2, ForestStill DEF Sound, LocksSound
<1>9. QED
  BY <1>3, <1>4, <1>7, <1>8

-----------------------------------------------------------------------------
AugmentPart ==
  /\ StateTyped /\ TaskletsTyped /\ TaskletsPlaced /\ WorkSound
  /\ MatesKept /\ FlipsSound /\ TreesSound /\ LocksSound

\* It keeps the types of the rest.
LEMMA AugmentTyped ==
  ASSUME Sound, AugmentStill, M' \in [Node -> Node \cup {NoNode}],
         atomic_locks_tree' \in [Node -> {0, 1}], found' \in BOOLEAN
  PROVE  StateTyped'
BY TypeParts DEF Sound, AugmentStill, StateTyped, ForestTypeOK, hostVars, Kernels

\* The edge a tasklet is at, and its trees.
LEMMA BridgeTrees ==
  ASSUME LockInv, Sound, phase # "init", NEW e \in Bridges
  PROVE  /\ First(e) \in Node /\ Second(e) \in Node /\ First(e) # Second(e)
         /\ IsRoot(First(e)) /\ IsRoot(Second(e))
         /\ {First(e), Second(e)} = {belongs[e[1]], belongs[e[2]]}
<1>1. /\ e \in Node \X Node /\ First(e) \in Node /\ Second(e) \in Node /\ First(e) # Second(e)
      /\ {First(e), Second(e)} = {belongs[e[1]], belongs[e[2]]}
  BY BridgeRoots DEF LockInv
<1>2. belongs[e[1]] # NoNode /\ belongs[e[2]] # NoNode
  BY DEF Bridges, IsBridge
<1>3. IsRoot(belongs[e[1]]) /\ IsRoot(belongs[e[2]])
  BY <1>1, <1>2 DEF Sound, TreesSound
<1>4. QED
  BY <1>1, <1>3

\* A tasklet that holds or wants a lock is at a bridge between two trees.
LEMMA HeldBridges ==
  ASSUME LockInv, NEW t \in running, t.at \in {"second", "release", "flip"}
  PROVE  Edge(t) \in Bridges
BY DEF LockInv, EdgesSeen

\* A tasklet that flips has both of its trees.
LEMMA FlippersTake ==
  ASSUME LockInv, NEW t \in At("flip"), NEW r \in {First(Edge(t)), Second(Edge(t))}
  PROVE  Taken(r) /\ r \in Node
<1>1. t \in running /\ t.at = "flip" /\ Edge(t) \in Bridges
  BY HeldBridges DEF At
<1>2. Owned(t) = {First(Edge(t)), Second(Edge(t))} /\ r \in Owned(t) /\ r \in Node
  BY <1>1, OwnedOf, BridgeRoots DEF LockInv
<1>3. atomic_locks_tree[r] = 1
  BY <1>1, <1>2 DEF LockInv, OwnedLocked
<1>4. ASSUME NEW u \in Holders PROVE First(Edge(u)) # r
  <2>1. u \in running /\ u.at \in {"second", "release"}
    BY <1>4 DEF Holders, At
  <2>2. First(Edge(u)) \in Owned(u)
    BY <2>1, OwnedOf DEF LockInv
  <2>3. u # t
    BY <1>1, <2>1
  <2>4. QED
    BY <1>1, <1>2, <2>1, <2>2, <2>3 DEF LockInv, TreesExclusive
<1>5. QED
  BY <1>2, <1>3, <1>4 DEF Taken

\* The locks of the trees that a tasklet holds.
LEMMA HolderLocks ==
  ASSUME LockInv, NEW t \in Holders
  PROVE  /\ t \in running /\ t.at \in {"second", "release"} /\ Edge(t) \in Bridges
         /\ First(Edge(t)) \in Node /\ atomic_locks_tree[First(Edge(t))] = 1
         /\ \A u \in Holders : First(Edge(u)) = First(Edge(t)) => u = t
<1>1. \A u \in Holders : u \in running /\ u.at \in {"second", "release"}
  BY DEF Holders, At
<1>2. \A u \in Holders : First(Edge(u)) \in Owned(u) /\ First(Edge(u)) \in Node
  BY <1>1, OwnedOf DEF LockInv
<1>3. atomic_locks_tree[First(Edge(t))] = 1
  BY <1>1, <1>2 DEF LockInv, OwnedLocked
<1>4. \A u \in Holders : First(Edge(u)) = First(Edge(t)) => u = t
  BY <1>1, <1>2 DEF LockInv, TreesExclusive
<1>5. QED
  BY <1>1, <1>2, <1>3, <1>4, HeldBridges

\* LockFirst keeps what holds during the augment kernel.
LEMMA FirstSound ==
  ASSUME LockInv, Sound, AugmentStill, LockFirst
  PROVE  AugmentPart' /\ M' = M
<1>1. PICK t \in Ready :
        /\ Edge(t) \in Bridges
        /\ Turn(t, IF atomic_locks_tree[First(Edge(t))] = 0 THEN Goto(t, "second") ELSE {})
        /\ atomic_locks_tree' = [atomic_locks_tree EXCEPT ![First(Edge(t))] = 1]
        /\ M' = M /\ found' = found
  BY DEF LockFirst
<1> DEFINE f == First(Edge(t))
           T == IF atomic_locks_tree[f] = 0 THEN Goto(t, "second") ELSE {}
<1>2. phase = "augment" /\ phase' = "augment" /\ phase \in Kernels
  BY DEF AugmentStill, Kernels
<1>3. t.at = "scan" /\ t.work \in Works /\ t.flips = <<>>
  BY ReadyFacts DEF Sound
<1>4. f \in Node /\ IsRoot(f)
  BY <1>1, <1>2, BridgeTrees
<1>5. /\ Turn(t, T)
      /\ atomic_locks_tree' = [atomic_locks_tree EXCEPT ![f] = 1]
  BY <1>1
<1>6. \A n \in T : Fits(n, t) /\ n.at = "second" /\ Edge(n) = Edge(t)
  BY <1>2, <1>3, GotoFits, PlacesFacts
<1>7. TaskletsTyped' /\ TaskletsPlaced' /\ WorkSound'
  BY <1>2, <1>3, <1>5, <1>6, TurnFits, TypeParts, ForestStill DEF Sound, AugmentStill
<1>8. atomic_locks_tree \in [Node -> {0, 1}]
  BY TypeParts DEF Sound, StateTyped
<1>9. /\ atomic_locks_tree' \in [Node -> {0, 1}] /\ atomic_locks_tree'[f] = 1
      /\ \A r \in Node : r # f => atomic_locks_tree'[r] = atomic_locks_tree[r]
  BY <1>4, <1>5, <1>8
<1>10. StateTyped'
  BY <1>1, <1>9, AugmentTyped, TypeParts DEF Sound, StateTyped, ForestTypeOK
<1>11. At("flip")' = At("flip")
  <2>1. At("flip")' = (At("flip") \ {t}) \cup {n \in T : n.at = "flip"}
    BY <1>5, TurnAt
  <2>2. QED
    BY <1>3, <1>6, <2>1 DEF At
<1>12. Holders' = Holders \cup T
  <2>1. /\ At("second")' = (At("second") \ {t}) \cup {n \in T : n.at = "second"}
        /\ At("release")' = (At("release") \ {t}) \cup {n \in T : n.at = "release"}
    BY <1>5, TurnAt
  <2>2. QED
    BY <1>3, <1>6, <2>1 DEF At, Holders
<1> HIDE DEF f
<1>13. ASSUME NEW r \in Node PROVE Taken(r)' <=> Taken(r)
  <2>1. Taken(r)' <=> atomic_locks_tree'[r] = 1 /\ \A u \in Holders \cup T : First(Edge(u)) # r
    BY <1>12, ForestStill DEF Taken
  <2>2. \A n \in T : First(Edge(n)) = f
    BY <1>6 DEF f
  <2>3. CASE r # f
    BY <1>9, <2>1, <2>2, <2>3 DEF Taken
  <2>4. CASE r = f /\ atomic_locks_tree[f] = 0
    <3>1. T = Goto(t, "second")
      BY <2>4
    <3>2. \E n \in T : TRUE
      BY <3>1 DEF Goto
    <3>3. ~Taken(r)'
      BY <2>1, <2>2, <2>4, <3>2
    <3>4. ~Taken(r)
      BY <2>4 DEF Taken
    <3>5. QED
      BY <3>3, <3>4
  <2>5. CASE r = f /\ atomic_locks_tree[f] # 0
    <3>1. T = {} /\ atomic_locks_tree[f] = 1
      BY <1>4, <1>8, <2>5
    <3>2. QED
      BY <1>9, <2>1, <2>5, <3>1 DEF Taken
  <2>6. QED
    BY <2>3, <2>4, <2>5
<1>14. \A r \in Node : atomic_locks_tree'[r] = 1 => IsRoot(r)
  BY <1>2, <1>4, <1>9 DEF Sound, LocksSound
<1>15. MatesKept' /\ FlipsSound' /\ TreesSound' /\ LocksSound'
  BY <1>1, <1>11, <1>13, <1>14, AugmentQuiet
<1>16. QED
  BY <1>1, <1>7, <1>10, <1>15 DEF AugmentPart

\* ReleaseFirst keeps it;
LEMMA ReleaseSound ==
  ASSUME LockInv, Sound, AugmentStill, ReleaseFirst
  PROVE  AugmentPart' /\ M' = M
<1>1. PICK t \in At("release") :
        /\ Turn(t, {})
        /\ atomic_locks_tree' = [atomic_locks_tree EXCEPT ![First(Edge(t))] = 0]
        /\ M' = M /\ found' = found
  BY DEF ReleaseFirst
<1> DEFINE f == First(Edge(t))
<1>2. phase = "augment" /\ phase' = "augment" /\ phase \in Kernels
  BY DEF AugmentStill, Kernels
<1>3. t \in running /\ t.at = "release" /\ t.work \in Works /\ t \in Holders
  BY AtFacts DEF Holders
<1>4. f \in Node /\ \A u \in Holders : First(Edge(u)) = f => u = t
  BY <1>3, HolderLocks
<1>5. TaskletsTyped' /\ TaskletsPlaced' /\ WorkSound'
  BY <1>1, <1>2, <1>3, TurnFits, TypeParts, ForestStill DEF Sound, AugmentStill
<1>6. atomic_locks_tree \in [Node -> {0, 1}]
  BY TypeParts DEF Sound, StateTyped
<1>7. /\ atomic_locks_tree' \in [Node -> {0, 1}] /\ atomic_locks_tree'[f] = 0
      /\ \A r \in Node : r # f => atomic_locks_tree'[r] = atomic_locks_tree[r]
  BY <1>1, <1>4, <1>6
<1>8. StateTyped'
  BY <1>1, <1>7, AugmentTyped, TypeParts DEF Sound, StateTyped, ForestTypeOK
<1>9. At("flip")' = At("flip") /\ Holders' = Holders \ {t}
  <2>1. /\ At("flip")' = At("flip") \ {t}
        /\ At("second")' = At("second") \ {t} /\ At("release")' = At("release") \ {t}
    BY <1>1, TurnAt
  <2>2. QED
    BY <1>3, <2>1 DEF At, Holders
<1> HIDE DEF f
<1>10. ASSUME NEW r \in Node PROVE Taken(r)' <=> Taken(r)
  <2>1. Taken(r)' <=> atomic_locks_tree'[r] = 1 /\ \A u \in Holders \ {t} : First(Edge(u)) # r
    BY <1>9, ForestStill DEF Taken
  <2>2. CASE r # f
    BY <1>7, <2>1, <2>2 DEF Taken, f
  <2>3. CASE r = f
    BY <1>3, <1>7, <2>1, <2>3 DEF Taken, f
  <2>4. QED
    BY <2>2, <2>3
<1>11. \A r \in Node : atomic_locks_tree'[r] = 1 => IsRoot(r)
  BY <1>2, <1>7 DEF Sound, LocksSound
<1>12. MatesKept' /\ FlipsSound' /\ TreesSound' /\ LocksSound'
  BY <1>1, <1>9, <1>10, <1>11, AugmentQuiet
<1>13. QED
  BY <1>1, <1>5, <1>8, <1>12 DEF AugmentPart

\* Pairs yet to be mated are in the trees taken for them.
LEMMA UnflippedTaken ==
  ASSUME LockInv, FlipsSound, NEW x, Unflipped(x)
  PROVE  Taken(belongs[x]) /\ \E t \in At("flip") : belongs[x] \in {First(Edge(t)), Second(Edge(t))}
<1>1. PICK t \in At("flip") : \E e \in Range(t.flips) : x \in {e[1], e[2]}
  BY DEF Unflipped, Pending
<1>2. belongs[x] \in {First(Edge(t)), Second(Edge(t))}
  BY <1>1 DEF FlipsSound
<1>3. QED
  BY <1>2, FlippersTake

\* A tasklet that has its first lock finds the tree of the first whole.
LEMMA SecondFacts ==
  ASSUME LockInv, Sound, phase = "augment", NEW t \in At("second")
  PROVE  /\ t \in running /\ t.at = "second" /\ t.flips = <<>> /\ t.work \in Works /\ t \in Holders
         /\ Edge(t) \in Bridges /\ Edge(t) \in Node \X Node
         /\ Edge(t)[1] \in EvenNodes /\ Edge(t)[2] \in EvenNodes
         /\ IsAdjacent(adj, Edge(t)[1], Edge(t)[2])
         /\ ~Taken(First(Edge(t)))
<1>1. t \in running /\ t.at = "second" /\ t.work \in Works /\ t \in Holders
  BY AtFacts DEF Holders
<1>2. t.flips = <<>>
  BY <1>1 DEF Sound, TaskletsPlaced
<1>3. Edge(t) \in Bridges /\ Edge(t) \in Node \X Node
  BY <1>1, HeldBridges DEF Bridges
<1>4. EvenNode(Edge(t)[1]) /\ IsAdjacent(adj, Edge(t)[1], Edge(t)[2])
  <2>1. EdgeWork(t.work)
    BY <1>1 DEF Sound, WorkSound, EdgeWork
  <2>2. QED
    BY <2>1, EdgeOfWork DEF Edge
<1>5. Edge(t)[1] \in EvenNodes /\ Edge(t)[2] \in EvenNodes
  BY <1>3, <1>4 DEF Bridges, IsBridge, EvenNodes, EvenNode
<1>6. ~Taken(First(Edge(t)))
  BY <1>1 DEF Taken
<1>7. QED
  BY <1>1, <1>2, <1>3, <1>4, <1>5, <1>6

\* so does a tasklet that finds its second tree taken;
LEMMA SecondLostSound ==
  ASSUME LockInv, Sound, AugmentStill, NEW t \in At("second"),
         atomic_locks_tree[Second(Edge(t))] # 0, Turn(t, Goto(t, "release")),
         atomic_locks_tree' = [atomic_locks_tree EXCEPT ![Second(Edge(t))] = 1],
         M' = M, found' = found
  PROVE  AugmentPart'
<1> DEFINE s == Second(Edge(t))
           T == Goto(t, "release")
<1>1. phase = "augment" /\ phase' = "augment" /\ phase \in Kernels
  BY DEF AugmentStill, Kernels
<1>2. /\ t \in running /\ t.at = "second" /\ t.flips = <<>> /\ t.work \in Works /\ t \in Holders
      /\ Edge(t) \in Bridges
  BY <1>1, SecondFacts
<1>3. s \in Node
  BY <1>1, <1>2, BridgeTrees
<1>4. atomic_locks_tree \in [Node -> {0, 1}]
  BY TypeParts DEF Sound, StateTyped
<1>5. atomic_locks_tree' = atomic_locks_tree
  BY <1>3, <1>4
<1>6. \A n \in T : Fits(n, t) /\ n.at = "release" /\ Edge(n) = Edge(t)
  BY <1>1, <1>2, GotoFits, PlacesFacts
<1>7. TaskletsTyped' /\ TaskletsPlaced' /\ WorkSound'
  BY <1>1, <1>2, <1>6, TurnFits, TypeParts, ForestStill DEF Sound, AugmentStill
<1>8. StateTyped'
  BY <1>4, <1>5, AugmentTyped, TypeParts DEF Sound, StateTyped, ForestTypeOK
<1>9. At("flip")' = At("flip") /\ Holders' = (Holders \ {t}) \cup T
  <2>1. /\ At("flip")' = (At("flip") \ {t}) \cup {n \in T : n.at = "flip"}
        /\ At("second")' = (At("second") \ {t}) \cup {n \in T : n.at = "second"}
        /\ At("release")' = (At("release") \ {t}) \cup {n \in T : n.at = "release"}
    BY TurnAt
  <2>2. QED
    BY <1>2, <1>6, <2>1 DEF At, Holders
<1>10. \E n \in T : TRUE
  BY DEF Goto
<1>11. ASSUME NEW r \in Node PROVE Taken(r)' <=> Taken(r)
  <2>1. Taken(r)' <=> atomic_locks_tree[r] = 1 /\ \A u \in (Holders \ {t}) \cup T : First(Edge(u)) # r
    BY <1>5, <1>9, ForestStill DEF Taken
  <2>2. (\A u \in T : First(Edge(u)) # r) <=> First(Edge(t)) # r
    BY <1>6, <1>10
  <2>3. QED
    BY <1>2, <2>1, <2>2 DEF Taken
<1>12. \A r \in Node : atomic_locks_tree'[r] = 1 => IsRoot(r)
  BY <1>1, <1>5 DEF Sound, LocksSound
<1>13. MatesKept' /\ FlipsSound' /\ TreesSound' /\ LocksSound'
  BY <1>9, <1>11, <1>12, AugmentQuiet
<1>14. QED
  BY <1>7, <1>8, <1>13 DEF AugmentPart

\* The walks of a path that is about to be flipped: nothing on them is
\* flipped yet, and they hold with a node its mate.
LEMMA TakenWalk ==
  ASSUME LockInv, Sound, phase = "augment", NEW v \in EvenNodes, ~Taken(belongs[v])
  PROVE  /\ EvenWalkLegal(v)
         /\ \A x \in Range(Walk(path_table, v)) :
              /\ belongs[x] = belongs[v] /\ ~Unflipped(x)
              /\ M[x] # NoNode => M[x] \in Range(Walk(path_table, v))
         /\ belongs[v] \in Range(Walk(path_table, v))
<1> DEFINE p == Walk(path_table, v)
<1>1. ForestTypeOK /\ v \in Node
  BY TypeParts DEF Sound, StateTyped, EvenNodes
<1>2. EvenWalkLegal(v)
  BY DEF Sound, TreesSound, Whole
<1>3. /\ p \in Path /\ IsEvenWalk(adj, M, p) /\ p \in Seq(Node)
      /\ \A x \in Range(p) : belongs[x] = belongs[v]
      /\ Last(p) = belongs[v]
  BY <1>1, <1>2, EvenWalk DEF EvenWalkLegal
<1>4. \A x \in Range(p) : x \in Node
  BY <1>3, ElementOfSeq, LenProperties DEF Range
<1>5. Last(p) \in Range(p)
  BY <1>1, WalkType DEF ForestTypeOK
<1> HIDE DEF p
<1>6. \A x \in Range(p) : ~Unflipped(x)
  BY <1>3, UnflippedTaken DEF Sound
<1>7. \A x \in Range(p) : M[x] # NoNode => M[M[x]] = x
  BY <1>4, <1>6 DEF Sound, MatesKept
<1>8. \A x \in Range(p) : M[x] # NoNode => M[x] \in Range(p)
  BY <1>1, <1>3, <1>7, WalkMates
<1>9. QED
  BY <1>2, <1>3, <1>5, <1>6, <1>8 DEF p

\* The second lock is won: the two trees are taken, their paths pending.
LEMMA SecondWonSound ==
  ASSUME LockInv, Sound, AugmentStill, NEW t \in At("second"),
         atomic_locks_tree[Second(Edge(t))] = 0, Turn(t, Flipping(t)),
         atomic_locks_tree' = [atomic_locks_tree EXCEPT ![Second(Edge(t))] = 1],
         M' = M, found' = found
  PROVE  AugmentPart'
<1>0. PICK f, s : f = First(Edge(t)) /\ s = Second(Edge(t))
  OBVIOUS
<1> DEFINE e == Edge(t)
           F == FlipsFor(e)
           n == Tasklet("flip", t.work, F)
           p == Walk(path_table, e[1])  q == Walk(path_table, e[2])
<1>1. phase = "augment" /\ phase' = "augment" /\ phase \in Kernels /\ adj' = adj /\ belongs' = belongs
  BY DEF AugmentStill, Kernels
<1>2. /\ t \in running /\ t.at = "second" /\ t.flips = <<>> /\ t.work \in Works /\ t \in Holders
      /\ e \in Bridges /\ e \in Node \X Node /\ e[1] \in EvenNodes /\ e[2] \in EvenNodes
      /\ IsAdjacent(adj, e[1], e[2]) /\ ~Taken(f)
  BY <1>0, <1>1, SecondFacts
<1>3. /\ f \in Node /\ s \in Node /\ f # s /\ IsRoot(f) /\ IsRoot(s)
      /\ {f, s} = {belongs[e[1]], belongs[e[2]]}
  BY <1>0, <1>1, <1>2, BridgeTrees
<1>4. ~Taken(belongs[e[1]]) /\ ~Taken(belongs[e[2]])
  <2>1. ~Taken(s)
    BY <1>0 DEF Taken
  <2>2. QED
    BY <1>2, <1>3, <2>1
<1>5. /\ EvenWalkLegal(e[1])
      /\ \A x \in Range(p) : /\ belongs[x] = belongs[e[1]] /\ ~Unflipped(x)
                             /\ M[x] # NoNode => M[x] \in Range(p)
      /\ belongs[e[1]] \in Range(p)
  BY <1>1, <1>2, <1>4, TakenWalk
<1>6. /\ EvenWalkLegal(e[2])
      /\ \A x \in Range(q) : /\ belongs[x] = belongs[e[2]] /\ ~Unflipped(x)
                             /\ M[x] # NoNode => M[x] \in Range(q)
      /\ belongs[e[2]] \in Range(q)
  BY <1>1, <1>2, <1>4, TakenWalk
<1>7. Pairs(F) /\ F # <<>> /\ NodesOf(F) = Range(p) \cup Range(q)
  BY <1>1, <1>2, <1>5, <1>6, FlipsForFacts, TypeParts DEF Sound, StateTyped
<1>8. Turn(t, {n})
  BY DEF Flipping
<1>9. n.at = "flip" /\ n.work = t.work /\ n.flips = F /\ Edge(n) = e
  BY DEF Tasklet, Edge
<1> HIDE DEF n, F, p, q
<1>10. Fits(n, t)
  <2>1. F \in Seq(Node \X Node)
    BY <1>7 DEF Pairs
  <2>2. n.at \in Places[phase]
    BY <1>1, <1>9, PlacesFacts
  <2>3. QED
    BY <1>9, <2>1, <2>2 DEF Fits
<1>11. TaskletsTyped' /\ TaskletsPlaced' /\ WorkSound'
  BY <1>1, <1>2, <1>8, <1>10, TurnFits, TypeParts, ForestStill DEF Sound, AugmentStill
<1>12. atomic_locks_tree \in [Node -> {0, 1}]
  BY TypeParts DEF Sound, StateTyped
<1>13. /\ atomic_locks_tree' \in [Node -> {0, 1}] /\ atomic_locks_tree'[s] = 1
       /\ \A r \in Node : r # s => atomic_locks_tree'[r] = atomic_locks_tree[r]
  BY <1>0, <1>3, <1>12
<1>14. StateTyped'
  BY <1>13, AugmentTyped, TypeParts DEF Sound, StateTyped, ForestTypeOK
<1>15. At("flip")' = At("flip") \cup {n} /\ Holders' = Holders \ {t}
  <2>1. /\ At("flip")' = (At("flip") \ {t}) \cup {m \in {n} : m.at = "flip"}
        /\ At("second")' = (At("second") \ {t}) \cup {m \in {n} : m.at = "second"}
        /\ At("release")' = (At("release") \ {t}) \cup {m \in {n} : m.at = "release"}
    BY <1>8, TurnAt
  <2>2. QED
    BY <1>2, <1>9, <2>1 DEF At, Holders
<1>16. \A x : Unflipped(x)' <=> Unflipped(x) \/ x \in NodesOf(F)
  <2>1. Pending' = Pending \cup Range(F)
    BY <1>9, <1>15 DEF Pending
  <2>2. QED
    BY <2>1 DEF Unflipped, NodesOf
<1>17. \A r \in Node : Taken(r)' <=> Taken(r) \/ r \in {f, s}
  <2>1. SUFFICES ASSUME NEW r \in Node PROVE Taken(r)' <=> Taken(r) \/ r \in {f, s}
    OBVIOUS
  <2>2. Taken(r)' <=> atomic_locks_tree'[r] = 1 /\ \A u \in Holders \ {t} : First(Edge(u)) # r
    BY <1>15, ForestStill DEF Taken
  <2>3. atomic_locks_tree[f] = 1 /\ \A u \in Holders : First(Edge(u)) = f => u = t
    BY <1>0, <1>2, HolderLocks
  <2>4. \A u \in Holders : First(Edge(u)) # s
    BY <1>0, HolderLocks
  <2>5. CASE r = f
    BY <1>3, <1>13, <2>2, <2>3, <2>5
  <2>6. CASE r = s
    BY <1>13, <2>2, <2>4, <2>6
  <2>7. CASE r \notin {f, s}
    <3>1. (\A u \in Holders \ {t} : First(Edge(u)) # r) <=> \A u \in Holders : First(Edge(u)) # r
      BY <1>0, <2>7
    <3>2. QED
      BY <1>13, <2>2, <2>7, <3>1 DEF Taken
  <2>8. QED
    BY <2>5, <2>6, <2>7
<1> HIDE DEF e
<1>18. MatesKept'
  <2>1. ASSUME NEW x \in Node, ~Unflipped(x)', M[x] # NoNode
        PROVE  M[x] # x /\ M[M[x]] = x /\ IsAdjacent(adj, x, M[x]) /\ ~Unflipped(M[x])'
    <3>1. ~Unflipped(x) /\ x \notin Range(p) /\ x \notin Range(q)
      BY <1>7, <1>16, <2>1
    <3>2. M[x] # x /\ M[M[x]] = x /\ IsAdjacent(adj, x, M[x]) /\ ~Unflipped(M[x])
      BY <2>1, <3>1 DEF Sound, MatesKept
    <3>3. x # NoNode
      BY DEF Node, NoNode
    <3>4. M[x] \notin Range(p) /\ M[x] \notin Range(q)
      BY <1>5, <1>6, <3>1, <3>2, <3>3
    <3>5. QED
      BY <1>7, <1>16, <3>2, <3>4
  <2>2. QED
    BY <1>1, <2>1 DEF MatesKept
<1>19. FlipsSound'
  <2>1. \A y \in NodesOf(F) : belongs[y] \in {f, s}
    BY <1>3, <1>5, <1>6, <1>7
  <2>2. \A g \in Range(F) : belongs[g[1]] \in {f, s} /\ belongs[g[2]] \in {f, s}
    BY <2>1 DEF NodesOf
  <2>3. /\ n.flips \in Seq(Node \X Node) /\ n.flips # <<>>
        /\ \A g \in Range(n.flips) :
             /\ g[1] # g[2] /\ IsAdjacent(adj, g[1], g[2]) /\ IsAdjacent(adj, g[2], g[1])
             /\ belongs[g[1]] \in {First(Edge(n)), Second(Edge(n))}
             /\ belongs[g[2]] \in {First(Edge(n)), Second(Edge(n))}
        /\ \A i, j \in DOMAIN n.flips : i # j =>
             {n.flips[i][1], n.flips[i][2]} \cap {n.flips[j][1], n.flips[j][2]} = {}
    BY <1>0, <1>7, <1>9, <2>2 DEF Pairs, PairsApart, Joinable, e
  <2>4. QED
    BY <1>1, <1>15, <2>3, ForestStill DEF Sound, FlipsSound
<1>20. TreesSound'
  <2>1. \A x \in Node : belongs[x] \in Node \cup {NoNode}
    BY TypeParts DEF Sound, StateTyped, ForestTypeOK
  <2>2. \A x \in Node : Whole(x)' => Whole(x)
    BY <1>1, <1>17, <2>1 DEF Whole
  <2>3. \A x : EvenWalkLegal(x)' <=> EvenWalkLegal(x)
    BY DEF EvenWalkLegal, AugmentStill
  <2>4. EvenNodes \subseteq Node
    BY DEF EvenNodes
  <2>5. QED
    BY <1>1, <2>2, <2>3, <2>4, ForestStill DEF Sound, TreesSound
<1>21. LocksSound'
  <2>0. f \in NodesOf(F) /\ s \in NodesOf(F)
    BY <1>3, <1>5, <1>6, <1>7
  <2>1. Unflipped(f)' /\ Unflipped(s)'
    BY <1>16, <2>0
  <2>2. n \in At("flip")' /\ First(Edge(n)) = f /\ Second(Edge(n)) = s
    BY <1>0, <1>9, <1>15 DEF e
  <2>3. \A r \in Node : Taken(r)' =>
          /\ M[r] # NoNode \/ Unflipped(r)'
          /\ found \/ \E u \in At("flip")' : r \in {First(Edge(u)), Second(Edge(u))}
    <3>1. SUFFICES ASSUME NEW r \in Node, Taken(r)'
                   PROVE  /\ M[r] # NoNode \/ Unflipped(r)'
                          /\ found \/ \E u \in At("flip")' : r \in {First(Edge(u)), Second(Edge(u))}
      OBVIOUS
    <3>2. CASE r \in {f, s}
      <4>1. r \in NodesOf(F)
        BY <2>0, <3>2
      <4>2. Unflipped(r)'
        BY <1>16, <4>1
      <4>3. \E u \in At("flip")' : r \in {First(Edge(u)), Second(Edge(u))}
        BY <2>2, <3>2
      <4>4. QED
        BY <4>2, <4>3
    <3>3. CASE Taken(r)
      BY <1>1, <1>15, <1>16, <3>3 DEF Sound, LocksSound
    <3>4. QED
      BY <1>17, <3>1, <3>2, <3>3
  <2>4. \A r \in Node : atomic_locks_tree'[r] = 1 => IsRoot(r)
    BY <1>1, <1>3, <1>13 DEF Sound, LocksSound
  <2>5. \A r \in Node : IsRoot(r) /\ M[r] # NoNode => Taken(r)'
    BY <1>1, <1>17 DEF Sound, LocksSound
  <2>6. QED
    BY <1>1, <2>3, <2>4, <2>5, ForestStill DEF LocksSound
<1>22. QED
  BY <1>11, <1>14, <1>18, <1>19, <1>20, <1>21 DEF AugmentPart

\* The first of some pairs has its nodes to itself.
LEMMA PairsTail ==
  ASSUME NEW s, Pairs(s), s # <<>>
  PROVE  /\ Head(s) \in Range(s) /\ Head(s) \in Node \X Node
         /\ Pairs(Tail(s))
         /\ NodesOf(s) = {Head(s)[1], Head(s)[2]} \cup NodesOf(Tail(s))
         /\ {Head(s)[1], Head(s)[2]} \cap NodesOf(Tail(s)) = {}
         /\ Len(s) = 1 => NodesOf(Tail(s)) = {}
         /\ Len(s) # 1 => Tail(s) # <<>>
<1>0. PICK S : S = Node \X Node
  OBVIOUS
<1>1. s \in Seq(S)
  BY <1>0 DEF Pairs
<1> DEFINE r == Tail(s)
<1>2. /\ r \in Seq(S) /\ Head(s) \in Range(s) /\ Range(r) \subseteq Range(s)
      /\ Range(s) = {Head(s)} \cup Range(r)
  BY <1>1, TailRange
<1>3. Len(r) = Len(s) - 1 /\ \A i \in 1 .. Len(r) : r[i] = s[i + 1]
  BY <1>1, HeadTailProperties
<1>4. Head(s) = s[1] /\ Head(s) \in S
  BY <1>1, HeadTailProperties
<1>5. Len(s) \in Nat \ {0} /\ DOMAIN s = 1 .. Len(s) /\ Len(r) \in Nat /\ DOMAIN r = 1 .. Len(r)
  BY <1>1, <1>2, EmptySeq, LenProperties
<1> HIDE DEF r
<1>6. 1 \in DOMAIN s /\ \A i \in DOMAIN r : i + 1 \in DOMAIN s /\ i + 1 # 1 /\ r[i] = s[i + 1]
  BY <1>3, <1>5
<1>7. PairsApart(r)
  <2>1. SUFFICES ASSUME NEW i \in DOMAIN r, NEW j \in DOMAIN r, i # j
                 PROVE  {r[i][1], r[i][2]} \cap {r[j][1], r[j][2]} = {}
    BY DEF PairsApart
  <2>2. i + 1 # j + 1
    BY <1>5, <2>1
  <2>3. QED
    BY <1>6, <2>2 DEF Pairs, PairsApart
<1>8. Pairs(r)
  BY <1>0, <1>2, <1>7 DEF Pairs
<1>9. NodesOf(s) = {Head(s)[1], Head(s)[2]} \cup NodesOf(r)
  BY <1>2 DEF NodesOf
<1>10. {Head(s)[1], Head(s)[2]} \cap NodesOf(r) = {}
  <2>1. \A i \in DOMAIN r : {s[1][1], s[1][2]} \cap {r[i][1], r[i][2]} = {}
    BY <1>6 DEF Pairs, PairsApart
  <2>2. QED
    BY <1>4, <2>1 DEF NodesOf, Range
<1>11. Len(s) = 1 => NodesOf(r) = {}
  <2>1. Len(s) = 1 => DOMAIN r = {}
    BY <1>3, <1>5
  <2>2. QED
    BY <2>1 DEF NodesOf, Range
<1>12. Len(s) # 1 => r # <<>>
  <2>1. Len(s) # 1 => Len(r) # 0
    BY <1>3, <1>5
  <2>2. QED
    BY <2>1, EmptySeq
<1>13. QED
  BY <1>0, <1>2, <1>4, <1>8, <1>9, <1>10, <1>11, <1>12 DEF r

\* and so does FlipPair, which matches nodes of trees taken only.
LEMMA FlipPairSound ==
  ASSUME LockInv, Sound, AugmentStill, FlipPair
  PROVE  AugmentPart' /\ \A x \in Node : belongs[x] = NoNode => M'[x] = M[x]
<1>1. PICK t \in At("flip") :
        /\ M' = [M EXCEPT ![Head(t.flips)[1]] = Head(t.flips)[2], ![Head(t.flips)[2]] = Head(t.flips)[1]]
        /\ found' = (found \/ Len(t.flips) = 1)
        /\ Turn(t, IF Len(t.flips) = 1 THEN NextEdge(t)
                   ELSE {Tasklet("flip", t.work, Tail(t.flips))})
        /\ atomic_locks_tree' = atomic_locks_tree
  BY DEF FlipPair
<1>2. PICK s, a, b : s = t.flips /\ a = Head(s)[1] /\ b = Head(s)[2]
  OBVIOUS
<1> DEFINE T == IF Len(s) = 1 THEN NextEdge(t) ELSE {Tasklet("flip", t.work, Tail(s))}
<1>3. /\ M' = [M EXCEPT ![a] = b, ![b] = a] /\ found' = (found \/ Len(s) = 1)
      /\ Turn(t, T)
  BY <1>1, <1>2
<1>4. /\ phase = "augment" /\ phase' = "augment" /\ phase \in Kernels
      /\ adj' = adj /\ belongs' = belongs
  BY DEF AugmentStill, Kernels
<1>5. t \in running /\ t.at = "flip" /\ t.work \in Works
  BY AtFacts
<1>6. /\ Pairs(s) /\ s # <<>>
      /\ \A x \in NodesOf(s) : belongs[x] \in {First(Edge(t)), Second(Edge(t))}
  BY <1>2 DEF Sound, FlipsSound, Pairs, PairsApart, Joinable, NodesOf
<1>7. /\ Head(s) \in Range(s) /\ Head(s) \in Node \X Node
      /\ Pairs(Tail(s))
      /\ NodesOf(s) = {a, b} \cup NodesOf(Tail(s)) /\ {a, b} \cap NodesOf(Tail(s)) = {}
      /\ Len(s) = 1 => NodesOf(Tail(s)) = {}
      /\ Len(s) # 1 => Tail(s) # <<>>
  BY <1>2, <1>6, PairsTail
<1>8. a \in Node /\ b \in Node /\ a # b /\ IsAdjacent(adj, a, b) /\ IsAdjacent(adj, b, a)
  BY <1>2, <1>6, <1>7 DEF Pairs, Joinable
<1>9. /\ M \in [Node -> Node \cup {NoNode}] /\ atomic_locks_tree \in [Node -> {0, 1}] /\ found \in BOOLEAN
      /\ belongs \in [Node -> Node \cup {NoNode}]
  BY TypeParts DEF Sound, StateTyped, ForestTypeOK
<1>10. /\ M' \in [Node -> Node \cup {NoNode}] /\ M'[a] = b /\ M'[b] = a
       /\ \A x \in Node : x \notin {a, b} => M'[x] = M[x]
  BY <1>3, <1>8, <1>9
<1>11. \A n \in T : /\ Fits(n, t) /\ n.at \in {"scan", "flip"}
                    /\ n.at = "flip" => n.flips = Tail(s) /\ Edge(n) = Edge(t) /\ Len(s) # 1
  <2>1. CASE Len(s) = 1
    BY <1>4, <2>1, NextFits
  <2>2. CASE Len(s) # 1
    <3>1. SUFFICES ASSUME NEW n, n = Tasklet("flip", t.work, Tail(s))
                   PROVE  Fits(n, t) /\ n.at = "flip" /\ n.flips = Tail(s) /\ Edge(n) = Edge(t)
      BY <2>2
    <3>2. n.at = "flip" /\ n.work = t.work /\ n.flips = Tail(s)
      BY <3>1 DEF Tasklet
    <3>3. Tail(s) \in Seq(Node \X Node)
      BY <1>7 DEF Pairs
    <3>4. n.at \in Places[phase]
      BY <1>4, <3>2, PlacesFacts
    <3>5. QED
      BY <3>2, <3>3, <3>4 DEF Fits, Edge
  <2>3. QED
    BY <2>1, <2>2
<1>12. Len(s) # 1 => \E n \in T : n.at = "flip"
  <2>1. Tasklet("flip", t.work, Tail(s)).at = "flip"
    BY DEF Tasklet
  <2>2. QED
    BY <2>1
<1> HIDE DEF T
<1>13. TaskletsTyped' /\ TaskletsPlaced' /\ WorkSound'
  BY <1>3, <1>4, <1>5, <1>11, TurnFits, TypeParts, ForestStill DEF Sound, AugmentStill
<1>14. StateTyped'
  BY <1>1, <1>3, <1>9, <1>10, AugmentTyped
<1>15. At("flip")' = (At("flip") \ {t}) \cup {n \in T : n.at = "flip"} /\ Holders' = Holders
  <2>1. /\ At("flip")' = (At("flip") \ {t}) \cup {n \in T : n.at = "flip"}
        /\ At("second")' = (At("second") \ {t}) \cup {n \in T : n.at = "second"}
        /\ At("release")' = (At("release") \ {t}) \cup {n \in T : n.at = "release"}
    BY <1>3, TurnAt
  <2>2. QED
    BY <1>5, <1>11, <2>1 DEF At, Holders
<1>16. \A r : Taken(r)' <=> Taken(r)
  BY <1>1, <1>15, ForestStill DEF Taken
<1>17. \A x : Unflipped(x) <=> \E u \in At("flip") : x \in NodesOf(u.flips)
  BY DEF Unflipped, Pending, NodesOf
<1>18. \A x : Unflipped(x)' <=> \E u \in At("flip")' : x \in NodesOf(u.flips)
  BY DEF Unflipped, Pending, NodesOf
<1>19. \A u \in At("flip") : \A x \in NodesOf(u.flips) : u # t => x \notin {a, b}
  <2>1. SUFFICES ASSUME NEW u \in At("flip"), NEW x \in NodesOf(u.flips), u # t, x \in {a, b}
                 PROVE  FALSE
    OBVIOUS
  <2>2. belongs[x] \in {First(Edge(u)), Second(Edge(u))}
    BY DEF Sound, FlipsSound, NodesOf
  <2>3. belongs[x] \in {First(Edge(t)), Second(Edge(t))}
    BY <1>6, <1>7, <2>1
  <2>4. u \in running /\ u.at = "flip"
    BY AtFacts
  <2>5. belongs[x] \in Owned(u) /\ belongs[x] \in Owned(t)
    BY <1>5, <2>2, <2>3, <2>4, OwnedOf DEF LockInv
  <2>6. QED
    BY <1>5, <2>1, <2>4, <2>5 DEF LockInv, TreesExclusive
<1>20. \A x : Unflipped(x)' <=> Unflipped(x) /\ x \notin {a, b}
  <2>1. \A x : (\E n \in T : n.at = "flip" /\ x \in NodesOf(n.flips)) <=> x \in NodesOf(Tail(s))
    BY <1>7, <1>11, <1>12
  <2>2. \A x : Unflipped(x)' <=> \/ \E u \in At("flip") : u # t /\ x \in NodesOf(u.flips)
                                 \/ x \in NodesOf(Tail(s))
    BY <1>15, <1>18, <2>1
  <2>3. \A x : Unflipped(x) <=> \/ \E u \in At("flip") : u # t /\ x \in NodesOf(u.flips)
                                \/ x \in {a, b} \cup NodesOf(Tail(s))
    BY <1>2, <1>7, <1>17
  <2>4. QED
    BY <1>7, <1>19, <2>2, <2>3
<1>21. Unflipped(a) /\ Unflipped(b) /\ Taken(belongs[a]) /\ Taken(belongs[b])
  <2>1. Unflipped(a) /\ Unflipped(b)
    BY <1>2, <1>7, <1>17
  <2>2. QED
    BY <2>1, UnflippedTaken DEF Sound
<1>22. belongs[a] \in Node /\ belongs[b] \in Node
  <2>1. belongs[a] \in {First(Edge(t)), Second(Edge(t))} /\ belongs[b] \in {First(Edge(t)), Second(Edge(t))}
    BY <1>6, <1>7
  <2>2. QED
    BY <2>1, FlippersTake
<1>23. \A x \in Node : belongs[x] = NoNode \/ Whole(x) => M'[x] = M[x] /\ x \notin {a, b}
  <2>1. NoNode \notin Node
    BY DEF Node, NoNode
  <2>2. QED
    BY <1>10, <1>21, <1>22, <2>1 DEF Whole
<1>24. MatesKept'
  <2>1. ASSUME NEW x \in Node, ~Unflipped(x)', NEW y, y = M'[x], y # NoNode
        PROVE  y # x /\ M'[y] = x /\ IsAdjacent(adj, x, y) /\ ~Unflipped(y)'
    <3>1. CASE x = a
      BY <1>8, <1>10, <1>20, <2>1, <3>1
    <3>2. CASE x = b
      BY <1>8, <1>10, <1>20, <2>1, <3>2
    <3>3. CASE x \notin {a, b}
      <4>1. ~Unflipped(x) /\ y = M[x]
        BY <1>10, <1>20, <2>1, <3>3
      <4>2. M[x] # x /\ M[M[x]] = x /\ IsAdjacent(adj, x, M[x]) /\ ~Unflipped(M[x])
        BY <2>1, <4>1 DEF Sound, MatesKept
      <4>3. y \notin {a, b} /\ y \in Node /\ ~Unflipped(y)
        BY <1>9, <1>21, <2>1, <4>1, <4>2
      <4>4. M'[y] = x /\ ~Unflipped(y)'
        BY <1>10, <1>20, <4>1, <4>2, <4>3
      <4>5. QED
        BY <4>1, <4>2, <4>4
    <3>4. QED
      BY <3>1, <3>2, <3>3
  <2>2. QED
    BY <1>4, <2>1 DEF MatesKept, Unflipped
<1>25. FlipsSound'
  <2>1. ASSUME NEW n \in T, n.at = "flip"
        PROVE  /\ n.flips \in Seq(Node \X Node) /\ n.flips # <<>>
               /\ \A g \in Range(n.flips) :
                    /\ g[1] # g[2] /\ IsAdjacent(adj, g[1], g[2]) /\ IsAdjacent(adj, g[2], g[1])
                    /\ belongs[g[1]] \in {First(Edge(n)), Second(Edge(n))}
                    /\ belongs[g[2]] \in {First(Edge(n)), Second(Edge(n))}
               /\ \A i, j \in DOMAIN n.flips : i # j =>
                    {n.flips[i][1], n.flips[i][2]} \cap {n.flips[j][1], n.flips[j][2]} = {}
    <3>1. n.flips = Tail(s) /\ Edge(n) = Edge(t) /\ Len(s) # 1
      BY <1>11, <2>1
    <3>2. \A y \in NodesOf(Tail(s)) : belongs[y] \in {First(Edge(t)), Second(Edge(t))}
      BY <1>6, <1>7
    <3>3. \A g \in Range(Tail(s)) : /\ belongs[g[1]] \in {First(Edge(t)), Second(Edge(t))}
                                    /\ belongs[g[2]] \in {First(Edge(t)), Second(Edge(t))}
      BY <3>2 DEF NodesOf
    <3>4. QED
      BY <1>7, <3>1, <3>3 DEF Pairs, PairsApart, Joinable
  <2>2. QED
    BY <1>4, <1>15, <2>1, ForestStill DEF Sound, FlipsSound
<1>26. TreesSound'
  <2>1. \A x \in Node : Whole(x)' <=> Whole(x)
    BY <1>4, <1>16 DEF Whole
  <2>2. \A x \in Node : M'[x] = NoNode => M[x] = NoNode
    <3>1. a # NoNode /\ b # NoNode
      BY <1>8 DEF Node, NoNode
    <3>2. QED
      BY <1>10, <3>1
  <2>3. ASSUME NEW x \in EvenNodes, Whole(x) PROVE EvenWalkLegal(x)'
    <3> DEFINE p == Walk(path_table, x)
    <3>1. EvenWalkLegal(x) /\ x \in Node /\ belongs[x] # NoNode
      BY <1>4, <2>3 DEF Sound, TreesSound, EvenNodes, EvenNode
    <3>2. /\ p \in Seq(Node) /\ IsEvenWalk(adj, M, p) /\ Last(p) = belongs[x]
          /\ \A y \in Range(p) : belongs[y] = belongs[x]
      BY <3>1 DEF EvenWalkLegal
    <3>3. p # <<>>
      BY <3>1, WalkType, TypeParts DEF Sound, StateTyped, ForestTypeOK, Path
    <3>4. p' = p
      BY DEF AugmentStill
    <3> HIDE DEF p
    <3>5. \A y \in Range(p) : y \in Node /\ M'[y] = M[y]
      <4>1. \A y \in Range(p) : y \in Node
        BY <3>2, ElementOfSeq, LenProperties DEF Range
      <4>2. \A y \in Range(p) : Whole(y)
        BY <2>3, <3>2 DEF Whole
      <4>3. QED
        BY <1>23, <4>1, <4>2
    <3>6. DOMAIN p = 1 .. Len(p) /\ Len(p) \in Nat \ {0}
      BY <3>2, <3>3, LenProperties, EmptySeq
    <3>7. \A i \in 1 .. Len(p) : M'[p[i]] = M[p[i]]
      BY <3>5, <3>6 DEF Range
    <3>8. Len(p) \in 1 .. Len(p) /\ \A i \in 1 .. (Len(p) - 1) : i \in 1 .. Len(p)
      BY <3>6
    <3>9. IsEvenWalk(adj, M', p)
      BY <3>2, <3>7, <3>8 DEF IsEvenWalk, Last
    <3>10. QED
      BY <1>4, <3>2, <3>4, <3>9 DEF EvenWalkLegal, p
  <2>4. EvenNodes \subseteq Node
    BY DEF EvenNodes
  <2>5. \A x \in Node : M'[x] # NoNode /\ Whole(x) => belongs[M'[x]] = belongs[x]
    BY <1>4, <1>23 DEF Sound, TreesSound
  <2>6. QED
    BY <1>4, <2>1, <2>2, <2>3, <2>4, <2>5, ForestStill DEF Sound, TreesSound
<1>27. LocksSound'
  <2>1. ASSUME NEW r \in Node, Taken(r)
        PROVE  /\ M'[r] # NoNode \/ Unflipped(r)'
               /\ found' \/ \E u \in At("flip")' : r \in {First(Edge(u)), Second(Edge(u))}
    <3>1. /\ M[r] # NoNode \/ Unflipped(r)
          /\ found \/ \E u \in At("flip") : r \in {First(Edge(u)), Second(Edge(u))}
      BY <1>4, <2>1 DEF Sound, LocksSound
    <3>2. a # NoNode /\ b # NoNode
      BY <1>8 DEF Node, NoNode
    <3>3. M'[r] # NoNode \/ Unflipped(r)'
      BY <1>10, <1>20, <3>1, <3>2
    <3>4. ASSUME NEW u \in At("flip"), r \in {First(Edge(u)), Second(Edge(u))}
          PROVE  found' \/ \E m \in At("flip")' : r \in {First(Edge(m)), Second(Edge(m))}
      <4>1. CASE u # t
        BY <1>15, <3>4, <4>1
      <4>2. CASE u = t /\ Len(s) = 1
        BY <1>3, <4>2
      <4>3. CASE u = t /\ Len(s) # 1
        <5>1. PICK n \in T : n.at = "flip"
          BY <1>12, <4>3
        <5>2. n \in At("flip")' /\ Edge(n) = Edge(t)
          BY <1>11, <1>15, <5>1
        <5>3. QED
          BY <3>4, <4>3, <5>2
      <4>4. QED
        BY <4>1, <4>2, <4>3
    <3>5. QED
      BY <1>3, <3>1, <3>3, <3>4
  <2>2. \A r \in Node : IsRoot(r) /\ M'[r] # NoNode => Taken(r)
    <3>1. ASSUME NEW r \in Node, IsRoot(r), M'[r] # NoNode PROVE Taken(r)
      <4>1. CASE r \in {a, b}
        BY <1>21, <3>1, <4>1 DEF IsRoot
      <4>2. CASE r \notin {a, b}
        BY <1>4, <1>10, <3>1, <4>2 DEF Sound, LocksSound
      <4>3. QED
        BY <4>1, <4>2
    <3>2. QED
      BY <3>1
  <2>3. \A r \in Node : atomic_locks_tree'[r] = 1 => IsRoot(r)
    BY <1>1, <1>4 DEF Sound, LocksSound
  <2>4. QED
    BY <1>4, <1>16, <2>1, <2>2, <2>3, ForestStill DEF LocksSound
<1>28. QED
  BY <1>13, <1>14, <1>23, <1>24, <1>25, <1>26, <1>27 DEF AugmentPart

\* Every step of the augment kernel keeps Sound.
LEMMA AugmentSound ==
  ASSUME LockInv, Sound, AugmentTasklet
  PROVE  Sound'
<1>1. AugmentStill /\ (LockFirst \/ LockSecond \/ ReleaseFirst \/ FlipPair)
  BY DEF AugmentTasklet, AugmentStill, hostVars
<1>2. AugmentPart' /\ \A x \in Node : belongs[x] = NoNode => M'[x] = M[x]
  <2>1. CASE LockFirst
    BY <1>1, <2>1, FirstSound
  <2>2. CASE LockSecond
    <3>1. PICK t \in At("second") :
            /\ Turn(t, IF atomic_locks_tree[Second(Edge(t))] = 0
                       THEN Flipping(t) ELSE Goto(t, "release"))
            /\ atomic_locks_tree' = [atomic_locks_tree EXCEPT ![Second(Edge(t))] = 1]
            /\ M' = M /\ found' = found
      BY <2>2 DEF LockSecond
    <3>2. CASE atomic_locks_tree[Second(Edge(t))] = 0
      BY <1>1, <3>1, <3>2, SecondWonSound
    <3>3. CASE atomic_locks_tree[Second(Edge(t))] # 0
      BY <1>1, <3>1, <3>3, SecondLostSound
    <3>4. QED
      BY <3>2, <3>3
  <2>3. CASE ReleaseFirst
    BY <1>1, <2>3, ReleaseSound
  <2>4. CASE FlipPair
    BY <1>1, <2>4, FlipPairSound
  <2>5. QED
    BY <1>1, <2>1, <2>2, <2>3, <2>4
<1>3. TaskletsPlaced'
  BY <1>2 DEF AugmentPart
<1>4. /\ IsUndirected(adj)' /\ RepairSound' /\ PairsSound' /\ OddsSound'
      /\ EntriesSound' /\ DistancesExact' /\ QueueSound' /\ CacheSound'
  BY <1>1, <1>2, <1>3, AugmentFrame
<1>5. TypeOK'
  BY <1>2 DEF AugmentPart, TypeOK, StateTyped, TaskletsTyped, Works
<1>6. QED
  BY <1>2, <1>4, <1>5 DEF AugmentPart, Sound

-----------------------------------------------------------------------------
(***************************************************************************)
(* A forest no path has been found in: all trees are whole.                *)
(***************************************************************************)
Settled ==
  /\ ~found
  /\ \A r \in Node : atomic_locks_tree[r] # 1
  /\ \A x \in Node : M[x] # NoNode => /\ M[x] # x /\ M[M[x]] = x /\ IsAdjacent(adj, x, M[x])
                                      /\ belongs[M[x]] = belongs[x]
  /\ \A x \in Node : M[x] = NoNode => IsRoot(x)
  /\ \A x \in Node : belongs[x] = NoNode => Unreached(x)
  /\ \A x \in Node : belongs[x] # NoNode => IsRoot(belongs[x])
  /\ \A x \in EvenNodes : EvenWalkLegal(x)
  /\ \A x \in Node : IsRoot(x) => M[x] = NoNode

\* A kernel that found no path ends with the forest, M and the locks in order.
LEMMA SoundSettled ==
  ASSUME Sound, phase # "init", ~found, Holders = {}, At("flip") = {}
  PROVE  Settled
<1>1. \A r \in Node : atomic_locks_tree[r] # 1
  <2>1. \A r \in Node : atomic_locks_tree[r] = 1 => Taken(r)
    BY DEF Taken
  <2>2. \A r \in Node : ~Taken(r)
    BY DEF Sound, LocksSound
  <2>3. QED
    BY <2>1, <2>2
<1>2. \A x \in Node : ~Taken(x) /\ ~Unflipped(x)
  <2>1. Pending = {}
    BY DEF Pending
  <2>2. QED
    BY <1>1, <2>1 DEF Taken, Unflipped
<1>3. \A x \in Node : belongs[x] \in Node \cup {NoNode}
  BY TypeParts DEF Sound, StateTyped, ForestTypeOK
<1>4. \A x \in Node : Whole(x)
  BY <1>2, <1>3 DEF Whole
<1>5. \A x \in EvenNodes : x \in Node
  BY DEF EvenNodes
<1>6. \A x \in Node : M[x] # NoNode => M[x] # x /\ M[M[x]] = x /\ IsAdjacent(adj, x, M[x])
  BY <1>2 DEF Sound, MatesKept
<1>7. QED
  BY <1>1, <1>2, <1>4, <1>5, <1>6 DEF Sound, TreesSound, LocksSound, Settled

\* A forest in order is all that Sound asks of the matching and the locks.
LEMMA SettledSound ==
  ASSUME Settled', phase' # "init", At("flip")' = {}, Holders' = {},
         \A x \in Node : M'[x] \in Node \cup {NoNode}
  PROVE  MatesKept' /\ FlipsSound' /\ TreesSound' /\ RepairSound' /\ LocksSound'
<1>1. \A x : ~Unflipped(x)'
  <2>1. Pending' = {}
    BY DEF Pending
  <2>2. QED
    BY <2>1 DEF Unflipped
<1>2. \A r \in Node : ~Taken(r)'
  BY DEF Taken, Settled
<1>3. MatesKept'
  <2>1. \A y : ~Unflipped(y)'
    BY <1>1
  <2>2. QED
    BY <2>1 DEF MatesKept, Settled, Unflipped
<1>4. FlipsSound'
  BY DEF FlipsSound
<1>5. TreesSound'
  BY DEF TreesSound, Settled, EvenNodes
<1>6. RepairSound'
  BY DEF RepairSound
<1>7. LocksSound'
  BY <1>2 DEF LocksSound, Settled
<1>8. QED
  BY <1>3, <1>4, <1>5, <1>6, <1>7

\* What is read off the forest stays when the forest does.
LEMMA ForestKept ==
  ASSUME UNCHANGED forestVars
  PROVE  /\ \A x : /\ EvenNode(x)' = EvenNode(x) /\ IsRoot(x)' = IsRoot(x)
                   /\ Unreached(x)' = Unreached(x) /\ EvenWalkLegal(x)' = EvenWalkLegal(x)
         /\ EvenNodes' = EvenNodes /\ Walks' = Walks
         /\ \A work : WalkOf(work)' = WalkOf(work) /\ TurnLegal(work)' = TurnLegal(work)
         /\ LinksEven' = LinksEven /\ OddsBare' = OddsBare
         /\ \A turning : /\ StillOdd(turning)' = StillOdd(turning)
                         /\ OddsOnce(turning)' = OddsOnce(turning)
                         /\ \A walks : OddsApart(walks, turning)' = OddsApart(walks, turning)
<1>0. /\ adj' = adj /\ M' = M /\ is_even' = is_even /\ belongs' = belongs
      /\ path_table' = path_table
  BY DEF forestVars
<1>1. \A x : /\ EvenNode(x)' = EvenNode(x) /\ IsRoot(x)' = IsRoot(x)
             /\ Unreached(x)' = Unreached(x) /\ EvenWalkLegal(x)' = EvenWalkLegal(x)
  BY <1>0 DEF EvenNode, IsRoot, Unreached, EvenWalkLegal
<1>2. EvenNodes' = EvenNodes
  BY <1>1 DEF EvenNodes
<1>3. Walks' = Walks
  BY <1>0, <1>2 DEF Walks
<1>4. \A work : WalkOf(work)' = WalkOf(work)
  BY <1>0 DEF WalkOf
<1>5. \A work : TurnLegal(work)' = TurnLegal(work)
  BY <1>0, <1>2, <1>4 DEF TurnLegal
<1>6. LinksEven' = LinksEven /\ OddsBare' = OddsBare
  BY <1>0, <1>2 DEF LinksEven, OddsBare
<1>7. ASSUME NEW turning
      PROVE  /\ StillOdd(turning)' = StillOdd(turning)
             /\ OddsOnce(turning)' = OddsOnce(turning)
             /\ \A walks : OddsApart(walks, turning)' = OddsApart(walks, turning)
  <2>1. StillOdd(turning)' = StillOdd(turning)
    BY <1>0 DEF StillOdd, OddNode
  <2>2. QED
    BY <1>0, <1>2, <2>1 DEF OddsOnce, OddsApart
<1>8. QED
  BY <1>1, <1>2, <1>3, <1>4, <1>5, <1>6, <1>7

\* A step that touches neither the forest nor the locks leaves them in order.
LEMMA SettledKept ==
  ASSUME Settled, UNCHANGED <<forestVars, atomic_locks_tree, found>>
  PROVE  Settled'
<1>1. /\ UNCHANGED forestVars /\ atomic_locks_tree' = atomic_locks_tree /\ found' = found
      /\ M' = M /\ adj' = adj /\ belongs' = belongs
  BY DEF forestVars
<1>2. QED
  BY <1>1, ForestKept DEF Settled

-----------------------------------------------------------------------------
\* While a forest is grown all its trees are whole.
LEMMA GrownSettled ==
  ASSUME Sound, phase \in {"expand", "transform"}
  PROVE  /\ Settled /\ Holders = {} /\ At("flip") = {}
         /\ phase = "expand" => At("fill") = {}
         /\ phase = "transform" => At("grow") = {}
<1>1. /\ phase = "expand" => \A t \in running : t.at \in {"scan", "claim", "grow"}
      /\ phase = "transform" => \A t \in running : t.at \in {"scan", "claim", "fill"}
  BY PlacesFacts DEF Sound, TaskletsPlaced, Kernels
<1>2. /\ Holders = {} /\ At("flip") = {}
      /\ phase = "expand" => At("fill") = {}
      /\ phase = "transform" => At("grow") = {}
  BY <1>1 DEF Holders, At
<1>3. phase # "init" /\ ~found
  BY DEF Sound, LocksSound
<1>4. QED
  BY <1>2, <1>3, SoundSettled

\* No tasklet of one kernel is at a place of another.
LEMMA PlacedThen ==
  ASSUME TaskletsPlaced', phase' \in {"expand", "transform"}
  PROVE  /\ Holders' = {} /\ At("flip")' = {}
         /\ phase' = "expand" => At("fill")' = {}
         /\ phase' = "transform" => At("grow")' = {}
<1>1. Places' = Places
  BY DEF Places
<1>2. /\ phase' = "expand" => \A t \in running' : t.at \in {"scan", "claim", "grow"}
      /\ phase' = "transform" => \A t \in running' : t.at \in {"scan", "claim", "fill"}
  BY <1>1, PlacesFacts DEF TaskletsPlaced, Kernels
<1>3. QED
  BY <1>2 DEF Holders, At

EntriesPlain ==
  /\ EntriesLong(path_table) /\ LinksEven /\ OddsBare
  /\ OddsOnce({}) /\ OddsApart(Walks, {})

\* Outside the transform kernel no odd node is about to turn even.
LEMMA PlainEntries ==
  ASSUME phase # "transform", EntriesSound
  PROVE  EntriesPlain
<1>1. Turning = {} /\ Turns = {}
  BY DEF Turning, Turns
<1>2. Walks \cup {WalkOf(work) : work \in Turns} = Walks
  BY <1>1
<1>3. QED
  BY <1>1, <1>2 DEF EntriesSound, EntriesPlain

\* There, entries without regard to turning nodes are all that Sound asks.
LEMMA PlainThen ==
  ASSUME phase' # "transform", EntriesPlain'
  PROVE  EntriesSound'
<1>1. Turning' = {} /\ Turns' = {}
  BY DEF Turning, Turns
<1>2. (Walks \cup {WalkOf(work) : work \in Turns})' = Walks'
  BY <1>1
<1>3. QED
  BY <1>1, <1>2 DEF EntriesSound, EntriesPlain

\* A step that leaves the forest alone leaves its entries alone.
LEMMA PlainKept ==
  ASSUME EntriesPlain, UNCHANGED forestVars
  PROVE  EntriesPlain'
<1>1. EntriesLong(path_table)' = EntriesLong(path_table)
  BY DEF EntriesLong, forestVars
<1>2. OddsApart(Walks, {})' = OddsApart(Walks, {})
  <2>1. Walks' = Walks
    BY ForestKept
  <2>2. StillOdd({})' = StillOdd({})
    BY ForestKept
  <2>3. QED
    BY <2>1, <2>2 DEF OddsApart
<1>3. QED
  BY <1>1, <1>2, ForestKept DEF EntriesPlain

\* Appending behind the windows keeps the cached prefix sums right.
LEMMA CacheKept ==
  ASSUME CacheSound, QueueSound, StateTyped, phase \in {"expand", "transform"}, phase' = phase,
         adj' = adj, edge_prefix_cache' = edge_prefix_cache,
         queue'.b1 = queue.b1, queue'.b2 = queue.b2,
         \A i \in Nat : i < End(queue) => queue'.slots[i] = queue.slots[i]
  PROVE  CacheSound'
<1> DEFINE cache == edge_prefix_cache
<1>1. cache.valid => cache.begin + cache.size <= End(queue)
  <2>1. /\ queue.b1 \in Nat /\ queue.e1 \in Nat /\ queue.b2 \in Nat /\ queue.e2 \in Nat
        /\ cache.begin \in Nat /\ cache.size \in Nat
    BY NodesAssumption DEF StateTyped
  <2>2. queue.b1 <= End(queue) /\ queue.b2 <= End(queue)
    BY <2>1 DEF QueueSound, End
  <2>3. End(queue) \in Nat
    BY <2>1 DEF End
  <2>4. QED
    BY <2>1, <2>2, <2>3 DEF CacheSound
<1>2. cache.begin \in Nat /\ cache.size \in Nat
  BY NodesAssumption DEF StateTyped
<1>3. cache.valid => Slice(cache.begin, cache.size)' = Slice(cache.begin, cache.size)
  <2>1. SUFFICES ASSUME cache.valid, NEW i \in 1 .. cache.size
                 PROVE  queue'.slots[cache.begin + i - 1] = queue.slots[cache.begin + i - 1]
    BY DEF Slice
  <2>2. cache.begin + i - 1 \in Nat /\ cache.begin + i - 1 < End(queue)
    <3>1. End(queue) \in Int
      BY DEF StateTyped, End
    <3>2. QED
      BY <1>1, <1>2, <2>1, <3>1
  <2>3. QED
    BY <2>2
<1>4. cache.valid => ExclusiveScan(Slice(cache.begin, cache.size))' = ExclusiveScan(Slice(cache.begin, cache.size))
  BY <1>3 DEF ExclusiveScan, Rows
<1>5. QED
  BY <1>4 DEF CacheSound

-----------------------------------------------------------------------------
(***************************************************************************)
(* The expand kernel.                                                      *)
(***************************************************************************)
ExpandStill ==
  /\ phase = "expand" /\ phase' = phase
  /\ UNCHANGED <<adj, M, atomic_locks_tree, atomic_locks_odd_nodes, found, hostVars>>

PairOf(t) == Pair(Edge(t))

\* A step that leaves the forest alone.
LEMMA ExpandQuiet ==
  ASSUME Sound, ExpandStill, UNCHANGED <<is_even, belongs, path_table, root_distance, queue>>,
         NEW t, t.work \in Works, NEW T, Turn(t, T), \A n \in T : Fits(n, t),
         atomic_locks_match' \in [Node -> {0, 1}], PairsSound'
  PROVE  Sound'
<1>0. /\ phase = "expand" /\ phase' = "expand" /\ UNCHANGED forestVars
      /\ adj' = adj /\ M' = M /\ is_even' = is_even /\ belongs' = belongs
      /\ engine' = engine /\ exhausted' = exhausted /\ edge_prefix_cache' = edge_prefix_cache
  BY DEF ExpandStill, forestVars, hostVars
<1>1. Settled /\ At("fill") = {}
  BY <1>0, GrownSettled
<1>2. StateTyped /\ TaskletsTyped
  BY TypeParts DEF Sound
<1>3. TaskletsTyped' /\ TaskletsPlaced' /\ WorkSound'
  <2>1. \A x \in Node : EvenNode(x) => EvenNode(x)'
    BY <1>0 DEF EvenNode
  <2>2. QED
    BY <1>0, <1>2, <2>1, TurnFits DEF Sound, Kernels
<1>4. StateTyped'
  BY <1>0, <1>2 DEF StateTyped, ForestTypeOK, ExpandStill
<1>5. Holders' = {} /\ At("flip")' = {} /\ At("fill")' = {}
  BY <1>0, <1>3, PlacedThen
<1>6. MatesKept' /\ FlipsSound' /\ TreesSound' /\ RepairSound' /\ LocksSound'
  <2>1. Settled'
    BY <1>0, <1>1, SettledKept DEF ExpandStill
  <2>2. \A x \in Node : M'[x] \in Node \cup {NoNode}
    BY <1>4 DEF StateTyped, ForestTypeOK
  <2>3. QED
    BY <1>0, <1>5, <2>1, <2>2, SettledSound
<1>7. OddsSound'
  <2>1. \A x \in Node : atomic_locks_odd_nodes[x] = 1 => is_even[x] = 1
    BY <1>0, <1>1 DEF Sound, OddsSound
  <2>2. \A x \in Node : atomic_locks_odd_nodes'[x] = 1 => is_even'[x] = 1
    BY <2>1 DEF ExpandStill
  <2>3. QED
    BY <1>0, <2>2 DEF OddsSound
<1>8. EntriesSound'
  BY <1>0, PlainEntries, PlainKept, PlainThen DEF Sound
<1>9. DistancesExact'
  BY <1>0 DEF Sound, DistancesExact
<1>10. QueueSound'
  <2>1. Slots' = Slots
    BY DEF Slots
  <2>2. \A x : EvenNode(x)' = EvenNode(x)
    BY <1>0 DEF EvenNode
  <2>3. QED
    BY <1>0, <2>1, <2>2 DEF Sound, QueueSound
<1>11. CacheSound'
  BY <1>0, <1>2, CacheKept DEF Sound
<1>12. IsUndirected(adj)'
  BY <1>0 DEF Sound
<1>13. TypeOK'
  BY <1>3, <1>4 DEF TypeOK, StateTyped, TaskletsTyped, Works
<1>14. QED
  BY <1>3, <1>6, <1>7, <1>8, <1>9, <1>10, <1>11, <1>12, <1>13 DEF Sound

\* The pairs and slots stay while the matching does.
LEMMA SlotsStay ==
  ASSUME M' = M
  PROVE  /\ \A x : Slot(x)' = Slot(x)
         /\ \A t : PairOf(t)' = PairOf(t) /\ Edge(t)' = Edge(t)
<1>1. \A t : Edge(t)' = Edge(t)
  BY DEF Edge
<1>2. \A e : Pair(e)' = Pair(e)
  BY DEF Pair
<1>3. \A t : PairOf(t)' = PairOf(t)
  BY <1>1, <1>2 DEF PairOf, Edge, Pair
<1>4. QED
  BY <1>1, <1>3 DEF Slot

\* SeeFree keeps Sound: the tasklet only decides what to do with its edge.
LEMMA SeeFreeSound ==
  ASSUME Sound, ExpandStill, SeeFree
  PROVE  Sound'
<1>0. /\ phase = "expand" /\ phase' = "expand" /\ M' = M /\ belongs' = belongs
      /\ UNCHANGED <<is_even, belongs, path_table, root_distance, queue, atomic_locks_match>>
  BY DEF ExpandStill, SeeFree
<1>1. PICK t \in Ready : Turn(t, IF Edge(t) \in Outward THEN Goto(t, "claim") ELSE NextEdge(t))
  BY DEF SeeFree
<1>2. t.at = "scan" /\ t.work \in Works /\ t.flips = <<>>
  BY ReadyFacts DEF Sound
<1>3. PICK T : T = IF Edge(t) \in Outward THEN Goto(t, "claim") ELSE NextEdge(t)
  OBVIOUS
<1>4. /\ Turn(t, T)
      /\ \A n \in T : Fits(n, t)
      /\ \A n \in T : n.at = "scan" \/ (n.at = "claim" /\ Edge(n) = Edge(t) /\ Edge(t) \in Outward)
  <2>1. Turn(t, T)
    BY <1>1, <1>3
  <2>2. CASE Edge(t) \in Outward
    <3>1. "claim" \in Places[phase]
      BY <1>0, PlacesFacts
    <3>2. T = Goto(t, "claim")
      BY <1>3, <2>2
    <3>3. QED
      BY <1>2, <2>1, <2>2, <3>1, <3>2, GotoFits
  <2>3. CASE Edge(t) \notin Outward
    <3>1. T = NextEdge(t)
      BY <1>3, <2>3
    <3>2. QED
      BY <1>0, <2>1, <3>1, NextFits
  <2>4. QED
    BY <2>2, <2>3
<1>5. /\ At("grow")' = At("grow")
      /\ \A n \in At("claim")' : n \in At("claim") \/ (Edge(n) = Edge(t) /\ Edge(t) \in Outward)
  <2>1. /\ At("grow")' = (At("grow") \ {t}) \cup {n \in T : n.at = "grow"}
        /\ At("claim")' = (At("claim") \ {t}) \cup {n \in T : n.at = "claim"}
    BY <1>4, TurnAt
  <2>2. t \notin At("grow")
    BY <1>2 DEF At
  <2>3. QED
    BY <1>4, <2>1, <2>2
<1>6. Edge(t) \in Outward => belongs[Edge(t)[2]] = NoNode /\ M[Edge(t)[2]] # NoNode
  <2>1. SUFFICES ASSUME Edge(t) \in Outward PROVE belongs[Edge(t)[2]] = NoNode /\ M[Edge(t)[2]] # NoNode
    OBVIOUS
  <2>2. PICK w \in Node : w = Edge(t)[2] /\ belongs[w] = NoNode
    BY <2>1 DEF Outward
  <2>3. ~IsRoot(w)
    BY <2>2 DEF IsRoot, Node, NoNode
  <2>4. M[w] # NoNode
    BY <1>0, <2>3 DEF Sound, TreesSound
  <2>5. QED
    BY <2>2, <2>4
<1>7. PairsSound'
  <2>1. /\ \A x : Slot(x)' = Slot(x)
        /\ \A u : PairOf(u)' = PairOf(u) /\ Edge(u)' = Edge(u)
    BY <1>0, SlotsStay
  <2>2. PairsSound
    BY DEF Sound
  <2>3. QED
    BY <1>0, <1>5, <1>6, <2>1, <2>2 DEF PairsSound, PairOf
<1>8. atomic_locks_match' \in [Node -> {0, 1}]
  BY <1>0, TypeParts DEF Sound, StateTyped
<1>9. QED
  BY <1>0, <1>2, <1>4, <1>7, <1>8, ExpandQuiet

\* Where a tasklet that is about to lock a pair, or has it, stands.
LEMMA PairFacts ==
  ASSUME Sound, phase = "expand", NEW t, t \in At("claim") \/ t \in At("grow")
  PROVE  /\ t.work \in Works /\ t.flips = <<>> /\ t \in running
         /\ Edge(t)[1] \in EvenNodes /\ Edge(t)[2] \in Node
         /\ IsAdjacent(adj, Edge(t)[1], Edge(t)[2])
         /\ M[Edge(t)[2]] \in Node /\ M[M[Edge(t)[2]]] = Edge(t)[2] /\ M[Edge(t)[2]] # Edge(t)[2]
         /\ PairOf(t) = Slot(Edge(t)[2]) /\ PairOf(t) \in Node
<1>1. t.work \in Works /\ t.flips = <<>> /\ t \in running
  BY DEF At, Works, Sound, TaskletsPlaced
<1>2. EdgeWork(t.work)
  BY <1>1 DEF Sound, WorkSound, EdgeWork
<1>3. /\ Edge(t) \in Node \X Node
      /\ EvenNode(Edge(t)[1]) /\ IsAdjacent(adj, Edge(t)[1], Edge(t)[2])
  BY <1>2, EdgeOfWork DEF Edge
<1>4. PICK v \in Node, w \in Node : v = Edge(t)[1] /\ w = Edge(t)[2]
  BY <1>3
<1>5. M[w] # NoNode
  <2>1. CASE t \in At("claim")
    BY <1>4, <2>1 DEF Sound, PairsSound
  <2>2. CASE t \in At("grow")
    <3>1. belongs[w] = NoNode
      BY <1>4, <2>2 DEF Sound, PairsSound
    <3>2. ~IsRoot(w)
      BY <3>1 DEF IsRoot, Node, NoNode
    <3>3. QED
      BY <3>2 DEF Sound, TreesSound
  <2>3. QED
    BY <2>1, <2>2
<1>6. M[w] \in Node /\ M[M[w]] = w /\ M[w] # w
  <2>1. Settled
    BY GrownSettled
  <2>2. M[w] \in Node \cup {NoNode}
    BY TypeParts DEF Sound, StateTyped, ForestTypeOK
  <2>3. QED
    BY <1>5, <2>1, <2>2 DEF Settled
<1>7. PairOf(t) = Slot(w)
  BY <1>4 DEF PairOf, Pair, Slot
<1>8. Slot(w) \in Node
  BY <1>6 DEF Slot
<1>9. QED
  BY <1>1, <1>3, <1>4, <1>6, <1>7, <1>8 DEF EvenNodes

\* ClaimPair keeps Sound: one tasklet wins the pair and the others move on.
LEMMA ClaimPairSound ==
  ASSUME Sound, ExpandStill, ClaimPair
  PROVE  Sound'
<1>0. /\ phase = "expand" /\ phase' = "expand" /\ M' = M /\ belongs' = belongs
      /\ UNCHANGED <<is_even, belongs, path_table, root_distance, queue>>
  BY DEF ExpandStill, ClaimPair
<1>1. PICK t \in At("claim") :
        /\ Turn(t, IF atomic_locks_match[PairOf(t)] = 0 THEN Goto(t, "grow") ELSE NextEdge(t))
        /\ atomic_locks_match' = [atomic_locks_match EXCEPT ![PairOf(t)] = 1]
  BY DEF ClaimPair, PairOf
<1>2. /\ t.work \in Works /\ t.flips = <<>> /\ t \in running /\ t.at = "claim"
      /\ PairOf(t) \in Node /\ PairOf(t) = Slot(Edge(t)[2])
  BY <1>0, PairFacts DEF At
<1>3. PICK T : T = IF atomic_locks_match[PairOf(t)] = 0 THEN Goto(t, "grow") ELSE NextEdge(t)
  OBVIOUS
<1>4. /\ Turn(t, T)
      /\ \A n \in T : Fits(n, t)
      /\ atomic_locks_match[PairOf(t)] = 0 =>
           \E n : T = {n} /\ n.at = "grow" /\ Edge(n) = Edge(t)
      /\ atomic_locks_match[PairOf(t)] # 0 => \A n \in T : n.at = "scan"
  <2>1. Turn(t, T)
    BY <1>1, <1>3
  <2>2. CASE atomic_locks_match[PairOf(t)] = 0
    <3>1. "grow" \in Places[phase]
      BY <1>0, PlacesFacts
    <3>2. T = Goto(t, "grow")
      BY <1>3, <2>2
    <3>3. \E n : T = {n}
      BY <3>2 DEF Goto
    <3>4. QED
      BY <1>2, <2>1, <2>2, <3>1, <3>2, <3>3, GotoFits
  <2>3. CASE atomic_locks_match[PairOf(t)] # 0
    <3>1. T = NextEdge(t)
      BY <1>3, <2>3
    <3>2. QED
      BY <1>0, <2>1, <2>3, <3>1, NextFits
  <2>4. QED
    BY <2>2, <2>3
<1>5. /\ At("grow")' = At("grow") \cup {n \in T : n.at = "grow"}
      /\ At("claim")' \subseteq At("claim")
  <2>1. /\ At("grow")' = (At("grow") \ {t}) \cup {n \in T : n.at = "grow"}
        /\ At("claim")' = (At("claim") \ {t}) \cup {n \in T : n.at = "claim"}
    BY <1>4, TurnAt
  <2>2. t \notin At("grow")
    BY <1>2 DEF At
  <2>3. \A n \in T : n.at # "claim"
    BY <1>4
  <2>4. QED
    BY <2>1, <2>2, <2>3
<1>6. atomic_locks_match \in [Node -> {0, 1}]
  BY TypeParts DEF Sound, StateTyped
<1>7. atomic_locks_match' \in [Node -> {0, 1}]
  BY <1>1, <1>2, <1>6
<1>8. /\ \A x : Slot(x)' = Slot(x)
      /\ \A u : PairOf(u)' = PairOf(u) /\ Edge(u)' = Edge(u)
  BY <1>0, SlotsStay
<1>9. /\ \A x \in Node : belongs[x] = NoNode =>
           atomic_locks_match[Slot(x)] = 0 \/ \E u \in At("grow") : PairOf(u) = Slot(x)
      /\ \A u \in At("claim") :
            /\ M[Edge(u)[2]] # NoNode
            /\ belongs[Edge(u)[2]] = NoNode \/ atomic_locks_match[PairOf(u)] = 1
      /\ \A u \in At("grow") : belongs[Edge(u)[2]] = NoNode /\ atomic_locks_match[PairOf(u)] = 1
      /\ \A u, n \in At("grow") : u # n => PairOf(u) # PairOf(n)
  BY <1>0 DEF Sound, PairsSound, PairOf
<1>10. \A u \in At("claim") \cup At("grow") : PairOf(u) \in Node
  BY <1>0, PairFacts
<1>11. CASE atomic_locks_match[PairOf(t)] = 0
  <2>1. PICK n : T = {n} /\ n.at = "grow" /\ Edge(n) = Edge(t)
    BY <1>4, <1>11
  <2>2. PairOf(n) = PairOf(t) /\ n \in At("grow")' /\ At("grow")' = At("grow") \cup {n}
    BY <1>5, <2>1 DEF PairOf
  <2>3. belongs[Edge(t)[2]] = NoNode
    BY <1>9, <1>11
  <2>4. \A u \in At("grow") : PairOf(u) # PairOf(t)
    BY <1>9, <1>11
  <2>5. /\ \A s : s # PairOf(t) => atomic_locks_match'[s] = atomic_locks_match[s]
        /\ atomic_locks_match'[PairOf(t)] = 1
    BY <1>1, <1>2, <1>6
  <2>6. \A x \in Node : belongs'[x] = NoNode =>
           atomic_locks_match'[Slot(x)'] = 0 \/ \E u \in At("grow")' : PairOf(u)' = Slot(x)'
    <3>1. SUFFICES ASSUME NEW x \in Node, belongs[x] = NoNode
                   PROVE  atomic_locks_match'[Slot(x)] = 0 \/ \E u \in At("grow")' : PairOf(u) = Slot(x)
      BY <1>0, <1>8
    <3>2. CASE Slot(x) = PairOf(t)
      BY <2>2, <3>2
    <3>3. CASE Slot(x) # PairOf(t)
      BY <1>9, <2>2, <2>5, <3>1, <3>3
    <3>4. QED
      BY <3>2, <3>3
  <2>7. \A u \in At("claim")' :
            /\ M'[Edge(u)'[2]] # NoNode
            /\ belongs'[Edge(u)'[2]] = NoNode \/ atomic_locks_match'[PairOf(u)'] = 1
    BY <1>0, <1>5, <1>8, <1>9, <2>5
  <2>8. \A u \in At("grow")' : belongs'[Edge(u)'[2]] = NoNode /\ atomic_locks_match'[PairOf(u)'] = 1
    BY <1>0, <1>8, <1>9, <2>1, <2>2, <2>3, <2>5
  <2>9. \A u, m \in At("grow")' : u # m => PairOf(u)' # PairOf(m)'
    BY <1>8, <1>9, <2>2, <2>4
  <2>10. PairsSound'
    BY <2>6, <2>7, <2>8, <2>9 DEF PairsSound, PairOf
  <2>11. QED
    BY <1>0, <1>2, <1>4, <1>7, <2>10, ExpandQuiet
<1>12. CASE atomic_locks_match[PairOf(t)] # 0
  <2>1. atomic_locks_match' = atomic_locks_match
    BY <1>1, <1>2, <1>6, <1>12
  <2>2. At("grow")' = At("grow")
    BY <1>4, <1>5, <1>12
  <2>3. PairsSound'
    BY <1>0, <1>5, <1>8, <1>9, <2>1, <2>2 DEF PairsSound, PairOf
  <2>4. QED
    BY <1>0, <1>2, <1>4, <1>7, <2>3, ExpandQuiet
<1>13. QED
  BY <1>11, <1>12

-----------------------------------------------------------------------------
\* A pair in no tree, next to an even node v.
Growable(v, w, x) ==
  /\ v \in EvenNodes /\ w \in Node /\ x \in Node
  /\ M[w] = x /\ M[x] = w /\ w # x /\ IsAdjacent(adj, v, w)
  /\ belongs[w] = NoNode /\ belongs[x] = NoNode
  /\ is_even[w] = 0 /\ is_even[x] = 0 /\ path_table[w] = <<>>

\* It has become part of the tree.
GrowsTo(v, w, x) ==
  /\ adj' = adj /\ M' = M
  /\ is_even' = [is_even EXCEPT ![w] = 0, ![x] = 1]
  /\ belongs' = [belongs EXCEPT ![w] = belongs[v], ![x] = belongs[v]]
  /\ path_table' = [path_table EXCEPT ![x] = <<w, v>>]

\* The even nodes keep their walks, and x has one.
Grown(v, w, x) ==
  /\ ForestTypeOK'
  /\ \A y \in Node \ {w, x} : /\ is_even'[y] = is_even[y] /\ belongs'[y] = belongs[y]
                              /\ path_table'[y] = path_table[y]
  /\ is_even'[w] = 0 /\ is_even'[x] = 1
  /\ belongs'[w] = belongs[v] /\ belongs'[x] = belongs[v] /\ belongs[v] \in Node
  /\ path_table'[w] = <<>> /\ path_table'[x] = <<w, v>>
  /\ EvenNodes' = EvenNodes \cup {x}
  /\ \A y \in EvenNodes : /\ Walk(path_table', y) = Walk(path_table, y)
                          /\ \A z \in Range(Walk(path_table, y)) :
                               z \in Node \ {w, x} /\ belongs[z] = belongs[y]
  /\ HopOf(Walk(path_table', x), x, w, Walk(path_table, v))
  /\ EntriesLong(path_table')
  /\ StillOdd({})' = StillOdd({}) \cup {w}

\* A forest in order hangs together as the lemmas on blossoms ask.
LEMMA SettledHanging ==
  ASSUME Settled, EntriesPlain, ForestTypeOK
  PROVE  Hanging
<1>1. LegalForest
  BY DEF Settled, LegalForest, EvenNodes, EvenNode
<1>2. QED
  BY <1>1 DEF Hanging, EntriesPlain

\* Only the claimed mate gets a new walk, over the pair to its parent's walk.
LEMMA GrowWalks ==
  ASSUME ForestTypeOK, IsUndirected(adj), Settled, EntriesPlain,
         NEW v, NEW w, NEW x, Growable(v, w, x), GrowsTo(v, w, x)
  PROVE  Grown(v, w, x)
<1>0. /\ v \in EvenNodes /\ v \in Node /\ w \in Node /\ x \in Node
      /\ M[w] = x /\ M[x] = w /\ w # x /\ IsAdjacent(adj, v, w)
      /\ belongs[w] = NoNode /\ belongs[x] = NoNode /\ belongs[v] # NoNode
      /\ is_even[w] = 0 /\ is_even[x] = 0 /\ path_table[w] = <<>>
  BY DEF Growable, EvenNodes, EvenNode
<1>1. /\ path_table \in [Node -> Seq(Node)] /\ is_even \in [Node -> {0, 1}]
      /\ belongs \in [Node -> Node \cup {NoNode}]
  BY DEF ForestTypeOK
<1>2. belongs[v] \in Node /\ v # w /\ v # x
  BY <1>0, <1>1
<1>3. <<w, v>> \in Seq(Node) /\ Len(<<w, v>>) = 2
  BY <1>0
<1>4. /\ \A y \in Node \ {w, x} : /\ is_even'[y] = is_even[y] /\ belongs'[y] = belongs[y]
                                  /\ path_table'[y] = path_table[y]
      /\ is_even'[w] = 0 /\ is_even'[x] = 1
      /\ belongs'[w] = belongs[v] /\ belongs'[x] = belongs[v]
      /\ path_table'[w] = <<>> /\ path_table'[x] = <<w, v>>
  BY <1>0, <1>1 DEF GrowsTo
<1>5. ForestTypeOK'
  <2>1. /\ is_even' \in [Node -> {0, 1}] /\ belongs' \in [Node -> Node \cup {NoNode}]
        /\ path_table' \in [Node -> Seq(Node)]
    BY <1>0, <1>1, <1>2, <1>3 DEF GrowsTo
  <2>2. QED
    BY <2>1 DEF ForestTypeOK, GrowsTo
<1>6. EvenNodes' = EvenNodes \cup {x}
  <2>1. \A y \in Node \ {w, x} : EvenNode(y)' <=> EvenNode(y)
    BY <1>4 DEF EvenNode
  <2>2. ~EvenNode(w) /\ ~EvenNode(w)' /\ EvenNode(x)'
    BY <1>0, <1>4 DEF EvenNode
  <2>3. QED
    BY <1>0, <2>1, <2>2 DEF EvenNodes
<1>7. EntriesLong(path_table')
  <2>1. \A y \in Node : Len(path_table[y]) # 1
    BY DEF EntriesPlain, EntriesLong
  <2>2. Len(<<>>) = 0
    OBVIOUS
  <2>3. Len(path_table'[w]) # 1
    BY <1>4, <2>2
  <2>4. Len(path_table'[x]) # 1
    BY <1>3, <1>4
  <2>5. \A y \in Node \ {w, x} : Len(path_table'[y]) # 1
    BY <1>4, <2>1
  <2>6. QED
    BY <2>3, <2>4, <2>5 DEF EntriesLong
<1>8. ASSUME NEW y \in EvenNodes
      PROVE  /\ Walk(path_table', y) = Walk(path_table, y)
             /\ \A z \in Range(Walk(path_table, y)) :
                  z \in Node \ {w, x} /\ belongs[z] = belongs[y]
  <2>1. y \in Node /\ belongs[y] # NoNode /\ EvenWalkLegal(y)
    BY DEF EvenNodes, EvenNode, Settled
  <2>2. /\ Walk(path_table, y) \in Seq(Node)
        /\ \A z \in Range(Walk(path_table, y)) : belongs[z] = belongs[y]
    BY <2>1, EvenWalk
  <2>3. \A z \in Range(Walk(path_table, y)) : z \in Node
    <3>1. \A s \in Seq(Node) : \A z \in Range(s) : z \in Node
      <4>1. SUFFICES ASSUME NEW s \in Seq(Node), NEW z \in Range(s) PROVE z \in Node
        OBVIOUS
      <4>2. QED
        BY ElementOfSeq, LenProperties DEF Range
    <3>2. QED
      BY <2>2, <3>1
  <2>4. \A z \in Range(Walk(path_table, y)) : z \in Node \ {w, x} /\ belongs[z] = belongs[y]
    BY <1>0, <2>1, <2>2, <2>3
  <2>5. \A z \in Range(Walk(path_table, y)) : path_table'[z] = path_table[z]
    BY <1>4, <2>4
  <2>6. path_table' \in [Node -> Seq(Node)]
    BY <1>5 DEF ForestTypeOK
  <2>7. Walk(path_table', y) = Walk(path_table, y)
    BY <1>1, <2>1, <2>5, <2>6, WalkFrame
  <2>8. QED
    BY <2>4, <2>7
<1>9. HopOf(Walk(path_table', x), x, w, Walk(path_table, v))
  <2>1. EvenWalkLegal(v)
    BY <1>0 DEF Settled
  <2>2. /\ Walk(path_table, v) \in Path /\ Walk(path_table, v)[1] = v
        /\ Len(Walk(path_table, v)) <= nodes /\ IsEvenWalk(adj, M, Walk(path_table, v))
    BY <1>0, <2>1, EvenWalk DEF EvenWalkLegal
  <2>3. path_table' \in [Node -> Seq(Node)]
    BY <1>5 DEF ForestTypeOK
  <2>4. Walk(path_table', v) = Walk(path_table, v)
    BY <1>0, <1>8
  <2>5. Walk(path_table', x) = <<x, w>> \o Walk(path_table, v)
    <3>1. path_table'[x] = <<w, v>> /\ Len(Walk(path_table', v)) <= nodes
      BY <1>4, <2>2, <2>4
    <3>2. Walk(path_table', x) = <<x, w>> \o Walk(path_table', v)
      BY <1>0, <1>7, <2>3, <3>1, WalkHop
    <3>3. QED
      BY <2>4, <3>2
  <2>6. IsAdjacent(adj, w, v)
    <3>1. w \in Range(adj[v])
      BY <1>0 DEF IsAdjacent, Range
    <3>2. QED
      BY <1>0, <3>1 DEF IsUndirected
  <2>7. w \notin Range(Walk(path_table, v)) /\ x \notin Range(Walk(path_table, v))
    BY <1>0, <1>8
  <2>8. HopOf(<<x, w>> \o Walk(path_table, v), x, w, Walk(path_table, v))
    BY <1>0, <2>2, <2>6, <2>7, HopWalk
  <2>9. QED
    BY <2>5, <2>8
<1>10. StillOdd({})' = StillOdd({}) \cup {w}
  <2>1. \A y \in Node \ {w, x} : OddNode(y)' <=> OddNode(y)
    BY <1>4 DEF OddNode
  <2>2. ~OddNode(x) /\ ~OddNode(x)' /\ OddNode(w)'
    BY <1>0, <1>2, <1>4 DEF OddNode, Node, NoNode
  <2>3. QED
    BY <1>0, <2>1, <2>2 DEF StillOdd
<1>11. QED
  BY <1>2, <1>4, <1>5, <1>6, <1>7, <1>8, <1>9, <1>10 DEF Grown

\* Growing leaves the forest in order.
LEMMA GrowSettled ==
  ASSUME ForestTypeOK, Settled, NEW v, NEW w, NEW x, Growable(v, w, x), GrowsTo(v, w, x),
         Grown(v, w, x), UNCHANGED <<atomic_locks_tree, found>>
  PROVE  Settled'
<1>0. /\ v \in EvenNodes /\ w \in Node /\ x \in Node /\ M[w] = x /\ M[x] = w /\ w # x
      /\ belongs[w] = NoNode /\ belongs[x] = NoNode /\ is_even[w] = 0 /\ is_even[x] = 0
      /\ M' = M /\ adj' = adj /\ atomic_locks_tree' = atomic_locks_tree /\ found' = found
      /\ \A y \in Node : y # NoNode
  BY DEF Growable, GrowsTo, Node, NoNode
<1>1. /\ \A y \in Node \ {w, x} : /\ is_even'[y] = is_even[y] /\ belongs'[y] = belongs[y]
                                  /\ path_table'[y] = path_table[y]
      /\ is_even'[w] = 0 /\ is_even'[x] = 1
      /\ belongs'[w] = belongs[v] /\ belongs'[x] = belongs[v] /\ belongs[v] \in Node
      /\ path_table'[w] = <<>> /\ path_table'[x] = <<w, v>>
      /\ EvenNodes' = EvenNodes \cup {x}
      /\ \A y \in EvenNodes : /\ Walk(path_table', y) = Walk(path_table, y)
                              /\ \A z \in Range(Walk(path_table, y)) :
                                   z \in Node \ {w, x} /\ belongs[z] = belongs[y]
      /\ HopOf(Walk(path_table', x), x, w, Walk(path_table, v))
  BY DEF Grown
<1>2. <<w, v>> # <<>>
  OBVIOUS
<1>3. \A y \in Node : IsRoot(y)' <=> IsRoot(y)
  <2>1. \A y \in Node \ {w, x} : IsRoot(y)' <=> IsRoot(y)
    BY <1>1 DEF IsRoot
  <2>2. ~IsRoot(w) /\ ~IsRoot(w)' /\ ~IsRoot(x) /\ ~IsRoot(x)'
    BY <1>0, <1>1, <1>2 DEF IsRoot
  <2>3. QED
    BY <2>1, <2>2
<1>4. v \in Node /\ IsRoot(belongs[v])
  BY <1>0, <1>1 DEF Settled, EvenNodes
<1>5. \A y \in Node : M[y] # NoNode => /\ M[y] # y /\ M[M[y]] = y /\ IsAdjacent(adj, y, M[y])
                                        /\ belongs'[M[y]] = belongs'[y]
  <2>1. SUFFICES ASSUME NEW y \in Node, M[y] # NoNode PROVE belongs'[M[y]] = belongs'[y]
    BY DEF Settled
  <2>2. M[y] \in Node /\ M[M[y]] = y /\ belongs[M[y]] = belongs[y]
    BY <2>1 DEF Settled, ForestTypeOK
  <2>3. CASE y \in {w, x}
    BY <1>0, <1>1, <2>3
  <2>4. CASE y \notin {w, x}
    <3>1. M[y] \notin {w, x}
      BY <1>0, <2>2, <2>4
    <3>2. QED
      BY <1>1, <2>2, <2>4, <3>1
  <2>5. QED
    BY <2>3, <2>4
<1>6. \A y \in Node : M[y] = NoNode => IsRoot(y)'
  BY <1>3 DEF Settled
<1>7. \A y \in Node : belongs'[y] = NoNode => Unreached(y)'
  <2>1. SUFFICES ASSUME NEW y \in Node, belongs'[y] = NoNode PROVE Unreached(y)'
    OBVIOUS
  <2>2. y \notin {w, x}
    BY <1>0, <1>1, <2>1
  <2>3. Unreached(y)
    BY <1>1, <2>1, <2>2 DEF Settled
  <2>4. QED
    BY <1>1, <2>2, <2>3 DEF Unreached
<1>8. \A y \in Node : belongs'[y] # NoNode => IsRoot(belongs[y])'
  <2>1. SUFFICES ASSUME NEW y \in Node, belongs'[y] # NoNode PROVE IsRoot(belongs[y])'
    OBVIOUS
  <2>2. PICK r \in Node : r = belongs'[y] /\ IsRoot(r)
    <3>1. CASE y \in {w, x}
      BY <1>1, <1>4, <3>1
    <3>2. CASE y \notin {w, x}
      BY <1>1, <2>1, <3>2 DEF Settled, ForestTypeOK
    <3>3. QED
      BY <3>1, <3>2
  <2>3. belongs'[r] = r /\ is_even'[r] = 1 /\ path_table'[r] = <<>>
    BY <1>3, <2>2 DEF IsRoot
  <2>4. QED
    BY <2>2, <2>3 DEF IsRoot
<1>9. \A y \in EvenNodes : EvenWalkLegal(y)'
  <2>1. SUFFICES ASSUME NEW y \in EvenNodes PROVE EvenWalkLegal(y)'
    OBVIOUS
  <2>2. EvenWalkLegal(y) /\ y \in Node
    BY DEF Settled, EvenNodes
  <2>3. y \in Range(Walk(path_table, y))
    <3>1. path_table \in [Node -> Seq(Node)]
      BY DEF ForestTypeOK
    <3>2. QED
      BY <2>2, <3>1, WalkType
  <2>4. \A z \in Range(Walk(path_table, y)) : belongs'[z] = belongs'[y]
    BY <1>1, <2>3
  <2>5. belongs'[y] = belongs[y]
    BY <1>1, <2>3
  <2>6. QED
    BY <1>0, <1>1, <2>2, <2>4, <2>5 DEF EvenWalkLegal
<1>10. EvenWalkLegal(x)'
  <2>1. EvenWalkLegal(v)
    BY <1>0 DEF Settled
  <2>2. Last(Walk(path_table, v)) = belongs[v] /\ \A z \in Range(Walk(path_table, v)) : belongs[z] = belongs[v]
    BY <2>1 DEF EvenWalkLegal
  <2>3. /\ Walk(path_table', x) \in Seq(Node) /\ IsEvenWalk(adj, M, Walk(path_table', x))
        /\ Last(Walk(path_table', x)) = belongs[v]
        /\ Range(Walk(path_table', x)) = {x, w} \cup Range(Walk(path_table, v))
    BY <1>1, <2>2 DEF HopOf, Path
  <2>4. \A z \in Range(Walk(path_table', x)) : belongs'[z] = belongs'[x]
    BY <1>0, <1>1, <2>2, <2>3
  <2>5. QED
    BY <1>0, <1>1, <2>3, <2>4 DEF EvenWalkLegal
<1>11. \A y \in Node : IsRoot(y)' => M[y] = NoNode
  BY <1>3 DEF Settled
<1>12. ~found' /\ \A r \in Node : atomic_locks_tree'[r] # 1
  BY <1>0 DEF Settled
<1>13. \A y \in EvenNodes' : EvenWalkLegal(y)'
  BY <1>1, <1>9, <1>10
<1>14. QED
  BY <1>0, <1>5, <1>6, <1>7, <1>8, <1>11, <1>12, <1>13 DEF Settled

\* What an entry holds is on the walk.
LEMMA EntryInside ==
  ASSUME Hanging, NEW x \in EvenNodes
  PROVE  Range(path_table[x]) \subseteq Range(Walk(path_table, x))
<1>0. /\ ForestTypeOK /\ path_table \in [Node -> Seq(Node)] /\ x \in Node
      /\ EntriesLong(path_table) /\ path_table[x] \in Seq(Node)
  BY DEF Hanging, ForestTypeOK, EvenNodes
<1>1. CASE path_table[x] = <<>>
  <2>1. Range(<<>>) = {}
    BY DEF Range
  <2>2. QED
    BY <1>1, <2>1
<1>2. CASE path_table[x] # <<>>
  <2>1. Last(path_table[x]) \in EvenNodes
    BY <1>2 DEF Hanging, LinksEven
  <2>2. /\ Last(path_table[x]) \in Node /\ EvenWalkLegal(Last(path_table[x]))
    BY <2>1 DEF Hanging, LegalForest, EvenNodes, EvenNode
  <2>3. PICK q : q = Walk(path_table, Last(path_table[x]))
    OBVIOUS
  <2>4. Len(q) <= nodes /\ q \in Path /\ q[1] = Last(path_table[x])
    BY <1>0, <2>2, <2>3, EvenWalk
  <2>5. Walk(path_table, x) = Link(<<x>> \o path_table[x], q)
    BY <1>0, <1>2, <2>3, <2>4, WalkStep
  <2>6. /\ <<x>> \o path_table[x] \in Path
        /\ Range(<<x>> \o path_table[x]) = Range(<<x>>) \cup Range(path_table[x])
        /\ Last(<<x>> \o path_table[x]) = Last(path_table[x])
    <3>1. <<x>> \in Seq(Node) /\ Len(<<x>>) = 1
      BY <1>0
    <3>2. Len(path_table[x]) \in Nat \ {0}
      BY <1>0, <1>2, EmptySeq
    <3>3. /\ <<x>> \o path_table[x] \in Seq(Node)
          /\ Len(<<x>> \o path_table[x]) = 1 + Len(path_table[x])
          /\ (<<x>> \o path_table[x])[1 + Len(path_table[x])] = path_table[x][Len(path_table[x])]
      BY <1>0, <3>1, <3>2, ConcatProperties
    <3>4. Range(<<x>> \o path_table[x]) = Range(<<x>>) \cup Range(path_table[x])
      <4>1. \A s, r \in Seq(Node) : Range(s \o r) = Range(s) \cup Range(r)
        BY ConcatRange
      <4>2. QED
        BY <1>0, <3>1, <4>1
    <3>5. <<x>> \o path_table[x] # <<>>
      BY <3>2, <3>3, EmptySeq
    <3>6. QED
      BY <3>3, <3>4, <3>5 DEF Path, Last
  <2>7. Range(Link(<<x>> \o path_table[x], q)) = Range(<<x>> \o path_table[x]) \cup Range(q)
    BY <2>4, <2>6, LinkFacts
  <2>8. QED
    BY <2>5, <2>6, <2>7
<1>3. QED
  BY <1>1, <1>2

\* Growing keeps each odd node in one place of every walk.
LEMMA GrowEntries ==
  ASSUME ForestTypeOK, IsUndirected(adj), Settled, EntriesPlain,
         NEW v, NEW w, NEW x, Growable(v, w, x), GrowsTo(v, w, x), Grown(v, w, x)
  PROVE  EntriesPlain'
<1>0. /\ v \in EvenNodes /\ w \in Node /\ x \in Node /\ w # x
      /\ belongs[w] = NoNode /\ belongs[x] = NoNode /\ is_even[w] = 0 /\ is_even[x] = 0
      /\ w \notin EvenNodes /\ x \notin EvenNodes
  BY DEF Growable, EvenNodes, EvenNode
<1>1. /\ \A y \in Node \ {w, x} : is_even'[y] = is_even[y] /\ path_table'[y] = path_table[y]
      /\ is_even'[w] = 0 /\ is_even'[x] = 1
      /\ path_table'[w] = <<>> /\ path_table'[x] = <<w, v>>
      /\ EvenNodes' = EvenNodes \cup {x}
      /\ \A y \in EvenNodes : /\ Walk(path_table', y) = Walk(path_table, y)
                              /\ \A z \in Range(Walk(path_table, y)) : z \in Node \ {w, x}
      /\ HopOf(Walk(path_table', x), x, w, Walk(path_table, v))
      /\ EntriesLong(path_table')
      /\ StillOdd({})' = StillOdd({}) \cup {w}
  BY DEF Grown
<1>2. Hanging
  BY SettledHanging
<1>3. /\ LinksEven /\ OddsBare /\ OddsOnce({}) /\ OddsApart(Walks, {})
  BY DEF EntriesPlain
<1>4. EvenNodes \subseteq Node /\ \A y \in EvenNodes : y # w /\ y # x /\ y \in Node
  BY <1>0 DEF EvenNodes
<1>5. \A y \in EvenNodes : path_table'[y] = path_table[y]
  BY <1>1, <1>4
<1>6. Last(<<w, v>>) = v /\ Range(<<w, v>>) = {w, v} /\ <<w, v>>[1] = w
  <2>1. Len(<<w, v>>) = 2 /\ DOMAIN <<w, v>> = 1 .. 2 /\ <<w, v>>[1] = w /\ <<w, v>>[2] = v
    OBVIOUS
  <2>2. 1 .. 2 = {1, 2}
    OBVIOUS
  <2>3. QED
    BY <2>1, <2>2 DEF Last, Range
<1>7. LinksEven'
  <2>1. \A y \in EvenNodes : path_table'[y] # <<>> => Last(path_table'[y]) \in EvenNodes'
    BY <1>1, <1>3, <1>5 DEF LinksEven
  <2>2. Last(path_table'[x]) \in EvenNodes'
    BY <1>0, <1>1, <1>6
  <2>3. QED
    BY <1>1, <2>1, <2>2 DEF LinksEven
<1>8. OddsBare'
  BY <1>0, <1>1, <1>3 DEF OddsBare
<1>9. \A y \in EvenNodes : w \notin Range(path_table[y])
  BY <1>1, <1>2, EntryInside
<1>10. \A o \in StillOdd({}) : o # w /\ o # v /\ o \in Node
  BY <1>0 DEF StillOdd, OddNode, EvenNodes, EvenNode
<1>11. OddsOnce({})'
  <2>1. ASSUME NEW o \in StillOdd({})', NEW y \in EvenNodes', NEW z \in EvenNodes', o \in Range(path_table'[y])
        PROVE  path_table'[y][1] = o /\ (o \in Range(path_table'[z]) => y = z)
    <3>1. CASE o = w
      <4>1. \A u \in EvenNodes' : w \in Range(path_table'[u]) => u = x
        BY <1>1, <1>5, <1>9
      <4>2. QED
        BY <1>1, <1>6, <2>1, <3>1, <4>1
    <3>2. CASE o # w
      <4>1. o \in StillOdd({})
        BY <1>1, <2>1, <3>2
      <4>2. o \notin Range(path_table'[x])
        BY <1>1, <1>6, <1>10, <4>1
      <4>3. y \in EvenNodes /\ (o \in Range(path_table'[z]) => z \in EvenNodes)
        BY <1>1, <2>1, <4>2
      <4>4. QED
        BY <1>3, <1>5, <2>1, <4>1, <4>3 DEF OddsOnce
    <3>3. QED
      BY <3>1, <3>2
  <2>2. QED
    BY <2>1 DEF OddsOnce
<1>12. PICK p, q : p = Walk(path_table', x) /\ q = Walk(path_table, v)
  OBVIOUS
<1>13. Walks' = Walks \cup {p}
  <2>1. Walks' = {Walk(path_table', y) : y \in EvenNodes \cup {x}}
    BY <1>1 DEF Walks
  <2>2. {Walk(path_table', y) : y \in EvenNodes} = Walks
    BY <1>1 DEF Walks
  <2>3. QED
    BY <1>12, <2>1, <2>2
<1>14. /\ Walks \in SUBSET Path /\ q \in Walks /\ HopOf(p, x, w, q)
       /\ \A r \in Walks : x \notin Range(r) /\ w \notin Range(r)
  <2>1. path_table \in [Node -> Seq(Node)]
    BY DEF ForestTypeOK
  <2>2. Walks \in SUBSET Path
    BY <1>4, <2>1, WalkType DEF Walks
  <2>3. q \in Walks
    BY <1>0, <1>12 DEF Walks
  <2>4. \A r \in Walks : x \notin Range(r) /\ w \notin Range(r)
    BY <1>1 DEF Walks
  <2>5. QED
    BY <1>1, <1>12, <2>2, <2>3, <2>4
<1>15. ASSUME NEW o \in StillOdd({})
       PROVE  \A r, s \in Walks \cup {p} : Apart(r, s, o)
  <2>1. \A r, s \in Walks : Apart(r, s, o)
    BY <1>3 DEF OddsApart
  <2>2. QED
    BY <1>0, <1>14, <2>1, HopApart
<1>16. \A r, s \in Walks \cup {p} : Apart(r, s, w)
  <2>1. ASSUME NEW r \in Walks, NEW s PROVE Apart(r, s, w)
    <3>1. r \in Seq(Node) /\ w \notin Range(r)
      BY <1>14 DEF Path
    <3>2. Before(r, w) = {}
      BY <3>1, BeforeFacts
    <3>3. QED
      BY <3>2 DEF Apart
  <2>2. Apart(p, p, w)
    BY <1>14 DEF Apart, HopOf
  <2>3. ASSUME NEW s \in Walks PROVE Apart(p, s, w)
    <3>1. /\ p \in Seq(Node) /\ p[1] = x /\ p[2] = w /\ IsInjective(p) /\ 2 \in 1 .. Len(p)
      <4>1. q \in Path
        BY <1>14
      <4>2. Len(q) \in Nat \ {0}
        BY <4>1, EmptySeq, LenProperties DEF Path
      <4>3. QED
        BY <1>14, <4>2 DEF HopOf, Path, IsEvenWalk
    <3>2. \A y \in Before(p, w) : y = x
      <4>1. SUFFICES ASSUME NEW y \in Before(p, w) PROVE y = x
        OBVIOUS
      <4>2. PICK k, i \in 1 .. Len(p) : k < i /\ p[i] = w /\ y = p[k]
        BY <3>1, BeforeFacts
      <4>3. DOMAIN p = 1 .. Len(p)
        BY <3>1, LenProperties
      <4>4. i = 2
        BY <3>1, <4>2, <4>3 DEF IsInjective
      <4>5. k = 1
        BY <4>2, <4>4
      <4>6. QED
        BY <3>1, <4>2, <4>5
    <3>3. x \notin Range(s)
      BY <1>14
    <3>4. QED
      BY <3>2, <3>3 DEF Apart
  <2>4. QED
    BY <2>1, <2>2, <2>3
<1>17. OddsApart(Walks, {})'
  <2>1. \A o \in StillOdd({})' : \A r, s \in Walks' : Apart(r, s, o)
    BY <1>1, <1>13, <1>15, <1>16
  <2>2. QED
    BY <2>1 DEF OddsApart, Apart, Before
<1>18. EntriesLong(path_table)'
  BY <1>1 DEF EntriesLong
<1>19. QED
  BY <1>7, <1>8, <1>11, <1>17, <1>18 DEF EntriesPlain

-----------------------------------------------------------------------------
QueueTyped(q) ==
  q \in [slots : [Node -> Node], b1 : 0..nodes, e1 : 0..nodes, b2 : 0..nodes, e2 : 0..nodes]

\* The slots in use are a sequence of nodes.
LEMMA SlotsFacts ==
  ASSUME QueueTyped(queue)
  PROVE  /\ End(queue) \in Nat /\ End(queue) <= nodes
         /\ Slots \in Seq(Node) /\ Len(Slots) = End(queue)
         /\ \A i \in 1 .. End(queue) : Slots[i] = queue.slots[i - 1]
<1>1. /\ queue.slots \in [Node -> Node] /\ queue.e1 \in 0 .. nodes /\ queue.e2 \in 0 .. nodes
  BY DEF QueueTyped
<1>2. End(queue) \in Nat /\ End(queue) <= nodes
  BY <1>1, NodesAssumption DEF End
<1>3. \A i \in 1 .. End(queue) : i - 1 \in Node
  BY <1>2, NodesAssumption DEF Node
<1>4. \A i \in 1 .. End(queue) : queue.slots[i - 1] \in Node
  BY <1>1, <1>3
<1>5. PICK n : n = End(queue)
  OBVIOUS
<1>6. n \in Nat /\ \A i \in 1 .. n : queue.slots[i - 1] \in Node
  BY <1>2, <1>4, <1>5
<1>7. Slots = [i \in 1 .. n |-> queue.slots[i - 1]]
  BY <1>5 DEF Slots
<1>8. Slots \in Seq(Node) /\ Len(Slots) = n
  BY <1>6, <1>7
<1>9. QED
  BY <1>2, <1>5, <1>7, <1>8

\* The queue with one more node at its end.
OneMore(x) ==
  /\ queue'.slots = [queue.slots EXCEPT ![End(queue)] = x]
  /\ End(queue') = End(queue) + 1

\* A node that is not in the queue can be appended to it: there is room.
LEMMA OneMoreSlot ==
  ASSUME QueueTyped(queue), NEW x \in Node, IsInjective(Slots), x \notin Range(Slots),
         OneMore(x)
  PROVE  /\ IsInjective(Slots') /\ Range(Slots') = Range(Slots) \cup {x}
         /\ End(queue) < nodes
         /\ queue'.slots \in [Node -> Node]
         /\ \A i \in Nat : i < End(queue) => queue'.slots[i] = queue.slots[i]
<1>1. /\ End(queue) \in Nat /\ Slots \in Seq(Node) /\ Len(Slots) = End(queue)
      /\ \A i \in 1 .. End(queue) : Slots[i] = queue.slots[i - 1]
  BY SlotsFacts
<1>2. PICK n, s : n = End(queue) /\ s = Slots
  OBVIOUS
<1>3. n \in Nat /\ s \in Seq(Node) /\ Len(s) = n /\ IsInjective(s) /\ x \notin Range(s)
      /\ \A i \in 1 .. n : s[i] = queue.slots[i - 1]
  BY <1>1, <1>2
<1>4. /\ Append(s, x) \in Seq(Node) /\ Range(Append(s, x)) = Range(s) \cup {x}
      /\ IsInjective(Append(s, x))
      /\ Len(Append(s, x)) = n + 1 /\ Append(s, x)[n + 1] = x
      /\ \A i \in 1 .. n : Append(s, x)[i] = s[i]
  BY <1>3, AppendFacts, AppendProperties
<1>5. n < nodes
  <2>1. Append(s, x) \in Seq(0 .. (nodes - 1))
    BY <1>4 DEF Node
  <2>2. n + 1 <= nodes
    BY <1>4, <2>1, InjectiveLen, NodesAssumption
  <2>3. QED
    BY <1>3, <2>2, NodesAssumption
<1>6. n \in Node
  BY <1>3, <1>5, NodesAssumption DEF Node
<1>7. queue.slots \in [Node -> Node]
  BY DEF QueueTyped
<1>8. /\ queue'.slots \in [Node -> Node] /\ queue'.slots[n] = x
      /\ \A i : i \in Node /\ i # n => queue'.slots[i] = queue.slots[i]
  BY <1>2, <1>6, <1>7 DEF OneMore
<1>9. \A i \in Nat : i < n => i \in Node /\ i # n
  BY <1>3, <1>5, NodesAssumption DEF Node
<1>10. \A i \in Nat : i < n => queue'.slots[i] = queue.slots[i]
  BY <1>8, <1>9
<1>11. Slots' = Append(s, x)
  <2>1. Slots' = [i \in 1 .. (n + 1) |-> queue'.slots[i - 1]]
    BY <1>2 DEF Slots, OneMore
  <2>2. \A i \in 1 .. (n + 1) : queue'.slots[i - 1] = Append(s, x)[i]
    <3>1. SUFFICES ASSUME NEW i \in 1 .. (n + 1) PROVE queue'.slots[i - 1] = Append(s, x)[i]
      OBVIOUS
    <3>2. CASE i = n + 1
      <4>1. i - 1 = n
        BY <1>3, <3>2
      <4>2. QED
        BY <1>4, <1>8, <3>2, <4>1
    <3>3. CASE i # n + 1
      <4>1. i \in 1 .. n /\ i - 1 \in Nat /\ i - 1 < n
        BY <1>3, <3>3
      <4>2. QED
        BY <1>3, <1>4, <1>10, <4>1
    <3>4. QED
      BY <3>2, <3>3
  <2>3. DOMAIN Append(s, x) = 1 .. (n + 1) /\ Append(s, x) = [i \in 1 .. (n + 1) |-> Append(s, x)[i]]
    BY <1>3, <1>4, LenProperties
  <2>4. QED
    BY <2>1, <2>2, <2>3
<1>12. QED
  BY <1>2, <1>4, <1>5, <1>8, <1>10, <1>11

\* Both appends write one slot at the end of the window that is being filled.
LEMMA AppendedSlots ==
  ASSUME QueueTyped(queue), NEW x \in Node
  PROVE  /\ queue.b1 = queue.e2 /\ queue.b1 <= queue.e1 /\ queue' = AppendENode1(queue, x) =>
              OneMore(x) /\ queue'.e1 = End(queue) + 1 /\ queue.e1 = End(queue)
         /\ queue.b2 = queue.e1 /\ queue.b2 <= queue.e2 /\ queue' = AppendENode2(queue, x) =>
              OneMore(x) /\ queue'.e2 = End(queue) + 1 /\ queue.e2 = End(queue)
         /\ queue' = AppendENode1(queue, x) =>
              /\ queue'.b1 = queue.b1 /\ queue'.b2 = queue.b2 /\ queue'.e2 = queue.e2
              /\ queue' = [slots |-> queue'.slots, b1 |-> queue.b1, e1 |-> queue'.e1,
                           b2 |-> queue.b2, e2 |-> queue.e2]
         /\ queue' = AppendENode2(queue, x) =>
              /\ queue'.b1 = queue.b1 /\ queue'.b2 = queue.b2 /\ queue'.e1 = queue.e1
              /\ queue' = [slots |-> queue'.slots, b1 |-> queue.b1, e1 |-> queue.e1,
                           b2 |-> queue.b2, e2 |-> queue'.e2]
<1>1. /\ queue.b1 \in Nat /\ queue.e1 \in Nat /\ queue.b2 \in Nat /\ queue.e2 \in Nat
      /\ queue = [slots |-> queue.slots, b1 |-> queue.b1, e1 |-> queue.e1,
                  b2 |-> queue.b2, e2 |-> queue.e2]
  BY NodesAssumption DEF QueueTyped
<1>2. ASSUME queue' = AppendENode1(queue, x)
      PROVE  /\ queue'.b1 = queue.b1 /\ queue'.b2 = queue.b2 /\ queue'.e2 = queue.e2
             /\ queue'.e1 = queue.e1 + 1
             /\ queue'.slots = [queue.slots EXCEPT ![queue.e1] = x]
             /\ queue' = [slots |-> queue'.slots, b1 |-> queue.b1, e1 |-> queue'.e1,
                          b2 |-> queue.b2, e2 |-> queue.e2]
  BY <1>1, <1>2 DEF AppendENode1
<1>3. ASSUME queue' = AppendENode2(queue, x)
      PROVE  /\ queue'.b1 = queue.b1 /\ queue'.b2 = queue.b2 /\ queue'.e1 = queue.e1
             /\ queue'.e2 = queue.e2 + 1
             /\ queue'.slots = [queue.slots EXCEPT ![queue.e2] = x]
             /\ queue' = [slots |-> queue'.slots, b1 |-> queue.b1, e1 |-> queue.e1,
                          b2 |-> queue.b2, e2 |-> queue'.e2]
  BY <1>1, <1>3 DEF AppendENode2
<1>4. ASSUME queue.b1 = queue.e2, queue.b1 <= queue.e1, queue' = AppendENode1(queue, x)
      PROVE  OneMore(x) /\ queue'.e1 = End(queue) + 1 /\ queue.e1 = End(queue)
  <2>1. End(queue) = queue.e1 /\ End(queue') = queue.e1 + 1
    BY <1>1, <1>2, <1>4 DEF End
  <2>2. QED
    BY <1>2, <1>4, <2>1 DEF OneMore
<1>5. ASSUME queue.b2 = queue.e1, queue.b2 <= queue.e2, queue' = AppendENode2(queue, x)
      PROVE  OneMore(x) /\ queue'.e2 = End(queue) + 1 /\ queue.e2 = End(queue)
  <2>1. End(queue) = queue.e2 /\ End(queue') = queue.e2 + 1
    BY <1>1, <1>3, <1>5 DEF End
  <2>2. QED
    BY <1>3, <1>5, <2>1 DEF OneMore
<1>6. QED
  BY <1>2, <1>3, <1>4, <1>5

\* The pairs that are still free, once one has been taken.
LEMMA GrowPairs ==
  ASSUME Sound, phase = "expand", phase' = "expand", M' = M,
         atomic_locks_match' = atomic_locks_match, NEW t \in At("grow"),
         At("grow")' = At("grow") \ {t}, At("claim")' \subseteq At("claim"),
         NEW w, w = Edge(t)[2], NEW x, x = M[w],
         \A y \in Node \ {w, x} : belongs'[y] = belongs[y],
         belongs'[w] # NoNode, belongs'[x] # NoNode
  PROVE  PairsSound'
<1>1. /\ \A y : Slot(y)' = Slot(y)
      /\ \A u : PairOf(u)' = PairOf(u) /\ Edge(u)' = Edge(u)
  BY SlotsStay
<1>2. /\ \A y \in Node : belongs[y] = NoNode =>
           atomic_locks_match[Slot(y)] = 0 \/ \E u \in At("grow") : PairOf(u) = Slot(y)
      /\ \A u \in At("claim") :
            /\ M[Edge(u)[2]] # NoNode
            /\ belongs[Edge(u)[2]] = NoNode \/ atomic_locks_match[PairOf(u)] = 1
      /\ \A u \in At("grow") : belongs[Edge(u)[2]] = NoNode /\ atomic_locks_match[PairOf(u)] = 1
      /\ \A u, n \in At("grow") : u # n => PairOf(u) # PairOf(n)
  BY DEF Sound, PairsSound, PairOf
<1>3. w \in Node /\ x \in Node /\ M[w] = x /\ M[x] = w /\ w # x /\ PairOf(t) = Slot(w)
  BY PairFacts
<1>4. \A u \in At("claim") \cup At("grow") : Edge(u)[2] \in Node /\ PairOf(u) = Slot(Edge(u)[2])
  BY PairFacts
<1>5. Slot(x) = Slot(w)
  BY <1>3 DEF Slot, Node
<1>6. \A y \in Node : belongs[y] = NoNode /\ Slot(y) = Slot(w) => y \in {w, x}
  <2>1. SUFFICES ASSUME NEW y \in Node, belongs[y] = NoNode, Slot(y) = Slot(w) PROVE y \in {w, x}
    OBVIOUS
  <2>2. M[y] # NoNode
    <3>1. ~IsRoot(y)
      BY <2>1 DEF IsRoot, Node, NoNode
    <3>2. QED
      BY <3>1 DEF Sound, TreesSound
  <2>3. M[M[y]] = y
    <3>1. Settled
      BY GrownSettled
    <3>2. QED
      BY <2>2, <3>1 DEF Settled
  <2>4. Slot(y) \in {y, M[y]} /\ Slot(w) \in {w, x}
    BY <1>3 DEF Slot
  <2>5. QED
    BY <1>3, <2>1, <2>3, <2>4
<1>7. \A y \in Node : belongs'[y] = NoNode =>
         atomic_locks_match'[Slot(y)'] = 0 \/ \E u \in At("grow")' : PairOf(u)' = Slot(y)'
  <2>1. SUFFICES ASSUME NEW y \in Node, belongs'[y] = NoNode
                 PROVE  atomic_locks_match[Slot(y)] = 0 \/ \E u \in At("grow")' : PairOf(u) = Slot(y)
    BY <1>1
  <2>2. y \notin {w, x} /\ belongs[y] = NoNode
    BY <2>1
  <2>3. Slot(y) # PairOf(t)
    BY <1>3, <1>6, <2>2
  <2>4. QED
    BY <1>2, <2>2, <2>3
<1>8. \A u \in At("claim")' :
        /\ M'[Edge(u)'[2]] # NoNode
        /\ belongs'[Edge(u)'[2]] = NoNode \/ atomic_locks_match'[PairOf(u)'] = 1
  <2>1. SUFFICES ASSUME NEW u \in At("claim")
                 PROVE  belongs'[Edge(u)[2]] = NoNode \/ atomic_locks_match[PairOf(u)] = 1
    BY <1>1, <1>2
  <2>2. CASE Edge(u)[2] \in {w, x}
    <3>1. PairOf(u) = PairOf(t)
      BY <1>3, <1>4, <1>5, <2>2
    <3>2. QED
      BY <1>2, <3>1
  <2>3. CASE Edge(u)[2] \notin {w, x}
    BY <1>2, <1>4, <2>3
  <2>4. QED
    BY <2>2, <2>3
<1>9. \A u \in At("grow")' : belongs'[Edge(u)'[2]] = NoNode /\ atomic_locks_match'[PairOf(u)'] = 1
  <2>1. SUFFICES ASSUME NEW u \in At("grow"), u # t
                 PROVE  belongs'[Edge(u)[2]] = NoNode /\ atomic_locks_match[PairOf(u)] = 1
    BY <1>1
  <2>2. PairOf(u) # PairOf(t)
    BY <1>2, <2>1
  <2>3. Edge(u)[2] \notin {w, x}
    BY <1>3, <1>4, <1>5, <2>2
  <2>4. QED
    BY <1>2, <1>4, <2>3
<1>10. \A u, n \in At("grow")' : u # n => PairOf(u)' # PairOf(n)'
  BY <1>1, <1>2
<1>11. QED
  BY <1>7, <1>8, <1>9, <1>10 DEF PairsSound, PairOf

\* Grow keeps Sound: the pair joins the tree and its mate the queue.
LEMMA GrowSound ==
  ASSUME Sound, ExpandStill, Grow
  PROVE  Sound'
<1>0. /\ phase = "expand" /\ phase' = "expand" /\ M' = M /\ adj' = adj
      /\ engine' = engine /\ exhausted' = exhausted /\ edge_prefix_cache' = edge_prefix_cache
      /\ atomic_locks_match' = atomic_locks_match
      /\ atomic_locks_tree' = atomic_locks_tree /\ found' = found
      /\ atomic_locks_odd_nodes' = atomic_locks_odd_nodes
  BY DEF ExpandStill, hostVars, Grow
<1>1. PICK t, v, w, x :
        /\ t \in At("grow")
        /\ v = Edge(t)[1] /\ w = Edge(t)[2] /\ x = M[w]
        /\ is_even' = [is_even EXCEPT ![w] = 0, ![x] = 1]
        /\ belongs' = [belongs EXCEPT ![w] = belongs[v], ![x] = belongs[v]]
        /\ path_table' = [path_table EXCEPT ![x] = <<w, v>>]
        /\ root_distance' = [root_distance EXCEPT ![x] = 2 + root_distance[v]]
        /\ queue' = AppendENode1(queue, x)
        /\ Turn(t, NextEdge(t))
  BY DEF Grow
<1>2. /\ t.work \in Works /\ v \in EvenNodes /\ w \in Node /\ x \in Node
      /\ IsAdjacent(adj, v, w) /\ M[w] = x /\ M[x] = w /\ w # x /\ belongs[w] = NoNode
  <2>1. belongs[Edge(t)[2]] = NoNode
    BY <1>0, <1>1 DEF Sound, PairsSound
  <2>2. QED
    BY <1>0, <1>1, <2>1, PairFacts
<1>3. Settled /\ At("fill") = {}
  BY <1>0, GrownSettled
<1>4. /\ StateTyped /\ TaskletsTyped /\ ForestTypeOK /\ IsUndirected(adj) /\ EntriesPlain
  <2>1. StateTyped /\ TaskletsTyped
    BY TypeParts DEF Sound
  <2>2. QED
    BY <1>0, <2>1, PlainEntries DEF Sound, StateTyped
<1>5. Growable(v, w, x)
  <2>1. Unreached(w) /\ belongs[x] = NoNode
    BY <1>2, <1>3 DEF Settled, Node, NoNode
  <2>2. Unreached(x)
    BY <1>2, <1>3, <2>1 DEF Settled
  <2>3. QED
    BY <1>2, <2>1, <2>2 DEF Growable, Unreached
<1>6. GrowsTo(v, w, x)
  BY <1>0, <1>1 DEF GrowsTo
<1>7. Grown(v, w, x) /\ Settled' /\ EntriesPlain'
  <2>1. Grown(v, w, x)
    BY <1>3, <1>4, <1>5, <1>6, GrowWalks
  <2>2. QED
    BY <1>0, <1>3, <1>4, <1>5, <1>6, <2>1, GrowSettled, GrowEntries
<1>8. /\ ForestTypeOK' /\ EvenNodes' = EvenNodes \cup {x}
      /\ \A y \in EvenNodes : Walk(path_table', y) = Walk(path_table, y)
      /\ HopOf(Walk(path_table', x), x, w, Walk(path_table, v))
      /\ belongs'[w] = belongs[v] /\ belongs'[x] = belongs[v] /\ belongs[v] \in Node
      /\ \A y \in Node \ {w, x} : belongs'[y] = belongs[y] /\ is_even'[y] = is_even[y]
      /\ is_even'[x] = 1
  BY <1>7 DEF Grown
<1>9. TaskletsTyped' /\ TaskletsPlaced' /\ WorkSound'
  <2>1. \A y \in Node : EvenNode(y) => EvenNode(y)'
    <3>1. \A y \in Node : y \in EvenNodes => y \in EvenNodes'
      BY <1>8
    <3>2. QED
      BY <3>1 DEF EvenNodes
  <2>2. \A n \in NextEdge(t) : Fits(n, t)
    BY <1>0, NextFits
  <2>3. QED
    BY <1>0, <1>1, <1>2, <1>4, <2>1, <2>2, TurnFits DEF Sound, Kernels
<1>10. Holders' = {} /\ At("flip")' = {} /\ At("fill")' = {}
  BY <1>0, <1>9, PlacedThen
<1>11. MatesKept' /\ FlipsSound' /\ TreesSound' /\ RepairSound' /\ LocksSound'
  <2>1. \A y \in Node : M'[y] \in Node \cup {NoNode}
    BY <1>8 DEF ForestTypeOK
  <2>2. QED
    BY <1>0, <1>7, <1>10, <2>1, SettledSound
<1>12. PairsSound'
  <2>1. /\ At("grow")' = At("grow") \ {t} /\ At("claim")' \subseteq At("claim")
    <3>1. \A n \in NextEdge(t) : n.at = "scan"
      BY <1>0, NextFits
    <3>2. /\ At("grow")' = (At("grow") \ {t}) \cup {n \in NextEdge(t) : n.at = "grow"}
          /\ At("claim")' = (At("claim") \ {t}) \cup {n \in NextEdge(t) : n.at = "claim"}
      BY <1>1, TurnAt
    <3>3. QED
      BY <3>1, <3>2
  <2>2. belongs'[w] # NoNode /\ belongs'[x] # NoNode
    BY <1>8 DEF Node, NoNode
  <2>3. /\ w = Edge(t)[2] /\ x = M[w]
        /\ \A y \in Node \ {w, x} : belongs'[y] = belongs[y]
        /\ phase = "expand" /\ phase' = "expand" /\ M' = M
        /\ atomic_locks_match' = atomic_locks_match
    BY <1>0, <1>1, <1>8
  <2>4. t \in At("grow")
    BY <1>1
  <2>5. QED
    BY <2>1, <2>2, <2>3, <2>4, GrowPairs
<1>13. OddsSound'
  <2>1. \A y \in Node : atomic_locks_odd_nodes[y] = 1 => is_even[y] = 1
    BY <1>0, <1>3 DEF Sound, OddsSound
  <2>2. is_even[w] = 0
    BY <1>5 DEF Growable
  <2>3. \A y \in Node : atomic_locks_odd_nodes'[y] = 1 => is_even'[y] = 1
    BY <1>0, <1>8, <2>1, <2>2
  <2>4. QED
    BY <1>0, <2>3 DEF OddsSound
<1>14. EntriesSound'
  BY <1>0, <1>7, PlainThen
<1>15. root_distance' \in [Node -> Nat]
  <2>1. root_distance \in [Node -> Nat] /\ v \in Node
    BY <1>2, <1>4 DEF StateTyped, EvenNodes
  <2>2. 2 + root_distance[v] \in Nat
    BY <2>1
  <2>3. QED
    BY <1>1, <1>2, <2>1, <2>2
<1>16. DistancesExact'
  <2>1. root_distance \in [Node -> Nat]
    BY <1>4 DEF StateTyped
  <2>2. \A y \in EvenNodes : root_distance[y] = Len(Walk(path_table, y)) - 1
    BY <1>0 DEF Sound, DistancesExact, EvenNodes, EvenNode
  <2>3. x \notin EvenNodes
    BY <1>5 DEF Growable, EvenNodes, EvenNode
  <2>4. \A y \in EvenNodes : root_distance'[y] = Len(Walk(path_table', y)) - 1
    <3>1. SUFFICES ASSUME NEW y \in EvenNodes PROVE root_distance'[y] = Len(Walk(path_table', y)) - 1
      OBVIOUS
    <3>2. y \in Node /\ y # x
      BY <2>3 DEF EvenNodes
    <3>3. root_distance'[y] = root_distance[y]
      BY <1>1, <1>2, <2>1, <3>2
    <3>4. QED
      BY <1>8, <2>2, <3>3
  <2>5. root_distance'[x] = Len(Walk(path_table', x)) - 1
    <3>1. root_distance'[x] = 2 + root_distance[v]
      BY <1>1, <1>2, <2>1
    <3>2. Len(Walk(path_table', x)) = 2 + Len(Walk(path_table, v))
      BY <1>8 DEF HopOf
    <3>3. v \in Node /\ root_distance[v] \in Nat /\ root_distance[v] = Len(Walk(path_table, v)) - 1
      BY <1>2, <2>1, <2>2 DEF EvenNodes
    <3>4. Len(Walk(path_table, v)) \in Nat
      <4>1. path_table \in [Node -> Seq(Node)]
        BY <1>4 DEF ForestTypeOK
      <4>2. Walk(path_table, v) \in Seq(Node)
        BY <3>3, <4>1, WalkType
      <4>3. QED
        BY <4>2, LenProperties
    <3>5. QED
      BY <3>1, <3>2, <3>3, <3>4
  <2>6. \A y \in EvenNodes' : root_distance'[y] = Len(Walk(path_table', y)) - 1
    BY <1>8, <2>4, <2>5
  <2>7. QED
    BY <2>6 DEF DistancesExact, EvenNodes, EvenNode
<1>17. /\ IsInjective(Slots) /\ \A y \in Range(Slots) : EvenNode(y)
       /\ queue.b1 <= queue.e1 /\ queue.b2 <= queue.e2 /\ queue.b1 = queue.e2
  BY <1>0 DEF Sound, QueueSound
<1>18. QueueTyped(queue)
  BY <1>4 DEF StateTyped, QueueTyped
<1>19. /\ OneMore(x) /\ queue'.e1 = End(queue) + 1 /\ queue.e1 = End(queue)
       /\ queue'.b1 = queue.b1 /\ queue'.b2 = queue.b2 /\ queue'.e2 = queue.e2
       /\ queue' = [slots |-> queue'.slots, b1 |-> queue.b1, e1 |-> queue'.e1,
                    b2 |-> queue.b2, e2 |-> queue.e2]
  BY <1>1, <1>2, <1>17, <1>18, AppendedSlots
<1>20. /\ IsInjective(Slots') /\ Range(Slots') = Range(Slots) \cup {x}
       /\ End(queue) < nodes /\ queue'.slots \in [Node -> Node]
       /\ \A i \in Nat : i < End(queue) => queue'.slots[i] = queue.slots[i]
  <2>1. x \notin Range(Slots)
    <3>1. ~EvenNode(x)
      BY <1>5 DEF Growable, EvenNode
    <3>2. QED
      BY <1>17, <3>1
  <2>2. QED
    BY <1>2, <1>17, <1>18, <1>19, <2>1, OneMoreSlot
<1>21. QueueTyped(queue)'
  <2>1. End(queue) \in Nat /\ End(queue) + 1 \in 0 .. nodes
    BY <1>18, <1>20, SlotsFacts, NodesAssumption
  <2>2. queue.b1 \in 0 .. nodes /\ queue.b2 \in 0 .. nodes /\ queue.e2 \in 0 .. nodes
    BY <1>18 DEF QueueTyped
  <2>3. QED
    BY <1>19, <1>20, <2>1, <2>2 DEF QueueTyped
<1>22. QueueSound'
  <2>1. \A y \in Range(Slots') : EvenNode(y)'
    <3>1. \A y \in Range(Slots) : y \in EvenNodes
      <4>1. \A s \in Seq(Node) : \A z \in Range(s) : z \in Node
        <5>1. SUFFICES ASSUME NEW s \in Seq(Node), NEW z \in Range(s) PROVE z \in Node
          OBVIOUS
        <5>2. QED
          BY ElementOfSeq, LenProperties DEF Range
      <4>2. Slots \in Seq(Node)
        BY <1>18, SlotsFacts
      <4>3. QED
        BY <1>17, <4>1, <4>2 DEF EvenNodes
    <3>2. \A y \in Range(Slots') : y \in EvenNodes'
      BY <1>8, <1>20, <3>1
    <3>3. QED
      BY <3>2 DEF EvenNodes
  <2>2. queue'.b1 <= queue'.e1 /\ queue'.b2 <= queue'.e2 /\ queue'.b1 = queue'.e2
    <3>1. queue.b1 \in Nat /\ queue.e1 \in Nat
      BY <1>18, NodesAssumption DEF QueueTyped
    <3>2. QED
      BY <1>17, <1>19, <3>1
  <2>3. QED
    BY <1>0, <1>20, <2>1, <2>2 DEF QueueSound
<1>23. CacheSound'
  BY <1>0, <1>4, <1>19, <1>20, CacheKept DEF Sound
<1>24. StateTyped'
  BY <1>0, <1>4, <1>8, <1>15, <1>21 DEF StateTyped, QueueTyped
<1>25. TypeOK'
  BY <1>9, <1>24 DEF TypeOK, StateTyped, TaskletsTyped, Works
<1>26. IsUndirected(adj)'
  BY <1>0, <1>4
<1>27. QED
  BY <1>9, <1>11, <1>12, <1>13, <1>14, <1>16, <1>22, <1>23, <1>25, <1>26 DEF Sound

\* Every step of the expand kernel keeps Sound.
LEMMA ExpandSound ==
  ASSUME Sound, ExpandTasklet
  PROVE  Sound'
<1>1. ExpandStill
  BY DEF ExpandTasklet, ExpandStill, hostVars
<1>2. QED
  BY <1>1, SeeFreeSound, ClaimPairSound, GrowSound DEF ExpandTasklet

-----------------------------------------------------------------------------
(***************************************************************************)
(* The transform kernel.                                                   *)
(***************************************************************************)
TransformStill ==
  /\ phase = "transform" /\ phase' = phase
  /\ UNCHANGED <<adj, M, belongs, atomic_locks_tree, atomic_locks_match, found, hostVars>>

OddWork(work) ==
  /\ work \in Path /\ Len(work) \in Nat /\ Len(work) >= 3 /\ work[1] \in Node
  /\ Tail(work) \in Path /\ Len(Tail(work)) = Len(work) - 1
  /\ Last(Tail(work)) = Last(work) /\ Last(work) \in Node
  /\ <<work[1]>> \o Tail(work) = work
  /\ Range(Tail(work)) \subseteq Range(work)
  /\ IsInjective(work) => IsInjective(Tail(work))

\* An item of the blossom buffer of three nodes or more is an odd node's new
\* walk.
LEMMA OddWorkFacts ==
  ASSUME NEW work \in Seq(Node), Len(work) >= 3
  PROVE  OddWork(work)
<1>1. Len(work) \in Nat /\ Len(work) >= 3 /\ work # <<>> /\ DOMAIN work = 1 .. Len(work)
  BY LenProperties, EmptySeq
<1>2. 1 \in 1 .. Len(work) /\ Len(work) \in 1 .. Len(work)
  BY <1>1
<1>3. work[1] \in Node /\ work[Len(work)] \in Node
  BY <1>2, ElementOfSeq
<1>4. /\ Tail(work) \in Seq(Node) /\ Len(Tail(work)) = Len(work) - 1
      /\ \A i \in 1 .. Len(Tail(work)) : Tail(work)[i] = work[i + 1]
      /\ Head(work) = work[1]
  BY <1>1, HeadTailProperties
<1>5. Tail(work) # <<>>
  <2>1. Len(Tail(work)) # 0
    BY <1>1, <1>4
  <2>2. Len(<<>>) = 0
    OBVIOUS
  <2>3. QED
    BY <2>1, <2>2
<1>6. Last(Tail(work)) = Last(work) /\ Last(work) \in Node
  <2>1. Len(Tail(work)) \in 1 .. Len(Tail(work)) /\ Len(Tail(work)) + 1 = Len(work)
    BY <1>1, <1>4
  <2>2. QED
    BY <1>3, <1>4, <2>1 DEF Last
<1>7. Range(Tail(work)) \subseteq Range(work)
  BY <1>1, TailRange
<1>8. IsInjective(work) => IsInjective(Tail(work))
  <2>1. SUFFICES ASSUME IsInjective(work),
                        NEW i \in 1 .. Len(Tail(work)), NEW j \in 1 .. Len(Tail(work)),
                        Tail(work)[i] = Tail(work)[j]
                 PROVE  i = j
    BY <1>4, LenProperties DEF IsInjective
  <2>2. i + 1 \in 1 .. Len(work) /\ j + 1 \in 1 .. Len(work)
    BY <1>1, <1>4
  <2>3. i + 1 = j + 1
    BY <1>1, <1>4, <2>1, <2>2 DEF IsInjective
  <2>4. QED
    BY <2>3
<1>9. <<work[1]>> \o Tail(work) = work
  <2>1. <<work[1]>> \in Seq(Node) /\ Len(<<work[1]>>) = 1 /\ <<work[1]>>[1] = work[1]
    BY <1>3
  <2>2. PICK s : s = <<work[1]>>
    OBVIOUS
  <2>3. /\ s \o Tail(work) \in Seq(Node) /\ Len(s \o Tail(work)) = 1 + (Len(work) - 1)
        /\ \A i \in 1 .. (1 + (Len(work) - 1)) :
             (s \o Tail(work))[i] = IF i <= 1 THEN s[i] ELSE Tail(work)[i - 1]
    BY <1>4, <2>1, <2>2, ConcatProperties
  <2>4. ASSUME NEW i \in 1 .. Len(work) PROVE (s \o Tail(work))[i] = work[i]
    <3>1. CASE i = 1
      BY <1>1, <2>1, <2>2, <2>3, <3>1
    <3>2. CASE i # 1
      <4>1. i - 1 \in 1 .. Len(Tail(work)) /\ (i - 1) + 1 = i /\ ~(i <= 1)
        BY <1>1, <1>4, <3>2
      <4>2. QED
        BY <1>1, <1>4, <2>3, <4>1
    <3>3. QED
      BY <3>1, <3>2
  <2>5. Len(s \o Tail(work)) = Len(work)
    BY <1>1, <2>3
  <2>6. s \o Tail(work) = work
    BY <2>3, <2>4, <2>5, SeqEqual
  <2>7. QED
    BY <2>2, <2>6
<1>10. QED
  BY <1>1, <1>3, <1>4, <1>5, <1>6, <1>7, <1>8, <1>9 DEF OddWork, Path

\* What is left to be done after a step of tasklet t, which may leave.
LEMMA WorksAfter ==
  ASSUME NEW t, t.work \in Works, NEW T, Turn(t, T), \A n \in T : n.work = t.work
  PROVE  /\ Works' \subseteq Works /\ Works \subseteq Works' \cup {t.work}
         /\ \A n \in T : n.work \in Works'
         /\ \A u \in running : u # t => u.work \in Works'
<1>1. todo' = todo \ {t.work} /\ running' = (running \ {t}) \cup T
  BY DEF Turn
<1>2. QED
  BY <1>1 DEF Works

\* What an item of the transform kernel says of its odd node.
LEMMA OddAt ==
  ASSUME Sound, phase = "transform", NEW work \in Works
  PROVE  /\ OddWork(work) /\ work[1] \in Turning
         /\ is_even[work[1]] = 0 => /\ work \in Turns /\ TurnLegal(work)
                                    /\ \A x \in Range(work) : is_even[x] = 1 \/ x \in Turning
<1>1. OddWork(work)
  BY OddWorkFacts DEF Sound, WorkSound
<1>2. work[1] \in Turning
  BY DEF Turning
<1>3. is_even[work[1]] = 0 => work \in Turns
  BY DEF Turns
<1>4. QED
  BY <1>1, <1>2, <1>3 DEF Sound, EntriesSound

\* A step that leaves the forest alone: an odd node that nobody is about to
\* make even any more is even.
LEMMA TransformQuiet ==
  ASSUME Sound, TransformStill, UNCHANGED <<is_even, path_table, root_distance, queue>>,
         NEW t, t.work \in Works, NEW T, Turn(t, T), \A n \in T : Fits(n, t),
         \A o \in Turning : o \in Turning' \/ is_even[o] = 1,
         atomic_locks_odd_nodes' \in [Node -> {0, 1}], OddsSound'
  PROVE  Sound'
<1>0. /\ phase = "transform" /\ phase' = "transform" /\ UNCHANGED forestVars
      /\ adj' = adj /\ M' = M /\ is_even' = is_even /\ belongs' = belongs
      /\ engine' = engine /\ exhausted' = exhausted /\ edge_prefix_cache' = edge_prefix_cache
  BY DEF TransformStill, forestVars, hostVars
<1>1. Settled /\ At("grow") = {}
  BY <1>0, GrownSettled
<1>2. StateTyped /\ TaskletsTyped
  BY TypeParts DEF Sound
<1>3. TaskletsTyped' /\ TaskletsPlaced' /\ WorkSound'
  <2>1. \A x \in Node : EvenNode(x) => EvenNode(x)'
    BY <1>0 DEF EvenNode
  <2>2. QED
    BY <1>0, <1>2, <2>1, TurnFits DEF Sound, Kernels
<1>4. StateTyped'
  BY <1>0, <1>2 DEF StateTyped, ForestTypeOK, TransformStill
<1>5. Holders' = {} /\ At("flip")' = {} /\ At("grow")' = {}
  BY <1>0, <1>3, PlacedThen
<1>6. MatesKept' /\ FlipsSound' /\ TreesSound' /\ RepairSound' /\ LocksSound'
  <2>1. Settled'
    BY <1>0, <1>1, SettledKept DEF TransformStill
  <2>2. \A x \in Node : M'[x] \in Node \cup {NoNode}
    BY <1>4 DEF StateTyped, ForestTypeOK
  <2>3. QED
    BY <1>0, <1>5, <2>1, <2>2, SettledSound
<1>7. PairsSound'
  <2>1. \A x \in Node : belongs[x] = NoNode => atomic_locks_match[Slot(x)] = 0
    BY <1>0, <1>1 DEF Sound, PairsSound
  <2>2. \A x : Slot(x)' = Slot(x)
    BY <1>0 DEF Slot
  <2>3. \A x \in Node : belongs'[x] = NoNode => atomic_locks_match'[Slot(x)'] = 0
    BY <1>0, <2>1, <2>2 DEF TransformStill
  <2>4. QED
    BY <1>0, <2>3 DEF PairsSound
<1>8. EntriesSound'
  <2>1. Works' \subseteq Works
    <3>1. \A n \in T : n.work = t.work
      BY <1>0 DEF Fits
    <3>2. QED
      BY <3>1, WorksAfter
  <2>2. Turns' \subseteq Turns
    BY <1>0, <2>1 DEF Turns
  <2>3. StillOdd(Turning)' \subseteq StillOdd(Turning)
    <3>1. SUFFICES ASSUME NEW o \in Node, o \notin Turning', OddNode(o)
                   PROVE  o \notin Turning
      BY <1>0 DEF StillOdd, OddNode
    <3>2. is_even[o] # 1
      BY <3>1 DEF OddNode
    <3>3. QED
      BY <3>1, <3>2
  <2>4. /\ EntriesLong(path_table) /\ LinksEven /\ OddsBare /\ OddsOnce(Turning)
        /\ OddsApart(Walks \cup {WalkOf(work) : work \in Turns}, Turning)
        /\ \A work \in Turns : /\ TurnLegal(work)
                               /\ \A x \in Range(work) : is_even[x] = 1 \/ x \in Turning
    BY DEF Sound, EntriesSound
  <2>5. EntriesLong(path_table)' /\ LinksEven' /\ OddsBare'
    BY <1>0, <2>4, ForestKept DEF EntriesLong, forestVars
  <2>6. OddsOnce(Turning)'
    <3>1. PICK T1, T2 : T1 = Turning' /\ T2 = Turning
      OBVIOUS
    <3>2. StillOdd(T1)' \subseteq StillOdd(T2) /\ OddsOnce(T2)
      BY <2>3, <2>4, <3>1
    <3>3. OddsOnce(T1)'
      BY <1>0, <3>2, ForestKept DEF OddsOnce, forestVars
    <3>4. QED
      BY <3>1, <3>3
  <2>7. \A work : WalkOf(work)' = WalkOf(work) /\ TurnLegal(work)' = TurnLegal(work)
    BY <1>0, ForestKept
  <2>8. OddsApart(Walks \cup {WalkOf(work) : work \in Turns}, Turning)'
    <3>1. PICK T1, T2, W1, W2 : /\ T1 = Turning' /\ T2 = Turning
                                /\ W1 = (Walks \cup {WalkOf(work) : work \in Turns})'
                                /\ W2 = Walks \cup {WalkOf(work) : work \in Turns}
      OBVIOUS
    <3>2. StillOdd(T1)' \subseteq StillOdd(T2) /\ OddsApart(W2, T2)
      BY <2>3, <2>4, <3>1
    <3>3. W1 \subseteq W2
      <4>1. Walks' = Walks
        BY <1>0, ForestKept
      <4>2. {WalkOf(work) : work \in Turns}' \subseteq {WalkOf(work) : work \in Turns}
        BY <2>2, <2>7
      <4>3. QED
        BY <3>1, <4>1, <4>2
    <3>4. OddsApart(W1, T1)'
      <4>1. \A o \in StillOdd(T1)' : \A r, s \in W1 : Apart(r, s, o)
        BY <3>2, <3>3 DEF OddsApart
      <4>2. QED
        BY <4>1 DEF OddsApart, Apart, Before
    <3>5. QED
      BY <3>1, <3>4
  <2>9. \A work \in Turns' :
          /\ TurnLegal(work)'
          /\ \A x \in Range(work) : is_even'[x] = 1 \/ x \in Turning'
    BY <1>0, <2>2, <2>4, <2>7
  <2>10. QED
    BY <2>5, <2>6, <2>8, <2>9 DEF EntriesSound
<1>9. DistancesExact'
  BY <1>0 DEF Sound, DistancesExact
<1>10. QueueSound'
  <2>1. Slots' = Slots
    BY DEF Slots
  <2>2. \A x : EvenNode(x)' = EvenNode(x)
    BY <1>0 DEF EvenNode
  <2>3. QED
    BY <1>0, <2>1, <2>2 DEF Sound, QueueSound
<1>11. CacheSound'
  BY <1>0, <1>2, CacheKept DEF Sound
<1>12. IsUndirected(adj)'
  BY <1>0 DEF Sound
<1>13. TypeOK'
  BY <1>3, <1>4 DEF TypeOK, StateTyped, TaskletsTyped, Works
<1>14. QED
  BY <1>3, <1>6, <1>7, <1>8, <1>9, <1>10, <1>11, <1>12, <1>13 DEF Sound

\* SeeOdd keeps Sound.
LEMMA SeeOddSound ==
  ASSUME Sound, TransformStill, SeeOdd
  PROVE  Sound'
<1>0. /\ phase = "transform" /\ phase' = "transform"
      /\ UNCHANGED <<is_even, path_table, root_distance, queue, atomic_locks_odd_nodes>>
  BY DEF TransformStill, SeeOdd
<1>1. PICK t \in Ready :
        Turn(t, IF is_even[t.work[1]] = 0 /\ path_table[t.work[1]] = <<>> THEN Goto(t, "claim") ELSE {})
  BY DEF SeeOdd
<1>2. t.at = "scan" /\ t.work \in Works /\ t.flips = <<>>
  BY ReadyFacts DEF Sound
<1>3. PICK o, T : /\ o = t.work[1]
                  /\ T = IF is_even[o] = 0 /\ path_table[o] = <<>> THEN Goto(t, "claim") ELSE {}
  OBVIOUS
<1>4. o \in Node /\ (is_even[o] = 0 \/ is_even[o] = 1)
  <2>1. OddWork(t.work)
    BY <1>0, <1>2, OddAt
  <2>2. is_even \in [Node -> {0, 1}]
    BY TypeParts DEF Sound, StateTyped, ForestTypeOK
  <2>3. QED
    BY <1>3, <2>1, <2>2 DEF OddWork
<1>5. /\ Turn(t, T)
      /\ \A n \in T : Fits(n, t) /\ n.at = "claim" /\ n.work = t.work /\ is_even[o] = 0
      /\ T # {} \/ is_even[o] = 1
  <2>1. Turn(t, T)
    BY <1>1, <1>3
  <2>2. CASE is_even[o] = 0
    <3>1. path_table[o] = <<>>
      BY <1>4, <2>2 DEF Sound, EntriesSound, OddsBare
    <3>2. "claim" \in Places[phase]
      BY <1>0, PlacesFacts
    <3>3. T = Goto(t, "claim")
      BY <1>3, <2>2, <3>1
    <3>4. T # {}
      BY <3>3 DEF Goto
    <3>5. QED
      BY <1>2, <2>1, <2>2, <3>2, <3>3, <3>4, GotoFits
  <2>3. CASE is_even[o] = 1
    <3>1. T = {}
      BY <1>3, <2>3
    <3>2. QED
      BY <2>1, <2>3, <3>1
  <2>4. QED
    BY <1>4, <2>2, <2>3
<1>6. /\ Works \subseteq Works' \cup {t.work} /\ \A n \in T : n.work \in Works'
  BY <1>2, <1>5, WorksAfter
<1>7. \A p \in Turning : p \in Turning' \/ is_even[p] = 1
  <2>1. SUFFICES ASSUME NEW work \in Works PROVE work[1] \in Turning' \/ is_even[work[1]] = 1
    BY <1>0 DEF Turning
  <2>2. CASE work \in Works'
    BY <1>0, <2>2 DEF Turning
  <2>3. CASE work = t.work
    <3>1. CASE T = {}
      BY <1>3, <1>5, <2>3, <3>1
    <3>2. CASE T # {}
      <4>1. work \in Works'
        BY <1>5, <1>6, <2>3, <3>2
      <4>2. QED
        BY <1>0, <4>1 DEF Turning
    <3>3. QED
      BY <3>1, <3>2
  <2>4. QED
    BY <1>6, <2>2, <2>3
<1>8. OddsSound'
  <2>1. /\ At("fill")' = At("fill")
        /\ \A n \in At("claim")' : n \in At("claim") \/ is_even[n.work[1]] = 0
    <3>1. /\ At("fill")' = (At("fill") \ {t}) \cup {n \in T : n.at = "fill"}
          /\ At("claim")' = (At("claim") \ {t}) \cup {n \in T : n.at = "claim"}
      BY <1>5, TurnAt
    <3>2. t \notin At("fill")
      BY <1>2 DEF At
    <3>3. QED
      BY <1>3, <1>5, <3>1, <3>2
  <2>2. OddsSound
    BY DEF Sound
  <2>3. QED
    BY <1>0, <2>1, <2>2 DEF OddsSound
<1>9. atomic_locks_odd_nodes' \in [Node -> {0, 1}]
  BY <1>0, TypeParts DEF Sound, StateTyped
<1>10. QED
  BY <1>0, <1>2, <1>5, <1>7, <1>8, <1>9, TransformQuiet

\* ClaimOdd keeps Sound: one tasklet wins the odd node.
LEMMA ClaimOddSound ==
  ASSUME Sound, TransformStill, ClaimOdd
  PROVE  Sound'
<1>0. /\ phase = "transform" /\ phase' = "transform"
      /\ UNCHANGED <<is_even, path_table, root_distance, queue>>
  BY DEF TransformStill, ClaimOdd
<1>1. PICK t \in At("claim") :
        /\ Turn(t, IF atomic_locks_odd_nodes[t.work[1]] = 0 /\ IsInjective(Tail(t.work))
                   THEN Goto(t, "fill") ELSE {})
        /\ atomic_locks_odd_nodes' = [atomic_locks_odd_nodes EXCEPT ![t.work[1]] = 1]
  BY DEF ClaimOdd
<1>2. t.at = "claim" /\ t.work \in Works /\ t.flips = <<>> /\ t \in running
  BY AtFacts DEF Sound, TaskletsPlaced
<1>3. PICK o, T : /\ o = t.work[1]
                  /\ T = IF atomic_locks_odd_nodes[o] = 0 /\ IsInjective(Tail(t.work))
                         THEN Goto(t, "fill") ELSE {}
  OBVIOUS
<1>4. /\ OddWork(t.work) /\ o \in Node /\ o \in Turning
      /\ is_even[o] = 0 => TurnLegal(t.work)
      /\ is_even[o] = 0 \/ is_even[o] = 1
      /\ atomic_locks_odd_nodes \in [Node -> {0, 1}]
  <2>1. /\ OddWork(t.work) /\ t.work[1] \in Turning /\ (is_even[t.work[1]] = 0 => TurnLegal(t.work))
    BY <1>0, <1>2, OddAt
  <2>2. is_even \in [Node -> {0, 1}] /\ atomic_locks_odd_nodes \in [Node -> {0, 1}]
    BY TypeParts DEF Sound, StateTyped, ForestTypeOK
  <2>3. QED
    BY <1>3, <2>1, <2>2 DEF OddWork
<1>5. is_even[o] = 0 => IsInjective(Tail(t.work))
  <2>1. SUFFICES ASSUME TurnLegal(t.work) PROVE IsInjective(Tail(t.work))
    BY <1>4
  <2>2. PICK q : q = Walk(path_table, Last(t.work))
    OBVIOUS
  <2>3. q \in Path /\ q[1] = Last(t.work) /\ t.work \in Path
    <3>1. path_table \in [Node -> Seq(Node)]
      BY TypeParts DEF Sound, StateTyped, ForestTypeOK
    <3>2. QED
      BY <1>4, <2>2, <3>1, WalkType DEF OddWork
  <2>4. IsInjective(Link(t.work, q)) /\ Link(t.work, q) \in Seq(Node)
    BY <2>1, <2>2 DEF TurnLegal, WalkOf, IsEvenWalk
  <2>5. /\ Len(Link(t.work, q)) = Len(t.work) + Len(q) - 1
        /\ \A i \in 1 .. Len(t.work) : Link(t.work, q)[i] = t.work[i]
        /\ Len(t.work) \in Nat /\ Len(q) \in Nat /\ Len(q) > 0
    BY <2>3, LinkFacts
  <2>6. IsInjective(t.work)
    <3>1. DOMAIN t.work = 1 .. Len(t.work) /\ DOMAIN Link(t.work, q) = 1 .. Len(Link(t.work, q))
      BY <2>3, <2>4, LenProperties DEF Path
    <3>2. \A i \in 1 .. Len(t.work) : i \in 1 .. Len(Link(t.work, q))
      BY <2>5
    <3>3. QED
      BY <2>4, <2>5, <3>1, <3>2 DEF IsInjective
  <2>7. QED
    BY <1>4, <2>6 DEF OddWork
<1>6. Turn(t, T)
  BY <1>1, <1>3
<1>7. /\ \A u \in At("claim") : is_even[u.work[1]] = 0 \/ atomic_locks_odd_nodes[u.work[1]] = 1
      /\ \A u \in At("fill") : is_even[u.work[1]] = 0 /\ atomic_locks_odd_nodes[u.work[1]] = 1
      /\ \A u, n \in At("fill") : u # n => u.work[1] # n.work[1]
      /\ \A x \in Node : atomic_locks_odd_nodes[x] = 1 =>
           is_even[x] = 1 \/ \E u \in At("fill") : u.work[1] = x
  BY <1>0 DEF Sound, OddsSound
<1>8. /\ At("fill")' = At("fill") \cup {n \in T : n.at = "fill"}
      /\ At("claim")' = (At("claim") \ {t}) \cup {n \in T : n.at = "claim"}
  <2>1. /\ At("fill")' = (At("fill") \ {t}) \cup {n \in T : n.at = "fill"}
        /\ At("claim")' = (At("claim") \ {t}) \cup {n \in T : n.at = "claim"}
    BY <1>6, TurnAt
  <2>2. t \notin At("fill")
    BY <1>2 DEF At
  <2>3. QED
    BY <2>1, <2>2
<1>9. atomic_locks_odd_nodes' \in [Node -> {0, 1}]
  BY <1>1, <1>3, <1>4
<1>10. CASE atomic_locks_odd_nodes[o] = 0
  <2>1. is_even[o] = 0 /\ T = Goto(t, "fill")
    BY <1>1, <1>3, <1>5, <1>7, <1>10
  <2>2. PICK n : T = {n} /\ n.at = "fill" /\ n.work = t.work /\ Fits(n, t)
    <3>1. "fill" \in Places[phase]
      BY <1>0, PlacesFacts
    <3>2. \A n \in T : n.at = "fill" /\ n.work = t.work /\ Fits(n, t)
      BY <1>2, <2>1, <3>1, GotoFits
    <3>3. \E n : T = {n}
      BY <2>1 DEF Goto
    <3>4. QED
      BY <3>2, <3>3
  <2>3. /\ At("fill")' = At("fill") \cup {n} /\ At("claim")' \subseteq At("claim")
    BY <1>8, <2>2
  <2>4. \A p \in Turning : p \in Turning' \/ is_even[p] = 1
    <3>1. Works \subseteq Works'
      <4>1. Works \subseteq Works' \cup {t.work} /\ n.work \in Works'
        BY <1>2, <1>6, <2>2, WorksAfter
      <4>2. QED
        BY <2>2, <4>1
    <3>2. QED
      BY <1>0, <3>1 DEF Turning
  <2>5. /\ \A s \in Node : s # o => atomic_locks_odd_nodes'[s] = atomic_locks_odd_nodes[s]
        /\ atomic_locks_odd_nodes'[o] = 1
    BY <1>1, <1>3, <1>4
  <2>6. \A u \in At("claim") \cup At("fill") : u.work[1] \in Node
    <3>1. SUFFICES ASSUME NEW u \in running PROVE u.work[1] \in Node
      BY DEF At
    <3>2. u.work \in Works
      BY DEF Works
    <3>3. QED
      BY <1>0, <3>2, OddAt DEF OddWork
  <2>7. \A x \in Node : atomic_locks_odd_nodes'[x] = 1 =>
           is_even'[x] = 1 \/ \E u \in At("fill")' : u.work[1] = x
    BY <1>0, <1>3, <1>7, <2>2, <2>3, <2>5
  <2>8. \A u \in At("claim")' : is_even'[u.work[1]] = 0 \/ atomic_locks_odd_nodes'[u.work[1]] = 1
    BY <1>0, <1>7, <2>3, <2>5, <2>6
  <2>9. \A u \in At("fill")' : is_even'[u.work[1]] = 0 /\ atomic_locks_odd_nodes'[u.work[1]] = 1
    BY <1>0, <1>3, <1>7, <2>1, <2>2, <2>3, <2>5, <2>6
  <2>10. \A u, m \in At("fill")' : u # m => u.work[1] # m.work[1]
    BY <1>3, <1>7, <1>10, <2>2, <2>3
  <2>11. OddsSound'
    BY <1>0, <2>7, <2>8, <2>9, <2>10 DEF OddsSound
  <2>12. \A m \in T : Fits(m, t)
    BY <2>2
  <2>13. QED
    BY <1>0, <1>2, <1>6, <1>9, <2>4, <2>11, <2>12, TransformQuiet
<1>11. CASE atomic_locks_odd_nodes[o] # 0
  <2>1. atomic_locks_odd_nodes[o] = 1 /\ T = {} /\ atomic_locks_odd_nodes' = atomic_locks_odd_nodes
    BY <1>1, <1>3, <1>4, <1>11
  <2>2. At("fill")' = At("fill") /\ At("claim")' \subseteq At("claim")
    BY <1>8, <2>1
  <2>3. OddsSound'
    BY <1>0, <1>7, <2>1, <2>2 DEF OddsSound
  <2>4. o \in Turning' \/ is_even[o] = 1
    <3>1. CASE \E u \in At("fill") : u.work[1] = o
      <4>1. PICK u \in At("fill") : u.work[1] = o
        BY <3>1
      <4>2. u \in running /\ u # t
        BY <1>2 DEF At
      <4>3. u.work \in Works'
        BY <1>2, <1>6, <2>1, <4>2, WorksAfter
      <4>4. QED
        BY <1>0, <4>1, <4>3 DEF Turning
    <3>2. CASE is_even[o] = 1
      BY <3>2
    <3>3. QED
      BY <1>4, <1>7, <2>1, <3>1, <3>2
  <2>5. \A p \in Turning : p \in Turning' \/ is_even[p] = 1
    <3>1. SUFFICES ASSUME NEW work \in Works PROVE work[1] \in Turning' \/ is_even[work[1]] = 1
      BY <1>0 DEF Turning
    <3>2. work \in Works' \/ work = t.work
      BY <1>2, <1>6, <2>1, WorksAfter
    <3>3. CASE work \in Works'
      BY <1>0, <3>3 DEF Turning
    <3>4. QED
      BY <1>3, <2>4, <3>2, <3>3
  <2>6. \A m \in T : Fits(m, t)
    BY <2>1
  <2>7. QED
    BY <1>0, <1>2, <1>6, <1>9, <2>3, <2>5, <2>6, TransformQuiet
<1>12. QED
  BY <1>10, <1>11

-----------------------------------------------------------------------------
\* The odd node of work gets the rest of it as its entry.
Turned(work) ==
  /\ adj' = adj /\ M' = M /\ belongs' = belongs
  /\ is_even' = [is_even EXCEPT ![work[1]] = 1]
  /\ path_table' = [path_table EXCEPT ![work[1]] = Tail(work)]

\* The even nodes keep their walks, and one more has one.
WellTurned(work) ==
  /\ ForestTypeOK'
  /\ \A y \in Node : y # work[1] => is_even'[y] = is_even[y] /\ path_table'[y] = path_table[y]
  /\ is_even'[work[1]] = 1 /\ path_table'[work[1]] = Tail(work)
  /\ work[1] \in Node /\ work[1] \notin EvenNodes /\ belongs[work[1]] # NoNode
  /\ EvenNodes' = EvenNodes \cup {work[1]}
  /\ \A y \in EvenNodes : Walk(path_table', y) = Walk(path_table, y)
  /\ Walk(path_table', work[1]) = WalkOf(work)
  /\ EntriesLong(path_table')

\* Only the odd node gets a new walk, the way round the blossom.
LEMMA TurnWalks ==
  ASSUME ForestTypeOK, Settled, EntriesLong(path_table), LinksEven,
         NEW work, OddWork(work), TurnLegal(work), is_even[work[1]] = 0, Turned(work)
  PROVE  WellTurned(work)
<1> DEFINE o == work[1]  entry == Tail(work)
<1>0. /\ o \in Node /\ entry \in Path /\ entry \in Seq(Node) /\ Len(entry) = Len(work) - 1
      /\ Len(work) \in Nat /\ Len(work) >= 3 /\ Last(entry) = Last(work)
      /\ Last(work) \in EvenNodes /\ <<o>> \o entry = work
      /\ WalkOf(work) \in Seq(Node) /\ Last(WalkOf(work)) = belongs[o]
      /\ IsEvenWalk(adj, M, WalkOf(work))
  BY DEF OddWork, TurnLegal, Path
<1>1. /\ path_table \in [Node -> Seq(Node)] /\ is_even \in [Node -> {0, 1}]
      /\ belongs \in [Node -> Node \cup {NoNode}]
  BY DEF ForestTypeOK
<1>2. is_even[o] = 0 /\ o \notin EvenNodes
  BY DEF EvenNodes, EvenNode
<1> HIDE DEF o, entry
<1>3. /\ \A y \in Node : y # o => is_even'[y] = is_even[y] /\ path_table'[y] = path_table[y]
      /\ is_even'[o] = 1 /\ path_table'[o] = entry
      /\ is_even' \in [Node -> {0, 1}] /\ path_table' \in [Node -> Seq(Node)]
  BY <1>0, <1>1 DEF Turned, o, entry
<1>4. ForestTypeOK'
  BY <1>3 DEF ForestTypeOK, Turned
<1>5. belongs[o] # NoNode
  <2>1. Last(WalkOf(work)) \in Node
    <3>1. WalkOf(work) # <<>>
      <4>1. Len(WalkOf(work)) % 2 = 1
        BY <1>0 DEF IsEvenWalk
      <4>2. Len(<<>>) = 0
        OBVIOUS
      <4>3. QED
        BY <4>1, <4>2
    <3>2. Len(WalkOf(work)) \in Nat \ {0}
      BY <1>0, <3>1, EmptySeq
    <3>3. Len(WalkOf(work)) \in 1 .. Len(WalkOf(work))
      BY <3>2
    <3>4. QED
      BY <1>0, <3>3, ElementOfSeq DEF Last
  <2>2. QED
    BY <1>0, <2>1 DEF Node, NoNode
<1>6. EvenNodes' = EvenNodes \cup {o}
  <2>1. belongs' = belongs
    BY DEF Turned
  <2>2. \A y \in Node : EvenNode(y)' <=> EvenNode(y) \/ y = o
    BY <1>3, <1>5, <2>1 DEF EvenNode
  <2>3. QED
    BY <1>0, <2>2 DEF EvenNodes
<1>7. EntriesLong(path_table')
  <2>1. \A y \in Node : y # o => Len(path_table'[y]) # 1
    BY <1>3 DEF EntriesLong
  <2>2. Len(path_table'[o]) # 1
    <3>1. \A n \in Nat : n >= 3 => n - 1 # 1
      OBVIOUS
    <3>2. Len(entry) # 1
      BY <1>0, <3>1
    <3>3. QED
      BY <1>3, <3>2
  <2>3. QED
    BY <2>1, <2>2 DEF EntriesLong
<1>8. \A y \in EvenNodes : Walk(path_table', y) = Walk(path_table, y)
  <2>1. EvenNodes \in SUBSET Node
    BY DEF EvenNodes
  <2>2. \A y \in EvenNodes : /\ path_table'[y] = path_table[y]
                             /\ path_table[y] # <<>> => Last(path_table[y]) \in EvenNodes
    BY <1>2, <1>3, <2>1 DEF LinksEven
  <2>3. PICK E : E = EvenNodes
    OBVIOUS
  <2>4. ASSUME NEW y \in E PROVE Walk(path_table', y) = Walk(path_table, y)
    <3>1. /\ path_table \in [Node -> Seq(Node)] /\ path_table' \in [Node -> Seq(Node)]
          /\ E \in SUBSET Node
          /\ \A z \in E : path_table'[z] = path_table[z] /\ (path_table[z] # <<>> => Last(path_table[z]) \in E)
      BY <1>1, <1>3, <2>1, <2>2, <2>3
    <3>2. QED
      BY ZenonT(30), <3>1, WalkKept
  <2>5. QED
    BY <2>3, <2>4
<1>9. Walk(path_table', o) = WalkOf(work)
  <2>1. EvenWalkLegal(Last(work)) /\ Last(work) \in Node
    BY <1>0 DEF Settled, EvenNodes
  <2>2. Len(Walk(path_table, Last(work))) <= nodes
    BY <2>1, EvenWalk
  <2>3. Walk(path_table', Last(work)) = Walk(path_table, Last(work))
    BY <1>0, <1>8
  <2>4. entry # <<>>
    BY <1>0 DEF Path
  <2>5. /\ path_table'[o] # <<>>
        /\ Len(Walk(path_table', Last(path_table'[o]))) <= nodes
    BY <1>0, <1>3, <2>2, <2>3, <2>4
  <2>6. Walk(path_table', o) = Link(<<o>> \o path_table'[o], Walk(path_table', Last(path_table'[o])))
    BY <1>0, <1>3, <1>7, <2>5, WalkStep
  <2>7. QED
    BY <1>0, <1>3, <2>3, <2>6 DEF WalkOf
<1>10. QED
  BY <1>0, <1>2, <1>3, <1>4, <1>5, <1>6, <1>7, <1>8, <1>9 DEF WellTurned, o, entry

\* Turning leaves the forest in order.
LEMMA TurnedSettled ==
  ASSUME ForestTypeOK, Settled, NEW work, OddWork(work), TurnLegal(work), is_even[work[1]] = 0,
         Turned(work), WellTurned(work), UNCHANGED <<atomic_locks_tree, found>>
  PROVE  Settled'
<1>0. PICK o : o = work[1]
  OBVIOUS
<1>1. /\ \A y \in Node : y # o => is_even'[y] = is_even[y] /\ path_table'[y] = path_table[y]
      /\ is_even'[o] = 1 /\ path_table'[o] = Tail(work) /\ Tail(work) # <<>>
      /\ o \in Node /\ is_even[o] = 0 /\ belongs[o] # NoNode
      /\ EvenNodes' = EvenNodes \cup {o} /\ o \notin EvenNodes
      /\ \A y \in EvenNodes : Walk(path_table', y) = Walk(path_table, y)
      /\ Walk(path_table', o) = WalkOf(work)
      /\ M' = M /\ adj' = adj /\ belongs' = belongs
      /\ atomic_locks_tree' = atomic_locks_tree /\ found' = found
  BY <1>0 DEF WellTurned, Turned, OddWork, Path
<1>2. \A y \in Node : /\ IsRoot(y)' <=> IsRoot(y)
                      /\ Unreached(y)' <=> Unreached(y)
  <2>1. ~IsRoot(o) /\ ~IsRoot(o)' /\ ~Unreached(o) /\ ~Unreached(o)'
    BY <1>1 DEF IsRoot, Unreached
  <2>2. \A y \in Node : y # o => /\ IsRoot(y)' <=> IsRoot(y)
                                 /\ Unreached(y)' <=> Unreached(y)
    BY <1>1 DEF IsRoot, Unreached
  <2>3. QED
    BY <2>1, <2>2
<1>3. \A y \in EvenNodes : EvenWalkLegal(y)'
  BY <1>1 DEF Settled, EvenWalkLegal
<1>4. EvenWalkLegal(o)'
  <2>1. /\ WalkOf(work) \in Seq(Node) /\ IsEvenWalk(adj, M, WalkOf(work))
        /\ Last(WalkOf(work)) = belongs[o]
        /\ \A x \in Range(WalkOf(work)) : belongs[x] = belongs[o]
    BY <1>0 DEF TurnLegal
  <2>2. QED
    BY <1>1, <2>1 DEF EvenWalkLegal
<1>5. \A y \in EvenNodes' : EvenWalkLegal(y)'
  BY <1>1, <1>3, <1>4
<1>6. \A x \in Node : belongs'[x] # NoNode => IsRoot(belongs[x])'
  <2>1. SUFFICES ASSUME NEW x \in Node, belongs[x] # NoNode PROVE IsRoot(belongs[x])'
    BY <1>1
  <2>2. PICK r \in Node : r = belongs[x] /\ IsRoot(r)
    BY <2>1 DEF Settled, ForestTypeOK
  <2>3. belongs'[r] = r /\ is_even'[r] = 1 /\ path_table'[r] = <<>>
    BY <1>2, <2>2 DEF IsRoot
  <2>4. QED
    BY <1>1, <2>2, <2>3 DEF IsRoot
<1>7. /\ \A x \in Node : M'[x] = NoNode => IsRoot(x)'
      /\ \A x \in Node : belongs'[x] = NoNode => Unreached(x)'
      /\ \A x \in Node : IsRoot(x)' => M'[x] = NoNode
  BY <1>1, <1>2 DEF Settled
<1>8. \A x \in Node : M'[x] # NoNode => /\ M'[x] # x /\ M'[M'[x]] = x /\ IsAdjacent(adj', x, M'[x])
                                        /\ belongs'[M'[x]] = belongs'[x]
  BY <1>1 DEF Settled
<1>9. ~found' /\ \A r \in Node : atomic_locks_tree'[r] # 1
  BY <1>1 DEF Settled
<1>10. QED
  BY <1>5, <1>6, <1>7, <1>8, <1>9 DEF Settled

\* Turning keeps the odd nodes that are left, and the new walks still to come,
\* legal.
LEMMA TurnedEntries ==
  ASSUME Sound, phase = "transform", phase' = phase, NEW work \in Works, OddWork(work),
         is_even[work[1]] = 0, Turned(work), WellTurned(work),
         Works' \subseteq Works, Works \subseteq Works' \cup {work}
  PROVE  EntriesSound'
<1>0. PICK o : o = work[1]
  OBVIOUS
<1>1. /\ \A y \in Node : y # o => is_even'[y] = is_even[y] /\ path_table'[y] = path_table[y]
      /\ is_even'[o] = 1 /\ path_table'[o] = Tail(work)
      /\ Range(Tail(work)) \subseteq Range(work) /\ Last(Tail(work)) = Last(work)
      /\ o \in Node /\ is_even[o] = 0
      /\ EvenNodes' = EvenNodes \cup {o} /\ o \notin EvenNodes
      /\ \A y \in EvenNodes : Walk(path_table', y) = Walk(path_table, y)
      /\ Walk(path_table', o) = WalkOf(work)
      /\ EntriesLong(path_table')
      /\ M' = M /\ adj' = adj /\ belongs' = belongs
  BY <1>0 DEF WellTurned, Turned, OddWork
<1>2. /\ LinksEven /\ OddsBare /\ OddsOnce(Turning)
      /\ OddsApart(Walks \cup {WalkOf(u) : u \in Turns}, Turning)
      /\ \A u \in Turns : /\ TurnLegal(u)
                          /\ \A x \in Range(u) : is_even[x] = 1 \/ x \in Turning
  BY DEF Sound, EntriesSound
<1>3. work \in Turns /\ TurnLegal(work) /\ Last(work) \in EvenNodes
  BY <1>2 DEF Turns, TurnLegal
<1>4. PICK T1, T2 : T1 = Turning' /\ T2 = Turning
  OBVIOUS
<1>5. \A x \in T2 : x \in T1 \/ x = o
  BY <1>0, <1>4 DEF Turning
<1>6. \A u \in Works : OddWork(u)
  BY OddAt
<1>7. Turns' \subseteq Turns
  <2>1. SUFFICES ASSUME NEW u \in Works', is_even'[u[1]] = 0 PROVE u \in Turns
    BY DEF Turns
  <2>2. u \in Works /\ u[1] \in Node
    BY <1>6 DEF OddWork
  <2>3. is_even[u[1]] = 0
    BY <1>1, <2>1, <2>2
  <2>4. QED
    BY <2>2, <2>3 DEF Turns
<1>8. StillOdd(T1)' \subseteq StillOdd(T2)
  <2>1. SUFFICES ASSUME NEW x \in Node, x \notin T1, OddNode(x)' PROVE x \notin T2 /\ OddNode(x)
    BY DEF StillOdd
  <2>2. x # o
    BY <1>1, <2>1 DEF OddNode
  <2>3. QED
    BY <1>1, <1>5, <2>1, <2>2 DEF OddNode
<1>9. \A x \in StillOdd(T2) : x \notin Range(work)
  BY <1>2, <1>3, <1>4 DEF StillOdd, OddNode
<1>10. \A y \in EvenNodes : y # o /\ path_table'[y] = path_table[y]
  BY <1>1 DEF EvenNodes
<1>11. EntriesLong(path_table)' /\ LinksEven' /\ OddsBare'
  <2>1. LinksEven'
    BY <1>1, <1>2, <1>3, <1>10 DEF LinksEven
  <2>2. OddsBare'
    BY <1>1, <1>2 DEF OddsBare
  <2>3. QED
    BY <1>1, <2>1, <2>2 DEF EntriesLong
<1>12. OddsOnce(Turning)'
  <2>1. ASSUME NEW x \in StillOdd(T1)', NEW y \in EvenNodes', NEW z \in EvenNodes', x \in Range(path_table'[y])
        PROVE  path_table'[y][1] = x /\ (x \in Range(path_table'[z]) => y = z)
    <3>1. x \in StillOdd(T2) /\ x \notin Range(path_table'[o])
      BY <1>1, <1>8, <1>9, <2>1
    <3>2. y \in EvenNodes /\ (x \in Range(path_table'[z]) => z \in EvenNodes)
      BY <1>1, <2>1, <3>1
    <3>3. QED
      BY <1>2, <1>4, <1>10, <2>1, <3>1, <3>2 DEF OddsOnce
  <2>2. OddsOnce(T1)'
    BY <2>1 DEF OddsOnce
  <2>3. QED
    BY <1>4, <2>2
<1>13. \A u \in Turns' : /\ Last(u) \in EvenNodes /\ WalkOf(u)' = WalkOf(u) /\ TurnLegal(u)'
  <2>1. SUFFICES ASSUME NEW u \in Turns'
                 PROVE  Last(u) \in EvenNodes /\ WalkOf(u)' = WalkOf(u) /\ TurnLegal(u)'
    OBVIOUS
  <2>2. TurnLegal(u) /\ Last(u) \in EvenNodes
    BY <1>2, <1>7 DEF TurnLegal
  <2>3. WalkOf(u)' = WalkOf(u)
    BY <1>1, <2>2 DEF WalkOf
  <2>4. QED
    BY <1>1, <2>2, <2>3 DEF TurnLegal
<1>14. OddsApart(Walks \cup {WalkOf(u) : u \in Turns}, Turning)'
  <2>1. PICK W1, W2 : /\ W1 = (Walks \cup {WalkOf(u) : u \in Turns})'
                      /\ W2 = Walks \cup {WalkOf(u) : u \in Turns}
    OBVIOUS
  <2>2. Walks' = Walks \cup {WalkOf(work)}
    <3>1. Walks' = {Walk(path_table', y) : y \in EvenNodes \cup {o}}
      BY <1>1 DEF Walks
    <3>2. {Walk(path_table', y) : y \in EvenNodes} = Walks
      BY <1>1 DEF Walks
    <3>3. QED
      BY <1>1, <3>1, <3>2
  <2>3. {WalkOf(u) : u \in Turns}' \subseteq {WalkOf(u) : u \in Turns}
    BY <1>7, <1>13
  <2>4. W1 \subseteq W2
    BY <1>3, <2>1, <2>2, <2>3
  <2>5. \A x \in StillOdd(T1)' : \A r, s \in W1 : Apart(r, s, x)
    BY <1>2, <1>4, <1>8, <2>1, <2>4 DEF OddsApart
  <2>6. OddsApart(W1, T1)'
    BY <2>5 DEF OddsApart, Apart, Before
  <2>7. QED
    BY <1>4, <2>1, <2>6
<1>15. \A u \in Turns' : \A x \in Range(u) : is_even'[x] = 1 \/ x \in Turning'
  <2>1. SUFFICES ASSUME NEW u \in Turns', NEW x \in Range(u) PROVE is_even'[x] = 1 \/ x \in T1
    BY <1>4
  <2>2. is_even[x] = 1 \/ x \in T2
    BY <1>2, <1>4, <1>7
  <2>3. x \in Node
    <3>1. u \in Works
      BY <1>7 DEF Turns
    <3>2. u \in Seq(Node)
      BY <1>6, <3>1 DEF OddWork, Path
    <3>3. QED
      BY <3>2, ElementOfSeq, LenProperties DEF Range
  <2>4. QED
    BY <1>1, <1>5, <2>2, <2>3
<1>16. QED
  BY <1>11, <1>12, <1>13, <1>14, <1>15 DEF EntriesSound

\* The locks of the odd nodes once one of them has become even.
LEMMA TurnedOdds ==
  ASSUME Sound, phase = "transform", phase' = "transform",
         atomic_locks_odd_nodes' = atomic_locks_odd_nodes, NEW t \in At("fill"),
         At("fill")' = At("fill") \ {t}, At("claim")' \subseteq At("claim"),
         NEW o, o = t.work[1], is_even'[o] = 1,
         \A y \in Node : y # o => is_even'[y] = is_even[y]
  PROVE  OddsSound'
<1>1. /\ \A x \in Node : atomic_locks_odd_nodes[x] = 1 =>
           is_even[x] = 1 \/ \E u \in At("fill") : u.work[1] = x
      /\ \A u \in At("claim") : is_even[u.work[1]] = 0 \/ atomic_locks_odd_nodes[u.work[1]] = 1
      /\ \A u \in At("fill") : is_even[u.work[1]] = 0 /\ atomic_locks_odd_nodes[u.work[1]] = 1
      /\ \A u, n \in At("fill") : u # n => u.work[1] # n.work[1]
  BY DEF Sound, OddsSound
<1>2. \A u \in At("claim") \cup At("fill") : u.work[1] \in Node
  <2>1. SUFFICES ASSUME NEW u \in running PROVE u.work[1] \in Node
    BY DEF At
  <2>2. u.work \in Works
    BY DEF Works
  <2>3. QED
    BY <2>2, OddAt DEF OddWork
<1>3. \A x \in Node : atomic_locks_odd_nodes'[x] = 1 =>
         is_even'[x] = 1 \/ \E u \in At("fill")' : u.work[1] = x
  BY <1>1
<1>4. \A u \in At("claim")' : is_even'[u.work[1]] = 0 \/ atomic_locks_odd_nodes'[u.work[1]] = 1
  BY <1>1, <1>2
<1>5. \A u \in At("fill")' : is_even'[u.work[1]] = 0 /\ atomic_locks_odd_nodes'[u.work[1]] = 1
  BY <1>1, <1>2
<1>6. \A u, n \in At("fill")' : u # n => u.work[1] # n.work[1]
  BY <1>1
<1>7. QED
  BY <1>3, <1>4, <1>5, <1>6 DEF OddsSound

\* FillOdd keeps Sound: the odd node turns even and joins the queue.
LEMMA FillOddSound ==
  ASSUME Sound, TransformStill, FillOdd
  PROVE  Sound'
<1>0. /\ phase = "transform" /\ phase' = "transform" /\ M' = M /\ adj' = adj /\ belongs' = belongs
      /\ engine' = engine /\ exhausted' = exhausted /\ edge_prefix_cache' = edge_prefix_cache
      /\ atomic_locks_match' = atomic_locks_match
      /\ atomic_locks_tree' = atomic_locks_tree /\ found' = found
      /\ atomic_locks_odd_nodes' = atomic_locks_odd_nodes
  BY DEF TransformStill, hostVars, FillOdd
<1>1. PICK t, work, o, entry :
        /\ t \in At("fill")
        /\ work = t.work /\ o = work[1] /\ entry = Tail(work)
        /\ path_table' = [path_table EXCEPT ![o] = entry]
        /\ root_distance' = [root_distance EXCEPT ![o] = Len(entry) + root_distance[Last(entry)]]
        /\ is_even' = [is_even EXCEPT ![o] = 1]
        /\ queue' = AppendENode2(queue, o)
        /\ Turn(t, {})
  BY DEF FillOdd
<1>2. /\ work \in Works /\ OddWork(work) /\ is_even[work[1]] = 0 /\ TurnLegal(work)
  <2>1. work \in Works
    BY <1>1 DEF At, Works
  <2>2. is_even[work[1]] = 0
    BY <1>0, <1>1 DEF Sound, OddsSound
  <2>3. QED
    BY <1>0, <2>1, <2>2, OddAt
<1>3. Settled /\ At("grow") = {}
  BY <1>0, GrownSettled
<1>4. /\ StateTyped /\ TaskletsTyped /\ ForestTypeOK /\ IsUndirected(adj)
      /\ EntriesLong(path_table) /\ LinksEven
  <2>1. StateTyped /\ TaskletsTyped
    BY TypeParts DEF Sound
  <2>2. QED
    BY <2>1 DEF Sound, StateTyped, EntriesSound
<1>5. Turned(work)
  BY <1>0, <1>1 DEF Turned
<1>6. WellTurned(work) /\ Settled'
  <2>1. WellTurned(work)
    BY <1>2, <1>3, <1>4, <1>5, TurnWalks
  <2>2. QED
    BY <1>0, <1>2, <1>3, <1>4, <1>5, <2>1, TurnedSettled
<1>7. /\ ForestTypeOK' /\ EvenNodes' = EvenNodes \cup {o}
      /\ \A y \in EvenNodes : Walk(path_table', y) = Walk(path_table, y)
      /\ Walk(path_table', o) = WalkOf(work)
      /\ \A y \in Node : y # o => is_even'[y] = is_even[y]
      /\ is_even'[o] = 1 /\ o \in Node /\ o \notin EvenNodes
  BY <1>1, <1>6 DEF WellTurned
<1>8. \A y \in EvenNodes : y \in EvenNodes' /\ y \in Node
  BY <1>7 DEF EvenNodes
<1>9. TaskletsTyped' /\ TaskletsPlaced' /\ WorkSound'
  <2>1. \A y \in Node : EvenNode(y) => EvenNode(y)'
    <3>1. \A y \in Node : y \in EvenNodes => y \in EvenNodes'
      BY <1>8
    <3>2. QED
      BY <3>1 DEF EvenNodes
  <2>2. \A n \in {} : Fits(n, t)
    OBVIOUS
  <2>3. QED
    BY <1>0, <1>1, <1>2, <1>4, <2>1, <2>2, TurnFits DEF Sound, Kernels
<1>10. Holders' = {} /\ At("flip")' = {} /\ At("grow")' = {}
  BY <1>0, <1>9, PlacedThen
<1>11. MatesKept' /\ FlipsSound' /\ TreesSound' /\ RepairSound' /\ LocksSound'
  <2>1. \A y \in Node : M'[y] \in Node \cup {NoNode}
    BY <1>7 DEF ForestTypeOK
  <2>2. QED
    BY <1>0, <1>6, <1>10, <2>1, SettledSound
<1>12. PairsSound'
  <2>1. \A x \in Node : belongs[x] = NoNode => atomic_locks_match[Slot(x)] = 0
    BY <1>0, <1>3 DEF Sound, PairsSound
  <2>2. \A x : Slot(x)' = Slot(x)
    BY <1>0 DEF Slot
  <2>3. \A x \in Node : belongs'[x] = NoNode => atomic_locks_match'[Slot(x)'] = 0
    BY <1>0, <2>1, <2>2
  <2>4. QED
    BY <1>0, <2>3 DEF PairsSound
<1>13. OddsSound'
  <2>1. /\ At("fill")' = At("fill") \ {t} /\ At("claim")' \subseteq At("claim")
    <3>1. /\ At("fill")' = (At("fill") \ {t}) \cup {n \in {} : n.at = "fill"}
          /\ At("claim")' = (At("claim") \ {t}) \cup {n \in {} : n.at = "claim"}
      BY <1>1, TurnAt
    <3>2. QED
      BY <3>1
  <2>2. t \in At("fill") /\ o = t.work[1]
    BY <1>1
  <2>3. QED
    BY <1>0, <1>7, <2>1, <2>2, TurnedOdds
<1>14. EntriesSound'
  <2>1. Works' \subseteq Works /\ Works \subseteq Works' \cup {work}
    <3>1. \A n \in {} : n.work = t.work
      OBVIOUS
    <3>2. QED
      BY <1>1, <1>2, <3>1, WorksAfter
  <2>2. QED
    BY <1>0, <1>2, <1>5, <1>6, <2>1, TurnedEntries
<1>15. PICK q : q = Walk(path_table, Last(work))
  OBVIOUS
<1>16. /\ Last(work) \in EvenNodes /\ Last(work) \in Node /\ Last(entry) = Last(work)
       /\ q \in Path /\ q[1] = Last(work) /\ work \in Path
       /\ Len(entry) = Len(work) - 1 /\ Len(work) \in Nat /\ Len(work) >= 3
  <2>1. Last(work) \in EvenNodes /\ Last(work) \in Node
    BY <1>2 DEF TurnLegal, EvenNodes
  <2>2. q \in Path /\ q[1] = Last(work)
    <3>1. path_table \in [Node -> Seq(Node)]
      BY <1>4 DEF ForestTypeOK
    <3>2. QED
      BY <1>15, <2>1, <3>1, WalkType
  <2>3. QED
    BY <1>1, <1>2, <2>1, <2>2 DEF OddWork
<1>17. root_distance \in [Node -> Nat] /\ \A y \in EvenNodes : root_distance[y] = Len(Walk(path_table, y)) - 1
  <2>1. root_distance \in [Node -> Nat]
    BY <1>4 DEF StateTyped
  <2>2. QED
    BY <1>0, <2>1 DEF Sound, DistancesExact, EvenNodes, EvenNode
<1>18. root_distance' \in [Node -> Nat]
  <2>1. root_distance[Last(entry)] \in Nat /\ Len(entry) \in Nat
    BY <1>16, <1>17
  <2>2. Len(entry) + root_distance[Last(entry)] \in Nat
    BY <2>1
  <2>3. QED
    BY <1>1, <1>7, <1>17, <2>2
<1>19. DistancesExact'
  <2>1. \A y \in EvenNodes : root_distance'[y] = Len(Walk(path_table', y)) - 1
    <3>1. SUFFICES ASSUME NEW y \in EvenNodes PROVE root_distance'[y] = Len(Walk(path_table', y)) - 1
      OBVIOUS
    <3>2. y \in Node /\ y # o
      BY <1>7 DEF EvenNodes
    <3>3. root_distance'[y] = root_distance[y]
      BY <1>1, <1>17, <3>2
    <3>4. QED
      BY <1>7, <1>17, <3>3
  <2>2. root_distance'[o] = Len(Walk(path_table', o)) - 1
    <3>1. root_distance'[o] = Len(entry) + root_distance[Last(entry)]
      BY <1>1, <1>7, <1>17
    <3>2. root_distance[Last(work)] = Len(q) - 1
      BY <1>15, <1>16, <1>17
    <3>3. Len(Walk(path_table', o)) = Len(work) + Len(q) - 1 /\ Len(q) \in Nat
      <4>1. Walk(path_table', o) = Link(work, q)
        BY <1>7, <1>15 DEF WalkOf
      <4>2. Len(Link(work, q)) = Len(work) + Len(q) - 1 /\ Len(q) \in Nat
        BY <1>16, LinkFacts
      <4>3. QED
        BY <4>1, <4>2
    <3>4. \A m, n \in Nat : (m - 1) + (n - 1) = m + n - 1 - 1
      OBVIOUS
    <3>5. QED
      BY <1>16, <3>1, <3>2, <3>3, <3>4
  <2>3. \A y \in EvenNodes' : root_distance'[y] = Len(Walk(path_table', y)) - 1
    BY <1>7, <2>1, <2>2
  <2>4. QED
    BY <2>3 DEF DistancesExact, EvenNodes, EvenNode
<1>20. /\ IsInjective(Slots) /\ \A y \in Range(Slots) : EvenNode(y)
       /\ queue.b1 <= queue.e1 /\ queue.b2 <= queue.e2 /\ queue.b2 = queue.e1
  BY <1>0 DEF Sound, QueueSound
<1>21. QueueTyped(queue)
  BY <1>4 DEF StateTyped, QueueTyped
<1>22. /\ OneMore(o) /\ queue'.e2 = End(queue) + 1 /\ queue.e2 = End(queue)
       /\ queue'.b1 = queue.b1 /\ queue'.b2 = queue.b2 /\ queue'.e1 = queue.e1
       /\ queue' = [slots |-> queue'.slots, b1 |-> queue.b1, e1 |-> queue.e1,
                    b2 |-> queue.b2, e2 |-> queue'.e2]
  BY <1>1, <1>7, <1>20, <1>21, AppendedSlots
<1>23. \A y \in Range(Slots) : y \in EvenNodes
  <2>1. \A s \in Seq(Node) : \A z \in Range(s) : z \in Node
    <3>1. SUFFICES ASSUME NEW s \in Seq(Node), NEW z \in Range(s) PROVE z \in Node
      OBVIOUS
    <3>2. QED
      BY ElementOfSeq, LenProperties DEF Range
  <2>2. Slots \in Seq(Node)
    BY <1>21, SlotsFacts
  <2>3. QED
    BY <1>20, <2>1, <2>2 DEF EvenNodes
<1>24. /\ IsInjective(Slots') /\ Range(Slots') = Range(Slots) \cup {o}
       /\ End(queue) < nodes /\ queue'.slots \in [Node -> Node]
       /\ \A i \in Nat : i < End(queue) => queue'.slots[i] = queue.slots[i]
  <2>1. o \notin Range(Slots)
    BY <1>7, <1>23
  <2>2. QED
    BY <1>7, <1>20, <1>21, <1>22, <2>1, OneMoreSlot
<1>25. QueueTyped(queue)'
  <2>1. End(queue) \in Nat /\ End(queue) + 1 \in 0 .. nodes
    BY <1>21, <1>24, SlotsFacts, NodesAssumption
  <2>2. queue.b1 \in 0 .. nodes /\ queue.b2 \in 0 .. nodes /\ queue.e1 \in 0 .. nodes
    BY <1>21 DEF QueueTyped
  <2>3. QED
    BY <1>22, <1>24, <2>1, <2>2 DEF QueueTyped
<1>26. QueueSound'
  <2>1. \A y \in Range(Slots') : EvenNode(y)'
    <3>1. \A y \in Range(Slots') : y \in EvenNodes'
      BY <1>7, <1>23, <1>24
    <3>2. QED
      BY <3>1 DEF EvenNodes
  <2>2. queue'.b1 <= queue'.e1 /\ queue'.b2 <= queue'.e2 /\ queue'.b2 = queue'.e1
    <3>1. queue.b2 \in Nat /\ queue.e2 \in Nat
      BY <1>21, NodesAssumption DEF QueueTyped
    <3>2. QED
      BY <1>20, <1>22, <3>1
  <2>3. QED
    BY <1>0, <1>24, <2>1, <2>2 DEF QueueSound
<1>27. CacheSound'
  BY <1>0, <1>4, <1>22, <1>24, CacheKept DEF Sound
<1>28. StateTyped'
  BY <1>0, <1>4, <1>7, <1>18, <1>25 DEF StateTyped, QueueTyped
<1>29. TypeOK'
  BY <1>9, <1>28 DEF TypeOK, StateTyped, TaskletsTyped, Works
<1>30. IsUndirected(adj)'
  BY <1>0, <1>4
<1>31. QED
  BY <1>9, <1>11, <1>12, <1>13, <1>14, <1>19, <1>26, <1>27, <1>29, <1>30 DEF Sound

\* Every step of the transform kernel keeps Sound.
LEMMA TransformSound ==
  ASSUME Sound, TransformTasklet
  PROVE  Sound'
<1>1. TransformStill
  BY DEF TransformTasklet, TransformStill, hostVars
<1>2. QED
  BY <1>1, SeeOddSound, ClaimOddSound, FillOddSound DEF TransformTasklet

-----------------------------------------------------------------------------
(***************************************************************************)
(* What the kernels overlook: nothing.  They keep Thorough, too.           *)
(***************************************************************************)
\* What of the forest goes on: bright nodes stay bright, the walks of even nodes
\* stay.
Brighter ==
  /\ path_table \in [Node -> Seq(Node)]
  /\ EvenNodes \subseteq EvenNodes'
  /\ \A x \in EvenNodes : Walk(path_table', x) = Walk(path_table, x)
  /\ \A y \in Node : Bright(y, Turning) => Bright(y, Turning)'

\* Who comes to a node still comes to it;
LEMMA ReachesStays ==
  ASSUME Brighter, NEW x \in EvenNodes, NEW z, Reaches(x, z, Turning)
  PROVE  Reaches(x, z, Turning)'
<1>1. x \in Node /\ z \in EvenNodes
  BY DEF EvenNodes, Reaches
<1>2. PICK p : p = Walk(path_table, x)
  OBVIOUS
<1>3. p \in Seq(Node)
  BY <1>1, <1>2, WalkType DEF Brighter
<1>4. PICK k \in 1 .. Len(p) : /\ p[k] = z
                               /\ p = Link(SubSeq(p, 1, k), Walk(path_table, z))
                               /\ \A i \in 1 .. k : Bright(p[i], Turning)
  BY <1>2 DEF Reaches
<1>5. ASSUME NEW i \in 1 .. k PROVE Bright(p[i], Turning)'
  <2>1. p[i] \in Node
    BY <1>3, <1>4, ElementOfSeq, LenProperties
  <2>2. QED
    BY <1>4, <2>1 DEF Brighter
<1>6. /\ p = Walk(path_table', x) /\ z \in EvenNodes'
      /\ p = Link(SubSeq(p, 1, k), Walk(path_table', z))
  BY <1>1, <1>2, <1>4 DEF Brighter
<1>7. QED
  BY <1>4, <1>5, <1>6 DEF Reaches

\* and whose ways met, they still meet.
LEMMA MergedStays ==
  ASSUME Brighter, NEW x \in EvenNodes, NEW y \in EvenNodes, Merged(x, y, Turning)
  PROVE  Merged(x, y, Turning)'
<1>1. PICK z \in EvenNodes : Reaches(x, z, Turning) /\ Reaches(y, z, Turning)
  BY DEF Merged
<1>2. z \in EvenNodes' /\ Reaches(x, z, Turning)' /\ Reaches(y, z, Turning)'
  BY <1>1, ReachesStays DEF Brighter
<1>3. QED
  BY <1>2 DEF Merged

\* A step that leaves the forest and the queue alone leaves alone what is said of
\* them.
LEMMA ViewsStay ==
  ASSUME UNCHANGED <<adj, is_even, belongs, path_table, queue>>, Turning' = Turning
  PROVE  /\ EvenNodes' = EvenNodes
         /\ \A x, z : Reaches(x, z, Turning)' <=> Reaches(x, z, Turning)
         /\ \A x, y : Merged(x, y, Turning)' <=> Merged(x, y, Turning)
         /\ \A n : /\ Passed(n)' = Passed(n) /\ LeadOn(n)' = LeadOn(n)
                   /\ Unbridged(n)' = Unbridged(n) /\ Shrunk(n)' = Shrunk(n)
         /\ End(queue)' = End(queue)
<1>1. EvenNodes' = EvenNodes
  BY DEF EvenNodes, EvenNode
<1>2. \A y : Bright(y, Turning)' <=> Bright(y, Turning)
  BY DEF Bright
<1>3. \A x, z : Reaches(x, z, Turning)' <=> Reaches(x, z, Turning)
  BY <1>1, <1>2 DEF Reaches
<1>4. \A x, y : Merged(x, y, Turning)' <=> Merged(x, y, Turning)
  BY <1>1, <1>3 DEF Merged
<1>5. \A n : Passed(n)' = Passed(n)
  BY DEF Passed
<1>6. \A n : LeadOn(n)' <=> LeadOn(n)
  BY <1>5 DEF LeadOn
<1>7. \A n : Unbridged(n)' <=> Unbridged(n)
  BY <1>5 DEF Unbridged
<1>8. \A n : Shrunk(n)' <=> Shrunk(n)
  BY <1>4, <1>5 DEF Shrunk
<1>9. QED
  BY <1>1, <1>3, <1>4, <1>5, <1>6, <1>7, <1>8

-----------------------------------------------------------------------------
(***************************************************************************)
(* The augment kernel: some tasklet always has a path, or gets one.        *)
(***************************************************************************)
Losers ==
  \A u \in At("release") :
    found \/ At("flip") # {} \/ \E h \in At("second") : First(Edge(h)) > First(Edge(u))

\* The forest stands still, and who is whole is left alone.
LEMMA AugmentViews ==
  ASSUME Thorough, AugmentStill, \A x \in Node : Whole(x)' => Whole(x) /\ M'[x] = M[x],
         Evidence', Losers'
  PROVE  Thorough'
<1>1. phase = "augment" /\ phase' = "augment"
  BY DEF AugmentStill
<1>2. Turning = {} /\ Turning' = {} /\ Turns' = {}
  BY <1>1 DEF Turning, Turns
<1>3. UNCHANGED <<adj, is_even, belongs, path_table, queue, exhausted>>
  BY DEF AugmentStill, hostVars
<1>4. \A x : /\ Standing(x) <=> Whole(x)
             /\ Standing(x)' <=> Whole(x)'
             /\ OddNode(x)' <=> OddNode(x)
  BY <1>1, <1>3 DEF Standing, OddNode
<1>5. EvenNodes' = EvenNodes
  BY <1>2, <1>3, ViewsStay
<1>6. EvenNodes \subseteq Node
  BY DEF EvenNodes
<1>7. \A x \in Node : OddNode(x)' /\ Standing(x)' => M'[x] \in EvenNodes'
  BY <1>4, <1>5 DEF Thorough, MatesMerged
<1>8. ASSUME NEW x \in EvenNodes', NEW y \in EvenNodes', Standing(x)', M'[x] = y
      PROVE  Merged(x, y, Turning)'
  <2>1. x \in EvenNodes /\ y \in EvenNodes /\ Standing(x) /\ M[x] = y
    BY <1>4, <1>5, <1>6, <1>8
  <2>2. Merged(x, y, Turning)
    BY <2>1 DEF Thorough, MatesMerged
  <2>3. QED
    BY <1>2, <1>3, <2>2, ViewsStay
<1>9. MatesMerged'
  BY <1>2, <1>7, <1>8 DEF MatesMerged
<1>10. Searched'
  <2>1. PICK b1, b2, e : b1 = queue.b1 /\ b2 = queue.b2 /\ e = End(queue)
    OBVIOUS
  <2>2. queue'.b1 = b1 /\ queue'.b2 = b2 /\ End(queue)' = e
    BY <1>2, <1>3, <2>1, ViewsStay
  <2>3. EvenNodes \subseteq Passed(e) /\ Unbridged(b1) /\ LeadOn(b1) /\ (Tame => Shrunk(b2))
    BY <1>1, <2>1 DEF Thorough, Searched
  <2>4. EvenNodes' \subseteq Passed(e)' /\ Unbridged(b1)' /\ LeadOn(b1)' /\ (Tame => Shrunk(b2)')
    BY <1>2, <1>3, <2>3, ViewsStay
  <2>5. Tame' <=> Tame
    BY <1>3 DEF AugmentStill, hostVars, Tame
  <2>6. exhausted' = exhausted /\ ~exhausted
    BY <1>1, <1>3 DEF Thorough, Searched
  <2>7. QED
    BY <1>1, <2>2, <2>4, <2>5, <2>6 DEF Searched
<1>11. RaceWon' /\ Heading'
  BY <1>1 DEF RaceWon, Heading, Losers
<1>12. QED
  BY <1>9, <1>10, <1>11 DEF Thorough

\* A tree stays taken that no tasklet lets go of.
LEMMA TakenStays ==
  ASSUME belongs' = belongs, NEW r, Taken(r), atomic_locks_tree'[r] = 1,
         \A u \in Holders' : u \in Holders \/ First(Edge(u)) # r
  PROVE  Taken(r)'
<1>1. \A u \in Holders' : First(Edge(u)) # r
  BY DEF Taken
<1>2. \A u : First(Edge(u))' = First(Edge(u))
  BY DEF First, Edge
<1>3. QED
  BY <1>1, <1>2 DEF Taken

\* Where nobody lets go of a tree and no mate changes, who is whole was so before.
LEMMA WholeBefore ==
  ASSUME belongs \in [Node -> Node \cup {NoNode}], belongs' = belongs, M' = M,
         \A r \in Node : Taken(r) => Taken(r)'
  PROVE  \A x \in Node : Whole(x)' => Whole(x) /\ M'[x] = M[x]
BY DEF Whole

\* LockFirst: whoever finds the first lock taken has lost to one that goes on;
LEMMA FirstThorough ==
  ASSUME LockInv, Sound, Thorough, AugmentStill, LockFirst
  PROVE  Thorough'
<1>1. PICK t \in Ready :
        /\ Edge(t) \in Bridges
        /\ Turn(t, IF atomic_locks_tree[First(Edge(t))] = 0 THEN Goto(t, "second") ELSE {})
        /\ atomic_locks_tree' = [atomic_locks_tree EXCEPT ![First(Edge(t))] = 1]
        /\ M' = M /\ found' = found
  BY DEF LockFirst
<1> DEFINE f == First(Edge(t))
           T == IF atomic_locks_tree[f] = 0 THEN Goto(t, "second") ELSE {}
<1>2. phase = "augment" /\ phase' = "augment" /\ phase \in Kernels /\ belongs' = belongs
  BY DEF AugmentStill, Kernels
<1>3. t.at = "scan" /\ t.work \in Works /\ t.flips = <<>>
  BY ReadyFacts DEF Sound
<1>4. f \in Node
  BY <1>1, <1>2, BridgeTrees
<1>5. \A n \in T : n.at = "second" /\ Edge(n) = Edge(t)
  BY <1>2, <1>3, GotoFits, PlacesFacts
<1>6. /\ At("second")' = At("second") \cup T /\ At("release")' = At("release")
      /\ At("flip")' = At("flip")
  <2>1. \A place : At(place)' = (At(place) \ {t}) \cup {n \in T : n.at = place}
    BY <1>1, TurnAt
  <2>2. QED
    BY <1>3, <1>5, <2>1 DEF At
<1>7. atomic_locks_tree \in [Node -> {0, 1}]
  BY TypeParts DEF Sound, StateTyped
<1>8. atomic_locks_tree[f] = 0 \/ atomic_locks_tree[f] = 1
  BY <1>4, <1>7
<1>9. T # {} <=> atomic_locks_tree[f] = 0
  BY DEF Goto
<1>10. \A r \in Node : atomic_locks_tree[r] = 1 => atomic_locks_tree'[r] = 1
  BY <1>1, <1>4, <1>7
<1> HIDE DEF f, T
<1>11. ASSUME NEW r \in Node, Taken(r) PROVE Taken(r)'
  <2>2. atomic_locks_tree'[r] = 1 /\ atomic_locks_tree[r] = 1
    BY <1>10, <1>11 DEF Taken
  <2>3. \A u \in T : First(Edge(u)) # r
    BY <1>5, <1>9, <2>2 DEF f
  <2>4. \A u \in Holders' : u \in Holders \/ First(Edge(u)) # r
    BY <1>6, <2>3 DEF Holders
  <2>5. QED
    BY <1>2, <1>11, <2>2, <2>4, TakenStays
<1>12. \A x \in Node : Whole(x)' => Whole(x) /\ M'[x] = M[x]
  BY <1>1, <1>2, <1>11, WholeBefore DEF LockInv, Typed
<1>13. Losers
  BY <1>2 DEF Thorough, RaceWon, Losers
<1>14. Evidence'
  <2>1. CASE atomic_locks_tree[f] = 0
    BY <1>6, <1>9, <2>1 DEF Evidence
  <2>2. CASE Taken(f)
    <3>1. found \/ At("flip") # {}
      BY <1>2, <1>4, <2>2 DEF Sound, LocksSound
    <3>2. QED
      BY <1>1, <1>6, <3>1 DEF Evidence
  <2>3. CASE atomic_locks_tree[f] = 1 /\ ~Taken(f)
    <3>1. PICK h \in Holders : First(Edge(h)) = f
      BY <2>3 DEF Taken
    <3>2. found \/ At("flip") # {} \/ At("second") # {}
      BY <1>13, <3>1 DEF Holders, Losers
    <3>3. QED
      BY <1>1, <1>6, <3>2 DEF Evidence
  <2>4. QED
    BY <1>8, <2>1, <2>2, <2>3
<1>15. Losers'
  <2>1. \A u : First(Edge(u))' = First(Edge(u))
    BY <1>2 DEF First, Edge
  <2>2. QED
    BY <1>1, <1>6, <1>13, <2>1 DEF Losers
<1>16. QED
  BY <1>12, <1>14, <1>15, AugmentViews

\* ReleaseFirst: it is not the last to go;
LEMMA ReleaseThorough ==
  ASSUME LockInv, Sound, Thorough, AugmentStill, ReleaseFirst
  PROVE  Thorough'
<1>1. PICK t \in At("release") :
        /\ Turn(t, {})
        /\ atomic_locks_tree' = [atomic_locks_tree EXCEPT ![First(Edge(t))] = 0]
        /\ M' = M /\ found' = found
  BY DEF ReleaseFirst
<1> DEFINE f == First(Edge(t))
<1>2. phase = "augment" /\ belongs' = belongs
  BY DEF AugmentStill
<1>3. t \in running /\ t.at = "release" /\ t \in Holders
  BY AtFacts DEF Holders
<1>4. /\ At("second")' = At("second") /\ At("release")' = At("release") \ {t}
      /\ At("flip")' = At("flip")
  <2>1. \A place : At(place)' = At(place) \ {t}
    BY <1>1, TurnAt
  <2>2. QED
    BY <1>3, <2>1 DEF At
<1>5. ASSUME NEW r \in Node, Taken(r) PROVE Taken(r)'
  <2>1. f \in Node /\ f # r
    BY <1>3, <1>5, HolderLocks DEF Taken
  <2>2. atomic_locks_tree \in [Node -> {0, 1}]
    BY TypeParts DEF Sound, StateTyped
  <2>3. atomic_locks_tree'[r] = 1
    BY <1>1, <1>5, <2>1, <2>2 DEF Taken
  <2>4. Holders' \subseteq Holders
    BY <1>4 DEF Holders
  <2>5. QED
    BY <1>2, <1>5, <2>3, <2>4, TakenStays
<1>6. \A x \in Node : Whole(x)' => Whole(x) /\ M'[x] = M[x]
  BY <1>1, <1>2, <1>5, WholeBefore DEF LockInv, Typed
<1>7. Losers /\ Evidence
  BY <1>2, <1>3 DEF Thorough, RaceWon, Losers
<1>8. Evidence'
  BY <1>1, <1>4, <1>7 DEF Evidence
<1>9. Losers'
  <2>1. \A u : First(Edge(u))' = First(Edge(u))
    BY <1>2 DEF First, Edge
  <2>2. QED
    BY <1>1, <1>4, <1>7, <2>1 DEF Losers
<1>10. QED
  BY <1>6, <1>8, <1>9, AugmentViews

\* LockSecond: whoever finds the second lock taken has lost to a larger root;
LEMMA SecondThorough ==
  ASSUME LockInv, Sound, Thorough, AugmentStill, LockSecond
  PROVE  Thorough'
<1>1. PICK t \in At("second") :
        /\ Turn(t, IF atomic_locks_tree[Second(Edge(t))] = 0
                   THEN Flipping(t) ELSE Goto(t, "release"))
        /\ atomic_locks_tree' = [atomic_locks_tree EXCEPT ![Second(Edge(t))] = 1]
        /\ M' = M /\ found' = found
  BY DEF LockSecond
<1> DEFINE f == First(Edge(t))
           s == Second(Edge(t))
<1>2. phase = "augment" /\ phase \in Kernels /\ belongs' = belongs
  BY DEF AugmentStill, Kernels
<1>3. t \in running /\ t.at = "second" /\ t.flips = <<>> /\ t \in Holders /\ Edge(t) \in Bridges
  BY <1>2, SecondFacts
<1>4. f \in Node /\ s \in Node /\ f < s
  <2>1. f \in Node /\ s \in Node /\ f # s
    BY <1>2, <1>3, BridgeTrees
  <2>2. \A a, b \in Int : a # b => (IF a < b THEN a ELSE b) < (IF a < b THEN b ELSE a)
    OBVIOUS
  <2>3. belongs[Edge(t)[1]] \in Int /\ belongs[Edge(t)[2]] \in Int
    <3>1. Edge(t)[1] \in Node /\ Edge(t)[2] \in Node
      BY <1>3 DEF Bridges
    <3>2. QED
      BY <3>1 DEF LockInv, Typed, Node, NoNode
  <2>4. belongs[Edge(t)[1]] # belongs[Edge(t)[2]]
    BY <1>3 DEF Bridges, IsBridge
  <2>5. QED
    BY <2>1, <2>2, <2>3, <2>4 DEF First, Second
<1>5. atomic_locks_tree \in [Node -> {0, 1}]
  BY TypeParts DEF Sound, StateTyped
<1>6. \A r \in Node : atomic_locks_tree[r] = 1 => atomic_locks_tree'[r] = 1
  BY <1>1, <1>4, <1>5
<1>7. Losers
  BY <1>2 DEF Thorough, RaceWon, Losers
<1>8. \A u : First(Edge(u))' = First(Edge(u))
  BY <1>2 DEF First, Edge
<1> HIDE DEF f, s
<1>9. CASE atomic_locks_tree[s] = 0
  <2>1. Turn(t, Flipping(t))
    BY <1>1, <1>9 DEF s
  <2>2. \A place : At(place)' = (At(place) \ {t}) \cup {n \in Flipping(t) : n.at = place}
    BY <2>1, TurnAt
  <2>3. \A n \in Flipping(t) : n.at = "flip"
    BY DEF Flipping, Tasklet
  <2>4. Flipping(t) # {}
    BY DEF Flipping
  <2>5. At("flip")' # {}
    BY <2>2, <2>3, <2>4
  <2>6. Holders' \subseteq Holders
    BY <2>2, <2>3 DEF Holders
  <2>7. ASSUME NEW r \in Node, Taken(r) PROVE Taken(r)'
    <3>1. atomic_locks_tree'[r] = 1
      BY <1>6, <2>7 DEF Taken
    <3>2. QED
      BY <1>2, <2>6, <2>7, <3>1, TakenStays
  <2>8. \A x \in Node : Whole(x)' => Whole(x) /\ M'[x] = M[x]
    BY <1>1, <1>2, <2>7, WholeBefore DEF LockInv, Typed
  <2>9. Evidence' /\ Losers'
    BY <2>5 DEF Evidence, Losers
  <2>10. QED
    BY <2>8, <2>9, AugmentViews
<1>10. CASE atomic_locks_tree[s] # 0
  <2>1. Turn(t, Goto(t, "release")) /\ atomic_locks_tree[s] = 1
    BY <1>1, <1>4, <1>5, <1>10 DEF s
  <2>2. \A n \in Goto(t, "release") : n.at = "release" /\ Edge(n) = Edge(t)
    BY <1>2, <1>3, GotoFits, PlacesFacts, <1>2 DEF AugmentStill
  <2>3. /\ At("second")' = At("second") \ {t} /\ At("flip")' = At("flip")
        /\ At("release")' = At("release") \cup Goto(t, "release")
    <3>1. \A place : At(place)' = (At(place) \ {t}) \cup {n \in Goto(t, "release") : n.at = place}
      BY <2>1, TurnAt
    <3>2. QED
      BY <1>3, <2>2, <3>1 DEF At
  <2>4. ASSUME NEW r \in Node, Taken(r) PROVE Taken(r)'
    <3>1. atomic_locks_tree'[r] = 1
      BY <1>6, <2>4 DEF Taken
    <3>2. First(Edge(t)) # r
      BY <1>3, <2>4 DEF Taken
    <3>3. \A u \in Holders' : u \in Holders \/ First(Edge(u)) # r
      BY <2>2, <2>3, <3>2 DEF Holders
    <3>4. QED
      BY <1>2, <2>4, <3>1, <3>3, TakenStays
  <2>5. \A x \in Node : Whole(x)' => Whole(x) /\ M'[x] = M[x]
    BY <1>1, <1>2, <2>4, WholeBefore DEF LockInv, Typed
  <2>6. found \/ At("flip") # {} \/ \E h \in At("second") : First(Edge(h)) > f
    <3>1. CASE Taken(s)
      BY <1>2, <1>4, <3>1 DEF Sound, LocksSound
    <3>2. CASE ~Taken(s)
      <4>1. PICK h \in Holders : First(Edge(h)) = s
        BY <2>1, <3>2 DEF Taken
      <4>2. CASE h \in At("second")
        BY <1>4, <4>1, <4>2 DEF Node
      <4>3. CASE h \in At("release")
        <5>1. CASE \E g \in At("second") : First(Edge(g)) > s
          <6>1. PICK g \in At("second") : First(Edge(g)) > s
            BY <5>1
          <6>2. First(Edge(g)) \in Node
            BY <6>1, HolderLocks DEF Holders
          <6>3. First(Edge(g)) > f
            BY <1>4, <6>1, <6>2 DEF Node
          <6>4. QED
            BY <6>1, <6>3
        <5>2. QED
          BY <1>7, <4>1, <4>3, <5>1 DEF Losers
      <4>4. QED
        BY <4>1, <4>2, <4>3 DEF Holders
    <3>3. QED
      BY <3>1, <3>2
  <2>7. found' \/ At("flip")' # {} \/ \E h \in At("second")' : First(Edge(h)) > f
    <3>1. f = First(Edge(t)) /\ ~(f > f)
      BY <1>4 DEF f, Node
    <3>2. QED
      BY <1>1, <2>3, <2>6, <3>1
  <2>8. Evidence'
    BY <2>7 DEF Evidence
  <2>9. Losers'
    <3> SUFFICES ASSUME NEW u \in At("release")', ~found', At("flip")' = {}
                 PROVE  \E h \in At("second")' : First(Edge(h)) > First(Edge(u))
      BY <1>8 DEF Losers
    <3>1. PICK g \in At("second")' : First(Edge(g)) > f
      BY <2>7
    <3>2. CASE u \in Goto(t, "release")
      BY <2>2, <3>1, <3>2 DEF f
    <3>3. CASE u \in At("release")
      <4>1. PICK h \in At("second") : First(Edge(h)) > First(Edge(u))
        BY <1>1, <1>7, <2>3, <3>3 DEF Losers
      <4>2. CASE h # t
        BY <2>3, <4>1, <4>2
      <4>3. CASE h = t
        <5>1. First(Edge(u)) \in Node /\ First(Edge(g)) \in Node
          BY <2>3, <3>1, <3>3, HolderLocks DEF Holders
        <5>2. First(Edge(g)) > First(Edge(u))
          BY <1>4, <3>1, <4>1, <4>3, <5>1 DEF f, Node
        <5>3. QED
          BY <3>1, <5>2
      <4>4. QED
        BY <4>2, <4>3
    <3>4. QED
      BY <2>3, <3>2, <3>3
  <2>10. QED
    BY <2>5, <2>8, <2>9, AugmentViews
<1>11. QED
  BY <1>9, <1>10

\* FlipPair: the last pair of a path is what found stands for.
LEMMA FlipThorough ==
  ASSUME LockInv, Sound, Thorough, AugmentStill, FlipPair
  PROVE  Thorough'
<1>1. PICK t \in At("flip") :
        /\ M' = [M EXCEPT ![Head(t.flips)[1]] = Head(t.flips)[2], ![Head(t.flips)[2]] = Head(t.flips)[1]]
        /\ found' = (found \/ Len(t.flips) = 1)
        /\ Turn(t, IF Len(t.flips) = 1 THEN NextEdge(t)
                   ELSE {Tasklet("flip", t.work, Tail(t.flips))})
        /\ atomic_locks_tree' = atomic_locks_tree
  BY DEF FlipPair
<1>2. PICK s, a, b : s = t.flips /\ a = Head(s)[1] /\ b = Head(s)[2]
  OBVIOUS
<1> DEFINE T == IF Len(s) = 1 THEN NextEdge(t) ELSE {Tasklet("flip", t.work, Tail(s))}
<1>3. /\ M' = [M EXCEPT ![a] = b, ![b] = a] /\ found' = (found \/ Len(s) = 1)
      /\ Turn(t, T)
  BY <1>1, <1>2
<1>4. phase = "augment" /\ belongs' = belongs
  BY DEF AugmentStill
<1>5. t \in running /\ t.at = "flip"
  BY AtFacts
<1>6. Pairs(s) /\ s # <<>>
  BY <1>2 DEF Sound, FlipsSound, Pairs, PairsApart, Joinable
<1>7. Head(s) \in Range(s) /\ a \in Node /\ b \in Node
  BY <1>2, <1>6, PairsTail
<1>8. M \in [Node -> Node \cup {NoNode}]
  BY TypeParts DEF Sound, StateTyped, ForestTypeOK
<1>9. \A x \in Node : x \notin {a, b} => M'[x] = M[x]
  BY <1>3, <1>7, <1>8
<1>10. \A n \in T : n.at \in {"scan", "flip"}
  BY <1>4, NextFits DEF Tasklet
<1>11. Len(s) # 1 => \E n \in T : n.at = "flip"
  <2>1. Tasklet("flip", t.work, Tail(s)).at = "flip"
    BY DEF Tasklet
  <2>2. QED
    BY <2>1
<1> HIDE DEF T
<1>12. \A place : At(place)' = (At(place) \ {t}) \cup {n \in T : n.at = place}
  BY <1>3, TurnAt
<1>13. Holders' = Holders
  BY <1>5, <1>10, <1>12 DEF At, Holders
<1>14. found' \/ At("flip")' # {}
  BY <1>3, <1>11, <1>12
<1>15. Evidence' /\ Losers'
  BY <1>14 DEF Evidence, Losers
<1>16. \A r : Taken(r)' <=> Taken(r)
  BY <1>1, <1>4, <1>13, ForestStill DEF Taken
<1>17. ASSUME NEW x \in Node, Whole(x)' PROVE Whole(x) /\ M'[x] = M[x]
  <2>1. Whole(x)
    BY <1>4, <1>16, <1>17 DEF Whole
  <2>2. CASE x \in {a, b}
    <3>1. Unflipped(x)
      BY <1>2, <1>7, <2>2 DEF Unflipped, Pending
    <3>2. PICK u \in At("flip") : Taken(belongs[x]) /\ belongs[x] \in {First(Edge(u)), Second(Edge(u))}
      BY <3>1, UnflippedTaken DEF Sound
    <3>3. belongs[x] \in Node
      BY <3>2, FlippersTake
    <3>4. QED
      BY <2>1, <3>2, <3>3 DEF Whole, Node, NoNode
  <2>3. QED
    BY <1>9, <2>1, <2>2
<1>18. QED
  BY <1>15, <1>17, AugmentViews

\* Every step of the augment kernel keeps it.
LEMMA AugmentThorough ==
  ASSUME LockInv, Sound, Thorough, AugmentTasklet
  PROVE  Thorough'
<1>1. AugmentStill
  BY DEF AugmentTasklet, AugmentStill, hostVars
<1>2. QED
  BY <1>1, FirstThorough, SecondThorough, ReleaseThorough, FlipThorough DEF AugmentTasklet

-----------------------------------------------------------------------------
(***************************************************************************)
(* The expand kernel: an edge is dropped when somebody has the pair.       *)
(***************************************************************************)
\* What is known of mates where all trees are whole.
MatesSettled ==
  /\ \A x \in Node : OddNode(x) => M[x] \in EvenNodes
  /\ \A x, y \in EvenNodes : M[x] = y => Merged(x, y, Turning)
  /\ \A work \in Turns : \A y \in EvenNodes : M[work[1]] = y => Reaches(y, Last(work), Turning)

\* While a forest is grown they are.
LEMMA SettledMates ==
  ASSUME Settled, phase # "init", belongs \in [Node -> Node \cup {NoNode}], MatesMerged
  PROVE  MatesSettled
<1>1. ASSUME NEW x \in Node PROVE Standing(x)
  <2>1. belongs[x] \in Node => ~Taken(belongs[x])
    BY DEF Settled, Taken
  <2>2. QED
    BY <2>1 DEF Standing, Whole
<1>2. EvenNodes \subseteq Node
  BY DEF EvenNodes
<1>3. QED
  BY <1>1, <1>2 DEF MatesMerged, MatesSettled

\* An edge is still looked at, unless its tasklet has gone on to the next.
LEMMA EdgesGoOn ==
  ASSUME NEW t, EdgeWork(t.work), NEW T, Turn(t, T),
         T = NextEdge(t) \/ \E place : T = Goto(t, place),
         NEW work \in Works, NEW e \in Range(work)
  PROVE  (\E k \in Works' : e \in Range(k)) \/ (T = NextEdge(t) /\ e = Edge(t))
<1>1. CASE work # t.work
  <2>1. work \in Works'
    BY <1>1 DEF Works, Turn
  <2>2. QED
    BY <2>1
<1>2. CASE work = t.work /\ T # NextEdge(t)
  <2>1. PICK place : T = Goto(t, place)
    BY <1>2
  <2>2. \E n \in T : n.work = t.work
    BY <2>1 DEF Goto, Tasklet
  <2>3. t.work \in Works'
    BY <2>2 DEF Works, Turn
  <2>4. QED
    BY <1>2, <2>3
<1>3. CASE work = t.work /\ T = NextEdge(t)
  <2>1. e = Head(t.work) \/ e \in Range(Tail(t.work))
    BY <1>3, TailRange DEF EdgeWork
  <2>2. CASE e \in Range(Tail(t.work))
    <3>1. Tail(t.work) # <<>>
      BY <2>2 DEF Range
    <3>2. \E n \in T : n.work = Tail(t.work)
      BY <1>3, <3>1 DEF NextEdge, Tasklet
    <3>3. Tail(t.work) \in Works'
      BY <3>2 DEF Works, Turn
    <3>4. QED
      BY <2>2, <3>3
  <2>3. QED
    BY <1>3, <2>1, <2>2 DEF Edge
<1>4. QED
  BY <1>1, <1>2, <1>3

\* The forest and the queue stand still while pairs are only looked for.
LEMMA ExpandViews ==
  ASSUME Sound, Thorough, ExpandStill, UNCHANGED <<is_even, belongs, path_table, queue>>, Heading'
  PROVE  Thorough'
<1>1. phase = "expand" /\ phase' = "expand"
  BY DEF ExpandStill
<1>2. Turning = {} /\ Turning' = {} /\ Turns' = {}
  BY <1>1 DEF Turning, Turns
<1>3. UNCHANGED <<adj, is_even, belongs, path_table, queue, M, exhausted, engine>>
  BY DEF ExpandStill, hostVars
<1>4. MatesSettled
  <2>1. Settled /\ belongs \in [Node -> Node \cup {NoNode}]
    BY <1>1, GrownSettled, TypeParts DEF Sound, StateTyped, ForestTypeOK
  <2>2. QED
    BY <1>1, <2>1, SettledMates DEF Thorough
<1>5. EvenNodes' = EvenNodes
  BY <1>2, <1>3, ViewsStay
<1>6. MatesMerged'
  <2>1. \A x \in Node : OddNode(x)' => M'[x] \in EvenNodes'
    BY <1>3, <1>4, <1>5 DEF MatesSettled, OddNode
  <2>2. ASSUME NEW x \in EvenNodes', NEW y \in EvenNodes', M'[x] = y PROVE Merged(x, y, Turning)'
    <3>1. Merged(x, y, Turning)
      BY <1>3, <1>4, <1>5, <2>2 DEF MatesSettled
    <3>2. QED
      BY <1>2, <1>3, <3>1, ViewsStay
  <2>3. QED
    BY <1>2, <2>1, <2>2 DEF MatesMerged
<1>7. Searched'
  <2>1. PICK b1, b2, e : b1 = queue.b1 /\ b2 = queue.b2 /\ e = End(queue)
    OBVIOUS
  <2>2. queue'.b1 = b1 /\ queue'.b2 = b2 /\ End(queue)' = e
    BY <1>2, <1>3, <2>1, ViewsStay
  <2>3. EvenNodes \subseteq Passed(e) /\ Unbridged(b1) /\ (Tame => Shrunk(b2))
    BY <1>1, <2>1 DEF Thorough, Searched
  <2>4. EvenNodes' \subseteq Passed(e)' /\ Unbridged(b1)' /\ (Tame => Shrunk(b2)')
    BY <1>2, <1>3, <2>3, ViewsStay
  <2>5. Tame' <=> Tame
    BY <1>3 DEF Tame
  <2>6. exhausted' = exhausted /\ ~exhausted
    BY <1>1, <1>3 DEF Thorough, Searched
  <2>7. QED
    BY <1>1, <2>2, <2>4, <2>5, <2>6 DEF Searched
<1>8. RaceWon'
  BY <1>1 DEF RaceWon
<1>9. QED
  BY <1>6, <1>7, <1>8 DEF Thorough

\* SeeFree: the edge of a node in a tree is not needed;
LEMMA SeeFreeThorough ==
  ASSUME Sound, Thorough, ExpandStill, SeeFree
  PROVE  Thorough'
<1>1. /\ phase = "expand" /\ phase \in Kernels /\ UNCHANGED <<adj, M, is_even, belongs, path_table, queue>>
  BY DEF ExpandStill, SeeFree, Kernels
<1>2. PICK t \in Ready : Turn(t, IF Edge(t) \in Outward THEN Goto(t, "claim") ELSE NextEdge(t))
  BY DEF SeeFree
<1>3. t.at = "scan" /\ t.work \in Works /\ t.flips = <<>>
  BY ReadyFacts DEF Sound
<1>4. EdgeWork(t.work)
  BY <1>1, <1>3 DEF Sound, WorkSound, EdgeWork
<1>5. PICK T : T = IF Edge(t) \in Outward THEN Goto(t, "claim") ELSE NextEdge(t)
  OBVIOUS
<1>6. Turn(t, T) /\ (T = NextEdge(t) \/ \E place : T = Goto(t, place))
  BY <1>2, <1>5
<1>7. Edge(t) \in Node \X Node
  BY <1>4, EdgeOfWork DEF Edge
<1>8. At("grow") \subseteq At("grow")'
  <2>1. At("grow")' = (At("grow") \ {t}) \cup {n \in T : n.at = "grow"}
    BY <1>6, TurnAt
  <2>2. QED
    BY <1>3, <2>1 DEF At
<1>9. ASSUME T = NextEdge(t), T # Goto(t, "claim")
      PROVE  belongs[Edge(t)[2]] # NoNode
  BY <1>5, <1>7, <1>9 DEF Outward
<1>10. ASSUME T = Goto(t, "claim"), T = NextEdge(t) PROVE FALSE
  <2>1. PICK n \in T : n.at = "claim"
    BY <1>10 DEF Goto, Tasklet
  <2>2. n.at = "scan"
    BY <1>1, <1>10, <2>1, NextFits
  <2>3. QED
    BY <2>1, <2>2
<1>11. \A n : Passed(n)' = Passed(n)
  BY <1>1 DEF Passed
<1>12. Heading'
  <2>1. SUFFICES ASSUME NEW x \in Passed(queue.b1), NEW w \in Node, IsAdjacent(adj, x, w), belongs[w] = NoNode
                 PROVE  \/ \E work \in Works' : <<x, w>> \in Range(work)
                        \/ \E u \in At("grow")' : Pair(Edge(u)) = Slot(w)
    BY <1>1, <1>11 DEF Heading, Pair, Edge, Slot
  <2>2. CASE \E u \in At("grow") : Pair(Edge(u)) = Slot(w)
    BY <1>8, <2>2
  <2>3. CASE \E work \in Works : <<x, w>> \in Range(work)
    <3>1. PICK work \in Works : <<x, w>> \in Range(work)
      BY <2>3
    <3>2. (\E k \in Works' : <<x, w>> \in Range(k)) \/ (T = NextEdge(t) /\ <<x, w>> = Edge(t))
      BY <1>4, <1>6, <3>1, EdgesGoOn
    <3>3. ~(T = NextEdge(t) /\ <<x, w>> = Edge(t))
      BY <1>9, <1>10, <2>1
    <3>4. QED
      BY <3>2, <3>3
  <2>4. QED
    BY <1>1, <2>1, <2>2, <2>3 DEF Thorough, Heading
<1>13. QED
  BY <1>1, <1>12, ExpandViews

\* ClaimPair: who finds the pair locked leaves it to the one that grows it;
LEMMA ClaimThorough ==
  ASSUME Sound, Thorough, ExpandStill, ClaimPair
  PROVE  Thorough'
<1>1. phase = "expand" /\ phase \in Kernels /\ UNCHANGED <<adj, M, is_even, belongs, path_table, queue>>
  BY DEF ExpandStill, ClaimPair, Kernels
<1>2. PICK t \in At("claim") :
        Turn(t, IF atomic_locks_match[PairOf(t)] = 0 THEN Goto(t, "grow") ELSE NextEdge(t))
  BY DEF ClaimPair, PairOf
<1>3. /\ t.work \in Works /\ t.at = "claim" /\ Edge(t)[2] \in Node
      /\ PairOf(t) \in Node /\ PairOf(t) = Slot(Edge(t)[2])
  BY <1>1, PairFacts DEF At
<1>4. EdgeWork(t.work)
  BY <1>1, <1>3 DEF Sound, WorkSound, EdgeWork
<1>5. PICK T : T = IF atomic_locks_match[PairOf(t)] = 0 THEN Goto(t, "grow") ELSE NextEdge(t)
  OBVIOUS
<1>6. Turn(t, T) /\ (T = NextEdge(t) \/ \E place : T = Goto(t, place))
  BY <1>2, <1>5
<1>7. At("grow") \subseteq At("grow")'
  <2>1. At("grow")' = (At("grow") \ {t}) \cup {n \in T : n.at = "grow"}
    BY <1>6, TurnAt
  <2>2. QED
    BY <1>3, <2>1 DEF At
<1>8. ASSUME T = Goto(t, "grow"), T = NextEdge(t) PROVE FALSE
  <2>1. PICK n \in T : n.at = "grow"
    BY <1>8 DEF Goto, Tasklet
  <2>2. n.at = "scan"
    BY <1>1, <1>8, <2>1, NextFits
  <2>3. QED
    BY <2>1, <2>2
<1>9. ASSUME T = NextEdge(t), belongs[Edge(t)[2]] = NoNode
      PROVE  \E u \in At("grow") : Pair(Edge(u)) = Slot(Edge(t)[2])
  <2>1. atomic_locks_match[PairOf(t)] # 0
    BY <1>5, <1>8, <1>9
  <2>2. QED
    BY <1>1, <1>3, <1>9, <2>1 DEF Sound, PairsSound
<1>10. \A n : Passed(n)' = Passed(n)
  BY <1>1 DEF Passed
<1>11. Heading'
  <2>1. SUFFICES ASSUME NEW x \in Passed(queue.b1), NEW w \in Node, IsAdjacent(adj, x, w), belongs[w] = NoNode
                 PROVE  \/ \E work \in Works' : <<x, w>> \in Range(work)
                        \/ \E u \in At("grow")' : Pair(Edge(u)) = Slot(w)
    BY <1>1, <1>10 DEF Heading, Pair, Edge, Slot
  <2>2. CASE \E u \in At("grow") : Pair(Edge(u)) = Slot(w)
    BY <1>7, <2>2
  <2>3. CASE \E work \in Works : <<x, w>> \in Range(work)
    <3>1. PICK work \in Works : <<x, w>> \in Range(work)
      BY <2>3
    <3>2. (\E k \in Works' : <<x, w>> \in Range(k)) \/ (T = NextEdge(t) /\ <<x, w>> = Edge(t))
      BY <1>4, <1>6, <3>1, EdgesGoOn
    <3>3. CASE T = NextEdge(t) /\ <<x, w>> = Edge(t)
      <4>1. w = Edge(t)[2]
        BY <3>3
      <4>2. QED
        BY <1>7, <1>9, <2>1, <3>3, <4>1
    <3>4. QED
      BY <3>2, <3>3
  <2>4. QED
    BY <1>1, <2>1, <2>2, <2>3 DEF Thorough, Heading
<1>12. QED
  BY <1>1, <1>11, ExpandViews

\* An append leaves alone what was passed before it.
LEMMA PassedOn ==
  ASSUME QueueTyped(queue), NEW x \in Node, OneMore(x), End(queue) < nodes
  PROVE  /\ \A n \in Nat : n <= End(queue) => Passed(n)' = Passed(n)
         /\ \A n : n = End(queue') => Passed(n)' = Passed(End(queue)) \cup {x}
<1>1. PICK e : e = End(queue)
  OBVIOUS
<1>2. e \in Nat /\ e \in Node /\ End(queue') = e + 1
  <2>1. e \in Nat /\ e < nodes /\ End(queue') = e + 1
    BY <1>1, SlotsFacts DEF OneMore
  <2>2. QED
    BY <2>1, NodesAssumption DEF Node
<1>3. queue.slots \in [Node -> Node]
  BY DEF QueueTyped
<1>4. queue'.slots[e] = x /\ \A i \in Nat : i < e => queue'.slots[i] = queue.slots[i]
  BY <1>1, <1>2, <1>3 DEF OneMore
<1>5. ASSUME NEW n \in Nat, n <= e PROVE Passed(n)' = Passed(n)
  <2>1. \A i \in 0 .. (n - 1) : queue'.slots[i] = queue.slots[i]
    BY <1>2, <1>4, <1>5
  <2>2. QED
    BY <2>1 DEF Passed
<1>6. ASSUME NEW n, n = e + 1 PROVE Passed(n)' = Passed(e) \cup {x}
  <2>1. \A i : i \in 0 .. (n - 1) <=> i \in 0 .. (e - 1) \/ i = e
    BY <1>2, <1>6
  <2>2. \A i \in 0 .. (e - 1) : queue'.slots[i] = queue.slots[i]
    BY <1>2, <1>4
  <2>3. QED
    BY <1>4, <2>1, <2>2 DEF Passed
<1>7. QED
  BY <1>1, <1>2, <1>5, <1>6

\* What has been passed of the queue is even.
LEMMA PassedEven ==
  ASSUME QueueTyped(queue), \A x \in Range(Slots) : EvenNode(x), NEW n \in Nat, n <= End(queue)
  PROVE  Passed(n) \subseteq EvenNodes
<1>1. PICK e : e = End(queue)
  OBVIOUS
<1>2. /\ e \in Nat /\ e <= nodes /\ Slots \in Seq(Node) /\ Len(Slots) = e
      /\ \A i \in 1 .. e : Slots[i] = queue.slots[i - 1]
  BY <1>1, SlotsFacts
<1>3. ASSUME NEW i \in 0 .. (n - 1) PROVE queue.slots[i] \in EvenNodes
  <2>1. i + 1 \in 1 .. e /\ (i + 1) - 1 = i
    BY <1>1, <1>2, <1>3
  <2>2. Slots[i + 1] = queue.slots[i]
    BY <1>2, <2>1
  <2>3. Slots[i + 1] \in Range(Slots) /\ Slots[i + 1] \in Node
    BY <1>2, <2>1, ElementOfSeq, LenProperties DEF Range
  <2>4. QED
    BY <2>2, <2>3 DEF EvenNodes
<1>4. QED
  BY <1>3 DEF Passed

\* A step that appends an even node keeps what is known of the nodes before it.
LEMMA PassedViews ==
  ASSUME Brighter, adj' = adj, \A x \in EvenNodes : belongs'[x] = belongs[x],
         NEW n, Passed(n) \subseteq EvenNodes, Passed(n)' = Passed(n)
  PROVE  /\ Unbridged(n) => Unbridged(n)'
         /\ Shrunk(n) => Shrunk(n)'
<1>1. Unbridged(n) => Unbridged(n)'
  BY DEF Unbridged
<1>2. ASSUME Shrunk(n), NEW x \in Passed(n), NEW w \in Passed(n), IsAdjacent(adj, x, w),
             belongs[x] = belongs[w]
      PROVE  Merged(x, w, Turning)'
  BY <1>2, MergedStays DEF Shrunk
<1>3. Shrunk(n) => Shrunk(n)'
  BY <1>2 DEF Shrunk
<1>4. QED
  BY <1>1, <1>3
\* A pair and its slot.
LEMMA SlotMates ==
  ASSUME M \in [Node -> Node \cup {NoNode}], NEW w \in Node, NEW x \in Node,
         M[w] = x, M[x] = w, NEW y \in Node, Slot(y) = Slot(w)
  PROVE  y = w \/ y = x \/ M[y] = w \/ M[y] = x
BY DEF Slot

\* Grow: the pair behind the edge is in a tree, the rest stays as it was.
LEMMA GrowThorough ==
  ASSUME Sound, Thorough, ExpandStill, Grow
  PROVE  Thorough'
<1>1. /\ phase = "expand" /\ phase' = "expand" /\ M' = M /\ adj' = adj
      /\ engine' = engine /\ exhausted' = exhausted
  BY DEF ExpandStill, hostVars, Grow
<1>2. PICK t, v, w, x :
        /\ t \in At("grow")
        /\ v = Edge(t)[1] /\ w = Edge(t)[2] /\ x = M[w]
        /\ is_even' = [is_even EXCEPT ![w] = 0, ![x] = 1]
        /\ belongs' = [belongs EXCEPT ![w] = belongs[v], ![x] = belongs[v]]
        /\ path_table' = [path_table EXCEPT ![x] = <<w, v>>]
        /\ queue' = AppendENode1(queue, x)
        /\ Turn(t, NextEdge(t))
  BY DEF Grow
<1>3. /\ t.work \in Works /\ v \in EvenNodes /\ w \in Node /\ x \in Node
      /\ IsAdjacent(adj, v, w) /\ M[w] = x /\ M[x] = w /\ w # x /\ belongs[w] = NoNode
      /\ PairOf(t) = Slot(w)
  <2>1. belongs[Edge(t)[2]] = NoNode
    BY <1>1, <1>2 DEF Sound, PairsSound
  <2>2. QED
    BY <1>1, <1>2, <2>1, PairFacts
<1>4. Settled
  BY <1>1, GrownSettled
<1>5. /\ StateTyped /\ ForestTypeOK /\ IsUndirected(adj) /\ EntriesPlain
  <2>1. StateTyped
    BY TypeParts DEF Sound
  <2>2. QED
    BY <1>1, <2>1, PlainEntries DEF Sound, StateTyped
<1>6. Growable(v, w, x)
  <2>1. Unreached(w) /\ belongs[x] = NoNode
    BY <1>3, <1>4 DEF Settled, Node, NoNode
  <2>2. Unreached(x)
    BY <1>3, <1>4, <2>1 DEF Settled
  <2>3. QED
    BY <1>3, <2>1, <2>2 DEF Growable, Unreached
<1>7. GrowsTo(v, w, x)
  BY <1>1, <1>2 DEF GrowsTo
<1>8. Grown(v, w, x)
  BY <1>4, <1>5, <1>6, <1>7, GrowWalks
<1>9. /\ ForestTypeOK' /\ EvenNodes' = EvenNodes \cup {x}
      /\ \A y \in EvenNodes : Walk(path_table', y) = Walk(path_table, y)
      /\ belongs'[w] = belongs[v] /\ belongs'[x] = belongs[v] /\ belongs[v] \in Node
      /\ \A y \in Node \ {w, x} : belongs'[y] = belongs[y] /\ is_even'[y] = is_even[y]
      /\ is_even'[x] = 1 /\ is_even'[w] = 0
  BY <1>8 DEF Grown
<1>10. x \notin EvenNodes /\ w \notin EvenNodes /\ EvenNodes \subseteq Node
  BY <1>6 DEF Growable, EvenNodes, EvenNode
<1>11. w \notin EvenNodes'
  BY <1>3, <1>9, <1>10
<1>12. Turning = {} /\ Turning' = {} /\ Turns' = {}
  BY <1>1 DEF Turning, Turns
<1>13. Brighter
  <2>1. \A y \in Node : Bright(y, Turning) => Bright(y, Turning)'
    BY <1>6, <1>9, <1>12 DEF Bright, Growable
  <2>2. QED
    BY <1>5, <1>9, <2>1 DEF Brighter, ForestTypeOK
<1>14. MatesSettled
  BY <1>1, <1>4, <1>5, SettledMates DEF Thorough, ForestTypeOK
<1>15. \A y \in Node : M[y] # NoNode => M[y] \in Node /\ M[M[y]] = y
  <2>1. M \in [Node -> Node \cup {NoNode}]
    BY <1>5 DEF ForestTypeOK
  <2>2. QED
    BY <1>4, <2>1 DEF Settled
<1>16. MatesMerged'
  <2>1. ASSUME NEW y \in Node, OddNode(y)' PROVE M'[y] \in EvenNodes'
    <3>1. CASE y = w
      BY <1>1, <1>3, <1>9, <3>1
    <3>2. CASE y = x
      BY <1>9, <2>1, <3>2 DEF OddNode
    <3>3. CASE y \notin {w, x}
      BY <1>1, <1>9, <1>14, <2>1, <3>3 DEF OddNode, MatesSettled
    <3>4. QED
      BY <3>1, <3>2, <3>3
  <2>2. ASSUME NEW y \in EvenNodes', NEW z \in EvenNodes', M'[y] = z PROVE Merged(y, z, Turning)'
    <3>1. y # x
      BY <1>1, <1>3, <1>11, <2>2
    <3>2. z # x
      <4>1. CASE z = x
        <5>1. y \in Node /\ M[y] = x /\ x # NoNode
          BY <1>1, <1>3, <1>9, <1>10, <2>2, <4>1 DEF Node, NoNode
        <5>2. M[x] = y
          BY <1>15, <5>1
        <5>3. QED
          BY <1>3, <1>11, <5>2
      <4>2. QED
        BY <4>1
    <3>3. y \in EvenNodes /\ z \in EvenNodes /\ M[y] = z
      BY <1>1, <1>9, <2>2, <3>1, <3>2
    <3>4. Merged(y, z, Turning)
      BY <1>14, <3>3 DEF MatesSettled
    <3>5. QED
      BY <1>13, <3>3, <3>4, MergedStays
  <2>3. QED
    BY <1>12, <2>1, <2>2 DEF MatesMerged
<1>17. /\ IsInjective(Slots) /\ \A y \in Range(Slots) : EvenNode(y)
       /\ queue.b1 <= queue.e1 /\ queue.b2 <= queue.e2 /\ queue.b1 = queue.e2
  BY <1>1 DEF Sound, QueueSound
<1>18. QueueTyped(queue)
  BY <1>5 DEF StateTyped, QueueTyped
<1>19. /\ OneMore(x) /\ queue.e1 = End(queue)
       /\ queue'.b1 = queue.b1 /\ queue'.b2 = queue.b2
  BY <1>2, <1>3, <1>17, <1>18, AppendedSlots
<1>20. End(queue) < nodes
  <2>1. x \notin Range(Slots)
    BY <1>3, <1>10, <1>17 DEF EvenNodes
  <2>2. QED
    BY <1>3, <1>17, <1>18, <1>19, <2>1, OneMoreSlot
<1>21. PICK b1, b2, e : b1 = queue.b1 /\ b2 = queue.b2 /\ e = End(queue)
  OBVIOUS
<1>22. b1 \in Nat /\ b2 \in Nat /\ e \in Nat /\ b1 <= e /\ b2 <= e /\ e <= nodes
  <2>1. /\ queue.b1 \in Nat /\ queue.b2 \in Nat /\ queue.e1 \in Nat /\ queue.e2 \in Nat
    BY <1>18, NodesAssumption DEF QueueTyped
  <2>2. QED
    BY <1>17, <1>18, <1>19, <1>21, <2>1, SlotsFacts
<1>23. /\ Passed(b1)' = Passed(b1) /\ Passed(b2)' = Passed(b2)
       /\ \A n : n = End(queue') => Passed(n)' = Passed(e) \cup {x}
  BY <1>3, <1>18, <1>19, <1>20, <1>21, <1>22, PassedOn
<1>24. Passed(b1) \subseteq EvenNodes /\ Passed(b2) \subseteq EvenNodes
  BY <1>17, <1>18, <1>21, <1>22, PassedEven
<1>25. \A y \in EvenNodes : belongs'[y] = belongs[y]
  BY <1>9, <1>10
<1>26. Searched'
  <2>1. EvenNodes \subseteq Passed(e) /\ Unbridged(b1) /\ (Tame => Shrunk(b2))
    BY <1>1, <1>21 DEF Thorough, Searched
  <2>2. PICK n : n = End(queue')
    OBVIOUS
  <2>3. EvenNodes' \subseteq Passed(n)'
    BY <1>9, <1>23, <2>1, <2>2
  <2>4. Unbridged(b1)'
    BY <1>1, <1>13, <1>23, <1>24, <1>25, <2>1, PassedViews
  <2>5. Shrunk(b2) => Shrunk(b2)'
    BY <1>1, <1>13, <1>23, <1>24, <1>25, PassedViews
  <2>6. Tame' <=> Tame
    BY <1>1 DEF Tame
  <2>7. exhausted' = exhausted /\ ~exhausted
    BY <1>1 DEF Thorough, Searched
  <2>8. queue'.b1 = b1 /\ queue'.b2 = b2 /\ n = End(queue)'
    BY <1>19, <1>21, <2>2
  <2>9. QED
    BY <1>1, <2>1, <2>3, <2>4, <2>5, <2>6, <2>7, <2>8 DEF Searched
<1>27. EdgeWork(t.work)
  BY <1>1, <1>3 DEF Sound, WorkSound, EdgeWork
<1>28. At("grow")' = At("grow") \ {t}
  <2>1. \A n \in NextEdge(t) : n.at = "scan"
    BY <1>1, NextFits
  <2>2. At("grow")' = (At("grow") \ {t}) \cup {n \in NextEdge(t) : n.at = "grow"}
    BY <1>2, TurnAt
  <2>3. QED
    BY <2>1, <2>2
<1>29. Heading'
  <2>1. \A y : Slot(y)' = Slot(y) /\ \A u : Pair(Edge(u))' = Pair(Edge(u))
    BY <1>1 DEF Slot, Pair, Edge
  <2>2. SUFFICES ASSUME NEW y \in Passed(b1), NEW z \in Node, IsAdjacent(adj, y, z), belongs'[z] = NoNode
                 PROVE  \/ \E work \in Works' : <<y, z>> \in Range(work)
                        \/ \E u \in At("grow")' : Pair(Edge(u)) = Slot(z)
    BY <1>1, <1>19, <1>21, <1>23, <2>1 DEF Heading
  <2>3. z # w /\ z # x /\ belongs[z] = NoNode
    <3>1. belongs[v] # NoNode
      BY <1>9 DEF Node, NoNode
    <3>2. z # w /\ z # x
      BY <1>9, <2>2, <3>1
    <3>3. QED
      BY <1>9, <2>2, <3>2
  <2>4. CASE \E u \in At("grow") : Pair(Edge(u)) = Slot(z)
    <3>1. PICK u \in At("grow") : Pair(Edge(u)) = Slot(z)
      BY <2>4
    <3>2. CASE u # t
      BY <1>28, <3>1, <3>2
    <3>3. CASE u = t
      <4>1. Slot(z) = Slot(w)
        BY <1>3, <3>1, <3>3 DEF PairOf
      <4>2. M[z] = w \/ M[z] = x
        BY <1>3, <1>5, <2>3, <4>1, SlotMates DEF ForestTypeOK
      <4>3. M[z] # NoNode
        BY <1>3, <4>2 DEF Node, NoNode
      <4>4. M[M[z]] = z
        BY <1>15, <4>3
      <4>5. QED
        BY <1>3, <2>3, <4>2, <4>4
    <3>4. QED
      BY <3>2, <3>3
  <2>5. CASE \E work \in Works : <<y, z>> \in Range(work)
    <3>1. PICK work \in Works : <<y, z>> \in Range(work)
      BY <2>5
    <3>2. Turn(t, NextEdge(t))
      BY <1>2
    <3>3. (\E k \in Works' : <<y, z>> \in Range(k)) \/ <<y, z>> = Edge(t)
      BY <1>27, <3>1, <3>2, EdgesGoOn
    <3>4. <<y, z>> # Edge(t)
      BY <1>2, <2>3
    <3>5. QED
      BY <3>3, <3>4
  <2>6. QED
    BY <1>1, <1>21, <2>2, <2>3, <2>4, <2>5 DEF Thorough, Heading
<1>30. RaceWon'
  BY <1>1 DEF RaceWon
<1>31. QED
  BY <1>16, <1>26, <1>29, <1>30 DEF Thorough

\* Every step of the expand kernel keeps it.
LEMMA ExpandThorough ==
  ASSUME Sound, Thorough, ExpandTasklet
  PROVE  Thorough'
<1>1. ExpandStill
  BY DEF ExpandTasklet, ExpandStill, hostVars
<1>2. QED
  BY <1>1, SeeFreeThorough, ClaimThorough, GrowThorough DEF ExpandTasklet

-----------------------------------------------------------------------------
(***************************************************************************)
(* The transform kernel: nodes only become bright.                         *)
(***************************************************************************)
\* A path in front of another is the front of the two.
LEMMA LinkFront ==
  ASSUME NEW p \in Path, NEW q \in Path, Last(p) = q[1], NEW W, W = Link(p, q)
  PROVE  /\ Len(p) \in 1 .. Len(W) /\ W[Len(p)] = Last(p) /\ SubSeq(W, 1, Len(p)) = p
         /\ \A i \in 1 .. Len(p) : W[i] = p[i] /\ p[i] \in Range(p)
<1> DEFINE k == Len(p)
<1>1. /\ Link(p, q) \in Path /\ Len(Link(p, q)) = Len(p) + Len(q) - 1
      /\ \A i \in 1 .. Len(p) : Link(p, q)[i] = p[i]
      /\ Len(p) \in Nat \ {0} /\ Len(q) \in Nat \ {0}
  BY LinkFacts
<1>2. W \in Path /\ k \in 1 .. Len(W) /\ k \in Nat \ {0} /\ Len(W) \in Nat /\ \A i \in 1 .. k : W[i] = p[i]
  BY <1>1 DEF Path
<1>3. SubSeq(W, 1, k) = p
  BY <1>2, SubSeqProperties, SeqEqual DEF Path
<1>4. W[k] = Last(p)
  BY <1>2 DEF Last
<1>5. \A i \in 1 .. k : p[i] \in Range(p)
  BY <1>2 DEF Path, Range
<1>6. QED
  BY <1>2, <1>3, <1>4, <1>5

\* The forest stands still while odd nodes are only looked for.
LEMMA TransformViews ==
  ASSUME Sound, Thorough, TransformStill, UNCHANGED <<is_even, path_table, queue>>,
         Works' \subseteq Works, \A y \in Turning : y \in Turning' \/ is_even[y] = 1
  PROVE  Thorough'
<1>1. phase = "transform" /\ phase' = "transform"
  BY DEF TransformStill
<1>2. UNCHANGED <<adj, is_even, belongs, path_table, queue, M, exhausted, engine>>
  BY DEF TransformStill, hostVars
<1>3. StateTyped /\ ForestTypeOK
  BY TypeParts DEF Sound, StateTyped
<1>4. EvenNodes' = EvenNodes /\ EvenNodes \subseteq Node
  BY <1>2 DEF EvenNodes, EvenNode
<1>5. Brighter
  <2>1. \A y \in Node : Bright(y, Turning) => Bright(y, Turning)'
    BY <1>2 DEF Bright
  <2>2. QED
    BY <1>2, <1>3, <1>4, <2>1 DEF Brighter, ForestTypeOK
<1>6. MatesSettled
  BY <1>1, <1>3, GrownSettled, SettledMates DEF Thorough, ForestTypeOK
<1>7. Turns' \subseteq Turns
  BY <1>1, <1>2 DEF Turns
<1>8. MatesMerged'
  <2>1. \A x \in Node : OddNode(x)' => M'[x] \in EvenNodes'
    BY <1>2, <1>4, <1>6 DEF MatesSettled, OddNode
  <2>2. ASSUME NEW x \in EvenNodes', NEW y \in EvenNodes', M'[x] = y PROVE Merged(x, y, Turning)'
    <3>1. x \in EvenNodes /\ y \in EvenNodes /\ Merged(x, y, Turning)
      BY <1>2, <1>4, <1>6, <2>2 DEF MatesSettled
    <3>2. QED
      BY <1>5, <3>1, MergedStays
  <2>3. ASSUME NEW work \in Turns', NEW y \in EvenNodes', M'[work[1]] = y
        PROVE  Reaches(y, Last(work), Turning)'
    <3>1. y \in EvenNodes /\ Reaches(y, Last(work), Turning)
      BY <1>2, <1>4, <1>6, <1>7, <2>3 DEF MatesSettled
    <3>2. QED
      BY <1>5, <3>1, ReachesStays
  <2>4. QED
    BY <2>1, <2>2, <2>3 DEF MatesMerged
<1>9. QueueTyped(queue) /\ \A x \in Range(Slots) : EvenNode(x)
  BY <1>1, <1>3 DEF Sound, QueueSound, StateTyped, QueueTyped
<1>10. Searched'
  <2>1. PICK b1, b2, e : b1 = queue.b1 /\ b2 = queue.b2 /\ e = End(queue)
    OBVIOUS
  <2>2. queue'.b1 = b1 /\ queue'.b2 = b2 /\ End(queue)' = e
    BY <1>2, <2>1 DEF End
  <2>3. EvenNodes \subseteq Passed(e) /\ Unbridged(b1) /\ LeadOn(b1) /\ (Tame => Shrunk(b2))
    BY <1>1, <2>1 DEF Thorough, Searched
  <2>4. \A n : Passed(n)' = Passed(n)
    BY <1>2 DEF Passed
  <2>5. EvenNodes' \subseteq Passed(e)' /\ Unbridged(b1)' /\ LeadOn(b1)'
    BY <1>2, <1>4, <2>3, <2>4 DEF Unbridged, LeadOn
  <2>6. Passed(b2) \subseteq EvenNodes
    <3>1. b2 \in Nat /\ b2 <= e
      <4>1. queue.b2 \in Nat /\ queue.e1 \in Nat /\ queue.e2 \in Nat /\ queue.b2 <= queue.e2
        BY <1>9, NodesAssumption DEF QueueTyped, Sound, QueueSound
      <4>2. QED
        BY <2>1, <4>1 DEF End
    <3>2. QED
      BY <1>9, <2>1, <3>1, PassedEven
  <2>7. Shrunk(b2) => Shrunk(b2)'
    BY <1>2, <1>5, <2>4, <2>6, PassedViews
  <2>8. Tame' <=> Tame
    BY <1>2 DEF Tame
  <2>9. exhausted' = exhausted /\ ~exhausted
    BY <1>1, <1>2 DEF Thorough, Searched
  <2>10. QED
    BY <1>1, <2>2, <2>3, <2>5, <2>7, <2>8, <2>9 DEF Searched
<1>11. RaceWon' /\ Heading'
  BY <1>1 DEF RaceWon, Heading
<1>12. QED
  BY <1>8, <1>10, <1>11 DEF Thorough

\* SeeOdd: who leaves an odd node alone finds it even;
LEMMA SeeOddThorough ==
  ASSUME Sound, Thorough, TransformStill, SeeOdd
  PROVE  Thorough'
<1>1. phase = "transform" /\ phase' = "transform" /\ UNCHANGED <<is_even, path_table, queue>>
  BY DEF TransformStill, SeeOdd
<1>2. PICK t \in Ready :
        Turn(t, IF is_even[t.work[1]] = 0 /\ path_table[t.work[1]] = <<>> THEN Goto(t, "claim") ELSE {})
  BY DEF SeeOdd
<1>3. t.work \in Works
  BY ReadyFacts DEF Sound
<1>4. PICK o, T : /\ o = t.work[1]
                  /\ T = IF is_even[o] = 0 /\ path_table[o] = <<>> THEN Goto(t, "claim") ELSE {}
  OBVIOUS
<1>5. o \in Node /\ (is_even[o] = 0 \/ is_even[o] = 1)
  <2>1. OddWork(t.work) /\ is_even \in [Node -> {0, 1}]
    BY <1>1, <1>3, OddAt, TypeParts DEF Sound, StateTyped, ForestTypeOK
  <2>2. QED
    BY <1>4, <2>1 DEF OddWork
<1>6. Turn(t, T) /\ (\A n \in T : n.work = t.work) /\ (T # {} \/ is_even[o] = 1)
  <2>1. Turn(t, T)
    BY <1>2, <1>4
  <2>2. \A n \in Goto(t, "claim") : n.work = t.work
    BY DEF Goto, Tasklet
  <2>3. Goto(t, "claim") # {}
    BY DEF Goto
  <2>4. is_even[o] = 0 => path_table[o] = <<>>
    BY <1>5 DEF Sound, EntriesSound, OddsBare
  <2>5. QED
    BY <1>4, <1>5, <2>1, <2>2, <2>3, <2>4
<1>7. Works' \subseteq Works /\ Works \subseteq Works' \cup {t.work} /\ \A n \in T : n.work \in Works'
  BY <1>3, <1>6, WorksAfter
<1>8. \A y \in Turning : y \in Turning' \/ is_even[y] = 1
  <2>1. SUFFICES ASSUME NEW work \in Works PROVE work[1] \in Turning' \/ is_even[work[1]] = 1
    BY <1>1 DEF Turning
  <2>2. work \in Works' \/ (work = t.work /\ T = {})
    BY <1>6, <1>7
  <2>3. QED
    BY <1>1, <1>4, <1>6, <2>2 DEF Turning
<1>9. QED
  BY <1>1, <1>7, <1>8, TransformViews

\* A legal turn has no node twice.
LEMMA TurnsOnce ==
  ASSUME Sound, phase = "transform", NEW work \in Works, is_even[work[1]] = 0
  PROVE  IsInjective(Tail(work))
<1>1. OddWork(work) /\ TurnLegal(work)
  BY OddAt
<1>2. PICK q : q = Walk(path_table, Last(work))
  OBVIOUS
<1>3. q \in Path /\ q[1] = Last(work) /\ work \in Path
  <2>1. path_table \in [Node -> Seq(Node)]
    BY TypeParts DEF Sound, StateTyped, ForestTypeOK
  <2>2. Last(work) \in Node
    BY <1>1 DEF TurnLegal, EvenNodes
  <2>3. QED
    BY <1>1, <1>2, <2>1, <2>2, WalkType DEF OddWork
<1>4. IsInjective(Link(work, q)) /\ Link(work, q) \in Seq(Node)
  BY <1>1, <1>2 DEF TurnLegal, WalkOf, IsEvenWalk
<1>5. /\ Len(Link(work, q)) = Len(work) + Len(q) - 1
      /\ \A i \in 1 .. Len(work) : Link(work, q)[i] = work[i]
      /\ Len(work) \in Nat /\ Len(q) \in Nat /\ Len(q) > 0
  BY <1>3, LinkFacts
<1>6. IsInjective(work)
  <2>1. DOMAIN work = 1 .. Len(work) /\ DOMAIN Link(work, q) = 1 .. Len(Link(work, q))
    BY <1>3, <1>4, LenProperties DEF Path
  <2>2. \A i \in 1 .. Len(work) : i \in 1 .. Len(Link(work, q))
    BY <1>5
  <2>3. QED
    BY <1>4, <1>5, <2>1, <2>2 DEF IsInjective
<1>7. QED
  BY <1>1, <1>6 DEF OddWork

\* ClaimOdd: or about to be made even by another tasklet;
LEMMA ClaimOddThorough ==
  ASSUME Sound, Thorough, TransformStill, ClaimOdd
  PROVE  Thorough'
<1>1. phase = "transform" /\ phase' = "transform" /\ UNCHANGED <<is_even, path_table, queue>>
  BY DEF TransformStill, ClaimOdd
<1>2. PICK t \in At("claim") :
        Turn(t, IF atomic_locks_odd_nodes[t.work[1]] = 0 /\ IsInjective(Tail(t.work))
                THEN Goto(t, "fill") ELSE {})
  BY DEF ClaimOdd
<1>3. t.work \in Works /\ t \in running /\ t.at = "claim"
  BY AtFacts
<1>4. PICK o, T : /\ o = t.work[1]
                  /\ T = IF atomic_locks_odd_nodes[o] = 0 /\ IsInjective(Tail(t.work))
                         THEN Goto(t, "fill") ELSE {}
  OBVIOUS
<1>5. Turn(t, T) /\ (\A n \in T : n.work = t.work)
  <2>1. \A n \in Goto(t, "fill") : n.work = t.work
    BY DEF Goto, Tasklet
  <2>2. QED
    BY <1>2, <1>4, <2>1
<1>6. /\ Works' \subseteq Works /\ Works \subseteq Works' \cup {t.work}
      /\ \A n \in T : n.work \in Works'
      /\ \A u \in running : u # t => u.work \in Works'
  BY <1>3, <1>5, WorksAfter
<1>7. o \in Turning' \/ is_even[o] = 1
  <2>1. CASE T # {}
    <3>1. t.work \in Works'
      BY <1>5, <1>6, <2>1
    <3>2. QED
      BY <1>1, <1>4, <3>1 DEF Turning
  <2>2. CASE is_even[o] = 0 /\ T = {}
    <3>1. IsInjective(Tail(t.work))
      BY <1>1, <1>3, <1>4, <2>2, TurnsOnce
    <3>2. Goto(t, "fill") # {}
      BY DEF Goto
    <3>3. o \in Node /\ atomic_locks_odd_nodes \in [Node -> {0, 1}]
      BY <1>1, <1>3, <1>4, OddAt, TypeParts DEF Sound, StateTyped, OddWork
    <3>4. atomic_locks_odd_nodes[o] = 1
      BY <1>4, <2>2, <3>1, <3>2, <3>3
    <3>5. PICK u \in At("fill") : u.work[1] = o
      BY <1>1, <2>2, <3>3, <3>4 DEF Sound, OddsSound
    <3>6. u \in running /\ u # t
      BY <1>3, <3>5 DEF At
    <3>7. u.work \in Works'
      BY <1>6, <3>6
    <3>8. QED
      BY <1>1, <3>5, <3>7 DEF Turning
  <2>3. is_even[o] = 0 \/ is_even[o] = 1
    <3>1. o \in Node /\ is_even \in [Node -> {0, 1}]
      BY <1>1, <1>3, <1>4, OddAt, TypeParts DEF Sound, StateTyped, ForestTypeOK, OddWork
    <3>2. QED
      BY <3>1
  <2>4. QED
    BY <2>1, <2>2, <2>3
<1>8. \A y \in Turning : y \in Turning' \/ is_even[y] = 1
  <2>1. SUFFICES ASSUME NEW work \in Works PROVE work[1] \in Turning' \/ is_even[work[1]] = 1
    BY <1>1 DEF Turning
  <2>2. work \in Works' \/ work = t.work
    BY <1>6
  <2>3. CASE work \in Works'
    BY <1>1, <2>3 DEF Turning
  <2>4. QED
    BY <1>4, <1>7, <2>2, <2>3
<1>9. QED
  BY <1>1, <1>6, <1>8, TransformViews

\* The odd node that has become even comes to where its entry ends.
LEMMA TurnedReaches ==
  ASSUME ForestTypeOK, NEW work, OddWork(work), TurnLegal(work), WellTurned(work),
         \A x \in Range(work) : Bright(x, Turning)'
  PROVE  Reaches(work[1], Last(work), Turning)'
<1>1. PICK o, z, q, W : /\ o = work[1] /\ z = Last(work)
                        /\ q = Walk(path_table, z) /\ W = Walk(path_table', o)
  OBVIOUS
<1>2. /\ z \in EvenNodes /\ z \in EvenNodes' /\ work \in Path
      /\ Walk(path_table', z) = q /\ W = Link(work, q) /\ path_table \in [Node -> Seq(Node)]
  BY <1>1 DEF WellTurned, TurnLegal, OddWork, ForestTypeOK, WalkOf
<1>3. q \in Path /\ q[1] = z
  <2>1. z \in Node
    BY <1>2 DEF EvenNodes
  <2>2. QED
    BY <1>1, <1>2, <2>1, WalkType
<1>4. PICK k : k = Len(work)
  OBVIOUS
<1>5. /\ k \in 1 .. Len(W) /\ W[k] = z /\ SubSeq(W, 1, k) = work
      /\ \A i \in 1 .. k : W[i] \in Range(work)
  <2>1. Last(work) = q[1]
    BY <1>1, <1>3
  <2>2. /\ Len(work) \in 1 .. Len(W) /\ W[Len(work)] = Last(work) /\ SubSeq(W, 1, Len(work)) = work
        /\ \A i \in 1 .. Len(work) : W[i] = work[i] /\ work[i] \in Range(work)
    BY <1>2, <1>3, <2>1, LinkFront
  <2>3. QED
    BY <1>1, <1>4, <2>2
<1>6. \A i \in 1 .. k : Bright(W[i], Turning)'
  BY <1>5 DEF Bright
<1>7. W = Link(SubSeq(W, 1, k), q)
  BY <1>2, <1>5
<1>8. PICK T : T = Turning'
  OBVIOUS
<1>9. \A i \in 1 .. k : is_even'[W[i]] = 1 \/ W[i] \in T
  BY <1>6, <1>8 DEF Bright
<1>10. /\ z \in EvenNodes'
       /\ \E j \in 1 .. Len(W) : /\ W[j] = z
                                 /\ W = Link(SubSeq(W, 1, j), Walk(path_table', z))
                                 /\ \A i \in 1 .. j : is_even'[W[i]] = 1 \/ W[i] \in T
  BY <1>2, <1>5, <1>7, <1>9
<1>11. QED
  BY <1>1, <1>8, <1>10 DEF Reaches, Bright

\* FillOdd: it is of its mate's blossom, which comes to the same base.
LEMMA FillOddThorough ==
  ASSUME Sound, Thorough, TransformStill, FillOdd
  PROVE  Thorough'
<1>0. /\ phase = "transform" /\ phase' = "transform" /\ M' = M /\ adj' = adj /\ belongs' = belongs
      /\ engine' = engine /\ exhausted' = exhausted
  BY DEF TransformStill, hostVars, FillOdd
<1>1. PICK t, work, o :
        /\ t \in At("fill") /\ work = t.work /\ o = work[1]
        /\ path_table' = [path_table EXCEPT ![o] = Tail(work)]
        /\ is_even' = [is_even EXCEPT ![o] = 1]
        /\ queue' = AppendENode2(queue, o)
        /\ Turn(t, {})
  BY DEF FillOdd
<1>2. /\ work \in Works /\ OddWork(work) /\ is_even[work[1]] = 0 /\ TurnLegal(work)
      /\ work \in Turns /\ \A x \in Range(work) : is_even[x] = 1 \/ x \in Turning
  <2>1. work \in Works
    BY <1>1 DEF At, Works
  <2>2. is_even[work[1]] = 0
    BY <1>0, <1>1 DEF Sound, OddsSound
  <2>3. QED
    BY <1>0, <2>1, <2>2, OddAt
<1>3. Settled
  BY <1>0, GrownSettled
<1>4. /\ StateTyped /\ ForestTypeOK /\ EntriesLong(path_table) /\ LinksEven
  <2>1. StateTyped
    BY TypeParts DEF Sound
  <2>2. QED
    BY <2>1 DEF Sound, StateTyped, EntriesSound
<1>5. WellTurned(work)
  <2>1. Turned(work)
    BY <1>0, <1>1 DEF Turned
  <2>2. QED
    BY <1>2, <1>3, <1>4, <2>1, TurnWalks
<1>6. /\ EvenNodes' = EvenNodes \cup {o} /\ EvenNodes \subseteq Node
      /\ \A y \in EvenNodes : Walk(path_table', y) = Walk(path_table, y)
      /\ \A y \in Node : y # o => is_even'[y] = is_even[y]
      /\ is_even'[o] = 1 /\ o \in Node /\ o \notin EvenNodes /\ belongs[o] # NoNode /\ is_even[o] = 0
  BY <1>1, <1>2, <1>5 DEF WellTurned, EvenNodes
<1>7. Works' \subseteq Works /\ Works \subseteq Works' \cup {work}
  <2>1. \A n \in {} : n.work = t.work
    OBVIOUS
  <2>2. QED
    BY <1>1, <1>2, <2>1, WorksAfter
<1>8. \A y \in Node : Bright(y, Turning) => Bright(y, Turning)'
  <2>1. PICK T1, T2 : T1 = Turning' /\ T2 = Turning
    OBVIOUS
  <2>2. \A y \in T2 : y \in T1 \/ y = o
    BY <1>0, <1>1, <1>7, <2>1 DEF Turning
  <2>3. \A y \in Node : Bright(y, T2) => Bright(y, T1)'
    BY <1>6, <2>2 DEF Bright
  <2>4. QED
    BY <2>1, <2>3
<1>9. Brighter
  BY <1>4, <1>6, <1>8 DEF Brighter, ForestTypeOK
<1>10. Turns' \subseteq Turns
  <2>1. SUFFICES ASSUME NEW u \in Works', is_even'[u[1]] = 0 PROVE u \in Turns
    BY <1>0 DEF Turns
  <2>2. u \in Works /\ u[1] \in Node
    BY <1>0, <1>7, OddAt DEF OddWork
  <2>3. QED
    BY <1>0, <1>6, <2>1, <2>2 DEF Turns
<1>11. MatesSettled
  BY <1>0, <1>3, <1>4, SettledMates DEF Thorough, ForestTypeOK
<1>12. \A y \in Node : M[y] # NoNode => M[y] \in Node /\ M[M[y]] = y
  BY <1>3, <1>4 DEF Settled, ForestTypeOK
<1>13. M[o] \in EvenNodes
  BY <1>6, <1>11 DEF MatesSettled, OddNode
<1>14. PICK z : z = Last(work)
  OBVIOUS
<1>15. Reaches(M[o], z, Turning)'
  <2>1. Reaches(M[o], z, Turning)
    BY <1>1, <1>2, <1>11, <1>13, <1>14 DEF MatesSettled
  <2>2. \A y \in EvenNodes : Reaches(y, z, Turning) => Reaches(y, z, Turning)'
    BY <1>9, ReachesStays
  <2>3. PICK y \in EvenNodes : y = M[o]
    BY <1>13
  <2>4. Reaches(y, z, Turning)'
    BY <2>1, <2>2, <2>3
  <2>5. QED
    BY <1>0, <2>3, <2>4
<1>16. Reaches(o, z, Turning)'
  <2>1. \A x \in Range(work) : Bright(x, Turning)'
    <3>1. Range(work) \subseteq Node
      <4>1. work \in Seq(Node)
        BY <1>2 DEF OddWork, Path
      <4>2. QED
        BY <4>1, ElementOfSeq, LenProperties DEF Range
    <3>2. QED
      BY <1>2, <1>8, <3>1 DEF Bright
  <2>2. Reaches(work[1], Last(work), Turning)'
    BY <1>2, <1>4, <1>5, <2>1, TurnedReaches
  <2>3. QED
    BY <1>1, <1>14, <2>2
<1>17. PICK m : m = M[o]
  OBVIOUS
<1>18. Merged(o, m, Turning)' /\ Merged(m, o, Turning)' /\ m # o /\ m \in EvenNodes /\ M[m] = o
  <2>1. z \in EvenNodes'
    BY <1>2, <1>6, <1>14 DEF TurnLegal
  <2>2. Reaches(m, z, Turning)'
    BY <1>0, <1>15, <1>17
  <2>3. Merged(o, m, Turning)' /\ Merged(m, o, Turning)'
    BY <1>16, <2>1, <2>2 DEF Merged
  <2>4. m \in Node
    BY <1>6, <1>13, <1>17
  <2>5. M[o] # NoNode
    BY <1>17, <2>4 DEF Node, NoNode
  <2>6. QED
    BY <1>6, <1>12, <1>13, <1>17, <2>3, <2>5
<1>19. MatesMerged'
  <2>1. \A y \in Node : OddNode(y)' => M'[y] \in EvenNodes'
    BY <1>0, <1>6, <1>11 DEF OddNode, MatesSettled
  <2>2. ASSUME NEW x \in EvenNodes', NEW y \in EvenNodes', M'[x] = y PROVE Merged(x, y, Turning)'
    <3>1. CASE x = o
      BY <1>0, <1>17, <1>18, <2>2, <3>1
    <3>2. CASE y = o
      <4>1. x \in Node /\ M[x] = o /\ o # NoNode
        BY <1>0, <1>6, <2>2, <3>2 DEF Node, NoNode
      <4>2. x = m
        BY <1>12, <1>17, <4>1
      <4>3. QED
        BY <1>18, <3>2, <4>2
    <3>3. CASE x # o /\ y # o
      <4>1. x \in EvenNodes /\ y \in EvenNodes /\ Merged(x, y, Turning)
        BY <1>0, <1>6, <1>11, <2>2, <3>3 DEF MatesSettled
      <4>2. QED
        BY <1>9, <4>1, MergedStays
    <3>4. QED
      BY <3>1, <3>2, <3>3
  <2>3. ASSUME NEW u \in Turns', NEW y \in EvenNodes', M'[u[1]] = y
        PROVE  Reaches(y, Last(u), Turning)'
    <3>1. u \in Turns /\ u[1] \in Node /\ is_even'[u[1]] = 0
      BY <1>0, <1>7, <1>10, OddAt DEF OddWork, Turns
    <3>2. y # o
      <4>1. CASE y = o
        <5>1. M[u[1]] = o /\ o # NoNode
          BY <1>0, <1>6, <2>3, <4>1 DEF Node, NoNode
        <5>2. u[1] = m
          BY <1>12, <1>17, <3>1, <5>1
        <5>3. u[1] \in EvenNodes
          BY <1>18, <5>2
        <5>4. is_even[u[1]] = 1 /\ u[1] # o
          BY <1>6, <5>3 DEF EvenNodes, EvenNode
        <5>5. QED
          BY <1>6, <3>1, <5>4
      <4>2. QED
        BY <4>1
    <3>3. y \in EvenNodes /\ Reaches(y, Last(u), Turning)
      BY <1>0, <1>6, <1>11, <2>3, <3>1, <3>2 DEF MatesSettled
    <3>4. QED
      BY <1>9, <3>3, ReachesStays
  <2>4. QED
    BY <2>1, <2>2, <2>3 DEF MatesMerged
<1>20. /\ IsInjective(Slots) /\ \A y \in Range(Slots) : EvenNode(y)
       /\ queue.b1 <= queue.e1 /\ queue.b2 <= queue.e2 /\ queue.b2 = queue.e1
  BY <1>0 DEF Sound, QueueSound
<1>21. QueueTyped(queue)
  BY <1>4 DEF StateTyped, QueueTyped
<1>22. /\ OneMore(o) /\ queue.e2 = End(queue)
       /\ queue'.b1 = queue.b1 /\ queue'.b2 = queue.b2
  BY <1>1, <1>6, <1>20, <1>21, AppendedSlots
<1>23. End(queue) < nodes
  <2>1. o \notin Range(Slots)
    BY <1>6, <1>20 DEF EvenNodes
  <2>2. QED
    BY <1>6, <1>20, <1>21, <1>22, <2>1, OneMoreSlot
<1>24. PICK b1, b2, e : b1 = queue.b1 /\ b2 = queue.b2 /\ e = End(queue)
  OBVIOUS
<1>25. b1 \in Nat /\ b2 \in Nat /\ e \in Nat /\ b1 <= e /\ b2 <= e /\ e <= nodes
  <2>1. /\ queue.b1 \in Nat /\ queue.b2 \in Nat /\ queue.e1 \in Nat /\ queue.e2 \in Nat
    BY <1>21, NodesAssumption DEF QueueTyped
  <2>2. QED
    BY <1>20, <1>21, <1>22, <1>24, <2>1, SlotsFacts
<1>26. /\ Passed(b1)' = Passed(b1) /\ Passed(b2)' = Passed(b2)
       /\ \A n : n = End(queue') => Passed(n)' = Passed(e) \cup {o}
  BY <1>6, <1>21, <1>22, <1>23, <1>24, <1>25, PassedOn
<1>27. Passed(b1) \subseteq EvenNodes /\ Passed(b2) \subseteq EvenNodes
  BY <1>20, <1>21, <1>24, <1>25, PassedEven
<1>28. Searched'
  <2>1. EvenNodes \subseteq Passed(e) /\ Unbridged(b1) /\ LeadOn(b1) /\ (Tame => Shrunk(b2))
    BY <1>0, <1>24 DEF Thorough, Searched
  <2>2. PICK n : n = End(queue')
    OBVIOUS
  <2>3. EvenNodes' \subseteq Passed(n)'
    BY <1>6, <1>26, <2>1, <2>2
  <2>4. Unbridged(b1)'
    BY <1>0, <1>9, <1>26, <1>27, <2>1, PassedViews
  <2>5. Shrunk(b2) => Shrunk(b2)'
    BY <1>0, <1>9, <1>26, <1>27, PassedViews
  <2>6. LeadOn(b1)'
    BY <1>0, <1>26, <2>1 DEF LeadOn
  <2>7. Tame' <=> Tame
    BY <1>0 DEF Tame
  <2>8. exhausted' = exhausted /\ ~exhausted
    BY <1>0 DEF Thorough, Searched
  <2>9. queue'.b1 = b1 /\ queue'.b2 = b2 /\ n = End(queue)'
    BY <1>22, <1>24, <2>2
  <2>10. QED
    BY <1>0, <2>1, <2>3, <2>4, <2>5, <2>6, <2>7, <2>8, <2>9 DEF Searched
<1>29. RaceWon' /\ Heading'
  BY <1>0 DEF RaceWon, Heading
<1>30. QED
  BY <1>19, <1>28, <1>29 DEF Thorough

\* Every step of the transform kernel keeps it.
LEMMA TransformThorough ==
  ASSUME Sound, Thorough, TransformTasklet
  PROVE  Thorough'
<1>1. TransformStill
  BY DEF TransformTasklet, TransformStill, hostVars
<1>2. QED
  BY <1>1, SeeOddThorough, ClaimOddThorough, FillOddThorough DEF TransformTasklet

=============================================================================
