------------------------ MODULE AugmentPerEdgeProofs ------------------------
(***************************************************************************)
(* What phase 1 of the edge-parallel engine guarantees for every number of *)
(* nodes and threads and every legal forest and edge list.                 *)
(*                                                                         *)
(* Walk is never expanded: LegalStart says all that is needed about the    *)
(* walks of even nodes, and the forest does not change in the phase.       *)
(***************************************************************************)
EXTENDS AugmentPerEdge, ForestLemmas

IInv ==
  /\ LegalStart
  /\ TypeOK
  /\ LocksInductive
  /\ PathsDisjoint

-----------------------------------------------------------------------------
\* The two trees of a bridge are two different nodes; the lock order names
\* one of them first.
LEMMA BridgeTrees ==
  ASSUME LegalStart, NEW e \in Range(edges), IsBridge(e[1], e[2])
  PROVE  /\ e \in Node \X Node
         /\ belongs[e[1]] \in Node /\ belongs[e[2]] \in Node
         /\ FirstTree(e) \in Node /\ SecondTree(e) \in Node
         /\ FirstTree(e) < SecondTree(e)
         /\ {FirstTree(e), SecondTree(e)} = {belongs[e[1]], belongs[e[2]]}
<1>1. e \in Node \X Node
  BY RangeOfSeq DEF LegalStart
<1>2. e[1] \in Node /\ e[2] \in Node
  BY <1>1
<1>3. belongs[e[1]] \in Node /\ belongs[e[2]] \in Node /\ belongs[e[1]] # belongs[e[2]]
  BY <1>2 DEF LegalStart, ForestTypeOK, IsBridge
<1>4. belongs[e[1]] \in Int /\ belongs[e[2]] \in Int
  BY <1>3, NodesAssumption DEF Node
<1>5. QED
  BY <1>1, <1>3, <1>4 DEF FirstTree, SecondTree, TreeOf

\* An even node's walk is a simple path inside its tree that reaches the root.
LEMMA WalkInTree ==
  ASSUME LegalStart, NEW v \in Node, is_even[v] = 1, belongs[v] # NoNode
  PROVE  /\ Walk(path_table, v) \in Seq(Node)
         /\ IsInjective(Walk(path_table, v))
         /\ \A x \in Range(Walk(path_table, v)) : belongs[x] = belongs[v]
         /\ belongs[v] \in Range(Walk(path_table, v))
<1> DEFINE p == Walk(path_table, v)
<1>1. EvenWalkLegal(v)
  BY DEF LegalStart, LegalForest
<1>2. /\ p \in Seq(Node)
      /\ IsEvenWalk(adj, M, p)
      /\ Last(p) = belongs[v]
      /\ \A x \in Range(p) : belongs[x] = belongs[v]
  BY <1>1 DEF EvenWalkLegal
<1> HIDE DEF p
<1>3. IsInjective(p) /\ Len(p) % 2 = 1
  BY <1>2 DEF IsEvenWalk
<1>4. Len(p) \in Nat /\ DOMAIN p = 1 .. Len(p)
  BY <1>2, LenProperties
<1>5. Len(p) \in DOMAIN p
  BY <1>3, <1>4
<1>6. belongs[v] \in Range(p)
  BY <1>2, <1>5 DEF Last, Range
<1>7. QED  BY <1>2, <1>3, <1>6 DEF p

\* The path through a bridge is simple, lies in its two trees and touches
\* both of them.
LEMMA BridgePath ==
  ASSUME LegalStart, NEW e \in Range(edges), IsBridge(e[1], e[2])
  PROVE  LET p == JoinWalks(path_table, e[1], e[2])
         IN  /\ p \in Seq(Node)
             /\ p # <<>>
             /\ IsInjective(p)
             /\ Range(p) \subseteq Node
             /\ {belongs[x] : x \in Range(p)} = {FirstTree(e), SecondTree(e)}
<1> DEFINE pv == Walk(path_table, e[1])
           pw == Walk(path_table, e[2])
           p  == JoinWalks(path_table, e[1], e[2])
<1>1. e[1] \in Node /\ e[2] \in Node
  BY BridgeTrees
<1>2. /\ is_even[e[1]] = 1 /\ belongs[e[1]] # NoNode
      /\ is_even[e[2]] = 1 /\ belongs[e[2]] # NoNode
      /\ belongs[e[1]] # belongs[e[2]]
  BY DEF LegalStart, IsBridge
<1>3. /\ pv \in Seq(Node) /\ IsInjective(pv) /\ belongs[e[1]] \in Range(pv)
      /\ \A x \in Range(pv) : belongs[x] = belongs[e[1]]
  BY <1>1, <1>2, WalkInTree
<1>4. /\ pw \in Seq(Node) /\ IsInjective(pw) /\ belongs[e[2]] \in Range(pw)
      /\ \A x \in Range(pw) : belongs[x] = belongs[e[2]]
  BY <1>1, <1>2, WalkInTree
<1>5. p = Reverse(pv) \o pw
  BY DEF JoinWalks
<1> HIDE DEF pv, pw, p
<1>6. /\ Reverse(pv) \in Seq(Node)
      /\ Range(Reverse(pv)) = Range(pv)
      /\ IsInjective(Reverse(pv))
  BY <1>3, ReverseRange
<1>7. Range(pv) \cap Range(pw) = {}
  BY <1>2, <1>3, <1>4
<1>8. /\ p \in Seq(Node)
      /\ Range(p) = Range(pv) \cup Range(pw)
      /\ IsInjective(p)
  BY <1>4, <1>5, <1>6, <1>7, ConcatRange, ConcatInjective
<1>9. {belongs[x] : x \in Range(p)} = {belongs[e[1]], belongs[e[2]]}
  BY <1>3, <1>4, <1>8
<1>10. Range(p) \subseteq Node
  BY <1>8, RangeOfSeq
<1>11. p # <<>>
  <2>1. SUFFICES ASSUME p = <<>> PROVE FALSE
    OBVIOUS
  <2>2. Range(p) = {}
    BY <2>1 DEF Range
  <2>3. QED  BY <2>2, <1>3, <1>8
<1>12. {belongs[e[1]], belongs[e[2]]} = {FirstTree(e), SecondTree(e)}
  BY BridgeTrees
<1>13. QED  BY <1>8, <1>9, <1>10, <1>11, <1>12 DEF p

\* Thread t's next edge, when there is one, is an edge of the frontier.
LEMMA EdgeInFrontier ==
  ASSUME TypeOK, LocksInductive, NEW t \in Thread, todo[t] # <<>>
  PROVE  /\ Edge(t) \in Range(edges)
         /\ Tail(todo[t]) \in Seq(Node \X Node)
         /\ Range(Tail(todo[t])) \subseteq Range(edges)
<1>1. todo[t] \in Seq(Node \X Node)
  BY DEF TypeOK
<1>2. QED  BY <1>1, TailRange DEF LocksInductive, Edge

-----------------------------------------------------------------------------
\* Integer division, as the slices use it.
LEMMA DivBounds ==
  ASSUME NEW a \in Nat, NEW b \in Nat \ {0}
  PROVE  /\ a \div b \in Nat
         /\ (a \div b) * b <= a
         /\ a < (a \div b + 1) * b
<1>1. /\ a = (a \div b) * b + (a % b)
      /\ a % b \in 0 .. (b - 1)
      /\ a \div b \in Int
  OBVIOUS
<1>2. a \div b \in Nat
  OBVIOUS
<1>3. (a \div b + 1) * b = (a \div b) * b + b
  BY <1>1
<1>4. QED  BY <1>1, <1>2, <1>3

\* Where the i-th edge of the list is in the slice a+1 .. b.
LEMMA PlaceInSlice ==
  ASSUME NEW a \in Nat, NEW b \in Nat, NEW i \in Nat, a + 1 <= i, i <= b
  PROVE  /\ i - a \in 1 .. (b - (a + 1) + 1)
         /\ (a + 1) + (i - a) - 1 = i
OBVIOUS

\* A slice is a piece of the edge list.
LEMMA SliceInEdges ==
  ASSUME edges \in Seq(Node \X Node), NEW t \in Thread
  PROVE  /\ Slice(t) \in Seq(Node \X Node)
         /\ Range(Slice(t)) \subseteq Range(edges)
<1> DEFINE E == EdgesPerThread
           a == t * E
           b == IF Len(edges) <= (t + 1) * E THEN Len(edges) ELSE (t + 1) * E
<1>1. Len(edges) \in Nat /\ DOMAIN edges = 1 .. Len(edges)
  BY LenProperties
<1>2. NumThreads \in Nat \ {0} /\ t \in Nat
  BY ThreadAssumption DEF Thread
<1>3. E \in Nat
  BY <1>1, <1>2, DivBounds DEF EdgesPerThread
<1>4. Slice(t) = SubSeq(edges, a + 1, b)
  BY DEF Slice
<1> HIDE DEF E
<1>5. a \in Nat /\ (t + 1) * E \in Nat
  BY <1>2, <1>3
<1>6. b \in Nat /\ b <= Len(edges)
  BY <1>1, <1>5
<1> HIDE DEF a, b
<1>7. \A i \in (a + 1) .. b : i \in 1 .. Len(edges) /\ edges[i] \in Node \X Node
  BY <1>1, <1>5, <1>6, ElementOfSeq
<1>8. /\ SubSeq(edges, a + 1, b) \in Seq(Node \X Node)
      /\ Len(SubSeq(edges, a + 1, b)) = IF a + 1 <= b THEN b - (a + 1) + 1 ELSE 0
      /\ \A i \in 1 .. (b - (a + 1) + 1) :
           SubSeq(edges, a + 1, b)[i] = edges[(a + 1) + i - 1]
  BY <1>5, <1>6, <1>7, SubSeqProperties
<1>9. DOMAIN SubSeq(edges, a + 1, b) = 1 .. Len(SubSeq(edges, a + 1, b))
  BY <1>8, LenProperties
<1>10. ASSUME NEW i \in DOMAIN SubSeq(edges, a + 1, b)
       PROVE  SubSeq(edges, a + 1, b)[i] \in Range(edges)
  <2>1. /\ i \in 1 .. (b - (a + 1) + 1)
        /\ (a + 1) + i - 1 \in (a + 1) .. b
    BY <1>5, <1>6, <1>8, <1>9
  <2>2. QED  BY <2>1, <1>1, <1>7, <1>8 DEF Range
<1>11. QED  BY <1>4, <1>8, <1>10 DEF Range

\* No edge is left out: every edge is in the slice of some thread.
LEMMA SlicesCover ==
  ASSUME edges \in Seq(Node \X Node), NEW i \in DOMAIN edges
  PROVE  \E t \in Thread : edges[i] \in Range(Slice(t))
<1> DEFINE E == EdgesPerThread
           t == (i - 1) \div E
           a == t * E
           b == IF Len(edges) <= (t + 1) * E THEN Len(edges) ELSE (t + 1) * E
<1>1. Len(edges) \in Nat /\ DOMAIN edges = 1 .. Len(edges) /\ i \in 1 .. Len(edges)
  BY LenProperties
<1>2. NumThreads \in Nat \ {0}
  BY ThreadAssumption
<1>3. E \in Nat /\ Len(edges) + NumThreads - 1 < (E + 1) * NumThreads
  <2> DEFINE n == Len(edges) + NumThreads - 1
  <2>1. n \in Nat
    BY <1>1, <1>2
  <2>2. E = n \div NumThreads
    BY DEF EdgesPerThread
  <2> HIDE DEF n, E
  <2>3. n \div NumThreads \in Nat /\ n < (n \div NumThreads + 1) * NumThreads
    BY <2>1, <1>2, DivBounds
  <2>4. E \in Nat /\ n < (E + 1) * NumThreads
    BY <2>2, <2>3
  <2>5. QED  BY <2>4 DEF n
<1>4. Slice(t) = SubSeq(edges, a + 1, b)
  BY DEF Slice
<1> HIDE DEF E
<1>5. Len(edges) <= E * NumThreads
  <2>1. (E + 1) * NumThreads = E * NumThreads + NumThreads
    BY <1>2, <1>3
  <2>2. QED  BY <1>1, <1>2, <1>3, <2>1
<1>6. E # 0
  BY <1>1, <1>2, <1>5
<1>7. t \in Nat /\ a <= i - 1 /\ i - 1 < (t + 1) * E
  <2>1. i - 1 \in Nat /\ E \in Nat \ {0}
    BY <1>1, <1>3, <1>6
  <2>2. /\ (i - 1) \div E \in Nat
        /\ ((i - 1) \div E) * E <= i - 1
        /\ i - 1 < ((i - 1) \div E + 1) * E
    BY <2>1, DivBounds
  <2>3. QED  BY <2>2
<1>8. t < NumThreads
  <2>1. SUFFICES ASSUME t >= NumThreads PROVE FALSE
    BY <1>2, <1>7
  <2> HIDE DEF t
  <2>2. t * E >= NumThreads * E
    BY <2>1, <1>2, <1>3, <1>7
  <2>3. t * E <= i - 1
    BY <1>7
  <2>4. NumThreads * E = E * NumThreads /\ t * E \in Int /\ E * NumThreads \in Int
    BY <1>2, <1>3, <1>7
  <2>5. QED  BY <2>2, <2>3, <2>4, <1>1, <1>5
<1>9. t \in Thread
  BY <1>2, <1>7, <1>8 DEF Thread
<1> HIDE DEF t
<1>10. a \in Nat /\ (t + 1) * E \in Nat
  BY <1>3, <1>7
<1>11. b \in Nat /\ b <= Len(edges) /\ a + 1 <= i /\ i <= b
  BY <1>1, <1>7, <1>10
<1> HIDE DEF a, b
<1>12. \A j \in (a + 1) .. b : edges[j] \in Node \X Node
  BY <1>1, <1>10, <1>11, ElementOfSeq
<1>13. /\ SubSeq(edges, a + 1, b) \in Seq(Node \X Node)
       /\ Len(SubSeq(edges, a + 1, b)) = IF a + 1 <= b THEN b - (a + 1) + 1 ELSE 0
       /\ \A j \in 1 .. (b - (a + 1) + 1) :
            SubSeq(edges, a + 1, b)[j] = edges[(a + 1) + j - 1]
  BY <1>10, <1>11, <1>12, SubSeqProperties
<1>14. DOMAIN SubSeq(edges, a + 1, b) = 1 .. (b - (a + 1) + 1)
  BY <1>10, <1>11, <1>13, LenProperties
<1>15. /\ i - a \in 1 .. (b - (a + 1) + 1)
       /\ (a + 1) + (i - a) - 1 = i
  <2>1. a \in Nat /\ b \in Nat /\ i \in Nat /\ a + 1 <= i /\ i <= b
    BY <1>1, <1>10, <1>11
  <2>2. QED  BY <2>1, PlaceInSlice
<1>16. SubSeq(edges, a + 1, b)[i - a] = edges[i]
  BY <1>13, <1>15
<1>17. edges[i] \in Range(Slice(t))
  BY <1>4, <1>14, <1>15, <1>16 DEF Range
<1>18. QED  BY <1>9, <1>17

-----------------------------------------------------------------------------
\* The phase neither writes the forest nor the edge list.
LEMMA ForestFrozen ==
  ASSUME LegalStart, UNCHANGED <<forestVars, edges>>
  PROVE  /\ LegalStart'
         /\ belongs' = belongs /\ edges' = edges
         /\ \A e : /\ FirstTree(e)' = FirstTree(e)
                   /\ SecondTree(e)' = SecondTree(e)
                   /\ IsBridge(e[1], e[2])' = IsBridge(e[1], e[2])
<1>1. /\ adj' = adj /\ M' = M /\ is_even' = is_even /\ belongs' = belongs
      /\ path_table' = path_table /\ edges' = edges
  BY DEF forestVars
<1>2. LegalStart'
  BY <1>1 DEF LegalStart, ForestTypeOK, LegalForest, EvenWalkLegal
<1>3. QED  BY <1>1, <1>2 DEF FirstTree, SecondTree, TreeOf, IsBridge

\* Steps that touch no path leave the paths disjoint.
LEMMA PathsUntouched ==
  ASSUME PathsDisjoint, UNCHANGED <<local_path, path_collection>>
  PROVE  OnPath' = OnPath /\ PathsDisjoint'
BY DEF OnPath, PathsDisjoint

\* Leaving an edge changes nothing for the other threads.
LEMMA NextEdgeFrame ==
  ASSUME TypeOK, NEW t \in Thread, NextEdge(t)
  PROVE  /\ ~HoldsFirst(t)'
         /\ todo'[t] = Tail(todo[t])
         /\ \A u \in Thread \ {t} :
              /\ HoldsFirst(u)' = HoldsFirst(u)
              /\ Edge(u)' = Edge(u)
              /\ todo'[u] = todo[u]
BY DEF TypeOK, NextEdge, HoldsFirst, Edge

\* The type invariant holds along a step that leaves an edge.
LEMMA NextEdgeType ==
  ASSUME TypeOK, LocksInductive, NEW t \in Thread, todo[t] # <<>>, NextEdge(t)
  PROVE  /\ pc' \in [Thread -> {"scan", "second", "release", "done"}]
         /\ todo' \in [Thread -> Seq(Node \X Node)]
         /\ \A u \in Thread : Range(todo'[u]) \subseteq Range(edges)
<1>1. Tail(todo[t]) \in Seq(Node \X Node) /\ Range(Tail(todo[t])) \subseteq Range(edges)
  BY EdgeInFrontier
<1>2. QED  BY <1>1 DEF TypeOK, NextEdge, LocksInductive

-----------------------------------------------------------------------------
\* What a thread between its two CAS may rely on.
LEMMA Held ==
  ASSUME IInv, NEW t \in Thread, HoldsFirst(t)
  PROVE  /\ todo[t] # <<>>
         /\ Edge(t) \in Range(edges)
         /\ IsBridge(Edge(t)[1], Edge(t)[2])
         /\ FirstTree(Edge(t)) \in Node /\ SecondTree(Edge(t)) \in Node
         /\ FirstTree(Edge(t)) # SecondTree(Edge(t))
         /\ select_tree[FirstTree(Edge(t))] = 1
         /\ \A x \in OnPath : belongs[x] # FirstTree(Edge(t))
         /\ \A u \in Thread : u # t /\ HoldsFirst(u) =>
              FirstTree(Edge(u)) # FirstTree(Edge(t))
<1>1. /\ todo[t] # <<>>
      /\ IsBridge(Edge(t)[1], Edge(t)[2])
      /\ select_tree[FirstTree(Edge(t))] = 1
      /\ \A x \in OnPath : belongs[x] # FirstTree(Edge(t))
      /\ \A u \in Thread : u # t /\ HoldsFirst(u) =>
           FirstTree(Edge(u)) # FirstTree(Edge(t))
  BY DEF IInv, LocksInductive
<1>2. Edge(t) \in Range(edges)
  BY <1>1, EdgeInFrontier DEF IInv
<1>3. /\ FirstTree(Edge(t)) \in Node /\ SecondTree(Edge(t)) \in Node
      /\ FirstTree(Edge(t)) < SecondTree(Edge(t))
  BY <1>1, <1>2, BridgeTrees DEF IInv
<1>4. FirstTree(Edge(t)) # SecondTree(Edge(t))
  BY <1>3, NodesAssumption DEF Node
<1>5. QED  BY <1>1, <1>2, <1>3, <1>4

\* The invariant holds when the workers start.
LEMMA InitEstablishes == Init => IInv
<1> SUFFICES ASSUME Init PROVE IInv
  OBVIOUS
<1>1. LegalStart /\ edges \in Seq(Node \X Node)
  BY DEF Init, LegalStart
<1>2. \A t \in Thread : /\ Slice(t) \in Seq(Node \X Node)
                        /\ Range(Slice(t)) \subseteq Range(edges)
  BY <1>1, SliceInEdges
<1>3. TypeOK
  BY <1>1, <1>2 DEF Init, LegalStart, TypeOK
<1>4. Range(<<>>) = {} /\ IsInjective(<<>>)
  BY DEF Range, IsInjective
<1>5. OnPath = {}
  BY <1>4 DEF OnPath, Init
<1>6. LocksInductive
  BY <1>2, <1>5 DEF Init, LocksInductive, HoldsFirst
<1>7. PathsDisjoint
  BY <1>4 DEF Init, PathsDisjoint
<1>8. QED  BY <1>1, <1>3, <1>6, <1>7 DEF IInv

\* Giving an edge up, after no CAS or after a lost first one.
LEMMA GiveUpPreserves ==
  ASSUME IInv, NEW t \in Thread, pc[t] = "scan", todo[t] # <<>>, NextEdge(t),
         UNCHANGED <<forestVars, edges, select_tree, path_collection, local_path>>
  PROVE  IInv'
<1>1. LegalStart' /\ belongs' = belongs /\ edges' = edges
  BY ForestFrozen DEF IInv
<1>2. OnPath' = OnPath /\ PathsDisjoint'
  BY PathsUntouched DEF IInv
<1>3. /\ pc' \in [Thread -> {"scan", "second", "release", "done"}]
      /\ todo' \in [Thread -> Seq(Node \X Node)]
      /\ \A u \in Thread : Range(todo'[u]) \subseteq Range(edges)
  BY NextEdgeType DEF IInv
<1>4. TypeOK'
  BY <1>1, <1>3 DEF IInv, TypeOK, LegalStart
<1>5. \A u \in Thread : HoldsFirst(u)' =>
        u # t /\ HoldsFirst(u) /\ Edge(u)' = Edge(u) /\ todo'[u] = todo[u]
  BY NextEdgeFrame DEF IInv
<1>6. \A u \in Thread : HoldsFirst(u)' =>
        /\ FirstTree(Edge(u))' = FirstTree(Edge(u))
        /\ IsBridge(Edge(u)[1], Edge(u)[2])' = IsBridge(Edge(u)[1], Edge(u)[2])
  BY <1>1, <1>5 DEF FirstTree, TreeOf, IsBridge, forestVars
<1>7. LocksInductive'
  BY <1>1, <1>2, <1>3, <1>5, <1>6 DEF IInv, LocksInductive
<1>8. QED  BY <1>1, <1>2, <1>4, <1>7 DEF IInv

\* The first CAS succeeds on an unlocked tree: nobody else holds it, and no
\* path runs through it.
LEMMA LockFirstPreserves ==
  ASSUME IInv, NEW t \in Thread, LockFirst(t), UNCHANGED <<forestVars, edges>>
  PROVE  IInv'
<1> DEFINE r == FirstTree(Edge(t))
<1>1. LegalStart' /\ belongs' = belongs /\ edges' = edges
  BY ForestFrozen DEF IInv
<1>2. /\ pc[t] = "scan" /\ todo[t] # <<>>
      /\ IsBridge(Edge(t)[1], Edge(t)[2])
      /\ select_tree[r] = 0
      /\ select_tree' = [select_tree EXCEPT ![r] = 1]
      /\ pc' = [pc EXCEPT ![t] = "second"]
      /\ UNCHANGED <<path_collection, todo, local_path>>
  BY DEF LockFirst
<1>3. r \in Node
  BY <1>2, EdgeInFrontier, BridgeTrees DEF IInv
<1>4. OnPath' = OnPath /\ PathsDisjoint'
  BY <1>2, PathsUntouched DEF IInv
<1>5. TypeOK'
  BY <1>1, <1>2, <1>3 DEF IInv, TypeOK, LegalStart
<1>6. \A u \in Thread : /\ Edge(u)' = Edge(u)
                        /\ FirstTree(Edge(u))' = FirstTree(Edge(u))
                        /\ IsBridge(Edge(u)[1], Edge(u)[2])' = IsBridge(Edge(u)[1], Edge(u)[2])
  BY <1>1, <1>2 DEF Edge, FirstTree, TreeOf, IsBridge, forestVars
<1> HIDE DEF r
<1>7. \A u \in Thread : HoldsFirst(u)' => u = t \/ HoldsFirst(u)
  BY <1>2 DEF IInv, TypeOK, HoldsFirst
<1>8. \A x \in Node : select_tree[x] = 1 => x # r /\ select_tree'[x] = 1
  BY <1>2 DEF IInv, TypeOK
<1>9. select_tree'[r] = 1
  BY <1>2, <1>3 DEF IInv, TypeOK
<1>10. \A u \in Thread : HoldsFirst(u) =>
         /\ todo[u] # <<>>
         /\ IsBridge(Edge(u)[1], Edge(u)[2])
         /\ FirstTree(Edge(u)) \in Node
         /\ select_tree[FirstTree(Edge(u))] = 1
         /\ \A x \in OnPath : belongs[x] # FirstTree(Edge(u))
  BY Held
<1>11. \A x \in OnPath : /\ belongs[x] \in Node /\ select_tree[belongs[x]] = 1
                         /\ belongs[x] # r
  BY <1>8 DEF IInv, LocksInductive
<1>12. \A u \in Thread : HoldsFirst(u)' =>
         /\ todo'[u] # <<>>
         /\ IsBridge(Edge(u)[1], Edge(u)[2])'
         /\ select_tree'[FirstTree(Edge(u))'] = 1
         /\ \A x \in OnPath' : belongs'[x] # FirstTree(Edge(u))'
  <2>1. SUFFICES ASSUME NEW u \in Thread, HoldsFirst(u)'
                 PROVE  /\ todo[u] # <<>>
                        /\ IsBridge(Edge(u)[1], Edge(u)[2])
                        /\ select_tree'[FirstTree(Edge(u))] = 1
                        /\ \A x \in OnPath : belongs[x] # FirstTree(Edge(u))
    BY <1>1, <1>2, <1>4, <1>6
  <2>2. CASE u = t
    BY <2>2, <1>2, <1>9, <1>11 DEF r
  <2>3. CASE HoldsFirst(u)
    BY <2>3, <1>8, <1>10
  <2>4. QED  BY <2>1, <2>2, <2>3, <1>7
<1>13. ASSUME NEW u \in Thread, NEW w \in Thread, u # w, HoldsFirst(u)', HoldsFirst(w)'
       PROVE  FirstTree(Edge(u))' # FirstTree(Edge(w))'
  <2>1. \A z \in Thread : HoldsFirst(z) => FirstTree(Edge(z)) # r
    BY <1>8, <1>10
  <2>2. CASE u = t
    BY <2>1, <2>2, <1>6, <1>7, <1>13 DEF r
  <2>3. CASE w = t
    BY <2>1, <2>3, <1>6, <1>7, <1>13 DEF r
  <2>4. CASE u # t /\ w # t
    BY <2>4, <1>6, <1>7, <1>13 DEF IInv, LocksInductive
  <2>5. QED  BY <2>2, <2>3, <2>4
<1>14. \A x \in OnPath' : belongs'[x] \in Node /\ select_tree'[belongs'[x]] = 1
  BY <1>1, <1>4, <1>8, <1>11
<1>15. \A u \in Thread : Range(todo'[u]) \subseteq Range(edges')
  BY <1>1, <1>2 DEF IInv, LocksInductive
<1>16. LocksInductive'
  BY <1>12, <1>13, <1>14, <1>15 DEF LocksInductive
<1>17. QED  BY <1>1, <1>4, <1>5, <1>16 DEF IInv

\* Losing the second CAS changes no lock.
LEMMA LockSecondFailsPreserves ==
  ASSUME IInv, NEW t \in Thread, LockSecondFails(t), UNCHANGED <<forestVars, edges>>
  PROVE  IInv'
<1>1. LegalStart' /\ belongs' = belongs /\ edges' = edges
  BY ForestFrozen DEF IInv
<1>2. OnPath' = OnPath /\ PathsDisjoint'
  BY PathsUntouched DEF IInv, LockSecondFails
<1>3. TypeOK'
  BY <1>1 DEF IInv, TypeOK, LegalStart, LockSecondFails
<1>4. \A u \in Thread : /\ Edge(u)' = Edge(u)
                        /\ FirstTree(Edge(u))' = FirstTree(Edge(u))
                        /\ IsBridge(Edge(u)[1], Edge(u)[2])' = IsBridge(Edge(u)[1], Edge(u)[2])
  BY <1>1 DEF LockSecondFails, Edge, FirstTree, TreeOf, IsBridge, forestVars
<1>5. \A u \in Thread : HoldsFirst(u)' = HoldsFirst(u)
  BY DEF IInv, TypeOK, HoldsFirst, LockSecondFails
<1>6. LocksInductive'
  BY <1>1, <1>2, <1>4, <1>5 DEF IInv, LocksInductive, LockSecondFails
<1>7. QED  BY <1>1, <1>2, <1>3, <1>6 DEF IInv

\* Unlocking the first tree: it is this thread's alone, and no path runs
\* through it.
LEMMA ReleasePreserves ==
  ASSUME IInv, NEW t \in Thread, Release(t), UNCHANGED <<forestVars, edges>>
  PROVE  IInv'
<1> DEFINE r == FirstTree(Edge(t))
<1>1. LegalStart' /\ belongs' = belongs /\ edges' = edges
  BY ForestFrozen DEF IInv
<1>2. HoldsFirst(t) /\ select_tree' = [select_tree EXCEPT ![r] = 0] /\ NextEdge(t)
  BY DEF Release, HoldsFirst
<1>3. /\ todo[t] # <<>> /\ r \in Node
      /\ \A x \in OnPath : belongs[x] # r
      /\ \A u \in Thread : u # t /\ HoldsFirst(u) => FirstTree(Edge(u)) # r
  BY <1>2, Held
<1>4. OnPath' = OnPath /\ PathsDisjoint'
  BY PathsUntouched DEF IInv, Release
<1>5. /\ pc' \in [Thread -> {"scan", "second", "release", "done"}]
      /\ todo' \in [Thread -> Seq(Node \X Node)]
      /\ \A u \in Thread : Range(todo'[u]) \subseteq Range(edges)
  BY <1>2, <1>3, NextEdgeType DEF IInv
<1>6. TypeOK'
  BY <1>1, <1>2, <1>3, <1>5 DEF IInv, TypeOK, LegalStart, Release
<1>7. \A u \in Thread : HoldsFirst(u)' =>
        u # t /\ HoldsFirst(u) /\ Edge(u)' = Edge(u) /\ todo'[u] = todo[u]
  BY <1>2, NextEdgeFrame DEF IInv
<1>8. \A u \in Thread : HoldsFirst(u)' =>
        /\ FirstTree(Edge(u))' = FirstTree(Edge(u))
        /\ IsBridge(Edge(u)[1], Edge(u)[2])' = IsBridge(Edge(u)[1], Edge(u)[2])
  BY <1>1, <1>7 DEF FirstTree, TreeOf, IsBridge, forestVars
<1> HIDE DEF r
<1>9. \A x \in Node : x # r => select_tree'[x] = select_tree[x]
  BY <1>2 DEF IInv, TypeOK
<1>10. \A u \in Thread : HoldsFirst(u) =>
         /\ todo[u] # <<>>
         /\ IsBridge(Edge(u)[1], Edge(u)[2])
         /\ FirstTree(Edge(u)) \in Node
         /\ select_tree[FirstTree(Edge(u))] = 1
         /\ \A x \in OnPath : belongs[x] # FirstTree(Edge(u))
  BY Held
<1>11. \A u \in Thread : HoldsFirst(u)' =>
         /\ todo'[u] # <<>>
         /\ IsBridge(Edge(u)[1], Edge(u)[2])'
         /\ select_tree'[FirstTree(Edge(u))'] = 1
         /\ \A x \in OnPath' : belongs'[x] # FirstTree(Edge(u))'
  BY <1>1, <1>3, <1>4, <1>7, <1>8, <1>9, <1>10
<1>12. \A u, w \in Thread : u # w /\ HoldsFirst(u)' /\ HoldsFirst(w)' =>
         FirstTree(Edge(u))' # FirstTree(Edge(w))'
  BY <1>7, <1>8 DEF IInv, LocksInductive
<1>13. \A x \in OnPath' : belongs'[x] \in Node /\ select_tree'[belongs'[x]] = 1
  BY <1>1, <1>3, <1>4, <1>9 DEF IInv, LocksInductive
<1>14. LocksInductive'
  BY <1>1, <1>5, <1>11, <1>12, <1>13 DEF LocksInductive
<1>15. QED  BY <1>1, <1>4, <1>6, <1>14 DEF IInv

\* The second CAS succeeds: the new path lies in two trees that no other path
\* runs through and no other thread holds.
LEMMA NewPath ==
  ASSUME IInv, NEW t \in Thread, LockSecond(t)
  PROVE  LET p == JoinWalks(path_table, Edge(t)[1], Edge(t)[2])
         IN  /\ HoldsFirst(t)
             /\ p \in Seq(Node) /\ p # <<>> /\ IsInjective(p)
             /\ {belongs[x] : x \in Range(p)} =
                  {FirstTree(Edge(t)), SecondTree(Edge(t))}
             /\ Range(p) \cap OnPath = {}
             /\ local_path'[t] = local_path[t] \o p
             /\ local_path'[t] \in Seq(Node)
             /\ Range(local_path'[t]) = Range(local_path[t]) \cup Range(p)
             /\ \A u \in Thread : u # t => local_path'[u] = local_path[u]
             /\ OnPath' = OnPath \cup Range(p)
<1> DEFINE e == Edge(t)
           p == JoinWalks(path_table, e[1], e[2])
<1>1. /\ HoldsFirst(t)
      /\ select_tree[SecondTree(e)] = 0
      /\ local_path' = [local_path EXCEPT ![t] = @ \o p]
      /\ path_collection' = path_collection
  BY DEF LockSecond, HoldsFirst
<1>2. /\ e \in Range(edges) /\ IsBridge(e[1], e[2])
      /\ \A x \in OnPath : belongs[x] # FirstTree(e)
  BY <1>1, Held
<1>3. /\ p \in Seq(Node) /\ p # <<>> /\ IsInjective(p)
      /\ {belongs[x] : x \in Range(p)} = {FirstTree(e), SecondTree(e)}
  BY <1>2, BridgePath DEF IInv
<1>4. \A x \in OnPath : belongs[x] # SecondTree(e)
  BY <1>1 DEF IInv, LocksInductive
<1>5. Range(p) \cap OnPath = {}
  BY <1>2, <1>3, <1>4
<1> HIDE DEF p
<1>6. local_path \in [Thread -> Seq(Node)]
  BY DEF IInv, TypeOK
<1>7. /\ local_path'[t] = local_path[t] \o p
      /\ \A u \in Thread : u # t => local_path'[u] = local_path[u]
  BY <1>1, <1>6
<1>8. /\ local_path'[t] \in Seq(Node)
      /\ Range(local_path'[t]) = Range(local_path[t]) \cup Range(p)
  BY <1>3, <1>6, <1>7, ConcatRange
<1>9. OnPath' = OnPath \cup Range(p)
  <2>1. UNION {Range(local_path'[u]) : u \in Thread} =
        (UNION {Range(local_path[u]) : u \in Thread}) \cup Range(p)
    BY <1>7, <1>8
  <2>2. QED  BY <2>1, <1>1 DEF OnPath
<1>10. QED  BY <1>1, <1>3, <1>5, <1>7, <1>8, <1>9 DEF p

\* Taking the second tree keeps the invariant.
LEMMA LockSecondPreserves ==
  ASSUME IInv, NEW t \in Thread, LockSecond(t), UNCHANGED <<forestVars, edges>>
  PROVE  IInv'
<1> DEFINE a == FirstTree(Edge(t))
           b == SecondTree(Edge(t))
           p == JoinWalks(path_table, Edge(t)[1], Edge(t)[2])
<1>1. LegalStart' /\ belongs' = belongs /\ edges' = edges
  BY ForestFrozen DEF IInv
<1>2. /\ HoldsFirst(t) /\ NextEdge(t)
      /\ select_tree[b] = 0
      /\ select_tree' = [select_tree EXCEPT ![b] = 1]
      /\ path_collection' = path_collection
      /\ local_path' = [local_path EXCEPT ![t] = @ \o p]
  BY DEF LockSecond, HoldsFirst
<1>3. /\ todo[t] # <<>> /\ a \in Node /\ b \in Node /\ select_tree[a] = 1
      /\ \A u \in Thread : u # t /\ HoldsFirst(u) => FirstTree(Edge(u)) # a
  BY <1>2, Held
<1>4. /\ p \in Seq(Node) /\ IsInjective(p)
      /\ {belongs[x] : x \in Range(p)} = {a, b}
      /\ Range(p) \cap OnPath = {}
      /\ local_path'[t] = local_path[t] \o p
      /\ local_path'[t] \in Seq(Node)
      /\ Range(local_path'[t]) = Range(local_path[t]) \cup Range(p)
      /\ \A u \in Thread : u # t => local_path'[u] = local_path[u]
      /\ OnPath' = OnPath \cup Range(p)
  BY NewPath
<1>5. /\ pc' \in [Thread -> {"scan", "second", "release", "done"}]
      /\ todo' \in [Thread -> Seq(Node \X Node)]
      /\ \A u \in Thread : Range(todo'[u]) \subseteq Range(edges)
  BY <1>2, <1>3, NextEdgeType DEF IInv
<1>6. \A u \in Thread : HoldsFirst(u)' =>
        u # t /\ HoldsFirst(u) /\ Edge(u)' = Edge(u) /\ todo'[u] = todo[u]
  BY <1>2, NextEdgeFrame DEF IInv
<1>7. \A u \in Thread : HoldsFirst(u)' =>
        /\ FirstTree(Edge(u))' = FirstTree(Edge(u))
        /\ IsBridge(Edge(u)[1], Edge(u)[2])' = IsBridge(Edge(u)[1], Edge(u)[2])
  BY <1>1, <1>6 DEF FirstTree, TreeOf, IsBridge, forestVars
<1> HIDE DEF a, b, p
<1>8. local_path \in [Thread -> Seq(Node)] /\ select_tree \in [Node -> {0, 1}]
  BY DEF IInv, TypeOK
<1>9. TypeOK'
  BY <1>1, <1>2, <1>3, <1>4, <1>5, <1>8 DEF IInv, TypeOK, LegalStart
<1>10. /\ select_tree'[b] = 1
       /\ \A x \in Node : select_tree[x] = 1 => x # b /\ select_tree'[x] = 1
  BY <1>2, <1>3, <1>8
<1>11. \A u \in Thread : HoldsFirst(u) =>
         /\ todo[u] # <<>>
         /\ IsBridge(Edge(u)[1], Edge(u)[2])
         /\ FirstTree(Edge(u)) \in Node
         /\ select_tree[FirstTree(Edge(u))] = 1
         /\ \A x \in OnPath : belongs[x] # FirstTree(Edge(u))
  BY Held
<1>12. \A u \in Thread : HoldsFirst(u)' =>
         /\ todo'[u] # <<>>
         /\ IsBridge(Edge(u)[1], Edge(u)[2])'
         /\ select_tree'[FirstTree(Edge(u))'] = 1
         /\ \A x \in OnPath' : belongs'[x] # FirstTree(Edge(u))'
  <2>1. SUFFICES ASSUME NEW u \in Thread, u # t, HoldsFirst(u)
                 PROVE  /\ select_tree'[FirstTree(Edge(u))] = 1
                        /\ \A x \in OnPath' : belongs[x] # FirstTree(Edge(u))
    BY <1>1, <1>6, <1>7, <1>11
  <2>2. FirstTree(Edge(u)) # a /\ FirstTree(Edge(u)) # b
    BY <2>1, <1>3, <1>10, <1>11
  <2>3. \A x \in Range(p) : belongs[x] # FirstTree(Edge(u))
    BY <2>2, <1>4
  <2>4. QED  BY <2>1, <2>3, <1>4, <1>10, <1>11
<1>13. \A u, w \in Thread : u # w /\ HoldsFirst(u)' /\ HoldsFirst(w)' =>
         FirstTree(Edge(u))' # FirstTree(Edge(w))'
  BY <1>6, <1>7 DEF IInv, LocksInductive
<1>14. \A x \in OnPath' : belongs'[x] \in Node /\ select_tree'[belongs'[x]] = 1
  <2>1. \A x \in OnPath : belongs[x] \in Node /\ select_tree'[belongs[x]] = 1
    BY <1>10 DEF IInv, LocksInductive
  <2>2. \A x \in Range(p) : belongs[x] \in Node /\ select_tree'[belongs[x]] = 1
    BY <1>3, <1>4, <1>10
  <2>3. QED  BY <2>1, <2>2, <1>1, <1>4
<1>15. LocksInductive'
  BY <1>1, <1>5, <1>12, <1>13, <1>14 DEF LocksInductive
<1>16. PathsDisjoint'
  <2>1. Range(local_path[t]) \cap Range(p) = {}
    BY <1>4 DEF OnPath
  <2>2. IsInjective(local_path'[t])
    BY <2>1, <1>4, <1>8, ConcatInjective DEF IInv, PathsDisjoint
  <2>3. \A u \in Thread : IsInjective(local_path'[u])
    BY <2>2, <1>4 DEF IInv, PathsDisjoint
  <2>4. \A u \in Thread : u # t => Range(p) \cap Range(local_path[u]) = {}
    BY <1>4 DEF OnPath
  <2>5. \A i \in DOMAIN path_collection : Range(p) \cap Range(path_collection[i]) = {}
    BY <1>4 DEF OnPath
  <2>6. \A u, w \in Thread : u # w =>
          Range(local_path'[u]) \cap Range(local_path'[w]) = {}
    <3>1. \A u \in Thread : u # t =>
            Range(local_path'[t]) \cap Range(local_path'[u]) = {}
      BY <2>4, <1>4 DEF IInv, PathsDisjoint
    <3>2. \A u, w \in Thread : u # w /\ u # t /\ w # t =>
            Range(local_path'[u]) \cap Range(local_path'[w]) = {}
      BY <1>4 DEF IInv, PathsDisjoint
    <3>3. QED  BY <3>1, <3>2
  <2>7. \A u \in Thread, i \in DOMAIN path_collection :
          Range(local_path'[u]) \cap Range(path_collection[i]) = {}
    BY <2>5, <1>4 DEF IInv, PathsDisjoint
  <2>8. QED  BY <2>3, <2>6, <2>7, <1>2 DEF IInv, PathsDisjoint
<1>17. QED  BY <1>1, <1>9, <1>15, <1>16 DEF IInv

\* The merge moves a thread's paths to the collection and adds none.
LEMMA MergePreserves ==
  ASSUME IInv, NEW t \in Thread, Merge(t), UNCHANGED <<forestVars, edges>>
  PROVE  IInv' /\ OnPath' = OnPath
<1> DEFINE p == local_path[t]
           n == Len(path_collection)
<1>1. LegalStart' /\ belongs' = belongs /\ edges' = edges
  BY ForestFrozen DEF IInv
<1>2. /\ pc[t] = "scan"
      /\ path_collection' = IF p = <<>> THEN path_collection
                            ELSE Append(path_collection, p)
      /\ local_path' = [local_path EXCEPT ![t] = <<>>]
      /\ pc' = [pc EXCEPT ![t] = "done"]
      /\ UNCHANGED <<select_tree, todo>>
  BY DEF Merge
<1>3. /\ local_path \in [Thread -> Seq(Node)] /\ p \in Seq(Node)
      /\ path_collection \in Seq(Seq(Node))
  BY DEF IInv, TypeOK
<1>4. <<>> \in Seq(Node) /\ Range(<<>>) = {} /\ IsInjective(<<>>)
  BY DEF Range, IsInjective
<1> HIDE DEF p
<1>5. /\ local_path'[t] = <<>>
      /\ \A u \in Thread : u # t => local_path'[u] = local_path[u]
  BY <1>2, <1>3
<1>6. /\ n \in Nat /\ DOMAIN path_collection = 1 .. n
      /\ \A i \in 1 .. n : path_collection[i] \in Seq(Node)
  BY <1>3, LenProperties, ElementOfSeq
<1>7. p # <<>> =>
        /\ path_collection' \in Seq(Seq(Node))
        /\ DOMAIN path_collection' = 1 .. (n + 1)
        /\ \A i \in 1 .. n : path_collection'[i] = path_collection[i]
        /\ path_collection'[n + 1] = p
  BY <1>2, <1>3, <1>6, AppendProperties, LenProperties
<1> HIDE DEF n
<1>8. p # <<>> =>
         /\ \A i \in DOMAIN path_collection :
              /\ i \in DOMAIN path_collection'
              /\ path_collection'[i] = path_collection[i]
         /\ \A i \in DOMAIN path_collection' :
              \/ /\ i \in DOMAIN path_collection
                 /\ path_collection'[i] = path_collection[i]
              \/ path_collection'[i] = p
         /\ \E i \in DOMAIN path_collection' : path_collection'[i] = p
  <2>1. PICK S : S = DOMAIN path_collection
    OBVIOUS
  <2>2. PICK T : T = DOMAIN path_collection'
    OBVIOUS
  <2>3. SUFFICES ASSUME p # <<>>
                 PROVE  /\ \A i \in S : i \in T /\ path_collection'[i] = path_collection[i]
                        /\ \A i \in T : \/ i \in S /\ path_collection'[i] = path_collection[i]
                                       \/ path_collection'[i] = p
                        /\ \E i \in T : path_collection'[i] = p
    BY <2>1, <2>2
  <2>4. n \in Nat /\ S = 1 .. n /\ T = 1 .. (n + 1)
    BY <1>6, <1>7, <2>1, <2>2, <2>3
  <2>5. \A i \in S : path_collection'[i] = path_collection[i]
    BY <1>7, <2>3, <2>4
  <2>6. path_collection'[n + 1] = p
    BY <1>7, <2>3
  <2>7. /\ n + 1 \in T
        /\ \A i \in S : i \in T
        /\ \A i \in T : i \in S \/ i = n + 1
    BY <2>4
  <2>8. QED
    BY <2>5, <2>6, <2>7
<1>9. TypeOK'
  <2>1. path_collection' \in Seq(Seq(Node))
    BY <1>2, <1>3, <1>7
  <2>2. QED  BY <2>1, <1>1, <1>2, <1>3, <1>4 DEF IInv, TypeOK, LegalStart
<1>10. UNION {Range(local_path[u]) : u \in Thread} =
      (UNION {Range(local_path'[u]) : u \in Thread}) \cup Range(p)
  <2>1. \A u \in Thread : u # t => Range(local_path[u]) = Range(local_path'[u])
    BY <1>5
  <2>2. Range(local_path[t]) = Range(p) /\ Range(local_path'[t]) = {}
    BY <1>4, <1>5 DEF p
  <2>3. QED  BY <2>1, <2>2
<1>11. OnPath' = OnPath
  <2>1. CASE p = <<>>
    BY <2>1, <1>2, <1>4, <1>10 DEF OnPath
  <2>2. CASE p # <<>>
    <3>1. UNION {Range(path_collection'[i]) : i \in DOMAIN path_collection'} =
          (UNION {Range(path_collection[i]) : i \in DOMAIN path_collection}) \cup Range(p)
      BY <2>2, <1>8
    <3>2. QED  BY <3>1, <1>10 DEF OnPath
  <2>3. QED  BY <2>1, <2>2
<1>12. \A u \in Thread : HoldsFirst(u)' = HoldsFirst(u)
  BY <1>2 DEF IInv, TypeOK, HoldsFirst
<1>13. \A u \in Thread : /\ Edge(u)' = Edge(u)
                         /\ FirstTree(Edge(u))' = FirstTree(Edge(u))
                         /\ IsBridge(Edge(u)[1], Edge(u)[2])' = IsBridge(Edge(u)[1], Edge(u)[2])
  BY <1>1, <1>2 DEF Edge, FirstTree, TreeOf, IsBridge, forestVars
<1>14. LocksInductive'
  BY <1>1, <1>2, <1>11, <1>12, <1>13 DEF IInv, LocksInductive
<1>15. PathsDisjoint'
  <2>1. \A u \in Thread : IsInjective(local_path'[u])
    BY <1>4, <1>5 DEF IInv, PathsDisjoint
  <2>2. \A u, w \in Thread : u # w =>
          Range(local_path'[u]) \cap Range(local_path'[w]) = {}
    <3>1. \A u \in Thread : Range(local_path'[t]) \cap Range(local_path'[u]) = {}
      BY <1>4, <1>5
    <3>2. \A u, w \in Thread : u # w /\ u # t /\ w # t =>
            Range(local_path'[u]) \cap Range(local_path'[w]) = {}
      BY <1>5 DEF IInv, PathsDisjoint
    <3>3. QED  BY <3>1, <3>2
  <2>3. \A u \in Thread, i \in DOMAIN path_collection :
          Range(local_path'[u]) \cap Range(path_collection[i]) = {}
    BY <1>4, <1>5 DEF IInv, PathsDisjoint
  <2>4. CASE p = <<>>
    BY <2>1, <2>2, <2>3, <2>4, <1>2 DEF IInv, PathsDisjoint
  <2>5. CASE p # <<>>
    <3>1. /\ IsInjective(p)
          /\ \A u \in Thread : Range(local_path'[u]) \cap Range(p) = {}
          /\ \A i \in 1 .. n : Range(p) \cap Range(path_collection[i]) = {}
      BY <1>4, <1>5, <1>6 DEF IInv, PathsDisjoint, p
    <3>2. \A i \in DOMAIN path_collection' : IsInjective(path_collection'[i])
      BY <2>5, <3>1, <1>6, <1>7 DEF IInv, PathsDisjoint
    <3>3. \A u \in Thread, i \in DOMAIN path_collection' :
            Range(local_path'[u]) \cap Range(path_collection'[i]) = {}
      BY <2>3, <2>5, <3>1, <1>8
    <3>4. \A i, j \in DOMAIN path_collection' : i # j =>
            Range(path_collection'[i]) \cap Range(path_collection'[j]) = {}
      BY <2>5, <3>1, <1>6, <1>7 DEF IInv, PathsDisjoint
    <3>5. QED  BY <2>1, <2>2, <3>2, <3>3, <3>4 DEF PathsDisjoint
  <2>6. QED  BY <2>4, <2>5
<1>16. QED  BY <1>1, <1>9, <1>11, <1>14, <1>15 DEF IInv

-----------------------------------------------------------------------------
\* Every step keeps the invariant.
LEMMA NextPreserves == IInv /\ [Next]_vars => IInv'
<1> SUFFICES ASSUME IInv, [Next]_vars PROVE IInv'
  OBVIOUS
<1>1. CASE UNCHANGED vars
  BY SMTT(30), <1>1 DEF vars, forestVars, workerVars, IInv, LegalStart, ForestTypeOK,
       LegalForest, EvenWalkLegal, TypeOK, LocksInductive, PathsDisjoint,
       OnPath, HoldsFirst, Edge, FirstTree, TreeOf, IsBridge
<1>2. ASSUME NEW t \in Thread, Worker(t), UNCHANGED <<forestVars, edges>>
      PROVE  IInv'
  <2>1. CASE Skip(t)
    BY <1>2, <2>1, GiveUpPreserves DEF Skip
  <2>2. CASE LockFirst(t)
    BY <1>2, <2>2, LockFirstPreserves
  <2>3. CASE LockFirstFails(t)
    BY <1>2, <2>3, GiveUpPreserves DEF LockFirstFails
  <2>4. CASE LockSecond(t)
    BY <1>2, <2>4, LockSecondPreserves
  <2>5. CASE LockSecondFails(t)
    BY <1>2, <2>5, LockSecondFailsPreserves
  <2>6. CASE Release(t)
    BY <1>2, <2>6, ReleasePreserves
  <2>7. CASE Merge(t)
    BY <1>2, <2>7, MergePreserves
  <2>8. QED
    BY <1>2, <2>1, <2>2, <2>3, <2>4, <2>5, <2>6, <2>7 DEF Worker
<1>3. CASE Terminated
  BY <1>1, <1>3 DEF Terminated
<1>4. QED  BY <1>1, <1>2, <1>3 DEF Next

\* The invariant holds always.
THEOREM Invariance == Spec => []IInv
BY InitEstablishes, NextPreserves, PTL DEF Spec

\* Every variable keeps its type in every execution of the phase.
THEOREM TypeCorrect == Spec => []TypeOK
<1>1. IInv => TypeOK
  BY DEF IInv
<1>2. QED  BY <1>1, Invariance, PTL

\* The CAS on the two roots give every found path and every thread between
\* its CAS trees of their own, in every interleaving.
THEOREM LocksHeld == Spec => []LocksInductive
<1>1. IInv => LocksInductive
  BY DEF IInv
<1>2. QED  BY <1>1, Invariance, PTL

\* The paths of one phase are node-disjoint, so they may be flipped in
\* parallel, however many threads found them.
THEOREM DisjointPaths == Spec => []PathsDisjoint
<1>1. IInv => PathsDisjoint
  BY DEF IInv
<1>2. QED  BY <1>1, Invariance, PTL

-----------------------------------------------------------------------------
(***************************************************************************)
(* No lock leaks and some bridge wins.  A locked tree has a path or a      *)
(* holder.  While there is no path, a thread that lost its second CAS lost *)
(* it to a holder of a larger tree, so the holder of the largest tree is   *)
(* still to win or to lose; and while nobody is between the two CAS, every *)
(* bridge is still ahead of some thread.                                   *)
(***************************************************************************)
LockedHasOwner ==
  \A r \in Node : select_tree[r] = 1 =>
    \/ \E x \in OnPath : belongs[x] = r
    \/ \E t \in Thread : HoldsFirst(t) /\ FirstTree(Edge(t)) = r

LoserBelowHolder ==
  OnPath = {} => \A t \in Thread : pc[t] = "release" =>
    \E u \in Thread : pc[u] = "second" /\ FirstTree(Edge(t)) < FirstTree(Edge(u))

BridgesAhead ==
  OnPath = {} =>
    \/ \E t \in Thread : pc[t] = "second"
    \/ \A i \in DOMAIN edges : IsBridge(edges[i][1], edges[i][2]) =>
         \E t \in Thread : edges[i] \in Range(todo[t])

DoneIsEmpty ==
  \A t \in Thread : pc[t] = "done" => todo[t] = <<>> /\ local_path[t] = <<>>

WInv == LockedHasOwner /\ LoserBelowHolder /\ BridgesAhead /\ DoneIsEmpty

\* No path is found at the start.
LEMMA InitWins == Init => WInv
<1> SUFFICES ASSUME Init PROVE WInv
  OBVIOUS
<1>1. \A i \in DOMAIN edges : \E t \in Thread : edges[i] \in Range(todo[t])
  <2>1. edges \in Seq(Node \X Node)
    BY DEF Init, LegalStart
  <2>2. \A t \in Thread : todo[t] = Slice(t)
    BY DEF Init
  <2>3. QED  BY <2>1, <2>2, SlicesCover
<1>2. QED
  BY <1>1 DEF Init, WInv, LockedHasOwner, LoserBelowHolder, BridgesAhead, DoneIsEmpty

\* Without a path, a locked tree means that some thread is between its CAS
\* and has at least that tree.
LEMMA HolderClimbs ==
  ASSUME IInv, WInv, OnPath = {}, NEW r \in Node, select_tree[r] = 1
  PROVE  \E u \in Thread : pc[u] = "second" /\ r <= FirstTree(Edge(u))
<1>1. PICK t \in Thread : HoldsFirst(t) /\ FirstTree(Edge(t)) = r
  BY DEF WInv, LockedHasOwner
<1>2. r \in Int
  BY NodesAssumption DEF Node
<1>3. CASE pc[t] = "second"
  BY <1>1, <1>2, <1>3
<1>4. CASE pc[t] = "release"
  <2>1. PICK u \in Thread : pc[u] = "second" /\ r < FirstTree(Edge(u))
    BY <1>1, <1>4 DEF WInv, LoserBelowHolder
  <2>2. FirstTree(Edge(u)) \in Node
    BY <2>1, Held DEF HoldsFirst
  <2>3. FirstTree(Edge(u)) \in Int
    BY <2>2, NodesAssumption DEF Node
  <2>4. QED  BY <2>1, <2>3, <1>2
<1>5. QED  BY <1>1, <1>3, <1>4 DEF HoldsFirst

\* Leaving an edge loses no other edge.
LEMMA OnlyHeadLeaves ==
  ASSUME IInv, NEW t \in Thread, todo[t] # <<>>, NextEdge(t),
         NEW u \in Thread, NEW e \in Range(todo[u]), e # Edge(t)
  PROVE  e \in Range(todo'[u])
<1>1. todo[t] \in Seq(Node \X Node)
  BY DEF IInv, TypeOK
<1>2. Range(todo[t]) = {Edge(t)} \cup Range(Tail(todo[t]))
  BY <1>1, TailRange DEF Edge
<1>3. CASE u = t
  BY <1>2, <1>3, NextEdgeFrame DEF IInv
<1>4. CASE u # t
  BY <1>4, NextEdgeFrame DEF IInv
<1>5. QED  BY <1>3, <1>4

\* A worker that gives up leaves a path found elsewhere.
LEMMA GiveUpWins ==
  ASSUME IInv, WInv, NEW t \in Thread, Skip(t) \/ LockFirstFails(t),
         UNCHANGED <<forestVars, edges>>
  PROVE  WInv'
<1>1. /\ pc[t] = "scan" /\ todo[t] # <<>> /\ NextEdge(t)
      /\ UNCHANGED <<select_tree, path_collection, local_path>>
  BY DEF Skip, LockFirstFails
<1>2. belongs' = belongs /\ edges' = edges /\ is_even' = is_even
  BY DEF forestVars
<1>3. OnPath' = OnPath
  BY <1>1 DEF OnPath
<1>4. \A u \in Thread : HoldsFirst(u) => HoldsFirst(u)' /\ Edge(u)' = Edge(u)
  BY <1>1, NextEdgeFrame DEF IInv, HoldsFirst
<1>5. /\ \A u \in Thread : pc'[u] \in {"second", "release", "done"} =>
           u # t /\ pc'[u] = pc[u] /\ Edge(u)' = Edge(u) /\ todo'[u] = todo[u]
      /\ \A u \in Thread : pc[u] = "second" => pc'[u] = "second" /\ Edge(u)' = Edge(u)
  BY <1>1 DEF IInv, TypeOK, NextEdge, Edge
<1>6. LockedHasOwner'
  BY <1>1, <1>2, <1>3, <1>4 DEF WInv, LockedHasOwner, FirstTree, TreeOf
<1>7. LoserBelowHolder'
  BY <1>2, <1>3, <1>5 DEF WInv, LoserBelowHolder, FirstTree, TreeOf
<1>8. DoneIsEmpty'
  BY <1>1, <1>5 DEF WInv, DoneIsEmpty
<1>9. BridgesAhead'
  <2>1. SUFFICES ASSUME OnPath = {}, \A u \in Thread : pc[u] # "second"
                 PROVE  BridgesAhead'
    BY <1>3, <1>5 DEF BridgesAhead
  <2>2. ~ IsBridge(Edge(t)[1], Edge(t)[2])
    <3>1. SUFFICES ASSUME LockFirstFails(t) PROVE FALSE
      BY DEF Skip
    <3>2. select_tree[FirstTree(Edge(t))] = 1 /\ IsBridge(Edge(t)[1], Edge(t)[2])
      BY <3>1 DEF LockFirstFails
    <3>3. FirstTree(Edge(t)) \in Node
      BY <3>2, <1>1, EdgeInFrontier, BridgeTrees DEF IInv
    <3>4. QED  BY <3>2, <3>3, <2>1, HolderClimbs
  <2>3. ASSUME NEW i \in DOMAIN edges, IsBridge(edges[i][1], edges[i][2])
        PROVE  \E u \in Thread : edges[i] \in Range(todo'[u])
    <3>1. PICK u \in Thread : edges[i] \in Range(todo[u])
      BY <2>1, <2>3 DEF WInv, BridgesAhead
    <3>2. edges[i] # Edge(t)
      BY <2>2, <2>3
    <3>3. QED  BY <3>1, <3>2, <1>1, OnlyHeadLeaves
  <2>4. QED  BY <2>3, <1>2 DEF BridgesAhead, IsBridge
<1>10. QED  BY <1>6, <1>7, <1>8, <1>9 DEF WInv

\* Taking the first tree keeps the first winner in sight;
LEMMA LockFirstWins ==
  ASSUME IInv, WInv, NEW t \in Thread, LockFirst(t), UNCHANGED <<forestVars, edges>>
  PROVE  WInv'
<1> DEFINE r == FirstTree(Edge(t))
<1>1. /\ pc[t] = "scan" /\ todo[t] # <<>>
      /\ pc' = [pc EXCEPT ![t] = "second"]
      /\ select_tree' = [select_tree EXCEPT ![r] = 1]
      /\ UNCHANGED <<path_collection, todo, local_path, belongs>>
  BY DEF LockFirst, forestVars
<1>2. OnPath' = OnPath
  BY <1>1 DEF OnPath
<1>3. \A u \in Thread : FirstTree(Edge(u))' = FirstTree(Edge(u))
  BY <1>1 DEF Edge, FirstTree, TreeOf
<1>4. \A u \in Thread : u # t => pc'[u] = pc[u]
  BY <1>1 DEF IInv, TypeOK
<1>5. pc'[t] = "second"
  BY <1>1 DEF IInv, TypeOK
<1>6. HoldsFirst(t)' /\ \A u \in Thread : HoldsFirst(u) => HoldsFirst(u)'
  BY <1>4, <1>5 DEF HoldsFirst
<1> HIDE DEF r
<1>7. LockedHasOwner'
  <2>1. ASSUME NEW x \in Node, select_tree'[x] = 1
        PROVE  \/ \E y \in OnPath' : belongs'[y] = x
               \/ \E u \in Thread : HoldsFirst(u)' /\ FirstTree(Edge(u))' = x
    <3>1. CASE x = r
      BY <3>1, <1>3, <1>6 DEF r
    <3>2. CASE x # r
      BY <2>1, <3>2, <1>1, <1>2, <1>3, <1>6 DEF WInv, LockedHasOwner, IInv, TypeOK
    <3>3. QED  BY <3>1, <3>2
  <2>2. QED  BY <2>1 DEF LockedHasOwner
<1>8. LoserBelowHolder'
  BY <1>1, <1>2, <1>3, <1>4, <1>5 DEF WInv, LoserBelowHolder
<1>9. BridgesAhead'
  BY <1>5 DEF BridgesAhead
<1>10. DoneIsEmpty'
  BY <1>1, <1>4, <1>5 DEF WInv, DoneIsEmpty
<1>11. QED  BY <1>7, <1>8, <1>9, <1>10 DEF WInv

\* so does taking the second one, which is a win;
LEMMA LockSecondWins ==
  ASSUME IInv, WInv, NEW t \in Thread, LockSecond(t), UNCHANGED <<forestVars, edges>>
  PROVE  WInv'
<1> DEFINE a == FirstTree(Edge(t))
           b == SecondTree(Edge(t))
           p == JoinWalks(path_table, Edge(t)[1], Edge(t)[2])
<1>1. /\ pc[t] = "second" /\ NextEdge(t)
      /\ select_tree' = [select_tree EXCEPT ![b] = 1]
      /\ belongs' = belongs
  BY DEF LockSecond, forestVars
<1>2. /\ p # <<>> /\ p \in Seq(Node)
      /\ {belongs[x] : x \in Range(p)} = {a, b}
      /\ OnPath' = OnPath \cup Range(p)
      /\ \A u \in Thread : u # t => local_path'[u] = local_path[u]
  BY NewPath
<1> HIDE DEF p
<1>3. OnPath' # {}
  BY <1>2
<1>4. \A u \in Thread : HoldsFirst(u) =>
        u = t \/ (HoldsFirst(u)' /\ FirstTree(Edge(u))' = FirstTree(Edge(u)))
  BY <1>1, NextEdgeFrame DEF IInv, FirstTree, TreeOf
<1>5. \A x \in {a, b} : \E y \in OnPath' : belongs'[y] = x
  BY <1>1, <1>2
<1> HIDE DEF b
<1>6. \A x \in Node : x # b => select_tree'[x] = select_tree[x]
  BY <1>1 DEF IInv, TypeOK
<1>7. LockedHasOwner'
  <2>1. ASSUME NEW x \in Node, select_tree'[x] = 1, x \notin {a, b}
        PROVE  \/ \E y \in OnPath' : belongs'[y] = x
               \/ \E u \in Thread : HoldsFirst(u)' /\ FirstTree(Edge(u))' = x
    <3>1. select_tree[x] = 1
      BY <2>1, <1>6
    <3>2. CASE \E y \in OnPath : belongs[y] = x
      BY <3>2, <1>1, <1>2
    <3>3. CASE \E u \in Thread : HoldsFirst(u) /\ FirstTree(Edge(u)) = x
      BY <2>1, <3>3, <1>4
    <3>4. QED  BY <3>1, <3>2, <3>3 DEF WInv, LockedHasOwner
  <2>2. QED  BY <2>1, <1>5 DEF LockedHasOwner
<1>8. DoneIsEmpty'
  <2>1. \A u \in Thread : pc'[u] = "done" =>
          u # t /\ pc[u] = "done" /\ todo'[u] = todo[u]
    BY <1>1 DEF IInv, TypeOK, NextEdge
  <2>2. QED  BY <2>1, <1>2 DEF WInv, DoneIsEmpty
<1>9. QED  BY <1>3, <1>7, <1>8 DEF WInv, LoserBelowHolder, BridgesAhead

\* a worker that loses the second tree loses it to a worker further up;
LEMMA LockSecondFailsWins ==
  ASSUME IInv, WInv, NEW t \in Thread, LockSecondFails(t),
         UNCHANGED <<forestVars, edges>>
  PROVE  WInv'
<1> DEFINE a == FirstTree(Edge(t))
           b == SecondTree(Edge(t))
<1>1. /\ pc[t] = "second" /\ select_tree[b] = 1
      /\ pc' = [pc EXCEPT ![t] = "release"]
      /\ UNCHANGED <<select_tree, path_collection, todo, local_path, belongs>>
  BY DEF LockSecondFails, forestVars
<1>2. OnPath' = OnPath
  BY <1>1 DEF OnPath
<1>3. \A u \in Thread : FirstTree(Edge(u))' = FirstTree(Edge(u))
  BY <1>1 DEF Edge, FirstTree, TreeOf
<1>4. /\ pc'[t] = "release"
      /\ \A u \in Thread : u # t => pc'[u] = pc[u]
  BY <1>1 DEF IInv, TypeOK
<1>5. \A u \in Thread : HoldsFirst(u)' = HoldsFirst(u)
  BY <1>1, <1>4 DEF HoldsFirst
<1>6. LockedHasOwner'
  BY <1>1, <1>2, <1>3, <1>5 DEF WInv, LockedHasOwner
<1>7. OnPath = {} =>
        \E w \in Thread : w # t /\ pc[w] = "second" /\ a < FirstTree(Edge(w))
  <2>1. SUFFICES ASSUME OnPath = {}
                 PROVE  \E w \in Thread : w # t /\ pc[w] = "second"
                                          /\ a < FirstTree(Edge(w))
    OBVIOUS
  <2>2. HoldsFirst(t)
    BY <1>1 DEF HoldsFirst
  <2>3. Edge(t) \in Range(edges) /\ IsBridge(Edge(t)[1], Edge(t)[2])
    BY <2>2, Held
  <2>4. a \in Node /\ b \in Node /\ a < b
    BY <2>3, BridgeTrees DEF IInv
  <2>5. PICK w \in Thread : pc[w] = "second" /\ b <= FirstTree(Edge(w))
    BY <2>1, <2>4, <1>1, HolderClimbs
  <2>6. FirstTree(Edge(w)) \in Node
    BY <2>5, Held DEF HoldsFirst
  <2>7. a \in Int /\ b \in Int /\ FirstTree(Edge(w)) \in Int
    BY <2>4, <2>6, NodesAssumption DEF Node
  <2> HIDE DEF b
  <2>8. a < FirstTree(Edge(w))
    BY <2>4, <2>5, <2>7
  <2>9. w # t
    BY <2>7, <2>8
  <2>10. QED  BY <2>5, <2>8, <2>9
<1> HIDE DEF a
<1>8. LoserBelowHolder'
  <2>1. SUFFICES ASSUME OnPath = {}, NEW u \in Thread, pc'[u] = "release"
                 PROVE  \E w \in Thread : pc'[w] = "second"
                          /\ FirstTree(Edge(u)) < FirstTree(Edge(w))
    BY <1>2, <1>3 DEF LoserBelowHolder
  <2>2. PICK w \in Thread : w # t /\ pc[w] = "second" /\ a < FirstTree(Edge(w))
    BY <2>1, <1>7
  <2>3. CASE u = t
    BY <2>2, <2>3, <1>4 DEF a
  <2>4. CASE u # t
    <3>1. PICK x \in Thread : pc[x] = "second" /\ FirstTree(Edge(u)) < FirstTree(Edge(x))
      BY <2>1, <2>4, <1>4 DEF WInv, LoserBelowHolder
    <3>2. CASE x # t
      BY <3>1, <3>2, <1>4
    <3>3. CASE x = t
      <4>1. FirstTree(Edge(u)) \in Node /\ a \in Node /\ FirstTree(Edge(w)) \in Node
        BY <2>1, <2>2, <2>4, <1>1, <1>4, Held DEF HoldsFirst, a
      <4>2. /\ FirstTree(Edge(u)) \in Int /\ a \in Int /\ FirstTree(Edge(w)) \in Int
            /\ FirstTree(Edge(u)) < a
        BY <4>1, <3>1, <3>3, NodesAssumption DEF Node, a
      <4>3. FirstTree(Edge(u)) < FirstTree(Edge(w))
        BY <4>2, <2>2
      <4>4. QED  BY <4>3, <2>2, <1>4
    <3>4. QED  BY <3>2, <3>3
  <2>5. QED  BY <2>3, <2>4
<1>9. BridgesAhead'
  BY <1>2, <1>4, <1>7 DEF BridgesAhead
<1>10. DoneIsEmpty'
  BY <1>1, <1>4 DEF WInv, DoneIsEmpty
<1>11. QED  BY <1>6, <1>8, <1>9, <1>10 DEF WInv

\* so does giving the first tree back;
LEMMA ReleaseWins ==
  ASSUME IInv, WInv, NEW t \in Thread, Release(t), UNCHANGED <<forestVars, edges>>
  PROVE  WInv'
<1> DEFINE r == FirstTree(Edge(t))
<1>1. /\ pc[t] = "release" /\ NextEdge(t)
      /\ select_tree' = [select_tree EXCEPT ![r] = 0]
      /\ UNCHANGED <<path_collection, local_path, belongs, is_even, edges>>
  BY DEF Release, forestVars
<1>2. OnPath' = OnPath
  BY <1>1 DEF OnPath
<1>3. HoldsFirst(t)
  BY <1>1 DEF HoldsFirst
<1>4. r \in Node /\ todo[t] # <<>>
  BY <1>3, Held
<1>5. \A u \in Thread : u # t => HoldsFirst(u)' = HoldsFirst(u) /\ Edge(u)' = Edge(u)
  BY <1>1, NextEdgeFrame DEF IInv
<1>6. \A u \in Thread : u # t =>
        FirstTree(Edge(u))' = FirstTree(Edge(u)) /\ pc'[u] = pc[u] /\ todo'[u] = todo[u]
  BY <1>1, <1>5 DEF IInv, TypeOK, NextEdge, FirstTree, TreeOf
<1>7. pc'[t] = "scan"
  BY <1>1 DEF IInv, TypeOK, NextEdge
<1>8. LockedHasOwner'
  <2>1. ASSUME NEW x \in Node, select_tree'[x] = 1
        PROVE  \/ \E y \in OnPath' : belongs'[y] = x
               \/ \E u \in Thread : HoldsFirst(u)' /\ FirstTree(Edge(u))' = x
    <3>1. x # r /\ select_tree[x] = 1
      BY <2>1, <1>1, <1>4 DEF IInv, TypeOK
    <3>2. CASE \E y \in OnPath : belongs[y] = x
      BY <3>2, <1>1, <1>2
    <3>3. CASE \E u \in Thread : HoldsFirst(u) /\ FirstTree(Edge(u)) = x
      BY <3>1, <3>3, <1>5, <1>6
    <3>4. QED  BY <3>1, <3>2, <3>3 DEF WInv, LockedHasOwner
  <2>2. QED  BY <2>1 DEF LockedHasOwner
<1>9. LoserBelowHolder'
  <2>1. \A u \in Thread : pc'[u] = "release" => u # t /\ pc[u] = "release"
    BY <1>6, <1>7
  <2>2. \A u \in Thread : pc[u] = "second" => u # t
    BY <1>1
  <2>3. QED  BY <2>1, <2>2, <1>2, <1>6 DEF WInv, LoserBelowHolder
<1>10. BridgesAhead'
  <2>1. SUFFICES ASSUME OnPath = {} PROVE \E u \in Thread : pc'[u] = "second"
    BY <1>2 DEF BridgesAhead
  <2>2. PICK u \in Thread : pc[u] = "second"
    BY <2>1, <1>1 DEF WInv, LoserBelowHolder
  <2>3. QED  BY <2>2, <1>1, <1>6
<1>11. DoneIsEmpty'
  BY <1>1, <1>6, <1>7 DEF WInv, DoneIsEmpty
<1>12. QED  BY <1>8, <1>9, <1>10, <1>11 DEF WInv

\* and so does merging the paths found.
LEMMA MergeWins ==
  ASSUME IInv, WInv, NEW t \in Thread, Merge(t), UNCHANGED <<forestVars, edges>>
  PROVE  WInv'
<1>1. /\ pc[t] = "scan" /\ todo[t] = <<>>
      /\ pc' = [pc EXCEPT ![t] = "done"]
      /\ local_path' = [local_path EXCEPT ![t] = <<>>]
      /\ UNCHANGED <<select_tree, todo, belongs, is_even, edges>>
  BY DEF Merge, forestVars
<1>2. OnPath' = OnPath
  BY MergePreserves
<1>3. \A u \in Thread : FirstTree(Edge(u))' = FirstTree(Edge(u))
  BY <1>1 DEF Edge, FirstTree, TreeOf
<1>4. /\ pc'[t] = "done" /\ local_path'[t] = <<>>
      /\ \A u \in Thread : u # t => pc'[u] = pc[u] /\ local_path'[u] = local_path[u]
  BY <1>1 DEF IInv, TypeOK
<1>5. \A u \in Thread : HoldsFirst(u)' = HoldsFirst(u)
  BY <1>1, <1>4 DEF HoldsFirst
<1>6. LockedHasOwner'
  BY <1>1, <1>2, <1>3, <1>5 DEF WInv, LockedHasOwner
<1>7. \A u \in Thread : /\ pc'[u] = "release" => pc[u] = "release"
                        /\ pc[u] = "second" => pc'[u] = "second"
  BY <1>1, <1>4
<1>8. LoserBelowHolder'
  BY <1>2, <1>3, <1>7 DEF WInv, LoserBelowHolder
<1>9. BridgesAhead'
  BY <1>1, <1>2, <1>7 DEF WInv, BridgesAhead, IsBridge
<1>10. DoneIsEmpty'
  BY <1>1, <1>4 DEF WInv, DoneIsEmpty
<1>11. QED  BY <1>6, <1>8, <1>9, <1>10 DEF WInv

\* Every step keeps it.
LEMMA NextWins == IInv /\ WInv /\ [Next]_vars => WInv'
<1> SUFFICES ASSUME IInv, WInv, [Next]_vars PROVE WInv'
  OBVIOUS
<1>1. CASE UNCHANGED vars
  <2>1. /\ pc' = pc /\ todo' = todo /\ edges' = edges /\ select_tree' = select_tree
        /\ belongs' = belongs /\ is_even' = is_even
        /\ local_path' = local_path /\ path_collection' = path_collection
    BY <1>1 DEF vars, forestVars, workerVars
  <2>2. OnPath' = OnPath
    BY <2>1 DEF OnPath
  <2>3. \A u \in Thread : /\ HoldsFirst(u)' = HoldsFirst(u)
                          /\ FirstTree(Edge(u))' = FirstTree(Edge(u))
    BY <2>1 DEF HoldsFirst, Edge, FirstTree, TreeOf
  <2>4. LockedHasOwner'
    BY <2>1, <2>2, <2>3 DEF WInv, LockedHasOwner
  <2>5. LoserBelowHolder'
    BY <2>1, <2>2, <2>3 DEF WInv, LoserBelowHolder
  <2>6. BridgesAhead'
    BY <2>1, <2>2 DEF WInv, BridgesAhead, IsBridge
  <2>7. DoneIsEmpty'
    BY <2>1 DEF WInv, DoneIsEmpty
  <2>8. QED  BY <2>4, <2>5, <2>6, <2>7 DEF WInv
<1>2. ASSUME NEW t \in Thread, Worker(t), UNCHANGED <<forestVars, edges>>
      PROVE  WInv'
  <2>1. CASE Skip(t)
    BY <1>2, <2>1, GiveUpWins
  <2>2. CASE LockFirst(t)
    BY <1>2, <2>2, LockFirstWins
  <2>3. CASE LockFirstFails(t)
    BY <1>2, <2>3, GiveUpWins
  <2>4. CASE LockSecond(t)
    BY <1>2, <2>4, LockSecondWins
  <2>5. CASE LockSecondFails(t)
    BY <1>2, <2>5, LockSecondFailsWins
  <2>6. CASE Release(t)
    BY <1>2, <2>6, ReleaseWins
  <2>7. CASE Merge(t)
    BY <1>2, <2>7, MergeWins
  <2>8. QED
    BY <1>2, <2>1, <2>2, <2>3, <2>4, <2>5, <2>6, <2>7 DEF Worker
<1>3. CASE Terminated
  BY <1>1, <1>3 DEF Terminated
<1>4. QED  BY <1>1, <1>2, <1>3 DEF Next

\* The two invariants together hold in every execution.
THEOREM WinningInvariance == Spec => [](IInv /\ WInv)
<1>1. Init => IInv /\ WInv
  BY InitEstablishes, InitWins
<1>2. (IInv /\ WInv) /\ [Next]_vars => (IInv /\ WInv)'
  BY NextPreserves, NextWins
<1>3. QED  BY <1>1, <1>2, PTL DEF Spec

\* No interleaving of lost CAS and releases leaves a tree locked that no path
\* runs through, or unlocks one that a path needs.
THEOREM NoLockLeaks == Spec => []LocksAccounted
<1>1. IInv /\ WInv => LocksAccounted
  BY DEF IInv, WInv, LocksInductive, LockedHasOwner, LocksAccounted
<1>2. QED  BY <1>1, WinningInvariance, PTL

\* With any number of threads losing CAS to each other, a phase whose
\* frontier holds a bridge ends with a path.
THEOREM SomePath == Spec => []SomeBridgeWins
<1>1. IInv /\ WInv => SomeBridgeWins
  <2>1. SUFFICES ASSUME IInv, WInv, Joined, path_collection = <<>>,
                        NEW i \in DOMAIN edges, IsBridge(edges[i][1], edges[i][2])
                 PROVE  FALSE
    BY DEF SomeBridgeWins
  <2>2. \A t \in Thread : /\ pc[t] = "done"
                          /\ todo[t] = <<>> /\ local_path[t] = <<>>
    BY <2>1 DEF Joined, WInv, DoneIsEmpty
  <2>3. Range(<<>>) = {} /\ DOMAIN <<>> = {}
    BY DEF Range
  <2>4. OnPath = {}
    BY <2>1, <2>2, <2>3 DEF OnPath
  <2>5. \E t \in Thread : edges[i] \in Range(todo[t])
    BY <2>1, <2>2, <2>4 DEF WInv, BridgesAhead
  <2>6. QED  BY <2>2, <2>3, <2>5
<1>2. QED  BY <1>1, WinningInvariance, PTL

-----------------------------------------------------------------------------
\* One worker step is a pairing of two free trees or changes no pairing.
LEMMA StepPairs ==
  ASSUME IInv, NEW t \in Thread, Worker(t), UNCHANGED <<forestVars, edges>>
  PROVE  [Pairing!Next]_<<Bridges, {belongs[x] : x \in OnPath}>>
<1>1. /\ belongs' = belongs /\ edges' = edges /\ is_even' = is_even
  BY DEF forestVars
<1>2. Bridges' = Bridges
  BY <1>1 DEF Bridges, IsBridge
<1>3. CASE OnPath' = OnPath
  BY <1>1, <1>2, <1>3
<1>4. CASE LockSecond(t)
  <2> DEFINE e == Edge(t)
             a == belongs[e[1]]
             b == belongs[e[2]]
             p == JoinWalks(path_table, e[1], e[2])
             taken == {belongs[x] : x \in OnPath}
  <2>1. /\ HoldsFirst(t)
        /\ {belongs[x] : x \in Range(p)} = {FirstTree(e), SecondTree(e)}
        /\ OnPath' = OnPath \cup Range(p)
    BY <1>4, NewPath
  <2>2. /\ e \in Range(edges) /\ IsBridge(e[1], e[2])
        /\ \A x \in OnPath : belongs[x] # FirstTree(e)
    BY <2>1, Held
  <2>3. {FirstTree(e), SecondTree(e)} = {a, b}
    BY <2>2, BridgeTrees DEF IInv
  <2>4. \A x \in OnPath : belongs[x] # SecondTree(e)
    BY <1>4 DEF LockSecond, IInv, LocksInductive
  <2>5. <<a, b>> \in Bridges
    BY <2>2 DEF Bridges, Range
  <2>6. a # b
    BY <2>2 DEF IsBridge
  <2>7. {a, b} \cap taken = {}
    BY <2>2, <2>3, <2>4
  <2>8. taken' = taken \cup {a, b}
    BY <2>1, <2>3, <1>1
  <2>9. Pairing!Next
    <3>1. PICK f \in Bridges : f = <<a, b>>
      BY <2>5
    <3>2. f[1] = a /\ f[2] = b
      BY <3>1
    <3> HIDE DEF a, b
    <3>3. /\ <<f[1], f[2]>> \in Bridges
          /\ f[1] # f[2]
          /\ {f[1], f[2]} \cap taken = {}
          /\ taken' = taken \cup {f[1], f[2]}
      BY <2>5, <2>6, <2>7, <2>8, <3>2
    <3>4. QED  BY <3>3, <1>2 DEF Pairing!Next, Pairing!Pair
  <2>10. QED  BY <2>9
<1>5. CASE Merge(t)
  BY <1>3, <1>5, MergePreserves
<1>6. CASE Skip(t) \/ LockFirst(t) \/ LockFirstFails(t) \/ LockSecondFails(t) \/ Release(t)
  <2>1. UNCHANGED <<local_path, path_collection>>
    BY <1>6 DEF Skip, LockFirst, LockFirstFails, LockSecondFails, Release
  <2>2. QED  BY <2>1, <1>3 DEF OnPath
<1>7. QED  BY <1>4, <1>5, <1>6 DEF Worker

\* The phase implements TreePairing: whatever the threads and locks do, it
\* pairs trees over the bridges of the frontier, every tree at most once.
THEOREM ImplementsPairing == Spec => PairsTrees
<1>1. Init => Pairing!Init
  <2>1. Range(<<>>) = {}
    BY DEF Range
  <2>2. Init => OnPath = {}
    BY <2>1 DEF Init, OnPath
  <2>3. QED  BY <2>2 DEF Pairing!Init
<1>2. IInv /\ [Next]_vars => [Pairing!Next]_<<Bridges, {belongs[x] : x \in OnPath}>>
  <2> SUFFICES ASSUME IInv, [Next]_vars
               PROVE  [Pairing!Next]_<<Bridges, {belongs[x] : x \in OnPath}>>
    OBVIOUS
  <2>1. CASE UNCHANGED vars
    BY <2>1 DEF vars, forestVars, workerVars, Bridges, IsBridge, OnPath
  <2>2. CASE \E t \in Thread : Worker(t) /\ UNCHANGED <<forestVars, edges>>
    BY <2>2, StepPairs
  <2>3. CASE Terminated
    BY <2>1, <2>3 DEF Terminated
  <2>4. QED  BY <2>1, <2>2, <2>3 DEF Next
<1>3. QED  BY <1>1, <1>2, Invariance, PTL DEF Spec, PairsTrees, Pairing!Spec
=============================================================================
