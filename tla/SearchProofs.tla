---------------------------- MODULE SearchProofs ----------------------------
(***************************************************************************)
(* Why a search of the node-sharing engines is right, one lemma per step   *)
(* of a thread or a driver, whatever engine takes it.  The first half is   *)
(* what every step keeps without any assumption on the blossoms (Basic):   *)
(* types, the places of the threads, mutual mates, and that a pair or a    *)
(* node claimed by CAS has one owner.  The second half is that every step  *)
(* keeps Sound, as long as the blossom phase leaves every walk legal.      *)
(***************************************************************************)
EXTENDS SearchInvariants, ForestLemmas

\* The edge a thread is at, and what is left behind it.
LEMMA EdgeFacts ==
  ASSUME TypeOK, NEW t \in Thread, todo[t] # <<>>
  PROVE  /\ Edge(t) \in Node \X Node /\ Edge(t) \in Range(todo[t])
         /\ Edge(t)[1] \in Node /\ Edge(t)[2] \in Node
         /\ Tail(todo[t]) \in Seq(Node \X Node)
         /\ Range(Tail(todo[t])) \subseteq Range(todo[t])
<1> DEFINE s == todo[t]
<1>1. s \in Seq(Node \X Node)
  BY DEF TypeOK
<1>2. s # <<>>
  OBVIOUS
<1>3. Edge(t) = Head(s) /\ Tail(s) = Tail(todo[t]) /\ s = todo[t]
  BY DEF Edge
<1> HIDE DEF s
<1>4. /\ Tail(s) \in Seq(Node \X Node) /\ Head(s) \in Range(s)
      /\ Range(Tail(s)) \subseteq Range(s)
  BY <1>1, <1>2, TailRange
<1>5. Head(s) \in Node \X Node
  BY <1>1, <1>2, HeadTailProperties
<1>6. QED  BY <1>3, <1>4, <1>5

\* The node a thread visits on its blossom.
LEMMA LapFacts ==
  ASSUME TypeOK, NEW t \in Thread, lap[t] # <<>>
  PROVE  /\ Head(lap[t]) \in Range(lap[t])
         /\ Current(t) \in Node /\ Entry(t) \in Seq(Node)
         /\ Tail(lap[t]) \in Seq(Node \X Seq(Node))
         /\ Range(Tail(lap[t])) \subseteq Range(lap[t])
<1> DEFINE s == lap[t]
           S == Node \X Seq(Node)
<1>1. s \in Seq(S)
  BY DEF TypeOK
<1>2. s # <<>>
  OBVIOUS
<1>3. Current(t) = Head(s)[1] /\ Entry(t) = Head(s)[2]
  BY DEF Current, Entry
<1> HIDE DEF s, S
<1>4. /\ Tail(s) \in Seq(S) /\ Head(s) \in Range(s)
      /\ Range(Tail(s)) \subseteq Range(s)
  BY <1>1, <1>2, TailRange
<1>5. Head(s) \in S
  BY <1>1, <1>2, HeadTailProperties
<1>6. Head(s)[1] \in Node /\ Head(s)[2] \in Seq(Node)
  BY <1>5 DEF S
<1>7. QED  BY <1>3, <1>4, <1>6 DEF s, S


\* Thread t goes to p with the edges s.
Moves(t, p, s) ==
  /\ pc' = [pc EXCEPT ![t] = p]
  /\ todo' = [todo EXCEPT ![t] = s]
  /\ s \in Seq(Node \X Node)
  /\ p \in Busy => s # <<>>

\* Going on to another edge is a move.
LEMMA GoOnMoves ==
  ASSUME TypeOK, NEW t \in Thread, NEW s \in Seq(Node \X Node), GoOn(t, s)
  PROVE  \E p \in {"fetch", "scan"} : Moves(t, p, s)
BY DEF GoOn, Moves, Busy, Owning, Filling, Holding

\* A step that keeps the share is a move.
LEMMA StepMoves ==
  ASSUME TypeOK, NEW t \in Thread, NEW from, NEW to, Step(t, from, to),
         todo' = todo, to \in Busy => todo[t] # <<>>
  PROVE  Moves(t, to, todo[t])
BY DEF TypeOK, Step, Moves

\* What is left of a row when the CAS on v's tree fails.
LEMMA RestOfShare ==
  ASSUME TypeOK, NEW t \in Thread, NEW T
  PROVE  /\ Among(todo[t], T) \in Seq(Node \X Node)
         /\ Range(Among(todo[t], T)) \subseteq Range(todo[t])
<1> DEFINE s == todo[t]
           S == Node \X Node
<1>1. s \in Seq(S)
  BY DEF TypeOK
<1> HIDE DEF s, S
<1>2. /\ Among(s, T) \in Seq(S)
      /\ \A x : x \in Range(Among(s, T)) <=> x \in Range(s) /\ x \in T
  BY <1>1, AmongFacts
<1>3. QED  BY <1>2 DEF s, S

\* Where a step of the augment phase leads, with what is left of the share.
LEMMA AugmentMoves ==
  ASSUME TypeOK, ThreadsPlaced, phase = "augment", NEW t \in Thread, Augments(t)
  PROVE  \E p \in AugmentPoints : \E s \in Seq(Node \X Node) :
            Moves(t, p, s) /\ Range(s) \subseteq Range(todo[t])
<1>1. pc[t] \in Busy => todo[t] # <<>>
  BY DEF ThreadsPlaced
<1>2. todo[t] \in Seq(Node \X Node)
  BY DEF TypeOK
<1>3. CASE LockV(t)
  <2>1. Moves(t, "second", todo[t])
    BY <1>1, <1>3, StepMoves DEF LockV, Step, Busy
  <2>2. QED  BY <2>1, <1>2 DEF AugmentPoints, Holding
<1>4. CASE LockVFails(t)
  <2> DEFINE s == Among(todo[t], {e \in Range(todo[t]) : e[1] # Edge(t)[1]})
  <2>1. s \in Seq(Node \X Node) /\ Range(s) \subseteq Range(todo[t])
    BY RestOfShare
  <2>2. GoOn(t, s)
    BY <1>4 DEF LockVFails
  <2> HIDE DEF s
  <2>3. PICK p \in {"fetch", "scan"} : Moves(t, p, s)
    BY <2>1, <2>2, GoOnMoves
  <2>4. QED  BY <2>1, <2>3 DEF AugmentPoints
<1>5. CASE pc[t] \in Busy /\ NextEdge(t)
  <2>1. Tail(todo[t]) \in Seq(Node \X Node) /\ Range(Tail(todo[t])) \subseteq Range(todo[t])
    BY <1>1, <1>5, EdgeFacts
  <2>2. GoOn(t, Tail(todo[t]))
    BY <1>5 DEF NextEdge
  <2>3. PICK p \in {"fetch", "scan"} : Moves(t, p, Tail(todo[t]))
    BY <2>1, <2>2, GoOnMoves
  <2>4. QED  BY <2>1, <2>3 DEF AugmentPoints
<1>6. CASE LockW(t) \/ ReleaseV(t)
  BY <1>5, <1>6 DEF LockW, ReleaseV, Busy, Holding
<1>7. CASE LockWFails(t)
  <2>1. Moves(t, "release", todo[t])
    BY <1>1, <1>7, StepMoves DEF LockWFails, Step, Busy, Holding
  <2>2. QED  BY <2>1, <1>2 DEF AugmentPoints, Holding
<1>8. CASE \E at \in {"merge", "fetch"} : AugmentMerge(t, at)
  <2>1. PICK at : AugmentMerge(t, at)
    BY <1>8
  <2>2. Moves(t, "done", todo[t])
    BY <2>1, StepMoves DEF AugmentMerge, EndThread, Busy, Owning, Filling, Holding
  <2>3. QED  BY <2>2, <1>2 DEF AugmentPoints
<1>9. QED  BY <1>3, <1>4, <1>6, <1>7, <1>8 DEF Augments, AugmentStep

-----------------------------------------------------------------------------
\* A move keeps the types of pc and todo and touches no other thread.
LEMMA MovesType ==
  ASSUME TypeOK, NEW t \in Thread, NEW s, NEW p, Moves(t, p, s),
         p \in AugmentPoints \cup ExpandPoints \cup BlossomPoints
                \cup {"stripe", "crashed", "flip"}
  PROVE  /\ pc' \in [Thread -> {"stripe", "fetch", "scan", "merge", "done", "second",
                               "release", "claim", "grow", "own", "mate", "visit",
                               "fill", "undo", "even", "flip", "crashed"}]
         /\ todo' \in [Thread -> Seq(Node \X Node)]
         /\ pc'[t] = p /\ todo'[t] = s
         /\ \A u \in Thread : u # t => pc'[u] = pc[u] /\ todo'[u] = todo[u]
BY DEF TypeOK, Moves, AugmentPoints, ExpandPoints, BlossomPoints, Owning, Filling, Holding

\* A path through a bridge is made of nodes.
LEMMA JoinType ==
  ASSUME NEW table \in [Node -> Seq(Node)], NEW v \in Node, NEW w \in Node
  PROVE  JoinWalks(table, v, w) \in Seq(Node)
<1> DEFINE p == Walk(table, v)
           q == Walk(table, w)
<1>1. p \in Seq(Node) /\ q \in Seq(Node)
  BY WalkType
<1>2. JoinWalks(table, v, w) = Reverse(p) \o q
  BY DEF JoinWalks
<1> HIDE DEF p, q
<1>3. Reverse(p) \in Seq(Node)
  BY <1>1, ReverseRange
<1>4. QED  BY <1>1, <1>2, <1>3, ConcatProperties

\* The augment phase (parAugmentingPath_pro_all) keeps Basic.
LEMMA AugmentBasic ==
  ASSUME Basic, phase = "augment", NEW t \in Thread, Augments(t)
  PROVE  Basic'
<1>0. /\ adj' = adj /\ M' = M /\ is_even' = is_even /\ belongs' = belongs
      /\ path_table' = path_table /\ vector_1' = vector_1 /\ vector_2' = vector_2
      /\ nodes_vector' = nodes_vector /\ select_match' = select_match
      /\ select_blossom' = select_blossom /\ phase' = phase /\ lap' = lap
  BY DEF Augments, forestVars, frontierVars, AugmentStep, AugmentMerge, EndThread
<1>1. TypeOK /\ ThreadsPlaced /\ MatesKept /\ ExposedInTrees /\ EntriesNeverOne
  BY DEF Basic
<1>2. PICK p \in AugmentPoints, s \in Seq(Node \X Node) : Moves(t, p, s)
  BY <1>1, AugmentMoves
<1>3. /\ pc' \in [Thread -> {"stripe", "fetch", "scan", "merge", "done", "second",
                            "release", "claim", "grow", "own", "mate", "visit",
                            "fill", "undo", "even", "flip", "crashed"}]
      /\ todo' \in [Thread -> Seq(Node \X Node)]
      /\ pc'[t] = p /\ todo'[t] = s
      /\ \A u \in Thread : u # t => pc'[u] = pc[u] /\ todo'[u] = todo[u]
  BY <1>1, <1>2, MovesType
<1>4. ThreadsPlaced'
  BY <1>0, <1>1, <1>2, <1>3 DEF ThreadsPlaced, Moves
<1>5. local' \in [Thread -> Seq(Node)] /\ path_collection' \in Seq(Seq(Node))
      /\ select_tree' \in [Node -> {0, 1}]
  <2>0. /\ local \in [Thread -> Seq(Node)] /\ path_collection \in Seq(Seq(Node))
        /\ select_tree \in [Node -> {0, 1}] /\ path_table \in [Node -> Seq(Node)]
    BY <1>1 DEF TypeOK, ForestTypeOK
  <2>1. CASE LockV(t) \/ LockVFails(t) \/ LockWFails(t) \/ ReleaseV(t)
    BY <2>0, <2>1 DEF LockV, LockVFails, LockWFails, ReleaseV
  <2>2. CASE LockW(t)
    <3>1. todo[t] # <<>>
      BY <2>2, <1>1 DEF LockW, ThreadsPlaced, Busy, Holding
    <3>2. Edge(t)[1] \in Node /\ Edge(t)[2] \in Node
      BY <3>1, <1>1, EdgeFacts
    <3> DEFINE path == JoinWalks(path_table, Edge(t)[1], Edge(t)[2])
    <3>3. path \in Seq(Node)
      BY <3>2, <2>0, JoinType
    <3>4. /\ local' = [local EXCEPT ![t] = @ \o path]
          /\ path_collection' = path_collection
          /\ select_tree' = [select_tree EXCEPT ![TreeW(t)] = 1]
      BY <2>2 DEF LockW
    <3> HIDE DEF path
    <3>5. local[t] \in Seq(Node)
      BY <2>0
    <3>6. local[t] \o path \in Seq(Node)
      BY <3>3, <3>5, ConcatProperties
    <3>7. QED  BY <2>0, <3>4, <3>6
  <2>3. CASE \E at \in {"merge", "fetch"} : AugmentMerge(t, at)
    <3>1. /\ local' = [local EXCEPT ![t] = <<>>]
          /\ path_collection' = IF local[t] = <<>> THEN path_collection
                                ELSE Append(path_collection, local[t])
          /\ select_tree' = select_tree
      BY <2>3 DEF AugmentMerge, EndThread
    <3>2. local[t] \in Seq(Node)
      BY <2>0
    <3>3. Append(path_collection, local[t]) \in Seq(Seq(Node))
      BY <3>2, <2>0, AppendProperties
    <3>4. QED  BY <3>1, <3>3, <2>0
  <2>4. QED  BY <2>1, <2>2, <2>3 DEF Augments, AugmentStep
<1>6. TypeOK'
  BY <1>0, <1>1, <1>3, <1>5 DEF TypeOK, ForestTypeOK
<1>7. MatesKept' /\ ExposedInTrees' /\ EntriesNeverOne'
  BY <1>0, <1>1 DEF MatesKept, MatesMutual, Matched, ExposedInTrees, EntriesNeverOne, Repaired, SearchPhases
<1>8. PairOwners' /\ NodeOwners'
  BY <1>0 DEF PairOwners, NodeOwners
<1>9. QED  BY <1>4, <1>6, <1>7, <1>8 DEF Basic

-----------------------------------------------------------------------------
\* Where a step of the expand phase leads; a pair is won in ClaimPair only.
LEMMA ExpandMoves ==
  ASSUME TypeOK, ThreadsPlaced, phase = "expand", NEW t \in Thread, Expands(t)
  PROVE  \E p \in ExpandPoints : \E s \in Seq(Node \X Node) :
            /\ Moves(t, p, s) /\ Range(s) \subseteq Range(todo[t])
            /\ p \in Owning => s = todo[t] /\ (pc[t] \in Owning \/ ClaimPair(t))
            /\ p = "claim" => ExpandTest(t)
<1>1. pc[t] \in Busy => todo[t] # <<>>
  BY DEF ThreadsPlaced
<1>2. todo[t] \in Seq(Node \X Node)
  BY DEF TypeOK
<1>3. CASE ExpandTest(t)
  <2>1. Moves(t, "claim", todo[t])
    BY <1>1, <1>3, StepMoves DEF ExpandTest, Step, Busy
  <2>2. QED  BY <2>1, <1>2, <1>3 DEF ExpandPoints, Owning
<1>4. CASE ClaimPair(t)
  <2>1. Moves(t, "grow", todo[t])
    BY <1>1, <1>4, StepMoves DEF ClaimPair, Step, Busy
  <2>2. QED  BY <2>1, <1>2, <1>4 DEF ExpandPoints, Owning
<1>5. CASE Grow(t)
  <2>1. pc[t] = "grow" /\ Step(t, "grow", "own") /\ todo' = todo
    BY <1>5 DEF Grow, Step
  <2>2. Moves(t, "own", todo[t])
    BY <2>1, <1>1, StepMoves DEF Busy, Owning
  <2>3. QED  BY <2>1, <2>2, <1>2 DEF ExpandPoints, Owning
<1>6. CASE OwnW(t)
  <2>1. pc[t] = "own" /\ Step(t, "own", "mate") /\ todo' = todo
    BY <1>6 DEF OwnW, Step
  <2>2. Moves(t, "mate", todo[t])
    BY <2>1, <1>1, StepMoves DEF Busy, Owning
  <2>3. QED  BY <2>1, <2>2, <1>2 DEF ExpandPoints, Owning
<1>7. CASE pc[t] \in Busy /\ NextEdge(t)
  <2>1. Tail(todo[t]) \in Seq(Node \X Node) /\ Range(Tail(todo[t])) \subseteq Range(todo[t])
    BY <1>1, <1>7, EdgeFacts
  <2>2. GoOn(t, Tail(todo[t]))
    BY <1>7 DEF NextEdge
  <2>3. PICK p \in {"fetch", "scan"} : Moves(t, p, Tail(todo[t]))
    BY <2>1, <2>2, GoOnMoves
  <2>4. QED  BY <2>1, <2>3 DEF ExpandPoints, Owning
<1>8. CASE ExpandSkip(t) \/ ClaimPairFails(t) \/ OwnMate(t)
  BY <1>7, <1>8 DEF ExpandSkip, ClaimPairFails, OwnMate, Busy, Owning
<1>9. CASE \E at \in {"merge", "fetch"} : ExpandMerge(t, at)
  <2>1. PICK at : ExpandMerge(t, at)
    BY <1>9
  <2>2. Moves(t, "done", todo[t])
    BY <2>1, StepMoves DEF ExpandMerge, EndThread, Busy, Owning, Filling, Holding
  <2>3. QED  BY <2>2, <1>2 DEF ExpandPoints, Owning
<1>10. QED  BY <1>3, <1>4, <1>5, <1>6, <1>8, <1>9 DEF Expands, ExpandStep

\* The matched pair of a thread that has passed the test.
LEMMA MateFacts ==
  ASSUME TypeOK, ThreadsPlaced, MatesMutual, NEW t \in Thread, todo[t] # <<>>,
         M[Edge(t)[2]] # NoNode
  PROVE  /\ Edge(t)[1] \in Node /\ Edge(t)[2] \in Node /\ Mate(t) \in Node
         /\ Mate(t) = M[Edge(t)[2]] /\ M[Mate(t)] = Edge(t)[2] /\ M[Mate(t)] # NoNode
         /\ MatchSlot(t) \in Node
         /\ MatchSlot(t) = Slot(Edge(t)[2])
<1>1. Edge(t)[1] \in Node /\ Edge(t)[2] \in Node
  BY EdgeFacts
<1>2. M[Edge(t)[2]] \in Node
  BY <1>1 DEF TypeOK, ForestTypeOK
<1>3. Edge(t)[2] \in Matched(M)
  BY <1>1 DEF Matched
<1>4. M[M[Edge(t)[2]]] = Edge(t)[2]
  BY <1>3 DEF MatesMutual
<1>5. Edge(t)[2] # NoNode
  BY <1>1, NodesAssumption DEF Node, NoNode
<1>6. QED  BY <1>1, <1>2, <1>4, <1>5 DEF Mate, MatchSlot, Slot

\* The expand phase (parExpand_pro_all) keeps Basic: a pair has one owner.
LEMMA ExpandBasic ==
  ASSUME Basic, phase = "expand", NEW t \in Thread, Expands(t)
  PROVE  Basic'
<1>0. /\ adj' = adj /\ M' = M /\ vector_2' = vector_2
      /\ nodes_vector' = nodes_vector /\ select_tree' = select_tree
      /\ select_blossom' = select_blossom /\ path_collection' = path_collection
      /\ phase' = phase /\ lap' = lap
  BY DEF Expands, ExpandStep, ExpandMerge, EndThread
<1>1. TypeOK /\ ThreadsPlaced /\ MatesMutual /\ ExposedInTrees /\ EntriesNeverOne /\ PairOwners
  BY DEF Basic, MatesKept
<1>2. PICK p \in ExpandPoints, s \in Seq(Node \X Node) :
        /\ Moves(t, p, s)
        /\ p \in Owning => s = todo[t] /\ (pc[t] \in Owning \/ ClaimPair(t))
        /\ p = "claim" => ExpandTest(t)
  BY <1>1, ExpandMoves
<1>3. /\ pc' \in [Thread -> {"stripe", "fetch", "scan", "merge", "done", "second",
                            "release", "claim", "grow", "own", "mate", "visit",
                            "fill", "undo", "even", "flip", "crashed"}]
      /\ todo' \in [Thread -> Seq(Node \X Node)]
      /\ pc'[t] = p /\ todo'[t] = s
      /\ \A u \in Thread : u # t => pc'[u] = pc[u] /\ todo'[u] = todo[u]
  BY <1>1, <1>2, MovesType
<1>4. ThreadsPlaced'
  BY <1>0, <1>1, <1>2, <1>3 DEF ThreadsPlaced, Moves
<1>5. pc[t] \in {"claim"} \cup Owning =>
        /\ todo[t] # <<>> /\ M[Edge(t)[2]] # NoNode
        /\ Edge(t)[1] \in Node /\ Edge(t)[2] \in Node /\ Mate(t) \in Node
        /\ Mate(t) = M[Edge(t)[2]] /\ M[Mate(t)] # NoNode
        /\ MatchSlot(t) \in Node
  <2>1. SUFFICES ASSUME pc[t] \in {"claim"} \cup Owning
                 PROVE  todo[t] # <<>> /\ M[Edge(t)[2]] # NoNode
    BY <1>1, MateFacts
  <2>2. QED  BY <2>1, <1>1 DEF ThreadsPlaced, PairOwners, Busy
<1>6. /\ local' \in [Thread -> Seq(Node)] /\ vector_1' \in Seq(Node)
      /\ select_match' \in [Node -> {0, 1}]
      /\ is_even' \in [Node -> {0, 1}] /\ belongs' \in [Node -> Node \cup {NoNode}]
      /\ path_table' \in [Node -> Seq(Node)]
      /\ \A x \in Node : Len(path_table'[x]) # 1
      /\ \A x \in Node : M[x] = NoNode => belongs'[x] = belongs[x]
      /\ \A r \in Node : select_match[r] = 1 => select_match'[r] = 1
  <2>0. /\ local \in [Thread -> Seq(Node)] /\ vector_1 \in Seq(Node)
        /\ select_match \in [Node -> {0, 1}]
        /\ is_even \in [Node -> {0, 1}] /\ belongs \in [Node -> Node \cup {NoNode}]
        /\ path_table \in [Node -> Seq(Node)]
        /\ \A x \in Node : Len(path_table[x]) # 1
    BY <1>1 DEF TypeOK, ForestTypeOK, EntriesNeverOne
  <2>1. CASE ExpandSkip(t) \/ ExpandTest(t) \/ ClaimPairFails(t)
    BY <2>0, <2>1, <1>0 DEF ExpandSkip, ExpandTest, ClaimPairFails, Expands, ExpandStep, EndThread, ExpandMerge, Step
  <2>2. CASE ClaimPair(t)
    BY <2>0, <2>2, <1>0 DEF ClaimPair, Expands, ExpandStep, EndThread, ExpandMerge, Step
  <2>3. CASE Grow(t)
    <3>1. Edge(t)[1] \in Node /\ Edge(t)[2] \in Node /\ Mate(t) \in Node
      BY <2>3, <1>5 DEF Grow, Step, Owning
    <3> DEFINE x == Mate(t)  w == Edge(t)[2]  v == Edge(t)[1]  e == path_table[x]
    <3>2. /\ path_table' = [path_table EXCEPT ![x] = @ \o <<w, v>>]
          /\ is_even' = [is_even EXCEPT ![w] = 0, ![x] = 1]
          /\ select_match' = select_match /\ belongs' = belongs /\ local' = local
          /\ pc[t] = "grow"
      BY <2>3 DEF Grow, Step
    <3>3. vector_1' = vector_1
      BY <2>3, <3>2 DEF Expands, ExpandStep, ExpandMerge, EndThread, Step, Grow
    <3> HIDE DEF x, w, v
    <3>4. x \in Node /\ w \in Node /\ v \in Node
      BY <3>1 DEF x, w, v
    <3>5. e \in Seq(Node) /\ <<w, v>> \in Seq(Node) /\ Len(<<w, v>>) = 2
      BY <3>4, <2>0
    <3>6. path_table' = [path_table EXCEPT ![x] = e \o <<w, v>>]
      BY <3>2
    <3> HIDE DEF e
    <3>7. e \o <<w, v>> \in Seq(Node) /\ Len(e \o <<w, v>>) = Len(e) + 2 /\ Len(e) \in Nat
      BY <3>5, ConcatProperties, LenProperties
    <3>8. Len(e \o <<w, v>>) # 1
      BY <3>7
    <3>9. path_table' \in [Node -> Seq(Node)] /\ \A y \in Node : Len(path_table'[y]) # 1
      BY <3>4, <3>6, <3>7, <3>8, <2>0
    <3>10. is_even' \in [Node -> {0, 1}]
      BY <3>2, <3>4, <2>0
    <3>11. QED  BY <3>2, <3>3, <3>9, <3>10, <2>0
  <2>4. CASE OwnW(t)
    <3>1. Edge(t)[1] \in Node /\ Edge(t)[2] \in Node /\ M[Edge(t)[2]] # NoNode
      BY <2>4, <1>5 DEF OwnW, Step, Owning
    <3>2. /\ belongs' = [belongs EXCEPT ![Edge(t)[2]] = belongs[Edge(t)[1]]]
          /\ path_table' = path_table /\ is_even' = is_even
          /\ select_match' = select_match /\ local' = local /\ pc[t] = "own"
      BY <2>4 DEF OwnW, Step
    <3>3. vector_1' = vector_1
      BY <2>4, <3>2 DEF Expands, ExpandStep, ExpandMerge, EndThread, Step, OwnW
    <3>4. QED  BY <3>1, <3>2, <3>3, <2>0
  <2>5. CASE OwnMate(t)
    <3>1. Edge(t)[1] \in Node /\ Mate(t) \in Node /\ M[Mate(t)] # NoNode
      BY <2>5, <1>5 DEF OwnMate, Owning
    <3>2. /\ belongs' = [belongs EXCEPT ![Mate(t)] = belongs[Edge(t)[1]]]
          /\ path_table' = path_table /\ is_even' = is_even
          /\ select_match' = select_match /\ pc[t] = "mate"
          /\ local' = [local EXCEPT ![t] = Append(@, Mate(t))]
      BY <2>5 DEF OwnMate
    <3>3. vector_1' = vector_1
      BY <2>5, <3>2 DEF Expands, ExpandStep, ExpandMerge, EndThread, Step
    <3>4. local[t] \in Seq(Node)
      BY <2>0
    <3>5. Append(local[t], Mate(t)) \in Seq(Node)
      BY <3>1, <3>4, AppendProperties
    <3>6. QED  BY <3>1, <3>2, <3>3, <3>5, <2>0
  <2>6. CASE \E at \in {"merge", "fetch"} : ExpandMerge(t, at)
    <3>1. /\ local' = [local EXCEPT ![t] = <<>>] /\ vector_1' = vector_1 \o local[t]
          /\ select_match' = select_match /\ is_even' = is_even /\ belongs' = belongs
          /\ path_table' = path_table
      BY <2>6 DEF ExpandMerge, EndThread
    <3>2. local[t] \in Seq(Node)
      BY <2>0
    <3>3. vector_1 \o local[t] \in Seq(Node)
      BY <3>2, <2>0, ConcatProperties
    <3>4. QED  BY <3>1, <3>3, <2>0
  <2>7. QED  BY <2>1, <2>2, <2>3, <2>4, <2>5, <2>6 DEF Expands, ExpandStep
<1>7. TypeOK'
  BY <1>0, <1>1, <1>3, <1>6 DEF TypeOK, ForestTypeOK
<1>8. MatesKept' /\ ExposedInTrees' /\ EntriesNeverOne' /\ NodeOwners'
  BY <1>0, <1>1, <1>6 DEF MatesKept, MatesMutual, Matched, ExposedInTrees, EntriesNeverOne,
     NodeOwners, Repaired, SearchPhases
<1>9. \A u \in Thread : todo'[u] = todo[u] =>
        /\ Edge(u)' = Edge(u) /\ Mate(u)' = Mate(u) /\ MatchSlot(u)' = MatchSlot(u)
  BY <1>0 DEF Edge, Mate, MatchSlot
<1>10. PairOwners'
  <2>1. \A u \in Thread : pc'[u] \in {"claim"} \cup Owning => M'[Edge(u)'[2]] # NoNode
    <3>1. SUFFICES ASSUME p \in {"claim"} \cup Owning
                   PROVE  todo'[t] = todo[t] /\ M[Edge(t)[2]] # NoNode
      BY <1>0, <1>1, <1>3, <1>9 DEF PairOwners
    <3>2. CASE p \in Owning
      BY <3>2, <1>1, <1>2, <1>3 DEF PairOwners, ClaimPair, Step
    <3>3. CASE p = "claim"
      <4>1. pc[t] = "scan" /\ belongs[Edge(t)[2]] = NoNode /\ todo' = todo
        BY <3>3, <1>2 DEF ExpandTest, Step, NoTreeYet
      <4>2. Edge(t)[2] \in Node
        BY <4>1, <1>1, EdgeFacts DEF ThreadsPlaced, Busy
      <4>3. QED  BY <4>1, <4>2, <1>1 DEF ExposedInTrees, Repaired, SearchPhases
    <3>4. QED  BY <3>1, <3>2, <3>3
  <2>2. \A u \in Thread : u # t /\ pc[u] \in Owning => MatchSlot(u) \in Node
    <3>1. SUFFICES ASSUME NEW u \in Thread, pc[u] \in Owning
                   PROVE  todo[u] # <<>> /\ M[Edge(u)[2]] # NoNode
      BY <1>1, MateFacts
    <3>2. QED  BY <3>1, <1>1 DEF ThreadsPlaced, PairOwners, Busy
  <2>3. CASE p \in Owning /\ ClaimPair(t)
    <3>1. /\ MatchSlot(t) \in Node /\ select_match[MatchSlot(t)] = 0
          /\ select_match'[MatchSlot(t)] = 1 /\ todo'[t] = todo[t]
      BY <2>3, <1>1, <1>2, <1>3, <1>5 DEF ClaimPair, Step, TypeOK
    <3>2. \A u \in Thread : u # t /\ pc[u] \in Owning => MatchSlot(u) # MatchSlot(t)
      BY <3>1, <1>1 DEF PairOwners
    <3>3. \A u \in Thread : pc'[u] \in Owning => select_match'[MatchSlot(u)'] = 1
      BY ZenonT(30), <3>1, <2>2, <1>1, <1>3, <1>6, <1>9 DEF PairOwners
    <3>4. \A u, w \in Thread : u # w /\ pc'[u] \in Owning /\ pc'[w] \in Owning =>
            MatchSlot(u)' # MatchSlot(w)'
      <4>1. \A u \in Thread : u # t /\ pc'[u] \in Owning =>
              pc[u] \in Owning /\ MatchSlot(u)' = MatchSlot(u)
        BY <1>3, <1>9
      <4>2. MatchSlot(t)' = MatchSlot(t)
        BY <3>1, <1>9
      <4>3. \A u, w \in Thread : u # w /\ pc[u] \in Owning /\ pc[w] \in Owning =>
              MatchSlot(u) # MatchSlot(w)
        BY <1>1 DEF PairOwners
      <4>4. SUFFICES ASSUME NEW u \in Thread, NEW w \in Thread, u # w,
                            pc'[u] \in Owning, pc'[w] \in Owning
                     PROVE  MatchSlot(u)' # MatchSlot(w)'
        OBVIOUS
      <4>5. CASE u = t
        BY <4>1, <4>2, <4>4, <4>5, <3>2
      <4>6. CASE w = t
        BY <4>1, <4>2, <4>4, <4>6, <3>2
      <4>7. CASE u # t /\ w # t
        BY <4>1, <4>3, <4>4, <4>7
      <4>8. QED  BY <4>5, <4>6, <4>7
    <3>5. QED  BY <2>1, <3>3, <3>4 DEF PairOwners
  <2>4. CASE ~(p \in Owning /\ ClaimPair(t))
    <3>1. p \in Owning => pc[t] \in Owning /\ todo'[t] = todo[t]
      BY <2>4, <1>2, <1>3
    <3>2. \A u \in Thread : pc'[u] \in Owning => pc[u] \in Owning /\ todo'[u] = todo[u]
      BY <3>1, <1>3
    <3>3. \A u \in Thread : pc'[u] \in Owning =>
            select_match[MatchSlot(u)] = 1 /\ MatchSlot(u) \in Node
      BY <3>2, <2>2, <1>1, <1>5 DEF PairOwners
    <3>4. \A u \in Thread : pc'[u] \in Owning => select_match'[MatchSlot(u)'] = 1
      BY <3>2, <3>3, <1>6, <1>9
    <3>5. \A u, w \in Thread : u # w /\ pc'[u] \in Owning /\ pc'[w] \in Owning =>
            MatchSlot(u)' # MatchSlot(w)'
      BY <3>2, <1>1, <1>9 DEF PairOwners
    <3>6. QED  BY <2>1, <3>4, <3>5 DEF PairOwners
  <2>5. QED  BY <2>3, <2>4
<1>11. QED  BY <1>4, <1>7, <1>8, <1>10 DEF Basic

-----------------------------------------------------------------------------
\* A list over the numbers to m, none if m is not positive.
LEMMA Listing ==
  ASSUME NEW S, NEW m \in Int, NEW f, f = [i \in 1 .. m |-> f[i]],
         \A i \in 1 .. m : f[i] \in S
  PROVE  /\ f \in Seq(S) /\ DOMAIN f = 1 .. m
         /\ \A x \in Range(f) : \E i \in 1 .. m : x = f[i]
<1>1. f \in [1 .. m -> S]
  OBVIOUS
<1>2. DOMAIN f = 1 .. m
  BY <1>1
<1>3. \A x \in Range(f) : \E i \in 1 .. m : x = f[i]
  BY <1>2 DEF Range
<1>4. CASE m >= 0
  BY <1>1, <1>2, <1>3, <1>4, SeqDef
<1>5. CASE m < 0
  <2>1. 1 .. m = 1 .. 0
    BY <1>5
  <2>2. f \in [1 .. 0 -> S] /\ 0 \in Nat
    BY <1>1, <2>1
  <2>3. f \in Seq(S)
    BY <2>2, SeqDef
  <2>4. QED  BY <1>2, <1>3, <2>3
<1>6. QED  BY <1>4, <1>5

\* A node of a cycle with an entry of at least two nodes.
IsLap(l, b) == /\ l[1] \in Range(b) /\ Len(l[2]) \notin {0, 1}
               /\ l \in Node \X Seq(Node)

\* A node of the first loop over a cycle, with the rest of the cycle.
LEMMA DownLap ==
  ASSUME NEW b \in Seq(Node), NEW k \in Nat, 1 <= k, k <= Len(b) - 2
  PROVE  IsLap(<<b[k], SubSeq(b, k + 1, Len(b))>>, b)
<1>0. Len(b) \in Nat /\ DOMAIN b = 1 .. Len(b) /\ \A i \in 1 .. Len(b) : b[i] \in Node
  BY LenProperties, ElementOfSeq
<1>1. k \in 1 .. Len(b) /\ k + 1 \in 1 .. Len(b) /\ Len(b) \in k .. Len(b)
  BY <1>0
<1>2. b[k] \in Node /\ b[k] \in Range(b)
  BY <1>0, <1>1 DEF Range
<1>3. SubSeq(b, k + 1, Len(b)) \in Seq(Node) /\ Len(SubSeq(b, k + 1, Len(b))) = Len(b) - k
  <2>1. SubSeq(b, k + 1, Len(b)) \in Seq(Node)
    BY <1>0, <1>1, SubSeqProperties
  <2>2. Len(SubSeq(b, k + 1, Len(b))) = Len(b) - (k + 1) + 1
    BY <1>0, <1>1, SubSeqProperties
  <2>3. Len(b) - (k + 1) + 1 = Len(b) - k
    BY <1>0
  <2>4. QED  BY <2>1, <2>2, <2>3
<1> DEFINE e == SubSeq(b, k + 1, Len(b))
<1> HIDE DEF e
<1>4. e \in Seq(Node) /\ Len(e) = Len(b) - k
  BY <1>3 DEF e
<1>5. Len(e) # 0 /\ Len(e) # 1
  <2>1. Len(b) \in Nat
    BY <1>0
  <2>2. Len(b) - k >= 2
    BY <2>1
  <2>3. QED  BY <2>1, <2>2, <1>4
<1>6. <<b[k], e>> \in Node \X Seq(Node) /\ <<b[k], e>>[1] = b[k] /\ <<b[k], e>>[2] = e
  BY <1>2, <1>4
<1>7. IsLap(<<b[k], e>>, b)
  BY <1>2, <1>5, <1>6 DEF IsLap
<1>8. QED  BY <1>7 DEF e

\* A node of the second loop, with the way back to the base.
LEMMA UpLap ==
  ASSUME NEW b \in Seq(Node), NEW k \in Nat, 3 <= k, k <= Len(b)
  PROVE  IsLap(<<b[k], Reverse(SubSeq(b, 1, k - 1))>>, b)
<1>0. Len(b) \in Nat /\ DOMAIN b = 1 .. Len(b) /\ \A i \in 1 .. Len(b) : b[i] \in Node
  BY LenProperties, ElementOfSeq
<1>2. b[k] \in Node /\ b[k] \in Range(b)
  <2>1. k \in 1 .. Len(b)
    BY <1>0
  <2>2. QED  BY <1>0, <2>1 DEF Range
<1> DEFINE c == SubSeq(b, 1, k - 1)
<1>3. c \in Seq(Node) /\ Len(c) = k - 1
  <2>1. 1 \in 1 .. Len(b) /\ k - 1 \in 1 .. Len(b) /\ k - 1 \in 0 .. Len(b)
    BY <1>0
  <2>2. c \in Seq(Node)
    BY <2>1, <1>0, SubSeqProperties
  <2>3. Len(c) = (k - 1) - 1 + 1
    BY <2>1, <1>0, SubSeqProperties
  <2>4. QED  BY <2>2, <2>3
<1> HIDE DEF c
<1>4. Reverse(c) \in Seq(Node) /\ Len(Reverse(c)) = k - 1
  <2>1. Reverse(c) \in Seq(Node)
    BY <1>3, ReverseRange
  <2>2. DOMAIN Reverse(c) = 1 .. Len(c)
    BY DEF Reverse
  <2>3. Len(Reverse(c)) = Len(c)
    BY <1>3, <2>1, <2>2, LenProperties
  <2>4. QED  BY <2>1, <2>3, <1>3
<1> DEFINE e == Reverse(c)
<1> HIDE DEF e
<1>5. e \in Seq(Node) /\ Len(e) = k - 1
  BY <1>4 DEF e
<1>6. Len(e) # 0 /\ Len(e) # 1
  BY <1>5
<1>7. <<b[k], e>> \in Node \X Seq(Node) /\ <<b[k], e>>[1] = b[k] /\ <<b[k], e>>[2] = e
  BY <1>2, <1>5
<1>8. IsLap(<<b[k], e>>, b)
  BY <1>2, <1>6, <1>7 DEF IsLap
<1>9. QED  BY <1>8 DEF e, c

\* The two loops visit nodes of the cycle, with entries of two nodes at least.
LEMMA LapsFacts ==
  ASSUME NEW b \in Seq(Node)
  PROVE  /\ Laps(b) \in Seq(Node \X Seq(Node))
         /\ \A l \in Range(Laps(b)) : IsLap(l, b)
<1> DEFINE n  == Len(b)
           S  == {l \in Node \X Seq(Node) : IsLap(l, b)}
           md == (n - 1) \div 2
           mu == (n - 2) \div 2
           down == [i \in 1 .. md |->
                      LET k == n - 2 * i IN  <<b[k], SubSeq(b, k + 1, n)>>]
           up   == [i \in 1 .. mu |->
                      LET k == 2 * i + 1 IN  <<b[k], Reverse(SubSeq(b, 1, k - 1))>>]
<1>0. n \in Nat /\ md \in Int /\ mu \in Int
  BY LenProperties
<1>1. Laps(b) = down \o up
  BY DEF Laps
<1>2. down \in Seq(S)
  <2>1. \A i \in 1 .. md : down[i] \in S
    <3>1. SUFFICES ASSUME NEW i \in 1 .. md
                   PROVE  IsLap(down[i], b)
      BY DEF IsLap
    <3> DEFINE k == n - 2 * i
    <3>2. k \in Nat /\ 1 <= k /\ k <= n - 2
      BY <1>0
    <3>3. down[i] = <<b[k], SubSeq(b, k + 1, n)>>
      OBVIOUS
    <3> HIDE DEF k, down
    <3>4. QED  BY <3>2, <3>3, DownLap
  <2>2. down = [i \in 1 .. md |-> down[i]]
    OBVIOUS
  <2> HIDE DEF down, md, S
  <2>3. QED  BY <1>0, <2>1, <2>2, Listing
<1>3. up \in Seq(S)
  <2>1. \A i \in 1 .. mu : up[i] \in S
    <3>1. SUFFICES ASSUME NEW i \in 1 .. mu
                   PROVE  IsLap(up[i], b)
      BY DEF IsLap
    <3> DEFINE k == 2 * i + 1
    <3>2. k \in Nat /\ 3 <= k /\ k <= n
      BY <1>0
    <3>3. up[i] = <<b[k], Reverse(SubSeq(b, 1, k - 1))>>
      OBVIOUS
    <3> HIDE DEF k, up
    <3>4. QED  BY <3>2, <3>3, UpLap
  <2>2. up = [i \in 1 .. mu |-> up[i]]
    OBVIOUS
  <2> HIDE DEF up, mu, S
  <2>3. QED  BY <1>0, <2>1, <2>2, Listing
<1> HIDE DEF down, up, S
<1>4. down \o up \in Seq(S)
  BY <1>2, <1>3, ConcatProperties
<1>5. \A l \in Range(down \o up) : l \in S
  BY <1>4, RangeOfSeq
<1>6. S \subseteq Node \X Seq(Node) /\ \A l \in S : IsLap(l, b)
  BY DEF S
<1>7. down \o up \in Seq(Node \X Seq(Node))
  BY <1>4, <1>6
<1>8. QED  BY <1>1, <1>5, <1>6, <1>7

\* The walks of an edge whose ends have a common root agree in one node at least.
LEMMA CommonEndFacts ==
  ASSUME NEW p \in Seq(Node), NEW q \in Seq(Node), p # <<>>, q # <<>>, Last(p) = Last(q)
  PROVE  /\ CommonEnd(p, q) \in Nat /\ CommonEnd(p, q) >= 1
         /\ CommonEnd(p, q) <= Len(p) /\ CommonEnd(p, q) <= Len(q)
<1> DEFINE n == IF Len(p) < Len(q) THEN Len(p) ELSE Len(q)
           agree(k) == \A i \in 0..(k - 1) : p[Len(p) - i] = q[Len(q) - i]
           best(k) == agree(k) /\ \A j \in (k + 1)..n : ~agree(j)
           T == {m \in Nat : m <= n => \E k \in 0..m : agree(k) /\ \A j \in (k + 1)..m : ~agree(j)}
<1>0. Len(p) \in Nat \ {0} /\ Len(q) \in Nat \ {0}
  BY EmptySeq
<1>1. n \in Nat /\ n >= 1 /\ n <= Len(p) /\ n <= Len(q)
  BY <1>0
<1>2. agree(0)
  OBVIOUS
<1>3. agree(1)
  <2>1. p[Len(p) - 0] = q[Len(q) - 0]
    BY <1>0 DEF Last
  <2>2. \A i \in 0..(1 - 1) : i = 0
    OBVIOUS
  <2>3. QED  BY <2>1, <2>2
<1>4. CommonEnd(p, q) = CHOOSE k \in 0..n : best(k)
  BY DEF CommonEnd
<1> HIDE DEF n, agree, T
<1>5. 0 \in T
  <2>1. 0 \in 0..0 /\ \A j \in (0 + 1)..0 : ~agree(j)
    OBVIOUS
  <2>2. QED  BY <1>2, <2>1 DEF T
<1>6. ASSUME NEW m \in Nat, m \in T
      PROVE  m + 1 \in T
  <2>1. SUFFICES ASSUME m + 1 <= n
                 PROVE  \E k \in 0..(m + 1) : agree(k) /\ \A j \in (k + 1)..(m + 1) : ~agree(j)
    BY DEF T
  <2>2. PICK k \in 0..m : agree(k) /\ \A j \in (k + 1)..m : ~agree(j)
    BY <1>1, <1>6, <2>1 DEF T
  <2>3. CASE agree(m + 1)
    <3>1. m + 1 \in 0..(m + 1) /\ \A j \in ((m + 1) + 1)..(m + 1) : ~agree(j)
      OBVIOUS
    <3>2. QED  BY <2>3, <3>1
  <2>4. CASE ~agree(m + 1)
    <3>1. k \in 0..(m + 1) /\ \A j \in (k + 1)..(m + 1) : j \in (k + 1)..m \/ j = m + 1
      OBVIOUS
    <3>2. \A j \in (k + 1)..(m + 1) : ~agree(j)
      BY <3>1, <2>2, <2>4
    <3>3. QED  BY <3>1, <3>2, <2>2
  <2>5. QED  BY <2>3, <2>4
<1>7. n \in T
  BY <1>1, <1>5, <1>6, SetInduction
<1>8. \E k \in 0..n : best(k)
  BY <1>1, <1>7 DEF T
<1> DEFINE c == CHOOSE k \in 0..n : best(k)
<1>9. c \in 0..n /\ best(c)
  BY <1>8
<1> HIDE DEF c
<1>10. c # 0
  <2>1. 1 \in (0 + 1)..n
    BY <1>1
  <2>2. QED  BY <2>1, <1>3, <1>9
<1>11. c \in Nat /\ c >= 1 /\ c <= Len(p) /\ c <= Len(q)
  BY <1>0, <1>1, <1>9, <1>10
<1>12. QED  BY <1>4, <1>11 DEF c

\* The front of a path.
LEMMA FrontPart ==
  ASSUME NEW p \in Seq(Node), NEW m \in 1 .. Len(p)
  PROVE  /\ SubSeq(p, 1, m) \in Seq(Node) /\ Len(SubSeq(p, 1, m)) = m
         /\ \A i \in 1 .. m : SubSeq(p, 1, m)[i] = p[i]
         /\ Range(SubSeq(p, 1, m)) \subseteq Range(p)
<1>0. Len(p) \in Nat /\ DOMAIN p = 1 .. Len(p) /\ \A i \in 1 .. Len(p) : p[i] \in Node
  BY LenProperties, ElementOfSeq
<1>1. \A i \in 1 .. m : p[i] \in Node /\ i \in 1 .. Len(p)
  BY <1>0
<1> DEFINE c == SubSeq(p, 1, m)
<1>2. /\ c \in Seq(Node)
      /\ Len(c) = IF 1 <= m THEN m - 1 + 1 ELSE 0
      /\ \A i \in 1 .. m - 1 + 1 : c[i] = p[1 + i - 1]
  BY <1>1, SubSeqProperties
<1> HIDE DEF c
<1>3. Len(c) = m
  BY <1>2
<1>4. \A i \in 1 .. m : c[i] = p[i]
  <2>1. SUFFICES ASSUME NEW i \in 1 .. m
                 PROVE  c[i] = p[i]
    OBVIOUS
  <2>2. i \in 1 .. m - 1 + 1 /\ 1 + i - 1 = i
    OBVIOUS
  <2>3. c[i] = p[1 + i - 1]
    BY <1>2, <2>2
  <2>4. QED  BY <2>2, <2>3
<1>5. DOMAIN c = 1 .. m
  BY <1>2, <1>3, LenProperties
<1>6. Range(c) \subseteq Range(p)
  BY <1>0, <1>1, <1>4, <1>5 DEF Range
<1>7. QED  BY <1>2, <1>3, <1>4, <1>6 DEF c

\* The cycle two walks close lies on them.
LEMMA WalkCycleFacts ==
  ASSUME path_table \in [Node -> Seq(Node)], NEW v \in Node, NEW w \in Node, WalksMeet(v, w)
  PROVE  /\ WalkCycle(v, w) \in Seq(Node)
         /\ Range(WalkCycle(v, w)) \subseteq
              Range(Walk(path_table, v)) \cup Range(Walk(path_table, w))
<1> DEFINE p == Walk(path_table, v)
           q == Walk(path_table, w)
           k == CommonEnd(p, q)
           m == Len(p) - k + 1
           n == Len(q) - k + 1
<1>0. WalkCycle(v, w) = Reverse(SubSeq(p, 1, m)) \o SubSeq(q, 1, n)
  BY DEF WalkCycle
<1>1. p \in Seq(Node) /\ q \in Seq(Node) /\ p # <<>> /\ q # <<>>
  <2>1. p \in Path /\ q \in Path
    BY WalkType
  <2>2. QED  BY <2>1 DEF Path
<1>2. Last(p) = Last(q)
  BY DEF WalksMeet
<1> HIDE DEF p, q
<1>3. k \in Nat /\ k >= 1 /\ k <= Len(p) /\ k <= Len(q)
  BY <1>1, <1>2, CommonEndFacts
<1>4. Len(p) \in Nat /\ Len(q) \in Nat
  BY <1>1, LenProperties
<1> HIDE DEF k
<1>5. m \in 1 .. Len(p) /\ n \in 1 .. Len(q)
  BY <1>3, <1>4
<1> HIDE DEF m, n
<1> DEFINE a == SubSeq(p, 1, m)
           b == SubSeq(q, 1, n)
<1>6. /\ a \in Seq(Node) /\ Range(a) \subseteq Range(p)
      /\ b \in Seq(Node) /\ Range(b) \subseteq Range(q)
  BY <1>1, <1>5, FrontPart
<1> HIDE DEF a, b
<1>7. Reverse(a) \in Seq(Node) /\ Range(Reverse(a)) = Range(a)
  BY <1>6, ReverseRange
<1>8. Reverse(a) \o b \in Seq(Node) /\ Range(Reverse(a) \o b) = Range(Reverse(a)) \cup Range(b)
  BY <1>6, <1>7, ConcatRange
<1>9. QED  BY <1>0, <1>6, <1>7, <1>8 DEF a, b, p, q

\* The odd nodes of a cycle, with their entries.
LEMMA OddOfFacts ==
  ASSUME NEW b \in Seq(Node)
  PROVE  /\ OddOf(b) \in Seq(Node \X Seq(Node))
         /\ \A l \in Range(OddOf(b)) : IsLap(l, b)
<1> DEFINE s == Laps(b)
           S == Node \X Seq(Node)
           T == {l \in Range(s) : is_even[l[1]] = 0}
<1>1. OddOf(b) = Among(s, T)
  BY DEF OddOf
<1>2. s \in Seq(S) /\ \A l \in Range(s) : IsLap(l, b)
  BY LapsFacts
<1> HIDE DEF s, S, T
<1>3. Among(s, T) \in Seq(S) /\ \A l : l \in Range(Among(s, T)) => l \in Range(s)
  BY <1>2, AmongFacts
<1>4. QED  BY <1>1, <1>2, <1>3 DEF S

-----------------------------------------------------------------------------
\* Where a step of the blossom phase leads; a node is won in ClaimNode only.
LEMMA ShrinkMoves ==
  ASSUME TypeOK, ThreadsPlaced, phase = "blossom", NEW t \in Thread, Shrinks(t)
  PROVE  \E p \in BlossomPoints : \E s \in Seq(Node \X Node) :
            /\ Moves(t, p, s) /\ Range(s) \subseteq Range(todo[t])
            /\ p \in {"claim"} \cup Filling => s = todo[t] /\ lap' = lap /\ lap[t] # <<>>
            /\ p \in Filling => pc[t] \in Filling \/ ClaimNode(t)
            /\ p = "claim" => Visit(t)
<1>1. /\ pc[t] \in Busy => todo[t] # <<>>
      /\ pc[t] \in {"claim"} \cup Filling => lap[t] # <<>>
  BY DEF ThreadsPlaced
<1>2. todo[t] \in Seq(Node \X Node)
  BY DEF TypeOK
<1>3. CASE pc[t] \in Busy /\ NextEdge(t)
  <2>1. Tail(todo[t]) \in Seq(Node \X Node) /\ Range(Tail(todo[t])) \subseteq Range(todo[t])
    BY <1>1, <1>3, EdgeFacts
  <2>2. GoOn(t, Tail(todo[t]))
    BY <1>3 DEF NextEdge
  <2>3. PICK p \in {"fetch", "scan"} : Moves(t, p, Tail(todo[t]))
    BY <2>1, <2>2, GoOnMoves
  <2>4. QED  BY <2>1, <2>3 DEF BlossomPoints, Filling
<1>4. CASE BlossomSkip(t) \/ CloseBlossom(t)
  BY <1>3, <1>4 DEF BlossomSkip, CloseBlossom, Busy
<1>5. CASE VisitSkip(t)
  <2>1. pc' = pc /\ todo' = todo /\ pc[t] = "visit"
    BY <1>5 DEF VisitSkip
  <2>2. pc' = [pc EXCEPT ![t] = "visit"] /\ todo' = [todo EXCEPT ![t] = todo[t]]
    BY <2>1 DEF TypeOK
  <2>3. Moves(t, "visit", todo[t])
    BY <2>1, <2>2, <1>1, <1>2 DEF Moves, Busy
  <2>4. QED  BY <2>3, <1>2 DEF BlossomPoints, Filling
<1>6. CASE Visit(t)
  <2>1. pc[t] = "visit" /\ Step(t, "visit", "claim") /\ todo' = todo /\ lap' = lap /\ lap[t] # <<>>
    BY <1>6 DEF Visit, Step
  <2>2. Moves(t, "claim", todo[t])
    BY <2>1, <1>1, StepMoves DEF Busy
  <2>3. QED  BY <2>1, <2>2, <1>2, <1>6 DEF BlossomPoints, Filling
<1>7. CASE ClaimNode(t)
  <2>1. pc[t] = "claim" /\ Step(t, "claim", "fill") /\ todo' = todo /\ lap' = lap
    BY <1>7 DEF ClaimNode, Step
  <2>2. Moves(t, "fill", todo[t])
    BY <2>1, <1>1, StepMoves DEF Busy
  <2>3. QED  BY <2>1, <2>2, <1>1, <1>2, <1>7 DEF BlossomPoints, Filling
<1>8. CASE ClaimNodeFails(t)
  <2>1. pc[t] = "claim" /\ Step(t, "claim", "visit") /\ todo' = todo
    BY <1>8 DEF ClaimNodeFails, Step
  <2>2. Moves(t, "visit", todo[t])
    BY <2>1, <1>1, StepMoves DEF Busy
  <2>3. QED  BY <2>2, <1>2 DEF BlossomPoints, Filling
<1>9. CASE MakeEven(t)
  <2>1. pc[t] = "even" /\ Step(t, "even", "visit") /\ todo' = todo
    BY <1>9 DEF MakeEven, Step
  <2>2. Moves(t, "visit", todo[t])
    BY <2>1, <1>1, StepMoves DEF Busy, Filling
  <2>3. QED  BY <2>2, <1>2 DEF BlossomPoints, Filling
<1>10. CASE FindBlossom(t)
  <2> DEFINE p == IF HasBase(Edge(t)[1], Edge(t)[2]) THEN "visit" ELSE "crashed"
  <2>1. pc[t] = "scan" /\ Step(t, "scan", p) /\ todo' = todo
    BY <1>10 DEF FindBlossom, Step
  <2>2. p \in {"visit", "crashed"}
    OBVIOUS
  <2> HIDE DEF p
  <2>3. Moves(t, p, todo[t])
    BY <2>1, <1>1, StepMoves DEF Busy
  <2>4. QED  BY <2>2, <2>3, <1>2 DEF BlossomPoints, Filling
<1>11. CASE FindCycle(t)
  <2>1. pc[t] = "scan"
    BY <1>11 DEF FindCycle
  <2>2. CASE WalksMeet(Edge(t)[1], Edge(t)[2])
    <3>1. pc' = [pc EXCEPT ![t] = "visit"] /\ todo' = todo
      BY <1>11, <2>2 DEF FindCycle
    <3>2. Step(t, "scan", "visit")
      BY <2>1, <3>1 DEF Step
    <3>3. Moves(t, "visit", todo[t])
      BY <2>1, <3>1, <3>2, <1>1, StepMoves DEF Busy
    <3>4. QED  BY <3>3, <1>2 DEF BlossomPoints, Filling
  <2>3. CASE ~WalksMeet(Edge(t)[1], Edge(t)[2])
    BY <1>3, <1>11, <2>1, <2>3 DEF FindCycle, Busy
  <2>4. QED  BY <2>2, <2>3
<1>12. CASE FillChecked(t)
  <2> DEFINE p == IF IsInjective(path_table[Current(t)] \o Entry(t)) THEN "even" ELSE "undo"
  <2>1. Step(t, "fill", p) /\ pc[t] = "fill" /\ todo' = todo /\ lap' = lap
    BY <1>12 DEF FillChecked, Write, Step
  <2>2. p \in {"even", "undo"}
    OBVIOUS
  <2> HIDE DEF p
  <2>3. Moves(t, p, todo[t])
    BY <2>1, <1>1, StepMoves DEF Busy, Filling
  <2>4. QED  BY <2>1, <2>2, <2>3, <1>1, <1>2 DEF BlossomPoints, Filling
<1>13. CASE DropEntry(t)
  <2>1. Step(t, "undo", "visit") /\ pc[t] = "undo" /\ todo' = todo
    BY <1>13 DEF DropEntry, Step
  <2>2. Moves(t, "visit", todo[t])
    BY <2>1, <1>1, StepMoves DEF Busy, Filling
  <2>3. QED  BY <2>2, <1>2 DEF BlossomPoints, Filling
<1>14. CASE \E at \in {"merge", "fetch"} : BlossomMerge(t, at)
  <2>1. PICK at : BlossomMerge(t, at)
    BY <1>14
  <2>2. Moves(t, "done", todo[t])
    BY <2>1, StepMoves DEF BlossomMerge, EndThread, Busy, Owning, Filling, Holding
  <2>3. QED  BY <2>2, <1>2 DEF BlossomPoints, Filling
<1>15. QED
  BY <1>4, <1>5, <1>6, <1>7, <1>8, <1>9, <1>10, <1>11, <1>12, <1>13, <1>14
     DEF Shrinks, RoundBlossom

\* The blossom phase (parBlossom_pro_all) keeps Basic: a node has one owner.
LEMMA ShrinkBasic ==
  ASSUME Basic, phase = "blossom", NEW t \in Thread, Shrinks(t)
  PROVE  Basic'
<1>0. /\ adj' = adj /\ M' = M /\ belongs' = belongs /\ vector_1' = vector_1
      /\ nodes_vector' = nodes_vector /\ select_tree' = select_tree
      /\ select_match' = select_match /\ path_collection' = path_collection
      /\ phase' = phase
  BY DEF Shrinks
<1>1. TypeOK /\ ThreadsPlaced /\ MatesKept /\ ExposedInTrees /\ EntriesNeverOne /\ NodeOwners
  BY DEF Basic
<1>2. PICK p \in BlossomPoints, s \in Seq(Node \X Node) :
        /\ Moves(t, p, s)
        /\ p \in {"claim"} \cup Filling => s = todo[t] /\ lap' = lap /\ lap[t] # <<>>
        /\ p \in Filling => pc[t] \in Filling \/ ClaimNode(t)
        /\ p = "claim" => Visit(t)
  BY <1>1, ShrinkMoves
<1>3. /\ pc' \in [Thread -> {"stripe", "fetch", "scan", "merge", "done", "second",
                            "release", "claim", "grow", "own", "mate", "visit",
                            "fill", "undo", "even", "flip", "crashed"}]
      /\ todo' \in [Thread -> Seq(Node \X Node)]
      /\ pc'[t] = p /\ todo'[t] = s
      /\ \A u \in Thread : u # t => pc'[u] = pc[u] /\ todo'[u] = todo[u]
  BY <1>1, <1>2, MovesType
<1>4. pc[t] \in {"claim"} \cup Filling =>
        /\ lap[t] # <<>> /\ Head(lap[t]) \in Range(lap[t])
        /\ Current(t) \in Node /\ Entry(t) \in Seq(Node)
  BY <1>1, LapFacts DEF ThreadsPlaced
<1>5. /\ local' \in [Thread -> Seq(Node)] /\ vector_2' \in Seq(Node)
      /\ lap' \in [Thread -> Seq(Node \X Seq(Node))]
      /\ \A u \in Thread : u # t => lap'[u] = lap[u]
      /\ \A l \in Range(lap'[t]) : Len(l[2]) \notin {0, 1}
      /\ select_blossom' \in [Node -> {0, 1}]
      /\ is_even' \in [Node -> {0, 1}]
      /\ path_table' \in [Node -> Seq(Node)]
      /\ \A x \in Node : Len(path_table'[x]) # 1
      /\ \A x \in Node : select_blossom[x] = 1 => select_blossom'[x] = 1
      /\ \A x \in Node : is_even[x] = 0 => is_even'[x] = 0 \/ (pc[t] \in Filling /\ x = Current(t))
      /\ pc'[t] \in Filling => is_even' = is_even
  <2>0. /\ local \in [Thread -> Seq(Node)] /\ vector_2 \in Seq(Node)
        /\ lap \in [Thread -> Seq(Node \X Seq(Node))]
        /\ \A l \in Range(lap[t]) : Len(l[2]) \notin {0, 1}
        /\ select_blossom \in [Node -> {0, 1}]
        /\ is_even \in [Node -> {0, 1}]
        /\ path_table \in [Node -> Seq(Node)]
        /\ \A x \in Node : Len(path_table[x]) # 1
        /\ local[t] \in Seq(Node)
    BY <1>1 DEF TypeOK, ForestTypeOK, EntriesNeverOne
  <2>10. ASSUME lap[t] # <<>>, NextLap(t)
         PROVE  /\ lap' \in [Thread -> Seq(Node \X Seq(Node))]
                /\ \A u \in Thread : u # t => lap'[u] = lap[u]
                /\ \A l \in Range(lap'[t]) : Len(l[2]) \notin {0, 1}
    <3>1. /\ Tail(lap[t]) \in Seq(Node \X Seq(Node)) /\ Range(Tail(lap[t])) \subseteq Range(lap[t])
      BY <1>1, <2>10, LapFacts
    <3>2. lap' = [lap EXCEPT ![t] = Tail(lap[t])]
      BY <2>10 DEF NextLap
    <3>3. /\ lap' \in [Thread -> Seq(Node \X Seq(Node))] /\ lap'[t] = Tail(lap[t])
          /\ \A u \in Thread : u # t => lap'[u] = lap[u]
      BY <3>1, <3>2, <2>0
    <3>4. QED  BY <3>1, <3>3, <2>0
  <2>1. CASE BlossomSkip(t) \/ Visit(t) \/ CloseBlossom(t)
    <3>1. lap' = lap /\ select_blossom' = select_blossom /\ is_even' = is_even
          /\ path_table' = path_table /\ local' = local /\ pc[t] \in {"scan", "visit"}
      BY <2>1 DEF BlossomSkip, Visit, CloseBlossom, Step
    <3>2. vector_2' = vector_2
      BY <3>1 DEF Shrinks, BlossomMerge, EndThread, Step
    <3>3. QED  BY <3>1, <3>2, <2>0
  <2>2. CASE VisitSkip(t) \/ ClaimNodeFails(t)
    <3>1. lap[t] # <<>> /\ NextLap(t)
      BY <2>2, <1>4 DEF VisitSkip, ClaimNodeFails, Step
    <3>2. select_blossom' = select_blossom /\ is_even' = is_even
          /\ path_table' = path_table /\ local' = local /\ pc[t] \in {"claim", "visit"}
      BY <2>2 DEF VisitSkip, ClaimNodeFails, Step
    <3>3. vector_2' = vector_2
      BY <3>2 DEF Shrinks, BlossomMerge, EndThread, Step
    <3>4. QED  BY <3>1, <3>2, <3>3, <2>10, <2>0
  <2>3. CASE ClaimNode(t)
    <3>1. /\ lap' = lap /\ is_even' = is_even /\ path_table' = path_table /\ local' = local
          /\ pc[t] = "claim"
          /\ select_blossom' = [select_blossom EXCEPT ![Current(t)] = 1]
      BY <2>3 DEF ClaimNode, Step
    <3>2. vector_2' = vector_2
      BY <3>1 DEF Shrinks, BlossomMerge, EndThread, Step
    <3>3. QED  BY <3>1, <3>2, <2>0, <1>4
  <2>4. CASE MakeEven(t)
    <3>1. /\ path_table' = path_table /\ select_blossom' = select_blossom
          /\ pc[t] = "even" /\ Step(t, "even", "visit")
          /\ is_even' = [is_even EXCEPT ![Current(t)] = 1]
          /\ local' = [local EXCEPT ![t] = Append(local[t], Current(t))]
          /\ NextLap(t)
      BY <2>4 DEF MakeEven, Step
    <3>2. vector_2' = vector_2
      BY <3>1 DEF Shrinks, BlossomMerge, EndThread, Step
    <3>3. lap[t] # <<>> /\ Current(t) \in Node
      BY <3>1, <1>4 DEF Filling
    <3>4. Append(local[t], Current(t)) \in Seq(Node)
      BY <3>3, <2>0, AppendProperties
    <3>5. local' \in [Thread -> Seq(Node)]
      BY <3>1, <3>4, <2>0
    <3>6. /\ is_even' \in [Node -> {0, 1}] /\ pc[t] \in Filling
          /\ \A x \in Node : is_even[x] = 0 => is_even'[x] = 0 \/ x = Current(t)
      BY <3>1, <3>3, <2>0 DEF Filling
    <3>7. pc'[t] \notin Filling
      BY <3>1, <1>1 DEF Step, Filling, TypeOK
    <3>8. QED  BY <3>1, <3>2, <3>3, <3>5, <3>6, <3>7, <2>10, <2>0
  <2>5. CASE FindBlossom(t) \/ FindCycle(t)
    <3>0. todo[t] # <<>> /\ pc[t] = "scan"
      BY <2>5, <1>1 DEF FindBlossom, FindCycle, Step, ThreadsPlaced, Busy
    <3>1. Edge(t)[1] \in Node /\ Edge(t)[2] \in Node
      BY <3>0, <1>1, EdgeFacts
    <3>2. /\ select_blossom' = select_blossom /\ is_even' = is_even /\ path_table' = path_table
          /\ local' = local
      BY <2>5 DEF FindBlossom, FindCycle
    <3>3. vector_2' = vector_2
      BY <3>0, <3>2, <2>5 DEF Shrinks, BlossomMerge, EndThread, FindBlossom, FindCycle, GoOn, NextEdge, Step
    <3>4. \E l \in Seq(Node \X Seq(Node)) :
            /\ \A e \in Range(l) : Len(e[2]) \notin {0, 1}
            /\ lap' = [lap EXCEPT ![t] = l]
      <4>1. <<>> \in Seq(Node \X Seq(Node)) /\ Range(<<>>) = {}
        BY DEF Range
      <4>2. lap = [lap EXCEPT ![t] = lap[t]] /\ lap[t] \in Seq(Node \X Seq(Node))
        BY <2>0
      <4>3. CASE FindBlossom(t)
        <5> DEFINE b == Blossom(Edge(t)[1], Edge(t)[2])
        <5>1. b \in Seq(Node)
          BY <3>1, <2>0, BlossomFacts
        <5>2. lap' = [lap EXCEPT ![t] = OddOf(b)] \/ lap' = [lap EXCEPT ![t] = <<>>]
          BY <4>3 DEF FindBlossom
        <5> HIDE DEF b
        <5>3. OddOf(b) \in Seq(Node \X Seq(Node)) /\ \A e \in Range(OddOf(b)) : Len(e[2]) \notin {0, 1}
          BY <5>1, OddOfFacts DEF IsLap
        <5>4. QED  BY <5>2, <5>3, <4>1
      <4>4. CASE FindCycle(t) /\ WalksMeet(Edge(t)[1], Edge(t)[2])
        <5> DEFINE b == WalkCycle(Edge(t)[1], Edge(t)[2])
        <5>1. b \in Seq(Node)
          BY <3>1, <2>0, <4>4, WalkCycleFacts
        <5>2. lap' = [lap EXCEPT ![t] = OddOf(b)]
          BY <4>4 DEF FindCycle
        <5> HIDE DEF b
        <5>3. OddOf(b) \in Seq(Node \X Seq(Node)) /\ \A e \in Range(OddOf(b)) : Len(e[2]) \notin {0, 1}
          BY <5>1, OddOfFacts DEF IsLap
        <5>4. QED  BY <5>2, <5>3
      <4>5. CASE FindCycle(t) /\ ~WalksMeet(Edge(t)[1], Edge(t)[2])
        <5>1. lap' = lap
          BY <4>5 DEF FindCycle
        <5>2. QED  BY <5>1, <4>2, <2>0
      <4>6. QED  BY <4>3, <4>4, <4>5, <2>5
    <3>5. QED  BY <3>0, <3>2, <3>3, <3>4, <2>0
  <2>6. CASE FillChecked(t)
    <3>1. /\ pc[t] = "fill" /\ lap' = lap /\ select_blossom' = select_blossom
          /\ is_even' = is_even /\ local' = local
          /\ path_table' = [path_table EXCEPT ![Current(t)] = path_table[Current(t)] \o Entry(t)]
      BY <2>6 DEF FillChecked, Write, Step
    <3>2. vector_2' = vector_2
      BY <3>1, <2>6 DEF Shrinks, BlossomMerge, EndThread, Step
    <3>3. Current(t) \in Node /\ Entry(t) \in Seq(Node) /\ Head(lap[t]) \in Range(lap[t])
      BY <3>1, <1>4 DEF Filling
    <3> DEFINE x == Current(t)  e == Entry(t)  old == path_table[x]
    <3>4. x \in Node /\ e \in Seq(Node) /\ Len(e) \notin {0, 1} /\ old \in Seq(Node)
      BY <3>3, <2>0 DEF Entry
    <3>5. path_table' = [path_table EXCEPT ![x] = old \o e]
      BY <3>1
    <3> HIDE DEF x, e, old
    <3>6. /\ old \o e \in Seq(Node) /\ Len(old \o e) = Len(old) + Len(e)
          /\ Len(old) \in Nat /\ Len(e) \in Nat
      BY <3>4, ConcatProperties, LenProperties
    <3>7. Len(old \o e) # 1
      <4>1. \A m, n \in Nat : n # 0 /\ n # 1 => m + n # 1
        OBVIOUS
      <4>2. QED  BY <4>1, <3>4, <3>6
    <3>8. path_table' \in [Node -> Seq(Node)] /\ \A y \in Node : Len(path_table'[y]) # 1
      BY <3>4, <3>5, <3>6, <3>7, <2>0
    <3>9. QED  BY <3>1, <3>2, <3>8, <2>0
  <2>7. CASE DropEntry(t)
    <3>1. /\ pc[t] = "undo" /\ Step(t, "undo", "visit") /\ NextLap(t)
          /\ select_blossom' = select_blossom
          /\ is_even' = is_even /\ local' = local
          /\ path_table' = [path_table EXCEPT ![Current(t)] = <<>>]
      BY <2>7 DEF DropEntry, Step
    <3>2. vector_2' = vector_2
      BY <3>1, <2>7 DEF Shrinks, BlossomMerge, EndThread, Step
    <3>3. lap[t] # <<>> /\ Current(t) \in Node
      BY <3>1, <1>4 DEF Filling
    <3>4. path_table' \in [Node -> Seq(Node)] /\ \A y \in Node : Len(path_table'[y]) # 1
      <4>1. <<>> \in Seq(Node) /\ Len(<<>>) = 0
        OBVIOUS
      <4>2. QED  BY <4>1, <3>1, <3>3, <2>0
    <3>5. QED  BY <3>1, <3>2, <3>3, <3>4, <2>10, <2>0
  <2>8. CASE \E at \in {"merge", "fetch"} : BlossomMerge(t, at)
    <3>1. /\ local' = [local EXCEPT ![t] = <<>>] /\ vector_2' = vector_2 \o local[t]
          /\ select_blossom' = select_blossom /\ is_even' = is_even
          /\ path_table' = path_table /\ lap' = lap
      BY <2>8 DEF BlossomMerge, EndThread
    <3>2. vector_2 \o local[t] \in Seq(Node)
      BY <2>0, ConcatProperties
    <3>3. QED  BY <3>1, <3>2, <2>0
  <2>9. QED
    BY <2>1, <2>2, <2>3, <2>4, <2>5, <2>6, <2>7, <2>8 DEF Shrinks, RoundBlossom
<1>6. TypeOK'
  BY <1>0, <1>1, <1>3, <1>5 DEF TypeOK, ForestTypeOK
<1>7. MatesKept' /\ ExposedInTrees' /\ EntriesNeverOne' /\ PairOwners'
  BY <1>0, <1>1, <1>5 DEF MatesKept, MatesMutual, Matched, ExposedInTrees, EntriesNeverOne,
     PairOwners, Repaired, SearchPhases
<1>8. ThreadsPlaced'
  <2>1. phase' = "blossom" /\ p \in BlossomPoints
    BY <1>0
  <2>2. p \in {"claim"} \cup Filling => lap'[t] # <<>>
    BY <1>2
  <2>3. p \in Busy => s # <<>>
    BY <1>2 DEF Moves
  <2>4. \A u \in Thread : pc'[u] \in BlossomPoints
    BY <1>0, <1>1, <1>3 DEF ThreadsPlaced
  <2>5. \A u \in Thread : pc'[u] \in Busy => todo'[u] # <<>>
    BY <2>3, <1>1, <1>3 DEF ThreadsPlaced
  <2>6. \A u \in Thread : pc'[u] \in {"claim"} \cup Filling => lap'[u] # <<>>
    BY <2>2, <1>1, <1>3, <1>5 DEF ThreadsPlaced
  <2>7. QED  BY <2>1, <2>4, <2>5, <2>6 DEF ThreadsPlaced
<1>9. \A u \in Thread : lap'[u] = lap[u] => Current(u)' = Current(u)
  BY DEF Current
<1>10. \A u \in Thread : pc[u] \in {"claim"} \cup Filling => Current(u) \in Node
  BY <1>1, LapFacts DEF ThreadsPlaced
<1>11. NodeOwners'
  <2>1. \A u \in Thread : u # t => pc'[u] = pc[u] /\ Current(u)' = Current(u)
    BY <1>3, <1>5, <1>9
  <2>2. p \in {"claim"} \cup Filling => Current(t)' = Current(t)
    BY <1>2, <1>9
  <2>3. \A u \in Thread : u # t /\ pc[u] = "claim" =>
          select_blossom'[Current(u)] = 1 \/ is_even'[Current(u)] = 0
    <3>1. SUFFICES ASSUME NEW u \in Thread, u # t, pc[u] = "claim"
                   PROVE  select_blossom'[Current(u)] = 1 \/ is_even'[Current(u)] = 0
      OBVIOUS
    <3>2. Current(u) \in Node
      BY <3>1, <1>10
    <3>3. select_blossom[Current(u)] = 1 \/ is_even[Current(u)] = 0
      BY <3>1, <1>1 DEF NodeOwners
    <3>4. pc[t] \in Filling => select_blossom[Current(t)] = 1
      BY <1>1 DEF NodeOwners
    <3>5. QED  BY <3>2, <3>3, <3>4, <1>5
  <2>4. \A u \in Thread : u # t /\ pc[u] \in Filling =>
          select_blossom'[Current(u)] = 1 /\ is_even'[Current(u)] = 0
    <3>1. SUFFICES ASSUME NEW u \in Thread, u # t, pc[u] \in Filling
                   PROVE  select_blossom'[Current(u)] = 1 /\ is_even'[Current(u)] = 0
      OBVIOUS
    <3>2. Current(u) \in Node
      BY <3>1, <1>10
    <3>3. /\ select_blossom[Current(u)] = 1 /\ is_even[Current(u)] = 0
          /\ pc[t] \in Filling => Current(t) # Current(u)
      BY <3>1, <1>1 DEF NodeOwners
    <3>4. QED  BY <3>2, <3>3, <1>5
  <2>5. CASE p \in Filling /\ ClaimNode(t)
    <3>1. /\ pc[t] = "claim" /\ select_blossom[Current(t)] = 0 /\ Current(t) \in Node
          /\ select_blossom'[Current(t)] = 1
      BY <2>5, <1>1, <1>10 DEF ClaimNode, Step, TypeOK
    <3>2. is_even[Current(t)] = 0 /\ is_even' = is_even
      <4>1. select_blossom[Current(t)] = 1 \/ is_even[Current(t)] = 0
        BY <3>1, <1>1 DEF NodeOwners
      <4>2. QED  BY <4>1, <3>1, <2>5 DEF ClaimNode
    <3>3. \A u \in Thread : pc[u] \in Filling => Current(u) # Current(t)
      BY <3>1, <1>1 DEF NodeOwners
    <3>4. p # "claim"
      BY <2>5 DEF Filling
    <3>5. \A u, w \in Thread : u # t /\ w # t /\ u # w /\ pc[u] \in Filling /\ pc[w] \in Filling =>
             Current(u) # Current(w)
      BY <1>1 DEF NodeOwners
    <3>6. \A u \in Thread : pc'[u] = "claim" =>
            select_blossom'[Current(u)'] = 1 \/ is_even'[Current(u)'] = 0
      BY <2>1, <2>3, <3>4, <1>3
    <3>7. \A u \in Thread : pc'[u] \in Filling =>
            select_blossom'[Current(u)'] = 1 /\ is_even'[Current(u)'] = 0
      BY <2>1, <2>2, <2>4, <2>5, <3>1, <3>2, <1>3
    <3>8. \A u, w \in Thread : u # w /\ pc'[u] \in Filling /\ pc'[w] \in Filling =>
            Current(u)' # Current(w)'
      <4>1. SUFFICES ASSUME NEW u \in Thread, NEW w \in Thread, u # w,
                            pc'[u] \in Filling, pc'[w] \in Filling
                     PROVE  Current(u)' # Current(w)'
        OBVIOUS
      <4>2. CASE u = t
        BY <4>1, <4>2, <2>1, <2>2, <2>5, <3>3
      <4>3. CASE w = t
        BY <4>1, <4>3, <2>1, <2>2, <2>5, <3>3
      <4>4. CASE u # t /\ w # t
        BY <4>1, <4>4, <2>1, <3>5
      <4>5. QED  BY <4>2, <4>3, <4>4
    <3>9. QED  BY <3>6, <3>7, <3>8 DEF NodeOwners
  <2>6. CASE ~(p \in Filling /\ ClaimNode(t))
    <3>1. p \in Filling => pc[t] \in Filling /\ is_even' = is_even
      BY <2>6, <1>2, <1>3, <1>5
    <3>2. p = "claim" => is_even[Current(t)] = 0 /\ is_even' = is_even
      BY <1>2 DEF Visit
    <3>3. \A u \in Thread : pc'[u] = "claim" =>
            select_blossom'[Current(u)'] = 1 \/ is_even'[Current(u)'] = 0
      BY <2>1, <2>2, <2>3, <3>2, <1>3
    <3>4. p \in Filling => select_blossom'[Current(t)'] = 1 /\ is_even'[Current(t)'] = 0
      <4>1. SUFFICES ASSUME p \in Filling
                     PROVE  select_blossom'[Current(t)] = 1 /\ is_even'[Current(t)] = 0
        BY <2>2
      <4>2. Current(t) \in Node /\ select_blossom[Current(t)] = 1 /\ is_even[Current(t)] = 0
        BY <4>1, <3>1, <1>1, <1>10 DEF NodeOwners
      <4>3. QED  BY <4>1, <4>2, <3>1, <1>5
    <3>5. \A u \in Thread : pc'[u] \in Filling =>
            select_blossom'[Current(u)'] = 1 /\ is_even'[Current(u)'] = 0
      BY <2>1, <2>4, <3>4, <1>3
    <3>6. \A u \in Thread : pc'[u] \in Filling => pc[u] \in Filling /\ Current(u)' = Current(u)
      BY <2>1, <2>2, <3>1, <1>3
    <3>7. \A u, w \in Thread : u # w /\ pc[u] \in Filling /\ pc[w] \in Filling =>
            Current(u) # Current(w)
      BY <1>1 DEF NodeOwners
    <3>8. \A u, w \in Thread : u # w /\ pc'[u] \in Filling /\ pc'[w] \in Filling =>
            Current(u)' # Current(w)'
      BY <3>6, <3>7
    <3>9. QED  BY <3>3, <3>5, <3>8 DEF NodeOwners
  <2>7. QED  BY <2>5, <2>6
<1>12. QED  BY <1>6, <1>7, <1>8, <1>11 DEF Basic

-----------------------------------------------------------------------------
\* Repair, node by node: exposed nodes become roots, the nodes of trees with
\* an exposed root stay, the others leave their tree.
LEMMA RepairFacts ==
  ASSUME TypeOK, NEW mine, mine \subseteq Node, Repair(mine)
  PROVE  /\ is_even' \in [Node -> {0, 1}] /\ belongs' \in [Node -> Node \cup {NoNode}]
         /\ path_table' \in [Node -> Seq(Node)]
         /\ \A x \in Node : x \notin mine =>
              is_even'[x] = is_even[x] /\ belongs'[x] = belongs[x] /\ path_table'[x] = path_table[x]
         /\ \A x \in mine : M[x] = NoNode =>
              is_even'[x] = 1 /\ belongs'[x] = x /\ path_table'[x] = <<>>
         /\ \A x \in mine : M[x] # NoNode /\ InValidTree(x) =>
              is_even'[x] = is_even[x] /\ belongs'[x] = belongs[x] /\ path_table'[x] = path_table[x]
         /\ \A x \in mine : M[x] # NoNode /\ ~InValidTree(x) =>
              is_even'[x] = 0 /\ belongs'[x] = NoNode /\ path_table'[x] = <<>>
<1> DEFINE A == {x \in mine : M[x] = NoNode}
           K == {x \in mine \ A : InValidTree(x)}
           R == mine \ (A \cup K)
<1>0. /\ is_even \in [Node -> {0, 1}] /\ belongs \in [Node -> Node \cup {NoNode}]
      /\ path_table \in [Node -> Seq(Node)] /\ <<>> \in Seq(Node)
  BY DEF TypeOK, ForestTypeOK
<1>1. /\ is_even' = [x \in Node |-> CASE x \in A -> 1 [] x \in R -> 0 [] OTHER -> is_even[x]]
      /\ belongs' = [x \in Node |-> CASE x \in A -> x [] x \in R -> NoNode [] OTHER -> belongs[x]]
      /\ path_table' = [x \in Node |-> IF x \in A \cup R THEN <<>> ELSE path_table[x]]
  BY DEF Repair
<1>2. /\ \A x \in mine : x \in A <=> M[x] = NoNode
      /\ \A x \in mine : x \in R <=> M[x] # NoNode /\ ~InValidTree(x)
      /\ \A x \in Node : x \notin mine => x \notin A /\ x \notin R
  OBVIOUS
<1>3. A \cap R = {}
  OBVIOUS
<1> HIDE DEF A, K, R
<1>4. \A x \in Node : x \in A => is_even'[x] = 1 /\ belongs'[x] = x
  <2>1. SUFFICES ASSUME NEW x \in Node, x \in A
                 PROVE  is_even'[x] = 1 /\ belongs'[x] = x
    OBVIOUS
  <2>2. (CASE x \in A -> 1 [] x \in R -> 0 [] OTHER -> is_even[x]) = 1
    BY <2>1, <1>3
  <2>3. (CASE x \in A -> x [] x \in R -> NoNode [] OTHER -> belongs[x]) = x
    BY <2>1, <1>3
  <2>4. QED  BY <1>1, <2>2, <2>3, Zenon
<1>5. \A x \in Node : x \in R => is_even'[x] = 0 /\ belongs'[x] = NoNode
  <2>1. SUFFICES ASSUME NEW x \in Node, x \in R
                 PROVE  is_even'[x] = 0 /\ belongs'[x] = NoNode
    OBVIOUS
  <2>2. (CASE x \in A -> 1 [] x \in R -> 0 [] OTHER -> is_even[x]) = 0
    BY <2>1, <1>3
  <2>3. (CASE x \in A -> x [] x \in R -> NoNode [] OTHER -> belongs[x]) = NoNode
    BY <2>1, <1>3
  <2>4. QED  BY <1>1, <2>2, <2>3, Zenon
<1>6. \A x \in Node : x \notin A /\ x \notin R => is_even'[x] = is_even[x] /\ belongs'[x] = belongs[x]
  <2>1. SUFFICES ASSUME NEW x \in Node, x \notin A, x \notin R
                 PROVE  is_even'[x] = is_even[x] /\ belongs'[x] = belongs[x]
    OBVIOUS
  <2>2. (CASE x \in A -> 1 [] x \in R -> 0 [] OTHER -> is_even[x]) = is_even[x]
    BY <2>1
  <2>3. (CASE x \in A -> x [] x \in R -> NoNode [] OTHER -> belongs[x]) = belongs[x]
    BY <2>1
  <2>4. QED  BY <1>1, <2>2, <2>3, Zenon
<1>7. \A x \in Node : path_table'[x] = IF x \in A \cup R THEN <<>> ELSE path_table[x]
  BY <1>1
<1>8. \A x \in Node : is_even'[x] \in {0, 1} /\ belongs'[x] \in Node \cup {NoNode}
  BY <1>0, <1>4, <1>5, <1>6
<1>9. /\ is_even' \in [Node -> {0, 1}] /\ belongs' \in [Node -> Node \cup {NoNode}]
      /\ path_table' \in [Node -> Seq(Node)]
  <2>1. is_even' = [x \in Node |-> is_even'[x]] /\ belongs' = [x \in Node |-> belongs'[x]]
    BY <1>1
  <2>2. path_table' \in [Node -> Seq(Node)]
    BY <1>0, <1>1
  <2>3. QED  BY <1>8, <2>1, <2>2
<1>10. QED
  <2>1. \A x \in mine : x \in Node
    OBVIOUS
  <2>2. QED  BY <2>1, <1>2, <1>4, <1>5, <1>6, <1>7, <1>9

\* What the repair adds to the frontier.
LEMMA RepairFrontier ==
  ASSUME TypeOK, NEW mine, mine \subseteq Node, Repair(mine)
  PROVE  /\ vector_1' \in Seq(Node) /\ vector_2' \in Seq(Node)
         /\ \A x : x \in Range(vector_1') <=>
              x \in Range(vector_1) \/ (x \in mine /\ M[x] = NoNode)
         /\ \A x : x \in Range(vector_2') <=>
              x \in Range(vector_2) \/ (x \in mine /\ M[x] # NoNode /\ InValidTree(x) /\ is_even[x] = 1)
         /\ IsInjective(vector_1) /\ Range(vector_1) \cap mine = {} => IsInjective(vector_1')
         /\ IsInjective(vector_2) /\ Range(vector_2) \cap mine = {} => IsInjective(vector_2')
<1> DEFINE A == {x \in mine : M[x] = NoNode}
           E == {x \in {y \in mine \ A : InValidTree(y)} : is_even[x] = 1}
           a == Ascending(A)
           e == Ascending(E)
<1>1. vector_1' = vector_1 \o a /\ vector_2' = vector_2 \o e
  BY DEF Repair
<1>2. A \subseteq Node /\ E \subseteq Node
  OBVIOUS
<1>3. /\ \A x : x \in A <=> x \in mine /\ M[x] = NoNode
      /\ \A x : x \in E <=> x \in mine /\ M[x] # NoNode /\ InValidTree(x) /\ is_even[x] = 1
  OBVIOUS
<1> HIDE DEF A, E
<1>4. a \in Seq(Node) /\ Range(a) = A /\ IsInjective(a) /\ e \in Seq(Node) /\ Range(e) = E /\ IsInjective(e)
  BY <1>2, AscendingFacts
<1>5. vector_1 \in Seq(Node) /\ vector_2 \in Seq(Node)
  BY DEF TypeOK
<1> HIDE DEF a, e
<1>6. /\ vector_1 \o a \in Seq(Node) /\ Range(vector_1 \o a) = Range(vector_1) \cup Range(a)
      /\ vector_2 \o e \in Seq(Node) /\ Range(vector_2 \o e) = Range(vector_2) \cup Range(e)
  BY <1>4, <1>5, ConcatRange
<1>7. ASSUME IsInjective(vector_1), Range(vector_1) \cap mine = {}
      PROVE  IsInjective(vector_1 \o a)
  <2>1. Range(vector_1) \cap Range(a) = {}
    BY <1>3, <1>4, <1>7
  <2>2. QED  BY <2>1, <1>4, <1>5, <1>7, ConcatInjective
<1>8. ASSUME IsInjective(vector_2), Range(vector_2) \cap mine = {}
      PROVE  IsInjective(vector_2 \o e)
  <2>1. Range(vector_2) \cap Range(e) = {}
    BY <1>3, <1>4, <1>8
  <2>2. QED  BY <2>1, <1>4, <1>5, <1>8, ConcatInjective
<1>9. QED  BY <1>1, <1>3, <1>4, <1>6, <1>7, <1>8

\* Another thread's nodes.
LEMMA ModThread ==
  \A x \in Node : x % NumThreads \in Thread
BY ThreadAssumption, NodesAssumption DEF Thread, Node

\* A thread that repairs its stripe (parReuseRemainingTrees) keeps Basic.
LEMMA ReuseBasic ==
  ASSUME Basic, phase = "reuse", NEW t \in Thread, Reuse(t)
  PROVE  Basic'
<1> DEFINE mine == {x \in Node : x % NumThreads = t}
<1>0. /\ adj' = adj /\ M' = M /\ nodes_vector' = nodes_vector /\ select_tree' = select_tree
      /\ select_match' = select_match /\ select_blossom' = select_blossom
      /\ todo' = todo /\ local' = local /\ lap' = lap
      /\ path_collection' = path_collection /\ phase' = phase
      /\ Repair(mine) /\ pc' = [pc EXCEPT ![t] = "done"]
  BY DEF Reuse, flagVars, Step
<1>1. TypeOK /\ ThreadsPlaced /\ MatesKept /\ ExposedInTrees /\ EntriesNeverOne
  BY DEF Basic
<1>2. mine \subseteq Node
  OBVIOUS
<1> HIDE DEF mine
<1>3. /\ is_even' \in [Node -> {0, 1}] /\ belongs' \in [Node -> Node \cup {NoNode}]
      /\ path_table' \in [Node -> Seq(Node)]
      /\ \A x \in Node : x \notin mine =>
           is_even'[x] = is_even[x] /\ belongs'[x] = belongs[x] /\ path_table'[x] = path_table[x]
      /\ \A x \in mine : M[x] = NoNode =>
           is_even'[x] = 1 /\ belongs'[x] = x /\ path_table'[x] = <<>>
      /\ \A x \in mine : M[x] # NoNode /\ InValidTree(x) =>
           is_even'[x] = is_even[x] /\ belongs'[x] = belongs[x] /\ path_table'[x] = path_table[x]
      /\ \A x \in mine : M[x] # NoNode /\ ~InValidTree(x) =>
           is_even'[x] = 0 /\ belongs'[x] = NoNode /\ path_table'[x] = <<>>
  BY <1>0, <1>1, <1>2, RepairFacts
<1>4. vector_1' \in Seq(Node) /\ vector_2' \in Seq(Node)
  BY <1>0, <1>1, <1>2, RepairFrontier
<1>5. TypeOK'
  BY <1>0, <1>1, <1>3, <1>4 DEF TypeOK, ForestTypeOK
<1>6. ThreadsPlaced'
  BY <1>0, <1>1 DEF ThreadsPlaced, TypeOK, Busy, Owning, Filling, Holding
<1>7. MatesKept' /\ PairOwners' /\ NodeOwners'
  BY <1>0, <1>1 DEF MatesKept, MatesMutual, Matched, PairOwners, NodeOwners
<1>8. EntriesNeverOne'
  <2>1. \A x \in Node : path_table'[x] = path_table[x] \/ path_table'[x] = <<>>
    BY <1>3
  <2>2. Len(<<>>) # 1
    OBVIOUS
  <2>3. QED  BY <2>1, <2>2, <1>0, <1>1 DEF EntriesNeverOne
<1>9. ExposedInTrees'
  <2>1. SUFFICES ASSUME NEW x \in Node, M[x] = NoNode, pc'[x % NumThreads] = "done"
                 PROVE  belongs'[x] # NoNode
    BY <1>0 DEF ExposedInTrees, Repaired, SearchPhases
  <2>2. CASE x \in mine
    <3>1. x # NoNode
      BY NodesAssumption DEF Node, NoNode
    <3>2. QED  BY <2>1, <2>2, <3>1, <1>3
  <2>3. CASE x \notin mine
    <3>1. x % NumThreads # t
      BY <2>3 DEF mine
    <3>2. x % NumThreads \in Thread
      BY ModThread
    <3>3. pc[x % NumThreads] = "done"
      BY <3>1, <3>2, <2>1, <1>0, <1>1 DEF TypeOK
    <3>4. QED  BY <2>1, <2>3, <3>3, <1>1, <1>3 DEF ExposedInTrees, Repaired
  <2>4. QED  BY <2>2, <2>3
<1>10. QED  BY <1>5, <1>6, <1>7, <1>8, <1>9 DEF Basic

-----------------------------------------------------------------------------
\* A thread takes a share, or leaves its loop.
LEMMA ShareBasic ==
  ASSUME Basic, phase \in SearchPhases, NEW t \in Thread, NEW live, TakesShare(t, live)
  PROVE  Basic'
<1>0. /\ adj' = adj /\ M' = M /\ is_even' = is_even /\ belongs' = belongs
      /\ path_table' = path_table /\ nodes_vector' = nodes_vector
      /\ vector_1' = vector_1 /\ vector_2' = vector_2
      /\ select_tree' = select_tree /\ select_match' = select_match
      /\ select_blossom' = select_blossom /\ local' = local /\ lap' = lap
      /\ path_collection' = path_collection /\ phase' = phase
  BY DEF TakesShare, forestVars, frontierVars, flagVars
<1>1. TypeOK /\ ThreadsPlaced /\ MatesKept /\ ExposedInTrees /\ EntriesNeverOne /\ PairOwners /\ NodeOwners
  BY DEF Basic
<1>2. PICK s \in Seq(Node \X Node) : GoOn(t, s)
  BY DEF TakesShare
<1>3. PICK p \in {"fetch", "scan"} : Moves(t, p, s)
  BY <1>1, <1>2, GoOnMoves
<1>4. /\ pc' \in [Thread -> {"stripe", "fetch", "scan", "merge", "done", "second",
                            "release", "claim", "grow", "own", "mate", "visit",
                            "fill", "undo", "even", "flip", "crashed"}]
      /\ todo' \in [Thread -> Seq(Node \X Node)]
      /\ pc'[t] = p /\ todo'[t] = s
      /\ \A u \in Thread : u # t => pc'[u] = pc[u] /\ todo'[u] = todo[u]
  BY <1>1, <1>3, MovesType DEF AugmentPoints
<1>5. TypeOK'
  BY <1>0, <1>1, <1>4 DEF TypeOK, ForestTypeOK
<1>6. ThreadsPlaced'
  <2>1. p \in AugmentPoints /\ p \in ExpandPoints /\ p \in BlossomPoints /\ p \notin {"claim"} \cup Filling
    BY DEF AugmentPoints, ExpandPoints, BlossomPoints, Filling
  <2>2. p \in Busy => s # <<>>
    BY <1>3 DEF Moves
  <2>3. phase' \notin {"exposed", "reuse", "flip", "finished"}
    BY <1>0 DEF SearchPhases
  <2>4. QED  BY <2>1, <2>2, <2>3, <1>0, <1>1, <1>4 DEF ThreadsPlaced
<1>7. MatesKept' /\ ExposedInTrees' /\ EntriesNeverOne'
  BY <1>0, <1>1 DEF MatesKept, MatesMutual, Matched, ExposedInTrees, EntriesNeverOne, Repaired, SearchPhases
<1>8. \A u \in Thread : todo'[u] = todo[u] =>
        /\ Edge(u)' = Edge(u) /\ Mate(u)' = Mate(u) /\ MatchSlot(u)' = MatchSlot(u)
  BY <1>0 DEF Edge, Mate, MatchSlot
<1>9. \A u \in Thread : Current(u)' = Current(u)
  BY <1>0 DEF Current
<1>10. p \notin {"claim"} \cup Owning /\ p \notin {"claim"} \cup Filling
  BY DEF Owning, Filling
<1>11. \A u \in Thread : pc'[u] \in {"claim"} \cup Owning \cup Filling => pc[u] = pc'[u] /\ todo'[u] = todo[u]
  BY <1>4, <1>10
<1>12. PairOwners'
  BY <1>0, <1>1, <1>8, <1>11 DEF PairOwners
<1>13. NodeOwners'
  BY <1>0, <1>1, <1>9, <1>11 DEF NodeOwners
<1>14. QED  BY <1>5, <1>6, <1>7, <1>12, <1>13 DEF Basic

\* A thread that leaves its loop keeps Basic.
LEMMA LeaveBasic ==
  ASSUME Basic, phase \in SearchPhases, NEW t \in Thread, Leaves(t)
  PROVE  Basic'
<1>0. /\ adj' = adj /\ M' = M /\ is_even' = is_even /\ belongs' = belongs
      /\ path_table' = path_table /\ nodes_vector' = nodes_vector
      /\ vector_1' = vector_1 /\ vector_2' = vector_2
      /\ select_tree' = select_tree /\ select_match' = select_match
      /\ select_blossom' = select_blossom /\ local' = local /\ lap' = lap /\ todo' = todo
      /\ path_collection' = path_collection /\ phase' = phase
      /\ pc' = [pc EXCEPT ![t] = "merge"]
  BY DEF Leaves, Step, forestVars, frontierVars, flagVars
<1>1. TypeOK /\ ThreadsPlaced /\ MatesKept /\ ExposedInTrees /\ EntriesNeverOne /\ PairOwners /\ NodeOwners
  BY DEF Basic
<1>2. pc'[t] = "merge" /\ \A u \in Thread : u # t => pc'[u] = pc[u]
  BY <1>0, <1>1 DEF TypeOK
<1>3. TypeOK'
  BY <1>0, <1>1 DEF TypeOK, ForestTypeOK
<1>4. ThreadsPlaced'
  <2>1. /\ "merge" \in AugmentPoints /\ "merge" \in ExpandPoints /\ "merge" \in BlossomPoints
        /\ "merge" \notin Busy /\ "merge" \notin {"claim"} \cup Filling
    BY DEF AugmentPoints, ExpandPoints, BlossomPoints, Busy, Owning, Filling, Holding
  <2>2. phase' \notin {"exposed", "reuse", "flip", "finished"}
    BY <1>0 DEF SearchPhases
  <2>3. QED  BY <2>1, <2>2, <1>0, <1>1, <1>2 DEF ThreadsPlaced
<1>5. MatesKept' /\ ExposedInTrees' /\ EntriesNeverOne'
  BY <1>0, <1>1 DEF MatesKept, MatesMutual, Matched, ExposedInTrees, EntriesNeverOne, Repaired, SearchPhases
<1>6. \A u \in Thread : Edge(u)' = Edge(u) /\ MatchSlot(u)' = MatchSlot(u) /\ Current(u)' = Current(u)
  BY <1>0 DEF Edge, Mate, MatchSlot, Current
<1>7. \A u \in Thread : pc'[u] \in {"claim"} \cup Owning \cup Filling => pc[u] = pc'[u]
  BY <1>2 DEF Owning, Filling
<1>8. PairOwners'
  BY <1>0, <1>1, <1>6, <1>7 DEF PairOwners
<1>9. NodeOwners'
  BY <1>0, <1>1, <1>6, <1>7 DEF NodeOwners
<1>10. QED  BY <1>3, <1>4, <1>5, <1>8, <1>9 DEF Basic

-----------------------------------------------------------------------------
\* A phase of a search begins, with the shares of its threads.
LEMMA EnterBasic ==
  ASSUME Basic, phase \notin {"flip", "finished"}, phase' \in SearchPhases,
         NEW work \in [Thread -> Seq(Node \X Node)], Spawn(work),
         UNCHANGED <<adj, M, flagVars, lap, path_collection>>,
         is_even' \in [Node -> {0, 1}], belongs' \in [Node -> Node \cup {NoNode}],
         path_table' \in [Node -> Seq(Node)],
         nodes_vector' \in Seq(Node), vector_1' \in Seq(Node), vector_2' \in Seq(Node),
         \A x \in Node : Len(path_table'[x]) # 1,
         \A x \in Node : M[x] = NoNode => belongs'[x] # NoNode
  PROVE  Basic'
<1>0. /\ adj' = adj /\ M' = M
      /\ select_tree' = select_tree /\ select_match' = select_match
      /\ select_blossom' = select_blossom /\ lap' = lap
      /\ path_collection' = path_collection
      /\ todo' = work /\ local' = NoWork
      /\ pc' = [u \in Thread |-> IF work[u] = <<>> THEN "fetch" ELSE "scan"]
  BY DEF flagVars, Spawn
<1>1. TypeOK /\ MatesMutual /\ EntriesNeverOne
  BY DEF Basic, MatesKept
<1>2. \A u \in Thread : pc'[u] \in {"fetch", "scan"} /\ (pc'[u] = "scan" => todo'[u] # <<>>)
  BY <1>0
<1>3. local' \in [Thread -> Seq(Node)]
  BY <1>0 DEF NoWork
<1>4. pc' \in [Thread -> {"fetch", "scan"}]
  BY <1>0
<1>5. TypeOK'
  BY <1>0, <1>1, <1>3, <1>4 DEF TypeOK, ForestTypeOK
<1>6. ThreadsPlaced'
  <2>1. \A p \in {"fetch", "scan"} : p \in AugmentPoints /\ p \in ExpandPoints /\ p \in BlossomPoints
                                     /\ p \notin {"claim"} \cup Filling /\ (p \in Busy => p = "scan")
    BY DEF AugmentPoints, ExpandPoints, BlossomPoints, Busy, Owning, Filling, Holding
  <2>2. phase' \notin {"exposed", "reuse", "flip", "finished"}
    BY DEF SearchPhases
  <2>3. QED  BY <2>1, <2>2, <1>2 DEF ThreadsPlaced
<1>7. MatesKept' /\ ExposedInTrees'
  BY <1>0, <1>1 DEF MatesKept, MatesMutual, Matched, ExposedInTrees
<1>8. EntriesNeverOne'
  BY <1>0, <1>1 DEF EntriesNeverOne
<1>9. PairOwners' /\ NodeOwners'
  BY <1>2 DEF PairOwners, NodeOwners, Owning, Filling
<1>10. QED  BY <1>5, <1>6, <1>7, <1>8, <1>9 DEF Basic

\* Nothing new was found.
LEMMA StopBasic ==
  ASSUME Basic, phase' = "finished", phase \in {"blossom", "expand"},
         UNCHANGED <<forestVars, vector_1, flagVars, lap, path_collection, pc, todo, local>>,
         nodes_vector' \in Seq(Node), vector_2' \in Seq(Node)
  PROVE  Basic'
<1>0. /\ adj' = adj /\ M' = M /\ is_even' = is_even /\ belongs' = belongs
      /\ path_table' = path_table /\ vector_1' = vector_1
      /\ select_tree' = select_tree /\ select_match' = select_match
      /\ select_blossom' = select_blossom /\ local' = local /\ lap' = lap /\ todo' = todo
      /\ path_collection' = path_collection /\ pc' = pc
  BY DEF forestVars, flagVars
<1>1. TypeOK /\ ThreadsPlaced /\ EntriesNeverOne
  BY DEF Basic
<1>2. TypeOK'
  BY <1>0, <1>1 DEF TypeOK, ForestTypeOK
<1>3. ThreadsPlaced'
  BY <1>0, <1>1 DEF ThreadsPlaced
<1>4. MatesKept' /\ ExposedInTrees' /\ EntriesNeverOne' /\ PairOwners' /\ NodeOwners'
  BY <1>0, <1>1 DEF MatesKept, ExposedInTrees, Repaired, SearchPhases, EntriesNeverOne, PairOwners, NodeOwners
<1>5. QED  BY <1>2, <1>3, <1>4 DEF Basic

-----------------------------------------------------------------------------
\* The nodes of a path in pairs.
LEMMA PairsFacts ==
  ASSUME NEW p \in Seq(Node)
  PROVE  /\ Pairs(p) \in Seq(Node \X Node) /\ DOMAIN Pairs(p) = 1 .. (Len(p) \div 2)
         /\ \A i \in 1 .. (Len(p) \div 2) :
              /\ Pairs(p)[i] = <<p[2 * i - 1], p[2 * i]>>
              /\ 2 * i - 1 \in 1 .. Len(p) /\ 2 * i \in 1 .. Len(p)
<1>0. Len(p) \in Nat /\ \A i \in 1 .. Len(p) : p[i] \in Node
  BY LenProperties, ElementOfSeq
<1>1. Len(p) \div 2 \in Nat /\ \A i \in 1 .. (Len(p) \div 2) : 2 * i - 1 \in 1 .. Len(p) /\ 2 * i \in 1 .. Len(p)
  BY <1>0
<1> DEFINE h == Len(p) \div 2
<1>2. Pairs(p) = [i \in 1 .. h |-> <<p[2 * i - 1], p[2 * i]>>]
  BY DEF Pairs
<1> HIDE DEF h
<1>3. \A i \in 1 .. h : p[2 * i - 1] \in Node /\ p[2 * i] \in Node
  BY <1>0, <1>1 DEF h
<1>4. Pairs(p) \in [1 .. h -> Node \X Node]
  BY <1>2, <1>3
<1>5. Pairs(p) \in Seq(Node \X Node)
  <2>1. h \in Nat
    BY <1>1 DEF h
  <2>2. QED  BY <1>4, <2>1, SeqDef
<1>6. DOMAIN Pairs(p) = 1 .. h /\ \A i \in 1 .. h : Pairs(p)[i] = <<p[2 * i - 1], p[2 * i]>>
  BY <1>2
<1>7. QED  BY <1>1, <1>5, <1>6 DEF h

\* The pairs thread t flips.
FlipShare(t) == FlattenSeq([i \in DOMAIN PathsOf(t) |-> Pairs(PathsOf(t)[i])])

\* It holds the pairs of every NumThreads-th path.
LEMMA FlipShareFacts ==
  ASSUME path_collection \in Seq(Seq(Node)), NEW t \in Thread
  PROVE  /\ FlipShare(t) \in Seq(Node \X Node)
         /\ \A e : e \in Range(FlipShare(t)) <=>
              \E i \in DOMAIN path_collection : \E k \in 1 .. (Len(path_collection[i]) \div 2) :
                /\ (i - 1) % NumThreads = t
                /\ e = <<path_collection[i][2 * k - 1], path_collection[i][2 * k]>>
<1> DEFINE c  == path_collection
           n  == Len(c)
           ps == PathsOf(t)
           ss == [i \in DOMAIN ps |-> Pairs(ps[i])]
<1>0. n \in Nat /\ DOMAIN c = 1 .. n /\ \A i \in 1 .. n : c[i] \in Seq(Node)
  BY LenProperties, ElementOfSeq
<1>1. /\ DOMAIN ps = 1 .. n
      /\ \A i \in 1 .. n : ps[i] = IF (i - 1) % NumThreads = t THEN c[i] ELSE <<>>
  BY <1>0 DEF PathsOf
<1>2. FlipShare(t) = FlattenSeq(ss)
  BY DEF FlipShare
<1> HIDE DEF c, ps
<1>3. \A i \in 1 .. n : ps[i] \in Seq(Node)
  <2>1. <<>> \in Seq(Node)
    OBVIOUS
  <2>2. QED  BY <2>1, <1>0, <1>1
<1>4. \A i \in 1 .. n : /\ ss[i] = Pairs(ps[i]) /\ ss[i] \in Seq(Node \X Node)
                        /\ Range(ss[i]) = {Pairs(ps[i])[k] : k \in 1 .. (Len(ps[i]) \div 2)}
  <2>1. SUFFICES ASSUME NEW i \in 1 .. n
                 PROVE  /\ ss[i] = Pairs(ps[i]) /\ ss[i] \in Seq(Node \X Node)
                        /\ Range(ss[i]) = {Pairs(ps[i])[k] : k \in 1 .. (Len(ps[i]) \div 2)}
    OBVIOUS
  <2>2. ss[i] = Pairs(ps[i])
    BY <1>1
  <2> DEFINE p == ps[i]
  <2>3. p \in Seq(Node)
    BY <1>3
  <2> HIDE DEF p
  <2>4. /\ Pairs(p) \in Seq(Node \X Node) /\ DOMAIN Pairs(p) = 1 .. (Len(p) \div 2)
    BY <2>3, PairsFacts
  <2>5. Range(Pairs(p)) = {Pairs(p)[k] : k \in 1 .. (Len(p) \div 2)}
    BY <2>4 DEF Range
  <2>6. QED  BY <2>2, <2>4, <2>5 DEF p
<1>5. ss \in Seq(Seq(Node \X Node)) /\ Len(ss) = n
  <2>1. DOMAIN ss = 1 .. n
    BY <1>1
  <2>2. ss \in [1 .. n -> Seq(Node \X Node)]
    BY <2>1, <1>4
  <2> HIDE DEF ss
  <2>3. ss \in Seq(Seq(Node \X Node))
    <3> DEFINE W == Seq(Node \X Node)
    <3>1. ss \in [1 .. n -> W] /\ n \in Nat
      BY <2>2, <1>0
    <3> HIDE DEF W, n
    <3>2. ss \in Seq(W)
      BY <3>1, SeqDef
    <3>3. QED  BY <3>2 DEF W
  <2>4. Len(ss) = n
    BY <2>1, <2>3, <1>0, LenProperties
  <2>5. QED  BY <2>3, <2>4
<1> HIDE DEF ss
<1>6. /\ FlattenSeq(ss) \in Seq(Node \X Node)
      /\ \A x : x \in Range(FlattenSeq(ss)) <=> \E i \in 1 .. Len(ss) : x \in Range(ss[i])
  BY <1>5, FlattenFacts
<1>7. ASSUME NEW i \in 1 .. n, NEW e
      PROVE  e \in Range(ss[i]) <=>
               \E k \in 1 .. (Len(c[i]) \div 2) :
                 (i - 1) % NumThreads = t /\ e = <<c[i][2 * k - 1], c[i][2 * k]>>
  <2>1. e \in Range(ss[i]) <=> \E k \in 1 .. (Len(ps[i]) \div 2) : e = Pairs(ps[i])[k]
    BY <1>4
  <2>2. CASE (i - 1) % NumThreads = t
    <3> DEFINE p == c[i]
    <3>1. p \in Seq(Node) /\ ps[i] = p
      BY <2>2, <1>0, <1>1
    <3> HIDE DEF p
    <3>2. \A k \in 1 .. (Len(p) \div 2) : Pairs(p)[k] = <<p[2 * k - 1], p[2 * k]>>
      BY <3>1, PairsFacts
    <3>3. e \in Range(ss[i]) <=> \E k \in 1 .. (Len(p) \div 2) : e = <<p[2 * k - 1], p[2 * k]>>
      BY <2>1, <3>1, <3>2
    <3>4. QED  BY <2>2, <3>3 DEF p
  <2>3. CASE (i - 1) % NumThreads # t
    <3>1. ps[i] = <<>>
      BY <2>3, <1>1
    <3>2. 1 .. (Len(<<>>) \div 2) = {}
      OBVIOUS
    <3>3. QED  BY <2>1, <2>3, <3>1, <3>2
  <2>4. QED  BY <2>2, <2>3
<1>8. \A e : e \in Range(FlipShare(t)) <=>
              \E i \in DOMAIN c : \E k \in 1 .. (Len(c[i]) \div 2) :
                (i - 1) % NumThreads = t /\ e = <<c[i][2 * k - 1], c[i][2 * k]>>
  <2>1. \A e : e \in Range(FlipShare(t)) <=> \E i \in 1 .. n : e \in Range(ss[i])
    BY <1>2, <1>5, <1>6
  <2>2. DOMAIN c = 1 .. n
    BY <1>0
  <2> DEFINE Q(i, e) == \E k \in 1 .. (Len(c[i]) \div 2) :
                (i - 1) % NumThreads = t /\ e = <<c[i][2 * k - 1], c[i][2 * k]>>
  <2>3. \A i \in 1 .. n : \A e : e \in Range(ss[i]) <=> Q(i, e)
    BY <1>7
  <2> HIDE DEF n, Q
  <2>4. \A e : e \in Range(FlipShare(t)) <=> \E i \in DOMAIN c : Q(i, e)
    BY <2>1, <2>2, <2>3
  <2>5. QED  BY <2>4 DEF Q
<1>9. QED  BY <1>2, <1>6, <1>8 DEF c

\* The driver starts to flip what a search has found.
LEMMA StartFlipBasic ==
  ASSUME Basic, phase = "augment", StartFlip,
         UNCHANGED <<forestVars, flagVars, lap, path_collection>>
  PROVE  Basic'
<1>0. /\ adj' = adj /\ M' = M /\ is_even' = is_even /\ belongs' = belongs
      /\ path_table' = path_table /\ nodes_vector' = nodes_vector
      /\ vector_1' = vector_1 /\ vector_2' = vector_2
      /\ select_tree' = select_tree /\ select_match' = select_match
      /\ select_blossom' = select_blossom /\ local' = local /\ lap' = lap
      /\ path_collection' = path_collection /\ phase' = "flip"
      /\ pc' = [t \in Thread |-> "flip"]
      /\ todo' = [t \in Thread |-> FlipShare(t)]
  BY DEF StartFlip, FlipShare, forestVars, flagVars, frontierVars
<1>1. TypeOK /\ MatesKept /\ ExposedInTrees /\ EntriesNeverOne
  BY DEF Basic
<1>2. \A t \in Thread : FlipShare(t) \in Seq(Node \X Node)
  BY <1>1, FlipShareFacts DEF TypeOK
<1>3. todo' \in [Thread -> Seq(Node \X Node)]
  BY <1>0, <1>2
<1>4. \A t \in Thread : pc'[t] = "flip"
  BY <1>0
<1>5. TypeOK'
  BY <1>0, <1>1, <1>3 DEF TypeOK, ForestTypeOK
<1>6. ThreadsPlaced'
  BY <1>0, <1>4 DEF ThreadsPlaced, Busy, Owning, Filling, Holding
<1>7. MatesKept' /\ PairOwners' /\ NodeOwners' /\ EntriesNeverOne'
  BY <1>0, <1>1 DEF MatesKept, PairOwners, NodeOwners, EntriesNeverOne
<1>8. ExposedInTrees'
  BY <1>0, <1>1 DEF ExposedInTrees, Repaired, SearchPhases
<1>9. QED  BY <1>5, <1>6, <1>7, <1>8 DEF Basic

\* A step of the flip (parCreateNewMatchingVector) keeps Basic.
LEMMA FlipBasic ==
  ASSUME Basic, phase = "flip", NEW t \in Thread, FlipPair(t) \/ FlipEnds(t)
  PROVE  Basic'
<1>0. /\ adj' = adj /\ is_even' = is_even /\ belongs' = belongs
      /\ path_table' = path_table /\ nodes_vector' = nodes_vector
      /\ vector_1' = vector_1 /\ vector_2' = vector_2
      /\ select_tree' = select_tree /\ select_match' = select_match
      /\ select_blossom' = select_blossom /\ local' = local /\ lap' = lap
      /\ path_collection' = path_collection /\ phase' = phase
  BY DEF FlipPair, FlipEnds, forestVars, flagVars, frontierVars
<1>1. TypeOK /\ ThreadsPlaced /\ EntriesNeverOne
  BY DEF Basic
<1>2. M' \in [Node -> Node \cup {NoNode}] /\ todo' \in [Thread -> Seq(Node \X Node)]
  <2>0. M \in [Node -> Node \cup {NoNode}] /\ todo \in [Thread -> Seq(Node \X Node)]
    BY <1>1 DEF TypeOK, ForestTypeOK
  <2>1. CASE FlipPair(t)
    <3>1. /\ Edge(t)[1] \in Node /\ Edge(t)[2] \in Node /\ Tail(todo[t]) \in Seq(Node \X Node)
      BY <2>1, <1>1, EdgeFacts DEF FlipPair
    <3>2. /\ M' = [M EXCEPT ![Edge(t)[1]] = Edge(t)[2], ![Edge(t)[2]] = Edge(t)[1]]
          /\ todo' = [todo EXCEPT ![t] = Tail(todo[t])]
      BY <2>1 DEF FlipPair
    <3>3. QED  BY <3>1, <3>2, <2>0
  <2>2. CASE FlipEnds(t)
    BY <2>0, <2>2 DEF FlipEnds, forestVars
  <2>3. QED  BY <2>1, <2>2
<1>3. \A u \in Thread : pc'[u] \in {"flip", "done"} /\ (pc'[u] = "done" => todo'[u] = <<>>)
  <2>0. \A u \in Thread : pc[u] \in {"flip", "done"} /\ (pc[u] = "done" => todo[u] = <<>>)
    BY <1>1 DEF ThreadsPlaced
  <2>1. CASE FlipPair(t)
    <3>1. pc' = pc /\ todo' = [todo EXCEPT ![t] = Tail(todo[t])] /\ pc[t] = "flip"
      BY <2>1 DEF FlipPair
    <3>2. \A u \in Thread : u # t => todo'[u] = todo[u]
      BY <3>1, <1>1 DEF TypeOK
    <3>3. QED  BY <3>1, <3>2, <2>0
  <2>2. CASE FlipEnds(t)
    <3>1. pc' = [pc EXCEPT ![t] = "done"] /\ todo' = todo /\ todo[t] = <<>>
      BY <2>2 DEF FlipEnds, Step
    <3>2. QED  BY <3>1, <2>0, <1>1 DEF TypeOK
  <2>3. QED  BY <2>1, <2>2
<1>4. pc' \in [Thread -> {"stripe", "fetch", "scan", "merge", "done", "second",
                         "release", "claim", "grow", "own", "mate", "visit",
                         "fill", "undo", "even", "flip", "crashed"}]
  BY <1>1 DEF FlipPair, FlipEnds, Step, TypeOK
<1>5. TypeOK'
  BY <1>0, <1>1, <1>2, <1>4 DEF TypeOK, ForestTypeOK
<1>6. ThreadsPlaced'
  BY <1>0, <1>3 DEF ThreadsPlaced, Busy, Owning, Filling, Holding
<1>7. MatesKept' /\ ExposedInTrees' /\ PairOwners' /\ NodeOwners' /\ EntriesNeverOne'
  BY <1>0, <1>1 DEF MatesKept, ExposedInTrees, Repaired, SearchPhases, PairOwners, NodeOwners, EntriesNeverOne
<1>8. QED  BY <1>5, <1>6, <1>7 DEF Basic

\* The driver between two searches keeps Basic.
LEMMA JoinFlipBasic ==
  ASSUME Basic, NEW first \in {"reuse", "exposed"}, JoinFlip(first)
  PROVE  Basic'
<1>0. /\ adj' = adj /\ M' = M /\ is_even' = is_even /\ belongs' = belongs
      /\ path_table' = path_table /\ nodes_vector' = <<>>
      /\ vector_1' = <<>> /\ vector_2' = <<>>
      /\ select_tree' = ZeroFlags /\ select_match' = ZeroFlags
      /\ select_blossom' = ZeroFlags /\ local' = local /\ lap' = lap /\ todo' = todo
      /\ path_collection' = <<>> /\ phase = "flip" /\ Joined
      /\ \/ phase' = "finished" /\ pc' = pc
         \/ MatesMutual /\ phase' = first /\ pc' = [t \in Thread |-> "stripe"]
  BY DEF JoinFlip, forestVars
<1>1. TypeOK /\ ThreadsPlaced /\ EntriesNeverOne
  BY DEF Basic
<1>2. ZeroFlags \in [Node -> {0, 1}] /\ <<>> \in Seq(Node) /\ <<>> \in Seq(Seq(Node))
  BY DEF ZeroFlags
<1>3. TypeOK'
  BY <1>0, <1>1, <1>2 DEF TypeOK, ForestTypeOK
<1>4. \A t \in Thread : pc'[t] \in {"done", "stripe"} /\ (phase' # "finished" => pc'[t] = "stripe")
  BY <1>0 DEF Joined
<1>5. ThreadsPlaced'
  <2>1. \A t \in Thread : pc'[t] \notin Busy /\ pc'[t] \notin {"claim"} \cup Filling
    BY <1>4 DEF Busy, Owning, Filling, Holding
  <2>2. phase' \in {"finished", "reuse", "exposed"}
    BY <1>0
  <2>3. QED  BY <2>1, <2>2, <1>4 DEF ThreadsPlaced
<1>6. MatesKept'
  BY <1>0 DEF MatesKept, MatesMutual, Matched
<1>7. ExposedInTrees'
  <2>1. SUFFICES ASSUME NEW x \in Node, Repaired(x)'
                 PROVE  FALSE
    BY DEF ExposedInTrees
  <2>2. x % NumThreads \in Thread
    BY ModThread
  <2>3. QED  BY <2>1, <2>2, <1>0, <1>4 DEF Repaired, SearchPhases
<1>8. PairOwners' /\ NodeOwners' /\ EntriesNeverOne'
  BY <1>0, <1>1 DEF PairOwners, NodeOwners, EntriesNeverOne
<1>9. QED  BY <1>3, <1>5, <1>6, <1>7, <1>8 DEF Basic

\* The driver before its first search.
LEMMA InitBasic ==
  ASSUME NEW first \in {"reuse", "exposed"}, DriverInit(first)
  PROVE  Basic
<1>0. /\ is_even = ZeroFlags /\ belongs = [v \in Node |-> NoNode]
      /\ path_table = [v \in Node |-> <<>>] /\ path_collection = <<>>
      /\ nodes_vector = <<>> /\ vector_1 = <<>> /\ vector_2 = <<>>
      /\ select_tree = ZeroFlags /\ select_match = ZeroFlags /\ select_blossom = ZeroFlags
      /\ pc = [t \in Thread |-> "stripe"]
      /\ todo = NoWork /\ local = NoWork /\ lap = NoWork /\ phase = first
  BY DEF DriverInit
<1>1. IsUndirected(adj) /\ M \in [Node -> Node \cup {NoNode}] /\ IsMatching(adj, M)
  BY StartsAssumption DEF DriverInit
<1>2. adj \in [Node -> Seq(Node)] /\ MatesMutual
  BY <1>1 DEF IsUndirected, IsMatching, MatesMutual
<1>3. /\ ZeroFlags \in [Node -> {0, 1}] /\ [v \in Node |-> NoNode] \in [Node -> Node \cup {NoNode}]
      /\ <<>> \in Seq(Node) /\ <<>> \in Seq(Seq(Node))
      /\ <<>> \in Seq(Node \X Node) /\ <<>> \in Seq(Node \X Seq(Node))
  BY DEF ZeroFlags
<1>4. /\ NoWork \in [Thread -> Seq(Node \X Node)] /\ NoWork \in [Thread -> Seq(Node)]
      /\ NoWork \in [Thread -> Seq(Node \X Seq(Node))]
      /\ [v \in Node |-> <<>>] \in [Node -> Seq(Node)]
  BY <1>3 DEF NoWork
<1>5. TypeOK
  BY <1>0, <1>1, <1>2, <1>3, <1>4 DEF TypeOK, ForestTypeOK
<1>6. ThreadsPlaced
  BY <1>0 DEF ThreadsPlaced, Busy, Owning, Filling, Holding
<1>7. ExposedInTrees
  <2>1. SUFFICES ASSUME NEW x \in Node, Repaired(x)
                 PROVE  FALSE
    BY DEF ExposedInTrees
  <2>2. x % NumThreads \in Thread
    BY ModThread
  <2>3. QED  BY <2>1, <2>2, <1>0 DEF Repaired, SearchPhases
<1>8. EntriesNeverOne
  <2>1. \A x \in Node : path_table[x] = <<>>
    BY <1>0
  <2>2. \A t \in Thread : lap[t] = <<>>
    BY <1>0 DEF NoWork
  <2>3. Len(<<>>) # 1 /\ Range(<<>>) = {}
    BY DEF Range
  <2>4. QED  BY <2>1, <2>2, <2>3 DEF EntriesNeverOne
<1>9. MatesKept /\ PairOwners /\ NodeOwners
  BY <1>0, <1>2 DEF MatesKept, PairOwners, NodeOwners
<1>10. QED  BY <1>5, <1>6, <1>7, <1>8, <1>9 DEF Basic

-----------------------------------------------------------------------------
\* The edges of a node, as a thread meets them.
LEMMA RowFacts ==
  ASSUME adj \in [Node -> Seq(Node)], NEW v \in Node
  PROVE  /\ Row(adj, v) \in Seq(Node \X Node)
         /\ \A e \in Range(Row(adj, v)) : e[1] = v /\ IsAdjacent(adj, v, e[2])
<1> DEFINE s == adj[v]  r == Row(adj, v)
<1>0. s \in Seq(Node) /\ Len(s) \in Nat /\ DOMAIN s = 1 .. Len(s) /\ \A j \in 1 .. Len(s) : s[j] \in Node
  <2>1. s \in Seq(Node)
    OBVIOUS
  <2>2. QED  BY <2>1, LenProperties, ElementOfSeq
<1>1. r = [j \in 1 .. Len(s) |-> <<v, s[j]>>]
  BY DEF Row
<1>2. \A j \in DOMAIN s : IsAdjacent(adj, v, s[j])
  BY DEF IsAdjacent
<1> HIDE DEF s, r
<1>3. r \in [1 .. Len(s) -> Node \X Node] /\ DOMAIN r = 1 .. Len(s)
  BY <1>0, <1>1
<1>4. r \in Seq(Node \X Node)
  <2> DEFINE W == Node \X Node  n == Len(s)
  <2>1. r \in [1 .. n -> W] /\ n \in Nat
    BY <1>0, <1>3
  <2> HIDE DEF W, n
  <2>2. r \in Seq(W)
    BY <2>1, SeqDef
  <2>3. QED  BY <2>2 DEF W
<1>5. \A e \in Range(r) : e[1] = v /\ IsAdjacent(adj, v, e[2])
  <2>1. SUFFICES ASSUME NEW j \in 1 .. Len(s)
                 PROVE  r[j][1] = v /\ IsAdjacent(adj, v, r[j][2])
    BY <1>3 DEF Range
  <2>2. r[j] = <<v, s[j]>> /\ j \in DOMAIN s
    BY <1>0, <1>1
  <2>3. QED  BY <2>2, <1>2
<1>6. QED  BY <1>4, <1>5 DEF r

\* However the rows of a frontier are shared out, what a thread keeps of them
\* is a share.
LEMMA RowsAreShare ==
  ASSUME adj \in [Node -> Seq(Node)], NEW frontier \in Seq(Node), NEW live,
         NEW n \in Nat, NEW ss, ss = [i \in 1 .. n |-> ss[i]],
         \A i \in 1 .. n : ss[i] = <<>> \/ \E v \in Range(frontier) : ss[i] = Row(adj, v)
  PROVE  IsShare(Among(FlattenSeq(ss), live), frontier, live)
<1> DEFINE S == Node \X Node
           G == {e \in S : e[1] \in Range(frontier) /\ IsAdjacent(adj, e[1], e[2])}
<1>1. \A i \in 1 .. n : ss[i] \in Seq(G)
  <2>1. SUFFICES ASSUME NEW v \in Range(frontier)
                 PROVE  Row(adj, v) \in Seq(G)
    <3> HIDE DEF G
    <3>1. <<>> \in Seq(G)
      OBVIOUS
    <3>2. QED  BY <3>1
  <2>2. v \in Node
    BY RangeOfSeq
  <2> DEFINE r == Row(adj, v)
  <2>3. r \in Seq(S) /\ \A e \in Range(r) : e[1] = v /\ IsAdjacent(adj, v, e[2])
    BY <2>2, RowFacts
  <2> HIDE DEF r
  <2>4. r \in Seq(Range(r)) /\ Range(r) \subseteq S
    <3> HIDE DEF S
    <3>1. QED  BY <2>3, SeqOfRange, RangeOfSeq
  <2>5. Range(r) \subseteq G
    BY <2>3, <2>4
  <2> HIDE DEF G
  <2>6. r \in Seq(G)
    BY <2>4, <2>5, SeqMonotonic
  <2>7. QED  BY <2>6 DEF r
<1>2. ss \in Seq(Seq(G))
  <2> DEFINE W == Seq(G)
  <2>1. ss \in [1 .. n -> W]
    BY <1>1
  <2> HIDE DEF W
  <2>2. ss \in Seq(W)
    BY <2>1, SeqDef
  <2>3. QED  BY <2>2 DEF W
<1> HIDE DEF G, S
<1> DEFINE f == FlattenSeq(ss)
<1>3. f \in Seq(G)
  BY <1>2, FlattenFacts
<1> HIDE DEF f
<1>4. /\ Among(f, live) \in Seq(G)
      /\ \A x : x \in Range(Among(f, live)) => x \in live
  BY <1>3, AmongFacts
<1> DEFINE a == Among(f, live)
<1> HIDE DEF a
<1>5. a \in Seq(G) /\ \A x : x \in Range(a) => x \in live
  BY <1>4 DEF a
<1>6. \A e \in Range(a) : e \in G
  BY <1>5, RangeOfSeq
<1>7. G \subseteq S /\ \A e \in G : e[1] \in Range(frontier) /\ IsAdjacent(adj, e[1], e[2])
  BY DEF G
<1>8. a \in Seq(S)
  BY <1>5, <1>7, SeqMonotonic
<1>9. QED  BY <1>5, <1>6, <1>7, <1>8 DEF IsShare, a, f, S
-----------------------------------------------------------------------------
\* A step of a thread, whatever the engine.
ThreadStep(t) ==
  \/ phase = "reuse" /\ Reuse(t)
  \/ phase = "augment" /\ (Augments(t) \/ TakesShare(t, Bridges) \/ Leaves(t))
  \/ phase = "expand" /\ (Expands(t) \/ TakesShare(t, Outward) \/ Leaves(t))
  \/ phase = "blossom" /\ (Shrinks(t) \/ TakesShare(t, Inward) \/ Leaves(t))
  \/ phase = "flip" /\ (FlipPair(t) \/ FlipEnds(t))

\* It keeps Basic.
LEMMA ThreadBasic ==
  ASSUME Basic, NEW t \in Thread, ThreadStep(t)
  PROVE  Basic'
BY ReuseBasic, AugmentBasic, ExpandBasic, ShrinkBasic, ShareBasic, LeaveBasic, FlipBasic
   DEF ThreadStep, SearchPhases

\* A step that changes nothing keeps Basic.
LEMMA SameBasic ==
  ASSUME Basic, UNCHANGED searchVars
  PROVE  Basic'
<1>1. /\ adj' = adj /\ M' = M /\ is_even' = is_even /\ belongs' = belongs
      /\ path_table' = path_table /\ nodes_vector' = nodes_vector
      /\ vector_1' = vector_1 /\ vector_2' = vector_2
      /\ select_tree' = select_tree /\ select_match' = select_match
      /\ select_blossom' = select_blossom /\ local' = local /\ lap' = lap /\ todo' = todo
      /\ path_collection' = path_collection /\ pc' = pc /\ phase' = phase
  BY DEF searchVars, forestVars, frontierVars, flagVars, threadVars
<1>2. QED
  BY <1>1 DEF Basic, TypeOK, ForestTypeOK, ThreadsPlaced, MatesKept, MatesMutual, Matched, ExposedInTrees,
     Repaired, PairOwners, NodeOwners, EntriesNeverOne, Edge, Mate, MatchSlot, Current

-----------------------------------------------------------------------------
\* What a legal walk is: a simple path to the root inside the tree, closed
\* under the matching.
LEMMA LegalFacts ==
  ASSUME ForestTypeOK, MatesMutual, NEW v \in Node, EvenWalkLegal(v), NEW p,
         p = Walk(path_table, v)
  PROVE  /\ p \in Path /\ p \in Seq(Node) /\ p[1] = v /\ v \in Range(p)
         /\ IsInjective(p) /\ Len(p) \in Nat /\ Len(p) >= 1 /\ Len(p) % 2 = 1 /\ Len(p) <= nodes
         /\ Last(p) = belongs[v] /\ Last(p) = p[Len(p)] /\ Last(p) \in Range(p) /\ M[Last(p)] = NoNode
         /\ belongs[v] \in Node /\ M[belongs[v]] = NoNode
         /\ \A x \in Range(p) : x \in Node /\ belongs[x] = belongs[v]
         /\ \A x \in Range(p) : M[x] = NoNode \/ M[x] \in Range(p)
         /\ \A i \in 1 .. (Len(p) - 1) :
              IF i % 2 = 1 THEN M[p[i]] = p[i + 1] ELSE IsAdjacent(adj, p[i], p[i + 1])
<1>0. /\ path_table \in [Node -> Seq(Node)] /\ M \in [Node -> Node \cup {NoNode}]
      /\ nodes \in Nat
  BY NodesAssumption DEF ForestTypeOK
<1>1. /\ p \in Path /\ p \in Seq(Node) /\ p[1] = v /\ v \in Range(p)
  BY <1>0, WalkType
<1>2. /\ IsEvenWalk(adj, M, p) /\ Last(p) = belongs[v]
      /\ \A x \in Range(p) : belongs[x] = belongs[v]
  BY DEF EvenWalkLegal
<1>3. /\ IsInjective(p) /\ Len(p) % 2 = 1 /\ M[Last(p)] = NoNode
      /\ \A i \in 1 .. (Len(p) - 1) :
              IF i % 2 = 1 THEN M[p[i]] = p[i + 1] ELSE IsAdjacent(adj, p[i], p[i + 1])
  BY <1>2 DEF IsEvenWalk
<1>4. Len(p) \in Nat /\ DOMAIN p = 1 .. Len(p) /\ \A i \in 1 .. Len(p) : p[i] \in Node
  BY <1>1, LenProperties, ElementOfSeq
<1>5. Len(p) >= 1
  BY <1>1, <1>4, EmptySeq DEF Path
<1>6. Len(p) <= nodes
  BY <1>0, <1>1, <1>3, InjectiveLen DEF Node
<1>7. Last(p) = p[Len(p)] /\ Last(p) \in Range(p)
  BY <1>4, <1>5 DEF Last, Range
<1>8. \A x \in Range(p) : x \in Node
  BY <1>4 DEF Range
<1>9. \A x \in Range(p) : M[x] = NoNode \/ M[x] \in Range(p)
  <2>1. SUFFICES ASSUME NEW i \in 1 .. Len(p)
                 PROVE  M[p[i]] = NoNode \/ M[p[i]] \in Range(p)
    BY <1>4 DEF Range
  <2>2. CASE i = Len(p)
    BY <2>2, <1>3, <1>7
  <2>3. CASE i # Len(p) /\ i % 2 = 1
    <3>1. i \in 1 .. (Len(p) - 1) /\ i + 1 \in 1 .. Len(p)
      <4>1. \A n \in Nat : \A k \in 1 .. n : k # n => k \in 1 .. (n - 1) /\ k + 1 \in 1 .. n
        OBVIOUS
      <4>2. Len(p) \in Nat
        BY <1>4
      <4>3. QED  BY <4>1, <4>2, <2>3
    <3>2. M[p[i]] = p[i + 1]
      BY <3>1, <2>3, <1>3
    <3>3. QED  BY <3>1, <3>2, <1>4 DEF Range
  <2>4. CASE i # Len(p) /\ i % 2 # 1
    <3>1. i - 1 \in 1 .. (Len(p) - 1) /\ (i - 1) % 2 = 1 /\ (i - 1) + 1 = i /\ i - 1 \in 1 .. Len(p)
      <4>1. \A n \in Nat : \A k \in 1 .. n : k % 2 # 1 =>
              k - 1 \in 1 .. (n - 1) /\ (k - 1) % 2 = 1 /\ (k - 1) + 1 = k /\ k - 1 \in 1 .. n
        OBVIOUS
      <4>2. Len(p) \in Nat
        BY <1>4
      <4>3. QED  BY <4>1, <4>2, <2>4
    <3>2. M[p[i - 1]] = p[i] /\ p[i] \in Node /\ p[i - 1] \in Node
      BY <3>1, <1>3, <1>4
    <3>3. M[p[i]] = p[i - 1]
      BY <3>2 DEF MatesMutual, Matched, Node, NoNode
    <3>4. QED  BY <3>1, <3>3, <1>4 DEF Range
  <2>5. QED  BY <2>2, <2>3, <2>4
<1>10. QED  BY <1>1, <1>2, <1>3, <1>4, <1>5, <1>6, <1>7, <1>8, <1>9

\* A walk stays legal when its nodes keep tree and entry.
LEMMA LegalFrame ==
  ASSUME ForestTypeOK, path_table' \in [Node -> Seq(Node)], MatesMutual,
         UNCHANGED <<adj, M>>, NEW v \in Node, EvenWalkLegal(v),
         \A x \in Range(Walk(path_table, v)) :
           path_table'[x] = path_table[x] /\ belongs'[x] = belongs[x]
  PROVE  EvenWalkLegal(v)' /\ Walk(path_table, v)' = Walk(path_table, v)
<1>0. path_table \in [Node -> Seq(Node)]
  BY DEF ForestTypeOK
<1>1. Walk(path_table', v) = Walk(path_table, v)
  BY <1>0, WalkFrame
<1>2. v \in Range(Walk(path_table, v))
  BY <1>0, WalkType
<1> DEFINE p == Walk(path_table, v)
<1> HIDE DEF p
<1>3. /\ p \in Seq(Node) /\ IsEvenWalk(adj, M, p) /\ Last(p) = belongs[v]
      /\ \A x \in Range(p) : belongs[x] = belongs[v]
  BY DEF EvenWalkLegal, p
<1>4. belongs'[v] = belongs[v] /\ \A x \in Range(p) : belongs'[x] = belongs[v]
  BY <1>2, <1>3 DEF p
<1>5. IsEvenWalk(adj', M', p)
  BY <1>3
<1>6. Walk(path_table', v) = p
  BY <1>1 DEF p
<1>7. QED  BY <1>3, <1>4, <1>5, <1>6 DEF EvenWalkLegal, p

\* A pair that hangs on a legal walk has a legal walk once it is in the tree.
LEMMA HopLegal ==
  ASSUME ForestTypeOK, MatesMutual, EntriesLong(path_table), NEW v \in Node, NEW w \in Node, NEW x \in Node,
         EvenWalkLegal(v), path_table[x] = <<w, v>>, M[x] = w, M[w] = x, w # x,
         IsAdjacent(adj, w, v),
         w \notin Range(Walk(path_table, v)), x \notin Range(Walk(path_table, v)),
         UNCHANGED <<adj, M, path_table>>, belongs'[w] = belongs[v], belongs'[x] = belongs[v],
         \A y \in Range(Walk(path_table, v)) : belongs'[y] = belongs[y]
  PROVE  EvenWalkLegal(x)'
<1> DEFINE q == Walk(path_table, v)
           f == <<x, w>>
           p == f \o q
<1>0. /\ q \in Seq(Node) /\ IsInjective(q) /\ Len(q) \in Nat /\ Len(q) >= 1 /\ Len(q) % 2 = 1
      /\ Len(q) <= nodes /\ Last(q) = belongs[v] /\ Last(q) = q[Len(q)] /\ M[Last(q)] = NoNode
      /\ q[1] = v
      /\ \A y \in Range(q) : belongs[y] = belongs[v]
      /\ \A i \in 1 .. (Len(q) - 1) :
              IF i % 2 = 1 THEN M[q[i]] = q[i + 1]
                           ELSE IsAdjacent(adj, q[i], q[i + 1]) /\ M[q[i]] # q[i + 1]
  <2>1. q = Walk(path_table, v)
    OBVIOUS
  <2> HIDE DEF q
  <2>2. IsEvenWalk(adj, M, q)
    BY <2>1 DEF EvenWalkLegal
  <2>3. QED  BY <2>1, <2>2, LegalFacts DEF IsEvenWalk
<1>1. Walk(path_table, x) = <<x, w>> \o q
  <2>1. path_table \in [Node -> Seq(Node)] /\ Len(Walk(path_table, v)) <= nodes
    BY <1>0 DEF ForestTypeOK
  <2>2. QED  BY ZenonT(30), <2>1, WalkHop
<1>2. /\ f \in Seq(Node) /\ Len(f) = 2 /\ f[1] = x /\ f[2] = w /\ IsInjective(f) /\ Range(f) = {x, w}
  <2>1. f \in Seq(Node) /\ Len(f) = 2 /\ f[1] = x /\ f[2] = w /\ DOMAIN f = 1 .. 2
    OBVIOUS
  <2>2. 1 .. 2 = {1, 2}
    OBVIOUS
  <2>3. IsInjective(f) /\ Range(f) = {x, w}
    BY <2>1, <2>2 DEF IsInjective, Range
  <2>4. QED  BY <2>1, <2>3
<1>3. Range(f) \cap Range(q) = {}
  BY <1>2
<1> HIDE DEF q, f
<1>4. /\ p \in Seq(Node) /\ Len(p) = 2 + Len(q)
      /\ Range(p) = Range(f) \cup Range(q)
      /\ \A i \in 1 .. (2 + Len(q)) : p[i] = IF i <= 2 THEN f[i] ELSE q[i - 2]
      /\ IsInjective(p)
  <2>1. /\ p \in Seq(Node) /\ Len(p) = Len(f) + Len(q)
        /\ \A i \in 1 .. (Len(f) + Len(q)) : p[i] = IF i <= Len(f) THEN f[i] ELSE q[i - Len(f)]
    <3>1. f \in Seq(Node) /\ q \in Seq(Node)
      BY <1>0, <1>2
    <3>2. QED  BY <3>1, ConcatProperties
  <2>2. Range(p) = Range(f) \cup Range(q)
    BY <1>0, <1>2, ConcatRange
  <2>3. IsInjective(p)
    BY <1>0, <1>2, <1>3, ConcatInjective
  <2>4. Len(f) = 2
    BY <1>2
  <2> HIDE DEF p
  <2>5. QED  BY <2>1, <2>2, <2>3, <2>4
<1> HIDE DEF p
<1>5. Last(p) = Last(q)
  <2>1. Len(p) \in 1 .. (2 + Len(q)) /\ ~(Len(p) <= 2) /\ Len(p) - 2 = Len(q)
    BY <1>0, <1>4
  <2>2. QED  BY <1>0, <1>4, <2>1 DEF Last
<1>6. Len(p) % 2 = 1
  BY <1>0, <1>4
<1>7. ASSUME NEW i \in 1 .. (Len(p) - 1)
      PROVE  IF i % 2 = 1 THEN M[p[i]] = p[i + 1]
                          ELSE IsAdjacent(adj, p[i], p[i + 1]) /\ M[p[i]] # p[i + 1]
  <2>1. CASE i = 1
    <3>1. p[1] = f[1] /\ p[2] = f[2]
      BY <1>0, <1>4
    <3>2. QED  BY <2>1, <3>1, <1>2
  <2>2. CASE i = 2
    <3>1. p[2] = f[2] /\ p[3] = q[1]
      BY <1>0, <1>4
    <3>2. x # v
      <4>1. q[1] \in Range(q)
        BY <1>0, LenProperties DEF Range
      <4>2. QED  BY <4>1, <1>0, <1>2, <1>3
    <3>3. QED  BY <2>2, <3>1, <3>2, <1>0, <1>2
  <2>3. CASE i > 2
    <3>1. /\ i - 2 \in 1 .. (Len(q) - 1) /\ (i - 2) % 2 = i % 2
          /\ i \in 1 .. (2 + Len(q)) /\ i + 1 \in 1 .. (2 + Len(q)) /\ (i + 1) - 2 = (i - 2) + 1
          /\ ~(i <= 2) /\ ~(i + 1 <= 2)
      BY SMTT(30), <2>3, <1>0, <1>4
    <3>2. p[i] = q[i - 2] /\ p[i + 1] = q[(i - 2) + 1]
      BY <3>1, <1>4
    <3>3. QED  BY <3>1, <3>2, <1>0
  <2>4. QED  BY <2>1, <2>2, <2>3, <1>0, <1>4
<1>8. IsEvenWalk(adj, M, p)
  BY <1>0, <1>4, <1>5, <1>6, <1>7 DEF IsEvenWalk
<1>9. \A y \in Range(p) : belongs'[y] = belongs'[x]
  <2>1. \A y \in Range(q) : belongs'[y] = belongs[y]
    BY DEF q
  <2>2. QED  BY <2>1, <1>0, <1>2, <1>4
<1>10. Walk(path_table, x)' = p
  BY <1>1 DEF p, f
<1>11. adj' = adj /\ M' = M
  OBVIOUS
<1>12. Last(p) = belongs'[x]
  BY <1>5, <1>0
<1>13. QED  BY <1>4, <1>8, <1>9, <1>10, <1>11, <1>12 DEF EvenWalkLegal

-----------------------------------------------------------------------------
\* An edge is stored at both of its ends.
LEMMA Undirected ==
  ASSUME IsUndirected(adj), NEW a \in Node, NEW b \in Node, IsAdjacent(adj, a, b)
  PROVE  IsAdjacent(adj, b, a)
<1>1. b \in Range(adj[a])
  BY DEF IsAdjacent, Range
<1>2. QED  BY <1>1 DEF IsUndirected

\* The neighbours in a row that an even position joins.
JoinedPairs(p) ==
  \A k \in 1 .. (Len(p) \div 2) :
     IsAdjacent(adj, p[2 * k - 1], p[2 * k]) /\ IsAdjacent(adj, p[2 * k], p[2 * k - 1])

\* The path through a bridge, root to root, can be flipped.
LEMMA BridgePath ==
  ASSUME ForestTypeOK, MatesMutual, IsUndirected(adj), NEW v \in Node, NEW w \in Node,
         EvenWalkLegal(v), EvenWalkLegal(w), belongs[v] # belongs[w], IsAdjacent(adj, v, w),
         NEW p, p = JoinWalks(path_table, v, w)
  PROVE  /\ p \in Seq(Node) /\ p # <<>> /\ FlipsWell(p) /\ ClosedPath(p)
         /\ belongs[v] \in Range(p) /\ belongs[w] \in Range(p)
         /\ \A x \in Range(p) : belongs[x] \in {belongs[v], belongs[w]}
<1> DEFINE P == Walk(path_table, v)
           Q == Walk(path_table, w)
           r == Reverse(P)
           m == Len(P)
           n == Len(Q)
<1>1. /\ P \in Seq(Node) /\ P[1] = v /\ IsInjective(P) /\ m \in Nat /\ m >= 1 /\ m % 2 = 1
      /\ belongs[v] \in Range(P)
      /\ \A x \in Range(P) : x \in Node /\ belongs[x] = belongs[v]
      /\ \A x \in Range(P) : M[x] = NoNode \/ M[x] \in Range(P)
      /\ \A i \in 1 .. (m - 1) : i % 2 # 1 => IsAdjacent(adj, P[i], P[i + 1])
  <2>1. P = Walk(path_table, v)
    OBVIOUS
  <2> HIDE DEF P
  <2>2. QED  BY <2>1, LegalFacts
<1>2. /\ Q \in Seq(Node) /\ Q[1] = w /\ IsInjective(Q) /\ n \in Nat /\ n >= 1 /\ n % 2 = 1
      /\ belongs[w] \in Range(Q)
      /\ \A x \in Range(Q) : x \in Node /\ belongs[x] = belongs[w]
      /\ \A x \in Range(Q) : M[x] = NoNode \/ M[x] \in Range(Q)
      /\ \A i \in 1 .. (n - 1) : i % 2 # 1 => IsAdjacent(adj, Q[i], Q[i + 1])
  <2>1. Q = Walk(path_table, w)
    OBVIOUS
  <2> HIDE DEF Q
  <2>2. QED  BY <2>1, LegalFacts
<1>3. p = r \o Q
  BY DEF JoinWalks
<1> HIDE DEF P, Q
<1>4. /\ r \in Seq(Node) /\ Range(r) = Range(P) /\ IsInjective(r)
  BY <1>1, ReverseRange
<1>5. Len(r) = m /\ \A i \in 1 .. m : r[i] = P[m - i + 1]
  BY <1>1 DEF Reverse
<1> HIDE DEF r
<1>6. Range(r) \cap Range(Q) = {}
  BY <1>1, <1>2, <1>4
<1>7. p \in Seq(Node) /\ Range(p) = Range(P) \cup Range(Q)
  BY <1>2, <1>3, <1>4, ConcatRange
<1>8. IsInjective(p)
  BY <1>2, <1>3, <1>4, <1>6, ConcatInjective
<1>9. Len(p) = m + n /\ \A i \in 1 .. m + n : p[i] = IF i <= m THEN r[i] ELSE Q[i - m]
  <2>1. r \in Seq(Node) /\ Q \in Seq(Node)
    BY <1>2, <1>4
  <2>2. /\ Len(r \o Q) = Len(r) + n
        /\ \A i \in 1 .. Len(r) + n : (r \o Q)[i] = IF i <= Len(r) THEN r[i] ELSE Q[i - Len(r)]
    BY <2>1, ConcatProperties
  <2>3. QED  BY <2>2, <1>3, <1>5
<1>10. \A i \in 1 .. m : P[i] \in Node
  BY <1>1, ElementOfSeq
<1>11. \A i \in 1 .. n : Q[i] \in Node
  BY <1>2, ElementOfSeq
<1> HIDE DEF m, n
<1>12. ASSUME NEW k \in 1 .. (Len(p) \div 2)
       PROVE  IsAdjacent(adj, p[2 * k - 1], p[2 * k]) /\ IsAdjacent(adj, p[2 * k], p[2 * k - 1])
  <2>0. m \in Nat /\ n \in Nat /\ m % 2 = 1 /\ n % 2 = 1 /\ m >= 1 /\ n >= 1 /\ k \in Nat /\ k >= 1
        /\ 2 * k <= m + n /\ 2 * k - 1 \in 1 .. m + n /\ 2 * k \in 1 .. m + n
    <3>1. m \in Nat /\ n \in Nat /\ m % 2 = 1 /\ n % 2 = 1 /\ m >= 1 /\ n >= 1
      BY <1>1, <1>2
    <3>2. k \in 1 .. ((m + n) \div 2)
      BY <1>9
    <3>3. QED  BY <3>1, <3>2
  <2>1. CASE 2 * k - 1 < m
    <3>1. /\ 2 * k - 1 <= m /\ 2 * k <= m /\ 2 * k - 1 \in 1 .. m /\ 2 * k \in 1 .. m
          /\ m - 2 * k + 1 \in 1 .. (m - 1) /\ (m - 2 * k + 1) % 2 # 1
          /\ m - (2 * k - 1) + 1 = (m - 2 * k + 1) + 1
          /\ m - 2 * k + 1 \in 1 .. m /\ (m - 2 * k + 1) + 1 \in 1 .. m
      BY <2>0, <2>1
    <3>2. p[2 * k - 1] = P[(m - 2 * k + 1) + 1] /\ p[2 * k] = P[m - 2 * k + 1]
      BY <2>0, <3>1, <1>5, <1>9
    <3>3. IsAdjacent(adj, p[2 * k], p[2 * k - 1])
      BY <3>1, <3>2, <1>1
    <3>4. p[2 * k] \in Node /\ p[2 * k - 1] \in Node
      BY <3>1, <3>2, <1>10
    <3>5. QED  BY <3>3, <3>4, Undirected
  <2>2. CASE 2 * k - 1 = m
    <3>1. /\ 2 * k - 1 <= m /\ ~(2 * k <= m) /\ 2 * k - m = 1 /\ m - (2 * k - 1) + 1 = 1
          /\ 2 * k - 1 \in 1 .. m
      BY <2>0, <2>2
    <3>2. p[2 * k - 1] = v /\ p[2 * k] = w
      BY <2>0, <3>1, <1>1, <1>2, <1>5, <1>9
    <3>3. QED  BY <3>2, Undirected
  <2>3. CASE 2 * k - 1 > m
    <3>1. /\ ~(2 * k - 1 <= m) /\ ~(2 * k <= m)
          /\ 2 * k - 1 - m \in 1 .. (n - 1) /\ (2 * k - 1 - m) % 2 # 1
          /\ 2 * k - m = (2 * k - 1 - m) + 1
          /\ 2 * k - 1 - m \in 1 .. n /\ (2 * k - 1 - m) + 1 \in 1 .. n
      BY <2>0, <2>3
    <3>2. p[2 * k - 1] = Q[2 * k - 1 - m] /\ p[2 * k] = Q[(2 * k - 1 - m) + 1]
      BY <2>0, <3>1, <1>9
    <3>3. IsAdjacent(adj, p[2 * k - 1], p[2 * k])
      BY <3>1, <3>2, <1>2
    <3>4. p[2 * k] \in Node /\ p[2 * k - 1] \in Node
      BY <3>1, <3>2, <1>11
    <3>5. QED  BY <3>3, <3>4, Undirected
  <2>4. QED  BY <2>0, <2>1, <2>2, <2>3
<1>13. Len(p) % 2 = 0 /\ p # <<>>
  <2>1. \A a, b \in Nat : a % 2 = 1 /\ b % 2 = 1 => (a + b) % 2 = 0 /\ a + b # 0
    OBVIOUS
  <2>2. m \in Nat /\ n \in Nat /\ m % 2 = 1 /\ n % 2 = 1
    BY <1>1, <1>2
  <2>3. Len(p) % 2 = 0 /\ Len(p) # 0
    BY <2>1, <2>2, <1>9
  <2>4. QED  BY <2>3, <1>7, EmptySeq
<1>14. \A x \in Range(p) : belongs[x] \in {belongs[v], belongs[w]}
  BY <1>1, <1>2, <1>7
<1>15. belongs[v] \in Range(p) /\ belongs[w] \in Range(p)
  BY <1>1, <1>2, <1>7
<1>16. \A x \in Range(p) : belongs[x] \in Range(p)
  BY <1>14, <1>15
<1>17. ClosedPath(p)
  BY <1>1, <1>2, <1>7 DEF ClosedPath
<1>18. FlipsWell(p)
  BY <1>8, <1>12, <1>13, <1>16 DEF FlipsWell
<1>19. QED  BY <1>7, <1>13, <1>14, <1>15, <1>17, <1>18

\* Paths without a common node can be flipped in a row.
LEMMA ConcatFlips ==
  ASSUME NEW p \in Seq(Node), NEW q \in Seq(Node), FlipsWell(p), FlipsWell(q),
         Range(p) \cap Range(q) = {}
  PROVE  /\ FlipsWell(p \o q)
         /\ ClosedPath(p) /\ ClosedPath(q) => ClosedPath(p \o q)
<1> DEFINE m == Len(p)
           n == Len(q)
           c == p \o q
<1>1. m \in Nat /\ n \in Nat /\ m % 2 = 0 /\ n % 2 = 0
  BY LenProperties DEF FlipsWell
<1>2. Len(c) = m + n /\ \A i \in 1 .. m + n : c[i] = IF i <= m THEN p[i] ELSE q[i - m]
  BY ConcatProperties
<1>3. Range(c) = Range(p) \cup Range(q)
  BY ConcatRange
<1>4. IsInjective(c)
  BY ConcatInjective DEF FlipsWell
<1> HIDE DEF c
<1>5. \A x \in Range(c) : belongs[x] \in Range(c)
  BY <1>3 DEF FlipsWell
<1>6. ClosedPath(p) /\ ClosedPath(q) => ClosedPath(c)
  BY <1>3 DEF ClosedPath
<1>7. JoinedPairs(p) /\ JoinedPairs(q)
  BY DEF FlipsWell, JoinedPairs
<1>8. ASSUME NEW k \in 1 .. (Len(c) \div 2)
      PROVE  IsAdjacent(adj, c[2 * k - 1], c[2 * k]) /\ IsAdjacent(adj, c[2 * k], c[2 * k - 1])
  <2>0. k \in 1 .. ((m + n) \div 2)
    BY <1>2
  <2> HIDE DEF m, n
  <2>1. CASE 2 * k <= m
    <3>1. /\ k \in 1 .. (m \div 2) /\ 2 * k - 1 \in 1 .. m + n /\ 2 * k \in 1 .. m + n
          /\ 2 * k - 1 <= m
      BY <1>1, <2>0, <2>1
    <3>2. c[2 * k - 1] = p[2 * k - 1] /\ c[2 * k] = p[2 * k]
      BY <1>2, <2>1, <3>1
    <3>3. QED  BY <1>7, <3>1, <3>2 DEF JoinedPairs, m
  <2>2. CASE ~(2 * k <= m)
    <3>1. /\ k - m \div 2 \in 1 .. (n \div 2)
          /\ 2 * k - 1 \in 1 .. m + n /\ 2 * k \in 1 .. m + n
          /\ ~(2 * k - 1 <= m) /\ 2 * k - 1 - m = 2 * (k - m \div 2) - 1
          /\ 2 * k - m = 2 * (k - m \div 2)
      BY <1>1, <2>0, <2>2
    <3>2. c[2 * k - 1] = q[2 * (k - m \div 2) - 1] /\ c[2 * k] = q[2 * (k - m \div 2)]
      BY <1>2, <2>2, <3>1
    <3> DEFINE j == k - m \div 2
    <3>3. j \in 1 .. (Len(q) \div 2)
      BY <3>1 DEF n
    <3> HIDE DEF j
    <3>4. IsAdjacent(adj, q[2 * j - 1], q[2 * j]) /\ IsAdjacent(adj, q[2 * j], q[2 * j - 1])
      BY <1>7, <3>3 DEF JoinedPairs
    <3>5. QED  BY <3>2, <3>4 DEF j
  <2>3. QED  BY <2>1, <2>2
<1>9. Len(c) % 2 = 0
  BY <1>1, <1>2
<1>10. FlipsWell(c)
  BY <1>4, <1>5, <1>8, <1>9 DEF FlipsWell
<1>11. QED  BY <1>6, <1>10 DEF c

\* Nothing to flip.
LEMMA EmptyFlips == FlipsWell(<<>>) /\ ClosedPath(<<>>)
<1>1. Range(<<>>) = {} /\ IsInjective(<<>>) /\ Len(<<>>) = 0
  BY DEF Range, IsInjective
<1>2. QED  BY <1>1 DEF FlipsWell, ClosedPath

-----------------------------------------------------------------------------
\* The tree a node is in has an exposed root, which names it.
LEMMA RootOf ==
  ASSUME TypeOK, TreesSound, phase \in SearchPhases, NEW x \in Node, belongs[x] # NoNode
  PROVE  /\ belongs[x] \in Node /\ M[belongs[x]] = NoNode
         /\ IsRoot(belongs[x]) /\ belongs[belongs[x]] = belongs[x]
<1>1. belongs[x] \in Node
  BY DEF TypeOK, ForestTypeOK
<1>2. M[belongs[x]] = NoNode
  BY DEF TreesSound
<1>3. IsRoot(belongs[x])
  BY <1>1, <1>2 DEF TreesSound
<1>4. QED  BY <1>1, <1>2, <1>3 DEF IsRoot

\* What phase 1 leaves as it is.
LEMMA ForestKept ==
  ASSUME GraphKept, TreesSound, Collected, LegalForest, phase = "augment",
         UNCHANGED <<forestVars, frontierVars, select_match, phase>>
  PROVE  /\ GraphKept' /\ TreesSound' /\ Collected' /\ LegalForest'
         /\ \A p : (FlipsWell(p)' <=> FlipsWell(p)) /\ (ClosedPath(p)' <=> ClosedPath(p))
<1>1. Growing = {} /\ Growing' = {}
  BY DEF Growing
<1>2. /\ adj' = adj /\ M' = M /\ is_even' = is_even /\ belongs' = belongs
      /\ path_table' = path_table /\ nodes_vector' = nodes_vector /\ vector_1' = vector_1
      /\ vector_2' = vector_2 /\ select_match' = select_match /\ phase' = phase
  BY DEF forestVars, frontierVars
<1>3. GraphKept'
  BY <1>2 DEF GraphKept
<1>4. TreesSound'
  BY <1>1, <1>2 DEF TreesSound, IsRoot, Unreached, Slot
<1>5. Collected'
  BY <1>2 DEF Collected, EvenNode
<1>6. LegalForest'
  BY <1>2 DEF LegalForest, EvenWalkLegal
<1>7. \A p : (FlipsWell(p)' <=> FlipsWell(p)) /\ (ClosedPath(p)' <=> ClosedPath(p))
  BY <1>2 DEF FlipsWell, ClosedPath
<1>8. QED  BY <1>3, <1>4, <1>5, <1>6, <1>7

\* The bridge a thread is at, and the path through it.
LEMMA BridgeAt ==
  ASSUME TypeOK, MatesMutual, GraphKept, TreesSound, LegalForest, SharesSound, phase = "augment",
         NEW t \in Thread, todo[t] # <<>>, NEW J,
         J = JoinWalks(path_table, Edge(t)[1], Edge(t)[2])
  PROVE  /\ TreeV(t) \in Node /\ TreeW(t) \in Node /\ TreeV(t) # TreeW(t)
         /\ belongs[TreeV(t)] = TreeV(t) /\ belongs[TreeW(t)] = TreeW(t)
         /\ J \in Seq(Node) /\ J # <<>> /\ FlipsWell(J) /\ ClosedPath(J)
         /\ TreeV(t) \in Range(J) /\ TreeW(t) \in Range(J)
         /\ \A x \in Range(J) : belongs[x] \in {TreeV(t), TreeW(t)}
<1>1. /\ Edge(t)[1] \in Node /\ Edge(t)[2] \in Node /\ Edge(t) \in Range(todo[t])
  BY EdgeFacts
<1> DEFINE v == Edge(t)[1]  w == Edge(t)[2]
<1>2. EvenNode(v) /\ IsAdjacent(adj, v, w) /\ IsBridge(v, w)
  BY <1>1 DEF SharesSound, SearchPhases
<1>3. EvenNode(w) /\ belongs[v] # belongs[w]
  BY <1>2 DEF IsBridge, EvenNode
<1>4. EvenWalkLegal(v) /\ EvenWalkLegal(w)
  BY <1>1, <1>2, <1>3 DEF LegalForest, EvenNode
<1>5. belongs[v] # NoNode /\ belongs[w] # NoNode
  BY <1>2, <1>3 DEF EvenNode
<1>6. /\ belongs[v] \in Node /\ belongs[w] \in Node
      /\ belongs[belongs[v]] = belongs[v] /\ belongs[belongs[w]] = belongs[w]
  BY <1>1, <1>5, RootOf DEF SearchPhases
<1>7. v \in Node /\ w \in Node /\ J = JoinWalks(path_table, v, w)
  BY <1>1
<1>8. ForestTypeOK /\ IsUndirected(adj)
  BY DEF TypeOK, GraphKept
<1>9. TreeV(t) = belongs[v] /\ TreeW(t) = belongs[w]
  BY DEF TreeV, TreeW
<1> HIDE DEF v, w
<1>10. /\ J \in Seq(Node) /\ J # <<>> /\ FlipsWell(J) /\ ClosedPath(J)
       /\ belongs[v] \in Range(J) /\ belongs[w] \in Range(J)
       /\ \A x \in Range(J) : belongs[x] \in {belongs[v], belongs[w]}
  BY <1>2, <1>3, <1>4, <1>7, <1>8, BridgePath
<1>11. QED  BY <1>3, <1>6, <1>9, <1>10

\* With a node of a found path its root is on a found path.
LEMMA RootsFound ==
  ASSUME TypeOK, PathsSound, phase = "augment"
  PROVE  /\ \A x : OnCollected(x) => OnCollected(belongs[x]) /\ x \in Node
         /\ \A t \in Thread : \A x \in Range(local[t]) :
              x \in Node /\ belongs[x] \in Range(local[t])
         /\ \A x : OnLocal(x) => OnLocal(belongs[x]) /\ x \in Node
<1>1. \A t \in Thread : local[t] \in Seq(Node)
  BY DEF TypeOK
<1>2. \A t \in Thread : \A x \in Range(local[t]) :
        x \in Node /\ belongs[x] \in Range(local[t])
  BY <1>1, RangeOfSeq DEF PathsSound, FlipsWell
<1>3. \A i \in DOMAIN path_collection : path_collection[i] \in Seq(Node)
  BY ElementOfSeq DEF TypeOK
<1>4. \A i \in DOMAIN path_collection : \A x \in Range(path_collection[i]) :
        x \in Node /\ belongs[x] \in Range(path_collection[i])
  BY <1>3, RangeOfSeq DEF PathsSound, CollectionSound, FlipsWell
<1>5. QED  BY <1>2, <1>4 DEF OnCollected, OnLocal

\* A step of another thread leaves a thread where it is.
LEMMA TreeVKept ==
  ASSUME NEW u \in Thread, todo'[u] = todo[u], belongs' = belongs
  PROVE  TreeV(u)' = TreeV(u)
BY DEF TreeV, Edge

\* The found paths and the locks, when a tree lock is taken, refused or given
\* back and no path changes.
LEMMA LockingKeeps ==
  ASSUME TypeOK, PathsSound, LocksSound, phase = "augment", phase' = "augment",
         NEW t \in Thread, UNCHANGED <<adj, M, belongs, path_collection, local>>,
         pc[t] # "done", pc'[t] # "done",
         \A u \in Thread : u # t => pc'[u] = pc[u] /\ todo'[u] = todo[u],
         NEW r \in Node, belongs[r] = r,
         pc[t] \in Holding \/ pc'[t] \in Holding => r = TreeV(t),
         pc'[t] \in Holding => TreeV(t)' = TreeV(t),
         \/ pc[t] \notin Holding /\ pc'[t] \notin Holding /\ select_tree' = select_tree
         \/ pc[t] \in Holding /\ pc'[t] \in Holding /\ select_tree' = select_tree
         \/ /\ pc[t] \notin Holding /\ pc'[t] \in Holding /\ select_tree[r] = 0
            /\ select_tree' = [select_tree EXCEPT ![r] = 1]
         \/ /\ pc[t] \in Holding /\ pc'[t] \notin Holding
            /\ select_tree' = [select_tree EXCEPT ![r] = 0]
  PROVE  PathsSound' /\ LocksSound'
<1>1. /\ \A x : OnCollected(x)' <=> OnCollected(x)
      /\ \A x : OnLocal(x)' <=> OnLocal(x)
  BY DEF OnCollected, OnLocal
<1>2. CollectionSound' <=> CollectionSound
  BY DEF CollectionSound, FlipsWell
<1>3. PathsSound'
  <2>1. \A p : (FlipsWell(p)' <=> FlipsWell(p)) /\ (ClosedPath(p)' <=> ClosedPath(p))
    BY DEF FlipsWell, ClosedPath
  <2>2. \A u \in Thread : pc'[u] = "done" => pc[u] = "done"
    OBVIOUS
  <2>3. path_collection' = path_collection /\ local' = local
    OBVIOUS
  <2>4. QED  BY <1>1, <1>2, <2>1, <2>2, <2>3 DEF PathsSound
<1>4. /\ \A x \in Node : OnCollected(x) \/ OnLocal(x) => select_tree[belongs[x]] = 1
      /\ \A u \in Thread : pc[u] \in Holding =>
           select_tree[TreeV(u)] = 1 /\ ~OnCollected(TreeV(u)) /\ ~OnLocal(TreeV(u))
      /\ \A u, w \in Thread : u # w /\ pc[u] \in Holding /\ pc[w] \in Holding => TreeV(u) # TreeV(w)
      /\ \A x \in Node : select_tree[x] = 1 =>
           belongs[x] = x /\ (OnCollected(x) \/ OnLocal(x)
             \/ \E u \in Thread : pc[u] \in Holding /\ TreeV(u) = x)
  BY DEF LocksSound
<1>5. select_tree \in [Node -> {0, 1}] /\ belongs' = belongs
  BY DEF TypeOK
<1>6. \A u \in Thread : u # t => TreeV(u)' = TreeV(u)
  BY TreeVKept
<1>7. \A x : (OnCollected(x) => OnCollected(belongs[x])) /\ (OnLocal(x) => OnLocal(belongs[x]))
  BY RootsFound
<1>8. SUFFICES /\ \A x \in Node : OnCollected(x) \/ OnLocal(x) => select_tree'[belongs[x]] = 1
               /\ \A u \in Thread : pc'[u] \in Holding =>
                    select_tree'[TreeV(u)'] = 1 /\ ~OnCollected(TreeV(u)') /\ ~OnLocal(TreeV(u)')
               /\ \A u, w \in Thread : u # w /\ pc'[u] \in Holding /\ pc'[w] \in Holding =>
                    TreeV(u)' # TreeV(w)'
               /\ \A x \in Node : select_tree'[x] = 1 =>
                    belongs[x] = x /\ (OnCollected(x) \/ OnLocal(x)
                      \/ \E u \in Thread : pc'[u] \in Holding /\ TreeV(u)' = x)
  BY <1>1, <1>3, <1>5 DEF LocksSound
<1>9. CASE /\ pc[t] \in Holding <=> pc'[t] \in Holding
           /\ select_tree' = select_tree
  <2>1. \A u \in Thread : pc'[u] \in Holding <=> pc[u] \in Holding
    BY <1>9
  <2>2. \A u \in Thread : pc'[u] \in Holding => TreeV(u)' = TreeV(u)
    BY <1>6
  <2>3. QED  BY <1>4, <1>9, <2>1, <2>2
<1>10. CASE /\ pc[t] \notin Holding /\ pc'[t] \in Holding /\ select_tree[r] = 0
            /\ select_tree' = [select_tree EXCEPT ![r] = 1]
  <2>1. /\ select_tree'[r] = 1 /\ \A x \in Node : x # r => select_tree'[x] = select_tree[x]
        /\ \A x \in Node : select_tree[x] = 1 => select_tree'[x] = 1
    BY <1>5, <1>10
  <2>2. TreeV(t)' = r
    BY <1>10
  <2>3. ~OnCollected(r) /\ ~OnLocal(r)
    BY <1>4, <1>10
  <2>4. \A u \in Thread : u # t => TreeV(u)' = TreeV(u) /\ pc'[u] = pc[u]
    BY <1>6
  <2>5. ASSUME NEW x \in Node, OnCollected(x) \/ OnLocal(x)
        PROVE  select_tree'[belongs[x]] = 1
    <3>1. belongs[x] \in Node
      BY <1>7, <2>5, RootsFound
    <3>2. QED  BY <3>1, <1>4, <2>1, <2>5
  <2>6. \A u \in Thread : u # t /\ pc[u] \in Holding => TreeV(u) # r
    BY <1>4, <1>10
  <2>7. ASSUME NEW u \in Thread, pc'[u] \in Holding
        PROVE  select_tree'[TreeV(u)'] = 1 /\ ~OnCollected(TreeV(u)') /\ ~OnLocal(TreeV(u)')
    <3>1. CASE u = t
      BY <3>1, <2>1, <2>2, <2>3
    <3>2. CASE u # t
      <4>1. select_tree[TreeV(u)] = 1 /\ ~OnCollected(TreeV(u)) /\ ~OnLocal(TreeV(u))
        BY <3>2, <2>4, <2>7, <1>4
      <4>2. select_tree'[TreeV(u)] = 1
        BY <4>1, <1>10, <1>5
      <4>3. QED  BY <4>1, <4>2, <2>4, <3>2
    <3>3. QED  BY <3>1, <3>2
  <2>8. ASSUME NEW u \in Thread, NEW w \in Thread, u # w, pc'[u] \in Holding, pc'[w] \in Holding
        PROVE  TreeV(u)' # TreeV(w)'
    <3>1. CASE u = t
      BY <3>1, <2>2, <2>4, <2>6, <2>8
    <3>2. CASE w = t
      BY <3>2, <2>2, <2>4, <2>6, <2>8
    <3>3. CASE u # t /\ w # t
      BY <3>3, <2>4, <2>8, <1>4
    <3>4. QED  BY <3>1, <3>2, <3>3
  <2>9. ASSUME NEW x \in Node, select_tree'[x] = 1
        PROVE  belongs[x] = x /\ (OnCollected(x) \/ OnLocal(x)
                      \/ \E u \in Thread : pc'[u] \in Holding /\ TreeV(u)' = x)
    <3>1. CASE x = r
      BY <3>1, <2>2, <1>10
    <3>2. CASE x # r
      <4>1. select_tree[x] = 1
        BY <3>2, <2>1, <2>9
      <4>2. \A u \in Thread : pc[u] \in Holding /\ TreeV(u) = x => u # t
        BY <1>10
      <4>3. \A u \in Thread : pc[u] \in Holding /\ TreeV(u) = x => pc'[u] \in Holding /\ TreeV(u)' = x
        BY <4>2, <2>4
      <4>4. QED  BY <4>1, <4>3, <1>4
    <3>3. QED  BY <3>1, <3>2
  <2>10. QED  BY <2>5, <2>7, <2>8, <2>9
<1>11. CASE /\ pc[t] \in Holding /\ pc'[t] \notin Holding
            /\ select_tree' = [select_tree EXCEPT ![r] = 0]
  <2>0. r = TreeV(t)
    BY <1>11
  <2>1. /\ select_tree'[r] = 0 /\ \A x \in Node : x # r => select_tree'[x] = select_tree[x]
        /\ \A x \in Node : select_tree'[x] = 1 => select_tree[x] = 1 /\ x # r
    BY <1>5, <1>11
  <2>2. ~OnCollected(r) /\ ~OnLocal(r)
    BY <1>4, <1>11, <2>0
  <2>3. \A u \in Thread : u # t => TreeV(u)' = TreeV(u) /\ pc'[u] = pc[u]
    BY <1>6
  <2>4. ASSUME NEW x \in Node, OnCollected(x) \/ OnLocal(x)
        PROVE  select_tree'[belongs[x]] = 1
    <3>1. belongs[x] \in Node /\ belongs[x] # r
      BY <1>7, <2>2, <2>4, RootsFound
    <3>2. QED  BY <3>1, <1>4, <2>1, <2>4
  <2>5. \A u \in Thread : pc'[u] \in Holding => u # t
    BY <1>11
  <2>6. \A u \in Thread : pc'[u] \in Holding =>
          TreeV(u)' = TreeV(u) /\ pc[u] \in Holding /\ TreeV(u) # r
    BY <2>0, <2>3, <2>5, <1>4, <1>11
  <2>7. ASSUME NEW u \in Thread, pc'[u] \in Holding
        PROVE  select_tree'[TreeV(u)'] = 1 /\ ~OnCollected(TreeV(u)') /\ ~OnLocal(TreeV(u)')
    <3>1. select_tree[TreeV(u)] = 1 /\ ~OnCollected(TreeV(u)) /\ ~OnLocal(TreeV(u)) /\ TreeV(u) # r
      BY <2>6, <2>7, <1>4
    <3>2. select_tree'[TreeV(u)] = select_tree[TreeV(u)]
      BY <3>1, <1>5, <1>11
    <3>3. QED  BY <3>1, <3>2, <2>6, <2>7
  <2>8. \A u, w \in Thread : u # w /\ pc'[u] \in Holding /\ pc'[w] \in Holding => TreeV(u)' # TreeV(w)'
    BY <2>6, <1>4
  <2>9. ASSUME NEW x \in Node, select_tree'[x] = 1
        PROVE  belongs[x] = x /\ (OnCollected(x) \/ OnLocal(x)
                      \/ \E u \in Thread : pc'[u] \in Holding /\ TreeV(u)' = x)
    <3>1. select_tree[x] = 1 /\ x # r
      BY <2>1, <2>9
    <3>2. \A u \in Thread : pc[u] \in Holding /\ TreeV(u) = x => u # t
      BY <2>0, <3>1
    <3>3. \A u \in Thread : pc[u] \in Holding /\ TreeV(u) = x => pc'[u] \in Holding /\ TreeV(u)' = x
      BY <3>2, <2>3
    <3>4. QED  BY <3>1, <3>3, <1>4
  <2>10. QED  BY <2>4, <2>7, <2>8, <2>9
<1>12. QED  BY <1>9, <1>10, <1>11

\* Both trees won: the path through the bridge shares nothing with any other.
LEMMA LockWKeeps ==
  ASSUME Basic, Sound, phase = "augment", phase' = "augment", NEW t \in Thread,
         LockW(t), UNCHANGED <<forestVars, path_collection>>
  PROVE  PathsSound' /\ LocksSound'
<1> DEFINE J == JoinWalks(path_table, Edge(t)[1], Edge(t)[2])
           a == TreeV(t)
           b == TreeW(t)
           L == local[t] \o J
<1>1. /\ TypeOK /\ ThreadsPlaced /\ MatesMutual /\ GraphKept /\ TreesSound /\ LegalForest
      /\ SharesSound /\ PathsSound /\ LocksSound
  BY DEF Basic, Sound, MatesKept
<1>2. /\ pc[t] = "second" /\ select_tree[b] = 0
      /\ select_tree' = [select_tree EXCEPT ![b] = 1]
      /\ local' = [local EXCEPT ![t] = L]
      /\ GoOn(t, Tail(todo[t])) /\ path_collection' = path_collection
      /\ adj' = adj /\ M' = M /\ belongs' = belongs
  BY DEF LockW, NextEdge, forestVars
<1>3. todo[t] # <<>> /\ pc[t] \in Holding
  BY <1>1, <1>2 DEF ThreadsPlaced, Busy, Holding
<1>4. /\ a \in Node /\ b \in Node /\ a # b /\ belongs[a] = a /\ belongs[b] = b
      /\ J \in Seq(Node) /\ J # <<>> /\ FlipsWell(J) /\ ClosedPath(J)
      /\ a \in Range(J) /\ b \in Range(J)
      /\ \A x \in Range(J) : belongs[x] \in {a, b}
  BY <1>1, <1>3, BridgeAt
<1> HIDE DEF J
<1>5. Tail(todo[t]) \in Seq(Node \X Node)
  BY <1>1, <1>3, EdgeFacts
<1>6. \E p \in {"fetch", "scan"} : Moves(t, p, Tail(todo[t]))
  BY <1>1, <1>2, <1>5, GoOnMoves
<1>7. /\ pc'[t] \in {"fetch", "scan"}
      /\ \A u \in Thread : u # t => pc'[u] = pc[u] /\ todo'[u] = todo[u]
  BY <1>1, <1>6, MovesType DEF AugmentPoints
<1>8. /\ \A u \in Thread : u # t => TreeV(u)' = TreeV(u)
      /\ \A u \in Thread : pc'[u] \in Holding => u # t /\ pc[u] \in Holding
  BY <1>2, <1>7, TreeVKept DEF Holding
<1>9. /\ \A x \in Node : OnCollected(x) \/ OnLocal(x) => select_tree[belongs[x]] = 1
      /\ \A u \in Thread : pc[u] \in Holding =>
           select_tree[TreeV(u)] = 1 /\ ~OnCollected(TreeV(u)) /\ ~OnLocal(TreeV(u))
      /\ \A u, w \in Thread : u # w /\ pc[u] \in Holding /\ pc[w] \in Holding => TreeV(u) # TreeV(w)
      /\ \A x \in Node : select_tree[x] = 1 =>
           belongs[x] = x /\ (OnCollected(x) \/ OnLocal(x)
             \/ \E u \in Thread : pc[u] \in Holding /\ TreeV(u) = x)
  BY <1>1 DEF LocksSound
<1>10. \A x : (OnCollected(x) => OnCollected(belongs[x]) /\ x \in Node)
              /\ (OnLocal(x) => OnLocal(belongs[x]) /\ x \in Node)
  BY <1>1, RootsFound
<1>11. ~OnCollected(a) /\ ~OnLocal(a) /\ ~OnCollected(b) /\ ~OnLocal(b)
  BY <1>2, <1>3, <1>4, <1>9
<1>12. \A x \in Range(J) : ~OnCollected(x) /\ ~OnLocal(x)
  BY <1>4, <1>10, <1>11
<1>13. local \in [Thread -> Seq(Node)] /\ select_tree \in [Node -> {0, 1}]
  BY <1>1 DEF TypeOK
<1>14. /\ L \in Seq(Node) /\ Range(L) = Range(local[t]) \cup Range(J)
  BY <1>4, <1>13, ConcatRange
<1>15. FlipsWell(L) /\ ClosedPath(L)
  <2>1. FlipsWell(local[t]) /\ ClosedPath(local[t])
    BY <1>1 DEF PathsSound
  <2>2. Range(local[t]) \cap Range(J) = {}
    BY <1>12 DEF OnLocal
  <2>3. QED  BY <2>1, <2>2, <1>4, <1>13, ConcatFlips
<1> HIDE DEF L, a, b
<1>16. /\ local'[t] = L /\ \A u \in Thread : u # t => local'[u] = local[u]
  BY <1>2, <1>13
<1>17. \A p : (FlipsWell(p)' <=> FlipsWell(p)) /\ (ClosedPath(p)' <=> ClosedPath(p))
  BY <1>2 DEF FlipsWell, ClosedPath
<1>18. /\ \A x : OnCollected(x)' <=> OnCollected(x)
       /\ \A x : OnLocal(x)' <=> OnLocal(x) \/ x \in Range(J)
  <2>1. \A x : OnCollected(x)' <=> OnCollected(x)
    BY <1>2 DEF OnCollected
  <2>2. ASSUME NEW x
        PROVE  OnLocal(x)' <=> OnLocal(x) \/ x \in Range(J)
    <3>1. OnLocal(x)' => OnLocal(x) \/ x \in Range(J)
      <4>1. SUFFICES ASSUME NEW u \in Thread, x \in Range(local'[u])
                     PROVE  OnLocal(x) \/ x \in Range(J)
        BY DEF OnLocal
      <4>2. CASE u = t
        BY <4>1, <4>2, <1>14, <1>16 DEF OnLocal
      <4>3. CASE u # t
        BY <4>1, <4>3, <1>16 DEF OnLocal
      <4>4. QED  BY <4>2, <4>3
    <3>2. OnLocal(x) => OnLocal(x)'
      <4>1. SUFFICES ASSUME NEW u \in Thread, x \in Range(local[u])
                     PROVE  x \in Range(local'[u])
        BY DEF OnLocal
      <4>2. QED  BY <4>1, <1>14, <1>16
    <3>3. x \in Range(J) => OnLocal(x)'
      BY <1>14, <1>16 DEF OnLocal
    <3>4. QED  BY <3>1, <3>2, <3>3
  <2>3. QED  BY <2>1, <2>2
<1>19. PathsSound'
  <2>1. CollectionSound' /\ \A i \in DOMAIN path_collection' : ClosedPath(path_collection[i])'
    BY <1>1, <1>2, <1>17 DEF PathsSound, CollectionSound
  <2>2. \A u \in Thread : FlipsWell(local[u])' /\ ClosedPath(local[u])'
    <3>1. \A u \in Thread : FlipsWell(local'[u]) /\ ClosedPath(local'[u])
      BY <1>1, <1>15, <1>16 DEF PathsSound
    <3>2. QED  BY <3>1, <1>17
  <2>3. \A u \in Thread : pc'[u] = "done" => local'[u] = <<>>
    BY <1>1, <1>7, <1>16 DEF PathsSound
  <2>4. \A u \in Thread : \A x \in Range(local'[u]) : ~OnCollected(x)
    <3>1. \A u \in Thread : \A x \in Range(local[u]) : ~OnCollected(x)
      BY <1>1 DEF PathsSound
    <3>2. QED  BY <3>1, <1>12, <1>14, <1>16
  <2>5. ASSUME NEW u \in Thread, NEW w \in Thread, u # w
        PROVE  Range(local'[u]) \cap Range(local'[w]) = {}
    <3>0. Range(local[u]) \cap Range(local[w]) = {}
      BY <1>1, <2>5 DEF PathsSound
    <3>1. \A s \in Thread : Range(J) \cap Range(local[s]) = {}
      BY <1>12 DEF OnLocal
    <3>2. CASE u = t
      BY <3>0, <3>1, <3>2, <2>5, <1>14, <1>16
    <3>3. CASE w = t
      BY <3>0, <3>1, <3>3, <2>5, <1>14, <1>16
    <3>4. CASE u # t /\ w # t
      BY <3>0, <3>4, <1>16
    <3>5. QED  BY <3>2, <3>3, <3>4
  <2>6. QED  BY <2>1, <2>2, <2>3, <2>4, <2>5, <1>18 DEF PathsSound
<1>20. LocksSound'
  <2>1. /\ select_tree'[b] = 1 /\ \A x \in Node : x # b => select_tree'[x] = select_tree[x]
        /\ \A x \in Node : select_tree[x] = 1 => select_tree'[x] = 1
    BY <1>2, <1>4, <1>13
  <2>2. ASSUME NEW x \in Node, OnCollected(x)' \/ OnLocal(x)'
        PROVE  select_tree'[belongs[x]] = 1
    <3>1. CASE x \in Range(J)
      <4>1. belongs[x] \in {a, b} /\ a \in Node
        BY <3>1, <1>4
      <4>2. select_tree[a] = 1
        BY <1>3, <1>9 DEF a
      <4>3. QED  BY <4>1, <4>2, <2>1
    <3>2. CASE x \notin Range(J)
      <4>1. OnCollected(x) \/ OnLocal(x)
        BY <3>2, <2>2, <1>18
      <4>2. belongs[x] \in Node
        BY <4>1, <1>10
      <4>3. QED  BY <4>1, <4>2, <2>1, <1>9
    <3>3. QED  BY <3>1, <3>2
  <2>3. ASSUME NEW u \in Thread, pc'[u] \in Holding
        PROVE  select_tree'[TreeV(u)'] = 1 /\ ~OnCollected(TreeV(u))' /\ ~OnLocal(TreeV(u))'
    <3>1. /\ u # t /\ pc[u] \in Holding /\ TreeV(u)' = TreeV(u)
      BY <2>3, <1>8
    <3>2. select_tree[TreeV(u)] = 1 /\ ~OnCollected(TreeV(u)) /\ ~OnLocal(TreeV(u))
      BY <3>1, <1>9
    <3>3. TreeV(u) # a /\ TreeV(u) # b
      BY <3>1, <3>2, <1>2, <1>3, <1>9 DEF a
    <3>4. TreeV(u) \in Node /\ belongs[TreeV(u)] = TreeV(u)
      <4>1. todo[u] # <<>>
        BY <3>1, <1>1 DEF ThreadsPlaced, Busy
      <4>2. QED  BY <4>1, <1>1, BridgeAt
    <3>5. TreeV(u) \notin Range(J)
      BY <3>3, <3>4, <1>4
    <3>6. PICK y : y = TreeV(u)
      OBVIOUS
    <3>7. ~OnCollected(y)' /\ ~OnLocal(y)' /\ y = TreeV(u)'
      BY <3>1, <3>2, <3>5, <3>6, <1>18
    <3>8. select_tree'[TreeV(u)] = 1
      BY <3>2, <3>4, <2>1
    <3>9. QED  BY <3>1, <3>7, <3>8
  <2>4. \A u, w \in Thread : u # w /\ pc'[u] \in Holding /\ pc'[w] \in Holding =>
          TreeV(u)' # TreeV(w)'
    BY <1>8, <1>9
  <2>5. ASSUME NEW x \in Node, select_tree'[x] = 1
        PROVE  belongs[x] = x /\ (OnCollected(x)' \/ OnLocal(x)'
             \/ \E u \in Thread : pc'[u] \in Holding /\ TreeV(u)' = x)
    <3>1. CASE x = b
      BY <3>1, <1>4, <1>18
    <3>2. CASE x = a
      BY <3>2, <1>4, <1>18
    <3>3. CASE x # a /\ x # b
      <4>1. select_tree[x] = 1
        BY <3>3, <2>1, <2>5
      <4>2. \A u \in Thread : pc[u] \in Holding /\ TreeV(u) = x => u # t
        BY <3>3 DEF a
      <4>3. \A u \in Thread : pc[u] \in Holding /\ TreeV(u) = x => pc'[u] \in Holding /\ TreeV(u)' = x
        BY <4>2, <1>7, <1>8
      <4>4. QED  BY <4>1, <4>3, <1>9, <1>18
    <3>4. QED  BY <3>1, <3>2, <3>3
  <2>6. belongs' = belongs
    BY <1>2
  <2>7. QED  BY <2>2, <2>3, <2>4, <2>5, <2>6 DEF LocksSound
<1>21. QED  BY <1>19, <1>20

\* A thread hands its path over: the same nodes are on found paths as before.
LEMMA MergeKeeps ==
  ASSUME TypeOK, PathsSound, LocksSound, phase = "augment", phase' = "augment", NEW t \in Thread,
         NEW at \in {"merge", "fetch"}, AugmentMerge(t, at), UNCHANGED forestVars
  PROVE  PathsSound' /\ LocksSound'
<1>1. /\ pc[t] = at /\ pc' = [pc EXCEPT ![t] = "done"]
      /\ local' = [local EXCEPT ![t] = <<>>] /\ todo' = todo
      /\ path_collection' = IF local[t] = <<>> THEN path_collection
                            ELSE Append(path_collection, local[t])
      /\ select_tree' = select_tree /\ adj' = adj /\ M' = M /\ belongs' = belongs
  BY DEF AugmentMerge, EndThread, Step, forestVars
<1>2. /\ pc \in [Thread -> {"stripe", "fetch", "scan", "merge", "done", "second",
                        "release", "claim", "grow", "own", "mate", "visit",
                        "fill", "undo", "even", "flip", "crashed"}]
      /\ local \in [Thread -> Seq(Node)] /\ path_collection \in Seq(Seq(Node))
  BY DEF TypeOK
<1>3. /\ pc'[t] = "done" /\ local'[t] = <<>>
      /\ \A u \in Thread : u # t => pc'[u] = pc[u] /\ local'[u] = local[u]
  BY <1>1, <1>2
<1>4. \A p : (FlipsWell(p)' <=> FlipsWell(p)) /\ (ClosedPath(p)' <=> ClosedPath(p))
  BY <1>1 DEF FlipsWell, ClosedPath
<1>5. /\ CollectionSound
      /\ \A i \in DOMAIN path_collection : ClosedPath(path_collection[i])
      /\ \A u \in Thread : FlipsWell(local[u]) /\ ClosedPath(local[u])
      /\ \A u \in Thread : pc[u] = "done" => local[u] = <<>>
      /\ \A u \in Thread : \A x \in Range(local[u]) : ~OnCollected(x)
      /\ \A u, w \in Thread : u # w => Range(local[u]) \cap Range(local[w]) = {}
  BY DEF PathsSound
<1>6. Range(<<>>) = {}
  BY DEF Range
<1>7. /\ \A i \in DOMAIN path_collection' :
           /\ FlipsWell(path_collection'[i]) /\ ClosedPath(path_collection'[i])
           /\ path_collection'[i] # <<>>
      /\ \A i, j \in DOMAIN path_collection' :
           i # j => Range(path_collection'[i]) \cap Range(path_collection'[j]) = {}
      /\ \A x : OnCollected(x)' <=> OnCollected(x) \/ x \in Range(local[t])
  <2>1. CASE local[t] = <<>>
    <3>1. path_collection' = path_collection
      BY <2>1, <1>1
    <3>2. \A x : OnCollected(x)' <=> OnCollected(x)
      BY <3>1 DEF OnCollected
    <3>3. QED  BY <2>1, <3>1, <3>2, <1>5, <1>6 DEF CollectionSound
  <2>2. CASE local[t] # <<>>
    <3> DEFINE n == Len(path_collection)
               c == path_collection
               l == local[t]
    <3>1. n \in Nat /\ DOMAIN c = 1 .. n /\ l \in Seq(Node)
      BY <1>2, LenProperties
    <3>2. path_collection' = Append(c, l)
      BY <2>2, <1>1
    <3>3. /\ Len(Append(c, l)) = n + 1 /\ \A i \in 1 .. n : Append(c, l)[i] = c[i]
          /\ Append(c, l)[n + 1] = l /\ Append(c, l) \in Seq(Seq(Node))
      BY <3>1, <1>2, AppendProperties
    <3>4. DOMAIN Append(c, l) = 1 .. (n + 1)
      BY <3>3, LenProperties
    <3>5. \A i : i \in 1 .. (n + 1) <=> i \in 1 .. n \/ i = n + 1
      BY <3>1, Interval
    <3>6. /\ FlipsWell(l) /\ ClosedPath(l) /\ l # <<>>
          /\ \A i \in 1 .. n : Range(c[i]) \cap Range(l) = {}
      BY <2>2, <3>1, <1>5 DEF OnCollected
    <3>7. n + 1 \notin 1 .. n
      BY <3>1
    <3>8. /\ \A i \in 1 .. n : FlipsWell(c[i]) /\ ClosedPath(c[i]) /\ c[i] # <<>>
          /\ \A i, j \in 1 .. n : i # j => Range(c[i]) \cap Range(c[j]) = {}
          /\ \A x : OnCollected(x) <=> \E i \in 1 .. n : x \in Range(c[i])
      BY <3>1, <1>5 DEF CollectionSound, OnCollected
    <3> HIDE DEF n, c, l
    <3>9. /\ DOMAIN path_collection' = 1 .. (n + 1)
          /\ \A i \in 1 .. n : path_collection'[i] = c[i]
          /\ path_collection'[n + 1] = l
      BY <3>2, <3>3, <3>4
    <3>10. \A i \in DOMAIN path_collection' :
             FlipsWell(path_collection'[i]) /\ ClosedPath(path_collection'[i])
             /\ path_collection'[i] # <<>>
      BY <3>5, <3>6, <3>8, <3>9
    <3>11. ASSUME NEW i \in DOMAIN path_collection', NEW j \in DOMAIN path_collection', i # j
           PROVE  Range(path_collection'[i]) \cap Range(path_collection'[j]) = {}
      <4>1. CASE i = n + 1
        BY <4>1, <3>5, <3>6, <3>9, <3>11
      <4>2. CASE j = n + 1
        BY <4>2, <3>5, <3>6, <3>9, <3>11
      <4>3. CASE i # n + 1 /\ j # n + 1
        BY <4>3, <3>5, <3>8, <3>9, <3>11
      <4>4. QED  BY <4>1, <4>2, <4>3
    <3>12. \A x : OnCollected(x)' <=> \E i \in 1 .. (n + 1) : x \in Range(path_collection'[i])
      BY <3>9 DEF OnCollected
    <3>13. \A x : OnCollected(x)' <=> OnCollected(x) \/ x \in Range(l)
      BY <3>5, <3>8, <3>9, <3>12
    <3>14. QED  BY <3>10, <3>11, <3>13 DEF l
  <2>3. QED  BY <2>1, <2>2
<1>8. CollectionSound' /\ \A i \in DOMAIN path_collection' : ClosedPath(path_collection[i])'
  BY <1>4, <1>7 DEF CollectionSound
<1>9. PathsSound'
  <2>1. \A u \in Thread : FlipsWell(local'[u]) /\ ClosedPath(local'[u])
    BY <1>3, <1>5, EmptyFlips
  <2>2. \A u \in Thread : FlipsWell(local[u])' /\ ClosedPath(local[u])'
    BY <2>1, <1>4
  <2>3. \A u \in Thread : pc'[u] = "done" => local'[u] = <<>>
    BY <1>3, <1>5
  <2>4. ASSUME NEW u \in Thread, NEW x \in Range(local'[u])
        PROVE  ~OnCollected(x)'
    <3>1. u # t /\ x \in Range(local[u])
      BY <2>4, <1>3, <1>6
    <3>2. QED  BY <3>1, <1>5, <1>7
  <2>5. ASSUME NEW u \in Thread, NEW w \in Thread, u # w
        PROVE  Range(local'[u]) \cap Range(local'[w]) = {}
    BY <2>5, <1>3, <1>5, <1>6
  <2>6. QED  BY <1>8, <2>2, <2>3, <2>4, <2>5 DEF PathsSound
<1>10. \A x : OnCollected(x)' \/ OnLocal(x)' <=> OnCollected(x) \/ OnLocal(x)
  <2>1. SUFFICES ASSUME NEW x
                 PROVE  OnCollected(x)' \/ OnLocal(x)' <=> OnCollected(x) \/ OnLocal(x)
    OBVIOUS
  <2>2. OnLocal(x)' => OnLocal(x)
    BY <1>3, <1>6 DEF OnLocal
  <2>3. OnLocal(x) => OnLocal(x)' \/ x \in Range(local[t])
    BY <1>3 DEF OnLocal
  <2>4. x \in Range(local[t]) => OnLocal(x)
    BY DEF OnLocal
  <2>5. QED  BY <2>2, <2>3, <2>4, <1>7
<1>11. \A u \in Thread : pc'[u] \in Holding <=> pc[u] \in Holding
  BY <1>1, <1>3 DEF Holding
<1>12. \A u \in Thread : TreeV(u)' = TreeV(u)
  BY <1>1, TreeVKept
<1>13. LocksSound'
  <2>1. /\ \A x \in Node : OnCollected(x) \/ OnLocal(x) => select_tree[belongs[x]] = 1
        /\ \A u \in Thread : pc[u] \in Holding =>
             select_tree[TreeV(u)] = 1 /\ ~OnCollected(TreeV(u)) /\ ~OnLocal(TreeV(u))
        /\ \A u, w \in Thread : u # w /\ pc[u] \in Holding /\ pc[w] \in Holding => TreeV(u) # TreeV(w)
        /\ \A r \in Node : select_tree[r] = 1 =>
             belongs[r] = r /\ (OnCollected(r) \/ OnLocal(r)
               \/ \E u \in Thread : pc[u] \in Holding /\ TreeV(u) = r)
    BY DEF LocksSound
  <2>2. \A x \in Node : OnCollected(x)' \/ OnLocal(x)' => select_tree'[belongs'[x]] = 1
    BY <2>1, <1>1, <1>10
  <2>3. ASSUME NEW u \in Thread, pc'[u] \in Holding
        PROVE  select_tree'[TreeV(u)'] = 1 /\ ~OnCollected(TreeV(u))' /\ ~OnLocal(TreeV(u))'
    <3>1. PICK y : y = TreeV(u)
      OBVIOUS
    <3>2. select_tree[y] = 1 /\ ~OnCollected(y) /\ ~OnLocal(y) /\ y = TreeV(u)'
      BY <2>1, <2>3, <3>1, <1>11, <1>12
    <3>3. ~OnCollected(y)' /\ ~OnLocal(y)'
      BY <3>2, <1>10
    <3>4. QED  BY <3>2, <3>3, <1>1
  <2>4. \A u, w \in Thread : u # w /\ pc'[u] \in Holding /\ pc'[w] \in Holding => TreeV(u)' # TreeV(w)'
    BY <2>1, <1>11, <1>12
  <2>5. ASSUME NEW r \in Node, select_tree'[r] = 1
        PROVE  belongs'[r] = r /\ (OnCollected(r)' \/ OnLocal(r)'
               \/ \E u \in Thread : pc'[u] \in Holding /\ TreeV(u)' = r)
    <3>1. belongs[r] = r /\ (OnCollected(r) \/ OnLocal(r)
               \/ \E u \in Thread : pc[u] \in Holding /\ TreeV(u) = r)
      BY <2>1, <2>5, <1>1
    <3>2. QED  BY <3>1, <1>1, <1>10, <1>11, <1>12
  <2>6. QED  BY <2>2, <2>3, <2>4, <2>5 DEF LocksSound
<1>14. QED  BY <1>9, <1>13

\* A phase-1 step keeps everything a search relies on.
LEMMA AugmentSound ==
  ASSUME Basic, Sound, phase = "augment", NEW t \in Thread, Augments(t)
  PROVE  Sound'
<1>1. /\ TypeOK /\ ThreadsPlaced /\ MatesMutual /\ GraphKept /\ TreesSound /\ LegalForest
      /\ Collected /\ SharesSound /\ PathsSound /\ LocksSound /\ LapsInTrees
  BY DEF Basic, Sound, MatesKept
<1>2. /\ UNCHANGED <<forestVars, frontierVars, select_match, select_blossom, phase, lap>>
      /\ phase' = "augment"
  BY DEF Augments, AugmentStep, AugmentMerge, EndThread
<1>3. /\ adj' = adj /\ M' = M /\ is_even' = is_even /\ belongs' = belongs
      /\ path_table' = path_table /\ lap' = lap
  BY <1>2 DEF forestVars
<1>4. PICK p \in AugmentPoints : \E s \in Seq(Node \X Node) :
         Moves(t, p, s) /\ Range(s) \subseteq Range(todo[t])
  BY <1>1, AugmentMoves
<1>5. PICK s \in Seq(Node \X Node) : Moves(t, p, s) /\ Range(s) \subseteq Range(todo[t])
  BY <1>4
<1>6. /\ pc'[t] = p /\ todo'[t] = s
      /\ \A u \in Thread : u # t => pc'[u] = pc[u] /\ todo'[u] = todo[u]
  BY <1>1, <1>5, MovesType
<1>7. GraphKept' /\ TreesSound' /\ Collected' /\ LegalForest'
  BY <1>1, <1>2, ForestKept
<1>8. SharesSound'
  <2>1. \A u \in Thread : Range(todo'[u]) \subseteq Range(todo[u])
    BY <1>5, <1>6
  <2>2. \A e : (EvenNode(e[1])' <=> EvenNode(e[1])) /\ (IsBridge(e[1], e[2])' <=> IsBridge(e[1], e[2]))
    BY <1>3 DEF EvenNode, IsBridge
  <2>3. QED  BY <2>1, <2>2, <1>1, <1>2, <1>3 DEF SharesSound, EvenNode, IsBridge
<1>9. LapsInTrees'
  BY <1>1, <1>2, <1>3 DEF LapsInTrees
<1>10. PathsSound' /\ LocksSound'
  <2>1. CASE \E at \in {"merge", "fetch"} : AugmentMerge(t, at)
    BY <2>1, <1>1, <1>2, MergeKeeps
  <2>2. CASE LockW(t)
    BY <2>2, <1>2, LockWKeeps DEF LockW
  <2>3. CASE LockV(t) \/ LockVFails(t) \/ LockWFails(t) \/ ReleaseV(t)
    <3>1. pc[t] \in {"scan"} \cup Holding
      BY <2>3 DEF LockV, LockVFails, LockWFails, ReleaseV, Step, Holding
    <3>2. todo[t] # <<>>
      BY <3>1, <1>1 DEF ThreadsPlaced, Busy
    <3>3. TreeV(t) \in Node /\ belongs[TreeV(t)] = TreeV(t)
      BY <3>2, <1>1, BridgeAt
    <3>4. path_collection' = path_collection /\ local' = local
      BY <2>3 DEF LockV, LockVFails, LockWFails, ReleaseV
    <3>5. pc \in [Thread -> {"stripe", "fetch", "scan", "merge", "done", "second",
                        "release", "claim", "grow", "own", "mate", "visit",
                        "fill", "undo", "even", "flip", "crashed"}]
      BY <1>1 DEF TypeOK
    <3>6. /\ pc[t] # "done" /\ pc'[t] # "done"
          /\ pc'[t] \in Holding => todo'[t] = todo[t]
          /\ \/ pc[t] \notin Holding /\ pc'[t] \notin Holding /\ select_tree' = select_tree
             \/ pc[t] \in Holding /\ pc'[t] \in Holding /\ select_tree' = select_tree
             \/ /\ pc[t] \notin Holding /\ pc'[t] \in Holding /\ select_tree[TreeV(t)] = 0
                /\ select_tree' = [select_tree EXCEPT ![TreeV(t)] = 1]
             \/ /\ pc[t] \in Holding /\ pc'[t] \notin Holding
                /\ select_tree' = [select_tree EXCEPT ![TreeV(t)] = 0]
      <4>1. CASE LockV(t)
        BY <4>1, <3>5 DEF LockV, Step, Holding
      <4>2. CASE LockVFails(t)
        BY <4>2, <3>5 DEF LockVFails, GoOn, Holding
      <4>3. CASE LockWFails(t)
        BY <4>3, <3>5 DEF LockWFails, Step, Holding
      <4>4. CASE ReleaseV(t)
        BY <4>4, <3>5 DEF ReleaseV, NextEdge, GoOn, Holding
      <4>5. QED  BY <2>3, <4>1, <4>2, <4>3, <4>4
    <3>7. pc'[t] \in Holding => TreeV(t)' = TreeV(t)
      BY <3>6, <1>3, TreeVKept
    <3>8. QED  BY <3>3, <3>4, <3>6, <3>7, <1>1, <1>2, <1>3, <1>6, LockingKeeps
  <2>4. QED  BY <2>1, <2>2, <2>3 DEF Augments, AugmentStep
<1>11. FlagsFresh' /\ Pending' /\ GrowthSound' /\ FlipSound' /\ RepairSound'
  BY <1>2 DEF FlagsFresh, Pending, GrowthSound, FlipSound, RepairSound
<1>12. QED  BY <1>7, <1>8, <1>9, <1>10, <1>11 DEF Sound

-----------------------------------------------------------------------------
\* The edge and the pair of a thread that is about to claim or owns a pair.
LEMMA PairAt ==
  ASSUME Basic, Sound, phase = "expand", NEW t \in Thread,
         pc[t] \in {"claim"} \cup Owning, NEW v, NEW w, NEW x,
         v = Edge(t)[1], w = Edge(t)[2], x = Mate(t)
  PROVE  /\ v \in Node /\ w \in Node /\ x \in Node /\ w # x
         /\ M[w] = x /\ M[x] = w /\ w # NoNode /\ x # NoNode
         /\ EvenNode(v) /\ IsAdjacent(adj, v, w) /\ IsAdjacent(adj, w, v)
         /\ MatchSlot(t) = Slot(w) /\ Slot(w) \in Node
         /\ \A y \in Node : M[y] # NoNode /\ Slot(y) = Slot(w) <=> y \in {w, x}
         /\ pc[t] \in Owning => select_match[Slot(w)] = 1 /\ w \in Growing /\ x \in Growing
<1>1. TypeOK /\ ThreadsPlaced /\ MatesMutual /\ PairOwners /\ GraphKept /\ SharesSound
  BY DEF Basic, Sound, MatesKept
<1>2. todo[t] # <<>> /\ M[Edge(t)[2]] # NoNode
  BY <1>1 DEF ThreadsPlaced, Busy, PairOwners
<1>3. /\ v \in Node /\ w \in Node /\ x \in Node /\ x = M[w] /\ M[x] = w
      /\ MatchSlot(t) \in Node /\ MatchSlot(t) = Slot(w)
  BY <1>1, <1>2, MateFacts
<1>4. Edge(t) \in Range(todo[t])
  BY <1>1, <1>2, EdgeFacts
<1>5. EvenNode(v) /\ IsAdjacent(adj, v, w)
  BY <1>1, <1>4 DEF SharesSound, SearchPhases
<1>6. IsAdjacent(adj, w, v)
  BY <1>1, <1>3, <1>5, Undirected DEF GraphKept
<1>7. w # x
  BY <1>1, <1>3 DEF GraphKept
<1>8. \A y \in Node : y # NoNode
  BY DEF Node, NoNode
<1>9. \A y \in Node : M[y] # NoNode /\ Slot(y) = Slot(w) <=> y \in {w, x}
  <2>1. \A y \in Node : M[y] # NoNode => M[y] \in Node /\ M[M[y]] = y
    BY <1>1 DEF MatesMutual, Matched, TypeOK, ForestTypeOK
  <2>2. \A y \in Node : y \in Int
    BY DEF Node
  <2>3. Slot(w) = IF w < x THEN w ELSE x
    BY <1>3 DEF Slot
  <2>4. Slot(x) = Slot(w)
    BY <2>2, <2>3, <1>3, <1>7 DEF Slot
  <2>5. ASSUME NEW y \in Node, M[y] # NoNode, Slot(y) = Slot(w)
        PROVE  y \in {w, x}
    <3>1. Slot(y) \in {y, M[y]} /\ Slot(w) \in {w, x}
      BY <2>3 DEF Slot
    <3>2. QED  BY <3>1, <2>1, <2>5, <1>3
  <2>6. QED  BY <2>4, <2>5, <1>3, <1>8
<1>10. pc[t] \in Owning => select_match[Slot(w)] = 1
  BY <1>1, <1>3 DEF PairOwners
<1>11. pc[t] \in Owning => w \in Growing /\ x \in Growing
  BY DEF Growing
<1>12. QED  BY <1>2, <1>3, <1>5, <1>6, <1>7, <1>8, <1>9, <1>10, <1>11

\* What an expansion step writes: only the owner of a pair writes entries, only
\* those of the pair, and never those of a node that is in a tree.
LEMMA ExpandEffect ==
  ASSUME Basic, Sound, phase = "expand", NEW t \in Thread, Expands(t), NEW v, NEW w, NEW x,
         v = Edge(t)[1], w = Edge(t)[2], x = Mate(t)
  PROVE  /\ pc[t] \notin Owning =>
              is_even' = is_even /\ belongs' = belongs /\ path_table' = path_table
         /\ pc[t] = "grow" =>
              /\ belongs' = belongs /\ is_even' = [is_even EXCEPT ![w] = 0, ![x] = 1]
              /\ path_table' = [path_table EXCEPT ![x] = <<w, v>>] /\ pc'[t] = "own"
         /\ pc[t] = "own" =>
              /\ is_even' = is_even /\ path_table' = path_table
              /\ belongs' = [belongs EXCEPT ![w] = belongs[v]] /\ pc'[t] = "mate"
         /\ pc[t] = "mate" =>
              /\ is_even' = is_even /\ path_table' = path_table
              /\ belongs' = [belongs EXCEPT ![x] = belongs[v]] /\ pc'[t] \notin Owning
         /\ pc[t] \in Owning => select_match' = select_match
         /\ \/ pc[t] # "mate" /\ local' = local /\ vector_1' = vector_1
            \/ /\ pc[t] = "mate" /\ local' = [local EXCEPT ![t] = Append(@, x)]
               /\ vector_1' = vector_1
            \/ /\ pc[t] # "mate" /\ local' = [local EXCEPT ![t] = <<>>]
               /\ vector_1' = vector_1 \o local[t]
         /\ select_match' = select_match \/ ClaimPair(t)
         /\ \A y \in Node : belongs[y] # NoNode =>
              is_even'[y] = is_even[y] /\ belongs'[y] = belongs[y] /\ path_table'[y] = path_table[y]
         /\ \A y \in Node : y \notin {w, x} =>
              is_even'[y] = is_even[y] /\ belongs'[y] = belongs[y] /\ path_table'[y] = path_table[y]
<1>1. /\ TypeOK /\ GrowthSound
      /\ pc \in [Thread -> {"stripe", "fetch", "scan", "merge", "done", "second",
                        "release", "claim", "grow", "own", "mate", "visit",
                        "fill", "undo", "even", "flip", "crashed"}]
      /\ is_even \in [Node -> {0, 1}] /\ belongs \in [Node -> Node \cup {NoNode}]
      /\ path_table \in [Node -> Seq(Node)]
  BY DEF Basic, Sound, TypeOK, ForestTypeOK
<1>2. ExpandStep(t) \/ \E at \in {"merge", "fetch"} : ExpandMerge(t, at)
  BY DEF Expands
<1>3. CASE ExpandSkip(t) \/ ExpandTest(t) \/ ClaimPairFails(t) \/ ClaimPair(t)
  <2>1. pc[t] \in {"scan", "claim"}
    BY <1>3 DEF ExpandSkip, ExpandTest, ClaimPairFails, ClaimPair, Step
  <2>2. /\ is_even' = is_even /\ belongs' = belongs /\ path_table' = path_table
        /\ local' = local /\ (select_match' = select_match \/ ClaimPair(t))
    BY <1>3 DEF ExpandSkip, ExpandTest, ClaimPairFails, ClaimPair
  <2>3. vector_1' = vector_1
    <3>1. ~ \E at \in {"merge", "fetch"} : ExpandMerge(t, at)
      BY <2>1 DEF ExpandMerge, EndThread, Step
    <3>2. QED  BY <3>1, <1>2 DEF ExpandStep
  <2>4. QED  BY <2>1, <2>2, <2>3 DEF Owning
<1>4. CASE \E at \in {"merge", "fetch"} : ExpandMerge(t, at)
  <2>1. /\ pc[t] \in {"merge", "fetch"} /\ local' = [local EXCEPT ![t] = <<>>]
        /\ vector_1' = vector_1 \o local[t] /\ select_match' = select_match
        /\ is_even' = is_even /\ belongs' = belongs /\ path_table' = path_table
    BY <1>4 DEF ExpandMerge, EndThread, Step
  <2>2. QED  BY <2>1 DEF Owning
<1>5. CASE Grow(t) \/ OwnW(t) \/ OwnMate(t)
  <2>1. pc[t] \in Owning /\ select_match' = select_match
    BY <1>5 DEF Grow, OwnW, OwnMate, Step, Owning
  <2>2. v \in Node /\ w \in Node /\ x \in Node /\ EvenNode(v) /\ w # x
    BY <2>1, PairAt
  <2>3. /\ pc[t] = "grow" => Unreached(w) /\ Unreached(x)
        /\ pc[t] = "own" => belongs[w] = NoNode
        /\ pc[t] = "mate" => belongs[x] = NoNode
    BY <1>1 DEF GrowthSound
  <2>4. vector_1' = vector_1
    <3>1. ~ \E at \in {"merge", "fetch"} : ExpandMerge(t, at)
      BY <2>1 DEF ExpandMerge, EndThread, Step, Owning
    <3>2. QED  BY <3>1, <1>2 DEF ExpandStep
  <2>5. CASE Grow(t)
    <3>1. /\ pc[t] = "grow" /\ pc'[t] = "own" /\ belongs' = belongs /\ local' = local
          /\ is_even' = [is_even EXCEPT ![w] = 0, ![x] = 1]
          /\ path_table' = [path_table EXCEPT ![x] = @ \o <<w, v>>]
      BY <2>5, <1>1 DEF Grow, Step
    <3>2. path_table[x] = <<>> /\ belongs[x] = NoNode /\ belongs[w] = NoNode
      BY <2>3, <3>1 DEF Unreached
    <3>3. <<>> \o <<w, v>> = <<w, v>>
      OBVIOUS
    <3>4. path_table' = [path_table EXCEPT ![x] = <<w, v>>]
      BY <3>1, <3>2, <3>3
    <3>5. QED  BY <3>1, <3>2, <3>4, <2>1, <2>2, <2>4, <1>1 DEF Owning
  <2>6. CASE OwnW(t)
    <3>1. /\ pc[t] = "own" /\ pc'[t] = "mate" /\ is_even' = is_even /\ path_table' = path_table
          /\ local' = local /\ belongs' = [belongs EXCEPT ![w] = belongs[v]]
      BY <2>6, <1>1 DEF OwnW, Step
    <3>2. QED  BY <3>1, <2>1, <2>2, <2>3, <2>4, <1>1 DEF Owning
  <2>7. CASE OwnMate(t)
    <3>1. /\ pc[t] = "mate" /\ is_even' = is_even /\ path_table' = path_table
          /\ local' = [local EXCEPT ![t] = Append(@, x)]
          /\ belongs' = [belongs EXCEPT ![x] = belongs[v]]
      BY <2>7 DEF OwnMate
    <3>2. pc'[t] \notin Owning
      BY <2>7, <1>1 DEF OwnMate, NextEdge, GoOn, Owning
    <3>3. QED  BY <3>1, <3>2, <2>1, <2>2, <2>3, <2>4, <1>1 DEF Owning
  <2>8. QED  BY <1>5, <2>5, <2>6, <2>7
<1>6. QED  BY <1>2, <1>3, <1>4, <1>5 DEF ExpandStep

\* A walk stays legal when the entries of all tree nodes stay.
LEMMA WalksKept ==
  ASSUME TypeOK, path_table' \in [Node -> Seq(Node)], MatesMutual, UNCHANGED <<adj, M>>,
         \A y \in Node : belongs[y] # NoNode =>
           belongs'[y] = belongs[y] /\ path_table'[y] = path_table[y],
         NEW a \in Node, EvenWalkLegal(a)
  PROVE  EvenWalkLegal(a)'
<1>1. ForestTypeOK
  BY DEF TypeOK
<1> DEFINE p == Walk(path_table, a)
<1>2. p = Walk(path_table, a)
  OBVIOUS
<1> HIDE DEF p
<1>3. /\ belongs[a] \in Node
      /\ \A y \in Range(p) : y \in Node /\ belongs[y] = belongs[a]
  BY <1>1, <1>2, LegalFacts
<1>4. belongs[a] # NoNode
  BY <1>3 DEF Node, NoNode
<1>5. \A y \in Range(p) : path_table'[y] = path_table[y] /\ belongs'[y] = belongs[y]
  BY <1>3, <1>4
<1>6. \A y \in Range(Walk(path_table, a)) : path_table'[y] = path_table[y] /\ belongs'[y] = belongs[y]
  BY <1>2, <1>5
<1>7. QED  BY <1>1, <1>6, LegalFrame

\* Expansion leaves every walk legal, and gives the new even node one.
LEMMA ExpandLegal ==
  ASSUME Basic, Basic', Sound, phase = "expand", NEW t \in Thread, Expands(t)
  PROVE  LegalForest' /\ KeepsEntries
<1>1. /\ TypeOK /\ TypeOK' /\ ForestTypeOK /\ MatesMutual /\ LegalForest /\ GrowthSound
      /\ EntriesLong(path_table)
  BY DEF Basic, Sound, MatesKept, TypeOK, EntriesNeverOne, EntriesLong
<1>2. adj' = adj /\ M' = M
  BY DEF Expands
<1> DEFINE v == Edge(t)[1]  w == Edge(t)[2]  x == Mate(t)
<1>3. v = Edge(t)[1] /\ w = Edge(t)[2] /\ x = Mate(t)
  OBVIOUS
<1> HIDE DEF v, w, x
<1>4. /\ pc[t] \notin Owning =>
           is_even' = is_even /\ belongs' = belongs /\ path_table' = path_table
      /\ pc[t] = "grow" => belongs' = belongs
      /\ pc[t] = "own" => is_even' = is_even /\ belongs' = [belongs EXCEPT ![w] = belongs[v]]
      /\ pc[t] = "mate" => /\ is_even' = is_even /\ path_table' = path_table
                           /\ belongs' = [belongs EXCEPT ![x] = belongs[v]]
      /\ \A y \in Node : belongs[y] # NoNode =>
           is_even'[y] = is_even[y] /\ belongs'[y] = belongs[y] /\ path_table'[y] = path_table[y]
  BY <1>3, ExpandEffect
<1>5. path_table' \in [Node -> Seq(Node)] /\ belongs \in [Node -> Node \cup {NoNode}]
  BY <1>1 DEF TypeOK, ForestTypeOK
<1>6. ASSUME NEW a \in Node, is_even[a] = 1, belongs[a] # NoNode
      PROVE  EvenWalkLegal(a)'
  <2>1. EvenWalkLegal(a)
    BY <1>6, <1>1 DEF LegalForest
  <2>2. QED  BY <2>1, <1>1, <1>2, <1>4, <1>5, WalksKept
<1>7. ASSUME NEW a \in Node, is_even'[a] = 1, belongs'[a] # NoNode, belongs[a] = NoNode
      PROVE  EvenWalkLegal(a)'
  <2>1. CASE pc[t] \notin {"own", "mate"}
    BY <2>1, <1>4, <1>7 DEF Owning
  <2>2. pc[t] \in {"own", "mate"} => pc[t] \in Owning
    BY DEF Owning
  <2>3. CASE pc[t] = "own"
    <3>1. is_even[w] = 0 /\ is_even' = is_even
      BY <2>3, <1>1, <1>3, <1>4 DEF GrowthSound
    <3>2. QED  BY <3>1, <2>3, <1>4, <1>7, <1>5
  <2>4. CASE pc[t] = "mate"
    <3>1. /\ v \in Node /\ w \in Node /\ x \in Node /\ w # x /\ M[w] = x /\ M[x] = w
          /\ EvenNode(v) /\ IsAdjacent(adj, w, v) /\ w # NoNode /\ x # NoNode
      BY <2>2, <2>4, <1>3, PairAt
    <3>2. /\ path_table[x] = <<w, v>> /\ belongs[x] = NoNode /\ belongs[w] = belongs[v]
      BY <2>4, <1>1, <1>3 DEF GrowthSound
    <3>3. a = x
      BY <2>4, <1>4, <1>5, <1>7
    <3>4. EvenWalkLegal(v) /\ belongs[v] # NoNode
      BY <3>1, <1>1 DEF EvenNode, LegalForest
    <3> DEFINE q == Walk(path_table, v)
    <3>5. q = Walk(path_table, v)
      OBVIOUS
    <3> HIDE DEF q
    <3>6. \A y \in Range(q) : y \in Node /\ belongs[y] = belongs[v] /\ (M[y] = NoNode \/ M[y] \in Range(q))
      BY <3>1, <3>4, <3>5, <1>1, LegalFacts
    <3>7. x \notin Range(q)
      BY <3>6, <3>2, <3>4
    <3>8. w \notin Range(q)
      BY <3>6, <3>7, <3>1
    <3>9. /\ UNCHANGED <<adj, M, path_table>> /\ belongs'[w] = belongs[v] /\ belongs'[x] = belongs[v]
          /\ \A y \in Range(q) : belongs'[y] = belongs[y]
      BY <2>4, <3>1, <3>2, <3>6, <3>7, <1>2, <1>4, <1>5
    <3>10. PICK b \in Node, c \in Node : b = v /\ c = w
      BY <3>1
    <3>11. /\ EvenWalkLegal(b) /\ path_table[a] = <<c, b>> /\ M[a] = c /\ M[c] = a /\ c # a
           /\ IsAdjacent(adj, c, b)
           /\ c \notin Range(Walk(path_table, b)) /\ a \notin Range(Walk(path_table, b))
           /\ UNCHANGED <<adj, M, path_table>> /\ belongs'[c] = belongs[b] /\ belongs'[a] = belongs[b]
           /\ \A y \in Range(Walk(path_table, b)) : belongs'[y] = belongs[y]
      BY <3>1, <3>2, <3>3, <3>4, <3>5, <3>7, <3>8, <3>9, <3>10
    <3>12. QED  BY <3>11, <1>1, HopLegal
  <2>5. QED  BY <2>1, <2>3, <2>4
<1>8. LegalForest'
  BY <1>4, <1>6, <1>7 DEF LegalForest
<1>9. KeepsEntries
  BY <1>4 DEF KeepsEntries
<1>10. QED  BY <1>8, <1>9

\* Which pairs are half way into a tree after a step of one thread.
LEMMA GrowingMoves ==
  ASSUME phase = "expand", phase' = "expand", M' = M, NEW t \in Thread,
         \A u \in Thread : u # t => pc'[u] = pc[u] /\ todo'[u] = todo[u]
  PROVE  /\ \A y : y \in Growing =>
              y \in Growing' \/ (pc[t] \in Owning /\ y \in {Edge(t)[2], Mate(t)})
         /\ pc[t] \in Owning /\ pc'[t] \in Owning /\ todo'[t] = todo[t] =>
              \A y : y \in Growing => y \in Growing'
         /\ pc'[t] \in Owning /\ todo'[t] = todo[t] =>
              Edge(t)[2] \in Growing' /\ Mate(t) \in Growing'
<1> DEFINE Owns(y, u) == pc[u] \in Owning /\ y \in {Edge(u)[2], Mate(u)}
<1>1. \A y : y \in Growing <=> \E u \in Thread : Owns(y, u)
  BY DEF Growing
<1>2. \A y : y \in Growing' <=> \E u \in Thread : pc'[u] \in Owning /\ y \in {Edge(u)[2]', Mate(u)'}
  BY DEF Growing
<1>3. \A u \in Thread : todo'[u] = todo[u] => Edge(u)' = Edge(u) /\ Mate(u)' = Mate(u)
  BY DEF Edge, Mate
<1>4. \A u \in Thread : u # t => \A y : Owns(y, u) => y \in Growing'
  BY <1>2, <1>3
<1>5. QED  BY <1>1, <1>2, <1>3, <1>4

\* Expansion keeps the trees whole.
LEMMA ExpandTrees ==
  ASSUME Basic, Basic', Sound, phase = "expand", NEW t \in Thread, Expands(t)
  PROVE  TreesSound' /\ GraphKept'
<1>1. /\ TypeOK /\ TypeOK' /\ ThreadsPlaced /\ MatesMutual /\ TreesSound /\ GraphKept
      /\ GrowthSound /\ PairOwners
  BY DEF Basic, Sound, MatesKept
<1>2. adj' = adj /\ M' = M /\ phase' = "expand"
  BY DEF Expands
<1> DEFINE v == Edge(t)[1]  w == Edge(t)[2]  x == Mate(t)
<1>3. v = Edge(t)[1] /\ w = Edge(t)[2] /\ x = Mate(t)
  OBVIOUS
<1> HIDE DEF v, w, x
<1>4. /\ pc[t] \notin Owning =>
           is_even' = is_even /\ belongs' = belongs /\ path_table' = path_table
      /\ pc[t] = "grow" => belongs' = belongs /\ pc'[t] = "own"
      /\ pc[t] = "own" => belongs' = [belongs EXCEPT ![w] = belongs[v]] /\ pc'[t] = "mate"
      /\ pc[t] = "mate" => belongs' = [belongs EXCEPT ![x] = belongs[v]]
      /\ pc[t] \in Owning => select_match' = select_match
      /\ select_match' = select_match \/ ClaimPair(t)
      /\ \A y \in Node : belongs[y] # NoNode =>
           is_even'[y] = is_even[y] /\ belongs'[y] = belongs[y] /\ path_table'[y] = path_table[y]
      /\ \A y \in Node : y \notin {w, x} =>
           is_even'[y] = is_even[y] /\ belongs'[y] = belongs[y] /\ path_table'[y] = path_table[y]
  BY <1>3, ExpandEffect
<1>5. PICK p \in ExpandPoints, s \in Seq(Node \X Node) :
        /\ Moves(t, p, s) /\ (p \in Owning => s = todo[t])
        /\ p \in Owning => (pc[t] \in Owning \/ ClaimPair(t))
  BY <1>1, ExpandMoves
<1>6. /\ pc'[t] = p /\ todo'[t] = s
      /\ \A u \in Thread : u # t => pc'[u] = pc[u] /\ todo'[u] = todo[u]
  BY <1>1, <1>5, MovesType
<1>7. /\ \A y : y \in Growing => y \in Growing' \/ (pc[t] \in Owning /\ y \in {w, x})
      /\ pc[t] \in Owning /\ pc'[t] \in Owning => \A y : y \in Growing => y \in Growing'
      /\ pc'[t] \in Owning => w \in Growing' /\ x \in Growing'
  <2>1. pc'[t] \in Owning => todo'[t] = todo[t]
    BY <1>5, <1>6
  <2>2. QED  BY <2>1, <1>2, <1>3, <1>6, GrowingMoves
<1>8. /\ \A y \in Node : M[y] = NoNode => IsRoot(y)
      /\ \A y \in Node : belongs[y] # NoNode => M[belongs[y]] = NoNode
      /\ \A y \in Node : belongs[y] = NoNode /\ y \notin Growing =>
           Unreached(y) /\ select_match[Slot(y)] = 0
      /\ \A y \in Node : M[y] # NoNode /\ y \notin Growing => belongs[M[y]] = belongs[y]
  BY <1>1 DEF TreesSound, SearchPhases, Matched
<1>9. /\ belongs \in [Node -> Node \cup {NoNode}] /\ \A y \in Node : y # NoNode
      /\ \A y \in Node : M[y] # NoNode => M[y] \in Node /\ M[M[y]] = y
      /\ select_match \in [Node -> {0, 1}]
  BY <1>1 DEF TypeOK, ForestTypeOK, Node, NoNode, MatesMutual, Matched
<1>10. pc[t] \in {"claim"} \cup Owning =>
        /\ v \in Node /\ w \in Node /\ x \in Node /\ w # x
        /\ M[w] = x /\ M[x] = w /\ w # NoNode /\ x # NoNode
        /\ EvenNode(v)
        /\ MatchSlot(t) = Slot(w) /\ Slot(w) \in Node
        /\ \A y \in Node : M[y] # NoNode /\ Slot(y) = Slot(w) <=> y \in {w, x}
        /\ pc[t] \in Owning => select_match[Slot(w)] = 1
  BY <1>3, PairAt
<1>11. pc[t] = "mate" => belongs[w] = belongs[v] /\ belongs[x] = NoNode
  BY <1>1, <1>3 DEF GrowthSound
<1>12. \A y : IsRoot(y)' <=> belongs'[y] = y /\ is_even'[y] = 1 /\ path_table'[y] = <<>>
  BY DEF IsRoot
<1>13. \A y \in Node : M'[y] = NoNode => IsRoot(y)'
  BY <1>2, <1>4, <1>8, <1>9, <1>12 DEF IsRoot
<1>14. \A y \in Node : belongs'[y] # NoNode => M'[belongs'[y]] = NoNode
  <2>1. \A y \in Node : belongs'[y] = belongs[y] \/
          (pc[t] \in Owning /\ belongs'[y] = belongs[v] /\ v \in Node)
    BY <1>4, <1>9, <1>10 DEF Owning
  <2>2. QED  BY <2>1, <1>2, <1>8, <1>10 DEF EvenNode
<1>15. ASSUME NEW y \in Node, belongs'[y] = NoNode, y \notin Growing'
       PROVE  Unreached(y)' /\ select_match'[Slot(y)'] = 0
  <2>1. belongs[y] = NoNode
    BY <1>4, <1>15
  <2>2. pc[t] \notin Owning \/ y \notin {w, x}
    <3>1. CASE pc[t] = "mate"
      BY <3>1, <1>4, <1>9, <1>10, <1>11, <1>15 DEF EvenNode, Owning
    <3>2. CASE pc[t] \in {"grow", "own"}
      BY <3>2, <1>4, <1>7, <1>15 DEF Owning
    <3>3. QED  BY <3>1, <3>2 DEF Owning
  <2>3. y \notin Growing
    BY <2>2, <1>7, <1>15
  <2>4. Unreached(y) /\ select_match[Slot(y)] = 0
    BY <2>1, <2>3, <1>8
  <2>5. Unreached(y)'
    BY <2>2, <2>4, <1>4 DEF Unreached
  <2>6. Slot(y)' = Slot(y)
    BY <1>2 DEF Slot
  <2>7. CASE select_match' = select_match
    BY <2>4, <2>5, <2>6, <2>7
  <2>8. CASE ClaimPair(t)
    <3>1. /\ pc[t] = "claim" /\ pc'[t] = "grow"
          /\ select_match' = [select_match EXCEPT ![Slot(w)] = 1]
      <4>1. pc[t] = "claim"
        BY <2>8 DEF ClaimPair, Step
      <4>2. QED  BY <2>8, <4>1, <1>1, <1>10 DEF ClaimPair, Step, TypeOK
    <3>2. y \notin {w, x}
      BY <3>1, <1>7, <1>15 DEF Owning
    <3>3. M[y] # NoNode
      BY <2>1, <1>8, <1>9 DEF IsRoot
    <3>4. Slot(y) # Slot(w) /\ Slot(y) \in Node
      <4>1. Slot(y) \in Node
        BY <3>3, <1>9 DEF Slot
      <4>2. QED  BY <4>1, <3>1, <3>2, <3>3, <1>10
    <3>5. QED  BY <3>1, <3>4, <2>4, <2>5, <2>6, <1>9, <1>10
  <2>9. QED  BY <2>7, <2>8, <1>4
<1>16. ASSUME NEW y \in Node, M[y] # NoNode, y \notin Growing'
       PROVE  belongs'[M[y]] = belongs'[y]
  <2>1. M[y] \in Node /\ M[M[y]] = y
    BY <1>9, <1>16
  <2>2. CASE pc[t] \notin Owning
    <3>1. y \notin Growing
      BY <2>2, <1>7, <1>16
    <3>2. QED  BY <2>2, <3>1, <1>4, <1>8, <1>16
  <2>3. CASE pc[t] \in Owning /\ y \notin {w, x}
    <3>1. y \notin Growing
      BY <2>3, <1>7, <1>16
    <3>2. M[y] \notin {w, x}
      BY <2>1, <2>3, <1>10
    <3>3. QED  BY <3>1, <3>2, <2>1, <2>3, <1>4, <1>8, <1>16
  <2>4. CASE pc[t] \in Owning /\ y \in {w, x}
    <3>1. pc[t] = "mate"
      BY <2>4, <1>4, <1>7, <1>16 DEF Owning
    <3>2. QED  BY <3>1, <2>4, <1>4, <1>9, <1>10, <1>11
  <2>5. QED  BY <2>2, <2>3, <2>4
<1>17. TreesSound'
  BY <1>2, <1>13, <1>14, <1>15, <1>16 DEF TreesSound, Matched
<1>18. GraphKept'
  BY <1>1, <1>2 DEF GraphKept
<1>19. QED  BY <1>17, <1>18

\* The owner of a pair alone knows the state of it.
LEMMA ExpandGrowth ==
  ASSUME Basic, Basic', Sound, phase = "expand", NEW t \in Thread, Expands(t)
  PROVE  GrowthSound'
<1>1. /\ TypeOK /\ ThreadsPlaced /\ TreesSound /\ GrowthSound /\ PairOwners /\ MatesMutual
  BY DEF Basic, Sound, MatesKept
<1>2. adj' = adj /\ M' = M /\ phase' = "expand"
  BY DEF Expands
<1> DEFINE G(u, a, b, c) ==
             /\ pc[u] = "claim" => belongs[b] = NoNode \/ select_match[Slot(b)] = 1
             /\ pc[u] = "grow" => Unreached(b) /\ Unreached(c)
             /\ pc[u] \in {"own", "mate"} =>
                  /\ is_even[b] = 0 /\ is_even[c] = 1
                  /\ path_table[c] = <<b, a>>
                  /\ belongs[c] = NoNode
                  /\ belongs[b] = IF pc[u] = "own" THEN NoNode ELSE belongs[a]
<1>3. \A u \in Thread : G(u, Edge(u)[1], Edge(u)[2], Mate(u))
  BY <1>1 DEF GrowthSound
<1>4. (\A u \in Thread : \A a, b, c :
        a = Edge(u)[1]' /\ b = Edge(u)[2]' /\ c = Mate(u)' => G(u, a, b, c)') => GrowthSound'
  BY DEF GrowthSound
<1> DEFINE v == Edge(t)[1]  w == Edge(t)[2]  x == Mate(t)
<1>5. v = Edge(t)[1] /\ w = Edge(t)[2] /\ x = Mate(t)
  OBVIOUS
<1> HIDE DEF v, w, x
<1>6. /\ pc[t] \notin Owning =>
           is_even' = is_even /\ belongs' = belongs /\ path_table' = path_table
      /\ pc[t] = "grow" =>
           /\ belongs' = belongs /\ is_even' = [is_even EXCEPT ![w] = 0, ![x] = 1]
           /\ path_table' = [path_table EXCEPT ![x] = <<w, v>>] /\ pc'[t] = "own"
      /\ pc[t] = "own" =>
           /\ is_even' = is_even /\ path_table' = path_table
           /\ belongs' = [belongs EXCEPT ![w] = belongs[v]] /\ pc'[t] = "mate"
      /\ pc[t] = "mate" => pc'[t] \notin Owning
      /\ pc[t] \in Owning => select_match' = select_match
      /\ select_match' = select_match \/ ClaimPair(t)
      /\ \A y \in Node : belongs[y] # NoNode =>
           is_even'[y] = is_even[y] /\ belongs'[y] = belongs[y] /\ path_table'[y] = path_table[y]
      /\ \A y \in Node : y \notin {w, x} =>
           is_even'[y] = is_even[y] /\ belongs'[y] = belongs[y] /\ path_table'[y] = path_table[y]
  BY <1>5, ExpandEffect
<1>7. PICK p \in ExpandPoints, s \in Seq(Node \X Node) :
        /\ Moves(t, p, s) /\ (p \in Owning => s = todo[t])
        /\ p \in Owning => (pc[t] \in Owning \/ ClaimPair(t))
        /\ p = "claim" => ExpandTest(t)
  BY <1>1, ExpandMoves
<1>8. /\ pc'[t] = p /\ todo'[t] = s
      /\ \A u \in Thread : u # t => pc'[u] = pc[u] /\ todo'[u] = todo[u]
  BY <1>1, <1>7, MovesType
<1>9. \A u \in Thread : todo'[u] = todo[u] => Edge(u)' = Edge(u) /\ Mate(u)' = Mate(u)
  BY <1>2 DEF Edge, Mate
<1>10. pc[t] \in {"claim"} \cup Owning =>
        /\ v \in Node /\ w \in Node /\ x \in Node /\ w # x
        /\ M[w] = x /\ M[x] = w /\ w # NoNode /\ x # NoNode
        /\ EvenNode(v)
        /\ MatchSlot(t) = Slot(w) /\ Slot(w) \in Node
        /\ \A y \in Node : M[y] # NoNode /\ Slot(y) = Slot(w) <=> y \in {w, x}
        /\ pc[t] \in Owning => select_match[Slot(w)] = 1
  BY <1>5, PairAt
<1>11. /\ belongs \in [Node -> Node \cup {NoNode}] /\ select_match \in [Node -> {0, 1}]
       /\ is_even \in [Node -> {0, 1}] /\ path_table \in [Node -> Seq(Node)]
  BY <1>1 DEF TypeOK, ForestTypeOK
<1>12. \A y : Slot(y)' = Slot(y)
  BY <1>2 DEF Slot
<1>13. \A y \in Node : select_match[y] = 1 => select_match'[y] = 1
  <2>1. CASE select_match' = select_match
    BY <2>1
  <2>2. CASE ClaimPair(t)
    <3>1. pc[t] = "claim" /\ select_match' = [select_match EXCEPT ![MatchSlot(t)] = 1]
      BY <2>2 DEF ClaimPair, Step
    <3>2. QED  BY <3>1, <1>10, <1>11
  <2>3. QED  BY <2>1, <2>2, <1>6
<1>14. ASSUME NEW u \in Thread, u # t, NEW a, NEW b, NEW c,
              a = Edge(u)[1]', b = Edge(u)[2]', c = Mate(u)'
       PROVE  G(u, a, b, c)'
  <2>1. /\ pc'[u] = pc[u] /\ a = Edge(u)[1] /\ b = Edge(u)[2] /\ c = Mate(u)
    BY <1>8, <1>9, <1>14
  <2>2. G(u, a, b, c)
    BY <2>1, <1>3
  <2>3. pc[u] \in {"claim"} \cup Owning =>
        /\ a \in Node /\ b \in Node /\ c \in Node /\ EvenNode(a)
        /\ MatchSlot(u) = Slot(b) /\ Slot(b) \in Node
        /\ M[b] # NoNode /\ M[c] # NoNode /\ Slot(c) = Slot(b)
    <3>1. SUFFICES ASSUME pc[u] \in {"claim"} \cup Owning
          PROVE  /\ a \in Node /\ b \in Node /\ c \in Node /\ EvenNode(a)
                 /\ MatchSlot(u) = Slot(b) /\ Slot(b) \in Node
                 /\ M[b] # NoNode /\ M[c] # NoNode /\ Slot(c) = Slot(b)
      OBVIOUS
    <3>2. /\ a \in Node /\ b \in Node /\ c \in Node /\ EvenNode(a)
          /\ MatchSlot(u) = Slot(b) /\ Slot(b) \in Node
          /\ M[b] = c /\ M[c] = b /\ b # NoNode /\ c # NoNode
          /\ \A y \in Node : M[y] # NoNode /\ Slot(y) = Slot(b) <=> y \in {b, c}
      BY <2>1, <3>1, PairAt
    <3>3. QED  BY <3>2
  <2>4. CASE pc[u] = "claim"
    <3>1. belongs[b] = NoNode \/ select_match[Slot(b)] = 1
      BY <2>2, <2>4
    <3>2. CASE belongs'[b] = NoNode \/ select_match[Slot(b)] = 1
      BY <3>2, <2>1, <2>3, <2>4, <1>12, <1>13 DEF Owning
    <3>3. CASE belongs[b] = NoNode /\ belongs'[b] # NoNode
      <4>1. pc[t] \in Owning /\ b \in {w, x}
        BY <3>3, <2>3, <2>4, <1>6
      <4>2. select_match[Slot(b)] = 1
        BY <4>1, <1>10
      <4>3. QED  BY <4>2, <3>2
    <3>4. QED  BY <3>1, <3>2, <3>3
  <2>5. CASE pc[u] \in Owning
    <3>1. /\ is_even'[b] = is_even[b] /\ belongs'[b] = belongs[b] /\ path_table'[b] = path_table[b]
          /\ is_even'[c] = is_even[c] /\ belongs'[c] = belongs[c] /\ path_table'[c] = path_table[c]
      <4>1. CASE pc[t] \notin Owning
        BY <4>1, <1>6
      <4>2. CASE pc[t] \in Owning
        <5>1. Slot(b) # Slot(w)
          BY <4>2, <2>3, <2>5, <1>1, <1>2, <1>10, <1>14 DEF PairOwners
        <5>2. b \notin {w, x} /\ c \notin {w, x}
          BY <5>1, <4>2, <2>3, <2>5, <1>10
        <5>3. QED  BY <5>2, <2>3, <2>5, <1>6
      <4>3. QED  BY <4>1, <4>2
    <3>2. belongs'[a] = belongs[a]
      BY <2>3, <2>5, <1>6 DEF EvenNode
    <3>3. QED  BY <3>1, <3>2, <2>1, <2>2, <2>5 DEF Unreached, Owning
  <2>6. CASE pc[u] \notin {"claim"} \cup Owning
    BY <2>6, <2>1 DEF Owning
  <2>7. QED  BY <2>4, <2>5, <2>6
<1>15. ASSUME NEW a, NEW b, NEW c, a = Edge(t)[1]', b = Edge(t)[2]', c = Mate(t)'
       PROVE  G(t, a, b, c)'
  <2>1. CASE pc'[t] = "claim"
    <3>1. ExpandTest(t)
      BY <2>1, <1>7, <1>8
    <3>2. pc[t] = "scan" /\ todo'[t] = todo[t] /\ belongs[w] = NoNode
      BY <3>1, <1>5 DEF ExpandTest, Step, NoTreeYet
    <3>3. b = w /\ belongs' = belongs
      BY <3>2, <1>5, <1>6, <1>9, <1>15 DEF Owning
    <3>4. QED  BY <3>2, <3>3, <2>1
  <2>2. CASE pc'[t] \in Owning
    <3>1. a = v /\ b = w /\ c = x /\ (pc[t] \in Owning \/ ClaimPair(t))
      BY <2>2, <1>5, <1>7, <1>8, <1>9, <1>15
    <3>2. G(t, v, w, x)
      BY <1>3, <1>5
    <3>3. CASE ClaimPair(t)
      <4>1. pc[t] = "claim" /\ select_match[Slot(w)] = 0 /\ pc'[t] = "grow"
        <5>1. pc[t] = "claim"
          BY <3>3 DEF ClaimPair, Step
        <5>2. QED  BY <5>1, <3>3, <1>1, <1>10 DEF ClaimPair, Step, TypeOK
      <4>2. belongs[w] = NoNode
        BY <4>1, <3>2
      <4>3. w \notin Growing /\ x \notin Growing
        <5>1. ASSUME NEW u \in Thread, pc[u] \in Owning, Edge(u)[2] \in {w, x} \/ Mate(u) \in {w, x}
              PROVE  FALSE
          <6>1. PICK d : d = Edge(u)[2]
            OBVIOUS
          <6>2. PICK f : f = Mate(u)
            OBVIOUS
          <6>3. /\ M[d] = f /\ M[f] = d /\ select_match[Slot(d)] = 1
            BY <5>1, <6>1, <6>2, PairAt
          <6>4. d \in {w, x}
            BY <4>1, <5>1, <6>1, <6>2, <6>3, <1>10
          <6>5. Slot(d) = Slot(w)
            BY <6>4, <4>1, <1>10
          <6>6. QED  BY <6>3, <6>5, <4>1
        <5>2. QED  BY <5>1 DEF Growing
      <4>4. belongs[x] = NoNode
        BY <4>1, <4>2, <4>3, <1>1, <1>10 DEF TreesSound, SearchPhases, Matched
      <4>5. Unreached(w) /\ Unreached(x)
        BY <4>1, <4>2, <4>3, <4>4, <1>1, <1>10 DEF TreesSound, SearchPhases
      <4>6. is_even' = is_even /\ belongs' = belongs /\ path_table' = path_table
        BY <4>1, <1>6 DEF Owning
      <4>7. QED  BY <3>1, <4>1, <4>5, <4>6 DEF Unreached
    <3>4. CASE pc[t] = "grow"
      <4>1. Unreached(w) /\ Unreached(x) /\ w # x /\ w \in Node /\ x \in Node
        BY <3>2, <3>4, <1>10 DEF Owning
      <4>2. QED  BY <3>1, <3>4, <4>1, <1>6, <1>11 DEF Unreached
    <3>5. CASE pc[t] = "own"
      <4>1. /\ is_even[w] = 0 /\ is_even[x] = 1 /\ path_table[x] = <<w, v>> /\ belongs[x] = NoNode
            /\ w # x /\ w \in Node /\ x \in Node
            /\ v \in Node /\ belongs[w] = NoNode /\ belongs[v] # NoNode
        BY <3>2, <3>5, <1>10 DEF Owning, EvenNode
      <4>2. QED  BY <3>1, <3>5, <4>1, <1>6, <1>11
    <3>6. QED  BY <3>1, <3>3, <3>4, <3>5, <1>6, <2>2 DEF Owning
  <2>3. CASE pc'[t] \notin {"claim"} \cup Owning
    BY <2>3 DEF Owning
  <2>4. QED  BY <2>1, <2>2, <2>3
<1> HIDE DEF G
<1>16. QED  BY <1>4, <1>14, <1>15

\* What is collected for a frontier, when a thread adds a node that is new in
\* the trees or hands over what it collected.
LEMMA CollectedKept ==
  ASSUME TypeOK, TypeOK', Collected, Pending, KeepsEntries,
         phase \in {"expand", "blossom"}, phase' = phase, nodes_vector' = nodes_vector,
         NEW t \in Thread,
         \/ local' = local /\ vector_1' = vector_1 /\ vector_2' = vector_2
         \/ /\ \E x \in Node : /\ ~EvenNode(x) /\ EvenNode(x)'
                               /\ local' = [local EXCEPT ![t] = Append(@, x)]
            /\ vector_1' = vector_1 /\ vector_2' = vector_2
         \/ /\ local' = [local EXCEPT ![t] = <<>>]
            /\ \/ vector_1' = vector_1 \o local[t] /\ vector_2' = vector_2
               \/ vector_2' = vector_2 \o local[t] /\ vector_1' = vector_1
  PROVE  Collected' /\ Pending'
<1>1. /\ \A x \in Range(nodes_vector) \cup Range(vector_1) \cup Range(vector_2) : EvenNode(x)
      /\ IsInjective(nodes_vector) /\ IsInjective(vector_1) /\ IsInjective(vector_2)
      /\ Range(vector_1) \cap Range(vector_2) = {}
  BY DEF Collected, SearchPhases
<1>2. /\ \A u \in Thread :
           /\ IsInjective(local[u])
           /\ \A x \in Range(local[u]) :
                EvenNode(x) /\ x \notin Range(vector_1) /\ x \notin Range(vector_2)
      /\ \A u, z \in Thread : u # z => Range(local[u]) \cap Range(local[z]) = {}
  BY DEF Pending
<1>3. /\ local \in [Thread -> Seq(Node)] /\ vector_1 \in Seq(Node) /\ vector_2 \in Seq(Node)
      /\ nodes_vector \in Seq(Node) /\ local[t] \in Seq(Node)
  BY DEF TypeOK
<1>4. \A x \in Node : EvenNode(x) => EvenNode(x)'
  BY DEF KeepsEntries, EvenNode
<1>5. /\ \A u \in Thread : \A x \in Range(local[u]) : x \in Node
      /\ \A x \in Range(nodes_vector) \cup Range(vector_1) \cup Range(vector_2) : x \in Node
  <2>1. \A u \in Thread : local[u] \in Seq(Node)
    BY <1>3
  <2>2. QED  BY <2>1, <1>3, RangeOfSeq
<1>6. (/\ \A x \in Range(nodes_vector') \cup Range(vector_1') \cup Range(vector_2') : EvenNode(x)'
       /\ IsInjective(nodes_vector') /\ IsInjective(vector_1') /\ IsInjective(vector_2')
       /\ Range(vector_1') \cap Range(vector_2') = {}) => Collected'
  BY DEF Collected, IsInjective, Range
<1>7. (/\ \A u \in Thread :
            /\ IsInjective(local'[u])
            /\ \A x \in Range(local'[u]) :
                 EvenNode(x)' /\ x \notin Range(vector_1') /\ x \notin Range(vector_2')
       /\ \A u, z \in Thread : u # z => Range(local'[u]) \cap Range(local'[z]) = {}) => Pending'
  BY DEF Pending, IsInjective, Range
<1>8. CASE local' = local /\ vector_1' = vector_1 /\ vector_2' = vector_2
  BY <1>8, <1>1, <1>2, <1>4, <1>5, <1>6, <1>7
<1>9. CASE /\ \E x \in Node : /\ ~EvenNode(x) /\ EvenNode(x)'
                              /\ local' = [local EXCEPT ![t] = Append(@, x)]
           /\ vector_1' = vector_1 /\ vector_2' = vector_2
  <2>1. PICK x \in Node : /\ ~EvenNode(x) /\ EvenNode(x)'
                          /\ local' = [local EXCEPT ![t] = Append(@, x)]
    BY <1>9
  <2>2. x \notin Range(local[t])
    BY <2>1, <1>2
  <2> DEFINE q == Append(local[t], x)
  <2>3. Range(q) = Range(local[t]) \cup {x} /\ IsInjective(q)
    BY <2>2, <1>2, <1>3, AppendFacts
  <2>4. local' = [local EXCEPT ![t] = q]
    BY <2>1
  <2> HIDE DEF q
  <2>5. local'[t] = q /\ \A u \in Thread : u # t => local'[u] = local[u]
    BY <2>4, <1>3
  <2>6. \A u \in Thread : Range(local'[u]) \subseteq Range(local[u]) \cup (IF u = t THEN {x} ELSE {})
    BY <2>3, <2>5
  <2>7. \A u \in Thread : IsInjective(local'[u])
    BY <2>3, <2>5, <1>2
  <2>8. \A u \in Thread : x \notin Range(local[u])
    BY <2>1, <1>2
  <2>9. x \notin Range(vector_1) /\ x \notin Range(vector_2)
    BY <2>1, <1>1
  <2>10. ASSUME NEW u \in Thread, NEW y \in Range(local'[u])
         PROVE  EvenNode(y)' /\ y \notin Range(vector_1') /\ y \notin Range(vector_2')
    BY <2>10, <2>1, <2>6, <2>9, <1>2, <1>4, <1>5, <1>9
  <2>11. \A u, z \in Thread : u # z => Range(local'[u]) \cap Range(local'[z]) = {}
    <3>1. \A u \in Thread : u # t => Range(local'[u]) \cap Range(local'[t]) = {}
      <4>1. \A u \in Thread : u # t => Range(local[u]) \cap Range(local[t]) = {}
        BY <1>2
      <4>2. QED  BY <4>1, <2>3, <2>5, <2>8
    <3>2. \A u, z \in Thread : u # z /\ u # t /\ z # t => Range(local'[u]) \cap Range(local'[z]) = {}
      BY <2>5, <1>2
    <3>3. QED  BY <3>1, <3>2
  <2>12. Collected'
    BY <1>9, <1>1, <1>4, <1>5, <1>6
  <2>13. QED  BY <2>7, <2>10, <2>11, <2>12, <1>7
<1>10. CASE /\ local' = [local EXCEPT ![t] = <<>>]
            /\ \/ vector_1' = vector_1 \o local[t] /\ vector_2' = vector_2
               \/ vector_2' = vector_2 \o local[t] /\ vector_1' = vector_1
  <2>1. local'[t] = <<>> /\ \A u \in Thread : u # t => local'[u] = local[u]
    BY <1>10, <1>3
  <2>2. IsInjective(<<>>) /\ Range(<<>>) = {}
    BY DEF IsInjective, Range
  <2> DEFINE q == local[t]
  <2>3. q = local[t] /\ q \in Seq(Node) /\ IsInjective(q)
    BY <1>2, <1>3
  <2> HIDE DEF q
  <2>4. /\ Range(vector_1) \cap Range(q) = {} /\ Range(vector_2) \cap Range(q) = {}
        /\ \A y \in Range(q) : y \in Node /\ EvenNode(y)
    BY <2>3, <1>2, <1>5
  <2>5. /\ Range(vector_1 \o q) = Range(vector_1) \cup Range(q) /\ IsInjective(vector_1 \o q)
        /\ Range(vector_2 \o q) = Range(vector_2) \cup Range(q) /\ IsInjective(vector_2 \o q)
    BY <2>3, <2>4, <1>1, <1>3, ConcatRange, ConcatInjective
  <2>6. \/ vector_1' = vector_1 \o q /\ vector_2' = vector_2
        \/ vector_2' = vector_2 \o q /\ vector_1' = vector_1
    BY <2>3, <1>10
  <2>7. Collected'
    <3>1. IsInjective(vector_1') /\ IsInjective(vector_2')
      BY <2>5, <2>6, <1>1
    <3>2. Range(vector_1') \cap Range(vector_2') = {}
      BY <2>4, <2>5, <2>6, <1>1
    <3>3. /\ Range(vector_1') \subseteq Range(vector_1) \cup Range(q)
          /\ Range(vector_2') \subseteq Range(vector_2) \cup Range(q)
      BY <2>5, <2>6
    <3>4. \A x \in Range(nodes_vector') \cup Range(vector_1') \cup Range(vector_2') : EvenNode(x)'
      BY <3>3, <2>4, <1>1, <1>4, <1>5
    <3>5. QED  BY <3>1, <3>2, <3>4, <1>1, <1>6
  <2>8. Pending'
    <3>1. /\ Range(vector_1') \subseteq Range(vector_1) \cup Range(q)
          /\ Range(vector_2') \subseteq Range(vector_2) \cup Range(q)
      BY <2>5, <2>6
    <3>2. \A u \in Thread : IsInjective(local'[u])
      BY <2>1, <2>2, <1>2
    <3>3. \A u \in Thread : u # t => Range(local[u]) \cap Range(q) = {}
      BY <2>3, <1>2
    <3>4. ASSUME NEW u \in Thread, NEW x \in Range(local'[u])
          PROVE  EvenNode(x)' /\ x \notin Range(vector_1') /\ x \notin Range(vector_2')
      <4>1. u # t /\ x \in Range(local[u])
        BY <3>4, <2>1, <2>2
      <4>2. QED  BY <4>1, <3>1, <3>3, <1>2, <1>4, <1>5
    <3>5. \A u, z \in Thread : u # z => Range(local'[u]) \cap Range(local'[z]) = {}
      <4>1. \A u \in Thread : Range(local'[u]) \subseteq Range(local[u])
        BY <2>1, <2>2
      <4>2. QED  BY <4>1, <1>2
    <3>6. QED  BY <3>2, <3>4, <3>5, <1>7
  <2>9. QED  BY <2>7, <2>8
<1>11. QED  BY <1>8, <1>9, <1>10

\* An expansion step keeps everything a search relies on.
LEMMA ExpandSound ==
  ASSUME Basic, Basic', Sound, phase = "expand", NEW t \in Thread, Expands(t)
  PROVE  Sound'
<1>1. /\ TypeOK /\ TypeOK' /\ ThreadsPlaced /\ Collected /\ Pending /\ SharesSound
      /\ FlagsFresh /\ LapsInTrees /\ GrowthSound
  BY DEF Basic, Sound
<1>2. /\ adj' = adj /\ M' = M /\ phase' = "expand" /\ lap' = lap /\ nodes_vector' = nodes_vector
      /\ vector_2' = vector_2 /\ select_tree' = select_tree /\ path_collection' = path_collection
  BY DEF Expands, ExpandStep, ExpandMerge, EndThread
<1>3. GraphKept' /\ TreesSound' /\ GrowthSound' /\ LegalForest' /\ KeepsEntries
  BY ExpandTrees, ExpandGrowth, ExpandLegal
<1>4. PICK p \in ExpandPoints, s \in Seq(Node \X Node) :
        Moves(t, p, s) /\ Range(s) \subseteq Range(todo[t])
  BY <1>1, ExpandMoves
<1>5. /\ pc'[t] = p /\ todo'[t] = s
      /\ \A u \in Thread : u # t => pc'[u] = pc[u] /\ todo'[u] = todo[u]
  BY <1>1, <1>4, MovesType
<1>6. Collected' /\ Pending'
  <2> DEFINE v == Edge(t)[1]  w == Edge(t)[2]  x == Mate(t)
  <2>1. v = Edge(t)[1] /\ w = Edge(t)[2] /\ x = Mate(t)
    OBVIOUS
  <2> HIDE DEF v, w, x
  <2>2. /\ pc[t] = "mate" => is_even' = is_even /\ belongs' = [belongs EXCEPT ![x] = belongs[v]]
        /\ \/ pc[t] # "mate" /\ local' = local /\ vector_1' = vector_1
           \/ /\ pc[t] = "mate" /\ local' = [local EXCEPT ![t] = Append(@, x)]
              /\ vector_1' = vector_1
           \/ /\ pc[t] # "mate" /\ local' = [local EXCEPT ![t] = <<>>]
              /\ vector_1' = vector_1 \o local[t]
    BY <2>1, ExpandEffect
  <2>3. CASE pc[t] = "mate"
    <3>1. x \in Node /\ EvenNode(v)
      BY <2>1, <2>3, PairAt DEF Owning
    <3>2. is_even[x] = 1 /\ belongs[x] = NoNode
      BY <2>1, <2>3, <1>1 DEF GrowthSound
    <3>3. belongs \in [Node -> Node \cup {NoNode}]
      BY <1>1 DEF TypeOK, ForestTypeOK
    <3>4. PICK y \in Node : y = x
      BY <3>1
    <3>5. ~EvenNode(y) /\ EvenNode(y)'
      BY <3>1, <3>2, <3>3, <3>4, <2>2, <2>3 DEF EvenNode
    <3>6. local' = [local EXCEPT ![t] = Append(@, y)] /\ vector_1' = vector_1
      BY <3>4, <2>2, <2>3
    <3>7. QED  BY <3>5, <3>6, <1>1, <1>2, <1>3, CollectedKept
  <2>4. CASE pc[t] # "mate"
    BY <2>2, <2>4, <1>1, <1>2, <1>3, CollectedKept
  <2>5. QED  BY <2>3, <2>4
<1>7. SharesSound'
  <2>1. \A u \in Thread : Range(todo'[u]) \subseteq Range(todo[u])
    BY <1>4, <1>5
  <2>2. \A u \in Thread : \A e \in Range(todo[u]) : e[1] \in Node
    <3>1. \A u \in Thread : todo[u] \in Seq(Node \X Node)
      BY <1>1 DEF TypeOK
    <3>2. \A u \in Thread : \A e \in Range(todo[u]) : e \in Node \X Node
      BY <3>1, RangeOfSeq
    <3>3. QED  BY <3>2
  <2>3. \A y \in Node : EvenNode(y) => EvenNode(y)'
    BY <1>3 DEF KeepsEntries, EvenNode
  <2>4. \A u \in Thread : \A e \in Range(todo'[u]) :
          EvenNode(e[1]) /\ IsAdjacent(adj, e[1], e[2]) /\ e[1] \in Node
    BY <2>1, <2>2, <1>1 DEF SharesSound, SearchPhases
  <2>5. \A u \in Thread : \A e \in Range(todo'[u]) :
          EvenNode(e[1])' /\ IsAdjacent(adj, e[1], e[2])'
    BY <2>3, <2>4, <1>2
  <2>6. QED  BY <2>5, <1>2 DEF SharesSound, EvenNode
<1>8. LapsInTrees'
  <2>1. \A u \in Thread : lap'[u] = <<>>
    BY <1>1, <1>2 DEF LapsInTrees
  <2>2. Range(<<>>) = {}
    BY DEF Range
  <2>3. QED  BY <2>1, <2>2 DEF LapsInTrees
<1>9. FlagsFresh' /\ PathsSound' /\ LocksSound' /\ FlipSound' /\ RepairSound'
  BY <1>1, <1>2 DEF FlagsFresh, PathsSound, LocksSound, FlipSound, RepairSound
<1>10. QED  BY <1>3, <1>6, <1>7, <1>8, <1>9 DEF Sound

-----------------------------------------------------------------------------
\* A blossom that a thread finds lies in the tree of its edge.
LEMMA BlossomInTree ==
  ASSUME Basic, Sound, LegalForest, phase = "blossom", NEW t \in Thread, pc[t] = "scan",
         NEW v, NEW w, v = Edge(t)[1], w = Edge(t)[2], is_even[w] = 1
  PROVE  /\ v \in Node /\ w \in Node
         /\ \A y \in Range(Walk(path_table, v)) \cup Range(Walk(path_table, w)) :
              y \in Node /\ belongs[y] # NoNode
<1>1. /\ TypeOK /\ ForestTypeOK /\ ThreadsPlaced /\ MatesMutual /\ SharesSound
  BY DEF Basic, Sound, MatesKept, TypeOK
<1>2. todo[t] # <<>>
  BY <1>1 DEF ThreadsPlaced, Busy
<1>3. v \in Node /\ w \in Node /\ Edge(t) \in Range(todo[t])
  BY <1>1, <1>2, EdgeFacts
<1>4. EvenNode(v) /\ belongs[w] = belongs[v]
  BY <1>1, <1>3 DEF SharesSound, SearchPhases
<1>5. EvenWalkLegal(v) /\ EvenWalkLegal(w) /\ belongs[v] # NoNode /\ belongs[w] # NoNode
  BY <1>3, <1>4 DEF EvenNode, LegalForest
<1>6. \A y \in Range(Walk(path_table, v)) : y \in Node /\ belongs[y] = belongs[v]
  <2> DEFINE p == Walk(path_table, v)
  <2>1. p = Walk(path_table, v)
    OBVIOUS
  <2> HIDE DEF p
  <2>2. \A y \in Range(p) : y \in Node /\ belongs[y] = belongs[v]
    BY <2>1, <1>1, <1>3, <1>5, LegalFacts
  <2>3. QED  BY <2>1, <2>2
<1>7. \A y \in Range(Walk(path_table, w)) : y \in Node /\ belongs[y] = belongs[w]
  <2> DEFINE p == Walk(path_table, w)
  <2>1. p = Walk(path_table, w)
    OBVIOUS
  <2> HIDE DEF p
  <2>2. \A y \in Range(p) : y \in Node /\ belongs[y] = belongs[w]
    BY <2>1, <1>1, <1>3, <1>5, LegalFacts
  <2>3. QED  BY <2>1, <2>2
<1>8. QED  BY <1>3, <1>5, <1>6, <1>7

\* What a step of the blossom phase writes.
LEMMA ShrinkEffect ==
  ASSUME Basic, Sound, LegalForest, phase = "blossom", NEW t \in Thread, Shrinks(t)
  PROVE  /\ \/ is_even' = is_even /\ local' = local /\ vector_2' = vector_2
            \/ /\ pc[t] = "even" /\ is_even' = [is_even EXCEPT ![Current(t)] = 1]
               /\ local' = [local EXCEPT ![t] = Append(@, Current(t))] /\ vector_2' = vector_2
            \/ /\ is_even' = is_even /\ local' = [local EXCEPT ![t] = <<>>]
               /\ vector_2' = vector_2 \o local[t]
         /\ \/ path_table' = path_table
            \/ /\ pc[t] \in Filling
               /\ \A y \in Node : y # Current(t) => path_table'[y] = path_table[y]
         /\ \A u \in Thread : u # t => lap'[u] = lap[u]
         /\ \A l \in Range(lap'[t]) : l \in Range(lap[t]) \/ (l[1] \in Node /\ belongs[l[1]] # NoNode)
         /\ pc'[t] \notin {"visit", "claim"} \cup Filling => lap'[t] = <<>>
<1>1. /\ TypeOK /\ ThreadsPlaced /\ path_table \in [Node -> Seq(Node)]
      /\ pc \in [Thread -> {"stripe", "fetch", "scan", "merge", "done", "second",
                        "release", "claim", "grow", "own", "mate", "visit",
                        "fill", "undo", "even", "flip", "crashed"}]
      /\ lap \in [Thread -> Seq(Node \X Seq(Node))]
      /\ pc[t] \in {"claim"} \cup Filling => lap[t] # <<>>
      /\ pc[t] \notin {"visit", "claim"} \cup Filling => lap[t] = <<>>
  BY DEF Basic, Sound, TypeOK, ForestTypeOK, ThreadsPlaced, LapsInTrees
<1>2. Range(<<>>) = {}
  BY DEF Range
<1>3. lap[t] # <<>> => Current(t) \in Node /\ Range(Tail(lap[t])) \subseteq Range(lap[t])
  BY <1>1, LapFacts
<1>4. NextLap(t) /\ lap[t] # <<>> =>
        /\ \A u \in Thread : u # t => lap'[u] = lap[u]
        /\ \A l \in Range(lap'[t]) : l \in Range(lap[t])
  BY <1>1, <1>3 DEF NextLap
<1>5. (~ \E at \in {"merge", "fetch"} : BlossomMerge(t, at)) => vector_2' = vector_2
  BY DEF Shrinks
<1>6. pc[t] \notin {"merge", "fetch"} => vector_2' = vector_2
  <2>1. pc[t] \notin {"merge", "fetch"} => ~ \E at \in {"merge", "fetch"} : BlossomMerge(t, at)
    BY DEF BlossomMerge, EndThread, Step
  <2>2. QED  BY <1>5, <2>1
<1>7. CASE BlossomSkip(t) \/ CloseBlossom(t)
  <2>1. /\ is_even' = is_even /\ local' = local /\ path_table' = path_table /\ lap' = lap
        /\ lap[t] = <<>> /\ pc[t] \in {"scan", "visit"}
    BY <1>7, <1>1 DEF BlossomSkip, CloseBlossom, Filling
  <2>2. QED  BY <2>1, <1>6
<1>8. CASE VisitSkip(t)
  <2>1. /\ is_even' = is_even /\ local' = local /\ path_table' = path_table /\ pc' = pc
        /\ NextLap(t) /\ lap[t] # <<>> /\ pc[t] = "visit"
    BY <1>8 DEF VisitSkip
  <2>2. QED  BY <2>1, <1>4, <1>6
<1>9. CASE Visit(t) \/ ClaimNode(t)
  <2>1. /\ is_even' = is_even /\ local' = local /\ path_table' = path_table /\ lap' = lap
        /\ pc[t] \in {"visit", "claim"} /\ pc'[t] \in {"claim", "fill"}
    BY <1>9, <1>1 DEF Visit, ClaimNode, Step
  <2>2. QED  BY <2>1, <1>6 DEF Filling
<1>10. CASE ClaimNodeFails(t)
  <2>1. /\ is_even' = is_even /\ local' = local /\ path_table' = path_table
        /\ NextLap(t) /\ pc[t] = "claim" /\ pc'[t] = "visit"
    BY <1>10, <1>1 DEF ClaimNodeFails, Step
  <2>2. QED  BY <2>1, <1>1, <1>4, <1>6
<1>11. CASE MakeEven(t)
  <2>1. /\ path_table' = path_table /\ NextLap(t) /\ pc[t] = "even" /\ pc'[t] = "visit"
        /\ is_even' = [is_even EXCEPT ![Current(t)] = 1]
        /\ local' = [local EXCEPT ![t] = Append(@, Current(t))]
    BY <1>11, <1>1 DEF MakeEven, Step
  <2>2. QED  BY <2>1, <1>1, <1>4, <1>6 DEF Filling
<1>12. CASE FindBlossom(t) \/ FindCycle(t)
  <2> DEFINE v == Edge(t)[1]  w == Edge(t)[2]
  <2>1. v = Edge(t)[1] /\ w = Edge(t)[2]
    OBVIOUS
  <2> HIDE DEF v, w
  <2>2. /\ pc[t] = "scan" /\ is_even[w] = 1 /\ is_even' = is_even /\ local' = local
        /\ path_table' = path_table
    BY <1>12, <2>1 DEF FindBlossom, FindCycle, Step
  <2>3. /\ v \in Node /\ w \in Node
        /\ \A y \in Range(Walk(path_table, v)) \cup Range(Walk(path_table, w)) :
             y \in Node /\ belongs[y] # NoNode
    BY <2>1, <2>2, BlossomInTree
  <2>4. lap[t] = <<>>
    BY <2>2, <1>1 DEF Filling
  <2>5. \/ lap' = lap
        \/ lap' = [lap EXCEPT ![t] = <<>>]
        \/ /\ pc'[t] = "visit"
           /\ \E b \in Seq(Node) :
                /\ Range(b) \subseteq Range(Walk(path_table, v)) \cup Range(Walk(path_table, w))
                /\ lap' = [lap EXCEPT ![t] = OddOf(b)]
    <3>1. CASE FindBlossom(t)
      <4>1. CASE HasBase(v, w)
        <5>1. pc'[t] = "visit" /\ lap' = [lap EXCEPT ![t] = OddOf(Blossom(v, w))]
          BY <3>1, <4>1, <2>1, <1>1 DEF FindBlossom, Step
        <5>2. QED  BY <5>1, <2>3, <1>1, BlossomFacts
      <4>2. CASE ~HasBase(v, w)
        BY <3>1, <4>2, <2>1 DEF FindBlossom
      <4>3. QED  BY <4>1, <4>2
    <3>2. CASE FindCycle(t)
      <4>1. CASE WalksMeet(v, w)
        <5>1. pc'[t] = "visit" /\ lap' = [lap EXCEPT ![t] = OddOf(WalkCycle(v, w))]
          BY <3>2, <4>1, <2>1, <1>1 DEF FindCycle
        <5>2. QED  BY <5>1, <4>1, <2>3, <1>1, WalkCycleFacts
      <4>2. CASE ~WalksMeet(v, w)
        BY <3>2, <4>2, <2>1 DEF FindCycle
      <4>3. QED  BY <4>1, <4>2
    <3>3. QED  BY <1>12, <3>1, <3>2
  <2>6. CASE lap' = lap \/ lap' = [lap EXCEPT ![t] = <<>>]
    <3>1. lap'[t] = <<>> /\ \A u \in Thread : u # t => lap'[u] = lap[u]
      BY <2>6, <2>4, <1>1
    <3>2. QED  BY <3>1, <2>2, <1>2, <1>6
  <2>7. CASE /\ pc'[t] = "visit"
             /\ \E b \in Seq(Node) :
                  /\ Range(b) \subseteq Range(Walk(path_table, v)) \cup Range(Walk(path_table, w))
                  /\ lap' = [lap EXCEPT ![t] = OddOf(b)]
    <3>1. PICK b \in Seq(Node) :
                  /\ Range(b) \subseteq Range(Walk(path_table, v)) \cup Range(Walk(path_table, w))
                  /\ lap' = [lap EXCEPT ![t] = OddOf(b)]
      BY <2>7
    <3>2. \A l \in Range(OddOf(b)) : l[1] \in Range(b)
      BY OddOfFacts DEF IsLap
    <3>3. \A l \in Range(OddOf(b)) : l[1] \in Node /\ belongs[l[1]] # NoNode
      BY <3>1, <3>2, <2>3
    <3>4. lap'[t] = OddOf(b) /\ \A u \in Thread : u # t => lap'[u] = lap[u]
      BY <3>1, <1>1
    <3>5. QED  BY <3>3, <3>4, <2>2, <2>7, <1>6
  <2>8. QED  BY <2>5, <2>6, <2>7
<1>13. CASE FillChecked(t)
  <2>1. /\ is_even' = is_even /\ local' = local /\ lap' = lap /\ pc[t] = "fill"
        /\ pc'[t] \in {"even", "undo"}
        /\ path_table' = [path_table EXCEPT ![Current(t)] = @ \o Entry(t)]
    BY <1>13, <1>1 DEF FillChecked, Write, Step
  <2>2. \A y \in Node : y # Current(t) => path_table'[y] = path_table[y]
    BY <2>1, <1>1
  <2>3. QED  BY <2>1, <2>2, <1>6 DEF Filling
<1>14. CASE DropEntry(t)
  <2>1. /\ is_even' = is_even /\ local' = local /\ NextLap(t) /\ pc[t] = "undo"
        /\ pc'[t] = "visit"
        /\ path_table' = [path_table EXCEPT ![Current(t)] = <<>>]
    BY <1>14, <1>1 DEF DropEntry, Step
  <2>2. \A y \in Node : y # Current(t) => path_table'[y] = path_table[y]
    BY <2>1, <1>1
  <2>3. QED  BY <2>1, <2>2, <1>1, <1>4, <1>6 DEF Filling
<1>15. CASE \E at \in {"merge", "fetch"} : BlossomMerge(t, at)
  <2>1. /\ is_even' = is_even /\ path_table' = path_table /\ lap' = lap
        /\ local' = [local EXCEPT ![t] = <<>>] /\ vector_2' = vector_2 \o local[t]
        /\ pc[t] \in {"merge", "fetch"}
    BY <1>15 DEF BlossomMerge, EndThread, Step
  <2>2. lap[t] = <<>>
    BY <2>1, <1>1 DEF Filling
  <2>3. QED  BY <2>1, <2>2
<1>16. QED
  BY <1>7, <1>8, <1>9, <1>10, <1>11, <1>12, <1>13, <1>14, <1>15 DEF Shrinks, RoundBlossom

\* What a search relies on when the next frontiers, the shares and the walks
\* are left out: a step of one thread keeps it as long as even nodes keep their
\* entries, todo only shrinks and belongs stays.
LEMMA SharesKept ==
  ASSUME TypeOK, SharesSound, KeepsEntries, phase \in {"expand", "blossom"}, phase' = phase,
         adj' = adj, belongs' = belongs \/ phase = "expand",
         \A u \in Thread : Range(todo'[u]) \subseteq Range(todo[u])
  PROVE  SharesSound'
<1>1. \A u \in Thread : \A e \in Range(todo[u]) : e[1] \in Node
  <2>1. \A u \in Thread : todo[u] \in Seq(Node \X Node)
    BY DEF TypeOK
  <2>2. \A u \in Thread : \A e \in Range(todo[u]) : e \in Node \X Node
    BY <2>1, RangeOfSeq
  <2>3. QED  BY <2>2
<1>2. \A y \in Node : EvenNode(y) => EvenNode(y)'
  BY DEF KeepsEntries, EvenNode
<1>3. \A u \in Thread : \A e \in Range(todo'[u]) :
        /\ EvenNode(e[1]) /\ IsAdjacent(adj, e[1], e[2]) /\ e[1] \in Node
        /\ phase = "blossom" => belongs[e[2]] = belongs[e[1]]
  BY <1>1 DEF SharesSound, SearchPhases
<1>4. \A u \in Thread : \A e \in Range(todo'[u]) :
        /\ EvenNode(e[1])' /\ IsAdjacent(adj, e[1], e[2])'
        /\ phase = "blossom" => belongs'[e[2]] = belongs'[e[1]]
  BY <1>2, <1>3
<1>5. QED  BY <1>4 DEF SharesSound, EvenNode

\* A step of the blossom phase keeps everything a search relies on.
LEMMA ShrinkSound ==
  ASSUME Basic, Basic', Sound, LegalForest, phase = "blossom", NEW t \in Thread, Shrinks(t)
  PROVE  Sound' /\ KeepsEntries
<1>1. /\ TypeOK /\ TypeOK' /\ ThreadsPlaced /\ NodeOwners /\ GraphKept /\ TreesSound /\ Collected
      /\ Pending /\ SharesSound /\ FlagsFresh /\ LapsInTrees
  BY DEF Basic, Sound
<1>2. /\ adj' = adj /\ M' = M /\ belongs' = belongs /\ phase' = "blossom"
      /\ nodes_vector' = nodes_vector /\ vector_1' = vector_1 /\ select_tree' = select_tree
      /\ select_match' = select_match /\ path_collection' = path_collection
  BY DEF Shrinks
<1>3. /\ \/ is_even' = is_even /\ local' = local /\ vector_2' = vector_2
         \/ /\ pc[t] = "even" /\ is_even' = [is_even EXCEPT ![Current(t)] = 1]
            /\ local' = [local EXCEPT ![t] = Append(@, Current(t))] /\ vector_2' = vector_2
         \/ /\ is_even' = is_even /\ local' = [local EXCEPT ![t] = <<>>]
            /\ vector_2' = vector_2 \o local[t]
      /\ \/ path_table' = path_table
         \/ /\ pc[t] \in Filling
            /\ \A y \in Node : y # Current(t) => path_table'[y] = path_table[y]
      /\ \A u \in Thread : u # t => lap'[u] = lap[u]
      /\ \A l \in Range(lap'[t]) : l \in Range(lap[t]) \/ (l[1] \in Node /\ belongs[l[1]] # NoNode)
      /\ pc'[t] \notin {"visit", "claim"} \cup Filling => lap'[t] = <<>>
  BY ShrinkEffect
<1>4. PICK p \in BlossomPoints, s \in Seq(Node \X Node) :
        Moves(t, p, s) /\ Range(s) \subseteq Range(todo[t])
  BY <1>1, ShrinkMoves
<1>5. /\ pc'[t] = p /\ todo'[t] = s
      /\ \A u \in Thread : u # t => pc'[u] = pc[u] /\ todo'[u] = todo[u]
  BY <1>1, <1>4, MovesType
<1> DEFINE c == Current(t)
<1>6. c = Current(t)
  OBVIOUS
<1> HIDE DEF c
<1>7. pc[t] \in Filling =>
        /\ c \in Node /\ is_even[c] = 0 /\ belongs[c] # NoNode
  <2>1. pc[t] \in Filling => lap[t] # <<>>
    BY <1>1 DEF ThreadsPlaced
  <2>2. pc[t] \in Filling => c \in Node /\ Head(lap[t]) \in Range(lap[t])
    BY <2>1, <1>1, <1>6, LapFacts
  <2>3. c = Head(lap[t])[1]
    BY <1>6 DEF Current
  <2>4. QED  BY <2>2, <2>3, <1>1, <1>6 DEF NodeOwners, LapsInTrees
<1>8. is_even \in [Node -> {0, 1}] /\ path_table \in [Node -> Seq(Node)]
  BY <1>1 DEF TypeOK, ForestTypeOK
<1>9. \A y \in Node : y # c \/ pc[t] \notin Filling =>
        is_even'[y] = is_even[y] /\ path_table'[y] = path_table[y]
  BY <1>3, <1>6, <1>8 DEF Filling
<1>10. KeepsEntries
  BY <1>2, <1>7, <1>9 DEF KeepsEntries
<1>11. TreesSound'
  <2>1. Growing = {} /\ Growing' = {}
    BY <1>2 DEF Growing
  <2>2. /\ \A y \in Node : M[y] = NoNode => IsRoot(y)
        /\ \A y \in Node : belongs[y] # NoNode => M[belongs[y]] = NoNode
        /\ \A y \in Node : belongs[y] = NoNode => Unreached(y) /\ select_match[Slot(y)] = 0
        /\ \A y \in Matched(M) : belongs[M[y]] = belongs[y]
    BY <2>1, <1>1 DEF TreesSound, SearchPhases
  <2>3. \A y \in Node : M[y] = NoNode => IsRoot(y)'
    BY <2>2, <1>2, <1>7, <1>9 DEF IsRoot
  <2>4. \A y \in Node : belongs[y] = NoNode => Unreached(y)'
    BY <2>2, <1>2, <1>7, <1>9 DEF Unreached
  <2>5. \A y : Slot(y)' = Slot(y)
    BY <1>2 DEF Slot
  <2>6. QED  BY <2>1, <2>2, <2>3, <2>4, <2>5, <1>2 DEF TreesSound
<1>12. Collected' /\ Pending'
  <2>1. CASE pc[t] = "even" /\ is_even' = [is_even EXCEPT ![c] = 1]
             /\ local' = [local EXCEPT ![t] = Append(@, c)] /\ vector_2' = vector_2
    <3>1. c \in Node /\ is_even[c] = 0 /\ belongs[c] # NoNode
      BY <2>1, <1>7 DEF Filling
    <3>2. PICK y \in Node : y = c
      BY <3>1
    <3>3. ~EvenNode(y) /\ EvenNode(y)'
      BY <3>1, <3>2, <2>1, <1>2, <1>8 DEF EvenNode
    <3>4. local' = [local EXCEPT ![t] = Append(@, y)]
      BY <3>2, <2>1
    <3>5. QED  BY <3>3, <3>4, <2>1, <1>1, <1>2, <1>10, CollectedKept
  <2>2. CASE \/ local' = local /\ vector_2' = vector_2
             \/ local' = [local EXCEPT ![t] = <<>>] /\ vector_2' = vector_2 \o local[t]
    BY <2>2, <1>1, <1>2, <1>10, CollectedKept
  <2>3. QED  BY <2>1, <2>2, <1>3, <1>6
<1>13. SharesSound'
  <2>1. \A u \in Thread : Range(todo'[u]) \subseteq Range(todo[u])
    BY <1>4, <1>5
  <2>2. QED  BY <2>1, <1>1, <1>2, <1>10, SharesKept
<1>14. LapsInTrees'
  <2>1. \A u \in Thread : \A l \in Range(lap'[u]) : belongs'[l[1]] # NoNode
    BY <1>1, <1>2, <1>3 DEF LapsInTrees
  <2>2. \A u \in Thread : pc'[u] \notin {"visit", "claim"} \cup Filling => lap'[u] = <<>>
    BY <1>1, <1>3, <1>5 DEF LapsInTrees
  <2>3. QED  BY <2>1, <2>2, <1>2 DEF LapsInTrees
<1>15. /\ GraphKept' /\ FlagsFresh' /\ PathsSound' /\ LocksSound' /\ FlipSound' /\ RepairSound'
       /\ GrowthSound'
  BY <1>1, <1>2 DEF GraphKept, FlagsFresh, PathsSound, LocksSound, FlipSound, RepairSound, GrowthSound
<1>16. phase' \notin {"augment", "expand"}
  BY <1>2
<1>17. QED  BY <1>10, <1>11, <1>12, <1>13, <1>14, <1>15, <1>16 DEF Sound

-----------------------------------------------------------------------------
\* A thread that takes edges, or stops taking some, holds and owns nothing.
LEMMA IdleSound ==
  ASSUME Basic, Sound, phase \in SearchPhases, NEW t \in Thread,
         UNCHANGED <<forestVars, frontierVars, flagVars, local, lap, path_collection, phase>>,
         pc[t] = "fetch", pc'[t] \in {"fetch", "scan", "merge"},
         \A u \in Thread : u # t => pc'[u] = pc[u] /\ todo'[u] = todo[u],
         \A e \in Range(todo'[t]) :
           /\ EvenNode(e[1]) /\ IsAdjacent(adj, e[1], e[2])
           /\ phase = "augment" => IsBridge(e[1], e[2])
           /\ phase = "blossom" => belongs[e[2]] = belongs[e[1]]
  PROVE  Sound'
<1>1. /\ adj' = adj /\ M' = M /\ is_even' = is_even /\ belongs' = belongs
      /\ path_table' = path_table /\ nodes_vector' = nodes_vector /\ vector_1' = vector_1
      /\ vector_2' = vector_2 /\ select_tree' = select_tree /\ select_match' = select_match
      /\ select_blossom' = select_blossom /\ local' = local /\ lap' = lap
      /\ path_collection' = path_collection /\ phase' = phase
  BY DEF forestVars, frontierVars, flagVars
<1>2. pc[t] \notin Owning \cup Holding \cup {"claim", "visit", "done"} \cup Filling
      /\ pc'[t] \notin Owning \cup Holding \cup {"claim", "visit", "done"} \cup Filling
  BY DEF Owning, Holding, Filling
<1>3. \A u \in Thread : u # t => Edge(u)' = Edge(u) /\ Mate(u)' = Mate(u) /\ TreeV(u)' = TreeV(u)
  BY <1>1 DEF Edge, Mate, TreeV
<1>4. Growing' = Growing
  <2> DEFINE Owns(y, u) == phase = "expand" /\ pc[u] \in Owning /\ y \in {Edge(u)[2], Mate(u)}
  <2>1. /\ \A y : y \in Growing <=> \E u \in Thread : Owns(y, u)
        /\ \A y : y \in Growing' <=> \E u \in Thread : Owns(y, u)'
    BY DEF Growing
  <2>2. \A u \in Thread : u # t => \A y : Owns(y, u)' <=> Owns(y, u)
    BY <1>1, <1>3
  <2>3. \A y : ~Owns(y, t) /\ ~Owns(y, t)'
    BY <1>2
  <2> HIDE DEF Owns
  <2>4. \A y : y \in Growing' <=> y \in Growing
    BY <2>1, <2>2, <2>3
  <2>5. QED  BY <2>4
<1>5. TreesSound' /\ GraphKept' /\ FlagsFresh' /\ Collected' /\ Pending'
  <2>1. TreesSound'
    BY <1>1, <1>4 DEF Sound, TreesSound, IsRoot, Unreached, Slot
  <2>2. GraphKept' /\ FlagsFresh'
    BY <1>1 DEF Sound, GraphKept, FlagsFresh
  <2>3. Collected' /\ Pending'
    BY <1>1 DEF Sound, Collected, Pending, EvenNode
  <2>4. QED  BY <2>1, <2>2, <2>3
<1>6. (phase \in {"augment", "expand"} => LegalForest)'
  BY <1>1 DEF Sound, LegalForest, EvenWalkLegal
<1>7. SharesSound'
  <2>1. SharesSound
    BY DEF Sound
  <2>2. \A u \in Thread : \A e \in Range(todo'[u]) :
          /\ EvenNode(e[1]) /\ IsAdjacent(adj, e[1], e[2])
          /\ phase = "augment" => IsBridge(e[1], e[2])
          /\ phase = "blossom" => belongs[e[2]] = belongs[e[1]]
    BY <2>1 DEF SharesSound
  <2>3. QED  BY <2>2, <1>1 DEF SharesSound, EvenNode, IsBridge
<1>8. PathsSound'
  <2>1. \A p : (FlipsWell(p)' <=> FlipsWell(p)) /\ (ClosedPath(p)' <=> ClosedPath(p))
    BY <1>1 DEF FlipsWell, ClosedPath
  <2>2. \A x : OnCollected(x)' <=> OnCollected(x)
    BY <1>1 DEF OnCollected
  <2>3. SUFFICES ASSUME phase = "augment"
                 PROVE  PathsSound'
    BY <1>1 DEF PathsSound
  <2>4. PathsSound
    BY DEF Sound
  <2>5. CollectionSound'
    BY <2>1, <2>3, <2>4, <1>1 DEF PathsSound, CollectionSound
  <2>6. \A i \in DOMAIN path_collection' : ClosedPath(path_collection[i])'
    BY <2>1, <2>3, <2>4, <1>1 DEF PathsSound
  <2>7. \A u \in Thread : FlipsWell(local[u])' /\ ClosedPath(local[u])'
    BY <2>1, <2>3, <2>4, <1>1 DEF PathsSound
  <2>8. \A u \in Thread : pc'[u] = "done" => local'[u] = <<>>
    BY <2>3, <2>4, <1>1, <1>2 DEF PathsSound
  <2>9. \A u \in Thread : \A x \in Range(local'[u]) : ~OnCollected(x)'
    BY <2>2, <2>3, <2>4, <1>1 DEF PathsSound
  <2>10. \A u, z \in Thread : u # z => Range(local'[u]) \cap Range(local'[z]) = {}
    BY <2>3, <2>4, <1>1 DEF PathsSound
  <2>11. QED  BY <2>5, <2>6, <2>7, <2>8, <2>9, <2>10 DEF PathsSound
<1>9. LocksSound'
  <2>1. LocksSound
    BY DEF Sound
  <2>2. \A x : (OnCollected(x)' <=> OnCollected(x)) /\ (OnLocal(x)' <=> OnLocal(x))
    BY <1>1 DEF OnCollected, OnLocal
  <2>3. SUFFICES ASSUME phase = "augment"
                 PROVE  LocksSound'
    BY <1>1 DEF LocksSound
  <2>4. \A x \in Node : OnCollected(x)' \/ OnLocal(x)' => select_tree'[belongs'[x]] = 1
    BY <2>1, <2>2, <2>3, <1>1 DEF LocksSound
  <2>5. ASSUME NEW u \in Thread, pc'[u] \in Holding
        PROVE  select_tree'[TreeV(u)'] = 1 /\ ~OnCollected(TreeV(u))' /\ ~OnLocal(TreeV(u))'
    <3>1. u # t /\ pc[u] \in Holding
      BY <2>5, <1>2
    <3>2. PICK y : y = TreeV(u)
      OBVIOUS
    <3>3. select_tree[y] = 1 /\ ~OnCollected(y) /\ ~OnLocal(y)
      BY <3>1, <3>2, <2>1, <2>3 DEF LocksSound
    <3>4. y = TreeV(u)'
      BY <3>1, <3>2, <1>3
    <3>5. ~OnCollected(y)' /\ ~OnLocal(y)'
      BY <3>3, <2>2
    <3>6. ~OnCollected(TreeV(u))' /\ ~OnLocal(TreeV(u))'
      BY <3>4, <3>5 DEF OnCollected, OnLocal
    <3>7. QED  BY <3>3, <3>4, <3>6, <1>1
  <2>6. \A u, z \in Thread : u # z /\ pc'[u] \in Holding /\ pc'[z] \in Holding =>
          TreeV(u)' # TreeV(z)'
    BY <2>1, <2>3, <1>2, <1>3 DEF LocksSound
  <2>7. ASSUME NEW r \in Node, select_tree'[r] = 1
        PROVE  /\ belongs'[r] = r
               /\ \/ OnCollected(r)' \/ OnLocal(r)'
                  \/ \E u \in Thread : pc'[u] \in Holding /\ TreeV(u)' = r
    <3>1. /\ belongs[r] = r
          /\ \/ OnCollected(r) \/ OnLocal(r)
             \/ \E u \in Thread : pc[u] \in Holding /\ TreeV(u) = r
      BY <2>1, <2>3, <2>7, <1>1 DEF LocksSound
    <3>2. \A u \in Thread : pc[u] \in Holding => pc'[u] \in Holding /\ TreeV(u)' = TreeV(u)
      BY <1>2, <1>3
    <3>3. QED  BY <3>1, <3>2, <2>2, <1>1
  <2>8. QED  BY <2>4, <2>5, <2>6, <2>7 DEF LocksSound
<1>10. GrowthSound'
  <2>1. GrowthSound
    BY DEF Sound
  <2>2. \A u \in Thread : u # t => pc'[u] = pc[u] /\ Edge(u)' = Edge(u) /\ Mate(u)' = Mate(u)
    BY <1>3
  <2>3. QED  BY <2>1, <2>2, <1>1, <1>2 DEF GrowthSound, Unreached, Slot, Owning
<1>11. LapsInTrees'
  BY <1>1, <1>2 DEF Sound, LapsInTrees
<1>12. FlipSound' /\ RepairSound'
  BY <1>1 DEF FlipSound, RepairSound, SearchPhases
<1>13. QED
  BY <1>5, <1>6, <1>7, <1>8, <1>9, <1>10, <1>11, <1>12 DEF Sound

\* Taking a share keeps everything a search relies on.
LEMMA ShareSound ==
  ASSUME Basic, Sound, phase \in SearchPhases, NEW t \in Thread, NEW live, TakesShare(t, live),
         phase = "augment" => live = Bridges, phase = "blossom" => live = Inward
  PROVE  Sound'
<1>1. TypeOK /\ Collected
  BY DEF Basic, Sound
<1>2. PICK s \in Seq(Node \X Node) : IsShare(s, nodes_vector, live) /\ GoOn(t, s)
  BY DEF TakesShare
<1>3. /\ pc[t] = "fetch" /\ pc'[t] \in {"fetch", "scan"} /\ todo'[t] = s
      /\ \A u \in Thread : u # t => pc'[u] = pc[u] /\ todo'[u] = todo[u]
  BY <1>1, <1>2 DEF TakesShare, GoOn, TypeOK
<1>4. \A x \in Range(nodes_vector) : EvenNode(x)
  BY <1>1 DEF Collected
<1>5. ASSUME NEW e \in Range(s)
      PROVE  /\ EvenNode(e[1]) /\ IsAdjacent(adj, e[1], e[2])
             /\ phase = "augment" => IsBridge(e[1], e[2])
             /\ phase = "blossom" => belongs[e[2]] = belongs[e[1]]
  <2>1. e \in live /\ e[1] \in Range(nodes_vector) /\ IsAdjacent(adj, e[1], e[2])
    BY <1>2 DEF IsShare
  <2>2. phase = "augment" => IsBridge(e[1], e[2])
    BY <2>1 DEF Bridges
  <2>3. phase = "blossom" => belongs[e[2]] = belongs[e[1]]
    BY <2>1 DEF Inward, SameTree
  <2>4. QED  BY <2>1, <2>2, <2>3, <1>4
<1>6. UNCHANGED <<forestVars, frontierVars, flagVars, local, lap, path_collection, phase>>
  BY DEF TakesShare
<1>7. QED  BY <1>3, <1>5, <1>6, IdleSound

\* Leaving the loop keeps everything a search relies on.
LEMMA LeaveSound ==
  ASSUME Basic, Sound, phase \in SearchPhases, NEW t \in Thread, Leaves(t)
  PROVE  Sound'
<1>1. TypeOK /\ SharesSound
  BY DEF Basic, Sound
<1>2. /\ pc[t] = "fetch" /\ pc'[t] = "merge" /\ todo' = todo
      /\ \A u \in Thread : u # t => pc'[u] = pc[u] /\ todo'[u] = todo[u]
  BY <1>1 DEF Leaves, Step, TypeOK
<1>3. UNCHANGED <<forestVars, frontierVars, flagVars, local, lap, path_collection, phase>>
  BY DEF Leaves
<1>4. \A e \in Range(todo'[t]) :
        /\ EvenNode(e[1]) /\ IsAdjacent(adj, e[1], e[2])
        /\ phase = "augment" => IsBridge(e[1], e[2])
        /\ phase = "blossom" => belongs[e[2]] = belongs[e[1]]
  BY <1>1, <1>2 DEF SharesSound
<1>5. QED  BY <1>2, <1>3, <1>4, IdleSound

-----------------------------------------------------------------------------
\* The trees between two phases.
TreesWhole ==
  /\ \A x \in Node : M[x] = NoNode => IsRoot(x)
  /\ \A x \in Node : belongs[x] # NoNode => M[belongs[x]] = NoNode
  /\ \A x \in Node : belongs[x] = NoNode => Unreached(x) /\ select_match[Slot(x)] = 0
  /\ \A x \in Matched(M) : belongs[M[x]] = belongs[x]

\* A phase starts with whole trees, fresh flags, empty vectors and the shares.
LEMMA EnterSound ==
  ASSUME phase' \in SearchPhases, NEW work \in [Thread -> Seq(Node \X Node)], Spawn(work),
         \A t \in Thread : lap'[t] = <<>>, path_collection' = <<>>, select_tree' = ZeroFlags,
         GraphKept', TreesWhole', Collected', (phase \in {"augment", "expand"} => LegalForest)',
         \A t \in Thread : \A e \in Range(work[t]) :
           /\ EvenNode(e[1])' /\ IsAdjacent(adj, e[1], e[2])'
           /\ phase' = "augment" => IsBridge(e[1], e[2])'
           /\ phase' = "blossom" => belongs'[e[2]] = belongs'[e[1]]
  PROVE  Sound'
<1>1. /\ todo' = work /\ local' = NoWork
      /\ \A t \in Thread : pc'[t] \in {"fetch", "scan"}
  BY DEF Spawn
<1>2. \A t \in Thread : local'[t] = <<>>
  BY <1>1 DEF NoWork
<1>3. /\ Range(<<>>) = {} /\ IsInjective(<<>>) /\ DOMAIN <<>> = {}
  BY DEF Range, IsInjective
<1>4. Growing' = {}
  BY <1>1 DEF Growing, Owning
<1>5. TreesSound'
  BY <1>4 DEF TreesSound, TreesWhole
<1>6. FlagsFresh'
  BY DEF FlagsFresh, SearchPhases
<1>7. Pending'
  BY <1>2, <1>3 DEF Pending
<1>8. SharesSound'
  BY <1>1 DEF SharesSound, EvenNode, IsBridge
<1>9. FlipsWell(<<>>)' /\ ClosedPath(<<>>)'
  BY <1>3 DEF FlipsWell, ClosedPath
<1>10. \A x : ~OnCollected(x)' /\ ~OnLocal(x)'
  BY <1>2, <1>3 DEF OnCollected, OnLocal
<1>11. PathsSound'
  <2>1. CollectionSound' /\ DOMAIN path_collection' = {}
    BY <1>3 DEF CollectionSound
  <2>2. \A t \in Thread : FlipsWell(local[t])' /\ ClosedPath(local[t])'
    BY <1>2, <1>9
  <2>3. QED  BY <2>1, <2>2, <1>2, <1>3 DEF PathsSound
<1>12. LocksSound'
  <2>1. \A t \in Thread : pc'[t] \notin Holding
    BY <1>1 DEF Holding
  <2>2. \A r \in Node : select_tree'[r] # 1
    BY DEF ZeroFlags
  <2>3. QED  BY <2>1, <2>2, <1>10 DEF LocksSound
<1>13. GrowthSound'
  <2>1. \A t \in Thread : pc'[t] \notin {"claim", "grow", "own", "mate"}
    BY <1>1
  <2>2. QED  BY <2>1 DEF GrowthSound
<1>14. LapsInTrees'
  BY <1>3 DEF LapsInTrees
<1>15. FlipSound' /\ RepairSound'
  BY DEF FlipSound, RepairSound, SearchPhases
<1>16. QED
  BY <1>5, <1>6, <1>7, <1>8, <1>11, <1>12, <1>13, <1>14, <1>15 DEF Sound

\* When the threads of a phase are joined its trees are whole, its locks given
\* back, and nothing is left in the threads.
LEMMA JoinedFacts ==
  ASSUME Basic, Sound, phase \in SearchPhases, Joined
  PROVE  /\ TreesWhole /\ GraphKept /\ Collected
         /\ \A t \in Thread : lap[t] = <<>>
         /\ path_collection = <<>> => select_tree = ZeroFlags
<1>1. TypeOK /\ TreesSound /\ GraphKept /\ Collected /\ LapsInTrees /\ FlagsFresh
      /\ PathsSound /\ LocksSound
  BY DEF Basic, Sound
<1>2. \A t \in Thread : pc[t] = "done"
  BY DEF Joined
<1>3. Growing = {}
  BY <1>2 DEF Growing, Owning
<1>4. TreesWhole
  BY <1>1, <1>3 DEF TreesSound, TreesWhole
<1>5. \A t \in Thread : lap[t] = <<>>
  BY <1>1, <1>2 DEF LapsInTrees, Filling
<1>6. ASSUME path_collection = <<>>
      PROVE  select_tree = ZeroFlags
  <2>1. CASE phase \in {"expand", "blossom"}
    BY <2>1, <1>1 DEF FlagsFresh
  <2>2. CASE phase = "augment"
    <3>1. \A t \in Thread : local[t] = <<>>
      BY <2>2, <1>1, <1>2 DEF PathsSound
    <3>2. Range(<<>>) = {} /\ DOMAIN <<>> = {}
      BY DEF Range
    <3>3. \A x : ~OnCollected(x) /\ ~OnLocal(x)
      BY <3>1, <3>2, <1>6 DEF OnCollected, OnLocal
    <3>4. \A r \in Node : select_tree[r] # 1
      BY <3>3, <2>2, <1>1, <1>2 DEF LocksSound, Holding
    <3>5. select_tree \in [Node -> {0, 1}]
      BY <1>1 DEF TypeOK
    <3>6. \A r \in Node : select_tree[r] = 0
      BY <3>4, <3>5
    <3>7. QED  BY <3>5, <3>6 DEF ZeroFlags
  <2>3. QED  BY <2>1, <2>2 DEF SearchPhases
<1>7. QED  BY <1>1, <1>4, <1>5, <1>6

\* The two vectors of collected nodes make a frontier.
LEMMA FrontierCollected ==
  ASSUME TypeOK, Collected, phase \in SearchPhases
  PROVE  /\ Frontier \in Seq(Node) /\ IsInjective(Frontier)
         /\ Range(Frontier) = Range(vector_1) \cup Range(vector_2)
<1>1. /\ vector_1 \in Seq(Node) /\ vector_2 \in Seq(Node)
      /\ IsInjective(vector_1) /\ IsInjective(vector_2)
      /\ Range(vector_1) \cap Range(vector_2) = {}
  BY DEF TypeOK, Collected
<1>2. QED  BY <1>1, ConcatRange, ConcatInjective DEF Frontier

\* From one phase of a search to the next: the forest stays, and a frontier of
\* collected nodes is handed over.
LEMMA NextPhaseSound ==
  ASSUME Basic, Sound, LegalForest, phase \in SearchPhases, Joined, phase' \in SearchPhases,
         NEW work \in [Thread -> Seq(Node \X Node)], Spawn(work), path_collection = <<>>,
         UNCHANGED <<forestVars, flagVars, lap, path_collection>>,
         IsInjective(nodes_vector'),
         Range(nodes_vector') \subseteq Range(nodes_vector) \cup Range(vector_1) \cup Range(vector_2),
         vector_1' = vector_1 \/ vector_1' = <<>>, vector_2' = vector_2 \/ vector_2' = <<>>,
         \A t \in Thread : \A e \in Range(work[t]) :
           /\ EvenNode(e[1]) /\ IsAdjacent(adj, e[1], e[2])
           /\ phase' = "augment" => IsBridge(e[1], e[2])
           /\ phase' = "blossom" => belongs[e[2]] = belongs[e[1]]
  PROVE  Sound'
<1>1. /\ adj' = adj /\ M' = M /\ is_even' = is_even /\ belongs' = belongs
      /\ path_table' = path_table /\ select_tree' = select_tree /\ select_match' = select_match
      /\ lap' = lap /\ path_collection' = <<>>
  BY DEF forestVars, flagVars
<1>2. /\ TreesWhole /\ GraphKept /\ Collected /\ select_tree = ZeroFlags
      /\ \A t \in Thread : lap[t] = <<>>
  BY JoinedFacts
<1>3. TreesWhole'
  BY <1>1, <1>2 DEF TreesWhole, IsRoot, Unreached, Slot
<1>4. GraphKept'
  BY <1>1, <1>2 DEF GraphKept, SearchPhases
<1>5. Collected'
  <2>1. Range(<<>>) = {} /\ IsInjective(<<>>)
    BY DEF Range, IsInjective
  <2>2. /\ \A x \in Range(nodes_vector) \cup Range(vector_1) \cup Range(vector_2) : EvenNode(x)
        /\ IsInjective(vector_1) /\ IsInjective(vector_2)
        /\ Range(vector_1) \cap Range(vector_2) = {}
    BY <1>2 DEF Collected
  <2>3. \A x : EvenNode(x)' <=> EvenNode(x)
    BY <1>1 DEF EvenNode
  <2>4. /\ IsInjective(vector_1') /\ IsInjective(vector_2')
        /\ Range(vector_1') \subseteq Range(vector_1) /\ Range(vector_2') \subseteq Range(vector_2)
    BY <2>1, <2>2
  <2>5. /\ \A x \in Range(nodes_vector') \cup Range(vector_1') \cup Range(vector_2') : EvenNode(x)'
        /\ Range(vector_1') \cap Range(vector_2') = {}
    BY <2>2, <2>3, <2>4
  <2>6. QED  BY <2>4, <2>5 DEF Collected, IsInjective, Range
<1>6. LegalForest'
  BY <1>1 DEF LegalForest, EvenWalkLegal
<1>7. \A e : /\ EvenNode(e[1])' <=> EvenNode(e[1])
             /\ IsBridge(e[1], e[2])' <=> IsBridge(e[1], e[2])
             /\ IsAdjacent(adj, e[1], e[2])' <=> IsAdjacent(adj, e[1], e[2])
  BY <1>1 DEF EvenNode, IsBridge
<1>8. \A t \in Thread : \A e \in Range(work[t]) :
        /\ EvenNode(e[1])' /\ IsAdjacent(adj, e[1], e[2])'
        /\ phase' = "augment" => IsBridge(e[1], e[2])'
        /\ phase' = "blossom" => belongs'[e[2]] = belongs'[e[1]]
  BY <1>1, <1>7
<1>9. select_tree' = ZeroFlags /\ \A t \in Thread : lap'[t] = <<>>
  BY <1>1, <1>2
<1>10. QED  BY <1>1, <1>3, <1>4, <1>5, <1>6, <1>8, <1>9, EnterSound

-----------------------------------------------------------------------------
\* The trees with exposed roots in a forest that is being repaired.
RepairWhole ==
  /\ \A x \in Node : M[x] = NoNode => IsRoot(x) \/ belongs[x] = NoNode
  /\ \A x \in Matched(M) : InValidTree(x) => belongs[M[x]] = belongs[x]
  /\ \A x \in Node : is_even[x] = 1 /\ InValidTree(x) => EvenWalkLegal(x)

\* Repairing the entries of some nodes keeps them whole and legal.
LEMMA RepairKeeps ==
  ASSUME TypeOK, MatesMutual, RepairWhole, UNCHANGED <<adj, M>>,
         NEW mine, mine \subseteq Node, Repair(mine)
  PROVE  /\ RepairWhole'
         /\ \A x \in mine : M[x] = NoNode => IsRoot(x)'
         /\ \A x \in mine : InValidTree(x)' \/ Unreached(x)'
         /\ \A x \in Node : x \notin mine =>
              is_even'[x] = is_even[x] /\ belongs'[x] = belongs[x] /\ path_table'[x] = path_table[x]
         /\ \A x \in Node : M[x] # NoNode /\ InValidTree(x) =>
              is_even'[x] = is_even[x] /\ belongs'[x] = belongs[x] /\ path_table'[x] = path_table[x]
<1>1. /\ is_even' \in [Node -> {0, 1}] /\ belongs' \in [Node -> Node \cup {NoNode}]
      /\ path_table' \in [Node -> Seq(Node)]
      /\ \A x \in Node : x \notin mine =>
           is_even'[x] = is_even[x] /\ belongs'[x] = belongs[x] /\ path_table'[x] = path_table[x]
      /\ \A x \in mine : M[x] = NoNode =>
           is_even'[x] = 1 /\ belongs'[x] = x /\ path_table'[x] = <<>>
      /\ \A x \in mine : M[x] # NoNode /\ InValidTree(x) =>
           is_even'[x] = is_even[x] /\ belongs'[x] = belongs[x] /\ path_table'[x] = path_table[x]
      /\ \A x \in mine : M[x] # NoNode /\ ~InValidTree(x) =>
           is_even'[x] = 0 /\ belongs'[x] = NoNode /\ path_table'[x] = <<>>
  BY RepairFacts
<1>2. adj' = adj /\ M' = M /\ ForestTypeOK
  BY DEF TypeOK
<1>3. /\ \A x \in Node : M[x] = NoNode => IsRoot(x) \/ belongs[x] = NoNode
      /\ \A x \in Node : M[x] # NoNode /\ InValidTree(x) => belongs[M[x]] = belongs[x]
      /\ \A x \in Node : is_even[x] = 1 /\ InValidTree(x) => EvenWalkLegal(x)
  BY DEF RepairWhole, Matched
<1>4. \A x \in Node : M[x] # NoNode => M[x] \in Node /\ M[M[x]] = x /\ x # NoNode
  BY <1>2 DEF MatesMutual, Matched, ForestTypeOK, Node, NoNode
<1>5. \A x \in Node : x # NoNode
  BY DEF Node, NoNode
<1>6. \A x \in Node : M[x] # NoNode /\ InValidTree(x) =>
        is_even'[x] = is_even[x] /\ belongs'[x] = belongs[x] /\ path_table'[x] = path_table[x]
  BY <1>1
<1>7. \A x \in Node : M[x] # NoNode => (InValidTree(x)' <=> InValidTree(x))
  <2>1. ASSUME NEW x \in Node, M[x] # NoNode
        PROVE  InValidTree(x)' <=> InValidTree(x)
    <3>1. CASE x \in mine /\ ~InValidTree(x)
      <4>1. belongs'[x] = NoNode
        BY <3>1, <2>1, <1>1
      <4>2. QED  BY <3>1, <4>1 DEF InValidTree
    <3>2. CASE x \notin mine \/ InValidTree(x)
      <4>1. belongs'[x] = belongs[x]
        BY <3>2, <2>1, <1>1
      <4>2. QED  BY <4>1, <1>2 DEF InValidTree
    <3>3. QED  BY <3>1, <3>2
  <2>2. QED  BY <2>1
<1>8. \A x \in mine : M[x] = NoNode => IsRoot(x)' /\ InValidTree(x)'
  <2>1. \A x \in mine : M[x] = NoNode => IsRoot(x)'
    BY <1>1 DEF IsRoot
  <2>2. \A x \in mine : M[x] = NoNode => InValidTree(x)'
    BY <1>1, <1>2, <1>5 DEF InValidTree
  <2>3. QED  BY <2>1, <2>2
<1>9. \A x \in mine : InValidTree(x)' \/ Unreached(x)'
  <2>1. \A x \in mine : M[x] # NoNode /\ ~InValidTree(x) => Unreached(x)'
    BY <1>1 DEF Unreached
  <2>2. QED  BY <2>1, <1>7, <1>8
<1>10. \A x \in Node : M[x] = NoNode /\ IsRoot(x) =>
         is_even'[x] = is_even[x] /\ belongs'[x] = belongs[x] /\ path_table'[x] = path_table[x]
  BY <1>1 DEF IsRoot
<1>11. \A x \in Node : M'[x] = NoNode => IsRoot(x)' \/ belongs'[x] = NoNode
  <2>1. ASSUME NEW x \in Node, M[x] = NoNode, x \notin mine
        PROVE  IsRoot(x)' \/ belongs'[x] = NoNode
    BY <2>1, <1>1, <1>3 DEF IsRoot
  <2>2. QED  BY <2>1, <1>2, <1>8
<1>12. \A x \in Matched(M)' : InValidTree(x)' => belongs'[M'[x]] = belongs'[x]
  <2>1. ASSUME NEW x \in Node, M[x] # NoNode, InValidTree(x)'
        PROVE  belongs'[M[x]] = belongs'[x]
    <3>1. InValidTree(x) /\ belongs'[x] = belongs[x] /\ belongs[M[x]] = belongs[x]
      BY <2>1, <1>3, <1>6, <1>7
    <3>2. M[x] \in Node /\ M[M[x]] # NoNode /\ InValidTree(M[x])
      BY <3>1, <2>1, <1>4 DEF InValidTree
    <3>3. belongs'[M[x]] = belongs[M[x]]
      BY <3>2, <1>6
    <3>4. QED  BY <3>1, <3>3
  <2>2. QED  BY <2>1, <1>2 DEF Matched
<1>13. \A x \in Node : is_even'[x] = 1 /\ InValidTree(x)' => EvenWalkLegal(x)'
  <2>1. ASSUME NEW x \in Node, IsRoot(x)', M[x] = NoNode
        PROVE  EvenWalkLegal(x)'
    <3>1. Walk(path_table', x) = <<x>>
      BY <2>1, <1>1, WalkStays DEF IsRoot
    <3>2. /\ <<x>> \in Seq(Node) /\ Len(<<x>>) = 1 /\ Last(<<x>>) = x
          /\ Range(<<x>>) = {x} /\ IsInjective(<<x>>)
      BY DEF Last, Range, IsInjective
    <3>3. IsEvenWalk(adj', M', <<x>>)
      BY <2>1, <3>2, <1>2 DEF IsEvenWalk
    <3>4. belongs'[x] = x
      BY <2>1 DEF IsRoot
    <3>5. QED  BY <3>1, <3>2, <3>3, <3>4 DEF EvenWalkLegal
  <2>2. ASSUME NEW x \in Node, is_even[x] = 1, InValidTree(x)
        PROVE  EvenWalkLegal(x)'
    <3>1. EvenWalkLegal(x)
      BY <2>2, <1>3
    <3> DEFINE p == Walk(path_table, x)
    <3>2. p = Walk(path_table, x)
      OBVIOUS
    <3> HIDE DEF p
    <3>3. \A y \in Range(p) : y \in Node /\ belongs[y] = belongs[x]
      BY <3>1, <3>2, <1>2, LegalFacts
    <3>4. \A y \in Range(p) : InValidTree(y)
      BY <3>3, <2>2 DEF InValidTree
    <3>5. \A y \in Range(p) : path_table'[y] = path_table[y] /\ belongs'[y] = belongs[y]
      <4>1. ASSUME NEW y \in Range(p)
            PROVE  path_table'[y] = path_table[y] /\ belongs'[y] = belongs[y]
        <5>1. y \in Node /\ InValidTree(y)
          BY <3>3, <3>4
        <5>2. CASE M[y] # NoNode
          BY <5>1, <5>2, <1>6
        <5>3. CASE M[y] = NoNode
          BY <5>1, <5>3, <1>3, <1>10 DEF InValidTree
        <5>4. QED  BY <5>2, <5>3
      <4>2. QED  BY <4>1
    <3>6. \A y \in Range(Walk(path_table, x)) : path_table'[y] = path_table[y] /\ belongs'[y] = belongs[y]
      BY <3>2, <3>5
    <3>7. QED  BY <3>1, <3>6, <1>1, <1>2, LegalFrame
  <2>3. ASSUME NEW x \in Node, is_even'[x] = 1, InValidTree(x)'
        PROVE  EvenWalkLegal(x)'
    <3>1. CASE M[x] # NoNode
      BY <3>1, <2>2, <2>3, <1>6, <1>7
    <3>2. CASE M[x] = NoNode
      <4>1. belongs'[x] # NoNode
        BY <2>3 DEF InValidTree
      <4>2. QED  BY <4>1, <3>2, <2>1, <1>2, <1>11
    <3>3. QED  BY <3>1, <3>2
  <2>4. QED  BY <2>3
<1>14. RepairWhole'
  BY <1>11, <1>12, <1>13 DEF RepairWhole
<1>15. QED  BY <1>1, <1>6, <1>8, <1>9, <1>14

\* A thread that repairs its part of the forest.
LEMMA ReuseSound ==
  ASSUME Basic, Basic', Sound, phase = "reuse", NEW t \in Thread, Reuse(t)
  PROVE  Sound'
<1> DEFINE mine == {x \in Node : x % NumThreads = t}
<1>1. /\ adj' = adj /\ M' = M /\ nodes_vector' = nodes_vector /\ select_tree' = select_tree
      /\ select_match' = select_match /\ select_blossom' = select_blossom
      /\ todo' = todo /\ local' = local /\ lap' = lap
      /\ path_collection' = path_collection /\ phase' = "reuse"
      /\ Repair(mine) /\ pc' = [pc EXCEPT ![t] = "done"] /\ pc[t] = "stripe"
  BY DEF Reuse, flagVars, Step
<1>2. /\ TypeOK /\ MatesMutual /\ RepairSound /\ GraphKept /\ FlagsFresh /\ LapsInTrees
      /\ pc \in [Thread -> {"stripe", "fetch", "scan", "merge", "done", "second",
                        "release", "claim", "grow", "own", "mate", "visit",
                        "fill", "undo", "even", "flip", "crashed"}]
  BY DEF Basic, Sound, MatesKept, TypeOK
<1>3. mine \subseteq Node /\ \A x \in Node : x \in mine <=> x % NumThreads = t
  OBVIOUS
<1> HIDE DEF mine
<1>4. /\ \A x \in Node : Repaired(x) <=> pc[x % NumThreads] = "done"
      /\ \A x \in Node : Repaired(x)' <=> Repaired(x) \/ x \in mine
      /\ \A x \in mine : ~Repaired(x)
  <2>1. /\ \A x : Repaired(x) <=> pc[x % NumThreads] = "done"
        /\ \A x : Repaired(x)' <=> pc'[x % NumThreads] = "done"
    BY <1>1 DEF Repaired, SearchPhases
  <2>2. QED  BY <2>1, <1>1, <1>2, <1>3, ModThread
<1>5. RepairWhole
  BY <1>2 DEF RepairSound, RepairWhole
<1>6. /\ RepairWhole'
      /\ \A x \in mine : M[x] = NoNode => IsRoot(x)'
      /\ \A x \in mine : InValidTree(x)' \/ Unreached(x)'
      /\ \A x \in Node : x \notin mine =>
           is_even'[x] = is_even[x] /\ belongs'[x] = belongs[x] /\ path_table'[x] = path_table[x]
      /\ \A x \in Node : M[x] # NoNode /\ InValidTree(x) =>
           is_even'[x] = is_even[x] /\ belongs'[x] = belongs[x] /\ path_table'[x] = path_table[x]
  BY <1>1, <1>2, <1>3, <1>5, RepairKeeps
<1>7. \A x \in Node : x \notin mine =>
        /\ IsRoot(x)' <=> IsRoot(x)
        /\ InValidTree(x)' <=> InValidTree(x)
        /\ Unreached(x)' <=> Unreached(x)
  BY <1>1, <1>6 DEF IsRoot, InValidTree, Unreached
<1>8. /\ \A x : x \in Range(vector_1') <=>
              x \in Range(vector_1) \/ (x \in mine /\ M[x] = NoNode)
      /\ \A x : x \in Range(vector_2') <=>
              x \in Range(vector_2) \/ (x \in mine /\ M[x] # NoNode /\ InValidTree(x) /\ is_even[x] = 1)
      /\ IsInjective(vector_1) /\ Range(vector_1) \cap mine = {} => IsInjective(vector_1')
      /\ IsInjective(vector_2) /\ Range(vector_2) \cap mine = {} => IsInjective(vector_2')
  BY <1>1, <1>2, <1>3, RepairFrontier
<1>9. /\ \A x \in Range(vector_1) : x \in Node
      /\ \A x \in Range(vector_2) : x \in Node
  <2>1. vector_1 \in Seq(Node) /\ vector_2 \in Seq(Node)
    BY <1>2 DEF TypeOK
  <2>2. QED  BY <2>1, RangeOfSeq
<1>10. RepairSound'
  <2>1. \A x \in Node : M'[x] = NoNode => IsRoot(x)' \/ (belongs'[x] = NoNode /\ ~Repaired(x)')
    <3>1. \A x \in Node : M[x] = NoNode => IsRoot(x) \/ (belongs[x] = NoNode /\ ~Repaired(x))
      BY <1>2, <1>1 DEF RepairSound
    <3>2. QED  BY <3>1, <1>1, <1>4, <1>6, <1>7
  <2>2. /\ \A x \in Matched(M)' : InValidTree(x)' => belongs'[M'[x]] = belongs'[x]
        /\ \A x \in Node : is_even'[x] = 1 /\ InValidTree(x)' => EvenWalkLegal(x)'
    BY <1>6 DEF RepairWhole
  <2>3. \A x \in Node : Repaired(x)' => InValidTree(x)' \/ Unreached(x)'
    <3>1. \A x \in Node : Repaired(x) => InValidTree(x) \/ Unreached(x)
      BY <1>2 DEF RepairSound
    <3>2. QED  BY <3>1, <1>4, <1>6, <1>7
  <2>4. /\ IsInjective(vector_1) /\ IsInjective(vector_2)
        /\ \A x \in Range(vector_1) : M[x] = NoNode /\ Repaired(x)
        /\ \A x \in Range(vector_2) :
             M[x] # NoNode /\ Repaired(x) /\ InValidTree(x) /\ is_even[x] = 1
    BY <1>2 DEF RepairSound
  <2>5. IsInjective(vector_1') /\ IsInjective(vector_2')
    BY <2>4, <1>4, <1>8
  <2>6. \A x \in Range(vector_1') : M'[x] = NoNode /\ Repaired(x)'
    BY <2>4, <1>1, <1>3, <1>4, <1>8, <1>9
  <2>7. ASSUME NEW x \in Range(vector_2')
        PROVE  M'[x] # NoNode /\ Repaired(x)' /\ InValidTree(x)' /\ is_even'[x] = 1
    <3>1. x \in Node /\ M[x] # NoNode /\ InValidTree(x) /\ is_even[x] = 1 /\ (Repaired(x) \/ x \in mine)
      BY <2>4, <2>7, <1>3, <1>8, <1>9
    <3>2. is_even'[x] = 1 /\ belongs'[x] = belongs[x]
      BY <3>1, <1>6
    <3>3. InValidTree(x)'
      BY <3>1, <3>2, <1>1 DEF InValidTree
    <3>4. QED  BY <3>1, <3>2, <3>3, <1>1, <1>4
  <2> HIDE DEF Repaired
  <2>8. QED  BY <2>1, <2>2, <2>3, <2>5, <2>6, <2>7 DEF RepairSound, IsInjective, Range
<1>11. GraphKept' /\ FlagsFresh'
  BY <1>1, <1>2 DEF GraphKept, FlagsFresh
<1>12. LapsInTrees'
  <2>1. \A u \in Thread : lap'[u] = <<>>
    BY <1>1, <1>2 DEF LapsInTrees
  <2>2. Range(<<>>) = {}
    BY DEF Range
  <2>3. QED  BY <2>1, <2>2 DEF LapsInTrees
<1>13. /\ TreesSound' /\ (phase \in {"augment", "expand"} => LegalForest)' /\ Collected' /\ Pending'
       /\ SharesSound' /\ PathsSound' /\ LocksSound' /\ GrowthSound' /\ FlipSound'
  <2>1. phase' \notin SearchPhases /\ phase' \notin {"augment", "expand", "blossom", "flip"}
    BY <1>1 DEF SearchPhases
  <2>2. QED  BY <2>1 DEF TreesSound, Collected, Pending, SharesSound, PathsSound, LocksSound,
                         GrowthSound, FlipSound
<1>14. QED  BY <1>10, <1>11, <1>12, <1>13 DEF Sound

\* The repaired forest is a sound one, and the two vectors its frontier.
LEMMA RepairedFacts ==
  ASSUME Basic, Sound, phase = "reuse", Joined
  PROVE  /\ TreesWhole /\ LegalForest /\ GraphKept
         /\ \A x \in Range(vector_1) \cup Range(vector_2) : EvenNode(x)
         /\ IsInjective(vector_1) /\ IsInjective(vector_2)
         /\ Range(vector_1) \cap Range(vector_2) = {}
         /\ \A t \in Thread : lap[t] = <<>>
         /\ path_collection = <<>> /\ select_tree = ZeroFlags
<1>1. /\ TypeOK /\ MatesMutual /\ RepairSound /\ GraphKept /\ FlagsFresh /\ LapsInTrees
  BY DEF Basic, Sound, MatesKept
<1>2. \A x \in Node : Repaired(x)
  BY ModThread DEF Joined, Repaired
<1>3. /\ \A x \in Node : M[x] = NoNode => IsRoot(x)
      /\ \A x \in Node : M[x] # NoNode /\ InValidTree(x) => belongs[M[x]] = belongs[x]
      /\ \A x \in Node : is_even[x] = 1 /\ InValidTree(x) => EvenWalkLegal(x)
      /\ \A x \in Node : InValidTree(x) \/ Unreached(x)
      /\ IsInjective(vector_1) /\ IsInjective(vector_2)
      /\ \A x \in Range(vector_1) : M[x] = NoNode
      /\ \A x \in Range(vector_2) : M[x] # NoNode /\ InValidTree(x) /\ is_even[x] = 1
  BY <1>1, <1>2 DEF RepairSound, Matched
<1>4. \A x \in Node : belongs[x] # NoNode <=> InValidTree(x)
  BY <1>3 DEF InValidTree, Unreached
<1>5. \A x \in Node : M[x] # NoNode => M[x] \in Node /\ M[M[x]] = x /\ M[M[x]] # NoNode
  <2>1. \A x \in Node : x # NoNode
    BY DEF Node, NoNode
  <2>2. \A x \in Node : M[x] # NoNode => M[x] \in Node /\ M[M[x]] = x
    BY <1>1 DEF MatesMutual, Matched, TypeOK, ForestTypeOK
  <2>3. QED  BY <2>1, <2>2
<1>6. TreesWhole
  <2>1. \A x \in Node : belongs[x] # NoNode => M[belongs[x]] = NoNode
    BY <1>4 DEF InValidTree
  <2>2. select_match = ZeroFlags
    BY <1>1 DEF FlagsFresh
  <2>3. ASSUME NEW x \in Node, belongs[x] = NoNode
        PROVE  Unreached(x) /\ select_match[Slot(x)] = 0
    <3>1. Unreached(x)
      BY <2>3, <1>3, <1>4
    <3>2. M[x] # NoNode
      <4>1. x # NoNode
        BY DEF Node, NoNode
      <4>2. QED  BY <4>1, <2>3, <1>3 DEF IsRoot
    <3>3. Slot(x) \in Node
      BY <3>2, <1>5 DEF Slot
    <3>4. QED  BY <3>1, <3>3, <2>2 DEF ZeroFlags
  <2>4. ASSUME NEW x \in Node, M[x] # NoNode
        PROVE  belongs[M[x]] = belongs[x]
    <3>1. CASE InValidTree(x)
      BY <3>1, <2>4, <1>3
    <3>2. CASE InValidTree(M[x])
      BY <3>2, <2>4, <1>3, <1>5
    <3>3. CASE belongs[x] = NoNode /\ belongs[M[x]] = NoNode
      BY <3>3
    <3>4. QED  BY <3>1, <3>2, <3>3, <2>4, <1>4, <1>5
  <2>5. QED  BY <2>1, <2>3, <2>4, <1>3 DEF TreesWhole, Matched
<1>7. LegalForest
  BY <1>3, <1>4 DEF LegalForest
<1>8. \A x \in Range(vector_1) \cup Range(vector_2) : EvenNode(x)
  <2>1. vector_1 \in Seq(Node) /\ vector_2 \in Seq(Node)
    BY <1>1 DEF TypeOK
  <2>2. /\ \A x \in Range(vector_1) : x \in Node
        /\ \A x \in Range(vector_2) : x \in Node
    BY <2>1, RangeOfSeq
  <2>3. \A x \in Node : x # NoNode
    BY DEF Node, NoNode
  <2>4. \A x \in Range(vector_1) : EvenNode(x)
    BY <2>2, <2>3, <1>3 DEF IsRoot, EvenNode
  <2>5. \A x \in Range(vector_2) : EvenNode(x)
    BY <2>2, <1>3, <1>4 DEF EvenNode
  <2>6. QED  BY <2>4, <2>5
<1>9. Range(vector_1) \cap Range(vector_2) = {}
  BY <1>3
<1>10. \A t \in Thread : lap[t] = <<>>
  BY <1>1 DEF LapsInTrees
<1>11. path_collection = <<>> /\ select_tree = ZeroFlags
  BY <1>1 DEF FlagsFresh
<1>12. QED  BY <1>1, <1>3, <1>6, <1>7, <1>8, <1>9, <1>10, <1>11

\* From the repaired forest to the first phase of a search.
LEMMA FirstPhaseSound ==
  ASSUME Basic, Sound, phase = "reuse", Joined, phase' = "augment",
         NEW work \in [Thread -> Seq(Node \X Node)], Spawn(work), nodes_vector' = Frontier,
         UNCHANGED <<forestVars, vector_1, vector_2, flagVars, lap, path_collection>>,
         \A t \in Thread : \A e \in Range(work[t]) :
           EvenNode(e[1]) /\ IsAdjacent(adj, e[1], e[2]) /\ IsBridge(e[1], e[2])
  PROVE  Sound'
<1>1. /\ adj' = adj /\ M' = M /\ is_even' = is_even /\ belongs' = belongs
      /\ path_table' = path_table /\ select_tree' = select_tree /\ select_match' = select_match
      /\ vector_1' = vector_1 /\ vector_2' = vector_2
      /\ lap' = lap /\ path_collection' = path_collection
  BY DEF forestVars, flagVars
<1>2. /\ TreesWhole /\ LegalForest /\ GraphKept
      /\ \A x \in Range(vector_1) \cup Range(vector_2) : EvenNode(x)
      /\ IsInjective(vector_1) /\ IsInjective(vector_2)
      /\ Range(vector_1) \cap Range(vector_2) = {}
      /\ \A t \in Thread : lap[t] = <<>>
      /\ path_collection = <<>> /\ select_tree = ZeroFlags
  BY RepairedFacts
<1>3. Range(nodes_vector') = Range(vector_1) \cup Range(vector_2) /\ IsInjective(nodes_vector')
  <2>1. vector_1 \in Seq(Node) /\ vector_2 \in Seq(Node)
    BY DEF Basic, TypeOK
  <2>2. Frontier = vector_1 \o vector_2
    BY DEF Frontier
  <2>3. QED  BY <2>1, <2>2, <1>2, ConcatRange, ConcatInjective
<1>4. TreesWhole'
  BY <1>1, <1>2 DEF TreesWhole, IsRoot, Unreached, Slot
<1>5. GraphKept' /\ LegalForest'
  BY <1>1, <1>2 DEF GraphKept, LegalForest, EvenWalkLegal
<1>6. Collected'
  <2>1. \A x : EvenNode(x)' <=> EvenNode(x)
    BY <1>1 DEF EvenNode
  <2>2. \A x \in Range(nodes_vector') \cup Range(vector_1') \cup Range(vector_2') : EvenNode(x)'
    BY <2>1, <1>1, <1>2, <1>3
  <2>3. IsInjective(nodes_vector') /\ IsInjective(vector_1') /\ IsInjective(vector_2')
    BY <1>1, <1>2, <1>3
  <2>4. Range(vector_1') \cap Range(vector_2') = {}
    BY <1>1, <1>2
  <2>5. QED  BY <2>2, <2>3, <2>4 DEF Collected, IsInjective, Range
<1>7. \A t \in Thread : \A e \in Range(work[t]) :
        /\ EvenNode(e[1])' /\ IsAdjacent(adj, e[1], e[2])'
        /\ phase' = "augment" => IsBridge(e[1], e[2])'
        /\ phase' = "blossom" => belongs'[e[2]] = belongs'[e[1]]
  BY <1>1 DEF EvenNode, IsBridge
<1>8. /\ phase' \in SearchPhases /\ path_collection' = <<>> /\ select_tree' = ZeroFlags
      /\ \A t \in Thread : lap'[t] = <<>>
  BY <1>1, <1>2 DEF SearchPhases
<1>9. QED  BY <1>4, <1>5, <1>6, <1>7, <1>8, EnterSound

\* An engine that stops without a path hands out the matching of the search.
LEMMA StopSound ==
  ASSUME Basic, Sound, phase \in SearchPhases, Joined, phase' = "finished",
         UNCHANGED <<forestVars, lap>>, path_collection' = <<>>
  PROVE  Sound'
<1>1. adj' = adj /\ M' = M /\ belongs' = belongs /\ lap' = lap
  BY DEF forestVars
<1>2. \A t \in Thread : lap[t] = <<>>
  BY JoinedFacts
<1>3. GraphKept'
  <2>1. GraphKept /\ phase # "flip"
    BY DEF Sound, SearchPhases
  <2>2. QED  BY <1>1, <2>1 DEF GraphKept
<1>4. LapsInTrees'
  <2>1. Range(<<>>) = {}
    BY DEF Range
  <2>2. QED  BY <1>1, <1>2, <2>1 DEF LapsInTrees
<1>5. phase' \notin SearchPhases /\ phase' \notin {"augment", "expand", "blossom", "flip", "reuse", "exposed"}
  BY DEF SearchPhases
<1>6. /\ TreesSound' /\ (phase \in {"augment", "expand"} => LegalForest)' /\ Collected' /\ Pending'
      /\ SharesSound' /\ PathsSound' /\ LocksSound' /\ GrowthSound' /\ FlipSound' /\ FlagsFresh' /\ RepairSound'
  BY <1>5 DEF TreesSound, Collected, Pending, SharesSound, PathsSound, LocksSound, GrowthSound, FlipSound,
              FlagsFresh, RepairSound
<1>7. QED  BY <1>3, <1>4, <1>6 DEF Sound

-----------------------------------------------------------------------------
(***************************************************************************)
(* The flip of the found paths.                                            *)
(***************************************************************************)
\* A node on a collected path is to be mated with another one.
LEMMA EveryNodeJoined ==
  ASSUME path_collection \in Seq(Seq(Node)), CollectionSound, NEW x, OnCollected(x)
  PROVE  \E y \in Node : Joins(x, y) \/ Joins(y, x)
<1>1. PICK i \in DOMAIN path_collection : x \in Range(path_collection[i])
  BY DEF OnCollected
<1> DEFINE p == path_collection[i]
<1>2. p \in Seq(Node) /\ Len(p) \in Nat /\ Len(p) % 2 = 0 /\ x \in Range(p)
  BY <1>1, ElementOfSeq, LenProperties DEF CollectionSound, FlipsWell
<1>3. \A k \in 1 .. (Len(p) \div 2) : Joins(p[2 * k - 1], p[2 * k])
  BY <1>1 DEF Joins
<1> HIDE DEF p
<1>4. PICK j \in 1 .. Len(p) : x = p[j]
  BY <1>2, LenProperties DEF Range
<1>5. \A k \in 1 .. Len(p) : p[k] \in Node
  BY <1>2, ElementOfSeq
<1>6. CASE j % 2 = 1
  <2>0. PICK k \in Nat : j = 2 * k - 1
    <3>1. j \div 2 \in Nat /\ j = 2 * (j \div 2) + 1
      BY <1>2, <1>4, <1>6
    <3>2. (j \div 2) + 1 \in Nat /\ j = 2 * ((j \div 2) + 1) - 1
      BY <3>1
    <3>3. QED  BY <3>2
  <2>1. k \in 1 .. (Len(p) \div 2) /\ 2 * k - 1 = j /\ 2 * k \in 1 .. Len(p)
    <3>1. PICK n \in Nat : Len(p) = 2 * n
      <4>1. Len(p) \div 2 \in Nat /\ Len(p) = 2 * (Len(p) \div 2)
        BY <1>2
      <4>2. QED  BY <4>1
    <3>2. Len(p) \div 2 = n
      BY <3>1
    <3>3. k \in 1 .. n /\ 2 * k \in 1 .. Len(p)
      BY <1>4, <2>0, <3>1
    <3>4. QED  BY <2>0, <3>2, <3>3
  <2>2. QED  BY <1>3, <1>4, <1>5, <2>1
<1>7. CASE j % 2 = 0
  <2> DEFINE k == j \div 2
  <2>1. k \in 1 .. (Len(p) \div 2) /\ 2 * k = j /\ 2 * k - 1 \in 1 .. Len(p)
    BY <1>2, <1>4, <1>7
  <2> HIDE DEF k
  <2>2. QED  BY <1>3, <1>4, <1>5, <2>1
<1>8. QED  BY <1>4, <1>6, <1>7

\* What two nodes to be mated have in common.
LEMMA JoinFacts ==
  ASSUME path_collection \in Seq(Seq(Node)), CollectionSound, NEW a, NEW b, Joins(a, b)
  PROVE  /\ a \in Node /\ b \in Node /\ a # b /\ OnCollected(a) /\ OnCollected(b)
         /\ IsAdjacent(adj, a, b) /\ IsAdjacent(adj, b, a)
         /\ \A c, d : Joins(c, d) => (a = c /\ b = d) \/ {a, b} \cap {c, d} = {}
<1>0. PICK i \in DOMAIN path_collection : \E k \in 1 .. (Len(path_collection[i]) \div 2) :
        a = path_collection[i][2 * k - 1] /\ b = path_collection[i][2 * k]
  BY DEF Joins
<1>1. PICK k \in 1 .. (Len(path_collection[i]) \div 2) :
        a = path_collection[i][2 * k - 1] /\ b = path_collection[i][2 * k]
  BY <1>0
<1>2. \A n \in DOMAIN path_collection : path_collection[n] \in Seq(Node)
  BY ElementOfSeq, LenProperties
<1>3. \A p \in Seq(Node) : \A m \in 1 .. (Len(p) \div 2) :
        /\ 2 * m - 1 \in 1 .. Len(p) /\ 2 * m \in 1 .. Len(p) /\ DOMAIN p = 1 .. Len(p)
        /\ p[2 * m - 1] \in Node /\ p[2 * m] \in Node
        /\ p[2 * m - 1] \in Range(p) /\ p[2 * m] \in Range(p)
  <2>1. SUFFICES ASSUME NEW p \in Seq(Node), NEW m \in 1 .. (Len(p) \div 2)
                 PROVE  /\ 2 * m - 1 \in 1 .. Len(p) /\ 2 * m \in 1 .. Len(p) /\ DOMAIN p = 1 .. Len(p)
                        /\ p[2 * m - 1] \in Node /\ p[2 * m] \in Node
                        /\ p[2 * m - 1] \in Range(p) /\ p[2 * m] \in Range(p)
    OBVIOUS
  <2>2. Len(p) \in Nat /\ DOMAIN p = 1 .. Len(p)
    BY LenProperties
  <2>3. 2 * m - 1 \in 1 .. Len(p) /\ 2 * m \in 1 .. Len(p)
    BY <2>2
  <2>4. p[2 * m - 1] \in Node /\ p[2 * m] \in Node
    BY <2>3, ElementOfSeq
  <2>5. QED  BY <2>2, <2>3, <2>4 DEF Range
<1>4. a \in Node /\ b \in Node /\ OnCollected(a) /\ OnCollected(b)
  BY <1>1, <1>2, <1>3 DEF OnCollected
<1>5. FlipsWell(path_collection[i]) /\ IsInjective(path_collection[i])
  BY <1>1 DEF CollectionSound, FlipsWell
<1>6. IsAdjacent(adj, a, b) /\ IsAdjacent(adj, b, a)
  BY <1>1, <1>5 DEF FlipsWell
<1>7. \A m, n \in 1 .. Len(path_collection[i]) :
        path_collection[i][m] = path_collection[i][n] => m = n
  BY <1>1, <1>2, <1>5, LenProperties DEF IsInjective
<1>8. a # b
  <2>1. 2 * k - 1 \in 1 .. Len(path_collection[i]) /\ 2 * k \in 1 .. Len(path_collection[i])
        /\ 2 * k - 1 # 2 * k
    BY <1>1, <1>2, <1>3
  <2>2. QED  BY <1>1, <1>7, <2>1
<1>9. ASSUME NEW c, NEW d, Joins(c, d)
      PROVE  (a = c /\ b = d) \/ {a, b} \cap {c, d} = {}
  <2>0. PICK j \in DOMAIN path_collection : \E l \in 1 .. (Len(path_collection[j]) \div 2) :
          c = path_collection[j][2 * l - 1] /\ d = path_collection[j][2 * l]
    BY <1>9 DEF Joins
  <2>1. PICK l \in 1 .. (Len(path_collection[j]) \div 2) :
          c = path_collection[j][2 * l - 1] /\ d = path_collection[j][2 * l]
    BY <2>0
  <2>2. CASE i # j
    <3>1. Range(path_collection[i]) \cap Range(path_collection[j]) = {}
      BY <1>1, <2>1, <2>2 DEF CollectionSound
    <3>2. QED  BY <1>1, <1>2, <1>3, <2>1, <3>1
  <2>3. CASE i = j /\ k = l
    BY <1>1, <2>1, <2>3
  <2>4. CASE i = j /\ k # l
    <3>1. /\ 2 * k - 1 \in 1 .. Len(path_collection[i]) /\ 2 * k \in 1 .. Len(path_collection[i])
          /\ 2 * l - 1 \in 1 .. Len(path_collection[i]) /\ 2 * l \in 1 .. Len(path_collection[i])
      BY <1>1, <1>2, <1>3, <2>1, <2>4
    <3>2. 2 * k - 1 # 2 * l - 1 /\ 2 * k - 1 # 2 * l /\ 2 * k # 2 * l - 1 /\ 2 * k # 2 * l
      BY <1>1, <2>1, <2>4
    <3>3. QED  BY <1>1, <1>7, <2>1, <2>4, <3>1, <3>2
  <2>5. QED  BY <2>2, <2>3, <2>4
<1>10. QED  BY <1>4, <1>6, <1>8, <1>9

\* The search hands its paths to the flip.
LEMMA StartFlipSound ==
  ASSUME Basic, Sound, phase = "augment", Joined, StartFlip,
         UNCHANGED <<forestVars, flagVars, lap, path_collection>>
  PROVE  Sound'
<1>0. /\ adj' = adj /\ M' = M /\ belongs' = belongs /\ is_even' = is_even /\ path_table' = path_table
      /\ lap' = lap /\ path_collection' = path_collection /\ phase' = "flip"
      /\ \A t \in Thread : todo'[t] = FlipShare(t)
  BY DEF forestVars, StartFlip, FlipShare
<1>1. TypeOK /\ MatesMutual /\ GraphKept /\ LegalForest /\ PathsSound
  BY DEF Basic, Sound, MatesKept
<1>2. TreesWhole /\ \A t \in Thread : lap[t] = <<>>
  BY JoinedFacts DEF SearchPhases
<1>3. CollectionSound /\ \A i \in DOMAIN path_collection : ClosedPath(path_collection[i])
  BY <1>1 DEF PathsSound
<1>4. path_collection \in Seq(Seq(Node)) /\ DOMAIN path_collection = 1 .. Len(path_collection)
  BY <1>1, LenProperties DEF TypeOK
<1>5. CollectionSound'
  BY <1>0, <1>3 DEF CollectionSound, FlipsWell
<1>6. \A x : OnCollected(x)' <=> OnCollected(x)
  BY <1>0 DEF OnCollected
<1>7. \A a, b : Joins(a, b)' <=> Joins(a, b)
  BY <1>0 DEF Joins
<1>8. \A x : EvenWalkLegal(x)' <=> EvenWalkLegal(x)
  BY <1>0 DEF EvenWalkLegal
<1>9. ASSUME NEW a, NEW b, Joins(a, b)
      PROVE  \E t \in Thread : <<a, b>> \in Range(FlipShare(t))
  <2>1. PICK i \in DOMAIN path_collection : \E k \in 1 .. (Len(path_collection[i]) \div 2) :
          a = path_collection[i][2 * k - 1] /\ b = path_collection[i][2 * k]
    BY <1>9 DEF Joins
  <2>2. (i - 1) % NumThreads \in Thread
    BY <1>4, ThreadAssumption DEF Thread
  <2>3. QED  BY <1>4, <2>1, <2>2, FlipShareFacts
<1>10. ASSUME NEW t \in Thread, NEW e \in Range(FlipShare(t))
       PROVE  Joins(e[1], e[2])
  <2>1. PICK i \in DOMAIN path_collection : \E k \in 1 .. (Len(path_collection[i]) \div 2) :
          e = <<path_collection[i][2 * k - 1], path_collection[i][2 * k]>>
    BY ZenonT(30), <1>4, <1>10, FlipShareFacts
  <2>2. QED  BY <2>1 DEF Joins
<1>11. ASSUME NEW x \in Node, ~OnCollected(x)
       PROVE  /\ M[x] = NoNode => IsRoot(x)
              /\ M[x] # NoNode => /\ M[x] # x /\ M[M[x]] = x /\ IsAdjacent(adj, x, M[x])
                                  /\ ~OnCollected(M[x]) /\ belongs[M[x]] = belongs[x]
              /\ EvenNode(x) => EvenWalkLegal(x)
  <2>1. M[x] = NoNode => IsRoot(x)
    BY <1>2 DEF TreesWhole
  <2>2. EvenNode(x) => EvenWalkLegal(x)
    BY <1>1 DEF LegalForest, EvenNode
  <2>3. ASSUME M[x] # NoNode
        PROVE  /\ M[x] # x /\ M[M[x]] = x /\ IsAdjacent(adj, x, M[x])
               /\ ~OnCollected(M[x]) /\ belongs[M[x]] = belongs[x]
    <3>1. x \in Matched(M)
      BY <2>3 DEF Matched
    <3>2. M[x] # x /\ M[M[x]] = x /\ IsAdjacent(adj, x, M[x])
      BY <1>1, <3>1 DEF GraphKept, IsMatching
    <3>3. belongs[M[x]] = belongs[x]
      BY <1>2, <3>1 DEF TreesWhole
    <3>4. x # NoNode
      BY DEF Node, NoNode
    <3>5. ~OnCollected(M[x])
      BY <1>3, <1>11, <3>2, <3>4 DEF OnCollected, ClosedPath
    <3>6. QED  BY <3>2, <3>3, <3>5
  <2>4. QED  BY <2>1, <2>2, <2>3
<1>12. FlipSound'
  <2>1. \A a, b \in Node : Joins(a, b)' => \E t \in Thread : <<a, b>> \in Range(todo'[t])
    BY <1>0, <1>7, <1>9
  <2>2. \A t \in Thread : \A e \in Range(todo'[t]) : Joins(e[1], e[2])'
    BY <1>0, <1>7, <1>10
  <2>3. \A x \in Node : ~OnCollected(x)' =>
          /\ M'[x] = NoNode => IsRoot(x)'
          /\ M'[x] # NoNode => /\ M'[x] # x /\ M'[M'[x]] = x /\ IsAdjacent(adj', x, M'[x])
                               /\ ~OnCollected(M[x])' /\ belongs'[M'[x]] = belongs'[x]
          /\ EvenNode(x)' /\ ~OnCollected(belongs[x])' => EvenWalkLegal(x)'
    <3>1. SUFFICES ASSUME NEW x \in Node, ~OnCollected(x)'
                   PROVE  /\ M'[x] = NoNode => IsRoot(x)'
                          /\ M'[x] # NoNode =>
                               /\ M'[x] # x /\ M'[M'[x]] = x /\ IsAdjacent(adj', x, M'[x])
                               /\ ~OnCollected(M[x])' /\ belongs'[M'[x]] = belongs'[x]
                          /\ EvenNode(x)' => EvenWalkLegal(x)'
      OBVIOUS
    <3>2. ~OnCollected(x)
      BY <1>6, <3>1
    <3>3. M'[x] = M[x] /\ (IsRoot(x)' <=> IsRoot(x)) /\ (EvenNode(x)' <=> EvenNode(x))
      BY <1>0 DEF IsRoot, EvenNode
    <3>4. OnCollected(M[x])' <=> OnCollected(M[x])
      BY <1>0 DEF OnCollected
    <3>5. QED  BY <1>0, <1>8, <1>11, <3>2, <3>3, <3>4
  <2>4. QED  BY <1>0, <1>5, <2>1, <2>2, <2>3 DEF FlipSound
<1>13. GraphKept' /\ LapsInTrees'
  <2>1. Range(<<>>) = {}
    BY DEF Range
  <2>2. QED  BY <1>0, <1>1, <1>2, <2>1 DEF GraphKept, LapsInTrees
<1>14. /\ TreesSound' /\ (phase \in {"augment", "expand"} => LegalForest)' /\ Collected' /\ Pending'
       /\ SharesSound' /\ PathsSound' /\ LocksSound' /\ GrowthSound' /\ FlagsFresh' /\ RepairSound'
  <2>1. phase' \notin SearchPhases /\ phase' \notin {"augment", "expand", "blossom", "finished", "reuse", "exposed"}
    BY <1>0 DEF SearchPhases
  <2>2. QED  BY <1>0, <2>1 DEF TreesSound, Collected, Pending, SharesSound, PathsSound, LocksSound, GrowthSound,
                               FlagsFresh, RepairSound
<1>15. QED  BY <1>12, <1>13, <1>14 DEF Sound

\* A walk that a flip does not touch stays legal.
LEMMA LegalOffPaths ==
  ASSUME UNCHANGED <<adj, belongs, path_table>>, path_table \in [Node -> Seq(Node)],
         NEW v \in Node, EvenWalkLegal(v),
         \A y \in Range(Walk(path_table, v)) : M'[y] = M[y]
  PROVE  EvenWalkLegal(v)'
<1> DEFINE p == Walk(path_table, v)
<1>1. p \in Seq(Node) /\ Last(p) \in Range(p) /\ Len(p) \in Nat
      /\ \A i \in 1 .. Len(p) : p[i] \in Range(p)
  <2>1. p \in Seq(Node) /\ Last(p) \in Range(p)
    BY WalkType
  <2> HIDE DEF p
  <2>2. QED  BY <2>1, LenProperties DEF Range
<1>2. /\ IsEvenWalk(adj, M, p) /\ Last(p) = belongs[v] /\ \A x \in Range(p) : belongs[x] = belongs[v]
      /\ \A y \in Range(p) : M'[y] = M[y]
  BY DEF EvenWalkLegal
<1> HIDE DEF p
<1>3. IsEvenWalk(adj', M', p)
  <2>1. /\ IsInjective(p) /\ Len(p) % 2 = 1 /\ M[Last(p)] = NoNode /\ adj' = adj
        /\ M'[Last(p)] = M[Last(p)]
        /\ \A i \in 1 .. (Len(p) - 1) :
             IF i % 2 = 1 THEN M[p[i]] = p[i + 1]
                          ELSE IsAdjacent(adj, p[i], p[i + 1]) /\ M[p[i]] # p[i + 1]
    BY <1>1, <1>2 DEF IsEvenWalk
  <2>2. \A i \in 1 .. (Len(p) - 1) : M'[p[i]] = M[p[i]]
    <3>1. \A i \in 1 .. (Len(p) - 1) : i \in 1 .. Len(p)
      BY <1>1
    <3>2. QED  BY <1>1, <1>2, <3>1
  <2>3. \A i \in 1 .. (Len(p) - 1) :
             IF i % 2 = 1 THEN M'[p[i]] = p[i + 1]
                          ELSE IsAdjacent(adj', p[i], p[i + 1]) /\ M'[p[i]] # p[i + 1]
    BY <2>1, <2>2
  <2>4. QED  BY <2>1, <2>3 DEF IsEvenWalk
<1>4. IsEvenWalk(adj', M', p) /\ p \in Seq(Node) /\ Last(p) = belongs'[v]
      /\ \A x \in Range(p) : belongs'[x] = belongs'[v]
  BY <1>1, <1>2, <1>3
<1>5. p = Walk(path_table, v)'
  BY DEF p
<1>6. QED  BY <1>4, <1>5 DEF EvenWalkLegal

\* A thread mates a pair of its share: nothing else that the flip relies on
\* reads the mates of the two.
LEMMA FlipPairSound ==
  ASSUME Basic, Sound, phase = "flip", NEW t \in Thread, FlipPair(t)
  PROVE  FlipSound'
<1> DEFINE a == Edge(t)[1]  b == Edge(t)[2]
<1>0. /\ adj' = adj /\ belongs' = belongs /\ is_even' = is_even /\ path_table' = path_table
      /\ path_collection' = path_collection /\ phase' = "flip" /\ todo[t] # <<>>
      /\ M' = [M EXCEPT ![a] = b, ![b] = a]
      /\ todo' = [todo EXCEPT ![t] = Tail(todo[t])]
  BY DEF FlipPair
<1>1. TypeOK /\ FlipSound /\ path_collection \in Seq(Seq(Node))
  BY DEF Basic, Sound, TypeOK
<1>2. /\ CollectionSound
      /\ \A c, d \in Node : Joins(c, d) =>
           (M[c] = d /\ M[d] = c) \/ \E u \in Thread : <<c, d>> \in Range(todo[u])
      /\ \A u \in Thread : \A e \in Range(todo[u]) : Joins(e[1], e[2])
      /\ \A x \in Node : ~OnCollected(x) =>
           /\ M[x] = NoNode => IsRoot(x)
           /\ M[x] # NoNode => /\ M[x] # x /\ M[M[x]] = x /\ IsAdjacent(adj, x, M[x])
                               /\ ~OnCollected(M[x]) /\ belongs[M[x]] = belongs[x]
           /\ EvenNode(x) /\ ~OnCollected(belongs[x]) => EvenWalkLegal(x)
  BY <1>1 DEF FlipSound
<1>3. todo[t] \in Seq(Node \X Node) /\ Edge(t) = <<a, b>>
      /\ Range(todo[t]) = {Edge(t)} \cup Range(Tail(todo[t]))
  <2>1. todo[t] \in Seq(Node \X Node)
    BY <1>1 DEF TypeOK
  <2>2. Edge(t) \in Node \X Node
    BY <1>0, <1>1, EdgeFacts
  <2>3. QED  BY <1>0, <2>1, <2>2, TailRange DEF Edge
<1>4. /\ M \in [Node -> Node \cup {NoNode}] /\ todo \in [Thread -> Seq(Node \X Node)]
  BY <1>1 DEF TypeOK, ForestTypeOK
<1> HIDE DEF a, b
<1>5. Joins(a, b)
  <2>1. Joins(Edge(t)[1], Edge(t)[2])
    BY <1>2, <1>3
  <2>2. QED  BY <2>1 DEF a, b
<1>6. /\ a \in Node /\ b \in Node /\ a # b /\ OnCollected(a) /\ OnCollected(b)
      /\ \A c, d : Joins(c, d) => (a = c /\ b = d) \/ {a, b} \cap {c, d} = {}
  BY <1>1, <1>2, <1>5, JoinFacts
<1>7. /\ M'[a] = b /\ M'[b] = a /\ \A x \in Node : x # a /\ x # b => M'[x] = M[x]
  BY <1>0, <1>4, <1>6
<1>8. \A x : OnCollected(x)' <=> OnCollected(x)
  BY <1>0 DEF OnCollected
<1>9. \A c, d : Joins(c, d)' <=> Joins(c, d)
  BY <1>0 DEF Joins
<1>10. CollectionSound'
  BY <1>0, <1>2 DEF CollectionSound, FlipsWell
<1>11. ASSUME NEW c \in Node, NEW d \in Node, Joins(c, d)
       PROVE  (M'[c] = d /\ M'[d] = c) \/ \E u \in Thread : <<c, d>> \in Range(todo'[u])
  <2>1. CASE a = c /\ b = d
    BY <1>7, <2>1
  <2>2. CASE {a, b} \cap {c, d} = {}
    <3>1. M'[c] = M[c] /\ M'[d] = M[d]
      BY <1>7, <2>2
    <3>2. CASE M[c] = d /\ M[d] = c
      BY <3>1, <3>2
    <3>3. ASSUME NEW u \in Thread, <<c, d>> \in Range(todo[u])
          PROVE  <<c, d>> \in Range(todo'[u])
      <4>1. CASE u # t
        BY <1>0, <1>4, <3>3, <4>1
      <4>2. CASE u = t
        <5>1. todo'[t] = Tail(todo[t])
          BY <1>0, <1>4
        <5>2. <<c, d>> # Edge(t)
          <6>1. c # a
            BY <2>2
          <6>2. Edge(t) = <<a, b>>
            BY <1>3
          <6>3. QED  BY <6>1, <6>2
        <5>3. QED  BY <1>3, <3>3, <4>2, <5>1, <5>2
      <4>3. QED  BY <4>1, <4>2
    <3>4. QED  BY <1>2, <1>11, <3>2, <3>3
  <2>3. QED  BY <1>6, <1>11, <2>1, <2>2
<1>12. \A u \in Thread : \A e \in Range(todo'[u]) : Joins(e[1], e[2])
  <2>1. \A u \in Thread : Range(todo'[u]) \subseteq Range(todo[u])
    BY <1>0, <1>3, <1>4
  <2>2. QED  BY <1>2, <2>1
<1>13. ASSUME NEW x \in Node, ~OnCollected(x)
       PROVE  /\ M'[x] = NoNode => IsRoot(x)
              /\ M'[x] # NoNode => /\ M'[x] # x /\ M'[M'[x]] = x /\ IsAdjacent(adj, x, M'[x])
                                   /\ ~OnCollected(M[x]) /\ belongs[M'[x]] = belongs[x]
              /\ EvenNode(x) /\ ~OnCollected(belongs[x]) => EvenWalkLegal(x)'
  <2>1. M'[x] = M[x]
    BY <1>6, <1>7, <1>13
  <2>2. M[x] # NoNode => M'[M[x]] = M[M[x]]
    <3>1. M[x] # NoNode => M[x] \in Node
      BY <1>4
    <3>2. QED  BY <1>2, <1>6, <1>7, <1>13, <3>1
  <2>3. ASSUME EvenNode(x), ~OnCollected(belongs[x])
        PROVE  EvenWalkLegal(x)'
    <3>1. EvenWalkLegal(x)
      BY <1>2, <1>13, <2>3
    <3>2. \A y \in Range(Walk(path_table, x)) : y \in Node /\ belongs[y] = belongs[x]
      <4>1. Walk(path_table, x) \in Seq(Node)
        BY <3>1 DEF EvenWalkLegal
      <4>2. \A y \in Range(Walk(path_table, x)) : y \in Node
        BY <4>1, RangeOfSeq
      <4>3. QED  BY <3>1, <4>2 DEF EvenWalkLegal
    <3>3. \A y : OnCollected(y) => OnCollected(belongs[y])
      BY <1>2 DEF OnCollected, CollectionSound, FlipsWell
    <3>4. \A y \in Range(Walk(path_table, x)) : M'[y] = M[y]
      BY <1>6, <1>7, <2>3, <3>2, <3>3
    <3>5. path_table \in [Node -> Seq(Node)]
      BY <1>1 DEF TypeOK, ForestTypeOK
    <3>6. QED  BY <1>0, <3>1, <3>4, <3>5, LegalOffPaths
  <2>4. QED  BY <1>2, <1>13, <2>1, <2>2, <2>3
<1>14. \A x \in Node : ~OnCollected(x)' =>
         /\ M'[x] = NoNode => IsRoot(x)'
         /\ M'[x] # NoNode => /\ M'[x] # x /\ M'[M'[x]] = x /\ IsAdjacent(adj', x, M'[x])
                              /\ ~OnCollected(M[x])' /\ belongs'[M'[x]] = belongs'[x]
         /\ EvenNode(x)' /\ ~OnCollected(belongs[x])' => EvenWalkLegal(x)'
  <2>1. SUFFICES ASSUME NEW x \in Node, ~OnCollected(x)'
                 PROVE  /\ M'[x] = NoNode => IsRoot(x)'
                        /\ M'[x] # NoNode =>
                             /\ M'[x] # x /\ M'[M'[x]] = x /\ IsAdjacent(adj', x, M'[x])
                             /\ ~OnCollected(M[x])' /\ belongs'[M'[x]] = belongs'[x]
                        /\ EvenNode(x)' /\ ~OnCollected(belongs[x])' => EvenWalkLegal(x)'
    OBVIOUS
  <2>2. ~OnCollected(x) /\ M'[x] = M[x]
    BY <1>6, <1>7, <1>8, <2>1
  <2>3. (IsRoot(x)' <=> IsRoot(x)) /\ (EvenNode(x)' <=> EvenNode(x))
    BY <1>0 DEF IsRoot, EvenNode
  <2>4. /\ OnCollected(M[x])' <=> OnCollected(M[x])
        /\ OnCollected(belongs[x])' <=> OnCollected(belongs[x])
    <3>1. \A y : OnCollected(y)' <=> OnCollected(y)
      BY <1>8
    <3>2. PICK y : y = M'[x]
      OBVIOUS
    <3>3. OnCollected(M[x])' <=> OnCollected(y)'
      BY <3>2 DEF OnCollected
    <3>4. OnCollected(belongs[x])' <=> OnCollected(belongs[x])
      BY <1>0 DEF OnCollected
    <3>5. QED  BY <2>2, <3>1, <3>2, <3>3, <3>4
  <2>5. QED  BY <1>0, <1>13, <2>2, <2>3, <2>4
<1>15. QED
  <2>1. \A c, d \in Node : Joins(c, d)' =>
          (M'[c] = d /\ M'[d] = c) \/ \E u \in Thread : <<c, d>> \in Range(todo'[u])
    BY <1>9, <1>11
  <2>2. \A u \in Thread : \A e \in Range(todo'[u]) : Joins(e[1], e[2])'
    BY <1>9, <1>12
  <2>3. QED  BY <1>0, <1>10, <1>14, <2>1, <2>2 DEF FlipSound

\* The flip keeps what it relies on.
LEMMA FlipKeepsSound ==
  ASSUME Basic, Sound, phase = "flip", NEW t \in Thread, FlipPair(t) \/ FlipEnds(t)
  PROVE  Sound'
<1>0. /\ adj' = adj /\ is_even' = is_even /\ belongs' = belongs /\ path_table' = path_table
      /\ lap' = lap /\ path_collection' = path_collection /\ phase' = "flip"
  BY DEF FlipPair, FlipEnds, forestVars
<1>1. FlipSound'
  <2>1. CASE FlipPair(t)
    BY <2>1, FlipPairSound
  <2>2. CASE FlipEnds(t)
    <3>1. M' = M /\ todo' = todo /\ FlipSound
      BY <2>2 DEF FlipEnds, forestVars, Sound
    <3>2. QED
      BY <1>0, <3>1 DEF FlipSound, CollectionSound, FlipsWell, Joins, OnCollected, IsRoot, EvenNode, EvenWalkLegal
  <2>3. QED  BY <2>1, <2>2
<1>2. GraphKept' /\ LapsInTrees'
  <2>1. Range(<<>>) = {}
    BY DEF Range
  <2>2. \A u \in Thread : lap[u] = <<>>
    BY DEF Sound, LapsInTrees
  <2>3. QED  BY <1>0, <2>1, <2>2 DEF Sound, GraphKept, LapsInTrees
<1>3. /\ TreesSound' /\ (phase \in {"augment", "expand"} => LegalForest)' /\ Collected' /\ Pending'
      /\ SharesSound' /\ PathsSound' /\ LocksSound' /\ GrowthSound' /\ FlagsFresh' /\ RepairSound'
  <2>1. phase' \notin SearchPhases /\ phase' \notin {"augment", "expand", "blossom", "finished", "reuse", "exposed"}
    BY <1>0 DEF SearchPhases
  <2>2. QED  BY <1>0, <2>1 DEF TreesSound, Collected, Pending, SharesSound, PathsSound, LocksSound, GrowthSound,
                               FlagsFresh, RepairSound
<1>4. QED  BY <1>1, <1>2, <1>3 DEF Sound

\* When all paths are flipped, the nodes on them are mated as the paths say.
LEMMA AllFlipped ==
  ASSUME Basic, Sound, phase = "flip", Joined
  PROVE  /\ \A c, d \in Node : Joins(c, d) => M[c] = d /\ M[d] = c
         /\ \A x \in Node : OnCollected(x) =>
              M[x] \in Node /\ M[M[x]] = x /\ M[x] # x /\ IsAdjacent(adj, x, M[x])
<1>1. TypeOK /\ FlipSound /\ ThreadsPlaced
  BY DEF Basic, Sound
<1>2. \A t \in Thread : todo[t] = <<>>
  BY <1>1 DEF ThreadsPlaced, Joined
<1>3. Range(<<>>) = {}
  BY DEF Range
<1>4. \A c, d \in Node : Joins(c, d) => M[c] = d /\ M[d] = c
  BY <1>1, <1>2, <1>3 DEF FlipSound
<1>5. path_collection \in Seq(Seq(Node)) /\ CollectionSound
  BY <1>1 DEF TypeOK, FlipSound
<1>6. ASSUME NEW x \in Node, OnCollected(x)
      PROVE  M[x] \in Node /\ M[M[x]] = x /\ M[x] # x /\ IsAdjacent(adj, x, M[x])
  <2>1. PICK y \in Node : Joins(x, y) \/ Joins(y, x)
    BY <1>5, <1>6, EveryNodeJoined
  <2>2. M[x] = y /\ M[y] = x
    BY <1>4, <2>1
  <2>3. x # y /\ IsAdjacent(adj, x, y)
    BY <1>5, <2>1, JoinFacts
  <2>4. QED  BY <2>2, <2>3
<1>7. QED  BY <1>4, <1>6

\* After the flip the matching is whole, and every tree whose root is still
\* exposed is as it was: its nodes were on no path.
LEMMA JoinFlipSound ==
  ASSUME Basic, Sound, NEW first \in {"reuse", "exposed"}, JoinFlip(first)
  PROVE  Sound'
<1>0. /\ phase = "flip" /\ Joined
      /\ adj' = adj /\ M' = M /\ is_even' = is_even /\ belongs' = belongs /\ path_table' = path_table
      /\ lap' = lap /\ path_collection' = <<>> /\ vector_1' = <<>> /\ vector_2' = <<>>
      /\ select_tree' = ZeroFlags /\ select_match' = ZeroFlags
      /\ phase' = "finished" \/ (phase' = first /\ pc' = [t \in Thread |-> "stripe"])
  BY DEF JoinFlip, forestVars
<1>1. TypeOK /\ FlipSound /\ GraphKept /\ LapsInTrees
  BY DEF Basic, Sound
<1>2. CollectionSound
  BY <1>0, <1>1 DEF FlipSound
<1>3. \A x \in Node : OnCollected(x) =>
        M[x] \in Node /\ M[M[x]] = x /\ M[x] # x /\ IsAdjacent(adj, x, M[x])
  BY <1>0, AllFlipped
<1>4. \A x \in Node : ~OnCollected(x) =>
           /\ M[x] = NoNode => IsRoot(x)
           /\ M[x] # NoNode => /\ M[x] # x /\ M[M[x]] = x /\ IsAdjacent(adj, x, M[x])
                               /\ belongs[M[x]] = belongs[x]
           /\ EvenNode(x) /\ ~OnCollected(belongs[x]) => EvenWalkLegal(x)
  BY <1>0, <1>1 DEF FlipSound
<1>5. M \in [Node -> Node \cup {NoNode}] /\ belongs \in [Node -> Node \cup {NoNode}]
  BY <1>1 DEF TypeOK, ForestTypeOK
<1>6. \A x \in Node : x # NoNode
  BY DEF Node, NoNode
<1>7. \A x \in Node : OnCollected(x) => OnCollected(belongs[x])
  BY <1>2 DEF OnCollected, CollectionSound, FlipsWell
<1>8. GraphKept'
  <2>1. IsMatching(adj, M) /\ \A x \in Node : M[x] # x
    <3>1. ASSUME NEW x \in Node
          PROVE  M[x] # x /\ (M[x] # NoNode => M[x] \in Node /\ M[M[x]] = x /\ IsAdjacent(adj, x, M[x]))
      <4>1. CASE OnCollected(x)
        BY <1>3, <4>1
      <4>2. CASE ~OnCollected(x)
        BY <1>4, <1>5, <1>6, <4>2
      <4>3. QED  BY <4>1, <4>2
    <3>2. QED  BY <3>1 DEF IsMatching, Matched
  <2>2. IsUndirected(adj)
    BY <1>1 DEF GraphKept
  <2>3. QED  BY <1>0, <2>1, <2>2 DEF GraphKept
<1>9. LapsInTrees'
  <2>1. Range(<<>>) = {}
    BY DEF Range
  <2>2. \A u \in Thread : lap[u] = <<>>
    BY <1>0, <1>1 DEF LapsInTrees
  <2>3. QED  BY <1>0, <2>1, <2>2 DEF LapsInTrees
<1>10. FlagsFresh'
  BY <1>0 DEF FlagsFresh
<1>11. RepairSound'
  <2>1. ASSUME NEW x \in Node, InValidTree(x)
        PROVE  ~OnCollected(x) /\ ~OnCollected(belongs[x])
    <3>1. belongs[x] \in Node /\ M[belongs[x]] = NoNode
      BY <1>5, <2>1 DEF InValidTree
    <3>2. QED  BY <1>3, <1>6, <1>7, <3>1
  <2>2. \A x \in Node : M[x] = NoNode => IsRoot(x)
    BY <1>3, <1>4, <1>6
  <2>3. \A x \in Matched(M) : InValidTree(x) => belongs[M[x]] = belongs[x]
    BY <1>4, <2>1 DEF Matched
  <2>4. \A x \in Node : is_even[x] = 1 /\ InValidTree(x) => EvenWalkLegal(x)
    BY <1>4, <2>1 DEF EvenNode, InValidTree
  <2>5. IsInjective(<<>>) /\ Range(<<>>) = {}
    BY DEF IsInjective, Range
  <2>6. CASE phase' # "reuse"
    BY <2>6 DEF RepairSound
  <2>7. CASE phase' = "reuse"
    <3>1. \A x \in Node : ~Repaired(x)'
      <4>1. \A t \in Thread : pc'[t] # "done"
        BY <1>0, <2>7
      <4>2. QED  BY <2>7, <4>1, ModThread DEF Repaired, SearchPhases
    <3>2. \A x : (IsRoot(x)' <=> IsRoot(x)) /\ (InValidTree(x)' <=> InValidTree(x))
                 /\ (EvenWalkLegal(x)' <=> EvenWalkLegal(x))
      BY <1>0 DEF IsRoot, InValidTree, EvenWalkLegal
    <3> HIDE DEF Repaired
    <3>3. /\ \A x \in Node : M'[x] = NoNode => IsRoot(x)' \/ (belongs'[x] = NoNode /\ ~Repaired(x)')
          /\ \A x \in Matched(M') : InValidTree(x)' => belongs'[M'[x]] = belongs'[x]
          /\ \A x \in Node : is_even'[x] = 1 /\ InValidTree(x)' => EvenWalkLegal(x)'
      BY <1>0, <2>2, <2>3, <2>4, <3>2
    <3>4. \A x \in Node : Repaired(x)' => InValidTree(x)' \/ Unreached(x)'
      BY <3>1
    <3>5. /\ IsInjective(vector_1') /\ IsInjective(vector_2')
          /\ Range(vector_1') = {} /\ Range(vector_2') = {}
      BY <1>0, <2>5
    <3>6. (/\ \A x \in Node : M'[x] = NoNode => IsRoot(x)' \/ (belongs'[x] = NoNode /\ ~Repaired(x)')
           /\ \A x \in Matched(M') : InValidTree(x)' => belongs'[M'[x]] = belongs'[x]
           /\ \A x \in Node : is_even'[x] = 1 /\ InValidTree(x)' => EvenWalkLegal(x)'
           /\ \A x \in Node : Repaired(x)' => InValidTree(x)' \/ Unreached(x)'
           /\ IsInjective(vector_1') /\ IsInjective(vector_2')
           /\ Range(vector_1') = {} /\ Range(vector_2') = {})
          => RepairSound'
      BY DEF RepairSound, IsInjective, Range
    <3>7. QED  BY <3>3, <3>4, <3>5, <3>6
  <2>8. QED  BY <2>6, <2>7
<1>12. /\ TreesSound' /\ (phase \in {"augment", "expand"} => LegalForest)' /\ Collected' /\ Pending'
       /\ SharesSound' /\ PathsSound' /\ LocksSound' /\ GrowthSound' /\ FlipSound'
  <2>1. phase' \notin SearchPhases /\ phase' \notin {"augment", "expand", "blossom", "flip"}
    BY <1>0 DEF SearchPhases
  <2>2. QED  BY <1>0, <2>1 DEF TreesSound, Collected, Pending, SharesSound, PathsSound, LocksSound, GrowthSound,
                               FlipSound
<1>13. QED  BY <1>8, <1>9, <1>10, <1>11, <1>12 DEF Sound

\* An engine that reuses trees starts with none.
LEMMA InitSound ==
  ASSUME NEW first \in {"reuse", "exposed"}, DriverInit(first)
  PROVE  Sound
<1>0. /\ phase = first /\ belongs = [v \in Node |-> NoNode] /\ is_even = ZeroFlags
      /\ path_table = [v \in Node |-> <<>>]
      /\ path_collection = <<>> /\ vector_1 = <<>> /\ vector_2 = <<>>
      /\ select_tree = ZeroFlags /\ select_match = ZeroFlags
      /\ pc = [t \in Thread |-> "stripe"] /\ lap = NoWork
  BY DEF DriverInit
<1>1. PICK s \in Starts : adj = s.adj /\ M = s.M
  BY DEF DriverInit
<1>2. IsUndirected(adj) /\ IsMatching(adj, M) /\ \A v \in Node : M[v] # v
  BY <1>1, StartsAssumption
<1>3. GraphKept
  BY <1>2 DEF GraphKept
<1>4. Range(<<>>) = {} /\ IsInjective(<<>>)
  BY DEF Range, IsInjective
<1>5. FlagsFresh
  BY <1>0 DEF FlagsFresh
<1>6. LapsInTrees
  BY <1>0, <1>4 DEF LapsInTrees, NoWork
<1>7. RepairSound
  <2>1. phase = "reuse" => \A x \in Node : ~Repaired(x)
    <3>1. \A t \in Thread : pc[t] # "done"
      BY <1>0
    <3>2. QED  BY <3>1, ModThread DEF Repaired, SearchPhases
  <2>2. \A x \in Node : belongs[x] = NoNode /\ ~InValidTree(x)
    BY <1>0 DEF InValidTree
  <2>3. /\ IsInjective(vector_1) /\ IsInjective(vector_2)
        /\ Range(vector_1) = {} /\ Range(vector_2) = {}
    BY <1>0, <1>4
  <2> HIDE DEF Repaired
  <2>4. QED  BY <2>1, <2>2, <2>3 DEF RepairSound, Matched
<1>8. /\ TreesSound /\ (phase \in {"augment", "expand"} => LegalForest) /\ Collected /\ Pending
      /\ SharesSound /\ PathsSound /\ LocksSound /\ GrowthSound /\ FlipSound
  <2>1. phase \notin SearchPhases /\ phase \notin {"augment", "expand", "blossom", "flip"}
    BY <1>0 DEF SearchPhases
  <2>2. QED  BY <2>1 DEF TreesSound, Collected, Pending, SharesSound, PathsSound, LocksSound, GrowthSound,
                         FlipSound
<1>9. QED  BY <1>3, <1>5, <1>6, <1>7, <1>8 DEF Sound

-----------------------------------------------------------------------------
(***************************************************************************)
(* What the invariants say of the properties of the engines.               *)
(***************************************************************************)
\* The found paths, each with distinct nodes and apart from the others.
LEMMA FoundFacts ==
  ASSUME Basic, Sound
  PROVE  /\ Found \in Seq(Seq(Node))
         /\ \A i \in 1 .. Len(Found) : IsInjective(Found[i])
         /\ \A i, j \in 1 .. Len(Found) : i # j => Range(Found[i]) \cap Range(Found[j]) = {}
         /\ \A x : (\E i \in 1 .. Len(Found) : x \in Range(Found[i])) <=>
                     OnCollected(x) \/ (phase = "augment" /\ OnLocal(x))
<1> DEFINE locals == [t \in 1 .. NumThreads |-> local[t - 1]]
           c == path_collection
           n == Len(c)
<1>1. TypeOK /\ PathsSound /\ FlipSound /\ FlagsFresh
  BY DEF Basic, Sound
<1>2. c \in Seq(Seq(Node)) /\ n \in Nat /\ DOMAIN c = 1 .. n /\ local \in [Thread -> Seq(Node)]
  BY <1>1, LenProperties DEF TypeOK
<1>3. CollectionSound
  <2>1. CASE phase \in {"augment", "flip"}
    BY <1>1, <2>1 DEF PathsSound, FlipSound
  <2>2. CASE phase \notin {"augment", "flip"}
    <3>1. c = <<>>
      BY <1>1, <2>2 DEF FlagsFresh
    <3>2. QED  BY <3>1 DEF CollectionSound
  <2>3. QED  BY <2>1, <2>2
<1>4. /\ \A i \in 1 .. n : IsInjective(c[i])
      /\ \A i, j \in 1 .. n : i # j => Range(c[i]) \cap Range(c[j]) = {}
      /\ \A x : OnCollected(x) <=> \E i \in 1 .. n : x \in Range(c[i])
  BY <1>2, <1>3 DEF CollectionSound, FlipsWell, OnCollected
<1>5. CASE phase # "augment"
  <2>1. Found = c
    BY <1>2, <1>5, ConcatProperties DEF Found
  <2>2. QED  BY <1>2, <1>4, <1>5, <2>1
<1>6. CASE phase = "augment"
  <2>1. Found = c \o locals
    BY <1>6 DEF Found
  <2>2. \A t \in 1 .. NumThreads : t - 1 \in Thread
    BY ThreadAssumption DEF Thread
  <2>3. locals \in Seq(Seq(Node)) /\ Len(locals) = NumThreads
        /\ \A t \in 1 .. NumThreads : locals[t] = local[t - 1]
    <3>1. \A t \in 1 .. NumThreads : local[t - 1] \in Seq(Node)
      BY <1>2, <2>2
    <3>2. QED  BY <3>1, ThreadAssumption
  <2>4. /\ \A t \in Thread : IsInjective(local[t])
        /\ \A t \in Thread : \A x \in Range(local[t]) : ~OnCollected(x)
        /\ \A t, u \in Thread : t # u => Range(local[t]) \cap Range(local[u]) = {}
    BY <1>1, <1>6 DEF PathsSound, FlipsWell
  <2>5. \A x : OnLocal(x) <=> \E t \in 1 .. NumThreads : x \in Range(locals[t])
    <3>1. \A u \in Thread : u + 1 \in 1 .. NumThreads /\ (u + 1) - 1 = u
      BY ThreadAssumption DEF Thread
    <3>2. ASSUME NEW x, OnLocal(x)
          PROVE  \E t \in 1 .. NumThreads : x \in Range(locals[t])
      <4>1. PICK u \in Thread : x \in Range(local[u])
        BY <3>2 DEF OnLocal
      <4>2. u + 1 \in 1 .. NumThreads /\ locals[u + 1] = local[u]
        BY <2>3, <3>1
      <4>3. QED  BY <4>1, <4>2
    <3>3. ASSUME NEW x, NEW t \in 1 .. NumThreads, x \in Range(locals[t])
          PROVE  OnLocal(x)
      BY <2>2, <2>3, <3>3 DEF OnLocal
    <3>4. QED  BY <3>2, <3>3
  <2>6. /\ \A t \in 1 .. NumThreads : IsInjective(locals[t])
        /\ \A t \in 1 .. NumThreads : \A x \in Range(locals[t]) : ~OnCollected(x)
        /\ \A t, u \in 1 .. NumThreads : t # u => Range(locals[t]) \cap Range(locals[u]) = {}
    <3> HIDE DEF locals
    <3>1. \A t, u \in 1 .. NumThreads : t # u => t - 1 # u - 1
      BY ThreadAssumption
    <3>2. QED  BY ZenonT(30), <2>2, <2>3, <2>4, <3>1
  <2> HIDE DEF locals, c
  <2>7. /\ c \o locals \in Seq(Seq(Node)) /\ Len(c \o locals) = n + NumThreads
        /\ \A i \in 1 .. n : (c \o locals)[i] = c[i]
        /\ \A t \in 1 .. NumThreads : (c \o locals)[n + t] = locals[t]
    <3> DEFINE F == c \o locals
    <3>1. /\ F \in Seq(Seq(Node)) /\ Len(F) = n + NumThreads
          /\ \A i \in 1 .. (n + NumThreads) : F[i] = IF i <= n THEN c[i] ELSE locals[i - n]
      BY <1>2, <2>3, ConcatProperties
    <3> HIDE DEF F
    <3>2. \A i \in 1 .. n : i \in 1 .. (n + NumThreads) /\ i <= n
      BY <1>2, ThreadAssumption
    <3>3. \A t \in 1 .. NumThreads : n + t \in 1 .. (n + NumThreads) /\ ~(n + t <= n) /\ (n + t) - n = t
      BY <1>2, ThreadAssumption
    <3>4. (\A i \in 1 .. n : F[i] = c[i]) /\ \A t \in 1 .. NumThreads : F[n + t] = locals[t]
      BY <3>1, <3>2, <3>3
    <3>5. QED  BY <3>1, <3>4 DEF F
  <2>8. \A i \in 1 .. (n + NumThreads) : i \in 1 .. n \/ \E t \in 1 .. NumThreads : i = n + t
    <3>1. \A i \in 1 .. (n + NumThreads) : i \notin 1 .. n => i - n \in 1 .. NumThreads /\ i = n + (i - n)
      BY <1>2, ThreadAssumption
    <3>2. QED  BY <3>1
  <2>9. \A i \in 1 .. n, t \in 1 .. NumThreads : i \in 1 .. (n + NumThreads) /\ n + t \in 1 .. (n + NumThreads)
    BY <1>2, ThreadAssumption
  <2> DEFINE F == c \o locals
  <2>10. /\ F \in Seq(Seq(Node)) /\ Len(F) = n + NumThreads
         /\ \A i \in 1 .. n : F[i] = c[i]
         /\ \A t \in 1 .. NumThreads : F[n + t] = locals[t]
         /\ Found = F
    BY <2>1, <2>7
  <2> HIDE DEF F
  <2>11. \A i \in 1 .. (n + NumThreads) : IsInjective(F[i])
    BY SMTT(30), <1>4, <2>6, <2>8, <2>10
  <2>12. ASSUME NEW i \in 1 .. (n + NumThreads), NEW j \in 1 .. (n + NumThreads), i # j
         PROVE  Range(F[i]) \cap Range(F[j]) = {}
    <3>1. CASE i \in 1 .. n /\ j \in 1 .. n
      BY <1>4, <2>10, <2>12, <3>1
    <3>2. ASSUME NEW a \in 1 .. n, NEW t \in 1 .. NumThreads
          PROVE  Range(F[a]) \cap Range(F[n + t]) = {}
      BY <1>4, <2>6, <2>10
    <3>3. ASSUME NEW t \in 1 .. NumThreads, NEW u \in 1 .. NumThreads, i = n + t, j = n + u
          PROVE  Range(F[i]) \cap Range(F[j]) = {}
      BY <2>6, <2>10, <2>12, <3>3
    <3>4. QED  BY <2>8, <3>1, <3>2, <3>3
  <2>13. ASSUME NEW x
         PROVE  (\E i \in 1 .. (n + NumThreads) : x \in Range(F[i])) <=> OnCollected(x) \/ OnLocal(x)
    <3>1. (\E i \in 1 .. (n + NumThreads) : x \in Range(F[i])) => OnCollected(x) \/ OnLocal(x)
      BY ZenonT(30), <1>4, <2>5, <2>8, <2>10
    <3>2. OnCollected(x) => \E i \in 1 .. (n + NumThreads) : x \in Range(F[i])
      <4>1. \A i \in 1 .. n : i \in 1 .. (n + NumThreads)
        BY <1>2, ThreadAssumption
      <4>2. QED  BY <1>4, <2>10, <4>1
    <3>3. OnLocal(x) => \E i \in 1 .. (n + NumThreads) : x \in Range(F[i])
      <4>1. \A t \in 1 .. NumThreads : n + t \in 1 .. (n + NumThreads)
        BY <1>2, ThreadAssumption
      <4>2. QED  BY <2>5, <2>10, <4>1
    <3>4. QED  BY <3>1, <3>2, <3>3
  <2>14. QED  BY <1>6, <2>10, <2>11, <2>12, <2>13
<1>7. QED  BY <1>5, <1>6

\* No node is on two found paths, or twice on one.
LEMMA SoundPaths == Basic /\ Sound => PathsDisjoint
<1>1. ASSUME Basic, Sound
      PROVE  PathsDisjoint
  <2> DEFINE F == Found
  <2>1. /\ F \in Seq(Seq(Node))
        /\ \A i \in 1 .. Len(F) : IsInjective(F[i])
        /\ \A i, j \in 1 .. Len(F) : i # j => Range(F[i]) \cap Range(F[j]) = {}
    BY <1>1, FoundFacts
  <2> HIDE DEF F
  <2>2. IsInjective(FlattenSeq(F))
    BY <2>1, FlattenFacts
  <2>3. QED  BY <2>2 DEF PathsDisjoint, F
<1>2. QED  BY <1>1

\* The locked trees are those of the found paths and those a thread holds.
LEMMA SoundLocks == Basic /\ Sound => LocksAccounted
<1> SUFFICES ASSUME Basic, Sound, phase = "augment"
             PROVE  /\ {r \in Node : select_tree[r] = 1} = OnPath \cup Held
                    /\ OnPath \cap Held = {}
  BY DEF LocksAccounted
<1>1. TypeOK /\ MatesMutual /\ PathsSound /\ LocksSound /\ ThreadsPlaced
  BY DEF Basic, Sound, MatesKept
<1> DEFINE F == Found
<1>2. F \in Seq(Seq(Node)) /\ \A x : (\E i \in 1 .. Len(F) : x \in Range(F[i])) <=> OnCollected(x) \/ OnLocal(x)
  BY FoundFacts
<1> HIDE DEF F
<1>3. \A x : x \in Range(FlattenSeq(F)) <=> OnCollected(x) \/ OnLocal(x)
  BY <1>2, FlattenFacts
<1>4. \A r : r \in OnPath <=> \E x : (OnCollected(x) \/ OnLocal(x)) /\ r = belongs[x]
  BY <1>3 DEF OnPath, F
<1>5. \A r : r \in Held <=> \E t \in Thread : pc[t] \in Holding /\ r = TreeV(t)
  BY DEF Held, Holding
<1>6. /\ \A x : OnCollected(x) => OnCollected(belongs[x]) /\ x \in Node
      /\ \A x : OnLocal(x) => OnLocal(belongs[x]) /\ x \in Node
  BY <1>1, RootsFound
<1>7. /\ \A x \in Node : OnCollected(x) \/ OnLocal(x) => select_tree[belongs[x]] = 1
      /\ \A t \in Thread : pc[t] \in Holding =>
           select_tree[TreeV(t)] = 1 /\ ~OnCollected(TreeV(t)) /\ ~OnLocal(TreeV(t))
      /\ \A r \in Node : select_tree[r] = 1 =>
           /\ belongs[r] = r
           /\ \/ OnCollected(r) \/ OnLocal(r)
              \/ \E t \in Thread : pc[t] \in Holding /\ TreeV(t) = r
  BY <1>1 DEF LocksSound
<1>8. ASSUME NEW t \in Thread, pc[t] \in Holding
      PROVE  TreeV(t) \in Node
  <2>1. todo[t] # <<>>
    BY <1>1, <1>8 DEF ThreadsPlaced, Busy
  <2>2. QED  BY <2>1, BridgeAt, <1>1 DEF Sound
<1>9. \A r : r \in OnPath => r \in Node /\ select_tree[r] = 1
  BY <1>4, <1>6, <1>7
<1>10. \A r : r \in Held => r \in Node /\ select_tree[r] = 1
  BY <1>5, <1>7, <1>8
<1>11. \A r \in Node : select_tree[r] = 1 => r \in OnPath \/ r \in Held
  BY <1>4, <1>5, <1>7
<1>12. \A r \in OnPath : r \notin Held
  <2>1. SUFFICES ASSUME NEW r \in OnPath, NEW t \in Thread, pc[t] \in Holding, r = TreeV(t)
                 PROVE  FALSE
    BY <1>5
  <2>2. OnCollected(r) \/ OnLocal(r)
    BY <1>4, <1>6
  <2>3. QED  BY <1>7, <2>1, <2>2
<1>13. QED  BY <1>9, <1>10, <1>11, <1>12

\* The forest after a phase, the frontier, and the matching handed out.
LEMMA SoundForest ==
  ASSUME Basic, Sound
  PROVE  /\ TreesClosed /\ FrontierSound /\ ReturnsMatching
         /\ phase # "blossom" => ForestStaysLegal
<1>1. TreesClosed
  <2>1. CASE phase \in SearchPhases /\ Joined
    BY <2>1, JoinedFacts DEF TreesClosed, TreesWhole
  <2>2. QED  BY <2>1 DEF TreesClosed
<1>2. FrontierSound
  BY DEF Sound, Collected, FrontierSound, EvenNode
<1>3. ReturnsMatching
  BY DEF Sound, GraphKept, ReturnsMatching
<1>4. phase # "blossom" => ForestStaysLegal
  BY DEF Sound, ForestStaysLegal, SearchPhases
<1>5. QED  BY <1>1, <1>2, <1>3, <1>4

-----------------------------------------------------------------------------
(***************************************************************************)
(* The matching as it will be when the flip is over.                       *)
(***************************************************************************)
\* A sequence that lists, pair by pair, nodes to be mated.
Paired(p) ==
  /\ p \in Seq(Node) /\ Len(p) % 2 = 0
  /\ \A k \in 1 .. (Len(p) \div 2) : Joins(p[2 * k - 1], p[2 * k])

\* Two of them in a row are one.
LEMMA PairedConcat ==
  ASSUME NEW p, NEW q, Paired(p), Paired(q)
  PROVE  Paired(p \o q)
<1>1. PICK m \in Nat : Len(p) = 2 * m /\ Len(p) \div 2 = m
  <2>1. Len(p) \in Nat /\ Len(p) % 2 = 0
    BY LenProperties DEF Paired
  <2>2. Len(p) \div 2 \in Nat /\ Len(p) = 2 * (Len(p) \div 2)
    BY <2>1
  <2>3. QED  BY <2>2
<1>2. PICK n \in Nat : Len(q) = 2 * n /\ Len(q) \div 2 = n
  <2>1. Len(q) \in Nat /\ Len(q) % 2 = 0
    BY LenProperties DEF Paired
  <2>2. Len(q) \div 2 \in Nat /\ Len(q) = 2 * (Len(q) \div 2)
    BY <2>1
  <2>3. QED  BY <2>2
<1>3. /\ p \in Seq(Node) /\ \A k \in 1 .. m : Joins(p[2 * k - 1], p[2 * k])
      /\ q \in Seq(Node) /\ \A k \in 1 .. n : Joins(q[2 * k - 1], q[2 * k])
  BY <1>1, <1>2 DEF Paired
<1> DEFINE s == p \o q
<1>4. /\ s \in Seq(Node) /\ Len(s) = 2 * m + 2 * n
      /\ \A i \in 1 .. (2 * m + 2 * n) : s[i] = IF i <= 2 * m THEN p[i] ELSE q[i - 2 * m]
  <2>1. /\ s \in Seq(Node) /\ Len(s) = Len(p) + Len(q)
        /\ \A i \in 1 .. (Len(p) + Len(q)) : s[i] = IF i <= Len(p) THEN p[i] ELSE q[i - Len(p)]
    BY <1>3, ConcatProperties
  <2> HIDE DEF s
  <2>2. QED  BY <1>1, <1>2, <2>1
<1> HIDE DEF s
<1>5. Len(s) % 2 = 0 /\ Len(s) \div 2 = m + n
  BY <1>1, <1>2, <1>4
<1>6. ASSUME NEW k \in 1 .. (m + n)
      PROVE  Joins(s[2 * k - 1], s[2 * k])
  <2>1. 2 * k - 1 \in 1 .. (2 * m + 2 * n) /\ 2 * k \in 1 .. (2 * m + 2 * n)
    BY <1>1, <1>2, <1>6
  <2>2. CASE k <= m
    <3>1. k \in 1 .. m /\ 2 * k - 1 <= 2 * m /\ 2 * k <= 2 * m
      BY <1>1, <1>2, <2>2
    <3>2. s[2 * k - 1] = p[2 * k - 1] /\ s[2 * k] = p[2 * k]
      BY <1>4, <2>1, <3>1
    <3>3. QED  BY <1>3, <3>1, <3>2
  <2>3. CASE k > m
    <3>1. PICK l \in 1 .. n : k = m + l
      <4>1. k - m \in 1 .. n /\ k = m + (k - m)
        BY <1>1, <1>2, <2>3
      <4>2. QED  BY <4>1
    <3>2. /\ ~(2 * k - 1 <= 2 * m) /\ ~(2 * k <= 2 * m)
          /\ (2 * k - 1) - 2 * m = 2 * l - 1 /\ 2 * k - 2 * m = 2 * l
      BY <1>1, <1>2, <3>1
    <3>3. s[2 * k - 1] = q[2 * l - 1] /\ s[2 * k] = q[2 * l]
      BY <1>4, <2>1, <3>2
    <3>4. QED  BY <1>3, <3>3
  <2>4. QED  BY <1>1, <1>6, <2>2, <2>3
<1>7. QED  BY <1>4, <1>5, <1>6 DEF Paired, s

\* The found paths in a row.
LEMMA PathsInARow ==
  ASSUME path_collection \in Seq(Seq(Node)), CollectionSound
  PROVE  /\ Paired(FlattenSeq(path_collection)) /\ IsInjective(FlattenSeq(path_collection))
         /\ \A x : x \in Range(FlattenSeq(path_collection)) <=> OnCollected(x)
<1> DEFINE c == path_collection
<1>1. Len(c) \in Nat /\ DOMAIN c = 1 .. Len(c) /\ \A i \in 1 .. Len(c) : c[i] \in Seq(Node)
  BY LenProperties, ElementOfSeq
<1>2. \A i \in 1 .. Len(c) : Paired(c[i])
  <2>1. SUFFICES ASSUME NEW i \in 1 .. Len(c)
                 PROVE  Paired(c[i])
    OBVIOUS
  <2>2. Len(c[i]) % 2 = 0
    BY <1>1 DEF CollectionSound, FlipsWell
  <2>3. \A k \in 1 .. (Len(c[i]) \div 2) : Joins(c[i][2 * k - 1], c[i][2 * k])
    BY <1>1 DEF Joins
  <2>4. QED  BY <1>1, <2>2, <2>3 DEF Paired
<1>3. /\ \A i \in 1 .. Len(c) : IsInjective(c[i])
      /\ \A i, j \in 1 .. Len(c) : i # j => Range(c[i]) \cap Range(c[j]) = {}
      /\ \A x : OnCollected(x) <=> \E i \in 1 .. Len(c) : x \in Range(c[i])
  BY <1>1 DEF CollectionSound, FlipsWell, OnCollected
<1> HIDE DEF c
<1>4. c \in Seq(Seq(Node)) /\ Len(c) \in Nat
  BY <1>1 DEF c
<1>5. PICK n \in Nat : n = Len(c)
  BY <1>4
<1>6. PICK f \in [Nat -> Seq(Node)] :
           /\ f[0] = <<>>
           /\ \A k \in Nat : k < n => f[k + 1] = f[k] \o c[k + 1]
           /\ FlattenSeq(c) = f[n]
  BY <1>4, <1>5, FlattenSteps
<1> DEFINE T == {k \in Nat : k <= n => Paired(f[k])}
<1>7. 0 \in T
  <2>1. Paired(<<>>)
    BY DEF Paired
  <2>2. QED  BY <1>6, <2>1
<1>8. \A k \in Nat : k \in T => k + 1 \in T
  <2>1. SUFFICES ASSUME NEW k \in Nat, k + 1 <= n, k <= n => Paired(f[k])
                 PROVE  Paired(f[k + 1])
    OBVIOUS
  <2>2. k < n /\ k <= n /\ k + 1 \in 1 .. n
    BY <2>1
  <2>3. Paired(f[k]) /\ Paired(c[k + 1])
    BY <1>2, <1>5, <2>1, <2>2
  <2>4. QED  BY <1>6, <2>2, <2>3, PairedConcat
<1> HIDE DEF T
<1>9. \A k \in Nat : k \in T
  BY <1>7, <1>8, SetInduction
<1>10. Paired(f[n])
  BY <1>9 DEF T
<1>11. /\ IsInjective(FlattenSeq(c)) /\ \A x : x \in Range(FlattenSeq(c)) <=> OnCollected(x)
  BY <1>3, <1>4, FlattenFacts
<1>12. QED  BY <1>6, <1>10, <1>11 DEF c

\* The matching after the flip, node by node.
LEMMA FlippedMates ==
  ASSUME path_collection \in Seq(Seq(Node)), CollectionSound, NEW N,
         N = FlipPath(M, FlattenSeq(path_collection))
  PROVE  /\ N = [v \in Node |-> N[v]]
         /\ \A v \in Node : ~OnCollected(v) => N[v] = M[v]
         /\ \A c, d \in Node : Joins(c, d) => N[c] = d /\ N[d] = c
<1> DEFINE p == FlattenSeq(path_collection)
<1>1. Paired(p) /\ IsInjective(p) /\ \A x : x \in Range(p) <=> OnCollected(x)
  BY PathsInARow
<1> DEFINE at(v) == CHOOSE i \in DOMAIN p : p[i] = v
<1>2. N = [v \in Node |-> IF v \notin Range(p) THEN M[v]
                          ELSE IF at(v) % 2 = 1 THEN p[at(v) + 1] ELSE p[at(v) - 1]]
  BY DEF FlipPath
<1> HIDE DEF p
<1>3. /\ p \in Seq(Node) /\ Len(p) \in Nat /\ DOMAIN p = 1 .. Len(p)
      /\ \A i \in 1 .. Len(p) : p[i] \in Node /\ p[i] \in Range(p)
  <2>1. p \in Seq(Node)
    BY <1>1 DEF Paired
  <2>2. Len(p) \in Nat /\ DOMAIN p = 1 .. Len(p)
    BY <2>1, LenProperties
  <2>3. QED  BY <2>1, <2>2, ElementOfSeq DEF Range
<1>4. ASSUME NEW i \in 1 .. Len(p)
      PROVE  at(p[i]) = i
  <2>1. at(p[i]) \in 1 .. Len(p) /\ p[at(p[i])] = p[i]
    BY <1>3
  <2>2. QED  BY <1>1, <1>3, <2>1 DEF IsInjective
<1> HIDE DEF at
<1>5. \A i \in 1 .. Len(p) : N[p[i]] = IF i % 2 = 1 THEN p[i + 1] ELSE p[i - 1]
  BY <1>2, <1>3, <1>4
<1>6. ASSUME NEW k \in 1 .. (Len(p) \div 2)
      PROVE  /\ 2 * k - 1 \in 1 .. Len(p) /\ 2 * k \in 1 .. Len(p)
             /\ N[p[2 * k - 1]] = p[2 * k] /\ N[p[2 * k]] = p[2 * k - 1]
  <2>1. 2 * k - 1 \in 1 .. Len(p) /\ 2 * k \in 1 .. Len(p)
    BY <1>3, <1>6
  <2>2. (2 * k - 1) % 2 = 1 /\ (2 * k) % 2 # 1 /\ (2 * k - 1) + 1 = 2 * k
    BY <1>6
  <2>3. QED  BY <1>5, <2>1, <2>2
<1>7. ASSUME NEW c \in Node, NEW d \in Node, Joins(c, d)
      PROVE  N[c] = d /\ N[d] = c
  <2>1. OnCollected(c) /\ \A a, b : Joins(a, b) => (c = a /\ d = b) \/ {c, d} \cap {a, b} = {}
    BY <1>7, JoinFacts
  <2>2. PICK j \in 1 .. Len(p) : c = p[j]
    BY <1>1, <1>3, <2>1 DEF Range
  <2>3. \E k \in 1 .. (Len(p) \div 2) : j = 2 * k - 1 \/ j = 2 * k
    <3>1. PICK n \in Nat : Len(p) = 2 * n /\ Len(p) \div 2 = n
      <4>1. Len(p) \in Nat /\ Len(p) % 2 = 0
        BY <1>1, <1>3 DEF Paired
      <4>2. Len(p) \div 2 \in Nat /\ Len(p) = 2 * (Len(p) \div 2)
        BY <4>1
      <4>3. QED  BY <4>2
    <3>2. PICK k \in Nat : j = 2 * k - 1 \/ j = 2 * k
      <4>1. j \div 2 \in Nat /\ (j = 2 * (j \div 2) \/ j = 2 * (j \div 2) + 1)
        BY <1>3
      <4>2. (j \div 2) + 1 \in Nat /\ (j = 2 * (j \div 2) \/ j = 2 * ((j \div 2) + 1) - 1)
        BY <4>1
      <4>3. QED  BY <4>1, <4>2
    <3>3. k \in 1 .. n
      BY <1>3, <3>1, <3>2
    <3>4. QED  BY <3>1, <3>2, <3>3
  <2>4. PICK k \in 1 .. (Len(p) \div 2) : j = 2 * k - 1 \/ j = 2 * k
    BY <2>3
  <2>5. Joins(p[2 * k - 1], p[2 * k])
    BY <1>1 DEF Paired
  <2>6. c = p[2 * k - 1] /\ d = p[2 * k]
    BY <2>1, <2>2, <2>4, <2>5
  <2>7. QED  BY <1>6, <2>6
<1>8. \A v \in Node : ~OnCollected(v) => N[v] = M[v]
  BY <1>1, <1>2
<1>9. N = [v \in Node |-> N[v]]
  BY <1>2
<1>10. QED  BY <1>7, <1>8, <1>9

\* Paths that a search found make a larger matching, which keeps every
\* matched node matched.
LEMMA PathsGrow ==
  ASSUME Basic, Sound, phase = "augment", Joined, path_collection # <<>>, NEW N,
         N = FlipPath(M, FlattenSeq(path_collection))
  PROVE  IsMatching(adj, N) /\ Matched(M) \subseteq Matched(N) /\ Matched(M) # Matched(N)
<1>1. TypeOK /\ MatesMutual /\ GraphKept /\ PathsSound
  BY DEF Basic, Sound, MatesKept
<1>2. TreesWhole
  BY JoinedFacts DEF SearchPhases
<1>3. CollectionSound /\ \A i \in DOMAIN path_collection : ClosedPath(path_collection[i])
  BY <1>1 DEF PathsSound
<1>4. path_collection \in Seq(Seq(Node)) /\ M \in [Node -> Node \cup {NoNode}]
  BY <1>1 DEF TypeOK, ForestTypeOK
<1>5. /\ \A v \in Node : ~OnCollected(v) => N[v] = M[v]
      /\ \A c, d \in Node : Joins(c, d) => N[c] = d /\ N[d] = c
  BY <1>3, <1>4, FlippedMates
<1>6. \A x \in Node : x # NoNode
  BY DEF Node, NoNode
<1>7. ASSUME NEW x \in Node, OnCollected(x)
      PROVE  N[x] \in Node /\ N[N[x]] = x /\ IsAdjacent(adj, x, N[x])
  <2>1. PICK y \in Node : Joins(x, y) \/ Joins(y, x)
    BY <1>3, <1>4, <1>7, EveryNodeJoined
  <2>2. IsAdjacent(adj, x, y)
    BY <1>3, <1>4, <2>1, JoinFacts
  <2>3. N[x] = y /\ N[y] = x
    BY <1>5, <2>1
  <2>4. QED  BY <2>2, <2>3
<1>8. ASSUME NEW x \in Node, ~OnCollected(x), M[x] # NoNode
      PROVE  N[x] = M[x] /\ M[x] \in Node /\ M[M[x]] = x /\ N[M[x]] = x /\ IsAdjacent(adj, x, M[x])
  <2>1. M[x] \in Node /\ M[M[x]] = x /\ IsAdjacent(adj, x, M[x])
    <3>1. IsMatching(adj, M)
      BY <1>1 DEF GraphKept
    <3>2. QED  BY <1>8, <3>1 DEF IsMatching, Matched
  <2>2. ~OnCollected(M[x])
    BY <1>3, <1>6, <1>8, <2>1 DEF OnCollected, ClosedPath
  <2>3. QED  BY <1>5, <1>8, <2>1, <2>2
<1>9. IsMatching(adj, N)
  <2>1. SUFFICES ASSUME NEW x \in Node, N[x] # NoNode
                 PROVE  N[x] \in Node /\ N[N[x]] = x /\ IsAdjacent(adj, x, N[x])
    BY DEF IsMatching, Matched
  <2>2. CASE OnCollected(x)
    BY <1>7, <2>2
  <2>3. CASE ~OnCollected(x)
    BY <1>5, <1>8, <2>1, <2>3
  <2>4. QED  BY <2>2, <2>3
<1>10. \A x \in Node : M[x] # NoNode => N[x] # NoNode
  BY <1>6, <1>7, <1>8
<1>11. PICK r \in Node : OnCollected(r) /\ M[r] = NoNode
  <2>1. 1 \in DOMAIN path_collection
    <3>1. Len(path_collection) # 0 /\ Len(path_collection) \in Nat
          /\ DOMAIN path_collection = 1 .. Len(path_collection)
      BY <1>4, EmptySeq, LenProperties
    <3>2. QED  BY <3>1
  <2> DEFINE p == path_collection[1]
  <2>2. p \in Seq(Node) /\ p # <<>> /\ FlipsWell(p)
    BY <1>3, <1>4, <2>1, ElementOfSeq, LenProperties DEF CollectionSound
  <2>3. \A x \in Range(p) : OnCollected(x)
    BY <2>1 DEF OnCollected
  <2> HIDE DEF p
  <2>4. p[1] \in Range(p) /\ p[1] \in Node
    <3>1. Len(p) # 0 /\ Len(p) \in Nat /\ DOMAIN p = 1 .. Len(p)
      BY <2>2, EmptySeq, LenProperties
    <3>2. 1 \in 1 .. Len(p)
      BY <3>1
    <3>3. QED  BY <2>2, <3>1, <3>2, ElementOfSeq DEF Range
  <2>5. belongs[p[1]] \in Range(p) /\ belongs[p[1]] \in Node
    <3>1. \A x \in Range(p) : x \in Node
      BY <2>2, RangeOfSeq
    <3>2. QED  BY <2>2, <2>4, <3>1 DEF FlipsWell
  <2>6. M[belongs[p[1]]] = NoNode
    BY <1>2, <1>6, <2>4, <2>5 DEF TreesWhole
  <2>7. QED  BY <2>3, <2>5, <2>6
<1>12. N[r] # NoNode
  BY <1>6, <1>7, <1>11
<1>13. QED  BY <1>9, <1>10, <1>11, <1>12 DEF Matched

\* A step of the flip does not change what the flip will end with.
LEMMA FlipLeavesEnd ==
  ASSUME Basic, Sound, phase = "flip", NEW t \in Thread, FlipPair(t) \/ FlipEnds(t)
  PROVE  FlipPath(M, FlattenSeq(path_collection))' = FlipPath(M, FlattenSeq(path_collection))
<1>1. path_collection' = path_collection /\ path_collection \in Seq(Seq(Node)) /\ CollectionSound /\ TypeOK
  BY DEF FlipPair, FlipEnds, Basic, Sound, TypeOK, FlipSound
<1>2. CASE FlipEnds(t)
  BY <1>1, <1>2 DEF FlipEnds, forestVars
<1>3. CASE FlipPair(t)
  <2> DEFINE p == FlattenSeq(path_collection)
             a == Edge(t)[1]  b == Edge(t)[2]
  <2>1. \A x : x \in Range(p) <=> OnCollected(x)
    BY <1>1, PathsInARow
  <2>2. M' = [M EXCEPT ![a] = b, ![b] = a] /\ todo[t] # <<>>
    BY <1>3 DEF FlipPair
  <2>3. OnCollected(a) /\ OnCollected(b)
    <3>1. Edge(t) \in Range(todo[t])
      BY <1>1, <2>2, EdgeFacts
    <3>2. Joins(a, b)
      BY <3>1 DEF Sound, FlipSound
    <3>3. QED  BY <1>1, <3>2, JoinFacts
  <2> HIDE DEF p, a, b
  <2>4. \A x \in Node : x \notin Range(p) => M'[x] = M[x]
    BY <1>1, <2>1, <2>2, <2>3 DEF TypeOK, ForestTypeOK
  <2>5. FlipPath(M', p) = FlipPath(M, p)
    BY <2>4 DEF FlipPath
  <2>6. QED  BY <1>1, <2>5 DEF p
<1>4. QED  BY <1>2, <1>3

\* When the flip is over the matching is what the paths say.
LEMMA FlipReachesEnd ==
  ASSUME Basic, Sound, phase = "flip", Joined
  PROVE  FlipPath(M, FlattenSeq(path_collection)) = M
<1> DEFINE N == FlipPath(M, FlattenSeq(path_collection))
<1>1. path_collection \in Seq(Seq(Node)) /\ CollectionSound /\ M \in [Node -> Node \cup {NoNode}]
  BY DEF Basic, Sound, TypeOK, ForestTypeOK, FlipSound
<1>2. /\ N = [v \in Node |-> N[v]]
      /\ \A v \in Node : ~OnCollected(v) => N[v] = M[v]
      /\ \A c, d \in Node : Joins(c, d) => N[c] = d /\ N[d] = c
  BY <1>1, FlippedMates
<1> HIDE DEF N
<1>3. ASSUME NEW x \in Node
      PROVE  N[x] = M[x]
  <2>1. CASE OnCollected(x)
    <3>1. PICK y \in Node : Joins(x, y) \/ Joins(y, x)
      BY <1>1, <2>1, EveryNodeJoined
    <3>2. M[x] = y
      BY <3>1, AllFlipped
    <3>3. QED  BY <1>2, <3>1, <3>2
  <2>2. QED  BY <1>2, <2>1
<1>4. N = M
  BY <1>1, <1>2, <1>3
<1>5. QED  BY <1>4 DEF N

-----------------------------------------------------------------------------
\* A step that changes nothing keeps Sound.
LEMMA SameSound ==
  ASSUME Sound, UNCHANGED searchVars
  PROVE  Sound'
<1>0. /\ adj' = adj /\ M' = M /\ is_even' = is_even /\ belongs' = belongs
      /\ path_table' = path_table /\ nodes_vector' = nodes_vector
      /\ vector_1' = vector_1 /\ vector_2' = vector_2
      /\ select_tree' = select_tree /\ select_match' = select_match
      /\ select_blossom' = select_blossom /\ local' = local /\ lap' = lap /\ todo' = todo
      /\ path_collection' = path_collection /\ pc' = pc /\ phase' = phase
  BY DEF searchVars, forestVars, frontierVars, flagVars, threadVars
<1>1. GraphKept' /\ FlagsFresh' /\ LapsInTrees'
  BY <1>0 DEF Sound, GraphKept, FlagsFresh, LapsInTrees
<1>2. TreesSound'
  BY <1>0 DEF Sound, TreesSound, IsRoot, Unreached, Growing, Edge, Mate, Slot, Matched
<1>3. (phase \in {"augment", "expand"} => LegalForest)'
  BY <1>0 DEF Sound, LegalForest, EvenWalkLegal
<1>4. Collected' /\ Pending' /\ SharesSound'
  BY <1>0 DEF Sound, Collected, Pending, SharesSound, EvenNode, IsBridge
<1>5. PathsSound'
  BY <1>0 DEF Sound, PathsSound, CollectionSound, FlipsWell, ClosedPath, OnCollected
<1>6. LocksSound'
  BY <1>0 DEF Sound, LocksSound, OnCollected, OnLocal, TreeV, Edge
<1>7. GrowthSound'
  BY <1>0 DEF Sound, GrowthSound, Edge, Mate, Slot, Unreached
<1>8. FlipSound'
  BY <1>0 DEF Sound, FlipSound, CollectionSound, FlipsWell, Joins, OnCollected, IsRoot, EvenNode, EvenWalkLegal
<1>9. RepairSound'
  BY <1>0 DEF Sound, RepairSound, Repaired, InValidTree, Unreached, IsRoot, EvenWalkLegal, Matched
<1>10. QED  BY <1>1, <1>2, <1>3, <1>4, <1>5, <1>6, <1>7, <1>8, <1>9 DEF Sound

-----------------------------------------------------------------------------
\* A step of a thread keeps Sound, and in a search the entries of the even
\* nodes, if the walks are legal when it shrinks a blossom.
LEMMA ThreadSound ==
  ASSUME Basic, Basic', Sound, phase = "blossom" => LegalForest, NEW t \in Thread, ThreadStep(t)
  PROVE  Sound' /\ (phase \in SearchPhases => KeepsEntries)
<1>1. forestVars' = forestVars => KeepsEntries
  BY DEF forestVars, KeepsEntries
<1>2. CASE phase = "reuse" /\ Reuse(t)
  BY <1>2, ReuseSound DEF SearchPhases
<1>3. CASE phase = "augment" /\ Augments(t)
  BY <1>1, <1>3, AugmentSound DEF Augments
<1>4. CASE phase = "expand" /\ Expands(t)
  BY <1>4, ExpandSound, ExpandLegal
<1>5. CASE phase = "blossom" /\ Shrinks(t)
  BY <1>5, ShrinkSound
<1>6. CASE phase = "flip" /\ (FlipPair(t) \/ FlipEnds(t))
  BY <1>6, FlipKeepsSound DEF SearchPhases
<1>7. CASE phase \in SearchPhases /\ Leaves(t)
  BY <1>1, <1>7, LeaveSound DEF Leaves
<1>8. CASE phase = "augment" /\ TakesShare(t, Bridges)
  BY <1>1, <1>8, ShareSound DEF TakesShare, SearchPhases
<1>9. CASE phase = "expand" /\ TakesShare(t, Outward)
  BY <1>1, <1>9, ShareSound DEF TakesShare, SearchPhases
<1>10. CASE phase = "blossom" /\ TakesShare(t, Inward)
  BY <1>1, <1>10, ShareSound DEF TakesShare, SearchPhases
<1>11. QED
  BY <1>2, <1>3, <1>4, <1>5, <1>6, <1>7, <1>8, <1>9, <1>10 DEF ThreadStep, SearchPhases

-----------------------------------------------------------------------------
(***************************************************************************)
(* The refinement: seen from outside, M is replaced by what the flip will  *)
(* have made of it as soon as the paths are found.                         *)
(***************************************************************************)
Outcome == IF phase = "flip" THEN FlipPath(M, FlattenSeq(path_collection)) ELSE M

\* The matching seen from outside is left alone, or grows.
OutcomeGrows ==
  /\ adj' = adj
  /\ \/ Outcome' = Outcome
     \/ /\ IsMatching(adj, Outcome') /\ Matched(Outcome) \subseteq Matched(Outcome')
        /\ Matched(Outcome) # Matched(Outcome')

\* No step of a thread shows.
LEMMA ThreadOutcome ==
  ASSUME Basic, Sound, NEW t \in Thread, ThreadStep(t)
  PROVE  OutcomeGrows
<1>1. CASE phase = "flip"
  <2>1. FlipPair(t) \/ FlipEnds(t)
    BY <1>1 DEF ThreadStep
  <2>2. phase' = phase /\ adj' = adj
    BY <2>1 DEF FlipPair, FlipEnds, forestVars
  <2>3. QED  BY <1>1, <2>1, <2>2, FlipLeavesEnd DEF Outcome, OutcomeGrows
<1>2. CASE phase # "flip"
  <2>1. phase' = phase /\ adj' = adj /\ M' = M
    BY <1>2 DEF ThreadStep, Reuse, Augments, Expands, Shrinks, TakesShare, Leaves, forestVars
  <2>2. QED  BY <1>2, <2>1 DEF Outcome, OutcomeGrows
<1>3. QED  BY <1>1, <1>2

\* Nor do the steps of the driver between the phases of a search.
LEMMA QuietOutcome ==
  ASSUME UNCHANGED <<adj, M>>, phase # "flip", phase' # "flip"
  PROVE  OutcomeGrows
BY DEF Outcome, OutcomeGrows

\* The step that starts the flip is the one that shows.
LEMMA StartOutcome ==
  ASSUME Basic, Sound, phase = "augment", Joined, path_collection # <<>>,
         UNCHANGED <<adj, M, path_collection>>, phase' = "flip"
  PROVE  OutcomeGrows
<1>1. Outcome = M /\ Outcome' = FlipPath(M, FlattenSeq(path_collection))
  BY DEF Outcome
<1>2. QED  BY <1>1, PathsGrow DEF OutcomeGrows

\* The step after it does not.
LEMMA EndOutcome ==
  ASSUME Basic, Sound, phase = "flip", Joined, phase' # "flip", UNCHANGED <<adj, M>>
  PROVE  OutcomeGrows
BY FlipReachesEnd DEF Outcome, OutcomeGrows

\* This is what MatchingGrowth allows.
LEMMA GrowthFollows ==
  /\ IsMatching(adj, Outcome) => Growth!Init
  /\ OutcomeGrows => [Growth!Grow]_<<adj, Outcome>>
BY DEF Outcome, OutcomeGrows, Growth!Init, Growth!Grow, Growth!IsMatching, Growth!Matched,
       Growth!IsAdjacent, Growth!Node, Growth!NoNode, IsMatching, Matched, IsAdjacent, Node, NoNode

\* What the caller hands in is a matching.
LEMMA InitOutcome ==
  ASSUME NEW first \in {"reuse", "exposed"}, DriverInit(first)
  PROVE  IsMatching(adj, Outcome)
<1>1. PICK s \in Starts : adj = s.adj /\ M = s.M
  BY DEF DriverInit
<1>2. phase # "flip"
  BY DEF DriverInit
<1>3. QED  BY <1>1, <1>2, StartsAssumption DEF Outcome

-----------------------------------------------------------------------------
(***************************************************************************)
(* Bipartite graphs: the even nodes of a tree are on its root's side and   *)
(* the odd ones on the other, so no edge of a tree joins two even nodes    *)
(* and the blossom phase writes nothing, with any number of threads.       *)
(***************************************************************************)
\* S is one side of the graph.
SideOf(S) == \A v, w \in Node : IsAdjacent(adj, v, w) => ((v \in S) # (w \in S))

\* The even nodes of a tree, and no others, are on the side of its root.
TreesSided(S) ==
  \A x \in Node : belongs[x] # NoNode => (is_even[x] = 1 <=> (x \in S <=> belongs[x] \in S))

\* No thread has found a blossom.
NoBlossom ==
  phase = "blossom" =>
    LegalForest /\ \A t \in Thread : pc[t] \notin {"visit", "claim", "crashed"} \cup Filling

Bipartite == NoBlossom /\ \E S \in SUBSET Node : SideOf(S) /\ TreesSided(S)

\* The graph is bipartite from the start.
LEMMA BipartiteInitially ==
  ASSUME adj \in [Node -> Seq(Node)], IsBipartite(adj), phase # "blossom",
         belongs = [v \in Node |-> NoNode]
  PROVE  Bipartite
<1>1. PICK S \in SUBSET Node : \A v \in Node : \A w \in Range(adj[v]) : (v \in S) # (w \in S)
  BY DEF IsBipartite
<1>2. SideOf(S)
  BY <1>1 DEF SideOf, IsAdjacent, Range
<1>3. TreesSided(S)
  BY DEF TreesSided
<1>4. QED  BY <1>2, <1>3 DEF Bipartite, NoBlossom

\* A step that leaves the forest alone, and no blossom phase begins.
LEMMA QuietBipartite ==
  ASSUME Bipartite, adj' = adj, is_even' = is_even, belongs' = belongs, phase' # "blossom"
  PROVE  Bipartite'
BY DEF Bipartite, NoBlossom, SideOf, TreesSided

\* Nor does a repair or a fresh forest change a side: each entry that is not
\* kept becomes a root or is reset.
LEMMA ResetBipartite ==
  ASSUME Bipartite, adj' = adj, phase' # "blossom",
         \A x \in Node : \/ is_even'[x] = is_even[x] /\ belongs'[x] = belongs[x]
                         \/ is_even'[x] = 1 /\ belongs'[x] = x
                         \/ belongs'[x] = NoNode
  PROVE  Bipartite'
<1>1. PICK S \in SUBSET Node : SideOf(S) /\ TreesSided(S)
  BY DEF Bipartite
<1>2. SideOf(S)'
  BY <1>1 DEF SideOf
<1>3. TreesSided(S)'
  BY <1>1 DEF TreesSided
<1>4. NoBlossom'
  BY DEF NoBlossom
<1>5. QED  BY <1>2, <1>3, <1>4 DEF Bipartite

\* The blossom phase begins with the forest that expansion has left.
LEMMA EnterBipartite ==
  ASSUME Bipartite, Sound, phase = "expand", forestVars' = forestVars,
         NEW work, Spawn(work)
  PROVE  Bipartite'
<1>1. /\ adj' = adj /\ M' = M /\ is_even' = is_even /\ belongs' = belongs
      /\ path_table' = path_table
  BY DEF forestVars
<1>2. PICK S \in SUBSET Node : SideOf(S) /\ TreesSided(S)
  BY DEF Bipartite
<1>3. SideOf(S)' /\ TreesSided(S)'
  BY <1>1, <1>2 DEF SideOf, TreesSided
<1>4. LegalForest
  BY DEF Sound
<1>5. LegalForest'
  BY <1>1, <1>4 DEF LegalForest, EvenWalkLegal
<1>6. \A t \in Thread : pc'[t] \in {"fetch", "scan"}
  BY DEF Spawn
<1>7. NoBlossom'
  BY <1>5, <1>6 DEF NoBlossom, Filling
<1>8. QED  BY <1>3, <1>7 DEF Bipartite

\* In the blossom phase every edge of a share leads to an odd node.
LEMMA ShrinkBipartite ==
  ASSUME Basic, Sound, Bipartite, phase = "blossom", NEW t \in Thread, Shrinks(t)
  PROVE  /\ UNCHANGED <<adj, M, is_even, belongs, path_table, phase>>
         /\ pc'[t] \notin {"visit", "claim", "crashed"} \cup Filling
         /\ \A u \in Thread : u # t => pc'[u] = pc[u]
<1>1. /\ TypeOK /\ ThreadsPlaced /\ SharesSound
      /\ pc[t] \notin {"visit", "claim", "crashed"} \cup Filling
  BY DEF Basic, Sound, Bipartite, NoBlossom
<1>2. PICK S \in SUBSET Node : SideOf(S) /\ TreesSided(S)
  BY DEF Bipartite
<1>3. pc[t] = "scan" => is_even[Edge(t)[2]] = 0
  <2>1. SUFFICES ASSUME pc[t] = "scan"
                 PROVE  is_even[Edge(t)[2]] = 0
    OBVIOUS
  <2> DEFINE v == Edge(t)[1]  w == Edge(t)[2]
  <2>2. /\ v \in Node /\ w \in Node /\ EvenNode(v) /\ IsAdjacent(adj, v, w)
        /\ belongs[w] = belongs[v]
    <3>1. todo[t] # <<>>
      BY <1>1, <2>1 DEF ThreadsPlaced, Busy
    <3>2. Edge(t) \in Range(todo[t]) /\ Edge(t)[1] \in Node /\ Edge(t)[2] \in Node
      BY <1>1, <3>1, EdgeFacts
    <3>3. QED  BY <1>1, <3>2 DEF SharesSound, SearchPhases
  <2> HIDE DEF v, w
  <2>3. (v \in S) # (w \in S)
    BY <1>2, <2>2 DEF SideOf
  <2>4. is_even[w] # 1
    BY <1>2, <2>2, <2>3 DEF TreesSided, EvenNode
  <2>5. is_even[w] \in {0, 1}
    BY <1>1, <2>2 DEF TypeOK, ForestTypeOK
  <2>6. QED  BY <2>4, <2>5 DEF w
<1>4. pc[t] \in {"fetch", "scan", "merge", "done"}
  BY <1>1 DEF ThreadsPlaced, BlossomPoints
<1>5. UNCHANGED <<adj, M, belongs, phase>>
  BY DEF Shrinks
<1>6. CASE BlossomSkip(t)
  BY <1>1, <1>5, <1>6 DEF BlossomSkip, NextEdge, GoOn, TypeOK, Filling
<1>7. CASE \E at \in {"merge", "fetch"} : BlossomMerge(t, at)
  BY <1>1, <1>5, <1>7 DEF BlossomMerge, EndThread, Step, TypeOK, Filling
<1>8. CASE CloseBlossom(t) \/ VisitSkip(t) \/ Visit(t) \/ ClaimNode(t) \/ ClaimNodeFails(t)
  BY <1>4, <1>8 DEF CloseBlossom, VisitSkip, Visit, ClaimNode, ClaimNodeFails, Step
<1>9. CASE MakeEven(t) \/ FillChecked(t) \/ DropEntry(t)
  BY <1>4, <1>9 DEF MakeEven, FillChecked, Write, DropEntry, Step
<1>10. CASE FindBlossom(t) \/ FindCycle(t)
  BY <1>3, <1>10 DEF FindBlossom, FindCycle, Step
<1>11. QED
  BY <1>6, <1>7, <1>8, <1>9, <1>10 DEF Shrinks, RoundBlossom

\* A step of a thread keeps the sides.
LEMMA ThreadBipartite ==
  ASSUME Basic, Sound, Bipartite, NEW t \in Thread, ThreadStep(t)
  PROVE  Bipartite'
<1>0. TypeOK /\ GraphKept /\ GrowthSound
  BY DEF Basic, Sound
<1>1. CASE phase = "reuse" /\ Reuse(t)
  <2>1. /\ Repair({x \in Node : x % NumThreads = t}) /\ adj' = adj /\ phase' = phase
    BY <1>1 DEF Reuse
  <2>2. {x \in Node : x % NumThreads = t} \subseteq Node
    OBVIOUS
  <2>3. \A x \in Node : \/ is_even'[x] = is_even[x] /\ belongs'[x] = belongs[x]
                        \/ is_even'[x] = 1 /\ belongs'[x] = x
                        \/ belongs'[x] = NoNode
    BY <1>0, <2>1, <2>2, RepairFacts
  <2>4. QED  BY <1>1, <2>1, <2>3, ResetBipartite
<1>2. CASE phase = "augment" /\ (Augments(t) \/ TakesShare(t, Bridges) \/ Leaves(t))
  <2>1. forestVars' = forestVars /\ phase' = phase
    BY <1>2 DEF Augments, TakesShare, Leaves
  <2>2. QED  BY <1>2, <2>1, QuietBipartite DEF forestVars
<1>3. CASE phase = "flip" /\ (FlipPair(t) \/ FlipEnds(t))
  <2>1. adj' = adj /\ is_even' = is_even /\ belongs' = belongs /\ phase' = phase
    BY <1>3 DEF FlipPair, FlipEnds, forestVars
  <2>2. QED  BY <1>3, <2>1, QuietBipartite
<1>4. CASE phase = "expand" /\ (TakesShare(t, Outward) \/ Leaves(t))
  <2>1. forestVars' = forestVars /\ phase' = phase
    BY <1>4 DEF TakesShare, Leaves
  <2>2. QED  BY <1>4, <2>1, QuietBipartite DEF forestVars
<1>5. CASE phase = "expand" /\ Expands(t)
  <2> DEFINE v == Edge(t)[1]  w == Edge(t)[2]  x == Mate(t)
  <2>1. /\ pc[t] \notin Owning =>
             is_even' = is_even /\ belongs' = belongs
        /\ pc[t] = "grow" => belongs' = belongs /\ is_even' = [is_even EXCEPT ![w] = 0, ![x] = 1]
        /\ pc[t] = "own" => is_even' = is_even /\ belongs' = [belongs EXCEPT ![w] = belongs[v]]
        /\ pc[t] = "mate" => is_even' = is_even /\ belongs' = [belongs EXCEPT ![x] = belongs[v]]
    BY <1>5, ExpandEffect
  <2>2. adj' = adj /\ phase' = phase
    BY <1>5 DEF Expands
  <2>3. CASE pc[t] \notin Owning
    BY <1>5, <2>1, <2>2, <2>3, QuietBipartite
  <2>4. CASE pc[t] \in Owning
    <3>1. /\ v \in Node /\ w \in Node /\ x \in Node /\ w # x /\ M[w] = x /\ x # NoNode
          /\ EvenNode(v) /\ IsAdjacent(adj, v, w)
      BY <1>5, <2>4, PairAt
    <3>2. /\ pc[t] = "grow" => Unreached(w) /\ Unreached(x)
          /\ pc[t] \in {"own", "mate"} => is_even[w] = 0 /\ is_even[x] = 1
      BY <1>0, <1>5 DEF GrowthSound
    <3> HIDE DEF v, w, x
    <3>3. PICK S \in SUBSET Node : SideOf(S) /\ TreesSided(S)
      BY DEF Bipartite
    <3>4. IsAdjacent(adj, w, x)
      BY <1>0, <1>5, <3>1 DEF GraphKept, IsMatching, Matched
    <3>5. ((v \in S) # (w \in S)) /\ ((w \in S) # (x \in S)) /\ (v \in S <=> belongs[v] \in S)
      BY <3>1, <3>3, <3>4 DEF SideOf, TreesSided, EvenNode
    <3>6. \A y \in Node : belongs[y] # NoNode => (is_even[y] = 1 <=> (y \in S <=> belongs[y] \in S))
      BY <3>3 DEF TreesSided
    <3>7. is_even \in [Node -> {0, 1}] /\ belongs \in [Node -> Node \cup {NoNode}]
      BY <1>0 DEF TypeOK, ForestTypeOK
    <3>8. CASE pc[t] = "grow"
      <4>1. /\ belongs[w] = NoNode /\ belongs[x] = NoNode /\ belongs' = belongs
            /\ \A y \in Node : y # w /\ y # x => is_even'[y] = is_even[y]
        BY <2>1, <3>1, <3>2, <3>7, <3>8 DEF Unreached
      <4>2. TreesSided(S)'
        BY <3>6, <4>1 DEF TreesSided
      <4>3. QED  BY <1>5, <2>2, <3>3, <4>2 DEF Bipartite, NoBlossom, SideOf
    <3>9. CASE pc[t] = "own"
      <4>1. /\ belongs'[w] = belongs[v] /\ is_even[w] = 0 /\ is_even' = is_even
            /\ \A y \in Node : y # w => belongs'[y] = belongs[y]
        BY <2>1, <3>1, <3>2, <3>7, <3>9
      <4>2. TreesSided(S)'
        BY <3>5, <3>6, <4>1 DEF TreesSided
      <4>3. QED  BY <1>5, <2>2, <3>3, <4>2 DEF Bipartite, NoBlossom, SideOf
    <3>10. CASE pc[t] = "mate"
      <4>1. /\ belongs'[x] = belongs[v] /\ is_even[x] = 1 /\ is_even' = is_even
            /\ \A y \in Node : y # x => belongs'[y] = belongs[y]
        BY <2>1, <3>1, <3>2, <3>7, <3>10
      <4>2. TreesSided(S)'
        BY <3>5, <3>6, <4>1 DEF TreesSided
      <4>3. QED  BY <1>5, <2>2, <3>3, <4>2 DEF Bipartite, NoBlossom, SideOf
    <3>11. QED  BY <2>4, <3>8, <3>9, <3>10 DEF Owning
  <2>5. QED  BY <2>3, <2>4
<1>6. CASE phase = "blossom" /\ (Shrinks(t) \/ TakesShare(t, Inward) \/ Leaves(t))
  <2>1. /\ UNCHANGED <<adj, M, is_even, belongs, path_table, phase>>
        /\ pc'[t] \notin {"visit", "claim", "crashed"} \cup Filling
        /\ \A u \in Thread : u # t => pc'[u] = pc[u]
    <3>1. CASE Shrinks(t)
      BY <1>6, <3>1, ShrinkBipartite
    <3>2. CASE TakesShare(t, Inward)
      BY <1>0, <3>2 DEF TakesShare, GoOn, forestVars, Filling, TypeOK
    <3>3. CASE Leaves(t)
      BY <1>0, <3>3 DEF Leaves, Step, forestVars, Filling, TypeOK
    <3>4. QED  BY <1>6, <3>1, <3>2, <3>3
  <2>2. \A u \in Thread : pc'[u] \notin {"visit", "claim", "crashed"} \cup Filling
    BY <1>6, <2>1 DEF Bipartite, NoBlossom
  <2>3. LegalForest
    BY <1>6 DEF Bipartite, NoBlossom
  <2>4. LegalForest'
    BY <2>1, <2>3 DEF LegalForest, EvenWalkLegal
  <2>5. NoBlossom'
    BY <2>2, <2>4 DEF NoBlossom
  <2>6. PICK S \in SUBSET Node : SideOf(S) /\ TreesSided(S)
    BY DEF Bipartite
  <2>7. SideOf(S)' /\ TreesSided(S)'
    BY <2>1, <2>6 DEF SideOf, TreesSided
  <2>8. QED  BY <2>5, <2>7 DEF Bipartite
<1>7. QED  BY <1>1, <1>2, <1>3, <1>4, <1>5, <1>6 DEF ThreadStep

\* A step that changes nothing keeps the sides.
LEMMA SameBipartite ==
  ASSUME Bipartite, UNCHANGED searchVars
  PROVE  Bipartite'
BY DEF searchVars, forestVars, threadVars, Bipartite, NoBlossom, SideOf, TreesSided,
       LegalForest, EvenWalkLegal

-----------------------------------------------------------------------------
(***************************************************************************)
(* No edge is lost.                                                        *)
(***************************************************************************)
LEMMA IdleKept ==
  ASSUME TypeOK, ThreadsPlaced, Idle, NEW t \in Thread,
         \/ phase = "augment" /\ Augments(t)
         \/ phase = "expand" /\ Expands(t)
         \/ phase = "blossom" /\ Shrinks(t)
  PROVE  Idle'
<1> DEFINE Goes == /\ \E s \in Seq(Node \X Node) : GoOn(t, s)
                   /\ \A u \in Thread : u # t => local'[u] = local[u]
           Stays == /\ \E from, to : Step(t, from, to) /\ to \notin {"fetch", "merge", "done"}
                    /\ todo' = todo
                    /\ \A u \in Thread : u # t => local'[u] = local[u]
           Ends == \E at \in {"merge", "fetch"} : EndThread(t, at)
<1>0. /\ phase' = phase /\ phase \in SearchPhases
      /\ local \in [Thread -> Seq(Node)] /\ todo \in [Thread -> Seq(Node \X Node)]
      /\ pc = [u \in Thread |-> pc[u]]
  BY DEF Augments, Expands, Shrinks, SearchPhases, TypeOK
<1>1. pc[t] \in Busy => todo[t] # <<>> /\ Tail(todo[t]) \in Seq(Node \X Node)
  BY EdgeFacts DEF ThreadsPlaced
<1>2. Among(todo[t], {e \in Range(todo[t]) : e[1] # Edge(t)[1]}) \in Seq(Node \X Node)
  BY RestOfShare
<1>3. ASSUME Augments(t), phase = "augment"
      PROVE  Goes \/ Stays \/ Ends
  <2>1. CASE LockV(t) \/ LockWFails(t)
    BY <2>1 DEF LockV, LockWFails, Step
  <2>2. CASE LockVFails(t)
    BY <1>2, <2>2 DEF LockVFails
  <2>3. CASE LockW(t) \/ ReleaseV(t)
    <3>1. pc[t] \in Busy
      BY <2>3 DEF LockW, ReleaseV, Busy, Holding
    <3>2. GoOn(t, Tail(todo[t])) /\ \A u \in Thread : u # t => local'[u] = local[u]
      BY <1>0, <2>3 DEF LockW, ReleaseV, NextEdge
    <3>3. QED  BY <1>1, <3>1, <3>2
  <2>4. CASE \E at \in {"merge", "fetch"} : AugmentMerge(t, at)
    BY <2>4 DEF AugmentMerge
  <2>5. QED  BY <1>3, <2>1, <2>2, <2>3, <2>4 DEF Augments, AugmentStep
<1>4. ASSUME Expands(t), phase = "expand"
      PROVE  Goes \/ Stays \/ Ends
  <2>1. CASE ExpandTest(t) \/ ClaimPair(t) \/ Grow(t) \/ OwnW(t)
    BY <2>1 DEF ExpandTest, ClaimPair, Grow, OwnW, Step
  <2>2. CASE ExpandSkip(t) \/ ClaimPairFails(t) \/ OwnMate(t)
    <3>1. pc[t] \in Busy
      BY <2>2 DEF ExpandSkip, ClaimPairFails, OwnMate, Busy, Owning
    <3>2. GoOn(t, Tail(todo[t])) /\ \A u \in Thread : u # t => local'[u] = local[u]
      BY <1>0, <2>2 DEF ExpandSkip, ClaimPairFails, OwnMate, NextEdge
    <3>3. QED  BY <1>1, <3>1, <3>2
  <2>3. CASE \E at \in {"merge", "fetch"} : ExpandMerge(t, at)
    BY <2>3 DEF ExpandMerge
  <2>4. QED  BY <1>4, <2>1, <2>2, <2>3 DEF Expands, ExpandStep
<1>5. ASSUME Shrinks(t), phase = "blossom"
      PROVE  Goes \/ Stays \/ Ends
  <2>1. CASE VisitSkip(t)
    <3>1. pc[t] = "visit" /\ pc' = pc /\ todo' = todo /\ local' = local
      BY <2>1 DEF VisitSkip
    <3>2. Step(t, "visit", "visit")
      BY <1>0, <3>1 DEF Step
    <3>3. QED  BY <3>1, <3>2
  <2>2. CASE FindBlossom(t)
    <3>1. todo' = todo /\ local' = local
      BY <2>2 DEF FindBlossom
    <3>2. Step(t, "scan", "visit") \/ Step(t, "scan", "crashed")
      BY <2>2 DEF FindBlossom
    <3>3. QED  BY <3>1, <3>2
  <2>3. CASE FillChecked(t)
    <3>1. todo' = todo /\ local' = local
      BY <2>3 DEF FillChecked, Write
    <3>2. Step(t, "fill", "even") \/ Step(t, "fill", "undo")
      BY <2>3 DEF FillChecked, Write
    <3>3. QED  BY <3>1, <3>2
  <2>4. CASE Visit(t) \/ ClaimNode(t) \/ ClaimNodeFails(t) \/ DropEntry(t)
    <3>1. todo' = todo /\ local' = local
      BY <2>4 DEF Visit, ClaimNode, ClaimNodeFails, DropEntry
    <3>2. \E from, to : Step(t, from, to) /\ to \in {"claim", "fill", "visit"}
      BY <2>4 DEF Visit, ClaimNode, ClaimNodeFails, DropEntry
    <3>3. QED  BY <3>1, <3>2
  <2>5. CASE MakeEven(t)
    <3>1. Step(t, "even", "visit") /\ todo' = todo /\ \A u \in Thread : u # t => local'[u] = local[u]
      BY <1>0, <2>5 DEF MakeEven
    <3>2. QED  BY <3>1
  <2>6. CASE BlossomSkip(t) \/ CloseBlossom(t)
    <3>1. pc[t] \in Busy /\ local' = local /\ GoOn(t, Tail(todo[t]))
      BY <2>6 DEF BlossomSkip, CloseBlossom, Busy, NextEdge
    <3>2. QED  BY <1>1, <3>1
  <2>7. CASE FindCycle(t)
    <3>1. pc[t] \in Busy /\ local' = local
      BY <2>7 DEF FindCycle, Busy
    <3>2. \/ GoOn(t, Tail(todo[t]))
          \/ Step(t, "scan", "visit") /\ todo' = todo
      BY <2>7 DEF FindCycle, NextEdge, Step
    <3>3. CASE GoOn(t, Tail(todo[t]))
      BY <1>1, <3>1, <3>3
    <3>4. CASE Step(t, "scan", "visit") /\ todo' = todo
      BY <3>1, <3>4
    <3>5. QED  BY <3>2, <3>3, <3>4
  <2>8. CASE \E at \in {"merge", "fetch"} : BlossomMerge(t, at)
    BY <2>8 DEF BlossomMerge
  <2>9. QED
    BY <1>5, <2>1, <2>2, <2>3, <2>4, <2>5, <2>6, <2>7, <2>8 DEF Shrinks, RoundBlossom
<1>6. CASE Goes
  <2>1. PICK s \in Seq(Node \X Node) : GoOn(t, s)
    BY <1>6
  <2>2. /\ todo'[t] = s /\ pc'[t] = IF s = <<>> THEN "fetch" ELSE "scan"
        /\ \A u \in Thread : u # t => pc'[u] = pc[u] /\ todo'[u] = todo[u] /\ local'[u] = local[u]
    BY <1>0, <1>6, <2>1 DEF GoOn
  <2>3. QED  BY <1>0, <2>2 DEF Idle
<1>7. CASE Stays
  <2>1. /\ pc'[t] \notin {"fetch", "merge", "done"} /\ todo' = todo
        /\ \A u \in Thread : u # t => pc'[u] = pc[u] /\ local'[u] = local[u]
    BY <1>0, <1>7 DEF Step
  <2>2. QED  BY <1>0, <2>1 DEF Idle
<1>8. CASE Ends
  <2>1. /\ pc[t] \in {"merge", "fetch"} /\ pc'[t] = "done" /\ todo' = todo /\ local'[t] = <<>>
        /\ \A u \in Thread : u # t => pc'[u] = pc[u] /\ local'[u] = local[u]
    BY <1>0, <1>8 DEF EndThread, Step
  <2>2. QED  BY <1>0, <2>1 DEF Idle
<1>9. QED  BY <1>3, <1>4, <1>5, <1>6, <1>7, <1>8

\* A thread of phase 1 drops no edge that matters: one thread alone passes
\* over a bridge only for a path.
LEMMA AugmentCovered ==
  ASSUME Basic, Sound, phase = "augment", NEW t \in Thread, Augments(t), NEW A, Covered(A)
  PROVE  Covered(A)'
<1>0. /\ TypeOK /\ ThreadsPlaced /\ MatesMutual /\ GraphKept /\ TreesSound /\ LegalForest
      /\ SharesSound /\ PathsSound /\ LocksSound
      /\ phase' = "augment" /\ adj' = adj /\ is_even' = is_even /\ belongs' = belongs
      /\ nodes_vector' = nodes_vector
  BY DEF Basic, Sound, MatesKept, Augments, forestVars, frontierVars
<1>1. /\ local \in [Thread -> Seq(Node)] /\ todo \in [Thread -> Seq(Node \X Node)]
      /\ path_collection \in Seq(Seq(Node))
  BY <1>0 DEF TypeOK
<1>2. \A v, w : (Waiting(v, w)' <=> Waiting(v, w)) /\ (Bridging(v, w)' <=> Bridging(v, w))
  BY <1>0 DEF Waiting, Bridging, EvenNode, IsBridge
<1>3. SUFFICES ASSUME NumThreads = 1, BridgesAhead(A)
               PROVE  BridgesAhead(A)'
  <2>1. (\A v, w \in Node : Waiting(v, w) => v \in Range(nodes_vector))'
    BY <1>0, <1>2 DEF Covered
  <2>2. (NumThreads = 1 => BridgesAhead(A))'
    BY <1>0, <1>3 DEF Covered
  <2>3. QED  BY <1>0, <2>1, <2>2 DEF Covered
<1>4. \A u \in Thread : u = t
  BY <1>3 DEF Thread
\* A found path stays found.
<1>5. ASSUME PathFound
      PROVE  PathFound'
  <2>1. CASE LockV(t) \/ LockVFails(t) \/ LockWFails(t) \/ ReleaseV(t)
    <3>1. path_collection' = path_collection /\ local' = local
      BY <2>1 DEF LockV, LockVFails, LockWFails, ReleaseV
    <3>2. QED  BY <1>5, <3>1 DEF PathFound
  <2>2. CASE LockW(t)
    <3> DEFINE J == JoinWalks(path_table, Edge(t)[1], Edge(t)[2])
    <3>1. todo[t] # <<>> /\ path_collection' = path_collection
          /\ local' = [local EXCEPT ![t] = @ \o J]
      BY <1>0, <2>2 DEF LockW, ThreadsPlaced, Busy, Holding
    <3>2. J \in Seq(Node) /\ J # <<>>
      BY <1>0, <3>1, BridgeAt
    <3> HIDE DEF J
    <3>3. local'[t] # <<>>
      BY <1>1, <3>1, <3>2
    <3>4. QED  BY <3>3 DEF PathFound
  <2>3. CASE \E at \in {"merge", "fetch"} : AugmentMerge(t, at)
    <3>1. path_collection' = IF local[t] = <<>> THEN path_collection
                             ELSE Append(path_collection, local[t])
      BY <2>3 DEF AugmentMerge
    <3>2. local[t] # <<>> => path_collection' # <<>>
      BY <1>1, <3>1
    <3>3. local[t] = <<>> => path_collection' = path_collection
      BY <3>1
    <3>4. QED  BY <1>4, <1>5, <3>2, <3>3 DEF PathFound
  <2>4. QED  BY <2>1, <2>2, <2>3 DEF Augments, AugmentStep
\* Without a path no lock is taken but by this thread.
<1>6. SUFFICES ASSUME ~PathFound
               PROVE  BridgesAhead(A)'
  BY <1>5 DEF BridgesAhead
<1>7. /\ pc[t] # "release"
      /\ \A v, w \in Node : Bridging(v, w) => Ahead(v, w, A) \/ Ahead(w, v, A)
  BY <1>3, <1>6 DEF BridgesAhead
<1>8. \A r \in Node : select_tree[r] = 1 => pc[t] \in Holding /\ TreeV(t) = r
  <2>1. \A x : ~OnCollected(x) /\ ~OnLocal(x)
    <3>1. path_collection = <<>> /\ \A u \in Thread : local[u] = <<>>
      BY <1>6 DEF PathFound
    <3>2. Range(<<>>) = {} /\ DOMAIN <<>> = {}
      BY DEF Range
    <3>3. QED  BY <3>1, <3>2 DEF OnCollected, OnLocal
  <2>2. QED  BY <1>0, <1>4, <2>1 DEF LocksSound
<1>9. pc[t] \in {"scan", "second"} =>
        TreeV(t) \in Node /\ TreeW(t) \in Node /\ TreeV(t) # TreeW(t)
  <2>1. SUFFICES ASSUME pc[t] \in {"scan", "second"}
                 PROVE  TreeV(t) \in Node /\ TreeW(t) \in Node /\ TreeV(t) # TreeW(t)
    OBVIOUS
  <2>2. todo[t] # <<>>
    BY <1>0, <2>1 DEF ThreadsPlaced, Busy, Holding
  <2>3. QED  BY <1>0, <2>2, BridgeAt
<1>10. CASE LockV(t) \/ \E at \in {"merge", "fetch"} : AugmentMerge(t, at)
  <2>1. todo' = todo /\ pc'[t] \in {"second", "done"}
    BY <1>0, <1>10 DEF LockV, AugmentMerge, EndThread, Step, TypeOK
  <2>2. \A v, w : Ahead(v, w, A)' <=> Ahead(v, w, A)
    BY <2>1 DEF Ahead
  <2>3. \A u \in Thread : pc'[u] # "release"
    BY <1>4, <2>1
  <2>4. (\A v, w \in Node : Bridging(v, w) => Ahead(v, w, A) \/ Ahead(w, v, A))'
    BY <1>2, <1>7, <2>2
  <2>5. QED  BY <2>3, <2>4 DEF BridgesAhead
<1>11. CASE LockVFails(t)
  <2>1. pc[t] = "scan" /\ select_tree[TreeV(t)] = 1
    BY <1>11 DEF LockVFails
  <2>2. QED  BY <1>8, <1>9, <2>1 DEF Holding
<1>12. CASE LockW(t)
  <2> DEFINE J == JoinWalks(path_table, Edge(t)[1], Edge(t)[2])
  <2>1. todo[t] # <<>> /\ local' = [local EXCEPT ![t] = @ \o J]
    BY <1>0, <1>12 DEF LockW, ThreadsPlaced, Busy, Holding
  <2>2. J \in Seq(Node) /\ J # <<>>
    BY <1>0, <2>1, BridgeAt
  <2> HIDE DEF J
  <2>3. local'[t] # <<>>
    BY <1>1, <2>1, <2>2
  <2>4. PathFound'
    BY <2>3 DEF PathFound
  <2>5. QED  BY <2>4 DEF BridgesAhead
<1>13. CASE LockWFails(t)
  <2>1. pc[t] = "second" /\ select_tree[TreeW(t)] = 1
    BY <1>13 DEF LockWFails, Step
  <2>2. QED  BY <1>8, <1>9, <2>1
<1>14. CASE ReleaseV(t)
  BY <1>7, <1>14 DEF ReleaseV
<1>15. QED
  BY <1>10, <1>11, <1>12, <1>13, <1>14 DEF Augments, AugmentStep

\* A step of expansion loses no edge: one that is dropped leads into a tree,
\* or to a pair that somebody grows.
LEMMA ExpandCovered ==
  ASSUME Basic, Basic', Sound, phase = "expand", NEW t \in Thread, Expands(t), NEW A, Covered(A)
  PROVE  Covered(A)'
<1> DEFINE v == Edge(t)[1]  w == Edge(t)[2]  x == Mate(t)
<1>0. /\ TypeOK /\ ThreadsPlaced /\ TreesSound /\ GrowthSound /\ TypeOK'
      /\ phase' = "expand" /\ adj' = adj /\ M' = M
  BY DEF Basic, Sound, Expands
<1>1. PICK p \in ExpandPoints : \E s \in Seq(Node \X Node) :
         /\ Moves(t, p, s) /\ Range(s) \subseteq Range(todo[t])
         /\ p \in Owning => s = todo[t] /\ (pc[t] \in Owning \/ ClaimPair(t))
  BY <1>0, ExpandMoves
<1>2. PICK s \in Seq(Node \X Node) :
         /\ Moves(t, p, s) /\ Range(s) \subseteq Range(todo[t])
         /\ p \in Owning => s = todo[t] /\ (pc[t] \in Owning \/ ClaimPair(t))
  BY <1>1
<1>3. /\ pc'[t] = p /\ todo'[t] = s
      /\ \A u \in Thread : u # t => pc'[u] = pc[u] /\ todo'[u] = todo[u]
  BY <1>0, <1>2, MovesType
<1>4. /\ pc[t] \notin Owning => is_even' = is_even /\ belongs' = belongs
      /\ pc[t] = "grow" =>
           belongs' = belongs /\ is_even' = [is_even EXCEPT ![w] = 0, ![x] = 1] /\ pc'[t] = "own"
      /\ pc[t] = "own" =>
           is_even' = is_even /\ belongs' = [belongs EXCEPT ![w] = belongs[v]] /\ pc'[t] = "mate"
      /\ pc[t] = "mate" =>
           is_even' = is_even /\ belongs' = [belongs EXCEPT ![x] = belongs[v]] /\ pc'[t] \notin Owning
      /\ \/ pc[t] # "mate" /\ local' = local /\ vector_1' = vector_1
         \/ /\ pc[t] = "mate" /\ local' = [local EXCEPT ![t] = Append(@, x)]
            /\ vector_1' = vector_1
         \/ /\ pc[t] # "mate" /\ local' = [local EXCEPT ![t] = <<>>]
            /\ vector_1' = vector_1 \o local[t]
      /\ \A y \in Node : belongs[y] # NoNode =>
           is_even'[y] = is_even[y] /\ belongs'[y] = belongs[y]
      /\ \A y \in Node : y \notin {w, x} =>
           is_even'[y] = is_even[y] /\ belongs'[y] = belongs[y]
  BY ExpandEffect
<1>5. pc[t] \in Owning => /\ v \in Node /\ w \in Node /\ x \in Node /\ w # x /\ belongs[v] # NoNode
  BY PairAt DEF EvenNode
<1>6. /\ pc[t] = "grow" => belongs[w] = NoNode /\ belongs[x] = NoNode
      /\ pc[t] = "own" => is_even[w] = 0 /\ belongs[x] = NoNode
      /\ pc[t] = "mate" => is_even[w] = 0 /\ belongs[w] = belongs[v]
  BY <1>0 DEF GrowthSound, Unreached
<1>7. /\ \A y : y \in Growing =>
           y \in Growing' \/ (pc[t] \in Owning /\ y \in {w, x})
      /\ pc[t] \in Owning /\ pc'[t] \in Owning /\ todo'[t] = todo[t] =>
           \A y : y \in Growing => y \in Growing'
  BY <1>0, <1>3, GrowingMoves
<1> HIDE DEF v, w, x
\* What was in hand or handed on is so still.
<1>8. /\ local \in [Thread -> Seq(Node)] /\ vector_1 \in Seq(Node)
      /\ belongs \in [Node -> Node \cup {NoNode}] /\ is_even \in [Node -> {0, 1}]
  BY <1>0 DEF TypeOK, ForestTypeOK
<1>9. ASSUME NEW a, a \in Range(vector_1) \/ InHand(a)
      PROVE  (a \in Range(vector_1) \/ InHand(a))'
  <2>1. CASE local' = local /\ vector_1' = vector_1
    BY <1>9, <2>1 DEF InHand
  <2>2. CASE pc[t] = "mate" /\ local' = [local EXCEPT ![t] = Append(@, x)] /\ vector_1' = vector_1
    <3>1. Range(Append(local[t], x)) = Range(local[t]) \cup {x}
      BY <1>5, <1>8, <2>2, AppendFacts DEF Owning
    <3>2. \A u \in Thread : Range(local[u]) \subseteq Range(local'[u])
      BY <1>8, <2>2, <3>1
    <3>3. QED  BY <1>9, <2>2, <3>2 DEF InHand
  <2>3. CASE local' = [local EXCEPT ![t] = <<>>] /\ vector_1' = vector_1 \o local[t]
    <3>1. Range(vector_1') = Range(vector_1) \cup Range(local[t])
      BY <1>8, <2>3, ConcatRange
    <3>2. \A u \in Thread : u # t => local'[u] = local[u]
      BY <1>8, <2>3
    <3>3. QED  BY <1>9, <3>1, <3>2 DEF InHand
  <2>4. QED  BY <1>4, <2>1, <2>2, <2>3
\* A pair that grows either still does, or is in the tree.
<1>10. ASSUME NEW b \in Node, b \in Growing, belongs'[b] = NoNode
       PROVE  b \in Growing'
  <2>1. SUFFICES ASSUME pc[t] \in Owning, b \in {w, x}
                 PROVE  b \in Growing'
    BY <1>7, <1>10
  <2>2. CASE pc[t] = "mate"
    <3>1. belongs'[x] = belongs[v] /\ belongs'[w] = belongs[w]
      BY <1>4, <1>5, <1>8, <2>1, <2>2
    <3>2. QED  BY <1>5, <1>6, <1>10, <2>1, <2>2, <3>1
  <2>3. CASE pc[t] # "mate"
    <3>1. pc'[t] \in Owning
      BY <1>4, <2>1, <2>3 DEF Owning
    <3>2. todo'[t] = todo[t]
      BY <1>2, <1>3, <3>1
    <3>3. QED  BY <1>7, <1>10, <2>1, <3>1, <3>2
  <2>4. QED  BY <2>2, <2>3
\* An edge that is dropped was the first of the share, and leads into a tree
\* or to a pair that grows.
<1>11. ASSUME NEW e \in Range(todo[t]), e \notin Range(s), e \in Node \X Node
       PROVE  belongs'[e[2]] # NoNode \/ e[2] \in Growing
  <2>1. todo[t] # <<>> => /\ Range(todo[t]) = {Edge(t)} \cup Range(Tail(todo[t]))
                          /\ Tail(todo[t]) \in Seq(Node \X Node)
    BY <1>0, TailRange DEF TypeOK, Edge
  <2>2. todo \in [Thread -> Seq(Node \X Node)]
    BY <1>0 DEF TypeOK
  <2>3. CASE ExpandSkip(t) \/ ClaimPairFails(t) \/ OwnMate(t)
    <3>1. pc[t] \in Busy /\ todo'[t] = Tail(todo[t])
      BY <2>2, <2>3 DEF ExpandSkip, ClaimPairFails, OwnMate, Busy, Owning, NextEdge, GoOn
    <3>2. e = Edge(t)
      BY <1>0, <1>3, <1>11, <2>1, <3>1 DEF ThreadsPlaced
    <3>3. e[2] = w
      BY <3>2 DEF w
    <3>4. w \in Node
      BY <1>11, <3>3
    <3>5. CASE ExpandSkip(t)
      <4>1. belongs[w] # NoNode
        BY <3>5 DEF ExpandSkip, NoTreeYet, w
      <4>2. QED  BY <1>4, <3>3, <3>4, <4>1
    <3>6. CASE ClaimPairFails(t)
      <4>1. select_match[MatchSlot(t)] = 1 /\ pc[t] = "claim"
        BY <3>6 DEF ClaimPairFails
      <4>2. MatchSlot(t) = Slot(w)
        BY <4>1, PairAt DEF w
      <4>3. belongs[w] = NoNode /\ w \notin Growing => select_match[Slot(w)] = 0
        BY <1>0, <3>4 DEF TreesSound, SearchPhases
      <4>4. belongs[w] # NoNode => belongs'[w] # NoNode
        BY <1>4, <3>4
      <4>5. QED  BY <3>3, <4>1, <4>2, <4>3, <4>4
    <3>7. CASE OwnMate(t)
      <4>1. pc[t] = "mate"
        BY <3>7 DEF OwnMate
      <4>2. belongs[w] # NoNode
        BY <1>5, <1>6, <4>1 DEF Owning
      <4>3. QED  BY <1>4, <3>3, <3>4, <4>2
    <3>8. QED  BY <2>3, <3>5, <3>6, <3>7
  <2>4. CASE ~(ExpandSkip(t) \/ ClaimPairFails(t) \/ OwnMate(t))
    <3>1. todo' = todo
      BY <2>4 DEF Expands, ExpandStep, ExpandTest, ClaimPair, Grow, OwnW, ExpandMerge, EndThread
    <3>2. QED  BY <1>3, <1>11, <3>1
  <2>5. QED  BY <2>3, <2>4
\* Only the owner of a pair makes a node even, and has it in hand at once.
<1>12. ASSUME NEW a \in Node, EvenNode(a)', ~EvenNode(a)
       PROVE  InHand(a)'
  <2>1. is_even'[a] = 1 /\ belongs'[a] # NoNode /\ (is_even[a] # 1 \/ belongs[a] = NoNode)
    BY <1>12 DEF EvenNode
  <2>2. pc[t] \in Owning /\ a \in {w, x}
    BY <1>4, <2>1
  <2>3. pc[t] = "mate" /\ a = x
    BY <1>4, <1>5, <1>6, <1>8, <2>1, <2>2 DEF Owning
  <2>4. local' = [local EXCEPT ![t] = Append(@, x)]
    BY <1>4, <2>3
  <2>5. Range(Append(local[t], x)) = Range(local[t]) \cup {x}
    BY <1>5, <1>8, <2>2, AppendFacts
  <2>6. a \in Range(local'[t])
    BY <1>8, <2>3, <2>4, <2>5
  <2>7. QED  BY <2>6 DEF InHand
<1>13. ASSUME NEW a \in Node, NEW b \in Node, Waiting(a, b)'
       PROVE  (a \in Range(vector_1) \/ InHand(a) \/ b \in Growing \/ Ahead(a, b, A))'
  <2>1. EvenNode(a)' /\ belongs'[b] = NoNode /\ b \in Range(adj[a])
    BY <1>0, <1>13 DEF Waiting
  <2>2. SUFFICES ASSUME EvenNode(a)
                 PROVE  (a \in Range(vector_1) \/ InHand(a) \/ b \in Growing \/ Ahead(a, b, A))'
    BY <1>12, <2>1
  <2>3. Waiting(a, b)
    BY <1>4, <2>1, <2>2 DEF Waiting
  <2>4. a \in Range(vector_1) \/ InHand(a) \/ b \in Growing \/ Ahead(a, b, A)
    BY <2>3 DEF Covered, EdgesAhead
  <2>5. CASE \E u \in Thread : <<a, b>> \in Range(todo[u])
    <3>1. PICK u \in Thread : <<a, b>> \in Range(todo[u])
      BY <2>5
    <3>2. CASE u # t \/ <<a, b>> \in Range(s)
      BY <1>3, <3>1, <3>2 DEF Ahead
    <3>3. CASE u = t /\ <<a, b>> \notin Range(s)
      <4>1. b \in Growing
        BY <1>11, <2>1, <3>1, <3>3
      <4>2. QED  BY <1>10, <2>1, <4>1
    <3>4. QED  BY <3>2, <3>3
  <2>6. a \in A => Ahead(a, b, A)'
    BY DEF Ahead
  <2>7. QED  BY <1>9, <1>10, <2>1, <2>4, <2>5, <2>6 DEF Ahead
<1>14. ASSUME NEW a \in Node, NEW b \in Node, Bridging(a, b)', BridgesNew(Range(vector_1))
       PROVE  \E y \in {a, b} : (y \in Range(vector_1) \/ InHand(y))'
  <2>1. /\ EvenNode(a)' /\ EvenNode(b)' /\ b \in Range(adj[a]) /\ belongs'[a] # belongs'[b]
    BY <1>0, <1>14 DEF Bridging, IsBridge, EvenNode
  <2>2. SUFFICES ASSUME EvenNode(a), EvenNode(b)
                 PROVE  \E y \in {a, b} : (y \in Range(vector_1) \/ InHand(y))'
    BY <1>12, <2>1
  <2>3. belongs'[a] = belongs[a] /\ belongs'[b] = belongs[b]
    BY <1>4, <2>2 DEF EvenNode
  <2>4. Bridging(a, b)
    BY <2>1, <2>2, <2>3 DEF Bridging, IsBridge, EvenNode
  <2>5. PICK y \in {a, b} : y \in Range(vector_1) \/ InHand(y)
    BY <1>14, <2>4 DEF BridgesNew
  <2>6. QED  BY <1>9, <2>5
<1>15. QED
  <2>1. EdgesAhead(A)'
    BY <1>13 DEF EdgesAhead
  <2>2. PICK r : r = Range(vector_1')
    OBVIOUS
  <2>3. BridgesNew(Range(vector_1)) => BridgesNew(r)'
    BY <1>14, <2>2 DEF BridgesNew
  <2>4. (NumThreads = 1 => BridgesNew(Range(vector_1)))'
    BY <2>2, <2>3 DEF Covered, BridgesNew
  <2>5. QED  BY <1>0, <2>1, <2>4 DEF Covered

\* A step of the blossom phase keeps what it makes even in hand.
LEMMA ShrinkCovered ==
  ASSUME Basic, Sound, LegalForest, phase = "blossom", NEW t \in Thread, Shrinks(t),
         NEW A, Covered(A)
  PROVE  Covered(A)'
<1>0. /\ TypeOK /\ ThreadsPlaced
      /\ phase' = "blossom" /\ adj' = adj /\ belongs' = belongs /\ vector_1' = vector_1
  BY DEF Basic, Shrinks
<1>1. \/ is_even' = is_even /\ local' = local /\ vector_2' = vector_2
      \/ /\ pc[t] = "even" /\ is_even' = [is_even EXCEPT ![Current(t)] = 1]
         /\ local' = [local EXCEPT ![t] = Append(@, Current(t))] /\ vector_2' = vector_2
      \/ /\ is_even' = is_even /\ local' = [local EXCEPT ![t] = <<>>]
         /\ vector_2' = vector_2 \o local[t]
  BY ShrinkEffect
<1>2. /\ local \in [Thread -> Seq(Node)] /\ vector_2 \in Seq(Node) /\ is_even \in [Node -> {0, 1}]
  BY <1>0 DEF TypeOK, ForestTypeOK
<1>3. pc[t] = "even" => Current(t) \in Node
  BY <1>0, LapFacts DEF ThreadsPlaced, Filling
<1>4. /\ \A a : a \in Handed \/ InHand(a) => (a \in Handed \/ InHand(a))'
      /\ \A a \in Node : EvenNode(a)' => EvenNode(a) \/ InHand(a)'
  <2>1. CASE is_even' = is_even /\ local' = local /\ vector_2' = vector_2
    BY <1>0, <2>1 DEF Handed, InHand, EvenNode
  <2>2. CASE /\ pc[t] = "even" /\ is_even' = [is_even EXCEPT ![Current(t)] = 1]
             /\ local' = [local EXCEPT ![t] = Append(@, Current(t))] /\ vector_2' = vector_2
    <3> DEFINE y == Current(t)
    <3>1. Range(Append(local[t], y)) = Range(local[t]) \cup {y}
      BY <1>2, <1>3, <2>2, AppendFacts
    <3>2. /\ y \in Range(local'[t])
          /\ \A u \in Thread : Range(local[u]) \subseteq Range(local'[u])
      BY <1>2, <2>2, <3>1
    <3>3. \A a \in Node : a # y => is_even'[a] = is_even[a]
      BY <1>2, <1>3, <2>2
    <3>4. QED  BY <1>0, <2>2, <3>2, <3>3 DEF Handed, InHand, EvenNode
  <2>3. CASE /\ is_even' = is_even /\ local' = [local EXCEPT ![t] = <<>>]
             /\ vector_2' = vector_2 \o local[t]
    <3>1. Range(vector_2') = Range(vector_2) \cup Range(local[t])
      BY <1>2, <2>3, ConcatRange
    <3>2. \A u \in Thread : u # t => local'[u] = local[u]
      BY <1>2, <2>3
    <3>3. QED  BY <1>0, <2>3, <3>1, <3>2 DEF Handed, InHand, EvenNode
  <2>4. QED  BY <1>1, <2>1, <2>2, <2>3
<1>5. ASSUME NEW a \in Node, NEW b \in Node, Waiting(a, b)'
      PROVE  (a \in Handed \/ InHand(a))'
  <2>1. EvenNode(a)' /\ belongs[b] = NoNode /\ b \in Range(adj[a])
    BY <1>0, <1>5 DEF Waiting
  <2>2. EvenNode(a) => a \in Handed \/ InHand(a)
    BY <2>1 DEF Covered, Waiting
  <2>3. QED  BY <1>4, <2>1, <2>2
<1>6. ASSUME NEW a \in Node, NEW b \in Node, Bridging(a, b)', BridgesNew(Handed)
      PROVE  \E y \in {a, b} : (y \in Handed \/ InHand(y))'
  <2>1. /\ EvenNode(a)' /\ EvenNode(b)' /\ b \in Range(adj[a]) /\ belongs[a] # belongs[b]
    BY <1>0, <1>6 DEF Bridging, IsBridge, EvenNode
  <2>2. SUFFICES ASSUME EvenNode(a), EvenNode(b)
                 PROVE  \E y \in {a, b} : (y \in Handed \/ InHand(y))'
    BY <1>4, <2>1
  <2>3. Bridging(a, b)
    BY <2>1, <2>2 DEF Bridging, IsBridge, EvenNode
  <2>4. PICK y \in {a, b} : y \in Handed \/ InHand(y)
    BY <1>6, <2>3 DEF BridgesNew
  <2>5. QED  BY <1>4, <2>4
<1>7. (\A v, w \in Node : Waiting(v, w) => v \in Handed \/ InHand(v))'
  BY <1>5
<1>8. (NumThreads = 1 => BridgesNew(Handed))'
  <2>1. PICK h : h = Handed'
    OBVIOUS
  <2>2. BridgesNew(Handed) => BridgesNew(h)'
    BY <1>6, <2>1 DEF BridgesNew
  <2>3. QED  BY <2>1, <2>2 DEF Covered, BridgesNew
<1>9. QED  BY <1>0, <1>7, <1>8 DEF Covered

\* The matched nodes can be counted.
LEMMA MatchedFinite ==
  /\ IsFiniteSet(Node) /\ IsFiniteSet(Matched(M))
  /\ Cardinality(Matched(M)) \in Nat /\ Cardinality(Matched(M)) \div 2 \in Int
<1>1. IsFiniteSet(Node)
  BY NodesAssumption, FS_Interval DEF Node
<1>2. Matched(M) \in SUBSET Node
  BY DEF Matched
<1>3. IsFiniteSet(Matched(M)) /\ Cardinality(Matched(M)) \in Nat
  BY <1>1, <1>2, FS_Subset, FS_CardinalityType
<1>4. Cardinality(Matched(M)) \div 2 \in Int
  BY <1>3
<1>5. QED  BY <1>1, <1>3, <1>4

\* Every even node that is repaired is handed on.
LEMMA RepairHands ==
  ASSUME TypeOK, NEW mine, mine \subseteq Node, Repair(mine), NEW x \in Node, EvenNode(x)',
         x \in mine \/ (x \in Handed /\ EvenNode(x))
  PROVE  x \in Handed'
<1>1. /\ Range(vector_1) \subseteq Range(vector_1') /\ Range(vector_2) \subseteq Range(vector_2')
      /\ x \in mine /\ M[x] = NoNode => x \in Range(vector_1')
      /\ x \in mine /\ M[x] # NoNode /\ InValidTree(x) /\ is_even[x] = 1 => x \in Range(vector_2')
  BY RepairFrontier
<1>2. x \in mine /\ M[x] # NoNode => InValidTree(x) /\ is_even[x] = 1
  BY RepairFacts DEF EvenNode
<1>3. QED  BY <1>1, <1>2 DEF Handed

\* So does a thread with its stripe of the nodes.
LEMMA ReuseCovered ==
  ASSUME Basic, phase = "reuse", NEW t \in Thread, Reuse(t), NEW A, Covered(A)
  PROVE  Covered(A)'
<1>0. TypeOK /\ ThreadsPlaced /\ phase' = phase
  BY DEF Basic, Reuse
<1> DEFINE mine == {x \in Node : x % NumThreads = t}
<1>1. Repair(mine) /\ pc' = [pc EXCEPT ![t] = "done"]
  BY DEF Reuse, Step
<1>2. pc \in [Thread -> {"stripe", "done"}]
  BY <1>0 DEF TypeOK, ThreadsPlaced
<1>3. ASSUME NEW x \in Node, Repaired(x)', EvenNode(x)'
      PROVE  x \in Handed'
  <2>1. x % NumThreads \in Thread
    BY ModThread
  <2>2. pc'[x % NumThreads] = "done"
    BY <1>0, <1>3 DEF Repaired, SearchPhases
  <2>3. x \in mine \/ pc[x % NumThreads] = "done"
    BY <1>1, <1>2, <2>1, <2>2
  <2>4. x \notin mine => is_even'[x] = is_even[x] /\ belongs'[x] = belongs[x]
    BY <1>0, <1>1, RepairFacts
  <2>5. x \notin mine => x \in Handed /\ EvenNode(x)
    BY <1>3, <2>3, <2>4 DEF Covered, EvenNode, Repaired
  <2> HIDE DEF mine
  <2>6. mine \subseteq Node
    BY DEF mine
  <2>7. QED  BY <1>0, <1>1, <1>3, <2>5, <2>6, RepairHands
<1>4. (\A x \in Node : Repaired(x) /\ EvenNode(x) => x \in Handed)'
  BY <1>3
<1>5. QED  BY <1>0, <1>4 DEF Covered

\* The threads of a phase start with nothing in hand.
LEMMA SpawnIdle ==
  ASSUME NEW work, Spawn(work)
  PROVE  /\ Idle'
         /\ \A t \in Thread : pc'[t] \in {"fetch", "scan"}
<1>1. /\ todo' = work /\ pc' = [t \in Thread |-> IF work[t] = <<>> THEN "fetch" ELSE "scan"]
      /\ local' = NoWork
  BY DEF Spawn
<1>2. \A t \in Thread : /\ pc'[t] \in {"fetch", "scan"}
                        /\ pc'[t] = "fetch" => todo'[t] = <<>>
  BY <1>1
<1>3. QED  BY <1>2 DEF Idle

\* When the threads of a phase are joined and no row is untaken, every even
\* node with an edge to a node in no tree is in the frontier that comes next,
\* and so is an end of every bridge.
LEMMA JoinedCovered ==
  ASSUME Covered({}), Idle, Joined, NEW v \in Node, NEW w \in Node
  PROVE  /\ phase = "augment" /\ NumThreads = 1 /\ path_collection = <<>> => ~Bridging(v, w)
         /\ phase = "expand" => /\ Waiting(v, w) => v \in Range(vector_1)
                                /\ NumThreads = 1 /\ Bridging(v, w) =>
                                     v \in Range(vector_1) \/ w \in Range(vector_1)
         /\ phase = "blossom" => /\ Waiting(v, w) => v \in Handed
                                 /\ NumThreads = 1 /\ Bridging(v, w) => v \in Handed \/ w \in Handed
<1>1. phase \in SearchPhases => \A t \in Thread : todo[t] = <<>> /\ local[t] = <<>>
  BY DEF Joined, Idle
<1>2. Range(<<>>) = {}
  BY DEF Range
<1>3. phase \in SearchPhases =>
        /\ ~InHand(v) /\ ~InHand(w)
        /\ ~Ahead(v, w, {}) /\ ~Ahead(w, v, {})
        /\ path_collection = <<>> => ~PathFound
  BY <1>1, <1>2 DEF InHand, Ahead, PathFound
<1>4. Growing = {}
  BY DEF Growing, Joined, Owning
<1>5. CASE phase = "augment"
  BY <1>3, <1>5 DEF Covered, BridgesAhead, SearchPhases
<1>6. CASE phase = "expand"
  BY <1>3, <1>4, <1>6 DEF Covered, EdgesAhead, BridgesNew, SearchPhases
<1>7. CASE phase = "blossom"
  BY <1>3, <1>7 DEF Covered, BridgesNew, SearchPhases
<1>8. QED  BY <1>5, <1>6, <1>7

\* Phase 1 starts with a frontier that has all of them.
LEMMA EnterAugment ==
  ASSUME Sound', phase' = "augment", \A t \in Thread : pc'[t] \in {"fetch", "scan"},
         NEW f, nodes_vector' = f, NEW A,
         \A v, w \in Node : Waiting(v, w)' => v \in Range(f),
         NumThreads = 1 => \A v, w \in Node : Bridging(v, w)' => v \in Range(f) \/ w \in Range(f),
         \A v, w \in Node : v \in Range(f) /\ Bridging(v, w)' => Ahead(v, w, A)'
  PROVE  Covered(A)'
<1>1. IsUndirected(adj)'
  BY DEF Sound, GraphKept
<1>2. ASSUME NEW v \in Node, NEW w \in Node, Bridging(v, w)'
      PROVE  Bridging(w, v)'
  <2>1. w \in Range(adj'[v]) /\ EvenNode(v)' /\ IsBridge(v, w)'
    BY <1>2 DEF Bridging
  <2>2. IsAdjacent(adj, w, v)'
    BY <1>1, <2>1 DEF IsUndirected
  <2>3. v \in Range(adj'[w])
    BY <2>2 DEF IsAdjacent, Range
  <2>4. QED  BY <2>1, <2>3 DEF Bridging, EvenNode, IsBridge
<1>3. (\A v, w \in Node : Waiting(v, w) => v \in Range(nodes_vector))'
  OBVIOUS
<1>4. NumThreads = 1 =>
        \A v, w \in Node : Bridging(v, w)' => Ahead(v, w, A)' \/ Ahead(w, v, A)'
  BY <1>2
<1>5. (NumThreads = 1 => BridgesAhead(A))'
  BY <1>4 DEF BridgesAhead
<1>6. QED  BY <1>3, <1>5 DEF Covered

\* Expansion starts with the same frontier, and without a bridge.
LEMMA EnterExpand ==
  ASSUME phase = "augment", Covered({}), Idle, Joined, path_collection = <<>>,
         phase' = "expand", forestVars' = forestVars, NEW A,
         \A v, w \in Node : v \in Range(nodes_vector) /\ Waiting(v, w) => Ahead(v, w, A)'
  PROVE  Covered(A)'
<1>1. \A v, w : (Waiting(v, w)' <=> Waiting(v, w)) /\ (Bridging(v, w)' <=> Bridging(v, w))
  BY DEF forestVars, Waiting, Bridging, EvenNode, IsBridge
<1>2. \A v, w \in Node : Waiting(v, w)' => Ahead(v, w, A)'
  BY <1>1 DEF Covered
<1>3. NumThreads = 1 => \A v, w \in Node : ~Bridging(v, w)'
  BY <1>1, JoinedCovered
<1>4. PICK r : r = Range(vector_1')
  OBVIOUS
<1>5. NumThreads = 1 => BridgesNew(r)'
  BY <1>3 DEF BridgesNew
<1>6. (NumThreads = 1 => BridgesNew(Range(vector_1)))'
  BY <1>4, <1>5 DEF BridgesNew
<1>7. EdgesAhead(A)'
  BY <1>2 DEF EdgesAhead
<1>8. QED  BY <1>6, <1>7 DEF Covered

\* Blossoms start with what expansion has added.
LEMMA EnterBlossom ==
  ASSUME phase = "expand", Covered({}), Idle, Joined, phase' = "blossom",
         forestVars' = forestVars, vector_1' = vector_1, NEW A
  PROVE  Covered(A)'
<1>1. \A v, w : (Waiting(v, w)' <=> Waiting(v, w)) /\ (Bridging(v, w)' <=> Bridging(v, w))
  BY DEF forestVars, Waiting, Bridging, EvenNode, IsBridge
<1>2. Range(vector_1) \subseteq Handed'
  BY DEF Handed
<1>3. (\A v, w \in Node : Waiting(v, w) => v \in Handed \/ InHand(v))'
  BY <1>1, <1>2, JoinedCovered
<1>4. PICK h : h = Handed'
  OBVIOUS
<1>5. NumThreads = 1 => BridgesNew(h)'
  BY <1>1, <1>2, <1>4, JoinedCovered DEF BridgesNew
<1>6. (NumThreads = 1 => BridgesNew(Handed))'
  BY <1>4, <1>5 DEF BridgesNew
<1>7. QED  BY <1>3, <1>6 DEF Covered

\* The driver stops when the next frontier is empty.
LEMMA StopCovered ==
  ASSUME Covered({}), Idle, Joined, phase' = "finished", forestVars' = forestVars, NEW A,
         \/ phase = "expand" /\ Range(vector_1) = {}
         \/ phase = "blossom" /\ Handed = {}
  PROVE  /\ Covered(A)' /\ Idle'
         /\ \A v, w \in Node : ~Waiting(v, w) /\ (NumThreads = 1 => ~Bridging(v, w))
<1>1. \A v, w : (Waiting(v, w)' <=> Waiting(v, w)) /\ (Bridging(v, w)' <=> Bridging(v, w))
  BY DEF forestVars, Waiting, Bridging, EvenNode, IsBridge
<1>2. \A v, w \in Node : ~Waiting(v, w) /\ (NumThreads = 1 => ~Bridging(v, w))
  BY JoinedCovered
<1>3. (\A v, w \in Node : ~Waiting(v, w) /\ (NumThreads = 1 => ~Bridging(v, w)))'
  BY <1>1, <1>2
<1>4. QED  BY <1>2, <1>3 DEF Covered, Idle, SearchPhases

\* After the flips it stops only with a matching of the size asked for.
LEMMA JoinFlipCovered ==
  ASSUME TypeOK, Sound', NEW first \in {"exposed", "reuse"}, JoinFlip(first), NEW A
  PROVE  /\ Covered(A)' /\ Idle'
         /\ phase' = "finished" => ~BelowThreshold'
<1>1. /\ phase = "flip" /\ Joined /\ M' = M
      /\ \/ phase' = "finished" /\ (~MatesMutual \/ Cardinality(Matched(M)) \div 2 >= Threshold)
         \/ phase' = first /\ pc' = [t \in Thread |-> "stripe"]
  BY DEF JoinFlip, forestVars
<1>2. IsMatching(adj, M)'
  BY <1>1 DEF Sound, GraphKept
<1>3. MatesMutual
  <2>1. MatesMutual'
    BY <1>2 DEF IsMatching, MatesMutual
  <2>2. QED  BY <1>1, <2>1 DEF MatesMutual
<1>4. CASE phase' = "finished"
  <2>1. Cardinality(Matched(M)) \div 2 >= Threshold
    BY <1>1, <1>3, <1>4
  <2>2. Cardinality(Matched(M)) \div 2 \in Int
    BY MatchedFinite
  <2>3. ~BelowThreshold'
    BY <1>1, <2>1, <2>2, ThresholdAssumption DEF BelowThreshold
  <2>4. QED  BY <1>4, <2>3 DEF Covered, Idle, SearchPhases
<1>5. CASE phase' = first /\ pc' = [t \in Thread |-> "stripe"]
  <2>1. phase' = "reuse" => \A x \in Node : ~Repaired(x)'
    BY <1>5, ModThread DEF Repaired, SearchPhases
  <2>2. QED  BY <1>5, <2>1 DEF Covered, Idle, SearchPhases
<1>6. QED  BY <1>1, <1>4, <1>5

\* It holds at the start, and a step that changes nothing keeps it.
LEMMA InitCovered ==
  ASSUME NEW first \in {"exposed", "reuse"}, DriverInit(first), NEW A
  PROVE  Covered(A) /\ Idle
<1>1. /\ phase = first /\ pc = [t \in Thread |-> "stripe"]
  BY DEF DriverInit
<1>2. phase = "reuse" => \A x \in Node : ~Repaired(x)
  BY <1>1, ModThread DEF Repaired, SearchPhases
<1>3. QED  BY <1>1, <1>2 DEF Covered, Idle, SearchPhases

\* Nor does a step that changes nothing.
LEMMA SameCovered ==
  ASSUME UNCHANGED searchVars, NEW A, Covered(A), Idle
  PROVE  Covered(A)' /\ Idle'
<1>1. /\ adj' = adj /\ M' = M /\ is_even' = is_even /\ belongs' = belongs
      /\ phase' = phase /\ pc' = pc /\ todo' = todo /\ local' = local
      /\ nodes_vector' = nodes_vector /\ vector_1' = vector_1 /\ vector_2' = vector_2
      /\ path_collection' = path_collection
  BY DEF searchVars, forestVars, frontierVars, threadVars
<1>2. (\A v, w : (Waiting(v, w)' <=> Waiting(v, w)) /\ (Bridging(v, w)' <=> Bridging(v, w)))
      /\ (\A x : (InHand(x)' <=> InHand(x)) /\ (EvenNode(x)' <=> EvenNode(x))
                 /\ (Repaired(x)' <=> Repaired(x)))
      /\ (\A v, w : Ahead(v, w, A)' <=> Ahead(v, w, A))
  BY <1>1 DEF Waiting, Bridging, EvenNode, IsBridge, InHand, Repaired, Ahead
<1>3. Handed' = Handed /\ Growing' = Growing /\ (PathFound' <=> PathFound)
      /\ (BelowThreshold' <=> BelowThreshold)
  BY <1>1 DEF Handed, Growing, Edge, Mate, PathFound, BelowThreshold, Matched
<1>4. EdgesAhead(A)' <=> EdgesAhead(A)
  BY <1>1, <1>2, <1>3 DEF EdgesAhead
<1>5. BridgesAhead(A)' <=> BridgesAhead(A)
  BY <1>1, <1>2, <1>3 DEF BridgesAhead
<1>6. \A S : BridgesNew(S)' <=> BridgesNew(S)
  BY <1>2 DEF BridgesNew
<1>7. BridgesNew(Handed)' <=> BridgesNew(Handed)
  BY <1>3, <1>6 DEF BridgesNew
<1>8. BridgesNew(Range(vector_1))' <=> BridgesNew(Range(vector_1))
  BY <1>1, <1>6 DEF BridgesNew
<1>9. Idle'
  BY <1>1 DEF Idle
<1>10. QED  BY <1>1, <1>2, <1>3, <1>4, <1>5, <1>7, <1>8, <1>9 DEF Covered

\* When the engine stops with nothing left, no even node has such an edge.
LEMMA CoveredNoEdgeLeft ==
  ASSUME Basic, NEW A, Covered(A)
  PROVE  NoEdgeLeft
<1>1. SUFFICES ASSUME phase = "finished", Cardinality(Matched(M)) \div 2 < Threshold,
                      NEW v \in Node, is_even[v] = 1, belongs[v] # NoNode,
                      NEW w \in Range(adj[v])
               PROVE  belongs[w] # NoNode
  BY DEF NoEdgeLeft
<1>2. adj[v] \in Seq(Node)
  BY <1>1 DEF Basic, TypeOK, ForestTypeOK
<1>3. w \in Node
  BY <1>1, <1>2, RangeOfSeq
<1>4. QED  BY <1>1, <1>3 DEF Covered, Waiting, EvenNode, BelowThreshold

\* Every edge of a node is in its row.
LEMMA RowHolds ==
  ASSUME adj \in [Node -> Seq(Node)], NEW v \in Node, NEW w \in Range(adj[v])
  PROVE  <<v, w>> \in Range(Row(adj, v))
<1>1. adj[v] \in Seq(Node)
  OBVIOUS
<1>2. PICK j \in 1 .. Len(adj[v]) : adj[v][j] = w
  BY <1>1, LenProperties DEF Range
<1>3. Row(adj, v)[j] = <<v, w>> /\ j \in DOMAIN Row(adj, v)
  BY <1>2 DEF Row
<1>4. QED  BY <1>3 DEF Range

\* A thread takes a share of what was untaken: every live edge of it that is
\* not untaken any more is ahead of the thread.
LEMMA TakeCovered ==
  ASSUME Basic, Sound, Idle, phase \in SearchPhases, NEW A, Covered(A), NEW B,
         NEW t \in Thread, pc[t] = "fetch", NEW s \in Seq(Node \X Node), GoOn(t, s),
         UNCHANGED <<forestVars, frontierVars, flagVars, local, lap, path_collection, phase>>,
         \A v, w \in Node :
           /\ v \in A
           /\ (phase = "augment" /\ Bridging(v, w)) \/ (phase = "expand" /\ Waiting(v, w))
           => v \in B \/ <<v, w>> \in Range(s)
  PROVE  Covered(B)' /\ Idle'
<1>1. /\ adj' = adj /\ M' = M /\ is_even' = is_even /\ belongs' = belongs
      /\ phase' = phase /\ local' = local /\ path_collection' = path_collection
      /\ nodes_vector' = nodes_vector /\ vector_1' = vector_1 /\ vector_2' = vector_2
      /\ todo' = [todo EXCEPT ![t] = s]
      /\ pc' = [pc EXCEPT ![t] = IF s = <<>> THEN "fetch" ELSE "scan"]
  BY DEF GoOn, forestVars, frontierVars
<1>2. /\ todo \in [Thread -> Seq(Node \X Node)] /\ DOMAIN pc = Thread
      /\ todo[t] = <<>> /\ IsUndirected(adj)
  BY DEF Basic, TypeOK, Idle, Sound, GraphKept
<1>3. /\ pc'[t] \in {"fetch", "scan"}
      /\ pc'[t] = "fetch" => s = <<>>
      /\ todo'[t] = s
      /\ \A u \in Thread \ {t} : pc'[u] = pc[u] /\ todo'[u] = todo[u]
  BY <1>1, <1>2
<1>4. \A v, w \in Node : Bridging(v, w) => Bridging(w, v)
  <2>1. \A v, w \in Node : w \in Range(adj[v]) => v \in Range(adj[w])
    BY <1>2 DEF IsUndirected, IsAdjacent, Range
  <2>2. QED  BY <2>1 DEF Bridging, IsBridge, EvenNode
<1>5. ASSUME NEW v \in Node, NEW w \in Node, Ahead(v, w, A),
             (phase = "augment" /\ Bridging(v, w)) \/ (phase = "expand" /\ Waiting(v, w))
      PROVE  Ahead(v, w, B)'
  <2>1. CASE v \in A
    BY <1>3, <1>5, <2>1 DEF Ahead
  <2>2. CASE \E u \in Thread : <<v, w>> \in Range(todo[u])
    <3>1. Range(<<>>) = {}
      BY DEF Range
    <3>2. PICK u \in Thread : u # t /\ <<v, w>> \in Range(todo[u])
      BY <1>2, <2>2, <3>1
    <3>3. QED  BY <1>3, <3>2 DEF Ahead
  <2>3. QED  BY <1>5, <2>1, <2>2 DEF Ahead
<1>6. (\A v, w : (Waiting(v, w)' <=> Waiting(v, w)) /\ (Bridging(v, w)' <=> Bridging(v, w)))
      /\ (\A x : (InHand(x)' <=> InHand(x)) /\ (EvenNode(x)' <=> EvenNode(x)))
  BY <1>1 DEF Waiting, Bridging, EvenNode, IsBridge, InHand
<1>7. Handed' = Handed /\ (PathFound' <=> PathFound)
  BY <1>1 DEF Handed, PathFound
<1>8. Growing' = Growing
  <2>1. \A u \in Thread : pc'[u] \in Owning <=> pc[u] \in Owning
    <3>1. pc'[t] \notin Owning /\ pc[t] \notin Owning
      BY <1>3 DEF Owning
    <3>2. QED  BY <1>3, <3>1
  <2>2. \A u \in Thread : pc[u] \in Owning => Edge(u)' = Edge(u) /\ Mate(u)' = Mate(u)
    BY <1>1, <1>3 DEF Owning, Edge, Mate
  <2>3. QED  BY <1>1, <2>1, <2>2 DEF Growing
<1>9. phase = "augment" /\ BridgesAhead(A) => BridgesAhead(B)'
  <2>1. \A u \in Thread : pc[u] # "release" => pc'[u] # "release"
    BY <1>3
  <2>2. \A v, w \in Node : phase = "augment" /\ Bridging(v, w) /\ Ahead(v, w, A) => Ahead(v, w, B)'
    BY <1>5
  <2>3. QED  BY <1>4, <1>6, <1>7, <2>1, <2>2 DEF BridgesAhead
<1>10. phase = "expand" /\ EdgesAhead(A) => EdgesAhead(B)'
  BY <1>1, <1>5, <1>6, <1>8 DEF EdgesAhead
<1>11. \A S : BridgesNew(S)' <=> BridgesNew(S)
  BY <1>6 DEF BridgesNew
<1>12. BridgesNew(Handed)' <=> BridgesNew(Handed)
  BY <1>7, <1>11 DEF BridgesNew
<1>13. BridgesNew(Range(vector_1))' <=> BridgesNew(Range(vector_1))
  BY <1>1, <1>11 DEF BridgesNew
<1>14. Idle'
  BY <1>1, <1>3 DEF Idle
<1>15. QED
  BY <1>1, <1>6, <1>7, <1>9, <1>10, <1>12, <1>13, <1>14 DEF Covered, SearchPhases

\* A thread that leaves its loop has nothing ahead.
LEMMA LeaveCovered ==
  ASSUME Basic, Idle, NEW A, Covered(A), NEW t \in Thread, Leaves(t)
  PROVE  Covered(A)' /\ Idle'
<1>1. /\ adj' = adj /\ M' = M /\ is_even' = is_even /\ belongs' = belongs
      /\ phase' = phase /\ local' = local /\ path_collection' = path_collection
      /\ nodes_vector' = nodes_vector /\ vector_1' = vector_1 /\ vector_2' = vector_2
      /\ todo' = todo /\ pc[t] = "fetch" /\ pc' = [pc EXCEPT ![t] = "merge"]
  BY DEF Leaves, Step, forestVars, frontierVars
<1>2. DOMAIN pc = Thread
  BY DEF Basic, TypeOK
<1>3. pc'[t] = "merge" /\ \A u \in Thread \ {t} : pc'[u] = pc[u]
  BY <1>1, <1>2
<1>4. (\A v, w : (Waiting(v, w)' <=> Waiting(v, w)) /\ (Bridging(v, w)' <=> Bridging(v, w)))
      /\ (\A x : (InHand(x)' <=> InHand(x)) /\ (EvenNode(x)' <=> EvenNode(x)))
      /\ (\A v, w : Ahead(v, w, A)' <=> Ahead(v, w, A))
  BY <1>1 DEF Waiting, Bridging, EvenNode, IsBridge, InHand, Ahead
<1>5. \A x \in Node : Repaired(x)' => Repaired(x)
  BY <1>1, <1>3, ModThread DEF Repaired
<1>6. Handed' = Handed /\ (PathFound' <=> PathFound) /\ (BelowThreshold' <=> BelowThreshold)
  BY <1>1 DEF Handed, PathFound, BelowThreshold, Matched
<1>7. Growing' = Growing
  <2>1. \A u \in Thread : pc'[u] \in Owning <=> pc[u] \in Owning
    BY <1>1, <1>3 DEF Owning
  <2>2. \A u \in Thread : Edge(u)' = Edge(u) /\ Mate(u)' = Mate(u)
    BY <1>1 DEF Edge, Mate
  <2>3. QED  BY <1>1, <2>1, <2>2 DEF Growing
<1>8. BridgesAhead(A) => BridgesAhead(A)'
  BY <1>3, <1>4, <1>6 DEF BridgesAhead
<1>9. EdgesAhead(A) => EdgesAhead(A)'
  BY <1>1, <1>4, <1>7 DEF EdgesAhead
<1>10. \A S : BridgesNew(S)' <=> BridgesNew(S)
  BY <1>4 DEF BridgesNew
<1>11. BridgesNew(Handed)' <=> BridgesNew(Handed)
  BY <1>6, <1>10 DEF BridgesNew
<1>12. BridgesNew(Range(vector_1))' <=> BridgesNew(Range(vector_1))
  BY <1>1, <1>10 DEF BridgesNew
<1>13. Idle'
  BY <1>1, <1>3 DEF Idle
<1>14. QED
  BY <1>1, <1>4, <1>5, <1>6, <1>8, <1>9, <1>11, <1>12, <1>13 DEF Covered

-----------------------------------------------------------------------------
(***************************************************************************)
(* Why the engines stop with a maximum matching of a bipartite graph: when *)
(* no edge is left, the odd nodes of the trees and one side of the rest    *)
(* meet every edge, and no two of them are mates.                          *)
(***************************************************************************)
\* A matching is maximum if a set of matched nodes, no two of them mates, meets
\* every edge (Koenig): disjoint edges meet it in distinct nodes.
LEMMA CoverIsMaximum ==
  ASSUME IsMatching(adj, M), NEW C, C \subseteq Matched(M),
         \A v \in C : M[v] \notin C,
         \A v \in Node : \A w \in Range(adj[v]) : v # w => v \in C \/ w \in C
  PROVE  IsMaximumMatching(adj, M)
<1> DEFINE D == {M[v] : v \in C}
<1>1. \A v \in Matched(M) : M[v] \in Node /\ M[M[v]] = v /\ v \in Node
  BY DEF IsMatching, Matched
<1>2. IsFiniteSet(C) /\ IsFiniteSet(Matched(M)) /\ Cardinality(Matched(M)) \in Nat
  BY MatchedFinite, FS_Subset
<1>3. Cardinality(C) \in Nat
  BY <1>2, FS_CardinalityType
<1>4. IsFiniteSet(D) /\ Cardinality(D) = Cardinality(C)
  <2> DEFINE g == [v \in C |-> M[v]]
  <2>1. g \in [C -> D] /\ \A a, b \in C : g[a] = g[b] => a = b
    BY <1>1
  <2>2. g \in Injection(C, D)
    BY <2>1 DEF Injection, IsInjective
  <2>3. g \in Surjection(C, D)
    <3>1. \A d \in D : \E c \in C : g[c] = d
      OBVIOUS
    <3>2. QED  BY <2>1, <3>1 DEF Surjection
  <2>4. ExistsBijection(C, D)
    BY <2>2, <2>3 DEF ExistsBijection, Bijection
  <2> HIDE DEF D, g
  <2>5. QED  BY <1>2, <2>4, FS_Bijection
<1>5. C \cap D = {}
  OBVIOUS
<1>6. C \cup D \subseteq Matched(M)
  <2>1. \A v \in C : M[v] \in Matched(M)
    <3>1. SUFFICES ASSUME NEW v \in C
                   PROVE  M[v] \in Matched(M)
      OBVIOUS
    <3>2. M[v] \in Node /\ M[M[v]] = v /\ v \in Node
      BY <1>1, <3>1
    <3>3. v # NoNode
      BY <3>2, NodesAssumption DEF Node, NoNode
    <3>4. QED  BY <3>2, <3>3 DEF Matched
  <2>2. QED  BY <2>1
<1> HIDE DEF D
<1>7. Cardinality(C \cup D) = Cardinality(C) + Cardinality(C)
  <2>1. Cardinality(C \cup D) = Cardinality(C) + Cardinality(D) - Cardinality(C \cap D)
    BY <1>2, <1>4, FS_Union
  <2>2. Cardinality(C \cap D) = 0
    BY <1>5, FS_EmptySet
  <2>3. QED  BY <1>3, <1>4, <2>1, <2>2
<1>8. 2 * Cardinality(C) <= Cardinality(Matched(M))
  <2>1. Cardinality(C \cup D) <= Cardinality(Matched(M))
    BY <1>2, <1>6, FS_Subset
  <2>2. QED  BY <1>2, <1>3, <1>7, <2>1
<1>9. ASSUME NEW S \in SUBSET Edges(adj), 2 * Cardinality(S) > Cardinality(Matched(M))
      PROVE  \E e, f \in S : e # f /\ e \cap f # {}
  <2>1. SUFFICES ASSUME \A e, f \in S : e # f => e \cap f = {}
                 PROVE  FALSE
    OBVIOUS
  <2>2. \A e \in S : \E c \in C : c \in e
    <3>1. SUFFICES ASSUME NEW e \in S
                   PROVE  \E c \in C : c \in e
      OBVIOUS
    <3>2. PICK v \in Node : \E w \in Range(adj[v]) \ {v} : e = {v, w}
      BY <3>1 DEF Edges
    <3>3. QED  BY <3>2
  <2> DEFINE h == [e \in S |-> CHOOSE c \in C : c \in e]
  <2>3. \A e \in S : h[e] \in C /\ h[e] \in e
    BY <2>2
  <2>4. h \in [S -> C] /\ \A e, f \in S : h[e] = h[f] => e = f
    <3>1. h \in [S -> C]
      BY <2>3
    <3> HIDE DEF h
    <3>2. QED  BY <2>1, <2>3, <3>1
  <2>5. h \in Injection(S, C)
    BY <2>4 DEF Injection, IsInjective
  <2>6. IsFiniteSet(S) /\ Cardinality(S) <= Cardinality(C)
    BY <1>2, <2>5, FS_Injection
  <2>7. Cardinality(S) \in Nat
    BY <2>6, FS_CardinalityType
  <2>8. QED  BY <1>2, <1>3, <1>8, <1>9, <2>6, <2>7
<1>10. QED  BY <1>9 DEF IsMaximumMatching

\* A round without a waiting edge or a bridge on a bipartite graph.
LEMMA NoEdgeIsMaximum ==
  ASSUME Basic, Sound, Joined, phase \in SearchPhases, Bipartite,
         \A v, w \in Node : ~Waiting(v, w) /\ ~Bridging(v, w)
  PROVE  IsMaximumMatching(adj, M)
<1>1. PICK S \in SUBSET Node : SideOf(S) /\ TreesSided(S)
  BY DEF Bipartite
<1>2. /\ IsMatching(adj, M) /\ IsUndirected(adj) /\ adj \in [Node -> Seq(Node)]
      /\ is_even \in [Node -> {0, 1}]
      /\ \A x \in Node : M[x] = NoNode => belongs[x] = x /\ is_even[x] = 1
      /\ \A x \in Matched(M) : belongs[M[x]] = belongs[x]
  <2>1. TreesClosed
    BY SoundForest
  <2>2. phase # "flip"
    BY DEF SearchPhases
  <2>3. QED
    BY <2>1, <2>2 DEF Basic, TypeOK, ForestTypeOK, Sound, GraphKept, TreesSound, IsRoot, TreesClosed
<1> DEFINE C == {x \in Node : \/ belongs[x] # NoNode /\ is_even[x] # 1
                              \/ belongs[x] = NoNode /\ x \in S}
<1>3. C \subseteq Matched(M)
  <2>1. ASSUME NEW x \in Node, x \in C, M[x] = NoNode
        PROVE  FALSE
    <3>1. belongs[x] = x /\ is_even[x] = 1 /\ x # NoNode
      BY <1>2, <2>1, NodesAssumption DEF Node, NoNode
    <3>2. QED  BY <2>1, <3>1
  <2>2. QED  BY <2>1 DEF Matched
<1>4. \A v, w \in Node : w \in Range(adj[v]) => (v \in S) # (w \in S) /\ v \in Range(adj[w])
  <2>1. ASSUME NEW v \in Node, NEW w \in Node, w \in Range(adj[v])
        PROVE  IsAdjacent(adj, v, w) /\ v \in Range(adj[w])
    <3>1. IsAdjacent(adj, v, w)
      BY <2>1 DEF IsAdjacent, Range
    <3>2. IsAdjacent(adj, w, v)
      BY <1>2, <2>1 DEF IsUndirected
    <3>3. v \in Range(adj[w])
      BY <3>2 DEF IsAdjacent, Range
    <3>4. QED  BY <3>1, <3>3
  <2>2. QED  BY <1>1, <2>1 DEF SideOf
<1>5. \A v \in C : M[v] \notin C
  <2>1. SUFFICES ASSUME NEW v \in C, M[v] \in C
                 PROVE  FALSE
    OBVIOUS
  <2>2. /\ v \in Matched(M) /\ v \in Node /\ M[v] \in Node
        /\ belongs[M[v]] = belongs[v] /\ IsAdjacent(adj, v, M[v])
    BY <1>2, <1>3, <2>1 DEF IsMatching
  <2>3. (v \in S) # (M[v] \in S)
    BY <1>1, <2>2 DEF SideOf
  <2>4. CASE belongs[v] = NoNode
    BY <2>1, <2>2, <2>3, <2>4
  <2>5. CASE belongs[v] # NoNode
    <3>1. is_even[v] # 1 /\ is_even[M[v]] # 1
      BY <2>1, <2>2, <2>5
    <3>2. /\ is_even[v] = 1 <=> (v \in S <=> belongs[v] \in S)
          /\ is_even[M[v]] = 1 <=> (M[v] \in S <=> belongs[v] \in S)
      BY <1>1, <2>2, <2>5 DEF TreesSided
    <3>3. QED  BY <2>3, <3>1, <3>2
  <2>6. QED  BY <2>4, <2>5
<1>6. \A v \in Node : \A w \in Range(adj[v]) : v # w => v \in C \/ w \in C
  <2>1. SUFFICES ASSUME NEW v \in Node, NEW w \in Range(adj[v]), v \notin C, w \notin C
                 PROVE  FALSE
    OBVIOUS
  <2>2. w \in Node
    <3>1. adj[v] \in Seq(Node)
      BY <1>2
    <3>2. QED  BY <3>1, RangeOfSeq
  <2>3. v \in Range(adj[w]) /\ (v \in S) # (w \in S)
    BY <1>4, <2>2
  <2>4. CASE belongs[v] = NoNode /\ belongs[w] = NoNode
    BY <2>1, <2>2, <2>3, <2>4
  <2>5. CASE belongs[v] # NoNode /\ belongs[w] = NoNode
    <3>1. Waiting(v, w)
      BY <2>1, <2>5 DEF Waiting, EvenNode
    <3>2. QED  BY <2>2, <3>1
  <2>6. CASE belongs[v] = NoNode /\ belongs[w] # NoNode
    <3>1. Waiting(w, v)
      BY <2>1, <2>2, <2>3, <2>6 DEF Waiting, EvenNode
    <3>2. QED  BY <2>2, <3>1
  <2>7. CASE belongs[v] # NoNode /\ belongs[w] # NoNode
    <3>1. is_even[v] = 1 /\ is_even[w] = 1
      BY <2>1, <2>2, <2>7
    <3>2. belongs[v] # belongs[w]
      <4>1. /\ is_even[v] = 1 <=> (v \in S <=> belongs[v] \in S)
            /\ is_even[w] = 1 <=> (w \in S <=> belongs[w] \in S)
        BY <1>1, <2>2, <2>7 DEF TreesSided
      <4>2. QED  BY <2>3, <3>1, <4>1
    <3>3. Bridging(v, w)
      BY <2>1, <2>7, <3>1, <3>2 DEF Bridging, EvenNode, IsBridge
    <3>4. QED  BY <2>2, <3>3
  <2>8. QED  BY <2>4, <2>5, <2>6, <2>7
<1> HIDE DEF C
<1>7. QED  BY <1>2, <1>3, <1>5, <1>6, CoverIsMaximum

\* One thread that stops after a round without a path has a maximum matching.
LEMMA StopMaximum ==
  ASSUME Basic, Sound, Bipartite, NumThreads = 1, Covered({}), Idle, Joined,
         phase' = "finished", forestVars' = forestVars,
         \/ phase = "expand" /\ Range(vector_1) = {}
         \/ phase = "blossom" /\ Handed = {}
  PROVE  FinishedMaximum'
<1>1. \A v, w \in Node : ~Waiting(v, w) /\ ~Bridging(v, w)
  <2>1. PICK A : A = {}
    OBVIOUS
  <2>2. QED  BY <2>1, StopCovered
<1>2. IsMaximumMatching(adj, M)
  BY <1>1, NoEdgeIsMaximum DEF SearchPhases
<1>3. adj' = adj /\ M' = M
  BY DEF forestVars
<1>4. QED  BY <1>2, <1>3 DEF FinishedMaximum, IsMaximumMatching, IsMatching, Matched, IsAdjacent

\* After a flip the driver stops only when the matching is large enough.
LEMMA JoinFlipMaximum ==
  ASSUME TypeOK, Sound', NEW first \in {"exposed", "reuse"}, JoinFlip(first)
  PROVE  FinishedMaximum'
<1>1. PICK A : A = {}
  OBVIOUS
<1>2. phase' = "finished" => ~BelowThreshold'
  BY <1>1, JoinFlipCovered
<1>3. M' = M
  BY DEF JoinFlip, forestVars
<1>4. phase' = "finished" => Cardinality(Matched(M)) \div 2 >= Threshold
  BY <1>2, <1>3, MatchedFinite, ThresholdAssumption DEF BelowThreshold, Matched
<1>5. QED  BY <1>3, <1>4 DEF FinishedMaximum, Matched
=============================================================================
