--------------------------- MODULE PerNodeProofs ----------------------------
(***************************************************************************)
(* The node-parallel CPU engine keeps what the proofs about the threads of *)
(* a phase establish, for every graph and any number of threads.           *)
(***************************************************************************)
EXTENDS PerNodeEngine, SearchProofs

\* What the engine keeps without any assumption on the blossoms.
EngineBasic == Basic /\ next_node \in Nat

\* A chunk of the frontier is a share of its edges.
LEMMA ChunkIsShare ==
  ASSUME TypeOK, next_node \in Nat, NEW t \in Thread, NEW live, TakeChunk(t, live),
         UNCHANGED <<forestVars, frontierVars, flagVars, path_collection, phase>>
  PROVE  TakesShare(t, live)
<1> DEFINE past == next_node + ChunkSize
           last == IF past < Len(nodes_vector) THEN past ELSE Len(nodes_vector)
           chunk == SubSeq(nodes_vector, next_node + 1, last)
           ss == [i \in DOMAIN chunk |-> Row(adj, chunk[i])]
<1>0. /\ nodes_vector \in Seq(Node) /\ Len(nodes_vector) \in Nat
      /\ DOMAIN nodes_vector = 1 .. Len(nodes_vector)
      /\ \A i \in 1 .. Len(nodes_vector) : nodes_vector[i] \in Node
  <2>1. nodes_vector \in Seq(Node)
    BY DEF TypeOK
  <2>2. QED  BY <2>1, LenProperties, ElementOfSeq
<1>1. /\ pc[t] = "fetch" /\ GoOn(t, Among(FlattenSeq(ss), live))
      /\ local' = local /\ lap' = lap /\ next_node < Len(nodes_vector)
  BY DEF TakeChunk
<1>2. next_node + 1 \in 1 .. Len(nodes_vector) /\ last \in 0 .. Len(nodes_vector)
  BY <1>0, <1>1, ChunkAssumption
<1> HIDE DEF last
<1>3. \A i \in (next_node + 1) .. last : i \in 1 .. Len(nodes_vector)
  BY <1>0, <1>2
<1>4. /\ chunk \in Seq(Node)
      /\ \A i \in 1 .. last - (next_node + 1) + 1 : chunk[i] = nodes_vector[(next_node + 1) + i - 1]
      /\ Len(chunk) = IF next_node + 1 <= last THEN last - (next_node + 1) + 1 ELSE 0
  <2>1. next_node + 1 \in Int /\ last \in Int
    BY <1>2
  <2>2. \A i \in (next_node + 1) .. last : nodes_vector[i] \in Node
    BY <1>0, <1>3
  <2>3. QED  BY <2>1, <2>2, SubSeqProperties
<1> HIDE DEF chunk
<1> DEFINE n == Len(chunk)
<1>5. n \in Nat /\ DOMAIN chunk = 1 .. n
  BY <1>4, LenProperties
<1>6. \A i \in 1 .. n : chunk[i] \in Range(nodes_vector)
  <2>1. SUFFICES ASSUME NEW i \in 1 .. n
                 PROVE  chunk[i] \in Range(nodes_vector)
    OBVIOUS
  <2>2. i \in 1 .. last - (next_node + 1) + 1 /\ (next_node + 1) + i - 1 \in (next_node + 1) .. last
    BY <1>2, <1>4, <1>5
  <2>3. (next_node + 1) + i - 1 \in 1 .. Len(nodes_vector)
    BY <1>3, <2>2
  <2>4. chunk[i] = nodes_vector[(next_node + 1) + i - 1]
    BY <1>4, <2>2
  <2>5. QED  BY <2>3, <2>4, <1>0 DEF Range
<1>7. ss = [i \in 1 .. n |-> ss[i]] /\ \A i \in 1 .. n : ss[i] = Row(adj, chunk[i])
  BY <1>5
<1>8. adj \in [Node -> Seq(Node)]
  BY DEF TypeOK, ForestTypeOK
<1> HIDE DEF n, ss
<1>9. IsShare(Among(FlattenSeq(ss), live), nodes_vector, live)
  BY <1>0, <1>5, <1>6, <1>7, <1>8, RowsAreShare
<1> DEFINE s == Among(FlattenSeq(ss), live)
<1> HIDE DEF s
<1>10. IsShare(s, nodes_vector, live) /\ GoOn(t, s) /\ s \in Seq(Node \X Node)
  BY <1>1, <1>9 DEF s, IsShare
<1>11. QED  BY <1>1, <1>10 DEF TakesShare

\* Every step of a thread is one of the steps the phases are made of.
LEMMA WorkerSteps ==
  ASSUME EngineBasic, NEW t \in Thread, Worker(t)
  PROVE  next_node' \in Nat /\ ThreadStep(t)
<1>0. TypeOK /\ next_node \in Nat
  BY DEF EngineBasic, Basic
<1>1. \A live : TakeChunk(t, live) => next_node' \in Nat /\ local' = local /\ lap' = lap
  BY <1>0, ChunkAssumption DEF TakeChunk
<1>2. LeaveLoop(t) => next_node' \in Nat /\ Step(t, "fetch", "merge")
                      /\ UNCHANGED <<todo, local, lap>>
  BY <1>0, ChunkAssumption DEF LeaveLoop
<1>3. CASE phase = "reuse" /\ Reuse(t) /\ UNCHANGED next_node
  BY <1>0, <1>3 DEF ThreadStep
<1>4. CASE phase = "flip" /\ (FlipPair(t) \/ FlipEnds(t)) /\ UNCHANGED next_node
  BY <1>0, <1>4 DEF ThreadStep
<1>5. CASE phase = "augment" /\ AugmentWorker(t)
  <2>1. UNCHANGED <<forestVars, frontierVars, select_match, select_blossom, phase>>
    BY <1>5 DEF AugmentWorker
  <2>2. CASE TakeChunk(t, Bridges) /\ UNCHANGED <<select_tree, path_collection>>
    BY <1>0, <1>1, <1>5, <2>1, <2>2, ChunkIsShare DEF flagVars, ThreadStep
  <2>3. CASE LeaveLoop(t) /\ UNCHANGED <<select_tree, path_collection>>
    BY <1>2, <1>5, <2>1, <2>3 DEF flagVars, Leaves, ThreadStep
  <2>4. CASE (AugmentStep(t) \/ AugmentMerge(t, "merge")) /\ UNCHANGED next_node
    BY <1>0, <1>5, <2>1, <2>4 DEF Augments, ThreadStep
  <2>5. QED  BY <1>5, <2>2, <2>3, <2>4 DEF AugmentWorker
<1>6. CASE phase = "expand" /\ ExpandWorker(t)
  <2>1. UNCHANGED <<adj, M, nodes_vector, vector_2, select_tree, select_blossom,
                    path_collection, phase>>
    BY <1>6 DEF ExpandWorker
  <2>2. CASE TakeChunk(t, Outward) /\ UNCHANGED <<select_match, vector_1, is_even, belongs, path_table>>
    BY <1>0, <1>1, <1>6, <2>1, <2>2, ChunkIsShare DEF flagVars, forestVars, frontierVars, ThreadStep
  <2>3. CASE LeaveLoop(t) /\ UNCHANGED <<select_match, vector_1, is_even, belongs, path_table>>
    BY <1>2, <1>6, <2>1, <2>3 DEF flagVars, forestVars, frontierVars, Leaves, ThreadStep
  <2>4. CASE (ExpandStep(t) \/ ExpandMerge(t, "merge")) /\ UNCHANGED next_node
    BY <1>0, <1>6, <2>1, <2>4 DEF Expands, ThreadStep
  <2>5. QED  BY <1>6, <2>2, <2>3, <2>4 DEF ExpandWorker
<1>7. CASE phase = "blossom" /\ BlossomWorker(t)
  <2>1. UNCHANGED <<adj, M, belongs, nodes_vector, vector_1, select_tree, select_match,
                    path_collection, phase>>
    BY <1>7 DEF BlossomWorker
  <2>2. CASE TakeChunk(t, Inward) /\ UNCHANGED <<select_blossom, vector_2, is_even, path_table>>
    BY <1>0, <1>1, <1>7, <2>1, <2>2, ChunkIsShare DEF flagVars, forestVars, frontierVars, ThreadStep
  <2>3. CASE LeaveLoop(t) /\ UNCHANGED <<select_blossom, vector_2, is_even, path_table>>
    BY <1>2, <1>7, <2>1, <2>3 DEF flagVars, forestVars, frontierVars, Leaves, ThreadStep
  <2>4. CASE /\ RoundBlossom(t) \/ FindBlossom(t) \/ FillChecked(t) \/ DropEntry(t)
             /\ UNCHANGED <<vector_2, next_node>>
    BY <1>0, <1>7, <2>1, <2>4 DEF Shrinks, ThreadStep
  <2>5. CASE BlossomMerge(t, "merge") /\ UNCHANGED next_node
    BY <1>0, <1>7, <2>1, <2>5 DEF Shrinks, ThreadStep
  <2>6. QED  BY <1>7, <2>2, <2>3, <2>4, <2>5 DEF BlossomWorker
<1>8. QED  BY <1>3, <1>4, <1>5, <1>6, <1>7 DEF Worker

\* The frontier the driver hands on.
LEMMA FrontierType == TypeOK => Frontier \in Seq(Node) /\ <<>> \in Seq(Node)
BY ConcatProperties DEF TypeOK, Frontier

\* The driver's steps.
LEMMA DriverBasic ==
  ASSUME EngineBasic, Driver
  PROVE  EngineBasic'
<1>0. Basic /\ TypeOK /\ EntriesNeverOne /\ ExposedInTrees /\ next_node \in Nat
  BY DEF EngineBasic, Basic
<1>1. /\ is_even \in [Node -> {0, 1}] /\ belongs \in [Node -> Node \cup {NoNode}]
      /\ path_table \in [Node -> Seq(Node)]
      /\ vector_1 \in Seq(Node) /\ vector_2 \in Seq(Node)
      /\ \A x \in Node : Len(path_table[x]) # 1
      /\ Frontier \in Seq(Node) /\ <<>> \in Seq(Node)
  BY <1>0, FrontierType DEF TypeOK, ForestTypeOK, EntriesNeverOne
<1>2. NoWork \in [Thread -> Seq(Node \X Node)]
  BY DEF NoWork
<1>3. \A x \in Node : M[x] = NoNode /\ Repaired(x) => belongs[x] # NoNode
  BY <1>0 DEF ExposedInTrees
<1>4. phase \in SearchPhases \/ (phase = "reuse" /\ Joined) => \A x \in Node : Repaired(x)
  BY ModThread DEF Repaired, Joined
<1>5. ASSUME NEW next \in SearchPhases, Goto(next), phase \notin {"flip", "finished"},
             UNCHANGED <<forestVars, flagVars, lap, path_collection>>,
             nodes_vector' = Frontier, vector_1' \in {vector_1, <<>>}, vector_2' \in {vector_2, <<>>},
             \A x \in Node : Repaired(x)
      PROVE  EngineBasic'
  <2>1. phase' \in SearchPhases /\ Spawn(NoWork) /\ next_node' \in Nat
    BY <1>5 DEF Goto
  <2>2. /\ is_even' = is_even /\ belongs' = belongs /\ path_table' = path_table
        /\ adj' = adj /\ M' = M
    BY <1>5 DEF forestVars
  <2>3. Basic'
    BY <1>0, <1>1, <1>2, <1>3, <1>5, <2>1, <2>2, EnterBasic
  <2>4. QED  BY <2>1, <2>3 DEF EngineBasic
<1>6. CASE JoinReuse
  BY <1>4, <1>5, <1>6 DEF JoinReuse, SearchPhases
<1>7. CASE JoinAugment
  <2>1. phase = "augment" /\ UNCHANGED <<forestVars, flagVars, lap, path_collection>>
    BY <1>7 DEF JoinAugment
  <2>2. CASE path_collection # <<>>
    <3>1. StartFlip /\ next_node' = next_node
      BY <1>7, <2>2 DEF JoinAugment
    <3>2. Basic'
      BY <1>0, <2>1, <3>1, StartFlipBasic
    <3>3. QED  BY <1>0, <3>1, <3>2 DEF EngineBasic
  <2>3. CASE path_collection = <<>>
    BY <1>4, <1>5, <1>7, <2>1, <2>3 DEF JoinAugment, SearchPhases
  <2>4. QED  BY <2>2, <2>3
<1>8. CASE JoinExpand
  BY <1>4, <1>5, <1>8 DEF JoinExpand, SearchPhases
<1>9. CASE JoinBlossom
  <2>1. /\ phase = "blossom" /\ nodes_vector' = Frontier
        /\ UNCHANGED <<forestVars, vector_1, vector_2, flagVars, lap, path_collection>>
    BY <1>9 DEF JoinBlossom
  <2>2. CASE Frontier = <<>>
    <3>1. phase' = "finished" /\ UNCHANGED <<next_node, pc, todo, local>>
      BY <1>9, <2>2 DEF JoinBlossom
    <3>2. nodes_vector' \in Seq(Node) /\ vector_2' \in Seq(Node)
      BY <1>1, <2>1
    <3>3. Basic'
      BY <1>0, <2>1, <3>1, <3>2, StopBasic
    <3>4. QED  BY <1>0, <3>1, <3>3 DEF EngineBasic
  <2>3. CASE Frontier # <<>>
    BY <1>4, <1>5, <1>9, <2>1, <2>3 DEF JoinBlossom, SearchPhases
  <2>4. QED  BY <2>2, <2>3
<1>10. CASE JoinFlip("reuse") /\ UNCHANGED next_node
  BY <1>0, <1>10, JoinFlipBasic DEF EngineBasic
<1>11. QED  BY <1>6, <1>7, <1>8, <1>9, <1>10 DEF Driver

\* The first group of invariants holds in every state of every run.
LEMMA BasicInitially == Init => EngineBasic
BY InitBasic DEF Init, EngineBasic

\* Every step of the engine keeps what it needs no assumption for.
LEMMA BasicKept == EngineBasic /\ [Next]_vars => EngineBasic'
<1> SUFFICES ASSUME EngineBasic, [Next]_vars
             PROVE  EngineBasic'
  OBVIOUS
<1>0. Basic /\ next_node \in Nat
  BY DEF EngineBasic
<1>1. CASE UNCHANGED vars
  <2>1. UNCHANGED searchVars /\ next_node' = next_node
    BY <1>1 DEF vars
  <2>2. QED  BY <1>0, <2>1, SameBasic DEF EngineBasic
<1>2. CASE \E t \in Thread : Worker(t)
  BY <1>0, <1>2, WorkerSteps, ThreadBasic DEF EngineBasic
<1>3. CASE Driver
  BY <1>3, DriverBasic
<1>4. CASE Finished
  BY <1>1, <1>4 DEF Finished
<1>5. QED  BY <1>1, <1>2, <1>3, <1>4 DEF Next

\* The invariants Basic hold in every state of every run of the engine.
THEOREM BasicInvariance == Spec => []EngineBasic
BY BasicInitially, BasicKept, PTL DEF Spec

\* Every variable of the engine keeps its type.
THEOREM TypeCorrectness == Spec => []TypeOK
<1>1. EngineBasic => TypeOK
  BY DEF EngineBasic, Basic
<1>2. QED  BY <1>1, BasicInvariance, PTL

-----------------------------------------------------------------------------
\* Two pairs with a node in common are one pair, with one slot.
LEMMA OwnersApart == Basic => WritersApart
<1> SUFFICES ASSUME Basic, NEW t \in Thread, NEW u \in Thread, t # u
             PROVE  Writes(t) \cap Writes(u) = {}
  BY DEF WritersApart
<1>0. TypeOK /\ ThreadsPlaced /\ MatesKept /\ PairOwners /\ NodeOwners
  BY DEF Basic
<1>1. CASE phase = "expand" /\ pc[t] \in Owning /\ pc[u] \in Owning
  <2>1. MatesMutual /\ todo[t] # <<>> /\ todo[u] # <<>>
        /\ M[Edge(t)[2]] # NoNode /\ M[Edge(u)[2]] # NoNode
    BY <1>0, <1>1 DEF MatesKept, ThreadsPlaced, Busy, PairOwners
  <2>2. /\ Edge(t)[2] \in Node /\ Mate(t) \in Node /\ Mate(t) = M[Edge(t)[2]]
        /\ M[Mate(t)] = Edge(t)[2] /\ MatchSlot(t) = Slot(Edge(t)[2])
    BY <1>0, <2>1, MateFacts
  <2>3. /\ Edge(u)[2] \in Node /\ Mate(u) \in Node /\ Mate(u) = M[Edge(u)[2]]
        /\ M[Mate(u)] = Edge(u)[2] /\ MatchSlot(u) = Slot(Edge(u)[2])
    BY <1>0, <2>1, MateFacts
  <2>4. MatchSlot(t) # MatchSlot(u)
    BY <1>0, <1>1 DEF PairOwners
  <2>5. /\ Writes(t) = {Edge(t)[2], Mate(t)} /\ Writes(u) = {Edge(u)[2], Mate(u)}
    BY <1>1 DEF Writes, Owning
  <2>6. ASSUME NEW a \in Node, NEW b \in Node, M[a] = b, M[b] = a
        PROVE  Slot(a) = Slot(b)
    BY <2>6, NodesAssumption DEF Slot, Node
  <2> DEFINE w == Edge(t)[2]  x == Mate(t)  y == Edge(u)[2]  z == Mate(u)
  <2> HIDE DEF w, x, y, z
  <2>7. /\ w \in Node /\ x \in Node /\ M[w] = x /\ M[x] = w
        /\ y \in Node /\ z \in Node /\ M[y] = z /\ M[z] = y
        /\ Slot(w) # Slot(y)
    BY <2>2, <2>3, <2>4 DEF w, x, y, z
  <2>8. w # y /\ w # z /\ x # y /\ x # z
    BY <2>6, <2>7
  <2>9. QED  BY <2>5, <2>8 DEF w, x, y, z
<1>2. CASE phase = "blossom" /\ pc[t] \in Filling /\ pc[u] \in Filling
  <2>1. Writes(t) = {Current(t)} /\ Writes(u) = {Current(u)}
    BY <1>2 DEF Writes, Filling
  <2>2. QED  BY <1>0, <1>2, <2>1 DEF NodeOwners
<1>3. CASE ~(phase = "expand" /\ pc[t] \in Owning) /\ ~(phase = "blossom" /\ pc[t] \in Filling)
  <2>1. Writes(t) = {}
    BY <1>3 DEF Writes, Owning, Filling
  <2>2. QED  BY <2>1
<1>4. CASE ~(phase = "expand" /\ pc[u] \in Owning) /\ ~(phase = "blossom" /\ pc[u] \in Filling)
  <2>1. Writes(u) = {}
    BY <1>4 DEF Writes, Owning, Filling
  <2>2. QED  BY <2>1
<1>5. QED  BY <1>1, <1>2, <1>3, <1>4

\* Two threads never write the entries of one node at the same time.
THEOREM WritersStayApart == Spec => []WritersApart
<1>1. EngineBasic => WritersApart
  BY OwnersApart DEF EngineBasic
<1>2. QED  BY <1>1, BasicInvariance, PTL
-----------------------------------------------------------------------------
(***************************************************************************)
(* What follows needs one thing of the blossom phase: that the entries its *)
(* threads write leave every walk of the forest legal.                     *)
(***************************************************************************)
BlossomsLegal == phase = "blossom" => LegalForest

\* The threads of a phase start: all of them fetch their first chunk.
LEMMA GotoSound ==
  ASSUME EngineBasic, Sound, BlossomsLegal, phase \in SearchPhases, Joined, path_collection = <<>>,
         NEW next \in SearchPhases, Goto(next),
         UNCHANGED <<forestVars, flagVars, lap, path_collection>>, nodes_vector' = Frontier,
         vector_1' = vector_1 \/ vector_1' = <<>>, vector_2' = vector_2 \/ vector_2' = <<>>
  PROVE  Sound'
<1>1. Basic /\ TypeOK /\ Collected /\ LegalForest
  <2>1. Basic /\ TypeOK
    BY DEF EngineBasic, Basic
  <2>2. QED  BY <2>1 DEF Sound, BlossomsLegal, SearchPhases
<1>2. /\ IsInjective(Frontier) /\ Range(Frontier) = Range(vector_1) \cup Range(vector_2)
  BY <1>1, FrontierCollected
<1> DEFINE f == Frontier
<1>3. nodes_vector' = f /\ IsInjective(f) /\ Range(f) = Range(vector_1) \cup Range(vector_2)
  BY <1>2
<1> HIDE DEF f
<1>4. /\ IsInjective(nodes_vector')
      /\ Range(nodes_vector') \subseteq Range(nodes_vector) \cup Range(vector_1) \cup Range(vector_2)
  BY <1>3
<1>5. /\ NoWork \in [Thread -> Seq(Node \X Node)] /\ \A t \in Thread : Range(NoWork[t]) = {}
  BY DEF NoWork, Range
<1>6. Spawn(NoWork) /\ phase' \in SearchPhases
  BY DEF Goto
<1>7. QED  BY <1>1, <1>4, <1>5, <1>6, NextPhaseSound

\* The driver's steps.
LEMMA DriverSound ==
  ASSUME EngineBasic, Sound, BlossomsLegal, Driver
  PROVE  Sound'
<1>0. Basic /\ FlagsFresh
  BY DEF EngineBasic, Sound
<1>1. CASE JoinReuse
  <2>1. /\ phase = "reuse" /\ Joined /\ nodes_vector' = Frontier /\ phase' = "augment"
        /\ Spawn(NoWork) /\ UNCHANGED <<forestVars, vector_1, vector_2, flagVars, lap, path_collection>>
    BY <1>1 DEF JoinReuse, Goto
  <2>2. /\ NoWork \in [Thread -> Seq(Node \X Node)] /\ \A t \in Thread : Range(NoWork[t]) = {}
    BY DEF NoWork, Range
  <2>3. QED  BY <1>0, <2>1, <2>2, FirstPhaseSound
<1>2. CASE JoinAugment
  <2>1. phase = "augment" /\ Joined /\ UNCHANGED <<forestVars, flagVars, lap, path_collection>>
    BY <1>2 DEF JoinAugment
  <2>2. CASE path_collection # <<>>
    BY <1>0, <1>2, <2>1, <2>2, StartFlipSound DEF JoinAugment
  <2>3. CASE path_collection = <<>>
    <3>1. Goto("expand") /\ nodes_vector' = Frontier /\ vector_1' = <<>> /\ vector_2' = vector_2
      BY <1>2, <2>3 DEF JoinAugment
    <3>2. QED  BY <2>1, <2>3, <3>1, GotoSound DEF SearchPhases
  <2>4. QED  BY <2>2, <2>3
<1>3. CASE JoinExpand
  <2>1. /\ phase = "expand" /\ Joined /\ UNCHANGED <<forestVars, flagVars, lap, path_collection>>
        /\ Goto("blossom") /\ nodes_vector' = Frontier /\ vector_2' = <<>> /\ vector_1' = vector_1
    BY <1>3 DEF JoinExpand
  <2>2. path_collection = <<>>
    BY <1>0, <2>1 DEF FlagsFresh
  <2>3. QED  BY <2>1, <2>2, GotoSound DEF SearchPhases
<1>4. CASE JoinBlossom
  <2>1. /\ phase = "blossom" /\ Joined /\ nodes_vector' = Frontier
        /\ UNCHANGED <<forestVars, vector_1, vector_2, flagVars, lap, path_collection>>
    BY <1>4 DEF JoinBlossom
  <2>2. path_collection = <<>>
    BY <1>0, <2>1 DEF FlagsFresh
  <2>3. CASE Frontier = <<>>
    <3>1. phase' = "finished"
      BY <1>4, <2>3 DEF JoinBlossom
    <3>2. QED  BY <1>0, <2>1, <2>2, <3>1, StopSound DEF SearchPhases
  <2>4. CASE Frontier # <<>>
    <3>1. Goto("augment")
      BY <1>4, <2>4 DEF JoinBlossom
    <3>2. QED  BY <2>1, <2>2, <3>1, GotoSound DEF SearchPhases
  <2>5. QED  BY <2>3, <2>4
<1>5. CASE JoinFlip("reuse") /\ UNCHANGED next_node
  BY <1>0, <1>5, JoinFlipSound
<1>6. QED  BY <1>1, <1>2, <1>3, <1>4, <1>5 DEF Driver

\* Every step of a thread keeps Sound.
LEMMA WorkerSound ==
  ASSUME EngineBasic, EngineBasic', Sound, BlossomsLegal, NEW t \in Thread, Worker(t)
  PROVE  Sound' /\ (phase \in SearchPhases => KeepsEntries)
BY WorkerSteps, ThreadSound DEF EngineBasic, BlossomsLegal

\* Every step keeps Sound, and the entries of the even nodes during a search.
LEMMA SoundKept ==
  ASSUME EngineBasic, EngineBasic', Sound, BlossomsLegal, [Next]_vars
  PROVE  Sound' /\ [(phase \in SearchPhases) => KeepsEntries]_searchVars
<1>1. CASE UNCHANGED vars
  <2>1. UNCHANGED searchVars
    BY <1>1 DEF vars
  <2>2. Sound'
    BY <2>1, SameSound
  <2>3. QED  BY <2>1, <2>2
<1>2. CASE \E t \in Thread : Worker(t)
  BY <1>2, WorkerSound
<1>3. CASE Driver
  <2>1. Sound'
    BY <1>3, DriverSound
  <2>2. phase \in SearchPhases => forestVars' = forestVars
    BY <1>3 DEF Driver, JoinReuse, JoinAugment, JoinExpand, JoinBlossom, JoinFlip, SearchPhases
  <2>3. phase \in SearchPhases => KeepsEntries
    BY <2>2 DEF forestVars, KeepsEntries
  <2>4. QED  BY <2>1, <2>3
<1>4. CASE Finished
  BY <1>1, <1>4 DEF Finished
<1>5. QED  BY <1>1, <1>2, <1>3, <1>4 DEF Next

\* While no blossom breaks a walk, Sound holds in every state.
THEOREM SoundInvariance == Spec /\ []BlossomsLegal => []Sound
<1>1. Init => Sound
  BY InitSound DEF Init
<1>2. EngineBasic /\ EngineBasic' /\ Sound /\ BlossomsLegal /\ [Next]_vars => Sound'
  BY SoundKept
<1>3. QED  BY <1>1, <1>2, BasicInvariance, PTL DEF Spec

\* Then the walks of all even nodes are legal in every phase of a search: no
\* expansion breaks one, nor the repair of the trees kept between searches.
THEOREM ForestLegality == Spec /\ []BlossomsLegal => []ForestStaysLegal
<1>1. EngineBasic /\ Sound /\ BlossomsLegal => ForestStaysLegal
  BY SoundForest DEF EngineBasic, BlossomsLegal, ForestStaysLegal
<1>2. QED  BY <1>1, BasicInvariance, SoundInvariance, PTL

\* No node is on two found paths, whoever found them.
THEOREM PathsApart == Spec /\ []BlossomsLegal => []PathsDisjoint
<1>1. EngineBasic /\ Sound => PathsDisjoint
  BY SoundPaths DEF EngineBasic
<1>2. QED  BY <1>1, BasicInvariance, SoundInvariance, PTL

\* No tree lock leaks.
THEOREM LocksBalanced == Spec /\ []BlossomsLegal => []LocksAccounted
<1>1. EngineBasic /\ Sound => LocksAccounted
  BY SoundLocks DEF EngineBasic
<1>2. QED  BY <1>1, BasicInvariance, SoundInvariance, PTL

\* When a phase is over every tree holds the mates of its nodes.
THEOREM TreesStayClosed == Spec /\ []BlossomsLegal => []TreesClosed
<1>1. EngineBasic /\ Sound => TreesClosed
  BY SoundForest DEF EngineBasic
<1>2. QED  BY <1>1, BasicInvariance, SoundInvariance, PTL

\* The frontier holds even nodes of trees, each once.
THEOREM FrontierStaysSound == Spec /\ []BlossomsLegal => []FrontierSound
<1>1. EngineBasic /\ Sound => FrontierSound
  BY SoundForest DEF EngineBasic
<1>2. QED  BY <1>1, BasicInvariance, SoundInvariance, PTL

\* What the engine returns is a matching of the graph.
THEOREM MatchingReturned == Spec /\ []BlossomsLegal => []ReturnsMatching
<1>1. EngineBasic /\ Sound => ReturnsMatching
  BY SoundForest DEF EngineBasic
<1>2. QED  BY <1>1, BasicInvariance, SoundInvariance, PTL

\* An even node keeps its tree and its entry until the search ends.
THEOREM EntriesFrozen == Spec /\ []BlossomsLegal => EvenEntriesFrozen
<1>1. EngineBasic /\ EngineBasic' /\ Sound /\ BlossomsLegal /\ [Next]_vars =>
        [(phase \in SearchPhases) => KeepsEntries]_searchVars
  BY SoundKept
<1>2. QED  BY <1>1, BasicInvariance, SoundInvariance, PTL DEF Spec, EvenEntriesFrozen

-----------------------------------------------------------------------------
\* Every step of the engine is a step of the abstract one, or none.
LEMMA GrowthStep ==
  ASSUME EngineBasic, Sound, [Next]_vars
  PROVE  [Growth!Grow]_<<adj, Outcome>>
<1>0. Basic
  BY DEF EngineBasic
<1>1. CASE UNCHANGED vars
  BY <1>1 DEF vars, searchVars, forestVars, Outcome
<1>2. CASE \E t \in Thread : Worker(t)
  BY <1>0, <1>2, WorkerSteps, ThreadOutcome, GrowthFollows
<1>3. CASE JoinReuse \/ JoinExpand \/ JoinBlossom
  <2>1. adj' = adj /\ M' = M /\ phase # "flip" /\ phase' # "flip"
    BY <1>3 DEF JoinReuse, JoinExpand, JoinBlossom, Goto, forestVars
  <2>2. QED  BY <2>1, QuietOutcome, GrowthFollows
<1>4. CASE JoinAugment
  <2>1. phase = "augment" /\ Joined /\ adj' = adj /\ M' = M /\ path_collection' = path_collection
    BY <1>4 DEF JoinAugment, forestVars
  <2>2. CASE path_collection = <<>>
    <3>1. phase' = "expand"
      BY <1>4, <2>2 DEF JoinAugment, Goto
    <3>2. QED  BY <2>1, <3>1, QuietOutcome, GrowthFollows
  <2>3. CASE path_collection # <<>>
    <3>1. phase' = "flip"
      BY <1>4, <2>3 DEF JoinAugment, StartFlip
    <3>2. QED  BY <1>0, <2>1, <2>3, <3>1, StartOutcome, GrowthFollows
  <2>4. QED  BY <2>2, <2>3
<1>5. CASE JoinFlip("reuse")
  <2>1. phase = "flip" /\ Joined /\ phase' # "flip" /\ adj' = adj /\ M' = M
    BY <1>5 DEF JoinFlip, forestVars
  <2>2. QED  BY <1>0, <2>1, EndOutcome, GrowthFollows
<1>6. QED  BY <1>1, <1>2, <1>3, <1>4, <1>5 DEF Next, Driver, Finished

\* The engine implements MatchingGrowth: every search that finds paths leaves
\* a larger matching, in which every matched node is still matched.
THEOREM MatchingGrows == Spec /\ []BlossomsLegal => GrowsMatching
<1>1. Init => Growth!Init
  BY InitOutcome, GrowthFollows DEF Init
<1>2. EngineBasic /\ Sound /\ [Next]_vars => [Growth!Grow]_<<adj, Outcome>>
  BY GrowthStep
<1>3. QED
  BY <1>1, <1>2, BasicInvariance, SoundInvariance, PTL DEF Spec, GrowsMatching, Growth!Spec, Outcome

-----------------------------------------------------------------------------
\* Every step keeps the sides of a bipartite graph.
LEMMA BipartiteKept ==
  ASSUME EngineBasic, Sound, Bipartite, [Next]_vars
  PROVE  Bipartite'
<1>0. Basic
  BY DEF EngineBasic
<1>1. CASE UNCHANGED vars
  <2>1. UNCHANGED searchVars
    BY <1>1 DEF vars
  <2>2. QED  BY <2>1, SameBipartite
<1>2. CASE \E t \in Thread : Worker(t)
  BY <1>0, <1>2, WorkerSteps, ThreadBipartite
<1>3. CASE JoinReuse \/ JoinAugment \/ JoinBlossom \/ JoinFlip("reuse")
  <2>1. forestVars' = forestVars /\ phase' # "blossom"
    BY <1>3 DEF JoinReuse, JoinAugment, JoinBlossom, JoinFlip, StartFlip, Goto
  <2>2. QED  BY <2>1, QuietBipartite DEF forestVars
<1>4. CASE JoinExpand
  <2>1. phase = "expand" /\ forestVars' = forestVars /\ Spawn(NoWork)
    BY <1>4 DEF JoinExpand, Goto
  <2>2. QED  BY <2>1, EnterBipartite
<1>5. QED  BY <1>1, <1>2, <1>3, <1>4 DEF Next, Driver, Finished

\* On a bipartite graph no thread finds a blossom, so nothing is assumed.
THEOREM BipartiteInvariance == Spec /\ IsBipartite(adj) => [](Sound /\ Bipartite)
<1>1. Init /\ IsBipartite(adj) => Bipartite
  <2>1. SUFFICES ASSUME Init, IsBipartite(adj)
                 PROVE  Bipartite
    OBVIOUS
  <2>2. phase = "reuse" /\ belongs = [v \in Node |-> NoNode]
    BY <2>1 DEF Init, DriverInit
  <2>3. adj \in [Node -> Seq(Node)]
    BY <2>1, BasicInitially DEF EngineBasic, Basic, TypeOK, ForestTypeOK
  <2>4. QED  BY <2>1, <2>2, <2>3, BipartiteInitially
<1>2. Bipartite => BlossomsLegal
  BY DEF Bipartite, NoBlossom, BlossomsLegal
<1>3. EngineBasic /\ EngineBasic' /\ Sound /\ Bipartite /\ [Next]_vars => Sound' /\ Bipartite'
  <2>1. SUFFICES ASSUME EngineBasic, EngineBasic', Sound, Bipartite, [Next]_vars
                 PROVE  Sound' /\ Bipartite'
    OBVIOUS
  <2>2. BlossomsLegal
    BY <1>2, <2>1
  <2>3. Sound'
    BY <2>1, <2>2, SoundKept
  <2>4. QED  BY <2>1, <2>3, BipartiteKept
<1>4. Init => Sound
  BY InitSound DEF Init
<1>5. QED
  BY <1>1, <1>2, <1>3, <1>4, BasicInvariance, PTL DEF Spec

\* So every walk stays legal.
THEOREM LegalOnBipartite == Spec /\ IsBipartite(adj) => []BlossomsLegal
<1>1. Sound /\ Bipartite => BlossomsLegal
  BY DEF Bipartite, NoBlossom, BlossomsLegal
<1>2. QED  BY <1>1, BipartiteInvariance, PTL


-----------------------------------------------------------------------------
(***************************************************************************)
(* No edge is lost between nodes_vector, vector_1 and vector_2, nor        *)
(* between the chunks.                                                     *)
(***************************************************************************)
\* The nodes no thread has fetched yet.
Untaken == {nodes_vector[i] : i \in (next_node + 1) .. Len(nodes_vector)}

\* The threads of a phase leave their loop when no node is untaken.
AllTaken ==
  phase \in SearchPhases =>
    \A t \in Thread : pc[t] \in {"merge", "done"} => next_node >= Len(nodes_vector)

\* The frontier of augmentation is what the two vectors hold.
FrontierKept == phase = "augment" => nodes_vector = Frontier

NothingLost == Covered(Untaken) /\ Idle /\ AllTaken /\ FrontierKept

\* A live edge of an untaken node is still untaken when a thread takes a chunk,
\* or is in its share.
LEMMA ChunkCovers ==
  ASSUME TypeOK, next_node \in Nat, NEW t \in Thread, NEW live, TakeChunk(t, live),
         nodes_vector' = nodes_vector
  PROVE  \E s \in Seq(Node \X Node) :
           /\ GoOn(t, s)
           /\ \A v \in Untaken : \A w \in Range(adj[v]) :
                <<v, w>> \in live => v \in Untaken' \/ <<v, w>> \in Range(s)
<1> DEFINE past == next_node + ChunkSize
           last == IF past < Len(nodes_vector) THEN past ELSE Len(nodes_vector)
           chunk == SubSeq(nodes_vector, next_node + 1, last)
           S == Node \X Node
           ss == [i \in DOMAIN chunk |-> Row(adj, chunk[i])]
<1>0. /\ nodes_vector \in Seq(Node) /\ Len(nodes_vector) \in Nat
      /\ DOMAIN nodes_vector = 1 .. Len(nodes_vector)
      /\ \A i \in 1 .. Len(nodes_vector) : nodes_vector[i] \in Node
      /\ adj \in [Node -> Seq(Node)]
  <2>1. nodes_vector \in Seq(Node) /\ adj \in [Node -> Seq(Node)]
    BY DEF TypeOK, ForestTypeOK
  <2>2. QED  BY <2>1, LenProperties, ElementOfSeq
<1>1. GoOn(t, Among(FlattenSeq(ss), live)) /\ next_node' = past /\ next_node < Len(nodes_vector)
  BY DEF TakeChunk
<1>2. /\ last \in 0 .. Len(nodes_vector) /\ next_node + 1 <= last /\ past \in Nat
      /\ last < Len(nodes_vector) => last = past
  BY <1>0, <1>1, ChunkAssumption
<1> HIDE DEF last
<1>3. /\ chunk \in Seq(Node)
      /\ \A i \in 1 .. last - (next_node + 1) + 1 : chunk[i] = nodes_vector[(next_node + 1) + i - 1]
      /\ Len(chunk) = last - next_node
  <2>1. next_node + 1 \in Int /\ last \in Int
    BY <1>2
  <2>2. \A i \in (next_node + 1) .. last : nodes_vector[i] \in Node
    BY <1>0, <1>2
  <2>3. Len(chunk) = last - (next_node + 1) + 1
    BY <1>2, <2>1, <2>2, SubSeqProperties
  <2>4. QED  BY <1>2, <2>1, <2>2, <2>3, SubSeqProperties
<1> HIDE DEF chunk
<1> DEFINE n == Len(chunk)
<1>4. n \in Nat /\ DOMAIN chunk = 1 .. n /\ n = last - next_node
  BY <1>3, LenProperties
<1>5. \A i \in 1 .. n : chunk[i] \in Node
  BY <1>3, <1>4, ElementOfSeq
<1>6. ss = [i \in 1 .. n |-> Row(adj, chunk[i])]
  BY <1>4
<1>7. ss \in Seq(Seq(S)) /\ Len(ss) = n
  <2> DEFINE W == Seq(S)
  <2>1. ss \in [1 .. n -> W]
    BY <1>0, <1>5, <1>6, RowFacts
  <2>2. DOMAIN ss = 1 .. n
    BY <1>6
  <2> HIDE DEF W, ss, n
  <2>3. ss \in Seq(W)
    BY <1>4, <2>1, SeqDef
  <2>4. Len(ss) = n
    BY <1>4, <2>2, <2>3, LenProperties
  <2>5. QED  BY <2>3, <2>4 DEF W
<1> HIDE DEF ss, S, n
<1> DEFINE s == Among(FlattenSeq(ss), live)
<1>8. FlattenSeq(ss) \in Seq(S)
  BY <1>7, FlattenFacts
<1>9. s \in Seq(S)
  BY <1>8, AmongFacts
<1>10. ASSUME NEW v \in Untaken, NEW w \in Range(adj[v]), <<v, w>> \in live
       PROVE  v \in Untaken' \/ <<v, w>> \in Range(s)
  <2>1. PICK i \in (next_node + 1) .. Len(nodes_vector) : v = nodes_vector[i]
    BY <1>10 DEF Untaken
  <2>2. i \in 1 .. Len(nodes_vector) /\ i \in Int /\ v \in Node
    BY <1>0, <2>1
  <2>3. CASE i > last
    <3>1. i \in (next_node' + 1) .. Len(nodes_vector)
      BY <1>0, <1>1, <1>2, <2>2, <2>3
    <3>2. QED  BY <2>1, <3>1 DEF Untaken
  <2>4. CASE i <= last
    <3> DEFINE j == i - next_node
    <3>1. j \in 1 .. n /\ j \in 1 .. last - (next_node + 1) + 1 /\ (next_node + 1) + j - 1 = i
      BY <1>2, <1>4, <2>1, <2>2, <2>4
    <3>2. chunk[j] = v
      BY <1>3, <2>1, <3>1
    <3>3. ss[j] = Row(adj, v)
      BY <1>6, <3>1, <3>2
    <3>4. <<v, w>> \in Range(Row(adj, v))
      BY <1>0, <1>10, <2>2, RowHolds
    <3>5. j \in 1 .. Len(ss)
      BY <1>7, <3>1
    <3> HIDE DEF j
    <3>6. <<v, w>> \in Range(FlattenSeq(ss))
      BY <1>7, <3>3, <3>4, <3>5, FlattenFacts
    <3>7. QED  BY <1>8, <1>10, <3>6, AmongFacts
  <2>5. QED  BY <1>2, <2>2, <2>3, <2>4
<1>11. s \in Seq(Node \X Node)
  BY <1>9 DEF S
<1>12. QED  BY <1>1, <1>10, <1>11


\* Of the steps inside the loop none ends it.
LEMMA StepsStay ==
  ASSUME TypeOK, NEW t \in Thread,
         \/ AugmentStep(t) \/ ExpandStep(t)
         \/ RoundBlossom(t) \/ FindBlossom(t) \/ FillChecked(t) \/ DropEntry(t)
  PROVE  \A u \in Thread : pc'[u] \in {"merge", "done"} => pc[u] \in {"merge", "done"}
<1>0. DOMAIN pc = Thread
  BY DEF TypeOK
<1>1. CASE \E p : p \notin {"merge", "done"} /\ pc' = [pc EXCEPT ![t] = p]
  <2>1. PICK p : p \notin {"merge", "done"} /\ pc' = [pc EXCEPT ![t] = p]
    BY <1>1
  <2>2. pc'[t] = p /\ \A u \in Thread \ {t} : pc'[u] = pc[u]
    BY <1>0, <2>1
  <2>3. QED  BY <2>1, <2>2
<1>2. CASE VisitSkip(t)
  BY <1>2 DEF VisitSkip
<1>3. ASSUME NEW rest, GoOn(t, rest)
      PROVE  \E p : p \notin {"merge", "done"} /\ pc' = [pc EXCEPT ![t] = p]
  <2>1. PICK p : p = IF rest = <<>> THEN "fetch" ELSE "scan"
    OBVIOUS
  <2>2. pc' = [pc EXCEPT ![t] = p]
    BY <1>3, <2>1 DEF GoOn
  <2>3. p \notin {"merge", "done"}
    BY <2>1
  <2>4. QED  BY <2>2, <2>3
<1>4. ASSUME NEW from, NEW to, to \notin {"merge", "done"}, Step(t, from, to)
      PROVE  \E p : p \notin {"merge", "done"} /\ pc' = [pc EXCEPT ![t] = p]
  BY <1>4 DEF Step
<1>5. CASE AugmentStep(t)
  <2>1. CASE LockV(t) \/ LockWFails(t)
    BY <1>1, <1>4, <2>1 DEF LockV, LockWFails
  <2>2. CASE LockVFails(t) \/ LockW(t) \/ ReleaseV(t)
    BY <1>1, <1>3, <2>2 DEF LockVFails, LockW, ReleaseV, NextEdge
  <2>3. QED  BY <1>5, <2>1, <2>2 DEF AugmentStep
<1>6. CASE ExpandStep(t)
  <2>1. CASE ExpandTest(t) \/ ClaimPair(t) \/ Grow(t) \/ OwnW(t)
    BY <1>1, <1>4, <2>1 DEF ExpandTest, ClaimPair, Grow, OwnW
  <2>2. CASE ExpandSkip(t) \/ ClaimPairFails(t) \/ OwnMate(t)
    BY <1>1, <1>3, <2>2 DEF ExpandSkip, ClaimPairFails, OwnMate, NextEdge
  <2>3. QED  BY <1>6, <2>1, <2>2 DEF ExpandStep
<1>7. CASE RoundBlossom(t)
  <2>1. CASE Visit(t) \/ ClaimNode(t) \/ ClaimNodeFails(t) \/ MakeEven(t)
    BY <1>1, <1>4, <2>1 DEF Visit, ClaimNode, ClaimNodeFails, MakeEven
  <2>2. CASE BlossomSkip(t) \/ CloseBlossom(t)
    BY <1>1, <1>3, <2>2 DEF BlossomSkip, CloseBlossom, NextEdge
  <2>3. QED  BY <1>2, <1>7, <2>1, <2>2 DEF RoundBlossom
<1>8. CASE FindBlossom(t)
  <2>1. PICK p \in {"visit", "crashed"} : Step(t, "scan", p)
    BY <1>8 DEF FindBlossom
  <2>2. QED  BY <1>1, <1>4, <2>1
<1>9. CASE FillChecked(t)
  <2>1. PICK p \in {"even", "undo"} : Step(t, "fill", p)
    BY <1>9 DEF FillChecked, Write
  <2>2. QED  BY <1>1, <1>4, <2>1
<1>10. CASE DropEntry(t)
  BY <1>1, <1>4, <1>10 DEF DropEntry
<1>11. QED  BY <1>5, <1>6, <1>7, <1>8, <1>9, <1>10

\* A step inside the loop, or the end of a thread that has left it.
LEMMA StaysTaken ==
  ASSUME TypeOK, AllTaken, NEW t \in Thread, phase' = phase, nodes_vector' = nodes_vector,
         next_node' = next_node,
         \/ AugmentStep(t) \/ ExpandStep(t)
         \/ RoundBlossom(t) \/ FindBlossom(t) \/ FillChecked(t) \/ DropEntry(t)
         \/ EndThread(t, "merge")
  PROVE  AllTaken' /\ Untaken' = Untaken
<1>1. \A u \in Thread : pc'[u] \in {"merge", "done"} => pc[u] \in {"merge", "done"}
  <2>1. CASE EndThread(t, "merge")
    <3>1. DOMAIN pc = Thread /\ pc[t] = "merge" /\ pc' = [pc EXCEPT ![t] = "done"]
      BY <2>1 DEF EndThread, Step, TypeOK
    <3>2. \A u \in Thread \ {t} : pc'[u] = pc[u]
      BY <3>1
    <3>3. QED  BY <3>1, <3>2
  <2>2. QED  BY <2>1, StepsStay
<1>2. QED  BY <1>1 DEF AllTaken, Untaken

\* What is untaken does not change.
LEMMA UntakenSame ==
  ASSUME NEW U, Untaken' = U, Covered(U)'
  PROVE  Covered(Untaken)'
BY DEF Covered, BridgesAhead, EdgesAhead, Ahead

\* A chunk is taken: what was untaken of it is ahead of the thread.
LEMMA ChunkTaken ==
  ASSUME EngineBasic, Sound, NothingLost, NEW t \in Thread, NEW live, TakeChunk(t, live),
         UNCHANGED <<forestVars, frontierVars, flagVars, path_collection, phase>>,
         phase \in SearchPhases,
         \A v, w \in Node : (phase = "augment" /\ Bridging(v, w)) \/ (phase = "expand" /\ Waiting(v, w))
           => <<v, w>> \in live
  PROVE  NothingLost'
<1>0. /\ Basic /\ TypeOK /\ next_node \in Nat /\ Covered(Untaken) /\ Idle /\ AllTaken
      /\ DOMAIN pc = Thread /\ Len(nodes_vector) \in Nat
  <2>1. TypeOK
    BY DEF EngineBasic, Basic
  <2>2. nodes_vector \in Seq(Node) /\ DOMAIN pc = Thread
    BY <2>1 DEF TypeOK
  <2>3. QED  BY <2>1, <2>2, LenProperties DEF EngineBasic, NothingLost
<1>1. /\ nodes_vector' = nodes_vector /\ local' = local /\ lap' = lap /\ pc[t] = "fetch"
      /\ next_node' = next_node + ChunkSize /\ next_node < Len(nodes_vector) /\ phase' = phase
      /\ Frontier' = Frontier
  BY DEF TakeChunk, frontierVars, Frontier
<1>2. PICK s \in Seq(Node \X Node) :
        /\ GoOn(t, s)
        /\ \A v \in Untaken : \A w \in Range(adj[v]) :
             <<v, w>> \in live => v \in Untaken' \/ <<v, w>> \in Range(s)
  BY <1>0, <1>1, ChunkCovers
<1>3. PICK B : B = Untaken'
  OBVIOUS
<1>4. \A v, w \in Node :
        /\ v \in Untaken
        /\ (phase = "augment" /\ Bridging(v, w)) \/ (phase = "expand" /\ Waiting(v, w))
        => v \in B \/ <<v, w>> \in Range(s)
  BY <1>2, <1>3 DEF Bridging, Waiting
<1> DEFINE A == Untaken
<1>5. Covered(A) /\ A = Untaken
  BY <1>0
<1> HIDE DEF A
<1>6. Covered(B)' /\ Idle'
  BY <1>0, <1>1, <1>2, <1>4, <1>5, TakeCovered
<1>7. Covered(Untaken)'
  BY <1>3, <1>6, UntakenSame
<1>8. AllTaken'
  <2>1. pc' = [pc EXCEPT ![t] = IF s = <<>> THEN "fetch" ELSE "scan"]
    BY <1>2 DEF GoOn
  <2>2. \A u \in Thread : pc'[u] \in {"merge", "done"} => pc[u] \in {"merge", "done"}
    BY <1>0, <2>1
  <2>3. \A u \in Thread : pc[u] \notin {"merge", "done"}
    BY <1>0, <1>1 DEF AllTaken
  <2>4. QED  BY <2>2, <2>3 DEF AllTaken
<1>9. FrontierKept'
  BY <1>1 DEF FrontierKept, NothingLost
<1>10. QED  BY <1>6, <1>7, <1>8, <1>9 DEF NothingLost

\* A thread leaves its loop: nothing is untaken.
LEMMA LoopLeft ==
  ASSUME EngineBasic, NothingLost, NEW t \in Thread, LeaveLoop(t),
         UNCHANGED <<forestVars, frontierVars, flagVars, path_collection, phase>>
  PROVE  NothingLost'
<1>0. /\ Basic /\ TypeOK /\ next_node \in Nat /\ Covered(Untaken) /\ Idle /\ AllTaken
      /\ Len(nodes_vector) \in Nat
  <2>1. TypeOK
    BY DEF EngineBasic, Basic
  <2>2. nodes_vector \in Seq(Node)
    BY <2>1 DEF TypeOK
  <2>3. QED  BY <2>1, <2>2, LenProperties DEF EngineBasic, NothingLost
<1>1. /\ nodes_vector' = nodes_vector /\ phase' = phase /\ Frontier' = Frontier
      /\ next_node' = next_node + ChunkSize /\ next_node >= Len(nodes_vector) /\ Leaves(t)
  BY DEF LeaveLoop, Leaves, frontierVars, Frontier
<1>2. next_node' \in Nat /\ next_node' >= Len(nodes_vector)
  BY <1>0, <1>1, ChunkAssumption
<1>3. Untaken = {} /\ Untaken' = {}
  <2>1. (next_node + 1) .. Len(nodes_vector) = {} /\ (next_node' + 1) .. Len(nodes_vector) = {}
    BY <1>0, <1>1, <1>2
  <2>2. QED  BY <1>1, <2>1 DEF Untaken
<1>4. Covered({})' /\ Idle'
  BY <1>0, <1>1, <1>3, LeaveCovered
<1>5. Covered(Untaken)'
  BY <1>3, <1>4, UntakenSame
<1>6. AllTaken'
  BY <1>1, <1>2 DEF AllTaken
<1>7. FrontierKept'
  BY <1>1 DEF FrontierKept, NothingLost
<1>8. QED  BY <1>4, <1>5, <1>6, <1>7 DEF NothingLost

\* Every step of a thread keeps them.
LEMMA WorkerCovered ==
  ASSUME EngineBasic, EngineBasic', Sound, BlossomsLegal, NothingLost, NEW t \in Thread, Worker(t)
  PROVE  NothingLost'
<1>0. /\ Basic /\ Basic' /\ TypeOK /\ ThreadsPlaced /\ Covered(Untaken) /\ Idle /\ AllTaken
  BY DEF EngineBasic, Basic, NothingLost
<1>1. ASSUME NEW live, TakeChunk(t, live),
             UNCHANGED <<forestVars, frontierVars, flagVars, path_collection, phase>>,
             phase \in SearchPhases,
             phase = "augment" => live = Bridges, phase = "expand" => live = Outward
      PROVE  NothingLost'
  <2>1. \A v, w \in Node : (phase = "augment" /\ Bridging(v, w)) \/ (phase = "expand" /\ Waiting(v, w))
          => <<v, w>> \in live
    BY <1>1 DEF Bridging, Waiting, Bridges, Outward, NoTreeYet
  <2>2. QED  BY <1>1, <2>1, ChunkTaken
<1>2. PICK A : A = Untaken
  OBVIOUS
<1>3. ASSUME Covered(A)', Idle', AllTaken', Untaken' = Untaken, phase' = phase,
             phase = "augment" => nodes_vector' = nodes_vector /\ Frontier' = Frontier
      PROVE  NothingLost'
  <2>1. Covered(Untaken)'
    BY <1>2, <1>3, UntakenSame
  <2>2. FrontierKept'
    BY <1>3 DEF FrontierKept, NothingLost
  <2>3. QED  BY <1>3, <2>1, <2>2 DEF NothingLost
<1>4. CASE phase = "augment" /\ AugmentWorker(t)
  <2>1. UNCHANGED <<forestVars, frontierVars, select_match, select_blossom, phase>>
    BY <1>4 DEF AugmentWorker
  <2>2. CASE TakeChunk(t, Bridges) /\ UNCHANGED <<select_tree, path_collection>>
    BY <1>1, <1>4, <2>1, <2>2 DEF flagVars, SearchPhases
  <2>3. CASE LeaveLoop(t) /\ UNCHANGED <<select_tree, path_collection>>
    BY <2>1, <2>3, LoopLeft DEF flagVars
  <2>4. CASE (AugmentStep(t) \/ AugmentMerge(t, "merge")) /\ UNCHANGED next_node
    <3>1. Augments(t) /\ nodes_vector' = nodes_vector /\ Frontier' = Frontier /\ phase' = phase
      BY <2>1, <2>4 DEF Augments, frontierVars, Frontier
    <3>2. AugmentStep(t) \/ EndThread(t, "merge")
      BY <2>4 DEF AugmentMerge
    <3>3. AllTaken' /\ Untaken' = Untaken
      BY <1>0, <2>4, <3>1, <3>2, StaysTaken
    <3>4. Covered(A)' /\ Idle'
      BY <1>0, <1>2, <1>4, <3>1, IdleKept, AugmentCovered
    <3>5. QED  BY <1>3, <3>1, <3>3, <3>4
  <2>5. QED  BY <1>4, <2>2, <2>3, <2>4 DEF AugmentWorker
<1>5. CASE phase = "expand" /\ ExpandWorker(t)
  <2>1. UNCHANGED <<adj, M, nodes_vector, vector_2, select_tree, select_blossom,
                    path_collection, phase>>
    BY <1>5 DEF ExpandWorker
  <2>2. CASE TakeChunk(t, Outward) /\ UNCHANGED <<select_match, vector_1, is_even, belongs, path_table>>
    BY <1>1, <1>5, <2>1, <2>2 DEF flagVars, forestVars, frontierVars, SearchPhases
  <2>3. CASE LeaveLoop(t) /\ UNCHANGED <<select_match, vector_1, is_even, belongs, path_table>>
    BY <2>1, <2>3, LoopLeft DEF flagVars, forestVars, frontierVars
  <2>4. CASE (ExpandStep(t) \/ ExpandMerge(t, "merge")) /\ UNCHANGED next_node
    <3>1. Expands(t) /\ nodes_vector' = nodes_vector /\ phase' = phase
      BY <2>1, <2>4 DEF Expands
    <3>2. ExpandStep(t) \/ EndThread(t, "merge")
      BY <2>4 DEF ExpandMerge
    <3>3. AllTaken' /\ Untaken' = Untaken
      BY <1>0, <2>4, <3>1, <3>2, StaysTaken
    <3>4. Covered(A)' /\ Idle'
      BY <1>0, <1>2, <1>5, <3>1, IdleKept, ExpandCovered
    <3>5. QED  BY <1>3, <1>5, <3>1, <3>3, <3>4
  <2>5. QED  BY <1>5, <2>2, <2>3, <2>4 DEF ExpandWorker
<1>6. CASE phase = "blossom" /\ BlossomWorker(t)
  <2>1. UNCHANGED <<adj, M, belongs, nodes_vector, vector_1, select_tree, select_match,
                    path_collection, phase>>
    BY <1>6 DEF BlossomWorker
  <2>2. CASE TakeChunk(t, Inward) /\ UNCHANGED <<select_blossom, vector_2, is_even, path_table>>
    BY <1>1, <1>6, <2>1, <2>2 DEF flagVars, forestVars, frontierVars, SearchPhases
  <2>3. CASE LeaveLoop(t) /\ UNCHANGED <<select_blossom, vector_2, is_even, path_table>>
    BY <2>1, <2>3, LoopLeft DEF flagVars, forestVars, frontierVars
  <2>4. CASE \/ /\ RoundBlossom(t) \/ FindBlossom(t) \/ FillChecked(t) \/ DropEntry(t)
                /\ UNCHANGED <<vector_2, next_node>>
             \/ BlossomMerge(t, "merge") /\ UNCHANGED next_node
    <3>1. Shrinks(t) /\ nodes_vector' = nodes_vector /\ phase' = phase /\ next_node' = next_node
      BY <2>1, <2>4 DEF Shrinks
    <3>2. RoundBlossom(t) \/ FindBlossom(t) \/ FillChecked(t) \/ DropEntry(t) \/ EndThread(t, "merge")
      BY <2>4 DEF BlossomMerge
    <3>3. AllTaken' /\ Untaken' = Untaken
      BY <1>0, <3>1, <3>2, StaysTaken
    <3>4. Covered(A)' /\ Idle'
      BY <1>0, <1>2, <1>6, <3>1, IdleKept, ShrinkCovered DEF BlossomsLegal
    <3>5. QED  BY <1>3, <1>6, <3>1, <3>3, <3>4
  <2>5. QED  BY <1>6, <2>2, <2>3, <2>4 DEF BlossomWorker
<1>7. CASE phase = "reuse" /\ Reuse(t) /\ UNCHANGED next_node
  <2>1. phase' = phase /\ nodes_vector' = nodes_vector /\ next_node' = next_node
    BY <1>7 DEF Reuse
  <2>2. Untaken' = Untaken
    BY <2>1 DEF Untaken
  <2>3. Covered(A)'
    BY <1>0, <1>2, <1>7, ReuseCovered
  <2>4. QED  BY <1>3, <1>7, <2>1, <2>2, <2>3 DEF Idle, AllTaken, SearchPhases
<1>8. CASE phase = "flip" /\ (FlipPair(t) \/ FlipEnds(t)) /\ UNCHANGED next_node
  <2>1. phase' = "flip"
    BY <1>8 DEF FlipPair, FlipEnds
  <2>2. QED  BY <2>1 DEF NothingLost, Covered, Idle, AllTaken, FrontierKept, SearchPhases
<1>9. QED  BY <1>4, <1>5, <1>6, <1>7, <1>8 DEF Worker


\* The threads of a phase start, with all of the frontier untaken.
LEMMA GotoTaken ==
  ASSUME TypeOK, NEW next \in SearchPhases, Goto(next), nodes_vector' = Frontier
  PROVE  /\ phase' = next /\ Idle' /\ AllTaken'
         /\ \A t \in Thread : pc'[t] \in {"fetch", "scan"}
         /\ Untaken' = Range(Frontier)
<1>1. phase' = next /\ next_node' = 0 /\ Spawn(NoWork)
  BY DEF Goto
<1> DEFINE work == NoWork
<1>2. Spawn(work)
  BY <1>1
<1> HIDE DEF work
<1>3. Idle' /\ \A t \in Thread : pc'[t] \in {"fetch", "scan"}
  BY <1>2, SpawnIdle
<1>4. AllTaken'
  BY <1>3 DEF AllTaken
<1>5. Frontier \in Seq(Node) /\ DOMAIN Frontier = 1 .. Len(Frontier)
  BY FrontierType, LenProperties
<1>6. Untaken' = {Frontier[i] : i \in (0 + 1) .. Len(Frontier)}
  BY <1>1 DEF Untaken
<1>7. Untaken' = Range(Frontier)
  BY <1>5, <1>6 DEF Range
<1>8. QED  BY <1>1, <1>3, <1>4, <1>7

\* A search or a round of it starts with all of its frontier untaken.
LEMMA GotoAugmentCovered ==
  ASSUME TypeOK, Sound', Goto("augment"), nodes_vector' = Frontier,
         UNCHANGED <<forestVars, vector_1, vector_2>>,
         \A v, w \in Node :
           /\ Waiting(v, w) => v \in Range(Frontier)
           /\ NumThreads = 1 /\ Bridging(v, w) => v \in Range(Frontier) \/ w \in Range(Frontier)
  PROVE  NothingLost'
<1>1. "augment" \in SearchPhases
  BY DEF SearchPhases
<1>2. /\ phase' = "augment" /\ Idle' /\ AllTaken'
      /\ \A t \in Thread : pc'[t] \in {"fetch", "scan"}
      /\ Untaken' = Range(Frontier)
  BY <1>1, GotoTaken
<1>3. \A v, w \in Node : (Waiting(v, w)' <=> Waiting(v, w)) /\ (Bridging(v, w)' <=> Bridging(v, w))
  BY DEF forestVars, Waiting, Bridging, EvenNode, IsBridge
<1>4. PICK f : f = Frontier
  OBVIOUS
<1>5. PICK A : A = Range(f)
  OBVIOUS
<1>6. \A v, w \in Node : v \in Range(f) => Ahead(v, w, A)'
  BY <1>5 DEF Ahead
<1>7. Covered(A)'
  BY <1>2, <1>3, <1>4, <1>6, EnterAugment
<1>8. Covered(Untaken)'
  BY <1>2, <1>4, <1>5, <1>7, UntakenSame
<1>9. FrontierKept'
  BY DEF FrontierKept, Frontier
<1>10. QED  BY <1>2, <1>8, <1>9 DEF NothingLost

\* When the threads are joined nothing is untaken.
LEMMA JoinedTaken ==
  ASSUME EngineBasic, NothingLost, Joined, phase \in SearchPhases
  PROVE  Untaken = {} /\ Covered({})
<1>1. nodes_vector \in Seq(Node) /\ next_node \in Nat
  BY DEF EngineBasic, Basic, TypeOK
<1>2. Len(nodes_vector) \in Nat
  BY <1>1, LenProperties
<1>3. 0 \in Thread
  BY ThreadAssumption DEF Thread
<1>4. next_node >= Len(nodes_vector)
  BY <1>3 DEF NothingLost, AllTaken, Joined
<1>5. (next_node + 1) .. Len(nodes_vector) = {}
  BY <1>1, <1>2, <1>4
<1>6. Untaken = {}
  BY <1>5 DEF Untaken
<1>7. QED  BY <1>6 DEF NothingLost

\* The driver's steps keep them.
LEMMA DriverCovered ==
  ASSUME EngineBasic, Sound, Sound', NothingLost, Driver
  PROVE  NothingLost'
<1>0. /\ Basic /\ TypeOK /\ Covered(Untaken) /\ Idle /\ FrontierKept
      /\ vector_1 \in Seq(Node) /\ vector_2 \in Seq(Node)
      /\ phase \in SearchPhases /\ Joined => Covered({})
  BY JoinedTaken DEF EngineBasic, Basic, TypeOK, NothingLost
<1>1. Range(Frontier) = Handed /\ Frontier \in Seq(Node)
  BY <1>0, ConcatRange DEF Frontier, Handed
<1>2. CASE JoinReuse
  <2>1. /\ phase = "reuse" /\ Joined /\ Goto("augment") /\ nodes_vector' = Frontier
        /\ UNCHANGED <<forestVars, vector_1, vector_2>>
    BY <1>2 DEF JoinReuse
  <2>2. \A x \in Node : Repaired(x)
    BY <2>1, ModThread DEF Repaired, Joined
  <2>3. \A x \in Node : EvenNode(x) => x \in Range(Frontier)
    BY <1>0, <1>1, <2>1, <2>2 DEF Covered
  <2>4. \A v, w \in Node : Waiting(v, w) \/ Bridging(v, w) => v \in Range(Frontier)
    BY <2>3 DEF Waiting, Bridging
  <2>5. QED  BY <1>0, <2>1, <2>4, GotoAugmentCovered
<1>3. CASE JoinAugment
  <2>1. phase = "augment" /\ Joined /\ forestVars' = forestVars
    BY <1>3 DEF JoinAugment
  <2>2. CASE path_collection # <<>>
    <3>1. phase' = "flip"
      BY <1>3, <2>2 DEF JoinAugment, StartFlip
    <3>2. QED  BY <3>1 DEF NothingLost, Covered, Idle, AllTaken, FrontierKept, SearchPhases
  <2>3. CASE path_collection = <<>>
    <3>1. Goto("expand") /\ nodes_vector' = Frontier /\ "expand" \in SearchPhases
      BY <1>3, <2>3 DEF JoinAugment, SearchPhases
    <3>2. phase' = "expand" /\ Idle' /\ AllTaken' /\ Untaken' = Range(Frontier)
      BY <1>0, <3>1, GotoTaken
    <3>3. PICK A : A = Range(nodes_vector)
      OBVIOUS
    <3>4. Untaken' = A
      BY <1>0, <2>1, <3>2, <3>3 DEF FrontierKept
    <3>5. \A v, w \in Node : v \in Range(nodes_vector) /\ Waiting(v, w) => Ahead(v, w, A)'
      BY <3>3 DEF Ahead
    <3>6. Covered(A)'
      BY <1>0, <2>1, <2>3, <3>2, <3>5, EnterExpand DEF SearchPhases
    <3>7. Covered(Untaken)'
      BY <3>4, <3>6, UntakenSame
    <3>8. QED  BY <3>2, <3>7 DEF NothingLost, FrontierKept
  <2>4. QED  BY <2>2, <2>3
<1>4. CASE JoinExpand
  <2>1. /\ phase = "expand" /\ Joined /\ forestVars' = forestVars /\ vector_1' = vector_1
        /\ Goto("blossom") /\ nodes_vector' = Frontier /\ "blossom" \in SearchPhases
    BY <1>4 DEF JoinExpand, SearchPhases
  <2>2. phase' = "blossom" /\ Idle' /\ AllTaken'
    BY <1>0, <2>1, GotoTaken
  <2>3. PICK A : A = Untaken'
    OBVIOUS
  <2>4. Covered(A)'
    BY <1>0, <2>1, <2>2, EnterBlossom DEF SearchPhases
  <2>5. Covered(Untaken)'
    BY <2>3, <2>4, UntakenSame
  <2>6. QED  BY <2>2, <2>5 DEF NothingLost, FrontierKept
<1>5. CASE JoinBlossom
  <2>1. /\ phase = "blossom" /\ Joined /\ nodes_vector' = Frontier
        /\ UNCHANGED <<forestVars, vector_1, vector_2>>
    BY <1>5 DEF JoinBlossom
  <2>2. Covered({})
    BY <1>0, <2>1 DEF SearchPhases
  <2>3. CASE Frontier = <<>>
    <3>1. phase' = "finished"
      BY <1>5, <2>3 DEF JoinBlossom
    <3>2. Handed = {}
      BY <1>1, <2>3 DEF Range
    <3>3. PICK A : A = Untaken'
      OBVIOUS
    <3>4. Covered(A)' /\ Idle'
      BY <1>0, <2>1, <2>2, <3>1, <3>2, StopCovered
    <3>5. Covered(Untaken)'
      BY <3>3, <3>4, UntakenSame
    <3>6. QED  BY <3>1, <3>4, <3>5 DEF NothingLost, AllTaken, FrontierKept, SearchPhases
  <2>4. CASE Frontier # <<>>
    <3>1. Goto("augment")
      BY <1>5, <2>4 DEF JoinBlossom
    <3>2. \A v, w \in Node :
            /\ Waiting(v, w) => v \in Range(Frontier)
            /\ NumThreads = 1 /\ Bridging(v, w) => v \in Range(Frontier) \/ w \in Range(Frontier)
      BY <1>0, <1>1, <2>1, <2>2, JoinedCovered
    <3>3. QED  BY <1>0, <2>1, <3>1, <3>2, GotoAugmentCovered
  <2>5. QED  BY <2>3, <2>4
<1>6. CASE JoinFlip("reuse") /\ UNCHANGED next_node
  <2>1. PICK A : A = Untaken'
    OBVIOUS
  <2>2. Covered(A)' /\ Idle'
    BY <1>0, <1>6, JoinFlipCovered
  <2>3. Covered(Untaken)'
    BY <2>1, <2>2, UntakenSame
  <2>4. phase' \in {"finished", "reuse"}
    BY <1>6 DEF JoinFlip
  <2>5. QED  BY <2>2, <2>3, <2>4 DEF NothingLost, AllTaken, FrontierKept, SearchPhases
<1>7. QED  BY <1>2, <1>3, <1>4, <1>5, <1>6 DEF Driver

\* They hold at the start.
LEMMA CoveredInitially == Init => NothingLost
<1> SUFFICES ASSUME Init
             PROVE  NothingLost
  OBVIOUS
<1>1. DriverInit("reuse") /\ phase = "reuse"
  BY DEF Init, DriverInit
<1> DEFINE A == Untaken
<1> HIDE DEF A
<1>2. Covered(A) /\ Idle
  BY <1>1, InitCovered
<1>3. QED  BY <1>1, <1>2 DEF A, NothingLost, AllTaken, FrontierKept, SearchPhases

\* Every step keeps them.
LEMMA CoveredKept ==
  ASSUME EngineBasic, EngineBasic', Sound, Sound', BlossomsLegal, NothingLost, [Next]_vars
  PROVE  NothingLost'
<1>1. CASE UNCHANGED vars
  <2>1. UNCHANGED searchVars /\ next_node' = next_node
    BY <1>1 DEF vars
  <2>2. PICK A : A = Untaken
    OBVIOUS
  <2>3. Covered(A)' /\ Idle'
    BY <2>1, <2>2, SameCovered DEF NothingLost
  <2>4. /\ phase' = phase /\ pc' = pc /\ nodes_vector' = nodes_vector /\ Frontier' = Frontier
        /\ Untaken' = A
    BY <2>1, <2>2 DEF searchVars, frontierVars, threadVars, Frontier, Untaken
  <2>5. Covered(Untaken)'
    BY <2>3, <2>4, UntakenSame
  <2>6. AllTaken' /\ FrontierKept'
    BY <2>1, <2>4 DEF AllTaken, FrontierKept, NothingLost
  <2>7. QED  BY <2>3, <2>5, <2>6 DEF NothingLost
<1>2. CASE \E t \in Thread : Worker(t)
  BY <1>2, WorkerCovered
<1>3. CASE Driver
  BY <1>3, DriverCovered
<1>4. CASE Finished
  BY <1>1, <1>4 DEF Finished
<1>5. QED  BY <1>1, <1>2, <1>3, <1>4 DEF Next

\* As long as every walk is legal, they hold in every state.
THEOREM CoveredInvariance == Spec /\ []BlossomsLegal => []NothingLost
<1>1. EngineBasic /\ EngineBasic' /\ Sound /\ Sound' /\ BlossomsLegal /\ NothingLost /\ [Next]_vars
        => NothingLost'
  BY CoveredKept
<1>2. QED
  BY <1>1, CoveredInitially, BasicInvariance, SoundInvariance, PTL DEF Spec

\* A search that ends without a path has looked at every edge out of its
\* trees, as long as every walk is legal.
THEOREM NothingLeft == Spec /\ []BlossomsLegal => []NoEdgeLeft
<1>1. EngineBasic /\ NothingLost => NoEdgeLeft
  BY CoveredNoEdgeLeft DEF EngineBasic, NothingLost
<1>2. QED
  BY <1>1, BasicInvariance, CoveredInvariance, PTL


-----------------------------------------------------------------------------
\* One thread on a bipartite graph stops only with a maximum matching, or with
\* one that is large enough.
LEMMA MaximumKept ==
  ASSUME EngineBasic, Sound, Sound', NothingLost, Bipartite, NumThreads = 1,
         FinishedMaximum, [Next]_vars
  PROVE  FinishedMaximum'
<1>0. /\ Basic /\ TypeOK /\ Idle /\ vector_1 \in Seq(Node) /\ vector_2 \in Seq(Node)
      /\ phase \in SearchPhases /\ Joined => Covered({})
  BY JoinedTaken DEF EngineBasic, Basic, TypeOK, NothingLost
<1>1. CASE UNCHANGED vars
  BY <1>1 DEF vars, searchVars, forestVars, FinishedMaximum, IsMaximumMatching, IsMatching,
              Matched, IsAdjacent
<1>2. ASSUME NEW t \in Thread, Worker(t)
      PROVE  FinishedMaximum'
  <2>1. phase' # "finished"
    BY <1>2 DEF Worker, Reuse, AugmentWorker, ExpandWorker, BlossomWorker, FlipPair, FlipEnds
  <2>2. QED  BY <2>1 DEF FinishedMaximum
<1>3. CASE JoinReuse \/ JoinAugment \/ JoinExpand
  <2>1. phase' # "finished"
    BY <1>3 DEF JoinReuse, JoinAugment, JoinExpand, Goto, StartFlip
  <2>2. QED  BY <2>1 DEF FinishedMaximum
<1>4. CASE JoinBlossom
  <2>1. phase = "blossom" /\ Joined /\ forestVars' = forestVars
    BY <1>4 DEF JoinBlossom
  <2>2. CASE Frontier = <<>>
    <3>1. phase' = "finished" /\ Range(Frontier) = {}
      BY <1>4, <2>2 DEF JoinBlossom, Range
    <3>2. Handed = {}
      BY <1>0, <3>1, ConcatRange DEF Frontier, Handed
    <3>3. Covered({})
      BY <1>0, <2>1 DEF SearchPhases
    <3>4. QED  BY <1>0, <2>1, <3>1, <3>2, <3>3, StopMaximum
  <2>3. CASE Frontier # <<>>
    BY <1>4, <2>3 DEF JoinBlossom, Goto, FinishedMaximum
  <2>4. QED  BY <2>2, <2>3
<1>5. CASE JoinFlip("reuse") /\ UNCHANGED next_node
  BY <1>0, <1>5, JoinFlipMaximum
<1>6. QED  BY <1>1, <1>2, <1>3, <1>4, <1>5 DEF Next, Driver, Finished

\* The engine with one thread, on any bipartite graph and for any chunk size.
THEOREM MaximumOnBipartite ==
  ASSUME NumThreads = 1
  PROVE  Spec /\ IsBipartite(adj) => []FinishedMaximum
<1>1. Init => FinishedMaximum
  BY DEF Init, DriverInit, FinishedMaximum
<1>2. EngineBasic /\ Sound /\ Sound' /\ NothingLost /\ Bipartite /\ FinishedMaximum /\ [Next]_vars
        => FinishedMaximum'
  BY MaximumKept
<1>3. QED
  BY <1>1, <1>2, BasicInvariance, BipartiteInvariance, LegalOnBipartite, CoveredInvariance, PTL
     DEF Spec

\* On bipartite graphs every search is safe, with any number of threads.
THEOREM SafeOnBipartite ==
  Spec /\ IsBipartite(adj) =>
    /\ []ForestStaysLegal /\ []PathsDisjoint /\ []LocksAccounted /\ []TreesClosed
    /\ []FrontierSound /\ []NoEdgeLeft /\ EvenEntriesFrozen /\ GrowsMatching
BY LegalOnBipartite, ForestLegality, PathsApart, LocksBalanced, TreesStayClosed,
   FrontierStaysSound, NothingLeft, EntriesFrozen, MatchingGrows, PTL

=============================================================================
