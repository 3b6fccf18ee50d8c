--------------------------- MODULE StridedProofs ----------------------------
(***************************************************************************)
(* The engines whose threads take every NumThreads-th node keep the same   *)
(* invariants.  New are the search for the exposed nodes in chunks, the    *)
(* fresh forest, and the repair by the driver alone.  For the engine       *)
(* without a blossom phase nothing is assumed.                             *)
(***************************************************************************)
EXTENDS StridedEngines, SearchProofs, FiniteSetTheorems

\* The nodes that thread t scans.
Chunk(t) == ScanFirst(t) .. (ScanEnd(t) - 1)

\* The chunks of the threads cover the nodes and do not overlap.
LEMMA ChunkFacts ==
  /\ \A t \in Thread : Chunk(t) \subseteq Node
  /\ \A t, u \in Thread : t # u => Chunk(t) \cap Chunk(u) = {}
  /\ \A x \in Node : \E t \in Thread : x \in Chunk(t)
<1> DEFINE c == ScanChunk
<1>0. nodes \in Nat /\ NumThreads \in Nat /\ NumThreads > 0
  BY NodesAssumption, ThreadAssumption
<1>1. c \in Nat /\ nodes <= c * NumThreads
  <2> DEFINE m == nodes + NumThreads - 1
  <2>1. m \in Nat /\ c = m \div NumThreads
    BY <1>0 DEF ScanChunk
  <2> HIDE DEF m, c
  <2>2. c \in Nat /\ m = NumThreads * c + (m % NumThreads) /\ m % NumThreads \in 0 .. (NumThreads - 1)
    BY <1>0, <2>1
  <2>3. nodes + NumThreads - 1 <= NumThreads * c + (NumThreads - 1)
    BY <1>0, <2>2 DEF m
  <2>4. NumThreads * c \in Nat /\ NumThreads * c = c * NumThreads
    BY <1>0, <2>2
  <2>5. QED  BY <1>0, <2>2, <2>3, <2>4
<1>2. \A t : Chunk(t) = {x \in Int : t * c <= x /\ x < t * c + c /\ x < nodes} \/ t \notin Thread
  <2>1. ASSUME NEW t \in Thread
        PROVE  Chunk(t) = {x \in Int : t * c <= x /\ x < t * c + c /\ x < nodes}
    <3> DEFINE a == t * c
    <3>1. a \in Nat
      <4> HIDE DEF c
      <4>1. QED  BY <1>1, <2>1 DEF Thread
    <3>2. ScanFirst(t) = a /\ ScanEnd(t) = IF a + c < nodes THEN a + c ELSE nodes
      BY DEF ScanFirst, ScanEnd
    <3> HIDE DEF a, c
    <3>3. Chunk(t) = {x \in Int : a <= x /\ x < a + c /\ x < nodes}
      BY <1>0, <1>1, <3>1, <3>2 DEF Chunk
    <3>4. QED  BY <3>3 DEF a
  <2>2. QED  BY <2>1
<1> HIDE DEF c
<1>3. \A t, u \in Nat : t < u => t * c + c <= u * c
  <2>1. SUFFICES ASSUME NEW t \in Nat, NEW u \in Nat, t < u
                 PROVE  t * c + c <= u * c
    OBVIOUS
  <2>2. PICK k \in Nat : u = t + 1 + k
    <3>1. u - t - 1 \in Nat /\ u = t + 1 + (u - t - 1)
      BY <2>1
    <3>2. QED  BY <3>1
  <2>3. u * c = t * c + c + k * c /\ k * c \in Nat /\ t * c \in Nat
    BY <1>1, <2>2
  <2>4. QED  BY <2>3, <1>1
<1>4. \A t \in Thread : Chunk(t) \subseteq Node
  <2>1. SUFFICES ASSUME NEW t \in Thread
                 PROVE  Chunk(t) \subseteq Node
    OBVIOUS
  <2>2. t * c \in Nat
    BY <1>1 DEF Thread
  <2>3. QED  BY <1>0, <1>2, <2>1, <2>2 DEF Node
<1>5. \A t, u \in Thread : t # u => Chunk(t) \cap Chunk(u) = {}
  <2>1. ASSUME NEW t \in Thread, NEW u \in Thread, t < u
        PROVE  Chunk(t) \cap Chunk(u) = {}
    <3>1. t * c + c <= u * c /\ t * c \in Nat /\ u * c \in Nat
      <4>1. t \in Nat /\ u \in Nat
        BY DEF Thread
      <4>2. QED  BY <4>1, <1>1, <1>3, <2>1
    <3>2. QED  BY <1>1, <1>2, <3>1
  <2>2. ASSUME NEW t \in Thread, NEW u \in Thread, t # u
        PROVE  t < u \/ u < t
    BY <2>2, <1>0 DEF Thread
  <2>3. QED  BY <2>1, <2>2
<1>6. \A x \in Node : \E t \in Thread : x \in Chunk(t)
  <2>1. SUFFICES ASSUME NEW x \in Node
                 PROVE  \E t \in Thread : x \in Chunk(t)
    OBVIOUS
  <2>2. x \in Nat /\ x < nodes /\ c > 0
    <3>1. x \in Nat /\ x < nodes
      BY <1>0 DEF Node
    <3>2. c = 0 => c * NumThreads = 0
      BY <1>0
    <3>3. QED  BY <3>1, <3>2, <1>0, <1>1
  <2> DEFINE t == x \div c
  <2>3. t \in Nat /\ c * t <= x /\ x < c * t + c
    <3>1. t \in Nat /\ x = c * t + (x % c) /\ x % c \in 0 .. (c - 1)
      BY <1>1, <2>2
    <3> HIDE DEF t
    <3>2. c * t \in Nat
      BY <1>1, <3>1
    <3>3. QED  BY <1>1, <2>2, <3>1, <3>2
  <2> HIDE DEF t
  <2>4. c * t = t * c
    BY <1>1, <2>3
  <2>5. t < NumThreads
    <3>1. CASE NumThreads < t \/ NumThreads = t
      <4>1. NumThreads * c <= t * c
        BY <1>0, <1>1, <1>3, <2>3, <3>1
      <4>2. NumThreads * c = c * NumThreads /\ NumThreads * c \in Nat /\ t * c \in Nat
        BY <1>0, <1>1, <2>3
      <4>3. QED  BY <4>1, <4>2, <1>0, <1>1, <2>2, <2>3, <2>4
    <3>2. QED  BY <3>1, <1>0, <2>3
  <2>6. t \in Thread
    BY <1>0, <2>3, <2>5 DEF Thread
  <2>7. x \in Chunk(t)
    BY <1>2, <2>2, <2>3, <2>4, <2>6
  <2>8. QED  BY <2>6, <2>7
<1>7. QED  BY <1>4, <1>5, <1>6

-----------------------------------------------------------------------------
\* While the nodes are scanned: the frontier holds the exposed nodes of the
\* chunks that are done, each once.
ExposedSound ==
  phase = "exposed" =>
    /\ vector_1 = <<>> /\ vector_2 = <<>>
    /\ IsInjective(nodes_vector)
    /\ \A x \in Range(nodes_vector) :
         M[x] = NoNode /\ \E t \in Thread : pc[t] = "done" /\ x \in Chunk(t)
    /\ \A t \in Thread : pc[t] = "done" =>
         \A x \in Chunk(t) : M[x] = NoNode => x \in Range(nodes_vector)

\* Which phases an engine has, and that the driver repairs a forest alone.
EngineFacts ==
  /\ engine \in Engines
  /\ phase \in {"exposed", "reuse"} => phase = engine.first
  /\ phase = "blossom" => engine.cycle # "none"
  /\ phase = "reuse" /\ engine.serial => \A t \in Thread : pc[t] = "stripe"

\* What the engines keep without any assumption on the blossoms.
EngineBasic == Basic /\ EngineFacts /\ ExposedSound

\* Where a search of the five engines may start.
LEMMA FirstPhases ==
  \A e \in Engines : e.first \in {"exposed", "reuse"}
BY DEF Engines, par_200, par_pro_2, par_pro_3, par_pro_all_atomic, par_pro_pernode_nb

\* Every NumThreads-th row of a frontier is a share of it.
LEMMA StridesAreShares ==
  ASSUME adj \in [Node -> Seq(Node)], NEW f \in Seq(Node), NEW live
  PROVE  /\ Strides(f, live) \in [Thread -> Seq(Node \X Node)]
         /\ \A t \in Thread : \A e \in Range(Strides(f, live)[t]) :
              e \in live /\ e[1] \in Range(f) /\ IsAdjacent(adj, e[1], e[2])
<1>1. \A t \in Thread : IsShare(Among(Stride(f, t), live), f, live)
  <2>1. SUFFICES ASSUME NEW t \in Thread
                 PROVE  IsShare(Among(Stride(f, t), live), f, live)
    OBVIOUS
  <2> DEFINE n == Len(f)
             ss == [i \in DOMAIN f |-> IF (i - 1) % NumThreads = t THEN Row(adj, f[i]) ELSE <<>>]
  <2>2. n \in Nat /\ DOMAIN f = 1 .. n /\ \A i \in 1 .. n : f[i] \in Range(f)
    BY LenProperties DEF Range
  <2>3. ss = [i \in 1 .. n |-> ss[i]]
    BY <2>2
  <2>4. \A i \in 1 .. n : ss[i] = <<>> \/ ss[i] = Row(adj, f[i])
    BY <2>2
  <2>5. Stride(f, t) = FlattenSeq(ss)
    BY DEF Stride
  <2> HIDE DEF ss, n
  <2>6. \A i \in 1 .. n : ss[i] = <<>> \/ \E v \in Range(f) : ss[i] = Row(adj, v)
    BY <2>2, <2>4
  <2>7. IsShare(Among(FlattenSeq(ss), live), f, live)
    BY <2>2, <2>3, <2>6, RowsAreShare
  <2>8. QED  BY <2>5, <2>7
<1>2. Strides(f, live) = [t \in Thread |-> Among(Stride(f, t), live)]
  BY DEF Strides
<1>3. \A t \in Thread : IsShare(Strides(f, live)[t], f, live)
  BY <1>1, <1>2
<1>4. \A t \in Thread : Strides(f, live)[t] \in Seq(Node \X Node)
  BY <1>3 DEF IsShare
<1>5. QED  BY <1>2, <1>3, <1>4 DEF IsShare

\* A thread scans its chunk for exposed nodes.
LEMMA FindBasic ==
  ASSUME Basic, ExposedSound, phase = "exposed", NEW t \in Thread, FindExposed(t)
  PROVE  Basic' /\ ExposedSound'
<1> DEFINE found == {x \in Chunk(t) : M[x] = NoNode}
<1>0. /\ TypeOK /\ ThreadsPlaced /\ MatesMutual /\ EntriesNeverOne
      /\ vector_1 = <<>> /\ vector_2 = <<>> /\ IsInjective(nodes_vector)
  BY DEF Basic, MatesKept, ExposedSound
<1>1. /\ adj' = adj /\ M' = M /\ is_even' = is_even /\ belongs' = belongs
      /\ path_table' = path_table /\ vector_1' = vector_1 /\ vector_2' = vector_2
      /\ select_tree' = select_tree /\ select_match' = select_match
      /\ select_blossom' = select_blossom /\ todo' = todo /\ local' = local /\ lap' = lap
      /\ path_collection' = path_collection /\ phase' = phase
  BY DEF FindExposed, forestVars, flagVars
<1>2. /\ pc[t] = "stripe" /\ nodes_vector' = nodes_vector \o Ascending(found)
      /\ pc' = [pc EXCEPT ![t] = IF ScanFirst(t) <= ScanEnd(t) THEN "done" ELSE "crashed"]
  BY DEF FindExposed, Step, Chunk
<1>3. \A u \in Thread : u # t => pc'[u] = pc[u]
  BY <1>2, <1>0 DEF TypeOK
<1>4. pc'[t] \in {"done", "crashed"} /\ (pc'[t] = "crashed" => found = {})
  <2>1. pc'[t] = IF ScanFirst(t) <= ScanEnd(t) THEN "done" ELSE "crashed"
    BY <1>0, <1>2 DEF TypeOK
  <2>2. ScanFirst(t) \in Int /\ ScanEnd(t) \in Int
    <3>1. ScanChunk \in Int
      <4>1. nodes + NumThreads - 1 \in Int /\ NumThreads \in Int /\ NumThreads > 0
        BY NodesAssumption, ThreadAssumption
      <4>2. QED  BY <4>1 DEF ScanChunk
    <3>2. ScanFirst(t) \in Int
      BY <3>1 DEF ScanFirst, Thread
    <3>3. QED  BY <3>1, <3>2, NodesAssumption DEF ScanEnd
  <2>3. ~(ScanFirst(t) <= ScanEnd(t)) => Chunk(t) = {}
    BY <2>2 DEF Chunk
  <2>4. QED  BY <2>1, <2>3
<1>5. found \subseteq Node /\ found \subseteq Chunk(t)
  BY ChunkFacts
<1> DEFINE a == Ascending(found)
<1>6. a \in Seq(Node) /\ Range(a) = found /\ IsInjective(a) /\ nodes_vector \in Seq(Node)
  BY <1>0, <1>5, AscendingFacts DEF TypeOK
<1>7. nodes_vector' = nodes_vector \o a
  BY <1>2
<1> HIDE DEF a, found
<1>8. nodes_vector' \in Seq(Node) /\ Range(nodes_vector') = Range(nodes_vector) \cup found
  BY <1>6, <1>7, ConcatRange
<1>9. TypeOK'
  <2>1. pc' \in [Thread -> {"stripe", "fetch", "scan", "merge", "done", "second",
                        "release", "claim", "grow", "own", "mate", "visit",
                        "fill", "undo", "even", "flip", "crashed"}]
    BY <1>0, <1>2 DEF TypeOK
  <2>2. QED  BY <2>1, <1>0, <1>1, <1>8 DEF TypeOK, ForestTypeOK
<1>10. ThreadsPlaced'
  <2>1. \A u \in Thread : pc'[u] \in {"stripe", "done", "crashed"}
    BY <1>0, <1>3, <1>4 DEF ThreadsPlaced
  <2>2. \A u \in Thread : pc'[u] \notin Busy
    BY <2>1 DEF Busy, Owning, Filling, Holding
  <2>3. QED  BY <1>1, <2>1, <2>2 DEF ThreadsPlaced
<1>11. MatesKept' /\ ExposedInTrees' /\ PairOwners' /\ NodeOwners' /\ EntriesNeverOne'
  BY <1>0, <1>1 DEF MatesKept, MatesMutual, Matched, ExposedInTrees, Repaired, SearchPhases,
                    PairOwners, NodeOwners, EntriesNeverOne
<1>12. Basic'
  BY <1>9, <1>10, <1>11 DEF Basic
<1>13. /\ \A x \in Range(nodes_vector) :
            M[x] = NoNode /\ \E u \in Thread : pc[u] = "done" /\ x \in Chunk(u)
       /\ \A u \in Thread : pc[u] = "done" =>
            \A x \in Chunk(u) : M[x] = NoNode => x \in Range(nodes_vector)
  BY DEF ExposedSound
<1>14. Range(nodes_vector) \cap Range(a) = {}
  <2>1. ASSUME NEW x \in Range(nodes_vector), x \in found
        PROVE  FALSE
    <3>1. PICK u \in Thread : pc[u] = "done" /\ x \in Chunk(u)
      BY <1>13
    <3>2. u # t /\ x \in Chunk(t)
      BY <3>1, <1>2, <2>1, <1>5
    <3>3. QED  BY <3>1, <3>2, ChunkFacts
  <2>2. QED  BY <2>1, <1>6
<1>15. IsInjective(nodes_vector')
  BY <1>0, <1>6, <1>7, <1>14, ConcatInjective
<1>16. \A u \in Thread : \A x : x \in Chunk(u)' <=> x \in Chunk(u)
  BY DEF Chunk, ScanFirst, ScanEnd, ScanChunk
<1>17. \A x \in Range(nodes_vector') :
         M[x] = NoNode /\ \E u \in Thread : pc'[u] = "done" /\ x \in Chunk(u)
  <2>1. ASSUME NEW x \in found
        PROVE  M[x] = NoNode /\ pc'[t] = "done" /\ x \in Chunk(t)
    BY <2>1, <1>4 DEF found
  <2>2. ASSUME NEW x \in Range(nodes_vector)
        PROVE  M[x] = NoNode /\ \E u \in Thread : pc'[u] = "done" /\ x \in Chunk(u)
    BY <1>2, <1>3, <1>13
  <2>3. QED  BY <1>8, <2>1, <2>2
<1>18. \A u \in Thread : pc'[u] = "done" =>
         \A x \in Chunk(u) : M[x] = NoNode => x \in Range(nodes_vector')
  <2>1. \A x \in Chunk(t) : M[x] = NoNode => x \in Range(nodes_vector')
    BY <1>8 DEF found
  <2>2. QED  BY <1>3, <1>8, <1>13, <2>1
<1>19. (/\ vector_1' = <<>> /\ vector_2' = <<>> /\ IsInjective(nodes_vector')
        /\ \A x \in Range(nodes_vector') :
             M'[x] = NoNode /\ \E u \in Thread : pc'[u] = "done" /\ x \in Chunk(u)'
        /\ \A u \in Thread : pc'[u] = "done" =>
             \A x \in Chunk(u)' : M'[x] = NoNode => x \in Range(nodes_vector'))
       => ExposedSound'
  BY DEF ExposedSound, IsInjective, Range
<1>20. ExposedSound'
  BY <1>0, <1>1, <1>15, <1>16, <1>17, <1>18, <1>19
<1>21. QED  BY <1>12, <1>20

\* Every other step of a thread is one of the steps the phases are made of.
LEMMA WorkerSteps ==
  ASSUME NEW t \in Thread, Worker(t)
  PROVE  /\ engine' = engine /\ phase' = phase
         /\ phase = "exposed" => FindExposed(t)
         /\ phase = "reuse" => ~engine.serial
         /\ phase # "exposed" => ThreadStep(t)
<1>0. engine' = engine
  BY DEF Worker
<1>1. CASE phase = "exposed" /\ FindExposed(t)
  BY <1>0, <1>1 DEF FindExposed
<1>2. CASE phase = "reuse" /\ ~engine.serial /\ Reuse(t)
  BY <1>0, <1>2 DEF ThreadStep, Reuse
<1>3. CASE phase = "augment" /\ AugmentWorker(t)
  <2>1. Augments(t) /\ phase' = phase
    BY <1>3 DEF AugmentWorker, Augments
  <2>2. QED  BY <1>0, <1>3, <2>1 DEF ThreadStep
<1>4. CASE phase = "expand" /\ ExpandWorker(t)
  <2>1. Expands(t) /\ phase' = phase
    BY <1>4 DEF ExpandWorker, Expands
  <2>2. QED  BY <1>0, <1>4, <2>1 DEF ThreadStep
<1>5. CASE phase = "blossom" /\ BlossomWorker(t)
  <2>1. Shrinks(t) /\ phase' = phase
    BY <1>5 DEF BlossomWorker, Shrinks
  <2>2. QED  BY <1>0, <1>5, <2>1 DEF ThreadStep
<1>6. CASE phase = "flip" /\ (FlipPair(t) \/ FlipEnds(t))
  <2>1. phase' = phase
    BY <1>6 DEF FlipPair, FlipEnds
  <2>2. QED  BY <1>0, <1>6, <2>1 DEF ThreadStep
<1>7. QED  BY <1>1, <1>2, <1>3, <1>4, <1>5, <1>6 DEF Worker

\* A thread keeps what needs no assumption.
LEMMA WorkerBasic ==
  ASSUME EngineBasic, NEW t \in Thread, Worker(t)
  PROVE  EngineBasic'
<1>0. Basic /\ EngineFacts /\ ExposedSound
  BY DEF EngineBasic
<1>1. /\ engine' = engine /\ phase' = phase
      /\ phase = "exposed" => FindExposed(t)
      /\ phase = "reuse" => ~engine.serial
      /\ phase # "exposed" => ThreadStep(t)
  BY WorkerSteps
<1>2. EngineFacts'
  BY <1>0, <1>1 DEF EngineFacts
<1>3. CASE phase = "exposed"
  BY <1>0, <1>1, <1>2, <1>3, FindBasic DEF EngineBasic
<1>4. CASE phase # "exposed"
  <2>1. Basic'
    BY <1>0, <1>1, <1>4, ThreadBasic
  <2>2. ExposedSound'
    BY <1>1, <1>4 DEF ExposedSound
  <2>3. QED  BY <1>2, <2>1, <2>2 DEF EngineBasic
<1>5. QED  BY <1>3, <1>4

-----------------------------------------------------------------------------
\* When all chunks are scanned the frontier holds the exposed nodes, each once.
LEMMA ExposedFound ==
  ASSUME Basic, ExposedSound, phase = "exposed", Joined
  PROVE  /\ vector_1 = <<>> /\ vector_2 = <<>>
         /\ nodes_vector \in Seq(Node) /\ IsInjective(nodes_vector)
         /\ \A x : x \in Range(nodes_vector) <=> x \in Node /\ M[x] = NoNode
<1>1. /\ vector_1 = <<>> /\ vector_2 = <<>> /\ IsInjective(nodes_vector)
      /\ \A x \in Range(nodes_vector) : M[x] = NoNode
      /\ \A t \in Thread : pc[t] = "done" =>
           \A x \in Chunk(t) : M[x] = NoNode => x \in Range(nodes_vector)
  BY DEF ExposedSound
<1>2. nodes_vector \in Seq(Node)
  BY DEF Basic, TypeOK
<1>3. \A x \in Range(nodes_vector) : x \in Node
  BY <1>2, RangeOfSeq
<1>4. \A x \in Node : M[x] = NoNode => x \in Range(nodes_vector)
  BY <1>1, ChunkFacts DEF Joined
<1>5. QED  BY <1>1, <1>2, <1>3, <1>4

\* The fresh forest: the exposed nodes are roots, nothing is known of the rest.
LEMMA FreshFacts ==
  ASSUME Basic, ExposedSound, phase = "exposed", Joined, FreshForest
  PROVE  /\ is_even' \in [Node -> {0, 1}] /\ belongs' \in [Node -> Node \cup {NoNode}]
         /\ path_table' \in [Node -> Seq(Node)]
         /\ \A x \in Node : M[x] = NoNode =>
              is_even'[x] = 1 /\ belongs'[x] = x /\ path_table'[x] = <<>>
         /\ \A x \in Node : M[x] # NoNode =>
              is_even'[x] = 0 /\ belongs'[x] = NoNode /\ path_table'[x] = <<>>
<1>1. \A x : x \in Range(nodes_vector) <=> x \in Node /\ M[x] = NoNode
  BY ExposedFound
<1>2. /\ is_even' = [v \in Node |-> IF v \in Range(nodes_vector) THEN 1 ELSE 0]
      /\ belongs' = [v \in Node |-> IF v \in Range(nodes_vector) THEN v ELSE NoNode]
      /\ path_table' = [v \in Node |-> <<>>]
  BY DEF FreshForest
<1>3. <<>> \in Seq(Node)
  OBVIOUS
<1>4. QED  BY <1>1, <1>2, <1>3

\* The driver's steps keep what needs no assumption.
LEMMA DriverBasic ==
  ASSUME EngineBasic, Driver
  PROVE  EngineBasic'
<1>0. /\ Basic /\ TypeOK /\ EntriesNeverOne /\ ExposedInTrees /\ EngineFacts /\ ExposedSound
      /\ engine' = engine
  BY DEF EngineBasic, Basic, Driver
<1>1. /\ is_even \in [Node -> {0, 1}] /\ belongs \in [Node -> Node \cup {NoNode}]
      /\ path_table \in [Node -> Seq(Node)] /\ adj \in [Node -> Seq(Node)]
      /\ vector_1 \in Seq(Node) /\ vector_2 \in Seq(Node) /\ nodes_vector \in Seq(Node)
      /\ <<>> \in Seq(Node)
      /\ \A x \in Node : Len(path_table[x]) # 1
  BY <1>0 DEF TypeOK, ForestTypeOK, EntriesNeverOne
<1>2. Frontier \in Seq(Node)
  BY <1>1, ConcatProperties DEF Frontier
<1>3. \A x \in Node : M[x] = NoNode /\ Repaired(x) => belongs[x] # NoNode
  BY <1>0 DEF ExposedInTrees
<1>4. phase \in SearchPhases \/ (phase = "reuse" /\ Joined) => \A x \in Node : Repaired(x)
  BY ModThread DEF Repaired, Joined
<1>5. \A f \in Seq(Node) : \A live : Strides(f, live) \in [Thread -> Seq(Node \X Node)]
  BY <1>1, StridesAreShares
<1>6. ASSUME phase' \in SearchPhases, phase \notin {"flip", "finished"},
             NEW f \in Seq(Node), NEW live, Spawn(Strides(f, live)),
             UNCHANGED <<adj, M, flagVars, lap, path_collection>>,
             nodes_vector' \in Seq(Node), vector_1' \in Seq(Node), vector_2' \in Seq(Node),
             is_even' \in [Node -> {0, 1}], belongs' \in [Node -> Node \cup {NoNode}],
             path_table' \in [Node -> Seq(Node)],
             \A x \in Node : Len(path_table'[x]) # 1,
             \A x \in Node : M[x] = NoNode => belongs'[x] # NoNode,
             phase' = "blossom" => engine.cycle # "none"
      PROVE  EngineBasic'
  <2>1. Basic'
    <3> DEFINE work == Strides(f, live)
    <3>1. work \in [Thread -> Seq(Node \X Node)] /\ Spawn(work)
      BY <1>5, <1>6
    <3> HIDE DEF work
    <3>2. QED  BY <1>0, <1>6, <3>1, EnterBasic
  <2>2. EngineFacts' /\ ExposedSound'
    BY <1>0, <1>6 DEF EngineFacts, ExposedSound, SearchPhases
  <2>3. QED  BY <2>1, <2>2 DEF EngineBasic
<1>7. ASSUME UNCHANGED <<forestVars, flagVars, lap, path_collection>>,
             phase' \in SearchPhases, phase \notin {"flip", "finished"},
             NEW f \in Seq(Node), NEW live, Spawn(Strides(f, live)),
             nodes_vector' = f, vector_1' \in {vector_1, <<>>}, vector_2' \in {vector_2, <<>>},
             \A x \in Node : Repaired(x), phase' = "blossom" => engine.cycle # "none"
      PROVE  EngineBasic'
  <2>1. /\ is_even' = is_even /\ belongs' = belongs /\ path_table' = path_table
        /\ adj' = adj /\ M' = M
    BY <1>7 DEF forestVars
  <2>2. QED  BY <1>1, <1>3, <1>6, <1>7, <2>1
<1>8. Len(<<>>) # 1 /\ \A x \in Node : x # NoNode
  <2>1. Len(<<>>) # 1
    OBVIOUS
  <2>2. \A x \in Node : x # NoNode
    BY DEF Node, NoNode
  <2>3. QED  BY <2>1, <2>2
<1>9. CASE JoinExposed
  <2>1. /\ phase = "exposed" /\ Joined /\ FreshForest /\ Augmenting(nodes_vector)
        /\ UNCHANGED <<adj, M, vector_1, vector_2, flagVars, lap, path_collection>>
    BY <1>9 DEF JoinExposed
  <2>2. /\ is_even' \in [Node -> {0, 1}] /\ belongs' \in [Node -> Node \cup {NoNode}]
        /\ path_table' \in [Node -> Seq(Node)]
        /\ \A x \in Node : path_table'[x] = <<>>
        /\ \A x \in Node : M[x] = NoNode => belongs'[x] = x
    BY <1>0, <2>1, FreshFacts
  <2>3. \A x \in Node : Len(path_table'[x]) # 1 /\ x # NoNode
    BY <1>8, <2>2
  <2>4. /\ phase' = "augment" /\ nodes_vector' = nodes_vector
        /\ Spawn(Strides(nodes_vector, Bridges'))
    BY <2>1 DEF Augmenting
  <2>5. QED  BY <1>1, <1>6, <2>1, <2>2, <2>3, <2>4 DEF SearchPhases
<1>10. CASE ReuseAll
  <2>1. /\ phase = "reuse" /\ Repair(Node) /\ Augmenting(Frontier')
        /\ UNCHANGED <<adj, M, flagVars, lap, path_collection>>
    BY <1>10 DEF ReuseAll
  <2>2. /\ is_even' \in [Node -> {0, 1}] /\ belongs' \in [Node -> Node \cup {NoNode}]
        /\ path_table' \in [Node -> Seq(Node)]
        /\ \A x \in Node : path_table'[x] = path_table[x] \/ path_table'[x] = <<>>
        /\ \A x \in Node : M[x] = NoNode => belongs'[x] = x
    BY <1>0, <2>1, RepairFacts
  <2>3. \A x \in Node : Len(path_table'[x]) # 1 /\ x # NoNode
    BY <1>1, <1>8, <2>2
  <2>4. vector_1' \in Seq(Node) /\ vector_2' \in Seq(Node)
    BY <1>0, <2>1, RepairFrontier
  <2>5. PICK f : f = Frontier'
    OBVIOUS
  <2>6. f \in Seq(Node)
    BY <2>4, <2>5, ConcatProperties DEF Frontier
  <2>7. phase' = "augment" /\ nodes_vector' = f /\ Spawn(Strides(f, Bridges'))
    BY <2>1, <2>5 DEF Augmenting
  <2>8. QED  BY <1>1, <1>6, <2>1, <2>2, <2>3, <2>4, <2>6, <2>7 DEF SearchPhases
<1>11. CASE JoinReuse
  <2>1. /\ phase = "reuse" /\ Joined /\ Augmenting(Frontier)
        /\ UNCHANGED <<forestVars, vector_1, vector_2, flagVars, lap, path_collection>>
    BY <1>11 DEF JoinReuse
  <2>2. /\ phase' = "augment" /\ nodes_vector' = Frontier
        /\ Spawn(Strides(Frontier, Bridges'))
    BY <2>1 DEF Augmenting
  <2>3. QED  BY <1>2, <1>4, <1>7, <2>1, <2>2 DEF SearchPhases
<1>12. CASE JoinAugment
  <2>1. phase = "augment" /\ UNCHANGED <<forestVars, flagVars, lap, path_collection>>
    BY <1>12 DEF JoinAugment
  <2>2. CASE path_collection # <<>>
    <3>1. StartFlip
      BY <1>12, <2>2 DEF JoinAugment
    <3>2. Basic'
      BY <1>0, <2>1, <3>1, StartFlipBasic
    <3>3. EngineFacts' /\ ExposedSound'
      BY <1>0, <3>1 DEF EngineFacts, ExposedSound, StartFlip
    <3>4. QED  BY <3>2, <3>3 DEF EngineBasic
  <2>3. CASE path_collection = <<>>
    <3>1. /\ nodes_vector' = Unused /\ vector_1' = <<>> /\ vector_2' = vector_2
          /\ phase' = "expand" /\ Spawn(Strides(Unused, Outward))
      BY <1>12, <2>3 DEF JoinAugment
    <3>2. Unused \in Seq(Node)
      BY <1>1, <1>2 DEF Unused
    <3>3. QED  BY <1>4, <1>7, <2>1, <3>1, <3>2 DEF SearchPhases
  <2>4. QED  BY <2>2, <2>3
<1>13. CASE JoinExpand
  BY <1>2, <1>4, <1>7, <1>13 DEF JoinExpand, SearchPhases
<1>14. ASSUME NEW f \in Seq(Node), AugmentOrEnd(f), phase \in {"expand", "blossom"},
              UNCHANGED <<forestVars, vector_1, flagVars, lap, path_collection>>,
              vector_2' \in {vector_2, <<>>}
       PROVE  EngineBasic'
  <2>1. CASE f = <<>>
    <3>1. /\ phase' = "finished" /\ UNCHANGED <<pc, todo, local>>
          /\ nodes_vector' \in Seq(Node) /\ vector_2' \in Seq(Node)
      BY <1>1, <1>14, <2>1 DEF AugmentOrEnd
    <3>2. Basic'
      BY <1>0, <1>14, <3>1, StopBasic
    <3>3. EngineFacts' /\ ExposedSound'
      BY <1>0, <3>1 DEF EngineFacts, ExposedSound
    <3>4. QED  BY <3>2, <3>3 DEF EngineBasic
  <2>2. CASE f # <<>>
    <3>1. phase' = "augment" /\ nodes_vector' = f /\ Spawn(Strides(f, Bridges'))
      BY <1>14, <2>2 DEF AugmentOrEnd, Augmenting
    <3>2. QED  BY <1>4, <1>7, <1>14, <3>1 DEF SearchPhases
  <2>3. QED  BY <2>1, <2>2
<1>15. CASE SkipBlossom
  BY <1>1, <1>14, <1>15 DEF SkipBlossom
<1>16. CASE JoinBlossom
  BY <1>2, <1>14, <1>16 DEF JoinBlossom
<1>17. CASE JoinFlip(engine.first)
  <2>1. engine.first \in {"exposed", "reuse"} /\ engine \in Engines
    BY <1>0, FirstPhases DEF EngineFacts
  <2>2. Basic'
    BY <1>0, <1>17, <2>1, JoinFlipBasic
  <2>3. /\ nodes_vector' = <<>> /\ vector_1' = <<>> /\ vector_2' = <<>>
        /\ phase' = "finished" \/ (phase' = engine.first /\ pc' = [t \in Thread |-> "stripe"])
    BY <1>17 DEF JoinFlip
  <2>4. EngineFacts'
    BY <1>0, <2>1, <2>3 DEF EngineFacts
  <2>5. ExposedSound'
    <3>1. Range(<<>>) = {} /\ IsInjective(<<>>)
      BY DEF Range, IsInjective
    <3>2. phase' = "exposed" => \A t \in Thread : pc'[t] # "done"
      BY <2>1, <2>3
    <3>3. QED  BY <2>3, <3>1, <3>2 DEF ExposedSound, IsInjective, Range
  <2>6. QED  BY <2>2, <2>4, <2>5 DEF EngineBasic
<1>18. QED
  BY <1>9, <1>10, <1>11, <1>12, <1>13, <1>15, <1>16, <1>17 DEF Driver

\* They hold at the start.
LEMMA BasicInitially == Init => EngineBasic
<1> SUFFICES ASSUME Init
             PROVE  EngineBasic
  OBVIOUS
<1>1. engine \in Engines /\ DriverInit(engine.first) /\ engine.first \in {"exposed", "reuse"}
  BY FirstPhases DEF Init
<1>2. Basic
  BY <1>1, InitBasic
<1>3. /\ phase = engine.first /\ pc = [t \in Thread |-> "stripe"]
      /\ nodes_vector = <<>> /\ vector_1 = <<>> /\ vector_2 = <<>>
  BY <1>1 DEF DriverInit
<1>4. EngineFacts
  BY <1>1, <1>3 DEF EngineFacts
<1>5. ExposedSound
  <2>1. Range(<<>>) = {} /\ IsInjective(<<>>)
    BY DEF Range, IsInjective
  <2>2. QED  BY <1>3, <2>1 DEF ExposedSound
<1>6. QED  BY <1>2, <1>4, <1>5 DEF EngineBasic

\* Every step keeps them.
LEMMA BasicKept == EngineBasic /\ [Next]_vars => EngineBasic'
<1> SUFFICES ASSUME EngineBasic, [Next]_vars
             PROVE  EngineBasic'
  OBVIOUS
<1>1. CASE UNCHANGED vars
  <2>1. UNCHANGED searchVars /\ engine' = engine
    BY <1>1 DEF vars
  <2>2. Basic'
    BY <2>1, SameBasic DEF EngineBasic
  <2>3. /\ M' = M /\ phase' = phase /\ pc' = pc /\ nodes_vector' = nodes_vector
        /\ vector_1' = vector_1 /\ vector_2' = vector_2
    BY <2>1 DEF searchVars, forestVars, frontierVars, threadVars
  <2>4. EngineFacts' /\ ExposedSound'
    BY <2>1, <2>3 DEF EngineBasic, EngineFacts, ExposedSound, Chunk, ScanFirst, ScanEnd, ScanChunk
  <2>5. QED  BY <2>2, <2>4 DEF EngineBasic
<1>2. CASE \E t \in Thread : Worker(t)
  BY <1>2, WorkerBasic
<1>3. CASE Driver
  BY <1>3, DriverBasic
<1>4. CASE Finished
  BY <1>1, <1>4 DEF Finished
<1>5. QED  BY <1>1, <1>2, <1>3, <1>4 DEF Next

\* The invariants that need no assumption hold in every state of every run of
\* the five engines.
THEOREM BasicInvariance == Spec => []EngineBasic
BY BasicInitially, BasicKept, PTL DEF Spec

\* Every variable of the five engines keeps its type.
THEOREM TypeCorrectness == Spec => []TypeOK
<1>1. EngineBasic => TypeOK
  BY DEF EngineBasic, Basic
<1>2. QED  BY <1>1, BasicInvariance, PTL

-----------------------------------------------------------------------------
\* A search without reuse starts with a sound forest: single roots.
LEMMA ExposedSearchSound ==
  ASSUME EngineBasic, Sound, JoinExposed
  PROVE  Sound'
<1>0. /\ phase = "exposed" /\ Joined /\ FreshForest /\ Augmenting(nodes_vector)
      /\ adj' = adj /\ M' = M /\ vector_1' = vector_1 /\ vector_2' = vector_2
      /\ select_tree' = select_tree /\ select_match' = select_match
      /\ lap' = lap /\ path_collection' = path_collection
  BY DEF JoinExposed, flagVars
<1>1. /\ Basic /\ ExposedSound /\ TypeOK /\ GraphKept /\ FlagsFresh /\ LapsInTrees /\ MatesMutual
  BY <1>0 DEF EngineBasic, Basic, Sound, MatesKept
<1>2. /\ vector_1 = <<>> /\ vector_2 = <<>>
      /\ nodes_vector \in Seq(Node) /\ IsInjective(nodes_vector)
      /\ \A x : x \in Range(nodes_vector) <=> x \in Node /\ M[x] = NoNode
  BY <1>0, <1>1, ExposedFound
<1>3. /\ is_even' \in [Node -> {0, 1}] /\ belongs' \in [Node -> Node \cup {NoNode}]
      /\ path_table' \in [Node -> Seq(Node)]
      /\ \A x \in Node : M[x] = NoNode =>
           is_even'[x] = 1 /\ belongs'[x] = x /\ path_table'[x] = <<>>
      /\ \A x \in Node : M[x] # NoNode =>
           is_even'[x] = 0 /\ belongs'[x] = NoNode /\ path_table'[x] = <<>>
  BY <1>0, <1>1, FreshFacts
<1>4. /\ select_tree' = ZeroFlags /\ select_match' = ZeroFlags /\ path_collection' = <<>>
      /\ \A t \in Thread : lap'[t] = <<>>
  BY <1>0, <1>1 DEF FlagsFresh, LapsInTrees
<1>5. \A x \in Node : x # NoNode
  BY DEF Node, NoNode
<1>6. \A x \in Node : M[x] # NoNode => M[x] \in Node /\ M[M[x]] # NoNode
  BY <1>1, <1>5 DEF MatesMutual, Matched, TypeOK, ForestTypeOK
<1>7. GraphKept'
  BY <1>0, <1>1 DEF GraphKept
<1>8. TreesWhole'
  <2>1. \A x \in Node : M[x] = NoNode => IsRoot(x)'
    BY <1>3 DEF IsRoot
  <2>2. \A x \in Node : belongs'[x] # NoNode => M[belongs'[x]] = NoNode
    BY <1>3
  <2>3. ASSUME NEW x \in Node, belongs'[x] = NoNode
        PROVE  Unreached(x)' /\ select_match'[Slot(x)'] = 0
    <3>1. M[x] # NoNode
      BY <1>3, <1>5, <2>3
    <3>2. Slot(x)' \in Node
      BY <1>0, <1>6, <3>1 DEF Slot
    <3>3. select_match'[Slot(x)'] = 0
      BY <1>4, <3>2 DEF ZeroFlags
    <3>4. QED  BY <1>3, <3>1, <3>3 DEF Unreached
  <2>4. \A x \in Matched(M) : belongs'[M[x]] = belongs'[x]
    BY <1>3, <1>6 DEF Matched
  <2>5. QED  BY <1>0, <2>1, <2>2, <2>3, <2>4 DEF TreesWhole
<1>9. \A x \in Node : EvenNode(x)' <=> M[x] = NoNode
  BY <1>3, <1>5 DEF EvenNode
<1>10. LegalForest'
  <2>1. ASSUME NEW x \in Node, M[x] = NoNode
        PROVE  EvenWalkLegal(x)'
    <3>1. Walk(path_table', x) = <<x>>
      BY <1>3, <2>1, WalkStays
    <3>2. /\ <<x>> \in Seq(Node) /\ Len(<<x>>) = 1 /\ Last(<<x>>) = x
          /\ Range(<<x>>) = {x} /\ IsInjective(<<x>>)
      BY DEF Last, Range, IsInjective
    <3>3. IsEvenWalk(adj', M', <<x>>)
      BY <1>0, <2>1, <3>2 DEF IsEvenWalk
    <3>4. belongs'[x] = x
      BY <1>3, <2>1
    <3>5. QED  BY <3>1, <3>2, <3>3, <3>4 DEF EvenWalkLegal
  <2>2. QED  BY <1>9, <2>1 DEF LegalForest, EvenNode
<1>11. /\ phase' = "augment" /\ nodes_vector' = nodes_vector
       /\ Spawn(Strides(nodes_vector, Bridges'))
  BY <1>0 DEF Augmenting
<1>12. Collected'
  <2>1. Range(<<>>) = {} /\ IsInjective(<<>>)
    BY DEF Range, IsInjective
  <2>2. \A x \in Range(nodes_vector) : EvenNode(x)'
    BY <1>2, <1>9
  <2>3. /\ vector_1' = <<>> /\ vector_2' = <<>>
        /\ \A x \in Range(nodes_vector') \cup Range(vector_1') \cup Range(vector_2') : EvenNode(x)'
        /\ IsInjective(nodes_vector') /\ IsInjective(vector_1') /\ IsInjective(vector_2')
        /\ Range(vector_1') \cap Range(vector_2') = {}
    BY <1>0, <1>2, <1>11, <2>1, <2>2
  <2>4. (/\ \A x \in Range(nodes_vector') \cup Range(vector_1') \cup Range(vector_2') : EvenNode(x)'
         /\ IsInjective(nodes_vector') /\ IsInjective(vector_1') /\ IsInjective(vector_2')
         /\ Range(vector_1') \cap Range(vector_2') = {}) => Collected'
    BY DEF Collected, IsInjective, Range
  <2>5. QED  BY <2>3, <2>4
<1> DEFINE work == Strides(nodes_vector, Bridges')
<1>13. /\ work \in [Thread -> Seq(Node \X Node)]
       /\ \A t \in Thread : \A e \in Range(work[t]) :
            e \in Bridges' /\ e[1] \in Range(nodes_vector) /\ IsAdjacent(adj, e[1], e[2])
  <2>1. adj \in [Node -> Seq(Node)]
    BY <1>1 DEF TypeOK, ForestTypeOK
  <2>2. QED  BY <1>2, <2>1, StridesAreShares
<1>14. Spawn(work)
  BY <1>11
<1> HIDE DEF work
<1>15. \A e \in Bridges' : IsBridge(e[1], e[2])'
  BY DEF Bridges
<1>16. \A t \in Thread : \A e \in Range(work[t]) :
         /\ EvenNode(e[1])' /\ IsAdjacent(adj, e[1], e[2])'
         /\ phase' = "augment" => IsBridge(e[1], e[2])'
         /\ phase' = "blossom" => belongs'[e[2]] = belongs'[e[1]]
  BY <1>0, <1>2, <1>9, <1>11, <1>13, <1>15
<1>17. phase' \in SearchPhases
  BY <1>11 DEF SearchPhases
<1>18. QED
  BY <1>4, <1>7, <1>8, <1>10, <1>12, <1>13, <1>14, <1>16, <1>17, EnterSound

\* The driver repairs the whole forest and starts a search with it.
LEMMA ReuseAllSound ==
  ASSUME EngineBasic, Sound, ReuseAll
  PROVE  Sound'
<1>0. /\ phase = "reuse" /\ engine.serial /\ Repair(Node) /\ Augmenting(Frontier')
      /\ adj' = adj /\ M' = M /\ lap' = lap /\ path_collection' = path_collection
      /\ select_tree' = select_tree /\ select_match' = select_match
  BY DEF ReuseAll, flagVars
<1>1. /\ Basic /\ EngineFacts /\ TypeOK /\ MatesMutual /\ GraphKept /\ FlagsFresh /\ LapsInTrees
      /\ RepairSound
  BY <1>0 DEF EngineBasic, Basic, Sound, MatesKept
<1>2. \A x \in Node : ~Repaired(x)
  <2>1. \A t \in Thread : pc[t] = "stripe"
    BY <1>0, <1>1 DEF EngineFacts
  <2>2. QED  BY <2>1, <1>0, ModThread DEF Repaired, SearchPhases
<1>3. vector_1 \in Seq(Node) /\ vector_2 \in Seq(Node) /\ Range(vector_1) = {} /\ Range(vector_2) = {}
      /\ IsInjective(vector_1) /\ IsInjective(vector_2)
  <2>1. vector_1 \in Seq(Node) /\ vector_2 \in Seq(Node)
    BY <1>1 DEF TypeOK
  <2>2. /\ \A x \in Range(vector_1) : x \in Node /\ Repaired(x)
        /\ \A x \in Range(vector_2) : x \in Node /\ Repaired(x)
    BY <2>1, <1>0, <1>1, RangeOfSeq DEF RepairSound
  <2>3. QED  BY <2>1, <2>2, <1>0, <1>1, <1>2 DEF RepairSound
<1>4. RepairWhole
  BY <1>0, <1>1 DEF RepairSound, RepairWhole
<1>5. /\ RepairWhole'
      /\ \A x \in Node : M[x] = NoNode => IsRoot(x)'
      /\ \A x \in Node : InValidTree(x)' \/ Unreached(x)'
      /\ \A x \in Node : M[x] # NoNode /\ InValidTree(x) =>
           is_even'[x] = is_even[x] /\ belongs'[x] = belongs[x]
  BY <1>0, <1>1, <1>4, RepairKeeps
<1>6. /\ vector_1' \in Seq(Node) /\ vector_2' \in Seq(Node)
      /\ IsInjective(vector_1') /\ IsInjective(vector_2')
      /\ \A x : x \in Range(vector_1') <=> x \in Node /\ M[x] = NoNode
      /\ \A x : x \in Range(vector_2') <=>
           x \in Node /\ M[x] # NoNode /\ InValidTree(x) /\ is_even[x] = 1
  <2>1. Range(vector_1) \cap Node = {} /\ Range(vector_2) \cap Node = {}
    BY <1>3
  <2>2. Node \subseteq Node
    OBVIOUS
  <2>3. QED  BY <1>0, <1>1, <1>3, <2>1, <2>2, RepairFrontier
<1>7. \A x \in Node : x # NoNode
  BY DEF Node, NoNode
<1>8. \A x \in Node : M[x] # NoNode => M[x] \in Node /\ M[M[x]] = x /\ M[M[x]] # NoNode
  BY <1>1, <1>7 DEF MatesMutual, Matched, TypeOK, ForestTypeOK
<1>9. \A x \in Node : belongs'[x] # NoNode <=> InValidTree(x)'
  BY <1>5 DEF InValidTree, Unreached
<1>10. TreesWhole'
  <2>1. \A x \in Node : belongs'[x] # NoNode => M[belongs'[x]] = NoNode
    BY <1>0, <1>9 DEF InValidTree
  <2>2. ASSUME NEW x \in Node, belongs'[x] = NoNode
        PROVE  Unreached(x)' /\ select_match'[Slot(x)'] = 0
    <3>1. Unreached(x)'
      BY <1>5, <1>9, <2>2
    <3>2. M[x] # NoNode
      BY <1>5, <1>7, <2>2 DEF IsRoot
    <3>3. Slot(x)' \in Node
      BY <1>0, <1>8, <3>2 DEF Slot
    <3>4. select_match' = ZeroFlags
      BY <1>0, <1>1 DEF FlagsFresh
    <3>5. QED  BY <3>1, <3>3, <3>4 DEF ZeroFlags
  <2>3. ASSUME NEW x \in Node, M[x] # NoNode
        PROVE  belongs'[M[x]] = belongs'[x]
    <3>1. /\ InValidTree(x)' => belongs'[M[x]] = belongs'[x]
          /\ InValidTree(M[x])' => belongs'[M[M[x]]] = belongs'[M[x]]
      <4>1. \A y \in Node : M[y] # NoNode /\ InValidTree(y)' => belongs'[M[y]] = belongs'[y]
        BY <1>0, <1>5 DEF RepairWhole, Matched
      <4>2. PICK y \in Node : y = M[x]
        BY <1>8, <2>3
      <4>3. InValidTree(y)' => belongs'[M[y]] = belongs'[y]
        BY <4>1, <4>2, <1>8, <2>3
      <4>4. QED  BY <4>1, <4>2, <4>3, <2>3, <1>0 DEF InValidTree
    <3>2. (~InValidTree(x)' => belongs'[x] = NoNode) /\ (~InValidTree(M[x])' => belongs'[M[x]] = NoNode)
      <4>1. PICK y \in Node : y = M[x]
        BY <1>8, <2>3
      <4>2. (~InValidTree(x)' => belongs'[x] = NoNode) /\ (~InValidTree(y)' => belongs'[y] = NoNode)
        BY <1>9
      <4>3. QED  BY <4>1, <4>2, <1>0 DEF InValidTree
    <3>3. M[M[x]] = x
      BY <1>8, <2>3
    <3>4. QED  BY <3>1, <3>2, <3>3
  <2>4. QED  BY <1>0, <1>5, <2>1, <2>2, <2>3 DEF TreesWhole, Matched
<1>11. LegalForest'
  BY <1>5, <1>9 DEF RepairWhole, LegalForest
<1>12. GraphKept'
  BY <1>0, <1>1 DEF GraphKept
<1>13. /\ \A x \in Range(vector_1') : EvenNode(x)'
       /\ \A x \in Range(vector_2') : EvenNode(x)'
       /\ Range(vector_1') \cap Range(vector_2') = {}
  <2>1. \A x \in Range(vector_1') : EvenNode(x)'
    BY <1>5, <1>6, <1>7 DEF IsRoot, EvenNode
  <2>2. \A x \in Range(vector_2') : EvenNode(x)'
    BY <1>5, <1>6 DEF InValidTree, EvenNode
  <2>3. QED  BY <2>1, <2>2, <1>6
<1>14. PICK f : f = Frontier'
  OBVIOUS
<1>15. /\ f \in Seq(Node) /\ IsInjective(f)
       /\ Range(f) = Range(vector_1') \cup Range(vector_2')
  <2>1. f = vector_1' \o vector_2'
    BY <1>14 DEF Frontier
  <2>2. QED  BY <2>1, <1>6, <1>13, ConcatRange, ConcatInjective
<1>16. phase' = "augment" /\ nodes_vector' = f /\ Spawn(Strides(f, Bridges'))
  BY <1>0, <1>14 DEF Augmenting
<1>17. Collected'
  <2>1. (/\ \A x \in Range(nodes_vector') \cup Range(vector_1') \cup Range(vector_2') : EvenNode(x)'
         /\ IsInjective(nodes_vector') /\ IsInjective(vector_1') /\ IsInjective(vector_2')
         /\ Range(vector_1') \cap Range(vector_2') = {}) => Collected'
    BY DEF Collected, IsInjective, Range
  <2>2. QED  BY <2>1, <1>6, <1>13, <1>15, <1>16
<1> DEFINE work == Strides(f, Bridges')
<1>18. /\ work \in [Thread -> Seq(Node \X Node)]
       /\ \A t \in Thread : \A e \in Range(work[t]) :
            e \in Bridges' /\ e[1] \in Range(f) /\ IsAdjacent(adj, e[1], e[2])
  <2>1. adj \in [Node -> Seq(Node)]
    BY <1>1 DEF TypeOK, ForestTypeOK
  <2>2. QED  BY <1>15, <2>1, StridesAreShares
<1>19. Spawn(work)
  BY <1>16
<1> HIDE DEF work
<1>20. \A e \in Bridges' : IsBridge(e[1], e[2])'
  BY DEF Bridges
<1>21. \A x \in Range(f) : EvenNode(x)'
  BY <1>13, <1>15
<1>22. \A t \in Thread : \A e \in Range(work[t]) :
         /\ EvenNode(e[1])' /\ IsAdjacent(adj, e[1], e[2])'
         /\ phase' = "augment" => IsBridge(e[1], e[2])'
         /\ phase' = "blossom" => belongs'[e[2]] = belongs'[e[1]]
  BY <1>0, <1>16, <1>18, <1>20, <1>21
<1>23. /\ phase' \in SearchPhases /\ select_tree' = ZeroFlags /\ path_collection' = <<>>
       /\ \A t \in Thread : lap'[t] = <<>>
  BY <1>0, <1>1, <1>16 DEF FlagsFresh, LapsInTrees, SearchPhases
<1>24. QED
  BY <1>10, <1>11, <1>12, <1>17, <1>18, <1>19, <1>22, <1>23, EnterSound

-----------------------------------------------------------------------------
(***************************************************************************)
(* The rest needs one thing of the blossom phase, if the engine has one:   *)
(* that the entries its threads write leave every walk legal.              *)
(***************************************************************************)
BlossomsLegal == phase = "blossom" => LegalForest

\* The threads of the next phase start, each with its stride.
LEMMA StrideSound ==
  ASSUME EngineBasic, Sound, BlossomsLegal, phase \in SearchPhases, Joined, path_collection = <<>>,
         phase' \in SearchPhases, NEW f \in Seq(Node), IsInjective(f),
         Range(f) \subseteq Range(nodes_vector) \cup Range(vector_1) \cup Range(vector_2),
         NEW live, Spawn(Strides(f, live)), nodes_vector' = f,
         UNCHANGED <<forestVars, flagVars, lap, path_collection>>,
         vector_1' = vector_1 \/ vector_1' = <<>>, vector_2' = vector_2 \/ vector_2' = <<>>,
         phase' = "augment" => live = Bridges, phase' = "blossom" => live = Inward
  PROVE  Sound'
<1>1. Basic /\ TypeOK /\ Collected /\ LegalForest
  <2>1. Basic /\ TypeOK
    BY DEF EngineBasic, Basic
  <2>2. QED  BY <2>1 DEF Sound, BlossomsLegal, SearchPhases
<1>2. adj \in [Node -> Seq(Node)]
  BY <1>1 DEF TypeOK, ForestTypeOK
<1> DEFINE work == Strides(f, live)
<1>3. /\ work \in [Thread -> Seq(Node \X Node)] /\ Spawn(work)
      /\ \A t \in Thread : \A e \in Range(work[t]) :
           e \in live /\ e[1] \in Range(f) /\ IsAdjacent(adj, e[1], e[2])
  BY <1>2, StridesAreShares
<1> HIDE DEF work
<1>4. phase \in SearchPhases => \A x \in Range(f) : EvenNode(x)
  BY <1>1 DEF Collected
<1>5. /\ live = Bridges => \A e \in live : IsBridge(e[1], e[2])
      /\ live = Inward => \A e \in live : belongs[e[2]] = belongs[e[1]]
  BY DEF Bridges, Inward, SameTree
<1>6. \A t \in Thread : \A e \in Range(work[t]) :
        /\ EvenNode(e[1]) /\ IsAdjacent(adj, e[1], e[2])
        /\ phase' = "augment" => IsBridge(e[1], e[2])
        /\ phase' = "blossom" => belongs[e[2]] = belongs[e[1]]
  BY <1>3, <1>4, <1>5
<1>7. /\ IsInjective(nodes_vector')
      /\ Range(nodes_vector') \subseteq Range(nodes_vector) \cup Range(vector_1) \cup Range(vector_2)
  BY DEF IsInjective, Range
<1>8. QED  BY <1>1, <1>3, <1>6, <1>7, NextPhaseSound

\* The driver's steps keep Sound.
LEMMA DriverSound ==
  ASSUME EngineBasic, Sound, BlossomsLegal, Driver
  PROVE  Sound'
<1>0. /\ Basic /\ TypeOK /\ EngineFacts /\ FlagsFresh /\ Collected
      /\ adj \in [Node -> Seq(Node)]
  BY DEF EngineBasic, Basic, Sound, TypeOK, ForestTypeOK
<1>1. /\ vector_1 \in Seq(Node) /\ vector_2 \in Seq(Node) /\ nodes_vector \in Seq(Node)
      /\ <<>> \in Seq(Node)
  BY <1>0 DEF TypeOK
<1>2. CASE JoinExposed
  BY <1>2, ExposedSearchSound
<1>3. CASE ReuseAll
  BY <1>3, ReuseAllSound
<1>4. CASE JoinReuse
  <2>1. /\ phase = "reuse" /\ Joined /\ Augmenting(Frontier)
        /\ UNCHANGED <<forestVars, vector_1, vector_2, flagVars, lap, path_collection>>
    BY <1>4 DEF JoinReuse
  <2>2. is_even' = is_even /\ belongs' = belongs
    BY <2>1 DEF forestVars
  <2>3. Bridges' = Bridges
    BY <2>2 DEF Bridges, IsBridge
  <2>4. /\ phase' = "augment" /\ nodes_vector' = Frontier
        /\ Spawn(Strides(Frontier, Bridges))
    BY <2>1, <2>3 DEF Augmenting
  <2>5. /\ \A x \in Range(vector_1) \cup Range(vector_2) : EvenNode(x)
        /\ Frontier \in Seq(Node) /\ Range(Frontier) = Range(vector_1) \cup Range(vector_2)
    BY <1>0, <1>1, <2>1, RepairedFacts, ConcatRange DEF Frontier
  <2> DEFINE work == Strides(Frontier, Bridges)
  <2>6. /\ work \in [Thread -> Seq(Node \X Node)] /\ Spawn(work)
        /\ \A t \in Thread : \A e \in Range(work[t]) :
             e \in Bridges /\ e[1] \in Range(Frontier) /\ IsAdjacent(adj, e[1], e[2])
    BY <1>0, <2>4, <2>5, StridesAreShares
  <2> HIDE DEF work
  <2>7. \A t \in Thread : \A e \in Range(work[t]) :
          EvenNode(e[1]) /\ IsAdjacent(adj, e[1], e[2]) /\ IsBridge(e[1], e[2])
    <3>1. \A e \in Bridges : IsBridge(e[1], e[2])
      BY DEF Bridges
    <3>2. QED  BY <2>5, <2>6, <3>1
  <2>8. QED  BY <1>0, <2>1, <2>4, <2>6, <2>7, FirstPhaseSound
<1>5. CASE JoinAugment
  <2>1. phase = "augment" /\ Joined /\ UNCHANGED <<forestVars, flagVars, lap, path_collection>>
    BY <1>5 DEF JoinAugment
  <2>2. CASE path_collection # <<>>
    BY <1>0, <1>5, <2>1, <2>2, StartFlipSound DEF JoinAugment
  <2>3. CASE path_collection = <<>>
    <3>1. /\ nodes_vector' = Unused /\ vector_1' = <<>> /\ vector_2' = vector_2
          /\ phase' = "expand" /\ Spawn(Strides(Unused, Outward))
      BY <1>5, <2>3 DEF JoinAugment
    <3>2. /\ Unused \in Seq(Node) /\ IsInjective(Unused)
          /\ Range(Unused) \subseteq Range(nodes_vector) \cup Range(vector_1) \cup Range(vector_2)
      <4>1. phase \in SearchPhases
        BY <2>1 DEF SearchPhases
      <4>2. /\ Frontier \in Seq(Node) /\ IsInjective(Frontier)
            /\ Range(Frontier) = Range(vector_1) \cup Range(vector_2)
        BY <1>0, <4>1, FrontierCollected
      <4>3. IsInjective(nodes_vector)
        BY <1>0, <4>1 DEF Collected
      <4>4. CASE engine.first = "reuse"
        BY <4>2, <4>4 DEF Unused
      <4>5. CASE engine.first # "reuse"
        BY <1>1, <4>3, <4>5 DEF Unused
      <4>6. QED  BY <4>4, <4>5
    <3>3. QED  BY <2>1, <2>3, <3>1, <3>2, StrideSound DEF SearchPhases
  <2>4. QED  BY <2>2, <2>3
<1>6. phase \in SearchPhases =>
        /\ Frontier \in Seq(Node) /\ IsInjective(Frontier)
        /\ Range(Frontier) \subseteq Range(nodes_vector) \cup Range(vector_1) \cup Range(vector_2)
        /\ vector_1 \in Seq(Node) /\ IsInjective(vector_1)
        /\ Range(vector_1) \subseteq Range(nodes_vector) \cup Range(vector_1) \cup Range(vector_2)
  BY <1>0, <1>1, FrontierCollected DEF Collected
<1>7. CASE JoinExpand
  <2>1. /\ phase = "expand" /\ Joined /\ UNCHANGED <<forestVars, flagVars, lap, path_collection>>
        /\ nodes_vector' = Frontier /\ vector_2' = <<>> /\ vector_1' = vector_1
        /\ phase' = "blossom" /\ Spawn(Strides(Frontier, Inward))
    BY <1>7 DEF JoinExpand
  <2>2. path_collection = <<>>
    BY <1>0, <2>1 DEF FlagsFresh
  <2>3. QED  BY <1>6, <2>1, <2>2, StrideSound DEF SearchPhases
<1>8. ASSUME NEW f \in Seq(Node), AugmentOrEnd(f), phase \in {"expand", "blossom"}, Joined,
             IsInjective(f),
             Range(f) \subseteq Range(nodes_vector) \cup Range(vector_1) \cup Range(vector_2),
             UNCHANGED <<forestVars, vector_1, flagVars, lap, path_collection>>,
             vector_2' = vector_2 \/ vector_2' = <<>>
      PROVE  Sound'
  <2>1. path_collection = <<>> /\ phase \in SearchPhases
    BY <1>0, <1>8 DEF FlagsFresh, SearchPhases
  <2>2. CASE f = <<>>
    <3>1. phase' = "finished" /\ path_collection' = <<>>
      BY <1>8, <2>1, <2>2 DEF AugmentOrEnd
    <3>2. QED  BY <1>0, <1>8, <2>1, <3>1, StopSound
  <2>3. CASE f # <<>>
    <3>1. is_even' = is_even /\ belongs' = belongs
      BY <1>8 DEF forestVars
    <3>2. Bridges' = Bridges
      BY <3>1 DEF Bridges, IsBridge
    <3>3. phase' = "augment" /\ nodes_vector' = f /\ Spawn(Strides(f, Bridges))
      BY <1>8, <2>3, <3>2 DEF AugmentOrEnd, Augmenting
    <3>4. QED  BY <1>8, <2>1, <3>3, StrideSound DEF SearchPhases
  <2>4. QED  BY <2>2, <2>3
<1>9. CASE SkipBlossom
  BY <1>6, <1>8, <1>9 DEF SkipBlossom, SearchPhases
<1>10. CASE JoinBlossom
  BY <1>6, <1>8, <1>10 DEF JoinBlossom, SearchPhases
<1>11. CASE JoinFlip(engine.first)
  <2>1. engine.first \in {"exposed", "reuse"}
    BY <1>0, FirstPhases DEF EngineFacts
  <2>2. QED  BY <1>0, <1>11, <2>1, JoinFlipSound
<1>12. QED
  BY <1>2, <1>3, <1>4, <1>5, <1>7, <1>9, <1>10, <1>11 DEF Driver

\* Every step of a thread keeps Sound.
LEMMA WorkerSound ==
  ASSUME EngineBasic, EngineBasic', Sound, BlossomsLegal, NEW t \in Thread, Worker(t)
  PROVE  Sound' /\ (phase \in SearchPhases => KeepsEntries)
<1>0. /\ Basic /\ Basic' /\ phase' = phase
      /\ phase = "exposed" => FindExposed(t)
      /\ phase # "exposed" => ThreadStep(t)
  BY WorkerSteps DEF EngineBasic
<1>1. CASE phase # "exposed"
  BY <1>0, <1>1, ThreadSound DEF BlossomsLegal
<1>2. CASE phase = "exposed"
  <2>1. /\ adj' = adj /\ M' = M /\ belongs' = belongs /\ select_tree' = select_tree
        /\ select_match' = select_match /\ lap' = lap /\ path_collection' = path_collection
    BY <1>0, <1>2 DEF FindExposed, forestVars, flagVars
  <2>2. GraphKept /\ FlagsFresh /\ LapsInTrees
    BY DEF Sound
  <2>3. GraphKept' /\ FlagsFresh'
    BY <1>0, <2>1, <2>2 DEF GraphKept, FlagsFresh
  <2>4. LapsInTrees'
    <3>1. \A u \in Thread : lap[u] = <<>> /\ \A l \in Range(lap[u]) : belongs[l[1]] # NoNode
      BY <1>2, <2>2 DEF LapsInTrees
    <3>2. QED  BY <2>1, <3>1 DEF LapsInTrees
  <2>5. phase' \notin SearchPhases /\ phase' \notin {"augment", "expand", "blossom", "flip", "reuse"}
    BY <1>0, <1>2 DEF SearchPhases
  <2>6. /\ TreesSound' /\ (phase \in {"augment", "expand"} => LegalForest)' /\ Collected' /\ Pending'
        /\ SharesSound' /\ PathsSound' /\ LocksSound' /\ GrowthSound' /\ FlipSound' /\ RepairSound'
    BY <2>5 DEF TreesSound, Collected, Pending, SharesSound, PathsSound, LocksSound, GrowthSound,
                FlipSound, RepairSound
  <2>7. Sound'
    BY <2>3, <2>4, <2>6 DEF Sound
  <2>8. QED  BY <1>2, <2>7 DEF SearchPhases
<1>3. QED  BY <1>1, <1>2

\* Every step keeps Sound, and the entries of the even nodes during a search.
LEMMA SoundKept ==
  ASSUME EngineBasic, EngineBasic', Sound, BlossomsLegal, [Next]_vars
  PROVE  Sound' /\ [(phase \in SearchPhases) => KeepsEntries]_searchVars
<1>1. CASE UNCHANGED vars
  <2>1. UNCHANGED searchVars
    BY <1>1 DEF vars
  <2>2. Sound'
    BY <2>1, SameSound
  <2>3. QED  BY <2>1, <2>2
<1>2. CASE \E t \in Thread : Worker(t)
  BY <1>2, WorkerSound
<1>3. CASE Driver
  <2>1. Sound'
    BY <1>3, DriverSound
  <2>2. phase \in SearchPhases => forestVars' = forestVars
    BY <1>3 DEF Driver, JoinExposed, ReuseAll, JoinReuse, JoinAugment, JoinExpand, SkipBlossom,
                JoinBlossom, JoinFlip, SearchPhases
  <2>3. phase \in SearchPhases => KeepsEntries
    BY <2>2 DEF forestVars, KeepsEntries
  <2>4. QED  BY <2>1, <2>3
<1>4. CASE Finished
  BY <1>1, <1>4 DEF Finished
<1>5. QED  BY <1>1, <1>2, <1>3, <1>4 DEF Next

\* It holds at the start, wherever the engine starts a search.
LEMMA SoundInitially == Init => Sound
BY FirstPhases, InitSound DEF Init

\* Every step of the engine is a step of the abstract one, or none.
LEMMA GrowthStep ==
  ASSUME EngineBasic, Sound, [Next]_vars
  PROVE  [Growth!Grow]_<<adj, Outcome>>
<1>0. Basic /\ FlagsFresh
  BY DEF EngineBasic, Sound
<1>1. CASE UNCHANGED vars
  BY <1>1 DEF vars, searchVars, forestVars, Outcome
<1>2. ASSUME NEW t \in Thread, Worker(t)
      PROVE  OutcomeGrows
  <2>1. CASE phase # "exposed"
    BY <1>0, <1>2, <2>1, WorkerSteps, ThreadOutcome
  <2>2. CASE phase = "exposed"
    <3>1. adj' = adj /\ M' = M /\ phase' = phase
      BY <1>2, <2>2, WorkerSteps DEF FindExposed, forestVars
    <3>2. QED  BY <2>2, <3>1, QuietOutcome
  <2>3. QED  BY <2>1, <2>2
<1>3. CASE JoinExposed \/ ReuseAll \/ JoinReuse \/ JoinExpand \/ SkipBlossom \/ JoinBlossom
  <2>1. adj' = adj /\ M' = M /\ phase # "flip" /\ phase' # "flip"
    BY <1>3 DEF JoinExposed, ReuseAll, JoinReuse, JoinExpand, SkipBlossom, JoinBlossom,
                AugmentOrEnd, Augmenting, forestVars
  <2>2. QED  BY <2>1, QuietOutcome, GrowthFollows
<1>4. CASE JoinAugment
  <2>1. phase = "augment" /\ Joined /\ adj' = adj /\ M' = M /\ path_collection' = path_collection
    BY <1>4 DEF JoinAugment, forestVars
  <2>2. CASE path_collection = <<>>
    <3>1. phase' = "expand"
      BY <1>4, <2>2 DEF JoinAugment
    <3>2. QED  BY <2>1, <3>1, QuietOutcome, GrowthFollows
  <2>3. CASE path_collection # <<>>
    <3>1. phase' = "flip"
      BY <1>4, <2>3 DEF JoinAugment, StartFlip
    <3>2. QED  BY <1>0, <2>1, <2>3, <3>1, StartOutcome, GrowthFollows
  <2>4. QED  BY <2>2, <2>3
<1>5. CASE JoinFlip(engine.first)
  <2>1. phase' # "flip"
    BY <1>5, FirstPhases DEF JoinFlip, EngineBasic, EngineFacts
  <2>2. phase = "flip" /\ Joined /\ adj' = adj /\ M' = M
    BY <1>5 DEF JoinFlip, forestVars
  <2>3. QED  BY <1>0, <2>1, <2>2, EndOutcome, GrowthFollows
<1>6. QED  BY <1>1, <1>2, <1>3, <1>4, <1>5, GrowthFollows DEF Next, Driver, Finished

\* Every step keeps the sides of a bipartite graph.
LEMMA BipartiteKept ==
  ASSUME EngineBasic, Sound, Bipartite, [Next]_vars
  PROVE  Bipartite'
<1>0. Basic /\ TypeOK
  BY DEF EngineBasic, Basic
<1>1. CASE UNCHANGED vars
  <2>1. UNCHANGED searchVars
    BY <1>1 DEF vars
  <2>2. QED  BY <2>1, SameBipartite
<1>2. ASSUME NEW t \in Thread, Worker(t)
      PROVE  Bipartite'
  <2>1. CASE phase # "exposed"
    BY <1>0, <1>2, <2>1, WorkerSteps, ThreadBipartite
  <2>2. CASE phase = "exposed"
    <3>1. forestVars' = forestVars /\ phase' = "exposed"
      BY <1>2, <2>2, WorkerSteps DEF FindExposed
    <3>2. QED  BY <3>1, QuietBipartite DEF forestVars
  <2>3. QED  BY <2>1, <2>2
<1>3. CASE JoinReuse \/ JoinAugment \/ SkipBlossom \/ JoinBlossom \/ JoinFlip(engine.first)
  <2>1. forestVars' = forestVars
    BY <1>3 DEF JoinReuse, JoinAugment, SkipBlossom, JoinBlossom, JoinFlip
  <2>2. phase' # "blossom"
    BY <1>3, FirstPhases DEF JoinReuse, JoinAugment, SkipBlossom, JoinBlossom, JoinFlip, StartFlip,
       AugmentOrEnd, Augmenting, EngineBasic, EngineFacts
  <2>3. QED  BY <2>1, <2>2, QuietBipartite DEF forestVars
<1>4. CASE JoinExpand
  <2>1. phase = "expand" /\ forestVars' = forestVars /\ Spawn(Strides(Frontier, Inward))
    BY <1>4 DEF JoinExpand
  <2>2. QED  BY <2>1, EnterBipartite
<1>5. CASE JoinExposed
  <2>1. /\ phase = "exposed" /\ Joined /\ FreshForest /\ phase' = "augment" /\ adj' = adj
    BY <1>5 DEF JoinExposed, Augmenting
  <2>2. /\ \A x \in Node : M[x] = NoNode => is_even'[x] = 1 /\ belongs'[x] = x
        /\ \A x \in Node : M[x] # NoNode => belongs'[x] = NoNode
    BY <1>0, <2>1, FreshFacts DEF EngineBasic
  <2>3. QED  BY <2>1, <2>2, ResetBipartite
<1>6. CASE ReuseAll
  <2>1. Repair(Node) /\ phase' = "augment" /\ adj' = adj
    BY <1>6 DEF ReuseAll, Augmenting
  <2>2. \A x \in Node : \/ is_even'[x] = is_even[x] /\ belongs'[x] = belongs[x]
                        \/ is_even'[x] = 1 /\ belongs'[x] = x
                        \/ belongs'[x] = NoNode
    BY <1>0, <2>1, RepairFacts
  <2>3. QED  BY <2>1, <2>2, ResetBipartite
<1>7. QED  BY <1>1, <1>2, <1>3, <1>4, <1>5, <1>6 DEF Next, Driver, Finished

-----------------------------------------------------------------------------
\* While no blossom breaks a walk, Sound holds in every state.
THEOREM SoundInvariance == Spec /\ []BlossomsLegal => []Sound
<1>1. EngineBasic /\ EngineBasic' /\ Sound /\ BlossomsLegal /\ [Next]_vars => Sound'
  BY SoundKept
<1>2. QED  BY <1>1, SoundInitially, BasicInvariance, PTL DEF Spec

\* The engine without a blossom phase has no blossom to break a walk.
THEOREM LegalWithoutBlossoms == Spec /\ engine.cycle = "none" => []BlossomsLegal
<1>1. engine.cycle = "none" /\ [Next]_vars => (engine.cycle = "none")'
  BY DEF Next, Worker, Driver, Finished, vars
<1>2. EngineBasic /\ engine.cycle = "none" => BlossomsLegal
  BY DEF EngineBasic, EngineFacts, BlossomsLegal
<1>3. QED  BY <1>1, <1>2, BasicInvariance, PTL DEF Spec

\* On a bipartite graph no thread finds a blossom, so nothing is assumed.
THEOREM BipartiteInvariance == Spec /\ IsBipartite(adj) => [](Sound /\ Bipartite)
<1>1. Init /\ IsBipartite(adj) => Bipartite
  <2>1. SUFFICES ASSUME Init, IsBipartite(adj)
                 PROVE  Bipartite
    OBVIOUS
  <2>2. /\ phase = engine.first /\ engine.first \in {"exposed", "reuse"}
        /\ belongs = [v \in Node |-> NoNode]
    BY <2>1, FirstPhases DEF Init, DriverInit
  <2>3. adj \in [Node -> Seq(Node)]
    BY <2>1, BasicInitially DEF EngineBasic, Basic, TypeOK, ForestTypeOK
  <2>4. QED  BY <2>1, <2>2, <2>3, BipartiteInitially
<1>2. Bipartite => BlossomsLegal
  BY DEF Bipartite, NoBlossom, BlossomsLegal
<1>3. EngineBasic /\ EngineBasic' /\ Sound /\ Bipartite /\ [Next]_vars => Sound' /\ Bipartite'
  <2>1. SUFFICES ASSUME EngineBasic, EngineBasic', Sound, Bipartite, [Next]_vars
                 PROVE  Sound' /\ Bipartite'
    OBVIOUS
  <2>2. BlossomsLegal
    BY <1>2, <2>1
  <2>3. Sound'
    BY <2>1, <2>2, SoundKept
  <2>4. QED  BY <2>1, <2>3, BipartiteKept
<1>4. QED
  BY <1>1, <1>2, <1>3, SoundInitially, BasicInvariance, PTL DEF Spec

\* So every walk stays legal.
THEOREM LegalOnBipartite == Spec /\ IsBipartite(adj) => []BlossomsLegal
<1>1. Sound /\ Bipartite => BlossomsLegal
  BY DEF Bipartite, NoBlossom, BlossomsLegal
<1>2. QED  BY <1>1, BipartiteInvariance, PTL

\* The walks of all even nodes are legal in every phase of a search, no node
\* is on two found paths, no tree lock leaks, the trees stay closed under the
\* matching, and the frontier holds even nodes of trees, each once.
SearchSafe ==
  ForestStaysLegal /\ PathsDisjoint /\ LocksAccounted /\ TreesClosed /\ FrontierSound

\* What Sound says of a search.
LEMMA SoundIsSafe == EngineBasic /\ Sound /\ BlossomsLegal => SearchSafe
<1> SUFFICES ASSUME EngineBasic, Sound, BlossomsLegal
             PROVE  SearchSafe
  OBVIOUS
<1>0. Basic
  BY DEF EngineBasic
<1>1. TreesClosed /\ FrontierSound /\ (phase # "blossom" => ForestStaysLegal)
  BY <1>0, SoundForest
<1>2. phase = "blossom" => ForestStaysLegal
  BY DEF BlossomsLegal, ForestStaysLegal
<1>3. PathsDisjoint /\ LocksAccounted
  BY <1>0, SoundPaths, SoundLocks
<1>4. QED  BY <1>1, <1>2, <1>3 DEF SearchSafe

\* While no blossom breaks a walk, every search is safe.
THEOREM SearchesSafe ==
  Spec /\ []BlossomsLegal =>
    [](ForestStaysLegal /\ PathsDisjoint /\ LocksAccounted /\ TreesClosed /\ FrontierSound)
<1>1. EngineBasic /\ Sound /\ BlossomsLegal => SearchSafe
  BY SoundIsSafe
<1>2. QED  BY <1>1, BasicInvariance, SoundInvariance, PTL DEF SearchSafe

\* An even node keeps its tree and its entry until the search ends.
THEOREM EntriesFrozen == Spec /\ []BlossomsLegal => EvenEntriesFrozen
<1>1. EngineBasic /\ EngineBasic' /\ Sound /\ BlossomsLegal /\ [Next]_vars =>
        [(phase \in SearchPhases) => KeepsEntries]_searchVars
  BY SoundKept
<1>2. QED  BY <1>1, BasicInvariance, SoundInvariance, PTL DEF Spec, EvenEntriesFrozen

\* The engines implement MatchingGrowth.
THEOREM MatchingGrows == Spec /\ []BlossomsLegal => GrowsMatching
<1>1. Init => Growth!Init
  BY FirstPhases, InitOutcome, GrowthFollows DEF Init
<1>2. EngineBasic /\ Sound /\ [Next]_vars => [Growth!Grow]_<<adj, Outcome>>
  BY GrowthStep
<1>3. QED
  BY <1>1, <1>2, BasicInvariance, SoundInvariance, PTL DEF Spec, GrowsMatching, Growth!Spec, Outcome

-----------------------------------------------------------------------------
(***************************************************************************)
(* No edge is lost between nodes_vector, vector_1 and vector_2: no share   *)
(* is untaken while the threads run, so what they keep is Covered({}).     *)
(***************************************************************************)
\* With reuse the frontier of augmentation is what the two vectors hold.
FrontierKept == phase = "augment" /\ engine.first = "reuse" => nodes_vector = Frontier

NothingLost == Covered({}) /\ Idle /\ FrontierKept

\* The strides leave no live edge of the frontier out.
LEMMA StridesCover ==
  ASSUME adj \in [Node -> Seq(Node)], NEW f \in Seq(Node), NEW live,
         NEW v \in Range(f), NEW w \in Range(adj[v]), <<v, w>> \in live
  PROVE  \E t \in Thread : <<v, w>> \in Range(Strides(f, live)[t])
<1>1. PICK i \in 1 .. Len(f) : f[i] = v
  BY LenProperties DEF Range
<1>2. Len(f) \in Nat /\ DOMAIN f = 1 .. Len(f) /\ v \in Node /\ \A k \in 1 .. Len(f) : f[k] \in Node
  BY <1>1, LenProperties, ElementOfSeq
<1> DEFINE t == (i - 1) % NumThreads
           S == Node \X Node
           ss == [k \in DOMAIN f |-> IF (k - 1) % NumThreads = t THEN Row(adj, f[k]) ELSE <<>>]
<1>3. t \in Thread
  <2>1. i - 1 \in Int /\ NumThreads \in Nat /\ NumThreads > 0
    BY <1>1, <1>2, ThreadAssumption
  <2>2. QED  BY <2>1 DEF Thread
<1>4. \A k \in 1 .. Len(f) : ss[k] \in Seq(S)
  <2> HIDE DEF S
  <2>1. <<>> \in Seq(S)
    OBVIOUS
  <2>2. \A k \in 1 .. Len(f) : Row(adj, f[k]) \in Seq(S)
    BY <1>2, RowFacts DEF S
  <2>3. QED  BY <1>2, <2>1, <2>2
<1>5. ss[i] = Row(adj, v)
  BY <1>1, <1>2
<1>6. ss \in Seq(Seq(S))
  <2> DEFINE W == Seq(S)
  <2>1. ss \in [1 .. Len(f) -> W]
    BY <1>2, <1>4
  <2> DEFINE n == Len(f)
  <2>2. ss \in [1 .. n -> W] /\ n \in Nat
    BY <1>2, <2>1
  <2> HIDE DEF W, ss, n
  <2>3. ss \in Seq(W)
    BY <2>2, SeqDef
  <2>4. QED  BY <2>3 DEF W
<1>7. Stride(f, t) = FlattenSeq(ss)
  BY DEF Stride
<1>8. Len(ss) = Len(f)
  <2>1. DOMAIN ss = 1 .. Len(f)
    BY <1>2
  <2> HIDE DEF ss, S
  <2>2. QED  BY <1>2, <1>6, <2>1, LenProperties
<1> HIDE DEF ss, t, S
<1>9. <<v, w>> \in Range(Row(adj, v))
  BY <1>2, RowHolds
<1>10. <<v, w>> \in Range(FlattenSeq(ss)) /\ FlattenSeq(ss) \in Seq(S)
  BY <1>1, <1>5, <1>6, <1>8, <1>9, FlattenFacts
<1>11. <<v, w>> \in Range(Among(FlattenSeq(ss), live))
  BY <1>10, AmongFacts
<1>12. Strides(f, live)[t] = Among(FlattenSeq(ss), live)
  BY <1>3, <1>7 DEF Strides
<1>13. QED  BY <1>3, <1>11, <1>12


\* Every step of a thread keeps them.
LEMMA WorkerCovered ==
  ASSUME EngineBasic, EngineBasic', Sound, BlossomsLegal, NothingLost, NEW t \in Thread, Worker(t)
  PROVE  NothingLost'
<1>0. /\ Basic /\ Basic' /\ TypeOK /\ ThreadsPlaced /\ engine' = engine /\ phase' = phase
      /\ Covered({}) /\ Idle
  BY WorkerSteps DEF EngineBasic, Basic, NothingLost
<1>1. CASE phase = "augment"
  <2>1. Augments(t)
    BY <1>1 DEF Worker, AugmentWorker, Augments
  <2>2. Covered({})' /\ Idle'
    BY <1>0, <1>1, <2>1, IdleKept, AugmentCovered
  <2>3. nodes_vector' = nodes_vector /\ Frontier' = Frontier
    BY <2>1 DEF Augments, frontierVars, Frontier
  <2>4. FrontierKept'
    BY <1>0, <1>1, <2>3 DEF FrontierKept, NothingLost
  <2>5. QED  BY <2>2, <2>4 DEF NothingLost
<1>2. CASE phase = "expand"
  <2>1. Expands(t)
    BY <1>2 DEF Worker, ExpandWorker, Expands
  <2>2. QED  BY <1>0, <1>2, <2>1, IdleKept, ExpandCovered DEF NothingLost, FrontierKept
<1>3. CASE phase = "blossom"
  <2>1. Shrinks(t)
    BY <1>3 DEF Worker, BlossomWorker, Shrinks
  <2>2. QED  BY <1>0, <1>3, <2>1, IdleKept, ShrinkCovered DEF BlossomsLegal, NothingLost, FrontierKept
<1>4. CASE phase = "reuse"
  <2>1. Reuse(t)
    BY <1>4 DEF Worker
  <2>2. Covered({})'
    BY <1>0, <1>4, <2>1, ReuseCovered
  <2>3. QED  BY <1>0, <1>4, <2>2 DEF Idle, SearchPhases, NothingLost, FrontierKept
<1>5. CASE phase \in {"exposed", "flip"}
  BY <1>0, <1>5 DEF Covered, Idle, SearchPhases, NothingLost, FrontierKept
<1>6. CASE phase = "finished"
  BY <1>6 DEF Worker
<1>7. phase \in SearchPhases \cup {"exposed", "reuse", "flip", "finished"}
  BY <1>0 DEF TypeOK
<1>8. QED  BY <1>1, <1>2, <1>3, <1>4, <1>5, <1>6, <1>7 DEF SearchPhases

\* A search or a round of it starts with the threads' strides of its frontier.
LEMMA AugmentingCovered ==
  ASSUME EngineBasic, Sound', NEW f \in Seq(Node), Augmenting(f), adj' = adj,
         \A v, w \in Node : Waiting(v, w)' => v \in Range(f),
         NumThreads = 1 => \A v, w \in Node : Bridging(v, w)' => v \in Range(f) \/ w \in Range(f),
         engine' = engine, engine.first = "reuse" => f = Frontier'
  PROVE  NothingLost'
<1>1. phase' = "augment" /\ nodes_vector' = f /\ Spawn(Strides(f, Bridges'))
  BY DEF Augmenting
<1> DEFINE work == Strides(f, Bridges')
<1>2. Spawn(work)
  BY <1>1
<1>3. ASSUME NEW v \in Node, NEW w \in Node, v \in Range(f), Bridging(v, w)'
      PROVE  \E t \in Thread : <<v, w>> \in Range(work[t])
  <2>1. w \in Range(adj[v]) /\ <<v, w>> \in Bridges'
    BY <1>3 DEF Bridging, Bridges
  <2>2. adj \in [Node -> Seq(Node)]
    BY DEF EngineBasic, Basic, TypeOK, ForestTypeOK
  <2>3. QED  BY <1>3, <2>1, <2>2, StridesCover
<1> HIDE DEF work
<1>4. todo' = work /\ Idle' /\ \A t \in Thread : pc'[t] \in {"fetch", "scan"}
  BY <1>2, SpawnIdle DEF Spawn
<1>5. \A v, w \in Node : v \in Range(f) /\ Bridging(v, w)' => Ahead(v, w, {})'
  BY <1>3, <1>4 DEF Ahead
<1>6. Covered({})'
  BY <1>1, <1>4, <1>5, EnterAugment
<1>7. FrontierKept'
  BY <1>1 DEF FrontierKept
<1>8. QED  BY <1>4, <1>6, <1>7 DEF NothingLost

\* After a round without a path: go on, or stop with nothing left.
LEMMA RoundCovered ==
  ASSUME EngineBasic, Sound', NothingLost, Joined, NEW f \in Seq(Node), AugmentOrEnd(f),
         UNCHANGED forestVars, engine' = engine, f = Frontier',
         \/ phase = "expand" /\ Range(f) = Range(vector_1)
         \/ phase = "blossom" /\ Range(f) = Handed
  PROVE  NothingLost'
<1>0. Covered({}) /\ Idle
  BY DEF NothingLost
<1>1. /\ adj' = adj
      /\ \A v, w \in Node : (Waiting(v, w)' <=> Waiting(v, w)) /\ (Bridging(v, w)' <=> Bridging(v, w))
  BY DEF forestVars, Waiting, Bridging, EvenNode, IsBridge
<1>2. \A v, w \in Node :
        /\ Waiting(v, w) => v \in Range(f)
        /\ NumThreads = 1 /\ Bridging(v, w) => v \in Range(f) \/ w \in Range(f)
  BY <1>0, JoinedCovered
<1>3. CASE f = <<>>
  <2>1. phase' = "finished" /\ Range(f) = {}
    BY <1>3 DEF AugmentOrEnd, Range
  <2>2. (phase = "expand" /\ Range(vector_1) = {}) \/ (phase = "blossom" /\ Handed = {})
    BY <2>1
  <2>3. Covered({})' /\ Idle'
    BY <1>0, <2>1, <2>2, StopCovered
  <2>4. QED  BY <2>1, <2>3 DEF NothingLost, FrontierKept
<1>4. CASE f # <<>>
  BY <1>1, <1>2, <1>4, AugmentingCovered DEF AugmentOrEnd
<1>5. QED  BY <1>3, <1>4

\* The driver's steps keep them.
LEMMA DriverCovered ==
  ASSUME EngineBasic, Sound, Sound', NothingLost, Driver
  PROVE  NothingLost'
<1>0. /\ Basic /\ TypeOK /\ EngineFacts /\ ExposedSound /\ engine' = engine
      /\ adj \in [Node -> Seq(Node)] /\ vector_1 \in Seq(Node) /\ vector_2 \in Seq(Node)
      /\ nodes_vector \in Seq(Node) /\ engine.first \in {"exposed", "reuse"}
      /\ Covered({}) /\ Idle
  BY FirstPhases DEF EngineBasic, EngineFacts, Basic, TypeOK, ForestTypeOK, Driver, NothingLost
<1>1. Frontier \in Seq(Node) /\ Range(Frontier) = Handed
  BY <1>0, ConcatRange DEF Frontier, Handed
<1>2. CASE JoinExposed
  <2>1. /\ phase = "exposed" /\ Joined /\ FreshForest /\ Augmenting(nodes_vector) /\ adj' = adj
    BY <1>2 DEF JoinExposed
  <2>2. \A x \in Node : EvenNode(x)' => M[x] = NoNode
    BY <1>0, <2>1, FreshFacts DEF EvenNode
  <2>3. \A x \in Node : M[x] = NoNode => x \in Range(nodes_vector)
    BY <1>0, <2>1, ExposedFound
  <2>4. \A v, w \in Node : Waiting(v, w)' \/ Bridging(v, w)' => v \in Range(nodes_vector)
    BY <2>2, <2>3 DEF Waiting, Bridging
  <2>5. engine.first = "exposed"
    BY <1>0, <2>1 DEF EngineFacts
  <2>6. QED  BY <1>0, <2>1, <2>4, <2>5, AugmentingCovered
<1>3. CASE ReuseAll
  <2>1. phase = "reuse" /\ Repair(Node) /\ Augmenting(Frontier') /\ adj' = adj
    BY <1>3 DEF ReuseAll
  <2>2. \A x \in Node : EvenNode(x)' => x \in Handed'
    <3>1. Node \subseteq Node
      OBVIOUS
    <3>2. QED  BY <1>0, <2>1, <3>1, RepairHands
  <2>3. PICK f : f = Frontier'
    OBVIOUS
  <2>4. vector_1' \in Seq(Node) /\ vector_2' \in Seq(Node)
    BY <1>0, <2>1, RepairFrontier
  <2>5. f \in Seq(Node) /\ Range(f) = Handed'
    BY <2>3, <2>4, ConcatRange DEF Frontier, Handed
  <2>6. \A v, w \in Node : Waiting(v, w)' \/ Bridging(v, w)' => v \in Range(f)
    BY <2>2, <2>5 DEF Waiting, Bridging
  <2>7. Augmenting(f)
    BY <2>1, <2>3 DEF Augmenting
  <2>8. QED  BY <1>0, <2>1, <2>3, <2>5, <2>6, <2>7, AugmentingCovered
<1>4. CASE JoinReuse
  <2>1. /\ phase = "reuse" /\ Joined /\ Augmenting(Frontier) /\ adj' = adj
        /\ is_even' = is_even /\ belongs' = belongs /\ vector_1' = vector_1 /\ vector_2' = vector_2
    BY <1>4 DEF JoinReuse, forestVars
  <2>2. \A x \in Node : Repaired(x)
    BY <2>1, ModThread DEF Repaired, Joined
  <2>3. \A x \in Node : EvenNode(x)' => x \in Range(Frontier)
    BY <1>0, <1>1, <2>1, <2>2 DEF Covered, EvenNode
  <2>4. \A v, w \in Node : Waiting(v, w)' \/ Bridging(v, w)' => v \in Range(Frontier)
    BY <2>3 DEF Waiting, Bridging
  <2>5. Frontier' = Frontier
    BY <2>1 DEF Frontier
  <2>6. PICK f : f = Frontier
    OBVIOUS
  <2>7. QED  BY <1>0, <1>1, <2>1, <2>4, <2>5, <2>6, AugmentingCovered
<1>5. CASE JoinAugment
  <2>1. phase = "augment" /\ Joined /\ forestVars' = forestVars
    BY <1>5 DEF JoinAugment
  <2>2. CASE path_collection # <<>>
    <3>1. phase' = "flip"
      BY <1>5, <2>2 DEF JoinAugment, StartFlip
    <3>2. QED  BY <3>1 DEF Covered, Idle, SearchPhases, NothingLost, FrontierKept
  <2>3. CASE path_collection = <<>>
    <3>1. phase' = "expand" /\ Spawn(Strides(Unused, Outward))
      BY <1>5, <2>3 DEF JoinAugment
    <3>2. Unused = nodes_vector
      BY <2>1 DEF Unused, NothingLost, FrontierKept
    <3> DEFINE work == Strides(nodes_vector, Outward)
    <3>3. Spawn(work)
      BY <3>1, <3>2
    <3>4. ASSUME NEW v \in Node, NEW w \in Node, v \in Range(nodes_vector), Waiting(v, w)
          PROVE  \E t \in Thread : <<v, w>> \in Range(work[t])
      <4>1. w \in Range(adj[v]) /\ <<v, w>> \in Outward
        BY <3>4 DEF Outward, NoTreeYet, Waiting
      <4>2. QED  BY <1>0, <3>4, <4>1, StridesCover
    <3> HIDE DEF work
    <3>5. todo' = work /\ Idle'
      BY <3>3, SpawnIdle DEF Spawn
    <3>6. \A v, w \in Node : v \in Range(nodes_vector) /\ Waiting(v, w) => Ahead(v, w, {})'
      BY <3>4, <3>5 DEF Ahead
    <3>7. Covered({})'
      BY <1>0, <2>1, <2>3, <3>1, <3>6, EnterExpand
    <3>8. QED  BY <3>1, <3>5, <3>7 DEF NothingLost, FrontierKept
  <2>4. QED  BY <2>2, <2>3
<1>6. CASE JoinExpand
  <2>1. /\ phase = "expand" /\ Joined /\ forestVars' = forestVars /\ phase' = "blossom"
        /\ vector_1' = vector_1 /\ Spawn(Strides(Frontier, Inward))
    BY <1>6 DEF JoinExpand
  <2>2. Idle'
    <3> DEFINE work == Strides(Frontier, Inward)
    <3>1. Spawn(work)
      BY <2>1
    <3> HIDE DEF work
    <3>2. QED  BY <3>1, SpawnIdle
  <2>3. Covered({})'
    BY <1>0, <2>1, EnterBlossom
  <2>4. QED  BY <2>1, <2>2, <2>3 DEF NothingLost, FrontierKept
<1>7. CASE SkipBlossom
  <2>1. /\ phase = "expand" /\ Joined /\ vector_2' = <<>> /\ vector_1' = vector_1
        /\ UNCHANGED forestVars /\ AugmentOrEnd(vector_1)
    BY <1>7 DEF SkipBlossom
  <2>2. vector_1 = Frontier'
    BY <1>0, <2>1, ConcatProperties DEF Frontier
  <2>3. QED  BY <1>0, <2>1, <2>2, RoundCovered
<1>8. CASE JoinBlossom
  <2>1. /\ phase = "blossom" /\ Joined /\ vector_2' = vector_2 /\ vector_1' = vector_1
        /\ UNCHANGED forestVars /\ AugmentOrEnd(Frontier)
    BY <1>8 DEF JoinBlossom
  <2>2. Frontier = Frontier'
    BY <2>1 DEF Frontier
  <2>3. PICK f : f = Frontier
    OBVIOUS
  <2>4. QED  BY <1>0, <1>1, <2>1, <2>2, <2>3, RoundCovered
<1>9. CASE JoinFlip(engine.first)
  <2>1. Covered({})' /\ Idle'
    BY <1>0, <1>9, JoinFlipCovered
  <2>2. phase' # "augment"
    BY <1>0, <1>9 DEF JoinFlip
  <2>3. QED  BY <2>1, <2>2 DEF NothingLost, FrontierKept
<1>10. QED
  BY <1>2, <1>3, <1>4, <1>5, <1>6, <1>7, <1>8, <1>9 DEF Driver

\* They hold at the start.
LEMMA CoveredInitially == Init => NothingLost
<1> SUFFICES ASSUME Init
             PROVE  NothingLost
  OBVIOUS
<1>1. engine.first \in {"exposed", "reuse"} /\ DriverInit(engine.first)
  BY FirstPhases DEF Init
<1>2. Covered({}) /\ Idle /\ phase = engine.first
  BY <1>1, InitCovered DEF DriverInit
<1>3. QED  BY <1>1, <1>2 DEF NothingLost, FrontierKept

\* Every step keeps them.
LEMMA CoveredKept ==
  ASSUME EngineBasic, EngineBasic', Sound, Sound', BlossomsLegal, NothingLost, [Next]_vars
  PROVE  NothingLost'
<1>1. CASE UNCHANGED vars
  <2>1. UNCHANGED searchVars /\ engine' = engine
    BY <1>1 DEF vars
  <2>2. Covered({})' /\ Idle'
    BY <2>1, SameCovered DEF NothingLost
  <2>3. FrontierKept'
    BY <2>1 DEF FrontierKept, NothingLost, searchVars, frontierVars, Frontier
  <2>4. QED  BY <2>2, <2>3 DEF NothingLost
<1>2. CASE \E t \in Thread : Worker(t)
  BY <1>2, WorkerCovered
<1>3. CASE Driver
  BY <1>3, DriverCovered
<1>4. CASE Finished
  BY <1>1, <1>4 DEF Finished
<1>5. QED  BY <1>1, <1>2, <1>3, <1>4 DEF Next

\* As long as every walk is legal, they hold in every state.
THEOREM CoveredInvariance == Spec /\ []BlossomsLegal => []NothingLost
<1>1. EngineBasic /\ EngineBasic' /\ Sound /\ Sound' /\ BlossomsLegal /\ NothingLost /\ [Next]_vars
        => NothingLost'
  BY CoveredKept
<1>2. QED
  BY <1>1, CoveredInitially, BasicInvariance, SoundInvariance, PTL DEF Spec

\* A search that ends without a path has looked at every edge out of its
\* trees, as long as every walk is legal.
THEOREM NothingLeft == Spec /\ []BlossomsLegal => []NoEdgeLeft
<1>1. EngineBasic /\ NothingLost => NoEdgeLeft
  BY CoveredNoEdgeLeft DEF EngineBasic, NothingLost
<1>2. QED
  BY <1>1, BasicInvariance, CoveredInvariance, PTL

-----------------------------------------------------------------------------
\* One thread on a bipartite graph stops only with a maximum matching, or with
\* one that is large enough.
LEMMA MaximumKept ==
  ASSUME EngineBasic, Sound, Sound', NothingLost, Bipartite, NumThreads = 1,
         FinishedMaximum, [Next]_vars
  PROVE  FinishedMaximum'
<1>0. /\ Basic /\ TypeOK /\ EngineFacts /\ engine.first \in {"exposed", "reuse"}
      /\ Covered({}) /\ Idle /\ vector_1 \in Seq(Node) /\ vector_2 \in Seq(Node)
  BY FirstPhases DEF EngineBasic, EngineFacts, Basic, TypeOK, NothingLost
<1>1. CASE UNCHANGED vars
  BY <1>1 DEF vars, searchVars, forestVars, FinishedMaximum, IsMaximumMatching, IsMatching,
              Matched, IsAdjacent
<1>2. ASSUME NEW t \in Thread, Worker(t)
      PROVE  FinishedMaximum'
  <2>1. phase' = phase /\ phase # "finished"
    BY <1>2, WorkerSteps DEF Worker
  <2>2. QED  BY <2>1 DEF FinishedMaximum
<1>3. CASE JoinExposed \/ ReuseAll \/ JoinReuse \/ JoinAugment \/ JoinExpand
  <2>1. phase' # "finished"
    BY <1>3 DEF JoinExposed, ReuseAll, JoinReuse, JoinAugment, JoinExpand, Augmenting, StartFlip
  <2>2. QED  BY <2>1 DEF FinishedMaximum
<1>4. CASE SkipBlossom
  <2>1. phase = "expand" /\ Joined /\ forestVars' = forestVars /\ AugmentOrEnd(vector_1)
    BY <1>4 DEF SkipBlossom
  <2>2. CASE vector_1 = <<>>
    <3>1. phase' = "finished" /\ Range(vector_1) = {}
      BY <2>1, <2>2 DEF AugmentOrEnd, Range
    <3>2. QED  BY <1>0, <2>1, <3>1, StopMaximum
  <2>3. CASE vector_1 # <<>>
    BY <2>1, <2>3 DEF AugmentOrEnd, Augmenting, FinishedMaximum
  <2>4. QED  BY <2>2, <2>3
<1>5. CASE JoinBlossom
  <2>1. phase = "blossom" /\ Joined /\ forestVars' = forestVars /\ AugmentOrEnd(Frontier)
    BY <1>5 DEF JoinBlossom
  <2>2. CASE Frontier = <<>>
    <3>1. phase' = "finished" /\ Range(Frontier) = {}
      BY <2>1, <2>2 DEF AugmentOrEnd, Range
    <3>2. Handed = {}
      BY <1>0, <3>1, ConcatRange DEF Frontier, Handed
    <3>3. QED  BY <1>0, <2>1, <3>1, <3>2, StopMaximum
  <2>3. CASE Frontier # <<>>
    BY <2>1, <2>3 DEF AugmentOrEnd, Augmenting, FinishedMaximum
  <2>4. QED  BY <2>2, <2>3
<1>6. CASE JoinFlip(engine.first)
  BY <1>0, <1>6, JoinFlipMaximum
<1>7. QED  BY <1>1, <1>2, <1>3, <1>4, <1>5, <1>6 DEF Next, Driver, Finished

\* Any of the five engines, with one thread, on any bipartite graph.
THEOREM MaximumOnBipartite ==
  ASSUME NumThreads = 1
  PROVE  Spec /\ IsBipartite(adj) => []FinishedMaximum
<1>1. Init => FinishedMaximum
  <2>1. SUFFICES ASSUME Init
                 PROVE  phase # "finished"
    BY DEF FinishedMaximum
  <2>2. engine.first \in {"exposed", "reuse"} /\ phase = engine.first
    BY <2>1, FirstPhases DEF Init, DriverInit
  <2>3. QED  BY <2>2
<1>2. EngineBasic /\ Sound /\ Sound' /\ NothingLost /\ Bipartite /\ FinishedMaximum /\ [Next]_vars
        => FinishedMaximum'
  BY MaximumKept
<1>3. QED
  BY <1>1, <1>2, BasicInvariance, BipartiteInvariance, LegalOnBipartite, CoveredInvariance, PTL
     DEF Spec

\* With a blossom phase nothing is said of the other graphs here; without one
\* nothing is lost but the odd cycles.
THEOREM MaximumWithoutBlossoms ==
  ASSUME NumThreads = 1
  PROVE  Spec /\ engine.cycle = "none" => []MaximumForEngine
<1>1. IsBipartite(adj) \/ ~IsBipartite(adj)
  OBVIOUS
<1>2. EngineBasic /\ Sound /\ ~IsBipartite(adj) /\ engine.cycle = "none" /\ [Next]_vars
        => (~IsBipartite(adj) /\ engine.cycle = "none")'
  <2>1. SUFFICES ASSUME EngineBasic, Sound, [Next]_vars
                 PROVE  adj' = adj /\ engine' = engine
    BY DEF IsBipartite
  <2>2. adj' = adj
    BY <2>1, GrowthStep DEF Growth!Grow
  <2>3. engine' = engine
    BY <2>1 DEF Next, Worker, Driver, Finished, vars
  <2>4. QED  BY <2>2, <2>3
<1>3. ~IsBipartite(adj) /\ engine.cycle = "none" => MaximumForEngine
  BY DEF MaximumForEngine
<1>4. Spec /\ ~IsBipartite(adj) /\ engine.cycle = "none" => []MaximumForEngine
  BY <1>2, <1>3, LegalWithoutBlossoms, BasicInvariance, SoundInvariance, PTL DEF Spec
<1>5. FinishedMaximum => MaximumForEngine
  BY DEF MaximumForEngine
<1>6. Spec /\ IsBipartite(adj) => []FinishedMaximum
  BY MaximumOnBipartite
<1>7. QED  BY <1>1, <1>4, <1>5, <1>6, PTL

\* Without a blossom phase nothing is assumed: any graph, any number of threads.
THEOREM SafeWithoutBlossoms ==
  Spec /\ engine.cycle = "none" =>
    []SearchSafe /\ []NoEdgeLeft /\ EvenEntriesFrozen /\ GrowsMatching
BY LegalWithoutBlossoms, SearchesSafe, NothingLeft, EntriesFrozen, MatchingGrows, PTL DEF SearchSafe

\* Nor on a bipartite graph: any of the five engines, any number of threads.
THEOREM SafeOnBipartite ==
  Spec /\ IsBipartite(adj) =>
    []SearchSafe /\ []NoEdgeLeft /\ EvenEntriesFrozen /\ GrowsMatching
BY LegalOnBipartite, SearchesSafe, NothingLeft, EntriesFrozen, MatchingGrows, PTL
   DEF SearchSafe

=============================================================================
