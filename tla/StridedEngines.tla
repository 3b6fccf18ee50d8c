--------------------------- MODULE StridedEngines ---------------------------
(***************************************************************************)
(* The CPU engines whose threads take every NumThreads-th node of the      *)
(* frontier: the baseline, its stages with one optimisation each, and the  *)
(* ablation without blossoms.                                              *)
(*                            trees of the last     how the cycle of a     *)
(*                            search are            blossom is found       *)
(*     par_200                thrown away           full walks             *)
(*     par_pro_2              repaired, driver      full walks             *)
(*     par_pro_3              thrown away           anchors                *)
(*     par_pro_all_atomic     repaired, driver      anchors                *)
(*     par_pro_pernode_nb     repaired, threads     no blossom phase       *)
(* The phases themselves are the same text in all of them and in the       *)
(* node-parallel engine.                                                   *)
(***************************************************************************)
EXTENDS AugmentBody, ExpandBody, BlossomBody

VARIABLE engine               \* which of the five runs

vars == <<searchVars, engine>>

par_200            == [first |-> "exposed", serial |-> FALSE, cycle |-> "walks"]
par_pro_2          == [first |-> "reuse",   serial |-> TRUE,  cycle |-> "walks"]
par_pro_3          == [first |-> "exposed", serial |-> FALSE, cycle |-> "anchors"]
par_pro_all_atomic == [first |-> "reuse",   serial |-> TRUE,  cycle |-> "anchors"]
par_pro_pernode_nb == [first |-> "reuse",   serial |-> FALSE, cycle |-> "none"]

Engines == {par_200, par_pro_2, par_pro_3, par_pro_all_atomic, par_pro_pernode_nb}

Init ==
  /\ engine \in Engines
  /\ DriverInit(engine.first)

\* The rows of every NumThreads-th node, without the edges that are not live.
Stride(frontier, t) ==
  FlattenSeq([i \in DOMAIN frontier |->
                IF (i - 1) % NumThreads = t THEN Row(adj, frontier[i]) ELSE <<>>])

Strides(frontier, live) ==
  [t \in Thread |-> Among(Stride(frontier, t), live)]

-----------------------------------------------------------------------------
Augmenting(frontier) ==
  /\ phase' = "augment"
  /\ nodes_vector' = frontier
  /\ Spawn(Strides(frontier, Bridges'))

JoinExposed ==
  /\ phase = "exposed" /\ Joined
  /\ FreshForest
  /\ Augmenting(nodes_vector)
  /\ UNCHANGED <<adj, M, vector_1, vector_2, flagVars, lap, path_collection>>

\* With reuse the driver repairs the forest itself, node by node.
ReuseAll ==
  /\ phase = "reuse" /\ engine.serial
  /\ Repair(Node)
  /\ Augmenting(Frontier')
  /\ UNCHANGED <<adj, M, flagVars, lap, path_collection>>

\* With reuse by threads.
JoinReuse ==
  /\ phase = "reuse" /\ ~engine.serial /\ Joined
  /\ UNCHANGED <<forestVars, vector_1, vector_2, flagVars, lap, path_collection>>
  /\ Augmenting(Frontier)

-----------------------------------------------------------------------------
AugmentWorker(t) ==
  /\ AugmentStep(t) \/ AugmentMerge(t, "fetch")
  /\ UNCHANGED <<forestVars, frontierVars, select_match, select_blossom, phase>>

ExpandWorker(t) ==
  /\ ExpandStep(t) \/ ExpandMerge(t, "fetch")
  /\ UNCHANGED <<adj, M, nodes_vector, vector_2, select_tree, select_blossom,
                 path_collection, phase>>

BlossomWorker(t) ==
  /\ \/ /\ \/ RoundBlossom(t)
           \/ IF engine.cycle = "walks" THEN FindCycle(t) ELSE FindBlossom(t)
           \/ FillChecked(t) \/ DropEntry(t)
        /\ UNCHANGED vector_2
     \/ BlossomMerge(t, "fetch")
  /\ UNCHANGED <<adj, M, belongs, nodes_vector, vector_1, select_tree, select_match,
                 path_collection, phase>>

Worker(t) ==
  /\ \/ phase = "exposed" /\ FindExposed(t)
     \/ phase = "reuse" /\ ~engine.serial /\ Reuse(t)
     \/ phase = "augment" /\ AugmentWorker(t)
     \/ phase = "expand" /\ ExpandWorker(t)
     \/ phase = "blossom" /\ BlossomWorker(t)
     \/ phase = "flip" /\ (FlipPair(t) \/ FlipEnds(t))
  /\ UNCHANGED engine

-----------------------------------------------------------------------------
\* With reuse the frontier is copied from the two vectors once more before
\* vector_1 is cleared; without, nodes_vector still holds it.
Unused == IF engine.first = "reuse" THEN Frontier ELSE nodes_vector

JoinAugment ==
  /\ phase = "augment" /\ Joined
  /\ UNCHANGED <<forestVars, flagVars, lap, path_collection>>
  /\ IF path_collection # <<>>
     THEN StartFlip
     ELSE /\ nodes_vector' = Unused
          /\ vector_1' = <<>>
          /\ phase' = "expand"
          /\ Spawn(Strides(Unused, Outward))
          /\ UNCHANGED vector_2

JoinExpand ==
  /\ phase = "expand" /\ Joined /\ engine.cycle # "none"
  /\ nodes_vector' = Frontier
  /\ vector_2' = <<>>
  /\ phase' = "blossom"
  /\ Spawn(Strides(Frontier, Inward))
  /\ UNCHANGED <<forestVars, vector_1, flagVars, lap, path_collection>>

AugmentOrEnd(frontier) ==
  IF frontier = <<>>
  THEN phase' = "finished" /\ nodes_vector' = <<>> /\ UNCHANGED <<pc, todo, local>>
  ELSE Augmenting(frontier)

\* The blossom phase is commented out; vector_2 is cleared all the same.
SkipBlossom ==
  /\ phase = "expand" /\ Joined /\ engine.cycle = "none"
  /\ vector_2' = <<>>
  /\ UNCHANGED <<forestVars, vector_1, flagVars, lap, path_collection>>
  /\ AugmentOrEnd(vector_1)

JoinBlossom ==
  /\ phase = "blossom" /\ Joined
  /\ UNCHANGED <<forestVars, vector_1, vector_2, flagVars, lap, path_collection>>
  /\ AugmentOrEnd(Frontier)

Driver ==
  /\ \/ JoinExposed \/ ReuseAll \/ JoinReuse
     \/ JoinAugment \/ JoinExpand \/ SkipBlossom \/ JoinBlossom
     \/ JoinFlip(engine.first)
  /\ UNCHANGED engine

\* The engine has returned to its caller.
Finished == phase = "finished" /\ UNCHANGED vars

Next == (\E t \in Thread : Worker(t)) \/ Driver \/ Finished

\* The operating system runs every thread, the driver's included.
Fairness == WF_vars(Driver) /\ \A t \in Thread : WF_vars(Worker(t))

Spec == Init /\ [][Next]_vars /\ Fairness

-----------------------------------------------------------------------------
(***************************************************************************)
(* What the ablation gives away are the odd cycles: without a blossom      *)
(* phase one thread still ends with a maximum matching of every bipartite  *)
(* graph; with one, of every graph.                                        *)
(***************************************************************************)
MaximumForEngine == (engine.cycle # "none" \/ IsBipartite(adj)) => FinishedMaximum
=============================================================================
