---------------------------- MODULE PerNodeEngine ---------------------------
(***************************************************************************)
(* The node-parallel CPU engine as a whole (run_xb_pro_pernode): the       *)
(* driver runs searches until one finds no augmenting path.  A search      *)
(* repairs the forest the last one left (reuse), then repeats the phases   *)
(* augment, expand, blossom until a path is found or no new even node is.  *)
(* Found paths are flipped.  Every phase is a set of threads, all joined   *)
(* before the driver goes on.                                              *)
(***************************************************************************)
EXTENDS AugmentBody, ExpandBody, BlossomBody, NodeWorkers

vars == <<searchVars, next_node>>

Init == DriverInit("reuse") /\ next_node = 0

-----------------------------------------------------------------------------
\* parAugmentingPath_pro_all
AugmentWorker(t) ==
  /\ \/ /\ TakeChunk(t, Bridges) \/ LeaveLoop(t)
        /\ UNCHANGED <<select_tree, path_collection>>
     \/ (AugmentStep(t) \/ AugmentMerge(t, "merge")) /\ UNCHANGED next_node
  /\ UNCHANGED <<forestVars, frontierVars, select_match, select_blossom, phase>>

\* parExpand_pro_all
ExpandWorker(t) ==
  /\ \/ /\ TakeChunk(t, Outward) \/ LeaveLoop(t)
        /\ UNCHANGED <<select_match, vector_1, is_even, belongs, path_table>>
     \/ (ExpandStep(t) \/ ExpandMerge(t, "merge")) /\ UNCHANGED next_node
  /\ UNCHANGED <<adj, M, nodes_vector, vector_2, select_tree, select_blossom,
                 path_collection, phase>>

\* parBlossom_pro_all
BlossomWorker(t) ==
  /\ \/ /\ TakeChunk(t, Inward) \/ LeaveLoop(t)
        /\ UNCHANGED <<select_blossom, vector_2, is_even, path_table>>
     \/ /\ RoundBlossom(t) \/ FindBlossom(t) \/ FillChecked(t) \/ DropEntry(t)
        /\ UNCHANGED <<vector_2, next_node>>
     \/ BlossomMerge(t, "merge") /\ UNCHANGED next_node
  /\ UNCHANGED <<adj, M, belongs, nodes_vector, vector_1, select_tree, select_match,
                 path_collection, phase>>

Worker(t) ==
  \/ phase = "reuse" /\ Reuse(t) /\ UNCHANGED next_node
  \/ phase = "augment" /\ AugmentWorker(t)
  \/ phase = "expand" /\ ExpandWorker(t)
  \/ phase = "blossom" /\ BlossomWorker(t)
  \/ phase = "flip" /\ (FlipPair(t) \/ FlipEnds(t)) /\ UNCHANGED next_node

-----------------------------------------------------------------------------
(***************************************************************************)
(* The driver: joins the threads of a phase, hands the frontier over and   *)
(* starts the next phase.                                                  *)
(***************************************************************************)
Goto(next) ==
  /\ phase' = next
  /\ next_node' = 0
  /\ Spawn(NoWork)

JoinReuse ==
  /\ phase = "reuse" /\ Joined
  /\ nodes_vector' = Frontier
  /\ Goto("augment")
  /\ UNCHANGED <<forestVars, vector_1, vector_2, flagVars, lap, path_collection>>

JoinAugment ==
  /\ phase = "augment" /\ Joined
  /\ IF path_collection # <<>>
     THEN StartFlip /\ UNCHANGED next_node
     ELSE /\ nodes_vector' = Frontier
          /\ vector_1' = <<>>
          /\ Goto("expand")
          /\ UNCHANGED vector_2
  /\ UNCHANGED <<forestVars, flagVars, lap, path_collection>>

JoinExpand ==
  /\ phase = "expand" /\ Joined
  /\ nodes_vector' = Frontier
  /\ vector_2' = <<>>
  /\ Goto("blossom")
  /\ UNCHANGED <<forestVars, vector_1, flagVars, lap, path_collection>>

\* Mutant: the empty frontier is not noticed.
JoinBlossomAlways ==
  /\ phase = "blossom" /\ Joined
  /\ nodes_vector' = Frontier
  /\ Goto("augment")
  /\ UNCHANGED <<forestVars, vector_1, vector_2, flagVars, lap, path_collection>>

\* No new even node: the search ends without a path, and so does the engine.
JoinBlossom ==
  /\ phase = "blossom" /\ Joined
  /\ nodes_vector' = Frontier
  /\ IF Frontier = <<>>
     THEN phase' = "finished" /\ UNCHANGED <<next_node, pc, todo, local>>
     ELSE Goto("augment")
  /\ UNCHANGED <<forestVars, vector_1, vector_2, flagVars, lap, path_collection>>

Driver ==
  \/ JoinReuse \/ JoinAugment \/ JoinExpand \/ JoinBlossom
  \/ JoinFlip("reuse") /\ UNCHANGED next_node

\* The engine has returned to its caller.
Finished == phase = "finished" /\ UNCHANGED vars

Next == (\E t \in Thread : Worker(t)) \/ Driver \/ Finished

\* The operating system runs every thread, the driver's included.
Fairness == WF_vars(Driver) /\ \A t \in Thread : WF_vars(Worker(t))

Spec == Init /\ [][Next]_vars /\ Fairness

-----------------------------------------------------------------------------
(***************************************************************************)
(* Two threads never write the entries of one node at the same time: in    *)
(* expansion a pair, in the blossom phase a node has one owner, although   *)
(* the tests before the CAS are racy.                                      *)
(***************************************************************************)
Writes(t) ==
  CASE phase = "expand"  /\ pc[t] \in {"grow", "own", "mate"}  -> {Edge(t)[2], Mate(t)}
    [] phase = "blossom" /\ pc[t] \in {"fill", "even", "undo"} -> {Current(t)}
    [] OTHER -> {}

WritersApart ==
  \A t, u \in Thread : t # u => Writes(t) \cap Writes(u) = {}
=============================================================================
