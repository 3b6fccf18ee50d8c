---------------------------- MODULE PerEdgeEngine ---------------------------
(***************************************************************************)
(* The edge-parallel CPU engine as a whole (run_xb_pro_peredge): the same  *)
(* searches as the node-parallel engine, with the edges of the frontier    *)
(* shared out in slices, tree locks in the order of the roots, blossoms    *)
(* found by comparing the two walks, and no check of a blossom's entries.  *)
(* Two more engines share all of it: par_pro_1, which throws the trees of  *)
(* the last search away, and the ablation par_pro_peredge_nb, in which the *)
(* blossom phase is commented out.                                         *)
(***************************************************************************)
EXTENDS ExpandBody, BlossomBody, EdgeWorkers

VARIABLE engine               \* which of the three runs

vars == <<searchVars, edges, engine>>

par_pro_peredge    == [first |-> "reuse",   blossoms |-> TRUE]
par_pro_1          == [first |-> "exposed", blossoms |-> TRUE]
par_pro_peredge_nb == [first |-> "reuse",   blossoms |-> FALSE]

Engines == {par_pro_peredge, par_pro_1, par_pro_peredge_nb}

Init ==
  /\ engine \in Engines
  /\ DriverInit(engine.first)
  /\ edges = <<>>

-----------------------------------------------------------------------------
\* parAugmentingPath_pro_edges
AugmentEdges(t) ==
  /\ Phase1!Worker(t)
  /\ UNCHANGED <<forestVars, frontierVars, select_match, select_blossom, lap, phase>>

\* parExpand_pro_edges
ExpandEdges(t) ==
  /\ ExpandStep(t) \/ ExpandMerge(t, "fetch")
  /\ UNCHANGED <<adj, M, nodes_vector, vector_2, select_tree, select_blossom,
                 path_collection, phase>>

\* parBlossom_pro_edges
BlossomEdges(t) ==
  /\ \/ (RoundBlossom(t) \/ FindCycle(t) \/ FillUnchecked(t)) /\ UNCHANGED vector_2
     \/ BlossomMerge(t, "fetch")
  /\ UNCHANGED <<adj, M, belongs, nodes_vector, vector_1, select_tree, select_match,
                 path_collection, phase>>

Worker(t) ==
  /\ \/ phase = "exposed" /\ FindExposed(t)
     \/ phase = "reuse" /\ Reuse(t)
     \/ phase = "augment" /\ AugmentEdges(t)
     \/ phase = "expand" /\ ExpandEdges(t)
     \/ phase = "blossom" /\ BlossomEdges(t)
     \/ phase = "flip" /\ (FlipPair(t) \/ FlipEnds(t))
  /\ UNCHANGED <<edges, engine>>

-----------------------------------------------------------------------------
(***************************************************************************)
(* The driver.  It lays the edge list out anew before every phase.  A      *)
(* blossom thread without edges is not started; here it merges nothing.    *)
(***************************************************************************)
Expanding(frontier) ==
  /\ phase' = "expand"
  /\ nodes_vector' = frontier
  /\ edges' = Endpoints(frontier)
  /\ Spawn([t \in Thread |-> Share(t, Outward)'])

Augmenting(frontier) ==
  /\ phase' = "augment"
  /\ nodes_vector' = frontier
  /\ edges' = Endpoints(frontier)
  /\ pc' = [t \in Thread |-> "scan"]
  /\ todo' = [t \in Thread |-> (Phase1!Slice(t))']
  /\ local' = NoWork

JoinExposed ==
  /\ phase = "exposed" /\ Joined
  /\ FreshForest
  /\ Augmenting(nodes_vector)
  /\ UNCHANGED <<adj, M, vector_1, vector_2, flagVars, lap, path_collection>>

JoinReuse ==
  /\ phase = "reuse" /\ Joined
  /\ Augmenting(Frontier)
  /\ UNCHANGED <<forestVars, vector_1, vector_2, flagVars, lap, path_collection>>

\* The frontier is kept: nothing was added to the two vectors.
JoinAugment ==
  /\ phase = "augment" /\ Joined
  /\ UNCHANGED <<forestVars, flagVars, lap, path_collection>>
  /\ IF path_collection # <<>>
     THEN StartFlip /\ UNCHANGED edges
     ELSE /\ vector_1' = <<>>
          /\ Expanding(nodes_vector)
          /\ UNCHANGED vector_2

JoinExpand ==
  /\ phase = "expand" /\ Joined /\ engine.blossoms
  /\ vector_2' = <<>>
  /\ UNCHANGED <<forestVars, vector_1, flagVars, lap, path_collection>>
  /\ phase' = "blossom"
  /\ nodes_vector' = Frontier
  /\ edges' = Endpoints(Frontier)
  /\ Spawn([t \in Thread |-> Share(t, Inward)'])

AugmentOrEnd(frontier) ==
  IF frontier = <<>>
  THEN /\ phase' = "finished" /\ nodes_vector' = <<>>
       /\ UNCHANGED <<edges, pc, todo, local>>
  ELSE Augmenting(frontier)

\* No blossom phase; vector_2 is cleared all the same.
SkipBlossom ==
  /\ phase = "expand" /\ Joined /\ ~engine.blossoms
  /\ vector_2' = <<>>
  /\ AugmentOrEnd(vector_1)
  /\ UNCHANGED <<forestVars, vector_1, flagVars, lap, path_collection>>

JoinBlossom ==
  /\ phase = "blossom" /\ Joined
  /\ AugmentOrEnd(Frontier)
  /\ UNCHANGED <<forestVars, vector_1, vector_2, flagVars, lap, path_collection>>

Driver ==
  /\ \/ JoinExposed \/ JoinReuse
     \/ JoinAugment \/ JoinExpand \/ SkipBlossom \/ JoinBlossom
     \/ JoinFlip(engine.first) /\ UNCHANGED edges
  /\ UNCHANGED engine

\* The engine has returned to its caller.
Finished == phase = "finished" /\ UNCHANGED vars

Next == (\E t \in Thread : Worker(t)) \/ Driver \/ Finished

\* The operating system runs every thread, the driver's included.
Fairness == WF_vars(Driver) /\ \A t \in Thread : WF_vars(Worker(t))

Spec == Init /\ [][Next]_vars /\ Fairness

-----------------------------------------------------------------------------
(***************************************************************************)
(* The blossom phase stores an entry without looking for repeated nodes,   *)
(* so a walk may visit a node twice: what goes wrong then is the finding   *)
(* of ReturnsMatching.  The properties below say that nothing else goes    *)
(* wrong, on graphs where such walks do occur.                             *)
(***************************************************************************)
WalkRepeats(v) == ~IsInjective(Walk(path_table, v))

PathsRepeat == \E i \in DOMAIN path_collection : ~IsInjective(path_collection[i])

(***************************************************************************)
(* Every walk from an even node ends in the root of its tree and never     *)
(* leaves the tree, which is all that the tree locks protect; and one that *)
(* repeats no node is legal.                                               *)
(***************************************************************************)
LegalUnlessRepeating ==
  phase \in SearchPhases =>
    \A v \in Node : EvenNode(v) =>
      LET p == Walk(path_table, v)
      IN  /\ Last(p) = belongs[v] /\ path_table[Last(p)] = <<>>
          /\ \A x \in Range(p) : belongs[x] = belongs[v]
          /\ WalkRepeats(v) \/ EvenWalkLegal(v)

(***************************************************************************)
(* In phase 1 the lock invariant of that phase holds, whatever the walks;  *)
(* and its start is the one its theorems assume, unless a walk repeats a   *)
(* node.                                                                   *)
(***************************************************************************)
Phase1Contract ==
  phase = "augment" =>
    /\ Phase1!LocksInductive
    /\ Phase1!LegalStart \/ \E v \in Node : EvenNode(v) /\ WalkRepeats(v)

(***************************************************************************)
(* With the locks in the order of the roots no path is missed: what the    *)
(* engine returns is a maximum matching, or no matching at all because a   *)
(* path repeated a node.  Without blossom phase this holds at least on     *)
(* bipartite graphs.                                                       *)
(***************************************************************************)
MaximumOrInvalid ==
  (engine.blossoms \/ IsBipartite(adj)) /\ IsMatching(adj, M) => FinishedMaximum

\* The matching, with the flips counted as done when the paths are found.
Committed == IF phase = "flip" THEN FlipPath(M, FlattenSeq(path_collection)) ELSE M

(***************************************************************************)
(* As long as no path repeats a node, every search turns the matching into *)
(* a larger one that keeps all matched nodes matched.                      *)
(***************************************************************************)
GrowsUnlessRepeating ==
  [][PathsRepeat \/ PathsRepeat' \/ Growth!Grow]_<<adj, Committed>>
=============================================================================
