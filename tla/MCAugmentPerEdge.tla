-------------------------- MODULE MCAugmentPerEdge --------------------------
(***************************************************************************)
(* Phase 1 of the edge-parallel engine on every graph of four exposed      *)
(* nodes, and on two grown trees that both reach a third one.              *)
(***************************************************************************)
EXTENDS AugmentPerEdge, MCForests

MCScenarios ==
  {AllExposed(E, <<0, 1, 2, 3>>) : E \in SUBSET PairsOf(0..3)} \cup
  {TwoGrownTrees(E, <<2, 5>>) : E \in SUBSET {{2, 5}, {2, 6}, {5, 6}, {2, 3}}}
=============================================================================
