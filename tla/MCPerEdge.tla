----------------------------- MODULE MCPerEdge ------------------------------
(***************************************************************************)
(* The edge-parallel engine with two threads on small graphs.              *)
(***************************************************************************)
EXTENDS PerEdgeEngine, MCForests
=============================================================================
