---------------------------- MODULE MCPerNodeSolo ---------------------------
(***************************************************************************)
(* The node-parallel engine with one thread on every graph of its nodes,   *)
(* from the empty matching.                                                *)
(***************************************************************************)
EXTENDS PerNodeEngine, MCForests

MCStarts == {[adj |-> AdjOf(E), M |-> NoMates] :
               E \in SUBSET PairsOf(Node)}
=============================================================================
