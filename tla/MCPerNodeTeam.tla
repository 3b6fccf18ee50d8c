---------------------------- MODULE MCPerNodeTeam ---------------------------
(***************************************************************************)
(* The node-parallel engine with two threads.  The instances have fewer    *)
(* nodes than the 64 of one chunk in the code, where one thread would get  *)
(* them all: ChunkSize = 1 stands for 64 times as many nodes.              *)
(***************************************************************************)
EXTENDS PerNodeEngine, MCForests
=============================================================================
