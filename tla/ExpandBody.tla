----------------------------- MODULE ExpandBody -----------------------------
(***************************************************************************)
(* Phase 2, the same in every CPU engine (parExpand_pro_all, _pro_edges,   *)
(* _200, _pro_2, _pro_3, _pro_all_atomic): an edge (v, w) to a node w of   *)
(* no tree adds w and its mate x to v's tree.  Whoever wins the CAS on the *)
(* pair {w, x} writes its entries; belongs[w] is read by the others before *)
(* their CAS, possibly while it is being written.                          *)
(*                                                                         *)
(* Inside the phase belongs[w] changes at most once, from -1: an edge      *)
(* whose w is in a tree when the share is taken fails the test later too.  *)
(***************************************************************************)
EXTENDS Search

Mate(t) == M[Edge(t)[2]]
MatchSlot(t) == IF Edge(t)[2] < Mate(t) THEN Edge(t)[2] ELSE Mate(t)

NoTreeYet(w) == belongs[w] = NoNode

Outward == {e \in Node \X Node : NoTreeYet(e[2])}

ExpandSkip(t) ==
  /\ pc[t] = "scan"
  /\ ~NoTreeYet(Edge(t)[2])
  /\ NextEdge(t)
  /\ UNCHANGED <<select_match, is_even, belongs, path_table, local>>

ExpandTest(t) ==
  /\ Step(t, "scan", "claim")
  /\ NoTreeYet(Edge(t)[2])
  /\ UNCHANGED <<select_match, is_even, belongs, path_table, todo, local>>

\* Mutant: a test and a plain store for the CAS lets two threads through.
StorePair(t) ==
  /\ Step(t, "claim", "grow")
  /\ select_match' = [select_match EXCEPT ![MatchSlot(t)] = 1]
  /\ UNCHANGED <<is_even, belongs, path_table, todo, local>>

ClaimPair(t) ==
  /\ Step(t, "claim", "grow")
  /\ select_match[MatchSlot(t)] = 0
  /\ select_match' = [select_match EXCEPT ![MatchSlot(t)] = 1]
  /\ UNCHANGED <<is_even, belongs, path_table, todo, local>>

ClaimPairFails(t) ==
  /\ pc[t] = "claim"
  /\ select_match[MatchSlot(t)] = 1
  /\ NextEdge(t)
  /\ UNCHANGED <<select_match, is_even, belongs, path_table, local>>

\* The path of x and the parities: nobody else reads these in this phase.
Grow(t) ==
  LET v == Edge(t)[1]  w == Edge(t)[2]
  IN  /\ Step(t, "grow", "own")
      /\ path_table' = [path_table EXCEPT ![Mate(t)] = @ \o <<w, v>>]
      /\ is_even' = [is_even EXCEPT ![w] = 0, ![Mate(t)] = 1]
      /\ UNCHANGED <<select_match, belongs, todo, local>>

OwnW(t) ==
  /\ Step(t, "own", "mate")
  /\ belongs' = [belongs EXCEPT ![Edge(t)[2]] = belongs[Edge(t)[1]]]
  /\ UNCHANGED <<select_match, is_even, path_table, todo, local>>

\* Mutant: only w is entered into the tree.
ForgetMate(t) ==
  /\ pc[t] = "mate"
  /\ local' = [local EXCEPT ![t] = Append(@, Mate(t))]
  /\ NextEdge(t)
  /\ UNCHANGED <<select_match, is_even, belongs, path_table>>

OwnMate(t) ==
  /\ pc[t] = "mate"
  /\ belongs' = [belongs EXCEPT ![Mate(t)] = belongs[Edge(t)[1]]]
  /\ local' = [local EXCEPT ![t] = Append(@, Mate(t))]
  /\ NextEdge(t)
  /\ UNCHANGED <<select_match, is_even, path_table>>

ExpandMerge(t, at) ==
  /\ EndThread(t, at)
  /\ vector_1' = vector_1 \o local[t]
  /\ UNCHANGED <<select_match, is_even, belongs, path_table>>

ExpandStep(t) ==
  /\ \/ ExpandSkip(t) \/ ExpandTest(t)
     \/ ClaimPair(t) \/ ClaimPairFails(t)
     \/ Grow(t) \/ OwnW(t) \/ OwnMate(t)
  /\ UNCHANGED <<vector_1, lap>>
=============================================================================
