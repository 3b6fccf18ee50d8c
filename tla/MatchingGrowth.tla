--------------------------- MODULE MatchingGrowth ---------------------------
(***************************************************************************)
(* What a matching engine promises to its caller, search by search: M is a *)
(* matching at all times, a search that finds paths matches more nodes and *)
(* unmatches none, and the graph is left alone.                            *)
(***************************************************************************)
EXTENDS XGraph

VARIABLES adj, M

Init == IsMatching(adj, M)

Grow ==
  /\ IsMatching(adj, M')
  /\ Matched(M) \subseteq Matched(M')
  /\ Matched(M) # Matched(M')
  /\ UNCHANGED adj

Spec == Init /\ [][Grow]_<<adj, M>>
=============================================================================
