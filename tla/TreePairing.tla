----------------------------- MODULE TreePairing ----------------------------
(***************************************************************************)
(* What the augmenting phase of every X-Blossom engine promises, without   *)
(* threads and locks: trees are paired off over the bridges between them,  *)
(* one pair at a time and every tree at most once.  A pair is one          *)
(* augmenting path, so disjoint pairs are node-disjoint paths.             *)
(***************************************************************************)
VARIABLES
  bridges,    \* the pairs <<a, b>> of roots joined by an edge of the frontier
  taken       \* the roots whose tree lies on an augmenting path

Init == taken = {}

Pair(a, b) ==
  /\ <<a, b>> \in bridges
  /\ a # b
  /\ {a, b} \cap taken = {}
  /\ taken' = taken \cup {a, b}
  /\ UNCHANGED bridges

Next == \E e \in bridges : Pair(e[1], e[2])

Spec == Init /\ [][Next]_<<bridges, taken>>
=============================================================================
