------------------------------ MODULE Blossoms ------------------------------
(***************************************************************************)
(* How every engine finds a blossom: an edge (v, w) between two even nodes *)
(* of one tree closes an odd cycle; its base is where the chains of the    *)
(* two nodes' table entries meet.                                          *)
(***************************************************************************)
EXTENDS XForest

\* Mutant: the two even nodes may be of different trees.
AnyTree(v, w) == w # M[v] /\ belongs[w] # NoNode

SameTree(v, w) == belongs[w] = belongs[v] /\ w # M[v] /\ belongs[w] # NoNode

Inward == {e \in Node \X Node : SameTree(e[1], e[2])}

-----------------------------------------------------------------------------
\* The chase for the base: each side follows the last node of the entry it
\* is at; a side at its root starts again from the other end.  The chase is
\* given up after as many rounds as there are nodes.
Chased(v, w) ==
  LET follow(x, other) == IF path_table[x] = <<>> THEN other ELSE Last(path_table[x])
      round[c \in Node \X Node] ==
        IF c[1] = c[2] THEN c ELSE <<follow(c[1], w), follow(c[2], v)>>
      side[k \in Nat] == IF k = 0 THEN <<v, w>> ELSE round[side[k - 1]]
  IN  side[nodes]

HasBase(v, w) == Chased(v, w)[1] = Chased(v, w)[2]

\* Mutant: the base is overlooked and both sides run to the root.
SegmentToRoot(x, base) == Walk(path_table, x)

\* From x along the entries to the base.
SegmentTo(x, base) ==
  LET more[p \in Seq(Node)] ==
        IF Last(p) = base THEN p ELSE p \o path_table[Last(p)]
      seg[k \in Nat] == IF k = 0 THEN <<x>> ELSE more[seg[k - 1]]
  IN  seg[MaxHops]

\* base .. v, w .. base
Blossom(v, w) ==
  LET base == Chased(v, w)[1]
  IN  Reverse(SegmentTo(v, base)) \o SegmentTo(w, base)
=============================================================================
