----------------------------- MODULE ENodeQueue -----------------------------
(***************************************************************************)
(* The queue of even nodes of the GPU engines: one buffer with two windows *)
(* that leapfrog each other.  Window 1, [b1, e1), takes the nodes added by *)
(* expansion, window 2, [b2, e2), those made even by blossoms; whichever   *)
(* is to be filled next is first moved to the end of the other.  The host  *)
(* moves the windows between kernels; a kernel only appends.  The frontier *)
(* of a kernel is what the two windows hold, from the first begin to the   *)
(* last end.                                                               *)
(***************************************************************************)
EXTENDS Integers, Sequences, FiniteSets

\* The buffer has `capacity` slots; what is behind the windows is never read.
Clear(capacity) ==
  [slots |-> [i \in 0..(capacity - 1) |-> 0], b1 |-> 0, e1 |-> 0, b2 |-> 0, e2 |-> 0]

Begin(q) == IF q.b1 < q.b2 THEN q.b1 ELSE q.b2
End(q)   == IF q.e1 > q.e2 THEN q.e1 ELSE q.e2
Size(q)  == End(q) - Begin(q)

Frontier(q) == [i \in 1..Size(q) |-> q.slots[Begin(q) + i - 1]]

PrepareForAppendingENode1(q) == [q EXCEPT !.b1 = q.e2, !.e1 = q.e2]
PrepareForAppendingENode2(q) == [q EXCEPT !.b2 = q.e1, !.e2 = q.e1]

AppendENode1(q, x) == [q EXCEPT !.slots = [@ EXCEPT ![q.e1] = x], !.e1 = @ + 1]
AppendENode2(q, x) == [q EXCEPT !.slots = [@ EXCEPT ![q.e2] = x], !.e2 = @ + 1]

\* A kernel that appends the nodes of S, in an order that does not matter.
Filled(slots, at, S) ==
  LET nth(k) == CHOOSE x \in S : Cardinality({y \in S : y < x}) = k
  IN  [i \in DOMAIN slots |->
         IF i \in at..(at + Cardinality(S) - 1) THEN nth(i - at) ELSE slots[i]]

AppendENodes1(q, S) ==
  [q EXCEPT !.slots = Filled(@, q.e1, S), !.e1 = @ + Cardinality(S)]
AppendENodes2(q, S) ==
  [q EXCEPT !.slots = Filled(@, q.e2, S), !.e2 = @ + Cardinality(S)]
=============================================================================
