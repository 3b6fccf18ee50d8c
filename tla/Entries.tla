------------------------------ MODULE Entries -------------------------------
(***************************************************************************)
(* How the entries of the path table hang together, which is why a blossom *)
(* found by its anchors is one: an odd node of a tree cuts off what is     *)
(* below it.  A walk of an even node that comes from below passes it, and  *)
(* no other walk touches a node that is below.                             *)
(***************************************************************************)
EXTENDS Blossoms

EvenNodes == {x \in Node : EvenNode(x)}

\* p, which ends where q begins, and on along q.
Link(p, q) == p \o Tail(q)

\* What comes before o on the path p.
Before(p, o) == {p[j] : j \in {k \in DOMAIN p : \E i \in DOMAIN p : k < i /\ p[i] = o}}

\* o cuts q off from what comes before o on p, unless it is on q too.
Apart(p, q, o) == o \in Range(q) \/ Before(p, o) \cap Range(q) = {}

\* An entry is empty or at least two nodes long.
EntriesLong(table) == \A x \in Node : Len(table[x]) # 1

\* An entry ends in an even node; odd nodes have none.
LinksEven ==
  \A x \in EvenNodes : path_table[x] # <<>> => Last(path_table[x]) \in EvenNodes

OddsBare == \A x \in Node : is_even[x] = 0 => path_table[x] = <<>>

\* The odd nodes, but for those that a blossom is about to make even.
StillOdd(turning) == {o \in Node \ turning : OddNode(o)}

\* An odd node is in the entry of one even node only, its mate, and first.
OddsOnce(turning) ==
  \A o \in StillOdd(turning) : \A x, y \in EvenNodes : o \in Range(path_table[x]) =>
    path_table[x][1] = o /\ (o \in Range(path_table[y]) => x = y)

OddsApart(walks, turning) ==
  \A o \in StillOdd(turning) : \A p, q \in walks : Apart(p, q, o)

Walks == {Walk(path_table, x) : x \in EvenNodes}

\* The walk of an odd node that gets the rest of work as its entry.
WalkOf(work) == Link(work, Walk(path_table, Last(work)))

\* An odd node, with what is to be its entry, whose walk will be legal.
TurnLegal(work) ==
  LET p == WalkOf(work)
  IN  /\ Last(work) \in EvenNodes
      /\ p \in Seq(Node)
      /\ IsEvenWalk(adj, M, p)
      /\ Last(p) = belongs[work[1]]
      /\ \A x \in Range(p) : belongs[x] = belongs[work[1]]

-----------------------------------------------------------------------------
(***************************************************************************)
(* How far the blossoms have been shrunk.  From an even node over nodes    *)
(* that are even, or about to be, one comes to the base of the blossoms it *)
(* is in; the two ends of an edge inside a tree come to the same.          *)
(***************************************************************************)
Bright(x, turning) == is_even[x] = 1 \/ x \in turning

\* The walk of x comes to the even node z over bright nodes, and goes on like z's.
Reaches(x, z, turning) ==
  LET p == Walk(path_table, x)
  IN  /\ z \in EvenNodes
      /\ \E k \in 1..Len(p) : /\ p[k] = z
                             /\ p = Link(SubSeq(p, 1, k), Walk(path_table, z))
                             /\ \A i \in 1..k : Bright(p[i], turning)

Merged(x, y, turning) ==
  \E z \in EvenNodes : Reaches(x, z, turning) /\ Reaches(y, z, turning)
=============================================================================
