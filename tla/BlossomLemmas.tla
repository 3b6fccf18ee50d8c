--------------------------- MODULE BlossomLemmas ----------------------------
(***************************************************************************)
(* What the entries of the path table make of walks and blossoms: walks    *)
(* of one tree meet, the chase by anchors finds where, the two segments    *)
(* up to there share no other node, and the rest of a blossom is a legal   *)
(* entry for each of its odd nodes.  At the end: a forest with no edge out *)
(* of the trees, no bridge and all blossoms shrunk shows that the matching *)
(* is maximum.                                                             *)
(***************************************************************************)
EXTENDS ForestLemmas

\* The nodes of a link.
LEMMA LinkFacts ==
  ASSUME NEW p \in Path, NEW q \in Path, Last(p) = q[1]
  PROVE  /\ Link(p, q) \in Path
         /\ Len(Link(p, q)) = Len(p) + Len(q) - 1
         /\ \A i \in 1 .. Len(p) : Link(p, q)[i] = p[i]
         /\ \A i \in 1 .. Len(q) : Link(p, q)[Len(p) + i - 1] = q[i]
         /\ Last(Link(p, q)) = Last(q)
         /\ Range(Link(p, q)) = Range(p) \cup Range(q)
         /\ Len(p) \in Nat \ {0} /\ Len(q) \in Nat \ {0}
<1>0. p \in Seq(Node) /\ q \in Seq(Node) /\ p # <<>> /\ q # <<>>
  BY DEF Path
<1>1. Len(p) \in Nat \ {0} /\ Len(q) \in Nat \ {0}
  BY <1>0, EmptySeq
<1>2. Tail(q) \in Seq(Node) /\ Len(Tail(q)) = Len(q) - 1
      /\ \A i \in 1 .. Len(Tail(q)) : Tail(q)[i] = q[i + 1]
  BY <1>0, HeadTailProperties
<1> DEFINE e == Tail(q)
           r == p \o e
<1> HIDE DEF e
<1>3. /\ r \in Seq(Node) /\ Len(r) = Len(p) + Len(e)
      /\ \A i \in 1 .. Len(p) + Len(e) : r[i] = IF i <= Len(p) THEN p[i] ELSE e[i - Len(p)]
  BY <1>0, <1>2, ConcatProperties DEF e
<1>4. Len(r) = Len(p) + Len(q) - 1 /\ Len(r) \in Nat \ {0}
  BY <1>1, <1>2, <1>3 DEF e
<1>5. \A i \in 1 .. Len(p) : r[i] = p[i]
  <2>1. SUFFICES ASSUME NEW i \in 1 .. Len(p) PROVE r[i] = p[i]
    OBVIOUS
  <2>2. i \in 1 .. Len(p) + Len(e) /\ i <= Len(p)
    BY <2>1, <1>1, <1>2 DEF e
  <2>3. QED  BY <2>2, <1>3
<1>6. \A i \in 1 .. Len(q) : r[Len(p) + i - 1] = q[i]
  <2>1. SUFFICES ASSUME NEW i \in 1 .. Len(q) PROVE r[Len(p) + i - 1] = q[i]
    OBVIOUS
  <2>2. CASE i = 1
    <3>1. Len(p) + i - 1 = Len(p) /\ Len(p) \in 1 .. Len(p)
      BY <2>2, <1>1
    <3>2. r[Len(p)] = p[Len(p)]
      BY <3>1, <1>5
    <3>3. QED  BY <3>1, <3>2, <2>2 DEF Last
  <2>3. CASE i # 1
    <3>1. /\ Len(p) + i - 1 \in 1 .. Len(p) + Len(e) /\ ~(Len(p) + i - 1 <= Len(p))
          /\ (Len(p) + i - 1) - Len(p) = i - 1 /\ i - 1 \in 1 .. Len(e) /\ (i - 1) + 1 = i
      BY <2>1, <2>3, <1>1, <1>2 DEF e
    <3>2. r[Len(p) + i - 1] = e[i - 1]
      BY <3>1, <1>3
    <3>3. e[i - 1] = q[i]
      BY <3>1, <1>2 DEF e
    <3>4. QED  BY <3>2, <3>3
  <2>4. QED  BY <2>2, <2>3
<1>7. Last(r) = Last(q)
  <2>1. Len(q) \in 1 .. Len(q) /\ Len(p) + Len(q) - 1 = Len(r)
    BY <1>1, <1>4
  <2>2. r[Len(r)] = q[Len(q)]
    BY <2>1, <1>6
  <2>3. QED  BY <2>2 DEF Last
<1>8. Range(r) = Range(p) \cup Range(q)
  <2>1. Range(r) = Range(p) \cup Range(e)
    BY ZenonT(30), <1>0, <1>2, ConcatRange DEF e
  <2>2. Range(q) = {Head(q)} \cup Range(e) /\ Head(q) = q[1]
    BY <1>0, TailRange DEF e
  <2>3. Last(p) \in Range(p)
    <3>1. Len(p) \in DOMAIN p
      BY <1>0, <1>1, LenProperties
    <3>2. QED  BY <3>1 DEF Last, Range
  <2>4. QED  BY <2>1, <2>2, <2>3
<1>9. r \in Path
  BY <1>3, <1>4, EmptySeq DEF Path
<1>10. Link(p, q) = r
  BY DEF Link, e
<1> HIDE DEF r
<1>11. QED  BY <1>1, <1>4, <1>5, <1>6, <1>7, <1>8, <1>9, <1>10

\* Linking is associative with a further entry.
LEMMA LinkOn ==
  ASSUME NEW p \in Path, NEW q \in Path, NEW e \in Seq(Node)
  PROVE  Link(p, q) \o e = Link(p, q \o e)
<1>0. p \in Seq(Node) /\ q \in Seq(Node) /\ q # <<>> /\ Tail(q) \in Seq(Node)
  BY HeadTailProperties DEF Path
<1>1. (p \o Tail(q)) \o e = p \o (Tail(q) \o e)
  BY <1>0, ConcatAssociative
<1>2. Tail(q) \o e = Tail(q \o e)
  <2>0. Len(q) \in Nat \ {0} /\ Len(e) \in Nat
    BY <1>0, EmptySeq, LenProperties
  <2>1. /\ q \o e \in Seq(Node) /\ Len(q \o e) = Len(q) + Len(e)
        /\ \A i \in 1 .. Len(q) + Len(e) : (q \o e)[i] = IF i <= Len(q) THEN q[i] ELSE e[i - Len(q)]
    BY <1>0, ConcatProperties
  <2> DEFINE t == Tail(q)  r == q \o e
  <2>2. t \in Seq(Node) /\ Len(t) = Len(q) - 1 /\ \A i \in 1 .. Len(t) : t[i] = q[i + 1]
    BY <1>0, HeadTailProperties
  <2>3. r # <<>>
    BY <2>0, <2>1, EmptySeq
  <2>4. /\ Tail(r) \in Seq(Node) /\ Len(Tail(r)) = Len(r) - 1
        /\ \A i \in 1 .. Len(Tail(r)) : Tail(r)[i] = r[i + 1]
    BY <2>1, <2>3, HeadTailProperties
  <2>5. /\ t \o e \in Seq(Node) /\ Len(t \o e) = Len(t) + Len(e)
        /\ \A i \in 1 .. Len(t) + Len(e) : (t \o e)[i] = IF i <= Len(t) THEN t[i] ELSE e[i - Len(t)]
    BY <1>0, <2>2, ConcatProperties
  <2> HIDE DEF t, r
  <2>6. Len(t \o e) = Len(Tail(r))
    BY <2>0, <2>1, <2>2, <2>4, <2>5 DEF r
  <2>7. ASSUME NEW i \in 1 .. Len(t \o e)
        PROVE  (t \o e)[i] = Tail(r)[i]
    <3>1. i \in 1 .. Len(Tail(r)) /\ i \in 1 .. Len(t) + Len(e) /\ i \in Nat
      BY <2>6, <2>5, <2>0, <2>2
    <3>2. Tail(r)[i] = r[i + 1] /\ i + 1 \in 1 .. Len(q) + Len(e)
      BY <3>1, <2>4, <2>2, <2>0
    <3>3. r[i + 1] = IF i + 1 <= Len(q) THEN q[i + 1] ELSE e[(i + 1) - Len(q)]
      BY <3>2, <2>1 DEF r
    <3>4. (t \o e)[i] = IF i <= Len(t) THEN t[i] ELSE e[i - Len(t)]
      BY <3>1, <2>5
    <3>5. (i <= Len(t) <=> i + 1 <= Len(q)) /\ (i + 1) - Len(q) = i - Len(t)
      BY <3>1, <2>2, <2>0
    <3>6. i <= Len(t) => t[i] = q[i + 1]
      BY <3>1, <2>2
    <3>7. QED  BY <3>2, <3>3, <3>4, <3>5, <3>6
  <2>8. t \o e = Tail(r)
    BY <2>4, <2>5, <2>6, <2>7, SeqEqual
  <2>9. QED  BY <2>8 DEF t, r
<1>3. QED  BY <1>1, <1>2 DEF Link

\* From round k on w goes on as z does.
GoesOn(w, k, z) ==
  \A j \in Nat : /\ w[k + j] = Link(w[k], z[j])
                 /\ Last(w[k + j]) = Last(z[j])
                 /\ z[j][1] = Last(w[k])

\* A walk goes on like the walk of the node it has come to.
LEMMA RoundsSplit ==
  ASSUME NEW table \in [Node -> Seq(Node)], NEW x \in Node, NEW w \in [Nat -> Path],
         Rounds(w, table, x), NEW k \in Nat,
         NEW z \in [Nat -> Path], Rounds(z, table, Last(w[k]))
  PROVE  GoesOn(w, k, z)
<1> DEFINE c == Last(w[k])
           T == {j \in Nat : w[k + j] = Link(w[k], z[j]) /\ Last(w[k + j]) = Last(z[j])
                             /\ z[j][1] = c}
<1> HIDE DEF T, c
<1>1. z[0] = <<c>> /\ w[k] \in Path /\ c \in Node
  BY PathGrows DEF Rounds, c
<1>2. 0 \in T
  <2>1. Tail(<<c>>) = <<>> /\ Last(<<c>>) = c /\ <<c>>[1] = c
    BY DEF Last
  <2>2. w[k] \o <<>> = w[k]
    BY <1>1, ConcatEmptySeq DEF Path
  <2>3. k + 0 = k
    OBVIOUS
  <2>4. Link(w[k], z[0]) = w[k]
    BY <1>1, <2>1, <2>2 DEF Link
  <2>5. QED  BY <1>1, <2>1, <2>3, <2>4 DEF T, c
<1>3. ASSUME NEW j \in Nat, j \in T
      PROVE  j + 1 \in T
  <2>1. w[k + j] = Link(w[k], z[j]) /\ Last(w[k + j]) = Last(z[j]) /\ z[j][1] = c
    BY <1>3 DEF T
  <2>2. k + j \in Nat /\ k + (j + 1) = (k + j) + 1
    OBVIOUS
  <2>3. w[(k + j) + 1] = w[k + j] \o table[Last(w[k + j])] /\ w[k + j] \in Path
    BY <2>2 DEF Rounds
  <2>4. z[j + 1] = z[j] \o table[Last(z[j])] /\ z[j] \in Path
    BY DEF Rounds
  <2> DEFINE e == table[Last(z[j])]
  <2>5. e \in Seq(Node) /\ z[j] \o e \in Path /\ (z[j] \o e)[1] = z[j][1]
    BY <2>4, PathGrows
  <2> HIDE DEF e
  <2>6. Link(w[k], z[j]) \o e = Link(w[k], z[j] \o e)
    BY <1>1, <2>4, <2>5, LinkOn
  <2>7. w[k + (j + 1)] = Link(w[k], z[j + 1]) /\ z[j + 1][1] = c /\ z[j + 1] \in Path
    BY <2>1, <2>2, <2>3, <2>4, <2>5, <2>6 DEF e
  <2>8. Last(w[k + (j + 1)]) = Last(z[j + 1])
    BY <2>7, <1>1, LinkFacts DEF c
  <2>9. j + 1 \in Nat
    BY <1>3
  <2>10. QED  BY <2>7, <2>8, <2>9 DEF T
<1>4. \A j \in Nat : j \in T
  BY <1>2, <1>3, SetInduction
<1>5. QED  BY <1>4 DEF T, c, GoesOn
\* l rounds bring a walk to its end.
Ends(w, table, l) ==
  /\ table[Last(w[l])] = <<>>
  /\ \A k \in Nat : k < l => table[Last(w[k])] # <<>>

\* From there on nothing is added.
LEMMA EndStays ==
  ASSUME NEW table \in [Node -> Seq(Node)], NEW x \in Node, NEW w \in [Nat -> Path],
         Rounds(w, table, x), NEW l \in Nat, table[Last(w[l])] = <<>>
  PROVE  \A k \in Nat : k >= l => w[k] = w[l]
<1> DEFINE T == {j \in Nat : w[l + j] = w[l]}
<1> HIDE DEF T
<1>1. 0 \in T
  <2>1. l + 0 = l
    OBVIOUS
  <2>2. QED  BY <2>1 DEF T
<1>2. ASSUME NEW j \in Nat, j \in T
      PROVE  j + 1 \in T
  <2>1. w[l + j] = w[l] /\ l + j \in Nat /\ l + (j + 1) = (l + j) + 1 /\ j + 1 \in Nat
    BY <1>2 DEF T
  <2>2. w[(l + j) + 1] = w[l + j] \o table[Last(w[l + j])] /\ w[l] \in Path
    BY <2>1 DEF Rounds
  <2>3. w[l] \o <<>> = w[l]
    BY <2>2, ConcatEmptySeq DEF Path
  <2>4. w[l + (j + 1)] = w[l]
    BY <2>1, <2>2, <2>3
  <2>5. QED  BY <2>1, <2>4 DEF T
<1>3. \A j \in Nat : j \in T
  BY <1>1, <1>2, SetInduction
<1>4. ASSUME NEW k \in Nat, k >= l
      PROVE  w[k] = w[l]
  <2>1. k - l \in Nat /\ l + (k - l) = k
    BY <1>4
  <2>2. QED  BY <2>1, <1>3 DEF T
<1>5. QED  BY <1>4

\* A walk that is not longer than it may be comes to its end in time.
LEMMA WalkEnds ==
  ASSUME NEW table \in [Node -> Seq(Node)], EntriesLong(table), NEW x \in Node,
         NEW w \in [Nat -> Path], Rounds(w, table, x), Len(w[MaxHops]) <= nodes
  PROVE  \E l \in Nat : /\ l <= MaxHops - 1 /\ Ends(w, table, l)
                        /\ \A k \in Nat : k >= l => w[k] = w[MaxHops]
<1>0. MaxHops \in Nat /\ MaxHops - 1 \in Nat /\ w[MaxHops - 1] = w[MaxHops]
  <2>1. MaxHops \in Nat
    BY NodesAssumption DEF MaxHops
  <2>2. QED  BY <2>1, WalkSettles
<1> DEFINE m == MaxHops - 1
<1>1. table[Last(w[m])] = <<>>
  <2>1. m + 1 = MaxHops /\ m \in Nat
    BY <1>0
  <2>2. w[m + 1] = w[m] \o table[Last(w[m])] /\ w[m] \in Path
    BY <2>1 DEF Rounds
  <2>3. /\ Len(w[m] \o table[Last(w[m])]) = Len(w[m]) + Len(table[Last(w[m])])
        /\ Last(w[m]) \in Node
    BY <2>2, PathGrows
  <2>4. Len(w[m]) \in Nat /\ table[Last(w[m])] \in Seq(Node) /\ Len(table[Last(w[m])]) \in Nat
    BY <2>2, <2>3, LenProperties DEF Path
  <2>5. Len(table[Last(w[m])]) = 0
    BY <2>1, <2>2, <2>3, <2>4, <1>0
  <2>6. QED  BY <2>4, <2>5, EmptySeq
<1> HIDE DEF m
<1>2. \A k \in Nat : k \in {k2 \in Nat : (\E l \in Nat : l <= k2 /\ Ends(w, table, l))
                                        \/ \A l \in Nat : l <= k2 => table[Last(w[l])] # <<>>}
  <2> DEFINE T == {k2 \in Nat : (\E l \in Nat : l <= k2 /\ Ends(w, table, l))
                                \/ \A l \in Nat : l <= k2 => table[Last(w[l])] # <<>>}
  <2> HIDE DEF T
  <2>1. 0 \in T
    <3>1. CASE table[Last(w[0])] = <<>>
      <4>1. Ends(w, table, 0)
        BY <3>1 DEF Ends
      <4>2. 0 \in Nat /\ 0 <= 0
        OBVIOUS
      <4>3. QED  BY <4>1, <4>2 DEF T
    <3>2. CASE table[Last(w[0])] # <<>>
      <4>1. \A l \in Nat : l <= 0 => l = 0
        OBVIOUS
      <4>2. QED  BY <3>2, <4>1 DEF T
    <3>3. QED  BY <3>1, <3>2
  <2>2. ASSUME NEW k \in Nat, k \in T
        PROVE  k + 1 \in T
    <3>1. CASE \E l \in Nat : l <= k /\ Ends(w, table, l)
      <4>1. PICK l \in Nat : l <= k /\ Ends(w, table, l)
        BY <3>1
      <4>2. l <= k + 1 /\ k + 1 \in Nat
        BY <4>1
      <4>3. QED  BY <4>1, <4>2 DEF T
    <3>2. CASE \A l \in Nat : l <= k => table[Last(w[l])] # <<>>
      <4>0. k + 1 \in Nat /\ k + 1 <= k + 1 /\ \A l \in Nat : l < k + 1 => l <= k
        OBVIOUS
      <4>1. CASE table[Last(w[k + 1])] = <<>>
        <5>1. Ends(w, table, k + 1)
          BY <4>0, <4>1, <3>2 DEF Ends
        <5>2. QED  BY <5>1, <4>0 DEF T
      <4>2. CASE table[Last(w[k + 1])] # <<>>
        <5>1. \A l \in Nat : l <= k + 1 => l <= k \/ l = k + 1
          OBVIOUS
        <5>2. QED  BY <5>1, <4>0, <4>2, <3>2 DEF T
      <4>3. QED  BY <4>1, <4>2
    <3>3. QED  BY <3>1, <3>2, <2>2 DEF T
  <2>3. \A k \in Nat : k \in T
    BY <2>1, <2>2, SetInduction
  <2>4. QED  BY <2>3 DEF T
<1>3. m \in Nat /\ m <= m
  BY <1>0 DEF m
<1>4. PICK l \in Nat : l <= m /\ Ends(w, table, l)
  BY <1>1, <1>2, <1>3
<1>5. \A k \in Nat : k >= l => w[k] = w[l]
  BY <1>4, EndStays DEF Ends
<1>6. w[l] = w[MaxHops]
  <2>1. MaxHops >= l
    BY <1>0, <1>4 DEF m
  <2>2. QED  BY <2>1, <1>5, <1>0
<1>7. QED  BY <1>4, <1>5, <1>6 DEF m

\* Where a round comes to.
LEMMA LastGrows ==
  ASSUME NEW table \in [Node -> Seq(Node)], NEW p \in Path
  PROVE  Last(p \o table[Last(p)]) =
           IF table[Last(p)] = <<>> THEN Last(p) ELSE Last(table[Last(p)])
<1> DEFINE e == table[Last(p)]
<1>0. Last(p) \in Node /\ p \in Seq(Node) /\ p # <<>>
  BY PathGrows DEF Path
<1>1. e \in Seq(Node)
  BY <1>0
<1> HIDE DEF e
<1>2. CASE e = <<>>
  BY <1>0, <1>2, ConcatEmptySeq DEF e
<1>3. CASE e # <<>>
  <2>1. Len(p) \in Nat /\ Len(e) \in Nat \ {0}
    BY <1>0, <1>1, <1>3, EmptySeq, LenProperties
  <2>2. /\ Len(p \o e) = Len(p) + Len(e)
        /\ \A i \in 1 .. Len(p) + Len(e) : (p \o e)[i] = IF i <= Len(p) THEN p[i] ELSE e[i - Len(p)]
    BY <1>0, <1>1, ConcatProperties
  <2>3. Len(p) + Len(e) \in 1 .. Len(p) + Len(e) /\ ~(Len(p) + Len(e) <= Len(p))
        /\ (Len(p) + Len(e)) - Len(p) = Len(e)
    BY <2>1
  <2>4. (p \o e)[Len(p \o e)] = e[Len(e)]
    BY <2>2, <2>3
  <2>5. QED  BY <2>4, <1>3 DEF Last, e
<1>4. QED  BY <1>2, <1>3

\* A walk is any piece of it, and the walk of the node the piece ends in.
LEMMA WalkLink ==
  ASSUME NEW table \in [Node -> Seq(Node)], NEW x \in Node, NEW w \in [Nat -> Path],
         Rounds(w, table, x), NEW l \in Nat, l <= MaxHops, Ends(w, table, l), NEW k \in Nat
  PROVE  Walk(table, x) = w[l] /\ Walk(table, x) = Link(w[k], Walk(table, Last(w[k])))
<1>0. MaxHops \in Nat /\ MaxHops >= l
  BY NodesAssumption DEF MaxHops
<1>1. \A j \in Nat : j >= l => w[j] = w[l]
  BY EndStays DEF Ends
<1>2. w[MaxHops] = w[l]
  BY <1>0, <1>1
<1>3. Walk(table, x) = w[MaxHops]
  <2>1. PICK y \in [Nat -> Path] : Rounds(y, table, x) /\ Walk(table, x) = y[MaxHops]
    BY WalkRounds
  <2> DEFINE T == {j \in Nat : y[j] = w[j]}
  <2> HIDE DEF T
  <2>2. 0 \in T
    BY <2>1 DEF T, Rounds
  <2>3. ASSUME NEW j \in Nat, j \in T
        PROVE  j + 1 \in T
    <3>1. j + 1 \in Nat /\ y[j] = w[j]
      BY <2>3 DEF T
    <3>2. y[j + 1] = y[j] \o table[Last(y[j])] /\ w[j + 1] = w[j] \o table[Last(w[j])]
      BY <2>1 DEF Rounds
    <3>3. QED  BY <3>1, <3>2 DEF T
  <2>4. MaxHops \in T
    BY <2>2, <2>3, <1>0, SetInduction
  <2>5. QED  BY <2>1, <2>4 DEF T
<1>4. Last(w[k]) \in Node
  <2>1. w[k] \in Path
    OBVIOUS
  <2>2. QED  BY <2>1, PathGrows
<1>5. PICK z \in [Nat -> Path] : Rounds(z, table, Last(w[k])) /\ Walk(table, Last(w[k])) = z[MaxHops]
  BY <1>4, WalkRounds
<1>6. w[k + MaxHops] = Link(w[k], z[MaxHops])
  <2>1. GoesOn(w, k, z)
    BY <1>5, RoundsSplit
  <2>2. QED  BY <2>1, <1>0 DEF GoesOn
<1>7. k + MaxHops \in Nat /\ k + MaxHops >= l
  BY <1>0
<1>8. w[k + MaxHops] = w[l]
  BY <1>1, <1>7
<1>9. QED  BY <1>2, <1>3, <1>5, <1>6, <1>8

\* The walk of a node goes through its entry and on from there.
LEMMA WalkStep ==
  ASSUME NEW table \in [Node -> Seq(Node)], EntriesLong(table), NEW x \in Node,
         table[x] # <<>>, Len(Walk(table, Last(table[x]))) <= nodes
  PROVE  /\ Last(table[x]) \in Node
         /\ Walk(table, x) = Link(<<x>> \o table[x], Walk(table, Last(table[x])))
<1> DEFINE e == table[x]
<1>0. e \in Path
  BY DEF Path
<1>1. Last(e) \in Node
  BY <1>0, PathGrows
<1>2. PICK w \in [Nat -> Path] : Rounds(w, table, x) /\ Walk(table, x) = w[MaxHops]
  BY WalkRounds
<1>3. w[1] = <<x>> \o e /\ Last(<<x>>) = x
  <2>1. w[0] = <<x>> /\ \A j \in Nat : w[j + 1] = w[j] \o table[Last(w[j])]
    BY <1>2 DEF Rounds
  <2>2. Last(<<x>>) = x
    BY DEF Last
  <2>3. 0 \in Nat /\ 0 + 1 = 1
    OBVIOUS
  <2>4. QED  BY <2>1, <2>2, <2>3
<1>4. Last(<<x>> \o e) = Last(e)
  <2>1. <<x>> \in Seq(Node) /\ Len(<<x>>) = 1 /\ e \in Seq(Node) /\ Len(e) \in Nat \ {0}
    BY <1>0, EmptySeq, LenProperties DEF Path
  <2> DEFINE s == <<x>>
  <2> HIDE DEF s, e
  <2>2. /\ Len(s \o e) = Len(s) + Len(e)
        /\ \A i \in 1 .. Len(s) + Len(e) : (s \o e)[i] = IF i <= Len(s) THEN s[i] ELSE e[i - Len(s)]
    BY <2>1, ConcatProperties DEF s
  <2>3. Len(s) = 1 /\ Len(s) + Len(e) \in 1 .. Len(s) + Len(e) /\ ~(Len(s) + Len(e) <= Len(s))
        /\ (Len(s) + Len(e)) - Len(s) = Len(e)
    BY <2>1 DEF s
  <2>4. (s \o e)[Len(s \o e)] = e[Len(e)]
    BY <2>2, <2>3
  <2>5. QED  BY <2>4 DEF Last, s
<1> HIDE DEF e
<1>5. Last(w[1]) = Last(e)
  BY <1>3, <1>4
<1>6. PICK z \in [Nat -> Path] : Rounds(z, table, Last(e)) /\ Walk(table, Last(e)) = z[MaxHops]
  BY <1>1, WalkRounds
<1>7. MaxHops - 1 \in Nat /\ z[MaxHops - 1] = z[MaxHops]
  BY <1>1, <1>6, WalkSettles DEF e
<1>8. 1 \in Nat /\ 1 + (MaxHops - 1) = MaxHops
  <2>1. MaxHops \in Nat
    BY NodesAssumption DEF MaxHops
  <2>2. QED  BY <2>1
<1>9. w[1 + (MaxHops - 1)] = Link(w[1], z[MaxHops - 1])
  <2>1. Rounds(z, table, Last(w[1])) /\ 1 \in Nat
    BY <1>5, <1>6
  <2>2. GoesOn(w, 1, z)
    BY <2>1, <1>2, RoundsSplit
  <2>3. QED  BY <2>2, <1>7 DEF GoesOn
<1>10. QED  BY <1>1, <1>2, <1>3, <1>6, <1>7, <1>8, <1>9 DEF e

\* Only the entries of the nodes that entries end in make a walk.
LEMMA WalkKept ==
  ASSUME NEW table \in [Node -> Seq(Node)], NEW other \in [Node -> Seq(Node)],
         NEW E \in SUBSET Node, NEW x \in E,
         \A y \in E : other[y] = table[y] /\ (table[y] # <<>> => Last(table[y]) \in E)
  PROVE  Walk(other, x) = Walk(table, x)
<1>0. MaxHops \in Nat /\ x \in Node
  BY NodesAssumption DEF MaxHops
<1>1. PICK w \in [Nat -> Path] : Rounds(w, table, x) /\ Walk(table, x) = w[MaxHops]
  BY <1>0, WalkRounds
<1>2. PICK z \in [Nat -> Path] : Rounds(z, other, x) /\ Walk(other, x) = z[MaxHops]
  BY <1>0, WalkRounds
<1> DEFINE T == {k \in Nat : z[k] = w[k] /\ Last(w[k]) \in E}
<1> HIDE DEF T
<1>3. 0 \in T
  <2>1. Last(<<x>>) = x
    BY DEF Last
  <2>2. QED  BY <2>1, <1>1, <1>2 DEF T, Rounds
<1>4. ASSUME NEW k \in Nat, k \in T
      PROVE  k + 1 \in T
  <2>1. z[k] = w[k] /\ Last(w[k]) \in E /\ k + 1 \in Nat
    BY <1>4 DEF T
  <2>2. w[k + 1] = w[k] \o table[Last(w[k])] /\ z[k + 1] = z[k] \o other[Last(z[k])]
        /\ w[k] \in Path
    BY <1>1, <1>2 DEF Rounds
  <2>3. z[k + 1] = w[k + 1]
    BY <2>1, <2>2
  <2>4. Last(w[k + 1]) \in E
    BY <2>1, <2>2, LastGrows
  <2>5. QED  BY <2>1, <2>3, <2>4 DEF T
<1>5. MaxHops \in T
  BY <1>0, <1>3, <1>4, SetInduction
<1>6. QED  BY <1>1, <1>2, <1>5 DEF T

\* A segment is the walk up to the round that comes to the base.
LEMMA SegmentExact ==
  ASSUME path_table \in [Node -> Seq(Node)], NEW x \in Node,
         NEW w \in [Nat -> Path], Rounds(w, path_table, x),
         NEW i \in Nat, i <= MaxHops, \A k \in Nat : k < i => Last(w[k]) # Last(w[i])
  PROVE  SegmentTo(x, Last(w[i])) = w[i]
<1> DEFINE base == Last(w[i])
<1> HIDE DEF base
<1>0. MaxHops \in Nat
  BY NodesAssumption DEF MaxHops
<1>1. PICK j \in 0 .. MaxHops : CutAt(SegmentTo(x, base), w, base, j)
  BY SegmentRound
<1>2. j \in Nat /\ j <= MaxHops
  BY <1>0
<1>3. ~(i < j)
  BY <1>1 DEF CutAt, base
<1>4. ~(j < i)
  BY <1>0, <1>1, <1>2 DEF CutAt, base
<1>5. j = i
  BY <1>2, <1>3, <1>4
<1>6. QED  BY <1>1, <1>5 DEF CutAt, base

-----------------------------------------------------------------------------
(***************************************************************************)
(* The chase for the base.  A side runs its own chain of entries to the    *)
(* root and then the other side's chain; both have then come as far when   *)
(* they reach the first node the chains share.                             *)
(***************************************************************************)
Follow(x, other) == IF path_table[x] = <<>> THEN other ELSE Last(path_table[x])

\* A chase whose sides are at A[k] and B[k] after k rounds, and meet in round m.
LEMMA ChaseRuns ==
  ASSUME path_table \in [Node -> Seq(Node)], NEW v \in Node, NEW w \in Node,
         NEW A \in [Nat -> Node], NEW B \in [Nat -> Node], A[0] = v, B[0] = w,
         NEW m \in Nat, m <= nodes, A[m] = B[m],
         \A k \in Nat : k < m => /\ A[k] # B[k]
                                 /\ A[k + 1] = Follow(A[k], w) /\ B[k + 1] = Follow(B[k], v)
  PROVE  Chased(v, w) = <<A[m], A[m]>>
<1> DEFINE follow(x, other) == IF path_table[x] = <<>> THEN other ELSE Last(path_table[x])
           round == [c \in Node \X Node |->
                       IF c[1] = c[2] THEN c ELSE <<follow(c[1], w), follow(c[2], v)>>]
           h == [p \in Nat \X (Node \X Node) |-> round[p[2]]]
<1>1. ASSUME NEW c \in Node \X Node
      PROVE  /\ round[c] = IF c[1] = c[2] THEN c ELSE <<Follow(c[1], w), Follow(c[2], v)>>
             /\ round[c] \in Node \X Node
  <2>1. ASSUME NEW x \in Node, NEW y \in Node
        PROVE  Follow(x, y) \in Node
    <3>1. CASE path_table[x] = <<>>
      BY <3>1 DEF Follow
    <3>2. CASE path_table[x] # <<>>
      <4>1. path_table[x] \in Path
        BY <3>2 DEF Path
      <4>2. Last(path_table[x]) \in Node
        BY <4>1, PathGrows
      <4>3. QED  BY <4>2, <3>2 DEF Follow
    <3>3. QED  BY <3>1, <3>2
  <2>2. c[1] \in Node /\ c[2] \in Node
    OBVIOUS
  <2>3. Follow(c[1], w) \in Node /\ Follow(c[2], v) \in Node
    BY <2>1, <2>2
  <2>4. round[c] = IF c[1] = c[2] THEN c ELSE <<Follow(c[1], w), Follow(c[2], v)>>
    BY DEF Follow
  <2>5. QED  BY <2>3, <2>4
<1>2. <<v, w>> \in Node \X Node
  OBVIOUS
<1> HIDE DEF round
<1>3. \A k \in Nat, c \in Node \X Node : h[<<k, c>>] = round[c] /\ h[<<k, c>>] \in Node \X Node
  BY <1>1
<1> HIDE DEF h
<1>4. IsStepOn(h, Node \X Node)
  BY <1>3 DEF IsStepOn
<1>5. \E f \in [Nat -> Node \X Node] : IsIteration(f, h, <<v, w>>)
  BY <1>2, <1>4, Recursion
<1>6. PICK f \in [Nat -> Node \X Node] :
        f[0] = <<v, w>> /\ \A k \in Nat : f[k + 1] = h[<<k, f[k]>>]
  BY <1>5 DEF IsIteration
<1> DEFINE Eq(g) == g = [k \in Nat |-> IF k = 0 THEN <<v, w>> ELSE round[g[k - 1]]]
           side == CHOOSE g : Eq(g)
<1>7. Chased(v, w) = side[nodes]
  BY DEF Chased, round
<1>8. Eq(f)
  <2>1. ASSUME NEW k \in Nat
        PROVE  f[k] = IF k = 0 THEN <<v, w>> ELSE round[f[k - 1]]
    <3>1. CASE k = 0
      BY <3>1, <1>6
    <3>2. CASE k # 0
      <4>1. k - 1 \in Nat /\ (k - 1) + 1 = k
        BY <3>2
      <4>2. f[k] = h[<<k - 1, f[k - 1]>>] /\ f[k - 1] \in Node \X Node
        BY <4>1, <1>6
      <4>3. QED  BY <4>1, <4>2, <3>2, <1>3
    <3>3. QED  BY <3>1, <3>2
  <2>2. QED  BY <2>1
<1>9. Eq(side)
  BY <1>8
<1> HIDE DEF side
<1>10. \A k \in Nat : side[k] = IF k = 0 THEN <<v, w>> ELSE round[side[k - 1]]
  BY <1>9
<1>11. ASSUME NEW k \in Nat
       PROVE  side[k + 1] = round[side[k]]
  <2>1. k + 1 \in Nat /\ k + 1 # 0 /\ (k + 1) - 1 = k
    OBVIOUS
  <2>2. QED  BY <2>1, <1>10
<1> DEFINE T == {k \in Nat : k <= m => side[k] = <<A[k], B[k]>>}
<1> HIDE DEF T
<1>12. 0 \in T
  BY <1>10 DEF T
<1>13. ASSUME NEW k \in Nat, k \in T
       PROVE  k + 1 \in T
  <2>1. SUFFICES ASSUME k + 1 <= m
                 PROVE  side[k + 1] = <<A[k + 1], B[k + 1]>>
    <3>1. k + 1 \in Nat
      OBVIOUS
    <3>2. QED  BY <3>1 DEF T
  <2>2. k <= m /\ k < m
    BY <2>1
  <2>3. /\ side[k] = <<A[k], B[k]>> /\ A[k] # B[k]
        /\ A[k + 1] = Follow(A[k], w) /\ B[k + 1] = Follow(B[k], v)
    BY <2>2, <1>13 DEF T
  <2> DEFINE c == <<A[k], B[k]>>
  <2>4. c \in Node \X Node /\ c[1] = A[k] /\ c[2] = B[k]
    OBVIOUS
  <2>5. round[c] = <<Follow(A[k], w), Follow(B[k], v)>>
    BY <2>3, <2>4, <1>1
  <2>6. QED  BY <2>3, <2>5, <1>11
<1>14. side[m] = <<A[m], A[m]>>
  <2>1. \A k \in Nat : k \in T
    BY <1>12, <1>13, SetInduction
  <2>2. m \in T /\ m <= m
    BY <2>1
  <2>3. side[m] = <<A[m], B[m]>>
    BY <2>2 DEF T
  <2>4. QED  BY <2>3
<1> DEFINE U == {j \in Nat : side[m + j] = <<A[m], A[m]>>}
<1> HIDE DEF U
<1>15. 0 \in U
  <2>1. m + 0 = m
    OBVIOUS
  <2>2. QED  BY <2>1, <1>14 DEF U
<1>16. ASSUME NEW j \in Nat, j \in U
       PROVE  j + 1 \in U
  <2>0. side[m + j] = <<A[m], A[m]>>
    BY <1>16 DEF U
  <2>1. m + j \in Nat /\ m + (j + 1) = (m + j) + 1 /\ j + 1 \in Nat
    OBVIOUS
  <2> DEFINE c == <<A[m], A[m]>>
  <2>2. c \in Node \X Node /\ c[1] = c[2]
    OBVIOUS
  <2>3. round[c] = c
    BY <2>2, <1>1
  <2>4. side[(m + j) + 1] = round[side[m + j]]
    BY <2>1, <1>11
  <2>5. QED  BY <2>0, <2>1, <2>3, <2>4 DEF U
<1>17. nodes - m \in Nat /\ m + (nodes - m) = nodes
  BY NodesAssumption
<1>18. nodes - m \in U
  BY <1>15, <1>16, <1>17, SetInduction
<1>19. QED  BY <1>7, <1>17, <1>18 DEF U

\* The nodes the entries lead to from x, and how many until the root.
Chain(a, x) ==
  /\ a \in [Nat -> Node] /\ a[0] = x
  /\ \A k \in Nat : a[k + 1] = IF path_table[a[k]] = <<>> THEN a[k] ELSE Last(path_table[a[k]])

Top(a, l) == /\ path_table[a[l]] = <<>>
             /\ \A k \in Nat : k < l => path_table[a[k]] # <<>>

Simple(a, l) == \A j, k \in 0 .. l : a[j] = a[k] => j = k

\* Two chains that share a node are one from there on.
LEMMA ChainsJoin ==
  ASSUME NEW x, NEW y, NEW a, NEW b, Chain(a, x), Chain(b, y),
         NEW la \in Nat, NEW lb \in Nat, Top(a, la), Top(b, lb),
         NEW k \in 0 .. la, NEW l \in 0 .. lb, a[k] = b[l]
  PROVE  la - k = lb - l
<1>0. k \in Nat /\ l \in Nat /\ k <= la /\ l <= lb
  OBVIOUS
<1> DEFINE T == {t \in Nat : a[k + t] = b[l + t]}
<1> HIDE DEF T
<1>1. 0 \in T
  <2>1. k + 0 = k /\ l + 0 = l
    BY <1>0
  <2>2. QED  BY <2>1 DEF T
<1>2. ASSUME NEW t \in Nat, t \in T
      PROVE  t + 1 \in T
  <2>0. a[k + t] = b[l + t]
    BY <1>2 DEF T
  <2>1. /\ k + t \in Nat /\ l + t \in Nat /\ t + 1 \in Nat
        /\ k + (t + 1) = (k + t) + 1 /\ l + (t + 1) = (l + t) + 1
    BY <1>0
  <2>2. /\ a[(k + t) + 1] = IF path_table[a[k + t]] = <<>> THEN a[k + t] ELSE Last(path_table[a[k + t]])
        /\ b[(l + t) + 1] = IF path_table[b[l + t]] = <<>> THEN b[l + t] ELSE Last(path_table[b[l + t]])
    BY <2>1 DEF Chain
  <2>3. QED  BY <2>0, <2>1, <2>2 DEF T
<1>3. \A t \in Nat : a[k + t] = b[l + t]
  <2>1. \A t \in Nat : t \in T
    BY <1>1, <1>2, SetInduction
  <2>2. QED  BY <2>1 DEF T
<1>4. CASE la - k <= lb - l
  <2>1. la - k \in Nat /\ k + (la - k) = la /\ l + (la - k) \in Nat
    BY <1>0
  <2>2. a[la] = b[l + (la - k)]
    BY <2>1, <1>3
  <2>3. path_table[b[l + (la - k)]] = <<>>
    BY <2>2 DEF Top
  <2>4. ~(l + (la - k) < lb)
    BY <2>1, <2>3 DEF Top
  <2>5. QED  BY <2>1, <2>4, <1>0, <1>4
<1>5. CASE lb - l < la - k
  <2>1. lb - l \in Nat /\ l + (lb - l) = lb /\ k + (lb - l) \in Nat
    BY <1>0
  <2>2. a[k + (lb - l)] = b[lb]
    BY <2>1, <1>3
  <2>3. path_table[a[k + (lb - l)]] = <<>>
    BY <2>2 DEF Top
  <2>4. ~(k + (lb - l) < la)
    BY <2>1, <2>3 DEF Top
  <2>5. QED  BY <2>1, <2>4, <1>0, <1>5
<1>6. QED  BY <1>0, <1>4, <1>5

\* A chain that visits no node twice is not longer than there are nodes.
LEMMA ShortChain ==
  ASSUME NEW a \in [Nat -> Node], NEW l \in Nat, Simple(a, l), NEW k \in Nat, k <= l
  PROVE  k <= nodes
<1> DEFINE s == [i \in 1 .. k |-> a[i - 1]]
<1>1. \A i \in 1 .. k : i - 1 \in Nat /\ i - 1 \in 0 .. l
  OBVIOUS
<1>2. s \in Seq(0 .. (nodes - 1)) /\ Len(s) = k /\ DOMAIN s = 1 .. k
  BY <1>1 DEF Node
<1>3. ASSUME NEW i \in 1 .. k, NEW j \in 1 .. k, s[i] = s[j]
      PROVE  i = j
  <2>1. i - 1 = j - 1
    BY <1>1, <1>3 DEF Simple
  <2>2. QED  BY <2>1
<1>4. IsInjective(s)
  BY <1>2, <1>3 DEF IsInjective
<1> HIDE DEF s
<1>5. QED  BY <1>2, <1>4, NodesAssumption, InjectiveLen

\* a[i] = b[j] is the first node that the chains share.
FirstShared(a, la, b, lb, i, j) ==
  /\ i \in 0 .. la /\ j \in 0 .. lb /\ a[i] = b[j]
  /\ \A k \in 0 .. la, l \in 0 .. lb : a[k] = b[l] => i <= k

\* The chase comes to it.
LEMMA ChaseMeets ==
  ASSUME path_table \in [Node -> Seq(Node)], NEW v \in Node, NEW w \in Node,
         NEW a, NEW b, Chain(a, v), Chain(b, w),
         NEW la \in Nat, NEW lb \in Nat, Top(a, la), Top(b, lb),
         Simple(a, la), Simple(b, lb), NEW i, NEW j, FirstShared(a, la, b, lb, i, j)
  PROVE  Chased(v, w) = <<a[i], a[i]>>
<1>0. /\ i \in Nat /\ i <= la /\ j \in Nat /\ j <= lb /\ a[i] = b[j]
      /\ i \in 0 .. la /\ j \in 0 .. lb
  BY DEF FirstShared
<1>1. la - i = lb - j
  BY <1>0, ChainsJoin
<1>2. ASSUME NEW k \in 0 .. la, NEW l \in 0 .. lb, a[k] = b[l]
      PROVE  i <= k /\ j <= l /\ k - i = l - j
  <2>1. la - k = lb - l
    BY <1>2, ChainsJoin
  <2>2. i <= k
    BY <1>2 DEF FirstShared
  <2>3. QED  BY <2>1, <2>2, <1>0, <1>1
<1>3. /\ a \in [Nat -> Node] /\ b \in [Nat -> Node] /\ a[0] = v /\ b[0] = w
      /\ \A k \in Nat : k < la => a[k + 1] = Last(path_table[a[k]]) /\ path_table[a[k]] # <<>>
      /\ \A k \in Nat : k < lb => b[k + 1] = Last(path_table[b[k]]) /\ path_table[b[k]] # <<>>
      /\ path_table[a[la]] = <<>> /\ path_table[b[lb]] = <<>>
  BY DEF Chain, Top
<1> DEFINE A == [k \in Nat |-> IF k <= la THEN a[k] ELSE b[k - la - 1]]
           B == [k \in Nat |-> IF k <= lb THEN b[k] ELSE a[k - lb - 1]]
<1>4. A \in [Nat -> Node] /\ B \in [Nat -> Node]
  <2>1. \A k \in Nat : ~(k <= la) => k - la - 1 \in Nat
    OBVIOUS
  <2>2. \A k \in Nat : ~(k <= lb) => k - lb - 1 \in Nat
    OBVIOUS
  <2>3. QED  BY <2>1, <2>2, <1>3
<1>5. A[0] = v /\ B[0] = w
  BY <1>3
<1>6. ASSUME NEW k \in Nat, k <= la + lb + 1
      PROVE  /\ k <= la => A[k] = a[k]
             /\ k > la => A[k] = b[k - la - 1] /\ k - la - 1 \in 0 .. lb
             /\ k <= lb => B[k] = b[k]
             /\ k > lb => B[k] = a[k - lb - 1] /\ k - lb - 1 \in 0 .. la
  BY <1>6
<1> HIDE DEF A, B
<1>7. CASE i = j
  <2>1. la = lb
    BY <1>0, <1>1, <1>7
  <2>2. A[i] = a[i] /\ B[i] = b[i] /\ A[i] = B[i]
    BY <1>0, <1>6, <1>7
  <2>3. i <= nodes
    BY <1>0, <1>3, ShortChain
  <2>4. ASSUME NEW k \in Nat, k < i
        PROVE  A[k] # B[k] /\ A[k + 1] = Follow(A[k], w) /\ B[k + 1] = Follow(B[k], v)
    <3>1. /\ k + 1 \in Nat /\ k + 1 <= la /\ k + 1 <= lb /\ k < la /\ k < lb
          /\ k \in 0 .. la /\ k \in 0 .. lb
      BY <2>4, <2>1, <1>0
    <3>2. A[k] = a[k] /\ B[k] = b[k] /\ A[k + 1] = a[k + 1] /\ B[k + 1] = b[k + 1]
      BY <3>1, <1>6
    <3>3. a[k] # b[k]
      BY <3>1, <2>4, <1>0, <1>2
    <3>4. QED  BY <3>1, <3>2, <3>3, <1>3 DEF Follow
  <2>5. Chased(v, w) = <<A[i], A[i]>>
    BY <2>2, <2>3, <2>4, <1>0, <1>4, <1>5, ChaseRuns
  <2>6. QED  BY <2>2, <2>5
<1>8. CASE i # j
  <2> DEFINE m == la + 1 + j
  <2>1. /\ m \in Nat /\ m = lb + 1 + i /\ m <= la + lb + 1 /\ m > la /\ m > lb
        /\ m - la - 1 = j /\ m - lb - 1 = i
    BY <1>0, <1>1
  <2> HIDE DEF m
  <2>2. A[m] = b[j] /\ B[m] = a[i]
    BY <2>1, <1>6
  <2>3. ASSUME NEW k \in Nat, k < m
        PROVE  A[k] # B[k]
    <3>1. k <= la + lb + 1 /\ k \in 0 .. (la + lb + 1)
      BY <2>1, <2>3
    <3>2. CASE k <= la /\ k <= lb
      <4>1. A[k] = a[k] /\ B[k] = b[k] /\ k \in 0 .. la /\ k \in 0 .. lb
        BY <3>1, <3>2, <1>6
      <4>2. QED  BY <4>1, <1>0, <1>2, <1>8
    <3>3. CASE k <= la /\ k > lb
      <4>1. /\ A[k] = a[k] /\ B[k] = a[k - lb - 1] /\ k \in 0 .. la /\ k - lb - 1 \in 0 .. la
            /\ k # k - lb - 1
        BY <3>1, <3>3, <1>6
      <4>2. QED  BY <4>1 DEF Simple
    <3>4. CASE k > la /\ k <= lb
      <4>1. /\ A[k] = b[k - la - 1] /\ B[k] = b[k] /\ k \in 0 .. lb /\ k - la - 1 \in 0 .. lb
            /\ k # k - la - 1
        BY <3>1, <3>4, <1>6
      <4>2. QED  BY <4>1 DEF Simple
    <3>5. CASE k > la /\ k > lb
      <4>1. /\ A[k] = b[k - la - 1] /\ k - la - 1 \in 0 .. lb
            /\ B[k] = a[k - lb - 1] /\ k - lb - 1 \in 0 .. la
        BY <3>1, <3>5, <1>6
      <4>2. k - lb - 1 < i
        BY <2>1, <2>3, <1>0
      <4>3. ASSUME A[k] = B[k] PROVE FALSE
        <5>1. i <= k - lb - 1
          BY <4>1, <4>3, <1>2
        <5>2. QED  BY <5>1, <4>1, <4>2, <1>0
      <4>4. QED  BY <4>3
    <3>6. QED  BY <3>2, <3>3, <3>4, <3>5
  <2>4. ASSUME NEW k \in Nat, k < m
        PROVE  A[k + 1] = Follow(A[k], w)
    <3>1. k + 1 \in Nat /\ k + 1 <= la + lb + 1 /\ k <= la + lb + 1
      BY <2>1, <2>4
    <3>2. CASE k < la
      <4>0. k <= la /\ k + 1 <= la
        BY <3>2
      <4>1. A[k] = a[k] /\ A[k + 1] = a[k + 1]
        BY <4>0, <3>1, <1>6
      <4>2. QED  BY <4>1, <3>2, <1>3 DEF Follow
    <3>3. CASE k = la
      <4>0. k <= la /\ k + 1 > la /\ k + 1 - la - 1 = 0
        BY <3>3
      <4>1. A[k] = a[la] /\ A[k + 1] = b[0]
        <5>1. A[k] = a[k] /\ A[k + 1] = b[k + 1 - la - 1]
          BY <4>0, <3>1, <1>6
        <5>2. QED  BY <5>1, <4>0, <3>3
      <4>2. QED  BY <4>1, <1>3 DEF Follow
    <3>4. CASE k > la
      <4>1. PICK l \in Nat : l = k - la - 1
        BY <3>4
      <4>2. A[k] = b[l] /\ A[k + 1] = b[l + 1] /\ l < lb
        <5>1. A[k] = b[k - la - 1] /\ A[k + 1] = b[k + 1 - la - 1]
          BY <3>1, <3>4, <1>6
        <5>2. k + 1 - la - 1 = l + 1 /\ l < lb
          BY <4>1, <3>4, <2>4, <1>0 DEF m
        <5>3. QED  BY <4>1, <5>1, <5>2
      <4>3. QED  BY <4>2, <1>3 DEF Follow
    <3>5. QED  BY <3>2, <3>3, <3>4
  <2>5. ASSUME NEW k \in Nat, k < m
        PROVE  B[k + 1] = Follow(B[k], v)
    <3>1. k + 1 \in Nat /\ k + 1 <= la + lb + 1 /\ k <= la + lb + 1
      BY <2>1, <2>5
    <3>2. CASE k < lb
      <4>1. B[k] = b[k] /\ B[k + 1] = b[k + 1]
        BY SMTT(30), <3>1, <3>2, <1>6
      <4>2. QED  BY <4>1, <3>2, <1>3 DEF Follow
    <3>3. CASE k = lb
      <4>0. k <= lb /\ k + 1 > lb /\ k + 1 - lb - 1 = 0
        BY <3>3
      <4>1. B[k] = b[lb] /\ B[k + 1] = a[0]
        <5>1. B[k] = b[k] /\ B[k + 1] = a[k + 1 - lb - 1]
          BY <4>0, <3>1, <1>6
        <5>2. QED  BY <5>1, <4>0, <3>3
      <4>2. QED  BY <4>1, <1>3 DEF Follow
    <3>4. CASE k > lb
      <4>1. PICK l \in Nat : l = k - lb - 1
        BY <3>4
      <4>2. B[k] = a[l] /\ B[k + 1] = a[l + 1] /\ l < la
        <5>1. B[k] = a[k - lb - 1] /\ B[k + 1] = a[k + 1 - lb - 1]
          BY <3>1, <3>4, <1>6
        <5>2. k + 1 - lb - 1 = l + 1 /\ l < la
          BY <4>1, <3>4, <2>1, <2>5, <1>0
        <5>3. QED  BY <4>1, <5>1, <5>2
      <4>3. QED  BY <4>2, <1>3 DEF Follow
    <3>5. QED  BY <3>2, <3>3, <3>4
  <2>6. m <= nodes
    <3> DEFINE s == [k \in 1 .. m |-> A[k - 1]]
    <3>1. \A k \in 1 .. m : k - 1 \in Nat /\ A[k - 1] \in Node
      BY <2>1, <1>4
    <3>2. s \in Seq(Node) /\ Len(s) = m /\ DOMAIN s = 1 .. m
      <4>1. m \in Nat
        BY <2>1
      <4>2. QED  BY <3>1, <4>1
    <3>3. ASSUME NEW k \in 1 .. m, NEW l \in 1 .. m, s[k] = s[l], k < l
          PROVE  FALSE
      <4>1. k - 1 \in Nat /\ l - 1 \in Nat /\ k - 1 <= la + lb + 1 /\ l - 1 <= la + lb + 1
        BY SMTT(30), <2>1
      <4>2. A[k - 1] = A[l - 1]
        BY <3>3
      <4>3. CASE l - 1 <= la
        <5>1. /\ A[k - 1] = a[k - 1] /\ A[l - 1] = a[l - 1] /\ k - 1 \in 0 .. la /\ l - 1 \in 0 .. la
              /\ k - 1 # l - 1
          BY <4>1, <4>3, <3>3, <1>6
        <5>2. QED  BY <5>1, <4>2, <3>3 DEF Simple
      <4>4. CASE k - 1 > la
        <5>1. /\ A[k - 1] = b[k - 1 - la - 1] /\ A[l - 1] = b[l - 1 - la - 1]
              /\ k - 1 - la - 1 \in 0 .. lb /\ l - 1 - la - 1 \in 0 .. lb
              /\ k - 1 - la - 1 # l - 1 - la - 1
          BY <4>1, <4>4, <3>3, <1>6
        <5>2. QED  BY <5>1, <4>2 DEF Simple
      <4>5. CASE k - 1 <= la /\ l - 1 > la
        <5>1. /\ A[k - 1] = a[k - 1] /\ A[l - 1] = b[l - 1 - la - 1]
              /\ k - 1 \in 0 .. la /\ l - 1 - la - 1 \in 0 .. lb
          BY <4>1, <4>5, <1>6
        <5>2. j <= l - 1 - la - 1
          BY <5>1, <4>2, <1>2
        <5>3. l <= la + 1 + j
          BY DEF m
        <5>4. QED  BY <5>2, <5>3, <1>0
      <4>6. QED  BY <4>1, <4>3, <4>4, <4>5
    <3>4. IsInjective(s)
      <4>1. ASSUME NEW k \in 1 .. m, NEW l \in 1 .. m, s[k] = s[l]
            PROVE  k = l
        BY <2>1, <3>3, <4>1
      <4>2. QED  BY <4>1, <3>2 DEF IsInjective
    <3> HIDE DEF s
    <3>5. s \in Seq(0 .. (nodes - 1))
      BY <3>2 DEF Node
    <3>6. QED  BY <3>2, <3>4, <3>5, NodesAssumption, InjectiveLen
  <2>7. A[m] = B[m]
    BY <2>2, <1>0
  <2>8. Chased(v, w) = <<A[m], A[m]>>
    BY ZenonT(30), <2>1, <2>3, <2>4, <2>5, <2>6, <2>7, <1>4, <1>5, ChaseRuns
  <2>9. QED  BY <2>2, <2>8, <1>0
<1>9. QED  BY <1>7, <1>8

-----------------------------------------------------------------------------
(***************************************************************************)
(* The walks of even nodes, round by round.                                *)
(***************************************************************************)
Hanging == ForestTypeOK /\ LegalForest /\ EntriesLong(path_table) /\ LinksEven

\* What a legal walk is.
LEMMA EvenWalk ==
  ASSUME ForestTypeOK, NEW x \in Node, EvenWalkLegal(x)
  PROVE  /\ Walk(path_table, x) \in Path /\ Walk(path_table, x) \in Seq(Node)
         /\ Walk(path_table, x)[1] = x /\ Last(Walk(path_table, x)) = belongs[x]
         /\ IsInjective(Walk(path_table, x))
         /\ Len(Walk(path_table, x)) \in Nat /\ Len(Walk(path_table, x)) % 2 = 1
         /\ Len(Walk(path_table, x)) <= nodes
         /\ M[belongs[x]] = NoNode
         /\ \A y \in Range(Walk(path_table, x)) : belongs[y] = belongs[x]
<1> DEFINE p == Walk(path_table, x)
<1>1. path_table \in [Node -> Seq(Node)]
  BY DEF ForestTypeOK
<1>2. p \in Path /\ p \in Seq(Node) /\ p[1] = x
  BY <1>1, WalkType
<1>3. /\ IsEvenWalk(adj, M, p) /\ Last(p) = belongs[x]
      /\ \A y \in Range(p) : belongs[y] = belongs[x]
  BY DEF EvenWalkLegal
<1>4. IsInjective(p) /\ Len(p) % 2 = 1 /\ M[belongs[x]] = NoNode
  BY <1>3 DEF IsEvenWalk
<1>5. Len(p) \in Nat
  BY <1>2, LenProperties
<1> HIDE DEF p
<1>6. Len(p) <= nodes
  <2>1. p \in Seq(0 .. (nodes - 1))
    BY <1>2 DEF Node
  <2>2. QED  BY <2>1, <1>4, NodesAssumption, InjectiveLen
<1>7. QED  BY <1>2, <1>3, <1>4, <1>5, <1>6 DEF p

\* The rounds w of x and the nodes a they come to; after l rounds it is the root.
Anchored(w, a, l, x) ==
  /\ w \in [Nat -> Path] /\ Rounds(w, path_table, x)
  /\ \A k \in Nat : a[k] = Last(w[k])
  /\ l \in Nat /\ l <= MaxHops
  /\ Chain(a, x) /\ Top(a, l) /\ Simple(a, l)
  /\ \A k \in Nat : k >= l => w[k] = w[l]
  /\ \A k \in Nat : /\ a[k] \in EvenNodes /\ belongs[a[k]] = belongs[x]
                    /\ Len(w[k]) \in Nat \ {0} /\ Len(w[k]) % 2 = 1
                    /\ Walk(path_table, x) = Link(w[k], Walk(path_table, a[k]))
  /\ Walk(path_table, x) = w[l]
  /\ \A j, k \in Nat : j < k /\ k <= l => Len(w[j]) < Len(w[k])

\* An even node is followed by anchors: its walk hops from one even node to the
\* next.
LEMMA EvenAnchors ==
  ASSUME Hanging, NEW x \in EvenNodes
  PROVE  \E w, a, l : Anchored(w, a, l, x)
<1>0. /\ x \in Node /\ EvenNode(x) /\ ForestTypeOK /\ path_table \in [Node -> Seq(Node)]
      /\ EntriesLong(path_table)
  BY DEF Hanging, EvenNodes, ForestTypeOK
<1>1. EvenWalkLegal(x)
  BY <1>0 DEF Hanging, LegalForest, EvenNode
<1>2. PICK w \in [Nat -> Path] : Rounds(w, path_table, x) /\ Walk(path_table, x) = w[MaxHops]
  BY <1>0, WalkRounds
<1>3. MaxHops \in Nat
  BY NodesAssumption DEF MaxHops
<1>4. Len(w[MaxHops]) <= nodes /\ IsInjective(w[MaxHops]) /\ Len(w[MaxHops]) % 2 = 1
  BY <1>0, <1>1, <1>2, EvenWalk
<1>5. PICK l \in Nat : /\ l <= MaxHops - 1 /\ Ends(w, path_table, l)
                       /\ \A k \in Nat : k >= l => w[k] = w[MaxHops]
  <2>1. \E l \in Nat : /\ l <= MaxHops - 1 /\ Ends(w, path_table, l)
                       /\ \A k \in Nat : k >= l => w[k] = w[MaxHops]
    BY <1>0, <1>2, <1>4, WalkEnds
  <2>2. QED  BY <2>1
<1>6. l <= MaxHops /\ w[l] = w[MaxHops] /\ \A k \in Nat : k >= l => w[k] = w[l]
  BY <1>3, <1>5
<1> DEFINE a == [k \in Nat |-> Last(w[k])]
<1>7. ASSUME NEW k \in Nat
      PROVE  /\ w[k] \in Path /\ a[k] = Last(w[k]) /\ a[k] \in Node /\ a[k] \in Range(w[k])
             /\ w[k + 1] = w[k] \o path_table[a[k]]
             /\ a[k + 1] = IF path_table[a[k]] = <<>> THEN a[k] ELSE Last(path_table[a[k]])
             /\ Len(w[k + 1]) = Len(w[k]) + Len(path_table[a[k]])
             /\ Len(w[k]) \in Nat \ {0} /\ Len(path_table[a[k]]) \in Nat
             /\ path_table[a[k]] \in Seq(Node)
  <2>1. w[k] \in Path /\ a[k] = Last(w[k]) /\ w[k + 1] = w[k] \o path_table[Last(w[k])]
    BY <1>2 DEF Rounds
  <2>2. Last(w[k]) \in Node /\ Last(w[k]) \in Range(w[k])
        /\ Len(w[k] \o path_table[Last(w[k])]) = Len(w[k]) + Len(path_table[Last(w[k])])
    BY <2>1, <1>0, PathGrows
  <2>3. path_table[Last(w[k])] \in Seq(Node)
    BY <2>2, <1>0
  <2>4. Len(path_table[Last(w[k])]) \in Nat /\ Len(w[k]) \in Nat \ {0}
    BY <2>1, <2>3, LenProperties, EmptySeq DEF Path
  <2>5. Last(w[k + 1]) = IF path_table[Last(w[k])] = <<>> THEN Last(w[k]) ELSE Last(path_table[Last(w[k])])
    BY <2>1, <1>0, LastGrows
  <2>6. a[k + 1] = Last(w[k + 1])
    OBVIOUS
  <2>7. QED  BY <2>1, <2>2, <2>3, <2>4, <2>5, <2>6
<1>8. a[0] = x
  <2>1. w[0] = <<x>> /\ Last(<<x>>) = x
    BY <1>2 DEF Rounds, Last
  <2>2. QED  BY <2>1
<1>9. Top(a, l)
  BY <1>5 DEF Ends, Top
<1>10. a \in [Nat -> Node]
  BY <1>7
<1> HIDE DEF a
<1>11. Chain(a, x)
  BY <1>7, <1>8, <1>10 DEF Chain
<1>12. ASSUME NEW k \in Nat
       PROVE  a[k] \in EvenNodes
  <2> DEFINE T == {j \in Nat : a[j] \in EvenNodes}
  <2> HIDE DEF T
  <2>1. 0 \in T
    BY <1>8 DEF T
  <2>2. ASSUME NEW j \in Nat, j \in T
        PROVE  j + 1 \in T
    <3>1. a[j] \in EvenNodes /\ j + 1 \in Nat
      BY <2>2 DEF T
    <3>2. path_table[a[j]] # <<>> => Last(path_table[a[j]]) \in EvenNodes
      BY <3>1 DEF Hanging, LinksEven
    <3>3. a[j + 1] \in EvenNodes
      BY <3>1, <3>2, <1>7
    <3>4. QED  BY <3>1, <3>3 DEF T
  <2>3. \A j \in Nat : j \in T
    BY <2>1, <2>2, SetInduction
  <2>4. QED  BY <2>3 DEF T
<1>13. ASSUME NEW k \in Nat
       PROVE  Walk(path_table, x) = Link(w[k], Walk(path_table, a[k]))
  <2>1. Walk(path_table, x) = w[l] /\ Walk(path_table, x) = Link(w[k], Walk(path_table, Last(w[k])))
    BY <1>0, <1>2, <1>5, <1>6, WalkLink
  <2>2. QED  BY <2>1, <1>7
<1>14. ASSUME NEW k \in Nat
       PROVE  belongs[a[k]] = belongs[x] /\ Len(w[k]) % 2 = 1
              /\ \A i \in 1 .. Len(w[k]) : Walk(path_table, x)[i] = w[k][i]
  <2> DEFINE q == Walk(path_table, a[k])
  <2>1. EvenWalkLegal(a[k]) /\ a[k] \in Node
    BY <1>12 DEF EvenNodes, Hanging, LegalForest, EvenNode
  <2>2. q \in Path /\ q[1] = a[k] /\ Len(q) \in Nat /\ Len(q) % 2 = 1 /\ Last(q) = belongs[a[k]]
    BY <2>1, <1>0, EvenWalk
  <2>3. /\ Len(Walk(path_table, x)) \in Nat /\ Len(Walk(path_table, x)) % 2 = 1
        /\ \A y \in Range(Walk(path_table, x)) : belongs[y] = belongs[x]
    BY <1>0, <1>1, EvenWalk
  <2> HIDE DEF q
  <2>4. /\ Len(Link(w[k], q)) = Len(w[k]) + Len(q) - 1
        /\ \A i \in 1 .. Len(w[k]) : Link(w[k], q)[i] = w[k][i]
        /\ Range(Link(w[k], q)) = Range(w[k]) \cup Range(q)
    <3>1. w[k] \in Path /\ Last(w[k]) = q[1] /\ q \in Path
      BY <2>2, <1>7
    <3>2. QED  BY <3>1, LinkFacts
  <2>5. Walk(path_table, x) = Link(w[k], q)
    BY <1>13 DEF q
  <2>6. Len(w[k]) % 2 = 1
    <3>1. \A m, n \in Nat : n % 2 = 1 /\ (m + n - 1) % 2 = 1 => m % 2 = 1
      OBVIOUS
    <3>2. Len(w[k]) \in Nat
      BY <1>7
    <3>3. QED  BY <3>1, <3>2, <2>2, <2>3, <2>4, <2>5
  <2>7. belongs[a[k]] = belongs[x]
    BY <2>3, <2>4, <2>5, <1>7
  <2>8. QED  BY <2>4, <2>5, <2>6, <2>7
<1>15. ASSUME NEW j \in Nat, NEW k \in Nat, j < k, k <= l
       PROVE  Len(w[j]) < Len(w[k])
  <2> DEFINE T == {d \in Nat : j + (d + 1) <= l => Len(w[j]) < Len(w[j + (d + 1)])}
  <2> HIDE DEF T
  <2>0. ASSUME NEW i \in Nat, i < l
        PROVE  Len(w[i]) < Len(w[i + 1])
    <3>1. path_table[a[i]] # <<>>
      BY <2>0, <1>9 DEF Top
    <3>2. /\ Len(w[i + 1]) = Len(w[i]) + Len(path_table[a[i]])
          /\ Len(w[i]) \in Nat \ {0} /\ Len(path_table[a[i]]) \in Nat
          /\ path_table[a[i]] \in Seq(Node)
      BY <1>7
    <3>3. Len(path_table[a[i]]) # 0
      BY <3>1, <3>2, EmptySeq
    <3>4. QED  BY <3>2, <3>3
  <2>1. 0 \in T
    <3>1. j + (0 + 1) <= l => j < l
      OBVIOUS
    <3>2. j + (0 + 1) = j + 1
      OBVIOUS
    <3>3. QED  BY <3>1, <3>2, <2>0 DEF T
  <2>2. ASSUME NEW d \in Nat, d \in T
        PROVE  d + 1 \in T
    <3>1. SUFFICES ASSUME j + ((d + 1) + 1) <= l
                   PROVE  Len(w[j]) < Len(w[j + ((d + 1) + 1)])
      <4>1. d + 1 \in Nat
        OBVIOUS
      <4>2. QED  BY <4>1 DEF T
    <3>2. /\ j + (d + 1) \in Nat /\ j + (d + 1) < l /\ j + (d + 1) <= l
          /\ j + ((d + 1) + 1) = (j + (d + 1)) + 1 /\ j + ((d + 1) + 1) \in Nat
      BY <3>1
    <3>3. Len(w[j]) < Len(w[j + (d + 1)])
      BY <3>2, <2>2 DEF T
    <3>4. Len(w[j + (d + 1)]) < Len(w[(j + (d + 1)) + 1])
      BY <3>2, <2>0
    <3>5. Len(w[j]) \in Nat /\ Len(w[j + (d + 1)]) \in Nat /\ Len(w[(j + (d + 1)) + 1]) \in Nat
      BY <3>2, <1>7
    <3>6. QED  BY <3>2, <3>3, <3>4, <3>5
  <2>3. \A d \in Nat : d \in T
    BY <2>1, <2>2, SetInduction
  <2>4. k - j - 1 \in Nat /\ j + ((k - j - 1) + 1) = k
    BY <1>15
  <2>5. k - j - 1 \in T
    BY <2>3, <2>4
  <2>6. QED  BY <2>4, <2>5, <1>15 DEF T
<1>16. Simple(a, l)
  <2>1. ASSUME NEW j \in 0 .. l, NEW k \in 0 .. l, a[j] = a[k], j < k
        PROVE  FALSE
    <3>1. j \in Nat /\ k \in Nat /\ k <= l
      OBVIOUS
    <3>2. Len(w[j]) < Len(w[k]) /\ Len(w[j]) \in Nat \ {0} /\ Len(w[k]) \in Nat \ {0}
      BY <3>1, <2>1, <1>7, <1>15
    <3>3. Walk(path_table, x)[Len(w[j])] = a[j] /\ Walk(path_table, x)[Len(w[k])] = a[k]
      <4>1. Len(w[j]) \in 1 .. Len(w[j]) /\ Len(w[k]) \in 1 .. Len(w[k])
        BY <3>2
      <4>2. a[j] = w[j][Len(w[j])] /\ a[k] = w[k][Len(w[k])]
        BY <3>1, <1>7 DEF Last
      <4>3. QED  BY <4>1, <4>2, <3>1, <1>14
    <3> DEFINE p == Walk(path_table, x)
    <3>4. p = w[l] /\ p \in Path /\ IsInjective(p)
      BY <1>2, <1>4, <1>6
    <3>5. Len(w[k]) <= Len(p)
      <4>1. k = l \/ k < l
        BY <3>1
      <4>2. CASE k = l
        BY <4>2, <3>2, <3>4
      <4>3. CASE k < l
        <5>1. Len(w[k]) < Len(w[l]) /\ Len(w[l]) \in Nat
          BY <4>3, <3>1, <1>7, <1>15
        <5>2. QED  BY <5>1, <3>2, <3>4
      <4>4. QED  BY <4>1, <4>2, <4>3
    <3>6. Len(p) \in Nat /\ DOMAIN p = 1 .. Len(p)
      BY <3>4, LenProperties DEF Path
    <3>7. Len(w[j]) \in DOMAIN p /\ Len(w[k]) \in DOMAIN p
      BY <3>2, <3>5, <3>6
    <3> HIDE DEF p
    <3>8. p[Len(w[j])] = p[Len(w[k])]
      BY <3>3, <2>1 DEF p
    <3>9. Len(w[j]) = Len(w[k])
      BY <3>4, <3>7, <3>8 DEF IsInjective
    <3>10. QED  BY <3>2, <3>9
  <2>2. ASSUME NEW j \in 0 .. l, NEW k \in 0 .. l, a[j] = a[k]
        PROVE  j = k
    <3>1. ~(j < k) /\ ~(k < j)
      BY <2>1, <2>2
    <3>2. QED  BY <3>1
  <2>3. QED  BY <2>2 DEF Simple
<1>17. \A k \in Nat : a[k] = Last(w[k]) /\ Len(w[k]) \in Nat \ {0}
  BY <1>7
<1>18. Walk(path_table, x) = w[l]
  BY <1>2, <1>6
<1>19. Anchored(w, a, l, x)
  BY <1>2, <1>5, <1>6, <1>9, <1>11, <1>12, <1>13, <1>14, <1>15, <1>16, <1>17, <1>18 DEF Anchored
<1>20. QED  BY <1>19

\* The piece of the walk of x that k rounds make.
Piece(x, w, a, k) ==
  /\ w[k] \in Path /\ a[k] \in Node /\ Last(w[k]) = a[k] /\ w[k][1] = x
  /\ Len(w[k]) \in Nat \ {0} /\ Len(w[k]) % 2 = 1
  /\ Len(w[k]) <= Len(Walk(path_table, x))
  /\ \A i \in 1 .. Len(w[k]) : Walk(path_table, x)[i] = w[k][i]
  /\ Range(w[k]) \subseteq Range(Walk(path_table, x))
  /\ Range(Walk(path_table, x)) = Range(w[k]) \cup Range(Walk(path_table, a[k]))

\* Between two anchors the walk is the entry of the first of them.
LEMMA AnchoredPiece ==
  ASSUME Hanging, NEW x \in EvenNodes, NEW w, NEW a, NEW l, Anchored(w, a, l, x), NEW k \in Nat
  PROVE  Piece(x, w, a, k)
<1>1. /\ w \in [Nat -> Path] /\ a[k] = Last(w[k]) /\ a[k] \in EvenNodes
      /\ Len(w[k]) \in Nat \ {0} /\ Len(w[k]) % 2 = 1
      /\ Walk(path_table, x) = Link(w[k], Walk(path_table, a[k]))
  BY DEF Anchored
<1> DEFINE q == Walk(path_table, a[k])
<1>2. a[k] \in Node /\ EvenWalkLegal(a[k]) /\ ForestTypeOK
  BY <1>1 DEF EvenNodes, Hanging, LegalForest, EvenNode
<1>3. q \in Path /\ q[1] = a[k] /\ Len(q) \in Nat /\ Len(q) % 2 = 1
  BY <1>2, EvenWalk
<1> HIDE DEF q
<1>4. w[k] \in Path /\ Last(w[k]) = q[1]
  BY <1>1, <1>3
<1>5. /\ Len(Link(w[k], q)) = Len(w[k]) + Len(q) - 1
      /\ \A i \in 1 .. Len(w[k]) : Link(w[k], q)[i] = w[k][i]
      /\ Range(Link(w[k], q)) = Range(w[k]) \cup Range(q)
  BY <1>3, <1>4, LinkFacts
<1>6. Walk(path_table, x)[1] = x
  <2>1. x \in Node /\ path_table \in [Node -> Seq(Node)]
    BY <1>2 DEF EvenNodes, ForestTypeOK
  <2>2. QED  BY <2>1, WalkType
<1>7. 1 \in 1 .. Len(w[k])
  BY <1>1
<1>8. Len(q) >= 1
  BY <1>3
<1>9. Len(w[k]) <= Len(Link(w[k], q))
  BY <1>1, <1>3, <1>5, <1>8
<1>10. w[k][1] = x
  <2>1. Link(w[k], q)[1] = w[k][1]
    BY <1>5, <1>7
  <2>2. QED  BY <2>1, <1>1, <1>6 DEF q
<1>11. QED  BY <1>1, <1>2, <1>4, <1>5, <1>9, <1>10 DEF q, Piece

\* What is not even on a walk is in an entry.
LEMMA OddInEntry ==
  ASSUME Hanging, NEW x \in EvenNodes, NEW w, NEW a, NEW l, Anchored(w, a, l, x),
         NEW o, o \notin EvenNodes, NEW k \in Nat, o \in Range(w[k])
  PROVE  \E j \in Nat : j < k /\ o \in Range(path_table[a[j]])
<1> DEFINE T == {m \in Nat : o \in Range(w[m]) => \E j \in Nat : j < m /\ o \in Range(path_table[a[j]])}
<1> HIDE DEF T
<1>0. /\ w \in [Nat -> Path] /\ path_table \in [Node -> Seq(Node)] /\ Rounds(w, path_table, x)
      /\ \A m \in Nat : a[m] = Last(w[m])
  BY DEF Anchored, Hanging, ForestTypeOK
<1>1. 0 \in T
  <2>1. w[0] = <<x>> /\ Range(<<x>>) = {x}
    BY <1>0 DEF Rounds, Range
  <2>2. o \notin Range(w[0])
    BY <2>1
  <2>3. QED  BY <2>2 DEF T
<1>2. ASSUME NEW m \in Nat, m \in T
      PROVE  m + 1 \in T
  <2>1. m + 1 \in Nat /\ \A j \in Nat : j < m => j < m + 1
    OBVIOUS
  <2>2. w[m + 1] = w[m] \o path_table[Last(w[m])] /\ w[m] \in Path
    BY <1>0 DEF Rounds
  <2>3. Range(w[m] \o path_table[Last(w[m])]) = Range(w[m]) \cup Range(path_table[Last(w[m])])
    BY <2>2, <1>0, PathGrows
  <2>4. CASE o \in Range(w[m])
    <3>1. \E j \in Nat : j < m /\ o \in Range(path_table[a[j]])
      BY <2>4, <1>2 DEF T
    <3>2. QED  BY <3>1, <2>1 DEF T
  <2>5. CASE o \in Range(path_table[Last(w[m])])
    <3>1. m < m + 1 /\ o \in Range(path_table[a[m]])
      BY <2>5, <1>0
    <3>2. QED  BY <3>1, <2>1 DEF T
  <2>6. CASE o \notin Range(w[m + 1])
    BY <2>6, <2>1 DEF T
  <2>7. QED  BY <2>2, <2>3, <2>4, <2>5, <2>6
<1>3. k \in T
  <2>1. \A m \in Nat : m \in T
    BY <1>1, <1>2, SetInduction
  <2>2. QED  BY <2>1
<1>4. QED  BY <1>3 DEF T

\* An odd node stands behind the rounds before it, at an even place.
StandsBehind(o, w, j, k) ==
  /\ Len(w[j]) + 1 \in 2 .. (Len(w[k]) - 1) /\ (Len(w[j]) + 1) % 2 = 0
  /\ w[k][Len(w[j]) + 1] = o

\* An odd node on a walk stands right behind the anchor whose entry holds it.
LEMMA OddPlace ==
  ASSUME Hanging, OddsOnce({}), NEW x \in EvenNodes, NEW w, NEW a, NEW l, Anchored(w, a, l, x),
         NEW o \in StillOdd({}), NEW j \in Nat, NEW k \in Nat, j < k, k <= l,
         o \in Range(path_table[a[j]])
  PROVE  StandsBehind(o, w, j, k)
<1>0. /\ w \in [Nat -> Path] /\ path_table \in [Node -> Seq(Node)] /\ Rounds(w, path_table, x)
      /\ a[j] = Last(w[j]) /\ a[j] \in EvenNodes
      /\ \A h, i \in Nat : h < i /\ i <= l => Len(w[h]) < Len(w[i])
  BY DEF Anchored, Hanging, ForestTypeOK
<1>1. path_table[a[j]][1] = o
  BY <1>0 DEF OddsOnce
<1> DEFINE p == w[j]  e == path_table[a[j]]
<1>2. w[j + 1] = p \o e /\ p \in Path
  BY <1>0 DEF Rounds
<1>3. Last(p) \in Node /\ e \in Seq(Node) /\ p \in Seq(Node)
  <2>1. Last(p) \in Node
    BY <1>0, <1>2, PathGrows
  <2>2. QED  BY <2>1, <1>0, <1>2 DEF Path
<1>4. e # <<>>
  <2>1. \A i : i \notin DOMAIN <<>>
    OBVIOUS
  <2>2. Range(<<>>) = {}
    BY <2>1 DEF Range
  <2>3. QED  BY <2>2
<1> HIDE DEF p, e
<1>5. Len(p) \in Nat \ {0} /\ Len(e) \in Nat \ {0} /\ Len(p) % 2 = 1
  <2>1. Len(p) \in Nat \ {0} /\ Len(p) % 2 = 1
    <3>1. Piece(x, w, a, j)
      BY AnchoredPiece
    <3>2. QED  BY <3>1 DEF Piece, p
  <2>2. QED  BY <2>1, <1>3, <1>4, EmptySeq, LenProperties
<1>6. /\ Len(p \o e) = Len(p) + Len(e)
      /\ \A i \in 1 .. Len(p) + Len(e) : (p \o e)[i] = IF i <= Len(p) THEN p[i] ELSE e[i - Len(p)]
  BY <1>3, ConcatProperties
<1>7. Len(p) + 1 \in 1 .. Len(p) + Len(e) /\ ~(Len(p) + 1 <= Len(p)) /\ (Len(p) + 1) - Len(p) = 1
  BY <1>5
<1>8. w[j + 1][Len(p) + 1] = o /\ Len(p) + 1 <= Len(w[j + 1])
  <2>1. (p \o e)[Len(p) + 1] = e[1]
    BY <1>6, <1>7
  <2>2. QED  BY <2>1, <1>1, <1>2, <1>5, <1>6 DEF e
<1>9. /\ Len(w[j + 1]) \in Nat \ {0} /\ Len(w[k]) \in Nat \ {0} /\ Len(w[k]) % 2 = 1
      /\ \A i \in 1 .. Len(w[j + 1]) : Walk(path_table, x)[i] = w[j + 1][i]
      /\ \A i \in 1 .. Len(w[k]) : Walk(path_table, x)[i] = w[k][i]
  <2>1. j + 1 \in Nat
    OBVIOUS
  <2>2. Piece(x, w, a, j + 1) /\ Piece(x, w, a, k)
    BY <2>1, AnchoredPiece
  <2>3. QED  BY <2>2 DEF Piece
<1>10. Len(w[j + 1]) <= Len(w[k])
  <2>1. j + 1 = k \/ j + 1 < k
    OBVIOUS
  <2>2. CASE j + 1 = k
    BY <2>2, <1>9
  <2>3. CASE j + 1 < k
    <3>1. j + 1 \in Nat
      OBVIOUS
    <3>2. Len(w[j + 1]) < Len(w[k])
      BY <3>1, <2>3, <1>0
    <3>3. QED  BY <3>2, <1>9
  <2>4. QED  BY <2>1, <2>2, <2>3
<1>11. Len(p) + 1 <= Len(w[k]) /\ Len(p) + 1 \in 1 .. Len(w[j + 1]) /\ Len(p) + 1 \in 1 .. Len(w[k])
  BY <1>5, <1>8, <1>9, <1>10
<1>12. w[k][Len(p) + 1] = o
  BY <1>8, <1>9, <1>11
<1>13. (Len(p) + 1) % 2 = 0
  <2>1. \A n \in Nat : n % 2 = 1 => (n + 1) % 2 = 0
    OBVIOUS
  <2>2. QED  BY <2>1, <1>5
<1>14. Len(p) + 1 \in 2 .. (Len(w[k]) - 1)
  <2>1. Len(p) + 1 # Len(w[k])
    <3>1. \A m, n \in Nat : m % 2 = 0 /\ n % 2 = 1 => m # n
      OBVIOUS
    <3>2. Len(p) + 1 \in Nat /\ Len(w[k]) \in Nat
      BY <1>5, <1>9
    <3>3. QED  BY <3>1, <3>2, <1>9, <1>13
  <2>2. QED  BY <2>1, <1>5, <1>9, <1>11
<1>15. QED  BY <1>12, <1>13, <1>14 DEF p, StandsBehind

\* Two even nodes of a tree: their rounds, and the first node they share.
Meeting(v, w, wv, a, la, ww, b, lb, i, j) ==
  /\ Anchored(wv, a, la, v) /\ Anchored(ww, b, lb, w)
  /\ FirstShared(a, la, b, lb, i, j)

\* Seen from the other end it is the first one, too.
LEMMA MeetingTurned ==
  ASSUME NEW v, NEW w, NEW wv, NEW a, NEW la, NEW ww, NEW b, NEW lb, NEW i, NEW j,
         Meeting(v, w, wv, a, la, ww, b, lb, i, j)
  PROVE  Meeting(w, v, ww, b, lb, wv, a, la, j, i)
<1>1. /\ Chain(a, v) /\ Chain(b, w) /\ la \in Nat /\ lb \in Nat /\ Top(a, la) /\ Top(b, lb)
      /\ FirstShared(a, la, b, lb, i, j) /\ Anchored(wv, a, la, v) /\ Anchored(ww, b, lb, w)
  BY DEF Meeting, Anchored
<1>2. /\ i \in 0 .. la /\ j \in 0 .. lb /\ a[i] = b[j]
      /\ \A k \in 0 .. la, l \in 0 .. lb : a[k] = b[l] => i <= k
  BY <1>1 DEF FirstShared
<1>3. la - i = lb - j
  BY <1>1, <1>2, ChainsJoin
<1>4. ASSUME NEW l \in 0 .. lb, NEW k \in 0 .. la, b[l] = a[k]
      PROVE  j <= l
  <2>1. la - k = lb - l
    BY <1>1, <1>4, ChainsJoin
  <2>2. i <= k
    BY <1>2, <1>4
  <2>3. QED  BY <2>1, <2>2, <1>1, <1>2, <1>3
<1>5. FirstShared(b, lb, a, la, j, i)
  BY <1>2, <1>4 DEF FirstShared
<1>6. QED  BY <1>1, <1>5 DEF Meeting

\* A set of naturals that is not empty has a least element.
LEMMA LeastNat ==
  ASSUME NEW T \in SUBSET Nat, T # {}
  PROVE  \E n \in T : \A m \in T : n <= m
<1>1. \E x \in T : \A y \in T : ~(<<y, x>> \in OpToRel(<, Nat))
  BY NatLessThanWellFounded, WFMin
<1>2. PICK x \in T : \A y \in T : ~(<<y, x>> \in OpToRel(<, Nat))
  BY <1>1
<1>3. \A y \in T : ~(y < x)
  BY <1>2 DEF OpToRel
<1>4. QED  BY <1>3

\* Two walks of one tree have a first meeting: the root is on both.
LEMMA TheyMeet ==
  ASSUME Hanging, NEW v \in EvenNodes, NEW w \in EvenNodes, belongs[w] = belongs[v]
  PROVE  \E wv, a, la, ww, b, lb, i, j : Meeting(v, w, wv, a, la, ww, b, lb, i, j)
<1>1. PICK wv, a, la : Anchored(wv, a, la, v)
  BY EvenAnchors
<1>2. PICK ww, b, lb : Anchored(ww, b, lb, w)
  BY EvenAnchors
<1>3. la \in Nat /\ lb \in Nat
  BY <1>1, <1>2 DEF Anchored
<1>4. a[la] = belongs[v] /\ b[lb] = belongs[w]
  <2>1. a[la] = Last(Walk(path_table, v)) /\ b[lb] = Last(Walk(path_table, w))
    BY <1>1, <1>2, <1>3 DEF Anchored
  <2>2. EvenWalkLegal(v) /\ EvenWalkLegal(w)
    BY DEF EvenNodes, EvenNode, Hanging, LegalForest
  <2>3. QED  BY <2>1, <2>2 DEF EvenWalkLegal
<1> DEFINE T == {k \in 0 .. la : \E l \in 0 .. lb : a[k] = b[l]}
<1>5. la \in T
  BY <1>3, <1>4
<1>6. T \in SUBSET Nat
  BY <1>3
<1> HIDE DEF T
<1>7. PICK i \in T : \A k \in T : i <= k
  BY <1>5, <1>6, LeastNat
<1>8. i \in 0 .. la /\ \E l \in 0 .. lb : a[i] = b[l]
  BY <1>7 DEF T
<1>9. PICK j \in 0 .. lb : a[i] = b[j]
  BY <1>8
<1>10. \A k \in 0 .. la, l \in 0 .. lb : a[k] = b[l] => i <= k
  BY <1>7 DEF T
<1>11. FirstShared(a, la, b, lb, i, j)
  BY <1>8, <1>9, <1>10 DEF FirstShared
<1>12. Meeting(v, w, wv, a, la, ww, b, lb, i, j)
  BY <1>1, <1>2, <1>11 DEF Meeting
<1>13. QED  BY <1>12

\* One side of a blossom: p from v to the base, q from w.  An odd node on p is
\* on no walk from w.
Side(v, w, p, q, base) ==
  /\ p \in Path /\ q \in Path /\ base \in EvenNodes
  /\ p[1] = v /\ Last(p) = base /\ Last(q) = base
  /\ Len(p) \in Nat \ {0} /\ Len(p) % 2 = 1
  /\ Chased(v, w) = <<base, base>> /\ SegmentTo(v, base) = p
  /\ Walk(path_table, v) = Link(p, Walk(path_table, base))
  /\ \A o \in Range(p) \ EvenNodes :
       /\ o \in StillOdd({}) /\ o \notin Range(Walk(path_table, w))
       /\ \E m \in 2 .. (Len(p) - 1) : m % 2 = 0 /\ p[m] = o

\* What is before the meeting is an odd number of nodes that the other walk
\* avoids.
LEMMA MeetingSide ==
  ASSUME Hanging, OddsOnce({}), NEW v \in EvenNodes, NEW w \in EvenNodes,
         NEW wv, NEW a, NEW la, NEW ww, NEW b, NEW lb, NEW i, NEW j,
         Meeting(v, w, wv, a, la, ww, b, lb, i, j)
  PROVE  Side(v, w, wv[i], ww[j], a[i])
<1>1. /\ Anchored(wv, a, la, v) /\ Anchored(ww, b, lb, w) /\ FirstShared(a, la, b, lb, i, j)
  BY DEF Meeting
<1>2. /\ la \in Nat /\ lb \in Nat /\ la <= MaxHops /\ Chain(a, v) /\ Chain(b, w)
      /\ Top(a, la) /\ Top(b, lb) /\ Simple(a, la) /\ Simple(b, lb)
      /\ wv \in [Nat -> Path] /\ ww \in [Nat -> Path] /\ Rounds(wv, path_table, v)
      /\ Walk(path_table, w) = ww[lb]
      /\ \A k \in Nat : a[k] = Last(wv[k]) /\ a[k] \in EvenNodes
      /\ \A k \in Nat : b[k] = Last(ww[k]) /\ b[k] \in EvenNodes
  BY <1>1 DEF Anchored
<1>3. /\ i \in 0 .. la /\ j \in 0 .. lb /\ a[i] = b[j] /\ i \in Nat /\ j \in Nat
      /\ i <= la /\ j <= lb
      /\ \A k \in 0 .. la, l \in 0 .. lb : a[k] = b[l] => i <= k
  BY <1>1 DEF FirstShared
<1>4. v \in Node /\ w \in Node /\ path_table \in [Node -> Seq(Node)] /\ ForestTypeOK
  BY DEF EvenNodes, Hanging, ForestTypeOK
<1>5. Chased(v, w) = <<a[i], a[i]>>
  BY <1>1, <1>2, <1>4, ChaseMeets
<1>6. Piece(v, wv, a, i) /\ Piece(w, ww, b, j)
  BY <1>1, <1>3, AnchoredPiece
<1>7. SegmentTo(v, a[i]) = wv[i]
  <2>1. i <= MaxHops
    <3>1. MaxHops \in Nat
      BY NodesAssumption DEF MaxHops
    <3>2. QED  BY <3>1, <1>2, <1>3
  <2>2. ASSUME NEW k \in Nat, k < i
        PROVE  Last(wv[k]) # Last(wv[i])
    <3>1. k \in 0 .. la /\ k # i
      BY <2>2, <1>2, <1>3
    <3>2. a[k] # a[i]
      BY <3>1, <1>2, <1>3 DEF Simple
    <3>3. QED  BY <3>2, <1>2, <1>3
  <2>3. Last(wv[i]) = a[i]
    BY <1>2, <1>3
  <2>4. SegmentTo(v, Last(wv[i])) = wv[i]
    BY <2>1, <2>2, <1>2, <1>3, <1>4, SegmentExact
  <2>5. QED  BY <2>3, <2>4
<1>8. Walk(path_table, v) = Link(wv[i], Walk(path_table, a[i]))
  BY <1>1, <1>3 DEF Anchored
<1>9. ASSUME NEW o \in Range(wv[i]) \ EvenNodes
      PROVE  /\ o \in StillOdd({}) /\ o \notin Range(Walk(path_table, w))
             /\ \E m \in 2 .. (Len(wv[i]) - 1) : m % 2 = 0 /\ wv[i][m] = o
  <2>1. o \in Range(Walk(path_table, v))
    BY <1>6 DEF Piece
  <2>2. o \in StillOdd({})
    <3>1. EvenWalkLegal(v) /\ belongs[v] # NoNode
      BY DEF EvenNodes, EvenNode, Hanging, LegalForest
    <3>2. belongs[o] = belongs[v]
      BY <3>1, <2>1 DEF EvenWalkLegal
    <3>3. o \in Node
      <4>1. wv[i] \in Seq(Node)
        BY <1>6 DEF Piece, Path
      <4>2. QED  BY <4>1, ElementOfSeq DEF Range
    <3>4. is_even[o] # 1
      BY <3>1, <3>2, <3>3 DEF EvenNodes, EvenNode
    <3>5. is_even[o] = 0
      BY <3>3, <3>4, <1>4 DEF ForestTypeOK
    <3>6. QED  BY <3>1, <3>2, <3>3, <3>5 DEF StillOdd, OddNode
  <2>3. PICK h \in Nat : h < i /\ o \in Range(path_table[a[h]])
    BY <1>1, <1>3, OddInEntry
  <2>4. StandsBehind(o, wv, h, i)
    BY <1>1, <1>3, <2>2, <2>3, OddPlace
  <2>5. ASSUME o \in Range(Walk(path_table, w))
        PROVE  FALSE
    <3>1. PICK l \in Nat : l < lb /\ o \in Range(path_table[b[l]])
      BY <2>5, <1>1, <1>2, OddInEntry
    <3>2. a[h] = b[l]
      BY <2>2, <2>3, <3>1, <1>2 DEF OddsOnce
    <3>3. h \in 0 .. la /\ l \in 0 .. lb
      BY <2>3, <3>1, <1>2, <1>3
    <3>4. QED  BY <3>2, <3>3, <2>3, <1>3
  <2>6. QED  BY <2>2, <2>4, <2>5 DEF StandsBehind
<1>10. Last(wv[i]) = a[i] /\ Last(ww[j]) = a[i] /\ a[i] \in EvenNodes
  BY <1>2, <1>3
<1>11. QED  BY <1>5, <1>6, <1>7, <1>8, <1>9, <1>10 DEF Side, Piece

\* A blossom has two sides.
LEMMA BlossomSides ==
  ASSUME Hanging, OddsOnce({}), NEW v \in EvenNodes, NEW w \in EvenNodes, belongs[w] = belongs[v]
  PROVE  \E p, q, base : Side(v, w, p, q, base) /\ Side(w, v, q, p, base)
<1>1. PICK wv, a, la, ww, b, lb, i, j : Meeting(v, w, wv, a, la, ww, b, lb, i, j)
  BY TheyMeet
<1>2. Meeting(w, v, ww, b, lb, wv, a, la, j, i)
  BY <1>1, MeetingTurned
<1>3. Side(v, w, wv[i], ww[j], a[i])
  BY <1>1, MeetingSide
<1>4. Side(w, v, ww[j], wv[i], b[j])
  BY <1>2, MeetingSide
<1>5. a[i] = b[j]
  BY <1>1 DEF Meeting, FirstShared
<1>6. QED  BY <1>3, <1>4, <1>5

-----------------------------------------------------------------------------
(***************************************************************************)
(* The turns of a blossom: each odd node gets its way back to v, over the  *)
(* edge (v, w) and on to the base.                                         *)
(***************************************************************************)
\* The first m nodes of p, backwards.
Back(p, m) == Reverse(SubSeq(p, 1, m))

BackOf(r, p, m) ==
  /\ r \in Path /\ Len(r) = m
  /\ \A i \in 1 .. m : r[i] = p[m + 1 - i]
  /\ \A x : x \in Range(r) <=> \E i \in 1 .. m : x = p[i]
  /\ Range(r) \subseteq Range(p)

\* A path of a blossom read backwards from its m-th node.
LEMMA BackFacts ==
  ASSUME NEW p \in Path, NEW m \in 1 .. Len(p)
  PROVE  BackOf(Back(p, m), p, m)
<1>0. p \in Seq(Node) /\ Len(p) \in Nat /\ DOMAIN p = 1 .. Len(p) /\ m \in Nat /\ m >= 1
      /\ m \in Int /\ 1 \in Int
  BY LenProperties DEF Path
<1>1. \A i \in 1 .. m : p[i] \in Node /\ i \in DOMAIN p
  BY <1>0, ElementOfSeq
<1> DEFINE s == SubSeq(p, 1, m)
<1>2. s \in Seq(Node) /\ Len(s) = (IF 1 <= m THEN m - 1 + 1 ELSE 0)
      /\ \A i \in 1 .. m - 1 + 1 : s[i] = p[1 + i - 1]
  BY <1>0, <1>1, SubSeqProperties
<1> HIDE DEF s
<1>3. Len(s) = m /\ \A i \in 1 .. m : s[i] = p[i]
  <2>1. m - 1 + 1 = m /\ \A i \in 1 .. m : 1 + i - 1 = i
    BY <1>0
  <2>2. QED  BY <2>1, <1>0, <1>2
<1> DEFINE r == Reverse(s)
<1>4. r \in Seq(Node) /\ Range(r) = Range(s)
  BY <1>2, ReverseRange
<1>5. DOMAIN r = 1 .. m /\ \A i \in 1 .. m : r[i] = p[m + 1 - i]
  <2>1. r = [i \in 1 .. Len(s) |-> s[(Len(s) - i) + 1]]
    BY DEF Reverse
  <2> HIDE DEF r
  <2>2. r = [i \in 1 .. m |-> s[(m - i) + 1]]
    BY <2>1, <1>3
  <2>3. ASSUME NEW i \in 1 .. m
        PROVE  r[i] = p[m + 1 - i]
    <3>1. (m - i) + 1 = m + 1 - i /\ m + 1 - i \in 1 .. m
      BY <1>0
    <3>2. r[i] = s[(m - i) + 1]
      BY <2>2
    <3>3. QED  BY <3>1, <3>2, <1>3
  <2>4. DOMAIN r = 1 .. m
    BY <2>2
  <2>5. QED  BY <2>3, <2>4
<1>6. Len(r) = m
  <2> HIDE DEF r
  <2>1. DOMAIN r = 1 .. Len(r) /\ Len(r) \in Nat
    BY <1>4, LenProperties
  <2>2. 1 .. m = 1 .. Len(r)
    BY <2>1, <1>5
  <2>3. m \in 1 .. Len(r)
    BY <2>2, <1>0
  <2>4. Len(r) \in 1 .. Len(r)
    BY <2>1, <2>3, <1>0
  <2>5. Len(r) \in 1 .. m
    BY <2>2, <2>4, Zenon
  <2>6. m <= Len(r) /\ Len(r) <= m
    BY <2>3, <2>5, <2>1, <1>0
  <2>7. Len(r) \in Nat /\ m \in Nat
    BY <2>1, <1>0
  <2>8. QED  BY <2>6, <2>7
<1>7. \A x : x \in Range(r) <=> \E i \in 1 .. m : x = p[i]
  <2>1. DOMAIN s = 1 .. m
    BY <1>2, <1>3, LenProperties
  <2>2. \A x : x \in Range(s) <=> \E i \in 1 .. m : x = p[i]
    BY <2>1, <1>3 DEF Range
  <2>3. QED  BY <2>2, <1>4
<1>8. Range(r) \subseteq Range(p)
  BY <1>7, <1>1 DEF Range
<1>9. r # <<>>
  BY <1>0, <1>6, EmptySeq
<1>10. Back(p, m) = r
  BY DEF Back, s
<1> HIDE DEF r
<1>11. QED  BY <1>4, <1>5, <1>6, <1>7, <1>8, <1>9, <1>10 DEF BackOf, Path

TurnsOf(p, q) == {Back(p, m) \o q : m \in {k \in 2 .. (Len(p) - 1) : k % 2 = 0}}

\* One half of the odd nodes of a blossom.
LEMMA RightHalf ==
  ASSUME NEW p \in Path, NEW q \in Path, Len(p) % 2 = 1
  PROVE  {SubSeq(Reverse(p) \o q, i, Len(Reverse(p) \o q)) :
            i \in {k \in 2 .. (Len(p) - 1) : k % 2 = 0}} = TurnsOf(p, q)
<1> DEFINE b == Reverse(p) \o q  n == Len(b)  P == Len(p)  Q == Len(q)
<1>0. p \in Seq(Node) /\ q \in Seq(Node) /\ P \in Nat \ {0} /\ Q \in Nat \ {0}
  BY LenProperties, EmptySeq DEF Path
<1>1. Reverse(p) \in Seq(Node) /\ Len(Reverse(p)) = P
      /\ \A i \in 1 .. P : Reverse(p)[i] = p[(P - i) + 1]
  <2>1. Reverse(p) \in Seq(Node) /\ Reverse(p) = [i \in 1 .. P |-> p[(P - i) + 1]]
    BY <1>0, ReverseRange DEF Reverse
  <2>2. DOMAIN Reverse(p) = 1 .. Len(Reverse(p)) /\ Len(Reverse(p)) \in Nat
    BY <2>1, LenProperties
  <2>3. QED  BY <2>1, <2>2, <1>0
<1>2. /\ b \in Seq(Node) /\ n = P + Q
      /\ \A i \in 1 .. P + Q : b[i] = IF i <= P THEN Reverse(p)[i] ELSE q[i - P]
  <2>1. /\ b \in Seq(Node) /\ n = Len(Reverse(p)) + Len(q)
        /\ \A i \in 1 .. Len(Reverse(p)) + Len(q) :
             b[i] = IF i <= Len(Reverse(p)) THEN Reverse(p)[i] ELSE q[i - Len(Reverse(p))]
    BY <1>0, <1>1, ConcatProperties
  <2>2. QED  BY <2>1, <1>1
<1>8. Len(p) = P /\ Len(q) = Q /\ P % 2 = 1
  OBVIOUS
<1> HIDE DEF b, n, P, Q
<1>3. ASSUME NEW i \in 2 .. (P - 1)
      PROVE  SubSeq(b, i, n) = Back(p, P + 1 - i) \o q
  <2> DEFINE m == P + 1 - i
             s == SubSeq(b, i, n)
             r == Back(p, m)
             t == r \o q
  <2>1. m \in 1 .. P /\ m \in Nat /\ i \in Int /\ n \in Int /\ i <= n /\ n - i + 1 = m + Q
        /\ n \in Nat
    BY <1>0, <1>2
  <2>2. \A k \in i .. n : b[k] \in Node
    BY <1>0, <1>2, ElementOfSeq DEF n
  <2>3. s \in Seq(Node) /\ Len(s) = (IF i <= n THEN n - i + 1 ELSE 0)
        /\ \A k \in 1 .. n - i + 1 : s[k] = b[i + k - 1]
    BY <2>1, <2>2, SubSeqProperties
  <2>4. BackOf(r, p, m)
    BY <2>1, <1>8, BackFacts
  <2>11. m = P + 1 - i
    OBVIOUS
  <2> HIDE DEF r, s, m
  <2>5. r \in Seq(Node) /\ Len(r) = m /\ \A k \in 1 .. m : r[k] = p[m + 1 - k]
    BY <2>4 DEF BackOf, Path
  <2>6. /\ t \in Seq(Node) /\ Len(t) = Len(r) + Len(q)
        /\ \A k \in 1 .. Len(r) + Len(q) : t[k] = IF k <= Len(r) THEN r[k] ELSE q[k - Len(r)]
    BY <2>5, <1>0, ConcatProperties
  <2> HIDE DEF t
  <2>7. Len(s) = Len(t) /\ Len(s) = m + Q
    BY <2>1, <2>3, <2>5, <2>6, <1>0, <1>8
  <2>8. ASSUME NEW k \in 1 .. Len(s)
        PROVE  s[k] = t[k]
    <3>1. k \in 1 .. m + Q /\ k \in Nat
      BY <2>7, <2>1
    <3>2. s[k] = b[i + k - 1] /\ i + k - 1 \in 1 .. P + Q
      BY <3>1, <2>1, <2>3, <2>11, <1>0
    <3>3. t[k] = IF k <= m THEN r[k] ELSE q[k - m]
      BY <3>1, <2>5, <2>6, <1>8
    <3>4. CASE k <= m
      <4>1. /\ i + k - 1 <= P /\ i + k - 1 \in 1 .. P /\ k \in 1 .. m
            /\ (P - (i + k - 1)) + 1 = m + 1 - k
        BY <3>1, <3>4, <2>11, <1>0
      <4>2. b[i + k - 1] = Reverse(p)[i + k - 1]
        BY <3>2, <4>1, <1>2
      <4>3. Reverse(p)[i + k - 1] = p[m + 1 - k]
        BY <4>1, <1>1
      <4>4. QED  BY <3>2, <3>3, <3>4, <4>1, <4>2, <4>3, <2>5
    <3>5. CASE k > m
      <4>1. ~(i + k - 1 <= P) /\ (i + k - 1) - P = k - m /\ ~(k <= m)
        BY <3>1, <3>5, <2>11, <1>0
      <4>2. b[i + k - 1] = q[(i + k - 1) - P]
        BY <3>2, <4>1, <1>2
      <4>3. QED  BY <3>2, <3>3, <4>1, <4>2
    <3>6. QED  BY <3>1, <3>4, <3>5, <2>1
  <2>9. s = t
    BY <2>3, <2>6, <2>7, <2>8, SeqEqual
  <2>10. QED  BY <2>9 DEF s, t, r, m
<1>4. \A i \in {k \in 2 .. (P - 1) : k % 2 = 0} :
        P + 1 - i \in {k \in 2 .. (P - 1) : k % 2 = 0} /\ P + 1 - (P + 1 - i) = i
  <2>1. SUFFICES ASSUME NEW i \in 2 .. (P - 1), i % 2 = 0
                 PROVE  P + 1 - i \in 2 .. (P - 1) /\ (P + 1 - i) % 2 = 0 /\ P + 1 - (P + 1 - i) = i
    OBVIOUS
  <2>2. \A x, y \in Nat : x % 2 = 1 /\ y % 2 = 0 /\ y < x => (x + 1 - y) % 2 = 0
    OBVIOUS
  <2>3. P \in Nat /\ i \in Nat /\ P % 2 = 1 /\ i < P
    BY <2>1, <1>0, <1>8
  <2>4. (P + 1 - i) % 2 = 0
    BY <2>1, <2>2, <2>3
  <2>5. QED  BY <2>1, <2>4, <1>0
<1> DEFINE K == {k \in 2 .. (P - 1) : k % 2 = 0}
<1>5. \A i \in K : SubSeq(b, i, n) = Back(p, P + 1 - i) \o q
  BY <1>3
<1>6. {SubSeq(b, i, n) : i \in K} = {Back(p, m) \o q : m \in K}
  <2>1. ASSUME NEW i \in K
        PROVE  SubSeq(b, i, n) \in {Back(p, m) \o q : m \in K}
    <3>1. P + 1 - i \in K
      BY <1>4
    <3>2. QED  BY <3>1, <1>5
  <2>2. ASSUME NEW m \in K
        PROVE  Back(p, m) \o q \in {SubSeq(b, i, n) : i \in K}
    <3>1. PICK i \in K : i = P + 1 - m
      BY <1>4
    <3>2. P + 1 - i = m
      BY <3>1, <1>4
    <3>3. SubSeq(b, i, n) = Back(p, m) \o q
      BY <3>2, <1>5
    <3>4. QED  BY <3>3
  <2>3. QED  BY <2>1, <2>2
<1>7. QED  BY <1>6 DEF TurnsOf, b, n, P

\* The other half.
LEMMA LeftHalf ==
  ASSUME NEW p \in Path, NEW q \in Path, Len(p) % 2 = 1
  PROVE  {Reverse(SubSeq(Reverse(p) \o q, 1, i)) :
            i \in {k \in (Len(p) + 2) .. (Len(Reverse(p) \o q) - 1) : k % 2 = 1}} = TurnsOf(q, p)
<1> DEFINE b == Reverse(p) \o q  n == Len(b)  P == Len(p)  Q == Len(q)
<1>0. p \in Seq(Node) /\ q \in Seq(Node) /\ P \in Nat \ {0} /\ Q \in Nat \ {0}
  BY LenProperties, EmptySeq DEF Path
<1>1. Reverse(p) \in Seq(Node) /\ Len(Reverse(p)) = P
      /\ \A i \in 1 .. P : Reverse(p)[i] = p[(P - i) + 1]
  <2>1. Reverse(p) \in Seq(Node) /\ Reverse(p) = [i \in 1 .. P |-> p[(P - i) + 1]]
    BY <1>0, ReverseRange DEF Reverse
  <2>2. DOMAIN Reverse(p) = 1 .. Len(Reverse(p)) /\ Len(Reverse(p)) \in Nat
    BY <2>1, LenProperties
  <2>3. QED  BY <2>1, <2>2, <1>0
<1>2. /\ b \in Seq(Node) /\ n = P + Q
      /\ \A i \in 1 .. P + Q : b[i] = IF i <= P THEN Reverse(p)[i] ELSE q[i - P]
  <2>1. /\ b \in Seq(Node) /\ n = Len(Reverse(p)) + Len(q)
        /\ \A i \in 1 .. Len(Reverse(p)) + Len(q) :
             b[i] = IF i <= Len(Reverse(p)) THEN Reverse(p)[i] ELSE q[i - Len(Reverse(p))]
    BY <1>0, <1>1, ConcatProperties
  <2>2. QED  BY <2>1, <1>1
<1>8. Len(p) = P /\ Len(q) = Q /\ P % 2 = 1 /\ Len(b) = n
  OBVIOUS
<1> HIDE DEF b, n, P, Q
<1>9. b \in Path
  <2>1. Len(b) # 0
    BY <1>0, <1>2, <1>8
  <2>2. QED  BY <2>1, <1>2, EmptySeq DEF Path
<1>3. ASSUME NEW m \in 1 .. Q
      PROVE  Back(b, P + m) = Back(q, m) \o p
  <2> DEFINE i == P + m
             s == Back(b, i)
             r == Back(q, m)
             t == r \o p
  <2>1. m \in 1 .. Q /\ m \in Nat /\ i \in 1 .. n /\ i \in Nat
    BY <1>0, <1>2
  <2>3. BackOf(s, b, i)
    BY <2>1, <1>8, <1>9, BackFacts
  <2>4. BackOf(r, q, m)
    BY <2>1, <1>8, BackFacts
  <2>11. i = P + m
    OBVIOUS
  <2> HIDE DEF r, s, i
  <2>5. r \in Seq(Node) /\ Len(r) = m /\ \A k \in 1 .. m : r[k] = q[m + 1 - k]
    BY <2>4 DEF BackOf, Path
  <2>10. s \in Seq(Node) /\ Len(s) = i /\ \A k \in 1 .. i : s[k] = b[i + 1 - k]
    BY <2>3 DEF BackOf, Path
  <2>6. /\ t \in Seq(Node) /\ Len(t) = Len(r) + Len(p)
        /\ \A k \in 1 .. Len(r) + Len(p) : t[k] = IF k <= Len(r) THEN r[k] ELSE p[k - Len(r)]
    BY <2>5, <1>0, ConcatProperties
  <2> HIDE DEF t
  <2>7. Len(s) = Len(t) /\ Len(s) = P + m
    BY <2>1, <2>10, <2>11, <2>5, <2>6, <1>0, <1>8
  <2>8. ASSUME NEW k \in 1 .. Len(s)
        PROVE  s[k] = t[k]
    <3>1. k \in 1 .. P + m /\ k \in Nat /\ k \in 1 .. i
      BY <2>7, <2>1, <2>10
    <3>2. s[k] = b[i + 1 - k] /\ i + 1 - k \in 1 .. P + Q
      BY <3>1, <2>1, <2>10, <2>11, <1>0
    <3>3. t[k] = IF k <= m THEN r[k] ELSE p[k - m]
      BY <3>1, <2>5, <2>6, <2>1, <1>0, <1>8
    <3>4. CASE k <= m
      <4>1. ~(i + 1 - k <= P) /\ (i + 1 - k) - P = m + 1 - k /\ k \in 1 .. m
        BY <3>1, <3>4, <2>11, <2>1, <1>0
      <4>2. b[i + 1 - k] = q[(i + 1 - k) - P]
        BY <3>2, <4>1, <1>2
      <4>3. r[k] = q[m + 1 - k]
        BY <4>1, <2>5
      <4>4. QED  BY <3>2, <3>3, <3>4, <4>1, <4>2, <4>3
    <3>5. CASE k > m
      <4>1. i + 1 - k <= P /\ i + 1 - k \in 1 .. P /\ ~(k <= m) /\ (P - (i + 1 - k)) + 1 = k - m
        BY <3>1, <3>5, <2>11, <2>1, <1>0
      <4>2. b[i + 1 - k] = Reverse(p)[i + 1 - k]
        BY <3>2, <4>1, <1>2
      <4>3. Reverse(p)[i + 1 - k] = p[(P - (i + 1 - k)) + 1]
        BY <4>1, <1>1
      <4>4. QED  BY <3>2, <3>3, <4>1, <4>2, <4>3
    <3>6. QED  BY <3>1, <3>4, <3>5, <2>1
  <2>9. s = t
    BY <2>10, <2>6, <2>7, <2>8, SeqEqual
  <2>12. QED  BY <2>9 DEF s, t, r, i
<1> DEFINE K == {k \in 2 .. (Q - 1) : k % 2 = 0}
           L == {k \in (P + 2) .. (n - 1) : k % 2 = 1}
<1>4. \A m \in K : P + m \in L
  <2>1. SUFFICES ASSUME NEW m \in 2 .. (Q - 1), m % 2 = 0
                 PROVE  P + m \in (P + 2) .. (n - 1) /\ (P + m) % 2 = 1
    OBVIOUS
  <2>2. \A x, y \in Nat : x % 2 = 1 /\ y % 2 = 0 => (x + y) % 2 = 1
    OBVIOUS
  <2>3. P \in Nat /\ m \in Nat
    BY <2>1, <1>0
  <2>4. (P + m) % 2 = 1
    BY <2>1, <2>2, <2>3, <1>8
  <2>5. QED  BY <2>1, <2>4, <1>0, <1>2
<1>5. \A i \in L : i - P \in K /\ P + (i - P) = i
  <2>1. SUFFICES ASSUME NEW i \in (P + 2) .. (n - 1), i % 2 = 1
                 PROVE  i - P \in 2 .. (Q - 1) /\ (i - P) % 2 = 0 /\ P + (i - P) = i
    OBVIOUS
  <2>2. \A x, y \in Nat : x % 2 = 1 /\ y % 2 = 1 /\ y < x => (x - y) % 2 = 0
    OBVIOUS
  <2>3. P \in Nat /\ i \in Nat /\ P < i
    BY <2>1, <1>0, <1>2
  <2>4. (i - P) % 2 = 0
    BY <2>1, <2>2, <2>3, <1>8
  <2>5. QED  BY <2>1, <2>4, <1>0, <1>2
<1>10. \A m \in K : Back(b, P + m) = Back(q, m) \o p
  <2>1. \A m \in K : m \in 1 .. Q
    BY <1>0
  <2>2. QED  BY <2>1, <1>3
<1>6. {Back(b, i) : i \in L} = {Back(q, m) \o p : m \in K}
  <2>1. ASSUME NEW i \in L
        PROVE  Back(b, i) \in {Back(q, m) \o p : m \in K}
    <3>1. PICK m \in K : m = i - P
      BY <1>5
    <3>2. P + m = i
      BY <3>1, <1>5
    <3>3. Back(b, i) = Back(q, m) \o p
      BY <3>2, <1>10
    <3>4. QED  BY <3>3
  <2>2. ASSUME NEW m \in K
        PROVE  Back(q, m) \o p \in {Back(b, i) : i \in L}
    <3>1. P + m \in L
      BY <1>4
    <3>2. QED  BY <3>1, <1>10
  <2>3. QED  BY <2>1, <2>2
<1>7. QED  BY <1>6 DEF TurnsOf, b, n, P, Q, Back

\* What is before o on a path.
LEMMA BeforeFacts ==
  ASSUME NEW p \in Seq(Node), NEW o, NEW x
  PROVE  /\ x \in Before(p, o) <=>
              \E k, i \in 1 .. Len(p) : k < i /\ p[i] = o /\ x = p[k]
         /\ x \in Before(p, o) => x \in Range(p) /\ o \in Range(p)
<1>1. DOMAIN p = 1 .. Len(p)
  BY LenProperties
<1>2. QED  BY <1>1 DEF Before, Range

\* The turn of node m of the side p.
TurnOf(work, v, w, p, q, m) ==
  /\ work = Back(p, m) \o q
  /\ work \in Path /\ Back(p, m) \in Seq(Node)
  /\ Last(work) = Last(q) /\ work[1] = p[m]
  /\ WalkOf(work) = Back(p, m) \o Walk(path_table, w)
  /\ BackOf(Back(p, m), p, m)
  /\ Range(work) = Range(Back(p, m)) \cup Range(q)
  /\ Len(work) = m + Len(q)

\* The way round the blossom from an odd node is a path that ends at the base.
LEMMA TurnFacts ==
  ASSUME ForestTypeOK, NEW v \in Node, NEW w \in Node, NEW p, NEW q, NEW base,
         Side(v, w, p, q, base), Side(w, v, q, p, base), NEW m \in 1 .. Len(p)
  PROVE  TurnOf(Back(p, m) \o q, v, w, p, q, m)
<1> DEFINE r == Back(p, m)  work == r \o q  B == Walk(path_table, base)
<1>0. /\ p \in Path /\ q \in Path /\ base \in Node /\ Last(q) = base
      /\ Walk(path_table, w) = Link(q, B) /\ path_table \in [Node -> Seq(Node)]
  BY DEF Side, EvenNodes, ForestTypeOK
<1>1. BackOf(r, p, m)
  BY <1>0, BackFacts
<1> HIDE DEF r
<1>2. r \in Seq(Node) /\ Len(r) = m /\ r[1] = p[m] /\ m \in Nat /\ m >= 1
  <2>1. m \in Nat /\ m >= 1 /\ Len(p) \in Nat /\ 1 \in 1 .. m /\ m + 1 - 1 = m
    BY <1>0, LenProperties DEF Path
  <2>2. r \in Seq(Node) /\ Len(r) = m /\ \A i \in 1 .. m : r[i] = p[m + 1 - i]
    BY <1>1 DEF BackOf, Path
  <2>3. r[1] = p[m]
    BY <2>1, <2>2
  <2>4. QED  BY <2>1, <2>2, <2>3
<1>3. q \in Seq(Node) /\ Len(q) \in Nat \ {0}
  BY <1>0, EmptySeq, LenProperties DEF Path
<1>4. /\ work \in Seq(Node) /\ Len(work) = Len(r) + Len(q)
      /\ \A i \in 1 .. Len(r) + Len(q) : work[i] = IF i <= Len(r) THEN r[i] ELSE q[i - Len(r)]
  BY <1>2, <1>3, ConcatProperties
<1>5. Range(work) = Range(r) \cup Range(q)
  BY <1>2, <1>3, ConcatRange
<1>6. B \in Seq(Node) /\ B # <<>> /\ Tail(B) \in Seq(Node)
  <2>1. B \in Path
    BY <1>0, WalkType
  <2>2. QED  BY <2>1, HeadTailProperties DEF Path
<1> HIDE DEF B
<1>7. Last(work) = Last(q)
  <2>1. /\ Len(r) + Len(q) \in 1 .. Len(r) + Len(q) /\ ~(Len(r) + Len(q) <= Len(r))
        /\ (Len(r) + Len(q)) - Len(r) = Len(q)
    BY <1>2, <1>3
  <2>2. work[Len(r) + Len(q)] = q[Len(q)]
    BY <2>1, <1>4
  <2>3. QED  BY <2>2, <1>4 DEF Last
<1>8. work[1] = p[m]
  <2>1. 1 \in 1 .. Len(r) + Len(q) /\ 1 <= Len(r)
    BY <1>2, <1>3
  <2>2. QED  BY <2>1, <1>2, <1>4
<1>9. WalkOf(work) = r \o Walk(path_table, w)
  <2>1. (r \o q) \o Tail(B) = r \o (q \o Tail(B))
    <3>1. r \in Seq(Node) /\ q \in Seq(Node) /\ Tail(B) \in Seq(Node)
      BY <1>2, <1>3, <1>6
    <3>2. QED  BY <3>1, NodesJoined
  <2>2. WalkOf(work) = work \o Tail(B)
    BY <1>0, <1>7 DEF WalkOf, Link, B
  <2>3. q \o Tail(B) = Walk(path_table, w)
    BY <1>0 DEF Link
  <2>4. QED  BY <2>1, <2>2, <2>3
<1>10. work \in Path
  <2>1. Len(work) # 0
    BY <1>2, <1>3, <1>4
  <2>2. QED  BY <2>1, <1>4, EmptySeq DEF Path
<1>11. Len(work) = m + Len(q)
  BY <1>2, <1>4
<1>12. QED  BY <1>1, <1>2, <1>5, <1>7, <1>8, <1>9, <1>10, <1>11 DEF TurnOf, r

Mutual == \A x \in Node : M[x] # NoNode => M[M[x]] = x

\* The other way along an edge of a walk.
LEMMA EdgeBack ==
  ASSUME ForestTypeOK, IsUndirected(adj), Mutual, NEW x \in Node, NEW y \in Node
  PROVE  /\ M[x] = y => M[y] = x
         /\ IsAdjacent(adj, x, y) => IsAdjacent(adj, y, x)
         /\ M[x] # y => M[y] # x
<1>1. y # NoNode /\ x # NoNode
  BY DEF Node, NoNode, NodesAssumption
<1>2. M[x] = y => M[y] = x
  BY <1>1 DEF Mutual
<1>3. M[y] = x => M[x] = y
  BY <1>1 DEF Mutual
<1>4. IsAdjacent(adj, x, y) => y \in Range(adj[x])
  BY DEF IsAdjacent, Range
<1>5. QED  BY <1>2, <1>3, <1>4 DEF IsUndirected

\* Sums and differences of odd and even numbers.
LEMMA Parity ==
  ASSUME NEW x \in Nat, NEW y \in Nat
  PROVE  /\ x % 2 = 0 \/ x % 2 = 1
         /\ x % 2 = 0 /\ y % 2 = 1 => (x + y) % 2 = 1
         /\ x % 2 = 0 /\ y < x => ((x - y) % 2 = 1 <=> y % 2 = 1)
         /\ x % 2 = 0 /\ x < y => ((y - x) % 2 = 1 <=> y % 2 = 1)
  OBVIOUS

\* Places counted from the other end.
LEMMA Behind ==
  ASSUME NEW m \in Nat, NEW n \in Nat, m <= n, NEW i \in Nat, i >= 1, i < m
  PROVE  /\ m - i \in 1 .. (n - 1) /\ m - i \in Nat
         /\ (m - i) + 1 = m + 1 - i /\ m - i = m + 1 - (i + 1)
         /\ i \in 1 .. m /\ i + 1 \in 1 .. m /\ i <= m /\ i + 1 <= m
         /\ m - i \in 1 .. n /\ (m - i) + 1 \in 1 .. n
  OBVIOUS

\* The walk an odd node of a blossom gets alternates.
LEMMA TurnAlternates ==
  ASSUME ForestTypeOK, IsUndirected(adj), Mutual,
         NEW s \in Path, IsEvenWalk(adj, M, s), NEW t \in Path, IsEvenWalk(adj, M, t),
         IsAdjacent(adj, s[1], t[1]), M[s[1]] # t[1],
         NEW m \in 1 .. Len(s), m % 2 = 0, NEW r \in Path, Len(r) = m,
         \A i \in 1 .. m : r[i] = s[m + 1 - i],
         Range(r) \cap Range(t) = {}
  PROVE  r \o t \in Path /\ IsEvenWalk(adj, M, r \o t) /\ Last(r \o t) = Last(t)
<1>0. /\ s \in Seq(Node) /\ t \in Seq(Node) /\ r \in Seq(Node) /\ m \in Nat /\ m >= 1
      /\ Len(s) \in Nat \ {0} /\ Len(t) \in Nat \ {0} /\ m <= Len(s)
  BY LenProperties, EmptySeq DEF Path
<1>11. DOMAIN s = 1 .. Len(s) /\ DOMAIN t = 1 .. Len(t) /\ DOMAIN r = 1 .. m
  BY <1>0, LenProperties
<1>1. /\ \A i \in 1 .. Len(s) : s[i] \in Node
      /\ \A i \in 1 .. Len(t) : t[i] \in Node
  BY <1>0, ElementOfSeq
<1> DEFINE u == r \o t
<1>2. /\ u \in Seq(Node) /\ Len(u) = m + Len(t)
      /\ \A i \in 1 .. m + Len(t) : u[i] = IF i <= m THEN r[i] ELSE t[i - m]
  <2>1. /\ u \in Seq(Node) /\ Len(u) = Len(r) + Len(t)
        /\ \A i \in 1 .. Len(r) + Len(t) : u[i] = IF i <= Len(r) THEN r[i] ELSE t[i - Len(r)]
    BY ZenonT(30), <1>0, ConcatProperties
  <2>2. QED  BY <2>1
<1>3. IsInjective(r)
  <2>1. SUFFICES ASSUME NEW i \in 1 .. m, NEW j \in 1 .. m, r[i] = r[j]
                 PROVE  i = j
    BY <1>11 DEF IsInjective
  <2>2. r[i] = s[m + 1 - i] /\ r[j] = s[m + 1 - j]
    OBVIOUS
  <2>3. m + 1 - i \in DOMAIN s /\ m + 1 - j \in DOMAIN s
    BY <1>0, <1>11
  <2>4. m + 1 - i = m + 1 - j
    BY ZenonT(30), <2>1, <2>2, <2>3 DEF IsEvenWalk, IsInjective
  <2>5. QED  BY <2>4, <1>0
<1>4. IsInjective(u)
  BY <1>0, <1>3, ConcatInjective DEF IsEvenWalk
<1>5. Len(u) % 2 = 1
  <2>1. Len(t) % 2 = 1 /\ Len(t) \in Nat /\ m \in Nat
    BY <1>0 DEF IsEvenWalk
  <2>2. (m + Len(t)) % 2 = 1
    BY <2>1, Parity
  <2>3. QED  BY <2>2, <1>2
<1>6. Last(u) = Last(t)
  <2>1. m + Len(t) \in 1 .. m + Len(t) /\ ~(m + Len(t) <= m) /\ (m + Len(t)) - m = Len(t)
    BY <1>0
  <2>2. u[m + Len(t)] = t[Len(t)]
    BY <2>1, <1>2
  <2>3. QED  BY <2>2, <1>2 DEF Last
<1>7. M[Last(u)] = NoNode
  BY <1>6 DEF IsEvenWalk
<1> HIDE DEF u
<1>8. ASSUME NEW i \in 1 .. (Len(u) - 1)
      PROVE  IF i % 2 = 1 THEN M[u[i]] = u[i + 1]
                          ELSE IsAdjacent(adj, u[i], u[i + 1]) /\ M[u[i]] # u[i + 1]
  <2>0. /\ i \in Nat /\ i >= 1 /\ i \in 1 .. m + Len(t) /\ i + 1 \in 1 .. m + Len(t)
    BY <1>0, <1>2
  <2>1. CASE i < m
    <3> DEFINE k == m - i
    <3>1. /\ k \in 1 .. (Len(s) - 1) /\ k \in Nat /\ k + 1 = m + 1 - i /\ k = m + 1 - (i + 1)
          /\ i \in 1 .. m /\ i + 1 \in 1 .. m /\ i <= m /\ i + 1 <= m
          /\ k \in 1 .. Len(s) /\ k + 1 \in 1 .. Len(s)
      <4>1. Len(s) \in Nat /\ m \in Nat /\ m <= Len(s) /\ i \in Nat /\ i >= 1 /\ i < m
        BY <2>0, <2>1, <1>0
      <4>2. QED  BY <4>1, Behind
    <3>2. u[i] = s[k + 1] /\ u[i + 1] = s[k]
      BY <2>0, <3>1, <1>2
    <3>3. IF k % 2 = 1 THEN M[s[k]] = s[k + 1]
                       ELSE IsAdjacent(adj, s[k], s[k + 1]) /\ M[s[k]] # s[k + 1]
      BY <3>1 DEF IsEvenWalk
    <3>4. k % 2 = 1 <=> i % 2 = 1
      BY <2>0, <2>1, <1>0, Parity
    <3> HIDE DEF k
    <3>5. s[k] \in Node /\ s[k + 1] \in Node
      BY <3>1, <1>1
    <3>6. /\ M[s[k]] = s[k + 1] => M[s[k + 1]] = s[k]
          /\ IsAdjacent(adj, s[k], s[k + 1]) => IsAdjacent(adj, s[k + 1], s[k])
          /\ M[s[k]] # s[k + 1] => M[s[k + 1]] # s[k]
      BY <3>5, EdgeBack
    <3>7. QED  BY <3>2, <3>3, <3>4, <3>6
  <2>2. CASE i = m
    <3>1. /\ i \in 1 .. m /\ i <= m /\ ~(i + 1 <= m) /\ (i + 1) - m = 1 /\ m + 1 - i = 1
          /\ i % 2 # 1
      BY <2>0, <2>2, <1>0
    <3>2. u[i] = s[1] /\ u[i + 1] = t[1]
      BY <2>0, <3>1, <1>2
    <3>3. QED  BY <3>1, <3>2
  <2>3. CASE i > m
    <3> DEFINE k == i - m
    <3>1. /\ k \in 1 .. (Len(t) - 1) /\ k \in Nat /\ k + 1 = (i + 1) - m
          /\ ~(i <= m) /\ ~(i + 1 <= m)
      <4>1. \A l, n, j \in Nat : j > n /\ j >= 1 /\ j <= n + l - 1 =>
              /\ j - n \in 1 .. (l - 1) /\ j - n \in Nat /\ (j - n) + 1 = (j + 1) - n
              /\ ~(j <= n) /\ ~(j + 1 <= n)
        OBVIOUS
      <4>2. /\ Len(t) \in Nat /\ m \in Nat /\ i \in Nat /\ i > m /\ i >= 1
            /\ i <= m + Len(t) - 1
        BY <2>0, <2>3, <1>0, <1>2
      <4>3. QED  BY <4>1, <4>2
    <3>2. u[i] = t[k] /\ u[i + 1] = t[k + 1]
      BY <2>0, <3>1, <1>2
    <3>3. IF k % 2 = 1 THEN M[t[k]] = t[k + 1]
                       ELSE IsAdjacent(adj, t[k], t[k + 1]) /\ M[t[k]] # t[k + 1]
      BY <3>1 DEF IsEvenWalk
    <3>4. k % 2 = 1 <=> i % 2 = 1
      BY <2>0, <2>3, <1>0, Parity
    <3>5. QED  BY <3>2, <3>3, <3>4
  <2>4. QED  BY <2>0, <2>1, <2>2, <2>3, <1>0
<1>9. u \in Path
  <2>1. Len(u) # 0
    BY <1>0, <1>2
  <2>2. QED  BY <2>1, <1>2, EmptySeq DEF Path, u
<1>10. QED  BY <1>4, <1>5, <1>6, <1>7, <1>8, <1>9 DEF IsEvenWalk, u

\* A side is how the walk begins.
LEMMA SideBegins ==
  ASSUME ForestTypeOK, NEW v \in Node, NEW w, NEW p, NEW q, NEW base, Side(v, w, p, q, base)
  PROVE  LET B == Walk(path_table, base)
             V == Walk(path_table, v)
         IN  /\ V \in Path /\ Len(p) <= Len(V) /\ Len(V) \in Nat /\ Len(p) \in Nat /\ B \in Path
             /\ \A i \in 1 .. Len(p) : V[i] = p[i]
             /\ Range(V) = Range(p) \cup Range(B)
<1> DEFINE B == Walk(path_table, base)
           V == Walk(path_table, v)
<1>1. /\ p \in Path /\ base \in Node /\ path_table \in [Node -> Seq(Node)]
      /\ V = Link(p, B) /\ Last(p) = base
  BY DEF Side, EvenNodes, ForestTypeOK
<1>2. B \in Path /\ B[1] = base
  BY <1>1, WalkType
<1> HIDE DEF B, V
<1>3. /\ Link(p, B) \in Path /\ Len(Link(p, B)) = Len(p) + Len(B) - 1
      /\ \A i \in 1 .. Len(p) : Link(p, B)[i] = p[i]
      /\ Range(Link(p, B)) = Range(p) \cup Range(B)
      /\ Len(p) \in Nat \ {0} /\ Len(B) \in Nat \ {0}
  BY <1>1, <1>2, LinkFacts
<1>4. Len(p) <= Len(V) /\ Len(V) \in Nat
  BY <1>1, <1>3
<1>5. QED  BY <1>1, <1>2, <1>3, <1>4 DEF B, V

\* The turn of an odd node is a legal one.
LEMMA TurnRight ==
  ASSUME Hanging, IsUndirected(adj), Mutual, OddsOnce({}), OddsApart(Walks, {}),
         NEW v \in EvenNodes, NEW w \in EvenNodes, belongs[w] = belongs[v],
         IsAdjacent(adj, v, w), M[v] # w,
         NEW p, NEW q, NEW base, Side(v, w, p, q, base), Side(w, v, q, p, base),
         NEW m \in 2 .. (Len(p) - 1), m % 2 = 0, p[m] \notin EvenNodes
  PROVE  TurnLegal(Back(p, m) \o q)
<1> DEFINE V == Walk(path_table, v)  W == Walk(path_table, w)
           r == Back(p, m)  work == r \o q
<1>0. /\ v \in Node /\ w \in Node /\ ForestTypeOK /\ EvenWalkLegal(v) /\ EvenWalkLegal(w)
      /\ path_table \in [Node -> Seq(Node)] /\ Last(q) = base /\ base \in EvenNodes
      /\ p \in Path
  BY DEF EvenNodes, EvenNode, Hanging, LegalForest, ForestTypeOK, Side
<1>1. /\ V \in Path /\ V \in Seq(Node) /\ V[1] = v /\ IsEvenWalk(adj, M, V)
      /\ \A x \in Range(V) : belongs[x] = belongs[v]
  BY <1>0, WalkType DEF EvenWalkLegal
<1>2. /\ W \in Path /\ W \in Seq(Node) /\ W[1] = w /\ IsEvenWalk(adj, M, W) /\ Last(W) = belongs[w]
      /\ \A x \in Range(W) : belongs[x] = belongs[w]
  BY <1>0, WalkType DEF EvenWalkLegal
<1>3. /\ Len(p) <= Len(V) /\ Len(V) \in Nat /\ Len(p) \in Nat
      /\ \A i \in 1 .. Len(p) : V[i] = p[i]
      /\ Range(V) = Range(p) \cup Range(Walk(path_table, base))
  BY <1>0, SideBegins
<1>4. m \in Nat /\ m >= 1 /\ m \in 1 .. Len(p) /\ m \in 1 .. Len(V)
  BY <1>3
<1>5. TurnOf(work, v, w, p, q, m)
  BY <1>0, <1>4, TurnFacts
<1>6. V \in Walks /\ W \in Walks
  BY DEF Walks
<1>7. Apart(V, W, p[m])
  <2>1. p[m] \in Range(p)
    <3>1. DOMAIN p = 1 .. Len(p)
      BY <1>0, LenProperties DEF Path
    <3>2. QED  BY <3>1, <1>4 DEF Range
  <2>2. p[m] \in StillOdd({}) /\ p[m] \notin Range(W)
    BY <2>1 DEF Side
  <2>3. QED  BY <2>2, <1>6 DEF OddsApart
<1>8. p[m] \notin Range(W)
  <2>1. p[m] \in Range(p)
    <3>1. DOMAIN p = 1 .. Len(p)
      BY <1>0, LenProperties DEF Path
    <3>2. QED  BY <3>1, <1>4 DEF Range
  <2>3. QED  BY <2>1 DEF Side
<1> HIDE DEF V, W, r, work
<1>9. /\ r \in Path /\ Len(r) = m /\ \A i \in 1 .. m : r[i] = p[m + 1 - i]
      /\ \A x : x \in Range(r) <=> \E i \in 1 .. m : x = p[i]
      /\ Range(r) \subseteq Range(p)
  BY <1>5 DEF TurnOf, BackOf, r
<1>10. Range(r) \cap Range(W) = {}
  <2>1. SUFFICES ASSUME NEW x \in Range(r), x \in Range(W)
                 PROVE  FALSE
    OBVIOUS
  <2>2. PICK i \in 1 .. m : x = p[i]
    BY <1>9
  <2>3. i # m
    BY <1>8, <2>1, <2>2
  <2>4. /\ i \in 1 .. Len(p) /\ i \in 1 .. Len(V) /\ i < m
        /\ V[i] = x /\ V[m] = p[m]
    BY <2>2, <2>3, <1>3, <1>4
  <2>5. x \in Before(V, p[m])
    BY <2>4, <1>1, <1>4, BeforeFacts
  <2>6. QED  BY <2>1, <2>5, <1>7, <1>8 DEF Apart
<1>11. \A i \in 1 .. m : r[i] = V[m + 1 - i]
  <2>1. SUFFICES ASSUME NEW i \in 1 .. m PROVE r[i] = V[m + 1 - i]
    OBVIOUS
  <2>2. m + 1 - i \in 1 .. Len(p)
    BY <1>3, <1>4
  <2>3. QED  BY <2>2, <1>3, <1>9
<1>12. r \o W \in Path /\ IsEvenWalk(adj, M, r \o W) /\ Last(r \o W) = Last(W)
  <2>1. IsAdjacent(adj, V[1], W[1]) /\ M[V[1]] # W[1]
    BY <1>1, <1>2
  <2>2. /\ V \in Path /\ IsEvenWalk(adj, M, V) /\ W \in Path /\ IsEvenWalk(adj, M, W)
        /\ m \in 1 .. Len(V) /\ m % 2 = 0 /\ r \in Path /\ Len(r) = m
        /\ Range(r) \cap Range(W) = {} /\ ForestTypeOK /\ IsUndirected(adj) /\ Mutual
    BY <1>0, <1>1, <1>2, <1>4, <1>9, <1>10
  <2>3. QED
    BY <2>1, <2>2, <1>11, TurnAlternates
<1>13. WalkOf(work) = r \o W /\ Last(work) = base /\ work[1] = p[m]
  BY <1>5, <1>0 DEF TurnOf, W, r
<1>14. belongs[p[m]] = belongs[v] /\ \A x \in Range(r) : belongs[x] = belongs[v]
  <2>1. \A x \in Range(p) : belongs[x] = belongs[v]
    BY <1>1, <1>3
  <2>2. p[m] \in Range(p)
    <3>1. DOMAIN p = 1 .. Len(p)
      BY <1>0, LenProperties DEF Path
    <3>2. QED  BY <3>1, <1>4 DEF Range
  <2>3. QED  BY <2>1, <2>2, <1>9
<1>15. Range(r \o W) = Range(r) \cup Range(W)
  BY <1>2, <1>9, ConcatRange DEF Path
<1>16. \A x \in Range(r \o W) : belongs[x] = belongs[p[m]]
  BY <1>2, <1>14, <1>15
<1>17. Last(r \o W) = belongs[p[m]]
  BY <1>2, <1>12, <1>14
<1>18. r \o W \in Seq(Node)
  BY <1>12 DEF Path
<1>19. QED  BY <1>0, <1>12, <1>13, <1>16, <1>17, <1>18 DEF TurnLegal, work, r

\* For the odd node o the path r is put together from s and t.
Mixed(r, s, t, o) ==
  /\ Range(r) \subseteq Range(s) \cup Range(t)
  /\ Before(r, o) \subseteq Before(s, o) \cup Before(t, o)
  /\ o \in Range(s) => o \in Range(r)
  /\ o \in Range(t) => o \in Range(r)

\* What is put together from paths that odd nodes keep apart is kept apart.
LEMMA MixedApart ==
  ASSUME NEW walks, NEW new, NEW turning, OddsApart(walks, turning),
         \A r \in new : \A o \in StillOdd(turning) : \E s, t \in walks : Mixed(r, s, t, o)
  PROVE  OddsApart(walks \cup new, turning)
<1>1. \A r \in walks : \A o : Mixed(r, r, r, o)
  BY DEF Mixed
<1>2. \A r \in walks \cup new : \A o \in StillOdd(turning) : \E s, t \in walks : Mixed(r, s, t, o)
  BY <1>1
<1>3. ASSUME NEW o \in StillOdd(turning), NEW p \in walks \cup new, NEW q \in walks \cup new,
             o \notin Range(q)
      PROVE  Before(p, o) \cap Range(q) = {}
  <2>1. PICK s, t \in walks : Mixed(p, s, t, o)
    BY <1>2
  <2>2. PICK x, y \in walks : Mixed(q, x, y, o)
    BY <1>2
  <2>3. o \notin Range(x) /\ o \notin Range(y)
    BY <2>2, <1>3 DEF Mixed
  <2>4. Apart(s, x, o) /\ Apart(s, y, o) /\ Apart(t, x, o) /\ Apart(t, y, o)
    BY DEF OddsApart
  <2>5. /\ Before(s, o) \cap Range(x) = {} /\ Before(s, o) \cap Range(y) = {}
        /\ Before(t, o) \cap Range(x) = {} /\ Before(t, o) \cap Range(y) = {}
    BY <2>3, <2>4 DEF Apart
  <2>6. QED  BY <2>1, <2>2, <2>5 DEF Mixed
<1>4. QED  BY <1>3 DEF OddsApart, Apart

\* The walk of a turn is put together from those of the two ends.
LEMMA TurnMixed ==
  ASSUME Hanging, NEW v \in EvenNodes, NEW w \in EvenNodes,
         NEW p, NEW q, NEW base, Side(v, w, p, q, base), Side(w, v, q, p, base),
         NEW m \in 1 .. Len(p), NEW o, o \notin Range(p), o \notin Range(q)
  PROVE  Mixed(WalkOf(Back(p, m) \o q), Walk(path_table, v), Walk(path_table, w), o)
<1> DEFINE V == Walk(path_table, v)  W == Walk(path_table, w)  B == Walk(path_table, base)
           r == Back(p, m)  u == WalkOf(r \o q)
<1>0. /\ v \in Node /\ w \in Node /\ ForestTypeOK /\ path_table \in [Node -> Seq(Node)]
  BY DEF EvenNodes, Hanging, ForestTypeOK
<1>1. TurnOf(r \o q, v, w, p, q, m)
  BY <1>0, TurnFacts
<1>2. /\ V \in Path /\ Len(p) <= Len(V) /\ Len(V) \in Nat /\ Len(p) \in Nat
      /\ \A i \in 1 .. Len(p) : V[i] = p[i]
      /\ Range(V) = Range(p) \cup Range(B)
  BY <1>0, SideBegins
<1>3. W \in Path /\ Range(W) = Range(q) \cup Range(B)
  BY <1>0, SideBegins
<1>4. p \in Path
  BY DEF Side
<1> HIDE DEF V, W, B, r, u
<1>5. /\ r \in Seq(Node) /\ Len(r) = m /\ u = r \o W
      /\ \A x : x \in Range(r) <=> \E i \in 1 .. m : x = p[i]
      /\ Range(r) \subseteq Range(p)
  BY <1>1 DEF TurnOf, BackOf, r, u, W
<1>6. V \in Seq(Node) /\ W \in Seq(Node) /\ DOMAIN V = 1 .. Len(V) /\ m \in Nat /\ Len(W) \in Nat
      /\ DOMAIN p = 1 .. Len(p)
  BY <1>2, <1>3, <1>4, LenProperties DEF Path
<1>7. u \in Seq(Node) /\ Range(u) = Range(r) \cup Range(W)
  BY <1>5, <1>6, ConcatRange
<1>8. Range(u) \subseteq Range(V) \cup Range(W)
  BY <1>2, <1>5, <1>7
<1>9. o \in Range(V) => o \in Range(W)
  BY <1>2, <1>3
<1>10. o \in Range(W) => o \in Range(V) /\ o \in Range(u)
  BY <1>2, <1>3, <1>7
<1>11. \A i \in 1 .. Len(p) : p[i] # o
  BY <1>6 DEF Range
<1>12. ASSUME NEW x \in Before(u, o)
       PROVE  x \in Before(V, o) \cup Before(W, o)
  <2>1. /\ Len(u) = Len(r) + Len(W)
        /\ \A i \in 1 .. Len(r) + Len(W) : u[i] = IF i <= Len(r) THEN r[i] ELSE W[i - Len(r)]
    <3>1. /\ Len(r \o W) = Len(r) + Len(W)
          /\ \A i \in 1 .. Len(r) + Len(W) :
               (r \o W)[i] = IF i <= Len(r) THEN r[i] ELSE W[i - Len(r)]
      <4>1. r \in Seq(Node) /\ W \in Seq(Node)
        BY <1>5, <1>6
      <4>2. QED  BY <4>1, ConcatProperties
    <3>2. u = r \o W
      BY <1>5
    <3>3. QED  BY <3>1, <3>2
  <2>2. PICK k, i \in 1 .. Len(u) : k < i /\ u[i] = o /\ x = u[k]
    BY <1>7, <1>12, BeforeFacts
  <2>3. i > m
    <3>1. SUFFICES ASSUME i <= m PROVE FALSE
      BY <1>6, <2>2
    <3>2. i \in DOMAIN r /\ r[i] = o
      <4>1. DOMAIN r = 1 .. Len(r)
        BY <1>5, LenProperties
      <4>2. i \in 1 .. m
        BY <2>2, <3>1, <1>6
      <4>3. u[i] = r[i]
        BY <2>1, <2>2, <3>1, <1>5
      <4>4. QED  BY <4>1, <4>2, <4>3, <2>2, <1>5
    <3>3. o \in Range(r)
      BY <3>2 DEF Range
    <3>4. QED  BY <3>3, <1>5
  <2>4. i - m \in 1 .. Len(W) /\ W[i - m] = o
    <3>1. i - m \in 1 .. Len(W) /\ ~(i <= m) /\ i \in 1 .. Len(r) + Len(W)
      BY <2>1, <2>2, <2>3, <1>5, <1>6
    <3>2. u[i] = W[i - m]
      BY <3>1, <2>1, <1>5
    <3>3. QED  BY <3>1, <3>2, <2>2
  <2>5. CASE k <= m
    <3>1. x \in Range(r)
      <4>1. DOMAIN r = 1 .. Len(r)
        BY <1>5, LenProperties
      <4>2. k \in 1 .. m
        BY <2>2, <2>5, <1>6
      <4>3. u[k] = r[k]
        BY <2>1, <2>2, <2>5, <1>5
      <4>4. QED  BY <4>1, <4>2, <4>3, <2>2, <1>5 DEF Range
    <3>2. PICK j \in 1 .. m : x = p[j]
      BY <3>1, <1>5
    <3>3. j \in 1 .. Len(p) /\ j \in 1 .. Len(V) /\ V[j] = x
      BY <3>2, <1>2, <1>6
    <3>4. o \in Range(V)
      <4>1. DOMAIN W = 1 .. Len(W)
        BY <1>6, LenProperties
      <4>2. o \in Range(W)
        BY <2>4, <4>1 DEF Range
      <4>3. QED  BY <4>2, <1>10
    <3>5. PICK l \in 1 .. Len(V) : V[l] = o
      BY <3>4, <1>6 DEF Range
    <3>6. ~(l \in 1 .. Len(p))
      BY <3>5, <1>2, <1>11
    <3>7. j < l
      BY <3>3, <3>5, <3>6, <1>2
    <3>8. x \in Before(V, o)
      BY <3>3, <3>5, <3>7, <1>6, BeforeFacts
    <3>9. QED  BY <3>8
  <2>6. CASE k > m
    <3>1. k - m \in 1 .. Len(W) /\ ~(k <= m) /\ k \in 1 .. Len(r) + Len(W) /\ k - m < i - m
      BY <2>1, <2>2, <2>6, <1>5, <1>6
    <3>2. u[k] = W[k - m]
      BY <3>1, <2>1, <1>5
    <3>3. x \in Before(W, o)
      BY <3>1, <3>2, <2>2, <2>4, <1>6, BeforeFacts
    <3>4. QED  BY <3>3
  <2>7. k <= m \/ k > m
    BY <2>2, <1>6
  <2>8. QED  BY <2>5, <2>6, <2>7
<1>13. Mixed(u, V, W, o)
  BY <1>8, <1>9, <1>10, <1>12 DEF Mixed
<1>14. QED  BY <1>13 DEF u, V, W, r

\* Two mates in front of an alternating walk.
HopOf(p, x, w, q) ==
  /\ p \in Path /\ IsEvenWalk(adj, M, p) /\ Last(p) = Last(q)
  /\ Range(p) = {x, w} \cup Range(q) /\ Len(p) = 2 + Len(q)
  /\ p[1] = x /\ p[2] = w /\ \A i \in 1 .. Len(q) : p[i + 2] = q[i]

\* A pair hung on a walk by an edge makes a walk that is two nodes longer.
LEMMA HopWalk ==
  ASSUME NEW q \in Path, IsEvenWalk(adj, M, q), NEW w \in Node, NEW x \in Node,
         M[x] = w, M[w] = x, w # x, IsAdjacent(adj, w, q[1]),
         w \notin Range(q), x \notin Range(q)
  PROVE  HopOf(<<x, w>> \o q, x, w, q)
<1> DEFINE f == <<x, w>>
           p == f \o q
<1>0. q \in Seq(Node) /\ q # <<>>
  BY DEF Path
<1>1. /\ IsInjective(q) /\ Len(q) \in Nat /\ Len(q) >= 1 /\ Len(q) % 2 = 1
      /\ Last(q) = q[Len(q)] /\ M[Last(q)] = NoNode
      /\ \A i \in 1 .. (Len(q) - 1) :
              IF i % 2 = 1 THEN M[q[i]] = q[i + 1]
                           ELSE IsAdjacent(adj, q[i], q[i + 1]) /\ M[q[i]] # q[i + 1]
  <2>1. Len(q) \in Nat \ {0}
    BY <1>0, EmptySeq
  <2>2. Len(q) >= 1 /\ Len(q) \in Nat
    BY <2>1
  <2>3. Last(q) = q[Len(q)]
    BY DEF Last
  <2>4. QED
    BY <2>2, <2>3 DEF IsEvenWalk
<1>2. /\ f \in Seq(Node) /\ Len(f) = 2 /\ f[1] = x /\ f[2] = w /\ IsInjective(f) /\ Range(f) = {x, w}
  <2>1. f \in Seq(Node) /\ Len(f) = 2 /\ f[1] = x /\ f[2] = w /\ DOMAIN f = 1 .. 2
    OBVIOUS
  <2>2. 1 .. 2 = {1, 2}
    OBVIOUS
  <2>3. IsInjective(f) /\ Range(f) = {x, w}
    BY <2>1, <2>2 DEF IsInjective, Range
  <2>4. QED  BY <2>1, <2>3
<1>3. Range(f) \cap Range(q) = {}
  BY <1>2
<1> HIDE DEF f
<1>4. /\ p \in Seq(Node) /\ Len(p) = 2 + Len(q)
      /\ Range(p) = Range(f) \cup Range(q)
      /\ \A i \in 1 .. (2 + Len(q)) : p[i] = IF i <= 2 THEN f[i] ELSE q[i - 2]
      /\ IsInjective(p)
  <2>1. /\ p \in Seq(Node) /\ Len(p) = Len(f) + Len(q)
        /\ \A i \in 1 .. (Len(f) + Len(q)) : p[i] = IF i <= Len(f) THEN f[i] ELSE q[i - Len(f)]
    <3>1. f \in Seq(Node) /\ q \in Seq(Node)
      BY <1>0, <1>2
    <3>2. QED  BY <3>1, ConcatProperties
  <2>2. Range(p) = Range(f) \cup Range(q)
    BY <1>0, <1>2, ConcatRange
  <2>3. IsInjective(p)
    BY <1>0, <1>1, <1>2, <1>3, ConcatInjective
  <2>4. Len(f) = 2
    BY <1>2
  <2> HIDE DEF p
  <2>5. QED  BY <2>1, <2>2, <2>3, <2>4
<1> HIDE DEF p
<1>5. Last(p) = Last(q)
  <2>1. Len(p) \in 1 .. (2 + Len(q)) /\ ~(Len(p) <= 2) /\ Len(p) - 2 = Len(q)
    BY <1>1, <1>4
  <2>2. QED  BY <1>1, <1>4, <2>1 DEF Last
<1>6. Len(p) % 2 = 1
  BY <1>1, <1>4
<1>7. ASSUME NEW i \in 1 .. Len(q) PROVE p[i + 2] = q[i]
  <2>1. i + 2 \in 1 .. (2 + Len(q)) /\ ~(i + 2 <= 2) /\ (i + 2) - 2 = i
    BY <1>1
  <2>2. QED  BY <1>4, <2>1
<1>8. p[1] = x /\ p[2] = w /\ p[3] = q[1]
  <2>1. p[1] = f[1] /\ p[2] = f[2]
    BY <1>1, <1>4
  <2>2. 1 \in 1 .. Len(q) /\ 1 + 2 = 3
    BY <1>1
  <2>3. QED  BY <1>2, <1>7, <2>1, <2>2
<1>9. ASSUME NEW i \in 1 .. (Len(p) - 1)
      PROVE  IF i % 2 = 1 THEN M[p[i]] = p[i + 1]
                          ELSE IsAdjacent(adj, p[i], p[i + 1]) /\ M[p[i]] # p[i + 1]
  <2>1. CASE i = 1
    BY <2>1, <1>8
  <2>2. CASE i = 2
    <3>1. x # q[1]
      <4>1. q[1] \in Range(q)
        BY <1>0, <1>1, LenProperties DEF Range
      <4>2. QED  BY <4>1, <1>2, <1>3
    <3>2. QED  BY <2>2, <1>8, <3>1
  <2>3. CASE i > 2
    <3>1. /\ i - 2 \in 1 .. (Len(q) - 1) /\ (i - 2) % 2 = i % 2
          /\ i - 2 \in 1 .. Len(q) /\ (i - 2) + 1 \in 1 .. Len(q)
          /\ (i - 2) + 2 = i /\ ((i - 2) + 1) + 2 = i + 1
      BY <2>3, <1>1, <1>4
    <3>2. p[i] = q[i - 2] /\ p[i + 1] = q[(i - 2) + 1]
      BY <3>1, <1>7
    <3>3. QED  BY <3>1, <3>2, <1>1
  <2>4. QED  BY <2>1, <2>2, <2>3, <1>1, <1>4
<1>10. IsEvenWalk(adj, M, p)
  BY <1>1, <1>4, <1>5, <1>6, <1>9 DEF IsEvenWalk
<1>11. p \in Path
  BY <1>1, <1>4, EmptySeq DEF Path
<1>12. QED
  BY <1>2, <1>4, <1>5, <1>7, <1>8, <1>10, <1>11 DEF HopOf, p, f

\* Such a walk goes in front of an odd node as the walk behind it does, and
\* its own two nodes are on no other walk.
LEMMA HopApart ==
  ASSUME NEW walks \in SUBSET Path, NEW q \in walks, NEW p, NEW x, NEW w, HopOf(p, x, w, q), w # x,
         NEW o, \A r, s \in walks : Apart(r, s, o), \A r \in walks : x \notin Range(r) /\ w \notin Range(r)
  PROVE  \A r, s \in walks \cup {p} : Apart(r, s, o)
<1>0. /\ p \in Seq(Node) /\ q \in Seq(Node) /\ Range(p) = {x, w} \cup Range(q)
      /\ Len(p) = 2 + Len(q) /\ p[1] = x /\ p[2] = w
      /\ \A i \in 1 .. Len(q) : p[i + 2] = q[i]
  BY DEF HopOf, Path
<1>1. Len(q) \in Nat /\ DOMAIN q = 1 .. Len(q) /\ DOMAIN p = 1 .. Len(p)
  BY <1>0, LenProperties
<1>2. \A r \in walks : r \in Seq(Node)
  BY DEF Path
<1>3. \A i \in 1 .. Len(p) : i = 1 \/ i = 2 \/ (i - 2 \in 1 .. Len(q) /\ p[i] = q[i - 2])
  <2>1. SUFFICES ASSUME NEW i \in 1 .. Len(p), i # 1, i # 2
                 PROVE  i - 2 \in 1 .. Len(q) /\ p[i] = q[i - 2]
    OBVIOUS
  <2>2. i - 2 \in 1 .. Len(q) /\ (i - 2) + 2 = i
    BY <1>0, <1>1, <2>1
  <2>3. QED
    BY <1>0, <2>2
<1>4. \A y : y \in Before(p, o) => y \in {x, w} \/ y \in Before(q, o)
  <2>1. SUFFICES ASSUME NEW y, y \in Before(p, o), y \notin {x, w} PROVE y \in Before(q, o)
    OBVIOUS
  <2>2. PICK k, i \in 1 .. Len(p) : k < i /\ p[i] = o /\ y = p[k]
    BY <1>0, <2>1, BeforeFacts
  <2>3. k # 1 /\ k # 2
    BY <1>0, <2>1, <2>2
  <2>4. i # 1 /\ i # 2
    BY <1>1, <2>2, <2>3
  <2>5. /\ k - 2 \in 1 .. Len(q) /\ p[k] = q[k - 2]
        /\ i - 2 \in 1 .. Len(q) /\ p[i] = q[i - 2]
    BY <1>3, <2>3, <2>4
  <2>6. k - 2 < i - 2
    BY <1>1, <2>2
  <2>7. \E g, h \in 1 .. Len(q) : g < h /\ q[h] = o /\ y = q[g]
    BY <2>2, <2>5, <2>6
  <2>8. QED
    BY <1>0, <2>7, BeforeFacts
<1>5. \A r \in Seq(Node) : \A y \in Before(r, o) : o \in Range(r) /\ y \in Range(r)
  BY BeforeFacts
<1>6. \A r \in walks : Apart(r, p, o)
  <2>1. SUFFICES ASSUME NEW r \in walks, o \notin Range(p) PROVE Before(r, o) \cap Range(p) = {}
    BY DEF Apart
  <2>2. Before(r, o) \cap Range(q) = {}
    BY <1>0, <2>1 DEF Apart
  <2>3. \A y \in Before(r, o) : y \in Range(r)
    BY <1>2, <1>5
  <2>4. QED
    BY <1>0, <2>2, <2>3
<1>7. \A s \in walks : Apart(p, s, o)
  <2>1. SUFFICES ASSUME NEW s \in walks, o \notin Range(s) PROVE Before(p, o) \cap Range(s) = {}
    BY DEF Apart
  <2>2. Before(q, o) \cap Range(s) = {}
    BY <2>1 DEF Apart
  <2>3. QED
    BY <1>4, <2>2
<1>8. Apart(p, p, o)
  <2>1. SUFFICES ASSUME o \notin Range(p) PROVE Before(p, o) \cap Range(p) = {}
    BY DEF Apart
  <2>2. Before(p, o) = {}
    BY <1>0, <1>5, <2>1
  <2>3. QED
    BY <2>2
<1>9. QED
  BY <1>6, <1>7, <1>8

-----------------------------------------------------------------------------
(***************************************************************************)
(* When a matching is maximum: no other one mates more nodes, if the even  *)
(* nodes come in classes of odd size that only odd nodes keep apart.       *)
(***************************************************************************)
\* The nodes of a set that mates with itself are even in number.
LEMMA PairsCount ==
  ASSUME NEW C \in SUBSET Node, NEW f,
         \A x \in C : f[x] \in C /\ f[x] # x /\ f[f[x]] = x
  PROVE  Cardinality(C) \in Nat /\ Cardinality(C) % 2 = 0
<1> DEFINE A == {x \in C : x < f[x]}
           B == {x \in C : f[x] < x}
           g == [x \in A |-> f[x]]
<1>1. IsFiniteSet(C) /\ IsFiniteSet(A) /\ IsFiniteSet(B)
  <2>1. IsFiniteSet(Node)
    BY NodesAssumption, FS_Interval DEF Node
  <2>2. IsFiniteSet(C)
    BY <2>1, FS_Subset
  <2>3. A \in SUBSET C /\ B \in SUBSET C
    OBVIOUS
  <2>4. QED  BY <2>2, <2>3, FS_Subset
<1>2. \A x \in C : x \in Int /\ f[x] \in Int /\ f[x] \in C /\ f[f[x]] = x /\ f[x] # x
  <2>1. Node \subseteq Int
    BY DEF Node
  <2>2. \A x \in C : x \in Int
    BY <2>1
  <2>3. \A x \in C : f[x] \in C
    OBVIOUS
  <2>4. \A x \in C : f[x] \in Int
    BY <2>2, <2>3
  <2>5. \A x \in C : f[f[x]] = x /\ f[x] # x
    OBVIOUS
  <2>6. QED  BY <2>2, <2>3, <2>4, <2>5
<1>3. C = A \cup B /\ A \cap B = {}
  BY <1>2
<1>4. g \in Injection(A, B)
  <2>1. \A x \in A : f[x] \in B
    BY <1>2
  <2>2. \A x, y \in A : g[x] = g[y] => x = y
    BY <1>2
  <2>3. g \in [A -> B]
    BY <2>1
  <2>4. QED  BY <2>2, <2>3 DEF Injection, IsInjective
<1>5. g \in Surjection(A, B)
  <2>1. \A y \in B : \E x \in A : g[x] = y
    <3>1. TAKE y \in B
    <3>2. f[y] \in A /\ f[f[y]] = y
      BY <1>2
    <3>3. QED  BY <3>2
  <2>2. g \in [A -> B]
    BY <1>4 DEF Injection
  <2>3. QED  BY <2>1, <2>2 DEF Surjection
<1> HIDE DEF A, B, g
<1>6. Cardinality(B) = Cardinality(A) /\ Cardinality(A) \in Nat
  BY <1>1, <1>4, <1>5, FS_Bijection, FS_CardinalityType DEF ExistsBijection, Bijection
<1>7. Cardinality(C) = Cardinality(A) + Cardinality(B) - Cardinality(A \cap B)
  BY <1>1, <1>3, FS_Union
<1>8. Cardinality(A \cap B) = 0
  BY <1>3, FS_EmptySet
<1>9. QED  BY <1>6, <1>7, <1>8

\* An edge has two ends.
LEMMA EdgeEnds ==
  ASSUME NEW e \in Edges(adj)
  PROVE  \E v \in Node : \E w \in Range(adj[v]) \ {v} : e = {v, w}
<1>1. PICK T \in {{{v, w} : w \in Range(adj[v]) \ {v}} : v \in Node} : e \in T
  BY DEF Edges
<1>2. PICK v \in Node : T = {{v, w} : w \in Range(adj[v]) \ {v}}
  BY <1>1
<1>3. QED  BY <1>1, <1>2

\* Disjoint edges have twice as many ends.
LEMMA EndsCount ==
  ASSUME adj \in [Node -> Seq(Node)], NEW S \in SUBSET Edges(adj),
         \A e, f \in S : e # f => e \cap f = {}
  PROVE  /\ UNION S \in SUBSET Node
         /\ IsFiniteSet(S) /\ Cardinality(S) \in Nat
         /\ Cardinality(UNION S) \in Nat /\ 2 * Cardinality(S) <= Cardinality(UNION S)
<1> DEFINE U == UNION S
           A == {x \in U : \E y \in U : {x, y} \in S /\ x < y}
           B == {x \in U : \E y \in U : {x, y} \in S /\ y < x}
<1>1. \A e \in S : \E x, y \in Node : x < y /\ e = {x, y} /\ x \in A /\ y \in B
  <2>1. TAKE e \in S
  <2>2. PICK v \in Node : \E w \in Range(adj[v]) \ {v} : e = {v, w}
    <3>1. e \in Edges(adj)
      OBVIOUS
    <3>2. QED  BY <3>1, EdgeEnds
  <2>3. PICK w \in Range(adj[v]) \ {v} : e = {v, w}
    BY <2>2
  <2>4. w \in Node /\ w # v
    BY RangeOfSeq
  <2>5. v \in U /\ w \in U /\ {v, w} \in S /\ {w, v} \in S
    <3>1. e \subseteq U /\ {w, v} = {v, w}
      OBVIOUS
    <3>2. QED  BY <2>3, <3>1
  <2>6. v < w \/ w < v
    BY <2>4, NodesAssumption DEF Node
  <2>7. QED  BY <2>3, <2>4, <2>5, <2>6
<1> HIDE DEF A, B
<1>2. U \in SUBSET Node
  <2>1. \A e \in S : e \subseteq Node
    <3>1. TAKE e \in S
    <3>2. PICK x \in Node, y \in Node : e = {x, y}
      BY <1>1
    <3>3. QED  BY <3>2
  <2>2. QED  BY <2>1
<1>3. IsFiniteSet(U) /\ IsFiniteSet(A) /\ IsFiniteSet(B)
  <2>1. IsFiniteSet(Node)
    BY NodesAssumption, FS_Interval DEF Node
  <2>2. A \in SUBSET U /\ B \in SUBSET U
    BY DEF A, B
  <2>3. QED  BY <1>2, <2>1, <2>2, FS_Subset
<1>4. A \cap B = {}
  <2>1. SUFFICES ASSUME NEW x \in A, x \in B
                 PROVE  FALSE
    OBVIOUS
  <2>2. PICK y \in U : {x, y} \in S /\ x < y
    BY <2>1 DEF A
  <2>3. PICK z \in U : {x, z} \in S /\ z < x
    BY <2>1 DEF B
  <2>4. x \in Int /\ y \in Int /\ z \in Int
    BY <1>2, <2>1 DEF A, Node
  <2>5. y # z /\ y # x
    BY <2>2, <2>3, <2>4
  <2>6. {x, y} # {x, z}
    BY <2>5
  <2>7. x \in {x, y} \cap {x, z}
    OBVIOUS
  <2>8. {x, y} \cap {x, z} = {}
    BY <2>2, <2>3, <2>6
  <2>9. QED  BY <2>7, <2>8
<1>5. \E h : h \in Injection(S, A)
  <2> DEFINE h == [e \in S |-> CHOOSE x \in A : x \in e]
  <2>0. \A e \in S : \E x \in A : x \in e
    BY <1>1
  <2>1. \A e \in S : h[e] \in A /\ h[e] \in e
    BY <2>0
  <2>2. h \in [S -> A]
    BY <2>1
  <2> HIDE DEF h
  <2>3. \A e, f \in S : h[e] = h[f] => e = f
    BY <2>1
  <2>4. QED  BY <2>2, <2>3 DEF Injection, IsInjective
<1>6. \E h : h \in Injection(S, B)
  <2> DEFINE h == [e \in S |-> CHOOSE x \in B : x \in e]
  <2>0. \A e \in S : \E x \in B : x \in e
    BY <1>1
  <2>1. \A e \in S : h[e] \in B /\ h[e] \in e
    BY <2>0
  <2>2. h \in [S -> B]
    BY <2>1
  <2> HIDE DEF h
  <2>3. \A e, f \in S : h[e] = h[f] => e = f
    BY <2>1
  <2>4. QED  BY <2>2, <2>3 DEF Injection, IsInjective
<1>7. IsFiniteSet(S) /\ Cardinality(S) <= Cardinality(A) /\ Cardinality(S) <= Cardinality(B)
  BY <1>3, <1>5, <1>6, FS_Injection
<1>8. /\ Cardinality(S) \in Nat /\ Cardinality(A) \in Nat /\ Cardinality(B) \in Nat
      /\ Cardinality(U) \in Nat
  BY <1>3, <1>7, FS_CardinalityType
<1>9. Cardinality(A \cup B) = Cardinality(A) + Cardinality(B)
  <2>1. Cardinality(A \cup B) = Cardinality(A) + Cardinality(B) - Cardinality(A \cap B)
    BY <1>3, FS_Union
  <2>2. Cardinality(A \cap B) = 0
    BY <1>4, FS_EmptySet
  <2>3. QED  BY <1>8, <2>1, <2>2
<1>10. Cardinality(A \cup B) <= Cardinality(U)
  <2>1. (A \cup B) \in SUBSET U
    BY DEF A, B
  <2>2. QED  BY <1>3, <2>1, FS_Subset
<1>11. QED  BY <1>2, <1>7, <1>8, <1>9, <1>10

\* The even nodes come in classes, each with one base: the others of a class are
\* mates of each other, the base is matched to an odd node or not at all.  An edge
\* of an even node leads to an odd node or stays in the class.
Classes(E, O, base) ==
  /\ E \in SUBSET Node /\ O \in SUBSET Node /\ E \cap O = {}
  /\ \A x \in Node : M[x] = NoNode => x \in E
  /\ \A o \in O : M[o] \in E /\ M[M[o]] = o
  /\ base \in [E -> E]
  /\ \A x \in E : M[base[x]] \notin E
  /\ \A x \in E : x # base[x] => M[x] \in E /\ M[M[x]] = x /\ M[x] # x /\ base[M[x]] = base[x]
  /\ \A x \in E : \A w \in Node : IsAdjacent(adj, x, w) => w \in O \/ (w \in E /\ base[w] = base[x])

\* Without its base a class is even, so disjoint edges leave one of its nodes out
\* or join one to an odd node.
LEMMA ClassLeaves ==
  ASSUME NEW E, NEW O, NEW base, Classes(E, O, base), NEW D \in SUBSET Node, NEW f,
         \A x \in D : f[x] \in D /\ f[x] # x /\ f[f[x]] = x /\ IsAdjacent(adj, x, f[x]),
         NEW b \in E, base[b] = b
  PROVE  \E x \in E : base[x] = b /\ (x \notin D \/ f[x] \in O)
<1> DEFINE C == {x \in E : base[x] = b}
<1>1. SUFFICES ASSUME \A x \in C : x \in D /\ f[x] \notin O
               PROVE  FALSE
  OBVIOUS
<1>2. C \in SUBSET Node /\ b \in C /\ IsFiniteSet(C)
  <2>1. C \in SUBSET Node /\ b \in C
    BY DEF Classes
  <2>2. IsFiniteSet(Node)
    BY NodesAssumption, FS_Interval DEF Node
  <2>3. QED  BY <2>1, <2>2, FS_Subset
<1>3. \A x \in C : f[x] \in C /\ f[x] # x /\ f[f[x]] = x
  <2>1. SUFFICES ASSUME NEW x \in C
                 PROVE  f[x] \in C /\ f[x] # x /\ f[f[x]] = x
    OBVIOUS
  <2>2. x \in E /\ x \in D /\ f[x] \notin O /\ base[x] = b
    BY <1>1
  <2>3. f[x] \in D /\ f[x] # x /\ f[f[x]] = x /\ IsAdjacent(adj, x, f[x]) /\ f[x] \in Node
    BY <2>2
  <2>4. f[x] \in E /\ base[f[x]] = base[x]
    BY <2>2, <2>3 DEF Classes
  <2>5. QED  BY <2>2, <2>3, <2>4
<1>4. \A x \in C \ {b} : M[x] \in C \ {b} /\ M[x] # x /\ M[M[x]] = x
  <2>1. SUFFICES ASSUME NEW x \in C \ {b}
                 PROVE  M[x] \in C \ {b} /\ M[x] # x /\ M[M[x]] = x
    OBVIOUS
  <2>2. x \in E /\ base[x] = b /\ x # base[x]
    OBVIOUS
  <2>3. M[x] \in E /\ M[M[x]] = x /\ M[x] # x /\ base[M[x]] = base[x]
    BY <2>2 DEF Classes
  <2>4. M[b] \notin E
    BY <2>2 DEF Classes
  <2>5. M[x] # b
    BY <2>2, <2>3, <2>4
  <2>6. QED  BY <2>2, <2>3, <2>5
<1> HIDE DEF C
<1>5. Cardinality(C) \in Nat /\ Cardinality(C) % 2 = 0
  BY <1>2, <1>3, PairsCount
<1>6. Cardinality(C \ {b}) \in Nat /\ Cardinality(C \ {b}) % 2 = 0
  <2>1. (C \ {b}) \in SUBSET Node
    BY <1>2
  <2>2. QED  BY <2>1, <1>4, PairsCount
<1>7. Cardinality(C \ {b}) = Cardinality(C) - 1
  BY <1>2, FS_RemoveElement
<1>8. QED  BY <1>5, <1>6, <1>7

\* Then no matching leaves fewer nodes out (Tutte, Berge).
LEMMA ClassesBound ==
  ASSUME NEW E, NEW O, NEW base, Classes(E, O, base), NEW D \in SUBSET Node, NEW f,
         \A x \in D : f[x] \in D /\ f[x] # x /\ f[f[x]] = x /\ IsAdjacent(adj, x, f[x])
  PROVE  Cardinality(D) <= Cardinality(Matched(M))
<1> DEFINE X == {x \in Node : M[x] = NoNode}
           Y == Node \ D
           root(o) == IF o \in O THEN M[o] ELSE o
           out(o) == CHOOSE x \in E : base[x] = base[root(o)] /\ (x \notin D \/ f[x] \in O)
           k == [o \in X \cup O |-> IF out(o) \in D THEN f[out(o)] ELSE out(o)]
<1>1. E \in SUBSET Node /\ O \in SUBSET Node /\ E \cap O = {} /\ X \subseteq E /\ X \cap O = {}
  BY DEF Classes
<1>2. \A o \in X \cup O : root(o) \in E /\ M[root(o)] \notin E /\ base[root(o)] = root(o)
  <2>1. SUFFICES ASSUME NEW o \in X \cup O
                 PROVE  root(o) \in E /\ M[root(o)] \notin E /\ base[root(o)] = root(o)
    OBVIOUS
  <2>2. root(o) \in E /\ M[root(o)] \notin E
    <3>1. CASE o \in O
      <4>1. root(o) = M[o] /\ M[o] \in E /\ M[M[o]] = o
        BY <3>1 DEF Classes
      <4>2. QED  BY <1>1, <3>1, <4>1
    <3>2. CASE o \notin O
      <4>1. root(o) = o /\ o \in E /\ M[o] = NoNode
        BY <1>1, <3>2
      <4>2. NoNode \notin E
        BY <1>1 DEF Node, NoNode
      <4>3. QED  BY <4>1, <4>2
    <3>3. QED  BY <3>1, <3>2
  <2>3. QED  BY <2>2 DEF Classes
<1>3. \A o, u \in X \cup O : root(o) = root(u) => o = u
  <2>1. SUFFICES ASSUME NEW o \in X \cup O, NEW u \in X \cup O, root(o) = root(u)
                 PROVE  o = u
    OBVIOUS
  <2>2. \A y \in O : M[y] \in E /\ M[M[y]] = y
    BY DEF Classes
  <2>3. \A y \in O : M[M[y]] # NoNode
    BY <1>1, <2>2 DEF Node, NoNode
  <2>4. CASE o \in O /\ u \in O
    BY <2>1, <2>2, <2>4
  <2>5. CASE o \notin O /\ u \notin O
    BY <2>1, <2>5
  <2>6. CASE o \in O /\ u \notin O
    BY <2>1, <2>3, <2>6
  <2>7. CASE o \notin O /\ u \in O
    BY <2>1, <2>3, <2>7
  <2>8. QED  BY <2>4, <2>5, <2>6, <2>7
<1> HIDE DEF root
<1>4. \A o \in X \cup O : /\ out(o) \in E /\ base[out(o)] = root(o)
                          /\ out(o) \notin D \/ f[out(o)] \in O
  <2>1. SUFFICES ASSUME NEW o \in X \cup O
                 PROVE  /\ out(o) \in E /\ base[out(o)] = root(o)
                        /\ out(o) \notin D \/ f[out(o)] \in O
    OBVIOUS
  <2>2. root(o) \in E /\ base[root(o)] = root(o)
    BY <1>2
  <2>3. \E x \in E : base[x] = root(o) /\ (x \notin D \/ f[x] \in O)
    BY <2>2, ClassLeaves
  <2>4. \E x \in E : base[x] = base[root(o)] /\ (x \notin D \/ f[x] \in O)
    BY <2>2, <2>3
  <2>5. QED  BY <2>2, <2>4
<1> HIDE DEF out
<1>5. k \in [X \cup O -> Y \cup O]
  <2>1. \A o \in X \cup O : (IF out(o) \in D THEN f[out(o)] ELSE out(o)) \in Y \cup O
    BY <1>1, <1>4
  <2>2. QED  BY <2>1
<1>6. \A o, u \in X \cup O : k[o] = k[u] => o = u
  <2>1. SUFFICES ASSUME NEW o \in X \cup O, NEW u \in X \cup O, k[o] = k[u]
                 PROVE  out(o) = out(u)
    BY <1>3, <1>4
  <2>2. \A y \in X \cup O : /\ out(y) \in D => k[y] = f[out(y)] /\ k[y] \in O /\ f[k[y]] = out(y)
                            /\ out(y) \notin D => k[y] = out(y) /\ k[y] \in E
    BY <1>4
  <2> HIDE DEF k
  <2>3. QED  BY <1>1, <2>1, <2>2
<1> HIDE DEF k
<1>7. k \in Injection(X \cup O, Y \cup O)
  BY <1>5, <1>6 DEF Injection, IsInjective
<1>8. /\ IsFiniteSet(Node) /\ IsFiniteSet(X) /\ IsFiniteSet(Y) /\ IsFiniteSet(O) /\ IsFiniteSet(D)
      /\ IsFiniteSet(Matched(M))
      /\ X \in SUBSET Node /\ Y \in SUBSET Node /\ Matched(M) \in SUBSET Node
  <2>1. IsFiniteSet(Node)
    BY NodesAssumption, FS_Interval DEF Node
  <2>2. X \in SUBSET Node /\ Y \in SUBSET Node /\ Matched(M) \in SUBSET Node
    BY DEF Matched
  <2>3. QED  BY <1>1, <2>1, <2>2, FS_Subset
<1>9. Cardinality(X \cup O) = Cardinality(X) + Cardinality(O)
  <2>1. Cardinality(X \cup O) = Cardinality(X) + Cardinality(O) - Cardinality(X \cap O)
    BY <1>8, FS_Union
  <2>2. Cardinality(X \cap O) = 0
    BY <1>1, FS_EmptySet
  <2>3. QED  BY <1>8, <2>1, <2>2, FS_CardinalityType
<1>10. /\ IsFiniteSet(Y \cup O)
       /\ Cardinality(Y \cup O) = Cardinality(Y) + Cardinality(O) - Cardinality(Y \cap O)
  BY <1>8, FS_Union
<1>11. Cardinality(X \cup O) <= Cardinality(Y \cup O)
  BY <1>7, <1>10, FS_Injection
<1>12. Cardinality(X) = Cardinality(Node) - Cardinality(Matched(M))
  <2>1. X = Node \ Matched(M) /\ Node \cap Matched(M) = Matched(M)
    BY DEF Matched
  <2> HIDE DEF X
  <2>2. QED  BY SMTT(30), <1>8, <2>1, FS_Difference
<1>13. Cardinality(Y) = Cardinality(Node) - Cardinality(D)
  <2>1. Node \cap D = D
    OBVIOUS
  <2>2. QED  BY <1>8, <2>1, FS_Difference
<1> HIDE DEF X, Y
<1>14. /\ Cardinality(X) \in Nat /\ Cardinality(Y) \in Nat /\ Cardinality(O) \in Nat
       /\ Cardinality(D) \in Nat /\ Cardinality(Node) \in Nat /\ Cardinality(Matched(M)) \in Nat
       /\ Cardinality(Y \cap O) \in Nat
  <2>1. IsFiniteSet(Y \cap O)
    BY <1>8, FS_Intersection
  <2>2. QED  BY <1>8, <2>1, FS_CardinalityType
<1>15. QED  BY <1>9, <1>10, <1>11, <1>12, <1>13, <1>14

\* With every edge at a class inside of it or into an odd node, it is.
LEMMA ClassesMaximum ==
  ASSUME adj \in [Node -> Seq(Node)], IsUndirected(adj), IsMatching(adj, M),
         NEW E, NEW O, NEW base, Classes(E, O, base)
  PROVE  IsMaximumMatching(adj, M)
<1>1. SUFFICES ASSUME NEW S \in SUBSET Edges(adj),
                      2 * Cardinality(S) > Cardinality(Matched(M)),
                      ~ \E e, f \in S : e # f /\ e \cap f # {}
               PROVE  FALSE
  BY DEF IsMaximumMatching
<1>2. \A e, f \in S : e # f => e \cap f = {}
  BY <1>1
<1> DEFINE D == UNION S
           f == [x \in D |-> CHOOSE y \in D : {x, y} \in S /\ y # x]
<1>3. /\ D \in SUBSET Node /\ Cardinality(S) \in Nat /\ Cardinality(D) \in Nat
      /\ 2 * Cardinality(S) <= Cardinality(D)
  BY <1>2, EndsCount
<1>4. \A e \in S : \E v, w \in Node : e = {v, w} /\ v # w /\ IsAdjacent(adj, v, w) /\ IsAdjacent(adj, w, v)
  <2>1. TAKE e \in S
  <2>2. e \in Edges(adj)
    OBVIOUS
  <2>3. PICK v \in Node : \E w \in Range(adj[v]) \ {v} : e = {v, w}
    BY <2>2, EdgeEnds
  <2>4. PICK w \in Range(adj[v]) \ {v} : e = {v, w}
    BY <2>3
  <2>5. w \in Node /\ v # w
    BY <2>4, RangeOfSeq
  <2>6. IsAdjacent(adj, v, w)
    BY <2>4 DEF IsAdjacent, Range
  <2>7. IsAdjacent(adj, w, v)
    BY <2>4 DEF IsUndirected
  <2>8. QED  BY <2>4, <2>5, <2>6, <2>7
<1>5. \A x \in D : \E y \in D : {x, y} \in S /\ y # x
  <2>1. TAKE x \in D
  <2>2. PICK e \in S : x \in e
    OBVIOUS
  <2>3. PICK v, w \in Node : e = {v, w} /\ v # w
    BY <1>4
  <2>4. v \in D /\ w \in D
    BY <2>3
  <2>5. CASE x = v
    BY <2>3, <2>4, <2>5
  <2>6. CASE x = w
    <3>1. {x, v} \in S /\ v # x
      <4>1. {w, v} = {v, w}
        OBVIOUS
      <4>2. QED  BY <2>3, <2>6, <4>1
    <3>2. QED  BY <2>4, <3>1
  <2>7. QED  BY <2>2, <2>3, <2>5, <2>6
<1>6. \A x \in D : f[x] \in D /\ {x, f[x]} \in S /\ f[x] # x
  BY <1>5
<1> HIDE DEF f, D
<1>7. \A x \in D : f[f[x]] = x
  <2>1. SUFFICES ASSUME NEW x \in D
                 PROVE  f[f[x]] = x
    OBVIOUS
  <2>2. PICK y \in D : y = f[x]
    BY <1>6
  <2>3. PICK z \in D : z = f[y]
    BY <1>6
  <2>4. {x, y} \in S /\ {y, z} \in S /\ z # y
    BY <1>6, <2>2, <2>3
  <2>5. y \in {x, y} \cap {y, z}
    OBVIOUS
  <2>6. {x, y} = {y, z}
    BY <1>2, <2>4, <2>5
  <2>7. z = x
    BY <2>4, <2>6
  <2>8. QED  BY <2>2, <2>3, <2>7
<1>8. \A x \in D : IsAdjacent(adj, x, f[x])
  <2>1. SUFFICES ASSUME NEW x \in D
                 PROVE  IsAdjacent(adj, x, f[x])
    OBVIOUS
  <2>2. PICK y \in D : y = f[x]
    BY <1>6
  <2>3. {x, y} \in S /\ y # x
    BY <1>6, <2>2
  <2>4. PICK v, w \in Node : {x, y} = {v, w} /\ IsAdjacent(adj, v, w) /\ IsAdjacent(adj, w, v)
    BY <1>4, <2>3
  <2>5. (x = v /\ y = w) \/ (x = w /\ y = v)
    BY <2>3, <2>4
  <2>6. QED  BY <2>2, <2>4, <2>5
<1>9. Cardinality(D) <= Cardinality(Matched(M))
  BY <1>3, <1>6, <1>7, <1>8, ClassesBound
<1>10. Cardinality(Matched(M)) \in Nat
  <2>1. IsFiniteSet(Node) /\ Matched(M) \in SUBSET Node
    BY NodesAssumption, FS_Interval DEF Node, Matched
  <2>2. QED  BY <2>1, FS_Subset, FS_CardinalityType
<1>11. QED  BY <1>1, <1>3, <1>9, <1>10

-----------------------------------------------------------------------------
(***************************************************************************)
(* From an even node one comes to one base only, an even node whose mate   *)
(* is not even: the base of its blossom.                                   *)
(***************************************************************************)
\* p is how the walk of x comes to z.
Comes(p, x, z, turning) ==
  /\ p \in Path /\ p[1] = x /\ Last(p) = z /\ z \in EvenNodes
  /\ Walk(path_table, x) = Link(p, Walk(path_table, z))
  /\ \A y \in Range(p) : Bright(y, turning)

\* Who comes to a node that way reaches it;
LEMMA ComesReaches ==
  ASSUME path_table \in [Node -> Seq(Node)], NEW x \in Node, NEW z, NEW turning, NEW p,
         Comes(p, x, z, turning)
  PROVE  Reaches(x, z, turning)
<1> DEFINE W == Walk(path_table, x)  q == Walk(path_table, z)  k == Len(p)
<1>1. /\ p \in Path /\ p[1] = x /\ Last(p) = z /\ z \in EvenNodes /\ z \in Node
      /\ W = Link(p, q) /\ \A y \in Range(p) : Bright(y, turning)
  BY DEF Comes, EvenNodes
<1>2. q \in Path /\ q[1] = z
  BY <1>1, WalkType
<1>3. /\ Link(p, q) \in Path /\ Len(Link(p, q)) = Len(p) + Len(q) - 1
      /\ \A i \in 1 .. Len(p) : Link(p, q)[i] = p[i]
      /\ Len(p) \in Nat \ {0} /\ Len(q) \in Nat \ {0}
  BY <1>1, <1>2, LinkFacts
<1> HIDE DEF W, q
<1>4. W \in Path /\ k \in 1 .. Len(W) /\ k \in Nat \ {0} /\ Len(W) \in Nat /\ \A i \in 1 .. k : W[i] = p[i]
  BY <1>1, <1>3 DEF Path
<1>5. SubSeq(W, 1, k) = p
  BY <1>1, <1>4, SubSeqProperties, SeqEqual DEF Path
<1>6. W[k] = z
  BY <1>1, <1>4 DEF Last
<1>7. \A i \in 1 .. k : Bright(W[i], turning)
  <2>1. TAKE i \in 1 .. k
  <2>2. p[i] \in Range(p)
    BY <1>1, <1>4 DEF Path, Range
  <2>3. QED  BY <1>1, <1>4, <2>2
<1>8. QED  BY <1>1, <1>4, <1>5, <1>6, <1>7 DEF Reaches, W, q

\* and the other way round.
LEMMA ReachesComes ==
  ASSUME path_table \in [Node -> Seq(Node)], NEW x \in Node, NEW z, NEW turning,
         Reaches(x, z, turning)
  PROVE  \E p : Comes(p, x, z, turning)
<1> DEFINE W == Walk(path_table, x)  q == Walk(path_table, z)
<1>1. z \in EvenNodes
  BY DEF Reaches
<1>2. PICK k \in 1 .. Len(W) : /\ W[k] = z /\ W = Link(SubSeq(W, 1, k), q)
                               /\ \A i \in 1 .. k : Bright(W[i], turning)
  BY DEF Reaches
<1>3. W \in Path /\ W \in Seq(Node) /\ W[1] = x
  BY WalkType
<1> HIDE DEF W, q
<1> DEFINE p == SubSeq(W, 1, k)
<1>4. Len(W) \in Nat /\ k \in Nat /\ 1 <= k /\ k <= Len(W)
  BY <1>2, <1>3, LenProperties
<1>5. p \in Seq(Node) /\ Len(p) = k /\ \A i \in 1 .. k : p[i] = W[i]
  BY <1>3, <1>4, SubSeqProperties
<1>6. p \in Path /\ p[1] = x /\ Last(p) = z
  <2>1. p[1] = x /\ p[k] = z
    BY <1>2, <1>3, <1>4, <1>5
  <2> HIDE DEF p
  <2>2. p # <<>>
    BY <1>4, <1>5
  <2>3. QED  BY <1>5, <2>1, <2>2 DEF Path, Last
<1>7. \A y \in Range(p) : Bright(y, turning)
  <2>1. TAKE y \in Range(p)
  <2>2. PICK i \in 1 .. k : y = W[i]
    BY <1>5 DEF Range
  <2>3. QED  BY <1>2, <2>2
<1>8. Comes(p, x, z, turning)
  BY <1>1, <1>2, <1>6, <1>7 DEF Comes, W, q
<1>9. QED  BY <1>8

\* On from there to where the walk of z comes.
LEMMA ReachesOn ==
  ASSUME path_table \in [Node -> Seq(Node)], NEW x \in Node, NEW y, NEW z, NEW turning,
         Reaches(x, y, turning), Reaches(y, z, turning)
  PROVE  Reaches(x, z, turning)
<1>1. PICK p : Comes(p, x, y, turning)
  BY ReachesComes
<1>2. y \in Node
  BY DEF Reaches, EvenNodes
<1>3. PICK q : Comes(q, y, z, turning)
  BY <1>2, ReachesComes
<1> DEFINE r == Walk(path_table, z)  s == Link(p, q)
<1>4. /\ p \in Path /\ p[1] = x /\ Last(p) = y /\ Walk(path_table, x) = Link(p, Walk(path_table, y))
      /\ \A i \in Range(p) : Bright(i, turning)
  BY <1>1 DEF Comes
<1>5. /\ q \in Path /\ q[1] = y /\ Last(q) = z /\ Walk(path_table, y) = Link(q, r)
      /\ z \in EvenNodes /\ \A i \in Range(q) : Bright(i, turning)
  BY <1>3 DEF Comes
<1>6. /\ s \in Path /\ \A i \in 1 .. Len(p) : s[i] = p[i]
      /\ Last(s) = z /\ Range(s) = Range(p) \cup Range(q) /\ Len(p) \in Nat \ {0}
  BY <1>4, <1>5, LinkFacts
<1>7. r \in Path
  BY <1>5, WalkType DEF EvenNodes
<1>8. Tail(r) \in Seq(Node)
  BY <1>7, TailRange DEF Path
<1>9. Link(s, r) = Link(p, Link(q, r))
  <2>1. Link(p, q) \o Tail(r) = Link(p, q \o Tail(r))
    BY <1>4, <1>5, <1>8, LinkOn
  <2>2. QED  BY <2>1 DEF Link
<1>10. s[1] = x
  BY <1>4, <1>6
<1>11. Comes(s, x, z, turning)
  BY <1>4, <1>5, <1>6, <1>9, <1>10 DEF Comes
<1>12. QED  BY <1>11, ComesReaches

\* A node comes to itself.
LEMMA ReachesSelf ==
  ASSUME path_table \in [Node -> Seq(Node)], NEW x \in EvenNodes, NEW turning
  PROVE  Reaches(x, x, turning)
<1> DEFINE q == Walk(path_table, x)
<1>1. x \in Node /\ is_even[x] = 1
  BY DEF EvenNodes, EvenNode
<1>2. q \in Path /\ q[1] = x /\ q \in Seq(Node)
  BY <1>1, WalkType
<1> HIDE DEF q
<1>3. <<x>> \in Path /\ <<x>>[1] = x /\ Last(<<x>>) = x /\ \A y \in Range(<<x>>) : y = x
  BY <1>1 DEF Path, Last, Range
<1>4. Link(<<x>>, q) = q
  <2>1. Link(<<x>>, q) \in Path /\ Len(Link(<<x>>, q)) = Len(<<x>>) + Len(q) - 1
        /\ \A i \in 1 .. Len(q) : Link(<<x>>, q)[Len(<<x>>) + i - 1] = q[i]
    BY <1>2, <1>3, LinkFacts
  <2>2. Len(<<x>>) = 1 /\ Len(q) \in Nat
    BY <1>2
  <2>3. Link(<<x>>, q) \in Seq(Node) /\ Len(Link(<<x>>, q)) = Len(q)
    BY <2>1, <2>2 DEF Path
  <2>4. \A i \in 1 .. Len(q) : Link(<<x>>, q)[i] = q[i]
    BY <2>1, <2>2
  <2>5. QED  BY <1>2, <2>2, <2>3, <2>4, SeqEqual
<1>5. Comes(<<x>>, x, x, turning)
  BY <1>1, <1>3, <1>4 DEF Comes, Bright, q
<1>6. QED  BY <1>1, <1>5, ComesReaches

\* An even node with a free end, or matched to an odd node.
IsBase(b) == b \in EvenNodes /\ M[b] \notin EvenNodes

\* From every even node one comes to a base: an entry holds no dark node, or it
\* begins with the mate.
LEMMA BaseExists ==
  ASSUME Hanging, OddsOnce({}), NEW n \in Nat
  PROVE  \A x \in EvenNodes : Len(Walk(path_table, x)) <= n => \E b : IsBase(b) /\ Reaches(x, b, {})
<1> DEFINE Good(m) == \A x \in EvenNodes : Len(Walk(path_table, x)) <= m =>
                        \E b : IsBase(b) /\ Reaches(x, b, {})
           T == {m \in Nat : Good(m)}
<1>0. path_table \in [Node -> Seq(Node)] /\ EntriesLong(path_table) /\ LinksEven /\ ForestTypeOK
  BY DEF Hanging, ForestTypeOK
<1>1. \A x \in EvenNodes : /\ x \in Node /\ EvenWalkLegal(x) /\ belongs[x] # NoNode /\ is_even[x] = 1
                           /\ Walk(path_table, x) \in Path /\ Walk(path_table, x)[1] = x
                           /\ Len(Walk(path_table, x)) \in Nat \ {0}
                           /\ Len(Walk(path_table, x)) <= nodes
  <2>1. TAKE x \in EvenNodes
  <2>2. x \in Node /\ EvenWalkLegal(x) /\ belongs[x] # NoNode /\ is_even[x] = 1
    BY DEF EvenNodes, EvenNode, Hanging, LegalForest
  <2>3. /\ Walk(path_table, x) \in Path /\ Walk(path_table, x)[1] = x
        /\ Len(Walk(path_table, x)) \in Nat /\ Len(Walk(path_table, x)) % 2 = 1
        /\ Len(Walk(path_table, x)) <= nodes
    BY <1>0, <2>2, EvenWalk
  <2>4. QED  BY <2>2, <2>3
<1>2. 0 \in T
  BY <1>1
<1>3. ASSUME NEW m \in Nat, m \in T
      PROVE  m + 1 \in T
  <2>1. Good(m)
    BY <1>3
  <2>2. ASSUME NEW x \in EvenNodes, Len(Walk(path_table, x)) <= m + 1
        PROVE  \E b : IsBase(b) /\ Reaches(x, b, {})
    <3>1. x \in Node /\ EvenWalkLegal(x) /\ is_even[x] = 1
      BY <1>1
    <3>2. Reaches(x, x, {})
      BY <1>0, ReachesSelf
    <3>3. CASE path_table[x] = <<>>
      <4>1. Walk(path_table, x) = <<x>>
        BY <1>0, <3>1, <3>3, WalkStays
      <4>2. M[x] = NoNode
        BY <3>1, <4>1 DEF EvenWalkLegal, IsEvenWalk, Last
      <4>3. IsBase(x)
        BY <4>2 DEF IsBase, EvenNodes, Node, NoNode
      <4>4. QED  BY <3>2, <4>3
    <3>4. CASE path_table[x] # <<>>
      <4> DEFINE e == path_table[x]  y == Last(e)  p == <<x>> \o e
      <4>1. e \in Seq(Node) /\ e # <<>>
        BY <1>0, <3>1, <3>4
      <4>2. y \in EvenNodes
        BY <3>4 DEF LinksEven, Hanging
      <4>3. y \in Node /\ Len(Walk(path_table, y)) <= nodes /\ Walk(path_table, y) \in Path
            /\ Walk(path_table, y)[1] = y /\ Len(Walk(path_table, y)) \in Nat \ {0}
        BY <1>1, <4>2
      <4>4. Walk(path_table, x) = Link(p, Walk(path_table, y))
        BY <1>0, <3>1, <3>4, <4>3, WalkStep
      <4> HIDE DEF e
      <4>5. /\ <<x>> \in Seq(Node) /\ Len(<<x>>) = 1 /\ p \in Seq(Node)
            /\ Range(p) = Range(<<x>>) \cup Range(e)
        <5>1. <<x>> \in Seq(Node) /\ Len(<<x>>) = 1
          BY <3>1
        <5>2. p \in Seq(Node) /\ Range(p) = Range(<<x>>) \cup Range(e)
          BY ZenonT(30), <4>1, <5>1, ConcatRange
        <5>3. QED  BY <5>1, <5>2
      <4>6. Range(<<x>>) = {x}
        BY DEF Range
      <4>7. /\ Len(p) = 1 + Len(e) /\ Len(e) \in Nat \ {0} /\ p[1] = x
            /\ \A i \in 1 .. Len(e) : p[i + 1] = e[i]
        BY <3>1, <4>1, <4>5, ConcatProperties, LenProperties, EmptySeq
      <4>8. Last(p) = y /\ p \in Path
        BY <4>5, <4>7 DEF Last, Path
      <4> HIDE DEF p, y
      <4>9. /\ Len(Walk(path_table, x)) = Len(p) + Len(Walk(path_table, y)) - 1
            /\ \A i \in 1 .. Len(p) : Walk(path_table, x)[i] = p[i]
            /\ Range(Walk(path_table, x)) = Range(p) \cup Range(Walk(path_table, y))
        BY <4>3, <4>4, <4>8, LinkFacts
      <4>10. CASE \A z \in Range(e) : is_even[z] = 1
        <5>1. \A z \in Range(p) : Bright(z, {})
          BY <3>1, <4>5, <4>6, <4>10 DEF Bright
        <5>2. Comes(p, x, y, {})
          BY <4>2, <4>4, <4>7, <4>8, <5>1 DEF Comes
        <5>3. Reaches(x, y, {})
          BY <1>0, <3>1, <5>2, ComesReaches
        <5>4. Len(Walk(path_table, y)) <= m
          BY <2>2, <4>3, <4>7, <4>9
        <5>5. PICK b : IsBase(b) /\ Reaches(y, b, {})
          BY <2>1, <4>2, <5>4
        <5>6. Reaches(x, b, {})
          BY <1>0, <3>1, <5>3, <5>5, ReachesOn
        <5>7. QED  BY <5>5, <5>6
      <4>11. CASE \E z \in Range(e) : is_even[z] # 1
        <5>1. PICK o \in Range(e) : is_even[o] # 1
          BY <4>11
        <5>2. o \in Node /\ belongs[o] = belongs[x]
          <6>1. o \in Range(Walk(path_table, x))
            BY <4>5, <4>9
          <6>2. Walk(path_table, x) \in Seq(Node)
            BY <1>1 DEF Path
          <6>3. QED  BY <3>1, <6>1, <6>2, RangeOfSeq DEF EvenWalkLegal
        <5>3. OddNode(o) /\ o \in StillOdd({}) /\ o \notin EvenNodes
          BY <1>0, <1>1, <5>1, <5>2 DEF OddNode, StillOdd, ForestTypeOK, EvenNodes, EvenNode
        <5>4. e[1] = o
          BY <5>1, <5>3 DEF OddsOnce, e
        <5>5. Walk(path_table, x)[2] = o /\ Walk(path_table, x)[1] = x /\ Len(Walk(path_table, x)) >= 2
          BY <1>1, <4>3, <4>7, <4>9, <5>4
        <5>6. M[x] = o
          <6>1. 1 \in 1 .. (Len(Walk(path_table, x)) - 1) /\ 1 % 2 = 1
            BY <1>1, <5>5
          <6>2. QED  BY <3>1, <5>5, <6>1 DEF EvenWalkLegal, IsEvenWalk
        <5>7. QED  BY <3>2, <5>3, <5>6 DEF IsBase
      <4>12. QED  BY <4>10, <4>11
    <3>5. QED  BY <3>3, <3>4
  <2>3. QED  BY <2>2
<1> HIDE DEF T, Good
<1>4. \A k \in Nat : k \in T
  <2>1. \A k \in Nat : k \in T => k + 1 \in T
    BY <1>3
  <2>2. QED  BY <1>2, <2>1, SetInduction
<1>5. QED  BY <1>4 DEF T, Good

\* And only to one: a base on the way would be followed by its mate, a dark node.
LEMMA BaseOnce ==
  ASSUME Hanging, NEW x \in EvenNodes, NEW b, NEW c, IsBase(b), IsBase(c),
         Reaches(x, b, {}), Reaches(x, c, {})
  PROVE  b = c
<1>0. path_table \in [Node -> Seq(Node)] /\ ForestTypeOK
  BY DEF Hanging, ForestTypeOK
<1>1. ASSUME NEW a, NEW d, IsBase(a), NEW p, NEW q, Comes(p, x, a, {}), Comes(q, x, d, {}),
             Len(p) < Len(q)
      PROVE  FALSE
  <2> DEFINE W == Walk(path_table, x)  A == Walk(path_table, a)  D == Walk(path_table, d)
  <2>1. /\ p \in Path /\ Last(p) = a /\ a \in EvenNodes /\ W = Link(p, A)
        /\ q \in Path /\ d \in EvenNodes /\ Last(q) = d /\ W = Link(q, D)
        /\ \A y \in Range(q) : Bright(y, {})
    BY <1>1 DEF Comes
  <2>2. \A y \in EvenNodes : y \in Node /\ EvenWalkLegal(y)
    BY DEF EvenNodes, EvenNode, Hanging, LegalForest
  <2>3. \A y \in EvenNodes : /\ Walk(path_table, y) \in Path /\ Walk(path_table, y)[1] = y
                             /\ Len(Walk(path_table, y)) \in Nat /\ Len(Walk(path_table, y)) % 2 = 1
    BY <1>0, <2>2, EvenWalk
  <2>12. /\ A \in Path /\ A[1] = a /\ D \in Path /\ D[1] = d /\ W \in Path
         /\ Len(W) \in Nat /\ Len(W) % 2 = 1 /\ Len(A) \in Nat \ {0} /\ Len(A) % 2 = 1
         /\ Len(D) \in Nat \ {0}
    BY <2>1, <2>3
  <2>13. IsEvenWalk(adj, M, W) /\ \A y \in Range(W) : belongs[y] = belongs[x]
    BY <2>2 DEF EvenWalkLegal
  <2> HIDE DEF W, A, D
  <2>4. /\ Len(W) = Len(p) + Len(A) - 1
        /\ \A i \in 1 .. Len(p) : W[i] = p[i]
        /\ Len(p) \in Nat \ {0}
    <3>1. p \in Path /\ A \in Path /\ Last(p) = A[1] /\ W = Link(p, A)
      BY <2>1, <2>12
    <3>2. QED  BY <3>1, LinkFacts
  <2>5. /\ Len(W) = Len(q) + Len(D) - 1
        /\ \A i \in 1 .. Len(q) : W[i] = q[i]
        /\ Len(q) \in Nat \ {0}
    BY <2>1, <2>12, LinkFacts
  <2>6. Len(p) % 2 = 1 /\ Len(p) + 1 \in 1 .. Len(q) /\ Len(p) \in 1 .. Len(W) - 1 /\ Len(W) \in Nat
    <3>1. \A l, n, m \in Nat : l % 2 = 1 /\ n % 2 = 1 /\ l = m + n - 1 => m % 2 = 1
      OBVIOUS
    <3>2. Len(p) % 2 = 1
      BY <2>4, <2>12, <3>1
    <3>3. Len(W) >= Len(q)
      BY <2>5, <2>12
    <3>4. QED  BY <1>1, <2>12, <2>4, <2>5, <3>2, <3>3
  <2>7. W[Len(p)] = a /\ W[Len(p) + 1] = q[Len(p) + 1]
    <3>1. p[Len(p)] = a
      BY <2>1 DEF Last
    <3>2. Len(p) \in 1 .. Len(p)
      BY <2>4
    <3>3. QED  BY <2>4, <2>5, <2>6, <3>1, <3>2
  <2>8. M[a] = q[Len(p) + 1]
    <3>1. M[W[Len(p)]] = W[Len(p) + 1]
      BY <2>6, <2>13 DEF IsEvenWalk
    <3>2. QED  BY <2>7, <3>1
  <2>9. q[Len(p) + 1] \in EvenNodes
    <3>1. q[Len(p) + 1] \in Range(q) /\ q[Len(p) + 1] \in Node
      BY <2>1, <2>6, ElementOfSeq, LenProperties DEF Path, Range
    <3>2. is_even[q[Len(p) + 1]] = 1
      BY <2>1, <3>1 DEF Bright
    <3>3. belongs[q[Len(p) + 1]] = belongs[x]
      <4>1. q[Len(p) + 1] \in Range(W)
        <5>1. Len(p) + 1 \in 1 .. Len(W)
          BY <2>6
        <5>2. W \in Seq(Node)
          BY <2>12 DEF Path
        <5>3. QED  BY <2>7, <5>1, <5>2, LenProperties DEF Range
      <4>2. QED  BY <2>13, <4>1
    <3>4. QED  BY <3>1, <3>2, <3>3 DEF EvenNodes, EvenNode
  <2>10. QED  BY <1>1, <2>8, <2>9 DEF IsBase
<1>2. x \in Node
  BY DEF EvenNodes
<1>3. PICK p : Comes(p, x, b, {})
  BY <1>0, <1>2, ReachesComes
<1>4. PICK q : Comes(q, x, c, {})
  BY <1>0, <1>2, ReachesComes
<1>5. Len(p) = Len(q)
  <2>1. Len(p) \in Nat /\ Len(q) \in Nat
    BY <1>3, <1>4 DEF Comes, Path
  <2>2. QED  BY <1>1, <1>3, <1>4, <2>1
<1>6. QED
  <2> DEFINE W == Walk(path_table, x)
  <2>1. /\ p \in Path /\ Last(p) = b /\ b \in Node /\ W = Link(p, Walk(path_table, b))
        /\ q \in Path /\ Last(q) = c /\ c \in Node /\ W = Link(q, Walk(path_table, c))
    BY <1>3, <1>4 DEF Comes, EvenNodes
  <2>2. /\ Walk(path_table, b) \in Path /\ Walk(path_table, b)[1] = b
        /\ Walk(path_table, c) \in Path /\ Walk(path_table, c)[1] = c
    BY <1>0, <2>1, WalkType
  <2>3. \A i \in 1 .. Len(p) : Link(p, Walk(path_table, b))[i] = p[i]
    BY <2>1, <2>2, LinkFacts
  <2>4. \A i \in 1 .. Len(q) : Link(q, Walk(path_table, c))[i] = q[i]
    BY <2>1, <2>2, LinkFacts
  <2>5. Len(p) \in 1 .. Len(p)
    BY <2>1 DEF Path
  <2>6. p[Len(p)] = q[Len(q)]
    BY <1>5, <2>1, <2>3, <2>4, <2>5
  <2>7. QED  BY <2>1, <2>6 DEF Last

\* When nothing is left to do around the even nodes the matching is maximum.
LEMMA ShrunkIsMaximum ==
  ASSUME Hanging, IsUndirected(adj), IsMatching(adj, M), OddsOnce({}),
         \A x \in Node : M[x] # x /\ (M[x] = NoNode => x \in EvenNodes),
         \A x \in Node : OddNode(x) => M[x] \in EvenNodes,
         \A x \in EvenNodes : M[x] \in EvenNodes => Merged(x, M[x], {}),
         \A x \in EvenNodes : \A w \in Node : IsAdjacent(adj, x, w) =>
           OddNode(w) \/ (w \in EvenNodes /\ Merged(x, w, {}))
  PROVE  IsMaximumMatching(adj, M)
<1> DEFINE O == {x \in Node : OddNode(x)}
           base == [x \in EvenNodes |-> CHOOSE b : IsBase(b) /\ Reaches(x, b, {})]
<1>0. path_table \in [Node -> Seq(Node)] /\ ForestTypeOK /\ EvenNodes \in SUBSET Node
      /\ adj \in [Node -> Seq(Node)]
  BY DEF Hanging, ForestTypeOK, EvenNodes
<1>1. \A x \in EvenNodes : IsBase(base[x]) /\ Reaches(x, base[x], {})
  <2>1. SUFFICES ASSUME NEW x \in EvenNodes
                 PROVE  \E b : IsBase(b) /\ Reaches(x, b, {})
    OBVIOUS
  <2>2. Len(Walk(path_table, x)) \in Nat
    BY <1>0, WalkType, LenProperties
  <2>3. QED  BY <2>2, BaseExists
<1> HIDE DEF base
<1>2. \A x \in EvenNodes : \A b : IsBase(b) /\ Reaches(x, b, {}) => base[x] = b
  BY <1>1, BaseOnce
<1>3. ASSUME NEW x \in EvenNodes, NEW w \in EvenNodes, Merged(x, w, {})
      PROVE  base[w] = base[x]
  <2>1. PICK z \in EvenNodes : Reaches(x, z, {}) /\ Reaches(w, z, {})
    BY <1>3 DEF Merged
  <2>2. IsBase(base[z]) /\ Reaches(z, base[z], {})
    BY <1>1
  <2>3. Reaches(x, base[z], {}) /\ Reaches(w, base[z], {})
    BY <1>0, <2>1, <2>2, ReachesOn
  <2>4. QED  BY <1>2, <2>2, <2>3
<1>4. Classes(EvenNodes, O, base)
  <2>1. EvenNodes \cap O = {}
    BY DEF EvenNodes, EvenNode, OddNode
  <2>2. \A o \in O : M[o] \in EvenNodes /\ M[M[o]] = o
    <3>1. TAKE o \in O
    <3>2. M[o] \in EvenNodes
      OBVIOUS
    <3>3. o \in Matched(M)
      BY <1>0, <3>2 DEF Matched, Node, NoNode
    <3>4. QED  BY <3>2, <3>3 DEF IsMatching
  <2>3. base \in [EvenNodes -> EvenNodes]
    <3>1. \A x \in EvenNodes : base[x] \in EvenNodes
      BY <1>1 DEF IsBase
    <3>2. QED  BY <3>1 DEF base
  <2>4. \A x \in EvenNodes : M[base[x]] \notin EvenNodes
    BY <1>1 DEF IsBase
  <2>5. ASSUME NEW x \in EvenNodes, x # base[x]
        PROVE  M[x] \in EvenNodes /\ M[M[x]] = x /\ M[x] # x /\ base[M[x]] = base[x]
    <3>1. M[x] \in EvenNodes
      <4>1. SUFFICES ASSUME M[x] \notin EvenNodes
                     PROVE  FALSE
        OBVIOUS
      <4>2. IsBase(x) /\ Reaches(x, x, {})
        BY <1>0, <4>1, ReachesSelf DEF IsBase
      <4>3. QED  BY <1>2, <2>5, <4>2
    <3>2. x \in Node /\ x \in Matched(M)
      BY <1>0, <3>1 DEF Matched, Node, NoNode
    <3>3. M[M[x]] = x
      BY <3>2 DEF IsMatching
    <3>4. base[M[x]] = base[x]
      BY <1>3, <3>1
    <3>5. QED  BY <3>1, <3>2, <3>3, <3>4
  <2>6. \A x \in EvenNodes : \A w \in Node : IsAdjacent(adj, x, w) =>
          w \in O \/ (w \in EvenNodes /\ base[w] = base[x])
    BY <1>3
  <2>7. O \in SUBSET Node
    OBVIOUS
  <2> HIDE DEF O
  <2>8. QED  BY <1>0, <2>1, <2>2, <2>3, <2>4, <2>5, <2>6, <2>7 DEF Classes
<1>5. QED  BY <1>0, <1>4, ClassesMaximum

-----------------------------------------------------------------------------
(***************************************************************************)
(* What a blossom does: with its odd nodes turned both ends of the edge    *)
(* come to its base, and so does the mate of each odd node.                *)
(***************************************************************************)
LEMMA SideReaches ==
  ASSUME path_table \in [Node -> Seq(Node)], NEW v \in Node, NEW w, NEW p, NEW q, NEW base,
         Side(v, w, p, q, base), NEW turning, Range(p) \ EvenNodes \subseteq turning
  PROVE  Reaches(v, base, turning)
<1>1. \A y \in Range(p) : Bright(y, turning)
  BY DEF Bright, EvenNodes, EvenNode
<1>2. Comes(p, v, base, turning)
  BY <1>1 DEF Side, Comes
<1>3. QED  BY <1>2, ComesReaches

\* r is what p has behind u.
Rest(r, p, u, y, b) ==
  /\ r \in Path /\ r[1] = y[1] /\ Last(r) = Last(p) /\ Range(r) \subseteq Range(p)
  /\ y = Link(r, b)

\* Two links to the same path, and the first hop of one is shorter.
LEMMA LinkCut ==
  ASSUME NEW p \in Path, NEW b \in Path, Last(p) = b[1],
         NEW u \in Path, NEW y \in Path, Last(u) = y[1],
         Link(p, b) = Link(u, y), Len(u) <= Len(p)
  PROVE  \E r : Rest(r, p, u, y, b)
<1> DEFINE r == SubSeq(p, Len(u), Len(p))  L == Link(p, b)
<1>1. /\ L \in Path /\ Len(L) = Len(p) + Len(b) - 1
      /\ \A i \in 1 .. Len(p) : L[i] = p[i]
      /\ \A i \in 1 .. Len(b) : L[Len(p) + i - 1] = b[i]
      /\ Len(p) \in Nat \ {0} /\ Len(b) \in Nat \ {0}
  BY LinkFacts
<1>2. /\ Len(L) = Len(u) + Len(y) - 1
      /\ \A i \in 1 .. Len(u) : L[i] = u[i]
      /\ \A i \in 1 .. Len(y) : L[Len(u) + i - 1] = y[i]
      /\ Len(u) \in Nat \ {0} /\ Len(y) \in Nat \ {0}
  <2>1. L = Link(u, y)
    OBVIOUS
  <2> HIDE DEF L
  <2>2. /\ Len(Link(u, y)) = Len(u) + Len(y) - 1
        /\ \A i \in 1 .. Len(u) : Link(u, y)[i] = u[i]
        /\ \A i \in 1 .. Len(y) : Link(u, y)[Len(u) + i - 1] = y[i]
        /\ Len(u) \in Nat \ {0} /\ Len(y) \in Nat \ {0}
    BY LinkFacts
  <2>3. QED  BY <2>1, <2>2
<1> HIDE DEF L
<1>3. \A i \in Len(u) .. Len(p) : p[i] \in Node
  BY <1>1, <1>2 DEF Path
<1>4. /\ r \in Seq(Node) /\ Len(r) = Len(p) - Len(u) + 1
      /\ \A i \in 1 .. (Len(p) - Len(u) + 1) : r[i] = p[Len(u) + i - 1]
  BY <1>1, <1>2, <1>3, SubSeqProperties
<1> HIDE DEF r
<1>5. Len(r) \in Nat \ {0} /\ r \in Path /\ Last(r) = Last(p) /\ r[1] = p[Len(u)]
  <2>1. Len(r) \in Nat \ {0} /\ r # <<>>
    BY <1>1, <1>2, <1>4
  <2>2. r[Len(r)] = p[Len(p)] /\ r[1] = p[Len(u)]
    <3>1. /\ Len(r) \in 1 .. (Len(p) - Len(u) + 1) /\ Len(u) + Len(r) - 1 = Len(p)
          /\ 1 \in 1 .. (Len(p) - Len(u) + 1) /\ Len(u) + 1 - 1 = Len(u)
      BY <1>1, <1>2, <1>4
    <3>2. r[Len(r)] = p[Len(u) + Len(r) - 1] /\ r[1] = p[Len(u) + 1 - 1]
      BY <1>4, <3>1
    <3>3. QED  BY <3>1, <3>2
  <2>3. QED  BY <1>4, <2>1, <2>2 DEF Path, Last
<1>6. Range(r) \subseteq Range(p)
  <2>1. SUFFICES ASSUME NEW i \in 1 .. Len(r)
                 PROVE  r[i] \in Range(p)
    BY <1>4 DEF Range
  <2>2. Len(u) + i - 1 \in 1 .. Len(p) /\ r[i] = p[Len(u) + i - 1]
    BY <1>1, <1>2, <1>4
  <2>3. QED  BY <2>2 DEF Path, Range
<1>7. r[1] = y[1]
  <2>1. Len(u) \in 1 .. Len(p) /\ Len(u) \in 1 .. Len(u)
    BY <1>1, <1>2
  <2>2. u[Len(u)] = y[1]
    BY DEF Last
  <2>3. QED  BY <1>1, <1>2, <1>5, <2>1, <2>2
<1>8. /\ Link(r, b) \in Path /\ Len(Link(r, b)) = Len(r) + Len(b) - 1
      /\ \A i \in 1 .. Len(r) : Link(r, b)[i] = r[i]
      /\ \A i \in 1 .. Len(b) : Link(r, b)[Len(r) + i - 1] = b[i]
  BY <1>5, LinkFacts
<1> DEFINE z == Link(r, b)
<1> HIDE DEF z
<1>9. Len(y) = Len(z) /\ Len(y) = Len(r) + Len(b) - 1
  <2>1. Len(z) = Len(r) + Len(b) - 1
    BY <1>8 DEF z
  <2>2. Len(y) = Len(r) + Len(b) - 1
    <3>1. \A k, f, g, h, i \in Int : k = f + g - 1 /\ k = h + i - 1 => i = f - h + 1 + g - 1
      OBVIOUS
    <3>2. /\ Len(L) = Len(p) + Len(b) - 1 /\ Len(L) = Len(u) + Len(y) - 1
          /\ Len(p) \in Int /\ Len(b) \in Int /\ Len(u) \in Int /\ Len(y) \in Int /\ Len(L) \in Int
      BY <1>1, <1>2
    <3>3. Len(y) = Len(p) - Len(u) + 1 + Len(b) - 1
      BY <3>1, <3>2
    <3>4. QED  BY <1>4, <3>3
  <2>3. QED  BY <2>1, <2>2
<1>10. ASSUME NEW i \in 1 .. Len(y)
       PROVE  y[i] = z[i]
  <2>1. y[i] = L[Len(u) + i - 1]
    BY <1>2
  <2>2. CASE i <= Len(r)
    <3>1. i \in 1 .. Len(r) /\ Len(u) + i - 1 \in 1 .. Len(p) /\ i \in 1 .. (Len(p) - Len(u) + 1)
      BY <1>1, <1>2, <1>4, <1>5, <2>2
    <3>2. z[i] = r[i] /\ r[i] = p[Len(u) + i - 1] /\ L[Len(u) + i - 1] = p[Len(u) + i - 1]
      BY <1>1, <1>4, <1>8, <3>1 DEF z
    <3>3. QED  BY <2>1, <3>2
  <2>3. CASE i > Len(r)
    <3> DEFINE k == i - Len(r) + 1
    <3>1. k \in 1 .. Len(b) /\ Len(p) + k - 1 = Len(u) + i - 1 /\ Len(r) + k - 1 = i
      BY SMTT(30), <1>1, <1>2, <1>4, <1>5, <1>9, <2>3
    <3> HIDE DEF k
    <3>2. L[Len(p) + k - 1] = b[k] /\ z[Len(r) + k - 1] = b[k]
      BY <1>1, <1>8, <3>1 DEF z
    <3>3. QED  BY <2>1, <3>1, <3>2
  <2>4. QED  BY <1>2, <1>5, <2>2, <2>3
<1>11. y = z
  BY <1>8, <1>9, <1>10, SeqEqual DEF Path, z
<1>12. QED  BY <1>5, <1>6, <1>7, <1>11 DEF Rest, z

\* The mate of an odd node of the blossom is the anchor it stands behind.
LEMMA MateReaches ==
  ASSUME Hanging, Mutual, OddsOnce({}), NEW v \in EvenNodes, NEW w, NEW p, NEW q, NEW base,
         Side(v, w, p, q, base), NEW turning, Range(p) \ EvenNodes \subseteq turning,
         NEW m \in 2 .. (Len(p) - 1), m % 2 = 0, p[m] \notin EvenNodes
  PROVE  Reaches(M[p[m]], base, turning)
<1> DEFINE W == Walk(path_table, v)  B == Walk(path_table, base)  o == p[m]
<1>0. /\ path_table \in [Node -> Seq(Node)] /\ ForestTypeOK /\ v \in Node /\ EvenWalkLegal(v)
      /\ IsEvenWalk(adj, M, W)
  BY DEF Hanging, ForestTypeOK, EvenNodes, EvenNode, LegalForest, EvenWalkLegal
<1>1. /\ p \in Path /\ base \in EvenNodes /\ base \in Node /\ Last(p) = base
      /\ Len(p) \in Nat \ {0} /\ W = Link(p, B)
      /\ \A x \in Range(p) \ EvenNodes : x \in StillOdd({})
  BY DEF Side, EvenNodes
<1>2. B \in Path /\ B[1] = base
  BY <1>0, <1>1, WalkType
<1>3. m \in Nat /\ m - 1 \in Nat /\ m \in 1 .. Len(p) /\ m - 1 \in 1 .. Len(p) /\ (m - 1) % 2 = 1
  BY <1>1
<1>4. o \in StillOdd({}) /\ o \notin EvenNodes /\ o \in Node
  <2>1. o \in Range(p)
    BY <1>1, <1>3 DEF Path, Range
  <2>2. QED  BY <1>1, <2>1 DEF StillOdd
<1> HIDE DEF B, o
<1>5. /\ W \in Path /\ Len(W) = Len(p) + Len(B) - 1 /\ Len(B) \in Nat \ {0}
      /\ \A i \in 1 .. Len(p) : W[i] = p[i]
  BY <1>1, <1>2, LinkFacts
<1>6. W[m] = o /\ m \in 1 .. Len(W) /\ m - 1 \in 1 .. (Len(W) - 1) /\ Len(W) \in Nat
  <2>1. W[m] = p[m]
    BY <1>3, <1>5
  <2>2. Len(W) >= Len(p) /\ Len(W) \in Nat
    BY <1>1, <1>5
  <2>3. QED  BY <1>3, <2>1, <2>2 DEF o
<1>7. PICK u, a, l : Anchored(u, a, l, v)
  BY EvenAnchors
<1>8. /\ u \in [Nat -> Path] /\ \A k \in Nat : a[k] = Last(u[k])
      /\ l \in Nat /\ W = u[l]
      /\ \A k \in Nat : a[k] \in EvenNodes /\ W = Link(u[k], Walk(path_table, a[k]))
  BY <1>7 DEF Anchored
<1>9. o \in Range(u[l])
  <2>1. W \in Seq(Node)
    BY <1>5 DEF Path
  <2>2. o \in Range(W)
    BY <1>6, <2>1 DEF Range
  <2>3. QED  BY <1>8, <2>2
<1>10. PICK j \in Nat : j < l /\ o \in Range(path_table[a[j]])
  BY <1>4, <1>7, <1>8, <1>9, OddInEntry
<1>11. StandsBehind(o, u, j, l)
  BY <1>4, <1>7, <1>8, <1>10, OddPlace
<1>12. /\ Len(u[j]) + 1 \in 2 .. (Len(W) - 1) /\ W[Len(u[j]) + 1] = o
  BY <1>8, <1>11 DEF StandsBehind
<1>13. u[j] \in Path /\ Len(u[j]) \in Nat
  BY <1>8, <1>10 DEF Path
<1>14. Len(u[j]) + 1 = m
  <2>1. IsInjective(W)
    BY <1>0 DEF IsEvenWalk
  <2>2. Len(u[j]) + 1 \in 1 .. Len(W)
    BY <1>6, <1>12, <1>13
  <2>3. \A h, i \in 1 .. Len(W) : W[h] = W[i] => h = i
    BY <1>5, <2>1 DEF IsInjective, Path
  <2>4. QED  BY <1>6, <1>12, <2>2, <2>3
<1>15. /\ a[j] \in EvenNodes /\ a[j] \in Node /\ Last(u[j]) = a[j]
       /\ W = Link(u[j], Walk(path_table, a[j]))
  BY <1>8, <1>10 DEF EvenNodes
<1> DEFINE Y == Walk(path_table, a[j])
<1>16. Y \in Path /\ Y[1] = a[j]
  BY <1>0, <1>15, WalkType
<1> HIDE DEF Y
<1>17. \E r : Rest(r, p, u[j], Y, B)
  <2>1. Len(u[j]) <= Len(p)
    BY <1>3, <1>13, <1>14
  <2>2. Last(p) = B[1] /\ Last(u[j]) = Y[1] /\ Link(p, B) = Link(u[j], Y)
    BY <1>1, <1>2, <1>15, <1>16 DEF Y
  <2>3. QED  BY <1>1, <1>2, <1>13, <1>16, <2>1, <2>2, LinkCut
<1>18. PICK r : Rest(r, p, u[j], Y, B)
  BY <1>17
<1>19. \A y \in Range(r) : Bright(y, turning)
  BY <1>18 DEF Rest, Bright, EvenNodes, EvenNode
<1>20. Comes(r, a[j], base, turning)
  BY <1>1, <1>16, <1>18, <1>19 DEF Comes, Rest, Y, B
<1>21. Reaches(a[j], base, turning)
  BY <1>0, <1>15, <1>20, ComesReaches
<1>22. M[o] = a[j]
  <2>1. \A i \in 1 .. Len(u[j]) : Link(u[j], Y)[i] = u[j][i]
    BY <1>13, <1>15, <1>16, LinkFacts
  <2>2. W[m - 1] = a[j]
    <3>1. Len(u[j]) = m - 1 /\ Len(u[j]) \in 1 .. Len(u[j])
      BY <1>3, <1>13, <1>14
    <3>2. u[j][Len(u[j])] = a[j]
      BY <1>15 DEF Last
    <3>3. QED  BY <1>15, <2>1, <3>1, <3>2 DEF Y
  <2>3. M[W[m - 1]] = W[(m - 1) + 1]
    BY <1>0, <1>3, <1>6 DEF IsEvenWalk
  <2>4. M[a[j]] = o
    <3>1. (m - 1) + 1 = m
      BY <1>3
    <3>2. QED  BY <1>6, <2>2, <2>3, <3>1
  <2>5. o # NoNode
    BY <1>4 DEF Node, NoNode
  <2>6. QED  BY <1>15, <2>4, <2>5 DEF Mutual
<1>23. QED  BY <1>21, <1>22 DEF o

=============================================================================
