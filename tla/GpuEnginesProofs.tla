-------------------------- MODULE GpuEnginesProofs --------------------------
(***************************************************************************)
(* Why the GPU engines are right: what the host launches between two       *)
(* kernels and the repair of the forest keep Sound and Thorough too, so    *)
(* they hold in every state; and what the properties of the runs say can   *)
(* be read off them.  Seen from outside the engines implement              *)
(* MatchingGrowth, and the matching they return is maximum.                *)
(***************************************************************************)
EXTENDS GpuKernelProofs

-----------------------------------------------------------------------------
\* The odd nodes of a blossom: those of its two sides.
LEMMA OddNodesSplit ==
  ASSUME NEW v, NEW w, NEW p, NEW q, NEW base, Side(v, w, p, q, base), Side(w, v, q, p, base)
  PROVE  /\ OddNodes(v, w) = TurnsOf(p, q) \cup TurnsOf(q, p)
         /\ Blossom(v, w) = Reverse(p) \o q
<1>1. /\ p \in Path /\ q \in Path /\ Len(p) % 2 = 1
      /\ Chased(v, w) = <<base, base>> /\ SegmentTo(v, base) = p /\ SegmentTo(w, base) = q
  BY DEF Side
<1>2. Chased(v, w)[1] = base
  BY <1>1
<1>3. Blossom(v, w) = Reverse(p) \o q
  BY <1>1, <1>2 DEF Blossom
<1>4. /\ {SubSeq(Reverse(p) \o q, i, Len(Reverse(p) \o q)) :
            i \in {k \in 2 .. (Len(p) - 1) : k % 2 = 0}} = TurnsOf(p, q)
      /\ {Reverse(SubSeq(Reverse(p) \o q, 1, i)) :
            i \in {k \in (Len(p) + 2) .. (Len(Reverse(p) \o q) - 1) : k % 2 = 1}} = TurnsOf(q, p)
  BY <1>1, RightHalf, LeftHalf
<1>5. OddNodes(v, w) =
        {SubSeq(Reverse(p) \o q, i, Len(Reverse(p) \o q)) :
            i \in {k \in 2 .. (Len(p) - 1) : k % 2 = 0}} \cup
        {Reverse(SubSeq(Reverse(p) \o q, 1, i)) :
            i \in {k \in (Len(p) + 2) .. (Len(Reverse(p) \o q) - 1) : k % 2 = 1}}
  BY <1>1, <1>2, <1>3 DEF OddNodes
<1>6. QED  BY <1>3, <1>4, <1>5

\* What a blossom gives each of its odd nodes.
BlossomTurn(work, works) ==
  /\ work \in Path /\ Len(work) >= 3
  /\ is_even[work[1]] = 0 => TurnLegal(work)
  /\ \A x \in Range(work) : is_even[x] = 1 \/ x \in {u[1] : u \in works}
  /\ \A o \in StillOdd({u[1] : u \in works}) : \E s, t \in Walks : Mixed(WalkOf(work), s, t, o)

\* The odd nodes of one side.
LEMMA SideTurns ==
  ASSUME Hanging, IsUndirected(adj), Mutual, OddsOnce({}), OddsApart(Walks, {}),
         NEW v \in EvenNodes, NEW w \in EvenNodes, belongs[w] = belongs[v],
         IsAdjacent(adj, v, w), M[v] # w,
         NEW p, NEW q, NEW base, Side(v, w, p, q, base), Side(w, v, q, p, base),
         NEW works, TurnsOf(p, q) \subseteq works, TurnsOf(q, p) \subseteq works,
         NEW work \in TurnsOf(p, q)
  PROVE  BlossomTurn(work, works)
<1>0. /\ v \in Node /\ w \in Node /\ ForestTypeOK /\ p \in Path /\ q \in Path
      /\ \A x \in Node : is_even[x] \in {0, 1}
  BY DEF EvenNodes, Hanging, ForestTypeOK, Side
<1>1. PICK m \in {k \in 2 .. (Len(p) - 1) : k % 2 = 0} : work = Back(p, m) \o q
  BY DEF TurnsOf
<1>2. /\ m \in Nat /\ m >= 2 /\ m \in 1 .. Len(p) /\ m \in 2 .. (Len(p) - 1) /\ m % 2 = 0
      /\ Len(q) \in Nat \ {0} /\ Len(p) \in Nat
  <2>1. Len(p) \in Nat /\ Len(q) \in Nat \ {0}
    BY <1>0, LenProperties, EmptySeq DEF Path
  <2>2. QED  BY <1>1, <2>1
<1>3. TurnOf(Back(p, m) \o q, v, w, p, q, m)
  BY <1>0, <1>2, TurnFacts
<1>4. work \in Path /\ Len(work) >= 3 /\ work[1] = p[m]
  <2>1. work \in Path /\ work[1] = p[m] /\ Len(work) = m + Len(q)
    BY <1>1, <1>3 DEF TurnOf
  <2>2. QED  BY <2>1, <1>2
<1>5. is_even[work[1]] = 0 => TurnLegal(work)
  <2>1. is_even[work[1]] = 0 => p[m] \notin EvenNodes
    BY <1>4 DEF EvenNodes, EvenNode
  <2>2. QED  BY <1>1, <1>2, <2>1, TurnRight
<1>6. \A x \in Range(p) : x \in EvenNodes \/ x \in {u[1] : u \in works}
  <2>1. SUFFICES ASSUME NEW x \in Range(p) \ EvenNodes
                 PROVE  x \in {u[1] : u \in works}
    OBVIOUS
  <2>2. PICK l \in 2 .. (Len(p) - 1) : l % 2 = 0 /\ p[l] = x
    BY <2>1 DEF Side
  <2>3. l \in 1 .. Len(p)
    BY <2>2, <1>2
  <2>4. TurnOf(Back(p, l) \o q, v, w, p, q, l)
    BY <1>0, <2>3, TurnFacts
  <2>5. Back(p, l) \o q \in works
    BY <2>2 DEF TurnsOf
  <2>6. QED  BY <2>2, <2>4, <2>5 DEF TurnOf
<1>7. \A x \in Range(q) : x \in EvenNodes \/ x \in {u[1] : u \in works}
  <2>1. SUFFICES ASSUME NEW x \in Range(q) \ EvenNodes
                 PROVE  x \in {u[1] : u \in works}
    OBVIOUS
  <2>2. PICK l \in 2 .. (Len(q) - 1) : l % 2 = 0 /\ q[l] = x
    BY <2>1 DEF Side
  <2>3. l \in 1 .. Len(q)
    BY <2>2, <1>2
  <2>4. TurnOf(Back(q, l) \o p, w, v, q, p, l)
    BY <1>0, <2>3, TurnFacts
  <2>5. Back(q, l) \o p \in works
    BY <2>2 DEF TurnsOf
  <2>6. QED  BY <2>2, <2>4, <2>5 DEF TurnOf
<1>8. \A x \in Range(work) : is_even[x] = 1 \/ x \in {u[1] : u \in works}
  <2>1. Range(work) \subseteq Range(p) \cup Range(q)
    BY <1>1, <1>3 DEF TurnOf, BackOf
  <2>2. QED  BY <2>1, <1>6, <1>7 DEF EvenNodes, EvenNode
<1>9. ASSUME NEW o \in StillOdd({u[1] : u \in works})
      PROVE  \E s, t \in Walks : Mixed(WalkOf(work), s, t, o)
  <2>1. o \notin EvenNodes /\ o \notin {u[1] : u \in works}
    BY DEF StillOdd, OddNode, EvenNodes, EvenNode
  <2>2. o \notin Range(p) /\ o \notin Range(q)
    BY <2>1, <1>6, <1>7
  <2>3. Mixed(WalkOf(Back(p, m) \o q), Walk(path_table, v), Walk(path_table, w), o)
    BY <2>2, <1>2, TurnMixed
  <2>4. Walk(path_table, v) \in Walks /\ Walk(path_table, w) \in Walks
    BY DEF Walks
  <2>5. QED  BY <1>1, <2>3, <2>4
<1>10. QED  BY <1>4, <1>5, <1>8, <1>9 DEF BlossomTurn

\* The odd nodes of a blossom get legal walks, which the other odd nodes keep apart.
LEMMA BlossomTurns ==
  ASSUME Hanging, IsUndirected(adj), Mutual, OddsOnce({}), OddsApart(Walks, {}),
         NEW v \in EvenNodes, NEW w \in EvenNodes, belongs[w] = belongs[v],
         IsAdjacent(adj, v, w), M[v] # w, NEW works, OddNodes(v, w) \subseteq works,
         NEW work \in OddNodes(v, w)
  PROVE  BlossomTurn(work, works) \/ BlossomTurn(work, works)
<1>1. PICK p, q, base : Side(v, w, p, q, base) /\ Side(w, v, q, p, base)
  BY BlossomSides
<1>2. OddNodes(v, w) = TurnsOf(p, q) \cup TurnsOf(q, p)
  BY <1>1, OddNodesSplit
<1>3. v \in Node /\ w \in Node /\ ForestTypeOK
  BY DEF EvenNodes, Hanging
<1>4. IsAdjacent(adj, w, v) /\ M[w] # v
  BY <1>3, EdgeBack
<1>5. TurnsOf(p, q) \subseteq works /\ TurnsOf(q, p) \subseteq works
  BY <1>2
<1>6. CASE work \in TurnsOf(p, q)
  BY <1>1, <1>5, <1>6, SideTurns
<1>7. CASE work \in TurnsOf(q, p)
  BY <1>1, <1>4, <1>5, <1>7, SideTurns
<1>8. QED  BY <1>2, <1>6, <1>7

-----------------------------------------------------------------------------
(***************************************************************************)
(* The prefix sums.  f[k] is the first k rows one after the other.         *)
(***************************************************************************)
Flat(f, rows, S) ==
  /\ f \in [Nat -> Seq(S)]
  /\ f[0] = <<>>
  /\ \A k \in Nat : k < Len(rows) => f[k + 1] = f[k] \o rows[k + 1]
  /\ FlattenSeq(rows) = f[Len(rows)]

\* Rows can be written one behind the other.
LEMMA FlatExists ==
  ASSUME NEW S, NEW rows \in Seq(Seq(S))
  PROVE  \E f : Flat(f, rows, S)
  BY FlattenSteps DEF Flat

\* The sum before row k + 1 is what the first k rows hold.
LEMMA FlatPrefix ==
  ASSUME NEW S, NEW rows \in Seq(Seq(S)), NEW f, Flat(f, rows, S),
         NEW k \in 0 .. Len(rows)
  PROVE  FlattenSeq(SubSeq(rows, 1, k)) = f[k]
<1>0. Len(rows) \in Nat /\ k \in Nat /\ k <= Len(rows) /\ DOMAIN rows = 1 .. Len(rows)
  BY LenProperties
<1> DEFINE s == SubSeq(rows, 1, k)
<1>1. s \in Seq(Seq(S)) /\ Len(s) = k /\ \A i \in 1 .. k : s[i] = rows[i]
  <2>1. \A i \in 1 .. k : rows[i] \in Seq(S)
    BY <1>0, ElementOfSeq
  <2>2. s \in Seq(Seq(S)) /\ Len(s) = (IF 1 <= k THEN k - 1 + 1 ELSE 0)
        /\ \A i \in 1 .. k - 1 + 1 : s[i] = rows[1 + i - 1]
    BY <1>0, <2>1, SubSeqProperties
  <2>3. k - 1 + 1 = k /\ \A i \in 1 .. k : 1 + i - 1 = i
    BY <1>0
  <2>4. QED  BY <1>0, <2>2, <2>3
<1> HIDE DEF s
<1>2. PICK g : Flat(g, s, S)
  BY <1>1, FlatExists
<1> DEFINE T == {j \in Nat : j <= k => g[j] = f[j]}
<1> HIDE DEF T
<1>3. 0 \in T
  BY <1>2 DEF T, Flat
<1>4. ASSUME NEW j \in Nat, j \in T
      PROVE  j + 1 \in T
  <2>1. CASE j + 1 <= k
    <3>1. /\ j < Len(s) /\ j < Len(rows) /\ j <= k /\ j + 1 \in 1 .. k
      BY <2>1, <1>0, <1>1
    <3>2. g[j] = f[j] /\ s[j + 1] = rows[j + 1]
      BY <1>4, <3>1, <1>1 DEF T
    <3>3. g[j + 1] = g[j] \o s[j + 1] /\ f[j + 1] = f[j] \o rows[j + 1]
      BY <3>1, <1>2 DEF Flat
    <3>4. j + 1 \in Nat /\ g[j + 1] = f[j + 1]
      BY <3>2, <3>3
    <3>5. QED  BY <3>4 DEF T
  <2>2. CASE ~(j + 1 <= k)
    BY <2>2 DEF T
  <2>3. QED  BY <2>1, <2>2
<1>5. \A j \in Nat : j \in T
  BY <1>3, <1>4, SetInduction
<1>6. g[k] = f[k]
  BY <1>0, <1>5 DEF T
<1>7. QED  BY <1>1, <1>2, <1>6 DEF Flat, s

\* p is how q begins.
Begins(p, q) ==
  /\ Len(p) \in Nat /\ Len(q) \in Nat /\ Len(p) <= Len(q)
  /\ \A i \in 1 .. Len(p) : q[i] = p[i]

\* A beginning stays one when something is appended.
LEMMA BeginsOn ==
  ASSUME NEW S, NEW p \in Seq(S), NEW q \in Seq(S), NEW r \in Seq(S), Begins(p, q)
  PROVE  Begins(p, q \o r)
<1>1. /\ Len(q) \in Nat /\ Len(r) \in Nat /\ Len(q \o r) = Len(q) + Len(r)
      /\ \A i \in 1 .. Len(q) + Len(r) : (q \o r)[i] = IF i <= Len(q) THEN q[i] ELSE r[i - Len(q)]
  BY ConcatProperties, LenProperties
<1>2. QED  BY <1>1 DEF Begins

\* Rows that follow leave what is there.
LEMMA FlatGrows ==
  ASSUME NEW S, NEW rows \in Seq(Seq(S)), NEW f, Flat(f, rows, S),
         NEW k \in Nat, NEW l \in Nat, k <= l, l <= Len(rows)
  PROVE  Begins(f[k], f[l])
<1>0. Len(rows) \in Nat /\ \A j \in Nat : f[j] \in Seq(S) /\ Len(f[j]) \in Nat
  BY LenProperties DEF Flat
<1> DEFINE T == {j \in Nat : k <= j /\ j <= Len(rows) => Begins(f[k], f[j])}
<1> HIDE DEF T
<1>1. Begins(f[k], f[k])
  BY <1>0 DEF Begins
<1>2. 0 \in T
  <2>1. k <= 0 => k = 0
    OBVIOUS
  <2>2. QED  BY <2>1, <1>1 DEF T
<1>3. ASSUME NEW j \in Nat, j \in T
      PROVE  j + 1 \in T
  <2>0. j + 1 \in Nat
    OBVIOUS
  <2>1. CASE k <= j /\ j + 1 <= Len(rows)
    <3>1. j < Len(rows) /\ j <= Len(rows) /\ j + 1 \in 1 .. Len(rows)
      BY <2>1, <1>0
    <3>2. f[j + 1] = f[j] \o rows[j + 1]
      BY <3>1 DEF Flat
    <3>3. rows[j + 1] \in Seq(S)
      <4>1. DOMAIN rows = 1 .. Len(rows)
        BY LenProperties
      <4>2. QED  BY <3>1, <4>1, ElementOfSeq
    <3>4. Begins(f[k], f[j])
      BY <1>3, <2>1, <3>1 DEF T
    <3>5. f[k] \in Seq(S) /\ f[j] \in Seq(S)
      BY <1>0
    <3>6. Begins(f[k], f[j] \o rows[j + 1])
      BY <3>3, <3>4, <3>5, BeginsOn
    <3>7. QED  BY <2>0, <3>2, <3>6 DEF T
  <2>2. CASE k = j + 1
    BY <2>0, <2>2, <1>1 DEF T
  <2>3. CASE ~(k <= j + 1 /\ j + 1 <= Len(rows))
    BY <2>0, <2>3 DEF T
  <2>4. k <= j \/ k = j + 1 \/ ~(k <= j + 1)
    OBVIOUS
  <2>5. QED  BY <2>1, <2>2, <2>3, <2>4
<1>4. \A j \in Nat : j \in T
  BY <1>2, <1>3, SetInduction
<1>5. l \in T
  BY <1>4
<1>6. QED  BY <1>5 DEF T

AtRow(f, rows, k, tid) == f[Len(rows)][tid + 1] = rows[k + 1][tid - Len(f[k]) + 1]

\* Edge number tid is in the row where the sums go past it.
LEMMA FlatAt ==
  ASSUME NEW S, NEW rows \in Seq(Seq(S)), NEW f, Flat(f, rows, S),
         NEW k \in Nat, k < Len(rows), NEW tid \in Nat,
         Len(f[k]) <= tid, tid < Len(f[k + 1])
  PROVE  AtRow(f, rows, k, tid)
<1>0. /\ Len(rows) \in Nat /\ f[k] \in Seq(S) /\ Len(f[k]) \in Nat /\ Len(f[k + 1]) \in Nat
      /\ k + 1 \in 1 .. Len(rows) /\ k + 1 \in Nat /\ k + 1 <= Len(rows)
  BY LenProperties DEF Flat
<1>1. rows[k + 1] \in Seq(S)
  <2>1. DOMAIN rows = 1 .. Len(rows)
    BY LenProperties
  <2>2. QED  BY <2>1, <1>0, ElementOfSeq
<1>2. f[k + 1] = f[k] \o rows[k + 1]
  BY DEF Flat
<1> DEFINE p == f[k]  r == rows[k + 1]
<1>3. /\ Len(p \o r) = Len(p) + Len(r)
      /\ \A i \in 1 .. Len(p) + Len(r) : (p \o r)[i] = IF i <= Len(p) THEN p[i] ELSE r[i - Len(p)]
  BY <1>0, <1>1, ConcatProperties
<1>4. Len(r) \in Nat /\ Len(p) \in Nat /\ Len(p) <= tid /\ tid < Len(p \o r) /\ f[k + 1] = p \o r
  BY <1>0, <1>1, <1>2, LenProperties
<1> HIDE DEF p, r
<1>5. /\ tid + 1 \in 1 .. Len(p) + Len(r) /\ ~(tid + 1 <= Len(p))
      /\ (tid + 1) - Len(p) = tid - Len(p) + 1 /\ tid + 1 \in 1 .. Len(p \o r)
  BY <1>3, <1>4
<1>6. (p \o r)[tid + 1] = r[tid - Len(p) + 1]
  BY <1>3, <1>5
<1>7. f[Len(rows)][tid + 1] = f[k + 1][tid + 1]
  <2>1. Begins(f[k + 1], f[Len(rows)])
    <3>1. Len(rows) <= Len(rows)
      BY <1>0
    <3>2. QED  BY <1>0, <3>1, FlatGrows
  <2>2. QED  BY <2>1, <1>4, <1>5 DEF Begins
<1>8. QED  BY <1>4, <1>6, <1>7 DEF p, r, AtRow

\* Sums that start at zero and never fall.
Sums(presum, n) ==
  /\ n \in Nat /\ presum \in [1 .. (n + 1) -> Nat] /\ presum[1] = 0
  /\ \A i, j \in 1 .. (n + 1) : i <= j => presum[i] <= presum[j]

\* Row k is the one that edge tid is in.
RowOf(k, presum, n, tid) ==
  k \in 0 .. (n - 1) /\ presum[k + 1] <= tid /\ tid < presum[k + 2]

\* The last of the rows l .. r that starts at tid or before.
LastRow(m, l, r, presum, tid) ==
  /\ m \in l .. r /\ (m = l \/ presum[m + 1] <= tid)
  /\ \A i \in (m + 1) .. r : tid < presum[i + 1]

\* There is one such row only.
LEMMA OneLastRow ==
  ASSUME NEW n, NEW presum, Sums(presum, n), NEW tid \in Nat,
         NEW l \in 0 .. (n - 1), NEW r \in 0 .. (n - 1), NEW m, NEW k,
         LastRow(m, l, r, presum, tid), LastRow(k, l, r, presum, tid)
  PROVE  m = k
<1>0. n \in Nat /\ \A i \in 1 .. (n + 1) : presum[i] \in Nat
  BY DEF Sums
<1>1. m \in l .. r /\ k \in l .. r
  BY DEF LastRow
<1>2. ASSUME NEW x, NEW y, LastRow(x, l, r, presum, tid), LastRow(y, l, r, presum, tid), x < y
      PROVE  FALSE
  <2>1. x \in l .. r /\ y \in l .. r /\ y # l /\ y \in (x + 1) .. r
    BY <1>0, <1>2 DEF LastRow
  <2>2. presum[y + 1] <= tid /\ tid < presum[y + 1]
    BY <2>1, <1>2 DEF LastRow
  <2>3. presum[y + 1] \in Nat
    BY <2>1, <1>0
  <2>4. QED  BY <2>2, <2>3
<1>3. ~(m < k) /\ ~(k < m)
  BY <1>2
<1>4. QED  BY <1>0, <1>1, <1>3

\* There is one.
LEMMA SomeLastRow ==
  ASSUME NEW n, NEW presum, Sums(presum, n), NEW tid \in Nat,
         NEW l \in 0 .. (n - 1), NEW r \in 0 .. (n - 1), l <= r
  PROVE  \E m : LastRow(m, l, r, presum, tid)
<1>0. n \in Nat /\ l \in Nat /\ r \in Nat /\ \A i \in 1 .. (n + 1) : presum[i] \in Nat
  BY DEF Sums
<1> DEFINE T == {d \in Nat : l + d < n => \E m : LastRow(m, l, l + d, presum, tid)}
<1> HIDE DEF T
<1>1. 0 \in T
  <2>1. l + 0 = l /\ l \in l .. l /\ (l + 1) .. l = {}
    BY <1>0
  <2>2. LastRow(l, l, l, presum, tid)
    BY <2>1 DEF LastRow
  <2>3. QED  BY <2>1, <2>2 DEF T
<1>2. ASSUME NEW d \in Nat, d \in T
      PROVE  d + 1 \in T
  <2>1. SUFFICES ASSUME l + (d + 1) < n
                 PROVE  \E m : LastRow(m, l, l + (d + 1), presum, tid)
    BY DEF T
  <2>2. l + d < n /\ l + d \in Nat
    BY <2>1, <1>0
  <2>3. PICK m : LastRow(m, l, l + d, presum, tid)
    BY <2>2, <1>2 DEF T
  <2> DEFINE e == l + (d + 1)
  <2>4. /\ e \in Nat /\ e \in l .. e /\ e \in 0 .. (n - 1) /\ e + 1 \in 1 .. (n + 1)
        /\ (e + 1) .. e = {} /\ e = (l + d) + 1
    BY <2>1, <1>0
  <2>5. presum[e + 1] \in Nat
    BY <2>4, <1>0
  <2>6. CASE presum[e + 1] <= tid
    <3>1. LastRow(e, l, e, presum, tid)
      BY <2>4, <2>6 DEF LastRow
    <3>2. QED  BY <3>1
  <2>7. CASE tid < presum[e + 1]
    <3>1. m \in l .. (l + d) /\ (m = l \/ presum[m + 1] <= tid)
          /\ \A i \in (m + 1) .. (l + d) : tid < presum[i + 1]
      BY <2>3 DEF LastRow
    <3>2. m \in l .. e
      BY <3>1, <1>0
    <3>3. \A i \in (m + 1) .. e : i = e \/ i \in (m + 1) .. (l + d)
      BY <3>1, <2>4, <1>0
    <3>4. LastRow(m, l, e, presum, tid)
      BY <3>1, <3>2, <3>3, <2>7 DEF LastRow
    <3>5. QED  BY <3>4
  <2>8. presum[e + 1] <= tid \/ tid < presum[e + 1]
    BY <2>5
  <2>9. QED  BY <2>6, <2>7, <2>8
<1>3. \A d \in Nat : d \in T
  BY <1>1, <1>2, SetInduction
<1>4. r - l \in Nat /\ l + (r - l) = r /\ r < n
  BY <1>0
<1>5. r - l \in T
  BY <1>3, <1>4
<1>6. QED  BY <1>4, <1>5 DEF T

Middle(l, r) == (l + r) \div 2

\* Halving keeps the row in sight.
LEMMA Halved ==
  ASSUME NEW n, NEW presum, Sums(presum, n), NEW tid \in Nat,
         NEW l \in 0 .. (n - 1), NEW r \in 0 .. (n - 1), l < r,
         NEW mid, mid = Middle(l, r)
  PROVE  /\ mid \in Nat /\ l <= mid /\ mid < r /\ mid \in 0 .. (n - 1) /\ mid + 1 \in 0 .. (n - 1)
         /\ presum[mid + 2] <= tid =>
              \A m : LastRow(m, mid + 1, r, presum, tid) => LastRow(m, l, r, presum, tid)
         /\ ~(presum[mid + 2] <= tid) =>
              \A m : LastRow(m, l, mid, presum, tid) => LastRow(m, l, r, presum, tid)
<1>0. n \in Nat /\ l \in Nat /\ r \in Nat /\ r < n /\ \A i \in 1 .. (n + 1) : presum[i] \in Nat
  BY DEF Sums
<1>1. mid \in Nat /\ l <= mid /\ mid < r
  BY <1>0 DEF Middle
<1>2. mid \in 0 .. (n - 1) /\ mid + 1 \in 0 .. (n - 1) /\ (mid + 1) + 1 = mid + 2
  BY <1>0, <1>1
<1>3. ASSUME presum[mid + 2] <= tid, NEW m, LastRow(m, mid + 1, r, presum, tid)
      PROVE  LastRow(m, l, r, presum, tid)
  <2>1. /\ m \in (mid + 1) .. r /\ (m = mid + 1 \/ presum[m + 1] <= tid)
        /\ \A i \in (m + 1) .. r : tid < presum[i + 1]
    BY <1>3 DEF LastRow
  <2>2. m \in l .. r
    BY <2>1, <1>0, <1>1
  <2>3. presum[m + 1] <= tid
    BY <2>1, <1>2, <1>3
  <2>4. QED  BY <2>1, <2>2, <2>3 DEF LastRow
<1>4. ASSUME ~(presum[mid + 2] <= tid), NEW m, LastRow(m, l, mid, presum, tid)
      PROVE  LastRow(m, l, r, presum, tid)
  <2>1. /\ m \in l .. mid /\ (m = l \/ presum[m + 1] <= tid)
        /\ \A i \in (m + 1) .. mid : tid < presum[i + 1]
    BY <1>4 DEF LastRow
  <2>2. m \in l .. r
    BY <2>1, <1>0, <1>1
  <2>3. ASSUME NEW i \in (m + 1) .. r
        PROVE  tid < presum[i + 1]
    <3>1. CASE i <= mid
      <4>1. i \in (m + 1) .. mid
        BY <3>1, <2>2, <1>0, <1>1
      <4>2. QED  BY <4>1, <2>1
    <3>2. CASE i > mid
      <4>1. mid + 2 \in 1 .. (n + 1) /\ i + 1 \in 1 .. (n + 1) /\ mid + 2 <= i + 1
        BY <3>2, <2>2, <1>0, <1>1
      <4>2. presum[mid + 2] <= presum[i + 1] /\ presum[mid + 2] \in Nat /\ presum[i + 1] \in Nat
        BY <4>1, <1>0 DEF Sums
      <4>3. QED  BY <4>2, <1>4
    <3>3. i <= mid \/ i > mid
      BY <2>2, <1>0, <1>1
    <3>4. QED  BY <3>1, <3>2, <3>3
  <2>4. QED  BY <2>1, <2>2, <2>3 DEF LastRow
<1>5. QED  BY <1>1, <1>2, <1>3, <1>4

\* The search finds the row.
LEMMA Rightmost ==
  ASSUME NEW n, NEW presum, Sums(presum, n), n > 0, NEW tid \in Nat, tid < presum[n + 1]
  PROVE  RowOf(FindRightmostLTEQ(presum, n, tid), presum, n, tid)
<1>0. n \in Nat /\ 0 \in 0 .. (n - 1) /\ n - 1 \in 0 .. (n - 1) /\ presum[1] = 0
  BY DEF Sums
<1> DEFINE D == 0 .. (n - 1)
           half(c) == LET left == c[1]  right == c[2]  mid == (left + right) \div 2
                      IN  IF presum[mid + 2] <= tid THEN <<mid + 1, right>> ELSE <<left, mid>>
           Eq(g) == g = [c \in (0 .. (n - 1)) \X (0 .. (n - 1)) |->
                           LET left == c[1]  right == c[2]  mid == (left + right) \div 2
                           IN  IF left = right THEN left
                               ELSE g[IF presum[mid + 2] <= tid THEN <<mid + 1, right>>
                                                                ELSE <<left, mid>>]]
           narrow == CHOOSE g : Eq(g)
           best == [c \in D \X D |->
                      IF c[2] < c[1] THEN 0 ELSE CHOOSE m : LastRow(m, c[1], c[2], presum, tid)]
<1>1. FindRightmostLTEQ(presum, n, tid) = narrow[<<0, n - 1>>]
  BY DEF FindRightmostLTEQ
<1>2. \A l, r \in D : l <= r => LastRow(best[<<l, r>>], l, r, presum, tid)
  <2>1. SUFFICES ASSUME NEW l \in D, NEW r \in D, l <= r
                 PROVE  LastRow(best[<<l, r>>], l, r, presum, tid)
    OBVIOUS
  <2>2. \E m : LastRow(m, l, r, presum, tid)
    BY <2>1, SomeLastRow
  <2>3. best[<<l, r>>] = CHOOSE m : LastRow(m, l, r, presum, tid)
    <3>1. ~(r < l)
      BY <2>1, <1>0
    <3>2. QED  BY <3>1
  <2>4. QED  BY <2>2, <2>3
<1>3. \A l, r \in D : r < l => best[<<l, r>>] = 0
  OBVIOUS
<1>4. ASSUME NEW l \in D, NEW r \in D
      PROVE  best[<<l, r>>] = IF l = r THEN l ELSE best[half(<<l, r>>)]
  <2>0. n \in Nat /\ l \in Nat /\ r \in Nat
    BY <1>0
  <2>1. CASE l = r
    <3> HIDE DEF best
    <3>1. LastRow(best[<<l, r>>], l, r, presum, tid)
      BY <2>0, <2>1, <1>2
    <3>2. best[<<l, r>>] \in l .. r
      BY <3>1 DEF LastRow
    <3>3. best[<<l, r>>] = l
      BY <3>2, <2>0, <2>1
    <3>4. QED  BY <3>3, <2>1
  <2>2. CASE l < r
    <3> DEFINE mid == Middle(l, r)
    <3> HIDE DEF best
    <3>1. /\ mid \in Nat /\ l <= mid /\ mid < r /\ mid \in 0 .. (n - 1) /\ mid + 1 \in 0 .. (n - 1)
          /\ presum[mid + 2] <= tid =>
               \A m : LastRow(m, mid + 1, r, presum, tid) => LastRow(m, l, r, presum, tid)
          /\ ~(presum[mid + 2] <= tid) =>
               \A m : LastRow(m, l, mid, presum, tid) => LastRow(m, l, r, presum, tid)
      BY <2>2, Halved
    <3> HIDE DEF mid, Middle
    <3>2. LastRow(best[<<l, r>>], l, r, presum, tid)
      BY <2>0, <2>2, <1>2
    <3>3. CASE presum[mid + 2] <= tid
      <4>1. mid + 1 \in D /\ mid + 1 <= r
        BY <3>1, <2>0
      <4>2. LastRow(best[<<mid + 1, r>>], mid + 1, r, presum, tid)
        BY <4>1, <1>2
      <4>3. LastRow(best[<<mid + 1, r>>], l, r, presum, tid)
        BY <4>2, <3>1, <3>3
      <4>4. best[<<l, r>>] = best[<<mid + 1, r>>]
        BY <4>3, <3>2, OneLastRow
      <4>5. l # r
        BY <2>0, <2>2
      <4>6. QED  BY <3>3, <4>4, <4>5 DEF mid, Middle
    <3>4. CASE ~(presum[mid + 2] <= tid)
      <4>1. mid \in D /\ l <= mid
        BY <3>1, <2>0
      <4>2. LastRow(best[<<l, mid>>], l, mid, presum, tid)
        BY <4>1, <1>2
      <4>3. LastRow(best[<<l, mid>>], l, r, presum, tid)
        BY <4>2, <3>1, <3>4
      <4>4. best[<<l, r>>] = best[<<l, mid>>]
        BY <4>3, <3>2, OneLastRow
      <4>5. l # r
        BY <2>0, <2>2
      <4>6. QED  BY <3>4, <4>4, <4>5 DEF mid, Middle
    <3>5. QED  BY <3>3, <3>4
  <2>3. CASE r < l
    <3> DEFINE mid == Middle(l, r)
    <3>1. mid \in D /\ r <= mid /\ mid < l /\ mid + 1 \in D /\ r < mid + 1
      BY <2>0, <2>3, <1>0 DEF Middle
    <3> HIDE DEF mid, best
    <3>2. best[<<l, r>>] = 0
      BY <2>3, <1>3
    <3>3. best[<<mid + 1, r>>] = 0 /\ best[<<l, mid>>] = 0
      BY <3>1, <1>3
    <3>4. l # r
      BY <2>0, <2>3
    <3>5. QED  BY <3>2, <3>3, <3>4 DEF mid, Middle
  <2>4. QED  BY <2>0, <2>1, <2>2, <2>3
<1>5. Eq(best)
  <2>1. best = [c \in D \X D |-> best[c]]
    OBVIOUS
  <2> HIDE DEF best
  <2>2. ASSUME NEW c \in D \X D
        PROVE  best[c] = IF c[1] = c[2] THEN c[1] ELSE best[half(c)]
    <3>1. c[1] \in D /\ c[2] \in D /\ c = <<c[1], c[2]>>
      OBVIOUS
    <3> HIDE DEF half
    <3>2. best[<<c[1], c[2]>>] = IF c[1] = c[2] THEN c[1] ELSE best[half(<<c[1], c[2]>>)]
      BY <3>1, <1>4
    <3>3. QED  BY <3>1, <3>2
  <2>3. QED  BY <2>1, <2>2
<1>6. Eq(narrow)
  <2> HIDE DEF best
  <2>1. QED  BY <1>5
<1> HIDE DEF narrow, best
<1>7. \A l, r \in D : narrow[<<l, r>>] = IF l = r THEN l ELSE narrow[half(<<l, r>>)]
  BY <1>6
<1> HIDE DEF Eq
<1> DEFINE T == {d \in Nat : \A l, r \in D : l <= r /\ r - l <= d =>
                   LastRow(narrow[<<l, r>>], l, r, presum, tid)}
<1> HIDE DEF T
<1>8. ASSUME NEW l \in D
      PROVE  LastRow(narrow[<<l, l>>], l, l, presum, tid)
  <2>1. narrow[<<l, l>>] = l
    BY <1>7
  <2>2. l \in l .. l /\ (l + 1) .. l = {}
    BY <1>0
  <2>3. QED  BY <2>1, <2>2 DEF LastRow
<1>9. 0 \in T
  <2>1. \A l, r \in D : l <= r /\ r - l <= 0 => l = r
    BY <1>0
  <2>2. QED  BY <2>1, <1>8 DEF T
<1>10. ASSUME NEW d \in Nat, d \in T
       PROVE  d + 1 \in T
  <2>1. SUFFICES ASSUME NEW l \in D, NEW r \in D, l <= r, r - l <= d + 1
                 PROVE  LastRow(narrow[<<l, r>>], l, r, presum, tid)
    BY DEF T
  <2>0. n \in Nat /\ l \in Nat /\ r \in Nat
    BY <1>0
  <2>2. CASE l < r
    <3> DEFINE mid == Middle(l, r)
    <3>1. /\ mid \in Nat /\ l <= mid /\ mid < r /\ mid \in 0 .. (n - 1) /\ mid + 1 \in 0 .. (n - 1)
          /\ presum[mid + 2] <= tid =>
               \A m : LastRow(m, mid + 1, r, presum, tid) => LastRow(m, l, r, presum, tid)
          /\ ~(presum[mid + 2] <= tid) =>
               \A m : LastRow(m, l, mid, presum, tid) => LastRow(m, l, r, presum, tid)
      BY <2>2, Halved
    <3>2. l # r
      BY <2>0, <2>2
    <3>5. narrow[<<l, r>>] = IF presum[mid + 2] <= tid THEN narrow[<<mid + 1, r>>] ELSE narrow[<<l, mid>>]
      BY <3>2, <1>7 DEF Middle
    <3> HIDE DEF mid, Middle
    <3>3. CASE presum[mid + 2] <= tid
      <4>1. mid + 1 \in D /\ mid + 1 <= r /\ r - (mid + 1) <= d
        BY <3>1, <2>0, <2>1
      <4>2. LastRow(narrow[<<mid + 1, r>>], mid + 1, r, presum, tid)
        BY <4>1, <1>10 DEF T
      <4>3. QED  BY <4>2, <3>1, <3>3, <3>5
    <3>4. CASE ~(presum[mid + 2] <= tid)
      <4>1. mid \in D /\ l <= mid /\ mid - l <= d
        BY <3>1, <2>0, <2>1
      <4>2. LastRow(narrow[<<l, mid>>], l, mid, presum, tid)
        BY <4>1, <1>10 DEF T
      <4>3. QED  BY <4>2, <3>1, <3>4, <3>5
    <3>6. QED  BY <3>3, <3>4
  <2>3. CASE l = r
    BY <2>3, <1>8
  <2>4. QED  BY <2>0, <2>1, <2>2, <2>3
<1>11. \A d \in Nat : d \in T
  BY <1>9, <1>10, SetInduction
<1>12. LastRow(narrow[<<0, n - 1>>], 0, n - 1, presum, tid)
  <2>1. n \in T
    BY <1>0, <1>11
  <2>2. 0 \in D /\ n - 1 \in D /\ 0 <= n - 1 /\ (n - 1) - 0 <= n
    BY <1>0
  <2>3. QED  BY <2>1, <2>2 DEF T
<1> DEFINE k == narrow[<<0, n - 1>>]
<1> HIDE DEF k
<1>13. /\ k \in 0 .. (n - 1) /\ (k = 0 \/ presum[k + 1] <= tid)
       /\ \A i \in (k + 1) .. (n - 1) : tid < presum[i + 1]
  BY <1>12 DEF LastRow, k
<1>14. presum[k + 1] <= tid
  <2>1. CASE k = 0
    BY <2>1, <1>0
  <2>2. QED  BY <2>1, <1>13
<1>15. tid < presum[k + 2]
  <2>1. CASE k = n - 1
    <3>1. k + 2 = n + 1
      BY <2>1, <1>0
    <3>2. QED  BY <3>1
  <2>2. CASE k # n - 1
    <3>1. k + 1 \in (k + 1) .. (n - 1) /\ (k + 1) + 1 = k + 2
      BY <2>2, <1>0, <1>13
    <3>2. QED  BY <3>1, <1>13
  <2>3. QED  BY <2>1, <2>2
<1>16. QED  BY <1>1, <1>13, <1>14, <1>15 DEF RowOf, k

\* How many sums are not past tid.
LEMMA UpperBoundFacts ==
  ASSUME NEW n, NEW presum, Sums(presum, n), NEW tid \in Nat, tid < presum[n + 1]
  PROVE  RowOf(UpperBound(presum, tid) - 1, presum, n, tid)
<1>0. /\ n \in Nat /\ presum[1] = 0 /\ DOMAIN presum = 1 .. (n + 1)
      /\ \A i \in 1 .. (n + 1) : presum[i] \in Nat
  BY DEF Sums
<1> DEFINE late == {i \in 1 .. (n + 1) : tid < presum[i]}
<1>1. late \in SUBSET Nat /\ n + 1 \in late
  BY <1>0
<1>2. PICK m \in late : \A i \in late : m <= i
  <2> HIDE DEF late
  <2>1. QED  BY <1>1, LeastNat
<1>3. m \in Nat /\ m \in 1 .. (n + 1) /\ m # 1 /\ tid < presum[m]
  <2>1. ~(tid < 0)
    OBVIOUS
  <2>2. QED  BY <2>1, <1>0, <1>2
<1>4. {i \in DOMAIN presum : presum[i] <= tid} = 1 .. (m - 1)
  <2>1. ASSUME NEW i \in 1 .. (n + 1), presum[i] <= tid
        PROVE  i \in 1 .. (m - 1)
    <3>1. i < m
      <4>1. SUFFICES ASSUME m <= i PROVE FALSE
        BY <1>3
      <4>2. presum[m] <= presum[i]
        BY <4>1, <1>3 DEF Sums
      <4>3. QED  BY <4>2, <2>1, <1>0, <1>3
    <3>2. QED  BY <3>1, <1>3
  <2>2. ASSUME NEW i \in 1 .. (m - 1)
        PROVE  i \in 1 .. (n + 1) /\ presum[i] <= tid
    <3>1. i \in 1 .. (n + 1) /\ ~(m <= i)
      BY <1>0, <1>3
    <3>2. i \notin late
      BY <3>1, <1>2
    <3>3. QED  BY <3>1, <3>2, <1>0
  <2>3. QED  BY <2>1, <2>2, <1>0
<1>5. UpperBound(presum, tid) = m - 1
  <2>1. 1 \in Int /\ m - 1 \in Int /\ (IF 1 > m - 1 THEN 0 ELSE (m - 1) - 1 + 1) = m - 1
    BY <1>3
  <2>2. Cardinality(1 .. (m - 1)) = m - 1
    BY <2>1, FS_Interval
  <2>3. QED  BY <2>2, <1>4 DEF UpperBound
<1>6. m - 2 \in 0 .. (n - 1) /\ (m - 2) + 1 = m - 1 /\ (m - 2) + 2 = m /\ (m - 1) - 1 = m - 2
      /\ m - 1 \in 1 .. (m - 1)
  BY <1>0, <1>3
<1>7. presum[m - 1] <= tid
  BY <1>4, <1>6
<1>8. QED  BY <1>3, <1>5, <1>6, <1>7 DEF RowOf

\* The sums of the rows.
LEMMA ScanSums ==
  ASSUME NEW S, NEW rows \in Seq(Seq(S)), NEW f, Flat(f, rows, S),
         NEW presum, presum = [i \in 1 .. (Len(rows) + 1) |-> Len(f[i - 1])]
  PROVE  Sums(presum, Len(rows))
<1>0. Len(rows) \in Nat /\ \A j \in Nat : Len(f[j]) \in Nat
  BY LenProperties DEF Flat
<1>1. presum \in [1 .. (Len(rows) + 1) -> Nat]
  <2>1. \A i \in 1 .. (Len(rows) + 1) : i - 1 \in Nat
    BY <1>0
  <2>2. QED  BY <2>1, <1>0
<1>2. presum[1] = 0
  <2>1. 1 \in 1 .. (Len(rows) + 1) /\ 1 - 1 = 0 /\ f[0] = <<>> /\ Len(<<>>) = 0
    BY <1>0 DEF Flat
  <2>2. QED  BY <2>1
<1>3. ASSUME NEW i \in 1 .. (Len(rows) + 1), NEW j \in 1 .. (Len(rows) + 1), i <= j
      PROVE  presum[i] <= presum[j]
  <2>1. i - 1 \in Nat /\ j - 1 \in Nat /\ i - 1 <= j - 1 /\ j - 1 <= Len(rows)
    BY <1>0, <1>3
  <2>2. Begins(f[i - 1], f[j - 1])
    BY <2>1, FlatGrows
  <2>3. QED  BY <2>2 DEF Begins
<1>4. QED  BY <1>0, <1>1, <1>2, <1>3 DEF Sums

\* The tasklets of a kernel get the edges of the frontier, each once.
LEMMA EdgesExact ==
  ASSUME adj \in [Node -> Seq(Node)], NEW q, Frontier(q) \in Seq(Node),
         Size(q) = Len(Frontier(q))
  PROVE  /\ EdgesOf(q, ExclusiveScan(Frontier(q))) = FlattenSeq(Rows(Frontier(q)))
         /\ ExclusiveScan(Frontier(q)) \in Seq(Nat)
         /\ Rows(Frontier(q)) \in Seq(Seq(Node \X Node))
         /\ Len(Rows(Frontier(q))) = Size(q)
<1> DEFINE F == Frontier(q)  n == Size(q)  rows == Rows(F)  presum == ExclusiveScan(F)
           S == Node \X Node
<1>0. n \in Nat /\ DOMAIN F = 1 .. n /\ Len(F) = n /\ \A i \in 1 .. n : F[i] \in Node
  <2>1. Len(F) \in Nat /\ DOMAIN F = 1 .. Len(F)
    BY LenProperties
  <2>2. QED  BY <2>1, ElementOfSeq
<1>1. \A x \in Node : Row(adj, x) \in Seq(S)
  <2>1. SUFFICES ASSUME NEW x \in Node PROVE Row(adj, x) \in Seq(S)
    OBVIOUS
  <2>2. adj[x] \in Seq(Node) /\ Len(adj[x]) \in Nat /\ DOMAIN adj[x] = 1 .. Len(adj[x])
    BY LenProperties
  <2>3. \A j \in 1 .. Len(adj[x]) : adj[x][j] \in Node
    BY <2>2, ElementOfSeq
  <2>4. QED  BY <2>2, <2>3, SeqDef DEF Row
<1> HIDE DEF S
<1>2. rows \in Seq(Seq(S)) /\ Len(rows) = n
  <2>1. rows \in [1 .. n -> Seq(S)]
    BY <1>0, <1>1 DEF Rows
  <2>2. rows \in Seq(Seq(S))
    <3> HIDE DEF rows, n
    <3>1. QED  BY <2>1, <1>0, SeqDef
  <2>3. DOMAIN rows = 1 .. Len(rows) /\ Len(rows) \in Nat
    BY <2>2, LenProperties
  <2>4. QED  BY <2>1, <2>2, <2>3, <1>0
<1>3. PICK f : Flat(f, rows, S)
  BY <1>2, FlatExists
<1>4. presum = [i \in 1 .. (Len(rows) + 1) |-> Len(f[i - 1])]
  <2>1. presum = [i \in 1 .. (n + 1) |-> Len(FlattenSeq(SubSeq(rows, 1, i - 1)))]
    BY <1>0 DEF ExclusiveScan
  <2> HIDE DEF presum, rows, n, F
  <2>2. \A i \in 1 .. (n + 1) : i - 1 \in 0 .. Len(rows)
    BY <1>0, <1>2
  <2>3. \A i \in 1 .. (n + 1) : FlattenSeq(SubSeq(rows, 1, i - 1)) = f[i - 1]
    BY <2>2, <1>2, <1>3, FlatPrefix
  <2>4. QED  BY <2>1, <2>3, <1>2
<1> HIDE DEF presum, rows, n, F
<1>5. Sums(presum, n)
  BY <1>2, <1>3, <1>4, ScanSums
<1>6. presum \in Seq(Nat) /\ Len(presum) = n + 1 /\ Last(presum) = Len(f[n])
  <2>1. presum \in [1 .. (n + 1) -> Nat] /\ n + 1 \in Nat
    BY <1>0, <1>5 DEF Sums
  <2>2. presum \in Seq(Nat)
    BY <2>1, SeqDef
  <2>3. DOMAIN presum = 1 .. Len(presum) /\ Len(presum) \in Nat
    BY <2>2, LenProperties
  <2>4. Len(presum) = n + 1
    BY <2>1, <2>3
  <2>5. n + 1 \in 1 .. (Len(rows) + 1) /\ (n + 1) - 1 = n
    BY <1>0, <1>2
  <2>6. QED  BY <2>2, <2>4, <2>5, <1>4 DEF Last
<1>7. f[n] \in Seq(S) /\ Len(f[n]) \in Nat /\ FlattenSeq(rows) = f[n]
  BY <1>0, <1>2, <1>3, LenProperties DEF Flat
<1>8. ASSUME NEW t \in 1 .. Len(f[n])
      PROVE  EdgeOf(q, presum, t - 1) = f[n][t]
  <2> DEFINE tid == t - 1
             k == IF engine.cached THEN UpperBound(presum, tid) - 1
                  ELSE FindRightmostLTEQ(presum, n, tid)
  <2>0. tid \in Nat /\ tid + 1 = t /\ tid < Len(f[n])
    BY <1>7
  <2> HIDE DEF tid
  <2>1. tid < presum[n + 1]
    BY <2>0, <1>6 DEF Last
  <2>2. n > 0
    <3>1. n # 0
      <4>1. f[0] = <<>> /\ Len(<<>>) = 0
        BY <1>3 DEF Flat
      <4>2. n = 0 => Len(f[n]) = 0
        BY <4>1
      <4>3. QED  BY <4>2, <2>0
    <3>2. QED  BY <3>1, <1>0
  <2>3. RowOf(k, presum, n, tid)
    BY <2>0, <2>1, <2>2, <1>5, Rightmost, UpperBoundFacts
  <2>4. EdgeOf(q, presum, tid) = rows[k + 1][tid - presum[k + 1] + 1]
    BY DEF EdgeOf, rows, F, n
  <2> HIDE DEF k
  <2>5. /\ k \in Nat /\ k < Len(rows) /\ k + 1 \in 1 .. (Len(rows) + 1)
        /\ k + 2 \in 1 .. (Len(rows) + 1) /\ (k + 1) - 1 = k /\ (k + 2) - 1 = k + 1
    BY <2>3, <1>0, <1>2 DEF RowOf
  <2>6. presum[k + 1] = Len(f[k]) /\ presum[k + 2] = Len(f[k + 1])
    BY <2>5, <1>4
  <2>7. Len(f[k]) <= tid /\ tid < Len(f[k + 1])
    BY <2>3, <2>6 DEF RowOf
  <2>8. AtRow(f, rows, k, tid)
    BY <2>0, <2>5, <2>7, <1>2, <1>3, FlatAt
  <2>9. QED  BY <2>0, <2>4, <2>6, <2>8, <1>2 DEF tid, AtRow
<1>9. EdgesOf(q, presum) = [t \in 1 .. Len(f[n]) |-> f[n][t]]
  BY <1>6, <1>8 DEF EdgesOf
<1>10. f[n] = [t \in 1 .. Len(f[n]) |-> f[n][t]]
  <2>1. DOMAIN f[n] = 1 .. Len(f[n])
    BY <1>7, LenProperties
  <2>2. \E g : f[n] = [t \in DOMAIN f[n] |-> f[n][t]]
    BY <1>7, SeqDef
  <2>3. QED  BY <2>1, <2>2
<1>11. QED  BY <1>2, <1>6, <1>7, <1>9, <1>10 DEF presum, rows, F, n, S

-----------------------------------------------------------------------------
(***************************************************************************)
(* What the host hands to a kernel.                                        *)
(***************************************************************************)

\* The frontier is what the slots hold between the windows: even nodes.
LEMMA FrontierFacts ==
  ASSUME QueueTyped(queue), QueueSound, phase # "init"
  PROVE  /\ Begin(queue) \in Nat /\ Size(queue) \in Nat
         /\ Begin(queue) + Size(queue) = End(queue)
         /\ Frontier(queue) \in Seq(Node) /\ Len(Frontier(queue)) = Size(queue)
         /\ Frontier(queue) = Slice(Begin(queue), Size(queue))
         /\ \A x \in Range(Frontier(queue)) : EvenNode(x)
<1> DEFINE b == Begin(queue)  n == Size(queue)  f == Frontier(queue)
<1>1. /\ queue.b1 \in Nat /\ queue.e1 \in Nat /\ queue.b2 \in Nat /\ queue.e2 \in Nat
      /\ queue.slots \in [Node -> Node]
  BY NodesAssumption DEF QueueTyped
<1>2. queue.b1 <= queue.e1 /\ queue.b2 <= queue.e2
  BY DEF QueueSound
<1>3. b \in Nat /\ End(queue) \in Nat /\ b <= End(queue) /\ End(queue) <= nodes
  BY <1>1, <1>2, SlotsFacts DEF Begin, End
<1>4. n \in Nat /\ b + n = End(queue)
  BY <1>3 DEF Size
<1>5. \A i \in 1 .. n : b + i \in 1 .. End(queue) /\ b + i - 1 \in Node
  BY <1>3, <1>4, NodesAssumption DEF Node
<1>6. f \in Seq(Node) /\ Len(f) = n /\ DOMAIN f = 1 .. n
  <2>1. \A i \in 1 .. n : queue.slots[b + i - 1] \in Node
    BY <1>1, <1>5
  <2>2. QED
    BY <1>4, <2>1 DEF Frontier
<1>7. f = Slice(b, n)
  BY DEF Frontier, Slice
<1>8. \A x \in Range(f) : EvenNode(x)
  <2>1. SUFFICES ASSUME NEW i \in 1 .. n PROVE EvenNode(f[i])
    BY <1>6 DEF Range
  <2>2. Slots[b + i] = queue.slots[(b + i) - 1] /\ b + i \in 1 .. End(queue)
    BY <1>5, SlotsFacts
  <2>3. (b + i) - 1 = b + i - 1
    BY <1>3
  <2>4. f[i] = queue.slots[b + i - 1]
    BY DEF Frontier
  <2>5. Slots[b + i] \in Range(Slots)
    BY <2>2 DEF Slots, Range
  <2>6. QED
    BY <2>2, <2>3, <2>4, <2>5 DEF QueueSound
<1>9. QED
  BY <1>3, <1>4, <1>6, <1>7, <1>8

\* The scan a kernel is given is that of the frontier.
LEMMA PreparedScan ==
  ASSUME QueueTyped(queue), QueueSound, CacheSound, phase # "init", engine.level # "nodes",
         NEW cache, cache = edge_prefix_cache \/ ~cache.valid
  PROVE  PrepareEdgePrefix(cache, queue).presum = ExclusiveScan(Frontier(queue))
<1>1. CASE cache.valid /\ cache.begin = Begin(queue) /\ cache.size = Size(queue)
  <2>1. PrepareEdgePrefix(cache, queue) = cache
    BY <1>1 DEF PrepareEdgePrefix
  <2>2. cache.presum = ExclusiveScan(Slice(cache.begin, cache.size))
    BY <1>1 DEF CacheSound
  <2>3. Frontier(queue) = Slice(cache.begin, cache.size)
    BY <1>1, FrontierFacts
  <2>4. QED
    BY <2>1, <2>2, <2>3
<1>2. CASE ~(cache.valid /\ cache.begin = Begin(queue) /\ cache.size = Size(queue))
  BY <1>2 DEF PrepareEdgePrefix
<1>3. QED
  BY <1>1, <1>2

\* The edges of a row.
LEMMA RowFacts ==
  ASSUME adj \in [Node -> Seq(Node)], NEW v \in Node
  PROVE  /\ Row(adj, v) \in Seq(Node \X Node)
         /\ \A e \in Range(Row(adj, v)) : e[1] = v /\ IsAdjacent(adj, v, e[2])
<1>1. adj[v] \in Seq(Node) /\ DOMAIN adj[v] = 1 .. Len(adj[v]) /\ Len(adj[v]) \in Nat
  BY LenProperties
<1>2. \A j \in 1 .. Len(adj[v]) : adj[v][j] \in Node
  BY <1>1, ElementOfSeq
<1>3. Row(adj, v) = [j \in 1 .. Len(adj[v]) |-> <<v, adj[v][j]>>]
  BY DEF Row
<1>4. \A j \in 1 .. Len(adj[v]) : <<v, adj[v][j]>> \in Node \X Node
  BY <1>2
<1>5. Row(adj, v) \in Seq(Node \X Node)
  BY <1>1, <1>3, <1>4
<1>6. ASSUME NEW e \in Range(Row(adj, v))
      PROVE  e[1] = v /\ IsAdjacent(adj, v, e[2])
  <2>1. PICK j \in 1 .. Len(adj[v]) : e = <<v, adj[v][j]>>
    BY <1>3 DEF Range
  <2>2. QED
    BY <1>1, <2>1 DEF IsAdjacent
<1>7. QED
  BY <1>5, <1>6

\* A tasklet gets edges that are live, from an even node of the frontier.
LEMMA TaskletsSound ==
  ASSUME StateTyped, QueueSound, phase # "init", NEW live, NEW presum,
         engine.level # "nodes" => presum = ExclusiveScan(Frontier(queue)),
         NEW work \in Tasklets(queue, presum, live)
  PROVE  EdgeWork(work) /\ \A e \in Range(work) : e \in live
<1> DEFINE f == Frontier(queue)
<1>0. QueueTyped(queue) /\ adj \in [Node -> Seq(Node)]
  BY DEF StateTyped, QueueTyped, ForestTypeOK
<1>1. f \in Seq(Node) /\ Len(f) = Size(queue) /\ \A x \in Range(f) : EvenNode(x) /\ x \in Node
  <2>1. f \in Seq(Node) /\ Len(f) = Size(queue) /\ \A x \in Range(f) : EvenNode(x)
    BY <1>0, FrontierFacts
  <2>2. QED
    BY <2>1, ElementOfSeq, LenProperties DEF Range
<1>2. CASE ByEdge(queue, presum)
  <2>1. engine.level # "nodes"
    BY <1>2 DEF ByEdge
  <2>2. /\ EdgesOf(queue, presum) = FlattenSeq(Rows(f))
        /\ Rows(f) \in Seq(Seq(Node \X Node)) /\ Len(Rows(f)) = Len(f)
    BY <1>0, <1>1, <2>1, EdgesExact
  <2>3. PICK e \in ToSet(EdgesOf(queue, presum)) \cap live : work = <<e>>
    BY <1>2 DEF Tasklets
  <2>4. e \in Range(FlattenSeq(Rows(f)))
    BY <2>2, <2>3 DEF ToSet, Range
  <2>5. PICK i \in 1 .. Len(Rows(f)) : e \in Range(Rows(f)[i])
    BY <2>2, <2>4, FlattenFacts
  <2>6. i \in DOMAIN f /\ f[i] \in Node /\ f[i] \in Range(f)
    BY <1>1, <2>2, <2>5, ElementOfSeq, LenProperties DEF Range
  <2>7. Rows(f)[i] = Row(adj, f[i])
    BY <2>6 DEF Rows
  <2>8. e[1] = f[i] /\ IsAdjacent(adj, f[i], e[2]) /\ Row(adj, f[i]) \in Seq(Node \X Node)
    BY <1>0, <2>5, <2>6, <2>7, RowFacts
  <2>9. e \in Node \X Node
    BY <2>5, <2>7, <2>8, ElementOfSeq, LenProperties DEF Range
  <2>10. work \in Seq(Node \X Node) /\ work # <<>> /\ Range(work) = {e}
    BY <2>3, <2>9 DEF Range
  <2>11. QED
    BY <1>1, <2>3, <2>6, <2>8, <2>10 DEF EdgeWork
<1>3. CASE ~ByEdge(queue, presum)
  <2>1. work # <<>> /\ work \in {Among(Row(adj, v), live) : v \in ToSet(f)}
    BY <1>3 DEF Tasklets
  <2>2. PICK v \in Range(f) : work = Among(Row(adj, v), live)
    BY <2>1 DEF ToSet, Range
  <2>3. v \in Node /\ EvenNode(v)
    BY <1>1
  <2>4. Row(adj, v) \in Seq(Node \X Node)
    BY <1>0, <2>3, RowFacts
  <2>5. PICK S : S = Node \X Node
    OBVIOUS
  <2>6. Row(adj, v) \in Seq(S)
    BY <2>4, <2>5
  <2>7. /\ work \in Seq(S)
        /\ \A e \in Range(work) : e \in Range(Row(adj, v)) /\ e \in live
    BY <2>2, <2>6, AmongFacts
  <2>8. \A e \in Range(work) : e[1] = v /\ IsAdjacent(adj, v, e[2]) /\ e \in live
    BY <1>0, <2>3, <2>7, RowFacts
  <2>9. QED
    BY <2>1, <2>3, <2>5, <2>7, <2>8 DEF EdgeWork
<1>4. QED
  BY <1>2, <1>3

CacheTyped(cache) ==
  cache \in [valid : BOOLEAN, begin : 0..nodes, size : 0..nodes, presum : Seq(Nat)]

\* The scan a kernel is given is remembered with the window it was made from.
LEMMA PreparedCache ==
  ASSUME QueueTyped(queue), adj \in [Node -> Seq(Node)], QueueSound, CacheSound, phase # "init",
         engine.cached \in BOOLEAN,
         NEW cache, CacheTyped(cache),
         ~cache.valid \/ (cache = edge_prefix_cache /\ phase \notin {"expand", "transform"}),
         adj' = adj, queue'.slots = queue.slots,
         edge_prefix_cache' = PrepareEdgePrefix(cache, queue),
         \/ phase' = "augment" /\ End(queue)' = End(queue)
         \/ phase' = "expand" /\ queue'.b1 = End(queue)
         \/ phase' = "transform" /\ queue'.b2 = End(queue)
  PROVE  CacheSound' /\ CacheTyped(edge_prefix_cache)'
<1> DEFINE r == PrepareEdgePrefix(cache, queue)
           f == Frontier(queue)
           fresh == [valid |-> engine.cached, begin |-> Begin(queue), size |-> Size(queue),
                     presum |-> ExclusiveScan(f)]
<1>1. /\ Begin(queue) \in Nat /\ Size(queue) \in Nat /\ End(queue) \in Nat
      /\ Begin(queue) + Size(queue) = End(queue) /\ End(queue) <= nodes
      /\ f \in Seq(Node) /\ Len(f) = Size(queue)
      /\ f = Slice(Begin(queue), Size(queue))
  BY FrontierFacts, SlotsFacts
<1>2. ExclusiveScan(f) \in Seq(Nat)
  BY <1>1, EdgesExact
<1>3. \A b, n, e \in Nat : b + n = e /\ e <= nodes => b \in 0..nodes /\ n \in 0..nodes
  BY NodesAssumption
<1>4. CacheTyped(fresh)
  BY <1>1, <1>2, <1>3 DEF CacheTyped
<1>5. r = cache \/ r = fresh
  BY DEF PrepareEdgePrefix
<1>6. CacheTyped(r)
  BY <1>4, <1>5
<1>7. r.valid => /\ r.presum = ExclusiveScan(Slice(r.begin, r.size))
                 /\ r.begin + r.size <= End(queue)
  <2>1. CASE r = cache
    BY <2>1 DEF CacheSound
  <2>2. CASE r = fresh
    BY <1>1, <2>2
  <2>3. QED
    BY <1>5, <2>1, <2>2
<1>8. PICK c : c = r
  OBVIOUS
<1>9. edge_prefix_cache' = c
  BY <1>8
<1>10. CacheTyped(edge_prefix_cache)'
  BY <1>6, <1>8, <1>9 DEF CacheTyped
<1>11. Slice(c.begin, c.size)' = Slice(c.begin, c.size)
  BY DEF Slice
<1>12. ExclusiveScan(Slice(c.begin, c.size))' = ExclusiveScan(Slice(c.begin, c.size))
  BY <1>11 DEF ExclusiveScan, Rows
<1>13. CacheSound'
  <2>1. phase' # "loop"
    OBVIOUS
  <2>2. c.valid => /\ c.presum = ExclusiveScan(Slice(c.begin, c.size))'
                   /\ c.begin + c.size <= End(queue)
    BY <1>7, <1>8, <1>12
  <2>3. (CASE phase' = "expand"    -> queue'.b1
           [] phase' = "transform" -> queue'.b2
           [] OTHER               -> End(queue)') = End(queue)
    OBVIOUS
  <2>4. QED
    BY <1>9, <2>1, <2>2, <2>3 DEF CacheSound
<1>14. QED
  BY <1>10, <1>13

\* The windows move, the slots stay.
LEMMA QueueStays ==
  ASSUME QueueTyped(queue), QueueSound, phase # "init",
         \A x : EvenNode(x)' = EvenNode(x),
         IsQueue(queue'), queue'.slots = queue.slots,
         End(queue)' = End(queue),
         queue'.b1 <= queue'.e1, queue'.b2 <= queue'.e2,
         phase' = "expand" => queue'.b1 = queue'.e2,
         phase' # "expand" => queue'.b2 = queue'.e1
  PROVE  QueueSound' /\ QueueTyped(queue')
<1>1. Slots' = Slots
  BY DEF Slots
<1>2. QueueSound'
  BY <1>1 DEF QueueSound
<1>3. /\ queue'.b1 \in Nat /\ queue'.e1 \in Nat /\ queue'.b2 \in Nat /\ queue'.e2 \in Nat
      /\ queue' \in [slots : {queue'.slots}, b1 : Nat, e1 : Nat, b2 : Nat, e2 : Nat]
  BY DEF IsQueue
<1>4. queue'.e1 <= nodes /\ queue'.e2 <= nodes
  <2>1. End(queue) <= nodes /\ End(queue) \in Nat
    BY SlotsFacts
  <2>2. queue'.e1 <= End(queue)' /\ queue'.e2 <= End(queue)'
    BY <1>3 DEF End
  <2>3. QED
    BY <1>3, <2>1, <2>2, NodesAssumption
<1>5. /\ queue'.b1 \in 0..nodes /\ queue'.e1 \in 0..nodes
      /\ queue'.b2 \in 0..nodes /\ queue'.e2 \in 0..nodes
  BY <1>3, <1>4, NodesAssumption
<1>6. queue'.slots \in [Node -> Node]
  BY DEF QueueTyped
<1>7. QueueTyped(queue')
  BY <1>3, <1>5, <1>6 DEF QueueTyped
<1>8. QED
  BY <1>2, <1>7

HostStill ==
  /\ UNCHANGED <<deviceVars, found, engine>>
  /\ running = {} /\ running' = {}
  /\ phase # "init" /\ phase' # "init" /\ ~found

\* Whatever the host does between two kernels leaves the forest as it is.
LEMMA HostFrame ==
  ASSUME Sound, HostStill, exhausted' \in BOOLEAN,
         phase' \in Kernels \cup {"loop", "returned"},
         TaskletsTyped', TaskletsPlaced', WorkSound',
         QueueTyped(queue'), QueueSound', CacheTyped(edge_prefix_cache)', CacheSound',
         EntriesPlain' => EntriesSound',
         phase = "transform" => Works = {}
  PROVE  Sound'
<1>0. /\ UNCHANGED forestVars /\ adj' = adj /\ M' = M /\ is_even' = is_even /\ belongs' = belongs
      /\ path_table' = path_table /\ root_distance' = root_distance
      /\ atomic_locks_tree' = atomic_locks_tree /\ atomic_locks_match' = atomic_locks_match
      /\ atomic_locks_odd_nodes' = atomic_locks_odd_nodes /\ found' = found /\ engine' = engine
  BY DEF HostStill, deviceVars, forestVars, lockVars
<1>1. At("flip") = {} /\ Holders = {} /\ At("flip")' = {} /\ Holders' = {}
  BY DEF HostStill, At, Holders
<1>2. Settled
  BY <1>1, SoundSettled DEF HostStill
<1>3. Settled'
  BY <1>0, <1>2, SettledKept
<1>4. StateTyped
  BY TypeParts DEF Sound
<1>5. StateTyped'
  BY <1>0, <1>4 DEF StateTyped, ForestTypeOK, QueueTyped, CacheTyped
<1>6. TypeOK'
  <2>1. StateTyped' /\ TaskletsTyped' <=> TypeOK'
    BY DEF TypeOK, StateTyped, TaskletsTyped, Works
  <2>2. QED
    BY <1>5, <2>1
<1>7. IsUndirected(adj)'
  BY <1>0 DEF Sound, IsUndirected, IsAdjacent
<1>8. MatesKept' /\ FlipsSound' /\ TreesSound' /\ RepairSound' /\ LocksSound'
  <2>1. \A x \in Node : M'[x] \in Node \cup {NoNode}
    BY <1>5 DEF StateTyped, ForestTypeOK
  <2>2. QED
    BY <1>1, <1>3, <2>1, SettledSound DEF HostStill
<1>9. PairsSound'
  <2>1. At("grow") = {} /\ At("grow")' = {} /\ At("claim")' = {}
    BY DEF HostStill, At
  <2>2. \A x \in Node : belongs[x] = NoNode => atomic_locks_match[Slot(x)] = 0
    BY <2>1 DEF Sound, PairsSound, HostStill
  <2>3. \A x \in Node : Slot(x)' = Slot(x)
    BY <1>0 DEF Slot
  <2>4. QED
    BY <1>0, <2>1, <2>2, <2>3 DEF PairsSound
<1>10. OddsSound'
  <2>1. At("fill") = {} /\ At("fill")' = {} /\ At("claim")' = {}
    BY DEF HostStill, At
  <2>2. \A x \in Node : atomic_locks_odd_nodes[x] = 1 => is_even[x] = 1
    BY <2>1 DEF Sound, OddsSound, HostStill
  <2>3. QED
    BY <1>0, <2>1, <2>2 DEF OddsSound
<1>11. EntriesSound'
  <2>1. EntriesPlain
    <3>1. Turning = {} /\ Turns = {}
      BY DEF Turning, Turns
    <3>2. Walks \cup {WalkOf(work) : work \in Turns} = Walks
      BY <3>1
    <3>3. QED
      BY <3>1, <3>2 DEF EntriesSound, EntriesPlain, Sound
  <2>2. QED
    BY <1>0, <2>1, PlainKept
<1>12. DistancesExact'
  BY <1>0 DEF DistancesExact, Sound, HostStill
<1>13. QED
  BY <1>6, <1>7, <1>8, <1>9, <1>10, <1>11, <1>12 DEF Sound

\* Nothing in flight when no kernel runs.
LEMMA NothingRuns ==
  ASSUME todo' = {}, running' = {}, phase' \notin Kernels
  PROVE  TaskletsTyped' /\ TaskletsPlaced' /\ WorkSound'
<1>1. Works' = {}
  BY DEF Works
<1>2. QED
  BY <1>1 DEF TaskletsTyped, TaskletsPlaced, WorkSound, Kernels

\* The tasklets of a new kernel over edges.
LEMMA EdgesLaunched ==
  ASSUME phase' \in {"augment", "expand"}, running' = {},
         \A work \in todo' : EdgeWork(work)'
  PROVE  TaskletsTyped' /\ TaskletsPlaced' /\ WorkSound'
<1>1. Works' = todo'
  BY DEF Works
<1>2. \A work \in Works' : /\ work \in Seq(Node \X Node) /\ work # <<>>
                           /\ \A e \in Range(work) : EvenNode(e[1])' /\ IsAdjacent(adj', e[1], e[2])
  BY <1>1 DEF EdgeWork
<1>3. QED
  BY <1>2 DEF TaskletsTyped, TaskletsPlaced, WorkSound, Kernels

\* A step that leaves the forest alone leaves the work on edges right.
LEMMA EdgesKept ==
  ASSUME UNCHANGED forestVars
  PROVE  \A work : EdgeWork(work)' = EdgeWork(work)
BY ForestKept DEF EdgeWork, forestVars

\* What the state of a sound engine is made of.
LEMMA SoundParts ==
  ASSUME Sound
  PROVE  /\ StateTyped /\ QueueTyped(queue) /\ CacheTyped(edge_prefix_cache)
         /\ adj \in [Node -> Seq(Node)] /\ engine.cached \in BOOLEAN /\ exhausted \in BOOLEAN
         /\ QueueSound /\ CacheSound /\ IsQueue(queue)
<1>1. StateTyped
  BY TypeParts DEF Sound
<1>2. QueueTyped(queue) /\ CacheTyped(edge_prefix_cache)
  BY <1>1 DEF StateTyped, QueueTyped, CacheTyped
<1>3. engine.cached \in BOOLEAN
  <2>1. engine \in {Engine10, Engine12, NR, PerNode, Hybrid, Hybrid2}
    BY <1>1, EnginesAssumption DEF StateTyped
  <2>2. /\ Engine10.cached = TRUE /\ Engine12.cached = FALSE /\ NR.cached = FALSE
        /\ PerNode.cached = FALSE /\ Hybrid.cached = FALSE /\ Hybrid2.cached = FALSE
    BY DEF Engine10, Engine12, NR, PerNode, Hybrid, Hybrid2
  <2>3. QED
    BY <2>1, <2>2
<1>4. queue \in [slots : {queue.slots}, b1 : Nat, e1 : Nat, b2 : Nat, e2 : Nat]
  BY <1>2, NodesAssumption DEF QueueTyped
<1>5. QED
  BY <1>1, <1>2, <1>3, <1>4 DEF StateTyped, ForestTypeOK, IsQueue, Sound

\* The head of the loop keeps Sound.
LEMMA LoopSound ==
  ASSUME Sound, Loop
  PROVE  Sound'
<1> DEFINE cache == PrepareEdgePrefix(edge_prefix_cache, queue)
<1>0. /\ phase = "loop" /\ exhausted' = IsExhausted
      /\ UNCHANGED <<deviceVars, queue, found, engine>>
  BY DEF Loop
<1>1. todo = {} /\ running = {} /\ ~found
  BY <1>0 DEF Sound, TaskletsPlaced, Kernels, LocksSound
<1>2. /\ StateTyped /\ QueueTyped(queue) /\ CacheTyped(edge_prefix_cache)
      /\ adj \in [Node -> Seq(Node)] /\ engine.cached \in BOOLEAN /\ exhausted \in BOOLEAN
      /\ QueueSound /\ CacheSound /\ IsQueue(queue)
  BY SoundParts
<1>3. exhausted' \in BOOLEAN
  BY <1>0, <1>2 DEF IsExhausted
<1>4. UNCHANGED forestVars /\ adj' = adj /\ queue' = queue
  BY <1>0 DEF deviceVars, forestVars
<1>5. \A x : EvenNode(x)' = EvenNode(x)
  BY <1>4, ForestKept
<1>6. CASE exhausted'
  <2>1. phase' = "returned" /\ UNCHANGED <<edge_prefix_cache, kernelVars>>
    BY <1>6 DEF Loop
  <2>2. todo' = {} /\ running' = {}
    BY <1>1, <2>1 DEF kernelVars
  <2>3. TaskletsTyped' /\ TaskletsPlaced' /\ WorkSound'
    BY <2>1, <2>2, NothingRuns DEF Kernels
  <2>4. QueueSound' /\ QueueTyped(queue')
    <3>1. /\ End(queue)' = End(queue) /\ IsQueue(queue')
          /\ queue'.b1 <= queue'.e1 /\ queue'.b2 <= queue'.e2
          /\ phase' # "expand" => queue'.b2 = queue'.e1
      BY <1>0, <1>2, <1>4 DEF QueueSound, End
    <3>2. QED
      BY <1>0, <1>2, <1>4, <1>5, <2>1, <3>1, QueueStays
  <2>5. CacheSound' /\ CacheTyped(edge_prefix_cache)'
    BY <1>0, <1>2, <2>1 DEF CacheSound, CacheTyped
  <2>6. HostStill
    BY <1>0, <1>1, <2>1, <2>2 DEF HostStill
  <2>7. EntriesPlain' => EntriesSound'
    BY <2>1, PlainThen
  <2>8. QED
    BY <1>0, <1>3, <2>1, <2>3, <2>4, <2>5, <2>6, <2>7, HostFrame
<1>7. CASE ~exhausted'
  <2>1. /\ phase' = "augment" /\ edge_prefix_cache' = cache /\ UNCHANGED running
        /\ todo' = Tasklets(queue, cache.presum, Bridges)
    BY <1>7 DEF Loop, Launch
  <2>2. running' = {}
    BY <1>1, <2>1
  <2>3. engine.level # "nodes" => cache.presum = ExclusiveScan(Frontier(queue))
    BY <1>0, <1>2, PreparedScan
  <2>4. \A work \in todo' : EdgeWork(work)
    BY <1>0, <1>2, <2>1, <2>3, TaskletsSound
  <2>5. TaskletsTyped' /\ TaskletsPlaced' /\ WorkSound'
    <3>1. \A work \in todo' : EdgeWork(work)'
      BY <1>4, <2>4, EdgesKept
    <3>2. QED
      BY <2>1, <2>2, <3>1, EdgesLaunched
  <2>6. QueueSound' /\ QueueTyped(queue')
    <3>1. /\ End(queue)' = End(queue) /\ IsQueue(queue')
          /\ queue'.b1 <= queue'.e1 /\ queue'.b2 <= queue'.e2
          /\ phase' # "expand" => queue'.b2 = queue'.e1
      BY <1>0, <1>2, <1>4 DEF QueueSound, End
    <3>2. QED
      BY <1>0, <1>2, <1>4, <1>5, <2>1, <3>1, QueueStays
  <2>7. CacheSound' /\ CacheTyped(edge_prefix_cache)'
    <3>1. End(queue)' = End(queue) /\ queue'.slots = queue.slots
      BY <1>4 DEF End
    <3>2. QED
      BY <1>0, <1>2, <1>4, <2>1, <3>1, PreparedCache
  <2>8. HostStill
    BY <1>0, <1>1, <2>1, <2>2 DEF HostStill
  <2>9. EntriesPlain' => EntriesSound'
    BY <2>1, PlainThen
  <2>10. QED
    BY <1>0, <1>3, <2>1, <2>5, <2>6, <2>7, <2>8, <2>9, HostFrame DEF Kernels
<1>8. QED
  BY <1>6, <1>7

\* The end of an augment kernel that found no path.
LEMMA EndAugmentSound ==
  ASSUME Sound, EndAugment, ~found
  PROVE  Sound'
<1> DEFINE cache == PrepareEdgePrefix(edge_prefix_cache, queue)
<1>0. /\ phase = "augment" /\ phase' = "expand" /\ todo = {} /\ running = {}
      /\ queue' = PrepareForAppendingENode1(queue) /\ edge_prefix_cache' = cache
      /\ todo' = Tasklets(queue, cache.presum, Outward) /\ running' = running
      /\ UNCHANGED <<deviceVars, found, engine, exhausted>>
  BY DEF EndAugment, Launch, KernelDone
<1>1. UNCHANGED forestVars /\ adj' = adj
  BY <1>0 DEF deviceVars, forestVars
<1>2. /\ StateTyped /\ QueueTyped(queue) /\ CacheTyped(edge_prefix_cache)
      /\ adj \in [Node -> Seq(Node)] /\ engine.cached \in BOOLEAN /\ exhausted \in BOOLEAN
      /\ QueueSound /\ CacheSound /\ IsQueue(queue)
  BY SoundParts
<1>3. \A x : EvenNode(x)' = EvenNode(x)
  BY <1>1, ForestKept
<1>4. engine.level # "nodes" => cache.presum = ExclusiveScan(Frontier(queue))
  BY <1>0, <1>2, PreparedScan
<1>5. TaskletsTyped' /\ TaskletsPlaced' /\ WorkSound'
  <2>1. \A work \in todo' : EdgeWork(work)
    BY <1>0, <1>2, <1>4, TaskletsSound
  <2>2. \A work \in todo' : EdgeWork(work)'
    BY <1>1, <2>1, EdgesKept
  <2>3. QED
    BY <1>0, <2>2, EdgesLaunched
<1>6. /\ IsQueue(queue') /\ queue'.slots = queue.slots /\ End(queue)' = End(queue)
      /\ queue'.b1 <= queue'.e1 /\ queue'.b2 <= queue'.e2
      /\ queue'.b1 = queue'.e2 /\ queue'.b1 = End(queue)
  <2>1. /\ IsQueue(queue') /\ queue'.b1 = queue.e2 /\ queue'.e1 = queue.e2
        /\ queue'.b2 = queue.b2 /\ queue'.e2 = queue.e2
    BY <1>0, <1>2, Moved1
  <2>2. queue'.slots = queue.slots
    BY <1>0, <1>2 DEF PrepareForAppendingENode1, QueueTyped
  <2>3. queue.e1 \in Nat /\ queue.e2 \in Nat /\ queue.b2 \in Nat
    BY <1>2 DEF IsQueue
  <2>4. queue.e1 <= queue.e2 /\ queue.b2 <= queue.e2
    BY <1>0, <1>2 DEF QueueSound
  <2>5. QED
    BY <2>1, <2>2, <2>3, <2>4 DEF End
<1>7. QueueSound' /\ QueueTyped(queue')
  BY <1>0, <1>2, <1>3, <1>6, QueueStays
<1>8. CacheSound' /\ CacheTyped(edge_prefix_cache)'
  BY <1>0, <1>1, <1>2, <1>6, PreparedCache
<1>9. HostStill
  BY <1>0 DEF HostStill
<1>10. EntriesPlain' => EntriesSound'
  BY <1>0, PlainThen
<1>11. QED
  BY <1>0, <1>2, <1>5, <1>7, <1>8, <1>9, <1>10, HostFrame DEF Kernels

\* The end of the transform kernel keeps Sound.
LEMMA EndTransformSound ==
  ASSUME Sound, EndTransform
  PROVE  Sound'
<1>0. /\ phase = "transform" /\ phase' = "loop" /\ todo = {} /\ running = {}
      /\ queue' = queue /\ todo' = todo /\ running' = running
      /\ edge_prefix_cache' = InvalidateEdgePrefixCache(edge_prefix_cache)
      /\ UNCHANGED <<deviceVars, found, engine, exhausted>>
  BY DEF EndTransform, KernelDone, kernelVars
<1>1. UNCHANGED forestVars /\ adj' = adj
  BY <1>0 DEF deviceVars, forestVars
<1>2. /\ StateTyped /\ QueueTyped(queue) /\ CacheTyped(edge_prefix_cache)
      /\ exhausted \in BOOLEAN /\ QueueSound /\ CacheSound /\ IsQueue(queue)
  BY SoundParts
<1>3. \A x : EvenNode(x)' = EvenNode(x)
  BY <1>1, ForestKept
<1>4. TaskletsTyped' /\ TaskletsPlaced' /\ WorkSound'
  BY <1>0, NothingRuns DEF Kernels
<1>5. /\ queue'.b1 <= queue'.e1 /\ queue'.b2 <= queue'.e2 /\ queue'.b2 = queue'.e1
      /\ End(queue)' = End(queue) /\ IsQueue(queue') /\ queue'.slots = queue.slots
  BY <1>0, <1>2 DEF QueueSound, End
<1>6. QueueSound' /\ QueueTyped(queue')
  BY <1>0, <1>2, <1>3, <1>5, QueueStays
<1>7. CacheSound' /\ CacheTyped(edge_prefix_cache)'
  <2>1. ~edge_prefix_cache'.valid /\ CacheTyped(edge_prefix_cache)'
    BY <1>0, <1>2 DEF CacheTyped, InvalidateEdgePrefixCache
  <2>2. QED
    BY <1>0, <2>1 DEF CacheSound
<1>8. ~found
  BY <1>0 DEF Sound, LocksSound
<1>9. HostStill
  BY <1>0, <1>8 DEF HostStill
<1>10. EntriesPlain' => EntriesSound'
  BY <1>0, PlainThen
<1>11. Works = {}
  BY <1>0 DEF Works
<1>12. QED
  BY <1>0, <1>2, <1>4, <1>6, <1>7, <1>9, <1>10, <1>11, HostFrame

\* What the first of the two blossom kernels finds.
LEMMA TransformsTurn ==
  ASSUME StateTyped, QueueSound, IsUndirected(adj), Settled, EntriesPlain, phase # "init",
         NEW presum, engine.level # "nodes" => presum = ExclusiveScan(Frontier(queue)),
         NEW works, works = Transforms(queue, presum), NEW work \in works
  PROVE  BlossomTurn(work, works)
<1>0. ForestTypeOK
  BY DEF StateTyped
<1>1. Hanging /\ Mutual
  BY <1>0, SettledHanging DEF Settled, Mutual
<1>2. PICK live : live = {e \in Inward : is_even[e[2]] = 1}
  OBVIOUS
<1>3. PICK e \in BlossomsOf(queue, presum) : work \in OddNodes(e[1], e[2])
  BY DEF Transforms
<1>4. PICK w \in Tasklets(queue, presum, live) : e \in ToSet(UpToReturn(w))
  BY <1>2, <1>3 DEF BlossomsOf
<1>5. EdgeWork(w) /\ \A d \in Range(w) : d \in live
  BY <1>4, TaskletsSound
<1>6. e \in Range(w)
  <2>1. PICK S : S = Node \X Node
    OBVIOUS
  <2>2. w \in Seq(S)
    BY <1>5, <2>1 DEF EdgeWork
  <2>3. PICK T : UpToReturn(w) = Among(w, T)
    BY DEF UpToReturn
  <2>4. e \in Range(Among(w, T))
    BY <1>4, <2>3 DEF ToSet, Range
  <2>5. QED
    BY <2>2, <2>4, AmongFacts
<1>7. /\ EvenNode(e[1]) /\ IsAdjacent(adj, e[1], e[2]) /\ e \in live
  BY <1>5, <1>6 DEF EdgeWork
<1>8. e \in Node \X Node /\ SameTree(e[1], e[2]) /\ is_even[e[2]] = 1
  BY <1>2, <1>7 DEF Inward
<1>9. PICK x, y \in Node : x = e[1] /\ y = e[2]
  BY <1>8
<1>10. /\ x \in EvenNodes /\ y \in EvenNodes /\ belongs[y] = belongs[x]
       /\ IsAdjacent(adj, x, y) /\ M[x] # y
  BY <1>7, <1>8, <1>9 DEF EvenNodes, EvenNode, SameTree
<1>11. work \in OddNodes(x, y) /\ OddNodes(x, y) \subseteq works
  BY <1>3, <1>9 DEF Transforms
<1>12. OddsOnce({}) /\ OddsApart(Walks, {})
  BY DEF EntriesPlain
<1>13. QED
  BY <1>1, <1>10, <1>11, <1>12, BlossomTurns

\* With the blossoms of a forest listed their odd nodes are about to turn.
LEMMA BlossomEntries ==
  ASSUME EntriesPlain, UNCHANGED forestVars, phase' = "transform", running' = {},
         \A work \in todo' : BlossomTurn(work, todo')
  PROVE  EntriesSound'
<1> DEFINE T == {u[1] : u \in todo'}
           new == {WalkOf(work) : work \in {u \in todo' : is_even[u[1]] = 0}}
<1>1. Works' = todo'
  BY DEF Works
<1>2. is_even' = is_even /\ path_table' = path_table
  BY DEF forestVars
<1>3. Turning' = T
  BY <1>1 DEF Turning
<1>4. Turns' = {u \in todo' : is_even[u[1]] = 0}
  BY <1>1, <1>2 DEF Turns
<1>5. StillOdd(T) \subseteq StillOdd({})
  BY DEF StillOdd
<1>6. OddsOnce(T)
  BY <1>5 DEF EntriesPlain, OddsOnce
<1>7. OddsApart(Walks, T)
  BY <1>5 DEF EntriesPlain, OddsApart
<1>8. OddsApart(Walks \cup new, T)
  <2>1. \A r \in new : \A o \in StillOdd(T) : \E s, t \in Walks : Mixed(r, s, t, o)
    BY DEF BlossomTurn
  <2>2. QED
    BY <1>7, <2>1, MixedApart
<1>9. PICK S, N : S = T /\ N = new
  OBVIOUS
<1>10. OddsOnce(S)' /\ OddsApart(Walks \cup N, S)'
  <2>1. OddsOnce(S)'
    BY <1>6, <1>9, ForestKept
  <2>2. Walks' = Walks
    BY ForestKept
  <2>3. PICK P : P = Walks \cup N
    OBVIOUS
  <2>4. OddsApart(P, S)'
    BY <1>8, <1>9, <2>3, ForestKept
  <2>5. QED
    BY <2>1, <2>2, <2>3, <2>4 DEF OddsApart
<1>11. {WalkOf(work)' : work \in Turns'} = N
  BY <1>4, <1>9, ForestKept
<1>12. OddsOnce(Turning)' /\ OddsApart(Walks \cup {WalkOf(work) : work \in Turns}, Turning)'
  <2>1. OddsOnce(Turning)'
    BY <1>3, <1>9, <1>10 DEF OddsOnce
  <2>2. (Walks \cup {WalkOf(work) : work \in Turns})' = (Walks \cup N)'
    BY <1>11
  <2>3. QED
    BY <1>3, <1>9, <1>10, <2>1, <2>2 DEF OddsApart
<1>13. \A work \in Turns' : /\ TurnLegal(work)'
                            /\ \A x \in Range(work) : is_even'[x] = 1 \/ x \in Turning'
  <2>1. SUFFICES ASSUME NEW work \in todo', is_even[work[1]] = 0
                 PROVE  /\ TurnLegal(work)'
                        /\ \A x \in Range(work) : is_even'[x] = 1 \/ x \in Turning'
    BY <1>4
  <2>2. TurnLegal(work) /\ \A x \in Range(work) : is_even[x] = 1 \/ x \in T
    BY <2>1 DEF BlossomTurn
  <2>3. QED
    BY <1>2, <1>3, <2>2, ForestKept
<1>14. EntriesLong(path_table)' /\ LinksEven' /\ OddsBare'
  <2>1. EntriesLong(path_table')
    BY <1>2 DEF EntriesPlain
  <2>2. QED
    BY <2>1, ForestKept DEF EntriesPlain, EntriesLong
<1>15. QED
  BY <1>12, <1>13, <1>14 DEF EntriesSound

\* The end of the expand kernel keeps Sound: it launches the blossom kernels.
LEMMA EndExpandSound ==
  ASSUME Sound, EndExpand
  PROVE  Sound'
<1> DEFINE invalid == InvalidateEdgePrefixCache(edge_prefix_cache)
           cache == PrepareEdgePrefix(invalid, queue)
<1>0. /\ phase = "expand" /\ todo = {} /\ running = {}
      /\ UNCHANGED <<deviceVars, found, engine, exhausted>>
  BY DEF EndExpand, KernelDone
<1>1. UNCHANGED forestVars /\ adj' = adj
  BY <1>0 DEF deviceVars, forestVars
<1>2. /\ StateTyped /\ QueueTyped(queue) /\ CacheTyped(edge_prefix_cache)
      /\ adj \in [Node -> Seq(Node)] /\ engine.cached \in BOOLEAN /\ exhausted \in BOOLEAN
      /\ QueueSound /\ CacheSound /\ IsQueue(queue)
  BY SoundParts
<1>3. \A x : EvenNode(x)' = EvenNode(x)
  BY <1>1, ForestKept
<1>4. CacheTyped(invalid) /\ ~invalid.valid
  BY <1>2 DEF CacheTyped, InvalidateEdgePrefixCache
<1>5. Settled /\ EntriesPlain /\ ~found
  BY <1>0, GrownSettled, PlainEntries DEF Sound, Settled
<1>6. /\ queue.b1 \in Nat /\ queue.e1 \in Nat /\ queue.b2 \in Nat /\ queue.e2 \in Nat
      /\ queue.b1 = queue.e2 /\ queue.b1 <= queue.e1 /\ queue.b2 <= queue.e2
  BY <1>0, <1>2 DEF IsQueue, QueueSound
<1>7. End(queue) = queue.e1 /\ Begin(queue) \in Nat /\ Begin(queue) <= queue.b2
  BY <1>6 DEF End, Begin
<1>8. CASE Size(queue) = 0
  <2>1. /\ phase' = "loop" /\ edge_prefix_cache' = invalid /\ queue' = queue
        /\ todo' = todo /\ running' = running
    BY <1>8 DEF EndExpand, kernelVars
  <2>2. TaskletsTyped' /\ TaskletsPlaced' /\ WorkSound'
    BY <1>0, <2>1, NothingRuns DEF Kernels
  <2>3. queue.b2 = queue.e1
    BY <1>6, <1>7, <1>8 DEF Size
  <2>4. /\ queue'.b1 <= queue'.e1 /\ queue'.b2 <= queue'.e2 /\ queue'.b2 = queue'.e1
        /\ End(queue)' = End(queue) /\ IsQueue(queue') /\ queue'.slots = queue.slots
    BY <1>2, <1>6, <2>1, <2>3 DEF End
  <2>5. QueueSound' /\ QueueTyped(queue')
    BY <1>0, <1>2, <1>3, <2>1, <2>4, QueueStays
  <2>6. CacheSound' /\ CacheTyped(edge_prefix_cache)'
    BY <1>4, <2>1 DEF CacheSound, CacheTyped
  <2>7. HostStill
    BY <1>0, <1>5, <2>1 DEF HostStill
  <2>8. EntriesPlain' => EntriesSound'
    BY <2>1, PlainThen
  <2>9. QED
    BY <1>0, <1>2, <2>1, <2>2, <2>5, <2>6, <2>7, <2>8, HostFrame
<1>9. CASE Size(queue) # 0
  <2>1. /\ phase' = "transform" /\ edge_prefix_cache' = cache
        /\ queue' = PrepareForAppendingENode2(queue)
        /\ todo' = Transforms(queue, cache.presum) /\ running' = running
    BY <1>9 DEF EndExpand, Launch
  <2>2. engine.level # "nodes" => cache.presum = ExclusiveScan(Frontier(queue))
    BY <1>0, <1>2, <1>4, PreparedScan
  <2>3. \A work \in todo' : BlossomTurn(work, todo')
    <3>1. IsUndirected(adj) /\ phase # "init"
      BY <1>0 DEF Sound
    <3>2. QED
      BY <1>2, <1>5, <2>1, <2>2, <3>1, TransformsTurn
  <2>4. EntriesSound'
    BY <1>0, <1>1, <1>5, <2>1, <2>3, BlossomEntries
  <2>5. TaskletsTyped' /\ TaskletsPlaced' /\ WorkSound'
    <3>1. Works' = todo' /\ running' = {}
      BY <1>0, <2>1 DEF Works
    <3>2. \A work \in Works' : work \in Seq(Node) /\ Len(work) >= 3
      BY <2>3, <3>1 DEF BlossomTurn, Path
    <3>3. QED
      BY <2>1, <3>1, <3>2 DEF TaskletsTyped, TaskletsPlaced, WorkSound, Kernels
  <2>6. /\ IsQueue(queue') /\ queue'.slots = queue.slots /\ End(queue)' = End(queue)
        /\ queue'.b1 <= queue'.e1 /\ queue'.b2 <= queue'.e2
        /\ queue'.b2 = queue'.e1 /\ queue'.b2 = End(queue)
    <3>1. /\ IsQueue(queue') /\ queue'.b2 = queue.e1 /\ queue'.e2 = queue.e1
          /\ queue'.b1 = queue.b1 /\ queue'.e1 = queue.e1
      BY <1>2, <2>1, Moved2
    <3>2. queue'.slots = queue.slots
      BY <1>2, <2>1 DEF PrepareForAppendingENode2, QueueTyped
    <3>3. QED
      BY <1>6, <1>7, <3>1, <3>2 DEF End
  <2>7. QueueSound' /\ QueueTyped(queue')
    BY <1>0, <1>2, <1>3, <2>1, <2>6, QueueStays
  <2>8. CacheSound' /\ CacheTyped(edge_prefix_cache)'
    BY <1>0, <1>1, <1>2, <1>4, <2>1, <2>6, PreparedCache
  <2>9. HostStill
    BY <1>0, <1>5, <2>1 DEF HostStill
  <2>10. QED
    BY <1>0, <1>2, <2>1, <2>4, <2>5, <2>7, <2>8, <2>9, HostFrame DEF Kernels
<1>10. QED
  BY <1>8, <1>9

-----------------------------------------------------------------------------
\* The end of an augment kernel that found paths: what is kept of the forest
\* are the trees no path was found in.
LEMMA PathsFoundSound ==
  ASSUME Sound, EndAugment, found
  PROVE  Sound'
<1>0. /\ phase = "augment" /\ phase' = "init" /\ todo = {} /\ running = {}
      /\ queue' = queue /\ edge_prefix_cache' = edge_prefix_cache
      /\ todo' = {} /\ running' = {}
      /\ UNCHANGED <<deviceVars, found, engine, exhausted>>
  BY DEF EndAugment, KernelDone, kernelVars
<1>1. /\ UNCHANGED forestVars /\ adj' = adj /\ M' = M /\ is_even' = is_even /\ belongs' = belongs
      /\ path_table' = path_table /\ root_distance' = root_distance
      /\ atomic_locks_tree' = atomic_locks_tree /\ atomic_locks_match' = atomic_locks_match
      /\ atomic_locks_odd_nodes' = atomic_locks_odd_nodes /\ found' = found /\ engine' = engine
  BY <1>0 DEF deviceVars, forestVars, lockVars
<1>2. StateTyped /\ QueueSound
  BY SoundParts
<1>3. TypeOK'
  <2>1. StateTyped'
    BY <1>0, <1>1, <1>2 DEF StateTyped, ForestTypeOK
  <2>2. TaskletsTyped' /\ TaskletsPlaced' /\ WorkSound'
    BY <1>0, NothingRuns DEF Kernels
  <2>3. StateTyped' /\ TaskletsTyped' <=> TypeOK'
    BY DEF TypeOK, StateTyped, TaskletsTyped, Works
  <2>4. QED
    BY <2>1, <2>2, <2>3
<1>4. IsUndirected(adj)' /\ TaskletsPlaced' /\ WorkSound'
  <2>1. IsUndirected(adj)'
    BY <1>1 DEF Sound, IsUndirected, IsAdjacent
  <2>2. QED
    BY <1>0, <2>1, NothingRuns DEF Kernels
<1>5. Pending = {} /\ Pending' = {} /\ At("flip")' = {} /\ Holders = {} /\ At("flip") = {}
  BY <1>0 DEF Pending, At, Holders
<1>6. \A x \in Node : ~Unflipped(x) /\ ~Unflipped(x)'
  BY <1>5 DEF Unflipped
<1>7. MatesKept'
  <2>1. \A y : ~Unflipped(y) /\ ~Unflipped(y)'
    BY <1>5 DEF Unflipped
  <2>2. \A x \in Node : M[x] # NoNode => M[x] # x /\ M[M[x]] = x /\ IsAdjacent(adj, x, M[x])
    BY <2>1 DEF Sound, MatesKept
  <2>3. \A x \in Node : M'[x] # NoNode => M'[x] # x /\ M'[M'[x]] = x /\ IsAdjacent(adj', x, M'[x])
    BY <1>1, <2>2
  <2>4. QED
    BY <2>1, <2>3 DEF MatesKept, Unflipped
<1>8. FlipsSound' /\ TreesSound' /\ LocksSound' /\ PairsSound' /\ OddsSound' /\ DistancesExact'
  BY <1>0, <1>5 DEF FlipsSound, TreesSound, LocksSound, PairsSound, OddsSound, DistancesExact
<1>9. EntriesSound'
  <2>1. EntriesPlain
    BY <1>0, PlainEntries DEF Sound
  <2>2. EntriesPlain'
    BY <1>1, <2>1, PlainKept
  <2>3. QED
    BY <1>0, <2>2, PlainThen
<1>10. QueueSound' /\ CacheSound'
  BY <1>0, <1>2 DEF QueueSound, CacheSound
<1>11. RepairSound'
  <2>1. /\ \A x \in Node : M[x] = NoNode => IsRoot(x)
        /\ \A x \in Node : belongs[x] # NoNode => IsRoot(belongs[x])
        /\ \A x \in Node : M[x] # NoNode /\ Whole(x) => belongs[M[x]] = belongs[x]
        /\ \A x \in EvenNodes : Whole(x) => EvenWalkLegal(x)
    BY <1>0 DEF Sound, TreesSound
  <2>2. \A r \in Node : Taken(r) => M[r] # NoNode
    BY <1>0, <1>6 DEF Sound, LocksSound
  <2>3. ASSUME NEW x \in Node, M[x] # NoNode, InValidTree(x)
        PROVE  /\ IsRoot(belongs[x])
               /\ belongs[M[x]] = belongs[x]
               /\ is_even[x] = 1 =>
                    /\ EvenWalkLegal(x)
                    /\ root_distance[x] = Len(Walk(path_table, x)) - 1
    <3>1. belongs[x] # NoNode /\ M[belongs[x]] = NoNode /\ belongs[x] \in Node
      BY <1>2, <2>3 DEF InValidTree, StateTyped, ForestTypeOK
    <3>2. Whole(x)
      BY <2>2, <3>1 DEF Whole
    <3>3. IsRoot(belongs[x]) /\ belongs[M[x]] = belongs[x]
      BY <2>1, <2>3, <3>1, <3>2
    <3>4. is_even[x] = 1 => x \in EvenNodes
      BY <3>1 DEF EvenNodes, EvenNode
    <3>5. is_even[x] = 1 => EvenWalkLegal(x) /\ root_distance[x] = Len(Walk(path_table, x)) - 1
      BY <1>0, <2>1, <3>1, <3>2, <3>4 DEF Sound, DistancesExact
    <3>6. QED
      BY <3>3, <3>5
  <2>4. \A x : /\ IsRoot(x)' = IsRoot(x) /\ EvenWalkLegal(x)' = EvenWalkLegal(x)
               /\ InValidTree(x)' = InValidTree(x)
    BY <1>1, ForestKept DEF InValidTree
  <2>5. PICK b : b = belongs
    OBVIOUS
  <2>6. \A x \in Node : IsRoot(b[x])' = IsRoot(b[x])
    BY <2>4
  <2>7. QED
    BY <1>1, <2>1, <2>3, <2>4, <2>5, <2>6 DEF RepairSound, IsRoot
<1>12. QED
  BY <1>3, <1>4, <1>7, <1>8, <1>9, <1>10, <1>11 DEF Sound

\* The end of the augment kernel keeps Sound, with a path found and without.
LEMMA EndAugmentAllSound ==
  ASSUME Sound, EndAugment
  PROVE  Sound'
BY EndAugmentSound, PathsFoundSound

-----------------------------------------------------------------------------
(***************************************************************************)
(* The search starts.                                                      *)
(***************************************************************************)
Rank(S, x) == Cardinality({y \in S : y < x})

\* The nodes of a set, in ascending order, are counted by their rank.
LEMMA Ranked ==
  ASSUME NEW S \in SUBSET Node
  PROVE  /\ IsFiniteSet(S) /\ Cardinality(S) \in Nat
         /\ \A k \in Nat : k < Cardinality(S) => \E x \in S : Rank(S, x) = k
<1> DEFINE Good(m) == \A A \in SUBSET (0 .. (m - 1)) :
                        /\ IsFiniteSet(A)
                        /\ \A k \in Nat : k < Cardinality(A) => \E x \in A : Rank(A, x) = k
           T == {m \in Nat : Good(m)}
<1>1. 0 \in T
  <2>1. \A A \in SUBSET (0 .. (0 - 1)) : A = {}
    OBVIOUS
  <2>2. IsFiniteSet({}) /\ Cardinality({}) = 0
    BY FS_EmptySet
  <2>3. \A A \in SUBSET (0 .. (0 - 1)) : IsFiniteSet(A) /\ Cardinality(A) = 0
    BY <2>1, <2>2
  <2>4. \A k \in Nat : ~(k < 0)
    OBVIOUS
  <2>5. Good(0)
    BY <2>3, <2>4
  <2>6. QED
    BY <2>5
<1>2. ASSUME NEW m \in Nat, m \in T
      PROVE  m + 1 \in T
  <2>0. Good(m) /\ m + 1 \in Nat
    BY <1>2
  <2>1. SUFFICES ASSUME NEW A \in SUBSET (0 .. ((m + 1) - 1))
                 PROVE  /\ IsFiniteSet(A)
                        /\ \A k \in Nat : k < Cardinality(A) => \E x \in A : Rank(A, x) = k
    BY <2>0
  <2>2. A \ {m} \in SUBSET (0 .. (m - 1)) /\ m \notin 0 .. (m - 1)
    OBVIOUS
  <2>3. PICK B : B = A \ {m}
    OBVIOUS
  <2>4. /\ IsFiniteSet(B) /\ B \in SUBSET (0 .. (m - 1)) /\ m \notin B
        /\ \A k \in Nat : k < Cardinality(B) => \E x \in B : Rank(B, x) = k
    BY <2>0, <2>2, <2>3
  <2>5. CASE m \notin A
    BY <2>3, <2>4, <2>5
  <2>6. CASE m \in A
    <3>1. A = B \cup {m}
      BY <2>3, <2>6
    <3>2. IsFiniteSet(A) /\ Cardinality(A) = Cardinality(B) + 1 /\ Cardinality(B) \in Nat
      BY <2>4, <3>1, FS_AddElement, FS_CardinalityType
    <3>3. ASSUME NEW k \in Nat, k < Cardinality(A)
          PROVE  \E x \in A : Rank(A, x) = k
      <4>1. CASE k < Cardinality(B)
        <5>1. PICK x \in B : Rank(B, x) = k
          BY <2>4, <4>1
        <5>2. {y \in A : y < x} = {y \in B : y < x}
          BY <2>4, <3>1, <5>1
        <5>3. QED
          BY <3>1, <5>1, <5>2 DEF Rank
      <4>2. CASE k = Cardinality(B)
        <5>1. {y \in A : y < m} = B
          <6>1. ~(m < m) /\ \A y \in 0 .. (m - 1) : y < m
            OBVIOUS
          <6>2. \A y \in B : y < m
            BY <2>4, <6>1
          <6>3. QED
            BY <3>1, <6>1, <6>2
        <5>2. QED
          BY <3>1, <4>2, <5>1 DEF Rank
      <4>3. QED
        BY <3>2, <3>3, <4>1, <4>2
    <3>4. QED
      BY <3>2, <3>3
  <2>7. QED
    BY <2>5, <2>6
<1>3. \A k \in Nat : k \in T
  <2>1. PICK U : U = T
    OBVIOUS
  <2>2. 0 \in U /\ \A k \in Nat : k \in U => k + 1 \in U
    BY <1>1, <1>2, <2>1
  <2>3. \A k \in Nat : k \in U
    BY <2>2, SetInduction
  <2>4. QED
    BY <2>1, <2>3
<1>4. Good(nodes) /\ S \in SUBSET (0 .. (nodes - 1))
  BY <1>3, NodesAssumption DEF Node
<1>5. QED
  BY <1>4, FS_CardinalityType

\* The ranks are 0, 1, 2, ...: a node is told by its rank.
LEMMA RankOnce ==
  ASSUME NEW S \in SUBSET Node
  PROVE  \A x \in S : /\ Rank(S, x) \in Nat /\ Rank(S, x) < Cardinality(S)
                      /\ \A y \in S : Rank(S, x) = Rank(S, y) => x = y
<1>1. IsFiniteSet(S) /\ Cardinality(S) \in Nat
  BY Ranked
<1>2. \A x \in S : x \in Int
  BY DEF Node
<1>3. ASSUME NEW A \in SUBSET S
      PROVE  IsFiniteSet(A) /\ Cardinality(A) \in Nat
  BY <1>1, <1>3, FS_Subset, FS_CardinalityType
<1>4. ASSUME NEW A \in SUBSET S, NEW B \in SUBSET A, NEW x \in A, x \notin B
      PROVE  Cardinality(B) < Cardinality(A)
  <2>1. IsFiniteSet(A) /\ Cardinality(A) \in Nat /\ Cardinality(B) \in Nat
    BY <1>3, <1>4
  <2>2. Cardinality(B) <= Cardinality(A) /\ (Cardinality(B) = Cardinality(A) => B = A)
    BY <2>1, FS_Subset
  <2>3. Cardinality(B) # Cardinality(A)
    BY <1>4, <2>2
  <2>4. QED
    BY <2>1, <2>2, <2>3
<1>5. ASSUME NEW x \in S, NEW y \in S, x < y
      PROVE  Rank(S, x) < Rank(S, y)
  <2>1. PICK A, B : A = {z \in S : z < y} /\ B = {z \in S : z < x}
    OBVIOUS
  <2>2. A \in SUBSET S /\ B \in SUBSET A /\ x \in A /\ x \notin B
    BY <1>2, <1>5, <2>1
  <2>3. QED
    BY <1>4, <2>1, <2>2 DEF Rank
<1>6. ASSUME NEW x \in S
      PROVE  Rank(S, x) \in Nat /\ Rank(S, x) < Cardinality(S)
  <2>1. PICK B : B = {z \in S : z < x}
    OBVIOUS
  <2>2. S \in SUBSET S /\ B \in SUBSET S /\ x \notin B
    BY <1>2, <2>1
  <2>3. QED
    BY <1>3, <1>4, <2>1, <2>2 DEF Rank
<1>7. ASSUME NEW x \in S, NEW y \in S, Rank(S, x) = Rank(S, y)
      PROVE  x = y
  <2>1. ~(Rank(S, x) < Rank(S, y)) /\ ~(Rank(S, y) < Rank(S, x))
    BY <1>6, <1>7
  <2>2. ~(x < y) /\ ~(y < x)
    BY <1>5, <2>1
  <2>3. QED
    BY <1>2, <2>2
<1>8. QED
  BY <1>6, <1>7

\* Slots from at on hold S, each node once.
Fill(r, slots, at, S) ==
  /\ r \in [Node -> Node]
  /\ \A i \in Node : i < at \/ i >= at + Cardinality(S) => r[i] = slots[i]
  /\ \A i \in Node : at <= i /\ i < at + Cardinality(S) => r[i] \in S
  /\ \A i, j \in Node : at <= i /\ i < at + Cardinality(S) /\ at <= j /\ j < at + Cardinality(S)
                        /\ r[i] = r[j] => i = j
  /\ at + Cardinality(S) <= nodes =>
       \A x \in S : \E i \in Node : at <= i /\ i < at + Cardinality(S) /\ r[i] = x

\* Filling a window puts each node of a set into one slot behind it.
LEMMA FilledFacts ==
  ASSUME NEW slots \in [Node -> Node], NEW S \in SUBSET Node, NEW at \in Nat
  PROVE  Fill(Filled(slots, at, S), slots, at, S)
<1> DEFINE nth(k) == CHOOSE x \in S : Cardinality({y \in S : y < x}) = k
           n == Cardinality(S)
           r == Filled(slots, at, S)
<1>1. n \in Nat /\ \A k \in Nat : k < n => \E x \in S : Rank(S, x) = k
  BY Ranked
<1>2. \A k \in Nat : k < n => nth(k) \in S /\ Rank(S, nth(k)) = k
  BY <1>1 DEF Rank
<1>3. r = [i \in Node |-> IF i \in at .. (at + n - 1) THEN nth(i - at) ELSE slots[i]]
  BY DEF Filled
<1> HIDE DEF nth, n
<1>4. \A i \in Node : i \in Nat
  BY NodesAssumption DEF Node
<1>5. \A i \in Node : i \in at .. (at + n - 1) <=> at <= i /\ i < at + n
  BY <1>1, <1>4
<1>6. \A i \in Node : at <= i /\ i < at + n => i - at \in Nat /\ i - at < n /\ r[i] = nth(i - at)
  BY <1>1, <1>3, <1>4, <1>5
<1>7. \A i \in Node : at <= i /\ i < at + n => r[i] \in S
  BY <1>2, <1>6
<1>8. \A i \in Node : i < at \/ i >= at + n => r[i] = slots[i]
  <2>1. SUFFICES ASSUME NEW i \in Node, i < at \/ i >= at + n PROVE r[i] = slots[i]
    OBVIOUS
  <2>2. i \notin at .. (at + n - 1)
    BY <1>1, <1>4, <1>5, <2>1
  <2>3. QED
    BY <1>3, <2>2
<1>9. ASSUME NEW i \in Node, NEW j \in Node, at <= i, i < at + n, at <= j, j < at + n, r[i] = r[j]
      PROVE  i = j
  <2>1. /\ i - at \in Nat /\ i - at < n /\ r[i] = nth(i - at)
        /\ j - at \in Nat /\ j - at < n /\ r[j] = nth(j - at)
    BY <1>6, <1>9
  <2>2. i - at = j - at
    BY <1>2, <1>9, <2>1
  <2>3. QED
    BY <1>4, <2>2
<1>10. r \in [Node -> Node]
  <2>1. \A i \in Node : r[i] \in Node
    <3>1. SUFFICES ASSUME NEW i \in Node PROVE r[i] \in Node
      OBVIOUS
    <3>2. (at <= i /\ i < at + n) \/ i < at \/ i >= at + n
      BY <1>1, <1>4
    <3>3. QED
      BY <1>7, <1>8, <3>2
  <2>2. QED
    BY <1>3, <2>1
<1>11. ASSUME at + n <= nodes, NEW x \in S
       PROVE  \E i \in Node : at <= i /\ i < at + n /\ r[i] = x
  <2>1. PICK k : k = Rank(S, x)
    OBVIOUS
  <2>2. k \in Nat /\ k < n
    BY <2>1, RankOnce DEF n
  <2>3. nth(k) = x
    BY <1>2, <2>1, <2>2, RankOnce
  <2>4. at + k \in Node /\ at <= at + k /\ at + k < at + n /\ (at + k) - at = k
    BY <1>1, <1>11, <2>2, NodesAssumption DEF Node
  <2>5. r[at + k] = nth((at + k) - at)
    BY <1>6, <2>4
  <2>6. QED
    BY <2>3, <2>4, <2>5
<1>12. QED
  BY <1>7, <1>8, <1>9, <1>10, <1>11 DEF Fill, n

\* The entry of a node is on its walk.
LEMMA EntryOnWalk ==
  ASSUME NEW table \in [Node -> Seq(Node)], NEW x \in Node
  PROVE  Range(table[x]) \subseteq Range(Walk(table, x))
<1>1. PICK w \in [Nat -> Path] : Rounds(w, table, x) /\ Walk(table, x) = w[MaxHops]
  BY WalkRounds
<1>2. nodes \in Nat /\ nodes >= 1
  BY NodesAssumption DEF Node
<1>3. \A n \in Nat : n >= 1 => (n + 1) \div 2 \in Nat /\ 1 <= (n + 1) \div 2
  OBVIOUS
<1>4. MaxHops \in Nat /\ 1 <= MaxHops
  BY <1>2, <1>3 DEF MaxHops
<1>5. Range(w[1]) \subseteq Range(w[MaxHops])
  BY <1>1, <1>4, RoundsGrow
<1>6. w[0] = <<x>> /\ w[1] = w[0] \o table[Last(w[0])]
  <2>1. w[0] = <<x>> /\ \A k \in Nat : w[k + 1] = w[k] \o table[Last(w[k])]
    BY <1>1 DEF Rounds
  <2>2. w[0 + 1] = w[0] \o table[Last(w[0])]
    BY <2>1
  <2>3. 0 + 1 = 1
    OBVIOUS
  <2>4. QED
    BY <2>1, <2>2, <2>3
<1>7. Last(<<x>>) = x
  BY DEF Last
<1>8. w[0] \in Path
  OBVIOUS
<1>9. Range(table[x]) \subseteq Range(w[1])
  <2>1. Range(w[0] \o table[Last(w[0])]) = Range(w[0]) \cup Range(table[Last(w[0])])
    BY <1>8, PathGrows
  <2>2. Last(w[0]) = x
    BY <1>6, <1>7
  <2>3. QED
    BY <1>6, <2>1, <2>2
<1>10. QED
  BY <1>1, <1>5, <1>9

-----------------------------------------------------------------------------
Exposed == {x \in Node : M[x] = NoNode}

Kept == {x \in Node \ Exposed : engine.reuse /\ InValidTree(x)}

\* What a repaired forest is made of.
Repaired ==
  /\ adj' = adj /\ M' = M
  /\ \A x \in Kept : /\ is_even'[x] = is_even[x] /\ belongs'[x] = belongs[x]
                     /\ path_table'[x] = path_table[x] /\ root_distance'[x] = root_distance[x]
  /\ \A x \in Exposed : /\ is_even'[x] = 1 /\ belongs'[x] = x
                        /\ path_table'[x] = <<>> /\ root_distance'[x] = 0
  /\ \A x \in Node \ (Kept \cup Exposed) :
       /\ is_even'[x] = 0 /\ belongs'[x] = NoNode
       /\ path_table'[x] = <<>> /\ root_distance'[x] = 0
  /\ is_even' \in [Node -> {0, 1}] /\ belongs' \in [Node -> Node \cup {NoNode}]
  /\ path_table' \in [Node -> Seq(Node)] /\ root_distance' \in [Node -> Nat]

\* What the repair kernel leaves: trees that were not touched, and fresh roots.
LEMMA RepairedForest ==
  ASSUME StateTyped, InitAlternatingForest
  PROVE  Repaired
<1>1. /\ is_even \in [Node -> {0, 1}] /\ belongs \in [Node -> Node \cup {NoNode}]
      /\ path_table \in [Node -> Seq(Node)] /\ root_distance \in [Node -> Nat]
  BY DEF StateTyped, ForestTypeOK
<1>2. /\ adj' = adj /\ M' = M
      /\ is_even' = [x \in Node |-> IF x \in Kept THEN is_even[x] ELSE IF x \in Exposed THEN 1 ELSE 0]
      /\ belongs' = [x \in Node |-> IF x \in Kept THEN belongs[x] ELSE IF x \in Exposed THEN x ELSE NoNode]
      /\ path_table' = [x \in Node |-> IF x \in Node \ Kept THEN <<>> ELSE path_table[x]]
      /\ root_distance' = [x \in Node |-> IF x \in Node \ Kept THEN 0 ELSE root_distance[x]]
  BY DEF InitAlternatingForest, Kept, Exposed
<1>3. Kept \subseteq Node /\ Exposed \subseteq Node /\ Kept \cap Exposed = {}
  BY DEF Kept, Exposed
<1>4. <<>> \in Seq(Node)
  OBVIOUS
<1>5. /\ is_even' \in [Node -> {0, 1}] /\ belongs' \in [Node -> Node \cup {NoNode}]
      /\ root_distance' \in [Node -> Nat]
  BY <1>1, <1>2, <1>3
<1>6. path_table' \in [Node -> Seq(Node)]
  BY <1>1, <1>2, <1>3, <1>4
<1>7. \A x \in Kept : /\ is_even'[x] = is_even[x] /\ belongs'[x] = belongs[x]
                      /\ path_table'[x] = path_table[x] /\ root_distance'[x] = root_distance[x]
  BY <1>2, <1>3
<1>8. \A x \in Exposed : /\ is_even'[x] = 1 /\ belongs'[x] = x
                         /\ path_table'[x] = <<>> /\ root_distance'[x] = 0
  BY <1>2, <1>3
<1>9. \A x \in Node \ (Kept \cup Exposed) :
        /\ is_even'[x] = 0 /\ belongs'[x] = NoNode
        /\ path_table'[x] = <<>> /\ root_distance'[x] = 0
  BY <1>2, <1>3
<1>10. QED
  BY <1>2, <1>5, <1>6, <1>7, <1>8, <1>9 DEF Repaired

\* What is kept is closed under mates and under walks.
Closed ==
  /\ \A x \in Node : M[x] # NoNode => /\ M[x] \in Node /\ M[x] # x /\ M[M[x]] = x
                                      /\ IsAdjacent(adj, x, M[x])
                                      /\ x \in Kept <=> M[x] \in Kept
  /\ \A x \in Kept : /\ x \in Node /\ M[x] # NoNode
                     /\ belongs[x] \in Exposed /\ belongs[M[x]] = belongs[x]
  /\ Kept # {} => \A x \in Exposed : IsRoot(x)
  /\ \A x \in Kept : is_even[x] = 1 =>
       /\ EvenWalkLegal(x)
       /\ root_distance[x] = Len(Walk(path_table, x)) - 1
       /\ \A y \in Range(Walk(path_table, x)) :
            y \in Node /\ belongs[y] = belongs[x] /\ (y \in Kept \/ (y \in Exposed /\ y = belongs[x]))

\* The walk of a node that stays in the forest stays as a whole.
LEMMA KeptClosed ==
  ASSUME Sound, phase = "init"
  PROVE  Closed
<1>0. StateTyped /\ ForestTypeOK /\ M \in [Node -> Node \cup {NoNode}]
      /\ belongs \in [Node -> Node \cup {NoNode}]
  BY SoundParts DEF StateTyped, ForestTypeOK
<1>1. running = {} /\ Pending = {}
  BY DEF Sound, TaskletsPlaced, Kernels, Pending, At
<1>2. \A x : ~Unflipped(x)
  BY <1>1 DEF Unflipped
<1>3. \A x \in Node : M[x] # NoNode => /\ M[x] \in Node /\ M[x] # x /\ M[M[x]] = x
                                       /\ IsAdjacent(adj, x, M[x])
  BY <1>0, <1>2 DEF Sound, MatesKept
<1>4. /\ Matched(M) # {} => \A x \in Node : M[x] = NoNode => IsRoot(x)
      /\ \A x \in Node : M[x] # NoNode /\ InValidTree(x) =>
           /\ IsRoot(belongs[x])
           /\ belongs[M[x]] = belongs[x]
           /\ is_even[x] = 1 =>
                /\ EvenWalkLegal(x)
                /\ root_distance[x] = Len(Walk(path_table, x)) - 1
  BY DEF Sound, RepairSound
<1>5. \A x \in Kept : /\ x \in Node /\ M[x] # NoNode /\ InValidTree(x) /\ engine.reuse
                      /\ x \in Matched(M)
  BY DEF Kept, Exposed, Matched
<1>6. \A x \in Kept : belongs[x] \in Exposed /\ belongs[M[x]] = belongs[x]
  BY <1>0, <1>4, <1>5 DEF InValidTree, Exposed
<1>7. \A x \in Kept : M[x] \in Kept
  <2>1. SUFFICES ASSUME NEW x \in Kept PROVE M[x] \in Kept
    OBVIOUS
  <2>2. M[x] \in Node /\ M[M[x]] = x /\ x # NoNode /\ belongs[M[x]] = belongs[x]
    BY <1>3, <1>5, <1>6, NodesAssumption DEF Node, NoNode
  <2>3. InValidTree(M[x])
    BY <1>5, <2>2 DEF InValidTree
  <2>4. QED
    BY <1>5, <2>2, <2>3 DEF Kept, Exposed
<1>8. \A x \in Node : M[x] # NoNode => (x \in Kept <=> M[x] \in Kept)
  BY <1>3, <1>7
<1>9. Kept # {} => \A x \in Exposed : IsRoot(x)
  BY <1>4, <1>5 DEF Exposed
<1>10. ASSUME NEW x \in Kept, is_even[x] = 1, NEW y \in Range(Walk(path_table, x))
       PROVE  y \in Node /\ belongs[y] = belongs[x] /\ (y \in Kept \/ (y \in Exposed /\ y = belongs[x]))
  <2>1. EvenWalkLegal(x) /\ x \in Node
    BY <1>4, <1>5, <1>10
  <2>2. Walk(path_table, x) \in Seq(Node) /\ belongs[y] = belongs[x]
    BY <2>1 DEF EvenWalkLegal
  <2>3. y \in Node
    <3>1. \A s \in Seq(Node) : \A z \in Range(s) : z \in Node
      <4>1. SUFFICES ASSUME NEW s \in Seq(Node), NEW z \in Range(s) PROVE z \in Node
        OBVIOUS
      <4>2. QED
        BY ElementOfSeq, LenProperties DEF Range
    <3>2. QED
      BY <2>2, <3>1
  <2>4. CASE M[y] = NoNode
    <3>1. y \in Exposed
      BY <2>3, <2>4 DEF Exposed
    <3>2. belongs[y] = y
      BY <1>9, <3>1 DEF IsRoot
    <3>3. QED
      BY <2>2, <2>3, <3>1, <3>2
  <2>5. CASE M[y] # NoNode
    <3>1. InValidTree(y)
      BY <1>5, <2>2 DEF InValidTree
    <3>2. QED
      BY <1>5, <2>2, <2>3, <2>5, <3>1 DEF Kept, Exposed
  <2>6. QED
    BY <2>4, <2>5
<1>11. \A x \in Kept : is_even[x] = 1 => /\ EvenWalkLegal(x)
                                         /\ root_distance[x] = Len(Walk(path_table, x)) - 1
  BY <1>4, <1>5
<1>12. QED
  BY <1>3, <1>5, <1>6, <1>8, <1>9, <1>10, <1>11 DEF Closed

\* The walks of a repaired forest: those that were kept, and single nodes.
Rewalked ==
  /\ EvenNodes' = {x \in Kept : is_even[x] = 1} \cup Exposed
  /\ \A x \in Kept : is_even[x] = 1 =>
       x \in EvenNodes /\ Walk(path_table', x) = Walk(path_table, x)
  /\ \A x \in Exposed : Walk(path_table', x) = <<x>>

\* No walk that stays in the forest changes, and no other is left.
LEMMA RepairedWalks ==
  ASSUME ForestTypeOK, Closed, Repaired
  PROVE  Rewalked
<1>0. /\ path_table \in [Node -> Seq(Node)] /\ path_table' \in [Node -> Seq(Node)]
      /\ Kept \subseteq Node /\ Exposed \subseteq Node
      /\ \A x \in Node : x # NoNode
  BY NodesAssumption DEF ForestTypeOK, Repaired, Kept, Exposed, Node, NoNode
<1>1. \A x \in Kept : belongs[x] # NoNode
  BY <1>0 DEF Closed
<1>2. EvenNodes' = {x \in Kept : is_even[x] = 1} \cup Exposed
  <2>1. \A x \in Kept : EvenNode(x)' <=> is_even[x] = 1
    BY <1>1 DEF Repaired, EvenNode
  <2>2. \A x \in Exposed : EvenNode(x)'
    BY <1>0 DEF Repaired, EvenNode
  <2>3. \A x \in Node \ (Kept \cup Exposed) : ~EvenNode(x)'
    BY DEF Repaired, EvenNode
  <2>4. QED
    BY <1>0, <2>1, <2>2, <2>3 DEF EvenNodes
<1>3. ASSUME NEW x \in Kept, is_even[x] = 1
      PROVE  x \in EvenNodes /\ Walk(path_table', x) = Walk(path_table, x)
  <2>1. x \in EvenNodes
    BY <1>0, <1>1, <1>3 DEF EvenNodes, EvenNode
  <2>2. \A y \in Range(Walk(path_table, x)) : path_table'[y] = path_table[y]
    <3>1. SUFFICES ASSUME NEW y \in Range(Walk(path_table, x)) PROVE path_table'[y] = path_table[y]
      OBVIOUS
    <3>2. y \in Kept \/ y \in Exposed
      BY <1>3 DEF Closed
    <3>3. y \in Exposed => path_table[y] = <<>>
      BY <1>3 DEF Closed, IsRoot
    <3>4. QED
      BY <3>2, <3>3 DEF Repaired
  <2>3. QED
    BY <1>0, <2>1, <2>2, WalkFrame
<1>4. \A x \in Exposed : Walk(path_table', x) = <<x>>
  <2>1. SUFFICES ASSUME NEW x \in Exposed PROVE Walk(path_table', x) = <<x>>
    OBVIOUS
  <2>2. x \in Node /\ path_table'[x] = <<>>
    BY <1>0 DEF Repaired
  <2>3. QED
    BY <1>0, <2>2, WalkStays
<1>5. QED
  BY <1>2, <1>3, <1>4 DEF Rewalked

\* A node that is a tree of its own.
LEMMA SingleWalk ==
  ASSUME NEW x \in Node, M[x] = NoNode
  PROVE  <<x>> \in Seq(Node) /\ IsEvenWalk(adj, M, <<x>>) /\ Last(<<x>>) = x /\ Range(<<x>>) = {x}
<1>1. <<x>> \in Seq(Node) /\ Len(<<x>>) = 1 /\ <<x>>[1] = x /\ DOMAIN <<x>> = 1 .. 1
  OBVIOUS
<1>2. Last(<<x>>) = x
  BY <1>1 DEF Last
<1>3. Range(<<x>>) = {x} /\ IsInjective(<<x>>)
  BY <1>1 DEF Range, IsInjective
<1>4. 1 % 2 = 1 /\ 1 .. (1 - 1) = {}
  OBVIOUS
<1>5. IsEvenWalk(adj, M, <<x>>)
  BY <1>1, <1>2, <1>3, <1>4 DEF IsEvenWalk
<1>6. QED
  BY <1>1, <1>2, <1>3, <1>5

\* The repaired forest is in order.
LEMMA RepairedSettled ==
  ASSUME ForestTypeOK, Closed, Repaired, Rewalked, ~found', atomic_locks_tree' = Zeros
  PROVE  Settled'
<1>0. /\ Kept \subseteq Node /\ Exposed \subseteq Node /\ Kept \cap Exposed = {}
      /\ \A x \in Node : x # NoNode
      /\ \A x \in Node : M[x] = NoNode <=> x \in Exposed
  BY NodesAssumption DEF Kept, Exposed, Node, NoNode
<1>1. adj' = adj /\ M' = M
  BY DEF Repaired
<1>2. \A r \in Node : atomic_locks_tree'[r] # 1
  BY DEF Zeros
<1>3. \A x \in Exposed : IsRoot(x)'
  BY DEF Repaired, IsRoot
<1>4. \A x \in Node : M[x] # NoNode =>
        /\ M[x] # x /\ M[M[x]] = x /\ IsAdjacent(adj, x, M[x])
        /\ belongs'[M[x]] = belongs'[x]
  <2>1. SUFFICES ASSUME NEW x \in Node, M[x] # NoNode PROVE belongs'[M[x]] = belongs'[x]
    BY DEF Closed
  <2>2. M[x] \in Node /\ M[M[x]] = x /\ (x \in Kept <=> M[x] \in Kept)
    BY <2>1 DEF Closed
  <2>3. CASE x \in Kept
    <3>1. belongs'[x] = belongs[x] /\ belongs'[M[x]] = belongs[M[x]] /\ belongs[M[x]] = belongs[x]
      BY <2>2, <2>3 DEF Repaired, Closed
    <3>2. QED
      BY <3>1
  <2>4. CASE x \notin Kept
    <3>1. x \in Node \ (Kept \cup Exposed) /\ M[x] \in Node \ (Kept \cup Exposed)
      BY <1>0, <2>1, <2>2, <2>4
    <3>2. QED
      BY <3>1 DEF Repaired
  <2>5. QED
    BY <2>3, <2>4
<1>5. \A x \in Kept : belongs[x] \in Node /\ belongs[x] # NoNode /\ belongs'[x] = belongs[x]
  BY <1>0 DEF Closed, Repaired
<1>6. \A x \in Node : belongs'[x] = NoNode => Unreached(x)'
  <2>1. SUFFICES ASSUME NEW x \in Node, belongs'[x] = NoNode PROVE Unreached(x)'
    OBVIOUS
  <2>2. x \notin Kept
    BY <1>5, <2>1
  <2>3. x \notin Exposed
    BY <1>0, <2>1 DEF Repaired
  <2>4. QED
    BY <2>1, <2>2, <2>3 DEF Repaired, Unreached
<1>7. \A x \in Node : belongs'[x] # NoNode => belongs'[x] \in Exposed
  <2>1. SUFFICES ASSUME NEW x \in Node, belongs'[x] # NoNode PROVE belongs'[x] \in Exposed
    OBVIOUS
  <2>2. CASE x \in Kept
    BY <2>2 DEF Repaired, Closed
  <2>3. CASE x \in Exposed
    BY <2>3 DEF Repaired
  <2>4. CASE x \in Node \ (Kept \cup Exposed)
    BY <2>1, <2>4 DEF Repaired
  <2>5. QED
    BY <2>2, <2>3, <2>4
<1>8. PICK b : b = belongs'
  OBVIOUS
<1>9. \A x \in Node : b[x] # NoNode => IsRoot(b[x])'
  BY <1>3, <1>7, <1>8
<1>10. ASSUME NEW x \in EvenNodes'
       PROVE  EvenWalkLegal(x)'
  <2>1. CASE x \in Exposed
    <3>1. x \in Node /\ M[x] = NoNode /\ Walk(path_table', x) = <<x>> /\ belongs'[x] = x
      BY <1>0, <2>1 DEF Rewalked, Repaired
    <3>2. <<x>> \in Seq(Node) /\ IsEvenWalk(adj, M, <<x>>) /\ Last(<<x>>) = x /\ Range(<<x>>) = {x}
      BY <3>1, SingleWalk
    <3>3. QED
      BY <1>1, <3>1, <3>2 DEF EvenWalkLegal
  <2>2. CASE x \in Kept /\ is_even[x] = 1
    <3>1. PICK p : p = Walk(path_table, x)
      OBVIOUS
    <3>2. /\ p \in Seq(Node) /\ IsEvenWalk(adj, M, p) /\ Last(p) = belongs[x]
          /\ \A y \in Range(p) : y \in Node /\ belongs[y] = belongs[x]
                                 /\ (y \in Kept \/ (y \in Exposed /\ y = belongs[x]))
      BY <2>2, <3>1 DEF Closed, EvenWalkLegal
    <3>3. Walk(path_table', x) = p /\ belongs'[x] = belongs[x]
      BY <2>2, <3>1 DEF Rewalked, Repaired
    <3>4. \A y \in Range(p) : belongs'[y] = belongs'[x]
      BY <3>2, <3>3 DEF Repaired
    <3>5. QED
      BY <1>1, <3>2, <3>3, <3>4 DEF EvenWalkLegal
  <2>3. QED
    BY <1>10, <2>1, <2>2 DEF Rewalked
<1>11. \A x \in Node : IsRoot(x)' => M[x] = NoNode
  <2>1. SUFFICES ASSUME NEW x \in Node, belongs'[x] = x PROVE M[x] = NoNode
    BY DEF IsRoot
  <2>2. x \in Exposed
    BY <1>0, <1>7, <2>1
  <2>3. QED
    BY <1>0, <2>2
<1>12. \A x \in Node : M[x] = NoNode => IsRoot(x)'
  BY <1>0, <1>3
<1>13. /\ \A x \in Node : M'[x] # NoNode =>
            /\ M'[x] # x /\ M'[M'[x]] = x /\ IsAdjacent(adj', x, M'[x])
            /\ belongs'[M'[x]] = belongs'[x]
       /\ \A x \in Node : M'[x] = NoNode => IsRoot(x)'
       /\ \A x \in Node : IsRoot(x)' => M'[x] = NoNode
  BY <1>1, <1>4, <1>11, <1>12
<1>14. \A x \in Node : belongs'[x] # NoNode => IsRoot(belongs[x])'
  BY <1>8, <1>9 DEF IsRoot
<1>15. QED
  BY <1>2, <1>6, <1>10, <1>13, <1>14 DEF Settled

\* Its entries are entries of the old one.
LEMMA RepairedEntries ==
  ASSUME ForestTypeOK, EntriesPlain, Closed, Repaired, Rewalked
  PROVE  EntriesPlain'
<1>0. /\ Kept \subseteq Node /\ Exposed \subseteq Node /\ Kept \cap Exposed = {}
      /\ \A x \in Node : x # NoNode
      /\ path_table \in [Node -> Seq(Node)]
      /\ EvenNodes' = {x \in Kept : is_even[x] = 1} \cup Exposed
  BY NodesAssumption DEF ForestTypeOK, Kept, Exposed, Node, NoNode, Rewalked
<1>1. /\ \A x \in Node : Len(path_table[x]) # 1
      /\ \A x \in EvenNodes : path_table[x] # <<>> => Last(path_table[x]) \in EvenNodes
      /\ \A x \in Node : is_even[x] = 0 => path_table[x] = <<>>
      /\ OddsOnce({}) /\ OddsApart(Walks, {})
  BY DEF EntriesPlain, EntriesLong, LinksEven, OddsBare
<1>2. \A x \in Node : path_table'[x] = <<>> \/ (x \in Kept /\ path_table'[x] = path_table[x])
  BY DEF Repaired
<1>3. EntriesLong(path_table)'
  <2>1. Len(<<>>) = 0
    OBVIOUS
  <2>2. \A x \in Node : Len(path_table'[x]) # 1
    <3>1. SUFFICES ASSUME NEW x \in Node PROVE Len(path_table'[x]) # 1
      OBVIOUS
    <3>2. CASE path_table'[x] = <<>>
      BY <2>1, <3>2
    <3>3. CASE path_table'[x] = path_table[x]
      BY <1>1, <3>3
    <3>4. QED
      BY <1>2, <3>2, <3>3
  <2>3. QED
    BY <2>2 DEF EntriesLong
<1>4. \A x \in EvenNodes' : path_table'[x] # <<>> =>
        x \in Kept /\ is_even[x] = 1 /\ path_table'[x] = path_table[x] /\ x \in EvenNodes
  BY <1>0, <1>2 DEF Repaired, Rewalked
<1>5. LinksEven'
  <2>1. SUFFICES ASSUME NEW x \in EvenNodes', path_table'[x] # <<>>
                 PROVE  Last(path_table'[x]) \in EvenNodes'
    BY DEF LinksEven
  <2>2. x \in Kept /\ is_even[x] = 1 /\ path_table'[x] = path_table[x] /\ x \in EvenNodes /\ x \in Node
    BY <1>0, <1>4, <2>1
  <2>3. PICK l : l = Last(path_table[x])
    OBVIOUS
  <2>4. l \in EvenNodes
    BY <1>1, <2>1, <2>2, <2>3
  <2>5. l \in Range(path_table[x])
    <3>1. path_table[x] \in Seq(Node) /\ path_table[x] # <<>>
      BY <1>0, <2>1, <2>2
    <3>2. PICK p \in Seq(Node) : p = path_table[x]
      BY <3>1
    <3>3. Len(p) \in Nat /\ Len(p) # 0 /\ DOMAIN p = 1 .. Len(p)
      BY <3>1, <3>2, EmptySeq, LenProperties
    <3>4. Len(p) \in DOMAIN p
      BY <3>3
    <3>5. QED
      BY <2>3, <3>2, <3>4 DEF Last, Range
  <2>6. l \in Range(Walk(path_table, x))
    BY <1>0, <2>2, <2>5, EntryOnWalk
  <2>7. l \in Kept \/ l \in Exposed
    BY <2>2, <2>6 DEF Closed
  <2>8. is_even[l] = 1
    BY <2>4 DEF EvenNodes, EvenNode
  <2>9. QED
    BY <1>0, <2>2, <2>3, <2>7, <2>8
<1>6. OddsBare'
  BY <1>0, <1>1, <1>2 DEF OddsBare, Repaired
<1>7. \A o \in StillOdd({})' : o \in Kept /\ o \in StillOdd({})
  <2>1. SUFFICES ASSUME NEW o \in Node, is_even'[o] = 0, belongs'[o] # NoNode
                 PROVE  o \in Kept /\ is_even[o] = 0 /\ belongs[o] # NoNode
    BY DEF StillOdd, OddNode
  <2>2. o \in Kept
    BY <2>1 DEF Repaired
  <2>3. QED
    BY <2>1, <2>2 DEF Repaired
<1>8. OddsOnce({})'
  <2>1. ASSUME NEW o \in StillOdd({})', NEW x \in EvenNodes', NEW y \in EvenNodes',
               o \in Range(path_table'[x])
        PROVE  path_table'[x][1] = o /\ (o \in Range(path_table'[y]) => x = y)
    <3>1. Range(<<>>) = {}
      BY DEF Range
    <3>2. x \in EvenNodes /\ path_table'[x] = path_table[x]
      BY <1>4, <2>1, <3>1
    <3>3. o \in Range(path_table'[y]) => y \in EvenNodes /\ path_table'[y] = path_table[y]
      BY <1>4, <2>1, <3>1
    <3>4. QED
      BY <1>1, <1>7, <2>1, <3>2, <3>3 DEF OddsOnce
  <2>2. QED
    BY <2>1 DEF OddsOnce
<1>9. OddsApart(Walks, {})'
  <2>1. ASSUME NEW o \in StillOdd({})', NEW p \in Walks'
        PROVE  p \in Walks
    <3>1. PICK x \in EvenNodes' : p = Walk(path_table', x)
      BY <2>1 DEF Walks
    <3>2. CASE x \in Kept /\ is_even[x] = 1
      BY <3>1, <3>2 DEF Rewalked, Walks
    <3>3. CASE x \in Exposed
      <4>1. IsRoot(x)
        BY <1>7, <2>1, <3>3 DEF Closed
      <4>2. x \in Node /\ path_table[x] = <<>> /\ x \in EvenNodes
        BY <1>0, <3>3, <4>1 DEF IsRoot, EvenNodes, EvenNode
      <4>3. Walk(path_table, x) = <<x>>
        BY <1>0, <4>2, WalkStays
      <4>4. p = <<x>>
        BY <3>1, <3>3 DEF Rewalked
      <4>5. QED
        BY <4>2, <4>3, <4>4 DEF Walks
    <3>4. QED
      BY <1>0, <3>1, <3>2, <3>3
  <2>2. \A o \in StillOdd({})' : \A p, q \in Walks' : Apart(p, q, o)
    BY <1>1, <1>7, <2>1 DEF OddsApart
  <2>3. QED
    BY <2>2 DEF OddsApart
<1>10. QED
  BY <1>3, <1>5, <1>6, <1>8, <1>9 DEF EntriesPlain

\* What is done to the windows leaves the slots alone but for what it fills in.
LEMMA SlotsOf ==
  ASSUME NEW q, IsQueue(q), NEW s, NEW n
  PROVE  /\ PrepareForAppendingENode1(q).slots = q.slots
         /\ PrepareForAppendingENode2(q).slots = q.slots
         /\ Filled1(q, s, n).slots = s
         /\ Filled2(q, s, n).slots = s
<1>1. DOMAIN q = {"slots", "b1", "e1", "b2", "e2"}
  BY DEF IsQueue
<1>2. PrepareForAppendingENode1(q).slots = q.slots /\ PrepareForAppendingENode2(q).slots = q.slots
  BY <1>1 DEF PrepareForAppendingENode1, PrepareForAppendingENode2
<1>3. PICK p : p = [q EXCEPT !.slots = s]
  OBVIOUS
<1>4. p.slots = s /\ DOMAIN p = {"slots", "b1", "e1", "b2", "e2"}
  BY <1>1, <1>3
<1>5. Filled1(q, s, n) = [p EXCEPT !.e1 = n] /\ Filled2(q, s, n) = [p EXCEPT !.e2 = n]
  BY <1>3, Zenon DEF Filled1, Filled2
<1>6. [p EXCEPT !.e1 = n].slots = p.slots /\ [p EXCEPT !.e2 = n].slots = p.slots
  BY <1>4
<1>7. QED
  BY <1>2, <1>4, <1>5, <1>6

\* The windows of a new search: the exposed nodes, then the even nodes kept.
LEMMA RepairedQueue ==
  ASSUME StateTyped, InitAlternatingForest
  PROVE  /\ QueueTyped(queue')
         /\ queue'.b1 <= queue'.e1 /\ queue'.b2 <= queue'.e2 /\ queue'.b2 = queue'.e1
         /\ queue'.b1 = 0 /\ \A i \in 0 .. (queue'.b2 - 1) : queue'.slots[i] \in Exposed
         /\ IsInjective(Slots')
         /\ Range(Slots') = Exposed \cup {x \in Kept : is_even[x] = 1}
<1> DEFINE c == Clear(nodes)
           w0 == PrepareForAppendingENode1(c)
           w1 == AppendENodes1(w0, Exposed)
           w2 == PrepareForAppendingENode2(w1)
           kept == {x \in Kept : is_even[x] = 1}
           n1 == Cardinality(Exposed)
           n2 == Cardinality(kept)
<1>1. queue' = AppendENodes2(w2, kept)
  BY DEF InitAlternatingForest, Exposed, Kept
<1>2. /\ Exposed \in SUBSET Node /\ kept \in SUBSET Node /\ Exposed \cap kept = {}
      /\ Exposed \cup kept \in SUBSET Node
  BY DEF Exposed, Kept
<1>3. n1 \in Nat /\ n2 \in Nat /\ IsFiniteSet(Exposed) /\ IsFiniteSet(kept)
  BY <1>2, Ranked
<1>4. n1 + n2 <= nodes
  <2>1. IsFiniteSet(Node) /\ Cardinality(Node) = nodes
    BY NodesAssumption, FS_Interval DEF Node
  <2>2. Cardinality(Exposed \cup kept) <= Cardinality(Node)
    BY <1>2, <2>1, FS_Subset
  <2>3. Cardinality(Exposed \cap kept) = 0
    BY <1>2, FS_EmptySet
  <2>4. Cardinality(Exposed \cup kept) = n1 + n2 - Cardinality(Exposed \cap kept)
    BY <1>3, FS_Union
  <2>5. QED
    BY <1>3, <2>1, <2>2, <2>3, <2>4
<1>5. PICK s0, s1, s2 : /\ s0 = [i \in Node |-> 0] /\ s1 = Filled(s0, 0, Exposed)
                        /\ s2 = Filled(s1, n1, kept)
  OBVIOUS
<1>6. /\ IsQueue(c) /\ c.b1 = 0 /\ c.e1 = 0 /\ c.b2 = 0 /\ c.e2 = 0 /\ c.slots = s0
  BY <1>5, Cleared DEF Clear, Node
<1> HIDE DEF c
<1>7. /\ IsQueue(w0) /\ w0.b1 = 0 /\ w0.e1 = 0 /\ w0.b2 = 0 /\ w0.e2 = 0 /\ w0.slots = s0
  BY <1>6, Moved1, SlotsOf
<1> HIDE DEF w0
<1>8. /\ IsQueue(w1) /\ w1.b1 = 0 /\ w1.e1 = n1 /\ w1.b2 = 0 /\ w1.e2 = 0 /\ w1.slots = s1
  <2>1. PICK n : n = w0.e1 + n1
    OBVIOUS
  <2>2. w1 = Filled1(w0, Filled(w0.slots, w0.e1, Exposed), n)
    BY <2>1, Zenon DEF AppendENodes1, Filled1
  <2>3. n = n1 /\ n \in Nat
    BY <1>3, <1>7, <2>1
  <2>4. w1 = Filled1(w0, s1, n)
    BY <1>5, <1>7, <2>2
  <2>5. QED
    BY <1>7, <2>3, <2>4, Filling, SlotsOf
<1> HIDE DEF w1
<1>9. /\ IsQueue(w2) /\ w2.b1 = 0 /\ w2.e1 = n1 /\ w2.b2 = n1 /\ w2.e2 = n1 /\ w2.slots = s1
  BY <1>8, Moved2, SlotsOf
<1> HIDE DEF w2
<1>10. /\ IsQueue(queue') /\ queue'.b1 = 0 /\ queue'.e1 = n1 /\ queue'.b2 = n1
       /\ queue'.e2 = n1 + n2 /\ queue'.slots = s2
  <2>1. PICK n : n = w2.e2 + n2
    OBVIOUS
  <2>2. queue' = Filled2(w2, Filled(w2.slots, w2.e2, kept), n)
    BY <1>1, <2>1, Zenon DEF AppendENodes2, Filled2
  <2>3. n = n1 + n2 /\ n \in Nat
    BY <1>3, <1>9, <2>1
  <2>4. queue' = Filled2(w2, s2, n)
    BY <1>5, <1>9, <2>2
  <2>5. QED
    BY <1>9, <2>3, <2>4, Filling, SlotsOf
<1>11. s0 \in [Node -> Node]
  <2>1. \A i \in Node : 0 \in Node
    BY NodesAssumption DEF Node
  <2>2. QED
    BY <1>5, <2>1
<1>12. Fill(s1, s0, 0, Exposed)
  BY <1>2, <1>5, <1>11, FilledFacts
<1>13. Fill(s2, s1, n1, kept)
  <2>1. s1 \in [Node -> Node]
    BY <1>12 DEF Fill
  <2>2. QED
    BY <1>2, <1>3, <1>5, <2>1, FilledFacts
<1> HIDE DEF kept, n1, n2
<1>14. QueueTyped(queue')
  <2>1. s2 \in [Node -> Node]
    BY <1>13 DEF Fill
  <2>2. 0 \in 0..nodes /\ n1 \in 0..nodes /\ n1 + n2 \in 0..nodes
    BY <1>3, <1>4, NodesAssumption
  <2>3. queue' \in [slots : {queue'.slots}, b1 : Nat, e1 : Nat, b2 : Nat, e2 : Nat]
    BY <1>10 DEF IsQueue
  <2>4. QED
    BY <1>10, <2>1, <2>2, <2>3 DEF QueueTyped
<1>15. /\ queue'.b1 <= queue'.e1 /\ queue'.b2 <= queue'.e2 /\ queue'.b2 = queue'.e1
       /\ End(queue') = n1 + n2 /\ queue'.slots = s2
  BY <1>3, <1>10 DEF End
<1>16. Slots' = [i \in 1 .. (n1 + n2) |-> s2[i - 1]]
  BY <1>15 DEF Slots
<1>17. ASSUME NEW i \in 1 .. (n1 + n2)
       PROVE  /\ i - 1 \in Node
              /\ i - 1 < n1 => s2[i - 1] = s1[i - 1] /\ s1[i - 1] \in Exposed
              /\ i - 1 >= n1 => s2[i - 1] \in kept
  <2>1. i - 1 \in Node /\ i - 1 \in Nat /\ i - 1 < n1 + n2
    BY <1>3, <1>4, NodesAssumption DEF Node
  <2>2. i - 1 < n1 => s2[i - 1] = s1[i - 1]
    BY <1>13, <2>1 DEF Fill, n2
  <2>3. i - 1 < n1 => s1[i - 1] \in Exposed
    <3>1. 0 <= i - 1 /\ 0 + n1 = n1
      BY <1>3, <2>1
    <3>2. QED
      BY <1>12, <2>1, <3>1 DEF Fill, n1
  <2>4. i - 1 >= n1 => s2[i - 1] \in kept
    BY <1>13, <1>3, <2>1 DEF Fill, n2
  <2>5. QED
    BY <2>1, <2>2, <2>3, <2>4
<1>18. Range(Slots') \subseteq Exposed \cup kept
  <2>1. SUFFICES ASSUME NEW i \in 1 .. (n1 + n2) PROVE s2[i - 1] \in Exposed \cup kept
    BY <1>16 DEF Range
  <2>2. i - 1 < n1 \/ i - 1 >= n1
    BY <1>3
  <2>3. QED
    BY <1>17, <2>2
<1>19. IsInjective(Slots')
  <2>1. SUFFICES ASSUME NEW i \in 1 .. (n1 + n2), NEW j \in 1 .. (n1 + n2), s2[i - 1] = s2[j - 1]
                 PROVE  i = j
    BY <1>16 DEF IsInjective
  <2>2. i - 1 \in Node /\ j - 1 \in Node
    BY <1>17
  <2>3. CASE i - 1 < n1 /\ j - 1 < n1
    <3>1. s1[i - 1] = s1[j - 1]
      BY <1>17, <2>1, <2>3
    <3>2. 0 <= i - 1 /\ 0 <= j - 1 /\ 0 + n1 = n1
      BY <1>3
    <3>3. i - 1 = j - 1
      BY <1>12, <2>2, <2>3, <3>1, <3>2 DEF Fill, n1
    <3>4. QED
      BY <3>3
  <2>4. CASE i - 1 >= n1 /\ j - 1 >= n1
    <3>1. n1 <= i - 1 /\ n1 <= j - 1 /\ i - 1 < n1 + n2 /\ j - 1 < n1 + n2
      BY <1>3, <2>4
    <3>2. i - 1 = j - 1
      BY <1>13, <2>1, <2>2, <3>1 DEF Fill, n2
    <3>3. QED
      BY <3>2
  <2>5. CASE (i - 1 < n1 /\ j - 1 >= n1) \/ (i - 1 >= n1 /\ j - 1 < n1)
    BY <1>2, <1>17, <2>1, <2>5
  <2>6. (i - 1 < n1 \/ i - 1 >= n1) /\ (j - 1 < n1 \/ j - 1 >= n1)
    BY <1>3
  <2>7. QED
    BY <2>3, <2>4, <2>5, <2>6
<1>20. Exposed \cup kept \subseteq Range(Slots')
  <2>1. \A i \in Node : i \in Nat
    BY NodesAssumption DEF Node
  <2>2. ASSUME NEW i \in Node, i < n1 + n2
        PROVE  s2[i] \in Range(Slots')
    <3>1. i + 1 \in 1 .. (n1 + n2) /\ (i + 1) - 1 = i
      BY <1>3, <2>1, <2>2
    <3>2. Slots'[i + 1] = s2[i] /\ i + 1 \in DOMAIN Slots'
      BY <1>16, <3>1
    <3>3. QED
      BY <3>2 DEF Range
  <2>3. \A x \in Exposed : x \in Range(Slots')
    <3>1. TAKE x \in Exposed
    <3>2. 0 + n1 <= nodes /\ 0 + n1 = n1
      BY <1>3, <1>4, NodesAssumption
    <3>3. PICK i \in Node : i < n1 /\ s1[i] = x
      BY <1>12, <3>2 DEF Fill, n1
    <3>4. i < n1 + n2 /\ s2[i] = x
      BY <1>3, <1>13, <2>1, <3>3 DEF Fill
    <3>5. QED
      BY <2>2, <3>4
  <2>4. \A x \in kept : x \in Range(Slots')
    <3>1. TAKE x \in kept
    <3>2. PICK i \in Node : i < n1 + n2 /\ s2[i] = x
      BY <1>4, <1>13 DEF Fill, n2
    <3>3. QED
      BY <2>2, <3>2
  <2>5. QED
    BY <2>3, <2>4
<1>21. queue'.b1 = 0 /\ \A i \in 0 .. (queue'.b2 - 1) : queue'.slots[i] \in Exposed
  <2>1. queue'.b1 = 0 /\ queue'.b2 = n1 /\ queue'.slots = s2
    BY <1>10
  <2>2. ASSUME NEW i \in 0 .. (n1 - 1)
        PROVE  s2[i] \in Exposed
    <3>1. i + 1 \in 1 .. (n1 + n2) /\ (i + 1) - 1 = i /\ i < n1
      BY <1>3, <2>2
    <3>2. QED
      BY <1>17, <3>1
  <2>3. QED
    BY <2>1, <2>2
<1>22. QED
  BY <1>14, <1>15, <1>18, <1>19, <1>20, <1>21 DEF kept

\* The repair keeps Sound.
LEMMA RepairedSound ==
  ASSUME Sound, InitAlternatingForest
  PROVE  Sound'
<1>0. /\ phase = "init" /\ phase' = "loop" /\ found' = FALSE
      /\ atomic_locks_tree' = Zeros /\ atomic_locks_match' = Zeros /\ atomic_locks_odd_nodes' = Zeros
      /\ edge_prefix_cache' = InvalidateEdgePrefixCache(edge_prefix_cache)
      /\ UNCHANGED <<adj, M, engine, exhausted, kernelVars>>
  BY DEF InitAlternatingForest
<1>1. /\ StateTyped /\ QueueTyped(queue) /\ CacheTyped(edge_prefix_cache)
      /\ adj \in [Node -> Seq(Node)] /\ exhausted \in BOOLEAN
  BY SoundParts
<1>2. ForestTypeOK
  BY <1>1 DEF StateTyped
<1>3. Closed
  BY <1>0, KeptClosed
<1>4. Repaired
  BY <1>1, RepairedForest
<1>5. Rewalked
  BY <1>2, <1>3, <1>4, RepairedWalks
<1>6. Settled'
  BY <1>0, <1>2, <1>3, <1>4, <1>5, RepairedSettled
<1>7. EntriesSound'
  <2>1. EntriesPlain
    BY <1>0, PlainEntries DEF Sound
  <2>2. EntriesPlain'
    BY <1>2, <1>3, <1>4, <1>5, <2>1, RepairedEntries
  <2>3. QED
    BY <1>0, <2>2, PlainThen
<1>8. todo = {} /\ running = {} /\ todo' = {} /\ running' = {}
  BY <1>0 DEF Sound, TaskletsPlaced, Kernels, kernelVars
<1>9. TaskletsTyped' /\ TaskletsPlaced' /\ WorkSound'
  BY <1>0, <1>8, NothingRuns DEF Kernels
<1>10. /\ QueueTyped(queue')
       /\ queue'.b1 <= queue'.e1 /\ queue'.b2 <= queue'.e2 /\ queue'.b2 = queue'.e1
       /\ IsInjective(Slots')
       /\ Range(Slots') \subseteq Exposed \cup {x \in Kept : is_even[x] = 1}
  BY <1>1, RepairedQueue
<1>11. QueueSound'
  <2>1. \A x \in Range(Slots') : EvenNode(x)'
    <3>1. Range(Slots') \subseteq EvenNodes'
      BY <1>5, <1>10 DEF Rewalked
    <3>2. QED
      BY <3>1 DEF EvenNodes
  <2>2. QED
    BY <1>0, <1>10, <2>1 DEF QueueSound
<1>12. CacheTyped(edge_prefix_cache)' /\ CacheSound'
  <2>1. ~edge_prefix_cache'.valid /\ CacheTyped(edge_prefix_cache)'
    BY <1>0, <1>1 DEF CacheTyped, InvalidateEdgePrefixCache
  <2>2. QED
    BY <1>0, <2>1 DEF CacheSound
<1>13. StateTyped'
  <2>1. ForestTypeOK'
    BY <1>2, <1>4 DEF Repaired, ForestTypeOK
  <2>2. Zeros \in [Node -> {0, 1}]
    BY DEF Zeros
  <2>3. root_distance' \in [Node -> Nat]
    BY <1>4 DEF Repaired
  <2>4. engine' \in Engines /\ exhausted' \in BOOLEAN /\ found' \in BOOLEAN
    BY <1>0, <1>1 DEF StateTyped
  <2>5. QED
    BY <1>0, <1>10, <1>12, <2>1, <2>2, <2>3, <2>4 DEF StateTyped, QueueTyped, CacheTyped
<1>14. TypeOK'
  <2>1. StateTyped' /\ TaskletsTyped' <=> TypeOK'
    BY DEF TypeOK, StateTyped, TaskletsTyped, Works
  <2>2. QED
    BY <1>9, <1>13, <2>1
<1>15. IsUndirected(adj)'
  BY <1>0 DEF Sound, IsUndirected, IsAdjacent
<1>16. MatesKept' /\ FlipsSound' /\ TreesSound' /\ RepairSound' /\ LocksSound'
  <2>1. \A x \in Node : M'[x] \in Node \cup {NoNode}
    BY <1>13 DEF StateTyped, ForestTypeOK
  <2>2. At("flip")' = {} /\ Holders' = {}
    BY <1>8 DEF At, Holders
  <2>3. QED
    BY <1>0, <1>6, <2>1, <2>2, SettledSound
<1>17. PairsSound'
  <2>1. At("grow")' = {} /\ At("claim")' = {}
    BY <1>8 DEF At
  <2>2. ASSUME NEW x \in Node, belongs'[x] = NoNode
        PROVE  Slot(x)' \in Node
    <3>1. M'[x] # NoNode
      BY <1>6, <2>2, NodesAssumption DEF Settled, IsRoot, Node, NoNode
    <3>2. M'[x] \in Node
      BY <1>13, <3>1 DEF StateTyped, ForestTypeOK
    <3>3. QED
      BY <3>2 DEF Slot
  <2>3. \A x \in Node : belongs'[x] = NoNode => atomic_locks_match'[Slot(x)'] = 0
    BY <1>0, <2>2 DEF Zeros
  <2>4. QED
    BY <1>0, <2>1, <2>3 DEF PairsSound
<1>18. OddsSound'
  <2>1. At("fill")' = {} /\ At("claim")' = {} /\ \A x \in Node : atomic_locks_odd_nodes'[x] # 1
    BY <1>0, <1>8 DEF At, Zeros
  <2>2. QED
    BY <1>0, <2>1 DEF OddsSound
<1>19. DistancesExact'
  <2>1. ASSUME NEW x \in Node, is_even'[x] = 1, belongs'[x] # NoNode
        PROVE  root_distance'[x] = Len(Walk(path_table', x)) - 1
    <3>1. x \in EvenNodes'
      BY <2>1 DEF EvenNodes, EvenNode
    <3>2. CASE x \in Exposed
      <4>1. Walk(path_table', x) = <<x>> /\ root_distance'[x] = 0
        BY <1>4, <1>5, <3>2 DEF Rewalked, Repaired
      <4>2. Len(<<x>>) = 1 /\ 0 = 1 - 1
        OBVIOUS
      <4>3. QED
        BY <4>1, <4>2
    <3>3. CASE x \in Kept /\ is_even[x] = 1
      BY <1>3, <1>4, <1>5, <3>3 DEF Closed, Repaired, Rewalked
    <3>4. QED
      BY <1>5, <3>1, <3>2, <3>3 DEF Rewalked
  <2>2. QED
    BY <2>1 DEF DistancesExact
<1>20. QED
  BY <1>7, <1>9, <1>11, <1>12, <1>14, <1>15, <1>16, <1>17, <1>18, <1>19 DEF Sound

-----------------------------------------------------------------------------
\* Every step of the host keeps Sound.
LEMMA HostSound ==
  ASSUME Sound, Host
  PROVE  Sound'
<1>1. CASE InitAlternatingForest  BY <1>1, RepairedSound
<1>2. CASE Loop  BY <1>2, LoopSound
<1>3. CASE EndAugment  BY <1>3, EndAugmentAllSound
<1>4. CASE EndExpand  BY <1>4, EndExpandSound
<1>5. CASE EndTransform  BY <1>5, EndTransformSound
<1>6. QED
  BY <1>1, <1>2, <1>3, <1>4, <1>5 DEF Host

\* A step that changes nothing.
LEMMA StillSound ==
  ASSUME Sound, UNCHANGED vars
  PROVE  Sound'
<1>0. /\ UNCHANGED forestVars /\ adj' = adj /\ M' = M /\ is_even' = is_even /\ belongs' = belongs
      /\ path_table' = path_table /\ root_distance' = root_distance /\ queue' = queue
      /\ atomic_locks_tree' = atomic_locks_tree /\ atomic_locks_match' = atomic_locks_match
      /\ atomic_locks_odd_nodes' = atomic_locks_odd_nodes /\ found' = found
      /\ engine' = engine /\ exhausted' = exhausted /\ phase' = phase
      /\ edge_prefix_cache' = edge_prefix_cache /\ todo' = todo /\ running' = running
  BY DEF vars, forestVars, lockVars, hostVars, kernelVars
<1>1. /\ \A place : At(place)' = At(place)
      /\ Holders' = Holders /\ Pending' = Pending /\ Works' = Works
      /\ \A t : Edge(t)' = Edge(t)
      /\ \A e : First(e)' = First(e) /\ Second(e)' = Second(e) /\ Pair(e)' = Pair(e)
      /\ \A x : Slot(x)' = Slot(x) /\ Unflipped(x)' = Unflipped(x) /\ Taken(x)' = Taken(x)
  BY <1>0 DEF At, Holders, Pending, Works, Edge, First, Second, Pair, Slot, Unflipped, Taken
<1>2. \A x : Whole(x)' = Whole(x)
  BY <1>0, <1>1 DEF Whole, Taken
<1>3. /\ \A x : /\ EvenNode(x)' = EvenNode(x) /\ IsRoot(x)' = IsRoot(x)
                /\ Unreached(x)' = Unreached(x) /\ EvenWalkLegal(x)' = EvenWalkLegal(x)
      /\ EvenNodes' = EvenNodes /\ Walks' = Walks
  BY <1>0, ForestKept
<1>4. TypeOK' /\ IsUndirected(adj)' /\ TaskletsPlaced' /\ WorkSound'
  <2>1. TypeOK' /\ IsUndirected(adj)' /\ TaskletsPlaced'
    <3>1. StateTyped /\ TaskletsTyped
      BY TypeParts DEF Sound
    <3>2. StateTyped'
      BY <1>0, <3>1 DEF StateTyped, ForestTypeOK
    <3>3. TaskletsTyped'
      BY <1>0, <1>1, <3>1 DEF TaskletsTyped
    <3>4. StateTyped' /\ TaskletsTyped' <=> TypeOK'
      BY DEF TypeOK, StateTyped, TaskletsTyped, Works
    <3>5. IsUndirected(adj)' /\ TaskletsPlaced'
      BY <1>0 DEF Sound, IsUndirected, IsAdjacent, TaskletsPlaced
    <3>6. QED
      BY <3>2, <3>3, <3>4, <3>5
  <2>2. WorkSound'
    BY <1>0, <1>1, <1>3 DEF Sound, WorkSound
  <2>3. QED
    BY <2>1, <2>2
<1>5. MatesKept' /\ FlipsSound'
  <2>1. MatesKept'
    BY <1>0 DEF Sound, MatesKept, Unflipped, Pending, At
  <2>2. FlipsSound'
    BY <1>0, <1>1 DEF Sound, FlipsSound
  <2>3. QED
    BY <2>1, <2>2
<1>6. TreesSound'
  <2>1. \A x \in Node : IsRoot(belongs[x])' = IsRoot(belongs[x])
    BY <1>0 DEF IsRoot
  <2>2. QED
    BY <1>0, <1>2, <1>3, <2>1 DEF Sound, TreesSound
<1>7. RepairSound'
  <2>1. \A x \in Node : IsRoot(belongs[x])' = IsRoot(belongs[x]) /\ InValidTree(x)' = InValidTree(x)
    BY <1>0 DEF IsRoot, InValidTree
  <2>2. QED
    BY <1>0, <1>3, <2>1 DEF Sound, RepairSound
<1>8. LocksSound' /\ PairsSound' /\ OddsSound'
  <2>1. LocksSound'
    BY <1>0, <1>1, <1>3 DEF Sound, LocksSound
  <2>2. PairsSound'
    BY SMTT(30), <1>0, <1>1 DEF Sound, PairsSound, Slot, Pair, Edge
  <2>3. OddsSound'
    BY <1>0, <1>1 DEF Sound, OddsSound
  <2>4. QED
    BY <2>1, <2>2, <2>3
<1>9. EntriesSound'
  <2>1. Turning' = Turning /\ Turns' = Turns
    BY <1>0, <1>1 DEF Turning, Turns
  <2>2. PICK T, U : T = Turning /\ U = Turns
    OBVIOUS
  <2>3. OddsOnce(T)' /\ \A walks : OddsApart(walks, T) => OddsApart(walks, T)'
    BY <1>0, <2>2, ForestKept DEF Sound, EntriesSound
  <2>4. {WalkOf(work)' : work \in U} = {WalkOf(work) : work \in U}
    BY <1>0, ForestKept
  <2>5. \A work \in U : TurnLegal(work)' /\ \A x \in Range(work) : is_even'[x] = 1 \/ x \in T
    BY <1>0, <2>2, ForestKept DEF Sound, EntriesSound
  <2>6. EntriesLong(path_table)' /\ LinksEven' /\ OddsBare'
    BY <1>0, ForestKept DEF Sound, EntriesSound, EntriesLong
  <2>7. PICK W : W = Walks \cup {WalkOf(work) : work \in U}
    OBVIOUS
  <2>8. OddsApart(W, T)'
    BY <2>2, <2>3, <2>7 DEF Sound, EntriesSound
  <2>9. (Walks \cup {WalkOf(work) : work \in U})' = W'
    BY <1>3, <2>4, <2>7
  <2>10. QED
    BY <2>1, <2>2, <2>3, <2>5, <2>6, <2>8, <2>9 DEF EntriesSound, OddsApart, OddsOnce
<1>10. DistancesExact' /\ QueueSound' /\ CacheSound'
  <2>1. DistancesExact'
    BY <1>0 DEF Sound, DistancesExact
  <2>2. QueueSound'
    BY <1>0, <1>3 DEF Sound, QueueSound, Slots, End
  <2>3. CacheSound'
    BY <1>0 DEF Sound, CacheSound, ExclusiveScan, Rows, Slice, End
  <2>4. QED
    BY <2>1, <2>2, <2>3
<1>11. QED
  BY <1>4, <1>5, <1>6, <1>7, <1>8, <1>9, <1>10 DEF Sound

-----------------------------------------------------------------------------
\* A new engine has no forest, or the one of nodes that are their own trees.
Fresh ==
  /\ phase = "init" /\ todo = {} /\ running = {}
  /\ path_table = [v \in Node |-> <<>>]
  /\ is_even = [v \in Node |-> IF found THEN 1 ELSE 0]
  /\ belongs = [v \in Node |-> IF found THEN v ELSE 0]
  /\ found = (Matched(M) # {})
  /\ IsUndirected(adj) /\ M \in [Node -> Node \cup {NoNode}] /\ IsMatching(adj, M)
  /\ \A v \in Node : M[v] # v

\* No walk of a new engine is longer than a node.
LEMMA FreshEntries ==
  ASSUME Fresh
  PROVE  /\ ForestTypeOK /\ EntriesSound
         /\ \A x \in EvenNodes : Walk(path_table, x) = <<x>>
<1>1. ForestTypeOK
  <2>1. \A v \in Node : 0 \in Node
    BY NodesAssumption DEF Node
  <2>2. <<>> \in Seq(Node)
    OBVIOUS
  <2>3. path_table \in [Node -> Seq(Node)]
    BY <2>2 DEF Fresh
  <2>4. belongs \in [Node -> Node \cup {NoNode}] /\ is_even \in [Node -> {0, 1}]
    BY <2>1 DEF Fresh
  <2>5. QED
    BY <2>3, <2>4 DEF Fresh, ForestTypeOK, IsUndirected
<1>2. \A x \in Node : path_table[x] = <<>> /\ Len(path_table[x]) = 0
  BY DEF Fresh
<1>3. \A x \in EvenNodes : x \in Node /\ Walk(path_table, x) = <<x>>
  <2> SUFFICES ASSUME NEW x \in EvenNodes
               PROVE  x \in Node /\ Walk(path_table, x) = <<x>>
    OBVIOUS
  <2>1. x \in Node /\ path_table \in [Node -> Seq(Node)] /\ path_table[x] = <<>>
    BY <1>1, <1>2 DEF EvenNodes, ForestTypeOK
  <2>2. QED
    BY <2>1, WalkStays
<1>4. Works = {} /\ Turning = {} /\ Turns = {}
  BY DEF Fresh, Works, Turning, Turns
<1>5. /\ EntriesLong(path_table) /\ LinksEven /\ OddsBare
  BY <1>2 DEF EntriesLong, LinksEven, OddsBare, EvenNodes
<1>6. OddsOnce({})
  BY <1>2 DEF OddsOnce, EvenNodes, Range, EntriesLong
<1>7. OddsApart(Walks \cup {WalkOf(work) : work \in Turns}, {})
  <2>1. \A o \in StillOdd({}) : EvenNodes = {}
    BY DEF StillOdd, OddNode, EvenNodes, EvenNode, Fresh
  <2>2. \A o \in StillOdd({}) : Walks = {}
    BY <2>1 DEF Walks
  <2>3. Walks \cup {WalkOf(work) : work \in Turns} = Walks
    BY <1>4
  <2>4. QED
    BY <2>2, <2>3 DEF OddsApart
<1>8. EntriesSound
  BY <1>4, <1>5, <1>6, <1>7 DEF EntriesSound
<1>9. QED
  BY <1>1, <1>3, <1>8

\* An empty queue has its type.
LEMMA ClearTyped == QueueTyped(Clear(nodes))
<1>1. /\ Clear(nodes).b1 = 0 /\ Clear(nodes).e1 = 0
      /\ Clear(nodes).b2 = 0 /\ Clear(nodes).e2 = 0
  BY Cleared
<1>2. [i \in 0 .. (nodes - 1) |-> 0] \in [Node -> Node]
  <2>1. \A i \in Node : 0 \in Node
    BY NodesAssumption DEF Node
  <2>2. QED
    BY <2>1 DEF Node
<1>3. 0 \in 0 .. nodes
  BY NodesAssumption
<1>4. QED
  BY <1>2, <1>3 DEF Clear, QueueTyped

\* A new engine has an empty forest, an empty queue and no tasklets.
LEMMA InitFresh ==
  ASSUME Init
  PROVE  Fresh
<1>1. PICK s \in Starts : adj = s.adj /\ M = s.M
  BY DEF Init
<1>2. /\ IsUndirected(adj) /\ M \in [Node -> Node \cup {NoNode}] /\ IsMatching(adj, M)
      /\ \A v \in Node : M[v] # v
  BY <1>1, StartsAssumption
<1>3. QED
  BY <1>2 DEF Init, Fresh

\* Its variables have their types.
LEMMA InitTyped ==
  ASSUME Init
  PROVE  TypeOK
<1>1. ForestTypeOK /\ Fresh
  BY InitFresh, FreshEntries
<1>2. Zeros \in [Node -> {0, 1}] /\ Zeros \in [Node -> Nat]
  BY DEF Zeros
<1>3. QueueTyped(queue)
  BY ClearTyped DEF Init
<1>4. found \in BOOLEAN /\ exhausted \in BOOLEAN
  BY DEF Init
<1>5. edge_prefix_cache \in [valid : BOOLEAN, begin : 0..nodes, size : 0..nodes,
                             presum : Seq(Nat)]
  <2>1. 0 \in 0 .. nodes
    BY NodesAssumption
  <2>2. <<0>> \in Seq(Nat)
    OBVIOUS
  <2>3. QED
    BY <2>1, <2>2 DEF Init
<1>6. StateTyped
  BY <1>1, <1>2, <1>3, <1>4, <1>5 DEF Init, StateTyped, QueueTyped
<1>7. TaskletsTyped
  BY DEF Init, TaskletsTyped, Works
<1>8. QED
  BY <1>6, <1>7, TypeParts

\* It is sound.
LEMMA InitSound == Init => Sound
<1> SUFFICES ASSUME Init
             PROVE  Sound
  OBVIOUS
<1>1. /\ Fresh /\ ForestTypeOK /\ EntriesSound
      /\ \A x \in EvenNodes : Walk(path_table, x) = <<x>>
  BY InitFresh, FreshEntries
<1>2. TypeOK /\ IsUndirected(adj)
  BY <1>1, InitTyped DEF Fresh
<1>3. phase = "init" /\ todo = {} /\ running = {} /\ phase \notin Kernels
  BY <1>1 DEF Fresh, Kernels
<1>4. TaskletsPlaced /\ WorkSound
  BY <1>3 DEF TaskletsPlaced, WorkSound
<1>5. Pending = {} /\ At("flip") = {} /\ At("grow") = {} /\ At("fill") = {}
  BY <1>3 DEF Pending, At
<1>6. \A x \in Node : ~Unflipped(x)
  BY <1>5 DEF Unflipped
<1>7. MatesKept
  BY <1>1, <1>6 DEF MatesKept, Fresh, IsMatching, Matched
<1>8. FlipsSound
  BY <1>5 DEF FlipsSound
<1>9. TreesSound /\ LocksSound /\ PairsSound /\ OddsSound
  BY <1>3 DEF TreesSound, LocksSound, PairsSound, OddsSound
<1>10. RepairSound
  <2>1. Matched(M) # {} => \A x \in Node : IsRoot(x)
    BY <1>1 DEF Fresh, IsRoot
  <2>2. \A x \in Node : M[x] # NoNode => ~InValidTree(x)
    <3> SUFFICES ASSUME NEW x \in Node, M[x] # NoNode
                 PROVE  ~InValidTree(x)
      OBVIOUS
    <3>1. found
      BY <1>1 DEF Fresh, Matched
    <3>2. belongs[x] = x
      BY <1>1, <3>1 DEF Fresh
    <3>3. QED
      BY <3>2 DEF InValidTree
  <2>3. QED
    BY <2>1, <2>2 DEF RepairSound
<1>11. DistancesExact
  BY <1>3 DEF DistancesExact
<1>12. QueueSound
  <2>1. queue.b1 = 0 /\ queue.e1 = 0 /\ queue.b2 = 0 /\ queue.e2 = 0
    BY Cleared DEF Init
  <2>2. QED
    BY <1>3, <2>1 DEF QueueSound
<1>13. CacheSound
  BY <1>3 DEF CacheSound
<1>14. QED
  BY <1>1, <1>2, <1>4, <1>7, <1>8, <1>9, <1>10, <1>11, <1>12, <1>13 DEF Sound

\* Every step keeps Sound.
LEMMA NextSound == LockInv /\ Sound /\ [Next]_vars => Sound'
<1> SUFFICES ASSUME LockInv, Sound, [Next]_vars
             PROVE  Sound'
  OBVIOUS
<1>1. CASE AugmentTasklet
  BY <1>1, AugmentSound
<1>2. CASE ExpandTasklet
  BY <1>2, ExpandSound
<1>3. CASE TransformTasklet
  BY <1>3, TransformSound
<1>4. CASE Host
  BY <1>4, HostSound
<1>5. CASE Finished
  BY <1>5, StillSound DEF Finished
<1>6. CASE UNCHANGED vars
  BY <1>6, StillSound
<1>7. QED
  BY <1>1, <1>2, <1>3, <1>4, <1>5, <1>6 DEF Next

\* The invariant that the properties below are read off: the lock protocol, and
\* a forest, queue, buffer and matching that fit together.
THEOREM SoundAlways == Spec => [](LockInv /\ Sound)
<1>1. Init => LockInv /\ Sound
  BY InitLocks, InitSound
<1>2. LockInv /\ Sound /\ [Next]_vars => (LockInv /\ Sound)'
  BY NextLocks, NextSound
<1>3. QED
  BY <1>1, <1>2, PTL DEF Spec

-----------------------------------------------------------------------------
(***************************************************************************)
(* What the properties of the runs say, read off the invariant.            *)
(***************************************************************************)
LEMMA QuietSettled ==
  ASSUME Sound, phase \in {"loop", "expand", "transform"}
  PROVE  Settled
<1>1. CASE phase = "loop"
  <2>1. running = {} /\ phase # "init" /\ ~found
    BY <1>1 DEF Sound, TaskletsPlaced, LocksSound, Kernels
  <2>2. Holders = {} /\ At("flip") = {}
    BY <2>1 DEF Holders, At
  <2>3. QED
    BY <2>1, <2>2, SoundSettled
<1>2. CASE phase \in {"expand", "transform"}
  BY <1>2, GrownSettled
<1>3. QED
  BY <1>1, <1>2

\* Sound says that the forest is legal;
LEMMA SoundLegal == Sound => ForestStaysLegal
<1> SUFFICES ASSUME Sound, phase \in {"loop", "expand", "transform"}
             PROVE  LegalForest
  BY DEF ForestStaysLegal
<1>1. Settled
  BY QuietSettled
<1>2. \A x \in EvenNodes : EvenWalkLegal(x)
  BY <1>1 DEF Settled
<1>3. QED
  BY <1>2 DEF LegalForest, EvenNodes, EvenNode

\* that the queue holds each even node once, within its slots;
LEMMA SoundFits == Sound => QueueFits
<1> SUFFICES ASSUME Sound
             PROVE  QueueFits
  OBVIOUS
<1>1. QueueTyped(queue) /\ QueueSound
  BY SoundParts
<1>2. /\ End(queue) \in Nat /\ End(queue) <= nodes
      /\ Slots \in Seq(Node) /\ Len(Slots) = End(queue)
      /\ \A i \in 1 .. End(queue) : Slots[i] = queue.slots[i - 1]
  BY <1>1, SlotsFacts
<1>3. phase # "init" => IsInjective(Slots) /\ \A x \in Range(Slots) : EvenNode(x)
  BY <1>1 DEF QueueSound
<1>4. phase # "init" => IsInjective([i \in 1..End(queue) |-> queue.slots[i - 1]])
  BY <1>3 DEF Slots
<1>5. ASSUME phase # "init", NEW i \in 0 .. (End(queue) - 1)
      PROVE  is_even[queue.slots[i]] = 1
  <2>1. \A l \in Nat : \A j \in 0 .. (l - 1) : j + 1 \in 1 .. l /\ (j + 1) - 1 = j
    OBVIOUS
  <2>2. i + 1 \in 1 .. End(queue) /\ (i + 1) - 1 = i
    BY <1>2, <2>1
  <2>3. Slots[i + 1] = queue.slots[i]
    BY <1>2, <2>2
  <2>4. i + 1 \in DOMAIN Slots
    BY <1>2, <2>2
  <2>5. Slots[i + 1] \in Range(Slots)
    BY <2>4 DEF Range
  <2>6. QED
    BY <1>3, <1>5, <2>3, <2>5 DEF EvenNode
<1>6. ASSUME phase = "augment", NEW t \in running
      PROVE  is_even[Edge(t)[1]] = 1
  <2>1. t.work \in Works
    BY DEF Works
  <2>2. EdgeWork(t.work)
    BY <1>6, <2>1 DEF Sound, WorkSound, EdgeWork
  <2>3. EvenNode(Head(t.work)[1])
    BY <2>2, EdgeOfWork
  <2>4. QED
    BY <2>3 DEF Edge, EvenNode
<1>7. QED
  BY <1>2, <1>4, <1>5, <1>6 DEF QueueFits

\* that the prefix sums are those of the frontier;
LEMMA SoundPrefix == Sound => PrefixExact
<1> SUFFICES ASSUME Sound, phase # "init", engine.level # "nodes"
             PROVE  /\ PrepareEdgePrefix(edge_prefix_cache, queue).presum =
                         ExclusiveScan(Frontier(queue))
                    /\ EdgesOf(queue, PrepareEdgePrefix(edge_prefix_cache, queue).presum) =
                         FlattenSeq(Rows(Frontier(queue)))
  BY DEF PrefixExact
<1>1. /\ QueueTyped(queue) /\ QueueSound /\ CacheSound /\ adj \in [Node -> Seq(Node)]
  BY SoundParts
<1>2. PrepareEdgePrefix(edge_prefix_cache, queue).presum = ExclusiveScan(Frontier(queue))
  BY <1>1, PreparedScan
<1>3. Frontier(queue) \in Seq(Node) /\ Size(queue) = Len(Frontier(queue))
  BY <1>1, FrontierFacts
<1>4. EdgesOf(queue, ExclusiveScan(Frontier(queue))) = FlattenSeq(Rows(Frontier(queue)))
  BY <1>1, <1>3, EdgesExact
<1>5. QED
  BY <1>2, <1>4

\* that between two kernels each lock set belongs to a tree just flipped;
LEMMA SoundAccounts == Sound => LocksAccounted
<1> SUFFICES ASSUME Sound, KernelDone
             PROVE  /\ phase = "augment" =>
                         {r \in Node : atomic_locks_tree[r] = 1} =
                           {r \in Node : belongs[r] = r /\ is_even[r] = 1 /\ M[r] # NoNode}
                    /\ phase = "transform" =>
                         \A v \in Node : atomic_locks_odd_nodes[v] = 1 => is_even[v] = 1
  BY DEF LocksAccounted
<1>1. Holders = {} /\ At("fill") = {} /\ Pending = {}
  BY DEF KernelDone, Holders, At, Pending
<1>2. \A x : ~Unflipped(x)
  BY <1>1 DEF Unflipped
<1>3. ASSUME phase = "augment"
      PROVE  \A r \in Node : atomic_locks_tree[r] = 1 <=>
               belongs[r] = r /\ is_even[r] = 1 /\ M[r] # NoNode
  <2> SUFFICES ASSUME NEW r \in Node
               PROVE  atomic_locks_tree[r] = 1 <=>
                        belongs[r] = r /\ is_even[r] = 1 /\ M[r] # NoNode
    OBVIOUS
  <2>1. Taken(r) <=> atomic_locks_tree[r] = 1
    BY <1>1 DEF Taken
  <2>2. phase # "init"
    BY <1>3
  <2>3. ASSUME atomic_locks_tree[r] = 1
        PROVE  belongs[r] = r /\ is_even[r] = 1 /\ M[r] # NoNode
    BY <1>2, <2>1, <2>2, <2>3 DEF Sound, LocksSound, IsRoot
  <2>4. ASSUME belongs[r] = r, is_even[r] = 1, M[r] # NoNode
        PROVE  atomic_locks_tree[r] = 1
    <3>1. belongs[r] # NoNode
      BY <2>4, NodesAssumption DEF Node, NoNode
    <3>2. IsRoot(belongs[r])
      BY <2>2, <3>1 DEF Sound, TreesSound
    <3>3. IsRoot(r)
      BY <2>4, <3>2
    <3>4. QED
      BY <2>1, <2>2, <2>4, <3>3 DEF Sound, LocksSound
  <2>5. QED
    BY <2>3, <2>4
<1>4. ASSUME phase = "transform"
      PROVE  \A v \in Node : atomic_locks_odd_nodes[v] = 1 => is_even[v] = 1
  BY <1>1, <1>4 DEF Sound, OddsSound
<1>5. QED
  BY <1>3, <1>4

\* with the lock protocol, that two flips under way share no node;
LEMMA SoundFlipsApart == LockInv /\ Sound => FlipsDisjoint
<1> SUFFICES ASSUME LockInv, Sound, NEW t \in At("flip"), NEW u \in At("flip"), t # u
             PROVE  Touched(t) \cap Touched(u) = {}
  BY DEF FlipsDisjoint
<1>1. t \in running /\ u \in running /\ t.at = "flip" /\ u.at = "flip"
  BY DEF At
<1>2. Owned(t) \cap Owned(u) = {}
  BY <1>1 DEF LockInv, TreesExclusive
<1>3. \A x \in Touched(t) : belongs[x] \in Owned(t)
  <2>1. \A e \in Range(t.flips) : /\ belongs[e[1]] \in {First(Edge(t)), Second(Edge(t))}
                                  /\ belongs[e[2]] \in {First(Edge(t)), Second(Edge(t))}
    BY DEF Sound, FlipsSound
  <2>2. Owned(t) = {First(Edge(t)), Second(Edge(t))}
    BY <1>1, OwnedOf DEF LockInv
  <2>3. QED
    BY <2>1, <2>2 DEF Touched
<1>4. \A x \in Touched(u) : belongs[x] \in Owned(u)
  <2>1. \A e \in Range(u.flips) : /\ belongs[e[1]] \in {First(Edge(u)), Second(Edge(u))}
                                  /\ belongs[e[2]] \in {First(Edge(u)), Second(Edge(u))}
    BY DEF Sound, FlipsSound
  <2>2. Owned(u) = {First(Edge(u)), Second(Edge(u))}
    BY <1>1, OwnedOf DEF LockInv
  <2>3. QED
    BY <2>1, <2>2 DEF Touched
<1>5. QED
  BY <1>2, <1>3, <1>4

\* The mates are mutual whenever no path is being flipped.
MatingBetween == phase \notin Kernels => IsMatching(adj, M)

\* and that between two kernels M matches along edges.
LEMMA SoundMating == Sound => MatingBetween
<1> SUFFICES ASSUME Sound, phase \notin Kernels
             PROVE  IsMatching(adj, M)
  BY DEF MatingBetween
<1>1. running = {}
  BY DEF Sound, TaskletsPlaced
<1>2. \A x : ~Unflipped(x)
  BY <1>1 DEF Unflipped, Pending, At
<1>3. M \in [Node -> Node \cup {NoNode}]
  BY SoundParts DEF StateTyped, ForestTypeOK
<1>4. QED
  BY <1>2, <1>3 DEF Sound, MatesKept, IsMatching, Matched

-----------------------------------------------------------------------------
\* The mates once the pairs of P have been stored in m.
InPairs(P, x) == \E e \in P : x \in {e[1], e[2]}

SoonOf(P, m, v) ==
  IF InPairs(P, v) THEN CHOOSE w \in Node : <<v, w>> \in P \/ <<w, v>> \in P ELSE m[v]

Soon(P, m) == [v \in Node |-> SoonOf(P, m, v)]

\* Pairs of different nodes that share none.
Matchable(P) ==
  /\ P \subseteq Node \X Node
  /\ \A e \in P : Joinable(e)
  /\ \A e, g \in P : e # g => {e[1], e[2]} \cap {g[1], g[2]} = {}

\* The mates m, but for those nodes that the pairs of P mate anew.
MutualBeside(P, m) ==
  \A x \in Node : ~InPairs(P, x) /\ m[x] # NoNode =>
    m[x] \in Node /\ m[m[x]] = x /\ IsAdjacent(adj, x, m[x]) /\ ~InPairs(P, m[x])

\* What M is going to be on the nodes of pending pairs and elsewhere.
LEMMA SoonPaired ==
  ASSUME NEW P, Matchable(P), NEW m
  PROVE  /\ \A e \in P : SoonOf(P, m, e[1]) = e[2] /\ SoonOf(P, m, e[2]) = e[1]
         /\ \A x : ~InPairs(P, x) => SoonOf(P, m, x) = m[x]
<1>1. ASSUME NEW e \in P
      PROVE  SoonOf(P, m, e[1]) = e[2] /\ SoonOf(P, m, e[2]) = e[1]
  <2>1. PICK a \in Node, b \in Node : e = <<a, b>>
    BY DEF Matchable
  <2>2. a # b /\ <<a, b>> \in P /\ e[1] = a /\ e[2] = b
    BY <2>1 DEF Matchable, Joinable
  <2>3. \A c, d : <<c, d>> \in P /\ ({a, b} \cap {c, d} # {}) => c = a /\ d = b
    <3>1. ASSUME NEW c, NEW d, <<c, d>> \in P, {a, b} \cap {c, d} # {}
          PROVE  <<c, d>> = <<a, b>>
      <4>1. PICK g : g = <<c, d>>
        OBVIOUS
      <4>2. g[1] = c /\ g[2] = d
        BY <4>1
      <4>3. g \in P /\ {e[1], e[2]} \cap {g[1], g[2]} # {}
        BY <2>2, <3>1, <4>1, <4>2
      <4>4. e = g
        BY <4>3 DEF Matchable
      <4>5. QED
        BY <2>1, <4>1, <4>4
    <3>2. QED
      BY <3>1
  <2>4. \A w \in Node : <<a, w>> \in P \/ <<w, a>> \in P <=> w = b
    BY <2>2, <2>3
  <2>5. \A w \in Node : <<b, w>> \in P \/ <<w, b>> \in P <=> w = a
    BY <2>2, <2>3
  <2>6. InPairs(P, a) /\ InPairs(P, b)
    BY <2>2 DEF InPairs
  <2>7. (CHOOSE w \in Node : <<a, w>> \in P \/ <<w, a>> \in P) = b
    BY <2>4
  <2>8. (CHOOSE w \in Node : <<b, w>> \in P \/ <<w, b>> \in P) = a
    BY <2>5
  <2>9. QED
    BY <2>2, <2>6, <2>7, <2>8 DEF SoonOf
<1>2. QED
  BY <1>1 DEF SoonOf

\* M with all pending pairs flipped is a matching.
LEMMA SoonMatches ==
  ASSUME NEW P, Matchable(P), NEW m, MutualBeside(P, m)
  PROVE  IsMatching(adj, Soon(P, m))
<1> DEFINE S == Soon(P, m)
<1>1. \A x \in Node : S[x] = SoonOf(P, m, x)
  BY DEF Soon
<1> HIDE DEF S
<1>2. /\ \A e \in P : SoonOf(P, m, e[1]) = e[2] /\ SoonOf(P, m, e[2]) = e[1]
      /\ \A x : ~InPairs(P, x) => SoonOf(P, m, x) = m[x]
  BY SoonPaired
<1>3. ASSUME NEW x \in Node, S[x] # NoNode
      PROVE  S[x] \in Node /\ S[S[x]] = x /\ IsAdjacent(adj, x, S[x])
  <2>1. CASE InPairs(P, x)
    <3>1. PICK e \in P : x \in {e[1], e[2]}
      BY <2>1 DEF InPairs
    <3>2. e[1] \in Node /\ e[2] \in Node /\ IsAdjacent(adj, e[1], e[2]) /\ IsAdjacent(adj, e[2], e[1])
      BY DEF Matchable, Joinable
    <3>3. S[e[1]] = e[2] /\ S[e[2]] = e[1]
      BY <1>1, <1>2, <3>2
    <3>4. QED
      BY <3>1, <3>2, <3>3
  <2>2. CASE ~InPairs(P, x)
    <3>1. S[x] = m[x]
      BY <1>1, <1>2, <2>2
    <3>2. m[x] \in Node /\ m[m[x]] = x /\ IsAdjacent(adj, x, m[x]) /\ ~InPairs(P, m[x])
      BY <1>3, <2>2, <3>1 DEF MutualBeside
    <3>3. S[m[x]] = m[m[x]]
      BY <1>1, <1>2, <3>2
    <3>4. QED
      BY <3>1, <3>2, <3>3
  <2>3. QED
    BY <2>1, <2>2
<1>4. IsMatching(adj, S)
  BY <1>3 DEF IsMatching, Matched
<1>5. QED
  BY <1>4 DEF S

\* The pairs the tasklets have left.
LEMMA PendingPairs ==
  ASSUME LockInv, Sound
  PROVE  Matchable(Pending) /\ MutualBeside(Pending, M)
<1>1. \A e \in Pending : \E t \in At("flip") : e \in Range(t.flips)
  BY DEF Pending
<1>2. ASSUME NEW t \in At("flip"), NEW e \in Range(t.flips)
      PROVE  e \in Node \X Node /\ Joinable(e)
  <2>1. t.flips \in Seq(Node \X Node)
    BY DEF Sound, FlipsSound
  <2>2. PICK S : S = Node \X Node
    OBVIOUS
  <2>3. t.flips \in Seq(S)
    BY <2>1, <2>2
  <2>4. e \in S
    BY <2>3, ElementOfSeq, LenProperties DEF Range
  <2>5. QED
    BY <2>2, <2>4 DEF Sound, FlipsSound, Joinable
<1>3. ASSUME NEW t \in At("flip"), NEW e \in Range(t.flips),
             NEW u \in At("flip"), NEW g \in Range(u.flips), e # g
      PROVE  {e[1], e[2]} \cap {g[1], g[2]} = {}
  <2>1. CASE t = u
    <3>1. PICK i \in DOMAIN t.flips, j \in DOMAIN t.flips : t.flips[i] = e /\ t.flips[j] = g
      BY <2>1 DEF Range
    <3>2. QED
      BY <1>3, <3>1 DEF Sound, FlipsSound
  <2>2. CASE t # u
    <3>1. Touched(t) \cap Touched(u) = {}
      BY <2>2, SoundFlipsApart DEF FlipsDisjoint
    <3>2. {e[1], e[2]} \subseteq Touched(t) /\ {g[1], g[2]} \subseteq Touched(u)
      BY DEF Touched
    <3>3. QED
      BY <3>1, <3>2
  <2>3. QED
    BY <2>1, <2>2
<1>4. Matchable(Pending)
  BY <1>1, <1>2, <1>3 DEF Matchable
<1>5. \A x : Unflipped(x) <=> InPairs(Pending, x)
  BY DEF Unflipped, InPairs
<1>6. M \in [Node -> Node \cup {NoNode}]
  BY SoundParts DEF StateTyped, ForestTypeOK
<1>7. MutualBeside(Pending, M)
  BY <1>5, <1>6 DEF MutualBeside, Sound, MatesKept
<1>8. QED
  BY <1>4, <1>7

\* A path that gets its second tree mates nodes that no other path mates, and
\* with each node its mate.
LEMMA WonPath ==
  ASSUME LockInv, Sound, phase = "augment", NEW t \in At("second"),
         atomic_locks_tree[Second(Edge(t))] = 0
  PROVE  LET F == FlipsFor(Edge(t))
         IN  /\ Pairs(F) /\ F # <<>>
             /\ \A x \in NodesOf(F) : ~Unflipped(x) /\ (M[x] # NoNode => M[x] \in NodesOf(F))
             /\ \E x \in NodesOf(F) : x \in Node /\ M[x] = NoNode
<1>0. PICK f, s : f = First(Edge(t)) /\ s = Second(Edge(t))
  OBVIOUS
<1> DEFINE e == Edge(t)
           F == FlipsFor(e)
           p == Walk(path_table, e[1])  q == Walk(path_table, e[2])
<1>2. /\ e \in Bridges /\ e \in Node \X Node /\ e[1] \in EvenNodes /\ e[2] \in EvenNodes
      /\ IsAdjacent(adj, e[1], e[2]) /\ ~Taken(f)
  BY <1>0, SecondFacts
<1>3. /\ f \in Node /\ s \in Node /\ f # s /\ IsRoot(f) /\ IsRoot(s)
      /\ {f, s} = {belongs[e[1]], belongs[e[2]]}
  BY <1>0, <1>2, BridgeTrees
<1>4. ~Taken(s)
  BY <1>0 DEF Taken
<1>5. ~Taken(belongs[e[1]]) /\ ~Taken(belongs[e[2]])
  BY <1>2, <1>3, <1>4
<1>6. /\ EvenWalkLegal(e[1])
      /\ \A x \in Range(p) : /\ belongs[x] = belongs[e[1]] /\ ~Unflipped(x)
                             /\ M[x] # NoNode => M[x] \in Range(p)
      /\ belongs[e[1]] \in Range(p)
  BY <1>2, <1>5, TakenWalk
<1>7. /\ EvenWalkLegal(e[2])
      /\ \A x \in Range(q) : /\ belongs[x] = belongs[e[2]] /\ ~Unflipped(x)
                             /\ M[x] # NoNode => M[x] \in Range(q)
  BY <1>2, <1>5, TakenWalk
<1>8. Pairs(F) /\ F # <<>> /\ NodesOf(F) = Range(p) \cup Range(q)
  BY <1>2, <1>6, <1>7, FlipsForFacts, TypeParts DEF Sound, StateTyped
<1> HIDE DEF F, p, q
<1>9. belongs[e[1]] \in NodesOf(F) /\ belongs[e[1]] \in Node /\ M[belongs[e[1]]] = NoNode
  <2>1. IsRoot(belongs[e[1]]) /\ belongs[e[1]] \in Node
    BY <1>3
  <2>2. M[belongs[e[1]]] = NoNode
    BY <1>5, <2>1 DEF Sound, LocksSound
  <2>3. QED
    BY <1>6, <1>8, <2>1, <2>2
<1>10. \A x \in NodesOf(F) : ~Unflipped(x) /\ (M[x] # NoNode => M[x] \in NodesOf(F))
  BY <1>6, <1>7, <1>8
<1>11. QED
  BY <1>8, <1>9, <1>10 DEF F

\* A step that stores no mate and ends no path.
LEMMA SoonKept ==
  ASSUME M' = M, Pending' = Pending
  PROVE  Soon(Pending, M)' = Soon(Pending, M)
BY DEF Soon, SoonOf, InPairs

\* Winning the second lock makes the path pending, so the matching grows.
LEMMA WonGrows ==
  ASSUME LockInv, Sound, AugmentStill, Sound', NEW t \in At("second"),
         atomic_locks_tree[Second(Edge(t))] = 0, Turn(t, Flipping(t)), M' = M
  PROVE  /\ IsMatching(adj, Soon(Pending, M)')
         /\ Matched(Soon(Pending, M)) \subseteq Matched(Soon(Pending, M)')
         /\ Matched(Soon(Pending, M)) # Matched(Soon(Pending, M)')
<1> DEFINE F == FlipsFor(Edge(t))
           n == Tasklet("flip", t.work, F)
<1>1. /\ Pairs(F)
      /\ \A x \in NodesOf(F) : ~Unflipped(x) /\ (M[x] # NoNode => M[x] \in NodesOf(F))
      /\ \E x \in NodesOf(F) : x \in Node /\ M[x] = NoNode
  BY WonPath DEF AugmentStill
<1>2. Turn(t, {n}) /\ n.at = "flip" /\ n.flips = F
  BY DEF Flipping, Tasklet
<1> HIDE DEF n, F
<1>3. At("flip")' = At("flip") \cup {n}
  <2>1. At("flip")' = (At("flip") \ {t}) \cup {m \in {n} : m.at = "flip"}
    BY <1>2, TurnAt
  <2>2. t \notin At("flip")
    BY DEF At
  <2>3. QED
    BY <1>2, <2>1, <2>2
<1>4. Pending' = Pending \cup Range(F)
  BY <1>2, <1>3 DEF Pending
<1>5. Matchable(Pending) /\ MutualBeside(Pending, M)
  BY PendingPairs
<1>6. PICK P : P = Pending'
  OBVIOUS
<1>7. /\ \A x : InPairs(Pending, x) <=> Unflipped(x)
      /\ \A x : InPairs(Range(F), x) <=> x \in NodesOf(F)
      /\ \A x : InPairs(P, x) <=> InPairs(Pending, x) \/ InPairs(Range(F), x)
  BY <1>4, <1>6 DEF InPairs, Unflipped, NodesOf
<1>8. Matchable(P)
  <2>1. \A e \in Range(F) : e \in Node \X Node /\ Joinable(e)
    <3>1. PICK S : S = Node \X Node
      OBVIOUS
    <3>2. F \in Seq(S)
      BY <1>1, <3>1 DEF Pairs
    <3>3. \A e \in Range(F) : e \in S
      BY <3>2, ElementOfSeq, LenProperties DEF Range
    <3>4. QED
      BY <1>1, <3>1, <3>3 DEF Pairs
  <2>2. \A e, g \in Range(F) : e # g => {e[1], e[2]} \cap {g[1], g[2]} = {}
    <3>1. ASSUME NEW e \in Range(F), NEW g \in Range(F), e # g
          PROVE  {e[1], e[2]} \cap {g[1], g[2]} = {}
      <4>1. PICK i \in DOMAIN F, j \in DOMAIN F : F[i] = e /\ F[j] = g
        BY DEF Range
      <4>2. QED
        BY <1>1, <3>1, <4>1 DEF Pairs, PairsApart
    <3>2. QED
      BY <3>1
  <2>3. \A e \in Range(F), g \in Pending : {e[1], e[2]} \cap {g[1], g[2]} = {}
    BY <1>1 DEF Unflipped, NodesOf
  <2>4. QED
    BY <1>4, <1>5, <1>6, <2>1, <2>2, <2>3 DEF Matchable
<1>9. MutualBeside(P, M)
  <2>1. ASSUME NEW x \in Node, ~InPairs(P, x), M[x] # NoNode
        PROVE  M[x] \in Node /\ M[M[x]] = x /\ IsAdjacent(adj, x, M[x]) /\ ~InPairs(P, M[x])
    <3>1. ~InPairs(Pending, x) /\ x \notin NodesOf(F)
      BY <1>7, <2>1
    <3>2. M[x] \in Node /\ M[M[x]] = x /\ IsAdjacent(adj, x, M[x]) /\ ~InPairs(Pending, M[x])
      BY <1>5, <2>1, <3>1 DEF MutualBeside
    <3>3. M[x] \notin NodesOf(F)
      <4>1. x # NoNode
        BY DEF Node, NoNode
      <4>2. QED
        BY <1>1, <3>1, <3>2, <4>1
    <3>4. QED
      BY <1>7, <3>2, <3>3
  <2>2. QED
    BY <2>1 DEF MutualBeside
<1>10. Soon(Pending, M)' = Soon(P, M)
  BY <1>6 DEF Soon, SoonOf, InPairs
<1>11. IsMatching(adj, Soon(P, M))
  BY <1>8, <1>9, SoonMatches
<1>12. /\ \A x \in Node : InPairs(P, x) => Soon(P, M)[x] # NoNode
       /\ \A x \in Node : InPairs(Pending, x) => Soon(Pending, M)[x] # NoNode
       /\ \A x \in Node : ~InPairs(P, x) => Soon(P, M)[x] = M[x]
       /\ \A x \in Node : ~InPairs(Pending, x) => Soon(Pending, M)[x] = M[x]
  <2>1. ASSUME NEW Q, Matchable(Q), NEW x \in Node
        PROVE  /\ InPairs(Q, x) => Soon(Q, M)[x] # NoNode
               /\ ~InPairs(Q, x) => Soon(Q, M)[x] = M[x]
    <3>1. Soon(Q, M)[x] = SoonOf(Q, M, x)
      BY DEF Soon
    <3>2. ASSUME InPairs(Q, x)
          PROVE  SoonOf(Q, M, x) # NoNode
      <4>1. PICK e \in Q : x \in {e[1], e[2]}
        BY <3>2 DEF InPairs
      <4>2. SoonOf(Q, M, e[1]) = e[2] /\ SoonOf(Q, M, e[2]) = e[1]
        BY <2>1, SoonPaired
      <4>3. e[1] \in Node /\ e[2] \in Node
        BY <2>1 DEF Matchable
      <4>4. QED
        BY <4>1, <4>2, <4>3 DEF Node, NoNode
    <3>3. ~InPairs(Q, x) => SoonOf(Q, M, x) = M[x]
      BY <2>1, SoonPaired
    <3>4. QED
      BY <3>1, <3>2, <3>3
  <2>2. QED
    BY <1>5, <1>8, <2>1
<1>13. Matched(Soon(Pending, M)) \subseteq Matched(Soon(P, M))
  BY <1>7, <1>12 DEF Matched
<1>14. PICK f \in Node : f \in NodesOf(F) /\ M[f] = NoNode
  BY <1>1
<1>15. f \in Matched(Soon(P, M)) /\ f \notin Matched(Soon(Pending, M))
  BY <1>1, <1>7, <1>12, <1>14 DEF Matched
<1>16. QED
  BY <1>10, <1>11, <1>13, <1>15

\* A pair that is stored is the pair that was to be.
LEMMA FlippedKeeps ==
  ASSUME LockInv, Sound, AugmentStill, FlipPair
  PROVE  Soon(Pending, M)' = Soon(Pending, M)
<1>1. PICK t \in At("flip") :
        /\ M' = [M EXCEPT ![Head(t.flips)[1]] = Head(t.flips)[2], ![Head(t.flips)[2]] = Head(t.flips)[1]]
        /\ Turn(t, IF Len(t.flips) = 1 THEN NextEdge(t)
                   ELSE {Tasklet("flip", t.work, Tail(t.flips))})
  BY DEF FlipPair
<1>2. PICK s, a, b : s = t.flips /\ a = Head(s)[1] /\ b = Head(s)[2]
  OBVIOUS
<1> DEFINE T == IF Len(s) = 1 THEN NextEdge(t) ELSE {Tasklet("flip", t.work, Tail(s))}
<1>3. M' = [M EXCEPT ![a] = b, ![b] = a] /\ Turn(t, T)
  BY <1>1, <1>2
<1>4. Pairs(s) /\ s # <<>>
  BY <1>2 DEF Sound, FlipsSound, Pairs, PairsApart, Joinable
<1>5. /\ Head(s) \in Range(s) /\ Head(s) \in Node \X Node
      /\ Pairs(Tail(s))
      /\ NodesOf(s) = {a, b} \cup NodesOf(Tail(s)) /\ {a, b} \cap NodesOf(Tail(s)) = {}
      /\ Len(s) = 1 => NodesOf(Tail(s)) = {}
      /\ Len(s) # 1 => Tail(s) # <<>>
  BY <1>2, <1>4, PairsTail
<1>6. a \in Node /\ b \in Node /\ a # b
  BY <1>2, <1>4, <1>5 DEF Pairs, Joinable
<1>7. M \in [Node -> Node \cup {NoNode}]
  BY TypeParts DEF Sound, StateTyped, ForestTypeOK
<1>8. M'[a] = b /\ M'[b] = a /\ \A x \in Node : x \notin {a, b} => M'[x] = M[x]
  BY <1>3, <1>6, <1>7
<1>9. /\ Len(s) = 1 => \A n \in T : n.at # "flip"
      /\ Len(s) # 1 => \A n : n \in T /\ n.at = "flip" <=> n = Tasklet("flip", t.work, Tail(s))
  BY DEF NextEdge, Tasklet
<1> HIDE DEF T
<1>10. At("flip")' = (At("flip") \ {t}) \cup {n \in T : n.at = "flip"}
  BY <1>3, TurnAt
<1>11. PICK P : P = Pending'
  OBVIOUS
<1>12. P = (UNION {Range(u.flips) : u \in At("flip") \ {t}})
            \cup (UNION {Range(n.flips) : n \in {m \in T : m.at = "flip"}})
  BY <1>10, <1>11 DEF Pending
<1>13. UNION {Range(n.flips) : n \in {m \in T : m.at = "flip"}} = Range(Tail(s))
  <2>1. CASE Len(s) = 1
    <3>1. {m \in T : m.at = "flip"} = {}
      BY <1>9, <2>1
    <3>2. Range(Tail(s)) = {}
      <4>1. \A e \in Range(Tail(s)) : e[1] \in NodesOf(Tail(s))
        BY DEF NodesOf
      <4>2. QED
        BY <1>5, <2>1, <4>1
    <3>3. QED
      BY <3>1, <3>2
  <2>2. CASE Len(s) # 1
    <3>1. {m \in T : m.at = "flip"} = {Tasklet("flip", t.work, Tail(s))}
      BY <1>9, <2>2
    <3>2. Tasklet("flip", t.work, Tail(s)).flips = Tail(s)
      BY DEF Tasklet
    <3>3. QED
      BY <3>1, <3>2
  <2>3. QED
    BY <2>1, <2>2
<1>14. Range(s) = {Head(s)} \cup Range(Tail(s))
  <2>1. PICK S : S = Node \X Node
    OBVIOUS
  <2>2. s \in Seq(S)
    BY <1>4, <2>1 DEF Pairs
  <2>3. DOMAIN s = 1 .. Len(s) /\ Len(s) \in Nat \ {0} /\ Head(s) = s[1]
        /\ Tail(s) \in Seq(S) /\ Len(Tail(s)) = Len(s) - 1
        /\ \A i \in 1 .. (Len(s) - 1) : Tail(s)[i] = s[i + 1]
    BY <1>4, <2>2, LenProperties, EmptySeq, HeadTailProperties
  <2>4. DOMAIN Tail(s) = 1 .. (Len(s) - 1)
    BY <2>3, LenProperties
  <2>5. \A l \in Nat \ {0} : \A i \in 1 .. l : i = 1 \/ (i - 1 \in 1 .. (l - 1) /\ (i - 1) + 1 = i)
    OBVIOUS
  <2>6. \A l \in Nat \ {0} : \A i \in 1 .. (l - 1) : i + 1 \in 1 .. l
    OBVIOUS
  <2>7. \A e \in Range(s) : e \in {Head(s)} \cup Range(Tail(s))
    <3>1. ASSUME NEW i \in 1 .. Len(s)
          PROVE  s[i] \in {Head(s)} \cup Range(Tail(s))
      <4>1. CASE i = 1
        BY <2>3, <4>1
      <4>2. CASE i # 1
        <5>1. i - 1 \in 1 .. (Len(s) - 1) /\ (i - 1) + 1 = i
          BY <2>3, <2>5, <4>2
        <5>2. Tail(s)[i - 1] = s[i]
          BY <2>3, <5>1
        <5>3. QED
          BY <2>4, <5>1, <5>2 DEF Range
      <4>3. QED
        BY <4>1, <4>2
    <3>2. QED
      BY <2>3, <3>1 DEF Range
  <2>8. \A e \in Range(Tail(s)) : e \in Range(s)
    BY <2>3, <2>4, <2>6 DEF Range
  <2>9. QED
    BY <1>5, <2>7, <2>8
<1>15. Pending = P \cup {Head(s)}
  <2>1. Pending = (UNION {Range(u.flips) : u \in At("flip") \ {t}}) \cup Range(s)
    BY <1>2 DEF Pending
  <2>2. QED
    BY <1>12, <1>13, <1>14, <2>1
<1>16. Matchable(Pending)
  BY PendingPairs
<1>17. Matchable(P)
  BY <1>15, <1>16 DEF Matchable
<1>18. ~InPairs(P, a) /\ ~InPairs(P, b)
  <2>1. \A e \in Range(Tail(s)) : e[1] \in NodesOf(Tail(s)) /\ e[2] \in NodesOf(Tail(s))
    BY DEF NodesOf
  <2>2. \A e \in Range(Tail(s)) : a \notin {e[1], e[2]} /\ b \notin {e[1], e[2]}
    BY <1>5, <2>1
  <2>3. ASSUME NEW u \in At("flip") \ {t}, NEW e \in Range(u.flips)
        PROVE  a \notin {e[1], e[2]} /\ b \notin {e[1], e[2]}
    <3>1. Touched(t) \cap Touched(u) = {}
      BY SoundFlipsApart DEF FlipsDisjoint
    <3>2. a \in Touched(t) /\ b \in Touched(t) /\ e[1] \in Touched(u) /\ e[2] \in Touched(u)
      BY <1>2, <1>5 DEF Touched
    <3>3. QED
      BY <3>1, <3>2
  <2>4. QED
    BY <1>12, <1>13, <2>2, <2>3 DEF InPairs
<1>19. ASSUME NEW x \in Node
       PROVE  SoonOf(P, M', x) = SoonOf(Pending, M, x)
  <2>1. CASE InPairs(P, x)
    <3>1. PICK e \in P : x \in {e[1], e[2]}
      BY <2>1 DEF InPairs
    <3>2. e \in Pending
      BY <1>15
    <3>3. SoonOf(P, M', e[1]) = e[2] /\ SoonOf(P, M', e[2]) = e[1]
      BY <1>17, SoonPaired
    <3>4. SoonOf(Pending, M, e[1]) = e[2] /\ SoonOf(Pending, M, e[2]) = e[1]
      BY <1>16, <3>2, SoonPaired
    <3>5. QED
      BY <3>1, <3>3, <3>4
  <2>2. CASE x \in {a, b}
    <3>1. Head(s) \in Pending
      BY <1>15
    <3>2. SoonOf(Pending, M, a) = b /\ SoonOf(Pending, M, b) = a
      BY <1>2, <1>16, <3>1, SoonPaired
    <3>3. SoonOf(P, M', a) = b /\ SoonOf(P, M', b) = a
      BY <1>8, <1>18 DEF SoonOf
    <3>4. QED
      BY <2>2, <3>2, <3>3
  <2>3. CASE ~InPairs(P, x) /\ x \notin {a, b}
    <3>1. ~InPairs(Pending, x)
      BY <1>2, <1>15, <2>3 DEF InPairs
    <3>2. QED
      BY <1>8, <2>3, <3>1 DEF SoonOf
  <2>4. QED
    BY <2>1, <2>2, <2>3
<1>20. Soon(Pending, M)' = [x \in Node |-> SoonOf(P, M', x)]
  BY <1>11 DEF Soon, SoonOf, InPairs
<1>21. QED
  BY <1>19, <1>20 DEF Soon

Grows ==
  /\ adj' = adj /\ IsMatching(adj, Soon(Pending, M)')
  /\ Matched(Soon(Pending, M)) \subseteq Matched(Soon(Pending, M)')
  /\ Matched(Soon(Pending, M)) # Matched(Soon(Pending, M)')

\* How the caller of the engine sees it.
LEMMA GrowthFollows ==
  /\ IsMatching(adj, Soon(Pending, M)) => Growth!Init
  /\ Grows \/ (adj' = adj /\ Soon(Pending, M)' = Soon(Pending, M)) =>
       [Growth!Grow]_<<adj, [v \in Node |-> MateSoon(v)]>>
<1>1. PICK m : m = [v \in Node |-> MateSoon(v)]
  OBVIOUS
<1>2. m = Soon(Pending, M)
  BY <1>1 DEF Soon, SoonOf, MateSoon, InPairs
<1>3. [v \in Node |-> MateSoon(v)]' = Soon(Pending, M)'
  BY DEF Soon, SoonOf, MateSoon, InPairs
<1>4. IsMatching(adj, Soon(Pending, M)) => Growth!Init
  BY <1>1, <1>2 DEF Growth!Init, Growth!IsMatching, Growth!Matched, Growth!IsAdjacent, Growth!Node,
                    Growth!NoNode, IsMatching, Matched, IsAdjacent, Node, NoNode
<1>5. Grows => Growth!Grow
  <2>1. /\ \A a, f : Growth!IsMatching(a, f) <=> IsMatching(a, f)
        /\ \A f : Growth!Matched(f) = Matched(f)
    BY DEF Growth!IsMatching, Growth!Matched, Growth!IsAdjacent, Growth!Node,
           Growth!NoNode, IsMatching, Matched, IsAdjacent, Node, NoNode
  <2>2. PICK n : n = [v \in Node |-> MateSoon(v)]'
    OBVIOUS
  <2>3. Grows => /\ adj' = adj /\ Growth!IsMatching(adj, n)
                 /\ Growth!Matched(m) \subseteq Growth!Matched(n)
                 /\ Growth!Matched(m) # Growth!Matched(n)
    BY <1>2, <1>3, <2>1, <2>2 DEF Grows
  <2>4. QED
    BY <1>1, <2>2, <2>3 DEF Growth!Grow
<1>6. Soon(Pending, M)' = Soon(Pending, M) =>
        [v \in Node |-> MateSoon(v)]' = [v \in Node |-> MateSoon(v)]
  BY <1>1, <1>2, <1>3
<1>7. QED
  BY <1>4, <1>5, <1>6

\* The host and the other kernels neither flip nor add a pair.
LEMMA OthersKeep ==
  ASSUME LockInv, Sound, Sound', [Next]_vars, ~AugmentTasklet
  PROVE  adj' = adj /\ Soon(Pending, M)' = Soon(Pending, M)
<1>1. CASE UNCHANGED vars
  BY <1>1, SoonKept DEF vars, forestVars, kernelVars, Pending, At
<1>2. CASE Finished
  BY <1>2, SoonKept DEF Finished, vars, forestVars, kernelVars, Pending, At
<1>3. CASE Host
  <2>1. adj' = adj /\ M' = M /\ running' = running
    BY <1>3 DEF Host, InitAlternatingForest, Loop, EndAugment, EndExpand, EndTransform,
                deviceVars, forestVars, kernelVars, Launch
  <2>2. QED
    BY <2>1, SoonKept DEF Pending, At
<1>4. CASE ExpandTasklet \/ TransformTasklet
  <2>1. adj' = adj /\ M' = M /\ phase \in {"expand", "transform"} /\ phase' = phase
    BY <1>4 DEF ExpandTasklet, TransformTasklet, hostVars
  <2>2. At("flip") = {}
    BY <2>1, GrownSettled
  <2>3. At("flip")' = {}
    BY <2>1, PlacedThen DEF Sound
  <2>4. QED
    BY <2>1, <2>2, <2>3, SoonKept DEF Pending
<1>5. QED
  BY <1>1, <1>2, <1>3, <1>4 DEF Next

\* A step either makes the matching grow or leaves it alone.
LEMMA GrowthStep ==
  ASSUME LockInv, Sound, Sound', [Next]_vars
  PROVE  Grows \/ (adj' = adj /\ Soon(Pending, M)' = Soon(Pending, M))
<1>1. CASE ~AugmentTasklet
  BY <1>1, OthersKeep
<1>2. CASE AugmentTasklet
  <2>1. AugmentStill /\ adj' = adj
    BY <1>2 DEF AugmentTasklet, AugmentStill, hostVars
  <2>2. CASE LockFirst
    <3>1. PICK t \in Ready :
            Turn(t, IF atomic_locks_tree[First(Edge(t))] = 0 THEN Goto(t, "second") ELSE {})
      BY <2>2 DEF LockFirst
    <3>2. M' = M /\ t.at = "scan"
      BY <2>2, ReadyFacts DEF Sound, LockFirst
    <3>3. At("flip")' = At("flip")
      BY <3>1, <3>2, TurnAt DEF At, Goto, Tasklet
    <3>4. QED
      BY <2>1, <3>2, <3>3, SoonKept DEF Pending
  <2>3. CASE ReleaseFirst
    <3>1. PICK t \in At("release") : Turn(t, {}) /\ M' = M
      BY <2>3 DEF ReleaseFirst
    <3>2. At("flip")' = At("flip")
      BY <3>1, TurnAt DEF At
    <3>3. QED
      BY <2>1, <3>1, <3>2, SoonKept DEF Pending
  <2>4. CASE FlipPair
    BY <2>1, <2>4, FlippedKeeps
  <2>5. CASE LockSecond
    <3>1. PICK t \in At("second") :
            /\ Turn(t, IF atomic_locks_tree[Second(Edge(t))] = 0
                       THEN Flipping(t) ELSE Goto(t, "release"))
            /\ M' = M
      BY <2>5 DEF LockSecond
    <3>2. CASE atomic_locks_tree[Second(Edge(t))] = 0
      <4>1. Turn(t, Flipping(t))
        BY <3>1, <3>2
      <4>2. QED
        BY <2>1, <3>1, <3>2, <4>1, WonGrows DEF Grows
    <3>3. CASE atomic_locks_tree[Second(Edge(t))] # 0
      <4>1. Turn(t, Goto(t, "release"))
        BY <3>1, <3>3
      <4>2. At("flip")' = At("flip")
        BY <4>1, TurnAt DEF At, Goto, Tasklet
      <4>3. QED
        BY <2>1, <3>1, <4>2, SoonKept DEF Pending
    <3>4. QED
      BY <3>2, <3>3
  <2>6. QED
    BY <1>2, <2>2, <2>3, <2>4, <2>5 DEF AugmentTasklet
<1>3. QED
  BY <1>1, <1>2

\* The engines implement MatchingGrowth.
THEOREM MatchingGrows == Spec => GrowsMatching
<1>1. LockInv /\ Sound => IsMatching(adj, Soon(Pending, M))
  BY PendingPairs, SoonMatches
<1>2. Init => Growth!Init
  BY <1>1, InitLocks, InitSound, GrowthFollows
<1>3. LockInv /\ Sound /\ Sound' /\ [Next]_vars => [Growth!Grow]_<<adj, [v \in Node |-> MateSoon(v)]>>
  BY GrowthStep, GrowthFollows
<1>4. QED
  BY <1>2, <1>3, SoundAlways, PTL DEF Spec, GrowsMatching, Growth!Spec

-----------------------------------------------------------------------------
(***************************************************************************)
(* What holds of every engine, on every undirected graph, with any number  *)
(* of tasklets in flight.                                                  *)
(***************************************************************************)
\* Every variable keeps the type its declaration gives it.
THEOREM TypesKept == Spec => []TypeOK
BY SoundAlways, PTL DEF Sound

\* The forest that the kernels read without a lock is legal.
THEOREM LegalForests == Spec => []ForestStaysLegal
BY SoundAlways, SoundLegal, PTL

\* root_distance, from which the blossom kernel computes where nodes go in its
\* buffer, is the length of the walk.
THEOREM ExactDistances == Spec => []DistancesExact
BY SoundAlways, PTL DEF Sound

\* The unchecked queue never runs over, and holds no even node twice.
THEOREM FittingQueue == Spec => []QueueFits
BY SoundAlways, SoundFits, PTL

\* Every kernel gets each edge of the frontier once, whether the prefix sums
\* are made anew or taken from the cache of engine 10.
THEOREM ExactPrefix == Spec => []PrefixExact
BY SoundAlways, SoundPrefix, PTL

\* No kernel ends with a lock nobody accounts for.
THEOREM AccountedLocks == Spec => []LocksAccounted
BY SoundAlways, SoundAccounts, PTL

\* Tasklets that flip paths at the same time never touch the same node.
THEOREM DisjointFlips == Spec => []FlipsDisjoint
BY SoundAlways, SoundFlipsApart, PTL

\* Between two kernels, and when FindMaximumMatch returns, M is a matching.
THEOREM ReturnsMatching == Spec => []MatingBetween
BY SoundAlways, SoundMating, PTL

\* One window begins where the other ends, so the frontier has no gaps and a
\* kernel that appends never writes into the other window.
WindowsMeet ==
  /\ queue.b1 <= queue.e1 /\ queue.b2 <= queue.e2
  /\ queue.b1 = queue.e2 \/ queue.b2 = queue.e1
  /\ phase = "expand" => queue.b1 = queue.e2
  /\ phase = "transform" => queue.b2 = queue.e1

\* The two windows of the queue adjoin in every state.
THEOREM WindowsAdjoin == Spec => []WindowsMeet
<1>1. Sound => WindowsMeet
  BY DEF Sound, QueueSound, WindowsMeet
<1>2. QED
  BY <1>1, SoundAlways, PTL

-----------------------------------------------------------------------------
(***************************************************************************)
(* Why the matching is maximum: between two kernels nothing is overlooked. *)
(***************************************************************************)
\* Every live edge out of the frontier is some tasklet's.
LEMMA TaskletsCover ==
  ASSUME StateTyped, QueueSound, phase # "init", NEW live, NEW presum,
         engine.level # "nodes" => presum = ExclusiveScan(Frontier(queue)),
         NEW x \in Range(Frontier(queue)), NEW w \in Node, IsAdjacent(adj, x, w),
         NEW e, e = <<x, w>>, e \in live
  PROVE  \E work \in Tasklets(queue, presum, live) : /\ e \in Range(work)
                                                     /\ engine.level = "edges" => work = <<e>>
<1> DEFINE f == Frontier(queue)
<1>0. QueueTyped(queue) /\ adj \in [Node -> Seq(Node)]
  BY DEF StateTyped, QueueTyped, ForestTypeOK
<1>1. f \in Seq(Node) /\ Len(f) = Size(queue) /\ DOMAIN f = 1 .. Len(f) /\ x \in Node
  <2>1. f \in Seq(Node) /\ Len(f) = Size(queue)
    BY <1>0, FrontierFacts
  <2>2. QED
    BY <2>1, ElementOfSeq, LenProperties DEF Range
<1>2. Row(adj, x) \in Seq(Node \X Node) /\ e \in Range(Row(adj, x))
  <2>1. adj[x] \in Seq(Node) /\ DOMAIN adj[x] = 1 .. Len(adj[x])
    BY <1>0, <1>1, LenProperties
  <2>2. PICK j \in 1 .. Len(adj[x]) : adj[x][j] = w
    BY <2>1 DEF IsAdjacent
  <2>3. Row(adj, x)[j] = e /\ j \in DOMAIN Row(adj, x)
    BY <2>2 DEF Row
  <2>4. QED
    BY <1>0, <1>1, <2>3, RowFacts DEF Range
<1>3. CASE ByEdge(queue, presum)
  <2>1. engine.level # "nodes"
    BY <1>3 DEF ByEdge
  <2>2. /\ EdgesOf(queue, presum) = FlattenSeq(Rows(f))
        /\ Rows(f) \in Seq(Seq(Node \X Node)) /\ Len(Rows(f)) = Len(f)
    BY <1>0, <1>1, <2>1, EdgesExact
  <2>3. PICK i \in 1 .. Len(f) : f[i] = x
    BY <1>1 DEF Range
  <2>4. Rows(f)[i] = Row(adj, x)
    BY <1>1, <2>3 DEF Rows
  <2>5. e \in Range(FlattenSeq(Rows(f)))
    BY <1>2, <2>2, <2>3, <2>4, FlattenFacts
  <2>6. e \in ToSet(EdgesOf(queue, presum)) \cap live
    BY <2>2, <2>5 DEF ToSet, Range
  <2>7. <<e>> \in Tasklets(queue, presum, live)
    BY <1>3, <2>6 DEF Tasklets
  <2>8. e \in Range(<<e>>)
    BY DEF Range
  <2>9. QED
    BY <2>7, <2>8
<1>4. CASE ~ByEdge(queue, presum)
  <2>1. PICK S : S = Node \X Node
    OBVIOUS
  <2>2. e \in Range(Among(Row(adj, x), live))
    BY <1>2, <2>1, AmongFacts
  <2>3. Among(Row(adj, x), live) # <<>>
    BY <2>2 DEF Range
  <2>4. x \in ToSet(f)
    BY DEF ToSet, Range
  <2>5. Among(Row(adj, x), live) \in Tasklets(queue, presum, live)
    BY <1>4, <2>3, <2>4 DEF Tasklets
  <2>6. engine.level # "edges"
    BY <1>4 DEF ByEdge
  <2>7. QED
    BY <2>2, <2>5, <2>6
<1>5. QED
  BY <1>3, <1>4

\* Whose turn is over or is in the frontier.
LEMMA PassedSplit ==
  ASSUME QueueTyped(queue), QueueSound, phase # "init", NEW x \in Passed(End(queue))
  PROVE  x \in Passed(Begin(queue)) \/ x \in Range(Frontier(queue))
<1>1. /\ Begin(queue) \in Nat /\ Size(queue) \in Nat
      /\ Begin(queue) + Size(queue) = End(queue)
  BY FrontierFacts
<1>2. PICK i \in 0 .. (End(queue) - 1) : x = queue.slots[i]
  BY DEF Passed
<1>3. PICK b, n : b = Begin(queue) /\ n = Size(queue)
  OBVIOUS
<1>4. i \in Nat /\ (i < b \/ (i - b + 1 \in 1 .. n /\ b + (i - b + 1) - 1 = i))
  BY <1>1, <1>2, <1>3
<1>5. CASE i < b
  <2>1. i \in 0 .. (b - 1)
    BY <1>1, <1>3, <1>4, <1>5
  <2>2. QED
    BY <1>2, <1>3, <2>1 DEF Passed
<1>6. CASE i - b + 1 \in 1 .. n /\ b + (i - b + 1) - 1 = i
  <2>1. PICK k : k = i - b + 1
    OBVIOUS
  <2>2. k \in 1 .. n /\ b + k - 1 = i
    BY <1>6, <2>1
  <2>3. Frontier(queue)[k] = queue.slots[i] /\ k \in DOMAIN Frontier(queue)
    BY <1>3, <2>2 DEF Frontier
  <2>4. QED
    BY <1>2, <2>3 DEF Range
<1>7. QED
  BY <1>4, <1>5, <1>6

\* Between two kernels the forest is seen the same.
LEMMA HostViews ==
  ASSUME UNCHANGED forestVars, queue'.slots = queue.slots
  PROVE  /\ EvenNodes' = EvenNodes
         /\ \A x, z, T : Reaches(x, z, T)' <=> Reaches(x, z, T)
         /\ \A x, y, T : Merged(x, y, T)' <=> Merged(x, y, T)
         /\ \A n : /\ Passed(n)' = Passed(n) /\ LeadOn(n)' = LeadOn(n)
                   /\ Unbridged(n)' = Unbridged(n)
<1>1. UNCHANGED <<adj, M, is_even, belongs, path_table>>
  BY DEF forestVars
<1>2. EvenNodes' = EvenNodes
  BY <1>1 DEF EvenNodes, EvenNode
<1>3. \A x, z, T : Reaches(x, z, T)' <=> Reaches(x, z, T)
  BY <1>1, <1>2 DEF Reaches, Bright
<1>4. \A x, y, T : Merged(x, y, T)' <=> Merged(x, y, T)
  BY <1>2, <1>3 DEF Merged
<1>5. \A n : Passed(n)' = Passed(n)
  BY DEF Passed
<1>6. \A n : LeadOn(n)' = LeadOn(n) /\ Unbridged(n)' = Unbridged(n)
  BY <1>1, <1>5 DEF LeadOn, Unbridged
<1>7. QED
  BY <1>2, <1>3, <1>4, <1>5, <1>6

\* And the blossoms, when no node is about to turn.
LEMMA HostMerged ==
  ASSUME UNCHANGED forestVars, queue'.slots = queue.slots,
         Turning = {}, Turning' = {}, Turns' = {}, MatesMerged,
         \A x \in Node : Standing(x)' => Standing(x)
  PROVE  MatesMerged' /\ \A n : Shrunk(n)' <=> Shrunk(n)
<1>1. UNCHANGED <<adj, M, is_even, belongs, path_table>>
  BY DEF forestVars
<1>2. /\ EvenNodes' = EvenNodes
      /\ \A x, y : Merged(x, y, {})' <=> Merged(x, y, {})
      /\ \A n : Passed(n)' = Passed(n)
  BY HostViews
<1>3. PICK T1, T2 : T1 = Turning /\ T2 = Turning'
  OBVIOUS
<1>4. \A x, y : Merged(x, y, Turning)' <=> Merged(x, y, Turning)
  <2>1. \A x, y : Merged(x, y, T2)' <=> Merged(x, y, T1)
    BY <1>2, <1>3
  <2>2. QED
    BY <1>3, <2>1
<1>5. \A x \in Node : OddNode(x)' <=> OddNode(x)
  BY <1>1 DEF OddNode
<1>6. EvenNodes \subseteq Node
  BY DEF EvenNodes
<1>7. MatesMerged'
  BY <1>1, <1>2, <1>4, <1>5, <1>6 DEF MatesMerged
<1>8. QED
  BY <1>1, <1>2, <1>4, <1>7 DEF Shrunk

\* Which nodes there are in the windows.
LEMMA WindowFacts ==
  ASSUME Sound, phase # "init"
  PROVE  /\ QueueTyped(queue) /\ QueueSound /\ StateTyped
         /\ queue.b1 \in Nat /\ queue.b2 \in Nat /\ queue.e1 \in Nat /\ queue.e2 \in Nat
         /\ End(queue) \in Nat /\ Begin(queue) \in Nat
         /\ phase = "expand" => Begin(queue) = queue.b2 /\ End(queue) = queue.e1
         /\ phase # "expand" => Begin(queue) = queue.b1 /\ End(queue) = queue.e2
         /\ queue.b1 <= End(queue) /\ queue.b2 <= End(queue)
         /\ Passed(queue.b1) \subseteq EvenNodes /\ Passed(queue.b2) \subseteq EvenNodes
         /\ Passed(End(queue)) \subseteq EvenNodes
<1>1. QueueTyped(queue) /\ QueueSound /\ StateTyped /\ \A x \in Range(Slots) : EvenNode(x)
  BY SoundParts DEF QueueSound
<1>2. /\ queue.b1 \in Nat /\ queue.b2 \in Nat /\ queue.e1 \in Nat /\ queue.e2 \in Nat
      /\ queue.b1 <= queue.e1 /\ queue.b2 <= queue.e2
      /\ phase = "expand" => queue.b1 = queue.e2
      /\ phase # "expand" => queue.b2 = queue.e1
  BY <1>1, NodesAssumption DEF QueueTyped, QueueSound
<1>3. /\ phase = "expand" => Begin(queue) = queue.b2 /\ End(queue) = queue.e1
      /\ phase # "expand" => Begin(queue) = queue.b1 /\ End(queue) = queue.e2
      /\ queue.b1 <= End(queue) /\ queue.b2 <= End(queue) /\ End(queue) <= End(queue)
  BY <1>2 DEF Begin, End
<1>4. End(queue) \in Nat /\ Begin(queue) \in Nat
  BY <1>1, FrontierFacts, SlotsFacts
<1>5. /\ Passed(queue.b1) \subseteq EvenNodes /\ Passed(queue.b2) \subseteq EvenNodes
      /\ Passed(End(queue)) \subseteq EvenNodes
  BY <1>1, <1>2, <1>3, <1>4, PassedEven
<1>6. QED
  BY <1>1, <1>2, <1>3, <1>4, <1>5

\* FindMaximumMatch: the search goes on, or the windows have run empty.
LEMMA LoopThorough ==
  ASSUME Sound, Thorough, Loop
  PROVE  Thorough'
<1> DEFINE cache == PrepareEdgePrefix(edge_prefix_cache, queue)
<1>0. /\ phase = "loop" /\ exhausted' = IsExhausted
      /\ UNCHANGED <<deviceVars, queue, found, engine>>
  BY DEF Loop
<1>1. todo = {} /\ running = {} /\ ~exhausted
  BY <1>0 DEF Sound, TaskletsPlaced, Kernels, Thorough, Searched
<1>2. UNCHANGED forestVars /\ queue' = queue /\ atomic_locks_tree' = atomic_locks_tree /\ belongs' = belongs
  BY <1>0 DEF deviceVars, lockVars, forestVars
<1>3. phase' = "returned" \/ phase' = "augment"
  BY DEF Loop, Launch
<1>4. running' = {}
  BY <1>1 DEF Loop, Launch, kernelVars
<1>5. MatesMerged' /\ \A n : Shrunk(n)' <=> Shrunk(n)
  <2>1. Turning = {} /\ Turning' = {} /\ Turns' = {}
    BY <1>0, <1>3 DEF Turning, Turns
  <2>2. \A x \in Node : Standing(x)' => Standing(x)
    BY <1>0, <1>1, <1>2, <1>3, <1>4 DEF Standing, Whole, Taken, Holders, At
  <2>3. QED
    BY <1>2, <2>1, <2>2, HostMerged DEF Thorough
<1>6. /\ EvenNodes' = EvenNodes
      /\ \A n : Passed(n)' = Passed(n) /\ LeadOn(n)' = LeadOn(n) /\ Unbridged(n)' = Unbridged(n)
  BY <1>2, HostViews
<1>7. PICK b1, b2, e : b1 = queue.b1 /\ b2 = queue.b2 /\ e = End(queue)
  OBVIOUS
<1>8. queue'.b1 = b1 /\ queue'.b2 = b2 /\ End(queue)' = e
  BY <1>2, <1>7
<1>9. EvenNodes \subseteq Passed(e) /\ Unbridged(b1) /\ LeadOn(b1) /\ (Tame => Shrunk(b2))
  BY <1>0, <1>7 DEF Thorough, Searched
<1>10. Tame' <=> Tame
  BY <1>0, <1>2 DEF Tame, forestVars
<1>11. exhausted' => phase' = "returned" /\ Size(queue) = 0
  BY <1>0, <1>1 DEF Loop, IsExhausted
<1>12. phase' = "returned" => exhausted'
  BY DEF Loop, Launch
<1>13. Searched'
  <2>1. Size(queue)' = Size(queue)
    BY <1>2
  <2>2. QED
    BY <1>3, <1>5, <1>6, <1>8, <1>9, <1>10, <1>11, <1>12, <2>1 DEF Searched
<1>14. RaceWon'
  <2>1. SUFFICES ASSUME phase' = "augment", todo' = {} PROVE Unbridged(e)
    <3>1. At("release")' = {}
      BY <1>4 DEF At
    <3>2. QED
      BY <1>4, <1>6, <1>8, <2>1, <3>1 DEF RaceWon
  <2>2. todo' = Tasklets(queue, cache.presum, Bridges)
    BY <2>1 DEF Loop, Launch
  <2>3. /\ QueueTyped(queue) /\ QueueSound /\ StateTyped /\ CacheSound
        /\ Begin(queue) = b1 /\ Passed(e) \subseteq EvenNodes
    BY <1>0, <1>7, WindowFacts DEF Sound
  <2>4. engine.level # "nodes" => cache.presum = ExclusiveScan(Frontier(queue))
    BY <1>0, <2>3, PreparedScan
  <2>5. ASSUME NEW x \in Range(Frontier(queue)), NEW w \in EvenNodes, x \in EvenNodes, IsAdjacent(adj, x, w)
        PROVE  belongs[x] = belongs[w]
    <3>1. CASE belongs[x] # belongs[w]
      <4>1. <<x, w>> \in Bridges /\ w \in Node
        BY <2>5, <3>1 DEF Bridges, IsBridge, EvenNodes, EvenNode
      <4>2. \E work \in Tasklets(queue, cache.presum, Bridges) : <<x, w>> \in Range(work)
        BY <1>0, <2>3, <2>4, <2>5, <4>1, TaskletsCover
      <4>3. QED
        BY <2>1, <2>2, <4>2
    <3>2. QED
      BY <3>1
  <2>6. SUFFICES ASSUME NEW x \in Passed(e), NEW w \in Passed(e), IsAdjacent(adj, x, w)
                 PROVE  belongs[x] = belongs[w]
    BY DEF Unbridged
  <2>7. /\ x \in Passed(b1) \/ x \in Range(Frontier(queue))
        /\ w \in Passed(b1) \/ w \in Range(Frontier(queue))
    BY <1>0, <1>7, <2>3, PassedSplit
  <2>8. x \in EvenNodes /\ w \in EvenNodes /\ IsAdjacent(adj, w, x)
    <3>1. x \in EvenNodes /\ w \in EvenNodes /\ x \in Node /\ w \in Node
      BY <2>3 DEF EvenNodes
    <3>2. IsUndirected(adj)
      BY DEF Sound
    <3>3. QED
      BY <2>6, <3>1, <3>2 DEF IsUndirected, IsAdjacent, Range
  <2>9. QED
    BY <1>9, <2>5, <2>6, <2>7, <2>8 DEF Unbridged
<1>15. Heading'
  BY <1>3 DEF Heading
<1>16. QED
  BY <1>5, <1>13, <1>14, <1>15 DEF Thorough

\* The augment kernel has found paths: the trees they are in are no trees any more.
LEMMA PathsFoundThorough ==
  ASSUME Sound, Thorough, EndAugment, found
  PROVE  Thorough'
<1>0. /\ phase = "augment" /\ phase' = "init" /\ running = {}
      /\ queue' = queue
      /\ UNCHANGED <<deviceVars, found, engine, exhausted>>
  BY DEF EndAugment, KernelDone, kernelVars
<1>1. /\ UNCHANGED forestVars /\ M' = M /\ belongs' = belongs
      /\ M \in [Node -> Node \cup {NoNode}] /\ belongs \in [Node -> Node \cup {NoNode}]
  BY <1>0, SoundParts DEF deviceVars, forestVars, StateTyped, ForestTypeOK
<1>2. \A r \in Node : Taken(r) => M[r] # NoNode
  <2>1. \A r : ~Unflipped(r)
    BY <1>0 DEF Unflipped, Pending, At
  <2>2. QED
    BY <1>0, <2>1 DEF Sound, LocksSound
<1>3. \A x \in Node : Standing(x)' => Standing(x)
  <2>1. SUFFICES ASSUME NEW x \in Node, M[x] # NoNode, belongs[x] # NoNode, M[belongs[x]] = NoNode
                 PROVE  Whole(x)
    BY <1>0, <1>1 DEF Standing, InValidTree
  <2>2. belongs[x] \in Node
    BY <1>1, <2>1
  <2>3. QED
    BY <1>2, <2>1, <2>2 DEF Whole
<1>4. MatesMerged'
  <2>1. Turning = {} /\ Turning' = {} /\ Turns' = {}
    BY <1>0 DEF Turning, Turns
  <2>2. QED
    BY <1>0, <1>1, <1>3, <2>1, HostMerged DEF Thorough
<1>5. Searched'
  BY <1>0 DEF Thorough, Searched
<1>6. RaceWon' /\ Heading'
  BY <1>0 DEF RaceWon, Heading
<1>7. QED
  BY <1>4, <1>5, <1>6 DEF Thorough

\* It has found none: then no edge bridges two trees, and those that lead out of
\* the trees are looked at.
LEMMA NoPathThorough ==
  ASSUME Sound, Thorough, EndAugment, ~found
  PROVE  Thorough'
<1> DEFINE cache == PrepareEdgePrefix(edge_prefix_cache, queue)
<1>0. /\ phase = "augment" /\ phase' = "expand" /\ todo = {} /\ running = {}
      /\ queue' = PrepareForAppendingENode1(queue)
      /\ todo' = Tasklets(queue, cache.presum, Outward) /\ running' = running
      /\ UNCHANGED <<deviceVars, found, engine, exhausted>>
  BY DEF EndAugment, Launch, KernelDone
<1>1. /\ UNCHANGED forestVars /\ adj' = adj /\ belongs' = belongs
      /\ atomic_locks_tree' = atomic_locks_tree
  BY <1>0 DEF deviceVars, forestVars, lockVars
<1>2. /\ QueueTyped(queue) /\ QueueSound /\ StateTyped /\ CacheSound /\ IsQueue(queue)
      /\ queue.b1 \in Nat /\ queue.b2 \in Nat /\ queue.e1 \in Nat /\ queue.e2 \in Nat
      /\ Begin(queue) = queue.b1 /\ End(queue) = queue.e2
      /\ Passed(End(queue)) \subseteq EvenNodes
  BY <1>0, SoundParts, WindowFacts
<1>3. PICK b1, b2, e : b1 = queue.b1 /\ b2 = queue.b2 /\ e = End(queue)
  OBVIOUS
<1>4. queue'.slots = queue.slots /\ queue'.b1 = e /\ queue'.b2 = b2 /\ End(queue)' = e
  <2>1. /\ IsQueue(queue') /\ queue'.b1 = queue.e2 /\ queue'.e1 = queue.e2
        /\ queue'.b2 = queue.b2 /\ queue'.e2 = queue.e2
    BY <1>0, <1>2, Moved1
  <2>2. queue'.slots = queue.slots
    BY <1>0, <1>2, SlotsOf
  <2>3. QED
    BY <1>2, <1>3, <2>1, <2>2 DEF End
<1>5. Unbridged(e) /\ LeadOn(b1) /\ EvenNodes \subseteq Passed(e) /\ (Tame => Shrunk(b2)) /\ ~exhausted
  <2>1. ~Evidence
    BY <1>0 DEF Evidence, At
  <2>2. QED
    BY <1>0, <1>3, <2>1 DEF Thorough, RaceWon, Searched
<1>6. MatesMerged' /\ \A n : Shrunk(n)' <=> Shrunk(n)
  <2>1. Turning = {} /\ Turning' = {} /\ Turns' = {}
    BY <1>0 DEF Turning, Turns
  <2>2. \A x \in Node : Standing(x)' => Standing(x)
    BY <1>0, <1>1 DEF Standing, Whole, Taken, Holders, At
  <2>3. QED
    BY <1>1, <1>4, <2>1, <2>2, HostMerged DEF Thorough
<1>7. /\ EvenNodes' = EvenNodes
      /\ \A n : Passed(n)' = Passed(n) /\ LeadOn(n)' = LeadOn(n) /\ Unbridged(n)' = Unbridged(n)
  BY <1>1, <1>4, HostViews
<1>8. Searched'
  <2>1. Tame' <=> Tame
    BY <1>0, <1>1 DEF Tame
  <2>2. QED
    BY <1>0, <1>4, <1>5, <1>6, <1>7, <2>1 DEF Searched
<1>9. Heading'
  <2>1. engine.level # "nodes" => cache.presum = ExclusiveScan(Frontier(queue))
    BY <1>0, <1>2, PreparedScan
  <2>2. SUFFICES ASSUME NEW x \in Passed(e), NEW w \in Node, IsAdjacent(adj, x, w), belongs[w] = NoNode
                 PROVE  \E work \in Works' : <<x, w>> \in Range(work)
    BY <1>1, <1>4, <1>7 DEF Heading
  <2>3. x \in Range(Frontier(queue))
    <3>1. x \in Passed(b1) \/ x \in Range(Frontier(queue))
      BY <1>0, <1>2, <1>3, <2>2, PassedSplit
    <3>2. QED
      BY <1>5, <2>2, <3>1 DEF LeadOn
  <2>4. <<x, w>> \in Outward
    BY <1>2, <1>3, <2>2 DEF Outward, EvenNodes
  <2>5. \E work \in Tasklets(queue, cache.presum, Outward) : <<x, w>> \in Range(work)
    BY <1>0, <1>2, <2>1, <2>2, <2>3, <2>4, TaskletsCover
  <2>6. QED
    BY <1>0, <2>5 DEF Works
<1>10. RaceWon'
  BY <1>0 DEF RaceWon
<1>11. QED
  BY <1>6, <1>8, <1>9, <1>10 DEF Thorough

\* The transform kernel is over: no node is about to turn.
LEMMA EndTransformThorough ==
  ASSUME Sound, Thorough, EndTransform
  PROVE  Thorough'
<1>0. /\ phase = "transform" /\ phase' = "loop" /\ todo = {} /\ running = {}
      /\ queue' = queue
      /\ UNCHANGED <<deviceVars, found, engine, exhausted>>
  BY DEF EndTransform, KernelDone, kernelVars
<1>1. /\ UNCHANGED forestVars /\ adj' = adj /\ belongs' = belongs
      /\ atomic_locks_tree' = atomic_locks_tree /\ running' = {}
  BY <1>0 DEF deviceVars, forestVars, lockVars, EndTransform, kernelVars
<1>2. MatesMerged' /\ \A n : Shrunk(n)' <=> Shrunk(n)
  <2>1. Turning = {} /\ Turning' = {} /\ Turns' = {}
    BY <1>0 DEF Turning, Turns, Works
  <2>2. \A x \in Node : Standing(x)' => Standing(x)
    BY <1>0, <1>1 DEF Standing, Whole, Taken, Holders, At
  <2>3. QED
    BY <1>0, <1>1, <2>1, <2>2, HostMerged DEF Thorough
<1>3. /\ EvenNodes' = EvenNodes
      /\ \A n : Passed(n)' = Passed(n) /\ LeadOn(n)' = LeadOn(n) /\ Unbridged(n)' = Unbridged(n)
  BY <1>0, <1>1, HostViews
<1>4. Searched'
  <2>1. Tame' <=> Tame
    BY <1>0, <1>1 DEF Tame
  <2>2. PICK b1, b2, e : b1 = queue.b1 /\ b2 = queue.b2 /\ e = End(queue)
    OBVIOUS
  <2>3. queue'.b1 = b1 /\ queue'.b2 = b2 /\ End(queue)' = e
    BY <1>0, <2>2
  <2>4. EvenNodes \subseteq Passed(e) /\ Unbridged(b1) /\ LeadOn(b1) /\ (Tame => Shrunk(b2)) /\ ~exhausted
    BY <1>0, <2>2 DEF Thorough, Searched
  <2>5. QED
    BY <1>0, <1>2, <1>3, <2>1, <2>3, <2>4 DEF Searched
<1>5. RaceWon' /\ Heading'
  BY <1>0 DEF RaceWon, Heading
<1>6. QED
  BY <1>2, <1>4, <1>5 DEF Thorough

-----------------------------------------------------------------------------
(***************************************************************************)
(* A blossom whose odd nodes are about to turn is shrunk.                  *)
(***************************************************************************)
\* The odd nodes of a side are about to turn.
LEMMA SideBright ==
  ASSUME ForestTypeOK, NEW v \in Node, NEW w \in Node, NEW p, NEW q, NEW base,
         Side(v, w, p, q, base), Side(w, v, q, p, base),
         NEW works, TurnsOf(p, q) \subseteq works
  PROVE  Range(p) \ EvenNodes \subseteq {u[1] : u \in works}
<1>1. SUFFICES ASSUME NEW x \in Range(p) \ EvenNodes
               PROVE  x \in {u[1] : u \in works}
  OBVIOUS
<1>2. p \in Path /\ q \in Path /\ Len(p) \in Nat
  BY DEF Side
<1>3. PICK l \in 2 .. (Len(p) - 1) : l % 2 = 0 /\ p[l] = x
  BY <1>1 DEF Side
<1>4. l \in 1 .. Len(p)
  BY <1>2, <1>3
<1>5. TurnOf(Back(p, l) \o q, v, w, p, q, l)
  BY <1>2, <1>4, TurnFacts
<1>6. Back(p, l) \o q \in works
  BY <1>3 DEF TurnsOf
<1>7. QED
  BY <1>3, <1>5, <1>6 DEF TurnOf

\* With them both ends of the edge come to the base.
LEMMA BlossomMerges ==
  ASSUME Hanging, OddsOnce({}), NEW x \in EvenNodes, NEW w \in EvenNodes,
         belongs[w] = belongs[x], NEW works, OddNodes(x, w) \subseteq works,
         NEW T, T = {u[1] : u \in works}
  PROVE  Merged(x, w, T)
<1>0. x \in Node /\ w \in Node /\ path_table \in [Node -> Seq(Node)] /\ ForestTypeOK
  BY DEF EvenNodes, Hanging, ForestTypeOK
<1>1. PICK p, q, base : Side(x, w, p, q, base) /\ Side(w, x, q, p, base)
  BY BlossomSides
<1>2. TurnsOf(p, q) \subseteq works /\ TurnsOf(q, p) \subseteq works
  BY <1>1, OddNodesSplit
<1>3. Range(p) \ EvenNodes \subseteq T /\ Range(q) \ EvenNodes \subseteq T
  BY <1>0, <1>1, <1>2, SideBright
<1>4. Reaches(x, base, T) /\ Reaches(w, base, T)
  BY <1>0, <1>1, <1>3, SideReaches
<1>5. base \in EvenNodes
  BY <1>1 DEF Side
<1>6. QED
  BY <1>4, <1>5 DEF Merged

\* And so does the mate of each.
LEMMA BlossomMates ==
  ASSUME Hanging, Mutual, OddsOnce({}), NEW x \in EvenNodes, NEW w \in EvenNodes,
         belongs[w] = belongs[x], NEW works, OddNodes(x, w) \subseteq works,
         NEW T, T = {u[1] : u \in works},
         NEW work \in OddNodes(x, w), work[1] \notin EvenNodes
  PROVE  Reaches(M[work[1]], Last(work), T)
<1>0. x \in Node /\ w \in Node /\ path_table \in [Node -> Seq(Node)] /\ ForestTypeOK
  BY DEF EvenNodes, Hanging, ForestTypeOK
<1>1. PICK p, q, base : Side(x, w, p, q, base) /\ Side(w, x, q, p, base)
  BY BlossomSides
<1>2. TurnsOf(p, q) \subseteq works /\ TurnsOf(q, p) \subseteq works
      /\ (work \in TurnsOf(p, q) \/ work \in TurnsOf(q, p))
  BY <1>1, OddNodesSplit
<1>3. Range(p) \ EvenNodes \subseteq T /\ Range(q) \ EvenNodes \subseteq T
  BY <1>0, <1>1, <1>2, SideBright
<1>4. CASE work \in TurnsOf(p, q)
  <2>1. PICK m \in {k \in 2 .. (Len(p) - 1) : k % 2 = 0} : work = Back(p, m) \o q
    BY <1>4 DEF TurnsOf
  <2>2. p \in Path /\ q \in Path /\ Len(p) \in Nat /\ Last(q) = base
    BY <1>1 DEF Side
  <2>3. m \in 1 .. Len(p) /\ m \in 2 .. (Len(p) - 1) /\ m % 2 = 0
    BY <2>1, <2>2
  <2>4. TurnOf(work, x, w, p, q, m)
    BY <1>0, <1>1, <2>1, <2>2, <2>3, TurnFacts
  <2>5. work[1] = p[m] /\ Last(work) = base
    BY <2>2, <2>4 DEF TurnOf
  <2>6. Reaches(M[p[m]], base, T)
    BY <1>1, <1>3, <2>3, <2>5, MateReaches
  <2>7. QED
    BY <2>5, <2>6
<1>5. CASE work \in TurnsOf(q, p)
  <2>1. PICK m \in {k \in 2 .. (Len(q) - 1) : k % 2 = 0} : work = Back(q, m) \o p
    BY <1>5 DEF TurnsOf
  <2>2. p \in Path /\ q \in Path /\ Len(q) \in Nat /\ Last(p) = base
    BY <1>1 DEF Side
  <2>3. m \in 1 .. Len(q) /\ m \in 2 .. (Len(q) - 1) /\ m % 2 = 0
    BY <2>1, <2>2
  <2>4. TurnOf(work, w, x, q, p, m)
    BY <1>0, <1>1, <2>1, <2>2, <2>3, TurnFacts
  <2>5. work[1] = q[m] /\ Last(work) = base
    BY <2>2, <2>4 DEF TurnOf
  <2>6. Reaches(M[q[m]], base, T)
    BY <1>1, <1>3, <2>3, <2>5, MateReaches
  <2>7. QED
    BY <2>5, <2>6
<1>6. QED
  BY <1>2, <1>4, <1>5

\* Only a self-loop has no odd node.
LEMMA LoopsShort ==
  ASSUME Hanging, OddsOnce({}), NEW x \in EvenNodes, NEW w \in EvenNodes,
         belongs[w] = belongs[x], x # w, NEW e, e = <<x, w>>
  PROVE  ~NoOddNode(e)
<1>1. PICK p, q, base : Side(x, w, p, q, base) /\ Side(w, x, q, p, base)
  BY BlossomSides
<1>2. Blossom(x, w) = Reverse(p) \o q
  BY <1>1, OddNodesSplit
<1>3. /\ p \in Path /\ q \in Path /\ Len(p) \in Nat \ {0} /\ Len(q) \in Nat \ {0}
      /\ Len(p) % 2 = 1 /\ Len(q) % 2 = 1 /\ p[1] = x /\ q[1] = w
      /\ Last(p) = base /\ Last(q) = base
  BY <1>1 DEF Side
<1>4. Len(Reverse(p) \o q) = Len(p) + Len(q)
  <2>1. p \in Seq(Node) /\ q \in Seq(Node) /\ Reverse(p) \in Seq(Node)
    BY <1>3, ReverseRange DEF Path
  <2>2. Len(Reverse(p)) = Len(p)
    <3>1. DOMAIN Reverse(p) = 1 .. Len(p)
      BY <2>1, LenProperties DEF Reverse
    <3>2. DOMAIN Reverse(p) = 1 .. Len(Reverse(p)) /\ Len(Reverse(p)) \in Nat /\ Len(p) \in Nat
      BY <2>1, LenProperties
    <3>3. QED
      BY <3>1, <3>2
  <2>3. Len(Reverse(p) \o q) = Len(Reverse(p)) + Len(q)
    BY <2>1, ConcatProperties
  <2>4. QED
    BY <2>2, <2>3
<1>5. SUFFICES ASSUME (Len(p) + Len(q) - 2) \div 2 = 0
               PROVE  FALSE
  BY <1>2, <1>4 DEF NoOddNode
<1>6. \A m, n \in Nat \ {0} : m % 2 = 1 /\ n % 2 = 1 /\ (m + n - 2) \div 2 = 0 => m = 1 /\ n = 1
  OBVIOUS
<1>7. Len(p) = 1 /\ Len(q) = 1
  BY <1>3, <1>5, <1>6
<1>8. QED
  BY <1>3, <1>7 DEF Last

\* Tasklets that meet no self-loop look at all of their edges.
LEMMA ReturnKeeps ==
  ASSUME Hanging, OddsOnce({}), Tame, NEW work, EdgeWork(work),
         \A d \in Range(work) : d \in Inward /\ is_even[d[2]] = 1,
         NEW e \in Range(work), e[1] # e[2], engine.level = "edges" => work = <<e>>
  PROVE  e \in ToSet(UpToReturn(work))
<1>1. PICK S : S = Node \X Node
  OBVIOUS
<1>2. work \in Seq(S) /\ DOMAIN work = 1 .. Len(work) /\ \A i \in DOMAIN work : work[i] \in S /\ work[i] \in Range(work)
  BY <1>1, ElementOfSeq, LenProperties DEF EdgeWork, Range
<1>3. ASSUME NEW i \in DOMAIN work
      PROVE  ~NoOddNode(work[i])
  <2>1. /\ work[i] \in Node \X Node /\ EvenNode(work[i][1]) /\ IsAdjacent(adj, work[i][1], work[i][2])
        /\ SameTree(work[i][1], work[i][2]) /\ is_even[work[i][2]] = 1
    BY <1>1, <1>2 DEF EdgeWork, Inward
  <2>2. PICK x, w \in Node : x = work[i][1] /\ w = work[i][2] /\ work[i] = <<x, w>>
    BY <2>1
  <2>3. x \in EvenNodes /\ w \in EvenNodes /\ belongs[w] = belongs[x] /\ IsAdjacent(adj, x, w)
    BY <2>1, <2>2 DEF EvenNodes, EvenNode, SameTree
  <2>4. x # w
    <3>1. CASE engine.level = "edges"
      <4>1. work[i] = e
        BY <1>2, <3>1 DEF Range
      <4>2. QED
        BY <2>2, <4>1
    <3>2. CASE engine.level # "edges"
      BY <2>3, <3>2 DEF Tame
    <3>3. QED
      BY <3>1, <3>2
  <2>5. QED
    BY <2>2, <2>3, <2>4, LoopsShort
<1>4. PICK T : /\ T = {d \in ToSet(work) : \A i \in {j \in DOMAIN work : NoOddNode(work[j])} :
                                             \A j \in DOMAIN work : work[j] = d => j < i}
               /\ UpToReturn(work) = Among(work, T)
  BY DEF UpToReturn
<1>5. e \in T
  BY <1>3, <1>4 DEF ToSet, Range
<1>6. e \in Range(Among(work, T))
  BY <1>2, <1>5, AmongFacts
<1>7. QED
  BY <1>4, <1>6 DEF ToSet, Range

\* With more nodes about to turn there is no less to come to.
LEMMA MergedMore ==
  ASSUME NEW x, NEW y, NEW T, Merged(x, y, {})
  PROVE  Merged(x, y, T) /\ Merged(y, x, T)
<1>1. \A a, z : Reaches(a, z, {}) => Reaches(a, z, T)
  BY DEF Reaches, Bright
<1>2. QED
  BY <1>1 DEF Merged

\* The blossom kernels take every edge out of the frontier into the same tree.
LEMMA FrontierMerges ==
  ASSUME StateTyped, QueueSound, IsUndirected(adj), Settled, EntriesPlain, phase # "init", Tame,
         MatesSettled, Turning = {},
         NEW presum, engine.level # "nodes" => presum = ExclusiveScan(Frontier(queue)),
         NEW works, works = Transforms(queue, presum), NEW T, T = {u[1] : u \in works},
         NEW x \in EvenNodes, NEW w \in EvenNodes, IsAdjacent(adj, x, w), belongs[x] = belongs[w],
         x \in Range(Frontier(queue))
  PROVE  Merged(x, w, T)
<1>0. ForestTypeOK /\ path_table \in [Node -> Seq(Node)] /\ x \in Node /\ w \in Node
  BY DEF StateTyped, ForestTypeOK, EvenNodes
<1>1. Hanging /\ OddsOnce({})
  BY <1>0, SettledHanging DEF EntriesPlain
<1>2. CASE x = w
  BY <1>0, <1>2, ReachesSelf DEF Merged
<1>3. CASE M[x] = w
  BY <1>3, MergedMore DEF MatesSettled
<1>4. CASE x # w /\ M[x] # w
  <2>1. PICK live : live = {d \in Inward : is_even[d[2]] = 1}
    OBVIOUS
  <2>2. PICK e : e = <<x, w>>
    OBVIOUS
  <2>3. e \in live /\ e[1] # e[2] /\ e[1] = x /\ e[2] = w
    <3>1. SameTree(x, w) /\ is_even[w] = 1
      BY <1>4 DEF SameTree, EvenNodes, EvenNode
    <3>2. QED
      BY <1>0, <1>4, <2>1, <2>2, <3>1 DEF Inward
  <2>4. PICK work \in Tasklets(queue, presum, live) : /\ e \in Range(work)
                                                      /\ engine.level = "edges" => work = <<e>>
    BY <1>0, <2>2, <2>3, TaskletsCover
  <2>5. EdgeWork(work) /\ \A d \in Range(work) : d \in live
    BY <2>4, TaskletsSound
  <2>6. e \in ToSet(UpToReturn(work))
    BY <1>1, <2>1, <2>3, <2>4, <2>5, ReturnKeeps
  <2>7. e \in BlossomsOf(queue, presum)
    BY <2>1, <2>4, <2>6 DEF BlossomsOf
  <2>8. OddNodes(x, w) \subseteq works
    BY <2>3, <2>7 DEF Transforms
  <2>9. QED
    BY <1>1, <2>8, BlossomMerges
<1>5. QED
  BY <1>2, <1>3, <1>4

\* Then every edge of the queue inside of a tree is inside of a blossom.
LEMMA QueueMerges ==
  ASSUME Sound, Thorough, phase = "expand", KernelDone, Tame,
         NEW presum, engine.level # "nodes" => presum = ExclusiveScan(Frontier(queue)),
         NEW works, works = Transforms(queue, presum), NEW T, T = {u[1] : u \in works},
         NEW x \in Passed(End(queue)), NEW w \in Passed(End(queue)),
         IsAdjacent(adj, x, w), belongs[x] = belongs[w]
  PROVE  Merged(x, w, T)
<1>1. /\ StateTyped /\ QueueSound /\ IsUndirected(adj) /\ Settled /\ EntriesPlain /\ QueueTyped(queue)
      /\ MatesSettled /\ Turning = {} /\ Shrunk(Begin(queue))
  <2>1. StateTyped /\ QueueSound /\ IsUndirected(adj) /\ QueueTyped(queue) /\ Begin(queue) = queue.b2
    BY WindowFacts DEF Sound
  <2>2. Settled /\ EntriesPlain
    BY GrownSettled, PlainEntries DEF Sound
  <2>3. MatesSettled
    <3>1. belongs \in [Node -> Node \cup {NoNode}]
      BY <2>1 DEF StateTyped, ForestTypeOK
    <3>2. QED
      BY <2>2, <3>1, SettledMates DEF Thorough
  <2>4. Turning = {}
    BY DEF Turning
  <2>5. QED
    BY <2>1, <2>2, <2>3, <2>4 DEF Thorough, Searched
<1>2. x \in EvenNodes /\ w \in EvenNodes /\ x \in Node /\ w \in Node
  BY WindowFacts DEF EvenNodes
<1>3. IsAdjacent(adj, w, x)
  BY <1>1, <1>2 DEF IsUndirected, IsAdjacent, Range
<1>4. /\ x \in Passed(Begin(queue)) \/ x \in Range(Frontier(queue))
      /\ w \in Passed(Begin(queue)) \/ w \in Range(Frontier(queue))
  BY <1>1, PassedSplit
<1>5. CASE x \in Range(Frontier(queue))
  BY <1>1, <1>2, <1>5, FrontierMerges
<1>6. CASE w \in Range(Frontier(queue))
  <2>1. Merged(w, x, T)
    BY <1>1, <1>2, <1>3, <1>6, FrontierMerges
  <2>2. QED
    BY <2>1 DEF Merged
<1>7. CASE x \in Passed(Begin(queue)) /\ w \in Passed(Begin(queue))
  <2>1. Merged(x, w, {})
    BY <1>1, <1>7 DEF Shrunk
  <2>2. QED
    BY <2>1, MergedMore
<1>8. QED
  BY <1>4, <1>5, <1>6, <1>7

\* The mate of an odd node about to turn comes to its blossom's base.
LEMMA TransformsReach ==
  ASSUME StateTyped, QueueSound, IsUndirected(adj), Settled, EntriesPlain, phase # "init",
         NEW presum, engine.level # "nodes" => presum = ExclusiveScan(Frontier(queue)),
         NEW works, works = Transforms(queue, presum), NEW T, T = {u[1] : u \in works},
         NEW work \in works, is_even[work[1]] = 0
  PROVE  Reaches(M[work[1]], Last(work), T)
<1>0. ForestTypeOK
  BY DEF StateTyped
<1>1. Hanging /\ Mutual
  BY <1>0, SettledHanging DEF Settled, Mutual
<1>2. PICK live : live = {e \in Inward : is_even[e[2]] = 1}
  OBVIOUS
<1>3. PICK e \in BlossomsOf(queue, presum) : work \in OddNodes(e[1], e[2])
  BY DEF Transforms
<1>4. PICK w \in Tasklets(queue, presum, live) : e \in ToSet(UpToReturn(w))
  BY <1>2, <1>3 DEF BlossomsOf
<1>5. EdgeWork(w) /\ \A d \in Range(w) : d \in live
  BY <1>4, TaskletsSound
<1>6. e \in Range(w)
  <2>1. PICK S : S = Node \X Node
    OBVIOUS
  <2>2. w \in Seq(S)
    BY <1>5, <2>1 DEF EdgeWork
  <2>3. PICK A : UpToReturn(w) = Among(w, A)
    BY DEF UpToReturn
  <2>4. e \in Range(Among(w, A))
    BY <1>4, <2>3 DEF ToSet, Range
  <2>5. QED
    BY <2>2, <2>4, AmongFacts
<1>7. /\ EvenNode(e[1]) /\ IsAdjacent(adj, e[1], e[2]) /\ e \in live
  BY <1>5, <1>6 DEF EdgeWork
<1>8. e \in Node \X Node /\ SameTree(e[1], e[2]) /\ is_even[e[2]] = 1
  BY <1>2, <1>7 DEF Inward
<1>9. PICK x, y \in Node : x = e[1] /\ y = e[2]
  BY <1>8
<1>10. x \in EvenNodes /\ y \in EvenNodes /\ belongs[y] = belongs[x]
  BY <1>7, <1>8, <1>9 DEF EvenNodes, EvenNode, SameTree
<1>11. work \in OddNodes(x, y) /\ OddNodes(x, y) \subseteq works /\ work[1] \notin EvenNodes
  BY <1>3, <1>9 DEF Transforms, EvenNodes, EvenNode
<1>12. OddsOnce({})
  BY DEF EntriesPlain
<1>13. QED
  BY <1>1, <1>10, <1>11, <1>12, BlossomMates

\* Every edge of the nodes whose turn is over has been looked at.
LEMMA ExpandedLead ==
  ASSUME Thorough, phase = "expand", KernelDone
  PROVE  LeadOn(queue.b1)
<1>1. Works = {} /\ At("grow") = {}
  BY DEF Works, At, KernelDone
<1>2. Heading
  BY DEF Thorough
<1>3. QED
  BY <1>1, <1>2 DEF Heading, LeadOn

\* The expand kernel is over: no edge leads out of the trees, and every blossom
\* is about to be shrunk.
LEMMA EndExpandThorough ==
  ASSUME Sound, Thorough, EndExpand
  PROVE  Thorough'
<1> DEFINE invalid == InvalidateEdgePrefixCache(edge_prefix_cache)
           cache == PrepareEdgePrefix(invalid, queue)
<1>0. /\ phase = "expand" /\ KernelDone /\ todo = {} /\ running = {}
      /\ UNCHANGED <<deviceVars, found, engine, exhausted>>
  BY DEF EndExpand, KernelDone
<1>1. /\ UNCHANGED forestVars /\ adj' = adj /\ M' = M /\ is_even' = is_even /\ belongs' = belongs
      /\ atomic_locks_tree' = atomic_locks_tree
  BY <1>0 DEF deviceVars, forestVars, lockVars
<1>2. /\ QueueTyped(queue) /\ QueueSound /\ StateTyped /\ CacheSound
      /\ CacheTyped(edge_prefix_cache) /\ IsQueue(queue)
      /\ queue.b1 \in Nat /\ queue.b2 \in Nat /\ queue.e1 \in Nat /\ queue.e2 \in Nat
      /\ Begin(queue) = queue.b2 /\ End(queue) = queue.e1 /\ queue.b1 = queue.e2
      /\ queue.b2 <= queue.e2 /\ queue.b1 <= queue.e1 /\ engine.cached \in BOOLEAN
  <2>1. QueueSound
    BY DEF Sound
  <2>2. QED
    BY <1>0, <2>1, SoundParts, WindowFacts DEF QueueSound
<1>3. PICK b1, b2, e : b1 = queue.b1 /\ b2 = queue.b2 /\ e = End(queue)
  OBVIOUS
<1>4. Unbridged(b1) /\ LeadOn(b1) /\ EvenNodes \subseteq Passed(e) /\ (Tame => Shrunk(b2)) /\ ~exhausted
  BY <1>0, <1>3, ExpandedLead DEF Thorough, Searched
<1>5. (Tame' <=> Tame) /\ RaceWon' /\ Heading' /\ (phase' = "loop" \/ phase' = "transform")
  <2>1. phase' = "loop" \/ phase' = "transform"
    BY DEF EndExpand, Launch
  <2>2. QED
    BY <1>0, <1>1, <2>1 DEF Tame, RaceWon, Heading
<1>6. queue'.slots = queue.slots /\ queue'.b1 = b1 /\ End(queue)' = e /\ queue'.b2 = e
  <2>1. CASE Size(queue) = 0
    <3>1. queue' = queue
      BY <2>1 DEF EndExpand
    <3>2. queue.b2 = End(queue)
      BY <1>2, <2>1 DEF Size
    <3>3. QED
      BY <1>3, <3>1, <3>2
  <2>2. CASE Size(queue) # 0
    <3>0. queue' = PrepareForAppendingENode2(queue)
      BY <2>2 DEF EndExpand
    <3>1. /\ IsQueue(queue') /\ queue'.b2 = queue.e1 /\ queue'.e2 = queue.e1
          /\ queue'.b1 = queue.b1 /\ queue'.e1 = queue.e1
      BY <1>2, <3>0, Moved2
    <3>2. queue'.slots = queue.slots
      BY <1>2, <3>0 DEF PrepareForAppendingENode2, QueueTyped
    <3>3. QED
      BY <1>2, <1>3, <3>1, <3>2 DEF End
  <2>3. QED
    BY <2>1, <2>2
<1>7. /\ EvenNodes' = EvenNodes
      /\ \A x, z, T : Reaches(x, z, T)' <=> Reaches(x, z, T)
      /\ \A x, y, T : Merged(x, y, T)' <=> Merged(x, y, T)
      /\ \A n : Passed(n)' = Passed(n) /\ LeadOn(n)' = LeadOn(n) /\ Unbridged(n)' = Unbridged(n)
  BY <1>1, <1>6, HostViews
<1>8. MatesMerged' /\ (Tame => Shrunk(e)')
  <2>1. CASE Size(queue) = 0
    <3>1. phase' = "loop" /\ running' = {}
      BY <1>0, <2>1 DEF EndExpand, kernelVars
    <3>2. Turning = {} /\ Turning' = {} /\ Turns' = {}
      BY <1>0, <3>1 DEF Turning, Turns
    <3>3. \A x \in Node : Standing(x)' => Standing(x)
      BY <1>0, <1>1, <3>1 DEF Standing, Whole, Taken, Holders, At
    <3>4. MatesMerged' /\ \A n : Shrunk(n)' <=> Shrunk(n)
      BY <1>1, <1>6, <3>2, <3>3, HostMerged DEF Thorough
    <3>5. b2 = e
      BY <1>2, <1>3, <2>1 DEF Size
    <3>6. QED
      BY <1>4, <3>4, <3>5
  <2>2. CASE Size(queue) # 0
    <3>1. /\ phase' = "transform" /\ todo' = Transforms(queue, cache.presum) /\ running' = running
      BY <2>2 DEF EndExpand, Launch
    <3>2. CacheTyped(invalid) /\ ~invalid.valid
      BY <1>2 DEF CacheTyped, InvalidateEdgePrefixCache
    <3>3. engine.level # "nodes" => cache.presum = ExclusiveScan(Frontier(queue))
      BY <1>0, <1>2, <3>2, PreparedScan
    <3>4. PICK works, T, presum : /\ presum = cache.presum /\ works = Transforms(queue, presum)
                                  /\ T = {u[1] : u \in works}
      OBVIOUS
    <3>5. Works' = works /\ Turning' = T /\ Turns' = {work \in works : is_even[work[1]] = 0}
      <4>1. Works' = works
        BY <1>0, <3>1, <3>4 DEF Works
      <4>2. QED
        BY <1>1, <3>1, <3>4, <4>1 DEF Turning, Turns
    <3>6. Settled /\ EntriesPlain /\ IsUndirected(adj) /\ MatesSettled /\ Turning = {}
      <4>1. Settled /\ EntriesPlain /\ IsUndirected(adj)
        BY <1>0, GrownSettled, PlainEntries DEF Sound
      <4>2. belongs \in [Node -> Node \cup {NoNode}]
        BY <1>2 DEF StateTyped, ForestTypeOK
      <4>3. MatesSettled
        BY <1>0, <4>1, <4>2, SettledMates DEF Thorough
      <4>4. Turning = {}
        BY <1>0 DEF Turning
      <4>5. QED
        BY <4>1, <4>3, <4>4
    <3>7. MatesMerged'
      <4>1. \A x \in Node : OddNode(x)' => M'[x] \in EvenNodes'
        BY <1>1, <1>7, <3>6 DEF MatesSettled, OddNode
      <4>2. \A x, y \in EvenNodes : M[x] = y => Merged(x, y, T)
        BY <3>6, MergedMore DEF MatesSettled
      <4>3. \A x, y \in EvenNodes' : M'[x] = y => Merged(x, y, Turning)'
        <5>1. \A x, y \in EvenNodes' : M'[x] = y => Merged(x, y, T)'
          BY <1>1, <1>7, <4>2
        <5>2. QED
          BY <3>5, <5>1
      <4>4. \A work \in Turns' : \A y \in EvenNodes' : M'[work[1]] = y => Reaches(y, Last(work), Turning)'
        <5>1. \A work \in works : is_even[work[1]] = 0 => Reaches(M[work[1]], Last(work), T)
          BY <1>0, <1>2, <3>3, <3>4, <3>6, TransformsReach
        <5>2. \A work \in Turns' : \A y \in EvenNodes' : M'[work[1]] = y => Reaches(y, Last(work), T)'
          BY <1>1, <1>7, <3>5, <5>1
        <5>3. QED
          BY <3>5, <5>2
      <4>5. QED
        BY <4>1, <4>3, <4>4 DEF MatesMerged
    <3>8. ASSUME Tame PROVE Shrunk(e)'
      <4>1. \A x, w \in Passed(e) : IsAdjacent(adj, x, w) /\ belongs[x] = belongs[w] => Merged(x, w, T)
        BY <1>0, <1>3, <3>3, <3>4, <3>8, QueueMerges
      <4>2. \A x, w \in Passed(e)' : IsAdjacent(adj', x, w) /\ belongs'[x] = belongs'[w] => Merged(x, w, T)'
        BY <1>1, <1>7, <4>1
      <4>3. QED
        BY <3>5, <4>2 DEF Shrunk
    <3>9. QED
      BY <3>7, <3>8
  <2>3. QED
    BY <2>1, <2>2
<1>9. Searched'
  <2>1. Shrunk(queue.b2)' <=> Shrunk(e)'
    BY <1>6 DEF Shrunk
  <2>2. QED
    BY <1>0, <1>4, <1>5, <1>6, <1>7, <1>8, <2>1 DEF Searched
<1>10. QED
  BY <1>5, <1>8, <1>9 DEF Thorough

-----------------------------------------------------------------------------
(***************************************************************************)
(* A search starts with what the one before it has left of the forest.     *)
(***************************************************************************)
\* What is kept of a blossom is kept as a whole.
LEMMA KeptReaches ==
  ASSUME ForestTypeOK, Closed, Repaired, Rewalked, NEW x \in Kept, is_even[x] = 1,
         NEW z, Reaches(x, z, {})
  PROVE  Reaches(x, z, {})'
<1>0. /\ path_table \in [Node -> Seq(Node)] /\ x \in Node /\ z \in EvenNodes /\ z \in Node
      /\ Kept \subseteq Node /\ Exposed \subseteq Node
  BY DEF ForestTypeOK, Kept, Exposed, Reaches, EvenNodes
<1>1. PICK p, q : p = Walk(path_table, x) /\ q = Walk(path_table, z)
  OBVIOUS
<1>2. PICK k \in 1 .. Len(p) : /\ p[k] = z /\ p = Link(SubSeq(p, 1, k), q)
                               /\ \A i \in 1 .. k : Bright(p[i], {})
  BY <1>1 DEF Reaches
<1>3. p \in Seq(Node) /\ DOMAIN p = 1 .. Len(p) /\ Len(p) \in Nat
  BY <1>0, <1>1, WalkType, LenProperties DEF Path
<1>4. \A y \in Range(p) : y \in Kept \/ y \in Exposed
  BY <1>1 DEF Closed
<1>5. \A i \in 1 .. Len(p) : p[i] \in Kept \/ p[i] \in Exposed
  BY <1>3, <1>4 DEF Range
<1>6. Walk(path_table', x) = p
  BY <1>1 DEF Rewalked
<1>7. is_even[z] = 1 /\ z \in EvenNodes'
  <2>1. is_even[z] = 1
    BY <1>0 DEF EvenNodes, EvenNode
  <2>2. QED
    BY <1>2, <1>5, <2>1 DEF Rewalked
<1>8. Walk(path_table', z) = q
  <2>1. CASE z \in Kept
    BY <1>1, <1>7, <2>1 DEF Rewalked
  <2>2. CASE z \in Exposed
    <3>1. path_table[z] = <<>>
      BY <2>2 DEF Closed, IsRoot
    <3>2. Walk(path_table, z) = <<z>>
      BY <1>0, <3>1, WalkStays
    <3>3. QED
      BY <1>1, <2>2, <3>2 DEF Rewalked
  <2>3. QED
    BY <1>2, <1>5, <2>1, <2>2
<1>9. \A i \in 1 .. k : Bright(p[i], {})'
  <2>1. SUFFICES ASSUME NEW i \in 1 .. k PROVE is_even'[p[i]] = 1
    BY DEF Bright
  <2>2. i \in 1 .. Len(p) /\ is_even[p[i]] = 1
    BY <1>2, <1>3 DEF Bright
  <2>3. p[i] \in Kept \/ p[i] \in Exposed
    BY <1>5, <2>2
  <2>4. QED
    BY <2>2, <2>3 DEF Repaired
<1>10. QED
  BY <1>2, <1>6, <1>7, <1>8, <1>9 DEF Reaches

\* A fresh root comes to itself.
LEMMA FreshReaches ==
  ASSUME Repaired, Rewalked, NEW x \in Exposed
  PROVE  Reaches(x, x, {})'
<1>1. x \in Node /\ x \in EvenNodes' /\ Walk(path_table', x) = <<x>> /\ is_even'[x] = 1
  BY DEF Exposed, Rewalked, Repaired
<1>2. Len(<<x>>) = 1 /\ <<x>>[1] = x /\ 1 \in 1 .. 1
  OBVIOUS
<1>3. <<x>> = Link(SubSeq(<<x>>, 1, 1), <<x>>)
  BY <1>1 DEF Link
<1>4. \A i \in 1 .. 1 : Bright(<<x>>[i], {})'
  BY <1>1, <1>2 DEF Bright
<1>5. QED
  BY <1>1, <1>2, <1>3, <1>4 DEF Reaches

\* Before the search nothing is overlooked: the frontier is all there is.
LEMMA RepairedThorough ==
  ASSUME Sound, Thorough, InitAlternatingForest
  PROVE  Thorough'
<1>0. /\ phase = "init" /\ phase' = "loop"
      /\ UNCHANGED <<adj, M, engine, exhausted, kernelVars>>
  BY DEF InitAlternatingForest
<1>1. StateTyped /\ ForestTypeOK
  BY SoundParts DEF StateTyped
<1>2. Closed /\ Repaired
  BY <1>0, <1>1, KeptClosed, RepairedForest
<1>3. Rewalked
  BY <1>1, <1>2, RepairedWalks
<1>4. /\ QueueTyped(queue') /\ queue'.b1 = 0 /\ queue'.b2 <= queue'.e2 /\ queue'.b2 = queue'.e1
      /\ \A i \in 0 .. (queue'.b2 - 1) : queue'.slots[i] \in Exposed
      /\ Range(Slots') = Exposed \cup {x \in Kept : is_even[x] = 1}
  BY <1>1, RepairedQueue
<1>5. Turning = {} /\ Turning' = {} /\ Turns' = {}
  BY <1>0 DEF Turning, Turns
<1>6. /\ \A x \in Node : OddNode(x) /\ Standing(x) => M[x] \in EvenNodes
      /\ \A x, y \in EvenNodes : Standing(x) /\ M[x] = y => Merged(x, y, {})
  BY <1>5 DEF Thorough, MatesMerged
<1>7. \A x \in Kept : x \in Node /\ Standing(x)
  BY <1>0 DEF Kept, Exposed, Standing
<1>8. \A x \in Node : OddNode(x)' => M'[x] \in EvenNodes'
  <2>1. SUFFICES ASSUME NEW x \in Node, is_even'[x] = 0, belongs'[x] # NoNode
                 PROVE  M[x] \in EvenNodes'
    BY <1>0 DEF OddNode
  <2>2. x \in Kept /\ is_even[x] = 0 /\ belongs[x] # NoNode
    BY <1>2, <2>1 DEF Repaired
  <2>3. M[x] \in EvenNodes /\ M[x] \in Kept
    BY <1>2, <1>6, <1>7, <2>2 DEF OddNode, Closed
  <2>4. is_even[M[x]] = 1
    BY <2>3 DEF EvenNodes, EvenNode
  <2>5. QED
    BY <1>3, <2>3, <2>4 DEF Rewalked
<1>9. \A x, y \in EvenNodes' : M'[x] = y => Merged(x, y, Turning)'
  <2>1. SUFFICES ASSUME NEW x \in EvenNodes', NEW y \in EvenNodes', M[x] = y
                 PROVE  Merged(x, y, {})'
    BY <1>0, <1>5
  <2>2. x \in Node /\ y \in Node /\ y # NoNode
    BY DEF EvenNodes, Node, NoNode
  <2>3. x \in Kept /\ y \in Kept
    BY <1>2, <1>3, <2>1, <2>2 DEF Rewalked, Exposed, Closed
  <2>4. is_even[x] = 1 /\ is_even[y] = 1 /\ x \in EvenNodes /\ y \in EvenNodes
    <3>1. x \notin Exposed /\ y \notin Exposed
      BY <2>3 DEF Kept
    <3>2. is_even[x] = 1 /\ is_even[y] = 1
      BY <1>3, <2>1, <3>1 DEF Rewalked
    <3>3. QED
      BY <1>3, <2>3, <3>2 DEF Rewalked
  <2>5. PICK z \in EvenNodes : Reaches(x, z, {}) /\ Reaches(y, z, {})
    BY <1>6, <1>7, <2>1, <2>3, <2>4 DEF Merged
  <2>6. Reaches(x, z, {})' /\ Reaches(y, z, {})'
    BY <1>1, <1>2, <1>3, <2>3, <2>4, <2>5, KeptReaches
  <2>7. z \in EvenNodes'
    BY <2>6 DEF Reaches
  <2>8. QED
    BY <2>6, <2>7 DEF Merged
<1>10. MatesMerged'
  BY <1>5, <1>8, <1>9 DEF MatesMerged
<1>11. EvenNodes' \subseteq Passed(End(queue))'
  <2>1. EvenNodes' = Range(Slots')
    BY <1>3, <1>4 DEF Rewalked
  <2>2. PICK e : e = End(queue')
    OBVIOUS
  <2>3. e \in Int /\ Slots' = [i \in 1 .. e |-> queue'.slots[i - 1]]
    <3>1. queue'.e1 \in 0 .. nodes /\ queue'.e2 \in 0 .. nodes
      BY <1>4 DEF QueueTyped
    <3>2. QED
      BY <2>2, <3>1, NodesAssumption DEF Slots, End
  <2>4. \A i \in 1 .. e : i - 1 \in 0 .. (e - 1)
    BY <2>3
  <2>5. Passed(End(queue))' = {queue'.slots[i] : i \in 0 .. (e - 1)}
    BY <2>2 DEF Passed
  <2>6. \A y \in Range(Slots') : y \in {queue'.slots[i] : i \in 0 .. (e - 1)}
    BY <2>3, <2>4 DEF Range
  <2>7. QED
    BY <2>1, <2>5, <2>6
<1>12. Unbridged(queue.b1)' /\ LeadOn(queue.b1)'
  <2>1. Passed(queue.b1)' = {}
    <3>1. 0 .. (0 - 1) = {}
      OBVIOUS
    <3>2. QED
      BY <1>4, <3>1 DEF Passed
  <2>2. QED
    BY <2>1 DEF Unbridged, LeadOn
<1>13. Shrunk(queue.b2)'
  <2>1. Passed(queue.b2)' \subseteq Exposed
    BY <1>4 DEF Passed
  <2>2. \A x, w \in Exposed : belongs'[x] = belongs'[w] => x = w
    BY <1>2 DEF Repaired
  <2>3. \A x \in Exposed : Merged(x, x, Turning)'
    <3>1. SUFFICES ASSUME NEW x \in Exposed PROVE Merged(x, x, {})'
      BY <1>5
    <3>2. Reaches(x, x, {})' /\ x \in EvenNodes'
      BY <1>2, <1>3, FreshReaches DEF Rewalked
    <3>3. QED
      BY <3>2 DEF Merged
  <2>4. QED
    BY <2>1, <2>2, <2>3 DEF Shrunk
<1>14. Searched'
  <2>1. ~exhausted'
    BY <1>0 DEF Thorough, Searched
  <2>2. QED
    BY <1>0, <1>11, <1>12, <1>13, <2>1 DEF Searched
<1>15. RaceWon' /\ Heading'
  BY <1>0 DEF RaceWon, Heading
<1>16. QED
  BY <1>10, <1>14, <1>15 DEF Thorough

-----------------------------------------------------------------------------
\* Every step of the host keeps Thorough.
LEMMA HostThorough ==
  ASSUME Sound, Thorough, Host
  PROVE  Thorough'
<1>1. CASE EndAugment
  BY <1>1, PathsFoundThorough, NoPathThorough
<1>2. QED
  BY <1>1, RepairedThorough, LoopThorough, EndExpandThorough, EndTransformThorough DEF Host

\* A new engine has overlooked nothing: no tree stands.
LEMMA InitThorough == Init => Thorough
<1> SUFFICES ASSUME Init
             PROVE  Thorough
  OBVIOUS
<1>1. Fresh /\ phase = "init" /\ ~exhausted /\ todo = {} /\ running = {}
  BY InitFresh DEF Init
<1>2. Turning = {} /\ Turns = {}
  BY <1>1 DEF Turning, Turns
<1>3. \A x \in Node : ~Standing(x)
  <2>1. SUFFICES ASSUME NEW x \in Node, M[x] # NoNode, M[belongs[x]] = NoNode
                 PROVE  FALSE
    BY <1>1 DEF Standing, InValidTree
  <2>2. x \in Matched(M)
    BY <2>1 DEF Matched
  <2>3. belongs[x] = x
    BY <1>1, <2>2 DEF Fresh
  <2>4. QED
    BY <2>1, <2>3
<1>4. MatesMerged
  <2>1. EvenNodes \subseteq Node
    BY DEF EvenNodes
  <2>2. QED
    BY <1>2, <1>3, <2>1 DEF MatesMerged
<1>5. Searched /\ RaceWon /\ Heading
  BY <1>1 DEF Searched, RaceWon, Heading
<1>6. QED
  BY <1>4, <1>5 DEF Thorough

\* Nothing is overlooked where nothing happens.
LEMMA StillThorough ==
  ASSUME Thorough, UNCHANGED vars
  PROVE  Thorough'
<1>0. /\ UNCHANGED forestVars /\ adj' = adj /\ M' = M /\ is_even' = is_even /\ belongs' = belongs
      /\ queue' = queue /\ atomic_locks_tree' = atomic_locks_tree /\ found' = found
      /\ engine' = engine /\ exhausted' = exhausted /\ phase' = phase
      /\ todo' = todo /\ running' = running
  BY DEF vars, forestVars, lockVars, hostVars, kernelVars
<1>1. /\ \A place : At(place)' = At(place)
      /\ Holders' = Holders /\ Works' = Works
      /\ \A t : Edge(t)' = Edge(t)
      /\ \A e : First(e)' = First(e) /\ Pair(e)' = Pair(e)
      /\ \A x : Slot(x)' = Slot(x) /\ Taken(x)' = Taken(x) /\ OddNode(x)' = OddNode(x)
  BY <1>0 DEF At, Holders, Works, Edge, First, Pair, Slot, Taken, OddNode
<1>2. \A x : Standing(x)' <=> Standing(x)
  BY <1>0, <1>1 DEF Standing, InValidTree, Whole, Taken
<1>3. Turning' = Turning /\ Turns' = Turns
  BY <1>0, <1>1 DEF Turning, Turns
<1>4. /\ EvenNodes' = EvenNodes
      /\ \A x, z : Reaches(x, z, Turning)' <=> Reaches(x, z, Turning)
      /\ \A x, y : Merged(x, y, Turning)' <=> Merged(x, y, Turning)
      /\ \A n : /\ Passed(n)' = Passed(n) /\ LeadOn(n)' = LeadOn(n)
                /\ Unbridged(n)' = Unbridged(n) /\ Shrunk(n)' = Shrunk(n)
      /\ End(queue)' = End(queue)
  <2>1. UNCHANGED <<adj, is_even, belongs, path_table, queue>>
    BY <1>0 DEF forestVars
  <2>2. QED
    BY <1>3, <2>1, ViewsStay
<1>5. MatesMerged'
  BY <1>0, <1>1, <1>2, <1>3, <1>4 DEF Thorough, MatesMerged
<1>6. PICK b1, b2, e : b1 = queue.b1 /\ b2 = queue.b2 /\ e = End(queue)
  OBVIOUS
<1>7. queue'.b1 = b1 /\ queue'.b2 = b2 /\ End(queue)' = e /\ Size(queue)' = Size(queue)
      /\ (Tame' <=> Tame)
  BY <1>0, <1>6 DEF Tame
<1>8. Searched'
  <2>1. /\ exhausted => phase = "returned"
        /\ phase = "returned" => Size(queue) = 0
        /\ phase # "init" => EvenNodes \subseteq Passed(e) /\ Unbridged(b1) /\ (Tame => Shrunk(b2))
        /\ phase \notin {"init", "expand"} => LeadOn(b1)
    BY <1>6 DEF Thorough, Searched
  <2>2. QED
    BY <1>0, <1>4, <1>7, <2>1 DEF Searched
<1>9. RaceWon'
  <2>1. Unbridged(End(queue))' <=> Unbridged(End(queue))
    BY <1>4, <1>6, <1>7
  <2>2. QED
    BY <1>0, <1>1, <2>1 DEF Thorough, RaceWon, Evidence
<1>10. Heading'
  <2>1. Passed(queue.b1)' = Passed(queue.b1)
    BY <1>4, <1>6, <1>7
  <2>2. QED
    BY <1>0, <1>1, <2>1 DEF Thorough, Heading
<1>11. QED
  BY <1>5, <1>8, <1>9, <1>10 DEF Thorough

\* No step overlooks anything.
LEMMA NextThorough == LockInv /\ Sound /\ Thorough /\ [Next]_vars => Thorough'
<1> SUFFICES ASSUME LockInv, Sound, Thorough, [Next]_vars
             PROVE  Thorough'
  OBVIOUS
<1>1. CASE AugmentTasklet
  BY <1>1, AugmentThorough
<1>2. CASE ExpandTasklet
  BY <1>2, ExpandThorough
<1>3. CASE TransformTasklet
  BY <1>3, TransformThorough
<1>4. CASE Host
  BY <1>4, HostThorough
<1>5. CASE Finished
  BY <1>5, StillThorough DEF Finished
<1>6. CASE UNCHANGED vars
  BY <1>6, StillThorough
<1>7. QED
  BY <1>1, <1>2, <1>3, <1>4, <1>5, <1>6 DEF Next

\* Nobody changes the graph or the engine.
LEMMA NextTame == Tame /\ [Next]_vars => Tame'
<1> SUFFICES ASSUME Tame, [Next]_vars
             PROVE  Tame'
  OBVIOUS
<1>1. adj' = adj /\ engine' = engine
  <2>1. CASE AugmentTasklet
    BY <2>1 DEF AugmentTasklet, hostVars
  <2>2. CASE ExpandTasklet
    BY <2>2 DEF ExpandTasklet, hostVars
  <2>3. CASE TransformTasklet
    BY <2>3 DEF TransformTasklet, hostVars
  <2>4. CASE Host
    BY <2>4 DEF Host, InitAlternatingForest, Loop, EndAugment, EndExpand, EndTransform,
                deviceVars, forestVars
  <2>5. CASE Finished \/ UNCHANGED vars
    BY <2>5 DEF Finished, vars, forestVars, hostVars
  <2>6. QED
    BY <2>1, <2>2, <2>3, <2>4, <2>5 DEF Next
<1>2. QED
  BY <1>1 DEF Tame

\* When the frontier has run empty nothing is left to do around any even node.
LEMMA ThoroughMaximum == Sound /\ Thorough /\ Tame => FinishedMaximum
<1> SUFFICES ASSUME Sound, Thorough, Tame, phase = "returned"
             PROVE  IsMaximumMatching(adj, M)
  BY DEF FinishedMaximum
<1>0. /\ StateTyped /\ ForestTypeOK /\ belongs \in [Node -> Node \cup {NoNode}]
      /\ M \in [Node -> Node \cup {NoNode}]
  BY SoundParts DEF StateTyped, ForestTypeOK
<1>1. Settled
  <2>1. running = {} /\ ~found
    BY DEF Sound, TaskletsPlaced, LocksSound, Kernels
  <2>2. Holders = {} /\ At("flip") = {}
    BY <2>1 DEF Holders, At
  <2>3. QED
    BY <2>1, <2>2, SoundSettled
<1>2. EntriesPlain /\ Hanging /\ IsUndirected(adj)
  BY <1>0, <1>1, PlainEntries, SettledHanging DEF Sound
<1>3. IsMatching(adj, M)
  BY SoundMating DEF MatingBetween, Kernels
<1>4. MatesSettled /\ Turning = {}
  <2>1. MatesSettled
    BY <1>0, <1>1, SettledMates DEF Thorough
  <2>2. QED
    BY <2>1 DEF Turning
<1>5. PICK e : e = End(queue)
  OBVIOUS
<1>6. /\ queue.b1 = e /\ queue.b2 = e /\ Passed(e) \subseteq EvenNodes
      /\ EvenNodes \subseteq Passed(e) /\ Unbridged(e) /\ Shrunk(e) /\ LeadOn(e)
  <2>1. /\ queue.b1 \in Nat /\ queue.b2 \in Nat /\ queue.e1 \in Nat /\ queue.e2 \in Nat
        /\ queue.b1 <= queue.e1 /\ queue.b2 <= queue.e2 /\ queue.b2 = queue.e1
        /\ Begin(queue) = queue.b1 /\ End(queue) = queue.e2 /\ Passed(End(queue)) \subseteq EvenNodes
    BY WindowFacts DEF QueueSound
  <2>2. Size(queue) = 0
    BY DEF Thorough, Searched
  <2>3. queue.b1 = e /\ queue.b2 = e
    BY <1>5, <2>1, <2>2 DEF Size
  <2>4. EvenNodes \subseteq Passed(End(queue)) /\ Unbridged(queue.b1) /\ Shrunk(queue.b2) /\ LeadOn(queue.b1)
    BY DEF Thorough, Searched
  <2>5. QED
    BY <1>5, <2>1, <2>3, <2>4
<1>7. ASSUME NEW x \in EvenNodes, NEW w \in Node, IsAdjacent(adj, x, w)
      PROVE  OddNode(w) \/ (w \in EvenNodes /\ Merged(x, w, {}))
  <2>1. belongs[w] # NoNode /\ x \in Passed(e)
    BY <1>6, <1>7 DEF LeadOn
  <2>2. CASE w \in EvenNodes
    <3>1. belongs[x] = belongs[w]
      BY <1>6, <1>7, <2>1, <2>2 DEF Unbridged
    <3>2. Merged(x, w, {})
      BY <1>4, <1>6, <1>7, <2>1, <2>2, <3>1 DEF Shrunk
    <3>3. QED
      BY <2>2, <3>2
  <2>3. CASE w \notin EvenNodes
    <3>1. is_even[w] \in {0, 1}
      BY <1>0 DEF ForestTypeOK
    <3>2. QED
      BY <2>1, <2>3, <3>1 DEF EvenNodes, EvenNode, OddNode
  <2>4. QED
    BY <2>2, <2>3
<1>8. \A x \in Node : M[x] # x /\ (M[x] = NoNode => x \in EvenNodes)
  <2>1. TAKE x \in Node
  <2>2. x # NoNode
    BY NodesAssumption DEF Node, NoNode
  <2>3. M[x] = NoNode => x \in EvenNodes
    BY <1>1, <2>2 DEF Settled, IsRoot, EvenNodes, EvenNode
  <2>4. M[x] # x
    BY <1>1, <2>2 DEF Settled
  <2>5. QED
    BY <2>3, <2>4
<1>9. /\ \A x \in Node : OddNode(x) => M[x] \in EvenNodes
      /\ \A x \in EvenNodes : M[x] \in EvenNodes => Merged(x, M[x], {})
  BY <1>4 DEF MatesSettled
<1>10. OddsOnce({})
  BY <1>2 DEF EntriesPlain
<1>11. QED
  BY <1>2, <1>3, <1>7, <1>8, <1>9, <1>10, ShrunkIsMaximum

\* On a graph without self-loops, and with a tasklet per edge on any graph, what
\* FindMaximumMatch returns is a maximum matching, however many tasklets run at
\* the same time and however they interleave.
THEOREM ReturnsMaximum == Spec /\ Tame => []FinishedMaximum
<1>1. Init => Thorough
  BY InitThorough
<1>2. LockInv /\ Sound /\ Thorough /\ Tame /\ [Next]_vars => Thorough' /\ Tame'
  BY NextThorough, NextTame
<1>3. Sound /\ Thorough /\ Tame => FinishedMaximum
  BY ThoroughMaximum
<1>4. QED
  BY <1>1, <1>2, <1>3, SoundAlways, PTL DEF Spec

=============================================================================
