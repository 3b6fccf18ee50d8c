---------------------------- MODULE ForestLemmas ----------------------------
(***************************************************************************)
(* What the proofs rest on.  Facts about ranges and repetition in          *)
(* sequences; induction over the numbers, stated for sets and functions,   *)
(* with what it says of FlattenSeq.  And what the operators of the forest  *)
(* compute: Among and Ascending, the walk up a tree (Walk), the segments   *)
(* and rounds of a blossom, and what is left of a legal walk when other    *)
(* nodes change.  Every fact about a walk goes back to the rounds it is    *)
(* made in, by induction over their number.                                *)
(***************************************************************************)
EXTENDS Entries, SequenceTheorems, FunctionTheorems, FiniteSetTheorems,
        WellFoundedInduction, TLAPS

\* The nodes of two joined paths are the nodes of both.
LEMMA ConcatRange ==
  ASSUME NEW S, NEW s \in Seq(S), NEW t \in Seq(S)
  PROVE  /\ s \o t \in Seq(S)
         /\ Range(s \o t) = Range(s) \cup Range(t)
  BY ConcatProperties, RangeConcatenation

\* Two joined paths repeat no node if neither does and they share none.
LEMMA ConcatInjective ==
  ASSUME NEW S, NEW s \in Seq(S), NEW t \in Seq(S),
         IsInjective(s), IsInjective(t), Range(s) \cap Range(t) = {}
  PROVE  IsInjective(s \o t)
<1> DEFINE st == s \o t
<1>1. /\ st \in Seq(S)
      /\ Len(st) = Len(s) + Len(t)
      /\ \A i \in 1 .. Len(s) + Len(t) :
           st[i] = IF i <= Len(s) THEN s[i] ELSE t[i - Len(s)]
  BY ConcatProperties
<1>2. /\ Len(s) \in Nat /\ DOMAIN s = 1 .. Len(s)
      /\ Len(t) \in Nat /\ DOMAIN t = 1 .. Len(t)
      /\ DOMAIN st = 1 .. Len(s) + Len(t)
  BY <1>1, LenProperties
<1> HIDE DEF st
<1>3. SUFFICES ASSUME NEW i \in DOMAIN st, NEW j \in DOMAIN st, st[i] = st[j]
               PROVE  i = j
  BY DEF IsInjective, st
<1>4. CASE i <= Len(s) /\ j <= Len(s)
  <2>1. i \in DOMAIN s /\ j \in DOMAIN s /\ s[i] = s[j]
    BY <1>1, <1>2, <1>3, <1>4
  <2>2. QED  BY <2>1 DEF IsInjective
<1>5. CASE ~(i <= Len(s)) /\ ~(j <= Len(s))
  <2>0. i - Len(s) \in DOMAIN t /\ j - Len(s) \in DOMAIN t
    BY <1>2, <1>3, <1>5
  <2>1. t[i - Len(s)] = t[j - Len(s)]
    <3>1. st[i] = t[i - Len(s)]
      BY <1>1, <1>2, <1>5
    <3>2. st[j] = t[j - Len(s)]
      BY <1>1, <1>2, <1>5
    <3>3. QED  BY <3>1, <3>2, <1>3
  <2>2. i - Len(s) = j - Len(s)
    BY <2>0, <2>1 DEF IsInjective
  <2>3. QED  BY <2>2, <1>2
<1>6. CASE i <= Len(s) /\ ~(j <= Len(s))
  <2>1. i \in DOMAIN s /\ j - Len(s) \in DOMAIN t /\ s[i] = t[j - Len(s)]
    BY <1>1, <1>2, <1>3, <1>6
  <2>2. QED  BY <2>1 DEF Range
<1>7. CASE ~(i <= Len(s)) /\ j <= Len(s)
  <2>1. j \in DOMAIN s /\ i - Len(s) \in DOMAIN t /\ s[j] = t[i - Len(s)]
    BY <1>1, <1>2, <1>3, <1>7
  <2>2. QED  BY <2>1 DEF Range
<1>8. QED  BY <1>4, <1>5, <1>6, <1>7

\* A reversed path has the same nodes, none of them twice if none was.
LEMMA ReverseRange ==
  ASSUME NEW S, NEW s \in Seq(S)
  PROVE  /\ Reverse(s) \in Seq(S)
         /\ Range(Reverse(s)) = Range(s)
         /\ IsInjective(s) => IsInjective(Reverse(s))
<1>1. Len(s) \in Nat /\ DOMAIN s = 1 .. Len(s) /\ \A i \in 1 .. Len(s) : s[i] \in S
  BY LenProperties, ElementOfSeq
<1>2. DOMAIN Reverse(s) = 1 .. Len(s)
  BY <1>1 DEF Reverse
<1>3. \A i \in 1 .. Len(s) : /\ Len(s) - i + 1 \in 1 .. Len(s)
                             /\ Reverse(s)[i] = s[Len(s) - i + 1]
  BY <1>1 DEF Reverse
<1>4. Reverse(s) \in Seq(S)
  <2>1. Reverse(s) \in [1 .. Len(s) -> S]
    BY <1>1, <1>3 DEF Reverse
  <2>2. QED  BY <1>1, <2>1, SeqDef
<1>5. Range(Reverse(s)) \subseteq Range(s)
  BY <1>1, <1>2, <1>3 DEF Range
<1>6. Range(s) \subseteq Range(Reverse(s))
  <2>1. SUFFICES ASSUME NEW i \in 1 .. Len(s)
                 PROVE  s[i] \in Range(Reverse(s))
    BY <1>1 DEF Range
  <2>2. Len(s) - i + 1 \in 1 .. Len(s) /\ Len(s) - (Len(s) - i + 1) + 1 = i
    BY <1>1
  <2>3. Reverse(s)[Len(s) - i + 1] = s[i]
    BY <2>2, <1>3
  <2>4. QED  BY <2>2, <2>3, <1>2 DEF Range
<1>7. ASSUME IsInjective(s), NEW i \in 1 .. Len(s), NEW j \in 1 .. Len(s),
             Reverse(s)[i] = Reverse(s)[j]
      PROVE  i = j
  <2>1. Len(s) - i + 1 = Len(s) - j + 1
    BY <1>1, <1>3, <1>7 DEF IsInjective
  <2>2. QED  BY <2>1, <1>1
<1>8. QED  BY <1>2, <1>4, <1>5, <1>6, <1>7 DEF IsInjective

\* What is left of a work list was in it.
LEMMA TailRange ==
  ASSUME NEW S, NEW s \in Seq(S), s # <<>>
  PROVE  /\ Tail(s) \in Seq(S)
         /\ Head(s) \in Range(s)
         /\ Range(Tail(s)) \subseteq Range(s)
         /\ Range(s) = {Head(s)} \cup Range(Tail(s))
<1>1. /\ Tail(s) \in Seq(S)
      /\ Len(Tail(s)) = Len(s) - 1
      /\ \A i \in 1 .. Len(Tail(s)) : Tail(s)[i] = s[i + 1]
  BY HeadTailProperties
<1>2. /\ Len(s) \in Nat \ {0} /\ DOMAIN s = 1 .. Len(s)
      /\ DOMAIN Tail(s) = 1 .. (Len(s) - 1)
  BY <1>1, LenProperties, EmptySeq
<1>3. Head(s) = s[1]
  OBVIOUS
<1>4. Head(s) \in Range(s)
  BY <1>2, <1>3 DEF Range
<1>5. Range(Tail(s)) \subseteq Range(s)
  BY <1>1, <1>2 DEF Range
<1>6. ASSUME NEW i \in 1 .. Len(s)
      PROVE  s[i] \in {Head(s)} \cup Range(Tail(s))
  <2>1. CASE i = 1
    BY <2>1, <1>3
  <2>2. CASE i # 1
    <3>1. i - 1 \in 1 .. (Len(s) - 1) /\ Tail(s)[i - 1] = s[(i - 1) + 1]
      BY <2>2, <1>1, <1>2
    <3>2. Tail(s)[i - 1] = s[i]
      BY <3>1, <1>2
    <3>3. QED  BY <3>1, <3>2, <1>2 DEF Range
  <2>3. QED  BY <2>1, <2>2
<1>7. QED  BY <1>1, <1>2, <1>4, <1>5, <1>6 DEF Range

-----------------------------------------------------------------------------
\* Induction over the numbers, for a set T in the place of a predicate.
LEMMA SetInduction ==
  ASSUME NEW T, 0 \in T, \A k \in Nat : k \in T => k + 1 \in T
  PROVE  \A k \in Nat : k \in T
<1> DEFINE U == {k \in Nat : k \notin T}
<1>1. SUFFICES ASSUME U # {}
               PROVE  FALSE
  OBVIOUS
<1>2. \E x \in U : \A y \in U : ~(<<y, x>> \in OpToRel(<, Nat))
  BY <1>1, NatLessThanWellFounded, WFMin
<1>3. PICK x \in U : \A y \in U : ~(<<y, x>> \in OpToRel(<, Nat))
  BY <1>2
<1>4. \A y \in U : ~(y < x)
  BY <1>3 DEF OpToRel
<1>5. x # 0 /\ x \in Nat /\ x \notin T
  OBVIOUS
<1>6. x - 1 \in Nat /\ x - 1 < x /\ (x - 1) + 1 = x
  BY <1>5
<1>7. x - 1 \in T
  BY <1>4, <1>6
<1>8. QED  BY <1>5, <1>6, <1>7

\* A step function h, given the round and what there is, and what it makes of a.
IsStepOn(h, A) == \A k \in Nat, x \in A : h[<<k, x>>] \in A
IsIteration(f, h, a) == f[0] = a /\ \A k \in Nat : f[k + 1] = h[<<k, f[k]>>]

\* A function that a start and a step determine exists.
LEMMA Recursion ==
  ASSUME NEW A, NEW a \in A, NEW h, IsStepOn(h, A)
  PROVE  \E f \in [Nat -> A] : IsIteration(f, h, a)
<1> USE DEF IsStepOn, IsIteration
<1> DEFINE Good(n, g) == /\ g[0] = a
                         /\ \A k \in Nat : k < n => g[k + 1] = h[<<k, g[k]>>]
           T == {n \in Nat : \E g \in [Nat -> A] : Good(n, g)}
<1>1. \A n \in Nat : n \in T
  <2>1. 0 \in T
    <3>1. [k \in Nat |-> a] \in [Nat -> A] /\ Good(0, [k \in Nat |-> a])
      OBVIOUS
    <3>2. QED  BY <3>1
  <2>2. ASSUME NEW n \in Nat, n \in T
        PROVE  n + 1 \in T
    <3>1. PICK g \in [Nat -> A] : Good(n, g)
      BY <2>2
    <3> DEFINE g2 == [k \in Nat |-> IF k = n + 1 THEN h[<<n, g[n]>>] ELSE g[k]]
    <3>2. g2 \in [Nat -> A]
      OBVIOUS
    <3>3. g2[0] = a
      BY <3>1
    <3>4. ASSUME NEW k \in Nat, k < n + 1
          PROVE  g2[k + 1] = h[<<k, g2[k]>>]
      <4>1. g2[k] = g[k]
        BY <3>4
      <4>2. CASE k = n
        BY <4>1, <4>2
      <4>3. CASE k < n
        <5>1. g2[k + 1] = g[k + 1]
          BY <4>3
        <5>2. g[k + 1] = h[<<k, g[k]>>]
          BY <3>1, <4>3
        <5>3. QED  BY <5>1, <5>2, <4>1
      <4>4. QED  BY <4>2, <4>3, <3>4
    <3> HIDE DEF g2
    <3>5. Good(n + 1, g2)
      BY <3>3, <3>4
    <3>6. QED  BY <3>2, <3>5
  <2> HIDE DEF T
  <2>3. QED  BY <2>1, <2>2, SetInduction
<1> DEFINE app == [n \in Nat |-> CHOOSE g \in [Nat -> A] : Good(n, g)]
           f == [n \in Nat |-> app[n][n]]
<1>2. ASSUME NEW n \in Nat
      PROVE  app[n] \in [Nat -> A] /\ Good(n, app[n])
  BY <1>1
<1> HIDE DEF app
<1>3. ASSUME NEW n \in Nat
      PROVE  \A k \in Nat : k <= n => app[n + 1][k] = app[n][k]
  <2> DEFINE S == {k \in Nat : k <= n => app[n + 1][k] = app[n][k]}
  <2>0. n + 1 \in Nat
    OBVIOUS
  <2>1. 0 \in S
    BY <1>2, <2>0
  <2>2. ASSUME NEW k \in Nat, k \in S
        PROVE  k + 1 \in S
    <3>1. SUFFICES ASSUME k + 1 <= n
                   PROVE  app[n + 1][k + 1] = app[n][k + 1]
      OBVIOUS
    <3>2. app[n + 1][k] = app[n][k]
      BY <2>2, <3>1
    <3>3. app[n][k + 1] = h[<<k, app[n][k]>>]
      BY <1>2, <3>1
    <3>4. app[n + 1][k + 1] = h[<<k, app[n + 1][k]>>]
      <4>1. k < n + 1 /\ Good(n + 1, app[n + 1])
        BY <1>2, <2>0, <3>1
      <4>2. QED  BY <4>1
    <3>5. QED  BY <3>2, <3>3, <3>4
  <2> HIDE DEF S
  <2>3. \A k \in Nat : k \in S
    BY <2>1, <2>2, SetInduction
  <2>4. QED  BY <2>3 DEF S
<1>4. f \in [Nat -> A] /\ f[0] = a
  BY <1>2
<1>5. ASSUME NEW k \in Nat
      PROVE  f[k + 1] = h[<<k, f[k]>>]
  <2>1. app[k + 1][k + 1] = h[<<k, app[k + 1][k]>>]
    BY <1>2
  <2>2. app[k + 1][k] = app[k][k]
    BY <1>3
  <2>3. QED  BY <2>1, <2>2
<1>6. QED  BY <1>4, <1>5

\* FlattenSeq appends the sequences one by one.
LEMMA FlattenSteps ==
  ASSUME NEW S, NEW ss \in Seq(Seq(S))
  PROVE  \E f \in [Nat -> Seq(S)] :
           /\ f[0] = <<>>
           /\ \A k \in Nat : k < Len(ss) => f[k + 1] = f[k] \o ss[k + 1]
           /\ FlattenSeq(ss) = f[Len(ss)]
<1> DEFINE n == Len(ss)
           h == [p \in Nat \X Seq(S) |->
                   IF p[1] < n THEN p[2] \o ss[p[1] + 1] ELSE p[2]]
<1>0. n \in Nat /\ DOMAIN ss = 1 .. n /\ \A i \in 1 .. n : ss[i] \in Seq(S)
  BY LenProperties, ElementOfSeq
<1>1. ASSUME NEW k \in Nat, NEW x \in Seq(S)
      PROVE  /\ h[<<k, x>>] = IF k < n THEN x \o ss[k + 1] ELSE x
             /\ h[<<k, x>>] \in Seq(S)
  <2>1. h[<<k, x>>] = IF k < n THEN x \o ss[k + 1] ELSE x
    OBVIOUS
  <2>2. k < n => ss[k + 1] \in Seq(S)
    BY <1>0
  <2>3. k < n => x \o ss[k + 1] \in Seq(S)
    BY <2>2, ConcatProperties
  <2>4. QED  BY <2>1, <2>3
<1>2. <<>> \in Seq(S)
  OBVIOUS
<1> HIDE DEF h
<1>3. IsStepOn(h, Seq(S))
  BY <1>1 DEF IsStepOn
<1>4. \E f \in [Nat -> Seq(S)] : IsIteration(f, h, <<>>)
  BY <1>2, <1>3, Recursion
<1>5. PICK f \in [Nat -> Seq(S)] : f[0] = <<>> /\ \A k \in Nat : f[k + 1] = h[<<k, f[k]>>]
  BY <1>4 DEF IsIteration
<1>6. \A k \in Nat : k < n => f[k + 1] = f[k] \o ss[k + 1]
  BY <1>1, <1>5
<1>7. FlattenSeq(ss) = f[n]
  <2>1. CASE n = 0
    <3>1. ss = <<>>
      BY <2>1, EmptySeq
    <3>2. FlattenSeq(ss) = ss
      BY <2>1 DEF FlattenSeq
    <3>3. QED  BY <3>1, <3>2, <1>5, <2>1
  <2>2. CASE n # 0
    <3> DEFINE Eq(g) == g = [i \in 1 .. n |-> IF i = 1 THEN ss[i] ELSE g[i - 1] \o ss[i]]
               flat == CHOOSE g : Eq(g)
               r == [i \in 1 .. n |-> f[i]]
    <3>1. FlattenSeq(ss) = flat[n]
      BY <2>2 DEF FlattenSeq
    <3>2. Eq(r)
      <4>1. ASSUME NEW i \in 1 .. n
            PROVE  f[i] = IF i = 1 THEN ss[i] ELSE r[i - 1] \o ss[i]
        <5>1. i - 1 \in Nat /\ i - 1 < n /\ (i - 1) + 1 = i
          BY <1>0
        <5>2. f[i] = f[i - 1] \o ss[i]
          BY <5>1, <1>6
        <5>3. CASE i = 1
          <6>1. f[i] = <<>> \o ss[i] /\ ss[i] \in Seq(S)
            <7>1. f[i - 1] = <<>>
              BY <5>3, <1>5
            <7>2. QED  BY <7>1, <5>2, <1>0
          <6>2. QED  BY <6>1, <5>3, ConcatEmptySeq
        <5>4. CASE i # 1
          <6>1. i - 1 \in 1 .. n
            BY <5>4, <1>0
          <6>2. r[i - 1] = f[i - 1]
            BY <6>1
          <6>3. QED  BY <6>2, <5>2, <5>4
        <5>5. QED  BY <5>3, <5>4
      <4>2. QED  BY <4>1
    <3>3. Eq(flat)
      BY <3>2
    <3> HIDE DEF flat, r
    <3> DEFINE T == {k \in Nat : k + 1 \in 1 .. n => flat[k + 1] = f[k + 1]}
    <3>4. ASSUME NEW i \in 1 .. n
          PROVE  flat[i] = IF i = 1 THEN ss[i] ELSE flat[i - 1] \o ss[i]
      BY <3>3
    <3>5. ASSUME NEW i \in 1 .. n
          PROVE  f[i] = IF i = 1 THEN ss[i] ELSE f[i - 1] \o ss[i]
      <4>1. r[i] = f[i] /\ (i # 1 => r[i - 1] = f[i - 1])
        BY <1>0 DEF r
      <4>2. r[i] = IF i = 1 THEN ss[i] ELSE r[i - 1] \o ss[i]
        BY <3>2
      <4>3. QED  BY <4>1, <4>2
    <3>6. 0 \in T
      <4>1. 1 \in 1 .. n
        BY <1>0, <2>2
      <4>2. QED  BY <4>1, <3>4, <3>5
    <3>7. ASSUME NEW k \in Nat, k \in T
          PROVE  k + 1 \in T
      <4>1. SUFFICES ASSUME (k + 1) + 1 \in 1 .. n
                     PROVE  flat[(k + 1) + 1] = f[(k + 1) + 1]
        OBVIOUS
      <4>2. k + 1 \in 1 .. n /\ (k + 1) + 1 # 1 /\ ((k + 1) + 1) - 1 = k + 1
        BY <4>1, <1>0
      <4>3. flat[k + 1] = f[k + 1]
        BY <4>2, <3>7
      <4>4. QED  BY <4>1, <4>2, <4>3, <3>4, <3>5
    <3> HIDE DEF T
    <3>8. \A k \in Nat : k \in T
      BY <3>6, <3>7, SetInduction
    <3>9. n - 1 \in Nat /\ (n - 1) + 1 = n /\ n \in 1 .. n
      BY <1>0, <2>2
    <3>10. QED  BY <3>1, <3>8, <3>9 DEF T
  <2>3. QED  BY <2>1, <2>2
<1>8. QED  BY <1>5, <1>6, <1>7

\* One more number.
LEMMA Interval == \A k \in Nat : \A i : i \in 1 .. (k + 1) <=> i \in 1 .. k \/ i = k + 1
  OBVIOUS

\* What is in the flattened sequence, and when nothing is in it twice.
LEMMA FlattenFacts ==
  ASSUME NEW S, NEW ss \in Seq(Seq(S))
  PROVE  /\ FlattenSeq(ss) \in Seq(S)
         /\ \A x : x \in Range(FlattenSeq(ss)) <=> \E i \in 1 .. Len(ss) : x \in Range(ss[i])
         /\ (/\ \A i \in 1 .. Len(ss) : IsInjective(ss[i])
             /\ \A i, j \in 1 .. Len(ss) : i # j => Range(ss[i]) \cap Range(ss[j]) = {})
            => IsInjective(FlattenSeq(ss))
<1> DEFINE n == Len(ss)
<1> HIDE DEF n
<1>0. n \in Nat /\ \A i \in 1 .. n : ss[i] \in Seq(S)
  BY LenProperties, ElementOfSeq DEF n
<1>1. PICK f \in [Nat -> Seq(S)] :
           /\ f[0] = <<>>
           /\ \A k \in Nat : k < n => f[k + 1] = f[k] \o ss[k + 1]
           /\ FlattenSeq(ss) = f[n]
  BY FlattenSteps DEF n
<1>2. ASSUME NEW k \in Nat, k < n
      PROVE  /\ f[k] \in Seq(S) /\ ss[k + 1] \in Seq(S)
             /\ k + 1 \in 1 .. n
             /\ f[k + 1] = f[k] \o ss[k + 1]
             /\ Range(f[k + 1]) = Range(f[k]) \cup Range(ss[k + 1])
  <2>1. k + 1 \in 1 .. n
    BY <1>0, <1>2
  <2>2. f[k] \in Seq(S) /\ ss[k + 1] \in Seq(S)
    BY <1>0, <2>1
  <2>3. f[k + 1] = f[k] \o ss[k + 1]
    BY <1>1, <1>2
  <2>4. Range(f[k] \o ss[k + 1]) = Range(f[k]) \cup Range(ss[k + 1])
    BY SMTT(30), <2>2, ConcatRange
  <2>5. QED  BY <2>1, <2>2, <2>3, <2>4
<1>3. \A x : x \in Range(f[n]) <=> \E i \in 1 .. n : x \in Range(ss[i])
  <2> DEFINE T == {k \in Nat : k <= n => \A x : x \in Range(f[k]) <=> \E i \in 1 .. k : x \in Range(ss[i])}
  <2> HIDE DEF T
  <2>1. 0 \in T
    <3>1. Range(f[0]) = {}
      BY <1>1 DEF Range
    <3>2. 1 .. 0 = {}
      OBVIOUS
    <3>3. QED  BY <3>1, <3>2 DEF T
  <2>2. ASSUME NEW k \in Nat, k \in T
        PROVE  k + 1 \in T
    <3>1. SUFFICES ASSUME k + 1 <= n
                   PROVE  \A x : x \in Range(f[k + 1]) <=> \E i \in 1 .. (k + 1) : x \in Range(ss[i])
      BY DEF T
    <3>2. k < n /\ k <= n
      BY <3>1, <1>0
    <3>3. \A x : x \in Range(f[k]) <=> \E i \in 1 .. k : x \in Range(ss[i])
      BY <2>2, <3>2 DEF T
    <3>4. Range(f[k + 1]) = Range(f[k]) \cup Range(ss[k + 1])
      BY <1>2, <3>2
    <3>5. \A i : i \in 1 .. (k + 1) <=> i \in 1 .. k \/ i = k + 1
      BY Interval
    <3>6. QED  BY <3>3, <3>4, <3>5
  <2>3. \A k \in Nat : k \in T
    BY <2>1, <2>2, SetInduction
  <2>4. n \in T
    BY <2>3, <1>0
  <2>5. QED  BY <2>4, <1>0 DEF T
<1>4. ASSUME \A i \in 1 .. n : IsInjective(ss[i]),
             \A i, j \in 1 .. n : i # j => Range(ss[i]) \cap Range(ss[j]) = {}
      PROVE  IsInjective(f[n])
  <2> DEFINE T == {k \in Nat : k <= n =>
                     /\ IsInjective(f[k])
                     /\ \A j \in 1 .. n : j > k => Range(f[k]) \cap Range(ss[j]) = {}}
  <2> HIDE DEF T
  <2>1. 0 \in T
    BY <1>1 DEF T, Range, IsInjective
  <2>2. ASSUME NEW k \in Nat, k \in T
        PROVE  k + 1 \in T
    <3>1. SUFFICES ASSUME k + 1 <= n
                   PROVE  /\ IsInjective(f[k + 1])
                          /\ \A j \in 1 .. n : j > k + 1 => Range(f[k + 1]) \cap Range(ss[j]) = {}
      BY DEF T
    <3>2. k < n /\ k <= n /\ k + 1 > k
      BY <3>1, <1>0
    <3>3. /\ IsInjective(f[k])
          /\ \A j \in 1 .. n : j > k => Range(f[k]) \cap Range(ss[j]) = {}
      BY <2>2, <3>2 DEF T
    <3>4. /\ f[k] \in Seq(S) /\ ss[k + 1] \in Seq(S)
          /\ k + 1 \in 1 .. n
          /\ f[k + 1] = f[k] \o ss[k + 1]
          /\ Range(f[k + 1]) = Range(f[k]) \cup Range(ss[k + 1])
      BY <1>2, <3>2
    <3>5. Range(f[k]) \cap Range(ss[k + 1]) = {} /\ IsInjective(ss[k + 1])
      BY <3>2, <3>3, <3>4, <1>4
    <3>6. IsInjective(f[k + 1])
      <4>1. IsInjective(f[k] \o ss[k + 1])
        BY <3>3, <3>4, <3>5, ConcatInjective
      <4>2. QED  BY <4>1, <3>4
    <3>7. ASSUME NEW j \in 1 .. n, j > k + 1
          PROVE  Range(f[k + 1]) \cap Range(ss[j]) = {}
      <4>1. j > k /\ j # k + 1
        BY <3>7
      <4>2. Range(f[k]) \cap Range(ss[j]) = {} /\ Range(ss[k + 1]) \cap Range(ss[j]) = {}
        BY <4>1, <3>3, <3>4, <1>4
      <4>3. QED  BY <4>2, <3>4
    <3>8. QED  BY <3>6, <3>7
  <2>3. \A k \in Nat : k \in T
    BY <2>1, <2>2, SetInduction
  <2>4. QED  BY <2>3, <1>0 DEF T
<1>5. FlattenSeq(ss) \in Seq(S)
  BY <1>0, <1>1
<1>6. QED  BY <1>1, <1>3, <1>4, <1>5 DEF n

\* A sequence of distinct numbers below n is no longer than n.
LEMMA InjectiveLen ==
  ASSUME NEW n \in Nat, NEW s \in Seq(0 .. (n - 1)), IsInjective(s)
  PROVE  Len(s) <= n
<1>1. Len(s) \in Nat /\ DOMAIN s = 1 .. Len(s) /\ \A i \in 1 .. Len(s) : s[i] \in 0 .. (n - 1)
  BY LenProperties, ElementOfSeq
<1> DEFINE g == [i \in 1 .. Len(s) |-> s[i] + 1]
<1>2. g \in [1 .. Len(s) -> 1 .. n]
  BY <1>1
<1>3. \A i, j \in 1 .. Len(s) : g[i] = g[j] => i = j
  BY SMTT(30), <1>1 DEF IsInjective
<1>4. g \in Injection(1 .. Len(s), 1 .. n)
  BY <1>2, <1>3 DEF Injection, IsInjective
<1>5. ExistsInjection(1 .. Len(s), 1 .. n)
  BY <1>4 DEF ExistsInjection
<1>6. QED  BY <1>1, <1>5, Fun_NatInjLeq
\* Appending an element.
LEMMA AppendFacts ==
  ASSUME NEW S, NEW s \in Seq(S), NEW x \in S
  PROVE  /\ Append(s, x) \in Seq(S)
         /\ Range(Append(s, x)) = Range(s) \cup {x}
         /\ IsInjective(s) /\ x \notin Range(s) => IsInjective(Append(s, x))
<1> DEFINE e == <<x>>
<1>1. e \in Seq(S) /\ Range(e) = {x} /\ IsInjective(e)
  BY DEF Range, IsInjective
<1>2. Append(s, x) = s \o e
  BY AppendIsConcat
<1> HIDE DEF e
<1>3. s \o e \in Seq(S) /\ Range(s \o e) = Range(s) \cup Range(e)
  BY <1>1, ConcatRange
<1>4. IsInjective(s) /\ x \notin Range(s) => IsInjective(s \o e)
  BY <1>1, ConcatInjective
<1>5. QED  BY <1>1, <1>2, <1>3, <1>4

-----------------------------------------------------------------------------
\* What a loop picks from s: the entries of s that are in T.
LEMMA AmongFacts ==
  ASSUME NEW S, NEW s \in Seq(S), NEW T
  PROVE  /\ Among(s, T) \in Seq(S)
         /\ \A x : x \in Range(Among(s, T)) <=> x \in Range(s) /\ x \in T
         /\ IsInjective(s) => IsInjective(Among(s, T))
<1> DEFINE n == Len(s)
           h == [p \in Nat \X Seq(S) |->
                   IF p[1] < n /\ s[p[1] + 1] \in T THEN Append(p[2], s[p[1] + 1]) ELSE p[2]]
<1> HIDE DEF n
<1>0. n \in Nat /\ DOMAIN s = 1 .. n /\ \A i \in 1 .. n : s[i] \in S
  BY LenProperties, ElementOfSeq DEF n
<1>1. ASSUME NEW k \in Nat, NEW x \in Seq(S)
      PROVE  /\ h[<<k, x>>] = IF k < n /\ s[k + 1] \in T THEN Append(x, s[k + 1]) ELSE x
             /\ h[<<k, x>>] \in Seq(S)
  <2>1. h[<<k, x>>] = IF k < n /\ s[k + 1] \in T THEN Append(x, s[k + 1]) ELSE x
    OBVIOUS
  <2>2. k < n => s[k + 1] \in S
    BY <1>0
  <2>3. k < n => Append(x, s[k + 1]) \in Seq(S)
    BY <2>2, AppendProperties
  <2>4. QED  BY <2>1, <2>3
<1>2. <<>> \in Seq(S)
  OBVIOUS
<1> HIDE DEF h
<1>3. IsStepOn(h, Seq(S))
  BY <1>1 DEF IsStepOn
<1>4. \E f \in [Nat -> Seq(S)] : IsIteration(f, h, <<>>)
  BY <1>2, <1>3, Recursion
<1>5. PICK f \in [Nat -> Seq(S)] : f[0] = <<>> /\ \A k \in Nat : f[k + 1] = h[<<k, f[k]>>]
  BY <1>4 DEF IsIteration
<1> DEFINE Eq(g) == g = [i \in 0 .. n |->
                           IF i = 0 THEN <<>>
                           ELSE IF s[i] \in T THEN Append(g[i - 1], s[i]) ELSE g[i - 1]]
           kept == CHOOSE g : Eq(g)
           r == [i \in 0 .. n |-> f[i]]
<1>6. Among(s, T) = kept[n]
  BY DEF Among, n
<1>7. Eq(r)
  <2>1. ASSUME NEW i \in 0 .. n
        PROVE  f[i] = IF i = 0 THEN <<>>
                      ELSE IF s[i] \in T THEN Append(r[i - 1], s[i]) ELSE r[i - 1]
    <3>1. CASE i = 0
      BY <3>1, <1>5
    <3>2. CASE i # 0
      <4>1. i - 1 \in Nat /\ i - 1 < n /\ (i - 1) + 1 = i /\ i - 1 \in 0 .. n
        BY <3>2, <1>0
      <4>2. f[i] = h[<<i - 1, f[i - 1]>>] /\ f[i - 1] \in Seq(S)
        BY <4>1, <1>5
      <4>3. r[i - 1] = f[i - 1]
        BY <4>1
      <4>4. QED  BY <4>1, <4>2, <4>3, <3>2, <1>1
    <3>3. QED  BY <3>1, <3>2
  <2>2. QED  BY <2>1
<1>8. Eq(kept)
  BY <1>7
<1> HIDE DEF kept, r
<1>9. \A i \in 0 .. n : kept[i] = IF i = 0 THEN <<>>
                                  ELSE IF s[i] \in T THEN Append(kept[i - 1], s[i]) ELSE kept[i - 1]
  BY <1>8
<1> DEFINE Q == {k \in Nat : k <= n =>
                   /\ kept[k] \in Seq(S)
                   /\ \A x : x \in Range(kept[k]) <=> x \in T /\ \E i \in 1 .. k : x = s[i]
                   /\ IsInjective(s) => IsInjective(kept[k])}
<1> HIDE DEF Q
<1>10. 0 \in Q
  <2>1. 0 \in 0 .. n
    BY <1>0
  <2>2. kept[0] = <<>>
    BY <1>9, <2>1
  <2>3. Range(<<>>) = {} /\ IsInjective(<<>>) /\ 1 .. 0 = {}
    BY DEF Range, IsInjective
  <2>4. QED  BY <2>2, <2>3, <1>2 DEF Q
<1>11. ASSUME NEW k \in Nat, k \in Q
       PROVE  k + 1 \in Q
  <2>1. SUFFICES ASSUME k + 1 <= n
                 PROVE  /\ kept[k + 1] \in Seq(S)
                        /\ \A x : x \in Range(kept[k + 1]) <=> x \in T /\ \E i \in 1 .. (k + 1) : x = s[i]
                        /\ IsInjective(s) => IsInjective(kept[k + 1])
    BY DEF Q
  <2>2. k <= n /\ k + 1 \in 0 .. n /\ k + 1 # 0 /\ (k + 1) - 1 = k /\ k + 1 \in 1 .. n
    BY <2>1, <1>0
  <2>3. /\ kept[k] \in Seq(S)
        /\ \A x : x \in Range(kept[k]) <=> x \in T /\ \E i \in 1 .. k : x = s[i]
        /\ IsInjective(s) => IsInjective(kept[k])
    BY <1>11, <2>2 DEF Q
  <2>4. kept[k + 1] = IF s[k + 1] \in T THEN Append(kept[k], s[k + 1]) ELSE kept[k]
    BY <1>9, <2>2
  <2>5. \A i : i \in 1 .. (k + 1) <=> i \in 1 .. k \/ i = k + 1
    BY Interval
  <2>6. CASE s[k + 1] \notin T
    BY <2>3, <2>4, <2>5, <2>6
  <2>7. CASE s[k + 1] \in T
    <3>0. s[k + 1] \in S
      BY <2>2, <1>0
    <3>1. kept[k + 1] = kept[k] \o <<s[k + 1]>> /\ <<s[k + 1]>> \in Seq(S)
      <4>1. Append(kept[k], s[k + 1]) = kept[k] \o <<s[k + 1]>>
        BY <3>0, <2>3, AppendIsConcat
      <4>2. <<s[k + 1]>> \in Seq(S)
        BY <3>0
      <4>3. QED  BY <4>1, <4>2, <2>4, <2>7
    <3>2. Range(<<s[k + 1]>>) = {s[k + 1]} /\ IsInjective(<<s[k + 1]>>)
      BY DEF Range, IsInjective
    <3>3. kept[k] \o <<s[k + 1]>> \in Seq(S)
          /\ Range(kept[k] \o <<s[k + 1]>>) = Range(kept[k]) \cup Range(<<s[k + 1]>>)
      <4> DEFINE a == kept[k]  b == <<s[k + 1]>>
      <4>1. a \in Seq(S) /\ b \in Seq(S)
        BY <2>3, <3>1
      <4> HIDE DEF a, b
      <4>2. a \o b \in Seq(S) /\ Range(a \o b) = Range(a) \cup Range(b)
        BY <4>1, ConcatRange
      <4>3. QED  BY <4>2 DEF a, b
    <3>4. ASSUME IsInjective(s)
          PROVE  IsInjective(kept[k + 1])
      <4>1. \A i \in 1 .. k : s[i] # s[k + 1]
        <5>1. \A i \in 1 .. k : i \in DOMAIN s /\ k + 1 \in DOMAIN s /\ i # k + 1
          BY <2>2, <1>0
        <5>2. QED  BY <5>1, <3>4 DEF IsInjective
      <4>2. Range(kept[k]) \cap Range(<<s[k + 1]>>) = {}
        BY <4>1, <2>3, <3>2
      <4>3. IsInjective(kept[k] \o <<s[k + 1]>>)
        <5> DEFINE a == kept[k]  b == <<s[k + 1]>>
        <5>1. /\ a \in Seq(S) /\ b \in Seq(S) /\ IsInjective(a) /\ IsInjective(b)
              /\ Range(a) \cap Range(b) = {}
          BY <4>2, <3>4, <2>3, <3>1, <3>2
        <5> HIDE DEF a, b
        <5>2. IsInjective(a \o b)
          BY <5>1, ConcatInjective
        <5>3. QED  BY <5>2 DEF a, b
      <4>4. QED  BY <4>3, <3>1
    <3>5. QED  BY <3>1, <3>2, <3>3, <3>4, <2>3, <2>5, <2>7
  <2>8. QED  BY <2>6, <2>7
<1>12. \A k \in Nat : k \in Q
  BY <1>10, <1>11, SetInduction
<1>13. /\ kept[n] \in Seq(S)
       /\ \A x : x \in Range(kept[n]) <=> x \in T /\ \E i \in 1 .. n : x = s[i]
       /\ IsInjective(s) => IsInjective(kept[n])
  <2>1. n \in Q /\ n <= n
    BY <1>12, <1>0
  <2>2. QED  BY <2>1 DEF Q
<1>14. \A x : x \in Range(s) <=> \E i \in 1 .. n : x = s[i]
  BY <1>0 DEF Range
<1>15. QED  BY <1>6, <1>13, <1>14

\* The nodes of a set in ascending order: all of them, each once.
LEMMA AscendingFacts ==
  ASSUME NEW S, S \subseteq Node
  PROVE  /\ Ascending(S) \in Seq(Node)
         /\ Range(Ascending(S)) = S
         /\ IsInjective(Ascending(S))
<1> DEFINE ids == [i \in 1 .. nodes |-> i - 1]
<1>0. nodes \in Nat
  BY NodesAssumption
<1>1. ids \in [1 .. nodes -> Node]
  BY <1>0 DEF Node
<1>2. ids \in Seq(Node)
  BY <1>0, <1>1, SeqDef
<1>3. \A x \in Node : x + 1 \in 1 .. nodes /\ ids[x + 1] = x
  BY <1>0 DEF Node
<1>4. Range(ids) = Node
  BY <1>1, <1>3 DEF Range
<1>5. IsInjective(ids)
  BY <1>0 DEF IsInjective
<1>6. Ascending(S) = Among(ids, S)
  BY DEF Ascending
<1> HIDE DEF ids
<1>7. /\ Among(ids, S) \in Seq(Node)
      /\ \A x : x \in Range(Among(ids, S)) <=> x \in Range(ids) /\ x \in S
      /\ IsInjective(ids) => IsInjective(Among(ids, S))
  BY <1>2, AmongFacts
<1>8. QED  BY <1>4, <1>5, <1>6, <1>7

-----------------------------------------------------------------------------
\* The rounds in which the walk from v is made.
Rounds(w, table, v) ==
  w[0] = <<v>> /\ \A k \in Nat : w[k + 1] = w[k] \o table[Last(w[k])]

Path == Seq(Node) \ {<<>>}

\* A path has a last node, and stays a path when a table entry is appended.
LEMMA PathGrows ==
  ASSUME NEW table \in [Node -> Seq(Node)], NEW p \in Path
  PROVE  /\ Last(p) \in Node /\ Last(p) \in Range(p)
         /\ p \o table[Last(p)] \in Path
         /\ Range(p \o table[Last(p)]) = Range(p) \cup Range(table[Last(p)])
         /\ Len(p \o table[Last(p)]) = Len(p) + Len(table[Last(p)])
         /\ p[1] \in Range(p) /\ (p \o table[Last(p)])[1] = p[1]
<1>1. p \in Seq(Node) /\ p # <<>>
  BY DEF Path
<1>2. Len(p) \in Nat \ {0} /\ DOMAIN p = 1 .. Len(p) /\ \A i \in 1 .. Len(p) : p[i] \in Node
  BY <1>1, LenProperties, ElementOfSeq, EmptySeq
<1>3. Len(p) \in 1 .. Len(p) /\ 1 \in 1 .. Len(p)
  BY <1>2
<1>4. Last(p) \in Node /\ Last(p) \in Range(p) /\ p[1] \in Range(p)
  BY <1>2, <1>3 DEF Last, Range
<1> DEFINE e == table[Last(p)]
<1>5. e \in Seq(Node)
  BY <1>4
<1> HIDE DEF e
<1>6. /\ p \o e \in Seq(Node) /\ Range(p \o e) = Range(p) \cup Range(e)
  BY <1>1, <1>5, ConcatRange
<1>7. /\ Len(p \o e) = Len(p) + Len(e)
      /\ (p \o e)[1] = p[1]
  BY <1>1, <1>2, <1>3, <1>5, ConcatProperties
<1>8. Len(e) \in Nat
  BY <1>5, LenProperties
<1>9. p \o e # <<>>
  BY <1>2, <1>6, <1>7, <1>8, EmptySeq
<1>10. QED  BY <1>4, <1>6, <1>7, <1>9 DEF e, Path

\* Walk is what is reached after MaxHops rounds.
LEMMA WalkRounds ==
  ASSUME NEW table \in [Node -> Seq(Node)], NEW v \in Node
  PROVE  \E w \in [Nat -> Path] : Rounds(w, table, v) /\ Walk(table, v) = w[MaxHops]
<1> DEFINE more == [p \in Seq(Node) |-> p \o table[Last(p)]]
           h == [x \in Nat \X Path |-> more[x[2]]]
<1>0. MaxHops \in Nat
  BY NodesAssumption DEF MaxHops
<1>1. \A p \in Path : more[p] = p \o table[Last(p)] /\ more[p] \in Path
  BY PathGrows DEF Path
<1>2. <<v>> \in Path
  BY DEF Path
<1>3. \A k \in Nat, p \in Path : h[<<k, p>>] = p \o table[Last(p)] /\ h[<<k, p>>] \in Path
  BY <1>1
<1> HIDE DEF h
<1>4. IsStepOn(h, Path)
  BY <1>3 DEF IsStepOn
<1>5. \E f \in [Nat -> Path] : IsIteration(f, h, <<v>>)
  BY <1>2, <1>4, Recursion
<1>6. PICK f \in [Nat -> Path] : f[0] = <<v>> /\ \A k \in Nat : f[k + 1] = h[<<k, f[k]>>]
  BY <1>5 DEF IsIteration
<1> HIDE DEF more
<1> DEFINE Eq(g) == g = [k \in Nat |-> IF k = 0 THEN <<v>> ELSE more[g[k - 1]]]
           walk == CHOOSE g : Eq(g)
<1>7. Walk(table, v) = walk[MaxHops]
  BY DEF Walk, more
<1>8. Eq(f)
  <2>1. ASSUME NEW k \in Nat
        PROVE  f[k] = IF k = 0 THEN <<v>> ELSE more[f[k - 1]]
    <3>1. CASE k = 0
      BY <3>1, <1>6
    <3>2. CASE k # 0
      <4>1. k - 1 \in Nat /\ (k - 1) + 1 = k
        BY <3>2
      <4>2. f[k] = h[<<k - 1, f[k - 1]>>] /\ f[k - 1] \in Path
        BY <4>1, <1>6
      <4>3. QED  BY <4>1, <4>2, <3>2, <1>1, <1>3
    <3>3. QED  BY <3>1, <3>2
  <2>2. QED  BY <2>1
<1>9. Eq(walk)
  BY <1>8
<1> HIDE DEF walk
<1>10. \A k \in Nat : walk[k] = IF k = 0 THEN <<v>> ELSE more[walk[k - 1]]
  BY <1>9
<1> DEFINE T == {k \in Nat : walk[k] \in Path}
<1> HIDE DEF T
<1>11. 0 \in T
  BY <1>2, <1>10 DEF T
<1>12. ASSUME NEW k \in Nat, k \in T
       PROVE  k + 1 \in T
  <2>1. walk[k + 1] = more[walk[k]]
    <3>1. k + 1 \in Nat /\ k + 1 # 0 /\ (k + 1) - 1 = k
      OBVIOUS
    <3>2. QED  BY <3>1, <1>10
  <2>2. QED  BY <2>1, <1>1, <1>12 DEF T
<1>13. \A k \in Nat : walk[k] \in Path
  <2>1. \A k \in Nat : k \in T
    BY <1>11, <1>12, SetInduction
  <2>2. QED  BY <2>1 DEF T
<1>14. walk \in [Nat -> Path]
  BY <1>9, <1>13
<1>15. Rounds(walk, table, v)
  <2>1. walk[0] = <<v>>
    BY <1>10
  <2>2. ASSUME NEW k \in Nat
        PROVE  walk[k + 1] = walk[k] \o table[Last(walk[k])]
    <3>1. k + 1 \in Nat /\ k + 1 # 0 /\ (k + 1) - 1 = k
      OBVIOUS
    <3>2. walk[k + 1] = more[walk[k]]
      BY <3>1, <1>10
    <3>3. QED  BY <3>2, <1>1, <1>13
  <2>3. QED  BY <2>1, <2>2 DEF Rounds
<1>16. QED  BY <1>7, <1>14, <1>15

\* A walk is a path that starts at its node.
LEMMA WalkType ==
  ASSUME NEW table \in [Node -> Seq(Node)], NEW v \in Node
  PROVE  /\ Walk(table, v) \in Path /\ Walk(table, v) \in Seq(Node)
         /\ Walk(table, v)[1] = v /\ v \in Range(Walk(table, v))
         /\ Last(Walk(table, v)) \in Range(Walk(table, v))
         /\ Last(Walk(table, v)) \in Node
<1>0. MaxHops \in Nat
  BY NodesAssumption DEF MaxHops
<1>1. PICK w \in [Nat -> Path] : Rounds(w, table, v) /\ Walk(table, v) = w[MaxHops]
  BY WalkRounds
<1> DEFINE T == {k \in Nat : w[k][1] = v}
<1> HIDE DEF T
<1>2. 0 \in T
  <2>1. <<v>>[1] = v
    OBVIOUS
  <2>2. QED  BY <2>1, <1>1 DEF T, Rounds
<1>3. ASSUME NEW k \in Nat, k \in T
      PROVE  k + 1 \in T
  <2>1. w[k] \in Path /\ w[k + 1] = w[k] \o table[Last(w[k])]
    BY <1>1 DEF Rounds
  <2>2. (w[k] \o table[Last(w[k])])[1] = w[k][1]
    BY <2>1, PathGrows
  <2>3. k + 1 \in Nat /\ w[k][1] = v
    BY <1>3 DEF T
  <2>4. w[k + 1][1] = v
    BY <2>1, <2>2, <2>3
  <2>5. QED  BY <2>3, <2>4 DEF T
<1>4. \A k \in Nat : k \in T
  BY <1>2, <1>3, SetInduction
<1>5. w[MaxHops] \in Path /\ w[MaxHops][1] = v
  BY <1>0, <1>4 DEF T
<1>6. /\ Last(w[MaxHops]) \in Node /\ Last(w[MaxHops]) \in Range(w[MaxHops])
      /\ w[MaxHops][1] \in Range(w[MaxHops])
  BY <1>5, PathGrows
<1>7. QED  BY <1>1, <1>5, <1>6 DEF Path

\* The rounds only add nodes.
LEMMA RoundsGrow ==
  ASSUME NEW table \in [Node -> Seq(Node)], NEW v \in Node,
         NEW w \in [Nat -> Path], Rounds(w, table, v),
         NEW m \in Nat, NEW k \in Nat, k <= m
  PROVE  Range(w[k]) \subseteq Range(w[m])
<1> DEFINE T == {j \in Nat : k <= j => Range(w[k]) \subseteq Range(w[j])}
<1> HIDE DEF T
<1>1. 0 \in T
  <2>1. k <= 0 => k = 0
    OBVIOUS
  <2>2. QED  BY <2>1 DEF T
<1>2. ASSUME NEW j \in Nat, j \in T
      PROVE  j + 1 \in T
  <2>1. w[j + 1] = w[j] \o table[Last(w[j])] /\ w[j] \in Path
    BY DEF Rounds
  <2>2. Range(w[j] \o table[Last(w[j])]) = Range(w[j]) \cup Range(table[Last(w[j])])
    BY <2>1, PathGrows
  <2>3. Range(w[j]) \subseteq Range(w[j + 1])
    BY <2>1, <2>2
  <2>4. k <= j + 1 => k <= j \/ k = j + 1
    OBVIOUS
  <2>5. QED  BY <2>3, <2>4, <1>2 DEF T
<1>3. \A j \in Nat : j \in T
  BY <1>1, <1>2, SetInduction
<1>4. QED  BY <1>3 DEF T

\* A walk depends on the entries of its own nodes only.
LEMMA WalkFrame ==
  ASSUME NEW table \in [Node -> Seq(Node)], NEW other \in [Node -> Seq(Node)],
         NEW v \in Node,
         \A x \in Range(Walk(table, v)) : other[x] = table[x]
  PROVE  Walk(other, v) = Walk(table, v)
<1>0. MaxHops \in Nat
  BY NodesAssumption DEF MaxHops
<1>1. PICK w \in [Nat -> Path] : Rounds(w, table, v) /\ Walk(table, v) = w[MaxHops]
  BY WalkRounds
<1>2. PICK u \in [Nat -> Path] : Rounds(u, other, v) /\ Walk(other, v) = u[MaxHops]
  BY WalkRounds
<1> DEFINE T == {k \in Nat : k <= MaxHops => u[k] = w[k]}
<1> HIDE DEF T
<1>3. 0 \in T
  BY <1>1, <1>2 DEF T, Rounds
<1>4. ASSUME NEW k \in Nat, k \in T
      PROVE  k + 1 \in T
  <2>1. SUFFICES ASSUME k + 1 <= MaxHops
                 PROVE  u[k + 1] = w[k + 1]
    BY DEF T
  <2>2. k <= MaxHops
    BY <2>1, <1>0
  <2>3. u[k] = w[k] /\ w[k] \in Path
    BY <2>2, <1>4 DEF T
  <2>4. Last(w[k]) \in Range(w[k])
    BY <2>3, PathGrows
  <2>5. Range(w[k]) \subseteq Range(w[MaxHops])
    BY <2>2, <1>0, <1>1, RoundsGrow
  <2>6. other[Last(w[k])] = table[Last(w[k])]
    BY <2>4, <2>5, <1>1
  <2>7. w[k + 1] = w[k] \o table[Last(w[k])] /\ u[k + 1] = u[k] \o other[Last(u[k])]
    BY <1>1, <1>2 DEF Rounds
  <2>8. QED  BY <2>3, <2>6, <2>7
<1>5. \A k \in Nat : k \in T
  BY <1>3, <1>4, SetInduction
<1>6. u[MaxHops] = w[MaxHops]
  <2>1. MaxHops \in T /\ MaxHops <= MaxHops
    BY <1>0, <1>5
  <2>2. QED  BY <2>1 DEF T
<1>7. QED  BY <1>1, <1>2, <1>6

\* The walk from a node without an entry is the node.
LEMMA WalkStays ==
  ASSUME NEW table \in [Node -> Seq(Node)], NEW v \in Node, table[v] = <<>>
  PROVE  Walk(table, v) = <<v>>
<1>0. MaxHops \in Nat
  BY NodesAssumption DEF MaxHops
<1>1. PICK w \in [Nat -> Path] : Rounds(w, table, v) /\ Walk(table, v) = w[MaxHops]
  BY WalkRounds
<1> DEFINE T == {k \in Nat : w[k] = <<v>>}
<1> HIDE DEF T
<1>2. 0 \in T
  BY <1>1 DEF T, Rounds
<1>3. ASSUME NEW k \in Nat, k \in T
      PROVE  k + 1 \in T
  <2>1. w[k + 1] = w[k] \o table[Last(w[k])] /\ w[k] = <<v>>
    BY <1>1, <1>3 DEF Rounds, T
  <2>2. Last(<<v>>) = v
    BY DEF Last
  <2>3. <<v>> \o <<>> = <<v>>
    OBVIOUS
  <2>4. table[Last(w[k])] = <<>>
    BY <2>1, <2>2
  <2>5. k + 1 \in Nat /\ w[k + 1] = <<v>>
    BY <2>1, <2>3, <2>4
  <2>6. QED  BY <2>5 DEF T
<1>4. \A k \in Nat : k \in T
  BY <1>2, <1>3, SetInduction
<1>5. QED  BY <1>0, <1>1, <1>4 DEF T

\* The walk to a simple end is complete a round before the last.
LEMMA WalkSettles ==
  ASSUME NEW table \in [Node -> Seq(Node)], EntriesLong(table), NEW v \in Node,
         NEW w \in [Nat -> Path], Rounds(w, table, v),
         Len(w[MaxHops]) <= nodes
  PROVE  MaxHops - 1 \in Nat /\ w[MaxHops - 1] = w[MaxHops]
<1>0. nodes \in Nat /\ MaxHops \in Nat /\ 2 * MaxHops >= nodes
  BY NodesAssumption DEF MaxHops
<1>1. MaxHops >= 1
  BY <1>0 DEF Node
<1>2. SUFFICES ASSUME w[MaxHops - 1] # w[MaxHops]
               PROVE  FALSE
  BY <1>0, <1>1
<1>3. ASSUME NEW k \in Nat
      PROVE  /\ w[k] \in Path
             /\ w[k + 1] = w[k] \o table[Last(w[k])]
             /\ table[Last(w[k])] \in Seq(Node)
             /\ Len(w[k + 1]) = Len(w[k]) + Len(table[Last(w[k])])
             /\ Len(table[Last(w[k])]) \in Nat /\ Len(table[Last(w[k])]) # 1
             /\ table[Last(w[k])] = <<>> => w[k + 1] = w[k]
  <2>1. w[k] \in Path /\ w[k + 1] = w[k] \o table[Last(w[k])]
    BY DEF Rounds
  <2>2. Last(w[k]) \in Node /\ Len(w[k] \o table[Last(w[k])]) = Len(w[k]) + Len(table[Last(w[k])])
    BY <2>1, PathGrows
  <2>3. table[Last(w[k])] \in Seq(Node)
    BY <2>2
  <2>4. Len(table[Last(w[k])]) \in Nat /\ Len(table[Last(w[k])]) # 1
    BY <2>2, <2>3, LenProperties DEF EntriesLong
  <2>5. w[k] \o <<>> = w[k]
    BY <2>1, ConcatEmptySeq DEF Path
  <2>6. QED  BY <2>1, <2>2, <2>3, <2>4, <2>5
<1> DEFINE T == {j \in Nat : j <= MaxHops - 1 => table[Last(w[(MaxHops - 1) - j])] # <<>>}
<1> HIDE DEF T
<1>4. 0 \in T
  <2>1. MaxHops - 1 \in Nat /\ (MaxHops - 1) - 0 = MaxHops - 1 /\ (MaxHops - 1) + 1 = MaxHops
    BY <1>0, <1>1
  <2>2. table[Last(w[MaxHops - 1])] # <<>>
    BY <2>1, <1>2, <1>3
  <2>3. QED  BY <2>1, <2>2 DEF T
<1>5. ASSUME NEW j \in Nat, j \in T
      PROVE  j + 1 \in T
  <2>1. SUFFICES ASSUME j + 1 <= MaxHops - 1
                 PROVE  table[Last(w[(MaxHops - 1) - (j + 1)])] # <<>>
    BY DEF T
  <2> DEFINE k == (MaxHops - 1) - (j + 1)
  <2>2. k \in Nat /\ k + 1 = (MaxHops - 1) - j /\ j <= MaxHops - 1
    BY <2>1, <1>0
  <2>3. table[Last(w[k + 1])] # <<>>
    BY <2>2, <1>5 DEF T
  <2> HIDE DEF k
  <2>4. table[Last(w[k])] # <<>>
    BY <2>2, <2>3, <1>3
  <2>5. QED  BY <2>4 DEF k
<1>6. \A j \in Nat : j \in T
  BY <1>4, <1>5, SetInduction
<1>7. \A k \in 0 .. (MaxHops - 1) : table[Last(w[k])] # <<>>
  <2>1. SUFFICES ASSUME NEW k \in 0 .. (MaxHops - 1)
                 PROVE  table[Last(w[k])] # <<>>
    OBVIOUS
  <2>2. /\ (MaxHops - 1) - k \in Nat /\ (MaxHops - 1) - k <= MaxHops - 1
        /\ (MaxHops - 1) - ((MaxHops - 1) - k) = k
    BY <1>0, <1>1
  <2>3. (MaxHops - 1) - k \in T
    BY <2>2, <1>6
  <2>4. QED  BY <2>2, <2>3 DEF T
<1> DEFINE U == {k \in Nat : k <= MaxHops => Len(w[k]) >= 1 + 2 * k}
<1> HIDE DEF U
<1>8. 0 \in U
  <2>1. w[0] = <<v>> /\ Len(<<v>>) = 1
    BY DEF Rounds
  <2>2. Len(w[0]) >= 1 + 2 * 0
    BY <2>1
  <2>3. QED  BY <2>2 DEF U
<1>9. ASSUME NEW k \in Nat, k \in U
      PROVE  k + 1 \in U
  <2>1. SUFFICES ASSUME k + 1 <= MaxHops
                 PROVE  Len(w[k + 1]) >= 1 + 2 * (k + 1)
    BY DEF U
  <2>2. k <= MaxHops /\ k \in 0 .. (MaxHops - 1)
    BY <2>1, <1>0
  <2>3. Len(w[k]) >= 1 + 2 * k
    BY <2>2, <1>9 DEF U
  <2>4. Len(table[Last(w[k])]) # 0
    BY <2>2, <1>3, <1>7, EmptySeq
  <2>5. Len(w[k]) \in Nat
    BY <1>3, LenProperties DEF Path
  <2>6. /\ Len(w[k + 1]) = Len(w[k]) + Len(table[Last(w[k])])
        /\ Len(table[Last(w[k])]) \in Nat /\ Len(table[Last(w[k])]) # 1
    BY <1>3
  <2>7. Len(table[Last(w[k])]) >= 2
    <3>1. \A n \in Nat : n # 0 /\ n # 1 => n >= 2
      OBVIOUS
    <3>2. QED  BY <3>1, <2>4, <2>6
  <2>8. QED  BY <2>3, <2>5, <2>6, <2>7
<1>10. MaxHops \in U /\ MaxHops <= MaxHops
  <2>1. \A k \in Nat : k \in U
    BY <1>8, <1>9, SetInduction
  <2>2. QED  BY <2>1, <1>0
<1>11. Len(w[MaxHops]) >= 1 + 2 * MaxHops
  BY <1>10 DEF U
<1>12. Len(w[MaxHops]) \in Nat
  BY <1>0, LenProperties DEF Path
<1>13. QED  BY <1>0, <1>11, <1>12

\* Two nodes in a row.
LEMMA TwoJoined ==
  ASSUME NEW x, NEW y
  PROVE  <<x>> \o <<y>> = <<x, y>>
<1> DEFINE S == {x, y}
<1>1. <<x>> \in Seq(S) /\ <<y>> \in Seq(S) /\ <<x, y>> \in Seq(S)
  OBVIOUS
<1>2. Len(<<x>>) = 1 /\ Len(<<y>>) = 1 /\ Len(<<x, y>>) = 2
  OBVIOUS
<1>3. <<x>>[1] = x /\ <<y>>[1] = y /\ <<x, y>>[1] = x /\ <<x, y>>[2] = y
  OBVIOUS
<1> HIDE DEF S
<1> DEFINE a == <<x>>  b == <<y>> c == <<x, y>>
<1> HIDE DEF a, b, c
<1>4. a \in Seq(S) /\ b \in Seq(S) /\ c \in Seq(S) /\ Len(a) = 1 /\ Len(b) = 1 /\ Len(c) = 2
      /\ a[1] = x /\ b[1] = y /\ c[1] = x /\ c[2] = y
  BY <1>1, <1>2, <1>3 DEF a, b, c
<1>5. /\ a \o b \in Seq(S) /\ Len(a \o b) = 1 + 1
      /\ \A i \in 1 .. 1 + 1 : (a \o b)[i] = IF i <= 1 THEN a[i] ELSE b[i - 1]
  BY <1>4, ConcatProperties
<1>6. Len(a \o b) = Len(c) /\ \A i \in 1 .. Len(a \o b) : (a \o b)[i] = c[i]
  <2>1. \A i \in 1 .. Len(a \o b) : i = 1 \/ i = 2
    BY <1>5
  <2>2. 1 \in 1 .. 1 + 1 /\ 2 \in 1 .. 1 + 1 /\ 2 - 1 = 1 /\ 1 <= 1 /\ ~(2 <= 1)
    OBVIOUS
  <2>3. (a \o b)[1] = a[1] /\ (a \o b)[2] = b[1]
    BY <1>5, <2>2
  <2>4. QED  BY <1>4, <1>5, <2>1, <2>3
<1>7. a \o b = c
  BY <1>4, <1>5, <1>6, SeqEqual
<1>8. QED  BY <1>7 DEF a, b, c

\* Appending is associative.
LEMMA NodesJoined == \A p, q, r \in Seq(Node) : (p \o q) \o r = p \o (q \o r)
  BY ConcatAssociative

\* Three nodes in a row.
LEMMA TwoInFront ==
  ASSUME NEW x, NEW y, NEW u
  PROVE  <<x>> \o <<y, u>> = <<x, y>> \o <<u>>
<1> DEFINE S == {x, y, u}
<1>1. <<x>> \in Seq(S) /\ <<y, u>> \in Seq(S) /\ <<x, y>> \in Seq(S) /\ <<u>> \in Seq(S) /\ <<y>> \in Seq(S)
  OBVIOUS
<1> HIDE DEF S
<1>2. <<y, u>> = <<y>> \o <<u>> /\ <<x, y>> = <<x>> \o <<y>>
  BY TwoJoined
<1>3. <<x>> \o (<<y>> \o <<u>>) = (<<x>> \o <<y>>) \o <<u>>
  BY <1>1, ConcatAssociative
<1>4. QED  BY <1>2, <1>3

\* The walk from a node that hangs with its mate on the tree of u: two more
\* nodes in front of the walk from u.
LEMMA WalkHop ==
  ASSUME NEW table \in [Node -> Seq(Node)], EntriesLong(table),
         NEW x \in Node, NEW y \in Node, NEW u \in Node,
         table[x] = <<y, u>>, Len(Walk(table, u)) <= nodes
  PROVE  Walk(table, x) = <<x, y>> \o Walk(table, u)
<1>0. MaxHops \in Nat
  BY NodesAssumption DEF MaxHops
<1>1. PICK w \in [Nat -> Path] : Rounds(w, table, x) /\ Walk(table, x) = w[MaxHops]
  BY WalkRounds
<1>2. PICK z \in [Nat -> Path] : Rounds(z, table, u) /\ Walk(table, u) = z[MaxHops]
  BY WalkRounds
<1>3. MaxHops - 1 \in Nat /\ z[MaxHops - 1] = z[MaxHops]
  BY <1>2, WalkSettles
<1> DEFINE T == {k \in Nat : w[k + 1] = <<x, y>> \o z[k]}
<1> HIDE DEF T
<1>4. 0 \in T
  <2>1. w[0] = <<x>> /\ w[0 + 1] = w[0] \o table[Last(w[0])] /\ z[0] = <<u>>
    BY <1>1, <1>2 DEF Rounds
  <2>2. Last(<<x>>) = x
    BY DEF Last
  <2>3. <<x>> \o <<y, u>> = <<x, y>> \o <<u>>
    BY TwoInFront
  <2>4. QED  BY <2>1, <2>2, <2>3 DEF T
<1>5. ASSUME NEW k \in Nat, k \in T
      PROVE  k + 1 \in T
  <2>0. k + 1 \in Nat
    OBVIOUS
  <2>1. /\ w[k + 1] = <<x, y>> \o z[k]
        /\ w[(k + 1) + 1] = w[k + 1] \o table[Last(w[k + 1])]
        /\ z[k + 1] = z[k] \o table[Last(z[k])]
        /\ z[k] \in Path
    <3>1. w[k + 1] = <<x, y>> \o z[k]
      BY <1>5 DEF T
    <3>2. w[(k + 1) + 1] = w[k + 1] \o table[Last(w[k + 1])]
      BY <2>0, <1>1 DEF Rounds
    <3>3. z[k + 1] = z[k] \o table[Last(z[k])]
      BY <1>2 DEF Rounds
    <3>4. QED  BY <3>1, <3>2, <3>3
  <2>2. z[k] \in Seq(Node) /\ z[k] # <<>> /\ <<x, y>> \in Seq(Node) /\ Len(<<x, y>>) = 2
    BY <2>1 DEF Path
  <2>3. Last(<<x, y>> \o z[k]) = Last(z[k])
    <3>1. Len(z[k]) \in Nat \ {0}
      BY <2>2, LenProperties, EmptySeq
    <3>2. Len(<<x, y>> \o z[k]) = 2 + Len(z[k]) /\ (<<x, y>> \o z[k])[2 + Len(z[k])] = z[k][Len(z[k])]
      BY <2>2, <3>1, ConcatProperties
    <3>3. QED  BY <3>2 DEF Last
  <2>4. table[Last(z[k])] \in Seq(Node)
    BY <2>1, PathGrows
  <2>5. (<<x, y>> \o z[k]) \o table[Last(z[k])] = <<x, y>> \o (z[k] \o table[Last(z[k])])
    <3> DEFINE e == table[Last(z[k])]
               front == <<x, y>>
               zk == z[k]
    <3> HIDE DEF e, front, zk
    <3>1. front \in Seq(Node) /\ zk \in Seq(Node) /\ e \in Seq(Node)
      BY <2>2, <2>4 DEF e, front, zk
    <3>2. (front \o zk) \o e = front \o (zk \o e)
      BY <3>1, NodesJoined, Zenon
    <3>3. QED  BY <3>2 DEF e, front, zk
  <2>6. w[(k + 1) + 1] = <<x, y>> \o z[k + 1]
    BY <2>1, <2>3, <2>5
  <2>7. QED  BY <2>0, <2>6 DEF T
<1>6. MaxHops - 1 \in T /\ (MaxHops - 1) + 1 = MaxHops
  <2>1. \A k \in Nat : k \in T
    BY <1>4, <1>5, SetInduction
  <2>2. QED  BY <2>1, <1>0, <1>3
<1>7. w[MaxHops] = <<x, y>> \o z[MaxHops - 1]
  BY <1>6 DEF T
<1>8. QED  BY <1>1, <1>2, <1>3, <1>7

-----------------------------------------------------------------------------
\* The path s is what w has become in round j, the first that comes to base.
CutAt(s, w, base, j) ==
  /\ s = w[j]
  /\ \A l \in Nat : l < j => Last(w[l]) # base
  /\ Last(w[j]) = base \/ j = MaxHops

\* The segment of a walk that ends at a base is a round of the walk.
LEMMA SegmentRound ==
  ASSUME path_table \in [Node -> Seq(Node)], NEW x \in Node, NEW base,
         NEW w \in [Nat -> Path], Rounds(w, path_table, x)
  PROVE  \E j \in 0 .. MaxHops : CutAt(SegmentTo(x, base), w, base, j)
<1> DEFINE more == [p \in Seq(Node) |->
                      IF Last(p) = base THEN p ELSE p \o path_table[Last(p)]]
           h == [c \in Nat \X Path |-> more[c[2]]]
<1>0. MaxHops \in Nat
  BY NodesAssumption DEF MaxHops
<1>1. ASSUME NEW p \in Path
      PROVE  /\ more[p] = IF Last(p) = base THEN p ELSE p \o path_table[Last(p)]
             /\ more[p] \in Path
  <2>1. p \o path_table[Last(p)] \in Path
    BY PathGrows
  <2>2. p \in Seq(Node)
    BY DEF Path
  <2>3. more[p] = IF Last(p) = base THEN p ELSE p \o path_table[Last(p)]
    BY <2>2
  <2>4. QED  BY <2>1, <2>3
<1>2. <<x>> \in Path
  BY DEF Path
<1>3. \A k \in Nat, p \in Path : h[<<k, p>>] = more[p] /\ h[<<k, p>>] \in Path
  BY <1>1
<1> HIDE DEF h
<1>4. IsStepOn(h, Path)
  BY <1>3 DEF IsStepOn
<1>5. \E f \in [Nat -> Path] : IsIteration(f, h, <<x>>)
  BY <1>2, <1>4, Recursion
<1>6. PICK f \in [Nat -> Path] : f[0] = <<x>> /\ \A k \in Nat : f[k + 1] = h[<<k, f[k]>>]
  BY <1>5 DEF IsIteration
<1> HIDE DEF more
<1> DEFINE Eq(g) == g = [k \in Nat |-> IF k = 0 THEN <<x>> ELSE more[g[k - 1]]]
           seg == CHOOSE g : Eq(g)
<1>7. SegmentTo(x, base) = seg[MaxHops]
  BY DEF SegmentTo, more
<1>8. Eq(f)
  <2>1. ASSUME NEW k \in Nat
        PROVE  f[k] = IF k = 0 THEN <<x>> ELSE more[f[k - 1]]
    <3>1. CASE k = 0
      BY <3>1, <1>6
    <3>2. CASE k # 0
      <4>1. k - 1 \in Nat /\ (k - 1) + 1 = k
        BY <3>2
      <4>2. f[k] = h[<<k - 1, f[k - 1]>>] /\ f[k - 1] \in Path
        BY <4>1, <1>6
      <4>3. QED  BY <4>1, <4>2, <3>2, <1>3
    <3>3. QED  BY <3>1, <3>2
  <2>2. QED  BY <2>1
<1>9. Eq(seg)
  BY <1>8
<1> HIDE DEF seg
<1>10. \A k \in Nat : seg[k] = IF k = 0 THEN <<x>> ELSE more[seg[k - 1]]
  BY <1>9
<1> DEFINE Seg(k, j) == /\ seg[k] = w[j]
                        /\ \A l \in Nat : l < j => Last(w[l]) # base
                        /\ Last(w[j]) = base \/ j = k
           T == {k \in Nat : \E j \in 0 .. k : Seg(k, j)}
<1> HIDE DEF T
<1>11. 0 \in T
  <2>1. seg[0] = <<x>> /\ w[0] = <<x>> /\ 0 \in 0 .. 0
    BY <1>10 DEF Rounds
  <2>2. \A l \in Nat : ~(l < 0)
    OBVIOUS
  <2>3. Seg(0, 0)
    BY <2>1, <2>2
  <2>4. QED  BY <2>1, <2>3 DEF T
<1>12. ASSUME NEW k \in Nat, k \in T
       PROVE  k + 1 \in T
  <2>1. seg[k + 1] = more[seg[k]]
    <3>1. k + 1 \in Nat /\ k + 1 # 0 /\ (k + 1) - 1 = k
      OBVIOUS
    <3>2. QED  BY <3>1, <1>10
  <2>2. PICK j \in 0 .. k : Seg(k, j)
    BY <1>12 DEF T
  <2>3. /\ j \in Nat /\ j \in 0 .. (k + 1) /\ j + 1 \in 0 .. (k + 1) /\ k + 1 \in Nat
    OBVIOUS
  <2>4. w[j] \in Path /\ w[j + 1] = w[j] \o path_table[Last(w[j])]
    BY <2>3 DEF Rounds
  <2>5. CASE Last(w[j]) = base
    <3>1. Seg(k + 1, j)
      BY <2>1, <2>2, <2>4, <2>5, <1>1
    <3>2. QED  BY <3>1, <2>3 DEF T
  <2>6. CASE Last(w[j]) # base
    <3>1. j = k /\ seg[k + 1] = w[j + 1]
      BY <2>1, <2>2, <2>4, <2>6, <1>1
    <3>2. \A l \in Nat : l < j + 1 => l < j \/ l = j
      BY <2>3
    <3>3. Seg(k + 1, j + 1)
      BY <3>1, <3>2, <2>2, <2>6
    <3>4. QED  BY <3>3, <2>3 DEF T
  <2>7. QED  BY <2>5, <2>6
<1>13. MaxHops \in T
  BY <1>0, <1>11, <1>12, SetInduction
<1>14. QED  BY <1>7, <1>13 DEF T, CutAt

\* It visits nodes of the walk.
LEMMA SegmentFacts ==
  ASSUME path_table \in [Node -> Seq(Node)], NEW x \in Node, NEW base
  PROVE  /\ SegmentTo(x, base) \in Seq(Node)
         /\ Range(SegmentTo(x, base)) \subseteq Range(Walk(path_table, x))
<1>0. MaxHops \in Nat
  BY NodesAssumption DEF MaxHops
<1>1. PICK w \in [Nat -> Path] : Rounds(w, path_table, x) /\ Walk(path_table, x) = w[MaxHops]
  BY WalkRounds
<1>2. PICK j \in 0 .. MaxHops : SegmentTo(x, base) = w[j]
  BY <1>1, SegmentRound DEF CutAt
<1>3. j \in Nat /\ j <= MaxHops
  BY <1>0
<1>4. Range(w[j]) \subseteq Range(w[MaxHops])
  BY <1>0, <1>1, <1>3, RoundsGrow
<1>5. w[j] \in Path
  BY <1>3
<1>6. QED  BY <1>1, <1>2, <1>4, <1>5 DEF Path

\* A blossom by anchors lies on the two walks it is made from.
LEMMA BlossomFacts ==
  ASSUME path_table \in [Node -> Seq(Node)], NEW v \in Node, NEW w \in Node
  PROVE  /\ Blossom(v, w) \in Seq(Node)
         /\ Range(Blossom(v, w)) \subseteq
              Range(Walk(path_table, v)) \cup Range(Walk(path_table, w))
<1> DEFINE base == Chased(v, w)[1]
           p == SegmentTo(v, base)
           q == SegmentTo(w, base)
<1>1. Blossom(v, w) = Reverse(p) \o q
  BY DEF Blossom
<1> HIDE DEF base
<1>2. /\ p \in Seq(Node) /\ Range(p) \subseteq Range(Walk(path_table, v))
      /\ q \in Seq(Node) /\ Range(q) \subseteq Range(Walk(path_table, w))
  BY SegmentFacts
<1> HIDE DEF p, q
<1>3. Reverse(p) \in Seq(Node) /\ Range(Reverse(p)) = Range(p)
  BY <1>2, ReverseRange
<1>4. Reverse(p) \o q \in Seq(Node) /\ Range(Reverse(p) \o q) = Range(Reverse(p)) \cup Range(q)
  BY <1>2, <1>3, ConcatRange
<1>5. QED  BY <1>1, <1>2, <1>3, <1>4
=============================================================================
