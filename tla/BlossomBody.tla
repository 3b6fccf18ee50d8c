---------------------------- MODULE BlossomBody -----------------------------
(***************************************************************************)
(* Phase 3: an edge (v, w) between two even nodes of one tree closes an    *)
(* odd cycle, the blossom.  Its odd nodes become even: each is claimed by  *)
(* CAS and gets as its table entry the rest of the cycle to the base.  The *)
(* engines differ in how they find the cycle (by the anchors, findBlossom, *)
(* or by the two full walks, find_blossom_vector_debug), and in whether an *)
(* entry that visits a node twice is dropped again.                        *)
(*                                                                         *)
(* belongs and M are frozen in this phase and is_even only goes from 0 to  *)
(* 1, so SameTree never changes its answer; is_even[w] does and is tested  *)
(* when the thread comes to the edge.  The cycle is read from the entries  *)
(* of even nodes only, which no longer change (EvenEntriesFrozen), so it   *)
(* is found in one step.  blossom_to_base is never read for a decision and *)
(* is left out.                                                            *)
(***************************************************************************)
EXTENDS Search, Blossoms

\* How many nodes the ends of two walks have in common.
CommonEnd(p, q) ==
  LET n == IF Len(p) < Len(q) THEN Len(p) ELSE Len(q)
      agree(k) == \A i \in 0..(k - 1) : p[Len(p) - i] = q[Len(q) - i]
  IN  CHOOSE k \in 0..n : agree(k) /\ \A j \in (k + 1)..n : ~agree(j)

\* The nodes a walk from x chains entries at.
Anchors(x) ==
  LET up[k \in Nat] ==
        IF k = 0 THEN {x}
        ELSE up[k - 1] \cup {Last(path_table[y]) :
                               y \in {z \in up[k - 1] : path_table[z] # <<>>}}
  IN  up[nodes]

\* What find_path_vector_blossom_w and find_blossom_vector_debug check of the
\* walks, "handling data racing": otherwise the edge is left.
WalksMeet(v, w) ==
  /\ path_table[w] = <<>> => w = belongs[w]
  /\ \A x \in Anchors(w) : belongs[x] = belongs[w]
  /\ Last(Walk(path_table, v)) = Last(Walk(path_table, w))

\* base .. v, w .. base: the two walks without what follows their base.
WalkCycle(v, w) ==
  LET p == Walk(path_table, v)  q == Walk(path_table, w)
      k == CommonEnd(p, q)
  IN  Reverse(SubSeq(p, 1, Len(p) - k + 1)) \o SubSeq(q, 1, Len(q) - k + 1)

\* The nodes the two loops visit with the entry each would get: first every
\* second node from the far end down, with the rest of the cycle; then every
\* second node from the front up, with the cycle back to the base.
Laps(b) ==
  LET n    == Len(b)
      down == [i \in 1..((n - 1) \div 2) |->
                 LET k == n - 2 * i
                 IN  <<b[k], SubSeq(b, k + 1, n)>>]
      up   == [i \in 1..((n - 2) \div 2) |->
                 LET k == 2 * i + 1
                 IN  <<b[k], Reverse(SubSeq(b, 1, k - 1))>>]
  IN  down \o up

-----------------------------------------------------------------------------
Current(t) == Head(lap[t])[1]
Entry(t)   == Head(lap[t])[2]

NextLap(t) == lap' = [lap EXCEPT ![t] = Tail(@)]

BlossomSkip(t) ==
  /\ pc[t] = "scan"
  /\ is_even[Edge(t)[2]] = 0
  /\ NextEdge(t)
  /\ UNCHANGED <<lap, select_blossom, is_even, path_table, local>>

\* The nodes a thread visits that found the blossom b.  Even nodes stay even:
\* a visit to them does nothing and is left out.
OddOf(b) == Among(Laps(b), {l \in Range(Laps(b)) : is_even[l[1]] = 0})

\* By the anchors.  Without a base the code indexes an empty vector.
FindBlossom(t) ==
  LET v == Edge(t)[1]  w == Edge(t)[2]
  IN  /\ Step(t, "scan", IF HasBase(v, w) THEN "visit" ELSE "crashed")
      /\ is_even[w] = 1
      /\ lap' = [lap EXCEPT ![t] = IF HasBase(v, w) THEN OddOf(Blossom(v, w)) ELSE <<>>]
      /\ UNCHANGED <<select_blossom, is_even, path_table, todo, local>>

\* By the walks.
FindCycle(t) ==
  LET v == Edge(t)[1]  w == Edge(t)[2]
  IN  /\ pc[t] = "scan"
      /\ is_even[w] = 1
      /\ IF WalksMeet(v, w)
         THEN /\ lap' = [lap EXCEPT ![t] = OddOf(WalkCycle(v, w))]
              /\ pc' = [pc EXCEPT ![t] = "visit"]
              /\ UNCHANGED todo
         ELSE NextEdge(t) /\ UNCHANGED lap
      /\ UNCHANGED <<select_blossom, is_even, path_table, local>>

VisitSkip(t) ==
  /\ pc[t] = "visit" /\ lap[t] # <<>>
  /\ is_even[Current(t)] = 1 \/ path_table[Current(t)] # <<>>
  /\ NextLap(t)
  /\ UNCHANGED <<select_blossom, is_even, path_table, pc, todo, local>>

Visit(t) ==
  /\ Step(t, "visit", "claim")
  /\ lap[t] # <<>>
  /\ is_even[Current(t)] = 0 /\ path_table[Current(t)] = <<>>
  /\ UNCHANGED <<lap, select_blossom, is_even, path_table, todo, local>>

\* Mutant: a plain store for the CAS.
StoreNode(t) ==
  /\ Step(t, "claim", "fill")
  /\ select_blossom' = [select_blossom EXCEPT ![Current(t)] = 1]
  /\ UNCHANGED <<lap, is_even, path_table, todo, local>>

ClaimNode(t) ==
  /\ Step(t, "claim", "fill")
  /\ select_blossom[Current(t)] = 0
  /\ select_blossom' = [select_blossom EXCEPT ![Current(t)] = 1]
  /\ UNCHANGED <<lap, is_even, path_table, todo, local>>

ClaimNodeFails(t) ==
  /\ Step(t, "claim", "visit")
  /\ select_blossom[Current(t)] = 1
  /\ NextLap(t)
  /\ UNCHANGED <<select_blossom, is_even, path_table, todo, local>>

\* The entry is written; `next` is what follows.
Write(t, next) ==
  /\ Step(t, "fill", next)
  /\ path_table' = [path_table EXCEPT ![Current(t)] = @ \o Entry(t)]
  /\ UNCHANGED <<lap, select_blossom, is_even, todo, local>>

\* With the check for a node visited twice, and without it.
FillChecked(t) == Write(t, IF IsInjective(path_table[Current(t)] \o Entry(t))
                           THEN "even" ELSE "undo")
FillUnchecked(t) == Write(t, "even")

\* The entry is dropped; select_blossom keeps its 1.
DropEntry(t) ==
  /\ Step(t, "undo", "visit")
  /\ path_table' = [path_table EXCEPT ![Current(t)] = <<>>]
  /\ NextLap(t)
  /\ UNCHANGED <<select_blossom, is_even, todo, local>>

MakeEven(t) ==
  /\ Step(t, "even", "visit")
  /\ is_even' = [is_even EXCEPT ![Current(t)] = 1]
  /\ local' = [local EXCEPT ![t] = Append(@, Current(t))]
  /\ NextLap(t)
  /\ UNCHANGED <<select_blossom, path_table, todo>>

\* The blossom is done with: on to the next edge.
CloseBlossom(t) ==
  /\ pc[t] = "visit" /\ lap[t] = <<>>
  /\ NextEdge(t)
  /\ UNCHANGED <<lap, select_blossom, is_even, path_table, local>>

\* Mutant: the new even nodes are not handed to the driver.
MergeNothing(t, at) ==
  /\ EndThread(t, at)
  /\ UNCHANGED <<vector_2, select_blossom, is_even, path_table>>

BlossomMerge(t, at) ==
  /\ EndThread(t, at)
  /\ vector_2' = vector_2 \o local[t]
  /\ UNCHANGED <<select_blossom, is_even, path_table>>

\* What all engines do around finding the cycle and writing an entry.
RoundBlossom(t) ==
  \/ BlossomSkip(t)
  \/ VisitSkip(t) \/ Visit(t)
  \/ ClaimNode(t) \/ ClaimNodeFails(t)
  \/ MakeEven(t) \/ CloseBlossom(t)

(***************************************************************************)
(* findBlossom always meets a base before its iteration limit: its callers *)
(* ignore the flag that says otherwise and index the empty blossom.        *)
(***************************************************************************)
BlossomHasBase == \A t \in Thread : pc[t] # "crashed"

(***************************************************************************)
(* An entry that makes a node even is simple: with one thread the check    *)
(* for repeated nodes in parBlossom_pro_all never fires.                   *)
(***************************************************************************)
EntriesSimple == \A t \in Thread : pc[t] # "undo"

(***************************************************************************)
(* The guards "handling data racing" in the engines that compare the full  *)
(* walks never fire: an edge that passes the racy test is never given up.  *)
(***************************************************************************)
WalksAlwaysMeet ==
  \A t \in Thread :
    (phase = "blossom" /\ pc[t] = "scan" /\ is_even[Edge(t)[2]] = 1)
      => WalksMeet(Edge(t)[1], Edge(t)[2])
=============================================================================
