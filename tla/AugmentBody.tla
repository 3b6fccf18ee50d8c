----------------------------- MODULE AugmentBody ----------------------------
(***************************************************************************)
(* Phase 1 of the engines that share the frontier by nodes                 *)
(* (parAugmentingPath_pro_all, _200, _pro_2, _pro_3, _pro_all_atomic):     *)
(* find bridges between trees and claim both trees by CAS, the tree of v   *)
(* first.  is_even, belongs and path_table are only read in this phase, so *)
(* an edge that is no bridge when the share is taken is none later.        *)
(***************************************************************************)
EXTENDS Search

Bridges == {e \in Node \X Node : IsBridge(e[1], e[2])}

TreeV(t) == belongs[Edge(t)[1]]
TreeW(t) == belongs[Edge(t)[2]]

LockV(t) ==
  /\ Step(t, "scan", "second")
  /\ select_tree[TreeV(t)] = 0
  /\ select_tree' = [select_tree EXCEPT ![TreeV(t)] = 1]
  /\ UNCHANGED <<path_collection, todo, local>>

\* `break`: the rest of v's row is not looked at any more.
LockVFails(t) ==
  /\ pc[t] = "scan"
  /\ select_tree[TreeV(t)] = 1
  /\ GoOn(t, Among(todo[t], {e \in Range(todo[t]) : e[1] # Edge(t)[1]}))
  /\ UNCHANGED <<select_tree, path_collection, local>>

\* Mutants of LockW: an atomic add for the CAS; a plain store.
AddW(t) ==
  /\ pc[t] = "second"
  /\ select_tree' = [select_tree EXCEPT ![TreeW(t)] = @ + 1]
  /\ local' = [local EXCEPT ![t] =
                 @ \o JoinWalks(path_table, Edge(t)[1], Edge(t)[2])]
  /\ NextEdge(t)
  /\ UNCHANGED path_collection

StoreW(t) ==
  /\ pc[t] = "second"
  /\ select_tree' = [select_tree EXCEPT ![TreeW(t)] = 1]
  /\ local' = [local EXCEPT ![t] =
                 @ \o JoinWalks(path_table, Edge(t)[1], Edge(t)[2])]
  /\ NextEdge(t)
  /\ UNCHANGED path_collection

\* Both trees now belong to this path for good.
LockW(t) ==
  /\ pc[t] = "second"
  /\ select_tree[TreeW(t)] = 0
  /\ select_tree' = [select_tree EXCEPT ![TreeW(t)] = 1]
  /\ local' = [local EXCEPT ![t] =
                 @ \o JoinWalks(path_table, Edge(t)[1], Edge(t)[2])]
  /\ NextEdge(t)
  /\ UNCHANGED path_collection

LockWFails(t) ==
  /\ Step(t, "second", "release")
  /\ select_tree[TreeW(t)] = 1
  /\ UNCHANGED <<select_tree, path_collection, todo, local>>

\* Mutant: v's tree stays locked.
KeepV(t) ==
  /\ pc[t] = "release"
  /\ NextEdge(t)
  /\ UNCHANGED <<select_tree, path_collection, local>>

ReleaseV(t) ==
  /\ pc[t] = "release"
  /\ select_tree' = [select_tree EXCEPT ![TreeV(t)] = 0]
  /\ NextEdge(t)
  /\ UNCHANGED <<path_collection, local>>

AugmentMerge(t, at) ==
  /\ EndThread(t, at)
  /\ path_collection' = IF local[t] = <<>> THEN path_collection
                        ELSE Append(path_collection, local[t])
  /\ UNCHANGED select_tree

AugmentStep(t) ==
  /\ LockV(t) \/ LockVFails(t) \/ LockW(t) \/ LockWFails(t) \/ ReleaseV(t)
  /\ UNCHANGED lap

(***************************************************************************)
(* No tree lock leaks in a search: a locked tree lies on a found path or   *)
(* is held by a thread between its two CAS, not both.                      *)
(***************************************************************************)
OnPath == {belongs[x] : x \in Range(FlattenSeq(Found))}
Held == {TreeV(t) : t \in {u \in Thread : pc[u] \in {"second", "release"}}}

LocksAccounted ==
  phase = "augment" =>
    /\ {r \in Node : select_tree[r] = 1} = OnPath \cup Held
    /\ OnPath \cap Held = {}
=============================================================================
