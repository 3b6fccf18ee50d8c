----------------------------- MODULE NodeWorkers ----------------------------
(***************************************************************************)
(* How the node-parallel CPU engine (run_xb_pro_pernode) shares out the    *)
(* frontier: the worker threads of a phase take chunks of nodes_vector     *)
(* from an atomic counter and walk the CSR rows of their chunk.            *)
(***************************************************************************)
EXTENDS Search

CONSTANT ChunkSize                \* node_schedule_chunk, 64 in the code

ASSUME ChunkAssumption == ChunkSize \in Nat \ {0}

VARIABLE next_node                \* the atomic counter over nodes_vector

\* next_node.fetch_add(chunk_size) found nodes left; the edges of the chunk
\* that are live, can pass the test of the phase, are the thread's next share.
TakeChunk(t, live) ==
  LET past  == next_node + ChunkSize
      chunk == SubSeq(nodes_vector, next_node + 1,
                      IF past < Len(nodes_vector) THEN past ELSE Len(nodes_vector))
      rows  == FlattenSeq([i \in DOMAIN chunk |-> Row(adj, chunk[i])])
  IN  /\ pc[t] = "fetch"
      /\ next_node < Len(nodes_vector)
      /\ next_node' = past
      /\ GoOn(t, Among(rows, live))
      /\ UNCHANGED <<local, lap>>

\* It found none: the thread goes on to merge its results.
LeaveLoop(t) ==
  /\ Step(t, "fetch", "merge")
  /\ next_node >= Len(nodes_vector)
  /\ next_node' = next_node + ChunkSize
  /\ UNCHANGED <<todo, local, lap>>
=============================================================================
