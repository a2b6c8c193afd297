------------------------------ MODULE RootSpec ------------------------------
(***************************************************************************)
(* What bundling promises.  The root engram is the superposition of the    *)
(* chunks bundled into it: one call adds all the chunks of its batch that  *)
(* the chunk store holds, in one indivisible step, and nothing ever leaves *)
(* the root.                                                               *)
(***************************************************************************)
CONSTANTS
  Bundlers,   \* the calls of bundle_chunks_to_root
  Batch,      \* Batch[b]: the chunk ids that call b was given
  Stored,     \* the ids that chunk_store.get finds
  InitRoot    \* the ids bundled before the first call

VARIABLES
  root,       \* the ids whose vectors are in the root superposition
  finished    \* the calls that have returned

Contribution(b) == Batch[b] \cap Stored

Init == root = InitRoot /\ finished = {}

AddBatch(b) ==
  /\ b \notin finished
  /\ root' = root \cup Contribution(b)
  /\ finished' = finished \cup {b}

Next == \E b \in Bundlers : AddBatch(b)

vars == <<root, finished>>

Spec == Init /\ [][Next]_vars
=============================================================================
