---------------------------- MODULE MCRootBundle ----------------------------
(***************************************************************************)
(* Instances of RootBundle for TLC: three concurrent calls whose batches   *)
(* are disjoint (allocate_chunk_id never repeats an id), one of them with  *)
(* an id the chunk store no longer has.                                    *)
(***************************************************************************)
EXTENDS RootBundle, TLC

CONSTANTS b1, b2, b3

MCBundlers == {b1, b2, b3}
MCChunkIds == 0..5
MCBatch == (b1 :> {1, 2}) @@ (b2 :> {3}) @@ (b3 :> {4, 5})
MCStored == MCChunkIds \ {5}
MCInitRoot == {0}
=============================================================================
