---------------------------- MODULE MCEngramRoot ----------------------------
(***************************************************************************)
(* Four concurrent bundle_chunk calls with distinct chunks and a retry     *)
(* limit of 2: two calls can overtake a third in both of its attempts.     *)
(***************************************************************************)
EXTENDS EngramRoot

MCChunk == [t \in Threads |-> t]
=============================================================================
