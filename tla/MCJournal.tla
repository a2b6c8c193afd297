----------------------------- MODULE MCJournal ------------------------------
(***************************************************************************)
(* Two writers, three transactions, the flusher and the owner, in all      *)
(* three durability modes; one checkpoint beside the recoveries', one I/O  *)
(* error and one power failure, at any time.                               *)
(***************************************************************************)
EXTENDS Journal

MCModes == AllModes
=============================================================================
