----------------------------- MODULE MCStreaming -----------------------------
(***************************************************************************)
(* Small instances of Streaming: chunks of two bytes by default and of one *)
(* in the reversible encoding; "b" is a byte the encoding does not         *)
(* reproduce.  A file written through LargeFileHandler has chunks of one   *)
(* or three bytes, one streamed has chunks of two, which is what the sizes *)
(* the callers ask for are clamped to.                                     *)
(***************************************************************************)
EXTENDS Streaming, TLC

CONSTANTS t1, t2

MCContents == {<<"a", "b", "c", "b", "a">>}
MCSymmetry == Permutations(Threads)
=============================================================================
