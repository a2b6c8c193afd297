--------------------------- MODULE MCVersionedFS ----------------------------
(***************************************************************************)
(* Small instances of VersionedFS.  Bytes 1 and 2 stand for byte values    *)
(* that do and do not survive the vector encoding when ExactBytes = {1};   *)
(* 3 is another one that does not.                                         *)
(* Chunks hold two bytes, so that an offset can be inside a chunk, at its  *)
(* edge, or in the next one.                                               *)
(***************************************************************************)
EXTENDS VersionedFS

CONSTANTS p1, p2

\* Two contents that differ in every chunk, and the initial file.
MCContents == {<<1, 1, 1>>, <<2, 2, 2>>}
MCOneContent == {<<2, 2, 2>>}
MCInitContent == <<1, 2, 1>>
MCNone == {}

\* The threads run the same code.
MCSymmetry == Permutations(Threads)

\* Replacements: one byte, both chunks at once, one byte past the end.
MCChangeSets ==
  {{[off |-> 0, val |-> 2]},
   {[off |-> 1, val |-> 1], [off |-> 2, val |-> 2]},
   {[off |-> 7, val |-> 2]}}
\* The same with a third byte that does not survive.  Byte 1 is only written at
\* the end of a chunk or into a new one: no chunk stops needing a correction.
MCDeltaContent == <<2, 1, 2>>
MCDeltaChanges ==
  {{[off |-> 0, val |-> 3]},
   {[off |-> 1, val |-> 1], [off |-> 2, val |-> 3]},
   {[off |-> 7, val |-> 2]}}
MCAcross == {{[off |-> 0, val |-> 2], [off |-> 2, val |-> 2]}}
MCOneByte == {{[off |-> 0, val |-> 2]}}
MCTwoBytes == {{[off |-> 0, val |-> 2]}, {[off |-> 1, val |-> 1]}}

\* Appends that fit into the last chunk, overflow it, or add nothing.
MCAppends == {<<>>, <<2>>, <<2, 1>>}
MCOneAppend == {<<1, 1>>}
MCLengths == {0, 1, 2, 9}
MCOneLength == {1}
=============================================================================
