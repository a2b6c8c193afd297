------------------------------- MODULE MCCli --------------------------------
(***************************************************************************)
(* Small instances of Cli: two paths, contents of one and two chunks that  *)
(* decode exactly, nearly and not at all, an ingest that names a path      *)
(* twice and one that fails half way.                                      *)
(***************************************************************************)
EXTENDS Cli

CONSTANTS dir, leaf, top, x, y, z

p == <<dir, leaf>>
q == <<top>>
MCPaths == {p, q}
MCNested == {<<dir>>, p, q}
In(path, source) == [path |-> path, source |-> source]

MCContents == {<<x, y>>, <<z>>}
MCInputs == {<<In(p, <<x, y>>), In(q, <<z>>)>>,
             <<In(q, <<z>>), In(q, <<x, y>>)>>,
             <<In(p, <<z>>), In(q, Unreadable)>>}

\* Two queries, one nearer to each content; the root of a sub-engram may rank high
\* when its chunks do not.
MCChunkCosine(query, c) == IF query = 1 THEN (CASE c = x -> 3 [] c = y -> 2 [] OTHER -> 1)
                                        ELSE (CASE c = z -> 3 [] OTHER -> 1)
MCRootCosine(query, item) == IF query = 1 THEN Len(item.prefix) ELSE 3 - Len(item.prefix)
MCOverlap(query, c) == 4 - MCChunkCosine(query, c)

Bound(k, beam, depth, expansions, indices) ==
  [k |-> k, candidateK |-> 100, beamWidth |-> beam, maxDepth |-> depth,
   maxExpansions |-> expansions, maxIndices |-> indices]
MCBounds == {Bound(2, 32, 128, 128, 1), Bound(1, 1, 4, 2, 16)}
MCNoCache == {Bound(1, 32, 4, 128, 0)}
=============================================================================
