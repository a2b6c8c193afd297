----------------------------- MODULE Hierarchy ------------------------------
(***************************************************************************)
(* Hierarchical bundling and retrieval (embrfs.rs).  bundle_hierarchically *)
(* makes a tree of sub-engrams, one for each prefix of a path, each with   *)
(* the ids of the chunks below it; a query unfolds the most promising ones *)
(* within bounds and keeps the best chunks.                                *)
(*                                                                         *)
(* A path is a sequence of names.  A sub-engram is named by its prefix and *)
(* its shard, 0 when it is not one.  How similar a query is to a sub-engram*)
(* and to a chunk is given by constants: nothing relates the two.          *)
(***************************************************************************)
EXTENDS EmbrFS, Integers

CONSTANTS
  RootCosine(_, _),    \* of a query and the root of a sub-engram
  ChunkCosine(_, _),   \* of a query and a chunk's vector
  Overlap(_, _)        \* the score of a chunk in an inverted index

Node(prefix, shard) == [prefix |-> prefix, shard |-> shard]

Smaller(m, n) == IF m < n THEN m ELSE n
FirstN(s, n) == SubSeq(s, 1, Smaller(n, Len(s)))

\* The n best of a set by a score, best first; ties are broken in any fixed way.
Best(S, n, Score(_)) ==
  FoldLeft(LAMBDA best, i :
             LET rest == S \ ToSet(best)
             IN Append(best, CHOOSE a \in rest : \A b \in rest : Score(a) >= Score(b)),
           <<>>, [i \in 1..Smaller(n, Cardinality(S)) |-> i])

\* Mutant: the last shard, when it is not full, is left out.
ShardCountFull(n, maxChunks) == IF maxChunks > 0 /\ n > maxChunks THEN n \div maxChunks ELSE 0

ShardCount(n, maxChunks) ==
  IF maxChunks > 0 /\ n > maxChunks THEN (n + maxChunks - 1) \div maxChunks ELSE 0

\* The sub-engrams and the nodes of level 0.  Entries marked deleted are bundled
\* like the others.
BundleHierarchically(fs, maxChunks) ==
  LET files == ToSet(fs.manifest.files)
      prefixes == UNION {{SubSeq(f.path, 1, n) : n \in 1..Len(f.path)} : f \in files}
      Chunks(x) == UNION {ToSet(f.chunks) : f \in {g \in files : IsPrefix(x, g.path)}}
                     \cap DOMAIN fs.engram.codebook
      Shards(x) == ShardCount(Cardinality(Chunks(x)), maxChunks)
      Children(x) == {Node(z, 0) : z \in {y \in prefixes : IsPrefix(x, y) /\ Len(y) = Len(x) + 1}}
      Sorted(x) == Best(Chunks(x), Cardinality(Chunks(x)), LAMBDA id : -id)
      SubEngram(x, k) ==
        IF k > 0 THEN [chunks |-> FirstN(SubSeq(Sorted(x), (k - 1) * maxChunks + 1, Len(Sorted(x))),
                                         maxChunks),
                       children |-> {}]
        ELSE IF Shards(x) > 0
             THEN [chunks |-> <<>>, children |-> {Node(x, j) : j \in 1..Shards(x)} \cup Children(x)]
             ELSE [chunks |-> Sorted(x), children |-> Children(x)]
      nodes == UNION {{Node(x, k) : k \in 0..Shards(x)} : x \in prefixes}
  IN [subs |-> [n \in nodes |-> SubEngram(n.prefix, n.shard)],
      level0 |-> {n \in nodes : Len(n.prefix) = 1 /\ n.shard = 0}]

-----------------------------------------------------------------------------
(* LruCache: the keys, least recently used first. *)

Touch(cache, key) == Append(SelectSeq(cache, LAMBDA k : k # key), key)

LruInsert(cache, cap, key) ==
  IF cap = 0 THEN cache
  ELSE IF \E i \in DOMAIN cache : cache[i] = key THEN Touch(cache, key)
  ELSE LET grown == Append(cache, key)
       IN SubSeq(grown, Len(grown) - Smaller(cap, Len(grown)) + 1, Len(grown))

-----------------------------------------------------------------------------
(* Queries. *)

\* RemappedInvertedIndex: the index is filled under the position of a chunk in the
\* list, local_to_global leaves out the chunks the codebook does not have.  The
\* query of the index is embeddenator-retrieval's: it is taken to score every chunk
\* that was indexed.
LocalHits(sub, codebook, q, bounds) ==
  LET indexed == {i \in DOMAIN sub.chunks : sub.chunks[i] \in DOMAIN codebook}
      localToGlobal == SelectSeq(sub.chunks, LAMBDA id : id \in DOMAIN codebook)
      candidates == ToSet(Best(indexed, bounds.candidateK,
                               LAMBDA i : Overlap(q, codebook[sub.chunks[i]])))
      found == {localToGlobal[i] : i \in candidates \cap DOMAIN localToGlobal}
  IN ToSet(Best(found, bounds.k, LAMBDA id : ChunkCosine(q, codebook[id])))

Beam(frontier, q, width) ==
  Best(frontier, width, LAMBDA item : RootCosine(q, item.node))

\* One round of the loop: take the best node off the frontier, merge its hits, put
\* its children on.  An index cache that keeps nothing ends it in a panic.
Expand(s, h, codebook, q, bounds) ==
  LET item == Head(s.frontier)
      sub == h.subs[item.node]
      indices == LruInsert(s.indices, bounds.maxIndices, item.node)
      deeper == IF item.depth >= bounds.maxDepth THEN {}
                ELSE {[node |-> n, depth |-> item.depth + 1] : n \in sub.children \cap DOMAIN h.subs}
      rest == ToSet(Tail(s.frontier)) \cup deeper
  IN [frontier |-> IF deeper = {} THEN Tail(s.frontier) ELSE Beam(rest, q, bounds.beamWidth),
      hits |-> s.hits \cup LocalHits(sub, codebook, q, bounds),
      expansions |-> s.expansions + 1,
      indices |-> indices,
      panic |-> item.node \notin ToSet(indices)]

RECURSIVE Search(_, _, _, _, _)
Search(s, h, codebook, q, bounds) ==
  IF s.panic \/ s.frontier = <<>> \/ s.expansions >= bounds.maxExpansions THEN s
  ELSE Search(Expand(s, h, codebook, q, bounds), h, codebook, q, bounds)

\* query_hierarchical_codebook_with_store
Query(h, codebook, q, bounds) ==
  LET start == [frontier |-> Beam({[node |-> n, depth |-> 0] : n \in h.level0}, q, bounds.beamWidth),
                hits |-> {}, expansions |-> 0, indices |-> <<>>, panic |-> FALSE]
      end == Search(start, h, codebook, q, bounds)
  IN [hits |-> IF bounds.k = 0 THEN {}
               ELSE ToSet(Best(end.hits, bounds.k, LAMBDA id : ChunkCosine(q, codebook[id]))),
      indices |-> end.indices,
      panic |-> bounds.k > 0 /\ end.panic]
=============================================================================
