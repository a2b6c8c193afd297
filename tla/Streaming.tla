------------------------------ MODULE Streaming ------------------------------
(***************************************************************************)
(* The other ways into and out of VersionedEmbrFS, used by threads that    *)
(* share one: StreamingIngester and LargeFileHandler (streaming.rs,        *)
(* large_file.rs), write_file_compressed and write_file_holographic; and   *)
(* the readers read_file, read_range, read_file_holographic and            *)
(* StreamingDecoder.  The writers cut their data into chunks of different  *)
(* sizes and encode them in the mode the filesystem is in; each reader     *)
(* makes assumptions of its own about both.                                *)
(*                                                                         *)
(* A chunk, once stored, is never changed by these writers, so reading it  *)
(* and its correction is one step, and so are all the chunks of a read.    *)
(***************************************************************************)
EXTENDS Naturals, Sequences, FiniteSets, SequencesExt, Maps

CONSTANTS
  Threads, Paths,
  Compressible,    \* the paths whose compression profile compresses
  Contents,        \* the data callers write, sequences of bytes
  Exact,           \* bytes the vector encoding reproduces without a correction
  DefaultSize,     \* DEFAULT_CHUNK_SIZE
  ReversibleSize,  \* REVERSIBLE_CHUNK_SIZE
  AskedSizes,      \* what callers pass to with_chunk_size
  MinSize, MaxSize, \* and what it is clamped to
  EntropySizes,    \* the chunk sizes of calculate_optimal_chunk_size
  MaxBundle,       \* max_bundle_size
  Kinds,           \* the calls made
  Pieces,          \* how many bytes are fed or read at once
  SeekOffsets,     \* where decoders are positioned
  MaxCalls,        \* bound: calls of all threads together
  MaxReads,        \* bound: calls on one decoder
  None

Near == "near"   \* a byte the encoding does not reproduce
Junk == "junk"   \* a byte decoded with the wrong decoder, or beyond the chunk
Envelope == "envelope"

ASSUME SizesAssumption ==
  /\ {DefaultSize, ReversibleSize, MinSize, MaxSize} \cup EntropySizes \subseteq Nat \ {0}
  /\ MinSize <= MaxSize /\ MaxBundle > 1

\* VersionedFileEntry
Entry == [version : Nat, chunks : Seq(Nat), deleted : BOOLEAN, zip : BOOLEAN,
          format : {0, 1}, size : Nat]

\* The bytes callers write, none of which is taken for the start of an envelope.
Bytes == UNION {ToSet(data) : data \in Contents}

ASSUME NoneAssumption == None \notin Nat /\ None \notin Entry
ASSUME ContentsAssumption == Contents \subseteq Seq(Bytes) /\ Envelope \notin Bytes
ASSUME CallsAssumption == AskedSizes \cup Pieces \cup SeekOffsets \subseteq Nat

VARIABLES
  files,        \* manifest: the entry of each path, or None
  store,        \* chunk store: id -> the bytes and the format of the vector
  storeVersion,
  corr,         \* correction store: id -> the bytes the correction restores
  corrVersion,
  nextId,       \* next_chunk_id
  root,         \* ids bundled into the root
  holographic,  \* holographic_mode
  call,         \* the call, or the decoder, each thread is in
  calls,        \* calls made so far
  log           \* history: what each path was published as, by version

stores == <<store, storeVersion, corr, corrVersion, nextId>>
vars == <<files, stores, root, holographic, call, calls, log>>
-----------------------------------------------------------------------------
(* Chunks *)

MinOf(a, b) == IF a < b THEN a ELSE b
CeilDiv(n, d) == (n + d - 1) \div d
Slice(data, from, n) == SubSeq(data, from + 1, MinOf(from + n, Len(data)))

\* data.chunks(size)
Cut(data, size) == [i \in 1..CeilDiv(Len(data), size) |-> Slice(data, (i - 1) * size, size)]

Join(seqs) ==
  LET upto[i \in 0..Len(seqs)] == IF i = 0 THEN <<>> ELSE upto[i - 1] \o seqs[i]
  IN upto[Len(seqs)]

\* wrap_or_legacy and unwrap_auto: an envelope around the compressed bytes
Wrap(data) == <<Envelope>> \o data
Unwrap(data) == IF data # <<>> /\ data[1] = Envelope THEN Tail(data) ELSE data

\* What a vector decodes to, asked for n bytes in a format.
Decode(chunk, format, n) ==
  [i \in 1..n |-> IF format # chunk.format \/ i > Len(chunk.bytes) THEN Junk
                  ELSE IF chunk.bytes[i] \in Exact THEN chunk.bytes[i] ELSE Near]

\* ChunkCorrection::new and apply: nothing, the wrong bytes, or, when most are
\* wrong, all of them.
Patch(bytes, data) ==
  LET wrong == {i \in DOMAIN bytes : bytes[i] \notin Exact}
  IN IF 2 * Cardinality(wrong) > Len(bytes) THEN bytes
     ELSE [i \in DOMAIN data |->
             IF i \in wrong THEN IF data[i] = Near THEN bytes[i] ELSE Junk ELSE data[i]]

Corrected(id, data) == IF id \in DOMAIN corr THEN Patch(corr[id], data) ELSE data

Size(id) == Len(store[id].bytes)

\* Every chunk of an entry has the given size, but the last may be smaller.
Uniform(e, size) == \A i \in DOMAIN e.chunks :
  IF i < Len(e.chunks) THEN Size(e.chunks[i]) = size ELSE Size(e.chunks[i]) <= size
-----------------------------------------------------------------------------
(* Calls *)

Idle == [pc |-> "idle"]
Failed == [pc |-> "err"]
Free(t) == call[t].pc \in {"idle", "ok", "err"}

Becomes(t, c) == call' = [call EXCEPT ![t] = c]

Ready(t, kind) ==
  /\ kind \in Kinds /\ Free(t) /\ calls < MaxCalls
  /\ calls' = calls + 1

\* A caller passes no version, or any that the path has or had.
Expectations(p) == {None} \cup (0..Len(log[p]))

\* The match on (existing, expected_version) before a write.
Admits(p, expected) ==
  IF files[p] = None THEN expected = None ELSE files[p].version = expected

\* A write call: what is being written, the chunk size, and the chunks already
\* encoded (pending_chunks, chunk_ids).
Writer(kind, p, data, v, size, zip) ==
  [pc |-> "begin", kind |-> kind, path |-> p, data |-> data, expected |-> v, size |-> size,
   zip |-> zip, fed |-> 0, buffer |-> <<>>, pending |-> <<>>, ids |-> <<>>,
   storeVer |-> 0, corrVer |-> 0]

\* Chunks encoded under fresh ids.
Encoded(c, chunks) ==
  [c EXCEPT !.pending = @ \o chunks,
            !.ids = @ \o [i \in DOMAIN chunks |-> nextId + i - 1]]

Format == IF holographic THEN 1 ELSE 0

Init ==
  /\ files = [p \in Paths |-> None]
  /\ store = <<>> /\ storeVersion = 0 /\ corr = <<>> /\ corrVersion = 0
  /\ nextId = 1 /\ root = {} /\ holographic = FALSE
  /\ call = [t \in Threads |-> Idle] /\ calls = 0
  /\ log = [p \in Paths |-> <<>>]

\* enable_holographic_mode takes &mut self: nothing else runs.
EnableHolographic ==
  /\ ~holographic /\ \A t \in Threads : Free(t)
  /\ holographic' = TRUE
  /\ UNCHANGED <<files, stores, root, call, calls, log>>
-----------------------------------------------------------------------------
(* StreamingIngester *)

Clamped(size) == IF size < MinSize THEN MinSize ELSE MinOf(size, MaxSize)

Build(t, p, data, v, asked, zip) ==
  /\ Ready(t, "stream")
  /\ Becomes(t, [Writer("stream", p, data, v, Clamped(asked), zip) EXCEPT !.pc = "feed"])
  /\ UNCHANGED <<files, stores, root, holographic, log>>

\* Compression is per chunk.
Zipped(c, chunks) == IF c.zip THEN [i \in DOMAIN chunks |-> Wrap(chunks[i])] ELSE chunks

\* Mutant of Process: one chunk at most per call of ingest_bytes.
ProcessOne(c, bytes, flush) ==
  LET all == c.buffer \o bytes
      n == IF Len(all) >= c.size THEN 1 ELSE 0
      now == IF flush THEN Cut(all, c.size) ELSE Cut(Slice(all, 0, n * c.size), c.size)
  IN [Encoded(c, Zipped(c, now)) EXCEPT !.buffer = IF flush THEN <<>> ELSE Slice(all, n * c.size, Len(all))]

\* Mutant of Process: what is left in the buffer is not flushed.
ProcessUnflushed(c, bytes, flush) ==
  LET all == c.buffer \o bytes
      n == Len(all) \div c.size
      now == Cut(Slice(all, 0, n * c.size), c.size)
  IN [Encoded(c, Zipped(c, now)) EXCEPT !.buffer = IF flush THEN <<>> ELSE Slice(all, n * c.size, Len(all))]

\* The buffer with more bytes: every full chunk is drained and encoded; at the
\* end the rest is.
Process(c, bytes, flush) ==
  LET all == c.buffer \o bytes
      full == (Len(all) \div c.size) * c.size
      now == Cut(IF flush THEN all ELSE Slice(all, 0, full), c.size)
  IN [Encoded(c, Zipped(c, now)) EXCEPT
        !.buffer = IF flush THEN <<>> ELSE Slice(all, full, Len(all))]

\* ingest_bytes, ingest_reader, ingest_buffered and their async forms: the
\* next n bytes, however the reader cuts them.
Feed(t, n) ==
  LET c == call[t]
      more == Process(c, Slice(c.data, c.fed, n), FALSE)
  IN /\ c.pc = "feed" /\ c.fed + n <= Len(c.data)
     /\ Becomes(t, [more EXCEPT !.fed = @ + n])
     /\ nextId' = nextId + Len(more.ids) - Len(c.ids)
     /\ UNCHANGED <<files, store, storeVersion, corr, corrVersion, root, holographic, calls, log>>

\* finalize: flush the buffer, then look the path up.
Finalize(t) ==
  LET c == call[t]
      all == Process(c, <<>>, TRUE)
  IN /\ c.pc = "feed" /\ c.fed = Len(c.data)
     /\ Becomes(t, IF Admits(c.path, c.expected) THEN [all EXCEPT !.pc = "insert"] ELSE Failed)
     /\ nextId' = nextId + Len(all.ids) - Len(c.ids)
     /\ UNCHANGED <<files, store, storeVersion, corr, corrVersion, root, holographic, calls, log>>
-----------------------------------------------------------------------------
(* LargeFileHandler *)

\* The sub-engrams of write_hierarchical: current_level.chunks(max_bundle_size),
\* level by level until one bundle holds what is left.  They are built and
\* dropped: the caller is told their number, the root gets the chunks.
Levels(n) ==
  LET up[k \in 1..n] == IF k <= MaxBundle THEN <<k>> ELSE <<k>> \o up[CeilDiv(k, MaxBundle)]
  IN IF n = 0 THEN <<>> ELSE up[n]

\* Both forms encode before they look the path up, which they do only when
\* they publish.
EncodeLarge(t, c, chunks) ==
  LET ready == Encoded(c, chunks)
  IN /\ Ready(t, "large")
     /\ Becomes(t, [ready EXCEPT !.pc = "insert", !.fed = Len(c.data)])
     /\ nextId' = nextId + Len(chunks)
     /\ UNCHANGED <<files, store, storeVersion, corr, corrVersion, root, holographic, log>>

WriteFlat(t, c, chunks) == Len(chunks) <= MaxBundle /\ EncodeLarge(t, c, chunks)

WriteHierarchical(t, c, chunks) == Len(chunks) > MaxBundle /\ EncodeLarge(t, c, chunks)

\* write_large_file: the size is what the entropy of the data gives.
WriteLarge(t, p, data, v, size) ==
  LET c == Writer("large", p, data, v, size, FALSE)
  IN WriteFlat(t, c, Cut(data, size)) \/ WriteHierarchical(t, c, Cut(data, size))
-----------------------------------------------------------------------------
(* write_file_compressed, write_file_holographic *)

StartWrite(t, c) ==
  /\ Ready(t, c.kind)
  /\ Becomes(t, IF Admits(c.path, c.expected) THEN c ELSE Failed)
  /\ UNCHANGED <<files, stores, root, holographic, log>>

\* The profile of the path decides whether there is compression.
WriteCompressed(t, p, data, v) ==
  StartWrite(t, Writer("compressed", p, data, v, DefaultSize, p \in Compressible))

\* Always the reversible encoder, whatever the mode.
WriteHolographic(t, p, data, v) ==
  StartWrite(t, Writer("holographic", p, data, v, ReversibleSize, FALSE))

\* The version of the chunk store is read, ids are allocated, the chunks encoded.
Prepare(t) ==
  LET c == call[t]
      chunks == Cut(IF c.zip THEN Wrap(c.data) ELSE c.data, c.size)
  IN /\ c.pc = "begin"
     /\ Becomes(t, [Encoded(c, chunks) EXCEPT
                      !.pc = "insert", !.fed = Len(c.data), !.storeVer = storeVersion])
     /\ nextId' = nextId + Len(chunks)
     /\ UNCHANGED <<files, store, storeVersion, corr, corrVersion, root, holographic, calls, log>>
-----------------------------------------------------------------------------
(* What all of them do in the end *)

FormatOf(c) == IF c.kind = "holographic" THEN 1 ELSE Format

\* The ids of a call with the values that go under them.
Batch(ids, values) == [id \in ToSet(ids) |-> values[CHOOSE i \in DOMAIN ids : ids[i] = id]]

Vectors(c) == [i \in DOMAIN c.pending |-> [bytes |-> c.pending[i], format |-> FormatOf(c)]]

\* batch_insert and batch_update are conditional on the version of the store,
\* batch_insert_new is not.
Conditional(c) == c.kind \in {"compressed", "holographic"} /\ c.expected # None

InsertChunks(t) ==
  LET c == call[t] IN
  /\ c.pc = "insert"
  /\ IF Conditional(c) /\ storeVersion # c.storeVer
     THEN Becomes(t, Failed) /\ UNCHANGED <<store, storeVersion>>
     ELSE /\ store' = Over(Batch(c.ids, Vectors(c)), store)
          /\ storeVersion' = storeVersion + 1
          /\ Becomes(t, [c EXCEPT !.pc = IF Conditional(c) THEN "corrVersion" ELSE "correct"])
  /\ UNCHANGED <<files, corr, corrVersion, nextId, root, holographic, calls, log>>

ReadCorrVersion(t) ==
  /\ call[t].pc = "corrVersion"
  /\ Becomes(t, [call[t] EXCEPT !.pc = "correct", !.corrVer = corrVersion])
  /\ UNCHANGED <<files, stores, root, holographic, calls, log>>

InsertCorrections(t) ==
  LET c == call[t] IN
  /\ c.pc = "correct"
  /\ IF Conditional(c) /\ corrVersion # c.corrVer
     THEN Becomes(t, Failed) /\ UNCHANGED <<corr, corrVersion>>
     ELSE /\ corr' = Over(Batch(c.ids, c.pending), corr)
          /\ corrVersion' = corrVersion + 1
          /\ Becomes(t, [c EXCEPT !.pc = "publish"])
  /\ UNCHANGED <<files, store, storeVersion, nextId, root, holographic, calls, log>>

\* VersionedFileEntry: a streamed file keeps the number of bytes ingested as
\* its size, also when its chunks are compressed.
EntryOf(c) ==
  [version |-> IF c.expected = None THEN 0 ELSE c.expected + 1,
   chunks |-> c.ids, deleted |-> FALSE, zip |-> c.zip, format |-> FormatOf(c),
   size |-> IF c.zip /\ c.kind = "compressed" THEN Len(c.data) + 1 ELSE Len(c.data)]

Publication(c) == [content |-> c.data, chunks |-> c.ids, deleted |-> FALSE]

\* Mutant of Publish: add_file and update_file do not compare again.
PublishUnchecked(t) ==
  LET c == call[t] IN
  /\ c.pc = "publish"
  /\ files' = [files EXCEPT ![c.path] = EntryOf(c)]
  /\ log' = [log EXCEPT ![c.path] = Append(@, Publication(c))]
  /\ Becomes(t, [c EXCEPT !.pc = "bundle"])
  /\ UNCHANGED <<stores, root, holographic, calls>>

\* add_file or update_file, under the manifest's lock.  The handler's own
\* lookup before update_file makes the same comparison.
Publish(t) ==
  LET c == call[t] IN
  /\ c.pc = "publish"
  /\ IF Admits(c.path, c.expected)
     THEN /\ files' = [files EXCEPT ![c.path] = EntryOf(c)]
          /\ log' = [log EXCEPT ![c.path] = Append(@, Publication(c))]
          /\ Becomes(t, [c EXCEPT !.pc = "bundle"])
     ELSE Becomes(t, Failed) /\ UNCHANGED <<files, log>>
  /\ UNCHANGED <<stores, root, holographic, calls>>

\* bundle_chunks_to_root (its retry loop is RootBundle), and Ok(version).
Bundle(t) ==
  LET c == call[t] IN
  /\ c.pc = "bundle"
  /\ root' = root \cup (ToSet(c.ids) \cap DOMAIN store)
  /\ Becomes(t, [pc |-> "ok", path |-> c.path, data |-> c.data, ids |-> c.ids,
                 version |-> EntryOf(c).version,
                 levels |-> IF c.kind = "large" THEN Len(Levels(Len(c.ids))) ELSE 0])
  /\ UNCHANGED <<files, stores, holographic, calls, log>>

\* delete_file
Delete(t, p, v) ==
  /\ Ready(t, "delete")
  /\ IF files[p] # None /\ files[p].version = v
     THEN /\ files' = [files EXCEPT ![p].deleted = TRUE, ![p].version = v + 1]
          /\ log' = [log EXCEPT ![p] = Append(@, [Last(@) EXCEPT !.deleted = TRUE])]
     ELSE UNCHANGED <<files, log>>
  /\ Becomes(t, Idle)
  /\ UNCHANGED <<stores, root, holographic>>
-----------------------------------------------------------------------------
(* Readers of a whole file or a range *)

\* get_file: the entry the reader goes on with.
Open(p) == IF files[p] = None \/ files[p].deleted THEN None ELSE files[p]

StartRead(t, kind, p, from, n) ==
  /\ Ready(t, kind)
  /\ Becomes(t, IF Open(p) = None THEN Failed
                ELSE [pc |-> "read", kind |-> kind, path |-> p, entry |-> Open(p),
                      from |-> from, n |-> n])
  /\ UNCHANGED <<files, stores, root, holographic, log>>

Here(e) == \A i \in DOMAIN e.chunks : e.chunks[i] \in DOMAIN store

\* read_file: every chunk is decoded at the default size, the end cut off,
\* the envelope removed.
ReadFile(e) ==
  LET all == Join([i \in DOMAIN e.chunks |->
                     Corrected(e.chunks[i], Decode(store[e.chunks[i]], e.format, DefaultSize))])
      data == Slice(all, 0, e.size)
  IN IF e.zip THEN Unwrap(data) ELSE data

\* Mutant of ReadRange: chunks are taken to have the default size.
ReadRangeDefault(e, from, n) ==
  LET all == Join([i \in DOMAIN e.chunks |->
                     Corrected(e.chunks[i], Decode(store[e.chunks[i]], 0, DefaultSize))])
  IN IF from >= e.size THEN <<>> ELSE Slice(all, from, MinOf(n, e.size - from))

\* read_range, through read_range_sequential: chunks at their own size, always
\* the legacy decoder, no envelope removed.  Entries that a delta gave an offset
\* index are read another way: see IndexedRead of VersionedFS.
ReadRange(e, from, n) ==
  LET all == Join([i \in DOMAIN e.chunks |->
                     Corrected(e.chunks[i], Decode(store[e.chunks[i]], 0, Size(e.chunks[i])))])
  IN IF from >= e.size THEN <<>> ELSE Slice(all, from, MinOf(n, e.size - from))

\* read_file_holographic: decode_chunked takes every vector to hold
\* REVERSIBLE_CHUNK_SIZE bytes; a correction is cut to its chunk's slot.  Of a
\* file in the other format it reconstructs the first chunk from the codebook.
ReadHolographic(e) ==
  LET slot(i) == Slice([k \in 1..e.size |-> k], (i - 1) * ReversibleSize, ReversibleSize)
      fixed(i) == Slice(Corrected(e.chunks[i],
                                  Decode(store[e.chunks[i]], 1, Len(slot(i)))), 0, Len(slot(i)))
  IN CASE e.chunks = <<>> -> <<>>
       [] e.chunks # <<>> /\ e.format = 1 ->
            Slice(Join([i \in DOMAIN e.chunks |-> fixed(i)]), 0, e.size)
       [] OTHER -> Slice(Corrected(e.chunks[1], [i \in 1..e.size |-> Junk]), 0, e.size)

ReadChunks(t) ==
  LET c == call[t] IN
  /\ c.pc = "read"
  /\ Becomes(t, IF ~Here(c.entry) THEN Failed
                ELSE [pc |-> "ok", kind |-> c.kind, path |-> c.path, entry |-> c.entry,
                      from |-> c.from, n |-> c.n,
                      data |-> CASE c.kind = "read_file" -> ReadFile(c.entry)
                                 [] c.kind = "read_range" -> ReadRange(c.entry, c.from, c.n)
                                 [] c.kind = "read_holographic" -> ReadHolographic(c.entry)])
  /\ UNCHANGED <<files, stores, root, holographic, calls, log>>
-----------------------------------------------------------------------------
(* StreamingDecoder *)

\* exact and whole are history: whether the decoder was positioned where
\* seek_to can position it, and whether next dropped bytes of a chunk.
Decoder(e, p) ==
  [pc |-> "decode", kind |-> "decode", path |-> p, entry |-> e,
   idx |-> 0, chunk |-> <<>>, at |-> 0, total |-> 0,
   start |-> 0, out |-> <<>>, exact |-> TRUE, whole |-> TRUE, broken |-> FALSE, uses |-> 0]

Exhausted(d) == d.total >= d.entry.size

NoMore(d) == d.idx >= Len(d.entry.chunks)

\* Mutant of NextChunk: the decoder of the filesystem's mode is used.
NextChunkInMode(d) ==
  LET id == d.entry.chunks[d.idx + 1]
  IN IF id \notin DOMAIN store THEN [d EXCEPT !.broken = TRUE]
     ELSE [d EXCEPT !.chunk = Corrected(id, Decode(store[id], Format, Size(id))),
                    !.idx = @ + 1, !.at = 0]

\* decode_next_chunk
NextChunk(d) ==
  LET id == d.entry.chunks[d.idx + 1]
  IN IF id \notin DOMAIN store THEN [d EXCEPT !.broken = TRUE]
     ELSE [d EXCEPT !.chunk = Corrected(id, Decode(store[id], d.entry.format, Size(id))),
                    !.idx = @ + 1, !.at = 0]

\* The loop of read_n_bytes, byte by byte: the next chunk is loaded when the
\* one in hand is used up.
ReadByte(d) ==
  LET full == IF d.at >= Len(d.chunk) /\ ~NoMore(d) THEN NextChunk(d) ELSE d
  IN IF d.broken \/ full.broken \/ full.at >= Len(full.chunk) THEN full
     ELSE [full EXCEPT !.out = Append(@, full.chunk[full.at + 1]),
                       !.at = @ + 1, !.total = @ + 1]

\* read_n_bytes, and read, which adds nothing to it
ReadN(d, n) ==
  LET read[i \in 0..n] ==
        IF i = 0 THEN d
        ELSE IF Exhausted(read[i - 1]) THEN read[i - 1] ELSE ReadByte(read[i - 1])
  IN read[n]

\* next: the next chunk as a whole; what read_n_bytes left of the last one is
\* passed over.
NextItem(d) ==
  IF Exhausted(d) \/ NoMore(d) THEN d
  ELSE LET loaded == NextChunk(d)
           item == Slice(loaded.chunk, 0, d.entry.size - d.total)
       IN IF loaded.broken THEN loaded
          ELSE [loaded EXCEPT !.out = @ \o item, !.total = @ + Len(item),
                              !.chunk = <<>>, !.whole = d.whole /\ d.at >= Len(d.chunk)]

\* seek_to: by the default chunk size.  Inside a chunk, the chunk is loaded
\* but stays the next one to load.
SeekTo(d, pos) ==
  LET moved == [d EXCEPT !.start = pos, !.total = pos, !.out = <<>>, !.whole = TRUE,
                         !.idx = pos \div DefaultSize, !.chunk = <<>>, !.at = pos % DefaultSize,
                         !.exact = pos % DefaultSize = 0 /\ Uniform(d.entry, DefaultSize)]
      loaded == NextChunk(moved)
  IN IF pos >= d.entry.size
     THEN [moved EXCEPT !.start = d.entry.size, !.total = d.entry.size, !.exact = TRUE,
                        !.idx = Len(d.entry.chunks), !.at = 0]
     ELSE IF pos % DefaultSize = 0 \/ NoMore(moved) THEN moved
     ELSE IF loaded.broken THEN loaded
     ELSE [loaded EXCEPT !.idx = @ - 1, !.at = pos % DefaultSize]

\* stream_decode, stream_decode_range: the builder seeks when there is an offset
OpenDecoder(t, p, pos) ==
  /\ Ready(t, "decode")
  /\ Becomes(t, IF Open(p) = None THEN Failed
                ELSE IF pos = 0 THEN Decoder(Open(p), p) ELSE SeekTo(Decoder(Open(p), p), pos))
  /\ UNCHANGED <<files, stores, root, holographic, log>>

Use(t, d) ==
  /\ call[t].pc = "decode" /\ ~call[t].broken /\ call[t].uses < MaxReads
  /\ Becomes(t, [d EXCEPT !.uses = @ + 1])
  /\ UNCHANGED <<files, stores, root, holographic, calls, log>>

UseDecoder(t) ==
  \/ \E n \in Pieces : Use(t, ReadN(call[t], n))
  \/ Use(t, NextItem(call[t]))
  \/ \E pos \in SeekOffsets : Use(t, SeekTo(call[t], pos))

CloseDecoder(t) ==
  /\ call[t].pc = "decode"
  /\ Becomes(t, Idle)
  /\ UNCHANGED <<files, stores, root, holographic, calls, log>>
-----------------------------------------------------------------------------
Start(t) ==
  \E p \in Paths :
    \/ \E data \in Contents : \E v \in Expectations(p) :
         \/ \E asked \in AskedSizes, zip \in BOOLEAN : Build(t, p, data, v, asked, zip)
         \/ \E size \in EntropySizes : WriteLarge(t, p, data, v, size)
         \/ WriteCompressed(t, p, data, v)
         \/ WriteHolographic(t, p, data, v)
    \/ \E v \in 0..Len(log[p]) : Delete(t, p, v)
    \/ \E kind \in {"read_file", "read_holographic"} : StartRead(t, kind, p, 0, 0)
    \/ \E from \in SeekOffsets : StartRead(t, "read_range", p, from, DefaultSize)
    \/ \E pos \in SeekOffsets : OpenDecoder(t, p, pos)

Write(t) ==
  \/ \E n \in Pieces : Feed(t, n)
  \/ Finalize(t) \/ Prepare(t) \/ InsertChunks(t) \/ ReadCorrVersion(t)
  \/ InsertCorrections(t) \/ Publish(t) \/ Bundle(t)

Next ==
  \/ EnableHolographic
  \/ \E t \in Threads :
       Start(t) \/ Write(t) \/ ReadChunks(t) \/ UseDecoder(t) \/ CloseDecoder(t)

Spec == Init /\ [][Next]_vars
-----------------------------------------------------------------------------
(* Properties *)

PCs == {"idle", "err", "ok", "begin", "feed", "insert", "corrVersion", "correct", "publish",
        "bundle", "read", "decode"}

\* Ids below next_chunk_id, and only those, are in use, and a path has one
\* publication for each version.
TypeOK ==
  /\ \A p \in Paths : files[p] # None => files[p] \in Entry
  /\ \A p \in Paths : Len(log[p]) = IF files[p] = None THEN 0 ELSE files[p].version + 1
  /\ DOMAIN store \cup DOMAIN corr \cup root \subseteq 1..(nextId - 1)
  /\ storeVersion \in Nat /\ corrVersion \in Nat /\ holographic \in BOOLEAN
  /\ \A t \in Threads : call[t].pc \in PCs

\* finalize "commits all chunks to the versioned filesystem atomically": the
\* chunks and corrections go in one by one, but whoever finds an entry in the
\* manifest finds all its bytes, whatever other calls fail half way, and in
\* whatever pieces the data came.
PublishedWhole ==
  TypeOK /\ \A p \in Paths : files[p] # None /\ ~files[p].deleted =>
    LET e == files[p]
        bytes(i) == LET id == e.chunks[i]
                        all == Corrected(id, Decode(store[id], e.format, Size(id)))
                    IN IF e.zip THEN Unwrap(all) ELSE all
    IN Here(e) /\ Join([i \in DOMAIN e.chunks |-> bytes(i)]) = Last(log[p]).content

\* ingest_bytes keeps "bounded memory": between calls the buffer holds less
\* than a chunk, and buffer and pending chunks are the bytes fed so far.
IngestLossless ==
  \A t \in Threads : call[t].pc = "feed" =>
    LET c == call[t]
        raw == [i \in DOMAIN c.pending |-> IF c.zip THEN Unwrap(c.pending[i]) ELSE c.pending[i]]
    IN Len(c.buffer) < c.size /\ Join(raw) \o c.buffer = Slice(c.data, 0, c.fed)

\* Of the writers that race for a path, those that get Ok(version) were
\* published under that version, each under its own, and are in the root.
AnswersInForce ==
  \A t \in Threads : call[t].pc = "ok" /\ "version" \in DOMAIN call[t] =>
    LET c == call[t]
        was == log[c.path][c.version + 1]
    IN /\ c.version < Len(log[c.path])
       /\ was.content = c.data /\ was.chunks = c.ids /\ ~was.deleted
       /\ ToSet(c.ids) \subseteq root

\* The content an entry was published with.
ContentOf(p, e) == log[p][e.version + 1].content

\* Which files a reader is made for: read_file for chunks of the default size
\* (and, when compressed, those compressed as a whole), read_range for the
\* legacy encoding, read_file_holographic for the reversible one.
MadeFor(kind, e) ==
  CASE kind = "read_file" -> Uniform(e, DefaultSize)
         /\ e.size = Len(Join([i \in DOMAIN e.chunks |-> store[e.chunks[i]].bytes]))
    [] kind = "read_range" -> e.format = 0 /\ ~e.zip
    [] kind = "read_holographic" -> e.format = 1 /\ ~e.zip /\ Uniform(e, ReversibleSize)

\* A reader that is made for the file it finds returns what was published
\* under the version it read, while writers in either mode replace the file.
ReadersExact ==
  \A t \in Threads : call[t].pc = "ok" /\ "entry" \in DOMAIN call[t] =>
    LET c == call[t]
        was == ContentOf(c.path, c.entry)
    IN MadeFor(c.kind, c.entry) =>
         c.data = IF c.kind = "read_range" THEN Slice(was, c.from, c.n) ELSE was

Follows(d) ==
  /\ ~d.broken
  /\ d.total = d.start + Len(d.out)
  /\ d.out = Slice(ContentOf(d.path, d.entry), d.start, Len(d.out))
  /\ NoMore(d) /\ d.at >= Len(d.chunk) => Exhausted(d)

\* A decoder of an uncompressed file hands out the bytes that follow its
\* position, in order and without a gap, of the version it was opened on, for
\* every chunk size and encoding, however long it stays open while the file is
\* replaced or deleted and the filesystem changes its mode.  (Positions inside
\* a chunk, and next after a partial read: see the notes.)
DecoderExact ==
  \A t \in Threads :
    call[t].pc = "decode" /\ ~call[t].entry.zip /\ call[t].exact /\ call[t].whole =>
      Follows(call[t])

\* The same of any position in a file of default chunks.
SeekExact ==
  \A t \in Threads :
    /\ call[t].pc = "decode" /\ ~call[t].entry.zip /\ call[t].whole
    /\ Uniform(call[t].entry, DefaultSize)
    => Follows(call[t])
=============================================================================
