---------------------------- MODULE VersionedFS -----------------------------
(***************************************************************************)
(* VersionedEmbrFS: the mutable filesystem shared by concurrent threads.   *)
(* A file is an entry of the manifest (a version, a list of chunk ids, a   *)
(* size, a deletion mark); its bytes are in the chunk store and in the     *)
(* correction store.  Each of the three is behind locks of its own, held   *)
(* for one access at a time, and each has a version number that a          *)
(* conditional update checks.  A call of write_file, read_file,            *)
(* delete_file or apply_delta is a sequence of such accesses, and the      *)
(* calls of different threads interleave between them: that is what the    *)
(* actions below are, one per access.                                      *)
(*                                                                         *)
(* Abstraction: a chunk is the sequence of bytes it encodes.  The vector   *)
(* encoding is lossy: decoding gives back the bytes that are in ExactBytes *)
(* and something else for the others, which the correction computed for    *)
(* that very chunk repairs.  The filesystem encodes in one of two modes;   *)
(* the decoder of the one makes nothing of what the other encoded.         *)
(***************************************************************************)
EXTENDS Naturals, Sequences, FiniteSets, FiniteSetsExt, SequencesExt, Maps

CONSTANTS
  Threads, Paths,
  Bytes,        \* byte values the callers write
  ExactBytes,   \* those the vector encoding reproduces without a correction
  Garbage,      \* what an uncorrected or miscorrected byte reads as
  Holographic,  \* holographic_mode: every file is encoded in that mode
  ChunkSize,    \* DEFAULT_CHUNK_SIZE
  Contents,     \* the file contents callers write
  ChangeSets,   \* the byte replacements callers ask of apply_delta
  Appends,      \* the data callers append
  Lengths,      \* the lengths callers truncate to
  Kinds,        \* the calls made: a subset of AllKinds
  MaxCalls,     \* calls per thread
  InitPath,     \* a file written before the threads start, or NoPath
  InitContent,
  NoPath, NoVersion, NoEntry

AllKinds == {"write", "read", "delete", "replace", "append", "truncate", "compact"}
DeltaKinds == {"replace", "append", "truncate"}
AllBytes == Bytes \cup {Garbage}

\* One byte replaced: its offset in the file and its new value.
Change == [off : Nat, val : Bytes]

\* VersionedFileEntry, without the attributes no call below depends on.  Its
\* chunk_offsets are computed from chunks and size, again whenever these change:
\* indexed says whether it has them.
Entry == [version : Nat, chunks : Seq(Nat), size : Nat, indexed : BOOLEAN,
          deleted : BOOLEAN]

ASSUME BytesAssumption == ExactBytes \subseteq Bytes
ASSUME ModeAssumption == Holographic \in BOOLEAN
ASSUME ChunkSizeAssumption == ChunkSize \in Nat \ {0}
ASSUME RequestAssumption ==
  /\ \A c \in Contents \cup Appends \cup {InitContent} : c \in Seq(Bytes)
  /\ \A s \in ChangeSets : s \subseteq Change
  /\ Lengths \subseteq Nat
  /\ Kinds \subseteq AllKinds
ASSUME NullAssumption ==
  /\ NoPath \notin Paths
  /\ NoVersion \notin Nat
  /\ NoEntry \notin Entry
ASSUME InitAssumption == InitPath \in Paths \cup {NoPath} /\ MaxCalls \in Nat

VARIABLES
  files,            \* VersionedManifest: the entry of each indexed path
  manifestVersion,  \*   its global_version
  totalChunks,      \*   its total_chunks
  store,            \* VersionedChunkStore: the chunk of each id
  storeVersion,     \*   its global_version
  corr,             \* VersionedCorrectionStore: for each id, the bytes its
                    \*   correction was computed for
  corrVersion,      \*   its version
  nextId,           \* next_chunk_id
  root,             \* the ids bundled into the root vector
  globalVersion,    \* global_version of the filesystem
  call,             \* the call each thread is in, and its local variables
  left,             \* calls each thread may still make
  known,            \* the version each thread last learned of each path
  log               \* history: what each path was published as, in order

manifest == <<files, manifestVersion, totalChunks>>
chunkStore == <<store, storeVersion>>
corrections == <<corr, corrVersion>>
counters == <<nextId, root, globalVersion>>
client == <<left, known>>
vars == <<manifest, chunkStore, corrections, counters, call, client, log>>
-----------------------------------------------------------------------------
(* Bytes and chunks *)

CeilDiv(n, d) == (n + d - 1) \div d

MinOf(a, b) == IF a <= b THEN a ELSE b

\* data.chunks(DEFAULT_CHUNK_SIZE): how many, and the i-th
ChunksIn(data) == CeilDiv(Len(data), ChunkSize)

ChunkOf(data, i) ==
  SubSeq(data, (i - 1) * ChunkSize + 1, MinOf(i * ChunkSize, Len(data)))

Exact(chunk) == \A i \in DOMAIN chunk : chunk[i] \in ExactBytes

\* ChunkCorrection::needs_correction of the correction computed for a chunk
NeedsCorrection(chunk) == ~Exact(chunk)

Wrong(chunk) == [i \in DOMAIN chunk |-> Garbage]

\* What the decoder that fits the mode gives back from the vector alone.
Decode(chunk) ==
  [i \in DOMAIN chunk |-> IF chunk[i] \in ExactBytes THEN chunk[i] ELSE Garbage]

\* compute_correction: the chunk itself is the correction when more than half
\* of its bytes decode wrongly.
Verbatim(chunk) ==
  2 * Cardinality({i \in DOMAIN chunk : chunk[i] \notin ExactBytes}) > Len(chunk)

\* ChunkCorrection::apply of the correction computed for the bytes "for", to
\* the decoded chunk: a verbatim one replaces it and an empty one leaves it;
\* one made of differences repairs the chunk it was computed for and spoils any
\* other.
Apply(for, chunk) ==
  CASE Verbatim(for) -> for
    [] ~NeedsCorrection(for) -> Decode(chunk)
    [] OTHER -> IF for = chunk THEN chunk ELSE Wrong(chunk)

Corrected(chunk, id) ==
  IF id \in DOMAIN corr THEN Apply(corr[id], chunk) ELSE Decode(chunk)

\* The same with decode_data, the decoder of the legacy mode, whatever the mode
\* is: on a holographic chunk only a verbatim correction leads to the bytes.
LegacyBytes(chunk, id) ==
  IF ~Holographic \/ (id \in DOMAIN corr /\ Verbatim(corr[id]))
  THEN Corrected(chunk, id) ELSE Wrong(chunk)

\* chunk_updates (and corrections_to_add): the chunks of data under the ids
\* that start with first
Batch(first, data) ==
  [id \in first..(first + ChunksIn(data) - 1) |-> ChunkOf(data, id - first + 1)]

\* The sum of the lengths of the chunk lists of a set of paths.
ChunkCount(fs, ps) == MapThenSumSet(LAMBDA p : Len(fs[p].chunks), ps)
-----------------------------------------------------------------------------
(* Calls *)

\* The local variables of a thread that is in no call.
Idle ==
  [pc |-> "idle", kind |-> "none", path |-> NoPath,
   expected |-> NoVersion,  \* expected_version
   learned |-> 0,           \* history: Len(log) when the caller learned it
   entry |-> NoEntry,       \* the entry the call began with
   basis |-> 0,             \* history: Len(log) at that lookup, or publication
   data |-> <<>>,           \* bytes to write or append, or read so far
   changes |-> {},          \* the bytes to replace
   length |-> 0,            \* the length to truncate to
   ids |-> <<>>,            \* chunk ids allocated, or still to read
   todo |-> {},             \* indices of chunks still to rewrite
   id |-> 0,                \* the chunk in hand: its id
   chunk |-> <<>>,          \*   and its bytes,
   at |-> 0,                \*   and its position in the file
   storeVer |-> 0,          \* versions read for the next conditional update
   corrVer |-> 0,
   ret |-> 0]               \* the version the call returns

\* The locals of thread t change to c.
Becomes(t, c) == call' = [call EXCEPT ![t] = c]

Fail(t) == Becomes(t, [Idle EXCEPT !.pc = "err"])

\* Ok(data, version): the answer keeps what the properties look at, and the
\* caller learns the version of the path.
Answer(t, c, ret) ==
  /\ Becomes(t, [Idle EXCEPT !.pc = "ok", !.kind = c.kind, !.path = c.path, !.ret = ret,
                    !.data = IF c.kind = "read" THEN c.data ELSE <<>>,
                    !.basis = c.basis])
  /\ known' = IF c.kind \in {"delete", "compact"} THEN known
              ELSE [known EXCEPT ![t][c.path] = [version |-> ret, at |-> c.basis]]

Ready(t, kind) ==
  /\ kind \in Kinds
  /\ call[t].pc \in {"idle", "ok", "err"}
  /\ left[t] > 0

\* A caller passes no version, or the last one it learned.
Expectations(t, p) == {NoVersion, known[t][p].version}

Spend(t) == left' = [left EXCEPT ![t] = @ - 1]

\* The locals of a call that has just looked its path up in the manifest.
Begun(kind, p, pc) ==
  [Idle EXCEPT !.pc = pc, !.kind = kind, !.path = p,
               !.entry = files[p], !.basis = Len(log[p])]

Exists(p) == files[p] # NoEntry /\ ~files[p].deleted

Init ==
  LET written == InitPath # NoPath
      n == ChunksIn(InitContent)
      first == [version |-> 0, chunks |-> [i \in 1..n |-> i],
                size |-> Len(InitContent), indexed |-> FALSE, deleted |-> FALSE]
  IN /\ files = [p \in Paths |-> IF p = InitPath THEN first ELSE NoEntry]
     /\ manifestVersion = IF written THEN 1 ELSE 0
     /\ totalChunks = IF written THEN n ELSE 0
     /\ store = IF written THEN Batch(1, InitContent) ELSE <<>>
     /\ storeVersion = IF written THEN 1 ELSE 0
     /\ corr = store
     /\ corrVersion = storeVersion
     /\ nextId = IF written THEN n + 1 ELSE 1
     /\ root = DOMAIN store
     /\ globalVersion = storeVersion
     /\ call = [t \in Threads |-> Idle]
     /\ left = [t \in Threads |-> MaxCalls]
     /\ known = [t \in Threads |-> [p \in Paths |->
          [version |-> IF p = InitPath THEN 0 ELSE NoVersion,
           at |-> IF p = InitPath THEN 1 ELSE 0]]]
     /\ log = [p \in Paths |->
          IF p = InitPath
          THEN <<[version |-> 0, content |-> InitContent, deleted |-> FALSE]>>
          ELSE <<>>]
-----------------------------------------------------------------------------
(* write_file *)

\* 1. Look the path up and compare the versions.  A path whose file was
\* deleted still has its entry: it is updated, never created again.
StartWrite(t, p, data, v) ==
  /\ Ready(t, "write")
  /\ IF \/ files[p] = NoEntry /\ v = NoVersion
        \/ files[p] # NoEntry /\ v = files[p].version
     THEN Becomes(t, [Begun("write", p, "prepare") EXCEPT !.expected = v, !.data = data,
                !.learned = known[t][p].at])
     ELSE Fail(t)
  /\ Spend(t)
  /\ UNCHANGED <<manifest, chunkStore, corrections, counters, known, log>>

\* Mutant of Prepare: the ids are used but next_chunk_id does not move.
PrepareReusesIds(t) ==
  LET n == ChunksIn(call[t].data) IN
  /\ call[t].pc = "prepare"
  /\ Becomes(t, [call[t] EXCEPT !.pc = "insert", !.storeVer = storeVersion,
       !.id = nextId, !.ids = [i \in 1..n |-> nextId + i - 1]])
  /\ UNCHANGED <<manifest, chunkStore, corrections, counters, client, log>>

\* 3.-4. Read the version of the chunk store, allocate the ids, encode.
\* The ids of one batch are consecutive here: other threads' allocations in
\* between would only rename them.
Prepare(t) ==
  LET n == ChunksIn(call[t].data) IN
  /\ call[t].pc = "prepare"
  /\ Becomes(t, [call[t] EXCEPT !.pc = "insert", !.storeVer = storeVersion,
       !.id = nextId, !.ids = [i \in 1..n |-> nextId + i - 1]])
  /\ nextId' = nextId + n
  /\ UNCHANGED <<manifest, chunkStore, corrections, root, globalVersion, client, log>>

\* Mutant of InsertChunks: the version mismatch is not reported.
InsertChunksUnchecked(t) ==
  LET c == call[t] IN
  /\ c.pc = "insert"
  /\ IF c.expected = NoVersion \/ storeVersion = c.storeVer
     THEN store' = Over(Batch(c.id, c.data), store) /\ storeVersion' = storeVersion + 1
     ELSE UNCHANGED chunkStore
  /\ Becomes(t, [c EXCEPT !.pc =
       IF c.expected = NoVersion THEN "correctNew" ELSE "correctVersion"])
  /\ UNCHANGED <<manifest, corrections, counters, client, log>>

\* 5. batch_insert_new for a new file, batch_insert, conditional on the
\* version of the whole store, for an existing one.
InsertChunks(t) ==
  LET c == call[t] IN
  /\ c.pc = "insert"
  /\ IF c.expected = NoVersion \/ storeVersion = c.storeVer
     THEN /\ store' = Over(Batch(c.id, c.data), store)
          /\ storeVersion' = storeVersion + 1
          /\ Becomes(t, [call[t] EXCEPT !.pc =
               IF c.expected = NoVersion THEN "correctNew" ELSE "correctVersion"])
     ELSE Fail(t) /\ UNCHANGED chunkStore
  /\ UNCHANGED <<manifest, corrections, counters, client, log>>

\* 6. For a new file: corrections.batch_insert_new.
CorrectNew(t) ==
  LET c == call[t] IN
  /\ c.pc = "correctNew"
  /\ corr' = Over(Batch(c.id, c.data), corr)
  /\ corrVersion' = corrVersion + 1
  /\ Becomes(t, [call[t] EXCEPT !.pc = "publish"])
  /\ UNCHANGED <<manifest, chunkStore, counters, client, log>>

\* 6. For an existing file: the version of the correction store is read ...
ReadCorrVersion(t) ==
  /\ call[t].pc = "correctVersion"
  /\ Becomes(t, [call[t] EXCEPT !.pc = "correct", !.corrVer = corrVersion])
  /\ UNCHANGED <<manifest, chunkStore, corrections, counters, client, log>>

\* Mutant of Correct: the version mismatch is not reported.
CorrectUnchecked(t) ==
  LET c == call[t] IN
  /\ c.pc = "correct"
  /\ IF corrVersion = c.corrVer
     THEN corr' = Over(Batch(c.id, c.data), corr) /\ corrVersion' = corrVersion + 1
     ELSE UNCHANGED corrections
  /\ Becomes(t, [c EXCEPT !.pc = "publish"])
  /\ UNCHANGED <<manifest, chunkStore, counters, client, log>>

\* ... and batch_update is conditional on it.
Correct(t) ==
  LET c == call[t] IN
  /\ c.pc = "correct"
  /\ IF corrVersion = c.corrVer
     THEN /\ corr' = Over(Batch(c.id, c.data), corr)
          /\ corrVersion' = corrVersion + 1
          /\ Becomes(t, [call[t] EXCEPT !.pc = "publish"])
     ELSE Fail(t) /\ UNCHANGED corrections
  /\ UNCHANGED <<manifest, chunkStore, counters, client, log>>

\* Mutant of Kept: the chunk that keeps only some of its bytes is dropped.
KeptWhole(c) == MinOf(c.length \div ChunkSize, Len(c.entry.chunks))

\* new_chunks.truncate: how many chunks a truncation leaves
Kept(c) == MinOf(CeilDiv(c.length, ChunkSize), Len(c.entry.chunks))

\* The bytes at offset base and after, with the changes that fall into them.
Replaced(bytes, changes, base) ==
  [i \in DOMAIN bytes |->
     LET hits == {ch \in changes : ch.off = base + i - 1}
     IN IF hits = {} THEN bytes[i] ELSE (CHOOSE ch \in hits : TRUE).val]

\* The file that call c publishes, and the entry that stands for it.
Published(c) ==
  LET old == log[c.path][c.basis].content IN
  CASE c.kind = "write" -> c.data
    [] c.kind = "replace" -> Replaced(old, c.changes, 0)
    [] c.kind = "append" -> old \o c.data
    [] c.kind = "truncate" -> SubSeq(old, 1, MinOf(c.length, Len(old)))

NewEntry(c) ==
  CASE c.kind = "write" ->
         [version |-> 0, chunks |-> c.ids, size |-> Len(c.data), indexed |-> FALSE,
          deleted |-> FALSE]
    [] c.kind = "replace" -> c.entry
    [] c.kind = "append" ->
         [c.entry EXCEPT !.chunks = @ \o c.ids, !.size = @ + Len(c.data), !.indexed = TRUE]
    [] c.kind = "truncate" ->
         [c.entry EXCEPT !.chunks = SubSeq(@, 1, Kept(c)), !.size = c.length,
                         !.indexed = TRUE]

\* VersionedManifest::add_file: the path must not be indexed.
CanAdd(p) == files[p] = NoEntry

AddFile(p, entry) ==
  /\ files' = [files EXCEPT ![p] = entry]
  /\ totalChunks' = totalChunks + Len(entry.chunks)
  /\ manifestVersion' = manifestVersion + 1

\* Mutants of CanUpdate and UpdateFile: no version check; the version kept.
CanUpdateAnyVersion(p, v) == files[p] # NoEntry

UpdateSameVersion(p, entry, v) ==
  /\ files' = [files EXCEPT ![p] = [entry EXCEPT !.version = v]]
  /\ totalChunks' = totalChunks + Len(entry.chunks) - Len(files[p].chunks)
  /\ manifestVersion' = manifestVersion + 1

\* VersionedManifest::update_file: conditional on the version of the entry;
\* whatever version the new entry carries, the next one is stored.
CanUpdate(p, v) == files[p] # NoEntry /\ files[p].version = v

UpdateFile(p, entry, v) ==
  /\ files' = [files EXCEPT ![p] = [entry EXCEPT !.version = v + 1]]
  /\ totalChunks' = totalChunks + Len(entry.chunks) - Len(files[p].chunks)
  /\ manifestVersion' = manifestVersion + 1

\* 6. Update the manifest: write_file goes on to the root, apply_delta
\* returns.
Publish(t) ==
  LET c == call[t]
      p == c.path
      new == c.entry = NoEntry
      done == [c EXCEPT !.basis = Len(log[p]) + 1]
  IN /\ c.pc = "publish"
     /\ IF IF new THEN CanAdd(p) ELSE CanUpdate(p, c.entry.version)
        THEN /\ IF new THEN AddFile(p, NewEntry(c))
                       ELSE UpdateFile(p, NewEntry(c), c.entry.version)
             /\ log' = [log EXCEPT ![p] = Append(@,
                  [version |-> IF new THEN 0 ELSE c.entry.version + 1,
                   content |-> Published(c), deleted |-> FALSE])]
             /\ IF c.kind = "write"
                THEN /\ Becomes(t, [done EXCEPT !.pc = "bundle",
                            !.ret = IF new THEN 0 ELSE c.entry.version + 1])
                     /\ UNCHANGED known
                ELSE Answer(t, done, c.ret)
        ELSE Fail(t) /\ UNCHANGED <<manifest, known, log>>
     /\ UNCHANGED <<chunkStore, corrections, counters, left>>

\* Mutant of Bundle: the root is rebuilt from the new chunks alone.
BundleAfresh(t) ==
  /\ call[t].pc = "bundle"
  /\ root' = {call[t].ids[i] : i \in DOMAIN call[t].ids} \cap DOMAIN store
  /\ Becomes(t, [call[t] EXCEPT !.pc = "count"])
  /\ UNCHANGED <<manifest, chunkStore, corrections, nextId, globalVersion, client, log>>

\* 7. bundle_chunks_to_root, which RootBundle shows to be one addition.
Bundle(t) ==
  /\ call[t].pc = "bundle"
  /\ root' = root \cup ({call[t].ids[i] : i \in DOMAIN call[t].ids} \cap DOMAIN store)
  /\ Becomes(t, [call[t] EXCEPT !.pc = "count"])
  /\ UNCHANGED <<manifest, chunkStore, corrections, nextId, globalVersion, client, log>>

\* Mutant of Count: the global version is returned for the file's.
CountReturnsGlobal(t) ==
  /\ call[t].pc = "count"
  /\ globalVersion' = globalVersion + 1
  /\ Answer(t, call[t], globalVersion)
  /\ UNCHANGED <<manifest, chunkStore, corrections, nextId, root, left, log>>

\* 8. Increment the global version and return.
Count(t) ==
  /\ call[t].pc = "count"
  /\ globalVersion' = globalVersion + 1
  /\ Answer(t, call[t], call[t].ret)
  /\ UNCHANGED <<manifest, chunkStore, corrections, nextId, root, left, log>>
-----------------------------------------------------------------------------
(* delete_file and compaction *)

\* VersionedManifest::remove_file: a mark, under the version of the entry.
StartDelete(t, p, v) ==
  /\ Ready(t, "delete")
  /\ v # NoVersion
  /\ IF CanUpdate(p, v)
     THEN /\ files' = [files EXCEPT ![p].deleted = TRUE, ![p].version = v + 1]
          /\ manifestVersion' = manifestVersion + 1
          /\ log' = [log EXCEPT ![p] = Append(@,
               [version |-> v + 1, content |-> Last(@).content, deleted |-> TRUE])]
          /\ Becomes(t, Begun("delete", p, "count"))
     ELSE Fail(t) /\ UNCHANGED <<files, manifestVersion, log>>
  /\ Spend(t)
  /\ UNCHANGED <<totalChunks, chunkStore, corrections, counters, known>>

\* A caller of VersionedManifest::compact reads the version of the manifest,
StartCompact(t) ==
  /\ Ready(t, "compact")
  /\ Becomes(t, [Idle EXCEPT !.pc = "compact", !.kind = "compact", !.expected = manifestVersion])
  /\ Spend(t)
  /\ UNCHANGED <<manifest, chunkStore, corrections, counters, known, log>>

\* Mutant of Compact: the chunks of the entries that leave stay counted.
CompactKeepsCount(t) ==
  LET gone == {p \in Paths : files[p] # NoEntry /\ files[p].deleted}
  IN /\ call[t].pc = "compact"
     /\ IF manifestVersion = call[t].expected
        THEN /\ files' = [p \in Paths |-> IF p \in gone THEN NoEntry ELSE files[p]]
             /\ manifestVersion' = manifestVersion + IF gone = {} THEN 0 ELSE 1
             /\ UNCHANGED totalChunks
             /\ Answer(t, call[t], 0)
        ELSE Fail(t) /\ UNCHANGED <<manifest, known>>
     /\ UNCHANGED <<chunkStore, corrections, counters, left, log>>

\* and if it is still the same the deleted entries leave the index.
Compact(t) ==
  LET gone == {p \in Paths : files[p] # NoEntry /\ files[p].deleted}
      kept == {p \in Paths : files[p] # NoEntry} \ gone
  IN /\ call[t].pc = "compact"
     /\ IF manifestVersion = call[t].expected
        THEN /\ files' = [p \in Paths |-> IF p \in gone THEN NoEntry ELSE files[p]]
             /\ totalChunks' = ChunkCount(files, kept)
             /\ manifestVersion' = manifestVersion + IF gone = {} THEN 0 ELSE 1
             /\ Answer(t, call[t], 0)
        ELSE Fail(t) /\ UNCHANGED <<manifest, known>>
     /\ UNCHANGED <<chunkStore, corrections, counters, left, log>>
-----------------------------------------------------------------------------
(* read_file *)

\* 1. The entry; a file with no chunks is returned at once.
StartRead(t, p) ==
  /\ Ready(t, "read")
  /\ IF ~Exists(p) THEN Fail(t) /\ UNCHANGED known
     ELSE IF files[p].chunks = <<>>
     THEN Answer(t, Begun("read", p, "ok"), files[p].version)
     ELSE /\ Becomes(t, [Begun("read", p, "readChunk") EXCEPT !.ids = files[p].chunks])
          /\ UNCHANGED known
  /\ Spend(t)
  /\ UNCHANGED <<manifest, chunkStore, corrections, counters, log>>

\* 2. For each chunk of that entry: chunk_store.get ...
ReadChunk(t) ==
  LET id == Head(call[t].ids) IN
  /\ call[t].pc = "readChunk"
  /\ IF id \in DOMAIN store
     THEN Becomes(t, [call[t] EXCEPT !.pc = "readCorrection", !.chunk = store[id]])
     ELSE Fail(t)
  /\ UNCHANGED <<manifest, chunkStore, corrections, counters, client, log>>

\* ... then corrections.get; after the last chunk, cut to the file's size.
ReadCorrection(t) ==
  LET c == call[t]
      data == c.data \o Corrected(c.chunk, Head(c.ids))
  IN /\ c.pc = "readCorrection"
     /\ IF Len(c.ids) > 1
        THEN /\ Becomes(t, [call[t] EXCEPT !.pc = "readChunk", !.ids = Tail(@),
                            !.chunk = <<>>, !.data = data])
             /\ UNCHANGED known
        ELSE Answer(t, [c EXCEPT !.data = SubSeq(data, 1, MinOf(c.entry.size, Len(data)))],
                    c.entry.version)
     /\ UNCHANGED <<manifest, chunkStore, corrections, counters, left, log>>
-----------------------------------------------------------------------------
(* apply_delta: byte replacements, append, truncate.  Chunks of the file   *)
(* are rewritten in place, under the ids they have, before the manifest is *)
(* touched.                                                                *)

\* Bytes in the last chunk, and how many appended bytes are put into it.
LastBytes(e) == IF e.size = 0 THEN 0 ELSE ((e.size - 1) % ChunkSize) + 1

Fill(e, data) ==
  IF e.chunks # <<>> /\ LastBytes(e) > 0
  THEN MinOf(ChunkSize - LastBytes(e), Len(data)) ELSE 0

\* analyze_delta finds nothing to do.
NothingAffected(c) ==
  CASE c.kind = "replace" -> \A ch \in c.changes : ch.off >= c.entry.size
    [] c.kind = "append" -> c.data = <<>>
    [] c.kind = "truncate" -> c.length >= c.entry.size

\* The positions, in the entry's list, of the chunks to rewrite.
Rewritten(c) ==
  CASE c.kind = "replace" ->
         {ch.off \div ChunkSize + 1 : ch \in c.changes} \cap DOMAIN c.entry.chunks
    [] c.kind = "append" ->
         IF Fill(c.entry, c.data) > 0 THEN {Len(c.entry.chunks)} ELSE {}
    [] c.kind = "truncate" ->
         IF c.length % ChunkSize # 0 /\ Kept(c) > 0 THEN {Kept(c)} ELSE {}

\* What becomes of the bytes of the chunk at position k.
Edited(c, k, bytes) ==
  CASE c.kind = "replace" -> Replaced(bytes, c.changes, (k - 1) * ChunkSize)
    [] c.kind = "append" -> bytes \o SubSeq(c.data, 1, Fill(c.entry, c.data))
    [] c.kind = "truncate" -> SubSeq(bytes, 1, MinOf(c.length % ChunkSize, Len(bytes)))

\* Appended bytes that fit into no chunk yet.
Placed(c) == Fill(c.entry, c.data) + Len(c.ids) * ChunkSize

Unplaced(c) == c.kind = "append" /\ Placed(c) < Len(c.data)

\* 1.-3. The entry, the version check, the analysis.
StartDelta(t, p, kind, data, changes, length, v) ==
  LET c == [Begun(kind, p, "edit") EXCEPT
              !.data = data, !.changes = changes, !.length = length]
  IN /\ Ready(t, kind)
     /\ IF ~Exists(p) \/ v \notin {NoVersion, files[p].version}
        THEN Fail(t) /\ UNCHANGED known
        ELSE IF NothingAffected(c) THEN Answer(t, c, files[p].version)
        ELSE Becomes(t, [c EXCEPT !.todo = Rewritten(c)])
             /\ UNCHANGED known
     /\ Spend(t)
     /\ UNCHANGED <<manifest, chunkStore, corrections, counters, log>>

\* For a chunk of the file, in any order (the changes are grouped in a
\* HashMap): chunk_store.get ...
EditChunk(t, k) ==
  LET id == call[t].entry.chunks[k] IN
  /\ call[t].pc = "edit"
  /\ k \in call[t].todo
  /\ IF id \in DOMAIN store
     THEN Becomes(t, [call[t] EXCEPT !.pc = "editCorrection",
            !.todo = @ \ {k}, !.id = id, !.chunk = store[id], !.at = k])
     ELSE Fail(t)
  /\ UNCHANGED <<manifest, chunkStore, corrections, counters, client, log>>

\* ... corrections.get, the legacy decoding, the edit, the new encoding in the
\* filesystem's mode ...
EditBytes(t) ==
  LET c == call[t] IN
  /\ c.pc = "editCorrection"
  /\ Becomes(t, [call[t] EXCEPT !.pc = "editVersion",
       !.chunk = Edited(c, c.at, LegacyBytes(c.chunk, c.id))])
  /\ UNCHANGED <<manifest, chunkStore, corrections, counters, client, log>>

\* A new chunk, under a new id, for the next bytes of an append.
NewChunk(t) ==
  LET c == call[t] IN
  /\ c.pc = "edit" /\ c.todo = {} /\ Unplaced(c)
  /\ Becomes(t, [call[t] EXCEPT !.pc = "editVersion",
       !.id = nextId, !.ids = Append(@, nextId),
       !.chunk = SubSeq(c.data, Placed(c) + 1, MinOf(Placed(c) + ChunkSize, Len(c.data)))])
  /\ nextId' = nextId + 1
  /\ UNCHANGED <<manifest, chunkStore, corrections, root, globalVersion, client, log>>

\* ... chunk_store.version(), only now ...
ReadStoreVersion(t) ==
  /\ call[t].pc = "editVersion"
  /\ Becomes(t, [call[t] EXCEPT !.pc = "editInsert", !.storeVer = storeVersion])
  /\ UNCHANGED <<manifest, chunkStore, corrections, counters, client, log>>

\* Mutant of InsertEdited: the version mismatch is not reported.
InsertEditedUnchecked(t) ==
  LET c == call[t] IN
  /\ c.pc = "editInsert"
  /\ IF storeVersion = c.storeVer
     THEN store' = Over([id \in {c.id} |-> c.chunk], store) /\ storeVersion' = storeVersion + 1
     ELSE UNCHANGED chunkStore
  /\ Becomes(t, [c EXCEPT !.pc =
       IF NeedsCorrection(c.chunk) THEN "editCorrVersion" ELSE "edit"])
  /\ UNCHANGED <<manifest, corrections, counters, client, log>>

\* ... chunk_store.insert, conditional on it; the correction is stored only
\* if the new bytes need one ...
InsertEdited(t) ==
  LET c == call[t] IN
  /\ c.pc = "editInsert"
  /\ IF storeVersion = c.storeVer
     THEN /\ store' = Over([id \in {c.id} |-> c.chunk], store)
          /\ storeVersion' = storeVersion + 1
          /\ Becomes(t, [call[t] EXCEPT !.pc =
               IF NeedsCorrection(c.chunk) THEN "editCorrVersion" ELSE "edit"])
     ELSE Fail(t) /\ UNCHANGED chunkStore
  /\ UNCHANGED <<manifest, corrections, counters, client, log>>

ReadEditCorrVersion(t) ==
  /\ call[t].pc = "editCorrVersion"
  /\ Becomes(t, [call[t] EXCEPT !.pc = "editCorrect", !.corrVer = corrVersion])
  /\ UNCHANGED <<manifest, chunkStore, corrections, counters, client, log>>

\* ... corrections.update, conditional on that version.
CorrectEdited(t) ==
  LET c == call[t] IN
  /\ c.pc = "editCorrect"
  /\ IF corrVersion = c.corrVer
     THEN /\ corr' = Over([id \in {c.id} |-> c.chunk], corr)
          /\ corrVersion' = corrVersion + 1
          /\ Becomes(t, [call[t] EXCEPT !.pc = "edit"])
     ELSE Fail(t) /\ UNCHANGED corrections
  /\ UNCHANGED <<manifest, chunkStore, counters, client, log>>

\* When every chunk is in place: the version that will be returned is the
\* filesystem's, before its increment.
DrawVersion(t) ==
  LET c == call[t] IN
  /\ c.pc = "edit" /\ c.todo = {} /\ ~Unplaced(c)
  /\ Becomes(t, [call[t] EXCEPT !.pc = "publish", !.ret = globalVersion])
  /\ globalVersion' = globalVersion + 1
  /\ UNCHANGED <<manifest, chunkStore, corrections, nextId, root, client, log>>
-----------------------------------------------------------------------------
(* read_range of an entry with an offset index, which it has from the first *)
(* append or truncation until its file is written anew.                     *)

\* Mutant of IndexedLength: the last chunk is counted from one, not from zero.
IndexedLengthFromOne(e, k) ==
  IF k < Len(e.chunks) THEN ChunkSize ELSE e.size - k * ChunkSize

\* build_offset_index: the bytes of the chunk at position k; they begin at
\* (k - 1) * ChunkSize.
IndexedLength(e, k) ==
  IF k < Len(e.chunks) THEN ChunkSize ELSE e.size - (k - 1) * ChunkSize

\* chunks_for_range and read_range_with_index: of each chunk the part that is
\* between the two offsets, cut to the bytes the chunk has.
IndexedRead(e, from, to) ==
  LET Part(k) ==
        LET bytes == LegacyBytes(store[e.chunks[k]], e.chunks[k])
            base == (k - 1) * ChunkSize
            start == IF from > base THEN from - base ELSE 0
        IN SubSeq(bytes, start + 1, MinOf(MinOf(to - base, IndexedLength(e, k)), Len(bytes)))
  IN FlattenSeq([k \in DOMAIN e.chunks |-> Part(k)])
-----------------------------------------------------------------------------
Start(t) ==
  \E p \in Paths : \E v \in Expectations(t, p) :
    \/ \E data \in Contents : StartWrite(t, p, data, v)
    \/ StartDelete(t, p, v)
    \/ v = NoVersion /\ StartRead(t, p)
    \/ \E s \in ChangeSets : StartDelta(t, p, "replace", <<>>, s, 0, v)
    \/ \E data \in Appends : StartDelta(t, p, "append", data, {}, 0, v)
    \/ \E n \in Lengths : StartDelta(t, p, "truncate", <<>>, {}, n, v)

Write(t) ==
  \/ Prepare(t) \/ InsertChunks(t) \/ CorrectNew(t) \/ ReadCorrVersion(t)
  \/ Correct(t) \/ Publish(t) \/ Bundle(t) \/ Count(t)

Read(t) == ReadChunk(t) \/ ReadCorrection(t)

Delta(t) ==
  \/ \E k \in call[t].todo : EditChunk(t, k)
  \/ EditBytes(t) \/ NewChunk(t) \/ ReadStoreVersion(t) \/ InsertEdited(t)
  \/ ReadEditCorrVersion(t) \/ CorrectEdited(t) \/ DrawVersion(t)

Next ==
  \E t \in Threads :
    Start(t) \/ Write(t) \/ Read(t) \/ Delta(t) \/ StartCompact(t) \/ Compact(t)

Spec == Init /\ [][Next]_vars
-----------------------------------------------------------------------------
(* Properties *)

AnsweredPCs == {"idle", "ok", "err"}
PCs == AnsweredPCs \cup
  {"prepare", "insert", "correctNew", "correctVersion", "correct", "publish",
   "bundle", "count", "compact", "readChunk", "readCorrection", "edit",
   "editCorrection", "editVersion", "editInsert", "editCorrVersion", "editCorrect"}

InFlight(t) == call[t].pc \notin AnsweredPCs

DeltaInFlight(p) ==
  \E t \in Threads : InFlight(t) /\ call[t].path = p /\ call[t].kind \in DeltaKinds

Call ==
  [pc : PCs, kind : AllKinds \cup {"none"}, path : Paths \cup {NoPath},
   expected : Nat \cup {NoVersion}, learned : Nat, entry : Entry \cup {NoEntry},
   basis : Nat, data : Seq(AllBytes), changes : SUBSET Change, length : Nat,
   ids : Seq(Nat), todo : SUBSET Nat, id : Nat, chunk : Seq(AllBytes), at : Nat,
   storeVer : Nat, corrVer : Nat, ret : Nat]

TypeOK ==
  /\ files \in [Paths -> Entry \cup {NoEntry}]
  /\ manifestVersion \in Nat
  /\ DOMAIN store \subseteq Nat
  /\ \A id \in DOMAIN store : store[id] \in Seq(AllBytes)
  /\ DOMAIN corr \subseteq Nat
  /\ \A id \in DOMAIN corr : corr[id] \in Seq(AllBytes)
  /\ storeVersion \in Nat /\ corrVersion \in Nat
  /\ nextId \in Nat /\ root \subseteq Nat /\ globalVersion \in Nat
  /\ call \in [Threads -> Call]
  /\ left \in [Threads -> Nat]
  /\ known \in [Threads -> [Paths -> [version : Nat \cup {NoVersion}, at : Nat]]]
  /\ log \in [Paths -> Seq([version : Nat, content : Seq(AllBytes), deleted : BOOLEAN])]

\* What each stage of a call says of its locals.
WriteStages == {"prepare", "insert", "correctNew", "correctVersion", "correct", "bundle"}
EditStages ==
  {"edit", "editCorrection", "editVersion", "editInsert", "editCorrVersion", "editCorrect"}

StageOK(c, lg) ==
  /\ c.pc \in WriteStages => c.kind = "write"
  /\ c.pc \in EditStages => c.kind \in DeltaKinds
  /\ c.pc = "publish" => c.kind \in DeltaKinds \cup {"write"}
  /\ c.pc = "compact" => c.kind = "compact"
  /\ c.pc \in {"readChunk", "readCorrection"} =>
       c.kind = "read" /\ c.ids # <<>> /\ c.entry # NoEntry
  /\ c.pc \notin AnsweredPCs \cup {"compact"} => c.path \in Paths
  /\ c.pc \in EditStages \/ (c.pc = "publish" /\ c.kind \in DeltaKinds) =>
       /\ c.entry # NoEntry
       /\ c.basis \in 1..Len(lg[c.path])
       /\ c.todo \subseteq DOMAIN c.entry.chunks

StagesOK == \A t \in Threads : StageOK(call[t], log)

\* The chunks a writer allocated are in the store from the moment it inserted
\* them until it publishes them.
IdsOK(c, stored) ==
  /\ c.pc = "insert" => c.ids = [i \in 1..ChunksIn(c.data) |-> c.id + i - 1]
  /\ c.pc \in {"correctNew", "correctVersion", "correct", "edit", "editCorrection",
               "editCorrVersion", "editCorrect", "publish"} =>
       \A i \in DOMAIN c.ids : c.ids[i] \in stored
  /\ c.pc \in {"editVersion", "editInsert"} =>
       \A i \in DOMAIN c.ids : c.ids[i] \in stored \cup {c.id}

IdsStored == \A t \in Threads : IdsOK(call[t], DOMAIN store)

\* A path with an entry has been published.
LogBacked == \A p \in Paths : files[p] # NoEntry => log[p] # <<>>

StoredIn(e, stored) == \A i \in DOMAIN e.chunks : e.chunks[i] \in stored

\* No entry of the manifest, and no entry a running call holds, names a chunk
\* the store does not have: every writer stores its chunks before it publishes
\* them, whatever the others do, so read_file never answers ChunkNotFound.
EntryChunksStored ==
  /\ \A p \in Paths : files[p] # NoEntry => StoredIn(files[p], DOMAIN store)
  /\ \A t \in Threads :
       call[t].entry # NoEntry => StoredIn(call[t].entry, DOMAIN store)

\* The inductive invariant behind EntryChunksStored.
Inductive == TypeOK /\ StagesOK /\ IdsStored /\ LogBacked /\ EntryChunksStored

\* "Read with snapshot isolation": what read_file returns is the file exactly
\* as it was published under the version it returns, although the chunks and
\* the corrections are read one at a time while writers run.
SnapshotReads ==
  \A t \in Threads : call[t].pc = "ok" /\ call[t].kind = "read" =>
    LET was == log[call[t].path][call[t].basis]
    IN call[t].data = was.content /\ call[t].ret = was.version

\* Optimistic locking: a write_file that was given a version takes effect only
\* if nothing happened to the path since its caller learned that version; one
\* that was given none takes effect only where no file is.
NoLostUpdate ==
  \A t \in Threads : call[t].pc = "bundle" =>
    IF call[t].expected = NoVersion
    THEN call[t].basis > 1 => log[call[t].path][call[t].basis - 1].deleted
    ELSE call[t].basis = call[t].learned + 1

\* The version of a path counts its publications: each is one more than the
\* last, and the manifest carries the last one.
VersionChain ==
  \A p \in Paths :
    /\ \A i \in 1..Len(log[p]) : log[p][i].version = i - 1
    /\ files[p] # NoEntry =>
         /\ files[p].version = Last(log[p]).version
         /\ files[p].deleted = Last(log[p]).deleted

\* The version a call returns is the one its publication is stored under: the
\* caller can pass it to its next call.
ReturnedVersion ==
  \A t \in Threads :
    call[t].pc = "ok" /\ call[t].kind \in DeltaKinds \cup {"write"} =>
      call[t].ret = log[call[t].path][call[t].basis].version

\* The bytes reachable from an entry: each chunk decoded and corrected.
StoredContent(e) ==
  LET all == FlattenSeq([i \in DOMAIN e.chunks |-> Corrected(store[e.chunks[i]], e.chunks[i])])
  IN SubSeq(all, 1, MinOf(e.size, Len(all)))

\* Bit-perfect reconstruction: when no delta is half done on it, every file
\* reads as the content last published for it, whatever calls failed.
BitPerfect ==
  \A p \in Paths : files[p] # NoEntry /\ ~DeltaInFlight(p) =>
    StoredContent(files[p]) = Last(log[p]).content

\* The offset index and the chunks it was computed for stay in step over any
\* sequence of appends, truncations and replacements: every range read through
\* it is that range of the content last published.
RangesExact ==
  \A p \in Paths : Exists(p) /\ files[p].indexed /\ ~DeltaInFlight(p) =>
    \A from, to \in 0..files[p].size : from <= to =>
      IndexedRead(files[p], from, to) = SubSeq(Last(log[p]).content, from + 1, to)

\* total_chunks is the number of chunks of the entries, deleted ones included,
\* and so never underflows.
TotalChunksExact ==
  totalChunks = ChunkCount(files, {p \in Paths : files[p] # NoEntry})

\* The root is the superposition of all the chunks of the files: those of a
\* live file are in it, once no call on the file is running.
RootCoversFiles ==
  \A p \in Paths :
    Exists(p) /\ (\A t \in Threads : InFlight(t) => call[t].path # p) =>
      \A i \in DOMAIN files[p].chunks : files[p].chunks[i] \in root
=============================================================================
