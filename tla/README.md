# A TLA+ verification of embeddenator-fs

This directory holds TLA+ models of `embeddenator-fs`: its concurrent stores, its
journal, its two FUSE adapters, its streaming readers and writers, and the
single-threaded filesystem with the command line over it. With them come the TLC
configurations that check them on small instances, and TLAPS proofs of the
properties that matter most. Every definition is translated from the Rust source;
`PROJECT.json` gives the lines for each one (`map`), the runs, the mutants that show
each property can fail, the places where the code can go wrong (`hazards`) and
disagreements between code and documentation (`findings`; section 4 lists all that
are known). Source paths below are relative to `src/src/fs/`.

Check a model with `tlc -config X.cfg M`, a proof with `tlapm M.tla`.

## 1. The system

A file is cut into chunks; each chunk is encoded as a sparse vector (external crate
`embeddenator-vsa`), and all chunk vectors are superposed into one *root* vector.
The encoding is lossy, so a *correction* is computed for each chunk, and file bytes
are decode + correct. A *manifest* maps each path to its chunk ids. There are two
filesystems on this principle: `VersionedEmbrFS`, shared by threads and mounted
read-write, and `EmbrFS`, owned by one command of the command line.

| Component | State it keeps | Operations | How it meets the others | What makes it correct |
|---|---|---|---|---|
| **VersionedEmbrFS** `versioned_embrfs.rs` | owns the three stores below, root + its version, `next_chunk_id`, `global_version`, the encoding mode | `write_file`, `read_file`, `delete_file`, `apply_delta`, `read_range`, compressed and holographic variants | takes the locks of one store at a time, never two across stores; every call is a sequence of such accesses | snapshot reads, no lost update, bit-perfect bytes after any failure, returned versions are usable |
| **Root bundling** `versioned_embrfs.rs:1964` | root `RwLock` + `AtomicU64` version | `bundle_chunks_to_root` (unbounded CAS loop) | called by every writer | no batch lost; a call returns |
| **Manifest** `versioned/manifest.rs` | files map, per-file versions, `total_chunks`, `global_version` | `add_file`, `update_file`, `remove_file`, `compact`, `get_file` | published last by a writer, read first by everyone | versions count publications; chunk count exact |
| **Chunk store** `versioned/chunk_store.rs` | id -> chunk, hash index, version | `get`, `insert`, `batch_insert(_new)`, `remove`, `gc`, `find_by_hash` | two locks inside | no dangling id |
| **Correction store** `versioned/corrections.rs`, `correction.rs` | id -> correction, version | `get`, `update`, `batch_update`, `batch_insert_new` | read after the chunk, written after it | the correction in force was computed for the chunk in force |
| **VersionedEngram** `versioned/engram.rs`, `transaction.rs` | a root of its own, transactions | `bundle_chunk` (10 tries), `begin/commit_transaction` | stand-alone API | no bundle lost; failure only under contention |
| **Delta analysis** `delta.rs` | none | `analyze_delta` | tells `apply_delta` which chunks change | every changed byte is in a listed chunk |
| **Journal (WAL)** `versioned/journal.rs` | file, `BufWriter`, pending queue, `open`, stop signal | `open`, `write_transaction`, `flush_pending`, `replay`, `checkpoint`, `close` | a flusher thread; condition variables; stand-alone API | committed means on disk; order; callers return |
| **Streaming ingest / decode** `streaming.rs` | partial chunk buffer, pending chunks; decoder position and buffered chunk | `ingest_bytes`, `finalize`; `read`, `next`, `seek_to` | writes batch by batch into the stores, publishes at the end; a decoder stays open while the file changes | bytes neither skipped nor repeated; nothing half-published |
| **Large files** `large_file.rs` | none of its own | `write_large_file`, flat or hierarchical | same stores, chunk size by entropy | as streaming |
| **Versioned FUSE** `versioned_fuse.rs` | inode <-> path maps, handles, directory tree, symlinks, attributes | every FUSE request | calls VersionedEmbrFS; requests come one at a time (`&mut self`) | maps inverse, listings and store in step |
| **FUSE shim** `fuse_shim.rs` (`EngramFS`) | inode tables of the mount that is read-only by default | `add_*` from several threads, then the requests of the mount | filled from a decoded store, moved into the mount | what is listed is served; what was added is found by its path |
| **Signals** `signal.rs` | number and flag | handlers, polling loop of both mounts | interrupts any thread between two stores | a signal ends the mount, and the right one is reported |
| **EmbrFS** `embrfs.rs` | engram (codebook, corrections), manifest; tree of sub-engrams | ingest, add, modify, remove, compact, extract, hierarchical bundling and query | single-threaded | extraction returns what was ingested, after any sequence of edits that leaves no file below a file |
| **Command line** `../bin/embeddenator-fs.rs` | the engram file and the manifest file | one process per command: load, call, save both | a command can die between or inside the saves | the files are an atomic map from paths to contents |
| **Disk images** `../disk/` | none | parse raw/qcow2, partitions | third-party crates | not modelled: parsing and I/O |

What is hard in it: calls of different threads interleave between store accesses
(there is no lock over a whole call); version checks are made at one point and
relied on at another; chunks are rewritten in place by deltas while readers walk
them; a later store may refuse what an earlier one has already taken; the journal
has several flushers, a lossy shutdown and a file that can be cut anywhere; the
FUSE adapter keeps a tree of its own beside the store; readers assume chunk sizes
and encodings that the writers vary; commands die between two files that belong
together.

## 2. The modules

| Module | Models | Composes / refines |
|---|---|---|
| `RootSpec` | what bundling promises: one indivisible addition | abstract |
| `RootBundle` | `bundle_chunks_to_root`, step by step | refines `RootSpec` (`ImplementsAtomicBundle`) |
| `RootBundleProofs` | type invariant, no lost bundle, refinement | |
| `EngramRoot`, `EngramRootProofs` | `VersionedEngram::bundle_chunk` and `update_root`; failure only under contention | |
| `VersionedFS` | `VersionedEmbrFS` with manifest, chunk store and correction store | uses bundling as the single step `RootBundle` shows it to be |
| `VersionedFSProofs`, `WriterProofs` | types and no entry names a missing chunk; versions, contents, chunk counts | the second EXTENDS the first |
| `Journal`, `JournalProofs` | the write-ahead log with crashes; records once, in order, readable | |
| `Streaming`, `StreamingProofs` | the other writers and readers of `VersionedEmbrFS`: ingester, large files, compressed and holographic writes, `read_range`, decoders; what is published is whole, and what is read is what was published | the same stores, as data |
| `VersionedFuse`, `VersionedFuseProofs` | the read-write FUSE adapter; its maps agree, files stay what they are and are listed, nothing else is, and nothing comes back from the dead | over the versioned store as one caller sees it |
| `FuseShim`, `FuseShimProofs` | the read-only FUSE filesystem; its tree, and what is said of the mount | EXTENDS `Mount` |
| `Mount` | signals, polling loop, session (proofs in `FuseShimProofs`) | |
| `Maps` | insertion into and removal from the program's maps | used by the modules above it that keep maps |
| `EmbrFS`, `Hierarchy` | the single-threaded filesystem and hierarchical retrieval, as operators on its value | |
| `Cli` | the commands as processes over two files, with crashes | EXTENDS `Hierarchy`, refines `PathStore` |
| `PathStore` | an atomic map from paths to contents | abstract |
| `MC*` | small instances | |

### VersionedFS

One action per access to a shared store, because that is how long the code holds
a lock. `call[t]` is the stack frame of the call thread `t` is in: `pc` names the
next access, the other fields are the function's locals.

| Code | Actions |
|---|---|
| `write_file` | `StartWrite` (manifest lookup and version check), `Prepare` (store version, ids, encoding), `InsertChunks`, then `CorrectNew` or `ReadCorrVersion` + `Correct`, `Publish`, `Bundle`, `Count` |
| `read_file` | `StartRead`, then `ReadChunk` + `ReadCorrection` for each chunk |
| `delete_file` | `StartDelete`, `Count` |
| `apply_delta` (byte and multi-byte replacement, append, truncate) | `StartDelta`, for each chunk to rewrite `EditChunk`, `EditBytes`, `ReadStoreVersion`, `InsertEdited`, `ReadEditCorrVersion`, `CorrectEdited`; `NewChunk` for appended chunks; `DrawVersion`, `Publish` |
| `VersionedManifest::compact` | `StartCompact`, `Compact` |

Every error return is the `Fail` branch of the action in which the code returns
it, and leaves behind whatever the call has already done to other stores. The
callers are nondeterministic; they pass no expected version or the last one a
call returned to them.

*Abstraction of data.* A chunk is the sequence of bytes it encodes. Decoding
reproduces the bytes in `ExactBytes` and reads `Garbage` for the others. A correction
is kept as the chunk it was computed for, and is one of the three things
`compute_correction` makes of it (`Apply`): nothing, when all bytes are exact; the whole
chunk, when more than half of them are not (`Verbatim`), which then *replaces* whatever
was decoded; otherwise the differences, which repair that chunk and spoil any other.
The filesystem encodes in one of two modes (`Holographic`; the switch takes `&mut self`,
so the mode is fixed while threads share it). `read_file` decodes in that mode, but a
delta reads the chunk it edits with the legacy decoder in either (`LegacyBytes`): in
holographic mode only a verbatim correction leads back to the bytes
(`MCDeltaHolographic.cfg`, section 4).

An append or a truncation leaves an offset index with its entry, which replacements keep
and a write drops (`indexed`); `read_range` then takes another branch. The index is a
function of the entry's chunks and size (`IndexedLength`), and what that branch gives one
caller is `IndexedRead`, which `RangesExact` evaluates for every range of every state.

`log` is a history variable: the successive publications of each path. The
properties compare what the stores hold, or what a call answers, with it.

### RootBundle and EngramRoot

The same optimistic pattern twice, with one difference the models bring out.
`bundle_chunks_to_root` reads the root and its version under *one* read lock;
`VersionedEngram::bundle_chunk` reads them in *two* steps. The first refines an
atomic addition (`RootSpec`); the second loses bundles (section 4). A root vector
is the set of ids bundled into it: what one bundle adds, later bundles are assumed
to keep.

### Journal

The threads are the writers, the flusher of group commit and the owner, which
opens, replays, checkpoints and closes. A write goes `Submit`, (`Enqueue`,
`Drain`,) `WriteOut`, `Sync`, `Signal`, (`Wake`); any thread may drain the queue
and each carries its batch to the writer lock by itself, so batches can overtake
each other. The file is a sequence of cells, one per record, kept twice: as the
operating system has it (`file`) and as of the last `sync_all` (`durable`).
`buffer` is what the `BufWriter` retains: records in Relaxed mode, and the unwritten
rest after a failed flush. `Fail` is an error of write, flush or sync with any
part of the batch written. `PowerFailure` may leave any mixture of old and new
cells, `Bad` standing for a torn or missing record. After it the owner follows the
recovery the module documentation describes: open, replay, checkpoint.

### Streaming

Four kinds of writer and four of reader on one store. `call[t]` is again the frame.
A streamed write is `Build`, any number of `Feed`s (each drains the full chunks from
the buffer: `Process`), `Finalize`; a large one is encoded at once (`WriteLarge`);
the compressed and holographic ones are `StartWrite`, `Prepare`. All end in
`InsertChunks`, (`ReadCorrVersion`,) `InsertCorrections`, `Publish`, `Bundle`, with
conditional updates only where the code has them, and a refusal leaves behind what
was stored. The asynchronous ingester makes the same calls. A chunk, once stored, is
not changed by any of these writers, so that a reader's walk over the chunks of its
entry is one step (`ReadChunks`); a decoder, which lives across many calls of its
owner, is a sequence of `ReadN`, `NextItem` and `SeekTo` steps with its own position,
buffered chunk and entry. `ReadFile`, `ReadRange` and `ReadHolographic` are the three
different reconstructions: each decodes with the size and the decoder its code
assumes. A byte the encoding does not reproduce decodes to `Near`, one read by the
wrong decoder or beyond the chunk to `Junk`; a correction is nothing, the changed
bytes, or all of them, as `ChunkCorrection::new` chooses.

What the model shows by the form of `MadeFor` and the guards of the properties, and a
user of the code should know: `read_file` decodes every chunk at the default size, so a
file streamed or written with other sizes is read right only where corrections are
verbatim; `read_range` always uses the legacy decoder and ignores compression;
`read_file_holographic` takes every chunk to hold 64 bytes; a file streamed with
compression has compressed chunks that no reader unwraps; `next` after a partial read
passes over the rest of the chunk in hand; a refused finalize or large write leaves its
chunks; streamed and large writes do not advance `global_version`; a large write's
sub-engrams are built and dropped, and with `max_bundle_size` 1 their loop does not end
(`SizesAssumption` excludes it); writing over a deleted file without a version is
refused as `FileExists`.

### VersionedFuse

`fuser` hands the requests of a mount to handlers that take `&mut self`: a handler is
one action, and what interleaves are the requests of programs and the handles they hold
open. `tree` holds the five maps of the adapter; `store` is what `VersionedEmbrFS` shows
to one caller. `acked` is a history variable: the content the programs were told each
path has; `disturbed` are the paths a rename went over that the handler does not carry
through (`GoesOver`: onto a path in use, of a directory with contents, of a symlink or an
unlinked file). `NoGhosts` promises nothing below them, and `FilesKept` nothing below and
above them (`Shaken`). Above, because of what the proof of `FilesKept` ran into, on paths of
three names: the directory `b/a/c` is renamed over the directory `b/a` it lies in; what is
then at `b/a`, and `b`, are removed, and a file `b` is created. A program that still holds the
directory that was at `b/a` first, whose inode kept that path, can create `b/a/c`, and
`register_file` makes directories of every level above it: the file `b` is one from then on,
and cannot be read.

Remarks the model made plain: a symlink's attributes say regular file; `versioned_fuse.rs:12`
names device nodes, but there is no `mknod` handler; a file of the store whose name has no
leading slash is listed and cannot be read; an unlinked path stays in the maps, so that
`create` fails for it while `write` through an old handle does too; after the rename of a
directory its children keep their old paths.

### FuseShim and Mount

`add_*` takes `&self` and locks each map by itself: a call is `Start` (the test for an
existing path), `Climb` (`ensure_directory` on the way up), and for each missing directory
and the node `Publish`, `Store`, `Link`. Mounting takes the tree by value
(`Mount` needs all calls done); from then on one thread serves requests, of which `symlink`
and `mknod` run the same calls. `Mount` has the handler of each signal in two steps
(number, flag), the loop in three (look, read the number, drop the session) and the
unmount from outside, which the loop does not notice. Nothing uses `ShutdownGuard`.

Two adds that miss the same directory both make it, and both nodes are listed under one
name. `Lookup` is what the code does then: the *first* entry of the name. Reachability is
defined by it, name by name from the root (`LeadsTo`), so that a file below the second
directory is not reachable: `OkIsReachable` is about paths whose directories are `Settled`
(one node, and listed), and `OkIsFound`, without that condition, is false
(`MCFuseShimRace.cfg`, section 4).

### EmbrFS, Hierarchy, Cli

`EmbrFS` and `Hierarchy` are pure: each method is an operator from a filesystem value to a
result. `Cli` makes processes of them: a command loads (`Loaded`), calls, and saves the
engram and then the manifest (`SaveEngram`, `SaveManifest`); `Crash` can come at any time
and leave the file being written unreadable. Commands run one at a time: the code takes no
lock, and two at once are not modelled. `gen` in each file is history: files are *torn* when
they come from different ingests or compactions. The refinement `ImplementsPathStore` maps the
two files to one map from paths to contents (`kept.tree`) which an update changes at the
moment the manifest is written, and to `torn` in between for the commands that rewrite
everything.

`kept.tree` is `Latest`: the newest live entry of each path, decoded and corrected. That is
not always what `extract` leaves in the output directory: `Extract` writes the live entries in
the order of the manifest and stops at the first error, which comes where one path lies below
another (`Obstructed`: `create_dir_all` meets a file, or `fs::write` a directory). `add_file`
compares whole paths only, so such stores exist. `AckedVisible` requires the extraction to
succeed while there is none (`Treelike`), and `ExtractsAll`, without that condition, is
false (`MCCliConflict.cfg`, section 4). The output directory is taken to be empty.

Remarks: `modify` removes the old version before it reads the new source (nothing is saved if
that fails); the ids that a dead `add` left in the codebook are taken again; deleted files'
chunks stay in hierarchical bundles and can be found by a query; the alternative extractions
and `verify` use the legacy decoder and chunk size on a holographic store (and compute a
file's last size with an underflow there); `RemappedInvertedIndex` skips chunks the codebook
misses but numbers them.

## 3. The runs

All runs finish within minutes on two cores. Every property of a passing run has
a mutant of the code (`PROJECT.json`, `mutants`) under which TLC refutes it. Where a
module's type invariant is not a property of its own it is a conjunct of one
(`Inductive`, `WrittenOnce`, `PublishedWhole`, `MapsAgree`, `ListedIsServed`,
`ChunksDisjoint`).

| Run | Bounds | Shows |
|---|---|---|
| `root_bundle` | 3 calls with batches of their own (ids are never allocated twice), one id not stored | `CopyIsCurrent`, `NoLostBundle`, termination, refinement of `RootSpec`. Three calls: one can be overtaken twice, by different calls. |
| `engram_root` | 4 calls, retry limit 2 | a call fails only after `MaxRetries` other bundles; every call answers. With a limit of 2, three other calls are enough to exhaust it and one more is left. |
| `writers` | 2 threads, 2 calls each, 2 paths, contents of two chunks, one of which needs corrections | writes, creations, deletions and reads in every order: `SnapshotReads`, `NoLostUpdate`, `VersionChain`, `ReturnedVersion`, `BitPerfect`, `RootCoversFiles`. Two calls per thread: the second may use a version the first learned, stale or not. |
| `all_calls` | 3 threads, 1 call each, every kind, 1 path | `TotalChunksExact`, `EntryChunksStored`, the inductive invariant of the proofs. |
| `delta_sequence` | 1 thread, 4 calls; replacements inside, across and behind chunks, appends of 0-2 bytes, truncations to 0, 1, 2 and 9; chunks of 2 bytes; legacy mode; one byte survives the encoding and two do not | `BitPerfect`, `RangesExact`: sequential deltas keep every byte as long as no chunk stops needing a correction and the mode is legacy, and so does every range read through the offset index. Corrections of both kinds occur. Offsets before, at and after a chunk edge all occur. |
| `journal` | 2 writers, 3 transactions, the three modes, queue limit 2, one checkpoint, one I/O error, one power failure | `AckedReadable`, `RealTimeOrder`, `WrittenOnce`, `WritersReturn`. |
| `streaming` | 2 threads, 3 calls in all, one path, a content of 5 bytes, chunks of 2 by default, 1 (reversible), 1 and 3 (large files), pieces of 1 and 4 bytes, 2 calls on a decoder | `PublishedWhole`, `IngestLossless`, `AnswersInForce`, `ReadersExact`, `DecoderExact`. 5 bytes end in a partial chunk for both sizes; a piece of 4 spans two chunks and one of 1 stays in the buffer; large files have five chunks (hierarchical, three levels) or two (flat); three calls let a reader be overtaken by a write and a mode switch. |
| `versioned_fuse` | 2 names, paths of two names, 3 inodes besides the root, 1 handle, versions to 1, contents to 2 bytes, 2 renames | `MapsAgree`, `FilesKept`, `NoGhosts`, `NoResurrection`. Two renames bring a file back to a name it left; one handle survives the unlink and the rename of its file. |
| `fuse_shim` | 2 adding threads and the mount, 3 calls that share a missing directory, repeat a path, or go below a file; 3 signals | `ListedIsServed`, `OkIsReachable`, `DirectoriesAgree`, `ReportedArrived`, `SignalUnmounts`. The two adds below the missing directory make it once or twice. |
| `cli` | 3 paths, one of them below another, contents of one and two chunks that decode exactly, nearly and not at all; 2 ingests (one names a path twice, one fails half way), 1 compaction, 3 entries, both modes | `AckedVisible`, `ChunksDisjoint`, `QueryFindsBest`, refinement of `PathStore`. Three entries: a path can be added, removed and added again, and compacted with one entry deleted. Queries with a cache of one index and with bounds that prune. |

Two runs expect a violation, each a finding:

| Run | What happens |
|---|---|
| `torn_read` | a delta over two chunks beside `read_file`: the reader returns one old and one new chunk |
| `seek_read` | a decoder positioned inside a chunk returns the bytes of that chunk again |

**Scope of the positive results.** `SnapshotReads`, `BitPerfect` and `ReturnedVersion`
hold between calls that write chunks under new ids (`write_file`, `delete_file`),
and, `ReturnedVersion` and `SnapshotReads` apart, for deltas made one at a time on a
filesystem in legacy mode, while no chunk stops needing a correction; `RangesExact` is checked for
those only. `NoLostUpdate` and `VersionChain` hold as long as nobody
compacts the manifest. `AckedReadable` and `RealTimeOrder` are about Immediate
and GroupCommit; Relaxed promises neither. They are checked with at most one I/O
error, and `AckedReadable` is false beyond that: after a failed flush *and* a failed seek
in the checkpoint that follows, a record can land behind a hole (`MCJournalHole.cfg`,
section 4). `ReadersExact` is about a reader
that is made for the chunks it finds (`MadeFor`), `DecoderExact` about positions at a
chunk boundary and about decoders that are not asked for a whole chunk after part of one.
`FilesKept` and `NoGhosts` exclude what lies below a rename the handler does not carry
through, `FilesKept` also what lies above it. `OkIsReachable` excludes what lies below a directory
that two adds made, or that an add which broke off at its last step left unlisted, since a
later add can build on it. `AckedVisible` covers neither a command that loaded a torn pair
nor a store with a file below a file. `QueryFindsBest` takes the query of the external
inverted index to return every chunk in it.

**Fairness.** Safety runs assume none. `root_bundle` and `engram_root` assume
that a thread that can take a step eventually does (weak fairness per call): the
loops only wait for short critical sections. Weak fairness suffices since every
failed compare-and-swap is another call's success and calls are finite in
number. `journal` assumes the same of a thread inside a call, and that the
flusher's timer goes on firing; nothing is assumed of `Submit`, `Checkpoint`,
`Close`, failures and crashes. `WritersReturn` excludes two cases in which
the code really leaves a writer waiting for ever: a flush by another thread failed
(its batch is dropped and nobody is signalled), or the journal was closed between
the writer's check of `open` and its place in the queue. `fuse_shim` assumes that the
polling loop goes on (it sleeps 100 ms at a time) and that a signal handler that has
begun runs to its end; nothing is assumed of adders, requests, or the arrival of signals.

`CHECK_DEADLOCK FALSE` is set where threads make a bounded number of calls and then
stop.

## 4. Known disagreements

Where the code does other than its documentation says. The first two are runs of the
project; the others are reproduced by the cfg named, which TLC refutes in seconds.

| Reproducer | What the source says | What the code does |
|---|---|---|
| `MCTornRead.cfg` (`SnapshotReads`) | `versioned/manifest.rs:39` "Reads never block, always see consistent snapshot" | `apply_delta` rewrites chunks in place, one by one, under readers |
| `MCSeekRead.cfg` (`SeekExact`) | `streaming.rs:859` "Read exactly n bytes, returning them" | `seek_to` leaves the buffered chunk as the next to load (`:852`) |
| `MCDeltaHolographic.cfg` (`BitPerfect`) | `versioned_embrfs.rs:668` the decoder "Must match the encoding method" | a delta decodes the old chunk with the legacy decoder in either mode (`:750`, `:841`, `:989`, `:1123`) |
| `MCFuseShimRace.cfg` (`OkIsFound`) | `fuse_shim.rs:422` "Ensure a directory exists, creating it if necessary" | two adds can create it twice (`:439`); `lookup_entry` enters the first one only (`:553`) |
| `MCCliConflict.cfg` (`ExtractsAll`) | `embrfs.rs:1637` "Extract files from engram to directory with guaranteed reconstruction" | `add_file` takes a path below a file (`:1145`), at which `extract` fails (`:1706`, `:1819`) and leaves out all that follows |
| `MCEngramRootLost.cfg` (`NoLostBundle`) | `versioned/engram.rs:120` bundling "with optimistic locking and automatic retry on version conflicts" | root and version are read apart (`:140`): a bundle in between is overwritten |
| `MCDeltaVersion.cfg` (`ReturnedVersion`) | `versioned_embrfs.rs:537`: the new file version after the delta | the filesystem's global version is returned (`:797`) |
| `MCStaleCorrection.cfg` (`BitPerfect`) | `versioned_embrfs.rs:7` "Bit-perfect reconstruction guarantees" | a correction of the old bytes stays in force when the new ones need none (`:790`) |
| `MCCompactReuse.cfg` (`NoLostUpdate`) | `versioned_embrfs.rs:1199`: the write fails if the file was modified since its version was read | delete, compact and create start again at version 0 |
| `MCJournalTorn.cfg` (`Recoverable`) | `versioned/journal.rs:104`: checksums are verified, corrupted records skipped | replay returns an error at the first bad record (`:757`) |
| `MCJournalHole.cfg` (`AckedReadable`) | `versioned/journal.rs:49` "Guarantee: Committed = on persistent storage" | a failed flush leaves its records in the `BufWriter`; the next checkpoint truncates the file (`:794`) and its seek flushes first (`:795`): if that fails too the handle stays past the end, and the next committed record is written behind a hole that replay stops at |
| `MCFuseWrite.cfg` (`CurrentHandleWrites`) | `versioned_fuse.rs:7` "Writing files (create, update)" | a write that covers the whole file is taken for a new file (`:518`) and refused |
| `MCFuseRename.cfg` (`RenameKeepsContent`) | `versioned_fuse.rs:1080`: the file is to be renamed in the store too | the copy is refused when the store ever had the new path, and the result ignored (`:1085`); the old one is deleted |
| `MCCliVerify.cfg` (`VerifiedIsDecoded`) | help of `verify`: "Tests that all files can be correctly decoded from the engram" | it compares lengths only, and decodes holographic stores with the legacy decoder |
| `MCCliRemove.cfg` (`RemovedIsGone`) | `embrfs.rs:1172` "File won't appear in future extractions" | ingest can list a path twice; `remove` marks the first entry |
| `MCCliCache.cfg` (`QueryNeverPanics`) | `embrfs.rs:490` "we just inserted the key, so get() must succeed" | with an index cache of size 0 nothing is inserted and the query panics |

Two further consequences can be seen with a cfg of one's own: a delta *refused* by the
manifest has already overwritten chunks (`BitPerfect` with two threads and `Kinds =
{"replace"}`), and appended chunks are never bundled, so `RootCoversFiles` fails
with `"append"` in `Kinds`.

## 5. The proofs

All are for arbitrary sets of threads, paths, contents and sizes, under the named
assumptions of the modules (each is what the code's types give: bytes are bytes,
the chunk size is positive, null values are not values).

**`RootBundleProofs`.** `TypeCorrect`, `CopiesCurrent`, `NothingLost`, `Refinement`. The root
being the union of the returned calls' batches is not inductive: nothing in it
stops a call from installing an old copy. The strengthening is `CopyIsCurrent`: a
copy whose version is the root's current one *is* the root (extended by the
call's own batch after `Build`). An install moves the version, which makes all other
copies stale at once. From it, `Install` is an atomic `AddBatch` of `RootSpec`
and every other step a stutter.

**`EngramRootProofs`.** `Invariance`, `OnlyUnderContention`. Each refused attempt of a
call is a bundle of another, so the root version is ahead of the version at which
the call began by at least its number of attempts (`Overtaken`); the bound
`attempt = MaxRetries` at failure gives the property.

**`VersionedFSProofs`.** `Invariance`, `TypeCorrect`, `ChunksStored`.
`EntryChunksStored` says that neither a published entry nor one a call holds names a
chunk that is not stored, so `read_file` and `apply_delta` never meet a missing
chunk. To be inductive it needs to know what a call has already stored:
`IdsStored` (after `InsertChunks` the allocated ids are stored; during a delta all but
the one in hand), `StagesOK` (which locals are meaningful at which `pc`; a delta's
positions are positions of its entry's list) and `LogBacked` (a path with an entry has a
publication, so that the content a delta computes is defined). Chunks are never
removed and the log only grows, which is lemma `Grow`: the locals of the other
threads keep their part of the invariant, so each action has to re-establish it
for its own thread only (`StepOK`), one lemma per action. The conjunction is also
checked by TLC (`Inductive` in run `all_calls`).

**`WriterProofs`.** `VersionsCount`: with nobody compacting, versions count publications
(`Counted`: a path without an entry was never published, a running delta works on a live
file); with compaction it is false (`MCCompactReuse.cfg`), so the hypothesis `NoCompaction`
is needed. `ReadsAreSnapshots`, `NoUpdateIsLost`, `VersionsReturned`, `RootIsComplete` and
`FilesBitPerfect`: under `WritersOnly`, that is without deltas and compaction, which really
break each of them (section 4). The strengthening is `Undisturbed`: ids are used once
(`Fresh`), so that the chunk and the correction of a published id never change; each
publication's chunks then stand for its content (`Holds`), and each call has, at each `pc`,
stored exactly the part of its content that its position says (`CallsOK`). `TotalIsExact`
has no hypothesis: `total_chunks` is the sum over the entries, whatever is written, edited,
deleted or compacted. What these need of concatenations and sums of any length is a
recursive function; its equation and its value are proved by the least counterexample
(`LeastNat`, from `WFMin`) instead of an induction rule.

**`VersionedFuseProofs`.** `NothingResurrected` is an action property: from `Versions`, no
handle is ahead of its file, and one on a deleted file is behind it, so that the store's
own check refuses its write. `MapsAlwaysAgree` needs `Agreement`: besides `MapsAgree`, every
listed name has an inode whose path is the directory's and the name, and the next inode is
unused. Each request's change of the tree is a composition of a few operators, and `TreeOK`
is proved for each (`EntriesOK`, `RegisterOK`, ...); the tree a mount starts from is a fold
over the store's files, handled by least counterexample.

`FilesAlwaysKept` and `NothingElseListed` need `Tidy`, which says of the tree what the two
properties say of files: the inode maps are inverse to each other also from inodes to paths
(`Placed`), every directory, and every other path whose file was not unlinked, is linked from
the root down, each level in the listing of the one above it (`Reached`), and every entry
stands for a directory that knows its parent, a file that was acknowledged, or a symlink
(`Shows`), all this outside of what a rename disturbed. A handle on a path the store does not
know (a symlink's) has an inode there, so that the write that creates the file creates it in
its place. Each request changes the tree in one of five ways, with a lemma on each: a new
inode (`NewChild`), a file registered with all its levels (`RegisteredFile`), an entry dropped
(`UnlinkedOrder`), a directory removed (`RemovedOrder`), an inode moved (`RenamedKept` when
the rename is carried through, `RenamedLost` when it is not); on top of them, one lemma per
request (`CreateTidy`, `UnlinkTidy`, `RenameTidy`, ...). The hypothesis of both theorems is
`FilesFormTree`: no file of the store that is mounted lies below another one. The store is
flat and would take both; the adapter would show the upper one as a directory, and the
theorems would be false in the first state. TLC evaluates it for the stores of its runs.

**`JournalProofs`.** `OnceInTheFile` and `FileIsInOrder` have no hypothesis: for any number
of I/O errors, crashes and checkpoints a record stands at one place of the file and of the
disk, or at one place on its way there (`Unique`), and what is on its way is not
acknowledged (`Ordered`). `AckedStayReadable` needs `Solid`: no hole before the handle,
disk and file equal up to the last synced record. One step breaks it, the failure of the
flush inside a checkpoint's seek (`SeekFails`), so that the theorem is for behaviours
without that step; `AckedReadableOneError` discharges this for `MaxErrors <= 1`, since
there is nothing to flush there unless a flush has failed before.

**`FuseShimProofs`.** `ListedServed`, `OkReached`, `TreeAgrees`, for any number of adders.
`Inv` has six parts: the maps agree (`Tables`); an entry is served, it is named for its
node, and that node's path is below its directory's, whose link count counts its entries
(`Listing`); where each call stands: the directories still missing are the prefixes between
the one found and the node, and the node being made is the call's own and listed nowhere
(`AddersOK`); every other node is listed, except one whose own call broke off (`Placed`);
what an answer promised; and the bound. For `OkReached`, `lookup` takes the first entry of a
name (`FirstEntry`); the node of a settled path is listed (`SettledListed`), in a directory of
the path above it, where `lookup` of its name gives a node of the same path (`NextName`); and
as the path above is settled too, that directory is the node the walk has come to. That the
walk gets from the root to the end of the path is shown by the least counterexample over the
names still to go (`OneReached`). `MessageTrue` (of `Mount` by itself) and
`MountMessageTrue` (of the mounted tree): the number the loop reads may be that of another
signal than the one whose flag it saw; what is invariant is that a set flag, and a handler
about to set it, have *some* arrived number before them, and that a handler that begins
leaves its own (`MountInv`).

**`StreamingProofs`.** `PublishedIsWhole`, `NoByteLost`, `AnswersAreInForce`: for any number
of threads, contents, chunk sizes, modes and ways of cutting the input. `Inductive` says what
a writer holds at each stage: ids nobody else uses and no store knows yet (`Fresh`), so that
inserting them changes nothing that is there (`BatchAdded`, `Keeps`); the chunks of what it
was fed (`Drained`, and `CutChunks` for those that cut at once, where only the first of
the chunks begins with the envelope); the same chunks in the stores, in the mode of the
filesystem, which cannot change meanwhile; then the entry (`EntryHolds`) and the log. What
decoding and correcting gives is `CorrectedIsExact`, whichever of the three kinds the
correction is. `Join` of chunk lists of any length is handled by the least counterexample
(`JoinExists`, `JoinParts`), and so is the decoder's loop. Assumed, beside sizes being
positive: the bytes written are not taken for the start of an envelope
(`ContentsAssumption`), and what callers ask for is a number (`CallsAssumption`).

`ReadersAreExact`, `DecodersAreExact`: a reader and a decoder hold an entry that was
published, whose chunks and corrections nobody changes (`ReaderHas`), and what each of the
three readers makes of such an entry is a lemma of its own (`ReadFileExact`: the last chunk
may be decoded too far, and the rest is what the size cuts off; `ReadRangeExact`: every chunk
at its own size; `ReadHolographicExact`: the slots are the chunks' sizes, `SlotIsSize`). The
size of an entry is the length of its content, or, when it is compressed, tells a file
compressed as a whole from one compressed chunk by chunk (`Measured`, `Sealed`). A decoder
that was positioned at a chunk boundary is in step with its chunks (`InStep`: the position is
where the chunk in hand begins plus what was taken of it, and what was handed out is the part
of the content from the start to the position); each of its operations keeps that
(`ReadByteKept`, `NextItemKept`, `SeekToKept`, `ReadNKept`), except `seek_to` into the middle
of a chunk, after which it is false (`MCSeekRead.cfg`), and `next` after a partial read, which
passes over the rest of the chunk.

**Only model-checked.** All liveness (`EveryCallReturns`, `WritersReturn`,
`SignalUnmounts`), which is out of the provers' reach; the refinement of `PathStore` and the
invariants of `Cli`, which are folds over manifests, and `QueryFindsBest` (`Hierarchy` has a
recursive search).

## 6. What is not modelled, and why

* The replacement of a range by one of another length: a `read_file` and a `write_file`
  one after the other.
* `read_range` of an entry with an offset index, chunk by chunk beside deltas that rewrite
  the chunks: `RangesExact` is what one caller gets between calls. (Without an index it is an
  action of `Streaming`, which has no deltas.) The constructors that build an index at once
  have no callers.
* A file written before `enable_holographic_mode` and edited or rewritten by `VersionedFS`
  after it: the mode is a constant there. `Streaming` has the switch.
* `extract_with_resonator`: it decodes like the hierarchical extraction, and what it fills in with the resonator
  is a chunk the codebook misses, of which `ChunksDisjoint` says there is none. Extraction into a
  directory that holds files already.
* `remove`, `gc` and `find_by_hash` of the chunk store and the transactions of
  the engram: nothing in the sources outside their tests calls them, so no use of theirs can
  be modelled. (`find_by_hash` takes its two locks in the opposite order to every writer.)
* The POSIX attributes of entries, statistics, progress and profiling: no control depends on
  them.
* Record formats of the journal (magic, checksum, operations): a cell parses or it
  does not. A batch is taken to fit the `BufWriter`'s buffer; a larger one can be partly in
  the file before any flush. Transaction ids of a second journal session, and one that does not
  recover first (it would overwrite records from offset 0).
* The directory-backed store of sub-engrams, whose loads can fail.
* Two commands of the command line at once: the code has no lock, and makes no promise.
* `../disk/`: parsing and third-party crates; printing and argument parsing of `../bin/`.
* The vector algebra is external: it is assumed that a chunk either survives its
  encoding or not, that a bundle keeps what it holds, and nothing about how similar two
  vectors are.

## 7. What could come next

1. Proofs: `ChunksDisjoint` of `Cli`, once `Hierarchy` is free of recursive operators.
2. The parts of section 6 that get callers.
3. A second journal session; two commands at once, should the command line get a lock.
