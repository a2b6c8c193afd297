-------------------------------- MODULE Cli ---------------------------------
(***************************************************************************)
(* The command line over EmbrFS: every command is a process that loads the *)
(* engram file and the manifest file, calls the filesystem once and writes *)
(* the files back, the engram first.  One command runs at a time; it can   *)
(* die between and inside the two writes.                                  *)
(*                                                                         *)
(* Each file carries, as history, the generation it belongs to: the ingest *)
(* it comes from and the number of compactions since.                      *)
(***************************************************************************)
EXTENDS Hierarchy

CONSTANTS
  Broken,      \* a file whose write was cut off: loading it fails
  Inputs,      \* what an ingest command can be given: sequences of [path, source]
  Modes,       \* holographic or legacy: the values of the flag ingest can start with
  Queries,     \* what a user can ask for
  Bounds,      \* HierarchicalQueryBounds
  ShardSizes,  \* max_chunks_per_node, 0 for none
  MaxEpochs,   \* bound: ingest commands
  MaxCompacts, \* bound: compactions
  MaxEntries   \* bound: entries of a manifest

VARIABLES
  engramFile,    \* Absent, Broken or [data, gen]
  manifestFile,
  proc,          \* the running command: pc, what it writes, and its call
  answer,        \* the call of the command that has just returned Ok
  epochs,        \* ghost: ingest commands started
  kept           \* ghost: what the files held when last they belonged together

vars == <<engramFile, manifestFile, proc, answer, epochs, kept>>

NoCall == [op |-> "none", path |-> Absent, source |-> <<>>]
Call(op, path, source) == [op |-> op, path |-> path, source |-> source]
NoProc == [pc |-> "idle"]
NoAnswer == [call |-> NoCall, ok |-> FALSE]

Readable(file) == file \notin {Absent, Broken}
Loadable == Readable(engramFile) /\ Readable(manifestFile)

\* EmbrFS::load
Loaded == [engram |-> engramFile.data, manifest |-> manifestFile.data]

Torn ==
  /\ ~(engramFile = Absent /\ manifestFile = Absent)
  /\ ~(Loadable /\ engramFile.gen = manifestFile.gen)

OnDisk == IF Loadable THEN Latest(Loaded) ELSE [p \in Paths |-> Absent]

\* Follows every change of the files.
Remember ==
  kept' = IF Torn' THEN kept
          ELSE [tree |-> OnDisk', epoch |-> IF Readable(manifestFile)' THEN manifestFile.gen[1]' ELSE 0]

Init ==
  /\ engramFile = Absent /\ manifestFile = Absent
  /\ proc = NoProc /\ answer = NoAnswer /\ epochs = 0
  /\ kept = [tree |-> [p \in Paths |-> Absent], epoch |-> 0]

-----------------------------------------------------------------------------
\* An error ends the command before it has written anything.
Failed ==
  /\ answer' = NoAnswer /\ proc' = NoProc
  /\ UNCHANGED <<engramFile, manifestFile, kept>>

\* The command's call has been made: its result is to be saved.
Save(call, result, engramGen, manifestGen, pc) ==
  IF result.ok
  THEN /\ proc' = [pc |-> pc, call |-> call, fs |-> result.fs,
                   engramGen |-> engramGen, manifestGen |-> manifestGen]
       /\ answer' = NoAnswer
       /\ UNCHANGED <<engramFile, manifestFile, kept>>
  ELSE Failed

Ingest ==
  /\ proc = NoProc /\ epochs < MaxEpochs
  /\ epochs' = epochs + 1
  /\ \E inputs \in Inputs, mode \in Modes :
       Save(Call("ingest", Absent, inputs), IngestAll(NewFS(mode), inputs),
            <<epochs + 1, 0>>, <<epochs + 1, 0>>, "engram")

\* The commands that work on a loaded store.
Update(call, result, pc) ==
  /\ proc = NoProc
  /\ IF Loadable THEN Save(call, result, engramFile.gen, manifestFile.gen, pc)
                 ELSE Failed
  /\ UNCHANGED epochs

Room == Loadable => Len(manifestFile.data.files) < MaxEntries

Add == Room /\ \E p \in Paths, s \in Contents \cup {Unreadable} :
  Update(Call("add", p, s), AddFile(Loaded, p, s), "engram")

\* remove saves only the manifest.
RemoveOne == \E p \in Paths : Update(Call("remove", p, <<>>), RemoveFile(Loaded, p), "manifest")

Modify == Room /\ \E p \in Paths, s \in Contents \cup {Unreadable} :
  Update(Call("modify", p, s), ModifyFile(Loaded, p, s), "engram")

CompactStore ==
  /\ proc = NoProc
  /\ Loadable
  /\ engramFile.gen[2] < MaxCompacts /\ manifestFile.gen[2] < MaxCompacts
  /\ Save(Call("compact", Absent, <<>>), Ok(Compact(Loaded)),
          [engramFile.gen EXCEPT ![2] = @ + 1], [manifestFile.gen EXCEPT ![2] = @ + 1], "engram")
  /\ UNCHANGED epochs

\* save_engram: fs::write
SaveEngram ==
  /\ proc.pc = "engram"
  /\ engramFile' = [data |-> proc.fs.engram, gen |-> proc.engramGen]
  /\ proc' = [proc EXCEPT !.pc = "manifest"]
  /\ UNCHANGED <<manifestFile, answer, epochs>>
  /\ Remember

\* save_manifest, and the command returns Ok.
SaveManifest ==
  /\ proc.pc = "manifest"
  /\ manifestFile' = [data |-> proc.fs.manifest, gen |-> proc.manifestGen]
  /\ answer' = [call |-> proc.call, ok |-> TRUE]
  /\ proc' = NoProc
  /\ UNCHANGED <<engramFile, epochs>>
  /\ Remember

\* The process dies between two writes, or in one of them: both truncate the
\* file first.
Crash ==
  /\ proc # NoProc
  /\ proc' = NoProc /\ answer' = NoAnswer
  /\ engramFile' \in IF proc.pc = "engram" THEN {engramFile, Broken} ELSE {engramFile}
  /\ manifestFile' \in IF proc.pc = "manifest" THEN {manifestFile, Broken} ELSE {manifestFile}
  /\ UNCHANGED epochs
  /\ Remember

Next ==
  \/ Ingest \/ Add \/ RemoveOne \/ Modify \/ CompactStore
  \/ SaveEngram \/ SaveManifest \/ Crash

Spec == Init /\ [][Next]_vars

-----------------------------------------------------------------------------
(* Commands that only read: extract is Extract of EmbrFS, list and info look at *)
(* the manifest.  They leave the files as they are and need no action.          *)

\* verify decodes every live file like extract_hierarchically.  It reports chunks
\* that are missing and data of another length, but compares no byte.
VerifyAnswer(fs) ==
  \A i \in DOMAIN fs.manifest.files :
    LET f == fs.manifest.files[i]
    IN f.deleted \/ /\ \A k \in DOMAIN f.chunks : f.chunks[k] \in DOMAIN fs.engram.codebook
                    /\ Len(Reconstructed(fs.engram, f, ~fs.manifest.holographic)) = f.size

-----------------------------------------------------------------------------
\* The types: files are absent, broken or a generation; a manifest's ids are
\* below its counter.
TypeOK ==
  /\ proc.pc \in {"idle", "engram", "manifest"}
  /\ epochs \in 0..MaxEpochs
  /\ kept.tree \in [Paths -> Contents \cup {Absent}]
  /\ Readable(manifestFile) =>
       /\ \A i \in DOMAIN manifestFile.data.files :
            /\ manifestFile.data.files[i].path \in Paths
            /\ ToSet(manifestFile.data.files[i].chunks) \subseteq 0..(manifestFile.data.total - 1)
       /\ manifestFile.gen[1] \in 1..MaxEpochs
  /\ Readable(engramFile) => DOMAIN engramFile.data.codebook = DOMAIN engramFile.data.corrections

\* Whatever commands ran and died, the files on the disk are an atomic map from
\* paths to contents (PathStore): a command that adds, modifies or removes one
\* file changes that path at its last write and nothing before it, a compaction
\* changes nothing, and only a command that rewrites both files, or a write cut
\* off in the middle, leaves a torn pair.
Files == INSTANCE PathStore WITH tree <- kept.tree, torn <- Torn, epoch <- kept.epoch
ImplementsPathStore == Files!Spec

\* No file of the store is where another one needs a directory.
Treelike ==
  \A f, g \in ToSet(manifestFile.data.files) :
    f.deleted \/ g.deleted \/ ~IsStrictPrefix(f.path, g.path)

\* A command that answered Ok did what it says: the file added or modified is
\* extracted with its new content, everything ingested is, and the extraction
\* ends without an error.  Not covered are a pair that is torn when the command
\* loads it, and stores with a file below a file, which add_file accepts.
AckedVisible ==
  (answer.ok /\ proc = NoProc /\ ~Torn /\ Treelike) =>
    LET out == Extract(Loaded)
        args == answer.call.source
    IN /\ out.ok
       /\ answer.call.op \in {"add", "modify"} => out.tree[answer.call.path] = args
       /\ answer.call.op = "ingest" =>
            \A i \in DOMAIN args :
              (\A j \in DOMAIN args : j > i => args[j].path # args[i].path)
                => out.tree[args[i].path] = args[i].source

\* "Guaranteed reconstruction": what the store keeps for its paths is what
\* extract leaves in the output directory.
ExtractsAll ==
  (proc = NoProc /\ Loadable /\ ~Torn) => Extract(Loaded).tree = Latest(Loaded)

\* Two entries of a manifest never share a chunk id, and the codebook has every id
\* of every entry, deleted ones included: a reader never skips a chunk, and the
\* ids an interrupted add left in the codebook are taken over by the next one.
ChunksDisjoint ==
  TypeOK /\ (Loadable /\ ~Torn =>
    \A i, j \in DOMAIN manifestFile.data.files :
      LET c == manifestFile.data.files[i].chunks
          d == manifestFile.data.files[j].chunks
      IN /\ ToSet(c) \subseteq DOMAIN engramFile.data.codebook
         /\ i # j => ToSet(c) \cap ToSet(d) = {})

\* A hierarchical query whose bounds cut nothing off returns the best chunks there
\* are: k of them, or all, and none that is left out is better than one returned,
\* whatever the shards, the order of expansion and the sizes of the caches.
Wide(b, n) == b.beamWidth >= n /\ b.maxExpansions >= n /\ b.maxDepth >= n /\ b.candidateK >= n

QueryFindsBest ==
  (proc = NoProc /\ Loadable /\ ~Torn) =>
    \A b \in Bounds, m \in ShardSizes, q \in Queries :
      LET h == BundleHierarchically(Loaded, m)
          codebook == Loaded.engram.codebook
          listed == UNION {ToSet(f.chunks) : f \in ToSet(Loaded.manifest.files)}
          got == Query(h, codebook, q, b)
      IN /\ got.hits \subseteq listed /\ Len(got.indices) <= b.maxIndices
         /\ (Wide(b, Cardinality(DOMAIN h.subs)) /\ b.maxIndices > 0) =>
              /\ Cardinality(got.hits) = Smaller(b.k, Cardinality(listed))
              /\ \A id \in got.hits, other \in listed \ got.hits :
                   ChunkCosine(q, codebook[id]) >= ChunkCosine(q, codebook[other])

\* "we just inserted the key, so get() must succeed": no query ends in a panic.
QueryNeverPanics ==
  (proc = NoProc /\ Loadable /\ ~Torn) =>
    \A b \in Bounds, q \in Queries :
      ~Query(BundleHierarchically(Loaded, 0), Loaded.engram.codebook, q, b).panic

\* "File won't appear in future extractions": after remove returned Ok the path is
\* not extracted.
RemovedIsGone ==
  (answer.ok /\ answer.call.op = "remove" /\ proc = NoProc /\ ~Torn)
    => Extract(Loaded).tree[answer.call.path] = Absent

\* "Tests that all files can be correctly decoded from the engram": what verify
\* decoded and reported correct is the files' content.
VerifiedIsDecoded ==
  (Loadable /\ VerifyAnswer(Loaded)) => ExtractHierarchically(Loaded) = Extract(Loaded)
=============================================================================
