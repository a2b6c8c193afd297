------------------------------- MODULE EmbrFS -------------------------------
(***************************************************************************)
(* EmbrFS (embrfs.rs), the single-threaded filesystem, as operators on its *)
(* value.  A content is its sequence of chunks; a chunk is encoded into a  *)
(* vector that decodes exactly, or nearly, or not at all, and a correction *)
(* stored under the chunk's id makes up the difference.  The codebook maps *)
(* an id to the chunk its vector encodes.                                  *)
(***************************************************************************)
EXTENDS Naturals, Sequences, SequencesExt, FiniteSets, TLC

CONSTANTS
  Paths,        \* a path is a sequence of names
  Contents,     \* contents a source file can have
  Exact,        \* chunks whose vector decodes to themselves
  Verbatim,     \* chunks whose approximation differs in most bytes
  Unreadable,   \* a source file that cannot be opened or read
  Absent

Garbage == <<"garbage">>   \* what a vector decodes to with another decoder, or at another length

EmptyEngram == [codebook |-> <<>>, corrections |-> <<>>]

\* new_holographic and new: the manifest says which encoder and, with it, which
\* chunk size the store was made with
NewFS(holographic) ==
  [engram |-> EmptyEngram,
   manifest |-> [files |-> <<>>, total |-> 0, holographic |-> holographic]]

-----------------------------------------------------------------------------
(* Encoding and correction. *)

\* encode and decode: `own` says whether the decoder and the chunk size are
\* those the chunk was encoded with.
Decoded(chunk, own) ==
  IF ~own THEN Garbage ELSE IF chunk \in Exact THEN chunk ELSE <<"near", chunk>>

\* Mutant: no correction is computed.
CorrectionNone(chunk) == [kind |-> "none", original |-> chunk]

\* ChunkCorrection::new, compute_correction
Correction(chunk) ==
  [kind |-> IF chunk \in Exact THEN "none"
            ELSE IF chunk \in Verbatim THEN "verbatim" ELSE "flips",
   original |-> chunk]

\* ChunkCorrection::apply: what the stored difference makes of the data
Patched(correction, data) ==
  CASE correction.kind = "none" -> data
    [] correction.kind = "verbatim" -> correction.original
    [] OTHER -> IF data = <<"near", correction.original>> THEN correction.original
                ELSE Garbage

\* CorrectionStore::apply verifies the hash of the result; a reader that gets
\* nothing from it goes on with the data it has.
Corrected(corrections, id, data) ==
  IF /\ id \in DOMAIN corrections
     /\ Patched(corrections[id], data) = corrections[id].original
  THEN corrections[id].original
  ELSE data

Truncated(data, size) == SubSeq(data, 1, IF Len(data) < size THEN Len(data) ELSE size)

\* The data of a file: chunks the codebook does not have are skipped, what
\* exceeds the size is cut off.
Reconstructed(engram, file, own) ==
  LET here == SelectSeq(file.chunks, LAMBDA id : id \in DOMAIN engram.codebook)
      data == [i \in 1..Len(here) |->
                 Corrected(engram.corrections, here[i], Decoded(engram.codebook[here[i]], own))]
  IN Truncated(data, file.size)

-----------------------------------------------------------------------------
(* Writing. *)

Live(manifest, p) ==
  {i \in DOMAIN manifest.files : manifest.files[i].path = p /\ ~manifest.files[i].deleted}

\* Mutant: total_chunks is not advanced.
StoredUncounted(fs, path, data, size) ==
  LET base == fs.manifest.total
      new == base .. (base + Len(data) - 1)
  IN [engram |-> [codebook |-> [id \in new |-> data[id - base + 1]] @@ fs.engram.codebook,
                  corrections |-> [id \in new |-> Correction(data[id - base + 1])]
                                    @@ fs.engram.corrections],
      manifest |-> [fs.manifest EXCEPT
                      !.files = Append(@, [path |-> path, size |-> size, deleted |-> FALSE,
                                           chunks |-> [i \in 1..Len(data) |-> base + i - 1]])]]

\* Encode data chunk by chunk under the next free ids and list the file.
Stored(fs, path, data, size) ==
  LET base == fs.manifest.total
      new == base .. (base + Len(data) - 1)
  IN [engram |-> [codebook |-> [id \in new |-> data[id - base + 1]] @@ fs.engram.codebook,
                  corrections |-> [id \in new |-> Correction(data[id - base + 1])]
                                    @@ fs.engram.corrections],
      manifest |-> [fs.manifest EXCEPT
                      !.files = Append(@, [path |-> path, size |-> size, deleted |-> FALSE,
                                           chunks |-> [i \in 1..Len(data) |-> base + i - 1]]),
                      !.total = base + Len(data)]]

Ok(fs) == [ok |-> TRUE, fs |-> fs]
Err(fs) == [ok |-> FALSE, fs |-> fs]

\* ingest_file: no look at what the manifest already lists
IngestFile(fs, path, source) ==
  IF source = Unreadable THEN Err(fs) ELSE Ok(Stored(fs, path, source, Len(source)))

\* The files of a directory, or the inputs of a command, one after another; the
\* first error ends it and leaves the files before it ingested.
IngestAll(fs, inputs) ==
  FoldLeft(LAMBDA done, in : IF done.ok THEN IngestFile(done.fs, in.path, in.source) ELSE done,
           Ok(fs), inputs)

AddFile(fs, path, source) ==
  IF Live(fs.manifest, path) # {} THEN Err(fs) ELSE IngestFile(fs, path, source)

First(S) == CHOOSE i \in S : \A j \in S : i <= j
Newest(S) == CHOOSE i \in S : \A j \in S : i >= j

\* remove_file marks the first live entry of the path
RemoveFile(fs, path) ==
  LET live == Live(fs.manifest, path)
  IN IF live = {} THEN Err(fs)
     ELSE Ok([fs EXCEPT !.manifest.files[First(live)].deleted = TRUE])

\* modify_file: when the new source cannot be read, the old version is already
\* removed
ModifyFile(fs, path, source) ==
  LET removed == RemoveFile(fs, path)
  IN IF removed.ok THEN IngestFile(removed.fs, path, source) ELSE removed

\* Mutant: compaction brings removed files back.
CompactAll(fs) ==
  FoldLeft(LAMBDA new, f : Stored(new, f.path, Reconstructed(fs.engram, f, TRUE), f.size),
           NewFS(fs.manifest.holographic), fs.manifest.files)

\* compact: decode what is live and store it again under ids from 0
Compact(fs) ==
  LET live == SelectSeq(fs.manifest.files, LAMBDA f : ~f.deleted)
  IN FoldLeft(LAMBDA new, f : Stored(new, f.path, Reconstructed(fs.engram, f, TRUE), f.size),
              NewFS(fs.manifest.holographic), live)

-----------------------------------------------------------------------------
(* Reading. *)

\* What the store keeps for each path: of the live entries the newest, which is
\* written over the others.
Latest(fs) ==
  [p \in Paths |->
     LET live == Live(fs.manifest, p)
     IN IF live = {} THEN Absent
        ELSE Reconstructed(fs.engram, fs.manifest.files[Newest(live)], TRUE)]

\* create_dir_all fails where a directory above the file is itself a file,
\* fs::write where the file is already a directory.
Obstructed(tree, p) ==
  \E o \in Paths : tree[o] # Absent /\ (IsStrictPrefix(o, p) \/ IsStrictPrefix(p, o))

\* Live entries are written into an empty directory in the order of the manifest,
\* decoded by their own decoder or by the other; the first error ends it and leaves
\* the files before it.
Written(fs, own) ==
  FoldLeft(LAMBDA out, f :
             IF ~out.ok \/ f.deleted THEN out
             ELSE IF Obstructed(out.tree, f.path) THEN [out EXCEPT !.ok = FALSE]
             ELSE [out EXCEPT !.tree[f.path] = Reconstructed(fs.engram, f, own)],
           [ok |-> TRUE, tree |-> [p \in Paths |-> Absent]], fs.manifest.files)

Extract(fs) == Written(fs, TRUE)

\* extract_hierarchically decodes every store the way only a legacy one was encoded.
ExtractHierarchically(fs) == Written(fs, ~fs.manifest.holographic)
=============================================================================
