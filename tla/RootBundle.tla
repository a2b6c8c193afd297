----------------------------- MODULE RootBundle -----------------------------
(***************************************************************************)
(* VersionedEmbrFS::bundle_chunks_to_root: the retry loop that superposes  *)
(* the chunks of one write onto the shared root.  A call reads the root    *)
(* and its version under one read lock, builds the new root without any    *)
(* lock, and installs it under the write lock only if the version did not  *)
(* move; otherwise it starts again, as often as it takes.                  *)
(*                                                                         *)
(* Abstraction: a root vector is the set of ids bundled into it.  The      *)
(* bundle operation of the vector library is taken to be the union of such *)
(* sets: what a bundle adds, later bundles keep.                           *)
(***************************************************************************)
EXTENDS Naturals

CONSTANTS
  Bundlers,   \* the calls, each made by a thread of its own
  ChunkIds,
  Batch,      \* Batch[b]: the ids call b was given
  Stored,     \* the ids that chunk_store.get finds; the others are skipped
  InitRoot

ASSUME BatchAssumption == Batch \in [Bundlers -> SUBSET ChunkIds]
ASSUME StoredAssumption == Stored \subseteq ChunkIds
ASSUME InitRootAssumption == InitRoot \subseteq ChunkIds

VARIABLES
  root,         \* contents of the root RwLock
  rootVersion,  \* the AtomicU64 beside it
  pc,
  seenRoot,     \* current_root, then new_root, of each call
  seenVersion   \* current_version of each call

vars == <<root, rootVersion, pc, seenRoot, seenVersion>>

Contribution(b) == Batch[b] \cap Stored

Init ==
  /\ root = InitRoot
  /\ rootVersion = 0
  /\ pc = [b \in Bundlers |-> "read"]
  /\ seenRoot = [b \in Bundlers |-> {}]
  /\ seenVersion = [b \in Bundlers |-> 0]

\* The root and its version, read under the same read lock.
ReadRoot(b) ==
  /\ pc[b] = "read"
  /\ seenRoot' = [seenRoot EXCEPT ![b] = root]
  /\ seenVersion' = [seenVersion EXCEPT ![b] = rootVersion]
  /\ pc' = [pc EXCEPT ![b] = "build"]
  /\ UNCHANGED <<root, rootVersion>>

\* Mutant of Build: the batch replaces the copy instead of joining it.
BuildAfresh(b) ==
  /\ pc[b] = "build"
  /\ seenRoot' = [seenRoot EXCEPT ![b] = Contribution(b)]
  /\ pc' = [pc EXCEPT ![b] = "install"]
  /\ UNCHANGED <<root, rootVersion, seenVersion>>

\* The copy is extended with no lock held.
Build(b) ==
  /\ pc[b] = "build"
  /\ seenRoot' = [seenRoot EXCEPT ![b] = @ \cup Contribution(b)]
  /\ pc' = [pc EXCEPT ![b] = "install"]
  /\ UNCHANGED <<root, rootVersion, seenVersion>>

\* Mutants of Install: without the version check, and without the increment.
InstallBlindly(b) ==
  /\ pc[b] = "install"
  /\ root' = seenRoot[b]
  /\ rootVersion' = rootVersion + 1
  /\ pc' = [pc EXCEPT ![b] = "done"]
  /\ UNCHANGED <<seenRoot, seenVersion>>

InstallSilently(b) ==
  /\ pc[b] = "install"
  /\ rootVersion = seenVersion[b]
  /\ root' = seenRoot[b]
  /\ pc' = [pc EXCEPT ![b] = "done"]
  /\ UNCHANGED <<rootVersion, seenRoot, seenVersion>>

\* Under the write lock: the version is still the one read.
Install(b) ==
  /\ pc[b] = "install"
  /\ rootVersion = seenVersion[b]
  /\ root' = seenRoot[b]
  /\ rootVersion' = rootVersion + 1
  /\ pc' = [pc EXCEPT ![b] = "done"]
  /\ UNCHANGED <<seenRoot, seenVersion>>

\* Mutants of Retry: with the old copy, and giving up.
RetryInstall(b) ==
  /\ pc[b] = "install"
  /\ rootVersion # seenVersion[b]
  /\ UNCHANGED vars

RetryNever(b) ==
  /\ pc[b] = "install"
  /\ rootVersion # seenVersion[b]
  /\ pc' = [pc EXCEPT ![b] = "failed"]
  /\ UNCHANGED <<root, rootVersion, seenRoot, seenVersion>>

\* Under the write lock: another call came first; yield and start again.
Retry(b) ==
  /\ pc[b] = "install"
  /\ rootVersion # seenVersion[b]
  /\ pc' = [pc EXCEPT ![b] = "read"]
  /\ UNCHANGED <<root, rootVersion, seenRoot, seenVersion>>

Step(b) == ReadRoot(b) \/ Build(b) \/ Install(b) \/ Retry(b)

Next == \E b \in Bundlers : Step(b)

Spec == Init /\ [][Next]_vars

\* The loop has no wait in it: a call whose thread runs takes its next step.
FairSpec == Spec /\ \A b \in Bundlers : WF_vars(Step(b))
-----------------------------------------------------------------------------
finished == {b \in Bundlers : pc[b] = "done"}

TypeOK ==
  /\ root \subseteq ChunkIds
  /\ rootVersion \in Nat
  /\ pc \in [Bundlers -> {"read", "build", "install", "done"}]
  /\ seenRoot \in [Bundlers -> SUBSET ChunkIds]
  /\ seenVersion \in [Bundlers -> Nat]

\* What a call holds is never newer than the root, and while its version is
\* current its copy is the root itself, extended by its own batch once built.
CopyIsCurrent ==
  \A b \in Bundlers :
    /\ seenVersion[b] <= rootVersion
    /\ pc[b] = "build" /\ seenVersion[b] = rootVersion => seenRoot[b] = root
    /\ pc[b] = "install" /\ seenVersion[b] = rootVersion
         => seenRoot[b] = root \cup Contribution(b)

\* The root holds what it held at the start and the batch of every call that
\* returned, and nothing of a call that is still running: the loop of
\* bundle_chunks_to_root loses no concurrent writer's chunks.
NoLostBundle ==
  root = InitRoot \cup UNION {Contribution(b) : b \in finished}

\* Each call returns, however the others interleave: a failed install means
\* that another call returned, and there are finitely many of them.
EveryCallReturns == <>(finished = Bundlers)

\* The loop implements the indivisible addition of RootSpec.
Abstract == INSTANCE RootSpec
ImplementsAtomicBundle == Abstract!Spec
=============================================================================
