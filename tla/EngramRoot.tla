----------------------------- MODULE EngramRoot -----------------------------
(***************************************************************************)
(* VersionedEngram::bundle_chunk: the bounded retry loop of the stand-alone*)
(* versioned engram.  Unlike bundle_chunks_to_root it takes the root       *)
(* vector (root()) and the version (root_version()) in two separate reads, *)
(* and it gives up after MaxRetries failed compare-and-swaps.              *)
(*                                                                         *)
(* A root vector is the set of chunks bundled into it, as in RootBundle.   *)
(***************************************************************************)
EXTENDS Naturals

CONSTANTS
  Threads,    \* each makes one call
  Chunk,      \* Chunk[t]: the chunk vector thread t bundles
  MaxRetries  \* MAX_RETRIES: 10 in the code

ASSUME MaxRetriesAssumption == MaxRetries \in Nat \ {0}

VARIABLES
  root,
  rootVersion,
  pc,
  seenRoot,     \* current_root of each call
  seenVersion,  \* current_version of each call
  attempt,      \* the loop counter of each call
  startVersion  \* history: the root version when the call began

vars == <<root, rootVersion, pc, seenRoot, seenVersion, attempt, startVersion>>

Init ==
  /\ root = {}
  /\ rootVersion = 0
  /\ pc = [t \in Threads |-> "call"]
  /\ seenRoot = [t \in Threads |-> {}]
  /\ seenVersion = [t \in Threads |-> 0]
  /\ attempt = [t \in Threads |-> 0]
  /\ startVersion = [t \in Threads |-> 0]

\* root(): the vector alone, under the read lock.  The first iteration starts
\* the call; the later ones come from a failed attempt.
ReadRoot(t) ==
  /\ pc[t] \in {"call", "again"}
  /\ seenRoot' = [seenRoot EXCEPT ![t] = root]
  /\ startVersion' = [startVersion EXCEPT ![t] = IF pc[t] = "call" THEN rootVersion ELSE @]
  /\ pc' = [pc EXCEPT ![t] = "version"]
  /\ UNCHANGED <<root, rootVersion, seenVersion, attempt>>

\* root_version(): the atomic alone, with no lock held since root().
ReadVersion(t) ==
  /\ pc[t] = "version"
  /\ seenVersion' = [seenVersion EXCEPT ![t] = rootVersion]
  /\ pc' = [pc EXCEPT ![t] = "install"]
  /\ UNCHANGED <<root, rootVersion, seenRoot, attempt, startVersion>>

\* update_root under the write lock, the version being the expected one.
Install(t) ==
  /\ pc[t] = "install"
  /\ rootVersion = seenVersion[t]
  /\ root' = seenRoot[t] \cup {Chunk[t]}
  /\ rootVersion' = rootVersion + 1
  /\ pc' = [pc EXCEPT ![t] = "ok"]
  /\ UNCHANGED <<seenRoot, seenVersion, attempt, startVersion>>

\* Mutants of Refused: one try too few, and a retry that neither counts nor
\* reads again.
RefusedEarly(t) ==
  /\ pc[t] = "install"
  /\ rootVersion # seenVersion[t]
  /\ attempt' = [attempt EXCEPT ![t] = @ + 1]
  /\ pc' = [pc EXCEPT ![t] = IF attempt[t] + 2 < MaxRetries THEN "again" ELSE "failed"]
  /\ UNCHANGED <<root, rootVersion, seenRoot, seenVersion, startVersion>>

RefusedSpins(t) ==
  /\ pc[t] = "install"
  /\ rootVersion # seenVersion[t]
  /\ UNCHANGED vars

\* update_root refused: back off and try again, or report after the last try.
Refused(t) ==
  /\ pc[t] = "install"
  /\ rootVersion # seenVersion[t]
  /\ attempt' = [attempt EXCEPT ![t] = @ + 1]
  /\ pc' = [pc EXCEPT ![t] = IF attempt[t] < MaxRetries - 1 THEN "again" ELSE "failed"]
  /\ UNCHANGED <<root, rootVersion, seenRoot, seenVersion, startVersion>>

Step(t) == ReadRoot(t) \/ ReadVersion(t) \/ Install(t) \/ Refused(t)

Next == \E t \in Threads : Step(t)

Spec == Init /\ [][Next]_vars

FairSpec == Spec /\ \A t \in Threads : WF_vars(Step(t))
-----------------------------------------------------------------------------
TypeOK ==
  /\ root \subseteq {Chunk[t] : t \in Threads}
  /\ rootVersion \in Nat
  /\ pc \in [Threads -> {"call", "version", "install", "again", "ok", "failed"}]
  /\ seenRoot \in [Threads -> SUBSET {Chunk[t] : t \in Threads}]
  /\ seenVersion \in [Threads -> Nat]
  /\ attempt \in [Threads -> 0..MaxRetries]
  /\ startVersion \in [Threads -> Nat]

\* "Failed to bundle chunk after 10 attempts" is reported only to a caller
\* that was overtaken in every attempt: at least MaxRetries other bundles
\* succeeded between its first read and its answer.
FailureNeedsContention ==
  \A t \in Threads :
    pc[t] = "failed" => rootVersion >= startVersion[t] + MaxRetries

\* Every call answers, with success or with the error.
EveryCallReturns == <>(\A t \in Threads : pc[t] \in {"ok", "failed"})

\* What the documentation of bundle_chunk promises of its optimistic lock:
\* the chunk of every call that answered Ok is superposed in the root.
NoLostBundle == \A t \in Threads : pc[t] = "ok" => Chunk[t] \in root
=============================================================================
