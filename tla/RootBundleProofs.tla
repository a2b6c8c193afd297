-------------------------- MODULE RootBundleProofs --------------------------
(***************************************************************************)
(* For every set of calls, every batch and every store: the retry loop of  *)
(* bundle_chunks_to_root loses no chunk, and implements the indivisible    *)
(* addition of RootSpec.                                                   *)
(***************************************************************************)
EXTENDS RootBundle, TLAPS

Inv == TypeOK /\ CopyIsCurrent /\ NoLostBundle

\* What a call adds to the root are chunk ids.
LEMMA ContributionType == ASSUME NEW b \in Bundlers
                          PROVE  Contribution(b) \subseteq ChunkIds
BY BatchAssumption, StoredAssumption DEF Contribution

\* The root, its version and each call's copy keep their types.
LEMMA TypeInductive == TypeOK /\ [Next]_vars => TypeOK'
<1> SUFFICES ASSUME TypeOK, [Next]_vars PROVE TypeOK'
  OBVIOUS
<1> USE DEF TypeOK
<1>1. CASE UNCHANGED vars
  BY <1>1 DEF vars
<1>2. ASSUME NEW b \in Bundlers, ReadRoot(b) PROVE TypeOK'
  BY <1>2 DEF ReadRoot
<1>3. ASSUME NEW b \in Bundlers, Build(b) PROVE TypeOK'
  BY <1>3, ContributionType DEF Build
<1>4. ASSUME NEW b \in Bundlers, Install(b) PROVE TypeOK'
  BY <1>4 DEF Install
<1>5. ASSUME NEW b \in Bundlers, Retry(b) PROVE TypeOK'
  BY <1>5 DEF Retry
<1> QED
  BY <1>1, <1>2, <1>3, <1>4, <1>5 DEF Next, Step

\* Installing moves the version past every copy that was read before it, so
\* no copy can pass for current after the root changed.
LEMMA CopyInductive == TypeOK /\ CopyIsCurrent /\ [Next]_vars => CopyIsCurrent'
<1> SUFFICES ASSUME TypeOK, CopyIsCurrent, [Next]_vars PROVE CopyIsCurrent'
  OBVIOUS
<1> USE DEF TypeOK, CopyIsCurrent
<1>1. CASE UNCHANGED vars
  BY <1>1 DEF vars, Contribution
<1>2. ASSUME NEW b \in Bundlers, ReadRoot(b) PROVE CopyIsCurrent'
  BY <1>2 DEF ReadRoot, Contribution
<1>3. ASSUME NEW b \in Bundlers, Build(b) PROVE CopyIsCurrent'
  BY <1>3 DEF Build, Contribution
<1>4. ASSUME NEW b \in Bundlers, Install(b) PROVE CopyIsCurrent'
  <2> SUFFICES ASSUME NEW c \in Bundlers
      PROVE /\ seenVersion'[c] <= rootVersion'
            /\ seenVersion'[c] # rootVersion'
    BY DEF Contribution
  <2> QED BY <1>4 DEF Install
<1>5. ASSUME NEW b \in Bundlers, Retry(b) PROVE CopyIsCurrent'
  BY <1>5 DEF Retry, Contribution
<1> QED
  BY <1>1, <1>2, <1>3, <1>4, <1>5 DEF Next, Step

\* Only Install changes the root or the set of finished calls, and it adds
\* the same batch to both sides of NoLostBundle.
LEMMA NoLostInductive ==
  TypeOK /\ CopyIsCurrent /\ NoLostBundle /\ [Next]_vars => NoLostBundle'
<1> SUFFICES ASSUME TypeOK, CopyIsCurrent, NoLostBundle, [Next]_vars
             PROVE  NoLostBundle'
  OBVIOUS
<1> USE DEF TypeOK, NoLostBundle
<1>1. ASSUME UNCHANGED root, finished' = finished PROVE NoLostBundle'
  BY <1>1 DEF Contribution
<1>2. CASE UNCHANGED vars
  BY <1>1, <1>2 DEF vars, finished
<1>3. ASSUME NEW b \in Bundlers, ReadRoot(b) PROVE NoLostBundle'
  <2>1. finished' = finished
    BY <1>3 DEF ReadRoot, finished
  <2> QED BY <1>1, <1>3, <2>1 DEF ReadRoot
<1>4. ASSUME NEW b \in Bundlers, Build(b) PROVE NoLostBundle'
  <2>1. finished' = finished
    BY <1>4 DEF Build, finished
  <2> QED BY <1>1, <1>4, <2>1 DEF Build
<1>5. ASSUME NEW b \in Bundlers, Retry(b) PROVE NoLostBundle'
  <2>1. finished' = finished
    BY <1>5 DEF Retry, finished
  <2> QED BY <1>1, <1>5, <2>1 DEF Retry
<1>6. ASSUME NEW b \in Bundlers, Install(b) PROVE NoLostBundle'
  <2>1. finished' = finished \cup {b}
    BY <1>6 DEF Install, finished
  <2>2. root' = root \cup Contribution(b)
    BY <1>6 DEF Install, CopyIsCurrent
  <2> QED BY <2>1, <2>2 DEF Contribution
<1> QED
  BY <1>2, <1>3, <1>4, <1>5, <1>6 DEF Next, Step

\* The initial state satisfies the invariant.
LEMMA InvInit == Init => Inv
BY InitRootAssumption DEF Init, Inv, TypeOK, CopyIsCurrent, NoLostBundle, finished

\* Every reachable state has the types, current copies and no lost batch.
THEOREM Invariance == Spec => []Inv
<1>1. Inv /\ [Next]_vars => Inv'
  BY TypeInductive, CopyInductive, NoLostInductive DEF Inv
<1> QED
  BY <1>1, InvInit, PTL DEF Spec

\* The state of bundle_chunks_to_root is always well formed.
THEOREM TypeCorrect == Spec => []TypeOK
BY Invariance, PTL DEF Inv

\* A copy whose version is still current is the root it was taken from, so the
\* compare-and-swap of bundle_chunks_to_root installs on top of every earlier
\* bundle.
THEOREM CopiesCurrent == Spec => []CopyIsCurrent
BY Invariance, PTL DEF Inv

\* The batch of every call that returned is in the root, for any number of
\* concurrent writers and any interleaving of their retries.
THEOREM NothingLost == Spec => []NoLostBundle
BY Invariance, PTL DEF Inv

\* Every step of the loop is an indivisible addition of the abstract root, or
\* invisible to it; only Install is visible.
LEMMA StepRefines ==
  ASSUME TypeOK, CopyIsCurrent, [Next]_vars
  PROVE  [Abstract!Next]_<<root, finished>>
<1> USE DEF TypeOK
<1>1. CASE UNCHANGED vars
  BY <1>1 DEF vars, finished
<1>2. ASSUME NEW b \in Bundlers, ReadRoot(b) \/ Build(b) \/ Retry(b)
      PROVE  UNCHANGED <<root, finished>>
  BY <1>2 DEF ReadRoot, Build, Retry, finished
<1>3. ASSUME NEW b \in Bundlers, Install(b) PROVE Abstract!AddBatch(b)
  <2>1. b \notin finished /\ finished' = finished \cup {b}
    BY <1>3 DEF Install, finished
  <2>2. root' = root \cup Contribution(b)
    BY <1>3 DEF Install, CopyIsCurrent
  <2> QED BY <2>1, <2>2 DEF Abstract!AddBatch, Abstract!Contribution, Contribution
<1> QED
  BY <1>1, <1>2, <1>3 DEF Next, Step, Abstract!Next

\* The retry loop, for every set of calls and batches, implements the
\* specification in which each call adds its batch in one step.
THEOREM Refinement == Spec => ImplementsAtomicBundle
<1>1. Init => Abstract!Init
  BY DEF Init, Abstract!Init, finished
<1>2. Inv /\ [Next]_vars => [Abstract!Next]_<<root, finished>>
  BY StepRefines DEF Inv
<1> QED
  BY <1>1, <1>2, Invariance, PTL
  DEF Spec, ImplementsAtomicBundle, Abstract!Spec, Abstract!vars
=============================================================================
