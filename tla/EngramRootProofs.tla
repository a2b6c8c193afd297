-------------------------- MODULE EngramRootProofs --------------------------
(***************************************************************************)
(* For any number of threads and any retry limit, bundle_chunk reports a   *)
(* failure only under real contention.  The argument: each failed attempt  *)
(* of a call is one bundle of another call, so the root version is ahead   *)
(* of the version the call began at by at least its count of attempts.     *)
(***************************************************************************)
EXTENDS EngramRoot, TLAPS

\* What each stage of a call knows of the root version.
Overtaken(t) ==
  /\ pc[t] = "call" => attempt[t] = 0
  /\ pc[t] # "call" => rootVersion >= startVersion[t] + attempt[t]
  /\ pc[t] = "install" =>
       rootVersion >= seenVersion[t] /\ seenVersion[t] >= startVersion[t] + attempt[t]
  /\ IF pc[t] = "failed" THEN attempt[t] = MaxRetries ELSE attempt[t] < MaxRetries

Inductive == TypeOK /\ \A t \in Threads : Overtaken(t)

\* No call has begun.
LEMMA InitOK == Init => Inductive
BY MaxRetriesAssumption DEF Init, Inductive, TypeOK, Overtaken

\* A step of one thread keeps its own part of the invariant, and moves the
\* root version only up, which keeps the others'.
LEMMA StepOK == ASSUME Inductive, NEW t \in Threads, Step(t) PROVE Inductive'
<1> USE MaxRetriesAssumption
<1>1. CASE ReadRoot(t)
  <2>1. TypeOK'
    BY <1>1 DEF ReadRoot, Inductive, TypeOK
  <2>2. \A u \in Threads : Overtaken(u)'
    BY <1>1 DEF ReadRoot, Inductive, TypeOK, Overtaken
  <2> QED BY <2>1, <2>2 DEF Inductive
<1>2. CASE ReadVersion(t)
  <2>1. TypeOK'
    BY <1>2 DEF ReadVersion, Inductive, TypeOK
  <2>2. \A u \in Threads : Overtaken(u)'
    BY <1>2 DEF ReadVersion, Inductive, TypeOK, Overtaken
  <2> QED BY <2>1, <2>2 DEF Inductive
<1>3. CASE Install(t)
  <2>1. TypeOK'
    BY <1>3 DEF Install, Inductive, TypeOK
  <2>2. \A u \in Threads : Overtaken(u)'
    BY <1>3 DEF Install, Inductive, TypeOK, Overtaken
  <2> QED BY <2>1, <2>2 DEF Inductive
<1>4. CASE Refused(t)
  <2>1. TypeOK'
    BY <1>4 DEF Refused, Inductive, TypeOK, Overtaken
  <2>2. \A u \in Threads : Overtaken(u)'
    BY <1>4 DEF Refused, Inductive, TypeOK, Overtaken
  <2> QED BY <2>1, <2>2 DEF Inductive
<1> QED BY <1>1, <1>2, <1>3, <1>4 DEF Step

\* The invariant holds in every state, for every set of threads and limit.
THEOREM Invariance == Spec => []Inductive
<1>1. Inductive /\ [Next]_vars => Inductive'
  <2>1. CASE Next
    BY <2>1, StepOK DEF Next
  <2>2. CASE UNCHANGED vars
    BY <2>2 DEF vars, Inductive, TypeOK, Overtaken
  <2> QED BY <2>1, <2>2
<1> QED BY <1>1, InitOK, PTL DEF Spec

\* "Failed to bundle chunk after 10 attempts" is only ever the answer to a
\* call during which at least MaxRetries bundles of other calls succeeded.
THEOREM OnlyUnderContention == Spec => []FailureNeedsContention
<1>1. Inductive => FailureNeedsContention
  BY MaxRetriesAssumption DEF Inductive, TypeOK, Overtaken, FailureNeedsContention
<1> QED BY <1>1, Invariance, PTL
=============================================================================
