------------------------- MODULE VersionedFSProofs --------------------------
(***************************************************************************)
(* For every set of threads and paths, every chunk size and every request: *)
(* the state of VersionedFS keeps its types, and no entry, published or in *)
(* the hands of a running call, ever names a chunk the store does not      *)
(* have.                                                                   *)
(*                                                                         *)
(* The invariant is cut in two: what the shared state says of itself       *)
(* (SharedOK), and what the locals of one call say, given the chunks that  *)
(* are stored and the log (LocalOK).  A step changes the locals of one     *)
(* call; the others keep theirs because chunks are never removed and the   *)
(* log only grows (lemma Grow).                                            *)
(***************************************************************************)
EXTENDS VersionedFS, SequenceTheorems, TLAPS

LogEntry == [version : Nat, content : Seq(AllBytes), deleted : BOOLEAN]
Logs == [Paths -> Seq(LogEntry)]
Knowledge == [version : Nat \cup {NoVersion}, at : Nat]

LocalOK(c, D, lg) ==
  /\ c \in Call
  /\ StageOK(c, lg)
  /\ IdsOK(c, D)
  /\ c.entry # NoEntry => StoredIn(c.entry, D)

ManifestOK ==
  /\ files \in [Paths -> Entry \cup {NoEntry}]
  /\ manifestVersion \in Nat
  /\ log \in Logs
  /\ \A p \in Paths : files[p] # NoEntry =>
       log[p] # <<>> /\ StoredIn(files[p], DOMAIN store)

StoresOK ==
  /\ DOMAIN store \subseteq Nat
  /\ \A id \in DOMAIN store : store[id] \in Seq(AllBytes)
  /\ DOMAIN corr \subseteq Nat
  /\ \A id \in DOMAIN corr : corr[id] \in Seq(AllBytes)
  /\ storeVersion \in Nat /\ corrVersion \in Nat
  /\ nextId \in Nat /\ root \subseteq Nat /\ globalVersion \in Nat

ClientOK ==
  /\ left \in [Threads -> Nat]
  /\ known \in [Threads -> [Paths -> Knowledge]]

SharedOK == ManifestOK /\ StoresOK /\ ClientOK

\* The inductive invariant of VersionedFS, regrouped by thread.
Grouped ==
  /\ SharedOK
  /\ call \in [Threads -> Call]
  /\ \A t \in Threads : LocalOK(call[t], DOMAIN store, log)

\* The invariant that TLC checks is the one below, regrouped by thread.
LEMMA Regrouped == Inductive <=> Grouped
<1> USE DEF Inductive, TypeOK, LogBacked, EntryChunksStored, StagesOK, IdsStored, Grouped,
            SharedOK, ManifestOK, StoresOK, ClientOK, LocalOK, Logs, LogEntry, Knowledge
<1>1. Inductive => Grouped
  OBVIOUS
<1>2. Grouped => Inductive
  OBVIOUS
<1> QED BY <1>1, <1>2

\* What holds of a call's locals goes on holding when chunks are added to the
\* store and publications to the log.
LEMMA Grow ==
  ASSUME NEW c, NEW D, NEW E, NEW lg, NEW lg2,
         LocalOK(c, D, lg), D \subseteq E, lg \in Logs, lg2 \in Logs,
         \A p \in Paths : Len(lg[p]) <= Len(lg2[p])
  PROVE  LocalOK(c, E, lg2)
<1>1. StageOK(c, lg2)
  <2>1. c.path \in Paths => Len(lg[c.path]) \in Nat /\ Len(lg2[c.path]) \in Nat
    BY LenProperties DEF Logs
  <2>2. c.pc \in EditStages \cup {"publish"} => c.path \in Paths
    BY DEF LocalOK, StageOK, AnsweredPCs, EditStages
  <2>3. StageOK(c, lg) /\ c.basis \in Nat
    BY DEF LocalOK, Call
  <2> QED BY <2>1, <2>2, <2>3 DEF StageOK
<1>2. IdsOK(c, E)
  BY DEF LocalOK, IdsOK
<1>3. c.entry # NoEntry => StoredIn(c.entry, E)
  BY DEF LocalOK, StoredIn
<1> QED BY <1>1, <1>2, <1>3 DEF LocalOK

\* One call moves, the stores only grow and the log only lengthens: the
\* invariant holds again if it does for the shared state and for that call.
LEMMA StepOK ==
  ASSUME Inductive, NEW t \in Threads, NEW c, Becomes(t, c), SharedOK',
         LocalOK(c, DOMAIN store', log'), DOMAIN store \subseteq DOMAIN store',
         \A p \in Paths : Len(log[p]) <= Len(log'[p])
  PROVE  Inductive'
<1>1. Inductive' <=> Grouped'
  BY Regrouped, PTL
<1>2. log \in Logs /\ log' \in Logs
  BY Regrouped DEF Grouped, SharedOK, ManifestOK
<1>3. call \in [Threads -> Call] /\ c \in Call
  BY Regrouped DEF Grouped, LocalOK
<1>4. call' \in [Threads -> Call] /\ call'[t] = c
  BY <1>3 DEF Becomes
<1>5. ASSUME NEW u \in Threads PROVE LocalOK(call'[u], DOMAIN store', log')
  <2>1. CASE u = t
    BY <2>1, <1>4
  <2>2. CASE u # t
    <3>1. call'[u] = call[u]
      BY <2>2, <1>3 DEF Becomes
    <3>2. LocalOK(call[u], DOMAIN store, log)
      BY Regrouped DEF Grouped
    <3> QED BY <3>1, <3>2, <1>2, Grow
  <2> QED BY <2>1, <2>2
<1> QED BY <1>1, <1>4, <1>5 DEF Grouped

\* The stages and the kinds of call at which the plain calls begin and end.
LEMMA PCNames ==
  /\ "prepare" \in PCs /\ "readChunk" \in PCs /\ "ok" \in PCs
  /\ "read" \in AllKinds /\ "write" \in AllKinds
BY DEF PCs, AnsweredPCs, AllKinds

\* A thread that is in no call has well-typed locals.
LEMMA IdleType ==
  /\ Idle \in Call
  /\ Idle.entry = NoEntry /\ Idle.ids = <<>> /\ Idle.todo = {} /\ Idle.path = NoPath
<1>1. "idle" \in PCs
  BY DEF PCs, AnsweredPCs
<1>2. <<>> \in Seq(AllBytes) /\ <<>> \in Seq(Nat)
  BY EmptySeq
<1>3. {} \in SUBSET Change /\ {} \in SUBSET Nat
  OBVIOUS
<1>4. Idle.pc \in PCs /\ Idle.kind \in AllKinds \cup {"none"} /\ Idle.path \in Paths \cup {NoPath} 
   /\ Idle.expected \in Nat \cup {NoVersion} /\ Idle.learned \in Nat /\ Idle.entry \in Entry \cup {NoEntry}
  BY <1>1 DEF Idle
<1>5. Idle.basis \in Nat /\ Idle.data \in Seq(AllBytes) /\ Idle.changes \in SUBSET Change /\ Idle.length \in Nat
  BY <1>2, <1>3 DEF Idle
<1>6. Idle.ids \in Seq(Nat) /\ Idle.todo \in SUBSET Nat /\ Idle.id \in Nat /\ Idle.chunk \in Seq(AllBytes)
  BY <1>2, <1>3 DEF Idle
<1>7. Idle.at \in Nat /\ Idle.storeVer \in Nat /\ Idle.corrVer \in Nat /\ Idle.ret \in Nat
  BY <1>2, <1>3 DEF Idle
<1>8. Idle = [pc |-> Idle.pc, kind |-> Idle.kind, path |-> Idle.path,
   expected |-> Idle.expected,  learned |-> Idle.learned, entry |-> Idle.entry,
   basis |-> Idle.basis, data |-> Idle.data, changes |-> Idle.changes, length |-> Idle.length, ids |-> Idle.ids,
   todo |-> Idle.todo, id |-> Idle.id, chunk |-> Idle.chunk, at |-> Idle.at, storeVer |-> Idle.storeVer,
   corrVer |-> Idle.corrVer, ret |-> Idle.ret]
  BY DEF Idle
<1>9. Idle \in Call
  BY <1>4, <1>5, <1>6, <1>7, <1>8 DEF Call
<1> QED BY <1>9 DEF Idle

\* A thread that fails holds nothing.
LEMMA FailOK ==
  ASSUME Inductive, NEW t \in Threads, Fail(t), SharedOK',
         DOMAIN store \subseteq DOMAIN store',
         \A p \in Paths : Len(log[p]) <= Len(log'[p])
  PROVE  Inductive'
<1> DEFINE c == [Idle EXCEPT !.pc = "err"]
<1>1. c \in Call /\ c.pc = "err" /\ c.entry = NoEntry
  <2>1. "err" \in PCs
    BY DEF PCs, AnsweredPCs
  <2>2. c \in Call
    BY IdleType, <2>1 DEF Call
  <2>3. c.pc = "err" /\ c.entry = NoEntry
    BY IdleType DEF Call
  <2> QED BY <2>2, <2>3
<1>2. LocalOK(c, DOMAIN store', log')
  <2> HIDE DEF c
  <2> QED BY <1>1 DEF LocalOK, StageOK, IdsOK, AnsweredPCs, WriteStages, EditStages
<1>3. Becomes(t, c)
  BY DEF Fail
<1> HIDE DEF c
<1> QED BY <1>2, <1>3, StepOK

\* A thread that is answered holds nothing but its answer.
LEMMA AnswerOK ==
  ASSUME Inductive, NEW t \in Threads, NEW c \in Call, NEW ret \in Nat,
         Answer(t, c, ret), ManifestOK', StoresOK', left' \in [Threads -> Nat],
         DOMAIN store \subseteq DOMAIN store',
         \A p \in Paths : Len(log[p]) <= Len(log'[p])
  PROVE  Inductive'
<1> DEFINE d == [Idle EXCEPT !.pc = "ok", !.kind = c.kind, !.path = c.path, !.ret = ret,
                    !.data = IF c.kind = "read" THEN c.data ELSE <<>>,
                    !.basis = c.basis]
<1>1. d \in Call /\ d.pc = "ok" /\ d.entry = NoEntry
  <2>1. <<>> \in Seq(AllBytes)
    BY EmptySeq
  <2> DEFINE bytes == IF c.kind = "read" THEN c.data ELSE <<>>
  <2>2. bytes \in Seq(AllBytes)
    BY <2>1 DEF Call
  <2>3. /\ c.kind \in AllKinds \cup {"none"} /\ c.path \in Paths \cup {NoPath}
        /\ c.basis \in Nat /\ "ok" \in PCs
    BY DEF Call, PCs, AnsweredPCs
  <2> HIDE DEF bytes
  <2>4. [Idle EXCEPT !.pc = "ok", !.kind = c.kind, !.path = c.path, !.ret = ret,
            !.data = bytes, !.basis = c.basis] \in Call
    <3> DEFINE x == [Idle EXCEPT !.pc = "ok", !.kind = c.kind, !.path = c.path]
               y == [x EXCEPT !.ret = ret, !.data = bytes, !.basis = c.basis]
    <3>1. x \in Call
      BY IdleType, <2>3 DEF Call
    <3>2. y = [Idle EXCEPT !.pc = "ok", !.kind = c.kind, !.path = c.path, !.ret = ret,
                  !.data = bytes, !.basis = c.basis]
      OBVIOUS
    <3> HIDE DEF x
    <3>3. y \in Call
      BY <2>2, <2>3, <3>1 DEF Call
    <3> QED BY <3>2, <3>3
  <2>5. d \in Call
    BY <2>4 DEF bytes
  <2>6. d.pc = "ok" /\ d.entry = NoEntry
    BY IdleType DEF Call
  <2> QED BY <2>5, <2>6
<1>2. Becomes(t, d)
  BY DEF Answer
<1> HIDE DEF d
<1>3. LocalOK(d, DOMAIN store', log')
  BY <1>1 DEF LocalOK, StageOK, IdsOK, AnsweredPCs, WriteStages, EditStages
<1>4. known' \in [Threads -> [Paths -> Knowledge]]
  <2>1. known \in [Threads -> [Paths -> Knowledge]]
    BY Regrouped DEF Grouped, SharedOK, ClientOK
  <2>2. [version |-> ret, at |-> c.basis] \in Knowledge
    BY DEF Knowledge, Call
  <2> QED BY <2>1, <2>2 DEF Answer
<1> QED BY <1>2, <1>3, <1>4, StepOK DEF SharedOK, ClientOK

\* The locals of a call under way, one field of which is its stage.
LEMMA LocalsOfThread ==
  ASSUME Inductive, NEW t \in Threads
  PROVE  SharedOK /\ call[t] \in Call /\ LocalOK(call[t], DOMAIN store, log)
BY Regrouped DEF Grouped
-----------------------------------------------------------------------------
(* write_file *)

\* write_file: the global version is incremented and the call answers.
LEMMA CountOK == ASSUME Inductive, NEW t \in Threads, Count(t) PROVE Inductive'
<1>1. SharedOK /\ call[t] \in Call /\ call[t].ret \in Nat
  BY LocalsOfThread DEF Call
<1>2. ManifestOK' /\ StoresOK' /\ left' \in [Threads -> Nat]
  BY <1>1 DEF Count, SharedOK, ManifestOK, StoresOK, ClientOK, manifest, chunkStore, corrections
<1>3. UNCHANGED <<store, log>> /\ \A p \in Paths : Len(log[p]) \in Nat
  BY <1>1, LenProperties DEF Count, chunkStore, SharedOK, ManifestOK, Logs
<1> QED BY <1>1, <1>2, <1>3, AnswerOK DEF Count

\* write_file: the ids are added to the root.
LEMMA BundleOK == ASSUME Inductive, NEW t \in Threads, Bundle(t) PROVE Inductive'
<1> DEFINE c == [call[t] EXCEPT !.pc = "count"]
<1>1. SharedOK /\ call[t] \in Call /\ LocalOK(call[t], DOMAIN store, log)
  BY LocalsOfThread
<1>2. SharedOK'
  BY <1>1 DEF Bundle, SharedOK, ManifestOK, StoresOK, ClientOK, manifest, chunkStore,
              corrections, client
<1>3. UNCHANGED <<store, log>> /\ \A p \in Paths : Len(log[p]) \in Nat
  BY <1>1, LenProperties DEF Bundle, chunkStore, SharedOK, ManifestOK, Logs
<1>4. LocalOK(c, DOMAIN store, log)
  BY <1>1 DEF Bundle, LocalOK, Call, PCs, StageOK, IdsOK, AnsweredPCs, WriteStages, EditStages
<1>5. Becomes(t, c)
  BY DEF Bundle
<1> HIDE DEF c
<1> QED BY <1>2, <1>3, <1>4, <1>5, StepOK
-----------------------------------------------------------------------------
(* Chunks and bytes *)

\* A sequence is what a function on 1..n is.
LEMMA SeqOfFunction ==
  ASSUME NEW S, NEW n \in Nat, NEW f \in [1..n -> S]
  PROVE  f \in Seq(S) /\ Len(f) = n
OBVIOUS

\* The ids of a list are all in a set exactly if the list is over that set.
LEMMA SeqIn ==
  ASSUME NEW s \in Seq(Nat), NEW D
  PROVE  (\A i \in DOMAIN s : s[i] \in D) <=> s \in Seq(D)
<1>1. Len(s) \in Nat /\ DOMAIN s = 1..Len(s) /\ s \in [1..Len(s) -> Nat]
  BY LenProperties
<1>2. ASSUME \A i \in DOMAIN s : s[i] \in D PROVE s \in Seq(D)
  <2>1. s \in [1..Len(s) -> D]
    BY <1>1, <1>2
  <2> QED BY <1>1, <2>1, SeqOfFunction
<1>3. ASSUME s \in Seq(D) PROVE \A i \in DOMAIN s : s[i] \in D
  BY <1>1, <1>3, ElementOfSeq
<1> QED BY <1>2, <1>3

\* Division rounded up stays in the naturals.
LEMMA CeilDivNat == ASSUME NEW n \in Nat PROVE CeilDiv(n, ChunkSize) \in Nat
BY ChunkSizeAssumption DEF CeilDiv

\* How many chunks a piece of data is cut into.
LEMMA ChunksInNat ==
  ASSUME NEW data \in Seq(AllBytes) PROVE ChunksIn(data) \in Nat
BY CeilDivNat, LenProperties DEF ChunksIn

\* A part of a sequence, within its bounds, is a sequence.
LEMMA Part ==
  ASSUME NEW S, NEW s \in Seq(S), NEW m \in Nat \ {0}, NEW n \in Int, n <= Len(s)
  PROVE  SubSeq(s, m, n) \in Seq(S)
<1>1. Len(s) \in Nat /\ \A i \in 1..Len(s) : s[i] \in S
  BY LenProperties, ElementOfSeq
<1>2. \A i \in m..n : s[i] \in S
  BY <1>1
<1> QED BY <1>2, SubSeqProperties

\* The first bytes of a sequence.
LEMMA Prefix ==
  ASSUME NEW S, NEW s \in Seq(S), NEW n \in Int
  PROVE  SubSeq(s, 1, MinOf(n, Len(s))) \in Seq(S)
<1>1. Len(s) \in Nat
  BY LenProperties
<1>2. MinOf(n, Len(s)) \in Int /\ MinOf(n, Len(s)) <= Len(s)
  BY <1>1 DEF MinOf
<1> QED BY <1>2, Part

\* A chunk is bytes.
LEMMA ChunkType ==
  ASSUME NEW data \in Seq(AllBytes), NEW i \in Nat \ {0}
  PROVE  ChunkOf(data, i) \in Seq(AllBytes)
<1>1. Len(data) \in Nat /\ (i - 1) * ChunkSize \in Nat /\ i * ChunkSize \in Nat
  BY LenProperties, ChunkSizeAssumption
<1>2. /\ (i - 1) * ChunkSize + 1 \in Nat \ {0}
      /\ MinOf(i * ChunkSize, Len(data)) \in Int
      /\ MinOf(i * ChunkSize, Len(data)) <= Len(data)
  BY <1>1 DEF MinOf
<1> QED BY <1>2, Part DEF ChunkOf

\* A batch holds one chunk for each of its consecutive ids.
LEMMA BatchType ==
  ASSUME NEW data \in Seq(AllBytes), NEW first \in Nat
  PROVE  /\ DOMAIN Batch(first, data) = first..(first + ChunksIn(data) - 1)
         /\ \A id \in DOMAIN Batch(first, data) : Batch(first, data)[id] \in Seq(AllBytes)
<1>1. ChunksIn(data) \in Nat
  BY ChunksInNat
<1>2. \A id \in first..(first + ChunksIn(data) - 1) : id - first + 1 \in Nat \ {0}
  BY <1>1
<1> QED BY <1>2, ChunkType DEF Batch

\* Chunks added under some ids: the store has those ids and its own.
LEMMA Added ==
  ASSUME NEW f, NEW g, DOMAIN f \subseteq Nat, DOMAIN g \subseteq Nat,
         \A id \in DOMAIN f : f[id] \in Seq(AllBytes),
         \A id \in DOMAIN g : g[id] \in Seq(AllBytes)
  PROVE  /\ DOMAIN Over(f, g) = DOMAIN f \cup DOMAIN g
         /\ \A id \in DOMAIN Over(f, g) : Over(f, g)[id] \in Seq(AllBytes)
BY DEF Over


\* The steps of a call that change nothing but its own locals.
LEMMA LocalStep ==
  ASSUME Inductive, NEW t \in Threads, left' \in [Threads -> Nat],
         UNCHANGED <<manifest, chunkStore, corrections, counters, log>>
  PROVE  /\ UNCHANGED known /\ Fail(t) => Inductive'
         /\ \A c : /\ UNCHANGED known
                   /\ Becomes(t, c)
                   /\ LocalOK(c, DOMAIN store, log)
                   => Inductive'
         /\ \A c \in Call, ret \in Nat : Answer(t, c, ret) => Inductive'
<1>1. SharedOK
  BY LocalsOfThread
<1>2. ManifestOK' /\ StoresOK' /\ UNCHANGED <<store, log>>
  BY <1>1 DEF SharedOK, ManifestOK, StoresOK, manifest, chunkStore, corrections, counters
<1>3. UNCHANGED known => SharedOK'
  BY <1>1, <1>2 DEF SharedOK, ClientOK
<1>4. \A p \in Paths : Len(log[p]) \in Nat
  BY <1>1, LenProperties DEF SharedOK, ManifestOK, Logs
<1>5. /\ DOMAIN store \subseteq DOMAIN store'
      /\ \A p \in Paths : Len(log[p]) <= Len(log'[p])
  BY <1>2, <1>4
<1>6. ASSUME UNCHANGED known, Fail(t) PROVE Inductive'
  BY <1>3, <1>5, <1>6, FailOK
<1>7. ASSUME NEW c, UNCHANGED known, Becomes(t, c), LocalOK(c, DOMAIN store, log)
      PROVE  Inductive'
  BY <1>2, <1>3, <1>5, <1>7, StepOK
<1>8. ASSUME NEW c \in Call, NEW ret \in Nat, Answer(t, c, ret) PROVE Inductive'
  BY <1>2, <1>5, <1>8, AnswerOK
<1> QED BY <1>6, <1>7, <1>8

\* A call costs the thread one of those it has left.
LEMMA SpendOK ==
  ASSUME Inductive, NEW t \in Threads, NEW kind, Ready(t, kind), Spend(t)
  PROVE  left' \in [Threads -> Nat]
<1>1. left \in [Threads -> Nat]
  BY LocalsOfThread DEF SharedOK, ClientOK
<1> QED BY <1>1 DEF Ready, Spend

\* The versions a caller may pass are versions.
LEMMA ExpectationType ==
  ASSUME Inductive, NEW t \in Threads, NEW p \in Paths, NEW v \in Expectations(t, p)
  PROVE  v \in Nat \cup {NoVersion} /\ known[t][p].at \in Nat
<1>1. known \in [Threads -> [Paths -> Knowledge]]
  BY LocalsOfThread DEF SharedOK, ClientOK
<1>2. known[t][p] \in Knowledge
  BY <1>1
<1> QED BY <1>2 DEF Knowledge, Expectations

\* The locals of a call that begins: typed, and the entry they hold, if any,
\* is stored and has been published.
LEMMA BegunType ==
  ASSUME Inductive, NEW p \in Paths, NEW kind \in AllKinds, NEW pc \in PCs
  PROVE  /\ Begun(kind, p, pc) \in Call
         /\ Begun(kind, p, pc).pc = pc /\ Begun(kind, p, pc).kind = kind
         /\ Begun(kind, p, pc).path = p /\ Begun(kind, p, pc).entry = files[p]
         /\ Begun(kind, p, pc).basis = Len(log[p])
         /\ Begun(kind, p, pc).ids = <<>> /\ Begun(kind, p, pc).todo = {}
         /\ files[p] # NoEntry =>
              /\ files[p] \in Entry /\ StoredIn(files[p], DOMAIN store)
              /\ Len(log[p]) \in Nat \ {0}
<1>1. /\ files \in [Paths -> Entry \cup {NoEntry}] /\ log \in Logs
      /\ \A q \in Paths : files[q] # NoEntry =>
           log[q] # <<>> /\ StoredIn(files[q], DOMAIN store)
  BY Regrouped DEF Grouped, SharedOK, ManifestOK
<1>2. log[p] \in Seq(LogEntry)
  BY <1>1 DEF Logs
<1>3. Len(log[p]) \in Nat /\ (log[p] # <<>> => Len(log[p]) # 0)
  BY <1>2, LenProperties, EmptySeq
<1>4. Begun(kind, p, pc) \in Call
  BY <1>1, <1>3, IdleType DEF Begun, Call
<1>5. Idle \in Call
  BY IdleType
<1> QED BY <1>1, <1>3, <1>4, <1>5, IdleType DEF Begun, Call

\* The contents and appended data callers pass are bytes.
LEMMA RequestType ==
  /\ \A d \in Contents \cup Appends \cup {InitContent} : d \in Seq(AllBytes)
  /\ \A s \in ChangeSets : s \in SUBSET Change
  /\ Lengths \subseteq Nat
<1>1. Bytes \subseteq AllBytes
  BY DEF AllBytes
<1> QED BY <1>1, RequestAssumption, SeqMonotonic

\* write_file: the lookup; a call that begins holds the entry it found.
LEMMA StartWriteOK ==
  ASSUME Inductive, NEW t \in Threads, NEW p \in Paths, NEW data \in Contents,
         NEW v \in Expectations(t, p), StartWrite(t, p, data, v)
  PROVE  Inductive'
<1> DEFINE b == Begun("write", p, "prepare")
           c == [b EXCEPT !.expected = v, !.data = data, !.learned = known[t][p].at]
<1>1. left' \in [Threads -> Nat]
  BY SpendOK DEF StartWrite
<1>2. CASE Fail(t)
  BY <1>1, <1>2, LocalStep DEF StartWrite
<1>3. CASE Becomes(t, c)
  <2>1. /\ b \in Call /\ b.pc = "prepare" /\ b.kind = "write" /\ b.path = p
        /\ b.entry = files[p] /\ b.ids = <<>>
        /\ files[p] # NoEntry => StoredIn(files[p], DOMAIN store)
    BY BegunType DEF PCs, AllKinds
  <2>2. /\ v \in Nat \cup {NoVersion} /\ known[t][p].at \in Nat
        /\ data \in Seq(AllBytes)
    BY ExpectationType, RequestType
  <2> HIDE DEF b
  <2>3. /\ c \in Call /\ c.pc = "prepare" /\ c.kind = "write" /\ c.path = p
        /\ c.entry = files[p] /\ c.ids = <<>>
    BY <2>1, <2>2 DEF Call
  <2> HIDE DEF c
  <2>4. LocalOK(c, DOMAIN store, log)
    BY <2>1, <2>3 DEF LocalOK, StageOK, IdsOK, AnsweredPCs, EditStages
  <2> QED BY <1>1, <1>3, <2>4, LocalStep DEF StartWrite
<1> QED BY <1>2, <1>3 DEF StartWrite

\* write_file: the ids are allocated, no chunk is stored yet.
LEMMA PrepareOK == ASSUME Inductive, NEW t \in Threads, Prepare(t) PROVE Inductive'
<1> DEFINE n == ChunksIn(call[t].data)
           ids == [i \in 1..n |-> nextId + i - 1]
           c == [call[t] EXCEPT !.pc = "insert", !.storeVer = storeVersion,
                    !.id = nextId, !.ids = ids]
<1>1. SharedOK /\ call[t] \in Call /\ LocalOK(call[t], DOMAIN store, log)
  BY LocalsOfThread
<1>2. nextId \in Nat /\ storeVersion \in Nat
  BY <1>1 DEF SharedOK, StoresOK
<1>3. n \in Nat
  BY <1>1, ChunksInNat DEF Call
<1>4. ids \in Seq(Nat)
  <2>1. ids \in [1..n -> Nat]
    BY <1>2, <1>3
  <2> HIDE DEF ids, n
  <2> QED BY <1>3, <2>1, SeqOfFunction
<1>5. SharedOK'
  <2> HIDE DEF n
  <2>1. nextId' \in Nat
    BY <1>2, <1>3 DEF Prepare, n
  <2> QED BY <1>1, <2>1 DEF Prepare, SharedOK, ManifestOK, StoresOK, ClientOK, manifest,
                chunkStore, corrections, client
<1>6. UNCHANGED <<store, log>> /\ \A p \in Paths : Len(log[p]) \in Nat
  BY <1>1, LenProperties DEF Prepare, chunkStore, SharedOK, ManifestOK, Logs
<1>7. LocalOK(c, DOMAIN store, log)
  <2>1. /\ call[t].pc = "prepare" /\ StageOK(call[t], log)
        /\ call[t].entry # NoEntry => StoredIn(call[t].entry, DOMAIN store)
    BY <1>1 DEF Prepare, LocalOK
  <2> HIDE DEF ids
  <2>2. /\ c \in Call /\ c.pc = "insert" /\ c.kind = call[t].kind /\ c.path = call[t].path
        /\ c.entry = call[t].entry /\ c.ids = ids /\ c.id = nextId /\ c.data = call[t].data
    BY <1>1, <1>2, <1>4 DEF Call, PCs
  <2> HIDE DEF c
  <2>3. IdsOK(c, DOMAIN store)
    BY <2>2 DEF IdsOK, ids
  <2>4. StageOK(c, log)
    BY <2>1, <2>2 DEF StageOK, WriteStages, EditStages, AnsweredPCs
  <2> QED BY <2>1, <2>2, <2>3, <2>4 DEF LocalOK
<1>8. Becomes(t, c)
  BY DEF Prepare
<1> HIDE DEF c
<1> QED BY <1>5, <1>6, <1>7, <1>8, StepOK

\* write_file: the chunks under the allocated ids are stored, or the call fails.
LEMMA InsertChunksOK ==
  ASSUME Inductive, NEW t \in Threads, InsertChunks(t) PROVE Inductive'
<1> DEFINE next == IF call[t].expected = NoVersion THEN "correctNew" ELSE "correctVersion"
           c == [call[t] EXCEPT !.pc = next]
           batch == Batch(call[t].id, call[t].data)
<1>1. /\ SharedOK /\ call[t] \in Call /\ LocalOK(call[t], DOMAIN store, log)
      /\ call[t].data \in Seq(AllBytes) /\ call[t].id \in Nat
  BY LocalsOfThread DEF Call
<1>2. \A p \in Paths : Len(log[p]) \in Nat
  BY <1>1, LenProperties DEF SharedOK, ManifestOK, Logs
<1>3. CASE Fail(t) /\ UNCHANGED chunkStore
  BY <1>1, <1>3, LocalStep DEF InsertChunks, client, SharedOK, ClientOK
<1>4. CASE store' = Over(batch, store) /\ storeVersion' = storeVersion + 1 /\ Becomes(t, c)
  <2>1. /\ DOMAIN batch = call[t].id..(call[t].id + ChunksIn(call[t].data) - 1)
        /\ \A id \in DOMAIN batch : batch[id] \in Seq(AllBytes)
    BY <1>1, BatchType
  <2>2. DOMAIN batch \subseteq Nat /\ ChunksIn(call[t].data) \in Nat
    BY <1>1, <2>1, ChunksInNat
  <2> HIDE DEF batch
  <2>3. /\ DOMAIN store' = DOMAIN batch \cup DOMAIN store
        /\ \A id \in DOMAIN store' : store'[id] \in Seq(AllBytes)
    BY <1>1, <1>4, <2>1, <2>2, Added DEF SharedOK, StoresOK
  <2>4. ManifestOK'
    BY <1>1, <2>3 DEF InsertChunks, SharedOK, ManifestOK, manifest, StoredIn
  <2>5. StoresOK' /\ ClientOK' /\ log' = log
    BY <1>1, <1>4, <2>2, <2>3 DEF InsertChunks, SharedOK, StoresOK, ClientOK, corrections,
          counters, client
  <2>6. LocalOK(c, DOMAIN store', log)
    <3>1. /\ call[t].pc = "insert" /\ StageOK(call[t], log) /\ IdsOK(call[t], DOMAIN store)
          /\ call[t].entry # NoEntry => StoredIn(call[t].entry, DOMAIN store)
      BY <1>1 DEF InsertChunks, LocalOK
    <3>2. next \in {"correctNew", "correctVersion"}
      OBVIOUS
    <3> HIDE DEF next
    <3>3. /\ c \in Call /\ c.pc = next /\ c.kind = call[t].kind /\ c.path = call[t].path
          /\ c.entry = call[t].entry /\ c.ids = call[t].ids
      <4>1. call[t] \in Call /\ next \in PCs
        BY <1>1, <3>2 DEF PCs
      <4>2. c \in Call
        BY <4>1 DEF Call
      <4>3. /\ c.pc = next /\ c.kind = call[t].kind /\ c.path = call[t].path
            /\ c.entry = call[t].entry /\ c.ids = call[t].ids
        BY <4>1 DEF Call
      <4> QED BY <4>2, <4>3
    <3> HIDE DEF c
    <3> DEFINE n == ChunksIn(call[t].data)
    <3>4. \A i \in DOMAIN c.ids : c.ids[i] \in DOMAIN batch
      <4>1. c.ids = [i \in 1..n |-> call[t].id + i - 1]
        BY <3>1, <3>3 DEF IdsOK
      <4>2. n \in Nat /\ DOMAIN batch = call[t].id..(call[t].id + n - 1)
        BY <2>1, <2>2
      <4> HIDE DEF n
      <4> QED BY <1>1, <4>1, <4>2
    <3>5. IdsOK(c, DOMAIN store')
      BY <2>3, <3>2, <3>3, <3>4 DEF IdsOK
    <3>6. StageOK(c, log)
      BY <3>1, <3>2, <3>3 DEF StageOK, WriteStages, EditStages, AnsweredPCs
    <3>7. c.entry # NoEntry => StoredIn(c.entry, DOMAIN store')
      BY <2>3, <3>1, <3>3 DEF StoredIn
    <3> QED BY <3>3, <3>5, <3>6, <3>7 DEF LocalOK
  <2> HIDE DEF c
  <2>7. SharedOK' /\ DOMAIN store \subseteq DOMAIN store'
    BY <2>3, <2>4, <2>5 DEF SharedOK
  <2>8. \A p \in Paths : Len(log[p]) <= Len(log'[p])
    BY <1>2, <2>5
  <2> QED BY <1>4, <2>5, <2>6, <2>7, <2>8, StepOK
<1> QED BY <1>3, <1>4 DEF InsertChunks

\* Corrections are added for some ids, and one call moves.
LEMMA CorrectionStep ==
  ASSUME Inductive, NEW t \in Threads, NEW c, NEW new, DOMAIN new \subseteq Nat,
         \A id \in DOMAIN new : new[id] \in Seq(AllBytes),
         corr' = Over(new, corr), corrVersion' = corrVersion + 1,
         UNCHANGED <<manifest, chunkStore, counters, client, log>>,
         Becomes(t, c), LocalOK(c, DOMAIN store, log)
  PROVE  Inductive'
<1>1. SharedOK
  BY LocalsOfThread
<1>2. DOMAIN corr' \subseteq Nat /\ \A id \in DOMAIN corr' : corr'[id] \in Seq(AllBytes)
  BY <1>1, Added DEF SharedOK, StoresOK
<1>3. SharedOK' /\ UNCHANGED <<store, log>>
  BY <1>1, <1>2 DEF SharedOK, ManifestOK, StoresOK, ClientOK, manifest, chunkStore, counters,
                    client
<1>4. \A p \in Paths : Len(log[p]) \in Nat
  BY <1>1, LenProperties DEF SharedOK, ManifestOK, Logs
<1> QED BY <1>3, <1>4, StepOK

\* A writer whose chunks are stored goes to another stage where they are.
LEMMA WriterMoves ==
  ASSUME Inductive, NEW t \in Threads,
         call[t].pc \in {"correctNew", "correctVersion", "correct"},
         NEW pc \in {"correct", "publish"}, NEW v \in Nat
  PROVE  LocalOK([call[t] EXCEPT !.pc = pc, !.corrVer = v], DOMAIN store, log)
<1> DEFINE c == [call[t] EXCEPT !.pc = pc, !.corrVer = v]
<1>1. call[t] \in Call /\ LocalOK(call[t], DOMAIN store, log)
  BY LocalsOfThread
<1>2. /\ c \in Call /\ c.pc = pc /\ c.kind = call[t].kind /\ c.path = call[t].path
      /\ c.entry = call[t].entry /\ c.ids = call[t].ids /\ c.todo = call[t].todo
  <2>1. call[t] \in Call /\ pc \in PCs
    BY <1>1 DEF PCs
  <2>2. c \in Call
    BY <2>1 DEF Call
  <2>3. /\ c.pc = pc /\ c.kind = call[t].kind /\ c.path = call[t].path
        /\ c.entry = call[t].entry /\ c.ids = call[t].ids /\ c.todo = call[t].todo
    BY <2>1 DEF Call
  <2> QED BY <2>2, <2>3
<1> HIDE DEF c
<1>3. IdsOK(c, DOMAIN store)
  BY <1>1, <1>2 DEF LocalOK, IdsOK
<1>4. StageOK(c, log)
  BY <1>1, <1>2 DEF LocalOK, StageOK, WriteStages, EditStages, AnsweredPCs, DeltaKinds
<1> QED BY <1>1, <1>2, <1>3, <1>4 DEF LocalOK, c

\* The batch of a call under way is made of chunks.
LEMMA CallBatch ==
  ASSUME Inductive, NEW t \in Threads
  PROVE  LET batch == Batch(call[t].id, call[t].data)
         IN DOMAIN batch \subseteq Nat /\ \A id \in DOMAIN batch : batch[id] \in Seq(AllBytes)
<1> DEFINE batch == Batch(call[t].id, call[t].data)
<1>1. call[t].data \in Seq(AllBytes) /\ call[t].id \in Nat
  BY LocalsOfThread DEF Call
<1>2. /\ DOMAIN batch = call[t].id..(call[t].id + ChunksIn(call[t].data) - 1)
      /\ \A id \in DOMAIN batch : batch[id] \in Seq(AllBytes)
  BY <1>1, BatchType
<1>3. ChunksIn(call[t].data) \in Nat
  BY <1>1, ChunksInNat
<1> HIDE DEF batch
<1>4. DOMAIN batch \subseteq Nat
  BY <1>1, <1>2, <1>3
<1> QED BY <1>2, <1>4 DEF batch

\* write_file: the corrections of a new file.
LEMMA CorrectNewOK ==
  ASSUME Inductive, NEW t \in Threads, CorrectNew(t) PROVE Inductive'
<1> DEFINE c == [call[t] EXCEPT !.pc = "publish"]
           batch == Batch(call[t].id, call[t].data)
<1>1. call[t] \in Call /\ call[t].corrVer \in Nat
  BY LocalsOfThread DEF Call
<1>2. LocalOK([call[t] EXCEPT !.pc = "publish", !.corrVer = call[t].corrVer], DOMAIN store, log)
  BY <1>1, WriterMoves DEF CorrectNew
<1>3. c = [call[t] EXCEPT !.pc = "publish", !.corrVer = call[t].corrVer]
  BY <1>1 DEF Call
<1>4. DOMAIN batch \subseteq Nat /\ \A id \in DOMAIN batch : batch[id] \in Seq(AllBytes)
  BY CallBatch
<1>5. /\ corr' = Over(batch, corr) /\ corrVersion' = corrVersion + 1 /\ Becomes(t, c)
      /\ UNCHANGED <<manifest, chunkStore, counters, client, log>>
  BY DEF CorrectNew
<1> HIDE DEF c, batch
<1> QED BY <1>2, <1>3, <1>4, <1>5, CorrectionStep

\* write_file: the version of the correction store is read.
LEMMA ReadCorrVersionOK ==
  ASSUME Inductive, NEW t \in Threads, ReadCorrVersion(t) PROVE Inductive'
<1>1. corrVersion \in Nat /\ left \in [Threads -> Nat]
  BY LocalsOfThread DEF SharedOK, StoresOK, ClientOK
<1>2. LocalOK([call[t] EXCEPT !.pc = "correct", !.corrVer = corrVersion], DOMAIN store, log)
  BY <1>1, WriterMoves DEF ReadCorrVersion
<1> QED BY <1>1, <1>2, LocalStep DEF ReadCorrVersion, client

\* write_file: the corrections of an existing file, or a refusal.
LEMMA CorrectOK == ASSUME Inductive, NEW t \in Threads, Correct(t) PROVE Inductive'
<1> DEFINE c == [call[t] EXCEPT !.pc = "publish"]
           batch == Batch(call[t].id, call[t].data)
<1>1. call[t] \in Call /\ call[t].corrVer \in Nat /\ left \in [Threads -> Nat]
  BY LocalsOfThread DEF Call, SharedOK, ClientOK
<1>2. LocalOK([call[t] EXCEPT !.pc = "publish", !.corrVer = call[t].corrVer], DOMAIN store, log)
  BY <1>1, WriterMoves DEF Correct
<1>3. c = [call[t] EXCEPT !.pc = "publish", !.corrVer = call[t].corrVer]
  BY <1>1 DEF Call
<1>4. DOMAIN batch \subseteq Nat /\ \A id \in DOMAIN batch : batch[id] \in Seq(AllBytes)
  BY CallBatch
<1>5. UNCHANGED <<manifest, chunkStore, counters, client, log>>
  BY DEF Correct
<1>6. CASE corr' = Over(batch, corr) /\ corrVersion' = corrVersion + 1 /\ Becomes(t, c)
  <2> HIDE DEF c, batch
  <2> QED BY <1>2, <1>3, <1>4, <1>5, <1>6, CorrectionStep
<1>7. CASE Fail(t) /\ UNCHANGED corrections
  BY <1>1, <1>5, <1>7, LocalStep DEF client
<1> QED BY <1>6, <1>7 DEF Correct

\* Replacing bytes leaves as many bytes.
LEMMA ReplacedType ==
  ASSUME NEW bytes \in Seq(AllBytes), NEW changes \in SUBSET Change, NEW base
  PROVE  Replaced(bytes, changes, base) \in Seq(AllBytes)
<1> DEFINE n == Len(bytes)
           hits(i) == {ch \in changes : ch.off = base + i - 1}
<1>1. n \in Nat /\ DOMAIN bytes = 1..n /\ \A i \in 1..n : bytes[i] \in AllBytes
  BY LenProperties, ElementOfSeq
<1>2. ASSUME NEW i \in 1..n, hits(i) # {}
      PROVE  (CHOOSE ch \in hits(i) : TRUE).val \in AllBytes
  <2>1. (CHOOSE ch \in hits(i) : TRUE) \in hits(i)
    BY <1>2
  <2>2. (CHOOSE ch \in hits(i) : TRUE) \in Change
    BY <2>1
  <2> QED BY <2>2 DEF Change, AllBytes
<1> DEFINE f == [i \in 1..n |-> IF hits(i) = {} THEN bytes[i]
                                ELSE (CHOOSE ch \in hits(i) : TRUE).val]
<1>3. f \in [1..n -> AllBytes]
  <2> HIDE DEF hits, n
  <2> QED BY <1>1, <1>2
<1>4. Replaced(bytes, changes, base) = f
  BY <1>1 DEF Replaced
<1> HIDE DEF f, n
<1> QED BY <1>1, <1>3, <1>4, SeqOfFunction

\* A truncation keeps no more chunks than there are.
LEMMA KeptBounds ==
  ASSUME NEW c \in Call, c.entry # NoEntry
  PROVE  Kept(c) \in Nat /\ Kept(c) <= Len(c.entry.chunks)
<1>1. c.entry \in Entry /\ c.length \in Nat
  BY DEF Call
<1>2. c.entry.chunks \in Seq(Nat)
  BY <1>1 DEF Entry
<1>3. Len(c.entry.chunks) \in Nat /\ CeilDiv(c.length, ChunkSize) \in Nat
  BY <1>1, <1>2, LenProperties, CeilDivNat
<1> QED BY <1>3 DEF Kept, MinOf

\* The chunks of an entry a call publishes are those it was given and those it
\* stored itself.
LEMMA NewEntryType ==
  ASSUME NEW c \in Call, NEW D, c.kind \in DeltaKinds \cup {"write"},
         c.kind \in DeltaKinds => c.entry # NoEntry,
         c.entry # NoEntry => StoredIn(c.entry, D),
         \A i \in DOMAIN c.ids : c.ids[i] \in D
  PROVE  NewEntry(c) \in Entry /\ StoredIn(NewEntry(c), D)
<1>1. /\ c.ids \in Seq(Nat) /\ c.data \in Seq(AllBytes) /\ c.length \in Nat
      /\ c.entry \in Entry \cup {NoEntry}
  BY DEF Call
<1>2. Len(c.data) \in Nat
  BY <1>1, LenProperties
<1>3. CASE c.kind = "write"
  <2>1. NewEntry(c) =
          [version |-> 0, chunks |-> c.ids, size |-> Len(c.data), indexed |-> FALSE,
           deleted |-> FALSE]
    BY <1>3 DEF NewEntry
  <2> QED BY <1>1, <1>2, <2>1 DEF Entry, StoredIn
<1>4. CASE c.kind \in DeltaKinds
  <2>1. c.entry \in Entry /\ StoredIn(c.entry, D) /\ c.entry # NoEntry
    BY <1>1, <1>4
  <2>2. c.entry.chunks \in Seq(Nat) /\ c.entry.size \in Nat
    BY <2>1 DEF Entry
  <2>3. c.entry.chunks \in Seq(D) /\ c.ids \in Seq(D)
    BY <1>1, <2>1, <2>2, SeqIn DEF StoredIn
  <2>4. CASE c.kind = "replace"
    <3>1. NewEntry(c) = c.entry
      BY <2>4 DEF NewEntry
    <3> QED BY <2>1, <3>1
  <2>5. CASE c.kind = "append"
    <3> DEFINE chunks == c.entry.chunks \o c.ids
               size == c.entry.size + Len(c.data)
    <3>1. NewEntry(c) = [c.entry EXCEPT !.chunks = chunks, !.size = size, !.indexed = TRUE]
      BY <2>5 DEF NewEntry
    <3>2. chunks \in Seq(Nat) /\ chunks \in Seq(D)
      BY <1>1, <2>2, <2>3, ConcatProperties
    <3>3. size \in Nat
      BY <1>2, <2>2
    <3> HIDE DEF chunks, size
    <3>4. NewEntry(c) \in Entry /\ NewEntry(c).chunks = chunks
      BY <2>1, <3>1, <3>2, <3>3 DEF Entry
    <3> QED BY <3>2, <3>4, SeqIn DEF StoredIn
  <2>6. CASE c.kind = "truncate"
    <3> DEFINE chunks == SubSeq(c.entry.chunks, 1, Kept(c))
    <3>1. NewEntry(c) = [c.entry EXCEPT !.chunks = chunks, !.size = c.length,
                                     !.indexed = TRUE]
      BY <2>6 DEF NewEntry
    <3>2. Kept(c) \in Nat /\ Kept(c) <= Len(c.entry.chunks)
      BY <2>1, KeptBounds
    <3>3. chunks \in Seq(Nat) /\ chunks \in Seq(D)
      BY <2>2, <2>3, <3>2, Part
    <3> HIDE DEF chunks
    <3>4. NewEntry(c) \in Entry /\ NewEntry(c).chunks = chunks
      BY <1>1, <2>1, <3>1, <3>3 DEF Entry
    <3> QED BY <3>3, <3>4, SeqIn DEF StoredIn
  <2> QED BY <1>4, <2>4, <2>5, <2>6 DEF DeltaKinds
<1> QED BY <1>3, <1>4

\* What a call publishes is a sequence of bytes.
LEMMA PublishedType ==
  ASSUME NEW c \in Call, log \in Logs, c.path \in Paths,
         c.kind \in DeltaKinds \cup {"write"},
         c.kind \in DeltaKinds => c.basis \in 1..Len(log[c.path])
  PROVE  Published(c) \in Seq(AllBytes)
<1> DEFINE old == log[c.path][c.basis].content
<1>1. c.data \in Seq(AllBytes) /\ c.changes \in SUBSET Change /\ c.length \in Nat
  BY DEF Call
<1>2. c.kind \in DeltaKinds => old \in Seq(AllBytes)
  <2>1. log[c.path] \in Seq(LogEntry)
    BY DEF Logs
  <2>2. c.kind \in DeltaKinds => log[c.path][c.basis] \in LogEntry
    BY <2>1, ElementOfSeq
  <2> QED BY <2>2 DEF LogEntry
<1> HIDE DEF old
<1>3. CASE c.kind = "write"
  BY <1>1, <1>3 DEF Published
<1>4. CASE c.kind = "replace"
  <2>1. Published(c) = Replaced(old, c.changes, 0)
    BY <1>4 DEF Published, old
  <2> QED BY <1>1, <1>2, <1>4, <2>1, ReplacedType DEF DeltaKinds
<1>5. CASE c.kind = "append"
  <2>1. Published(c) = old \o c.data
    BY <1>5 DEF Published, old
  <2> QED BY <1>1, <1>2, <1>5, <2>1, ConcatProperties DEF DeltaKinds
<1>6. CASE c.kind = "truncate"
  <2>1. Published(c) = SubSeq(old, 1, MinOf(c.length, Len(old)))
    BY <1>6 DEF Published, old
  <2> QED BY <1>1, <1>2, <1>6, <2>1, Prefix DEF DeltaKinds
<1> QED BY <1>3, <1>4, <1>5, <1>6 DEF DeltaKinds

\* An entry and a publication are recorded for a path: the manifest is right.
LEMMA Recorded ==
  ASSUME ManifestOK, manifestVersion' \in Nat, UNCHANGED store,
         NEW p \in Paths, NEW e \in Entry, NEW r \in LogEntry,
         StoredIn(e, DOMAIN store), files' = [files EXCEPT ![p] = e],
         log' = [log EXCEPT ![p] = Append(@, r)]
  PROVE  ManifestOK' /\ \A q \in Paths : Len(log[q]) <= Len(log'[q])
<1>1. log \in Logs /\ log[p] \in Seq(LogEntry) /\ files \in [Paths -> Entry \cup {NoEntry}]
  BY DEF ManifestOK, Logs
<1> DEFINE lp == Append(log[p], r)
<1>2. lp \in Seq(LogEntry) /\ lp # <<>> /\ Len(lp) = Len(log[p]) + 1
  BY <1>1, AppendProperties
<1>3. log' = [log EXCEPT ![p] = lp]
  OBVIOUS
<1> HIDE DEF lp
<1>4. log' \in Logs
  BY <1>1, <1>2, <1>3 DEF Logs
<1>5. files' \in [Paths -> Entry \cup {NoEntry}]
  BY <1>1
<1>6. ASSUME NEW q \in Paths, files'[q] # NoEntry
      PROVE  log'[q] # <<>> /\ StoredIn(files'[q], DOMAIN store')
  <2>1. CASE q = p
    BY <1>1, <1>2, <1>3, <2>1 DEF Logs
  <2>2. CASE q # p
    BY <1>1, <1>3, <1>6, <2>2 DEF Logs, ManifestOK
  <2> QED BY <2>1, <2>2
<1>7. ASSUME NEW q \in Paths PROVE Len(log[q]) <= Len(log'[q])
  <2>1. Len(log[q]) \in Nat
    BY <1>1, LenProperties DEF Logs
  <2>2. Len(log[p]) \in Nat
    BY <1>1, LenProperties
  <2>3. CASE q = p
    BY <1>1, <1>2, <1>3, <2>2, <2>3 DEF Logs
  <2>4. CASE q # p
    BY <1>1, <1>3, <2>1, <2>4 DEF Logs
  <2> QED BY <2>3, <2>4
<1> QED BY <1>4, <1>5, <1>6, <1>7 DEF ManifestOK

\* write_file, apply_delta: the entry is stored in the manifest; its chunks are
\* in the store because the call inserted them or found them there.
LEMMA PublishOK == ASSUME Inductive, NEW t \in Threads, Publish(t) PROVE Inductive'
<1> DEFINE c == call[t]
           p == c.path
           new == c.entry = NoEntry
           ver == IF new THEN 0 ELSE c.entry.version + 1
           e == NewEntry(c)
           done == [c EXCEPT !.basis = Len(log[p]) + 1]
           r == [version |-> ver, content |-> Published(c), deleted |-> FALSE]
<1>1. SharedOK /\ c \in Call /\ LocalOK(c, DOMAIN store, log) /\ c.pc = "publish"
  BY LocalsOfThread DEF Publish
<1>2. /\ p \in Paths /\ c.kind \in DeltaKinds \cup {"write"} /\ log \in Logs
      /\ c.kind \in DeltaKinds => c.entry # NoEntry /\ c.basis \in 1..Len(log[p])
      /\ c.entry # NoEntry => StoredIn(c.entry, DOMAIN store)
      /\ \A i \in DOMAIN c.ids : c.ids[i] \in DOMAIN store
  BY <1>1 DEF LocalOK, StageOK, IdsOK, AnsweredPCs, SharedOK, ManifestOK
<1>3. e \in Entry /\ StoredIn(e, DOMAIN store)
  BY <1>1, <1>2, NewEntryType
<1>4. Published(c) \in Seq(AllBytes)
  BY <1>1, <1>2, PublishedType
<1>5. ver \in Nat
  <2>1. c.entry \in Entry \cup {NoEntry}
    BY <1>1 DEF Call
  <2>2. c.entry \in Entry => c.entry.version \in Nat
    BY DEF Entry
  <2> HIDE DEF c
  <2> QED BY <2>1, <2>2
<1>6. Len(log[p]) \in Nat
  BY <1>2, LenProperties DEF Logs
<1>7. r \in LogEntry
  BY <1>4, <1>5 DEF LogEntry
<1>8. /\ done \in Call /\ done.entry = c.entry /\ done.ids = c.ids /\ done.path = p
      /\ done.kind = c.kind
  <2> DEFINE n == Len(log[p]) + 1
  <2>1. n \in Nat
    BY <1>6
  <2> HIDE DEF n
  <2>2. done = [c EXCEPT !.basis = n]
    BY DEF n
  <2> HIDE DEF done, c
  <2> QED BY <1>1, <2>1, <2>2 DEF Call
<1>9. UNCHANGED <<chunkStore, corrections, counters, left>> /\ StoresOK' /\ UNCHANGED store
  BY <1>1 DEF Publish, SharedOK, StoresOK, chunkStore, corrections, counters
<1>10. left' \in [Threads -> Nat]
  BY <1>1, <1>9 DEF SharedOK, ClientOK
<1>11. CASE Fail(t) /\ UNCHANGED <<manifest, known, log>>
  BY <1>9, <1>10, <1>11, LocalStep
<1>12. ASSUME IF new THEN AddFile(p, e) ELSE UpdateFile(p, e, c.entry.version),
              log' = [log EXCEPT ![p] = Append(@, r)],
              IF c.kind = "write"
              THEN /\ Becomes(t, [done EXCEPT !.pc = "bundle", !.ret = ver])
                   /\ UNCHANGED known
              ELSE Answer(t, done, c.ret)
       PROVE  Inductive'
  <2> DEFINE x == IF new THEN e ELSE [e EXCEPT !.version = ver]
  <2>1. files' = [files EXCEPT ![p] = x] /\ manifestVersion' = manifestVersion + 1
    BY <1>12 DEF AddFile, UpdateFile
  <2>2. x \in Entry /\ StoredIn(x, DOMAIN store)
    <3> HIDE DEF e, ver
    <3> QED BY <1>3, <1>5 DEF Entry, StoredIn
  <2>3. ManifestOK /\ manifestVersion' \in Nat
    BY <1>1, <2>1 DEF SharedOK, ManifestOK
  <2> HIDE DEF x, r
  <2>4. ManifestOK' /\ \A q \in Paths : Len(log[q]) <= Len(log'[q])
    BY <1>2, <1>7, <1>9, <1>12, <2>1, <2>2, <2>3, Recorded
  <2>5. CASE c.kind = "write"
    <3> DEFINE d == [done EXCEPT !.pc = "bundle", !.ret = ver]
    <3> HIDE DEF done, ver, e
    <3>1. /\ d \in Call /\ d.pc = "bundle" /\ d.kind = "write" /\ d.path = p
          /\ d.entry = c.entry /\ d.ids = c.ids
      BY <1>5, <1>8, <2>5 DEF Call, PCs
    <3>2. Becomes(t, d) /\ UNCHANGED known
      BY <1>12, <2>5
    <3> HIDE DEF d
    <3>3. LocalOK(d, DOMAIN store', log')
      BY <1>2, <1>9, <3>1 DEF LocalOK, StageOK, IdsOK, AnsweredPCs, EditStages
    <3>4. SharedOK'
      BY <1>1, <1>9, <1>10, <2>4, <3>2 DEF SharedOK, ClientOK
    <3> QED BY <1>9, <2>4, <3>2, <3>3, <3>4, StepOK
  <2>6. CASE c.kind # "write"
    <3>1. Answer(t, done, c.ret) /\ c.ret \in Nat
      BY <1>1, <1>12, <2>6 DEF Call
    <3> HIDE DEF done
    <3> QED BY <1>8, <1>9, <1>10, <2>4, <3>1, AnswerOK
  <2> QED BY <2>5, <2>6
<1>13. \/ Fail(t) /\ UNCHANGED <<manifest, known, log>>
       \/ /\ IF new THEN AddFile(p, e) ELSE UpdateFile(p, e, c.entry.version)
          /\ log' = [log EXCEPT ![p] = Append(@, r)]
          /\ IF c.kind = "write"
             THEN /\ Becomes(t, [done EXCEPT !.pc = "bundle", !.ret = ver])
                  /\ UNCHANGED known
             ELSE Answer(t, done, c.ret)
  BY DEF Publish
<1> QED BY <1>11, <1>12, <1>13
-----------------------------------------------------------------------------
(* delete_file and compaction *)

\* delete_file: the entry keeps its chunks and is marked.
LEMMA StartDeleteOK ==
  ASSUME Inductive, NEW t \in Threads, NEW p \in Paths, NEW v \in Expectations(t, p),
         StartDelete(t, p, v)
  PROVE  Inductive'
<1>1. left' \in [Threads -> Nat]
  BY SpendOK DEF StartDelete
<1>2. SharedOK /\ v \in Nat
  BY LocalsOfThread, ExpectationType DEF StartDelete
<1>3. CASE Fail(t) /\ UNCHANGED <<files, manifestVersion, log>>
  BY <1>1, <1>3, LocalStep DEF StartDelete, manifest
<1> DEFINE e == [files[p] EXCEPT !.deleted = TRUE, !.version = v + 1]
           r == [version |-> v + 1, content |-> Last(log[p]).content, deleted |-> TRUE]
           b == Begun("delete", p, "count")
<1>4. ASSUME CanUpdate(p, v), files' = [files EXCEPT ![p].deleted = TRUE, ![p].version = v + 1],
             manifestVersion' = manifestVersion + 1,
             log' = [log EXCEPT ![p] = Append(@, r)], Becomes(t, b)
      PROVE  Inductive'
  <2>1. /\ b \in Call /\ b.pc = "count" /\ b.kind = "delete" /\ b.path = p
        /\ b.entry = files[p] /\ b.ids = <<>>
        /\ files[p] \in Entry /\ StoredIn(files[p], DOMAIN store)
        /\ Len(log[p]) \in Nat \ {0}
    BY <1>4, BegunType DEF PCs, AllKinds, CanUpdate
  <2>2. e \in Entry /\ StoredIn(e, DOMAIN store)
    <3> DEFINE next == v + 1
    <3>1. next \in Nat
      BY <1>2
    <3> HIDE DEF next
    <3>2. \A f \in Entry : /\ [f EXCEPT !.deleted = TRUE, !.version = next] \in Entry
                           /\ [f EXCEPT !.deleted = TRUE, !.version = next].chunks = f.chunks
      BY <3>1 DEF Entry
    <3>3. e = [files[p] EXCEPT !.deleted = TRUE, !.version = next]
      BY DEF next
    <3>4. e \in Entry /\ e.chunks = files[p].chunks
      BY <2>1, <3>2, <3>3
    <3> HIDE DEF e
    <3> QED BY <2>1, <3>4 DEF StoredIn
  <2>3. log \in Logs /\ files \in [Paths -> Entry \cup {NoEntry}] /\ ManifestOK
    BY <1>2 DEF SharedOK, ManifestOK
  <2>4. r \in LogEntry
    <3>1. log[p] \in Seq(LogEntry)
      BY <2>3 DEF Logs
    <3>2. Last(log[p]) \in LogEntry
      BY <2>1, <3>1, ElementOfSeq DEF Last
    <3> QED BY <1>2, <3>2 DEF LogEntry
  <2>5. files' = [files EXCEPT ![p] = e]
    BY <1>4, <2>3
  <2>6. manifestVersion' \in Nat
    BY <1>4, <2>3 DEF ManifestOK
  <2>7. /\ StoresOK' /\ UNCHANGED <<store, known>>
    BY <1>2 DEF StartDelete, SharedOK, StoresOK, chunkStore, corrections, counters
  <2> HIDE DEF e, r, b
  <2>8. ManifestOK' /\ \A q \in Paths : Len(log[q]) <= Len(log'[q])
    BY <1>4, <2>2, <2>3, <2>4, <2>5, <2>6, <2>7, Recorded
  <2>9. LocalOK(b, DOMAIN store', log')
    BY <2>1, <2>7 DEF LocalOK, StageOK, IdsOK, AnsweredPCs, WriteStages, EditStages
  <2>10. SharedOK'
    BY <1>1, <1>2, <2>7, <2>8 DEF SharedOK, ClientOK
  <2> QED BY <1>4, <2>7, <2>8, <2>9, <2>10, StepOK
<1>5. \/ Fail(t) /\ UNCHANGED <<files, manifestVersion, log>>
      \/ /\ CanUpdate(p, v)
         /\ files' = [files EXCEPT ![p].deleted = TRUE, ![p].version = v + 1]
         /\ manifestVersion' = manifestVersion + 1
         /\ log' = [log EXCEPT ![p] = Append(@, r)]
         /\ Becomes(t, b)
  BY DEF StartDelete
<1> QED BY <1>3, <1>4, <1>5

\* compact: a call that begins holds nothing.
LEMMA StartCompactOK ==
  ASSUME Inductive, NEW t \in Threads, StartCompact(t) PROVE Inductive'
<1> DEFINE c == [Idle EXCEPT !.pc = "compact", !.kind = "compact", !.expected = manifestVersion]
<1>1. manifestVersion \in Nat
  BY LocalsOfThread DEF SharedOK, ManifestOK
<1>2. left' \in [Threads -> Nat]
  BY SpendOK DEF StartCompact
<1>3. /\ c \in Call /\ c.pc = "compact" /\ c.kind = "compact" /\ c.entry = NoEntry
      /\ c.ids = <<>>
  <2>1. "compact" \in PCs /\ "compact" \in AllKinds
    BY DEF PCs, AllKinds
  <2>2. c \in Call
    BY <1>1, <2>1, IdleType DEF Call
  <2>3. c.pc = "compact" /\ c.kind = "compact" /\ c.entry = NoEntry /\ c.ids = <<>>
    BY IdleType DEF Call
  <2> QED BY <2>2, <2>3
<1>4. Becomes(t, c)
  BY DEF StartCompact
<1> HIDE DEF c
<1>5. LocalOK(c, DOMAIN store, log)
  BY <1>3 DEF LocalOK, StageOK, IdsOK, AnsweredPCs, WriteStages, EditStages
<1> QED BY <1>2, <1>4, <1>5, LocalStep DEF StartCompact

\* compact: entries only go.
LEMMA CompactOK == ASSUME Inductive, NEW t \in Threads, Compact(t) PROVE Inductive'
<1> DEFINE gone == {p \in Paths : files[p] # NoEntry /\ files[p].deleted}
<1>1. SharedOK /\ call[t] \in Call /\ left' \in [Threads -> Nat]
  BY LocalsOfThread DEF Compact, SharedOK, ClientOK
<1>2. CASE Fail(t) /\ UNCHANGED <<manifest, known>>
  BY <1>1, <1>2, LocalStep DEF Compact
<1>3. ASSUME files' = [p \in Paths |-> IF p \in gone THEN NoEntry ELSE files[p]],
             manifestVersion' = manifestVersion + IF gone = {} THEN 0 ELSE 1,
             Answer(t, call[t], 0)
      PROVE  Inductive'
  <2>1. UNCHANGED <<store, log>> /\ \A p \in Paths : Len(log[p]) \in Nat
    BY <1>1, LenProperties DEF Compact, chunkStore, SharedOK, ManifestOK, Logs
  <2>2. StoresOK'
    BY <1>1 DEF Compact, SharedOK, StoresOK, chunkStore, corrections, counters
  <2> HIDE DEF gone
  <2>3. ManifestOK'
    BY <1>1, <1>3, <2>1 DEF SharedOK, ManifestOK, StoredIn
  <2> QED BY <1>1, <1>3, <2>1, <2>2, <2>3, AnswerOK
<1>4. \/ Fail(t) /\ UNCHANGED <<manifest, known>>
      \/ /\ files' = [p \in Paths |-> IF p \in gone THEN NoEntry ELSE files[p]]
         /\ manifestVersion' = manifestVersion + IF gone = {} THEN 0 ELSE 1
         /\ Answer(t, call[t], 0)
  BY DEF Compact
<1> QED BY <1>2, <1>3, <1>4
-----------------------------------------------------------------------------
(* read_file *)

\* read_file: the lookup.
LEMMA StartReadOK ==
  ASSUME Inductive, NEW t \in Threads, NEW p \in Paths, StartRead(t, p) PROVE Inductive'
<1> DEFINE c == [Begun("read", p, "readChunk") EXCEPT !.ids = files[p].chunks]
<1>1. left' \in [Threads -> Nat]
  BY SpendOK DEF StartRead
<1>2. CASE Fail(t) /\ UNCHANGED known
  BY <1>1, <1>2, LocalStep DEF StartRead
<1>3. CASE Exists(p) /\ Answer(t, Begun("read", p, "ok"), files[p].version)
  <2>1. Begun("read", p, "ok") \in Call /\ files[p] \in Entry
    BY <1>3, PCNames, BegunType DEF Exists
  <2>2. files[p].version \in Nat
    BY <2>1 DEF Entry
  <2> QED BY <1>1, <1>3, <2>1, <2>2, LocalStep DEF StartRead
<1>4. CASE Exists(p) /\ files[p].chunks # <<>> /\ Becomes(t, c) /\ UNCHANGED known
  <2> DEFINE b == Begun("read", p, "readChunk")
  <2>1. /\ b \in Call /\ b.pc = "readChunk" /\ b.kind = "read" /\ b.path = p
        /\ b.entry = files[p] /\ files[p] \in Entry /\ files[p] # NoEntry
        /\ StoredIn(files[p], DOMAIN store)
    BY <1>4, PCNames, BegunType DEF Exists
  <2>2. files[p].chunks \in Seq(Nat)
    BY <2>1 DEF Entry
  <2> HIDE DEF b
  <2>3. /\ c \in Call /\ c.pc = "readChunk" /\ c.kind = "read" /\ c.path = p
        /\ c.entry = files[p] /\ c.ids = files[p].chunks
    BY <2>1, <2>2 DEF Call, b
  <2> HIDE DEF c
  <2>4. LocalOK(c, DOMAIN store, log)
    BY <1>4, <2>1, <2>3 DEF LocalOK, StageOK, IdsOK, AnsweredPCs, WriteStages, EditStages
  <2> QED BY <1>1, <1>4, <2>4, LocalStep DEF StartRead
<1> QED BY <1>2, <1>3, <1>4 DEF StartRead

\* read_file: the next chunk is in the store, so the call goes on.
LEMMA ReadChunkOK == ASSUME Inductive, NEW t \in Threads, ReadChunk(t) PROVE Inductive'
<1> DEFINE id == Head(call[t].ids)
           c == [call[t] EXCEPT !.pc = "readCorrection", !.chunk = store[id]]
<1>1. /\ SharedOK /\ call[t] \in Call /\ LocalOK(call[t], DOMAIN store, log)
      /\ left' \in [Threads -> Nat] /\ UNCHANGED known
  BY LocalsOfThread DEF ReadChunk, SharedOK, ClientOK, client
<1>2. CASE Fail(t)
  BY <1>1, <1>2, LocalStep DEF ReadChunk
<1>3. CASE id \in DOMAIN store /\ Becomes(t, c)
  <2>1. store[id] \in Seq(AllBytes)
    BY <1>1, <1>3 DEF SharedOK, StoresOK
  <2> HIDE DEF id
  <2>2. /\ c \in Call /\ c.pc = "readCorrection" /\ c.kind = call[t].kind
        /\ c.path = call[t].path /\ c.entry = call[t].entry /\ c.ids = call[t].ids
    BY <1>1, <2>1 DEF Call, PCs
  <2> HIDE DEF c
  <2>3. LocalOK(c, DOMAIN store, log)
    BY <1>1, <2>2 DEF ReadChunk, LocalOK, StageOK, IdsOK, AnsweredPCs, WriteStages, EditStages
  <2> QED BY <1>1, <1>3, <2>3, LocalStep DEF ReadChunk
<1> QED BY <1>2, <1>3 DEF ReadChunk

\* What the vector and a correction, of that chunk or of another, give back is
\* bytes.
LEMMA CorrectedType ==
  ASSUME NEW chunk \in Seq(AllBytes), NEW id,
         id \in DOMAIN corr => corr[id] \in Seq(AllBytes)
  PROVE  Corrected(chunk, id) \in Seq(AllBytes) /\ LegacyBytes(chunk, id) \in Seq(AllBytes)
<1>1. /\ Len(chunk) \in Nat /\ DOMAIN chunk = 1..Len(chunk) /\ Garbage \in AllBytes
      /\ \A i \in 1..Len(chunk) : chunk[i] \in AllBytes
  BY LenProperties DEF AllBytes
<1>2. Wrong(chunk) \in Seq(AllBytes)
  <2>1. Wrong(chunk) \in [1..Len(chunk) -> AllBytes]
    BY <1>1 DEF Wrong
  <2> QED BY <1>1, <2>1, SeqOfFunction
<1>3. Decode(chunk) \in Seq(AllBytes)
  <2>1. Decode(chunk) \in [1..Len(chunk) -> AllBytes]
    BY <1>1 DEF Decode
  <2> QED BY <1>1, <2>1, SeqOfFunction
<1>4. ASSUME id \in DOMAIN corr PROVE Apply(corr[id], chunk) \in Seq(AllBytes)
  BY <1>2, <1>3, <1>4 DEF Apply
<1>5. Corrected(chunk, id) \in Seq(AllBytes)
  BY <1>3, <1>4 DEF Corrected
<1> QED BY <1>2, <1>5 DEF LegacyBytes

\* read_file: the correction is applied, and the call goes on or answers.
LEMMA ReadCorrectionOK ==
  ASSUME Inductive, NEW t \in Threads, ReadCorrection(t) PROVE Inductive'
<1> DEFINE c == call[t]
           data == c.data \o Corrected(c.chunk, Head(c.ids))
           more == [c EXCEPT !.pc = "readChunk", !.ids = Tail(@), !.chunk = <<>>, !.data = data]
           cut == SubSeq(data, 1, MinOf(c.entry.size, Len(data)))
           last == [c EXCEPT !.data = cut]
<1>1. /\ c \in Call /\ LocalOK(c, DOMAIN store, log) /\ c.pc = "readCorrection"
      /\ left' \in [Threads -> Nat]
  BY LocalsOfThread DEF ReadCorrection, SharedOK, ClientOK
<1>2. /\ c.kind = "read" /\ c.ids # <<>> /\ c.entry # NoEntry /\ c.path \in Paths
      /\ StoredIn(c.entry, DOMAIN store)
  BY <1>1 DEF LocalOK, StageOK, AnsweredPCs
<1>3. c.entry \in Entry /\ c.ids \in Seq(Nat) /\ c.data \in Seq(AllBytes)
  BY <1>1, <1>2 DEF Call
<1>4. data \in Seq(AllBytes)
  <2>1. Corrected(c.chunk, Head(c.ids)) \in Seq(AllBytes)
    BY <1>1, CorrectedType DEF Call, Inductive, TypeOK
  <2> QED BY <1>3, <2>1, ConcatProperties
<1>5. CASE Len(c.ids) > 1 /\ Becomes(t, more) /\ UNCHANGED known
  <2> DEFINE rest == Tail(c.ids)
  <2>1. rest \in Seq(Nat) /\ Len(rest) = Len(c.ids) - 1
    BY <1>2, <1>3, HeadTailProperties
  <2>2. rest # <<>>
    <3>1. Len(c.ids) \in Nat /\ Len(c.ids) > 1
      BY <1>3, <1>5, LenProperties
    <3> DEFINE n == Len(c.ids)
               m == Len(rest)
    <3>2. n \in Nat /\ n > 1 /\ m = n - 1
      BY <2>1, <3>1
    <3> HIDE DEF n, m
    <3>3. m # 0
      BY <3>2
    <3> QED BY <3>3, EmptySeq DEF m
  <2>3. <<>> \in Seq(AllBytes)
    BY EmptySeq
  <2> HIDE DEF data, rest
  <2>4. more = [c EXCEPT !.pc = "readChunk", !.ids = rest, !.chunk = <<>>, !.data = data]
    BY DEF rest
  <2> HIDE DEF more
  <2>5. /\ more \in Call /\ more.pc = "readChunk" /\ more.kind = "read"
        /\ more.path = c.path /\ more.entry = c.entry /\ more.ids = rest
    <3> HIDE DEF c
    <3> QED BY <1>1, <1>2, <1>4, <2>1, <2>3, <2>4 DEF Call, PCs
  <2>6. LocalOK(more, DOMAIN store, log)
    BY <1>2, <2>2, <2>5 DEF LocalOK, StageOK, IdsOK, AnsweredPCs, WriteStages, EditStages
  <2> QED BY <1>1, <1>5, <2>6, LocalStep DEF ReadCorrection
<1>6. CASE Answer(t, last, c.entry.version)
  <2>1. c.entry.size \in Nat /\ c.entry.version \in Nat
    BY <1>3 DEF Entry
  <2>2. cut \in Seq(AllBytes)
    <3> HIDE DEF data
    <3>1. \A n \in Int : SubSeq(data, 1, MinOf(n, Len(data))) \in Seq(AllBytes)
      BY <1>4, Prefix
    <3>2. c.entry.size \in Int
      BY <2>1
    <3> QED BY <3>1, <3>2
  <2> HIDE DEF cut
  <2>3. last \in Call
    BY <1>1, <2>2 DEF Call
  <2> HIDE DEF last
  <2> QED BY <1>1, <1>6, <2>1, <2>3, LocalStep DEF ReadCorrection
<1>7. \/ Len(c.ids) > 1 /\ Becomes(t, more) /\ UNCHANGED known
      \/ Answer(t, last, c.entry.version)
  BY DEF ReadCorrection
<1> QED BY <1>5, <1>6, <1>7
-----------------------------------------------------------------------------
(* apply_delta *)

\* The bytes appended to the last chunk are some of those there are, and only
\* a file with chunks has a last chunk.
LEMMA FillBounds ==
  ASSUME NEW e \in Entry, NEW data \in Seq(AllBytes)
  PROVE  /\ Fill(e, data) \in Nat /\ Fill(e, data) <= Len(data)
         /\ Fill(e, data) > 0 => e.chunks # <<>>
<1>1. e.size \in Nat /\ Len(data) \in Nat
  BY LenProperties DEF Entry
<1>2. LastBytes(e) \in Nat /\ LastBytes(e) <= ChunkSize
  <2>1. CASE e.size = 0
    BY <2>1, ChunkSizeAssumption DEF LastBytes
  <2>2. CASE e.size # 0
    <3>1. (e.size - 1) % ChunkSize \in 0..(ChunkSize - 1)
      BY <1>1, <2>2, ChunkSizeAssumption
    <3> QED BY <2>2, <3>1, ChunkSizeAssumption DEF LastBytes
  <2> QED BY <2>1, <2>2
<1> QED BY <1>1, <1>2, ChunkSizeAssumption DEF Fill, MinOf

\* The chunks to rewrite are chunks of the file.
LEMMA RewrittenType ==
  ASSUME NEW c \in Call, c.entry # NoEntry, c.kind \in DeltaKinds
  PROVE  Rewritten(c) \subseteq DOMAIN c.entry.chunks /\ Rewritten(c) \in SUBSET Nat
<1>1. c.entry \in Entry /\ c.data \in Seq(AllBytes)
  BY DEF Call
<1>2. c.entry.chunks \in Seq(Nat)
  BY <1>1 DEF Entry
<1> DEFINE n == Len(c.entry.chunks)
<1>3. n \in Nat /\ DOMAIN c.entry.chunks = 1..n /\ (c.entry.chunks # <<>> => n # 0)
  BY <1>2, LenProperties, EmptySeq
<1> HIDE DEF n
<1>4. CASE c.kind = "replace"
  <2>1. Rewritten(c) \subseteq DOMAIN c.entry.chunks
    BY <1>4 DEF Rewritten
  <2> QED BY <1>3, <2>1
<1>5. CASE c.kind = "append"
  <2>1. Rewritten(c) = IF Fill(c.entry, c.data) > 0 THEN {n} ELSE {}
    BY <1>5 DEF Rewritten, n
  <2>2. Fill(c.entry, c.data) > 0 => n # 0
    BY <1>1, <1>3, FillBounds
  <2> QED BY <1>3, <2>1, <2>2
<1>6. CASE c.kind = "truncate"
  <2>1. Rewritten(c) = IF c.length % ChunkSize # 0 /\ Kept(c) > 0 THEN {Kept(c)} ELSE {}
    BY <1>6 DEF Rewritten
  <2>2. Kept(c) \in Nat /\ Kept(c) <= n
    BY KeptBounds DEF n
  <2> QED BY <1>3, <2>1, <2>2
<1> QED BY <1>4, <1>5, <1>6 DEF DeltaKinds

\* apply_delta: the lookup and the analysis.
LEMMA StartDeltaOK ==
  ASSUME Inductive, NEW t \in Threads, NEW p \in Paths, NEW kind \in DeltaKinds,
         NEW data \in Seq(AllBytes), NEW changes \in SUBSET Change, NEW length \in Nat,
         NEW v, StartDelta(t, p, kind, data, changes, length, v)
  PROVE  Inductive'
<1> DEFINE b == Begun(kind, p, "edit")
           c == [b EXCEPT !.data = data, !.changes = changes, !.length = length]
           d == [c EXCEPT !.todo = Rewritten(c)]
<1>1. left' \in [Threads -> Nat]
  BY SpendOK DEF StartDelta
<1>2. CASE Fail(t) /\ UNCHANGED known
  BY <1>1, <1>2, LocalStep DEF StartDelta
<1>3. ASSUME Exists(p)
      PROVE  /\ c \in Call /\ c.pc = "edit" /\ c.kind = kind /\ c.path = p
             /\ c.entry = files[p] /\ c.ids = <<>> /\ c.basis = Len(log[p])
             /\ files[p] \in Entry /\ files[p] # NoEntry /\ files[p].version \in Nat
             /\ StoredIn(files[p], DOMAIN store) /\ Len(log[p]) \in Nat \ {0}
  <2>1. /\ b \in Call /\ b.pc = "edit" /\ b.kind = kind /\ b.path = p
        /\ b.entry = files[p] /\ b.ids = <<>> /\ b.basis = Len(log[p])
        /\ files[p] # NoEntry /\ files[p] \in Entry /\ StoredIn(files[p], DOMAIN store)
        /\ Len(log[p]) \in Nat \ {0}
    BY <1>3, BegunType DEF PCs, AllKinds, DeltaKinds, Exists
  <2> HIDE DEF b
  <2>2. files[p].version \in Nat
    BY <2>1 DEF Entry
  <2>3. /\ c \in Call /\ c.pc = b.pc /\ c.kind = b.kind /\ c.path = b.path
        /\ c.entry = b.entry /\ c.ids = b.ids /\ c.basis = b.basis
    BY <2>1 DEF Call
  <2> HIDE DEF c
  <2> QED BY <2>1, <2>2, <2>3
<1>4. CASE Exists(p) /\ Answer(t, c, files[p].version)
  <2> HIDE DEF c
  <2> QED BY <1>1, <1>3, <1>4, LocalStep DEF StartDelta
<1>5. CASE Exists(p) /\ Becomes(t, d) /\ UNCHANGED known
  <2> DEFINE todo == Rewritten(c)
  <2> HIDE DEF c
  <2>1. todo \subseteq DOMAIN c.entry.chunks /\ todo \in SUBSET Nat
    BY <1>3, <1>5, RewrittenType
  <2> HIDE DEF todo
  <2>2. d = [c EXCEPT !.todo = todo]
    BY DEF todo
  <2> HIDE DEF d
  <2>3. /\ d \in Call /\ d.pc = "edit" /\ d.kind = kind /\ d.path = p
        /\ d.entry = files[p] /\ d.ids = <<>> /\ d.basis = Len(log[p]) /\ d.todo = todo
    BY <1>3, <1>5, <2>1, <2>2 DEF Call
  <2>4. StageOK(d, log)
    BY <1>3, <1>5, <2>1, <2>3 DEF StageOK, WriteStages, AnsweredPCs
  <2>5. LocalOK(d, DOMAIN store, log)
    BY <1>3, <1>5, <2>3, <2>4 DEF LocalOK, IdsOK
  <2> QED BY <1>1, <1>5, <2>5, LocalStep DEF StartDelta
<1>6. \/ Fail(t) /\ UNCHANGED known
      \/ Exists(p) /\ Answer(t, c, files[p].version)
      \/ Exists(p) /\ Becomes(t, d) /\ UNCHANGED known
  BY DEF StartDelta
<1> QED BY <1>2, <1>4, <1>5, <1>6

\* What an editing call holds: the entry it edits, and the chunks to rewrite.
LEMMA Editing ==
  ASSUME Inductive, NEW t \in Threads, call[t].pc \in EditStages
  PROVE  /\ call[t] \in Call /\ StageOK(call[t], log) /\ IdsOK(call[t], DOMAIN store)
         /\ call[t].kind \in DeltaKinds /\ call[t].path \in Paths
         /\ call[t].entry \in Entry /\ call[t].entry # NoEntry
         /\ StoredIn(call[t].entry, DOMAIN store)
         /\ call[t].basis \in 1..Len(log[call[t].path])
         /\ call[t].todo \subseteq DOMAIN call[t].entry.chunks
         /\ SharedOK /\ left \in [Threads -> Nat]
<1>1. SharedOK /\ call[t] \in Call /\ LocalOK(call[t], DOMAIN store, log)
  BY LocalsOfThread
<1> QED BY <1>1 DEF LocalOK, StageOK, AnsweredPCs, EditStages, Call, SharedOK, ClientOK

\* An editing call that goes on editing, or on to publish, keeps what it holds.
LEMMA EditorMoves ==
  ASSUME Inductive, NEW t \in Threads, call[t].pc \in EditStages,
         NEW c \in Call, c.pc \in EditStages \cup {"publish"},
         c.kind = call[t].kind, c.path = call[t].path, c.entry = call[t].entry,
         c.basis = call[t].basis, c.todo \subseteq call[t].todo,
         NEW D, DOMAIN store \subseteq D, IdsOK(c, D)
  PROVE  LocalOK(c, D, log)
<1>1. StageOK(c, log)
  BY Editing DEF StageOK, WriteStages, EditStages, AnsweredPCs
<1>2. StoredIn(c.entry, D)
  BY Editing DEF StoredIn
<1> QED BY <1>1, <1>2 DEF LocalOK

\* apply_delta: a chunk of the entry is fetched.
LEMMA EditChunkOK ==
  ASSUME Inductive, NEW t \in Threads, NEW k, EditChunk(t, k) PROVE Inductive'
<1> DEFINE id == call[t].entry.chunks[k]
           c == [call[t] EXCEPT !.pc = "editCorrection", !.todo = @ \ {k}, !.id = id,
                                !.chunk = store[id], !.at = k]
<1>1. /\ call[t].pc = "edit" /\ k \in call[t].todo
      /\ left' \in [Threads -> Nat] /\ UNCHANGED known
  BY LocalsOfThread DEF EditChunk, SharedOK, ClientOK, client
<1>2. CASE Fail(t)
  BY <1>1, <1>2, LocalStep DEF EditChunk
<1>3. CASE id \in DOMAIN store /\ Becomes(t, c)
  <2>1. /\ call[t] \in Call /\ IdsOK(call[t], DOMAIN store) /\ SharedOK
    BY <1>1, Editing DEF EditStages
  <2>2. store[id] \in Seq(AllBytes) /\ id \in Nat /\ k \in Nat
    BY <1>1, <1>3, <2>1 DEF SharedOK, StoresOK, Call
  <2> DEFINE rest == call[t].todo \ {k}
  <2>3. rest \in SUBSET Nat /\ rest \subseteq call[t].todo
    BY <2>1 DEF Call
  <2> HIDE DEF id, rest
  <2>4. c = [call[t] EXCEPT !.pc = "editCorrection", !.todo = rest, !.id = id,
                            !.chunk = store[id], !.at = k]
    BY DEF rest
  <2> HIDE DEF c
  <2>5. /\ c \in Call /\ c.pc = "editCorrection" /\ c.kind = call[t].kind
        /\ c.path = call[t].path /\ c.entry = call[t].entry /\ c.basis = call[t].basis
        /\ c.todo = rest /\ c.ids = call[t].ids
    BY <2>1, <2>2, <2>3, <2>4 DEF Call, PCs
  <2>6. IdsOK(c, DOMAIN store)
    BY <1>1, <2>1, <2>5 DEF IdsOK
  <2>7. LocalOK(c, DOMAIN store, log)
    BY <1>1, <2>3, <2>5, <2>6, EditorMoves DEF EditStages
  <2> QED BY <1>1, <1>3, <2>7, LocalStep DEF EditChunk
<1> QED BY <1>2, <1>3 DEF EditChunk

\* The edit of a chunk gives bytes.
LEMMA EditedType ==
  ASSUME NEW c \in Call, c.entry # NoEntry, c.kind \in DeltaKinds, NEW k,
         NEW bytes \in Seq(AllBytes)
  PROVE  Edited(c, k, bytes) \in Seq(AllBytes)
<1>1. /\ c.entry \in Entry /\ c.data \in Seq(AllBytes) /\ c.changes \in SUBSET Change
      /\ c.length \in Nat
  BY DEF Call
<1>2. CASE c.kind = "replace"
  <2>1. Edited(c, k, bytes) = Replaced(bytes, c.changes, (k - 1) * ChunkSize)
    BY <1>2 DEF Edited
  <2> QED BY <1>1, <2>1, ReplacedType
<1>3. CASE c.kind = "append"
  <2>1. Edited(c, k, bytes) = bytes \o SubSeq(c.data, 1, Fill(c.entry, c.data))
    BY <1>3 DEF Edited
  <2>2. Fill(c.entry, c.data) \in Nat /\ Fill(c.entry, c.data) <= Len(c.data)
    BY <1>1, FillBounds
  <2>3. SubSeq(c.data, 1, Fill(c.entry, c.data)) \in Seq(AllBytes)
    BY <1>1, <2>2, Part
  <2> QED BY <2>1, <2>3, ConcatProperties
<1>4. CASE c.kind = "truncate"
  <2>1. Edited(c, k, bytes) = SubSeq(bytes, 1, MinOf(c.length % ChunkSize, Len(bytes)))
    BY <1>4 DEF Edited
  <2>2. c.length % ChunkSize \in Int
    BY <1>1, ChunkSizeAssumption
  <2> QED BY <2>1, <2>2, Prefix
<1> QED BY <1>2, <1>3, <1>4 DEF DeltaKinds

\* apply_delta: its bytes are changed.
LEMMA EditBytesOK ==
  ASSUME Inductive, NEW t \in Threads, EditBytes(t) PROVE Inductive'
<1> DEFINE bytes == Edited(call[t], call[t].at, LegacyBytes(call[t].chunk, call[t].id))
           c == [call[t] EXCEPT !.pc = "editVersion", !.chunk = bytes]
<1>1. call[t].pc = "editCorrection" /\ Becomes(t, c)
  BY DEF EditBytes
<1>2. /\ call[t] \in Call /\ IdsOK(call[t], DOMAIN store) /\ left \in [Threads -> Nat]
      /\ call[t].entry # NoEntry /\ call[t].kind \in DeltaKinds
  BY <1>1, Editing DEF EditStages
<1>3. bytes \in Seq(AllBytes)
  <2>1. LegacyBytes(call[t].chunk, call[t].id) \in Seq(AllBytes)
    BY <1>2, CorrectedType DEF Call, Inductive, TypeOK
  <2> QED BY <1>2, <2>1, EditedType
<1> HIDE DEF bytes
<1>4. /\ c \in Call /\ c.pc = "editVersion" /\ c.kind = call[t].kind
      /\ c.path = call[t].path /\ c.entry = call[t].entry /\ c.basis = call[t].basis
      /\ c.todo = call[t].todo /\ c.ids = call[t].ids
  BY <1>2, <1>3 DEF Call, PCs
<1> HIDE DEF c
<1>5. IdsOK(c, DOMAIN store)
  BY <1>1, <1>2, <1>4 DEF IdsOK
<1>6. LocalOK(c, DOMAIN store, log)
  BY <1>1, <1>4, <1>5, EditorMoves DEF EditStages
<1> QED BY <1>1, <1>2, <1>6, LocalStep DEF EditBytes, client

\* apply_append: an id for a chunk that will be stored next.
LEMMA NewChunkOK == ASSUME Inductive, NEW t \in Threads, NewChunk(t) PROVE Inductive'
<1> DEFINE ids == Append(call[t].ids, nextId)
           placed == Placed(call[t])
           data == call[t].data
           bytes == SubSeq(data, placed + 1, MinOf(placed + ChunkSize, Len(data)))
           c == [call[t] EXCEPT !.pc = "editVersion", !.id = nextId, !.ids = ids,
                                !.chunk = bytes]
<1>1. call[t].pc = "edit" /\ Becomes(t, c) /\ nextId' = nextId + 1
  BY DEF NewChunk
<1>2. /\ call[t] \in Call /\ IdsOK(call[t], DOMAIN store) /\ SharedOK
      /\ call[t].entry \in Entry
  BY <1>1, Editing DEF EditStages
<1>3. nextId \in Nat /\ call[t].ids \in Seq(Nat) /\ data \in Seq(AllBytes)
  BY <1>2 DEF SharedOK, StoresOK, Call
<1>4. /\ ids \in Seq(Nat) /\ Len(ids) = Len(call[t].ids) + 1 /\ Len(call[t].ids) \in Nat
      /\ \A i \in 1..Len(call[t].ids) : ids[i] = call[t].ids[i]
      /\ ids[Len(call[t].ids) + 1] = nextId
  BY <1>3, AppendProperties, LenProperties
<1>5. DOMAIN ids = 1..(Len(call[t].ids) + 1) /\ DOMAIN call[t].ids = 1..Len(call[t].ids)
  BY <1>3, <1>4, LenProperties
<1>6. bytes \in Seq(AllBytes)
  <2>1. placed \in Nat
    <3>1. Fill(call[t].entry, data) \in Nat
      BY <1>2, <1>3, FillBounds
    <3>2. Len(call[t].ids) * ChunkSize \in Nat
      BY <1>4, ChunkSizeAssumption
    <3> QED BY <3>1, <3>2 DEF Placed
  <2> HIDE DEF placed
  <2>2. Len(data) \in Nat
    BY <1>3, LenProperties
  <2>3. /\ placed + 1 \in Nat \ {0} /\ MinOf(placed + ChunkSize, Len(data)) \in Int
        /\ MinOf(placed + ChunkSize, Len(data)) <= Len(data)
    BY <2>1, <2>2, ChunkSizeAssumption DEF MinOf
  <2> QED BY <1>3, <2>3, Part
<1> HIDE DEF ids, bytes
<1>7. /\ c \in Call /\ c.pc = "editVersion" /\ c.kind = call[t].kind
      /\ c.path = call[t].path /\ c.entry = call[t].entry /\ c.basis = call[t].basis
      /\ c.todo = call[t].todo /\ c.ids = ids /\ c.id = nextId
  BY <1>2, <1>3, <1>4, <1>6 DEF Call, PCs
<1> HIDE DEF c
<1>8. IdsOK(c, DOMAIN store)
  <2>1. \A i \in DOMAIN call[t].ids : call[t].ids[i] \in DOMAIN store
    BY <1>1, <1>2 DEF IdsOK
  <2>2. \A i \in DOMAIN ids : ids[i] \in DOMAIN store \cup {nextId}
    <3> DEFINE n == Len(call[t].ids)
    <3>1. n \in Nat /\ \A i \in 1..(n + 1) : i \in 1..n \/ i = n + 1
      BY <1>4, LenProperties
    <3>2. \A i \in 1..n : ids[i] \in DOMAIN store
      BY <1>4, <1>5, <2>1
    <3>3. DOMAIN ids = 1..(n + 1) /\ ids[n + 1] = nextId
      BY <1>4, <1>5
    <3> HIDE DEF n
    <3> QED BY <3>1, <3>2, <3>3
  <2> QED BY <1>7, <2>2 DEF IdsOK
<1>9. LocalOK(c, DOMAIN store, log)
  BY <1>1, <1>7, <1>8, EditorMoves DEF EditStages
<1>10. SharedOK'
  <2>1. nextId' \in Nat
    BY <1>1, <1>3
  <2> QED BY <1>2, <2>1 DEF NewChunk, SharedOK, ManifestOK, StoresOK, ClientOK, manifest,
               chunkStore, corrections, client
<1>11. UNCHANGED <<store, log>> /\ \A p \in Paths : Len(log[p]) \in Nat
  BY <1>2, LenProperties DEF NewChunk, chunkStore, SharedOK, ManifestOK, Logs
<1> QED BY <1>1, <1>9, <1>10, <1>11, StepOK

\* apply_delta: the version of the chunk store is read.
LEMMA ReadStoreVersionOK ==
  ASSUME Inductive, NEW t \in Threads, ReadStoreVersion(t) PROVE Inductive'
<1> DEFINE c == [call[t] EXCEPT !.pc = "editInsert", !.storeVer = storeVersion]
<1>1. call[t].pc = "editVersion" /\ Becomes(t, c)
  BY DEF ReadStoreVersion
<1>2. /\ call[t] \in Call /\ IdsOK(call[t], DOMAIN store) /\ left \in [Threads -> Nat]
      /\ storeVersion \in Nat
  BY <1>1, Editing DEF EditStages, SharedOK, StoresOK
<1>3. /\ c \in Call /\ c.pc = "editInsert" /\ c.kind = call[t].kind
      /\ c.path = call[t].path /\ c.entry = call[t].entry /\ c.basis = call[t].basis
      /\ c.todo = call[t].todo /\ c.ids = call[t].ids /\ c.id = call[t].id
  BY <1>2 DEF Call, PCs
<1> HIDE DEF c
<1>4. IdsOK(c, DOMAIN store)
  BY <1>1, <1>2, <1>3 DEF IdsOK
<1>5. LocalOK(c, DOMAIN store, log)
  BY <1>1, <1>3, <1>4, EditorMoves DEF EditStages
<1> QED BY <1>1, <1>2, <1>5, LocalStep DEF ReadStoreVersion, client

\* apply_delta: the chunk is stored, or the call fails.
LEMMA InsertEditedOK ==
  ASSUME Inductive, NEW t \in Threads, InsertEdited(t) PROVE Inductive'
<1> DEFINE next == IF NeedsCorrection(call[t].chunk) THEN "editCorrVersion" ELSE "edit"
           c == [call[t] EXCEPT !.pc = next]
           one == [id \in {call[t].id} |-> call[t].chunk]
<1>1. call[t].pc = "editInsert"
  BY DEF InsertEdited
<1>2. /\ call[t] \in Call /\ IdsOK(call[t], DOMAIN store) /\ SharedOK
      /\ left \in [Threads -> Nat]
  BY <1>1, Editing DEF EditStages
<1>3. CASE Fail(t) /\ UNCHANGED chunkStore
  BY <1>2, <1>3, LocalStep DEF InsertEdited, client
<1>4. CASE store' = Over(one, store) /\ storeVersion' = storeVersion + 1 /\ Becomes(t, c)
  <2>1. /\ DOMAIN one = {call[t].id} /\ DOMAIN one \subseteq Nat
        /\ \A id \in DOMAIN one : one[id] \in Seq(AllBytes)
    BY <1>2 DEF Call
  <2> HIDE DEF one
  <2>2. /\ DOMAIN store' = DOMAIN one \cup DOMAIN store
        /\ \A id \in DOMAIN store' : store'[id] \in Seq(AllBytes)
    BY <1>2, <1>4, <2>1, Added DEF SharedOK, StoresOK
  <2>3. ManifestOK'
    BY <1>2, <2>2 DEF InsertEdited, SharedOK, ManifestOK, manifest, StoredIn
  <2>4. StoresOK' /\ ClientOK' /\ log' = log
    BY <1>2, <1>4, <2>1, <2>2 DEF InsertEdited, SharedOK, StoresOK, ClientOK, corrections,
          counters, client
  <2>5. next \in {"editCorrVersion", "edit"}
    OBVIOUS
  <2> HIDE DEF next
  <2>6. /\ c \in Call /\ c.pc = next /\ c.kind = call[t].kind
        /\ c.path = call[t].path /\ c.entry = call[t].entry /\ c.basis = call[t].basis
        /\ c.todo = call[t].todo /\ c.ids = call[t].ids
    <3>1. call[t] \in Call /\ next \in PCs
      BY <1>2, <2>5 DEF PCs
    <3>2. c \in Call
      BY <3>1 DEF Call
    <3>3. /\ c.pc = next /\ c.kind = call[t].kind
          /\ c.path = call[t].path /\ c.entry = call[t].entry /\ c.basis = call[t].basis
          /\ c.todo = call[t].todo /\ c.ids = call[t].ids
      BY <3>1 DEF Call
    <3> QED BY <3>2, <3>3
  <2> HIDE DEF c
  <2>7. IdsOK(c, DOMAIN store')
    BY <1>1, <1>2, <2>1, <2>2, <2>5, <2>6 DEF IdsOK
  <2>8. LocalOK(c, DOMAIN store', log)
    BY <1>1, <2>2, <2>5, <2>6, <2>7, EditorMoves DEF EditStages
  <2>9. SharedOK' /\ \A p \in Paths : Len(log[p]) \in Nat
    BY <1>2, <2>3, <2>4, LenProperties DEF SharedOK, ManifestOK, Logs
  <2>10. LocalOK(c, DOMAIN store', log') /\ DOMAIN store \subseteq DOMAIN store'
    BY <2>2, <2>4, <2>8
  <2>11. \A p \in Paths : Len(log[p]) <= Len(log'[p])
    BY <2>4, <2>9
  <2> QED BY <1>4, <2>9, <2>10, <2>11, StepOK
<1> QED BY <1>3, <1>4 DEF InsertEdited

\* apply_delta: the version of the correction store is read.
LEMMA ReadEditCorrVersionOK ==
  ASSUME Inductive, NEW t \in Threads, ReadEditCorrVersion(t) PROVE Inductive'
<1> DEFINE c == [call[t] EXCEPT !.pc = "editCorrect", !.corrVer = corrVersion]
<1>1. call[t].pc = "editCorrVersion" /\ Becomes(t, c)
  BY DEF ReadEditCorrVersion
<1>2. /\ call[t] \in Call /\ IdsOK(call[t], DOMAIN store) /\ left \in [Threads -> Nat]
      /\ corrVersion \in Nat
  BY <1>1, Editing DEF EditStages, SharedOK, StoresOK
<1>3. /\ c \in Call /\ c.pc = "editCorrect" /\ c.kind = call[t].kind
      /\ c.path = call[t].path /\ c.entry = call[t].entry /\ c.basis = call[t].basis
      /\ c.todo = call[t].todo /\ c.ids = call[t].ids
  BY <1>2 DEF Call, PCs
<1> HIDE DEF c
<1>4. IdsOK(c, DOMAIN store)
  BY <1>1, <1>2, <1>3 DEF IdsOK
<1>5. LocalOK(c, DOMAIN store, log)
  BY <1>1, <1>3, <1>4, EditorMoves DEF EditStages
<1> QED BY <1>1, <1>2, <1>5, LocalStep DEF ReadEditCorrVersion, client

\* apply_delta: the correction is stored, or the call fails.
LEMMA CorrectEditedOK ==
  ASSUME Inductive, NEW t \in Threads, CorrectEdited(t) PROVE Inductive'
<1> DEFINE c == [call[t] EXCEPT !.pc = "edit"]
           one == [id \in {call[t].id} |-> call[t].chunk]
<1>1. /\ call[t].pc = "editCorrect"
      /\ UNCHANGED <<manifest, chunkStore, counters, client, log>>
  BY DEF CorrectEdited
<1>2. /\ call[t] \in Call /\ IdsOK(call[t], DOMAIN store) /\ left \in [Threads -> Nat]
  BY <1>1, Editing DEF EditStages
<1>3. CASE Fail(t) /\ UNCHANGED corrections
  BY <1>1, <1>2, <1>3, LocalStep DEF client
<1>4. CASE corr' = Over(one, corr) /\ corrVersion' = corrVersion + 1 /\ Becomes(t, c)
  <2>1. /\ DOMAIN one \subseteq Nat
        /\ \A id \in DOMAIN one : one[id] \in Seq(AllBytes)
    BY <1>2 DEF Call
  <2> HIDE DEF one
  <2>2. /\ c \in Call /\ c.pc = "edit" /\ c.kind = call[t].kind
        /\ c.path = call[t].path /\ c.entry = call[t].entry /\ c.basis = call[t].basis
        /\ c.todo = call[t].todo /\ c.ids = call[t].ids
    BY <1>2 DEF Call, PCs
  <2> HIDE DEF c
  <2>3. IdsOK(c, DOMAIN store)
    BY <1>1, <1>2, <2>2 DEF IdsOK
  <2>4. LocalOK(c, DOMAIN store, log)
    BY <1>1, <2>2, <2>3, EditorMoves DEF EditStages
  <2> QED BY <1>1, <1>4, <2>1, <2>4, CorrectionStep
<1> QED BY <1>3, <1>4 DEF CorrectEdited

\* apply_delta: the version to return is drawn.
LEMMA DrawVersionOK ==
  ASSUME Inductive, NEW t \in Threads, DrawVersion(t) PROVE Inductive'
<1> DEFINE c == [call[t] EXCEPT !.pc = "publish", !.ret = globalVersion]
<1>1. call[t].pc = "edit" /\ Becomes(t, c) /\ globalVersion' = globalVersion + 1
  BY DEF DrawVersion
<1>2. /\ call[t] \in Call /\ IdsOK(call[t], DOMAIN store) /\ SharedOK
      /\ globalVersion \in Nat
  BY <1>1, Editing DEF EditStages, SharedOK, StoresOK
<1>3. /\ c \in Call /\ c.pc = "publish" /\ c.kind = call[t].kind
      /\ c.path = call[t].path /\ c.entry = call[t].entry /\ c.basis = call[t].basis
      /\ c.todo = call[t].todo /\ c.ids = call[t].ids
  BY <1>2 DEF Call, PCs
<1> HIDE DEF c
<1>4. IdsOK(c, DOMAIN store)
  BY <1>1, <1>2, <1>3 DEF IdsOK
<1>5. LocalOK(c, DOMAIN store, log)
  BY <1>1, <1>3, <1>4, EditorMoves DEF EditStages
<1>6. SharedOK'
  <2>1. globalVersion' \in Nat
    BY <1>1, <1>2
  <2> QED BY <1>2, <2>1 DEF DrawVersion, SharedOK, ManifestOK, StoresOK, ClientOK, manifest,
               chunkStore, corrections, client
<1>7. UNCHANGED <<store, log>> /\ \A p \in Paths : Len(log[p]) \in Nat
  BY <1>2, LenProperties DEF DrawVersion, chunkStore, SharedOK, ManifestOK, Logs
<1> QED BY <1>1, <1>5, <1>6, <1>7, StepOK
-----------------------------------------------------------------------------
(* The specification *)

\* The threads start in a filesystem that is empty or holds one file, written
\* whole.
LEMMA InitOK == ASSUME Init PROVE Inductive
<1> DEFINE n == ChunksIn(InitContent)
           ids == [i \in 1..n |-> i]
           first == [version |-> 0, chunks |-> ids, size |-> Len(InitContent),
                     indexed |-> FALSE, deleted |-> FALSE]
           rec == [version |-> 0, content |-> InitContent, deleted |-> FALSE]
           batch == Batch(1, InitContent)
<1>1. InitContent \in Seq(AllBytes) /\ n \in Nat /\ Len(InitContent) \in Nat
  BY RequestType, ChunksInNat, LenProperties
<1>2. ids \in Seq(Nat) /\ DOMAIN ids = 1..n
  <2> HIDE DEF n
  <2>1. ids \in [1..n -> Nat]
    BY <1>1
  <2> QED BY <1>1, <2>1, SeqOfFunction
<1>3. /\ DOMAIN batch = 1..n
      /\ \A id \in DOMAIN batch : batch[id] \in Seq(AllBytes)
  <2>1. DOMAIN batch = 1..(1 + n - 1) /\ \A id \in DOMAIN batch : batch[id] \in Seq(AllBytes)
    BY <1>1, BatchType
  <2> HIDE DEF n, batch
  <2> QED BY <1>1, <2>1
<1>4. first \in Entry
  <2> HIDE DEF ids
  <2> QED BY <1>1, <1>2 DEF Entry
<1>5. rec \in LogEntry
  BY <1>1 DEF LogEntry
<1>6. <<rec>> \in Seq(LogEntry) /\ <<rec>> # <<>> /\ <<>> \in Seq(LogEntry)
  <2> HIDE DEF rec
  <2> QED BY <1>5, EmptySeq
<1>7. DOMAIN store = (IF InitPath # NoPath THEN 1..n ELSE {})
      /\ \A id \in DOMAIN store : store[id] \in Seq(AllBytes)
  <2>1. store = IF InitPath # NoPath THEN batch ELSE <<>>
    BY DEF Init
  <2>2. CASE InitPath = NoPath
    BY <2>1, <2>2
  <2>3. CASE InitPath # NoPath
    <3> HIDE DEF batch, n
    <3> QED BY <1>3, <2>1, <2>3
  <2> QED BY <2>2, <2>3
<1>8. files = [p \in Paths |-> IF p = InitPath THEN first ELSE NoEntry]
  BY DEF Init
<1>9. log = [p \in Paths |-> IF p = InitPath THEN <<rec>> ELSE <<>>]
  BY DEF Init
<1>10. ManifestOK
  <2>1. manifestVersion \in Nat
    BY DEF Init
  <2>2. first.chunks = ids /\ \A i \in DOMAIN ids : ids[i] \in 1..n
    BY <1>2
  <2> HIDE DEF first, rec, ids, n
  <2>3. files \in [Paths -> Entry \cup {NoEntry}] /\ log \in Logs
    BY <1>4, <1>6, <1>8, <1>9 DEF Logs
  <2>4. ASSUME NEW p \in Paths, files[p] # NoEntry
        PROVE  log[p] # <<>> /\ StoredIn(files[p], DOMAIN store)
    <3>1. p = InitPath /\ InitPath # NoPath /\ files[p] = first /\ log[p] = <<rec>>
      BY <1>8, <1>9, <2>4, NullAssumption
    <3> QED BY <1>6, <1>7, <2>2, <3>1 DEF StoredIn
  <2> QED BY <2>1, <2>3, <2>4 DEF ManifestOK
<1>11. StoresOK
  <2>1. /\ corr = store /\ root = DOMAIN store
        /\ storeVersion \in Nat /\ corrVersion \in Nat /\ globalVersion \in Nat
    BY DEF Init
  <2>2. nextId = IF InitPath # NoPath THEN n + 1 ELSE 1
    BY DEF Init
  <2> HIDE DEF n
  <2> QED BY <1>1, <1>7, <2>1, <2>2 DEF StoresOK
<1>12. ClientOK
  <2>1. /\ left = [t \in Threads |-> MaxCalls]
        /\ known = [t \in Threads |-> [p \in Paths |->
             [version |-> IF p = InitPath THEN 0 ELSE NoVersion,
              at |-> IF p = InitPath THEN 1 ELSE 0]]]
    BY DEF Init
  <2> QED BY <2>1, InitAssumption DEF ClientOK, Knowledge
<1>13. call = [t \in Threads |-> Idle]
  BY DEF Init
<1>14. Idle.pc = "idle"
  BY DEF Idle
<1>15. \A t \in Threads : LocalOK(Idle, DOMAIN store, log)
  BY <1>14, IdleType DEF LocalOK, StageOK, IdsOK, AnsweredPCs, WriteStages, EditStages
<1> QED BY <1>10, <1>11, <1>12, <1>13, <1>15, IdleType, Regrouped DEF Grouped, SharedOK

\* A call begins, whatever it is.
LEMMA StartOK == ASSUME Inductive, NEW t \in Threads, Start(t) PROVE Inductive'
<1> SUFFICES ASSUME NEW p \in Paths, NEW v \in Expectations(t, p),
         \/ \E data \in Contents : StartWrite(t, p, data, v)
         \/ StartDelete(t, p, v)
         \/ v = NoVersion /\ StartRead(t, p)
         \/ \E s \in ChangeSets : StartDelta(t, p, "replace", <<>>, s, 0, v)
         \/ \E data \in Appends : StartDelta(t, p, "append", data, {}, 0, v)
         \/ \E n \in Lengths : StartDelta(t, p, "truncate", <<>>, {}, n, v)
    PROVE  Inductive'
  BY DEF Start
<1>1. <<>> \in Seq(AllBytes) /\ {} \in SUBSET Change
  BY EmptySeq
<1>2. \A data \in Appends : data \in Seq(AllBytes)
  BY RequestType
<1>3. (\E data \in Contents : StartWrite(t, p, data, v)) => Inductive'
  BY StartWriteOK
<1>4. StartDelete(t, p, v) => Inductive'
  BY StartDeleteOK
<1>5. StartRead(t, p) => Inductive'
  BY StartReadOK
<1>6. "replace" \in DeltaKinds /\ "append" \in DeltaKinds /\ "truncate" \in DeltaKinds
  BY DEF DeltaKinds
<1>7. (\E s \in ChangeSets : StartDelta(t, p, "replace", <<>>, s, 0, v)) => Inductive'
  BY <1>1, <1>6, RequestType, StartDeltaOK
<1>8. (\E data \in Appends : StartDelta(t, p, "append", data, {}, 0, v)) => Inductive'
  BY <1>1, <1>2, <1>6, StartDeltaOK
<1>9. (\E n \in Lengths : StartDelta(t, p, "truncate", <<>>, {}, n, v)) => Inductive'
  BY <1>1, <1>6, RequestType, StartDeltaOK
<1> QED BY <1>3, <1>4, <1>5, <1>7, <1>8, <1>9

\* Every step of every thread preserves the invariant.
LEMMA NextOK == ASSUME Inductive, [Next]_vars PROVE Inductive'
<1>1. ASSUME NEW t \in Threads, Start(t) PROVE Inductive'
  BY <1>1, StartOK
<1>2. ASSUME NEW t \in Threads, Write(t) PROVE Inductive'
  BY <1>2, PrepareOK, InsertChunksOK, CorrectNewOK, ReadCorrVersionOK, CorrectOK, PublishOK,
     BundleOK, CountOK DEF Write
<1>3. ASSUME NEW t \in Threads, Read(t) PROVE Inductive'
  BY <1>3, ReadChunkOK, ReadCorrectionOK DEF Read
<1>4. ASSUME NEW t \in Threads, Delta(t) PROVE Inductive'
  BY <1>4, EditChunkOK, EditBytesOK, NewChunkOK, ReadStoreVersionOK, InsertEditedOK,
     ReadEditCorrVersionOK, CorrectEditedOK, DrawVersionOK DEF Delta
<1>5. ASSUME NEW t \in Threads, StartCompact(t) \/ Compact(t) PROVE Inductive'
  BY <1>5, StartCompactOK, CompactOK
<1>6. CASE UNCHANGED vars
  BY <1>6 DEF vars, manifest, chunkStore, corrections, counters, client, Inductive, TypeOK,
     StagesOK, IdsStored, LogBacked, EntryChunksStored
<1> QED BY <1>1, <1>2, <1>3, <1>4, <1>5, <1>6 DEF Next

\* The inductive invariant holds in every state of every behaviour, for all
\* values of the constants: types, the stages of the calls, the chunks a
\* writer allocated, and the entries' chunks.
THEOREM Invariance == Spec => []Inductive
<1>1. Init => Inductive
  BY InitOK
<1>2. Inductive /\ [Next]_vars => Inductive'
  BY NextOK
<1> QED BY <1>1, <1>2, PTL DEF Spec

\* The state keeps its types: no call of write_file, read_file, delete_file or
\* apply_delta, however interleaved, leaves a version, a size or a chunk list
\* that is not one.
THEOREM TypeCorrect == Spec => []TypeOK
<1>1. Inductive => TypeOK
  BY DEF Inductive
<1> QED BY <1>1, Invariance, PTL

\* No entry of the manifest or of a running call ever names a chunk that is
\* not in the chunk store, so read_file never finds a chunk missing.
THEOREM ChunksStored == Spec => []EntryChunksStored
<1>1. Inductive => EntryChunksStored
  BY DEF Inductive
<1> QED BY <1>1, Invariance, PTL
=============================================================================
