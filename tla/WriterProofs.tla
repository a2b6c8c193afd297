---------------------------- MODULE WriterProofs ----------------------------
(***************************************************************************)
(* What VersionedFS promises of versions and contents, for every set of    *)
(* threads, paths and contents and every chunk size.                       *)
(*                                                                         *)
(* Versions: as long as nobody compacts the manifest, the versions of a    *)
(* path count its publications (VersionChain).                             *)
(*                                                                         *)
(* Contents: as long as files are only written whole, read and deleted, a  *)
(* chunk and its correction, once published, never change.  That is the    *)
(* strengthening (Undisturbed) from which snapshot reads, bit-perfect      *)
(* reconstruction, optimistic locking and the root's coverage follow.      *)
(* Deltas rewrite chunks in place and break it.                            *)
(*                                                                         *)
(* The count of chunks: whatever is called, total_chunks is the number of  *)
(* chunks the entries of the manifest list (TotalChunksExact).             *)
(***************************************************************************)
EXTENDS VersionedFSProofs, WellFoundedInduction, FiniteSetTheorems
-----------------------------------------------------------------------------
(* Versions *)

\* Nobody compacts the manifest.
NoCompaction == "compact" \notin Kinds

\* A running delta works on a live file; nobody compacts.
DeltaLive ==
  \A t \in Threads :
    /\ call[t].pc # "compact"
    /\ call[t].pc \notin AnsweredPCs /\ call[t].kind \in DeltaKinds /\ call[t].entry # NoEntry
         => ~call[t].entry.deleted

\* A path that is not in the manifest was never published.
NeverLeft == \A p \in Paths : files[p] = NoEntry => log[p] = <<>>

\* The invariant of the version chain.
Counted == Inductive /\ DeltaLive /\ NeverLeft /\ VersionChain
-----------------------------------------------------------------------------
(* Contents *)

\* Files are written whole, read and deleted.
WritersOnly == Kinds \subseteq {"write", "read", "delete"}

\* The entry stands for the content: its chunks are the content's, and so
\* are the bytes their corrections were computed for.
Holds(e, content, st, co) ==
  /\ Len(e.chunks) = ChunksIn(content) /\ e.size = Len(content)
  /\ \A i \in 1..ChunksIn(content) :
       /\ e.chunks[i] \in DOMAIN st /\ st[e.chunks[i]] = ChunkOf(content, i)
       /\ e.chunks[i] \in DOMAIN co /\ co[e.chunks[i]] = ChunkOf(content, i)

\* The ids a call has allocated and not yet finished with.
Owned(c) ==
  IF c.pc \in {"insert", "correctNew", "correctVersion", "correct"}
  THEN c.id..(c.id + ChunksIn(c.data) - 1) ELSE {}

\* Ids are used once.
Fresh ==
  /\ \A id \in DOMAIN store \cup DOMAIN corr : id < nextId
  /\ \A t \in Threads : \A id \in Owned(call[t]) : id < nextId /\ id \notin DOMAIN corr
  /\ \A t \in Threads :
       call[t].pc = "insert" => \A id \in Owned(call[t]) : id \notin DOMAIN store
  /\ \A t, u \in Threads : t # u => Owned(call[t]) \cap Owned(call[u]) = {}

\* A writer has stored the chunks, then the corrections, of what it was given.
Stored(c, m) ==
  \A i \in 1..ChunksIn(c.data) : c.ids[i] \in DOMAIN m /\ m[c.ids[i]] = ChunkOf(c.data, i)

\* A call that writes: the chunks it has stored hold its data.
WriterOK(c, st, co, lg) ==
  /\ c.pc \in {"insert", "correctNew", "correctVersion", "correct", "publish"} =>
       c.ids = [i \in 1..ChunksIn(c.data) |-> c.id + i - 1]
  /\ c.pc \in {"correctNew", "correctVersion", "correct", "publish"} => Stored(c, st)
  /\ c.pc = "publish" => Stored(c, co)
  /\ c.pc \in WriteStages \cup {"publish"} =>
       IF c.expected = NoVersion
       THEN c.pc # "bundle" => c.entry = NoEntry
       ELSE /\ c.expected \in Nat /\ c.learned = c.expected + 1
            /\ c.pc # "bundle" => c.entry # NoEntry /\ c.entry.version = c.expected
  /\ c.pc = "bundle" => c.basis = IF c.expected = NoVersion THEN 1 ELSE c.learned + 1
  /\ c.pc \in {"bundle", "count", "ok"} /\ c.kind = "write" =>
       c.basis \in 1..Len(lg[c.path]) /\ c.ret = lg[c.path][c.basis].version

\* A reader has read a prefix of what was published when it began.
ReaderOK(c, st, co, lg) ==
  /\ c.pc \in {"readChunk", "readCorrection"} =>
       LET was == lg[c.path][c.basis]
           n   == Len(c.entry.chunks)
           k   == n - Len(c.ids)
       IN /\ c.basis \in 1..Len(lg[c.path])
          /\ Holds(c.entry, was.content, st, co) /\ c.entry.version = was.version
          /\ Len(c.ids) \in 1..n /\ \A j \in 1..Len(c.ids) : c.ids[j] = c.entry.chunks[k + j]
          /\ c.data = SubSeq(was.content, 1, k * ChunkSize)
          /\ c.pc = "readCorrection" => c.chunk = st[c.ids[1]]
  /\ c.pc = "ok" /\ c.kind = "read" =>
       /\ c.basis \in 1..Len(lg[c.path])
       /\ c.data = lg[c.path][c.basis].content /\ c.ret = lg[c.path][c.basis].version

\* What each kind of call holds.
CallOK(c, st, co, lg) ==
  /\ c.kind \in {"none", "write", "read", "delete"}
  /\ c.pc \in {"ok", "count"} => c.path \in Paths
  /\ c.pc = "count" => c.kind \in {"write", "delete"}
  /\ WriterOK(c, st, co, lg)
  /\ ReaderOK(c, st, co, lg)

\* All of them do.
CallsOK == \A t \in Threads : CallOK(call[t], store, corr, log)

\* The entries of the manifest hold the contents that were published.
FilesHold ==
  \A p \in Paths : files[p] # NoEntry => Holds(files[p], Last(log[p]).content, store, corr)

\* A version a caller knows is that of the publication at which it learned it.
KnownOK ==
  \A t \in Threads, p \in Paths :
    known[t][p].version # NoVersion => known[t][p].at = known[t][p].version + 1

\* The chunks of a live file are in the root, or their writer is about to
\* bundle them.
RootOK ==
  \A p \in Paths : Exists(p) =>
    \/ \A i \in DOMAIN files[p].chunks : files[p].chunks[i] \in root
    \/ \E t \in Threads :
         call[t].pc = "bundle" /\ call[t].path = p /\ call[t].ids = files[p].chunks

\* The invariant of the contents.
Undisturbed == Counted /\ Fresh /\ CallsOK /\ FilesHold /\ KnownOK /\ RootOK
-----------------------------------------------------------------------------
(* Versions: the proof *)

\* What Counted says of one thread.
Alive(c) ==
  /\ c.pc # "compact"
  /\ c.pc \notin AnsweredPCs /\ c.kind \in DeltaKinds /\ c.entry # NoEntry => ~c.entry.deleted

\* The manifest and the log stay as they are.
LEMMA CountedLocal ==
  ASSUME Counted, Inductive', NEW t \in Threads, NEW c, Becomes(t, c), Alive(c),
         UNCHANGED <<files, log>>
  PROVE  Counted'
<1>1. call \in [Threads -> Call]
  BY DEF Counted, Inductive, TypeOK
<1>2. ASSUME NEW u \in Threads PROVE Alive(call'[u])
  <2>1. CASE u = t
    BY <1>1, <2>1 DEF Becomes
  <2>2. CASE u # t
    BY <1>1, <2>2 DEF Becomes, Counted, DeltaLive, Alive
  <2> QED BY <2>1, <2>2
<1>3. DeltaLive'
  BY <1>2 DEF Alive, DeltaLive
<1>4. NeverLeft' /\ VersionChain'
  BY DEF Counted, NeverLeft, VersionChain
<1> QED BY <1>3, <1>4 DEF Counted

\* A call that ends holds nothing.
LEMMA EndedAlive ==
  /\ \A t : Fail(t) => \E c : Becomes(t, c) /\ Alive(c)
  /\ \A t, c, ret : Answer(t, c, ret) => \E d : Becomes(t, d) /\ Alive(d)
<1>1. ASSUME NEW t, Fail(t) PROVE \E c : Becomes(t, c) /\ Alive(c)
  <2> DEFINE c == [Idle EXCEPT !.pc = "err"]
  <2>1. c.pc = "err"
    BY DEF Idle
  <2>2. Becomes(t, c)
    BY <1>1 DEF Fail
  <2> HIDE DEF c
  <2> QED BY <2>1, <2>2 DEF Alive, AnsweredPCs
<1>2. ASSUME NEW t, NEW c, NEW ret, Answer(t, c, ret) PROVE \E d : Becomes(t, d) /\ Alive(d)
  <2> DEFINE d == [Idle EXCEPT !.pc = "ok", !.kind = c.kind, !.path = c.path, !.ret = ret,
                    !.data = IF c.kind = "read" THEN c.data ELSE <<>>,
                    !.basis = c.basis]
  <2>1. d.pc = "ok"
    BY DEF Idle
  <2>2. Becomes(t, d)
    BY <1>2 DEF Answer
  <2> HIDE DEF d
  <2> QED BY <2>1, <2>2 DEF Alive, AnsweredPCs
<1> QED BY <1>1, <1>2

\* The steps of a call after its first, publication apart: the call goes on
\* with the entry it holds, or ends.
LEMMA MiddleAlive ==
  ASSUME Counted, NEW t \in Threads,
         \/ Prepare(t) \/ InsertChunks(t) \/ CorrectNew(t) \/ ReadCorrVersion(t)
         \/ Correct(t) \/ Bundle(t) \/ Count(t) \/ Read(t) \/ Delta(t)
  PROVE  UNCHANGED <<files, log>> /\ \E c : Becomes(t, c) /\ Alive(c)
<1>1. call[t] \in Call /\ Alive(call[t])
  BY DEF Counted, Inductive, TypeOK, DeltaLive, Alive
<1>2. ASSUME NEW c, Becomes(t, c), c.pc # "compact", c.kind = call[t].kind,
             c.entry = call[t].entry, call[t].pc \notin AnsweredPCs
      PROVE  \E d : Becomes(t, d) /\ Alive(d)
  BY <1>1, <1>2 DEF Alive
<1> USE DEF manifest
<1>3. CASE Prepare(t)
  <2> DEFINE c == [call[t] EXCEPT !.pc = "insert", !.storeVer = storeVersion,
                      !.id = nextId, !.ids = [i \in 1..ChunksIn(call[t].data) |-> nextId + i - 1]]
  <2>1. Becomes(t, c) /\ call[t].pc \notin AnsweredPCs
    BY <1>3 DEF Prepare, AnsweredPCs
  <2>2. c.pc = "insert" /\ c.kind = call[t].kind /\ c.entry = call[t].entry
    BY <1>1 DEF Call
  <2> HIDE DEF c
  <2> QED BY <1>2, <1>3, <2>1, <2>2 DEF Prepare
<1>4. ASSUME NEW pc, pc # "compact", Becomes(t, [call[t] EXCEPT !.pc = pc]),
             call[t].pc \notin AnsweredPCs
      PROVE  \E d : Becomes(t, d) /\ Alive(d)
  BY <1>1, <1>2, <1>4 DEF Call
<1>5. ASSUME NEW pc, NEW v, pc # "compact", call[t].pc \notin AnsweredPCs,
             \/ Becomes(t, [call[t] EXCEPT !.pc = pc, !.storeVer = v])
             \/ Becomes(t, [call[t] EXCEPT !.pc = pc, !.corrVer = v])
             \/ Becomes(t, [call[t] EXCEPT !.pc = pc, !.chunk = v])
             \/ Becomes(t, [call[t] EXCEPT !.pc = pc, !.ret = v])
      PROVE  \E d : Becomes(t, d) /\ Alive(d)
  BY <1>1, <1>2, <1>5 DEF Call
<1>6. CASE InsertChunks(t)
  BY <1>4, <1>6, EndedAlive DEF InsertChunks, AnsweredPCs
<1>7. CASE CorrectNew(t) \/ Bundle(t)
  BY <1>4, <1>7 DEF CorrectNew, Bundle, AnsweredPCs
<1>8. CASE ReadCorrVersion(t) \/ Correct(t)
  BY <1>4, <1>5, <1>8, EndedAlive DEF ReadCorrVersion, Correct, AnsweredPCs
<1>9. CASE Count(t)
  BY <1>9, EndedAlive DEF Count
<1>10. CASE ReadChunk(t)
  BY <1>5, <1>10, EndedAlive DEF ReadChunk, AnsweredPCs
<1>11. CASE ReadCorrection(t)
  <2> DEFINE data == call[t].data \o Corrected(call[t].chunk, Head(call[t].ids))
             c == [call[t] EXCEPT !.pc = "readChunk", !.ids = Tail(@), !.chunk = <<>>, !.data = data]
  <2>1. /\ call[t].pc \notin AnsweredPCs /\ UNCHANGED <<files, log>>
        /\ Becomes(t, c) \/ \E d, ret : Answer(t, d, ret)
    BY <1>11 DEF ReadCorrection, AnsweredPCs
  <2>2. c.pc = "readChunk" /\ c.kind = call[t].kind /\ c.entry = call[t].entry
    BY <1>1 DEF Call
  <2> HIDE DEF c
  <2> QED BY <1>2, <2>1, <2>2, EndedAlive
<1>12. CASE \E k \in call[t].todo : EditChunk(t, k)
  <2>1. PICK k \in call[t].todo : EditChunk(t, k)
    BY <1>12
  <2> DEFINE id == call[t].entry.chunks[k]
             c == [call[t] EXCEPT !.pc = "editCorrection", !.todo = @ \ {k}, !.id = id,
                                  !.chunk = store[id], !.at = k]
  <2>2. /\ call[t].pc \notin AnsweredPCs /\ UNCHANGED <<files, log>>
        /\ Becomes(t, c) \/ Fail(t)
    BY <2>1 DEF EditChunk, AnsweredPCs
  <2>3. c.pc = "editCorrection" /\ c.kind = call[t].kind /\ c.entry = call[t].entry
    BY <1>1 DEF Call
  <2> HIDE DEF c
  <2> QED BY <1>2, <2>2, <2>3, EndedAlive
<1>13. CASE EditBytes(t) \/ ReadStoreVersion(t) \/ ReadEditCorrVersion(t) \/ DrawVersion(t)
  BY <1>5, <1>13 DEF EditBytes, ReadStoreVersion, ReadEditCorrVersion, DrawVersion, AnsweredPCs
<1>14. CASE NewChunk(t)
  <2> DEFINE c == [call[t] EXCEPT !.pc = "editVersion", !.id = nextId, !.ids = Append(@, nextId),
                     !.chunk = SubSeq(call[t].data, Placed(call[t]) + 1,
                                      MinOf(Placed(call[t]) + ChunkSize, Len(call[t].data)))]
  <2>1. /\ call[t].pc \notin AnsweredPCs /\ UNCHANGED <<files, log>> /\ Becomes(t, c)
    BY <1>14 DEF NewChunk, AnsweredPCs
  <2>2. c.pc = "editVersion" /\ c.kind = call[t].kind /\ c.entry = call[t].entry
    BY <1>1 DEF Call
  <2> HIDE DEF c
  <2> QED BY <1>2, <2>1, <2>2
<1>15. CASE InsertEdited(t) \/ CorrectEdited(t)
  BY <1>4, <1>15, EndedAlive DEF InsertEdited, CorrectEdited, AnsweredPCs
<1> QED BY <1>3, <1>6, <1>7, <1>8, <1>9, <1>10, <1>11, <1>12, <1>13, <1>14, <1>15 DEF Read, Delta

\* What a call that begins holds is the entry of its path.
LEMMA StartAlive ==
  ASSUME Counted, NEW t \in Threads, NEW p \in Paths, NEW v,
         \/ \E data : StartWrite(t, p, data, v)
         \/ StartRead(t, p)
         \/ \E kind, data, changes, length : StartDelta(t, p, kind, data, changes, length, v)
  PROVE  UNCHANGED <<files, log>> /\ \E c : Becomes(t, c) /\ Alive(c)
<1> USE DEF manifest
<1>1. Idle \in Call
  BY IdleType
<1>2. ASSUME NEW data, StartWrite(t, p, data, v) PROVE \E c : Becomes(t, c) /\ Alive(c)
  <2> DEFINE c == [Begun("write", p, "prepare") EXCEPT !.expected = v, !.data = data,
                      !.learned = known[t][p].at]
  <2>1. Becomes(t, c) \/ Fail(t)
    BY <1>2 DEF StartWrite
  <2>2. c.pc = "prepare" /\ c.kind = "write"
    BY <1>1 DEF Begun, Call
  <2> HIDE DEF c
  <2> QED BY <2>1, <2>2, EndedAlive DEF Alive, DeltaKinds
<1>3. ASSUME StartRead(t, p) PROVE \E c : Becomes(t, c) /\ Alive(c)
  <2> DEFINE c == [Begun("read", p, "readChunk") EXCEPT !.ids = files[p].chunks]
  <2>1. Becomes(t, c) \/ Fail(t) \/ \E d, ret : Answer(t, d, ret)
    BY <1>3 DEF StartRead
  <2>2. c.pc = "readChunk" /\ c.kind = "read"
    BY <1>1 DEF Begun, Call
  <2> HIDE DEF c
  <2> QED BY <2>1, <2>2, EndedAlive DEF Alive, DeltaKinds
<1>4. ASSUME NEW kind, NEW data, NEW changes, NEW length,
             StartDelta(t, p, kind, data, changes, length, v)
      PROVE  \E c : Becomes(t, c) /\ Alive(c)
  <2> DEFINE b == [Begun(kind, p, "edit") EXCEPT
                     !.data = data, !.changes = changes, !.length = length]
             c == [b EXCEPT !.todo = Rewritten(b)]
  <2>1. Fail(t) \/ (\E d, ret : Answer(t, d, ret)) \/ (Exists(p) /\ Becomes(t, c))
    BY <1>4 DEF StartDelta
  <2>2. c.pc = "edit" /\ c.entry = files[p]
    BY <1>1 DEF Begun, Call
  <2> HIDE DEF c
  <2> QED BY <2>1, <2>2, EndedAlive DEF Alive, Exists
<1> QED BY <1>2, <1>3, <1>4 DEF StartWrite, StartRead, StartDelta

\* What the log of a path looks like after a publication.
LEMMA Lengthened ==
  ASSUME NEW p \in Paths, NEW r \in LogEntry, log \in Logs,
         log' = [log EXCEPT ![p] = Append(@, r)]
  PROVE  /\ Len(log[p]) \in Nat /\ Len(log'[p]) = Len(log[p]) + 1
         /\ log'[p][Len(log[p]) + 1] = r /\ Last(log'[p]) = r
         /\ \A i \in 1..Len(log[p]) : log'[p][i] = log[p][i]
         /\ \A q \in Paths : q # p => log'[q] = log[q]
<1> DEFINE lp == Append(log[p], r)
<1>1. log[p] \in Seq(LogEntry)
  BY DEF Logs
<1>2. /\ Len(lp) = Len(log[p]) + 1 /\ lp[Len(log[p]) + 1] = r
      /\ \A i \in 1..Len(log[p]) : lp[i] = log[p][i]
  BY <1>1, AppendProperties
<1>3. log' = [log EXCEPT ![p] = lp]
  OBVIOUS
<1> HIDE DEF lp
<1>4. log'[p] = lp /\ \A q \in Paths : q # p => log'[q] = log[q]
  BY <1>3 DEF Logs
<1>5. Len(log[p]) \in Nat
  BY <1>1, LenProperties
<1> QED BY <1>2, <1>4, <1>5 DEF Last

\* What the invariant gives of the log and the manifest.
LEMMA CountedTypes ==
  ASSUME Counted
  PROVE  /\ files \in [Paths -> Entry \cup {NoEntry}] /\ log \in Logs
         /\ call \in [Threads -> Call]
         /\ \A p \in Paths : Len(log[p]) \in Nat
         /\ \A p \in Paths : files[p] # NoEntry =>
              files[p] \in Entry /\ files[p].version = Len(log[p]) - 1 /\ Len(log[p]) \in Nat \ {0}
<1>1. /\ files \in [Paths -> Entry \cup {NoEntry}] /\ log \in Logs
      /\ call \in [Threads -> Call] /\ LogBacked
  BY DEF Counted, Inductive, TypeOK, Logs, LogEntry
<1>2. \A p \in Paths : log[p] \in Seq(LogEntry)
  BY <1>1 DEF Logs
<1>3. \A p \in Paths : Len(log[p]) \in Nat
  BY <1>2, LenProperties
<1>4. ASSUME NEW p \in Paths, files[p] # NoEntry
      PROVE  files[p].version = Len(log[p]) - 1 /\ Len(log[p]) \in Nat \ {0}
  <2>1. Len(log[p]) \in Nat \ {0}
    BY <1>1, <1>2, <1>4, EmptySeq DEF LogBacked
  <2>2. log[p][Len(log[p])].version = Len(log[p]) - 1
    BY <2>1 DEF Counted, VersionChain
  <2> QED BY <1>4, <2>1, <2>2 DEF Counted, VersionChain, Last
<1> QED BY <1>1, <1>3, <1>4

\* An entry stored under the next version keeps the chain.
LEMMA NextVersion ==
  ASSUME Counted, NEW p \in Paths, NEW e \in Entry, NEW r \in LogEntry,
         files' = [files EXCEPT ![p] = e], log' = [log EXCEPT ![p] = Append(@, r)],
         e.version = Len(log[p]), r.version = Len(log[p]), e.deleted = r.deleted
  PROVE  NeverLeft' /\ VersionChain'
<1>1. files \in [Paths -> Entry \cup {NoEntry}] /\ log \in Logs
  BY CountedTypes
<1>2. /\ Len(log[p]) \in Nat /\ Len(log'[p]) = Len(log[p]) + 1
      /\ log'[p][Len(log[p]) + 1] = r /\ Last(log'[p]) = r
      /\ \A i \in 1..Len(log[p]) : log'[p][i] = log[p][i]
      /\ \A q \in Paths : q # p => log'[q] = log[q]
  BY <1>1, Lengthened
<1>3. /\ files'[p] = e /\ \A q \in Paths : q # p => files'[q] = files[q]
      /\ e # NoEntry
  BY <1>1, NullAssumption
<1>4. NeverLeft'
  BY <1>2, <1>3 DEF Counted, NeverLeft
<1>5. ASSUME NEW q \in Paths, NEW i \in 1..Len(log'[q]) PROVE log'[q][i].version = i - 1
  <2>1. CASE q # p
    BY <1>2, <1>5, <2>1 DEF Counted, VersionChain
  <2>2. CASE q = p /\ i = Len(log[p]) + 1
    BY <1>2, <2>2
  <2>3. CASE q = p /\ i # Len(log[p]) + 1
    <3>1. i \in 1..Len(log[p])
      BY <1>2, <1>5, <2>3
    <3> QED BY <1>2, <2>3, <3>1 DEF Counted, VersionChain
  <2> QED BY <2>1, <2>2, <2>3
<1>6. ASSUME NEW q \in Paths, files'[q] # NoEntry
      PROVE  files'[q].version = Last(log'[q]).version /\ files'[q].deleted = Last(log'[q]).deleted
  <2>1. CASE q = p
    BY <1>2, <1>3, <2>1
  <2>2. CASE q # p
    BY <1>2, <1>3, <1>6, <2>2 DEF Counted, VersionChain
  <2> QED BY <2>1, <2>2
<1> QED BY <1>4, <1>5, <1>6 DEF VersionChain

\* The manifest and the log move, and so does the call that moves them.
LEMMA CountedMoves ==
  ASSUME Counted, Inductive', NEW t \in Threads, NEW c, Becomes(t, c), Alive(c),
         NeverLeft', VersionChain'
  PROVE  Counted'
<1>1. call \in [Threads -> Call]
  BY CountedTypes
<1>2. ASSUME NEW u \in Threads PROVE Alive(call'[u])
  <2>1. CASE u = t
    BY <1>1, <2>1 DEF Becomes
  <2>2. CASE u # t
    BY <1>1, <2>2 DEF Becomes, Counted, DeltaLive, Alive
  <2> QED BY <2>1, <2>2
<1>3. DeltaLive'
  BY <1>2 DEF Alive, DeltaLive
<1> QED BY <1>3 DEF Counted

\* Publish: what it does, for later use too.
LEMMA PublishEffect ==
  ASSUME Counted, NEW t \in Threads, Publish(t)
  PROVE  LET c    == call[t]
             p    == c.path
             ver  == Len(log[p])
             e    == [NewEntry(c) EXCEPT !.version = ver]
             r    == [version |-> ver, content |-> Published(c), deleted |-> FALSE]
             done == [c EXCEPT !.basis = ver + 1]
         IN  /\ p \in Paths /\ ver \in Nat /\ c.pc = "publish" /\ c \in Call
             /\ UNCHANGED <<chunkStore, corrections, counters, left>>
             /\ \/ Fail(t) /\ UNCHANGED <<manifest, known, log>>
                \/ /\ e \in Entry /\ r \in LogEntry /\ e.deleted = FALSE
                   /\ files' = [files EXCEPT ![p] = e] /\ log' = [log EXCEPT ![p] = Append(@, r)]
                   /\ c.entry = NoEntry => ver = 0
                   /\ c.entry # NoEntry => c.entry.version + 1 = ver
                   /\ \/ /\ c.kind = "write" /\ UNCHANGED known
                         /\ Becomes(t, [done EXCEPT !.pc = "bundle", !.ret = ver])
                      \/ c.kind \in DeltaKinds /\ Answer(t, done, c.ret)
<1> DEFINE c    == call[t]
           p    == c.path
           ver  == Len(log[p])
           e    == [NewEntry(c) EXCEPT !.version = ver]
           r    == [version |-> ver, content |-> Published(c), deleted |-> FALSE]
           done == [c EXCEPT !.basis = ver + 1]
           new  == c.entry = NoEntry
           v    == IF new THEN 0 ELSE c.entry.version + 1
           x    == IF new THEN NewEntry(c) ELSE [NewEntry(c) EXCEPT !.version = v]
<1>1. Inductive /\ SharedOK /\ c \in Call /\ LocalOK(c, DOMAIN store, log) /\ c.pc = "publish"
  BY LocalsOfThread DEF Publish, Counted
<1>2. /\ p \in Paths /\ c.kind \in DeltaKinds \cup {"write"} /\ log \in Logs
      /\ c.kind \in DeltaKinds => c.entry # NoEntry /\ c.basis \in 1..Len(log[p])
      /\ c.entry # NoEntry => StoredIn(c.entry, DOMAIN store)
      /\ \A i \in DOMAIN c.ids : c.ids[i] \in DOMAIN store
  BY <1>1 DEF LocalOK, StageOK, IdsOK, AnsweredPCs, SharedOK, ManifestOK
<1>3. NewEntry(c) \in Entry /\ Published(c) \in Seq(AllBytes)
  BY <1>1, <1>2, NewEntryType, PublishedType
<1>4. ver \in Nat
  BY <1>2, CountedTypes
<1>5. e \in Entry /\ r \in LogEntry
  <2> HIDE DEF ver
  <2> QED BY <1>3, <1>4 DEF Entry, LogEntry
<1>6. e.deleted = FALSE
  <2>1. c.kind \in DeltaKinds => ~c.entry.deleted /\ c.entry \in Entry
    BY <1>1, <1>2 DEF Counted, DeltaLive, AnsweredPCs, Call
  <2>2. NewEntry(c).deleted = FALSE
    BY <1>2, <2>1 DEF NewEntry, DeltaKinds, Entry
  <2> QED BY <1>3, <2>2 DEF Entry
<1>7. ASSUME IF new THEN CanAdd(p) ELSE CanUpdate(p, c.entry.version)
      PROVE  v = ver /\ x = e
  <2>1. v = ver
    <3>1. CASE new
      <4>1. log[p] = <<>>
        BY <1>2, <1>7, <3>1 DEF CanAdd, Counted, NeverLeft
      <4> QED BY <3>1, <4>1
    <3>2. CASE ~new
      BY <1>2, <1>4, <1>7, <3>2, CountedTypes DEF CanUpdate
    <3> QED BY <3>1, <3>2
  <2>2. new => NewEntry(c).version = 0
    BY <1>2 DEF NewEntry, DeltaKinds
  <2> HIDE DEF ver, v
  <2>3. new => v = 0
    BY DEF v
  <2>4. x = e
    BY <1>3, <2>1, <2>2, <2>3 DEF Entry
  <2> QED BY <2>1, <2>4
<1>8. /\ UNCHANGED <<chunkStore, corrections, counters, left>>
      /\ \/ Fail(t) /\ UNCHANGED <<manifest, known, log>>
         \/ /\ IF new THEN CanAdd(p) ELSE CanUpdate(p, c.entry.version)
            /\ files' = [files EXCEPT ![p] = x]
            /\ log' = [log EXCEPT ![p] = Append(@,
                 [version |-> v, content |-> Published(c), deleted |-> FALSE])]
            /\ IF c.kind = "write"
               THEN /\ Becomes(t, [done EXCEPT !.pc = "bundle", !.ret = v])
                    /\ UNCHANGED known
               ELSE Answer(t, done, c.ret)
  BY DEF Publish, AddFile, UpdateFile
<1>9. new => v = 0
  OBVIOUS
<1>10. ~new => c.entry.version + 1 = v
  OBVIOUS
<1> HIDE DEF x, e, done, v, ver
<1>11. r = [version |-> ver, content |-> Published(c), deleted |-> FALSE]
  OBVIOUS
<1>12. CASE Fail(t) /\ UNCHANGED <<manifest, known, log>>
  BY <1>1, <1>2, <1>4, <1>8, <1>12 DEF e, ver, done
<1>13. ASSUME IF new THEN CanAdd(p) ELSE CanUpdate(p, c.entry.version),
              files' = [files EXCEPT ![p] = x],
              log' = [log EXCEPT ![p] = Append(@,
                 [version |-> v, content |-> Published(c), deleted |-> FALSE])],
              IF c.kind = "write"
               THEN /\ Becomes(t, [done EXCEPT !.pc = "bundle", !.ret = v])
                    /\ UNCHANGED known
               ELSE Answer(t, done, c.ret)
       PROVE  /\ e \in Entry /\ r \in LogEntry /\ e.deleted = FALSE
              /\ files' = [files EXCEPT ![p] = e] /\ log' = [log EXCEPT ![p] = Append(@, r)]
              /\ new => ver = 0
              /\ ~new => c.entry.version + 1 = ver
              /\ \/ /\ c.kind = "write" /\ UNCHANGED known
                    /\ Becomes(t, [done EXCEPT !.pc = "bundle", !.ret = ver])
                 \/ c.kind \in DeltaKinds /\ Answer(t, done, c.ret)
  <2>1. v = ver /\ x = e
    BY <1>7, <1>13
  <2> QED BY <1>2, <1>5, <1>6, <1>9, <1>10, <1>13, <2>1
<1> QED BY <1>1, <1>2, <1>4, <1>8, <1>12, <1>13 DEF e, ver, done

\* A publication keeps the chain.
LEMMA PublishCounted ==
  ASSUME Counted, Inductive', NEW t \in Threads, Publish(t) PROVE Counted'
<1> DEFINE c    == call[t]
           p    == c.path
           ver  == Len(log[p])
           e    == [NewEntry(c) EXCEPT !.version = ver]
           r    == [version |-> ver, content |-> Published(c), deleted |-> FALSE]
           done == [c EXCEPT !.basis = ver + 1]
           d    == [done EXCEPT !.pc = "bundle", !.ret = ver]
<1>1. /\ p \in Paths /\ ver \in Nat /\ c \in Call
      /\ \/ Fail(t) /\ UNCHANGED <<manifest, known, log>>
         \/ /\ e \in Entry /\ r \in LogEntry /\ e.deleted = FALSE
            /\ files' = [files EXCEPT ![p] = e] /\ log' = [log EXCEPT ![p] = Append(@, r)]
            /\ \/ c.kind = "write" /\ Becomes(t, d)
               \/ Answer(t, done, c.ret)
  BY PublishEffect
<1>2. /\ e \in Entry => e.version = ver
      /\ r.version = ver /\ r.deleted = FALSE
  <2>1. \A f : [f EXCEPT !.version = ver] \in Entry => [f EXCEPT !.version = ver].version = ver
    BY DEF Entry
  <2> QED BY <2>1
<1>3. d.pc = "bundle" /\ d.kind = c.kind
  BY <1>1 DEF Call
<1> HIDE DEF d, done
<1>4. CASE Fail(t) /\ UNCHANGED <<manifest, known, log>>
  BY <1>4, EndedAlive, CountedLocal DEF manifest
<1>5. ASSUME e \in Entry, r \in LogEntry, e.deleted = FALSE,
             files' = [files EXCEPT ![p] = e], log' = [log EXCEPT ![p] = Append(@, r)],
             (c.kind = "write" /\ Becomes(t, d)) \/ Answer(t, done, c.ret)
      PROVE  Counted'
  <2>1. e.version = ver /\ r.version = ver /\ e.deleted = r.deleted
    BY <1>2, <1>5
  <2> HIDE DEF e, r
  <2>2. NeverLeft' /\ VersionChain'
    BY <1>1, <1>5, <2>1, NextVersion
  <2>3. \E x : Becomes(t, x) /\ Alive(x)
    BY <1>3, <1>5, EndedAlive DEF Alive, DeltaKinds
  <2> QED BY <2>2, <2>3, CountedMoves
<1> QED BY <1>1, <1>4, <1>5

\* delete_file: what it does.
LEMMA DeleteEffect ==
  ASSUME Counted, NEW t \in Threads, NEW p \in Paths, NEW v \in Expectations(t, p),
         StartDelete(t, p, v)
  PROVE  LET ver == Len(log[p])
             e   == [files[p] EXCEPT !.deleted = TRUE, !.version = ver]
             r   == [version |-> ver, content |-> Last(log[p]).content, deleted |-> TRUE]
         IN  /\ UNCHANGED <<totalChunks, chunkStore, corrections, counters, known>>
             /\ \/ Fail(t) /\ UNCHANGED <<files, manifestVersion, log>>
                \/ /\ files[p] \in Entry /\ files[p] # NoEntry /\ ver \in Nat \ {0}
                   /\ e \in Entry /\ e.version = ver /\ e.deleted = TRUE
                   /\ e.chunks = files[p].chunks /\ e.size = files[p].size
                   /\ r \in LogEntry
                   /\ files' = [files EXCEPT ![p] = e]
                   /\ log' = [log EXCEPT ![p] = Append(@, r)]
                   /\ Becomes(t, Begun("delete", p, "count"))
<1> DEFINE ver == Len(log[p])
           e   == [files[p] EXCEPT !.deleted = TRUE, !.version = ver]
           r   == [version |-> ver, content |-> Last(log[p]).content, deleted |-> TRUE]
<1>1. UNCHANGED <<totalChunks, chunkStore, corrections, counters, known>>
  BY DEF StartDelete
<1>2. CASE Fail(t) /\ UNCHANGED <<files, manifestVersion, log>>
  BY <1>1, <1>2
<1>3. ASSUME CanUpdate(p, v),
             files' = [files EXCEPT ![p].deleted = TRUE, ![p].version = v + 1],
             log' = [log EXCEPT ![p] = Append(@,
               [version |-> v + 1, content |-> Last(@).content, deleted |-> TRUE])],
             Becomes(t, Begun("delete", p, "count"))
      PROVE  /\ files[p] \in Entry /\ files[p] # NoEntry /\ ver \in Nat \ {0}
             /\ e \in Entry /\ e.version = ver /\ e.deleted = TRUE
             /\ e.chunks = files[p].chunks /\ e.size = files[p].size
             /\ r \in LogEntry
             /\ files' = [files EXCEPT ![p] = e]
             /\ log' = [log EXCEPT ![p] = Append(@, r)]
  <2>1. /\ files[p] \in Entry /\ files[p] # NoEntry /\ files[p].version = v
        /\ v = ver - 1 /\ ver \in Nat \ {0} /\ log \in Logs
        /\ files \in [Paths -> Entry \cup {NoEntry}]
    BY <1>3, CountedTypes DEF CanUpdate
  <2>2. ver = v + 1
    BY <2>1
  <2>3. Last(log[p]).content \in Seq(AllBytes)
    <3>1. log[p] \in Seq(LogEntry)
      BY <2>1 DEF Logs
    <3>2. Last(log[p]) \in LogEntry
      BY <2>1, <3>1, ElementOfSeq DEF Last
    <3> QED BY <3>2 DEF LogEntry
  <2>4. r \in LogEntry
    <3> HIDE DEF ver
    <3> QED BY <2>1, <2>3 DEF LogEntry
  <2>5. /\ e \in Entry /\ e.version = ver /\ e.deleted = TRUE
        /\ e.chunks = files[p].chunks /\ e.size = files[p].size
    <3> HIDE DEF ver
    <3> QED BY <2>1 DEF Entry
  <2>6. files' = [files EXCEPT ![p] = e]
    <3> HIDE DEF ver
    <3> QED BY <1>3, <2>1, <2>2
  <2>7. log' = [log EXCEPT ![p] = Append(@, r)]
    <3> HIDE DEF ver
    <3> QED BY <1>3, <2>2
  <2> QED BY <2>1, <2>4, <2>5, <2>6, <2>7
<1>4. \/ Fail(t) /\ UNCHANGED <<files, manifestVersion, log>>
      \/ /\ CanUpdate(p, v)
         /\ files' = [files EXCEPT ![p].deleted = TRUE, ![p].version = v + 1]
         /\ log' = [log EXCEPT ![p] = Append(@,
               [version |-> v + 1, content |-> Last(@).content, deleted |-> TRUE])]
         /\ Becomes(t, Begun("delete", p, "count"))
  BY DEF StartDelete
<1> QED BY <1>1, <1>2, <1>3, <1>4

\* A deletion keeps the chain.
LEMMA DeleteCounted ==
  ASSUME Counted, Inductive', NEW t \in Threads, NEW p \in Paths, NEW v \in Expectations(t, p),
         StartDelete(t, p, v)
  PROVE  Counted'
<1> DEFINE ver == Len(log[p])
           e   == [files[p] EXCEPT !.deleted = TRUE, !.version = ver]
           r   == [version |-> ver, content |-> Last(log[p]).content, deleted |-> TRUE]
           b   == Begun("delete", p, "count")
<1>1. CASE Fail(t) /\ UNCHANGED <<files, manifestVersion, log>>
  BY <1>1, EndedAlive, CountedLocal
<1>2. ASSUME e \in Entry, e.version = ver, e.deleted = TRUE, r \in LogEntry,
             files' = [files EXCEPT ![p] = e], log' = [log EXCEPT ![p] = Append(@, r)],
             Becomes(t, b)
      PROVE  Counted'
  <2>1. r.version = ver /\ r.deleted = TRUE
    OBVIOUS
  <2>2. b.pc = "count" /\ b.kind = "delete"
    BY IdleType DEF Begun, Call
  <2> HIDE DEF e, r, b
  <2>3. NeverLeft' /\ VersionChain'
    BY <1>2, <2>1, NextVersion
  <2>4. Alive(b)
    BY <2>2 DEF Alive, DeltaKinds
  <2> QED BY <1>2, <2>3, <2>4, CountedMoves
<1> QED BY <1>1, <1>2, DeleteEffect

\* The chain is empty at first.
LEMMA CountedInit == ASSUME Init PROVE Counted
<1>1. Inductive
  BY InitOK
<1>2. DeltaLive
  BY DEF Init, Idle, DeltaLive, AnsweredPCs
<1> DEFINE rec == [version |-> 0, content |-> InitContent, deleted |-> FALSE]
<1>3. log = [p \in Paths |-> IF p = InitPath THEN <<rec>> ELSE <<>>]
  BY DEF Init
<1>4. \A p \in Paths : IF p = InitPath
        THEN files[p] # NoEntry => files[p].version = 0 /\ files[p].deleted = FALSE
        ELSE files[p] = NoEntry
  BY DEF Init
<1>5. \A p \in Paths : p = InitPath => files[p] # NoEntry
  <2>1. files \in [Paths -> Entry \cup {NoEntry}] /\ \A p \in Paths : p = InitPath => files[p] \in Entry
    <3> DEFINE first == [version |-> 0, chunks |-> [i \in 1..ChunksIn(InitContent) |-> i],
                         size |-> Len(InitContent), indexed |-> FALSE,
                         deleted |-> FALSE]
    <3>1. files = [p \in Paths |-> IF p = InitPath THEN first ELSE NoEntry]
      BY DEF Init
    <3>2. InitContent \in Seq(AllBytes) /\ ChunksIn(InitContent) \in Nat /\ Len(InitContent) \in Nat
      BY RequestType, ChunksInNat, LenProperties
    <3>3. first.chunks \in Seq(Nat)
      <4> DEFINE n == ChunksIn(InitContent)
                 ids == [i \in 1..n |-> i]
      <4> HIDE DEF n
      <4>1. ids \in [1..n -> Nat] /\ n \in Nat
        BY <3>2 DEF n
      <4>2. ids \in Seq(Nat)
        BY <4>1, SeqOfFunction
      <4> QED BY <4>2 DEF n
    <3>4. first \in Entry
      <4> DEFINE ids == [i \in 1..ChunksIn(InitContent) |-> i]
      <4>1. ids \in Seq(Nat)
        BY <3>3
      <4> HIDE DEF ids
      <4> QED BY <3>2, <4>1 DEF Entry, ids
    <3> HIDE DEF first
    <3> QED BY <3>1, <3>4
  <2> QED BY <2>1, NullAssumption
<1>6. NeverLeft
  BY <1>3, <1>5 DEF NeverLeft
<1>7. VersionChain
  <2> HIDE DEF rec
  <2>1. Len(<<rec>>) = 1 /\ <<rec>>[1] = rec /\ Len(<<>>) = 0
    OBVIOUS
  <2>2. rec.version = 0 /\ rec.deleted = FALSE
    BY DEF rec
  <2>3. ASSUME NEW p \in Paths, NEW i \in 1..Len(log[p]) PROVE log[p][i].version = i - 1
    BY <1>3, <2>1, <2>2, <2>3
  <2>4. ASSUME NEW p \in Paths, files[p] # NoEntry
        PROVE  files[p].version = Last(log[p]).version /\ files[p].deleted = Last(log[p]).deleted
    <3>1. p = InitPath /\ log[p] = <<rec>>
      BY <1>3, <1>4, <2>4
    <3>2. Last(log[p]) = rec
      BY <2>1, <3>1 DEF Last
    <3> QED BY <1>4, <2>2, <2>4, <3>1, <3>2
  <2> QED BY <2>3, <2>4 DEF VersionChain
<1> QED BY <1>1, <1>2, <1>6, <1>7 DEF Counted

\* Each step keeps the chain.
LEMMA CountedNext ==
  ASSUME NoCompaction, Counted, [Next]_vars PROVE Counted'
<1>1. Inductive'
  BY NextOK DEF Counted
<1>2. ASSUME NEW t \in Threads, Start(t) PROVE Counted'
  <2>1. PICK p \in Paths : \E v \in Expectations(t, p) :
         \/ \E data \in Contents : StartWrite(t, p, data, v)
         \/ StartDelete(t, p, v)
         \/ v = NoVersion /\ StartRead(t, p)
         \/ \E s \in ChangeSets : StartDelta(t, p, "replace", <<>>, s, 0, v)
         \/ \E data \in Appends : StartDelta(t, p, "append", data, {}, 0, v)
         \/ \E n \in Lengths : StartDelta(t, p, "truncate", <<>>, {}, n, v)
    BY <1>2 DEF Start
  <2>0. PICK v \in Expectations(t, p) :
         \/ \E data \in Contents : StartWrite(t, p, data, v)
         \/ StartDelete(t, p, v)
         \/ v = NoVersion /\ StartRead(t, p)
         \/ \E s \in ChangeSets : StartDelta(t, p, "replace", <<>>, s, 0, v)
         \/ \E data \in Appends : StartDelta(t, p, "append", data, {}, 0, v)
         \/ \E n \in Lengths : StartDelta(t, p, "truncate", <<>>, {}, n, v)
    BY <2>1
  <2>2. CASE StartDelete(t, p, v)
    BY <1>1, <2>2, DeleteCounted
  <2>3. CASE ~StartDelete(t, p, v)
    <3>1. UNCHANGED <<files, log>> /\ \E c : Becomes(t, c) /\ Alive(c)
      BY <2>0, <2>3, StartAlive
    <3> QED BY <1>1, <3>1, CountedLocal
  <2> QED BY <2>2, <2>3
<1>3. ASSUME NEW t \in Threads, Write(t) \/ Read(t) \/ Delta(t) PROVE Counted'
  <2>1. CASE Publish(t)
    BY <1>1, <2>1, PublishCounted
  <2>2. CASE ~Publish(t)
    <3>1. UNCHANGED <<files, log>> /\ \E c : Becomes(t, c) /\ Alive(c)
      BY <1>3, <2>2, MiddleAlive DEF Write
    <3> QED BY <1>1, <3>1, CountedLocal
  <2> QED BY <2>1, <2>2
<1>4. ASSUME NEW t \in Threads, StartCompact(t) \/ Compact(t) PROVE FALSE
  BY <1>4 DEF StartCompact, Ready, NoCompaction, Compact, Counted, DeltaLive
<1>5. CASE UNCHANGED vars
  BY <1>1, <1>5 DEF vars, manifest, Counted, DeltaLive, NeverLeft, VersionChain
<1> QED BY <1>2, <1>3, <1>4, <1>5 DEF Next

\* As long as nobody compacts the manifest, the versions of a path count its
\* publications: two successful writes, deletes or deltas of a path never
\* publish the same version, none is skipped, and the manifest carries the last.
THEOREM VersionsCount == NoCompaction => (Spec => []VersionChain)
<1> SUFFICES ASSUME NoCompaction PROVE Spec => []VersionChain
  OBVIOUS
<1>1. Init => Counted
  BY CountedInit
<1>2. Counted /\ [Next]_vars => Counted'
  BY CountedNext
<1>3. Counted => VersionChain
  BY DEF Counted
<1> QED BY <1>1, <1>2, <1>3, PTL DEF Spec
-----------------------------------------------------------------------------
(* Chunks of a content *)

\* How many chunks there are: the last one is neither empty nor cut off.
LEMMA ChunkCounts ==
  ASSUME NEW data \in Seq(AllBytes)
  PROVE  /\ ChunksIn(data) \in Nat /\ Len(data) \in Nat
         /\ ChunksIn(data) * ChunkSize \in Nat /\ Len(data) <= ChunksIn(data) * ChunkSize
         /\ \A k \in Nat : k < ChunksIn(data) => k * ChunkSize \in Nat /\ k * ChunkSize < Len(data)
         /\ ChunksIn(data) = 0 => data = <<>>
<1> DEFINE n == ChunksIn(data)
           L == Len(data)
           d == ChunkSize
<1>1. L \in Nat /\ d \in Nat \ {0} /\ n \in Nat
  BY LenProperties, ChunkSizeAssumption, ChunksInNat
<1>2. n = (L + d - 1) \div d
  BY DEF ChunksIn, CeilDiv
<1> HIDE DEF n, L, d
<1>3. PICK r \in 0..(d - 1) : L + d - 1 = (n * d) + r
  <2> DEFINE x == L + d - 1
  <2>1. x \in Nat /\ d \in Nat /\ d > 0
    BY <1>1
  <2> HIDE DEF x
  <2>2. x = (x \div d) * d + (x % d) /\ (x % d) \in 0..(d - 1)
    BY <2>1
  <2> QED BY <1>2, <2>2 DEF x
<1>4. n * d \in Nat
  BY <1>1
<1> HIDE <1>2
<1>5. L <= n * d /\ n * d < L + d
  <2> DEFINE m == n * d
  <2>1. m \in Nat /\ L + d - 1 = m + r
    BY <1>3, <1>4
  <2> HIDE DEF m
  <2> QED BY <1>1, <2>1 DEF m
<1>6. ASSUME NEW k \in Nat, k < n PROVE k * d \in Nat /\ k * d < L
  <2>1. k * d \in Nat /\ (k + 1) * d = k * d + d /\ (k + 1) * d \in Nat
    BY <1>1
  <2>2. (k + 1) * d <= n * d
    <3>1. PICK j \in Nat : n = (k + 1) + j
      <4>1. n - (k + 1) \in Nat /\ n = (k + 1) + (n - (k + 1))
        BY <1>1, <1>6
      <4> QED BY <4>1
    <3>2. n * d = (k + 1) * d + j * d /\ j * d \in Nat
      BY <1>1, <3>1
    <3> QED BY <2>1, <3>2
  <2> QED BY <1>1, <1>4, <1>5, <2>1, <2>2
<1>7. n = 0 => data = <<>>
  <2>1. n = 0 => L = 0
    BY <1>1, <1>4, <1>5
  <2> QED BY <2>1, EmptySeq DEF L
<1> QED BY <1>1, <1>4, <1>5, <1>6, <1>7 DEF n, L, d

\* The correction computed for a chunk of a file gives that chunk back.
LEMMA OwnCorrection ==
  ASSUME NEW data \in Seq(AllBytes), NEW i \in Nat \ {0}
  PROVE  Apply(ChunkOf(data, i), ChunkOf(data, i)) = ChunkOf(data, i)
<1> DEFINE chunk == ChunkOf(data, i)
<1>1. chunk \in Seq(AllBytes)
  BY ChunkType
<1> HIDE DEF chunk
<1>2. ASSUME ~NeedsCorrection(chunk) PROVE Decode(chunk) = chunk
  <2>1. chunk = [j \in DOMAIN chunk |-> chunk[j]]
    BY <1>1
  <2>2. \A j \in DOMAIN chunk : chunk[j] \in ExactBytes
    BY <1>2 DEF NeedsCorrection, Exact
  <2> QED BY <2>1, <2>2 DEF Decode
<1>3. Apply(chunk, chunk) = chunk
  BY <1>2 DEF Apply
<1> QED BY <1>3 DEF chunk

\* The first k chunks and the next one are the first k + 1 chunks.
LEMMA NextChunk ==
  ASSUME NEW data \in Seq(AllBytes), NEW k \in Nat, k < ChunksIn(data)
  PROVE  LET end == MinOf((k + 1) * ChunkSize, Len(data))
         IN  /\ SubSeq(data, 1, k * ChunkSize) \o ChunkOf(data, k + 1) = SubSeq(data, 1, end)
             /\ k + 1 < ChunksIn(data) => end = (k + 1) * ChunkSize
             /\ k + 1 = ChunksIn(data) => SubSeq(data, 1, end) = data
<1> DEFINE n == ChunksIn(data)
           L == Len(data)
           a == k * ChunkSize
           b == (k + 1) * ChunkSize
           end == MinOf(b, L)
<1>1. /\ L \in Nat /\ a \in Nat /\ a < L /\ n \in Nat
      /\ k + 1 < n => b < L
      /\ k + 1 = n => L <= b
  BY ChunkCounts
<1>2. b = a + ChunkSize
  BY ChunkSizeAssumption
<1>3. ChunkOf(data, k + 1) = SubSeq(data, a + 1, end)
  <2>1. (k + 1) - 1 = k
    OBVIOUS
  <2> QED BY <2>1 DEF ChunkOf
<1> HIDE DEF a, b, L, n
<1>4. /\ b \in Nat /\ end \in a..L /\ a \in 0..L
      /\ k + 1 < n => end = b
      /\ k + 1 = n => end = L
  BY <1>1, <1>2, ChunkSizeAssumption DEF MinOf
<1> HIDE DEF end
<1>5. SubSeq(data, 1, a) \o SubSeq(data, a + 1, end) = SubSeq(data, 1, end)
  <2>1. 1 \in 1..(L + 1) /\ a \in (1 - 1)..L
    BY <1>1, <1>4
  <2> QED BY <1>1, <1>4, <2>1, ConcatAdjacentSubSeq DEF L
<1>6. k + 1 = n => SubSeq(data, 1, end) = data
  BY <1>4, SubSeqFull DEF L
<1> QED BY <1>3, <1>4, <1>5, <1>6 DEF a, b, L, n, end
-----------------------------------------------------------------------------
(* Contents: what a step leaves alone *)

\* A store that only gains entries, a log that only gains publications.
Keeps(old, new) ==
  DOMAIN old \subseteq DOMAIN new /\ \A id \in DOMAIN old : new[id] = old[id]

\* One log continues the other.
Longer(lg, lg2) ==
  \A p \in Paths : /\ Len(lg[p]) \in Nat /\ Len(lg2[p]) \in Nat /\ Len(lg[p]) <= Len(lg2[p])
                   /\ \A i \in 1..Len(lg[p]) : lg2[p][i] = lg[p][i]

\* Nothing changes what an entry stands for.
LEMMA HoldsKept ==
  ASSUME NEW e, NEW content, NEW st, NEW co, NEW st2, NEW co2,
         Holds(e, content, st, co), Keeps(st, st2), Keeps(co, co2)
  PROVE  Holds(e, content, st2, co2)
BY DEF Holds, Keeps

\* The calls of the other threads go on as they were.
LEMMA CallKept ==
  ASSUME NEW c \in Call, NEW st, NEW co, NEW lg, NEW st2, NEW co2, NEW lg2,
         StageOK(c, lg), CallOK(c, st, co, lg),
         Keeps(st, st2), Keeps(co, co2), Longer(lg, lg2)
  PROVE  CallOK(c, st2, co2, lg2)
<1>1. WriterOK(c, st2, co2, lg2)
  <2>1. Stored(c, st) => Stored(c, st2)
    BY DEF Stored, Keeps
  <2>2. Stored(c, co) => Stored(c, co2)
    BY DEF Stored, Keeps
  <2>3. c.pc \in {"bundle", "count", "ok"} /\ c.kind = "write" =>
          c.basis \in 1..Len(lg2[c.path]) /\ c.ret = lg2[c.path][c.basis].version
    <3>1. c.pc \in {"bundle", "count", "ok"} => c.path \in Paths
      BY DEF StageOK, AnsweredPCs, CallOK
    <3> QED BY <3>1 DEF CallOK, WriterOK, Longer
  <2> QED BY <2>1, <2>2, <2>3 DEF CallOK, WriterOK
<1>2. ReaderOK(c, st2, co2, lg2)
  <2>1. ASSUME c.pc \in {"readChunk", "readCorrection"}
        PROVE  LET was == lg2[c.path][c.basis]
                   n   == Len(c.entry.chunks)
                   k   == n - Len(c.ids)
               IN /\ c.basis \in 1..Len(lg2[c.path])
                  /\ Holds(c.entry, was.content, st2, co2) /\ c.entry.version = was.version
                  /\ Len(c.ids) \in 1..n /\ \A j \in 1..Len(c.ids) : c.ids[j] = c.entry.chunks[k + j]
                  /\ c.data = SubSeq(was.content, 1, k * ChunkSize)
                  /\ c.pc = "readCorrection" => c.chunk = st2[c.ids[1]]
    <3> DEFINE was == lg[c.path][c.basis]
               n   == Len(c.entry.chunks)
               k   == n - Len(c.ids)
    <3>1. c.path \in Paths /\ c.entry # NoEntry
      BY <2>1 DEF StageOK, AnsweredPCs
    <3>2. c.basis \in 1..Len(lg[c.path]) /\ lg2[c.path][c.basis] = was
          /\ c.basis \in 1..Len(lg2[c.path])
      <4>1. c.basis \in 1..Len(lg[c.path])
        BY <2>1 DEF CallOK, ReaderOK
      <4> QED BY <3>1, <4>1 DEF Longer
    <3>3. /\ Holds(c.entry, was.content, st, co) /\ c.entry.version = was.version
          /\ Len(c.ids) \in 1..n /\ \A j \in 1..Len(c.ids) : c.ids[j] = c.entry.chunks[k + j]
          /\ c.data = SubSeq(was.content, 1, k * ChunkSize)
          /\ c.pc = "readCorrection" => c.chunk = st[c.ids[1]]
      BY <2>1 DEF CallOK, ReaderOK
    <3>4. c.ids[1] \in DOMAIN st
      <4>1. c.entry.chunks \in Seq(Nat)
        BY <3>1 DEF Call, Entry
      <4>2. n \in Nat /\ n = ChunksIn(was.content)
        BY <3>3, <4>1, LenProperties DEF Holds
      <4>3. k + 1 \in 1..ChunksIn(was.content) /\ c.ids[1] = c.entry.chunks[k + 1]
        <5> HIDE DEF was
        <5> QED BY <3>3, <4>2
      <4> QED BY <3>3, <4>3 DEF Holds
    <3>5. Holds(c.entry, was.content, st2, co2)
      BY <3>3, HoldsKept
    <3> HIDE DEF was
    <3> QED BY <3>2, <3>3, <3>4, <3>5 DEF Keeps
  <2>2. ASSUME c.pc = "ok", c.kind = "read"
        PROVE  /\ c.basis \in 1..Len(lg2[c.path])
               /\ c.data = lg2[c.path][c.basis].content /\ c.ret = lg2[c.path][c.basis].version
    <3>1. c.path \in Paths /\ c.basis \in 1..Len(lg[c.path])
          /\ c.data = lg[c.path][c.basis].content /\ c.ret = lg[c.path][c.basis].version
      BY <2>2 DEF CallOK, ReaderOK
    <3> QED BY <3>1 DEF Longer
  <2> QED BY <2>1, <2>2 DEF ReaderOK
<1> QED BY <1>1, <1>2 DEF CallOK

\* One call moves, what was stored and published stays.
LEMMA UndisturbedStep ==
  ASSUME Undisturbed, Counted', NEW t \in Threads, NEW c, Becomes(t, c),
         CallOK(c, store', corr', log'),
         Keeps(store, store'), Keeps(corr, corr'), Longer(log, log'),
         Fresh', FilesHold', KnownOK', RootOK'
  PROVE  Undisturbed'
<1>1. call \in [Threads -> Call]
  BY CountedTypes DEF Undisturbed
<1>2. ASSUME NEW u \in Threads PROVE CallOK(call'[u], store', corr', log')
  <2>1. CASE u = t
    BY <1>1, <2>1 DEF Becomes
  <2>2. CASE u # t
    <3>1. call'[u] = call[u] /\ call[u] \in Call
      BY <1>1, <2>2 DEF Becomes
    <3>2. StageOK(call[u], log) /\ CallOK(call[u], store, corr, log)
      BY DEF Undisturbed, Counted, Inductive, StagesOK, CallsOK
    <3> QED BY <3>1, <3>2, CallKept
  <2> QED BY <2>1, <2>2
<1> QED BY <1>2 DEF Undisturbed, CallsOK

\* The log as it is is no shorter than itself.
LEMMA LongerSame ==
  ASSUME Counted, UNCHANGED log
  PROVE  Longer(log, log')
<1>1. \A p \in Paths : Len(log[p]) \in Nat
  BY CountedTypes
<1> QED BY <1>1 DEF Longer

\* Ids stay used once when a call stores, corrects or gives up those it owns.
LEMMA FreshMoves ==
  ASSUME Fresh, call \in [Threads -> Call], NEW t \in Threads, NEW c, Becomes(t, c),
         Owned(c) \subseteq Owned(call[t]), c.pc # "insert", nextId' = nextId,
         DOMAIN store' \subseteq DOMAIN store \cup Owned(call[t]),
         DOMAIN corr' \subseteq DOMAIN corr \cup Owned(call[t]),
         \A id \in Owned(c) : id \notin DOMAIN corr'
  PROVE  Fresh'
<1>1. call'[t] = c /\ \A u \in Threads : u # t => call'[u] = call[u]
  BY DEF Becomes
<1>2. \A u \in Threads : Owned(call'[u]) \subseteq Owned(call[u])
  BY <1>1
<1>3. \A id \in DOMAIN store' \cup DOMAIN corr' : id < nextId'
  BY DEF Fresh
<1>4. ASSUME NEW u \in Threads, NEW id \in Owned(call'[u])
      PROVE  id < nextId' /\ id \notin DOMAIN corr'
  <2>1. CASE u = t
    BY <1>1, <1>2, <1>4, <2>1 DEF Fresh
  <2>2. CASE u # t
    <3>1. id \in Owned(call[u]) /\ id \notin Owned(call[t])
      BY <1>2, <1>4, <2>2 DEF Fresh
    <3> QED BY <3>1 DEF Fresh
  <2> QED BY <2>1, <2>2
<1>5. ASSUME NEW u \in Threads, call'[u].pc = "insert", NEW id \in Owned(call'[u])
      PROVE  id \notin DOMAIN store'
  <2>1. u # t /\ call'[u] = call[u]
    BY <1>1, <1>5
  <2>2. id \in Owned(call[u]) /\ id \notin Owned(call[t])
    BY <1>2, <1>5, <2>1 DEF Fresh
  <2> QED BY <1>5, <2>1, <2>2 DEF Fresh
<1>6. \A u, w \in Threads : u # w => Owned(call'[u]) \cap Owned(call'[w]) = {}
  BY <1>2 DEF Fresh
<1> QED BY <1>3, <1>4, <1>5, <1>6 DEF Fresh

\* The bundling of the other calls is still ahead.
LEMMA RootKept ==
  ASSUME RootOK, call \in [Threads -> Call], NEW t \in Threads, NEW c, Becomes(t, c),
         call[t].pc # "bundle", UNCHANGED <<files, root>>
  PROVE  RootOK'
<1>1. \A u \in Threads : u # t => call'[u] = call[u]
  BY DEF Becomes
<1>2. ASSUME NEW p \in Paths, Exists(p)', ~ \A i \in DOMAIN files[p].chunks : files[p].chunks[i] \in root
      PROVE  \E u \in Threads :
               call'[u].pc = "bundle" /\ call'[u].path = p /\ call'[u].ids = files'[p].chunks
  <2>1. Exists(p)
    BY <1>2 DEF Exists
  <2>2. PICK u \in Threads :
          call[u].pc = "bundle" /\ call[u].path = p /\ call[u].ids = files[p].chunks
    BY <1>2, <2>1 DEF RootOK
  <2> QED BY <1>1, <2>2
<1> QED BY <1>2 DEF RootOK

\* A step that changes the locals of one call, and what its caller knows.
LEMMA QuietStep ==
  ASSUME Undisturbed, Counted', NEW t \in Threads, NEW c, Becomes(t, c),
         CallOK(c, store, corr, log), Owned(c) \subseteq Owned(call[t]), c.pc # "insert",
         call[t].pc # "bundle", UNCHANGED <<files, store, corr, nextId, root, log>>, KnownOK'
  PROVE  Undisturbed'
<1>1. call \in [Threads -> Call] /\ Counted
  BY CountedTypes DEF Undisturbed
<1>2. Fresh'
  BY <1>1, FreshMoves DEF Undisturbed, Fresh
<1>3. FilesHold'
  BY DEF Undisturbed, FilesHold
<1>4. RootOK'
  BY <1>1, RootKept DEF Undisturbed
<1>5. Keeps(store, store') /\ Keeps(corr, corr') /\ Longer(log, log')
  BY <1>1, LongerSame DEF Keeps
<1> QED BY <1>2, <1>3, <1>4, <1>5, UndisturbedStep

\* What is left of a call that fails.
LEMMA FailQuiet ==
  ASSUME Undisturbed, Counted', NEW t \in Threads, Fail(t), call[t].pc # "bundle",
         UNCHANGED <<files, store, corr, nextId, root, log, known>>
  PROVE  Undisturbed'
<1> DEFINE c == [Idle EXCEPT !.pc = "err"]
<1>1. c.pc = "err" /\ c.kind = "none" /\ Becomes(t, c)
  BY DEF Fail, Idle
<1> HIDE DEF c
<1>2. CallOK(c, store, corr, log) /\ Owned(c) = {}
  BY <1>1 DEF CallOK, WriterOK, ReaderOK, Owned, WriteStages
<1>3. KnownOK'
  BY DEF Undisturbed, KnownOK
<1> QED BY <1>1, <1>2, <1>3, QuietStep

\* A call that is answered: what it read or wrote is what was published under
\* the version it returns, and its caller knows that version.
LEMMA AnswerQuiet ==
  ASSUME Undisturbed, Counted', NEW t \in Threads, NEW c \in Call, NEW ret \in Nat,
         Answer(t, c, ret), call[t].pc # "bundle", c.path \in Paths,
         c.kind \in {"write", "read", "delete"},
         c.kind \in {"write", "read"} =>
           c.basis \in 1..Len(log[c.path]) /\ ret = log[c.path][c.basis].version,
         c.kind = "read" => c.data = log[c.path][c.basis].content,
         UNCHANGED <<files, store, corr, nextId, root, log>>
  PROVE  Undisturbed'
<1> DEFINE d == [Idle EXCEPT !.pc = "ok", !.kind = c.kind, !.path = c.path, !.ret = ret,
                    !.data = IF c.kind = "read" THEN c.data ELSE <<>>,
                    !.basis = c.basis]
<1>1. Becomes(t, d)
  BY DEF Answer
<1>2. /\ d.pc = "ok" /\ d.kind = c.kind /\ d.path = c.path /\ d.ret = ret
      /\ d.basis = c.basis /\ (c.kind = "read" => d.data = c.data)
  BY DEF Idle
<1> HIDE DEF d
<1>3. CallOK(d, store, corr, log) /\ Owned(d) = {}
  <2>1. WriterOK(d, store, corr, log)
    BY <1>2 DEF WriterOK, WriteStages
  <2>2. ReaderOK(d, store, corr, log)
    BY <1>2 DEF ReaderOK
  <2>3. Owned(d) = {}
    BY <1>2 DEF Owned
  <2> QED BY <1>2, <2>1, <2>2, <2>3 DEF CallOK
<1>4. KnownOK'
  <2>1. CASE c.kind = "delete"
    <3>1. known' = known
      BY <2>1 DEF Answer
    <3> QED BY <3>1 DEF Undisturbed, KnownOK
  <2>2. CASE c.kind # "delete"
    <3>1. known' = [known EXCEPT ![t][c.path] = [version |-> ret, at |-> c.basis]]
      BY <2>2 DEF Answer
    <3>2. ret = c.basis - 1 /\ c.basis \in Nat
      BY <2>2 DEF Call, Undisturbed, Counted, VersionChain
    <3>3. known \in [Threads -> [Paths -> Knowledge]]
      BY DEF Undisturbed, Counted, Inductive, TypeOK, Knowledge
    <3> DEFINE kn == [version |-> ret, at |-> c.basis]
    <3>4. kn.at = kn.version + 1
      BY <3>2
    <3>5. known' = [known EXCEPT ![t][c.path] = kn]
      BY <3>1
    <3> HIDE DEF kn
    <3>6. ASSUME NEW u \in Threads, NEW p \in Paths
          PROVE  known'[u][p] = kn \/ known'[u][p] = known[u][p]
      BY <3>3, <3>5
    <3> QED BY <3>4, <3>6 DEF Undisturbed, KnownOK
  <2> QED BY <2>1, <2>2
<1> QED BY <1>1, <1>2, <1>3, <1>4, QuietStep
-----------------------------------------------------------------------------
(* Contents: the steps of a reader *)

\* What the invariant gives of one call.
LEMMA OneCall ==
  ASSUME Undisturbed, NEW t \in Threads
  PROVE  /\ Counted /\ Inductive /\ call \in [Threads -> Call] /\ call[t] \in Call
         /\ StageOK(call[t], log) /\ CallOK(call[t], store, corr, log)
         /\ call[t].pc \notin AnsweredPCs \cup {"compact"} => call[t].path \in Paths
BY CountedTypes DEF Undisturbed, Counted, Inductive, StagesOK, StageOK, CallsOK

\* What the invariant gives of one publication.
LEMMA OnePublication ==
  ASSUME Counted, NEW p \in Paths, NEW i \in 1..Len(log[p])
  PROVE  log[p][i] \in LogEntry /\ log[p][i].version = i - 1
         /\ log[p][i].content \in Seq(AllBytes)
<1>1. log[p] \in Seq(LogEntry)
  BY CountedTypes DEF Logs
<1>2. log[p][i] \in LogEntry
  BY <1>1, ElementOfSeq
<1>3. log[p][i].version = i - 1
  BY DEF Counted, VersionChain
<1> QED BY <1>2, <1>3 DEF LogEntry

\* A file of the manifest is what was published last.
LEMMA LastPublication ==
  ASSUME Undisturbed, NEW p \in Paths, files[p] # NoEntry
  PROVE  LET i == Len(log[p]) IN
         /\ i \in 1..Len(log[p]) /\ Last(log[p]) = log[p][i]
         /\ files[p] \in Entry /\ files[p].version = log[p][i].version
         /\ Holds(files[p], log[p][i].content, store, corr)
<1>1. Counted /\ FilesHold
  BY DEF Undisturbed
<1>2. Len(log[p]) \in Nat \ {0} /\ files[p] \in Entry
  BY <1>1, CountedTypes
<1>3. Last(log[p]) = log[p][Len(log[p])]
  BY DEF Last
<1>4. files[p].version = Last(log[p]).version
  BY <1>1 DEF Counted, VersionChain
<1>5. Holds(files[p], Last(log[p]).content, store, corr)
  BY <1>1 DEF FilesHold
<1> QED BY <1>2, <1>3, <1>4, <1>5

\* read_file: the entry found is that of the last publication.
LEMMA StartReadUndisturbed ==
  ASSUME Undisturbed, Counted', NEW t \in Threads, NEW p \in Paths, StartRead(t, p)
  PROVE  Undisturbed'
<1> DEFINE b == Begun("read", p, "readChunk")
           c == [b EXCEPT !.ids = files[p].chunks]
           i == Len(log[p])
<1>1. /\ Counted /\ call[t].pc # "bundle"
      /\ UNCHANGED <<files, store, corr, nextId, root, log>>
  BY DEF StartRead, Ready, Undisturbed, manifest, chunkStore, corrections, counters
<1>2. CASE Fail(t) /\ UNCHANGED known
  BY <1>1, <1>2, FailQuiet
<1>3. CASE Exists(p) /\ files[p].chunks = <<>>
           /\ Answer(t, Begun("read", p, "ok"), files[p].version)
  <2> DEFINE d == Begun("read", p, "ok")
  <2>1. /\ i \in 1..Len(log[p]) /\ files[p] \in Entry /\ files[p].version = log[p][i].version
        /\ Holds(files[p], log[p][i].content, store, corr)
    BY <1>3, LastPublication DEF Exists
  <2>2. files[p].version \in Nat /\ Len(files[p].chunks) = 0
    BY <1>3, <2>1 DEF Entry
  <2>3. log[p][i].content \in Seq(AllBytes)
    BY <1>1, <2>1, OnePublication
  <2>4. log[p][i].content = <<>>
    BY <2>1, <2>2, <2>3, ChunkCounts DEF Holds
  <2>5. /\ d \in Call /\ d.kind = "read" /\ d.path = p /\ d.basis = i
        /\ Idle.data = <<>>
    <3>1. d \in Call /\ d.kind = "read" /\ d.path = p /\ d.basis = i
      BY <1>1, PCNames, BegunType DEF Counted
    <3>2. Idle.data = <<>>
      BY DEF Idle
    <3> QED BY <3>1, <3>2
  <2>6. d.data = <<>>
    BY <2>5, IdleType DEF Begun, Call
  <2> HIDE DEF d, i
  <2>7. Answer(t, d, files[p].version)
    BY <1>3 DEF d
  <2> QED BY <1>1, <2>1, <2>2, <2>4, <2>5, <2>6, <2>7, AnswerQuiet
<1>4. CASE Exists(p) /\ files[p].chunks # <<>> /\ Becomes(t, c) /\ UNCHANGED known
  <2>1. /\ i \in 1..Len(log[p]) /\ files[p] \in Entry /\ files[p].version = log[p][i].version
        /\ Holds(files[p], log[p][i].content, store, corr)
    BY <1>4, LastPublication DEF Exists
  <2>2. /\ b \in Call /\ b.pc = "readChunk" /\ b.kind = "read" /\ b.path = p
        /\ b.entry = files[p] /\ b.basis = i /\ Idle.data = <<>>
    <3>1. /\ b \in Call /\ b.pc = "readChunk" /\ b.kind = "read" /\ b.path = p
          /\ b.entry = files[p] /\ b.basis = i
      BY <1>1, PCNames, BegunType DEF Counted
    <3>2. Idle.data = <<>>
      BY DEF Idle
    <3> QED BY <3>1, <3>2
  <2>3. b.data = <<>>
    BY <2>2, IdleType DEF Begun, Call
  <2> HIDE DEF b, i
  <2>4. /\ c.pc = "readChunk" /\ c.kind = "read" /\ c.path = p /\ c.entry = files[p]
        /\ c.basis = i /\ c.data = <<>> /\ c.ids = files[p].chunks
    BY <2>2, <2>3 DEF Call
  <2> HIDE DEF c
  <2>5. files[p].chunks \in Seq(Nat)
    BY <2>1 DEF Entry
  <2>6. Len(files[p].chunks) \in Nat \ {0}
    BY <1>4, <2>5, LenProperties, EmptySeq
  <2>7. SubSeq(log[p][i].content, 1, 0) = <<>>
    BY SubSeqEmpty
  <2>8. ReaderOK(c, store, corr, log)
    <3> DEFINE n == Len(files[p].chunks)
    <3>1. n - n = 0 /\ 0 * ChunkSize = 0 /\ n \in 1..n /\ \A j \in 1..n : 0 + j = j
      BY <2>6, ChunkSizeAssumption
    <3> HIDE DEF n
    <3> QED BY <2>1, <2>4, <2>7, <3>1 DEF ReaderOK, n
  <2>9. WriterOK(c, store, corr, log)
    BY <2>4 DEF WriterOK, WriteStages
  <2>10. CallOK(c, store, corr, log) /\ Owned(c) = {}
    BY <2>4, <2>8, <2>9 DEF CallOK, Owned
  <2>11. KnownOK'
    BY <1>4 DEF Undisturbed, KnownOK
  <2> QED BY <1>1, <1>4, <2>4, <2>10, <2>11, QuietStep
<1> QED BY <1>2, <1>3, <1>4 DEF StartRead

\* read_file: a chunk is read under an id of that entry.
LEMMA ReadChunkUndisturbed ==
  ASSUME Undisturbed, Counted', NEW t \in Threads, ReadChunk(t)
  PROVE  Undisturbed'
<1> DEFINE a  == call[t]
           id == Head(a.ids)
           c  == [a EXCEPT !.pc = "readCorrection", !.chunk = store[id]]
<1>1. /\ a.pc = "readChunk" /\ a.pc # "bundle"
      /\ UNCHANGED <<files, store, corr, nextId, root, log, known>>
      /\ Becomes(t, c) \/ Fail(t)
  BY DEF ReadChunk, manifest, chunkStore, corrections, counters, client
<1>2. CASE Fail(t)
  BY <1>1, <1>2, FailQuiet
<1>3. CASE Becomes(t, c)
  <2>1. a \in Call /\ CallOK(a, store, corr, log)
    BY OneCall
  <2>2. /\ c.pc = "readCorrection" /\ c.kind = a.kind /\ c.path = a.path /\ c.entry = a.entry
        /\ c.basis = a.basis /\ c.data = a.data /\ c.ids = a.ids /\ c.chunk = store[id]
    BY <2>1 DEF Call
  <2>3. id = a.ids[1]
    OBVIOUS
  <2> HIDE DEF c, a, id
  <2>4. ReaderOK(c, store, corr, log)
    BY <1>1, <2>1, <2>2, <2>3 DEF CallOK, ReaderOK
  <2>5. WriterOK(c, store, corr, log)
    BY <2>2 DEF WriterOK, WriteStages
  <2>6. CallOK(c, store, corr, log) /\ Owned(c) = {}
    BY <2>1, <2>2, <2>4, <2>5 DEF CallOK, Owned
  <2>7. KnownOK'
    BY <1>1 DEF Undisturbed, KnownOK
  <2>8. call[t].pc # "bundle"
    BY <1>1 DEF a
  <2> QED BY <1>1, <1>3, <2>2, <2>6, <2>7, <2>8, QuietStep
<1> QED BY <1>1, <1>2, <1>3

\* read_file: the chunk is corrected; the bytes read so far are a prefix of
\* the content, and all of it after the last chunk.
LEMMA ReadCorrectionUndisturbed ==
  ASSUME Undisturbed, Counted', NEW t \in Threads, ReadCorrection(t)
  PROVE  Undisturbed'
<1> DEFINE a    == call[t]
           was  == log[a.path][a.basis]
           all  == was.content
           n    == Len(a.entry.chunks)
           k    == n - Len(a.ids)
           id   == Head(a.ids)
           data == a.data \o Corrected(a.chunk, id)
           end  == MinOf((k + 1) * ChunkSize, Len(all))
           c    == [a EXCEPT !.pc = "readChunk", !.ids = Tail(@), !.chunk = <<>>, !.data = data]
           d    == [a EXCEPT !.data = SubSeq(data, 1, MinOf(a.entry.size, Len(data)))]
<1>1. /\ a.pc = "readCorrection"
      /\ UNCHANGED <<files, store, corr, nextId, root, log>>
      /\ IF Len(a.ids) > 1 THEN Becomes(t, c) /\ UNCHANGED known
                           ELSE Answer(t, d, a.entry.version)
  BY DEF ReadCorrection, manifest, chunkStore, corrections, counters
<1>2. /\ Counted /\ a \in Call /\ CallOK(a, store, corr, log) /\ a.path \in Paths
      /\ a.kind = "read" /\ a.entry # NoEntry
  BY <1>1, OneCall DEF AnsweredPCs, StageOK
<1>3. /\ a.basis \in 1..Len(log[a.path]) /\ Holds(a.entry, all, store, corr)
      /\ a.entry.version = was.version /\ Len(a.ids) \in 1..n
      /\ \A j \in 1..Len(a.ids) : a.ids[j] = a.entry.chunks[k + j]
      /\ a.data = SubSeq(all, 1, k * ChunkSize) /\ a.chunk = store[a.ids[1]]
  BY <1>1, <1>2 DEF CallOK, ReaderOK
<1>4. all \in Seq(AllBytes) /\ was.version = a.basis - 1
  BY <1>2, <1>3, OnePublication
<1>5. /\ a.entry \in Entry /\ a.ids \in Seq(Nat) /\ a.basis \in Nat
      /\ a.entry.chunks \in Seq(Nat) /\ a.entry.size = Len(all) /\ a.entry.version \in Nat
  BY <1>2, <1>3 DEF Call, Entry, Holds
<1>6. /\ Len(a.ids) \in Nat \ {0} /\ n \in Nat /\ n = ChunksIn(all) /\ a.ids # <<>>
      /\ k \in Nat /\ k < n /\ id = a.entry.chunks[k + 1] /\ k + 1 \in 1..n /\ id = a.ids[1]
  <2>1. n \in Nat /\ Len(a.ids) \in Nat /\ n = ChunksIn(all)
    BY <1>3, <1>5, LenProperties DEF Holds
  <2>2. Len(a.ids) \in 1..n
    BY <1>3
  <2>3. a.ids # <<>>
    BY <1>5, <2>2, EmptySeq
  <2>4. id = a.ids[1]
    OBVIOUS
  <2>5. id = a.entry.chunks[k + 1]
    <3>1. 1 \in 1..Len(a.ids)
      BY <2>2
    <3> HIDE DEF k, id, n
    <3> QED BY <1>3, <2>4, <3>1
  <2>6. k \in Nat /\ k < n /\ k + 1 \in 1..n
    <3> DEFINE m == Len(a.ids)
    <3>1. n \in Nat /\ m \in 1..n
      BY <2>1, <2>2
    <3> HIDE DEF n, m
    <3>2. n - m \in Nat /\ n - m < n /\ (n - m) + 1 \in 1..n
      BY <3>1
    <3> QED BY <3>2 DEF m
  <2>7. Len(a.ids) \in Nat \ {0}
    BY <2>1, <2>2
  <2> HIDE DEF n, id, k
  <2> QED BY <2>1, <2>3, <2>4, <2>5, <2>6, <2>7
<1> HIDE DEF n, all, was
<1>7. Corrected(a.chunk, id) = ChunkOf(all, k + 1)
  <2>1. /\ store[id] = ChunkOf(all, k + 1) /\ id \in DOMAIN corr
        /\ corr[id] = ChunkOf(all, k + 1)
    BY <1>3, <1>6 DEF Holds
  <2>2. a.chunk = ChunkOf(all, k + 1)
    BY <1>3, <1>6, <2>1
  <2>3. Apply(corr[id], a.chunk) = ChunkOf(all, k + 1)
    BY <1>4, <1>6, <2>1, <2>2, OwnCorrection
  <2> QED BY <2>1, <2>3 DEF Corrected
<1>8. /\ data = SubSeq(all, 1, end)
      /\ k + 1 < n => end = (k + 1) * ChunkSize
      /\ k + 1 = n => SubSeq(all, 1, end) = all
  <2> HIDE DEF k
  <2>1. data = SubSeq(all, 1, k * ChunkSize) \o ChunkOf(all, k + 1)
    BY <1>3, <1>7
  <2> QED BY <1>4, <1>6, <2>1, NextChunk
<1> HIDE DEF data, end
<1>9. CASE Len(a.ids) > 1
  <2>1. Becomes(t, c) /\ UNCHANGED known
    BY <1>1, <1>9
  <2>2. /\ Tail(a.ids) \in Seq(Nat) /\ Len(Tail(a.ids)) = Len(a.ids) - 1
        /\ \A i \in 1..Len(Tail(a.ids)) : Tail(a.ids)[i] = a.ids[i + 1]
    BY <1>5, <1>6, HeadTailProperties
  <2>3. /\ c.pc = "readChunk" /\ c.kind = a.kind /\ c.path = a.path /\ c.entry = a.entry
        /\ c.basis = a.basis /\ c.data = data /\ c.ids = Tail(a.ids)
    BY <1>2 DEF Call
  <2> HIDE DEF c, a
  <2>4. /\ Len(c.ids) \in 1..n /\ n - Len(c.ids) = k + 1 /\ k + 1 < n
        /\ \A j \in 1..Len(c.ids) : c.ids[j] = a.entry.chunks[(k + 1) + j]
    <3>1. /\ Len(c.ids) = Len(a.ids) - 1 /\ Len(a.ids) \in Nat /\ Len(a.ids) > 1
          /\ n \in Nat /\ Len(a.ids) \in 1..n /\ k = n - Len(a.ids)
      BY <1>3, <1>6, <1>9, <2>2, <2>3
    <3>2. Len(c.ids) \in 1..n /\ n - Len(c.ids) = k + 1 /\ k + 1 < n
      <4> HIDE DEF k
      <4>1. \A x, y, z \in Nat : y > 1 /\ y \in 1..z /\ x = y - 1 =>
              x \in 1..z /\ z - x = (z - y) + 1 /\ (z - y) + 1 < z
        OBVIOUS
      <4>2. Len(c.ids) \in Nat
        BY <3>1
      <4> QED BY <3>1, <4>1, <4>2
    <3>3. ASSUME NEW j \in 1..Len(c.ids) PROVE c.ids[j] = a.entry.chunks[(k + 1) + j]
      <4>1. c.ids[j] = a.ids[j + 1]
        BY <2>2, <2>3
      <4>2. j + 1 \in 1..Len(a.ids) /\ k \in Nat /\ k + (j + 1) = (k + 1) + j
        <5> HIDE DEF k
        <5> QED BY <1>6, <3>1
      <4>3. a.ids[j + 1] = a.entry.chunks[k + (j + 1)]
        BY <1>3, <4>2
      <4> QED BY <4>1, <4>2, <4>3
    <3> QED BY <3>2, <3>3
  <2>5. c.data = SubSeq(all, 1, (k + 1) * ChunkSize)
    BY <1>8, <2>3, <2>4
  <2>6. ReaderOK(c, store, corr, log)
    <3> HIDE DEF k
    <3>1. log[c.path][c.basis] = was /\ Len(c.entry.chunks) = n /\ c.basis \in 1..Len(log[c.path])
      BY <1>3, <2>3 DEF was, n
    <3>2. Holds(c.entry, was.content, store, corr) /\ c.entry.version = was.version
      BY <1>3, <2>3 DEF all
    <3>3. c.data = SubSeq(was.content, 1, (k + 1) * ChunkSize)
      BY <2>5 DEF all
    <3>4. \A j \in 1..Len(c.ids) : c.ids[j] = c.entry.chunks[(k + 1) + j]
      BY <2>3, <2>4
    <3> QED BY <2>3, <2>4, <3>1, <3>2, <3>3, <3>4 DEF ReaderOK
  <2>7. WriterOK(c, store, corr, log)
    BY <2>3 DEF WriterOK, WriteStages
  <2>8. CallOK(c, store, corr, log) /\ Owned(c) = {}
    BY <1>2, <2>3, <2>6, <2>7 DEF CallOK, Owned
  <2>9. KnownOK'
    BY <2>1 DEF Undisturbed, KnownOK
  <2>10. call[t].pc # "bundle"
    BY <1>1 DEF a
  <2> QED BY <1>1, <2>1, <2>3, <2>8, <2>9, <2>10, QuietStep
<1>10. CASE ~ (Len(a.ids) > 1)
  <2>1. k + 1 = n
    BY <1>6, <1>10
  <2>2. data = all
    BY <1>8, <2>1
  <2>3. SubSeq(data, 1, MinOf(a.entry.size, Len(data))) = all
    <3>1. Len(all) \in Nat
      BY <1>4, LenProperties
    <3>2. MinOf(a.entry.size, Len(data)) = Len(all)
      BY <1>5, <2>2, <3>1 DEF MinOf
    <3> QED BY <1>4, <2>2, <3>2, SubSeqFull
  <2>4. /\ d \in Call /\ d.kind = "read" /\ d.path = a.path /\ d.basis = a.basis /\ d.data = all
    BY <1>2, <1>4, <2>3 DEF Call
  <2>5. Answer(t, d, a.entry.version) /\ call[t].pc # "bundle"
    BY <1>1, <1>10
  <2>6. all = log[a.path][a.basis].content /\ was = log[a.path][a.basis]
    BY DEF all, was
  <2> HIDE DEF d, a
  <2> QED BY <1>1, <1>2, <1>3, <1>5, <2>4, <2>5, <2>6, AnswerQuiet
<1> QED BY <1>9, <1>10
-----------------------------------------------------------------------------
(* Contents: the steps of a writer *)

\* write_file: the version given is the one the caller learned, and the one
\* the entry has.
LEMMA StartWriteUndisturbed ==
  ASSUME Undisturbed, Counted', NEW t \in Threads, NEW p \in Paths, NEW data \in Contents,
         NEW v \in Expectations(t, p), StartWrite(t, p, data, v)
  PROVE  Undisturbed'
<1> DEFINE b == Begun("write", p, "prepare")
           c == [b EXCEPT !.expected = v, !.data = data, !.learned = known[t][p].at]
<1>1. /\ Counted /\ call[t].pc # "bundle"
      /\ UNCHANGED <<files, store, corr, nextId, root, log, known>>
  BY DEF StartWrite, Ready, Undisturbed, manifest, chunkStore, corrections, counters
<1>2. CASE Fail(t)
  BY <1>1, <1>2, FailQuiet
<1>3. CASE /\ \/ files[p] = NoEntry /\ v = NoVersion
              \/ files[p] # NoEntry /\ v = files[p].version
           /\ Becomes(t, c)
  <2>1. /\ b \in Call /\ b.pc = "prepare" /\ b.kind = "write" /\ b.path = p
        /\ b.entry = files[p]
    BY <1>1, PCNames, BegunType DEF Counted
  <2> HIDE DEF b
  <2>2. /\ c.pc = "prepare" /\ c.kind = "write" /\ c.path = p /\ c.entry = files[p]
        /\ c.expected = v /\ c.learned = known[t][p].at
    BY <2>1 DEF Call
  <2> HIDE DEF c
  <2>3. IF v = NoVersion THEN files[p] = NoEntry
        ELSE /\ v \in Nat /\ known[t][p].at = v + 1
             /\ files[p] # NoEntry /\ files[p].version = v
    <3>1. files[p] # NoEntry => files[p].version \in Nat
      BY <1>1, CountedTypes DEF Entry
    <3>2. CASE v = NoVersion
      BY <1>3, <3>1, <3>2, NullAssumption
    <3>3. CASE v # NoVersion
      <4>1. v = known[t][p].version
        BY <3>3 DEF Expectations
      <4>2. known[t][p].at = v + 1
        BY <3>3, <4>1 DEF Undisturbed, KnownOK
      <4> QED BY <1>3, <3>1, <3>3, <4>2
    <3> QED BY <3>2, <3>3
  <2>4. WriterOK(c, store, corr, log)
    BY <2>2, <2>3 DEF WriterOK, WriteStages
  <2>5. ReaderOK(c, store, corr, log)
    BY <2>2 DEF ReaderOK
  <2>6. CallOK(c, store, corr, log) /\ Owned(c) = {}
    BY <2>2, <2>4, <2>5 DEF CallOK, Owned
  <2>7. KnownOK'
    BY <1>1 DEF Undisturbed, KnownOK
  <2> QED BY <1>1, <1>3, <2>2, <2>6, <2>7, QuietStep
<1> QED BY <1>2, <1>3 DEF StartWrite

\* write_file: the version of the correction store is read.
LEMMA ReadCorrVersionUndisturbed ==
  ASSUME Undisturbed, Counted', NEW t \in Threads, ReadCorrVersion(t)
  PROVE  Undisturbed'
<1> DEFINE a == call[t]
           c == [a EXCEPT !.pc = "correct", !.corrVer = corrVersion]
<1>1. /\ a.pc = "correctVersion" /\ Becomes(t, c)
      /\ UNCHANGED <<files, store, corr, nextId, root, log, known>>
  BY DEF ReadCorrVersion, manifest, chunkStore, corrections, counters, client
<1>2. a \in Call /\ CallOK(a, store, corr, log)
  BY OneCall
<1>3. /\ c.pc = "correct" /\ c.kind = a.kind /\ c.path = a.path /\ c.entry = a.entry
      /\ c.expected = a.expected /\ c.learned = a.learned
      /\ c.data = a.data /\ c.ids = a.ids /\ c.id = a.id
  BY <1>2 DEF Call
<1> HIDE DEF c
<1>4. Stored(c, store)
  BY <1>1, <1>2, <1>3 DEF CallOK, WriterOK, Stored
<1>5. WriterOK(c, store, corr, log)
  BY <1>1, <1>2, <1>3, <1>4 DEF CallOK, WriterOK, WriteStages
<1>6. ReaderOK(c, store, corr, log)
  BY <1>3 DEF ReaderOK
<1>7. CallOK(c, store, corr, log) /\ Owned(c) = Owned(a)
  BY <1>1, <1>2, <1>3, <1>5, <1>6 DEF CallOK, Owned
<1>8. KnownOK'
  BY <1>1 DEF Undisturbed, KnownOK
<1> QED BY <1>1, <1>3, <1>7, <1>8, QuietStep

\* write_file: the call answers with the version it published.
LEMMA CountUndisturbed ==
  ASSUME Undisturbed, Counted', NEW t \in Threads, Count(t)
  PROVE  Undisturbed'
<1>1. /\ call[t].pc = "count" /\ Answer(t, call[t], call[t].ret)
      /\ UNCHANGED <<files, store, corr, nextId, root, log>>
  BY DEF Count, manifest, chunkStore, corrections
<1>2. /\ call[t] \in Call /\ CallOK(call[t], store, corr, log) /\ StageOK(call[t], log)
      /\ call[t].ret \in Nat
  BY OneCall DEF Call
<1>3. call[t].path \in Paths
  BY <1>1, <1>2 DEF CallOK
<1>4. call[t].kind \in {"write", "delete"}
  BY <1>1, <1>2 DEF CallOK
<1>5. call[t].kind = "write" =>
        call[t].basis \in 1..Len(log[call[t].path])
        /\ call[t].ret = log[call[t].path][call[t].basis].version
  BY <1>1, <1>2 DEF CallOK, WriterOK
<1> QED BY <1>1, <1>2, <1>3, <1>4, <1>5, AnswerQuiet

\* write_file: the ids are new, nobody has them.
LEMMA PrepareUndisturbed ==
  ASSUME Undisturbed, Counted', NEW t \in Threads, Prepare(t)
  PROVE  Undisturbed'
<1> DEFINE a   == call[t]
           n   == ChunksIn(a.data)
           ids == [i \in 1..n |-> nextId + i - 1]
           c   == [a EXCEPT !.pc = "insert", !.storeVer = storeVersion, !.id = nextId, !.ids = ids]
<1>1. /\ a.pc = "prepare" /\ Becomes(t, c) /\ nextId' = nextId + n
      /\ UNCHANGED <<files, store, corr, root, log, known>>
  BY DEF Prepare, manifest, chunkStore, corrections, client
<1>2. /\ Counted /\ a \in Call /\ CallOK(a, store, corr, log) /\ call \in [Threads -> Call]
      /\ nextId \in Nat /\ n \in Nat /\ DOMAIN store \subseteq Nat /\ DOMAIN corr \subseteq Nat
  BY OneCall, ChunksInNat DEF Call, Inductive, TypeOK
<1>3. /\ c.pc = "insert" /\ c.kind = a.kind /\ c.path = a.path /\ c.entry = a.entry
      /\ c.expected = a.expected /\ c.learned = a.learned
      /\ c.data = a.data /\ c.ids = ids /\ c.id = nextId
  BY <1>2 DEF Call
<1> HIDE DEF c
<1>4. Owned(c) = nextId..(nextId + n - 1)
  BY <1>3 DEF Owned
<1>5. c.ids = [i \in 1..ChunksIn(c.data) |-> c.id + i - 1]
  BY <1>3
<1> HIDE DEF n, ids
<1>6. WriterOK(c, store, corr, log)
  BY <1>1, <1>2, <1>3, <1>5 DEF CallOK, WriterOK, WriteStages
<1>7. CallOK(c, store, corr, log)
  BY <1>2, <1>3, <1>6 DEF CallOK, ReaderOK
<1>8. Fresh'
  <2>1. call'[t] = c /\ \A u \in Threads : u # t => call'[u] = call[u]
    BY <1>1, <1>2 DEF Becomes
  <2>2. \A u \in Threads : \A id \in Owned(call[u]) : id < nextId /\ id \notin DOMAIN corr
    BY DEF Undisturbed, Fresh
  <2>3. \A id \in DOMAIN store \cup DOMAIN corr : id < nextId
    BY DEF Undisturbed, Fresh
  <2>4. \A id \in Owned(c) : id \in Nat /\ nextId <= id /\ id < nextId'
    BY <1>1, <1>2, <1>4
  <2>5. \A id \in Owned(c) : id \notin DOMAIN store /\ id \notin DOMAIN corr
    BY <1>2, <2>3, <2>4
  <2>6. \A x : x < nextId /\ x \in Nat => x < nextId'
    BY <1>1, <1>2
  <2>7. \A u \in Threads : Owned(call[u]) \subseteq Nat
    <3>1. ASSUME NEW u \in Threads PROVE Owned(call[u]) \subseteq Nat
      <4>1. call[u] \in Call
        BY <1>2
      <4>2. call[u].id \in Nat /\ ChunksIn(call[u].data) \in Nat
        BY <4>1, ChunksInNat DEF Call
      <4> QED BY <4>2 DEF Owned
    <3> QED BY <3>1
  <2>8. \A id \in DOMAIN store' \cup DOMAIN corr' : id < nextId'
    BY <1>1, <1>2, <2>3, <2>6
  <2>9. \A u \in Threads : \A id \in Owned(call'[u]) : id < nextId' /\ id \notin DOMAIN corr'
    BY <1>1, <2>1, <2>2, <2>4, <2>5, <2>6, <2>7
  <2>10. \A u \in Threads :
           call'[u].pc = "insert" => \A id \in Owned(call'[u]) : id \notin DOMAIN store'
    BY <1>1, <2>1, <2>5 DEF Undisturbed, Fresh
  <2>11. \A u \in Threads : u # t => Owned(call[u]) \cap Owned(c) = {}
    BY <1>2, <2>2, <2>4
  <2>12. \A u, w \in Threads : u # w => Owned(call'[u]) \cap Owned(call'[w]) = {}
    BY <2>1, <2>11 DEF Undisturbed, Fresh
  <2> QED BY <2>8, <2>9, <2>10, <2>12 DEF Fresh
<1>9. FilesHold' /\ KnownOK'
  BY <1>1 DEF Undisturbed, FilesHold, KnownOK
<1>10. RootOK'
  BY <1>1, <1>2, RootKept DEF Undisturbed
<1>11. Keeps(store, store') /\ Keeps(corr, corr') /\ Longer(log, log')
  BY <1>1, <1>2, LongerSame DEF Keeps
<1> QED BY <1>1, <1>7, <1>8, <1>9, <1>10, <1>11, UndisturbedStep

\* A batch under ids of its own adds its chunks and changes nothing else.
LEMMA BatchAdded ==
  ASSUME NEW m, NEW first \in Nat, NEW data \in Seq(AllBytes), NEW m2,
         m2 = Over(Batch(first, data), m),
         \A id \in first..(first + ChunksIn(data) - 1) : id \notin DOMAIN m
  PROVE  /\ Keeps(m, m2)
         /\ DOMAIN m2 \subseteq DOMAIN m \cup (first..(first + ChunksIn(data) - 1))
         /\ \A i \in 1..ChunksIn(data) :
              first + i - 1 \in DOMAIN m2 /\ m2[first + i - 1] = ChunkOf(data, i)
<1> DEFINE n == ChunksIn(data)
           b == Batch(first, data)
<1>1. n \in Nat
  BY ChunksInNat
<1>2. b = [id \in first..(first + n - 1) |-> ChunkOf(data, id - first + 1)]
  BY DEF Batch
<1> HIDE DEF n, b
<1>3. DOMAIN b = first..(first + n - 1)
  BY <1>2
<1>4. /\ DOMAIN m2 = DOMAIN b \cup DOMAIN m
      /\ \A id \in DOMAIN m2 : m2[id] = IF id \in DOMAIN b THEN b[id] ELSE m[id]
  BY DEF Over, b
<1>5. Keeps(m, m2)
  BY <1>3, <1>4 DEF Keeps, n
<1>6. ASSUME NEW i \in 1..n
      PROVE  first + i - 1 \in DOMAIN m2 /\ m2[first + i - 1] = ChunkOf(data, i)
  <2>1. /\ first + i - 1 \in first..(first + n - 1)
        /\ (first + i - 1) - first + 1 = i
    BY <1>1
  <2>2. b[first + i - 1] = ChunkOf(data, i)
    BY <1>2, <2>1
  <2> QED BY <1>3, <1>4, <2>1, <2>2
<1> QED BY <1>3, <1>4, <1>5, <1>6 DEF n

\* write_file: the chunks are stored under ids nobody else has.
LEMMA InsertChunksUndisturbed ==
  ASSUME Undisturbed, Counted', NEW t \in Threads, InsertChunks(t)
  PROVE  Undisturbed'
<1> DEFINE a    == call[t]
           n    == ChunksIn(a.data)
           next == IF a.expected = NoVersion THEN "correctNew" ELSE "correctVersion"
           c    == [a EXCEPT !.pc = next]
<1>1. /\ a.pc = "insert"
      /\ UNCHANGED <<files, corr, nextId, root, log, known>>
      /\ \/ store' = Over(Batch(a.id, a.data), store) /\ Becomes(t, c)
         \/ Fail(t) /\ UNCHANGED store
  BY DEF InsertChunks, manifest, chunkStore, corrections, counters, client
<1>2. /\ Counted /\ a \in Call /\ CallOK(a, store, corr, log) /\ call \in [Threads -> Call]
      /\ a.id \in Nat /\ a.data \in Seq(AllBytes) /\ n \in Nat
  BY OneCall, ChunksInNat DEF Call
<1>3. CASE Fail(t) /\ UNCHANGED store
  BY <1>1, <1>3, FailQuiet
<1>4. CASE store' = Over(Batch(a.id, a.data), store) /\ Becomes(t, c)
  <2>1. next \in {"correctNew", "correctVersion"}
    OBVIOUS
  <2> HIDE DEF next
  <2>2. /\ c.pc = next /\ c.kind = a.kind /\ c.path = a.path /\ c.entry = a.entry
        /\ c.expected = a.expected /\ c.learned = a.learned
        /\ c.data = a.data /\ c.ids = a.ids /\ c.id = a.id
    BY <1>2, <2>1 DEF Call
  <2> HIDE DEF c
  <2>3. Owned(a) = a.id..(a.id + n - 1) /\ Owned(c) = Owned(a)
    BY <1>1, <2>1, <2>2 DEF Owned
  <2>4. \A id \in Owned(a) : id \notin DOMAIN store /\ id \notin DOMAIN corr
    BY <1>1 DEF Undisturbed, Fresh
  <2>5. /\ Keeps(store, store') /\ DOMAIN store' \subseteq DOMAIN store \cup Owned(a)
        /\ \A i \in 1..n :
             a.id + i - 1 \in DOMAIN store' /\ store'[a.id + i - 1] = ChunkOf(a.data, i)
    <3>1. \A id \in a.id..(a.id + n - 1) : id \notin DOMAIN store
      BY <2>3, <2>4
    <3> HIDE <2>3
    <3>2. /\ Keeps(store, store')
          /\ DOMAIN store' \subseteq DOMAIN store \cup (a.id..(a.id + n - 1))
          /\ \A i \in 1..n :
               a.id + i - 1 \in DOMAIN store' /\ store'[a.id + i - 1] = ChunkOf(a.data, i)
      BY <1>2, <1>4, <3>1, BatchAdded
    <3> QED BY <2>3, <3>2
  <2>6. c.ids = [i \in 1..n |-> a.id + i - 1]
    BY <1>1, <1>2, <2>2 DEF CallOK, WriterOK
  <2>7. Stored(c, store')
    <3> HIDE DEF n
    <3>1. \A i \in 1..n : c.ids[i] = a.id + i - 1
      BY <2>6
    <3> QED BY <2>2, <2>5, <3>1 DEF Stored, n
  <2>8. WriterOK(c, store', corr', log')
    BY <1>1, <1>2, <2>1, <2>2, <2>7 DEF CallOK, WriterOK, WriteStages
  <2>9. CallOK(c, store', corr', log')
    BY <1>2, <2>1, <2>2, <2>8 DEF CallOK, ReaderOK
  <2>10. Fresh'
    BY <1>1, <1>2, <1>4, <2>1, <2>2, <2>3, <2>4, <2>5, FreshMoves DEF Undisturbed
  <2>11. Keeps(corr, corr') /\ Longer(log, log')
    BY <1>1, <1>2, LongerSame DEF Keeps
  <2>12. FilesHold' /\ KnownOK'
    BY <1>1, <2>5, <2>11, HoldsKept DEF Undisturbed, FilesHold, KnownOK
  <2>13. RootOK'
    BY <1>1, <1>2, <1>4, RootKept DEF Undisturbed
  <2> QED BY <1>4, <2>5, <2>9, <2>10, <2>11, <2>12, <2>13, UndisturbedStep
<1> QED BY <1>1, <1>3, <1>4

\* write_file: the corrections of the stored chunks are those of the content.
LEMMA CorrectionsUndisturbed ==
  ASSUME Undisturbed, Counted', NEW t \in Threads,
         call[t].pc \in {"correctNew", "correct"},
         corr' = Over(Batch(call[t].id, call[t].data), corr),
         Becomes(t, [call[t] EXCEPT !.pc = "publish"]),
         UNCHANGED <<files, store, nextId, root, log, known>>
  PROVE  Undisturbed'
<1> DEFINE a == call[t]
           n == ChunksIn(a.data)
           c == [a EXCEPT !.pc = "publish"]
<1>1. a.pc \in {"correctNew", "correct"} /\ Becomes(t, c)
  OBVIOUS
<1>2. /\ Counted /\ a \in Call /\ CallOK(a, store, corr, log) /\ call \in [Threads -> Call]
      /\ a.id \in Nat /\ a.data \in Seq(AllBytes) /\ n \in Nat
  BY OneCall, ChunksInNat DEF Call
<1>3. /\ c.pc = "publish" /\ c.kind = a.kind /\ c.path = a.path /\ c.entry = a.entry
      /\ c.expected = a.expected /\ c.learned = a.learned
      /\ c.data = a.data /\ c.ids = a.ids /\ c.id = a.id
  BY <1>2 DEF Call
<1> HIDE DEF c
<1>4. Owned(a) = a.id..(a.id + n - 1) /\ Owned(c) = {}
  BY <1>1, <1>3 DEF Owned
<1>5. \A id \in Owned(a) : id \notin DOMAIN corr
  BY DEF Undisturbed, Fresh
<1>6. /\ Keeps(corr, corr') /\ DOMAIN corr' \subseteq DOMAIN corr \cup Owned(a)
      /\ \A i \in 1..n :
           a.id + i - 1 \in DOMAIN corr' /\ corr'[a.id + i - 1] = ChunkOf(a.data, i)
  BY <1>2, <1>4, <1>5, BatchAdded
<1>7. a.ids = [i \in 1..n |-> a.id + i - 1] /\ Stored(a, store)
  BY <1>1, <1>2 DEF CallOK, WriterOK
<1>8. Stored(c, corr') /\ Stored(c, store')
  <2> HIDE DEF n
  <2>1. \A i \in 1..n : c.ids[i] = a.id + i - 1
    BY <1>3, <1>7
  <2>2. Stored(c, corr')
    BY <1>3, <1>6, <2>1 DEF Stored, n
  <2> QED BY <1>3, <1>7, <2>2 DEF Stored
<1>9. WriterOK(c, store', corr', log')
  BY <1>1, <1>2, <1>3, <1>7, <1>8 DEF CallOK, WriterOK, WriteStages
<1>10. CallOK(c, store', corr', log')
  BY <1>2, <1>3, <1>9 DEF CallOK, ReaderOK
<1>11. Fresh'
  BY <1>1, <1>2, <1>3, <1>4, <1>6, FreshMoves DEF Undisturbed
<1>12. Keeps(store, store') /\ Longer(log, log')
  BY <1>2, LongerSame DEF Keeps
<1>13. FilesHold' /\ KnownOK'
  BY <1>6, <1>12, HoldsKept DEF Undisturbed, FilesHold, KnownOK
<1>14. RootOK'
  BY <1>1, <1>2, RootKept DEF Undisturbed
<1> QED BY <1>1, <1>6, <1>10, <1>11, <1>12, <1>13, <1>14, UndisturbedStep

\* write_file: both ways of storing the corrections.
LEMMA CorrectUndisturbed ==
  ASSUME Undisturbed, Counted', NEW t \in Threads, CorrectNew(t) \/ Correct(t)
  PROVE  Undisturbed'
<1>1. /\ call[t].pc \in {"correctNew", "correct"}
      /\ UNCHANGED <<files, store, nextId, root, log, known>>
      /\ \/ /\ corr' = Over(Batch(call[t].id, call[t].data), corr)
            /\ Becomes(t, [call[t] EXCEPT !.pc = "publish"])
         \/ Fail(t) /\ UNCHANGED corr
  BY DEF CorrectNew, Correct, manifest, chunkStore, corrections, counters, client
<1>2. CASE Fail(t) /\ UNCHANGED corr
  BY <1>1, <1>2, FailQuiet
<1> QED BY <1>1, <1>2, CorrectionsUndisturbed

\* What a publication leaves alone.
LEMMA LogGrows ==
  ASSUME Counted, NEW p \in Paths, NEW r \in LogEntry, log' = [log EXCEPT ![p] = Append(@, r)]
  PROVE  Longer(log, log')
<1>1. log \in Logs /\ \A q \in Paths : Len(log[q]) \in Nat
  BY CountedTypes
<1>2. /\ Len(log[p]) \in Nat /\ Len(log'[p]) = Len(log[p]) + 1
      /\ \A i \in 1..Len(log[p]) : log'[p][i] = log[p][i]
      /\ \A q \in Paths : q # p => log'[q] = log[q]
  BY <1>1, Lengthened
<1>3. ASSUME NEW q \in Paths
      PROVE  /\ Len(log[q]) \in Nat /\ Len(log'[q]) \in Nat /\ Len(log[q]) <= Len(log'[q])
             /\ \A i \in 1..Len(log[q]) : log'[q][i] = log[q][i]
  BY <1>1, <1>2
<1> QED BY <1>3 DEF Longer

\* write_file: the entry that is published stands for what the caller wrote.
LEMMA PublishUndisturbed ==
  ASSUME Undisturbed, Counted', NEW t \in Threads, Publish(t)
  PROVE  Undisturbed'
<1> DEFINE a    == call[t]
           p    == a.path
           ver  == Len(log[p])
           e    == [NewEntry(a) EXCEPT !.version = ver]
           r    == [version |-> ver, content |-> Published(a), deleted |-> FALSE]
           c    == [a EXCEPT !.basis = ver + 1, !.pc = "bundle", !.ret = ver]
<1>1. /\ Counted /\ a \in Call /\ CallOK(a, store, corr, log) /\ call \in [Threads -> Call]
  BY OneCall
<1>2. /\ p \in Paths /\ ver \in Nat /\ a.pc = "publish"
      /\ UNCHANGED <<chunkStore, corrections, counters, left>>
      /\ \/ Fail(t) /\ UNCHANGED <<manifest, known, log>>
         \/ /\ e \in Entry /\ r \in LogEntry /\ e.deleted = FALSE
            /\ files' = [files EXCEPT ![p] = e] /\ log' = [log EXCEPT ![p] = Append(@, r)]
            /\ a.entry = NoEntry => ver = 0
            /\ a.entry # NoEntry => a.entry.version + 1 = ver
            /\ UNCHANGED known /\ Becomes(t, [[a EXCEPT !.basis = ver + 1] EXCEPT !.pc = "bundle", !.ret = ver])
  <2>1. a.kind \notin DeltaKinds
    BY <1>1 DEF CallOK, DeltaKinds
  <2> QED BY <1>1, <2>1, PublishEffect
<1>3. UNCHANGED <<store, corr, nextId, root>>
  BY <1>2 DEF chunkStore, corrections, counters
<1>4. CASE Fail(t) /\ UNCHANGED <<manifest, known, log>>
  BY <1>2, <1>3, <1>4, FailQuiet DEF manifest
<1>5. ASSUME e \in Entry, r \in LogEntry, e.deleted = FALSE,
             files' = [files EXCEPT ![p] = e], log' = [log EXCEPT ![p] = Append(@, r)],
             a.entry = NoEntry => ver = 0, a.entry # NoEntry => a.entry.version + 1 = ver,
             UNCHANGED known, Becomes(t, c)
      PROVE  Undisturbed'
  <2>1. a.kind = "write"
    BY <1>1, <1>2, OneCall DEF CallOK, StageOK, DeltaKinds
  <2>2. e.chunks = a.ids /\ e.size = Len(a.data)
    <3>1. NewEntry(a) = [version |-> 0, chunks |-> a.ids, size |-> Len(a.data), indexed |-> FALSE,
                          deleted |-> FALSE]
      BY <2>1 DEF NewEntry
    <3> HIDE DEF ver
    <3> QED BY <3>1
  <2>3. r.content = a.data /\ r.version = ver
    BY <2>1 DEF Published
  <2>4. /\ c.pc = "bundle" /\ c.kind = "write" /\ c.path = p /\ c.ids = a.ids
        /\ c.expected = a.expected /\ c.learned = a.learned /\ c.basis = ver + 1 /\ c.ret = ver
    BY <1>1, <1>2, <2>1 DEF Call
  <2> HIDE DEF c, e, r
  <2>5. /\ Len(log'[p]) = ver + 1 /\ log'[p][ver + 1] = r /\ Last(log'[p]) = r
        /\ \A q \in Paths : q # p => log'[q] = log[q]
    BY <1>1, <1>2, <1>5, CountedTypes, Lengthened
  <2>6. files'[p] = e /\ \A q \in Paths : q # p => files'[q] = files[q]
    BY <1>1, <1>2, <1>5, CountedTypes
  <2>7. Holds(e, r.content, store, corr)
    <3>1. /\ a.ids = [i \in 1..ChunksIn(a.data) |-> a.id + i - 1]
          /\ Stored(a, store) /\ Stored(a, corr)
      BY <1>1, <1>2 DEF CallOK, WriterOK
    <3>2. a.data \in Seq(AllBytes) /\ a.id \in Nat /\ ChunksIn(a.data) \in Nat
      BY <1>1, ChunksInNat DEF Call
    <3>3. Len(a.ids) = ChunksIn(a.data)
      <4> DEFINE n == ChunksIn(a.data)
                 ids == [i \in 1..n |-> a.id + i - 1]
      <4>1. ids \in [1..n -> Int] /\ n \in Nat
        BY <3>2
      <4> HIDE DEF n, ids
      <4>2. Len(ids) = n
        BY <4>1, SeqOfFunction
      <4> QED BY <3>1, <4>2 DEF n, ids
    <3> QED BY <2>2, <2>3, <3>1, <3>3 DEF Holds, Stored
  <2>8. FilesHold'
    <3>1. ASSUME NEW q \in Paths, files'[q] # NoEntry
          PROVE  Holds(files'[q], Last(log'[q]).content, store', corr')
      <4>1. CASE q = p
        BY <1>3, <2>5, <2>6, <2>7, <4>1
      <4>2. CASE q # p
        BY <1>3, <2>5, <2>6, <3>1, <4>2 DEF Undisturbed, FilesHold
      <4> QED BY <4>1, <4>2
    <3> QED BY <3>1 DEF FilesHold
  <2>9. WriterOK(c, store', corr', log')
    <3>1. IF a.expected = NoVersion THEN a.entry = NoEntry
          ELSE /\ a.expected \in Nat /\ a.learned = a.expected + 1
               /\ a.entry # NoEntry /\ a.entry.version = a.expected
      BY <1>1, <1>2 DEF CallOK, WriterOK
    <3>2. c.basis = IF c.expected = NoVersion THEN 1 ELSE c.learned + 1
      <4>1. a.entry = NoEntry => ver = 0
        BY <1>5
      <4>2. a.entry # NoEntry => a.entry.version + 1 = ver
        BY <1>5
      <4>3. /\ c.expected = a.expected /\ c.learned = a.learned /\ c.basis = ver + 1
        BY <2>4
      <4> HIDE DEF ver, a
      <4>4. CASE a.expected = NoVersion
        BY <3>1, <4>1, <4>3, <4>4
      <4>5. CASE a.expected # NoVersion
        BY <3>1, <4>2, <4>3, <4>5
      <4> QED BY <4>3, <4>4, <4>5
    <3>3. c.basis \in 1..Len(log'[c.path]) /\ c.ret = log'[c.path][c.basis].version
      BY <1>2, <2>3, <2>4, <2>5
    <3> HIDE DEF ver
    <3> QED BY <2>4, <3>1, <3>2, <3>3 DEF WriterOK, WriteStages
  <2>10. CallOK(c, store', corr', log') /\ Owned(c) = {}
    BY <2>4, <2>9 DEF CallOK, ReaderOK, Owned
  <2>11. Fresh'
    BY <1>1, <1>3, <1>5, <2>4, <2>10, FreshMoves DEF Undisturbed
  <2>12. KnownOK'
    BY <1>5 DEF Undisturbed, KnownOK
  <2>13. RootOK'
    <3>1. call'[t] = c /\ \A u \in Threads : u # t => call'[u] = call[u]
      BY <1>1, <1>5 DEF Becomes
    <3>2. ASSUME NEW q \in Paths, Exists(q)'
          PROVE  \/ \A i \in DOMAIN files'[q].chunks : files'[q].chunks[i] \in root'
                 \/ \E u \in Threads :
                      call'[u].pc = "bundle" /\ call'[u].path = q /\ call'[u].ids = files'[q].chunks
      <4>1. CASE q = p
        BY <2>2, <2>4, <2>6, <3>1, <4>1
      <4>2. CASE q # p
        <5>1. Exists(q) /\ files'[q] = files[q]
          BY <2>6, <3>2, <4>2 DEF Exists
        <5>2. CASE \A i \in DOMAIN files[q].chunks : files[q].chunks[i] \in root
          BY <1>3, <5>1, <5>2
        <5>3. CASE \E u \in Threads :
                     call[u].pc = "bundle" /\ call[u].path = q /\ call[u].ids = files[q].chunks
          <6>1. PICK u \in Threads :
                     call[u].pc = "bundle" /\ call[u].path = q /\ call[u].ids = files[q].chunks
            BY <5>3
          <6>2. u # t
            BY <1>2, <6>1
          <6> QED BY <3>1, <5>1, <6>1, <6>2
        <5> QED BY <5>1, <5>2, <5>3 DEF Undisturbed, RootOK
      <4> QED BY <4>1, <4>2
    <3> QED BY <3>2 DEF RootOK
  <2>14. Keeps(store, store') /\ Keeps(corr, corr') /\ Longer(log, log')
    BY <1>1, <1>2, <1>3, <1>5, LogGrows DEF Keeps
  <2> QED BY <1>5, <2>8, <2>10, <2>11, <2>12, <2>13, <2>14, UndisturbedStep
<1>6. [[a EXCEPT !.basis = ver + 1] EXCEPT !.pc = "bundle", !.ret = ver] = c
  <2> HIDE DEF ver
  <2> QED BY <1>1 DEF Call
<1> QED BY <1>2, <1>4, <1>5, <1>6

\* write_file: the chunks of the new file are in the root.
LEMMA BundleUndisturbed ==
  ASSUME Undisturbed, Counted', NEW t \in Threads, Bundle(t)
  PROVE  Undisturbed'
<1> DEFINE a == call[t]
           new == {a.ids[i] : i \in DOMAIN a.ids}
           c == [a EXCEPT !.pc = "count"]
<1>1. /\ a.pc = "bundle" /\ root' = root \cup (new \cap DOMAIN store) /\ Becomes(t, c)
      /\ UNCHANGED <<files, store, corr, nextId, log, known>>
  BY DEF Bundle, manifest, chunkStore, corrections, client
<1>2. /\ Counted /\ a \in Call /\ CallOK(a, store, corr, log) /\ call \in [Threads -> Call]
      /\ StageOK(a, log) /\ EntryChunksStored
  BY OneCall DEF Inductive
<1>3. /\ a.kind = "write" /\ a.path \in Paths
  BY <1>1, <1>2 DEF StageOK, WriteStages, AnsweredPCs
<1>4. /\ c.pc = "count" /\ c.kind = a.kind /\ c.path = a.path
      /\ c.basis = a.basis /\ c.ret = a.ret
  BY <1>2 DEF Call
<1> HIDE DEF c
<1>5. WriterOK(c, store', corr', log')
  <2>1. a.basis \in 1..Len(log[a.path]) /\ a.ret = log[a.path][a.basis].version
    BY <1>1, <1>2, <1>3 DEF CallOK, WriterOK
  <2> QED BY <1>1, <1>4, <2>1 DEF WriterOK, WriteStages
<1>6. CallOK(c, store', corr', log') /\ Owned(c) = {}
  BY <1>3, <1>4, <1>5 DEF CallOK, ReaderOK, Owned
<1>7. Fresh'
  BY <1>1, <1>2, <1>4, <1>6, FreshMoves DEF Undisturbed
<1>8. FilesHold' /\ KnownOK'
  BY <1>1 DEF Undisturbed, FilesHold, KnownOK
<1>9. RootOK'
  <2>1. \A u \in Threads : u # t => call'[u] = call[u]
    BY <1>1, <1>2 DEF Becomes
  <2>2. ASSUME NEW q \in Paths, Exists(q)'
        PROVE  \/ \A i \in DOMAIN files'[q].chunks : files'[q].chunks[i] \in root'
               \/ \E u \in Threads :
                    call'[u].pc = "bundle" /\ call'[u].path = q /\ call'[u].ids = files'[q].chunks
    <3>1. Exists(q)
      BY <1>1, <2>2 DEF Exists
    <3>2. CASE \A i \in DOMAIN files[q].chunks : files[q].chunks[i] \in root
      BY <1>1, <3>2
    <3>3. CASE \E u \in Threads :
                 call[u].pc = "bundle" /\ call[u].path = q /\ call[u].ids = files[q].chunks
      <4>1. PICK u \in Threads :
                 call[u].pc = "bundle" /\ call[u].path = q /\ call[u].ids = files[q].chunks
        BY <3>3
      <4>2. CASE u = t
        <5>1. StoredIn(files[q], DOMAIN store)
          BY <1>2, <3>1 DEF EntryChunksStored, Exists
        <5>2. a.ids = files[q].chunks
          BY <4>1, <4>2
        <5> QED BY <1>1, <5>1, <5>2 DEF StoredIn
      <4>3. CASE u # t
        BY <1>1, <2>1, <4>1, <4>3
      <4> QED BY <4>2, <4>3
    <3> QED BY <3>1, <3>2, <3>3 DEF Undisturbed, RootOK
  <2> QED BY <2>2 DEF RootOK
<1>10. Keeps(store, store') /\ Keeps(corr, corr') /\ Longer(log, log')
  BY <1>1, <1>2, LongerSame DEF Keeps
<1> QED BY <1>1, <1>6, <1>7, <1>8, <1>9, <1>10, UndisturbedStep

\* delete_file: the entry keeps its chunks and its content.
LEMMA DeleteUndisturbed ==
  ASSUME Undisturbed, Counted', NEW t \in Threads, NEW p \in Paths, NEW v \in Expectations(t, p),
         StartDelete(t, p, v)
  PROVE  Undisturbed'
<1> DEFINE ver == Len(log[p])
           e   == [files[p] EXCEPT !.deleted = TRUE, !.version = ver]
           r   == [version |-> ver, content |-> Last(log[p]).content, deleted |-> TRUE]
           c   == Begun("delete", p, "count")
<1>1. /\ Counted /\ call \in [Threads -> Call] /\ call[t].pc # "bundle"
  BY OneCall DEF StartDelete, Ready
<1>2. /\ UNCHANGED <<totalChunks, chunkStore, corrections, counters, known>>
      /\ \/ Fail(t) /\ UNCHANGED <<files, manifestVersion, log>>
         \/ /\ files[p] \in Entry /\ files[p] # NoEntry /\ ver \in Nat \ {0}
            /\ e \in Entry /\ e.version = ver /\ e.deleted = TRUE
            /\ e.chunks = files[p].chunks /\ e.size = files[p].size
            /\ r \in LogEntry
            /\ files' = [files EXCEPT ![p] = e]
            /\ log' = [log EXCEPT ![p] = Append(@, r)]
            /\ Becomes(t, c)
  BY <1>1, DeleteEffect
<1>3. UNCHANGED <<store, corr, nextId, root>>
  BY <1>2 DEF chunkStore, corrections, counters
<1>4. CASE Fail(t) /\ UNCHANGED <<files, manifestVersion, log>>
  BY <1>1, <1>2, <1>3, <1>4, FailQuiet
<1>5. ASSUME files[p] # NoEntry, e \in Entry, e.deleted = TRUE,
             e.chunks = files[p].chunks, e.size = files[p].size, r \in LogEntry,
             files' = [files EXCEPT ![p] = e], log' = [log EXCEPT ![p] = Append(@, r)],
             Becomes(t, c)
      PROVE  Undisturbed'
  <2>1. c.pc = "count" /\ c.kind = "delete" /\ c.path = p
    BY IdleType DEF Begun, Call
  <2>2. r.content = Last(log[p]).content
    OBVIOUS
  <2> HIDE DEF c, e, r
  <2>3. Last(log'[p]) = r /\ \A q \in Paths : q # p => log'[q] = log[q]
    BY <1>1, <1>5, CountedTypes, Lengthened
  <2>4. files'[p] = e /\ \A q \in Paths : q # p => files'[q] = files[q]
    BY <1>1, <1>5, CountedTypes
  <2>5. FilesHold'
    <3>1. ASSUME NEW q \in Paths, files'[q] # NoEntry
          PROVE  Holds(files'[q], Last(log'[q]).content, store', corr')
      <4>1. CASE q = p
        <5>1. Holds(files[p], r.content, store, corr)
          BY <1>5, <2>2 DEF Undisturbed, FilesHold
        <5>2. Holds(e, r.content, store, corr)
          BY <1>5, <5>1 DEF Holds
        <5> QED BY <1>3, <2>3, <2>4, <4>1, <5>2
      <4>2. CASE q # p
        BY <1>3, <2>3, <2>4, <3>1, <4>2 DEF Undisturbed, FilesHold
      <4> QED BY <4>1, <4>2
    <3> QED BY <3>1 DEF FilesHold
  <2>6. WriterOK(c, store', corr', log')
    BY <2>1 DEF WriterOK, WriteStages
  <2>7. CallOK(c, store', corr', log') /\ Owned(c) = {}
    BY <2>1, <2>6 DEF CallOK, ReaderOK, Owned
  <2>8. Fresh'
    BY <1>1, <1>3, <1>5, <2>1, <2>7, FreshMoves DEF Undisturbed
  <2>9. KnownOK'
    BY <1>2 DEF Undisturbed, KnownOK
  <2>10. RootOK'
    <3>1. \A u \in Threads : u # t => call'[u] = call[u]
      BY <1>1, <1>5 DEF Becomes
    <3>2. ASSUME NEW q \in Paths, Exists(q)'
          PROVE  \/ \A i \in DOMAIN files'[q].chunks : files'[q].chunks[i] \in root'
                 \/ \E u \in Threads :
                      call'[u].pc = "bundle" /\ call'[u].path = q /\ call'[u].ids = files'[q].chunks
      <4>1. q # p /\ Exists(q) /\ files'[q] = files[q]
        BY <1>5, <2>4, <3>2 DEF Exists
      <4>2. CASE \A i \in DOMAIN files[q].chunks : files[q].chunks[i] \in root
        BY <1>3, <4>1, <4>2
      <4>3. CASE \E u \in Threads :
                   call[u].pc = "bundle" /\ call[u].path = q /\ call[u].ids = files[q].chunks
        <5>1. PICK u \in Threads :
                   call[u].pc = "bundle" /\ call[u].path = q /\ call[u].ids = files[q].chunks
          BY <4>3
        <5>2. u # t
          BY <1>1, <5>1
        <5> QED BY <3>1, <4>1, <5>1, <5>2
      <4> QED BY <4>1, <4>2, <4>3 DEF Undisturbed, RootOK
    <3> QED BY <3>2 DEF RootOK
  <2>11. Keeps(store, store') /\ Keeps(corr, corr') /\ Longer(log, log')
    BY <1>1, <1>3, <1>5, LogGrows DEF Keeps
  <2> QED BY <1>5, <2>5, <2>7, <2>8, <2>9, <2>10, <2>11, UndisturbedStep
<1> HIDE DEF c, e, r, ver
<1> QED BY <1>2, <1>4, <1>5
-----------------------------------------------------------------------------
(* Contents: the specification *)

\* The file written before the threads start holds what was written.
LEMMA UndisturbedInit == ASSUME Init PROVE Undisturbed
<1> DEFINE n == ChunksIn(InitContent)
           batch == Batch(1, InitContent)
           ids == [i \in 1..n |-> i]
           first == [version |-> 0, chunks |-> ids, size |-> Len(InitContent),
                     indexed |-> FALSE, deleted |-> FALSE]
           rec == [version |-> 0, content |-> InitContent, deleted |-> FALSE]
<1>1. Counted
  BY CountedInit
<1>2. InitContent \in Seq(AllBytes) /\ n \in Nat
  BY RequestType, ChunksInNat
<1>3. /\ store = IF InitPath # NoPath THEN batch ELSE <<>>
      /\ corr = store /\ root = DOMAIN store
      /\ nextId = IF InitPath # NoPath THEN n + 1 ELSE 1
      /\ call = [t \in Threads |-> Idle]
      /\ files = [p \in Paths |-> IF p = InitPath THEN first ELSE NoEntry]
      /\ log = [p \in Paths |-> IF p = InitPath THEN <<rec>> ELSE <<>>]
      /\ known = [t \in Threads |-> [p \in Paths |->
           [version |-> IF p = InitPath THEN 0 ELSE NoVersion,
            at |-> IF p = InitPath THEN 1 ELSE 0]]]
  BY DEF Init
<1>4. first.chunks = ids /\ first.size = Len(InitContent) /\ rec.content = InitContent
  OBVIOUS
<1>5. DOMAIN batch = 1..n /\ \A i \in 1..n : batch[i] = ChunkOf(InitContent, i)
  <2>1. batch = [id \in 1..(1 + n - 1) |-> ChunkOf(InitContent, id - 1 + 1)]
    BY DEF Batch
  <2> HIDE DEF n, batch
  <2>2. 1 + n - 1 = n /\ \A i \in 1..n : i - 1 + 1 = i
    BY <1>2
  <2> QED BY <2>1, <2>2
<1>6. Len(ids) = n /\ \A i \in 1..n : ids[i] = i
  <2> HIDE DEF n
  <2>1. ids \in [1..n -> Nat]
    BY <1>2
  <2> QED BY <1>2, <2>1, SeqOfFunction
<1>7. Idle.pc = "idle" /\ Idle.kind = "none"
  BY DEF Idle
<1>8. \A t \in Threads : call[t] = Idle
  BY <1>3
<1> HIDE DEF first, rec, ids, batch, n
<1>9. Fresh
  <2>1. Owned(Idle) = {}
    BY <1>7 DEF Owned
  <2>2. \A id \in DOMAIN store : id < nextId
    <3>1. CASE InitPath = NoPath
      BY <1>3, <3>1
    <3>2. CASE InitPath # NoPath
      BY <1>2, <1>3, <1>5, <3>2
    <3> QED BY <3>1, <3>2
  <2> QED BY <1>3, <1>8, <2>1, <2>2 DEF Fresh
<1>10. CallsOK
  <2>1. CallOK(Idle, store, corr, log)
    BY <1>7 DEF CallOK, WriterOK, ReaderOK, WriteStages
  <2> QED BY <1>8, <2>1 DEF CallsOK
<1>11. FilesHold
  <2>1. ASSUME NEW p \in Paths, files[p] # NoEntry
        PROVE  Holds(files[p], Last(log[p]).content, store, corr)
    <3>1. p = InitPath /\ files[p] = first /\ log[p] = <<rec>> /\ InitPath # NoPath
      BY <1>3, <2>1, NullAssumption
    <3>2. Last(log[p]) = rec
      BY <3>1 DEF Last
    <3>3. store = batch /\ corr = batch
      BY <1>3, <3>1
    <3>4. Holds(first, rec.content, batch, batch)
      BY <1>4, <1>5, <1>6 DEF Holds, n
    <3> QED BY <3>1, <3>2, <3>3, <3>4
  <2> QED BY <2>1 DEF FilesHold
<1>12. KnownOK
  BY <1>3 DEF KnownOK
<1>13. RootOK
  BY <1>1, <1>3 DEF RootOK, Counted, Inductive, EntryChunksStored, StoredIn, Exists
<1> QED BY <1>1, <1>9, <1>10, <1>11, <1>12, <1>13 DEF Undisturbed

\* As long as files are only written whole, read and deleted, every step of
\* every thread keeps what was published.
LEMMA UndisturbedNext ==
  ASSUME WritersOnly, Undisturbed, [Next]_vars PROVE Undisturbed'
<1>1. Counted'
  BY CountedNext DEF WritersOnly, NoCompaction, Undisturbed
<1>2. ASSUME NEW t \in Threads, Start(t) PROVE Undisturbed'
  <2>1. PICK p \in Paths : \E v \in Expectations(t, p) :
         \/ \E data \in Contents : StartWrite(t, p, data, v)
         \/ StartDelete(t, p, v)
         \/ v = NoVersion /\ StartRead(t, p)
         \/ \E s \in ChangeSets : StartDelta(t, p, "replace", <<>>, s, 0, v)
         \/ \E data \in Appends : StartDelta(t, p, "append", data, {}, 0, v)
         \/ \E n \in Lengths : StartDelta(t, p, "truncate", <<>>, {}, n, v)
    BY <1>2 DEF Start
  <2>2. ASSUME NEW kind \in DeltaKinds, NEW v, NEW data, NEW changes, NEW length,
               StartDelta(t, p, kind, data, changes, length, v)
        PROVE  FALSE
    BY <2>2 DEF StartDelta, Ready, WritersOnly, DeltaKinds
  <2>3. "replace" \in DeltaKinds /\ "append" \in DeltaKinds /\ "truncate" \in DeltaKinds
    BY DEF DeltaKinds
  <2>4. PICK v \in Expectations(t, p) :
         \/ \E data \in Contents : StartWrite(t, p, data, v)
         \/ StartDelete(t, p, v)
         \/ StartRead(t, p)
    BY <2>1, <2>2, <2>3
  <2> QED BY <1>1, <2>4, StartWriteUndisturbed, StartReadUndisturbed, DeleteUndisturbed
<1>3. ASSUME NEW t \in Threads, Write(t) \/ Read(t) PROVE Undisturbed'
  BY <1>1, <1>3, PrepareUndisturbed, InsertChunksUndisturbed, CorrectUndisturbed,
     ReadCorrVersionUndisturbed, PublishUndisturbed, BundleUndisturbed, CountUndisturbed,
     ReadChunkUndisturbed, ReadCorrectionUndisturbed DEF Write, Read
<1>4. ASSUME NEW t \in Threads, Delta(t) PROVE FALSE
  <2>1. call[t].pc \in EditStages
    BY <1>4 DEF Delta, EditChunk, EditBytes, NewChunk, ReadStoreVersion, InsertEdited,
                ReadEditCorrVersion, CorrectEdited, DrawVersion, EditStages
  <2> QED BY <2>1, OneCall DEF StageOK, CallOK, DeltaKinds
<1>5. ASSUME NEW t \in Threads, StartCompact(t) \/ Compact(t) PROVE FALSE
  BY <1>5 DEF StartCompact, Ready, WritersOnly, Compact, Undisturbed, Counted, DeltaLive
<1>6. CASE UNCHANGED vars
  BY <1>1, <1>6 DEF vars, manifest, chunkStore, corrections, counters, client, Undisturbed,
     Fresh, CallsOK, FilesHold, KnownOK, RootOK, Exists
<1> QED BY <1>2, <1>3, <1>4, <1>5, <1>6 DEF Next

\* What was published stays as it was published.
LEMMA UndisturbedAlways == WritersOnly => (Spec => []Undisturbed)
<1> SUFFICES ASSUME WritersOnly PROVE Spec => []Undisturbed
  OBVIOUS
<1>1. Init => Undisturbed
  BY UndisturbedInit
<1>2. Undisturbed /\ [Next]_vars => Undisturbed'
  BY UndisturbedNext
<1> QED BY <1>1, <1>2, PTL DEF Spec

\* Snapshot isolation: what read_file returns is the file exactly as it was
\* published under the version it returns, however many writers run while its
\* chunks and corrections are read one at a time.
THEOREM ReadsAreSnapshots == WritersOnly => (Spec => []SnapshotReads)
<1> SUFFICES ASSUME WritersOnly PROVE Spec => []SnapshotReads
  OBVIOUS
<1>1. Undisturbed => SnapshotReads
  BY DEF Undisturbed, CallsOK, CallOK, ReaderOK, SnapshotReads
<1> QED BY <1>1, UndisturbedAlways, PTL

\* Optimistic locking: a write_file that was given a version takes effect only
\* if nothing was published for the path since its caller learned that version,
\* one that was given none only where no file is.
THEOREM NoUpdateIsLost == WritersOnly => (Spec => []NoLostUpdate)
<1> SUFFICES ASSUME WritersOnly PROVE Spec => []NoLostUpdate
  OBVIOUS
<1>1. ASSUME Undisturbed PROVE NoLostUpdate
  <2>1. ASSUME NEW t \in Threads, call[t].pc = "bundle"
        PROVE  call[t].basis = IF call[t].expected = NoVersion THEN 1 ELSE call[t].learned + 1
    BY <1>1, <2>1 DEF Undisturbed, CallsOK, CallOK, WriterOK
  <2> QED BY <2>1 DEF NoLostUpdate
<1> QED BY <1>1, UndisturbedAlways, PTL

\* The version write_file returns is the one its content is stored under, so
\* that the caller can pass it to its next call.
THEOREM VersionsReturned == WritersOnly => (Spec => []ReturnedVersion)
<1> SUFFICES ASSUME WritersOnly PROVE Spec => []ReturnedVersion
  OBVIOUS
<1>1. Undisturbed => ReturnedVersion
  BY DEF Undisturbed, CallsOK, CallOK, WriterOK, ReturnedVersion, DeltaKinds
<1> QED BY <1>1, UndisturbedAlways, PTL

\* The chunks of a live file are bundled into the root once no call on the
\* file is under way.
THEOREM RootIsComplete == WritersOnly => (Spec => []RootCoversFiles)
<1> SUFFICES ASSUME WritersOnly PROVE Spec => []RootCoversFiles
  OBVIOUS
<1>1. Undisturbed => RootCoversFiles
  <2>1. \A t \in Threads : call[t].pc = "bundle" => InFlight(t)
    BY DEF InFlight, AnsweredPCs
  <2> QED BY <2>1 DEF Undisturbed, RootOK, RootCoversFiles
<1> QED BY <1>1, UndisturbedAlways, PTL
-----------------------------------------------------------------------------
(* Bit-perfect reconstruction *)

\* A set of naturals that is not empty has a least element: the induction of
\* the two sections below.
LEMMA LeastNat ==
  ASSUME NEW T, T \subseteq Nat, T # {}
  PROVE  \E x \in T : \A y \in T : x <= y
<1> DEFINE R == OpToRel(<, Nat)
<1>1. IsWellFoundedOn(R, Nat)
  BY NatLessThanWellFounded
<1>2. \A x, y \in Nat : <<y, x>> \in R <=> y < x
  BY DEF OpToRel
<1> HIDE DEF R
<1>3. PICK x \in T : \A y \in T : ~ (<<y, x>> \in R)
  BY <1>1, WFMin
<1>4. x \in Nat /\ \A y \in T : y \in Nat /\ ~ (y < x)
  BY <1>2, <1>3, Zenon
<1> HIDE <1>2, <1>3
<1> QED BY <1>4

\* The chunks of a content, one after the other, are the content.
LEMMA ChunksJoined ==
  ASSUME NEW data \in Seq(AllBytes), NEW seqs,
         seqs = [i \in 1..ChunksIn(data) |-> ChunkOf(data, i)]
  PROVE  FlattenSeq(seqs) = data
<1> DEFINE n == ChunksIn(data)
           L == Len(data)
           Step(g) == [i \in 1..Len(seqs) |-> IF i = 1 THEN seqs[i] ELSE g[i - 1] \o seqs[i]]
           whole == [i \in 1..n |-> SubSeq(data, 1, MinOf(i * ChunkSize, L))]
           flatten == CHOOSE g : g = Step(g)
<1>1. n \in Nat /\ L \in Nat /\ ChunkSize \in Nat \ {0}
  BY ChunkCounts, ChunkSizeAssumption
<1>2. Len(seqs) = n /\ \A i \in 1..n : seqs[i] = ChunkOf(data, i)
  <2> DEFINE S == {ChunkOf(data, i) : i \in 1..n}
  <2>1. seqs \in [1..n -> S]
    OBVIOUS
  <2> HIDE DEF n, S
  <2>2. Len(seqs) = n
    BY <1>1, <2>1, SeqOfFunction
  <2> QED BY <2>2 DEF n
<1>3. n = 0 => seqs = <<>> /\ data = <<>>
  <2>1. n = 0 => data = <<>>
    BY ChunkCounts
  <2>2. n = 0 => seqs \in [1..0 -> {}]
    OBVIOUS
  <2>3. seqs \in [1..0 -> {}] => seqs \in Seq({}) /\ Len(seqs) = 0
    BY SeqOfFunction
  <2>4. n = 0 => seqs = <<>>
    BY <2>2, <2>3, EmptySeq
  <2> QED BY <2>1, <2>4
<1>4. whole = Step(whole)
  <2>1. ASSUME NEW i \in 1..n
        PROVE  whole[i] = IF i = 1 THEN seqs[i] ELSE whole[i - 1] \o seqs[i]
    <3>1. i \in Nat /\ i >= 1 /\ i <= n /\ i - 1 \in Nat /\ (i - 1) + 1 = i /\ i - 1 < n
      BY <1>1
    <3>2. SubSeq(data, 1, (i - 1) * ChunkSize) \o ChunkOf(data, i)
            = SubSeq(data, 1, MinOf(i * ChunkSize, L))
      BY <3>1, NextChunk
    <3>3. CASE i = 1
      <4>1. (i - 1) * ChunkSize = 0
        BY <1>1, <3>3
      <4>2. (i - 1) * ChunkSize + 1 = 1
        BY <4>1
      <4>3. ChunkOf(data, i) = SubSeq(data, 1, MinOf(i * ChunkSize, L))
        BY <4>2 DEF ChunkOf
      <4> QED BY <1>2, <3>3, <4>3
    <3>4. CASE i # 1
      <4>1. i - 1 \in 1..n /\ (i - 1) * ChunkSize \in Nat /\ (i - 1) * ChunkSize < L
        BY <1>1, <3>1, <3>4, ChunkCounts
      <4>2. MinOf((i - 1) * ChunkSize, L) = (i - 1) * ChunkSize
        BY <1>1, <4>1 DEF MinOf
      <4>3. whole[i - 1] = SubSeq(data, 1, (i - 1) * ChunkSize)
        BY <4>1, <4>2
      <4> QED BY <1>2, <3>2, <3>4, <4>3
    <3> QED BY <3>3, <3>4
  <2> HIDE DEF n
  <2> QED BY <1>2, <2>1
<1>5. flatten = Step(flatten)
  <2> HIDE DEF Step, whole
  <2> QED BY <1>4
<1>6. \A i \in 1..n : flatten[i] = IF i = 1 THEN seqs[i] ELSE flatten[i - 1] \o seqs[i]
  <2> HIDE DEF flatten, n
  <2> QED BY <1>2, <1>5
<1>7. \A i \in 1..n : whole[i] = IF i = 1 THEN seqs[i] ELSE whole[i - 1] \o seqs[i]
  <2> HIDE DEF whole, n
  <2> QED BY <1>2, <1>4
<1>8. \A i \in 1..n : flatten[i] = whole[i]
  <2> DEFINE T == {i \in 1..n : flatten[i] # whole[i]}
  <2> HIDE DEF flatten, whole, n
  <2> SUFFICES ASSUME T # {} PROVE FALSE
    OBVIOUS
  <2>0. T \subseteq Nat
    BY <1>1
  <2>1. PICK x \in T : \A y \in T : x <= y
    <3> HIDE DEF T
    <3> QED BY <2>0, LeastNat
  <2>2. x \in 1..n /\ flatten[x] # whole[x] /\ x # 1
    BY <1>6, <1>7
  <2>3. x - 1 \in 1..n /\ ~ (x <= x - 1)
    BY <1>1, <2>2
  <2>4. flatten[x - 1] = whole[x - 1]
    BY <2>1, <2>3
  <2>5. flatten[x] = flatten[x - 1] \o seqs[x] /\ whole[x] = whole[x - 1] \o seqs[x]
    BY <1>6, <1>7, <2>2
  <2> QED BY <2>2, <2>4, <2>5
<1>9. n # 0 => flatten[n] = data
  <2>1. n \in Nat /\ L <= n * ChunkSize /\ n * ChunkSize \in Nat
    BY ChunkCounts
  <2>2. MinOf(n * ChunkSize, L) = L
    BY <1>1, <2>1 DEF MinOf
  <2>3. n # 0 => n \in 1..n
    BY <2>1
  <2>4. n # 0 => whole[n] = SubSeq(data, 1, L)
    BY <2>2, <2>3
  <2> HIDE DEF flatten, whole
  <2> QED BY <1>8, <2>3, <2>4, SubSeqFull
<1>10. FlattenSeq(seqs) = IF Len(seqs) = 0 THEN seqs ELSE flatten[Len(seqs)]
  BY DEF FlattenSeq
<1> HIDE DEF flatten, n
<1> QED BY <1>2, <1>3, <1>9, <1>10

\* An entry reads as the content it stands for.
LEMMA HoldsContent ==
  ASSUME NEW e \in Entry, NEW content \in Seq(AllBytes), Holds(e, content, store, corr)
  PROVE  StoredContent(e) = content
<1> DEFINE n == ChunksIn(content)
           parts == [i \in DOMAIN e.chunks |-> Corrected(store[e.chunks[i]], e.chunks[i])]
<1>1. e.chunks \in Seq(Nat) /\ Len(content) \in Nat /\ n \in Nat
  BY LenProperties, ChunksInNat DEF Entry
<1>2. DOMAIN e.chunks = 1..n /\ e.size = Len(content)
  BY <1>1, LenProperties DEF Holds
<1>3. \A i \in 1..n : Corrected(store[e.chunks[i]], e.chunks[i]) = ChunkOf(content, i)
  BY OwnCorrection DEF Holds, Corrected
<1>4. parts = [i \in 1..n |-> ChunkOf(content, i)]
  BY <1>2, <1>3
<1> HIDE DEF parts
<1>5. FlattenSeq(parts) = content
  BY <1>4, ChunksJoined
<1>6. MinOf(e.size, Len(content)) = Len(content)
  BY <1>1, <1>2 DEF MinOf
<1> QED BY <1>5, <1>6, SubSeqFull DEF StoredContent, parts

\* Every file reads as the content last published for it, whatever calls were
\* refused or failed half way.
THEOREM FilesBitPerfect == WritersOnly => (Spec => []BitPerfect)
<1> SUFFICES ASSUME WritersOnly PROVE Spec => []BitPerfect
  OBVIOUS
<1>1. ASSUME Undisturbed PROVE BitPerfect
  <2>1. ASSUME NEW p \in Paths, files[p] # NoEntry
        PROVE  StoredContent(files[p]) = Last(log[p]).content
    <3> DEFINE i == Len(log[p])
    <3>1. /\ i \in 1..Len(log[p]) /\ Last(log[p]) = log[p][i] /\ files[p] \in Entry
          /\ Holds(files[p], log[p][i].content, store, corr)
      BY <1>1, <2>1, LastPublication
    <3>2. log[p][i].content \in Seq(AllBytes)
      BY <1>1, <3>1, OnePublication DEF Undisturbed
    <3> QED BY <3>1, <3>2, HoldsContent
  <2> QED BY <2>1 DEF BitPerfect
<1> QED BY <1>1, UndisturbedAlways, PTL
-----------------------------------------------------------------------------
(* The count of chunks *)

\* The entry of path x of the manifest fs has so many chunks.
Chunks(fs, x) == Len(fs[x].chunks)

\* A function that sums the chunk lists over the parts of S, whatever element
\* is taken out first.
Sums(g, fs, S) ==
  /\ g = [s \in SUBSET S |-> g[s]]
  /\ g[{}] = 0
  /\ \A s \in SUBSET S : g[s] \in Int
  /\ \A s \in SUBSET S : \A x \in s : g[s] = Chunks(fs, x) + g[s \ {x}]

\* There is one for every finite set of entries.
LEMMA SumExists ==
  ASSUME NEW fs, NEW S, IsFiniteSet(S), \A x \in S : Chunks(fs, x) \in Int
  PROVE  \E g : Sums(g, fs, S)
<1> DEFINE Bad(n, R) == /\ IsFiniteSet(R) /\ Cardinality(R) = n
                        /\ \A x \in R : Chunks(fs, x) \in Int
                        /\ ~ \E g : Sums(g, fs, R)
           T == {n \in Nat : \E R : Bad(n, R)}
<1> SUFFICES ASSUME ~ \E g : Sums(g, fs, S) PROVE FALSE
  OBVIOUS
<1>1. Cardinality(S) \in T
  BY FS_CardinalityType
<1> HIDE DEF T
<1>2. PICK n \in T : \A m \in T : n <= m
  <2>1. T \subseteq Nat
    BY DEF T
  <2> QED BY <1>1, <2>1, LeastNat
<1>3. n \in Nat /\ \E R : Bad(n, R)
  BY DEF T
<1>4. PICK R : Bad(n, R)
  BY <1>3
<1>5. CASE R = {}
  <2> DEFINE g == [s \in SUBSET {} |-> 0]
  <2>1. Sums(g, fs, {})
    BY DEF Sums
  <2> QED BY <1>4, <1>5, <2>1
<1>6. CASE R # {}
  <2>1. PICK x : x \in R
    BY <1>6
  <2> DEFINE Q == R \ {x}
  <2>2. IsFiniteSet(Q) /\ Cardinality(Q) = n - 1
    BY <1>4, <2>1, FS_RemoveElement
  <2>3. n - 1 \in Nat /\ ~ (n <= n - 1)
    <3>1. Cardinality(Q) \in Nat
      BY <2>2, FS_CardinalityType
    <3> QED BY <1>3, <2>2, <3>1
  <2>4. ~ Bad(n - 1, Q)
    BY <1>2, <2>3 DEF T
  <2>5. PICK h : Sums(h, fs, Q)
    BY <1>4, <2>2, <2>4
  <2> DEFINE g == [s \in SUBSET R |-> IF x \in s THEN Chunks(fs, x) + h[s \ {x}] ELSE h[s]]
  <2>6. Chunks(fs, x) \in Int
    BY <1>4, <2>1
  <2>7. ASSUME NEW s \in SUBSET R
        PROVE  /\ g[s] \in Int
               /\ g[s] = IF x \in s THEN Chunks(fs, x) + h[s \ {x}] ELSE h[s]
               /\ h[s \ {x}] \in Int
    <3>1. s \ {x} \in SUBSET Q /\ (x \notin s => s \in SUBSET Q)
      OBVIOUS
    <3>2. h[s \ {x}] \in Int /\ (x \notin s => h[s] \in Int)
      BY <2>5, <3>1 DEF Sums
    <3> HIDE DEF Q
    <3> QED BY <2>6, <3>2
  <2>8. ASSUME NEW s \in SUBSET R, NEW y \in s
        PROVE  g[s] = Chunks(fs, y) + g[s \ {y}]
    <3>1. s \ {y} \in SUBSET R
      OBVIOUS
    <3>2. /\ g[s] = IF x \in s THEN Chunks(fs, x) + h[s \ {x}] ELSE h[s]
          /\ g[s \ {y}] = IF x \in s \ {y} THEN Chunks(fs, x) + h[(s \ {y}) \ {x}] ELSE h[s \ {y}]
          /\ h[(s \ {y}) \ {x}] \in Int
      BY <2>7, <3>1
    <3> HIDE DEF g
    <3>3. CASE y = x
      BY <3>2, <3>3
    <3>4. CASE y # x /\ x \in s
      <4>1. s \ {x} \in SUBSET Q /\ y \in s \ {x} /\ (s \ {y}) \ {x} = (s \ {x}) \ {y}
        BY <3>4
      <4>2. h[s \ {x}] = Chunks(fs, y) + h[(s \ {x}) \ {y}]
        BY <2>5, <4>1 DEF Sums
      <4>3. Chunks(fs, y) \in Int
        BY <1>4, <2>8
      <4>4. h[(s \ {x}) \ {y}] \in Int
        BY <3>2, <4>1
      <4>5. g[s] = Chunks(fs, x) + h[s \ {x}] /\ g[s \ {y}] = Chunks(fs, x) + h[(s \ {x}) \ {y}]
        BY <3>2, <3>4, <4>1
      <4> QED BY <2>6, <4>2, <4>3, <4>4, <4>5
    <3>5. CASE x \notin s
      <4>1. s \in SUBSET Q
        BY <3>5
      <4>2. h[s] = Chunks(fs, y) + h[s \ {y}]
        BY <2>5, <4>1 DEF Sums
      <4> QED BY <3>2, <3>5, <4>2
    <3> QED BY <3>3, <3>4, <3>5
  <2>9. g[{}] = 0
    <3>1. h[{}] = 0
      BY <2>5 DEF Sums
    <3> QED BY <3>1
  <2>10. g = [s \in SUBSET R |-> g[s]]
    OBVIOUS
  <2> HIDE DEF g
  <2>11. Sums(g, fs, R)
    BY <2>7, <2>8, <2>9, <2>10 DEF Sums
  <2> QED BY <1>4, <2>11
<1> QED BY <1>5, <1>6

\* Such a function gives the number that ChunkCount computes.
LEMMA SumIsCount ==
  ASSUME NEW fs, NEW S, IsFiniteSet(S), NEW g, Sums(g, fs, S)
  PROVE  ChunkCount(fs, S) = g[S]
<1> DEFINE Step(f) == [s \in SUBSET S |-> IF s = {} THEN 0
                         ELSE LET x == CHOOSE x \in s : TRUE IN Len(fs[x].chunks) + f[s \ {x}]]
           iter == CHOOSE f : f = Step(f)
<1>1. ChunkCount(fs, S) = iter[S]
  BY DEF ChunkCount, MapThenSumSet, MapThenFoldSet
<1>2. ASSUME NEW f, \A s \in SUBSET S : s # {} =>
               f[s] = Len(fs[CHOOSE x \in s : TRUE].chunks) + f[s \ {CHOOSE x \in s : TRUE}],
             f[{}] = 0, f = [s \in SUBSET S |-> f[s]]
      PROVE  f = Step(f)
  <2>1. \A s \in SUBSET S : f[s] = Step(f)[s]
    BY <1>2
  <2> QED BY <1>2, <2>1
<1>3. g = Step(g)
  <2>1. \A s \in SUBSET S : s # {} =>
          g[s] = Len(fs[CHOOSE x \in s : TRUE].chunks) + g[s \ {CHOOSE x \in s : TRUE}]
    BY DEF Sums, Chunks
  <2> HIDE DEF Step
  <2> QED BY <1>2, <2>1 DEF Sums
<1>4. iter = Step(iter)
  <2> HIDE DEF Step
  <2> QED BY <1>3
<1> HIDE DEF iter
<1>5. /\ iter[{}] = 0
      /\ \A s \in SUBSET S : s # {} => \E x \in s : iter[s] = Len(fs[x].chunks) + iter[s \ {x}]
  <2>1. \A s \in SUBSET S : iter[s] = IF s = {} THEN 0
          ELSE LET x == CHOOSE x \in s : TRUE IN Len(fs[x].chunks) + iter[s \ {x}]
    BY <1>4
  <2>2. \A s \in SUBSET S : s # {} => (CHOOSE x \in s : TRUE) \in s
    OBVIOUS
  <2> QED BY <2>1, <2>2
<1>6. \A s \in SUBSET S : iter[s] = g[s]
  <2> DEFINE T == {Cardinality(s) : s \in {r \in SUBSET S : iter[r] # g[r]}}
  <2> SUFFICES ASSUME NEW s0 \in SUBSET S, iter[s0] # g[s0] PROVE FALSE
    OBVIOUS
  <2>1. T # {} /\ T \subseteq Nat
    BY FS_Subset, FS_CardinalityType
  <2>2. PICK n \in T : \A m \in T : n <= m
    <3> HIDE DEF T
    <3> QED BY <2>1, LeastNat
  <2>3. PICK s \in SUBSET S : iter[s] # g[s] /\ Cardinality(s) = n
    OBVIOUS
  <2>4. s # {}
    BY <1>5, <2>3 DEF Sums
  <2>5. PICK x \in s : iter[s] = Len(fs[x].chunks) + iter[s \ {x}]
    BY <1>5, <2>4
  <2>6. g[s] = Len(fs[x].chunks) + g[s \ {x}]
    BY DEF Sums, Chunks
  <2>7. IsFiniteSet(s) /\ n \in Nat
    BY <2>1, <2>3, FS_Subset
  <2>8. Cardinality(s \ {x}) = n - 1
    BY <2>3, <2>7, FS_RemoveElement
  <2>9. n - 1 \notin T
    BY <2>2, <2>7
  <2>10. iter[s \ {x}] = g[s \ {x}]
    BY <2>8, <2>9
  <2> QED BY <2>3, <2>5, <2>6, <2>10
<1> QED BY <1>1, <1>6

\* What ChunkCount computes: nothing over nothing, an entry's chunks and those
\* of the others, and the same for the same chunk lists.
LEMMA Counts ==
  ASSUME NEW fs, NEW S, IsFiniteSet(S), \A x \in S : Chunks(fs, x) \in Int
  PROVE  /\ ChunkCount(fs, S) \in Int
         /\ S = {} => ChunkCount(fs, S) = 0
         /\ \A x \in S : ChunkCount(fs, S) = Chunks(fs, x) + ChunkCount(fs, S \ {x})
         /\ \A fs2 : (\A x \in S : Chunks(fs2, x) = Chunks(fs, x)) =>
              ChunkCount(fs2, S) = ChunkCount(fs, S)
<1>1. PICK g : Sums(g, fs, S)
  BY SumExists
<1>2. ChunkCount(fs, S) = g[S]
  BY <1>1, SumIsCount
<1>3. g[S] \in Int /\ (S = {} => g[S] = 0)
  BY <1>1 DEF Sums
<1>4. ASSUME NEW x \in S PROVE ChunkCount(fs, S) = Chunks(fs, x) + ChunkCount(fs, S \ {x})
  <2> DEFINE Q == S \ {x}
             h == [s \in SUBSET Q |-> g[s]]
  <2>1. Sums(h, fs, Q)
    <3>1. \A s \in SUBSET Q : s \in SUBSET S /\ h[s] = g[s]
      OBVIOUS
    <3>2. h[{}] = 0 /\ \A s \in SUBSET Q : h[s] \in Int
      BY <1>1, <3>1 DEF Sums
    <3>3. \A s \in SUBSET Q : \A y \in s : s \ {y} \in SUBSET Q
      OBVIOUS
    <3>4. \A s \in SUBSET Q : \A y \in s : h[s] = Chunks(fs, y) + h[s \ {y}]
      BY <1>1, <3>1, <3>3 DEF Sums
    <3>5. h = [s \in SUBSET Q |-> h[s]]
      OBVIOUS
    <3> HIDE DEF h, Q
    <3> QED BY <3>2, <3>4, <3>5 DEF Sums
  <2>2. IsFiniteSet(Q) /\ h[Q] = g[Q]
    BY FS_RemoveElement
  <2> HIDE DEF h
  <2>3. ChunkCount(fs, Q) = g[Q]
    BY <2>1, <2>2, SumIsCount
  <2>4. g[S] = Chunks(fs, x) + g[Q]
    BY <1>1 DEF Sums
  <2> QED BY <1>2, <2>3, <2>4
<1>5. ASSUME NEW fs2, \A x \in S : Chunks(fs2, x) = Chunks(fs, x)
      PROVE  ChunkCount(fs2, S) = ChunkCount(fs, S)
  <2>1. Sums(g, fs2, S)
    BY <1>1, <1>5 DEF Sums
  <2> QED BY <1>2, <2>1, SumIsCount
<1> QED BY <1>2, <1>3, <1>4, <1>5

\* The entries of the manifest.
Indexed == {p \in Paths : files[p] # NoEntry}

\* Only finitely many paths have ever been written.
Totalled == Inductive /\ IsFiniteSet(Indexed) /\ TotalChunksExact

\* What the invariant gives of the manifest.
LEMMA TotalledTypes ==
  ASSUME Totalled
  PROVE  /\ files \in [Paths -> Entry \cup {NoEntry}] /\ totalChunks \in Int
         /\ \A p \in Indexed : Chunks(files, p) \in Int
<1>1. files \in [Paths -> Entry \cup {NoEntry}]
  BY DEF Totalled, Inductive, TypeOK
<1>2. ASSUME NEW e \in Entry PROVE Len(e.chunks) \in Int
  <2>1. e.chunks \in Seq(Nat)
    BY DEF Entry
  <2> QED BY <2>1, LenProperties
<1>3. \A p \in Indexed : Chunks(files, p) \in Int
  BY <1>1, <1>2 DEF Chunks, Indexed
<1>4. totalChunks \in Int
  BY <1>3, Counts DEF Totalled, TotalChunksExact, Indexed
<1> QED BY <1>1, <1>3, <1>4

\* An entry is put in the place of another, or of none, and the total moves by
\* the difference.
LEMMA TotalMoves ==
  ASSUME Totalled, Inductive', NEW p \in Paths, NEW e \in Entry,
         files' = [files EXCEPT ![p] = e],
         totalChunks' = totalChunks + Len(e.chunks)
                        - (IF files[p] = NoEntry THEN 0 ELSE Len(files[p].chunks))
  PROVE  Totalled'
<1> DEFINE rest == Indexed \ {p}
<1>1. /\ files \in [Paths -> Entry \cup {NoEntry}] /\ totalChunks \in Int
      /\ \A q \in Indexed : Chunks(files, q) \in Int
      /\ IsFiniteSet(Indexed) /\ totalChunks = ChunkCount(files, Indexed)
  BY TotalledTypes DEF Totalled, TotalChunksExact, Indexed
<1>2. files'[p] = e /\ e # NoEntry /\ \A q \in Paths : q # p => files'[q] = files[q]
  BY <1>1, NullAssumption
<1>3. Len(e.chunks) \in Int /\ Chunks(files', p) = Len(e.chunks)
  <2>1. e.chunks \in Seq(Nat)
    BY DEF Entry
  <2> QED BY <1>2, <2>1, LenProperties DEF Chunks
<1>4. Indexed' = Indexed \cup {p} /\ Indexed' \ {p} = rest /\ p \in Indexed'
  BY <1>2 DEF Indexed
<1>5. IsFiniteSet(Indexed') /\ IsFiniteSet(rest)
  BY <1>1, <1>4, FS_AddElement, FS_RemoveElement
<1>6. \A q \in rest : Chunks(files', q) = Chunks(files, q) /\ Chunks(files, q) \in Int
  BY <1>1, <1>2 DEF Chunks, Indexed
<1>7. \A q \in Indexed' : Chunks(files', q) \in Int
  BY <1>3, <1>4, <1>6
<1>8. ChunkCount(files', Indexed') = Len(e.chunks) + ChunkCount(files', rest)
  <2> DEFINE fs == files'
             S == Indexed'
  <2>1. IsFiniteSet(S) /\ (\A x \in S : Chunks(fs, x) \in Int) /\ p \in S
    BY <1>4, <1>5, <1>7
  <2>2. Chunks(fs, p) = Len(e.chunks) /\ S \ {p} = rest
    BY <1>3, <1>4
  <2> HIDE DEF fs, S, rest
  <2>3. ChunkCount(fs, S) = Chunks(fs, p) + ChunkCount(fs, S \ {p})
    BY <2>1, Counts
  <2>4. ChunkCount(fs, S) = Len(e.chunks) + ChunkCount(fs, rest)
    BY <2>2, <2>3
  <2> QED BY <2>4 DEF fs, S
<1>9. ChunkCount(files', rest) = ChunkCount(files, rest) /\ ChunkCount(files, rest) \in Int
  BY <1>5, <1>6, Counts
<1>10. totalChunks = (IF files[p] = NoEntry THEN 0 ELSE Len(files[p].chunks))
                     + ChunkCount(files, rest)
  <2>1. CASE files[p] = NoEntry
    <3>1. rest = Indexed
      BY <2>1 DEF Indexed
    <3>2. totalChunks = ChunkCount(files, rest) /\ totalChunks \in Int
      BY <1>1, <3>1
    <3>3. (IF files[p] = NoEntry THEN 0 ELSE Len(files[p].chunks)) = 0
      BY <2>1
    <3> HIDE DEF rest
    <3> QED BY <3>2, <3>3
  <2>2. CASE files[p] # NoEntry
    <3>1. p \in Indexed
      BY <2>2 DEF Indexed
    <3>2. ChunkCount(files, Indexed) = Chunks(files, p) + ChunkCount(files, rest)
      BY <1>1, <3>1, Counts
    <3> QED BY <1>1, <2>2, <3>2 DEF Chunks
  <2> QED BY <2>1, <2>2
<1>11. (IF files[p] = NoEntry THEN 0 ELSE Len(files[p].chunks)) \in Int
  BY <1>1 DEF Chunks, Indexed
<1>12. totalChunks' = ChunkCount(files', Indexed')
  <2> DEFINE old == IF files[p] = NoEntry THEN 0 ELSE Len(files[p].chunks)
             others == ChunkCount(files, rest)
             len == Len(e.chunks)
  <2>1. totalChunks' = totalChunks + len - old /\ totalChunks = old + others
    BY <1>10
  <2>2. ChunkCount(files', Indexed') = len + others
    BY <1>8, <1>9
  <2>3. old \in Int /\ others \in Int /\ len \in Int
    BY <1>3, <1>9, <1>11
  <2>4. \A a, b, d \in Int : (a + b) + d - a = d + b
    OBVIOUS
  <2> HIDE DEF old, others, len
  <2>5. totalChunks' = (old + others) + len - old
    BY <2>1
  <2>6. (old + others) + len - old = len + others
    BY <2>3, <2>4
  <2> QED BY <2>2, <2>5, <2>6
<1> QED BY <1>5, <1>12 DEF Totalled, TotalChunksExact, Indexed

\* The manifest stays, or it changes by one of the three calls below.
LEMMA WhoMovesManifest ==
  ASSUME [Next]_vars
  PROVE  \/ UNCHANGED <<files, totalChunks>>
         \/ \E t \in Threads : Publish(t) \/ Compact(t)
         \/ \E t \in Threads, p \in Paths : \E v \in Expectations(t, p) : StartDelete(t, p, v)
<1> USE DEF manifest
<1>1. ASSUME NEW t \in Threads, Start(t)
      PROVE  \/ UNCHANGED <<files, totalChunks>>
             \/ \E p \in Paths : \E v \in Expectations(t, p) : StartDelete(t, p, v)
  <2>1. \A p, data, v : StartWrite(t, p, data, v) => UNCHANGED <<files, totalChunks>>
    BY DEF StartWrite
  <2>2. \A p : StartRead(t, p) => UNCHANGED <<files, totalChunks>>
    BY DEF StartRead
  <2>3. \A p, kind, changes, data, n, v :
           StartDelta(t, p, kind, changes, data, n, v) => UNCHANGED <<files, totalChunks>>
    BY DEF StartDelta
  <2> QED BY <1>1, <2>1, <2>2, <2>3 DEF Start
<1>2. ASSUME NEW t \in Threads, Write(t)
      PROVE  UNCHANGED <<files, totalChunks>> \/ Publish(t)
  BY <1>2 DEF Write, Prepare, InsertChunks, CorrectNew, ReadCorrVersion, Correct, Bundle, Count
<1>3. ASSUME NEW t \in Threads, Read(t) \/ Delta(t)
      PROVE  UNCHANGED <<files, totalChunks>>
  BY <1>3 DEF Read, ReadChunk, ReadCorrection, Delta, EditChunk, EditBytes, NewChunk,
     ReadStoreVersion, InsertEdited, ReadEditCorrVersion, CorrectEdited, DrawVersion
<1>4. ASSUME NEW t \in Threads, StartCompact(t)
      PROVE  UNCHANGED <<files, totalChunks>>
  BY <1>4 DEF StartCompact
<1>5. CASE UNCHANGED vars
  BY <1>5 DEF vars
<1> QED BY <1>1, <1>2, <1>3, <1>4, <1>5 DEF Next

\* Publication: the new entry's chunks come, the old one's go.
LEMMA PublishTotalled ==
  ASSUME Totalled, Inductive', NEW t \in Threads, Publish(t)
  PROVE  Totalled'
<1> DEFINE c == call[t]
           p == c.path
           new == c.entry = NoEntry
           v == c.entry.version
           e == IF new THEN NewEntry(c) ELSE [NewEntry(c) EXCEPT !.version = v + 1]
<1>1. /\ Inductive /\ c \in Call /\ LocalOK(c, DOMAIN store, log) /\ c.pc = "publish"
  BY LocalsOfThread DEF Publish, Totalled
<1>2. /\ p \in Paths /\ c.kind \in DeltaKinds \cup {"write"}
      /\ c.kind \in DeltaKinds => c.entry # NoEntry
      /\ c.entry # NoEntry => StoredIn(c.entry, DOMAIN store)
      /\ \A i \in DOMAIN c.ids : c.ids[i] \in DOMAIN store
  BY <1>1 DEF LocalOK, StageOK, IdsOK, AnsweredPCs
<1>3. NewEntry(c) \in Entry
  BY <1>1, <1>2, NewEntryType
<1>4. e \in Entry /\ e.chunks = NewEntry(c).chunks
  <2>1. ~new => v + 1 \in Nat
    BY <1>1 DEF Call, Entry
  <2> HIDE DEF v
  <2> QED BY <1>3, <2>1 DEF Entry
<1>5. \/ UNCHANGED <<files, totalChunks>>
      \/ /\ files' = [files EXCEPT ![p] = e]
         /\ totalChunks' = totalChunks + Len(NewEntry(c).chunks)
                           - (IF files[p] = NoEntry THEN 0 ELSE Len(files[p].chunks))
  <2>1. CASE UNCHANGED manifest
    BY <2>1 DEF manifest
  <2>2. CASE new /\ CanAdd(p) /\ AddFile(p, NewEntry(c))
    <3>1. totalChunks \in Int /\ Len(NewEntry(c).chunks) \in Int
      <4>1. NewEntry(c).chunks \in Seq(Nat)
        BY <1>3 DEF Entry
      <4> QED BY <4>1, TotalledTypes, LenProperties
    <3> QED BY <2>2, <3>1 DEF CanAdd, AddFile
  <2>3. CASE ~new /\ CanUpdate(p, v) /\ UpdateFile(p, NewEntry(c), v)
    BY <2>3 DEF CanUpdate, UpdateFile
  <2> QED BY <2>1, <2>2, <2>3 DEF Publish
<1> HIDE DEF e
<1>6. CASE UNCHANGED <<files, totalChunks>>
  BY <1>6 DEF Totalled, TotalChunksExact, Indexed
<1>7. CASE files' = [files EXCEPT ![p] = e]
           /\ totalChunks' = totalChunks + Len(NewEntry(c).chunks)
                             - (IF files[p] = NoEntry THEN 0 ELSE Len(files[p].chunks))
  BY <1>2, <1>4, <1>7, TotalMoves
<1> QED BY <1>5, <1>6, <1>7

\* Deletion: the entry stays, and so do its chunks.
LEMMA DeleteTotalled ==
  ASSUME Totalled, Inductive', NEW t \in Threads, NEW p \in Paths, NEW v, StartDelete(t, p, v)
  PROVE  Totalled'
<1> DEFINE w == v + 1
           e == [files[p] EXCEPT !.deleted = TRUE, !.version = w]
<1>1. files \in [Paths -> Entry \cup {NoEntry}] /\ totalChunks \in Int
      /\ \A q \in Indexed : Chunks(files, q) \in Int
  BY TotalledTypes
<1>2. totalChunks' = totalChunks
      /\ \/ UNCHANGED files
         \/ CanUpdate(p, v) /\ files' = [files EXCEPT ![p].deleted = TRUE, ![p].version = v + 1]
  BY DEF StartDelete
<1>3. CASE UNCHANGED files
  BY <1>2, <1>3 DEF Totalled, TotalChunksExact, Indexed
<1>4. CASE CanUpdate(p, v) /\ files' = [files EXCEPT ![p].deleted = TRUE, ![p].version = v + 1]
  <2>1. files[p] \in Entry /\ files[p] # NoEntry /\ v \in Nat /\ p \in Indexed
    BY <1>1, <1>4 DEF CanUpdate, Entry, Indexed
  <2>2. e \in Entry /\ e.chunks = files[p].chunks
    <3>1. w \in Nat
      BY <2>1
    <3> HIDE DEF w
    <3> QED BY <2>1, <3>1 DEF Entry
  <2>3. files' = [files EXCEPT ![p] = e]
    BY <1>1, <1>4
  <2> HIDE DEF e
  <2>4. Len(e.chunks) \in Int /\ Len(files[p].chunks) = Len(e.chunks)
    BY <1>1, <2>1, <2>2 DEF Chunks
  <2>5. totalChunks' = totalChunks + Len(e.chunks)
                       - (IF files[p] = NoEntry THEN 0 ELSE Len(files[p].chunks))
    BY <1>1, <1>2, <2>1, <2>4
  <2> QED BY <2>2, <2>3, <2>5, TotalMoves
<1> QED BY <1>2, <1>3, <1>4

\* Compaction: what is left is counted afresh.
LEMMA CompactTotalled ==
  ASSUME Totalled, Inductive', NEW t \in Threads, Compact(t)
  PROVE  Totalled'
<1> DEFINE gone == {p \in Paths : files[p] # NoEntry /\ files[p].deleted}
           kept == Indexed \ gone
<1>1. \/ UNCHANGED <<files, totalChunks>>
      \/ /\ files' = [p \in Paths |-> IF p \in gone THEN NoEntry ELSE files[p]]
         /\ totalChunks' = ChunkCount(files, kept)
  BY DEF Compact, manifest, Indexed
<1>2. CASE UNCHANGED <<files, totalChunks>>
  BY <1>2 DEF Totalled, TotalChunksExact, Indexed
<1>3. CASE /\ files' = [p \in Paths |-> IF p \in gone THEN NoEntry ELSE files[p]]
           /\ totalChunks' = ChunkCount(files, kept)
  <2>1. Indexed' = kept /\ \A p \in kept : files'[p] = files[p]
    BY <1>3 DEF Indexed
  <2>2. IsFiniteSet(kept) /\ \A p \in kept : Chunks(files, p) \in Int
    BY TotalledTypes, FS_Subset DEF Totalled
  <2>3. ChunkCount(files', kept) = ChunkCount(files, kept)
    BY <2>1, <2>2, Counts DEF Chunks
  <2> QED BY <1>3, <2>1, <2>2, <2>3 DEF Totalled, TotalChunksExact, Indexed
<1> QED BY <1>1, <1>2, <1>3

\* At the start the manifest has at most one entry.
LEMMA TotalledInit == ASSUME Init PROVE Totalled
<1> DEFINE n == ChunksIn(InitContent)
           ids == [i \in 1..n |-> i]
           first == [version |-> 0, chunks |-> ids, size |-> Len(InitContent),
                     indexed |-> FALSE, deleted |-> FALSE]
<1>1. /\ files = [p \in Paths |-> IF p = InitPath THEN first ELSE NoEntry]
      /\ totalChunks = IF InitPath # NoPath THEN n ELSE 0
  BY DEF Init
<1>2. n \in Nat /\ Inductive
  BY RequestType, ChunksInNat, InitOK
<1>3. Len(ids) = n /\ first.chunks = ids
  <2> HIDE DEF n
  <2>1. ids \in [1..n -> Nat]
    BY <1>2
  <2> QED BY <1>2, <2>1, SeqOfFunction
<1> HIDE DEF first, ids, n
<1>4. files \in [Paths -> Entry \cup {NoEntry}]
  BY <1>2 DEF Inductive, TypeOK
<1>5. CASE InitPath = NoPath
  <2>1. Indexed = {}
    BY <1>1, <1>5, NullAssumption DEF Indexed
  <2>2. IsFiniteSet({}) /\ ChunkCount(files, {}) = 0
    BY FS_EmptySet, Counts
  <2> QED BY <1>1, <1>2, <1>5, <2>1, <2>2 DEF Totalled, TotalChunksExact, Indexed
<1>6. CASE InitPath # NoPath
  <2>1. InitPath \in Paths /\ files[InitPath] = first
    BY <1>1, <1>6, InitAssumption
  <2>2. CASE first = NoEntry
    <3>1. files = [p \in Paths |-> NoEntry] /\ LogBacked
      BY <1>1, <1>2, <2>2 DEF Inductive
    <3>2. ids \in Seq(Nat) /\ Len(InitContent) \in Nat
      <4>1. ids \in [1..n -> Nat]
        BY <1>2 DEF ids
      <4> QED BY <1>2, <4>1, SeqOfFunction, RequestType, LenProperties
    <3>3. first \in Entry
      BY <3>2 DEF first, Entry
    <3> QED BY <2>2, <3>3, NullAssumption
  <2>3. CASE first # NoEntry
    <3>1. Indexed = {InitPath}
      BY <1>1, <2>1, <2>3 DEF Indexed
    <3>2. IsFiniteSet({InitPath}) /\ IsFiniteSet({})
      BY FS_Singleton, FS_EmptySet
    <3>3. Chunks(files, InitPath) = n
      BY <1>3, <2>1 DEF Chunks
    <3>4. {InitPath} \ {InitPath} = {} /\ \A x \in {InitPath} : Chunks(files, x) \in Int
      BY <1>2, <3>3
    <3>5. ChunkCount(files, {InitPath}) = Chunks(files, InitPath) + ChunkCount(files, {})
      BY <3>2, <3>4, Counts
    <3>6. ChunkCount(files, {}) = 0
      BY <3>2, Counts
    <3>7. totalChunks = ChunkCount(files, Indexed)
      BY <1>1, <1>2, <1>6, <3>1, <3>3, <3>5, <3>6
    <3> QED BY <1>2, <3>1, <3>2, <3>7 DEF Totalled, TotalChunksExact, Indexed
  <2> QED BY <2>2, <2>3
<1> QED BY <1>5, <1>6

\* total_chunks is the number of chunks of the entries, deleted ones included,
\* whatever is written, edited, deleted or compacted: it never underflows.
THEOREM TotalIsExact == Spec => []TotalChunksExact
<1>1. Init => Totalled
  BY TotalledInit
<1>2. ASSUME Totalled, [Next]_vars PROVE Totalled'
  <2>1. Inductive'
    BY <1>2, NextOK DEF Totalled
  <2>2. CASE UNCHANGED <<files, totalChunks>>
    BY <1>2, <2>1, <2>2 DEF Totalled, TotalChunksExact, Indexed
  <2> QED BY <1>2, <2>1, <2>2, WhoMovesManifest, PublishTotalled, CompactTotalled, DeleteTotalled
<1>3. Totalled => TotalChunksExact
  BY DEF Totalled
<1> QED BY <1>1, <1>2, <1>3, PTL DEF Spec
=============================================================================
